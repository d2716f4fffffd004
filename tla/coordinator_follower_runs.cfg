CONSTANTS
  None = None
  Procs = {p1, p2}
  Prompt = {}
  Host <- OwnHosts
  LeaseTTL = 5
  RenewInterval = 2
  MaxLag = 1
  MaxToken = 1
  MaxFaults = 0
  MaxStops = 0
  MaxLosses = 0
  PromptCallbacks = TRUE
SPECIFICATION CSpec
INVARIANT FollowersPause

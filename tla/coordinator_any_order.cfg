CONSTANTS
  None = None
  Procs = {p1}
  Prompt = {}
  Host <- OwnHosts
  LeaseTTL = 2
  RenewInterval = 1
  MaxLag = 0
  MaxToken = 3
  MaxFaults = 1
  MaxStops = 1
  MaxLosses = 1
  PromptCallbacks = FALSE
SPECIFICATION CFairSpec
PROPERTY LeaderDetects

CONSTANTS
  None = None
  Procs = {p1, p2}
  Prompt = {}
  Host <- OwnHosts
  LeaseTTL = 5
  RenewInterval = 2
  MaxLag = 1
  MaxToken = 2
  MaxFaults = 1
  MaxStops = 1
  MaxLosses = 1
SPECIFICATION FairSpec
INVARIANT TypeOK
PROPERTY SplitBrainHeals
PROPERTY LeadershipRecovers

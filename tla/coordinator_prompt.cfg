CONSTANTS
  None = None
  Procs = {p1, p2, p3}
  Prompt = {p1, p2, p3}
  Host <- OwnHosts
  LeaseTTL = 5
  RenewInterval = 2
  MaxLag = 1
  MaxToken = 2
  MaxFaults = 1
  MaxStops = 2
  MaxLosses = 0
  PromptCallbacks = TRUE
SPECIFICATION TSpec
INVARIANT CTypeOK
INVARIANT OneDetector
INVARIANT FollowersPause
PROPERTY DeposedLeaderSendsNothing
INVARIANT AtMostOneLeader
INVARIANT LeaderHoldsLease
INVARIANT RenewalInTime
INVARIANT FailoverBounded
PROPERTY RenewExtendsOwnLease
PROPERTY ReleasesOwnLease

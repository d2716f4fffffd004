CONSTANTS
  n1 = n1
  n2 = n2
  c1 = c1
  c2 = c2
  t1 = t1
  t2 = t2
  ac1 = ac1
  ac2 = ac2
  at1 = at1
  at2 = at2
  det = det
  Nodes = {n1, n2}
  Commits = {c1}
  Tickets = {t1}
  Keys = {c1, t1, ac1, at1}
  AlertOf <- TheAlerts
  Api = api
  Detectors = {det}
  Clients = {api, det}
  Primary <- ThePrimary
  Replica <- TheReplica
  WritesTo <- TheWriters
  Skew <- NoSkew
  Gap = 1
  Deletes = FALSE
  StaleAfter = 100
  MaxWrites = 2
  MaxFaults = 1
  MaxLate = 1
  MaxCrashes = 1
  MaxAges = 1
  MaxPasses = 2
SPECIFICATION DSpec
CONSTRAINT OneFailure
CHECK_DEADLOCK FALSE
INVARIANT DTypeOK
INVARIANT NoFalseAlarm
INVARIANT UntrackedRaised
INVARIANT SilentTicketsRaised

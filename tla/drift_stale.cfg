CONSTANTS
  n1 = n1
  n2 = n2
  c1 = c1
  c2 = c2
  t1 = t1
  t2 = t2
  ac1 = ac1
  ac2 = ac2
  at1 = at1
  at2 = at2
  det = det
  Nodes = {n1, n2}
  Commits = {c1}
  Tickets = {t1}
  Keys = {c1, t1, ac1, at1}
  AlertOf <- TheAlerts
  Api = api
  Detectors = {det}
  Clients = {api, det}
  Primary <- ThePrimary
  Replica <- TheReplica
  WritesTo <- TheWriters
  Skew <- NoSkew
  Gap = 1
  Deletes = FALSE
  StaleAfter = 100
  MaxWrites = 2
  MaxFaults = 0
  MaxLate = 0
  MaxCrashes = 0
  MaxAges = 1
  MaxPasses = 2
SPECIFICATION DSpec
CHECK_DEADLOCK FALSE
INVARIANT StaleTicketsRaised

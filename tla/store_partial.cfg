CONSTANTS
  n1 = n1
  n2 = n2
  n3 = n3
  k1 = k1
  k2 = k2
  w1 = w1
  r1 = r1
  Nodes = {n1, n2}
  Keys = {k1}
  Clients = {w1, r1}
  Primary <- ThePrimary
  Replica <- TheReplica
  WritesTo <- OneWriter
  Deletes = TRUE
  Skew <- TheSkew
  Gap = 2
  MaxWrites = 3
  MaxFaults = 1
  MaxLate = 1
  MaxCrashes = 1
SPECIFICATION HSpec
INVARIANT TypeOK
INVARIANT AckedOnAReplica
INVARIANT NodesAgree
INVARIANT GetFindsAcked
INVARIANT ListFindsNewest
PROPERTY ImplementsKVStore

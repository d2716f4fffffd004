CONSTANTS
  Addrs = {a1, a2, a3}
  HashSize = 6
  VirtualNodes = 2
  MaxCollisions = 1
  MaxPoints = 6
SPECIFICATION Spec
INVARIANT TypeOK
INVARIANT LookupIsSuccessor
INVARIANT ReplicasDistinct
PROPERTY OnlyOwnKeysMove
PROPERTY SuccessorTakesOver
SYMMETRY Symmetry

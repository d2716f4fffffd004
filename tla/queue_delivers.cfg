CONSTANTS
  Malformed = Malformed
  Consumers = {c1, c2}
  Keys = {k1}
  Replicas = 2
  BatchSize = 2
  MaxEntries = 3
  MaxFaults = 2
  MaxLates = 0
  MaxCrashes = 1
  MaxRedisRestarts = 0
SPECIFICATION FairSpec
CHECK_DEADLOCK FALSE
PROPERTY EveryEntryDelivered

CONSTANTS
  Malformed = Malformed
  Consumers = {c1}
  Keys = {k1}
  Replicas = 0
  BatchSize = 2
  MaxEntries = 2
  MaxFaults = 0
  MaxLates = 0
  MaxCrashes = 1
  MaxRedisRestarts = 0
SPECIFICATION FairSpec
CHECK_DEADLOCK FALSE
PROPERTY PendingRedelivered

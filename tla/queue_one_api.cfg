CONSTANTS
  Malformed = Malformed
  Consumers = {c1}
  Keys = {k1, k2}
  Replicas = 2
  BatchSize = 2
  MaxEntries = 3
  MaxFaults = 2
  MaxLates = 1
  MaxCrashes = 1
  MaxRedisRestarts = 1
SPECIFICATION Spec
CHECK_DEADLOCK FALSE
INVARIANT TypeOK
INVARIANT AckImpliesStored
INVARIANT SettledBeforeBatch
INVARIANT AbandonedOnlyByFailures
PROPERTY FactsNeverRegress
SYMMETRY Symmetry

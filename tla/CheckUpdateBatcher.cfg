SPECIFICATION Spec
CONSTANTS
  Checks = {c1, c2, c3}
  ConfigMaxBatchSize = 2
  MaxTxnOps = 64
  FlushInterval = 2
  MaxUpdates = 4
INVARIANTS
  TypeOK
  NoUpdateStranded
  WaitBounded
  BatchSizeBounded
  LatestKept
PROPERTIES
  EventuallyProcessed
  ImplementsUpdateBuffer
CHECK_DEADLOCK FALSE

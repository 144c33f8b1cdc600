SPECIFICATION Spec
CONSTANTS
  t1 = t1
  t2 = t2
  Task <- MCTask
  ChunkSize = 2
  RxCapacity = 2
  TxCapacity = 1
  CounterMax = 3
  MaxBurst = 2
  MaxBytes = 3
  MaxInvalid = 1
INVARIANTS
  TypeOK
  SingleOwner
  RxInOrder
  RxBalance
  TxBalance
  OneChunkAfterStop
PROPERTIES
  OkOnlyAfterStop
  StopEndsRun
  QueuedByteHandled

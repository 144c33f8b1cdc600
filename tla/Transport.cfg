SPECIFICATION Spec
CONSTANTS
  Byte <- MCByte
  Payload <- MCPayload
  MaxAttempts = 3
  FormatBuffer = 4
INVARIANTS
  TypeOK
  SentIsPrefix
  OkMeansDelivered
  RetryableMeansIncomplete
PROPERTIES
  WriteReturns

SPECIFICATION PolledSpec
CONSTANTS
  CsiMax = 1
  LineMax = 1
  Depth = 0
  SlotSize = 2
  SecureClear = FALSE
  Offered <- MCOffered
  AppLine <- MCNoLines
  MaskedLine <- MCNoLines
  Word <- MCWord
  MaxDepth = 2
  ScanMax = 3
  Roots <- MCNoRoots
  Builtins = FALSE
  Capacity = 2
  Typing <- MCTyping
  Limits <- MCLimits
  QueueSize = 2
  MaxRaw = 4
  MaxErrors = 1
INVARIANTS
  LinesAsTyped
  NoDataMeansDrained
PROPERTIES
  EveryByteHandled

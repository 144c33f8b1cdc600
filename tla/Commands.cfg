SPECIFICATION SessionSpec
CONSTANTS
  Line <- MCLine
  Capacity = 3
  Word <- MCWord
  MaxDepth = 2
  HiddenWord <- MCHidden
  Secret <- MCSecret
  HistoryMax = 8
  Nested <- MCNested
  Vector <- MCVector
  Tables <- MCTables
  Command <- MCCommand
  HandlerStatus <- MCStatus
  MaxNesting = 3
  MaxCalls = 1
  LineMax = 8
  Depth = 1
  SlotSize = 9
INVARIANTS
  InPlaceIsSafe
  TokensAsDocumented
  ArgsAsTyped
  EveryLeafReachable
  EchoFollowsLine
PROPERTIES
  RecordedReplays

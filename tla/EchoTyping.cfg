SPECIFICATION SessionSpec
CONSTANTS
  Line <- MCSecretLine
  Capacity = 3
  Word <- MCWord
  MaxDepth = 2
  HiddenWord <- MCHidden
  Secret <- MCSecret
  HistoryMax = 8
  Nested <- MCNested
  Vector <- MCVector
  Tables <- MCTables
  Command <- MCCommand
  HandlerStatus <- MCStatus
  MaxNesting = 3
  MaxCalls = 1
  LineMax = 9
  Depth = 1
  SlotSize = 10
INVARIANTS
  EchoHidesArguments

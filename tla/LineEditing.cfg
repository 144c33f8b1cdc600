SPECIFICATION Spec
CONSTANTS
  CsiMax = 1
  LineMax = 5
  Depth = 0
  SlotSize = 6
  SecureClear = FALSE
  Offered <- MCEditing
  AppLine <- MCNoLines
  MaskedLine <- MCNoLines
  Word <- MCWord
  MaxDepth = 2
  ScanMax = 3
  Roots <- MCRoots
  Builtins = TRUE
  Capacity = 3
INVARIANTS
  CompletionAgreesWithDispatch
PROPERTIES
  ImplementsEditBuffer

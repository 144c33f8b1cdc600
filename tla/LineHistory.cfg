SPECIFICATION Spec
CONSTANTS
  CsiMax = 1
  LineMax = 2
  Depth = 2
  SlotSize = 4
  SecureClear = FALSE
  Offered <- MCRecalling
  AppLine <- MCAppLines
  MaskedLine <- MCRebuilt
  Word <- MCWord
  MaxDepth = 2
  ScanMax = 3
  Roots <- MCNoRoots
  Builtins = FALSE
  Capacity = 2
INVARIANTS
  TypeOK
PROPERTIES
  BrowsingShowsEntry
  ImplementsEditBuffer

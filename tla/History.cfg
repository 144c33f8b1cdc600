SPECIFICATION Spec
CONSTANTS
  Byte <- MCByte
  Depth = 4
  SlotSize = 3
  Line <- MCAnyLines
  Stale <- MCStale
INVARIANTS
  TypeOK
  NoShortDuplicates
PROPERTIES
  RingIsLog

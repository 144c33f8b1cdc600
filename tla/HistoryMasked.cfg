SPECIFICATION Spec
CONSTANTS
  Byte <- MCByte
  Depth = 3
  SlotSize = 3
  Line <- MCOneLongLine
  Stale <- MCStale
INVARIANTS
  NoAdjacentDuplicates

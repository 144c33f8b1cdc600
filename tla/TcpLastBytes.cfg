SPECIFICATION Spec
CONSTANTS
  ChunkSize = 2
  MaxLen = 2
INVARIANTS
  EndIsApplied

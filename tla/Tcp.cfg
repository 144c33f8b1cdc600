SPECIFICATION Spec
CONSTANTS
  ChunkSize = 2
  MaxLen = 2
INVARIANTS
  CloseNotifiedOnce
  NoIoAfterClose
  ResultMatchesState
  WriteReplyInContract
PROPERTIES
  EndIsFinal

SPECIFICATION ReaderSpec
CONSTANTS
  Images <- MCImages
  Memories <- MCMemories
  StackStructs <- MCStackStructs
INVARIANTS
  ReaderTypeOK
  ReadsInBounds
  FaithfulRead
  CursorInStep
  ArraysFilled
CHECK_DEADLOCK FALSE

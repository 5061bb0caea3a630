SPECIFICATION ReaderSpec
CONSTANTS
  Images <- MCImages
  Memories <- MCMemories
  StackStructs <- MCStackStructs
INVARIANT InfoReadAtInfoOffset
CHECK_DEADLOCK FALSE

SPECIFICATION ReaderSpec
CONSTANTS
  Images <- MCImages
  Memories <- MCMemories
  StackStructs <- MCStackStructs
INVARIANT InvalidCupsNotUsed
CHECK_DEADLOCK FALSE

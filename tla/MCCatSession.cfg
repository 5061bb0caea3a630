SPECIFICATION SessionSpec
CONSTANTS
  Contents <- MCContents
  Callers = {"checksum", "checksum_buffer", "cat", "write"}
  MaxChanges = 2
  InPlace = FALSE
  Memories <- MCMemories
  StackStructs <- MCStacks
  AppStates <- MCAppStates
  Stops = {100}
INVARIANTS
  SessionTypeOK
  ShownIsTheFile
PROPERTY LoadsAtomically
CHECK_DEADLOCK FALSE

SPECIFICATION BufferSpec
CONSTANTS
  Contents <- MCContents
  Callers = {"checksum", "checksum_buffer", "cat", "write"}
  MaxChanges = 3
  InPlace = TRUE
INVARIANTS
  BufferTypeOK
  UsedBytesWereRead
  BytesOfTheFile
  ResourcesReleased
  EmptyIsExplained
PROPERTIES
  CallEnds
  CallMovesOn
CHECK_DEADLOCK FALSE

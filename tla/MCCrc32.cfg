SPECIFICATION CrcSpec
CONSTANTS
  Files <- MCFiles
  IntRange = 32
  Builds = {"fast", "bitwise"}
  Table <- MCTable
  Crc <- MCCrc
INVARIANTS
  CrcTypeOK
  RegisterIsCrc
  ResultIsCrc
CHECK_DEADLOCK FALSE

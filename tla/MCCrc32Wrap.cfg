SPECIFICATION CrcSpec
CONSTANTS
  Files <- MCFiles
  IntRange = 16
  Builds = {"fast"}
  Table <- MCTable
  Crc <- MCCrc
INVARIANT ChecksumOfTheFile
CHECK_DEADLOCK FALSE

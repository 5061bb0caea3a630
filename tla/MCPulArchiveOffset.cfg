SPECIFICATION ArchiveSpec
CONSTANTS
  Images <- MCLooseImages
  Memories <- MCMemories
  StackStructs <- MCStackStructs
  Paths <- MCPaths
  PulPath = "pul"
  OldFiles <- MCOld
  Blocks <- MCBlocks
  Requests <- MCRequests
  MaxCalls = 3
  FillCalls = 0
INVARIANT BmgAtBmgOffset
CHECK_DEADLOCK FALSE

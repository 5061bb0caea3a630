SPECIFICATION ArchiveSpec
CONSTANTS
  Images <- MCImages
  Memories <- MCMemories
  StackStructs <- MCStackStructs
  Paths <- MCPaths
  PulPath = "pul"
  OldFiles <- MCOld
  Blocks <- MCOneBlock
  Requests <- MCRequests
  MaxCalls = 3
  FillCalls = 1
INVARIANTS
  ArchiveTypeOK
  LoopsInBounds
  ExportsPartitionTheRest
  ExportedTextIsAnEnd
  ReassemblyIsIdentity
  TornFileIsPrefix
  CallsInStep
PROPERTY KeepsStore
CHECK_DEADLOCK FALSE

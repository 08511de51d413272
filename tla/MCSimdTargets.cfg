SPECIFICATION VectorsSpec
CONSTANTS
  Targets = {"westmere", "haswell", "arm64"}
  MaxOps = 2
  Operations <- AllOperations
  Tables <- TwoTables
  Blocks <- AllBlocks
CHECK_DEADLOCK FALSE
INVARIANTS VectorsTypeOK AsciiIsAscii MasksAreLanes ComparisonsAgree
PROPERTY ImplementsVector64

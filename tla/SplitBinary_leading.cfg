SPECIFICATION SplitSpec
CONSTANTS
  AddrSpace = 14
  LoadAddr = 3
  Binaries <- ZeroFiles
  MinZeros = 2
  InitParts = 8
INVARIANT ZerosAreUploaded
CHECK_DEADLOCK FALSE

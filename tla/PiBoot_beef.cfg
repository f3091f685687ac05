SPECIFICATION FairSpec
CONSTANTS
  AddrSpace = 16
  LoadAddr = 4
  Binaries <- MCBinaries
  MinZeros = 2
  InitParts = 1
  BufferSize = 256
  CommandLines <- BeefLines
  Garbage <- MCGarbage
  Faults = {}
INVARIANT BeefIsForElf
\* A run of piboot ends.
CHECK_DEADLOCK FALSE

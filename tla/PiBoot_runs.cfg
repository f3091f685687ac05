SPECIFICATION FairSpec
CONSTANTS
  AddrSpace = 16
  LoadAddr = 4
  Binaries <- MCBinaries
  MinZeros = 2
  InitParts = 1
  BufferSize = 256
  CommandLines <- AllLines
  Garbage <- MCGarbage
  Faults = {"port", "response", "hangup"}
INVARIANT PiBootTypeOK
INVARIANT PartsFit
INVARIANT PartsAreFile
INVARIANT BigZerosAreCommands
 
INVARIANT StartedIsAsked
INVARIANT NothingWithoutContact
INVARIANT BufferHolds
INVARIANT QuietUnlessFailed
INVARIANT VerboseSaysOnce
PROPERTY RunEnds
PROPERTY StepsComeToAnEnd
\* A run of piboot ends.
CHECK_DEADLOCK FALSE

SPECIFICATION FairSpec
CONSTANTS
  LoadAddr = 8
  RunAddr = 64
  StartupSize = 12
  AddrSpace = 112
  Sizes <- MCSizes
  CounterRange = 16
  Delays = {0, 7, 12}
  MaxGap = 3
  Boards = {"rpi", "rpi2"}
  Left <- MCLeft
INVARIANT DriversTypeOK
INVARIANT Relocated
INVARIANT DelayIsExact
INVARIANT PinsAreOurs
INVARIANT LedShowsWaiting
INVARIANT ResetIsFull
PROPERTY OtherPinsKept
PROPERTY StartsRunning
PROPERTY DelayEnds

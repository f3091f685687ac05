SPECIFICATION FairSpec
CONSTANTS
  AddrSpace = 6
  RunStart = 3
  RunAddr = 4
  RunEnd = 5
  HdrLen = 2
  Data = {"d1"}
  Packets <- AnyPackets
  GarbledSizes = {2}
  FifoCap = 2
  TxCap = 2
  Window = 3
  FwRegs <- MCFwRegs
  KernelRegs <- MCKernelRegs
  KernelMay = {"return", "trash", "disarm", "print"}
  Noise = {"header", "payload"}
  MaxFaults = 1
  MaxSends = 2
INVARIANT HostTypeOK
INVARIANT WatchdogIsForPrograms
PROPERTY LoaderKeepsItself
PROPERTY WatchdogBringsBack
CHECK_DEADLOCK FALSE

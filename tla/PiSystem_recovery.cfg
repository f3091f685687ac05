SPECIFICATION FairSpec
CONSTANTS
  AddrSpace = 6
  RunStart = 3
  RunAddr = 4
  RunEnd = 5
  HdrLen = 2
  Data = {"d1"}
  Packets <- RecoveryPackets
  GarbledSizes = {0, 2}
  FifoCap = 2
  TxCap = 1
  Window = 3
  FwRegs <- MCFwRegs
  KernelRegs <- MCKernelRegs
  KernelMay = {"return"}
  Noise = {"header", "payload"}
  MaxFaults = 1
  Jobs <- RecoveryJobs
  MaxSessions = 0
  Impatient = FALSE
PROPERTY Recovery
PROPERTY AckInStep
CHECK_DEADLOCK FALSE

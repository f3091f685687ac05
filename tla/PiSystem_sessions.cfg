SPECIFICATION HistSpec
CONSTANTS
  AddrSpace = 8
  RunStart = 5
  RunAddr = 6
  RunEnd = 7
  HdrLen = 2
  Data = {"d1", "d2"}
  Packets <- MCPackets
  GarbledSizes = {0, 2}
  FifoCap = 2
  TxCap = 2
  Window = 3
  FwRegs <- MCFwRegs
  KernelRegs <- MCKernelRegs
  KernelMay = {"return", "print"}
  Noise = {"payload"}
  MaxFaults = 1
  Jobs <- MCJobs
  MaxSessions = 3
  Impatient = TRUE
INVARIANT ClientTypeOK
INVARIANT ExecSeesImage
INVARIANT ExecIsAnswered
PROPERTY AckIsOwn
PROPERTY ImplementsUpload
CHECK_DEADLOCK FALSE

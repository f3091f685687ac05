SPECIFICATION Spec
CONSTANTS
  AddrSpace = 8
  RunStart = 4
  RunAddr = 5
  RunEnd = 6
  HdrLen = 2
  Data = {"d1", "d2"}
  Packets <- StartPackets
  GarbledSizes = {0, 2}
  FifoCap = 2
  TxCap = 2
  Window = 3
  FwRegs <- MCFwRegs
  KernelRegs <- MCKernelRegs
  KernelMay = {"return", "disarm"}
  Noise = {}
  MaxFaults = 0
  MaxSends = 2
INVARIANT KernelGetsBootRegisters
CHECK_DEADLOCK FALSE

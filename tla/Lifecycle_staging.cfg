CONSTANTS
  NSlots = 2
  CounterBits = 3
  MaxPolls = 2
  Opcodes <- MCLifeOpcodes
  DeviceStatuses <- MCLifeStatuses
  NumQueues = 2
  LoopOps <- MCLoopOps
  SingleOps <- MCSingleOps
  MaxOps = 3
SPECIFICATION LifeSpec
INVARIANTS
  StagingLiveWhileDeviceOwns




CONSTANTS
  NSlots = 2
  CounterBits = 2
  MaxPolls = 2
  Opcodes <- MCOpcodes
  DeviceStatuses <- MCStatuses
SPECIFICATION Spec
INVARIANT
  ExportedCountsAddUp

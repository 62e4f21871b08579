CONSTANTS
  NSlots = 2
  CounterBits = 2
  MaxPolls = 2
  Opcodes <- MCOneOpcode
  DeviceStatuses <- MCStatuses
SPECIFICATION Spec
INVARIANTS
  TypeOK
  DeviceConsumesOnlyIssued
  IssueNeverOverflows
  RingInv
PROPERTIES
  ReportedErrorGenuine
  ExecuteTerminates

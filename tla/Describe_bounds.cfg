CONSTANTS
  AdminqSize = 4096
  MaxRingSize = 1024
  Descriptors <- MCHugeDescriptors
  ExecErrors <- MCExecErrors
SPECIFICATION Spec
INVARIANT
  ReadsWithinBuffer
CHECK_DEADLOCK FALSE

CONSTANTS
  AdminqSize = 4096
  MaxRingSize = 1024
  Descriptors <- MCJumboDescriptors
  ExecErrors <- MCExecErrors
SPECIFICATION Spec
INVARIANT
  JumboRaisesMtu
CHECK_DEADLOCK FALSE

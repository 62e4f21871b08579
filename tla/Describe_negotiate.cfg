CONSTANTS
  AdminqSize = 4096
  MaxRingSize = 1024
  Descriptors <- MCDescriptors
  ExecErrors <- MCExecErrors
SPECIFICATION Spec
INVARIANTS
  TypeOK
  NegotiationMatchesReference
CHECK_DEADLOCK FALSE

CONSTANTS
  NumRxQueues = 2
  NumTxQueues = 1
  MaxBumps = 3
  CallerTotals <- MCCallerTotals
SPECIFICATION Spec
INVARIANTS
  TypeOK
  AccumBetweenSnapshots

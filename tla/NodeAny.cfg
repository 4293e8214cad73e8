\* Stamps in any order, repeated, late or restarted; a queue of two groups.
CONSTANTS
  ScanGuard = 1
  RestartJump = 1
  MaxQueue = 2
  InitSamples = 1
  Stamps <- AnyStamps
  Jumps <- AnyJump
  MaxArrivals = 6
SPECIFICATION Spec
INVARIANTS
  TypeOK
  EstimatorMatchesScan
  ImuInOrder
  GroupsBracketed
  WakeUpPending

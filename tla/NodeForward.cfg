\* Each topic moves forward; the queue holds two groups, so drops chain.
CONSTANTS
  ScanGuard = 0
  RestartJump = 1
  MaxQueue = 2
  InitSamples = 1
  Stamps <- ForwardStamps
  Jumps <- ForwardJumps
  MaxArrivals = 10
SPECIFICATION Spec
INVARIANTS
  GroupsBracketed
PROPERTIES
  NoImuLost
  ScansInOrder

\* Liveness: messages stop at some point, the threads go on. A window of two samples.
CONSTANTS
  ScanGuard = 0
  RestartJump = 0
  MaxQueue = 1
  InitSamples = 2
  Stamps <- FewStamps
  Jumps <- AnyJump
  MaxArrivals = 5
SPECIFICATION FairSpec
PROPERTIES
  RequestsServed
  ScansServed
  ShutdownCompletes

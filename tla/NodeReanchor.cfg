\* Does the watchdog keep the scans of a new run in order?
CONSTANTS
  ScanGuard = 0
  RestartJump = 1
  MaxQueue = 2
  InitSamples = 1
  Stamps <- AnyStamps
  Jumps <- AnyJump
  MaxArrivals = 7
SPECIFICATION Spec
PROPERTIES
  ScansInOrder

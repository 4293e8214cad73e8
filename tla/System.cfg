\* Node and estimator: drops that merge, and an IMU that restarts.
CONSTANTS
  ScanGuard = 1
  RestartJump = 1
  MaxQueue = 1
  InitSamples = 1
  Stamps <- SomeStamps
  Jumps <- Periods
  MaxArrivals = 8
  Spans <- Sweep
  Points <- Yes
  MaxAnchorGap = 0
  MaxChainGap = 20
  UseTight = TRUE
  Warmup = 1
  ConstantVelocity = TRUE
  MaxImuGap = 2
  PlaneScans = 1
  PosteriorExists <- Yes
  Leaves = FALSE
  MaxScans = 8
SPECIFICATION SystemSpec
INVARIANTS
  EstimatorAsAssumed
  EveryScanDeskewed
PROPERTIES
  FactorSpansPoses
  CalibrationOfRun
  DiscardedUnpreceded

\* Loose, then tight: sweeps that jitter, drops, scans without points, a restart.
CONSTANTS
  MaxAnchorGap = 1
  MaxChainGap = 20
  UseTight = TRUE
  Warmup = 3
  ConstantVelocity = TRUE
  Guard = 3
  MaxImuGap = 2
  PlaneScans = 2
  PosteriorExists <- YesNo
  Leaves = FALSE
  Streams <- Sweeps
  Headers <- Jittered
  Spans <- Sweep
  MaxUnusable = 1
  EmptyAnywhere = FALSE
  MaxScans = 6
  MaxRuns = 2
SPECIFICATION Spec
INVARIANTS
  EstimatorTypeOK
  RatioOfScan
  PointsAtScanEnd
PROPERTIES
  GuessSpansPose
  FactorSpansPoses
  PoseAtScanEnd
  SparseMapFed
  MapHoldsAligned
  CalibrationOfRun
\* The scans are bounded: the model stops after the last one.
CHECK_DEADLOCK FALSE

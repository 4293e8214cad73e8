\* Does the tight path start from a measured velocity?
CONSTANTS
  MaxAnchorGap = 1
  MaxChainGap = 20
  UseTight = TRUE
  Warmup = 2
  ConstantVelocity = TRUE
  Guard = 3
  MaxImuGap = 2
  PlaneScans = 2
  PosteriorExists <- Yes
  Leaves = FALSE
  Streams <- Whole
  Headers <- Contiguous
  Spans <- Sweep
  MaxUnusable = 1
  EmptyAnywhere = FALSE
  MaxScans = 6
  MaxRuns = 2
SPECIFICATION Spec
PROPERTIES
  VelocityMeasured
\* The scans are bounded: the model stops after the last one.
CHECK_DEADLOCK FALSE

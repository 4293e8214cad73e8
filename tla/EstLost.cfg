\* A scan without points after a dropped one: does the factor still span the poses?
CONSTANTS
  MaxAnchorGap = 1
  MaxChainGap = 20
  UseTight = TRUE
  Warmup = 2
  ConstantVelocity = TRUE
  Guard = 3
  MaxImuGap = 2
  PlaneScans = 2
  PosteriorExists <- Yes
  Leaves = FALSE
  Streams <- Whole
  Headers <- Contiguous
  Spans <- Sweep
  MaxUnusable = 1
  EmptyAnywhere = TRUE
  MaxScans = 6
  MaxRuns = 2
SPECIFICATION Spec
PROPERTIES
  FactorSpansPoses
\* The scans are bounded: the model stops after the last one.
CHECK_DEADLOCK FALSE

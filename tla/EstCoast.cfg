\* Tight, sweeps and snapshots mixed, holes in the IMU, a map that may be left: coasts
\* of every kind.
CONSTANTS
  MaxAnchorGap = 1
  MaxChainGap = 20
  UseTight = TRUE
  Warmup = 1
  ConstantVelocity = TRUE
  Guard = 3
  MaxImuGap = 2
  PlaneScans = 1
  PosteriorExists <- Yes
  Leaves = TRUE
  Streams <- Holed
  Headers <- Mixed
  Spans <- Either
  MaxUnusable = 0
  EmptyAnywhere = FALSE
  MaxScans = 4
  MaxRuns = 1
SPECIFICATION Spec
PROPERTIES
  CovarianceOfState
  NeverAhead
\* The scans are bounded: the model stops after the last one.
CHECK_DEADLOCK FALSE

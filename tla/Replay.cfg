\* Every recording of nine messages, in every interleaving of its two topics.
CONSTANTS
  ScanGuard = 1
  RestartJump = 1
  Stamps <- RecordedStamps
  Steps <- ForwardSteps
  MaxMessages = 9
SPECIFICATION Spec
PROPERTIES
  Reproducible
\* The recording ends.
CHECK_DEADLOCK FALSE

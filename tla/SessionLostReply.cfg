CONSTANTS
  Requests <- HonestUploads
  Window = 2
  Faults = {}
SPECIFICATION Spec
INVARIANT SuccessIsTrue
CHECK_DEADLOCK FALSE

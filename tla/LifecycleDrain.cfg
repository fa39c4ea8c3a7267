\* One reload while a request is in progress.
CONSTANTS
  Modes = {"standalone"}
  MayFail = {}
  MaxHups = 1
  MaxBusyHups = 1
  MaxTerms = 0
  MaxRequests = 1
SPECIFICATION Spec
INVARIANT OutstandingAreServed
CHECK_DEADLOCK FALSE

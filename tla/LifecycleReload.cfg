\* Three instances, two SIGHUPs and a SIGTERM: all orders of loading, starting
\* and shutting down.  Requests play no part in what is checked here.
CONSTANTS
  Modes = {"standalone", "embedded"}
  MayFail = {"config", "logger", "database", "handlers"}
  MaxHups = 2
  MaxBusyHups = 2
  MaxTerms = 1
  MaxRequests = 0
SPECIFICATION Spec
INVARIANTS TypeOK NoReloadIsLost CurrentIsOpen
CHECK_DEADLOCK FALSE

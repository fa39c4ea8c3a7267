\* Up to three instances whose shutdowns may overlap: two SIGHUPs fill reloadSignals
\* and the handler's hand before the SIGTERM, or one SIGHUP with requests.
CONSTANTS
  Modes = {"standalone", "embedded"}
  MayFail = {"config", "logger", "database", "handlers"}
  MaxHups = 2
  MaxBusyHups = 1
  MaxTerms = 1
  MaxRequests = 1
SPECIFICATION FairSpec
PROPERTIES TermEndsProcess ShutdownReleases
CHECK_DEADLOCK FALSE

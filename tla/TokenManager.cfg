\* Two networks and two uploads; 5 minutes are scaled to 20 seconds.
SPECIFICATION FairSpec
CONSTANTS
  Network = {n1, n2}
  Call = {c1, c2}
  Never = Never
  Validity = 3
  Timeout = 2
  UnsupportedTTL = 4
  MaxOwed = 2
INVARIANTS
  TypeOK
  EveryLoadHasItsRequest
  UploadsCarryTokens
PROPERTIES
  UploadGetsGoing
CHECK_DEADLOCK FALSE

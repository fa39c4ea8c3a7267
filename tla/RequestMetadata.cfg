\* Every header of up to two elements beside an ordinary upload.
SPECIFICATION FairSpec
CONSTANTS
  Empty = Empty  None = None
  Request <- TwoRequests
  Sent <- Requests
  Field <- Fields
  Value <- Values
  Address <- Addresses
  TrustedReverseProxies <- Proxies
  Token <- Tokens
  Claims <- TokenClaims
  Configured <- Issuers
  MaxAge = 1
  IdentifiedMaxAge = 2
  MaxTime = 3
  MaxFaults = 1
INVARIANTS
  TypeOK
  OriginIsRecorded
  IssuerIsVouched
  ClientFieldsSurvive
PROPERTIES
  LivesItsAge
  IpIsRecorded
CHECK_DEADLOCK FALSE

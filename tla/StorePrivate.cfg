\* A request and an expirer over uploads whose contents differ.
SPECIFICATION FairSpec
CONSTANTS
  u1 = u1  u2 = u2  u3 = u3  w1 = w1  w2 = w2  g1 = g1  a = a  b = b
  None = None
  Id <- TwoIds
  Worker <- OneWorker
  Gc <- OneGc
  Byte <- TwoBytes
  ClientFile <- PrivateFiles
  Methods <- AllMethods
  FaultKinds <- NoUnlink
  MaxFaults = 1
INVARIANTS
  UnfinishedHasBin
  DeletedHasNoInfo
  NoDataLoss
PROPERTIES
  HidesSharing
  ExpiredIsDeleted
CHECK_DEADLOCK FALSE

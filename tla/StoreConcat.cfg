\* Requests one at a time over three uploads that share contents, beside a
\* request that concatenates two of them.
SPECIFICATION ConcatSpec
CONSTANTS
  u1 = u1  u2 = u2  u3 = u3  w1 = w1  w2 = w2  a = a  b = b
  None = None
  Id <- ThreeIds
  Worker <- TwoWorkers
  Concatenators <- OnlyW2
  Gc <- NoGc
  Byte <- TwoBytes
  ClientFile <- SmallFiles
  Methods <- AllMethods
  FaultKinds <- NoFaults
  MaxFaults = 0
INVARIANTS
  NoDataLoss
  NoOrphanBin
  BinPathStoresData
  ConcatIsWhole
PROPERTIES
  KeepsSharedBin
  HidesSharing
CHECK_DEADLOCK FALSE

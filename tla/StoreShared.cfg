\* Two requests and an expirer over uploads with the same contents.
SPECIFICATION Spec
CONSTANTS
  u1 = u1  u2 = u2  u3 = u3  w1 = w1  w2 = w2  g1 = g1  a = a  b = b
  None = None
  Id <- TwoIds
  Worker <- TwoWorkers
  Gc <- OneGc
  Byte <- TwoBytes
  ClientFile <- SameFile
  Methods <- Writing
  FaultKinds <- AllFaults
  MaxFaults = 1
SYMMETRY WorkerSymmetry
INVARIANTS
  TypeOK
  ServesOwnBytes
  BlobsAreContentAddressed
  HashIsOfWholeFile
CHECK_DEADLOCK FALSE

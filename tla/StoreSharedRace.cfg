\* An upload finishes while another of the same contents is deleted.
SPECIFICATION Spec
CONSTANTS
  u1 = u1  u2 = u2  u3 = u3  w1 = w1  w2 = w2  g1 = g1  a = a  b = b
  None = None
  Id <- TwoIds
  Worker <- TwoWorkers
  Gc <- NoGc
  Byte <- TwoBytes
  ClientFile <- SameFile
  Methods <- Writing
  FaultKinds <- NoFaults
  MaxFaults = 0
INVARIANTS
  NoDataLoss
CHECK_DEADLOCK FALSE

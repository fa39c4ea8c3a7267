\* Two uploads, two requests and an expirer.
SPECIFICATION FairSpec
CONSTANTS
  u1 = u1  u2 = u2
  Id <- TwoIds
  w1 = w1  w2 = w2
  Worker <- TwoWorkers
  Methods <- Shared
  Gc = {g1}
  None = None
  Name = {"meta", "incomplete", "complete", "a", "b"}
  IdShards <- TwoShards
  HashShards <- OneShard
INVARIANTS
  TypeOK
  FailsOnlyByRemoval
  EmptyDirsAreExplained
PROPERTIES
  TerminationCompletes
CHECK_DEADLOCK FALSE

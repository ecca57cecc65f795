SPECIFICATION FairSpec
CONSTANTS
  s1 = s1
  s2 = s2
  s3 = s3
  NoSeed = NoSeed
  w1 = w1
  Seed <- MCSeed
  Worker <- MCWorker
  Algo <- MCAlgo
  MaxInputs = 4
INVARIANTS TypeOK ReadyIsBuilt NeverTakesNothing
PROPERTIES MinerResumes StopEnds RestIsRest
CHECK_DEADLOCK FALSE

SPECIFICATION FairSpec
CONSTANTS
  FailCap = 2
  Retries = 2
  PoolTls = FALSE
  Pingable = TRUE
  RefusalCloses = TRUE
  Sizes = {2}
  Outlooks = {{0}, {1}, {0, 1}}
  MayStop = FALSE
  Overlap = TRUE
PROPERTIES OnlyDroppedOverrun FailsBack Recovers

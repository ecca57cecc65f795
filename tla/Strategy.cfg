SPECIFICATION Spec
CONSTANTS
  FailCap = 2
  Retries = 2
  PoolTls = TRUE
  Pingable = FALSE
  RefusalCloses = FALSE
  Sizes = {1, 3}
  Outlooks = {{}}
  MayStop = TRUE
  Overlap = FALSE
INVARIANTS SessionInUse NeverInTheClear
PROPERTIES KeepsPromises

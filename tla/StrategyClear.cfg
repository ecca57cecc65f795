SPECIFICATION Spec
CONSTANTS
  FailCap = 2
  Retries = 2
  PoolTls = TRUE
  Pingable = FALSE
  RefusalCloses = FALSE
  Sizes = {3}
  Outlooks = {{}}
  MayStop = FALSE
  Overlap = TRUE
INVARIANTS NeverInTheClear

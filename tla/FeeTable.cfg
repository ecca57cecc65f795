SPECIFICATION FairTableSpec
CONSTANTS
  cpu = cpu
  gpuT = gpuT
  c0 = c0
  g0 = g0
  c1 = c1
  g1 = g1
  Target <- MCTarget
  Route <- MCRoute
  Builtin <- MCBuiltin
  File <- MCFile
  kMaxRoutes = 3
  kMaxValidity = 3
  kFirstFetchDelay = 1
  kRefreshInterval = 3
  kRetryInterval = 2
  kFetchTimeout = 1
  MaxWall = 3
INVARIANTS FromSignedFile SingleRequest
PROPERTIES NoRollback KeepsAsking

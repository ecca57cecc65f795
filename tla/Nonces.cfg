SPECIFICATION Spec
CONSTANTS
  cpu = cpu
  gpu = gpu
  Worker <- MCWorker
  Reserve <- MCReserve
  Mask = 5
  Word = 3
  MaxJobs = 3
VIEW View
INVARIANTS  BlocksFit
CHECK_DEADLOCK FALSE

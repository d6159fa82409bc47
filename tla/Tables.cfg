SPECIFICATION Spec
CONSTANTS
  t1 = t1
  bg = bg
  Threads = {t1, bg}
  Background = bg
  Numbers = {1, 2, 3}
  Recovered = {1, 2}
  Offsets = {0}
  FileSize = 48
  BlockCache = TRUE
  FilterPolicy = TRUE
  MaxOpens = 2
  MaxFaults = 1
INVARIANTS
  TypeOK
  HandlesExact
  BlocksExact
  ReadsOwnBlock
  FilterHidesNothing
  RemovedFilesClosed
  NoOrphans
CHECK_DEADLOCK FALSE

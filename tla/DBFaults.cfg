SPECIFICATION Spec
CONSTANTS
  Writers = {w1, w2}
  Readers = {r1}
  Background = bg
  NoThread = none
  StubOk = FALSE
  write_buffer_size = 1
  kL0_CompactionTrigger = 2
  kL0_SlowdownWritesTrigger = 2
  kL0_StopWritesTrigger = 3
  InitL0 = 2
  MaxGroup = 2
  MaxWrites = 3
  MaxFileNumber = 4
  MaxFaults = 2
SYMMETRY Symmetry
INVARIANTS
  TypeOK
  MutexExact
  FrontOnly
  NoLostWakeup
  SequenceUnique
  RefsExact
  LoggedBeforeApplied
  AckedDurable
  InstallsCurrentLog
PROPERTY SnapshotStable
CHECK_DEADLOCK FALSE

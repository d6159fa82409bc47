SPECIFICATION FairSpec
CONSTANTS
  Writers = {w1, w2}
  Readers = {r1}
  Background = bg
  NoThread = none
  StubOk = FALSE
  write_buffer_size = 1
  kL0_CompactionTrigger = 2
  kL0_SlowdownWritesTrigger = 2
  kL0_StopWritesTrigger = 3
  InitL0 = 3
  MaxGroup = 1
  MaxWrites = 2
  MaxFileNumber = 4
  MaxFaults = 0
PROPERTIES
  WritesReturn
  CompactionContinues

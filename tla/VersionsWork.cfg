SPECIFICATION Spec
CONSTANTS
  Readers = {}
  kNumLevels = 2
  UserKeys = {1, 2, 3}
  RecoveredKeys = {3}
  MaxFileNumber = 8
  kL0_CompactionTrigger = 2
  MaxByteForLevel <- Limits
  MaxFaults = 1
  MaxStrays = 0
  MaxSyncFaults = 0
INVARIANTS
  LevelsSorted
  
CHECK_DEADLOCK FALSE

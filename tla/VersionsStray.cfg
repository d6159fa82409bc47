SPECIFICATION Spec
CONSTANTS
  Readers = {r1}
  kNumLevels = 2
  UserKeys = {1, 2}
  RecoveredKeys = {1}
  MaxFileNumber = 7
  kL0_CompactionTrigger = 2
  MaxByteForLevel <- Limits
  MaxFaults = 1
  MaxStrays = 1
  MaxSyncFaults = 0
INVARIANT RecoverySound

SPECIFICATION Spec
CONSTANTS
  Readers = {r1}
  kNumLevels = 2
  UserKeys = {1, 2}
  RecoveredKeys = {}
  MaxFileNumber = 7
  kL0_CompactionTrigger = 2
  MaxByteForLevel <- Limits
  MaxFaults = 0
  MaxStrays = 0
  MaxSyncFaults = 1
INVARIANT RecoverySound

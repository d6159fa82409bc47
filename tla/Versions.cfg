SPECIFICATION Spec
CONSTANTS
  Readers = {r1}
  kNumLevels = 3
  UserKeys = {1, 2}
  RecoveredKeys = {1}
  MaxFileNumber = 7
  kL0_CompactionTrigger = 2
  MaxByteForLevel <- Limits
  MaxFaults = 1
  MaxStrays = 0
  MaxSyncFaults = 0
INVARIANTS
  TypeOK
  LevelsSorted
  VersionRefs
  LiveFilesExist
  RecoverySound
  NumbersSound
  GetFindsNewest
  ChargesFirstMiss
  NoLevelMissed
PROPERTIES
  BuilderCorrect
  LogAndApplyAtomic

SPECIFICATION Spec
CONSTANTS
  MaxVersion = 3
  MaxCrashes = 2
  MaxDamage = 1
  DirectorySync = TRUE
INVARIANTS
  TypeOK
  AckedRecoverable
  CommitKeepsPrevious
PROPERTIES
  RecoveryKeepsBackup
CHECK_DEADLOCK FALSE

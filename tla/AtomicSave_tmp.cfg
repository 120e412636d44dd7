SPECIFICATION Spec
CONSTANTS
  MaxVersion = 2
  MaxCrashes = 1
  MaxDamage = 0
  DirectorySync = FALSE
PROPERTIES
  TemporaryBeforeBackup
CHECK_DEADLOCK FALSE

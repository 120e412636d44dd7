SPECIFICATION ReleaseSpec
CONSTANTS
  Runtime = {"3dsx", "app.lua"}
  Assets = {"DATA"}
  Entry = "3dsx"
  MaxChanges = 2
  None = none
  Packages = {1, 2}
  Files = {"3dsx", "app.lua", "manifest"}
  Binary = "3dsx"
  Manifest = "manifest"
  UserFiles = {"Saves"}
  DeltaOrders <- MCOrders
  MaxDeploys = 2
  BootMarks <- MCBootMarks
  MaxFaults = 2
  Damaged = damaged
INVARIANTS
  DeltaReconstructs
  NothingLost
  FullPublishesVerified
  RefusedDeltaUndone
  AcceptedBootIsCurrent
PROPERTY BaselineKept
ACTION_CONSTRAINTS DeployAfterDelta AssessLast OneBoot
CHECK_DEADLOCK FALSE

SPECIFICATION Spec
CONSTANTS
  Worlds = {w1}
  NoWorld = none
  Speeds = {"Pause", "Normal", "Fast"}
INVARIANTS
  QuietWhenSuspended
  AliveWhenRunning
PROPERTIES
  ExitIsAnswered
CHECK_DEADLOCK FALSE

SPECIFICATION Spec
CONSTANTS
  Worlds = {w1}
  NoWorld = none
  Speeds = {"Pause", "Normal"}
INVARIANTS
  AutosaveCanBegin
CHECK_DEADLOCK FALSE

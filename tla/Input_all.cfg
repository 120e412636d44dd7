SPECIFICATION InputSpec
CONSTANTS
  Buttons = {A}
  Pen = Pen
  NoSample = none
  Capacity = 2
  DrainLimit = 2
INVARIANTS
  PressRemembered
PROPERTIES
  PressWithinEpoch
  NothingReplayed
  PenLiftArrives
CHECK_DEADLOCK FALSE

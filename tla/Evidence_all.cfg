SPECIFICATION Spec
CONSTANTS
  Sessions = {s1, s2}
  Cases = {c1}
  MaxUpgrades = 1
  MaxDamage = 1
  None = none
  Spoiled = spoiled
  Marred = marred
INVARIANTS
  OneChain
  BuiltAsPinned
  SealAfterMatrix
PROPERTY
  AcceptedAsRecorded
CONSTRAINT OneAtATime
SYMMETRY Symmetry
CHECK_DEADLOCK FALSE

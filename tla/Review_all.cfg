SPECIFICATION ReviewSpec
CONSTANTS
  Builders = {b1, b2}
  MaxEdits = 2
  Malformed = {2}
  Authorized <- MCAuthorized
  SameBaseline <- MCSameBaseline
  Needs <- MCNeeds
  None = none
  Spoiled = spoiled
  t1 = t1  t2 = t2  t3 = t3  A = A  B = B
  Tests = {t1, t2, t3}
  Baseline = {t1}
  ClassOf <- MCClassOf
  Order <- MCOrder
INVARIANTS
  OpenedBundleBound
  WorklistCloses
  AcceptedSuiteIsClean
PROPERTY PublishedStays
SYMMETRY Symmetry
CONSTRAINT Bounded
ACTION_CONSTRAINT SuiteLast
CHECK_DEADLOCK FALSE

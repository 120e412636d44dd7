SPECIFICATION Spec
CONSTANTS
  NoResource = none
  s1 = s1  s2 = s2  x1 = x1  u1 = u1
  Groups = {1, 2}
  Resources <- DerivedIds
  KindOf <- DerivedKind
  SpriteOf <- DerivedSprite
  PoolOf <- DerivedPool
  GroupOf <- DerivedGroup
  ChargeOf <- DerivedCharge
  CapOf <- DerivedCaps
  MountPinned = {}
  MaxCharge = 2
  Leases = {l1, l2}
  PinOwners = {"Mount", "Session"}
  Threads = {t1, t2}
  MaxRefcount = 2
  MaxDepth = 2
  LoaderMayReenter = FALSE
  AllocatorFails = TRUE
INVARIANTS
  TypeOK
  LeasesAccounted
  PoolWithinBudget
  RecordsOwned
  DependenciesResident
  OldGroupDrained
PROPERTIES
  LeaseCachePromise
  RollbackRemovesStaged
  PinnedSurvives
SYMMETRY Symmetry
CHECK_DEADLOCK FALSE

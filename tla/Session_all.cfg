SPECIFICATION SessionSpec
CONSTANTS
  NoResource = none
  m = m  a = a  b = b
  Groups = {1, 2}
  MenuGroup = 1
  LevelGroups = {2}
  Resources <- Ids
  KindOf <- Kind
  SpriteOf <- NoSprites
  PoolOf <- Pool
  GroupOf <- Group
  ChargeOf <- Charge
  CapOf <- Caps
  MountPinned = {m}
  MaxCharge = 1
  Leases = {l1, l2, l3}
  PinOwners = {"Mount", "Session"}
  Threads = {t1}
  MaxRefcount = 2
  MaxDepth = 0
  LoaderMayReenter = FALSE
  AllocatorFails = TRUE
INVARIANTS
  MountPinsReal
  WorldMatchesGroup
  TokenMatchesTransition
  ClosedHoldsNothing
SYMMETRY Symmetry
CHECK_DEADLOCK FALSE

SPECIFICATION TreeSpec
CONSTANTS
  MaxChanges = 2
  Stored <- MCStored
  Decoded <- MCDecoded
  MetaSize <- MCMetaSize
  IdOf <- MCIdOf
  ManifestSizes = {1, 64}
  BundleSize = 700
  Budgets <- MCBudgets
  DescriptorSize = 164
  Absent = absent
  Nobody = nobody
  EmptyDirectory = empty
  ForeignFiles = foreign
INVARIANTS
  WriterMeetsInspector
  PublishedMounts
ACTION_CONSTRAINT OccupiedLate
CHECK_DEADLOCK FALSE

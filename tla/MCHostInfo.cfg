SPECIFICATION FairSpec
CONSTANTS
  Place = {"p1", "p2"}
  Providers <- AllProviders
  MaxChanges = 1
INVARIANTS
  TypeOK
  OneLocation
PROPERTIES
  BadFileOnlyUnlocated
  HostSettles
CHECK_DEADLOCK FALSE

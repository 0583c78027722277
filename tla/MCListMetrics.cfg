SPECIFICATION FairSpec
CONSTANTS
  Item <- Items
  Nodes <- AllNodes
  MaxChanges = 1
INVARIANTS
  TypeOK
  LastSourcePrevails
PROPERTY ListSettles
CHECK_DEADLOCK FALSE

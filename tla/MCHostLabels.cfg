SPECIFICATION FairSpec
CONSTANTS
  k1 = k1
  k2 = k2
  v1 = v1
  v2 = v2
  Absent = Absent
  Key = {k1, k2}
  Value = {v1, v2}
  StaticFlags <- K2Twice
  Static <- StaticK2
  Providers <- K8sNode
  MaxChanges = 1
INVARIANTS
  TypeOK
  LastProviderPrevails
PROPERTY LabelSettles
CHECK_DEADLOCK FALSE

SPECIFICATION Spec
CONSTANTS
  OcmAgent = {"o1", "o2"}
  NuvlaAgent = {"n1", "n2"}
  Providers <- K8sOnly
  PodLists <- Pods
  NuvlaStates <- AllNuvlaStates
  Half = {"len"}
  MaxChanges = 2
INVARIANTS
  TypeOK
  UndisturbedCycle
  OcmOnlyIfElected
PROPERTY OnlyBlankEmpties
CHECK_DEADLOCK FALSE

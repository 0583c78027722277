SPECIFICATION ScrapeSpec
CONSTANTS
  OcmAgent = {"o1"}
  NuvlaAgent = {"n1"}
  Providers <- K8sOnly
  PodLists <- Pods
  NuvlaStates <- WellFormed
  Half = {"len", "ptr"}
  MaxChanges = 0
INVARIANT PublishesOneOrchestrator
CHECK_DEADLOCK FALSE

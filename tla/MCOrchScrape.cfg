SPECIFICATION FairScrapeSpec
CONSTANTS
  OcmAgent = {"o1"}
  NuvlaAgent = {"n1", "n2"}
  Providers <- DockerOnly
  PodLists <- NoPods
  NuvlaStates <- AllNuvlaStates
  Half = {"len", "ptr"}
  MaxChanges = 2
PROPERTY OneAgentSettles
CHECK_DEADLOCK FALSE

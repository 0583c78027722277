SPECIFICATION FairSpec
CONSTANT Nodes <- AllNodes
INVARIANTS
  TypeOK
  HealthyCycle
PROPERTIES
  DockerCompletes
  KubernetesRecovers
  DockerStaysComplete
CHECK_DEADLOCK FALSE

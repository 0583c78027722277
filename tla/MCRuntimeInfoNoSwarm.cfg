SPECIFICATION Spec
CONSTANT Nodes <- AllNodes
INVARIANT SurvivesDocker
CHECK_DEADLOCK FALSE

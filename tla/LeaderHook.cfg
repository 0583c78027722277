SPECIFICATION FairSpec
INVARIANTS
  TypeOK
  NoMissedElection
  CollectsOnlyIfElected
  SignalKept
PROPERTIES
  LeaderPublishes
  TermEndsProcess
  OneTerm
CHECK_DEADLOCK FALSE

SPECIFICATION FairSpec
CONSTANTS
  Pod = {p1, p2, p3}
  NoPod = NoPod
  LeaseDuration = 6
  RenewDeadline = 2
  RetryPeriod = 1
INVARIANTS
  AtMostOneInOffice
  OverlapOnlyWhileLeaving
PROPERTIES
  ImplementsSingleLeader
  EventuallyLed
  OneTermEach

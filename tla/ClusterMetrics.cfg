SPECIFICATION ClusterFairSpec
CONSTANTS
  Pod = {p1, p2}
  NoPod = NoPod
  LeaseDuration = 4
  RenewDeadline = 1
  RetryPeriod = 1
  Caller = {"runner"}
  Link = {"l1"}
  NoLink = "no link"
INVARIANTS
  ClusterTypeOK
  OneExporterButForHandover
PROPERTY LinkPublished

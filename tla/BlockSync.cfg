SPECIFICATION FairSpec
CONSTANTS
  late = late
  prod = prod
  None = None
  Node = {late, prod}
  Link <- OneLink
  Flaky <- OneLink
  Producer = {late, prod}
  Periodic = {late}
  Start <- Behind
  Batch = 2
  MaxHeight = 3
  MaxLosses = 1
INVARIANTS
  NoGap
PROPERTIES
  
  CatchUp
  GossipDies
CHECK_DEADLOCK FALSE

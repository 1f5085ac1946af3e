SPECIFICATION Spec
CONSTANTS
  boot = boot
  a = a
  b = b
  Main = Main
  Test = Test
  None = None
  Node = {boot, a, b}
  Rank <- MCRank
  NetworkOf <- TwoNetworks
  Boot <- MCBoot
  MaxPeers = 1
  MaxDials = 2
  MaxLosses = 2
INVARIANTS
  TableHoldsActive
CHECK_DEADLOCK FALSE

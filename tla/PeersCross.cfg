SPECIFICATION Spec
CONSTANTS
  boot = boot
  a = a
  b = b
  Main = Main
  Test = Test
  None = None
  Node = {boot, a, b}
  Rank <- MCRank
  NetworkOf <- SameNetwork
  Boot <- MCBoot
  MaxPeers = 50
  MaxDials = 1
  MaxLosses = 0
INVARIANTS
  OneConnectionSurvives
CHECK_DEADLOCK FALSE

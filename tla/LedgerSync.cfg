SPECIFICATION Spec
CONSTANTS
  x = x
  y = y
  None = None
  Addr <- MCAddr
  GenesisOuts <- MCGenesisOuts
  Reward = 2
  MinFee = 1
  MaxTxsPerBlock = 3
  Amounts = {1}
  Fees = {0, 3}
  Stamps = {1}
  Proposers = {y}
  Peers = {x}
  Direct = {}
  Checked = {engine, handler}
  MaxMade = 1
  MaxHeight = 2
  MaxBuilt = 2
  MaxCrashes = 1
INVARIANTS
  BalanceComplete
  HeightStored

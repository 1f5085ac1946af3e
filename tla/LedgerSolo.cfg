SPECIFICATION Spec
CONSTANTS
  x = x
  y = y
  None = None
  Addr <- MCAddr
  GenesisOuts <- MCGenesisOuts
  Reward = 2
  MinFee = 1
  MaxTxsPerBlock = 3
  Amounts = {1, 4}
  Fees = {0}
  Stamps = {1}
  Proposers = {y, None}
  Peers = {}
  Direct = {engine}
  Checked = {engine}
  MaxMade = 2
  MaxHeight = 2
  MaxBuilt = 2
  MaxCrashes = 0
INVARIANTS
  TypeOK
  
  
  
  

  

SPECIFICATION FairSpec
CONSTANTS
  a = a
  b = b
  c = c
  None = None
  Validators <- MCValidators
  Order <- MCOrder
  PowerOf <- MCPowerOf
  Mode = "roundrobin"
  Seed <- MCSeed
  Base <- MCBase
  Block <- MCBlock
  Genesis <- MCGenesis
  Engines = {c}
  Proposers = {a, b, c}
  RemoteMsgs <- OtherForkMsgs
  Utxos = {}
  Outputs = {}
  Forgetful = {}
  MaxHeight = 2
  MaxNonce = 1
  MaxRound = 3
  MaxHandlers = 1
  MaxRestarts = 0
PROPERTIES
  RefusalTimesOut

SPECIFICATION Spec
CONSTANTS
  a = a
  b = b
  c = c
  None = None
  Validators <- MCValidators
  Order <- MCOrder
  PowerOf <- MCPowerOf
  Mode = "roundrobin"
  Seed <- MCSeed
  Base <- MCBase
  Block <- MCBlock
  Genesis <- MCGenesis
  Engines = {c}
  Proposers = {a, b}
  RemoteMsgs <- ForkMsgs
  Utxos = {u1}
  Outputs = {u1}
  Forgetful = {c}
  MaxHeight = 2
  MaxNonce = 0
  MaxRound = 0
  MaxHandlers = 2
  MaxRestarts = 1
INVARIANTS
  
  ConsensusNotAhead

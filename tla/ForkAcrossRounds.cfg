SPECIFICATION Spec
CONSTANTS
  a = a
  b = b
  c = c
  None = None
  Validators <- MCValidators
  Order <- MCOrder
  PowerOf <- MCPowerOf
  Mode = "roundrobin"
  Seed <- MCSeed
  Base <- MCBase
  Block <- MCBlock
  Genesis <- MCGenesis
  Engines = {a, b}
  Proposers = {a, b}
  RemoteMsgs <- NoMsgs
  Utxos = {}
  Outputs = {}
  Forgetful = {}
  MaxHeight = 1
  MaxNonce = 1
  MaxRound = 1
  MaxHandlers = 1
  MaxRestarts = 0
INVARIANTS
  Agreement

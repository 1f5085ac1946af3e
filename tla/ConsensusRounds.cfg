SPECIFICATION Spec
CONSTANTS
  a = a
  b = b
  c = c
  None = None
  Validators <- MCValidators
  Order <- MCOrder
  PowerOf <- MCPowerOf
  Mode = "roundrobin"
  Seed <- MCSeed
  Base <- MCBase
  Block <- MCBlock
  Genesis <- MCGenesis
  Engines = {a}
  Proposers = {a, b}
  RemoteMsgs <- OpenMsgs
  Utxos = {}
  Outputs = {}
  Forgetful = {}
  MaxHeight = 1
  MaxNonce = 3
  MaxRound = 3
  MaxHandlers = 1
  MaxRestarts = 0
INVARIANTS
  TypeOK
  StoredBlocksCertified
  ForkAccountability
  EveryoneProposes

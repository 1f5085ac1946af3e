SPECIFICATION FairSpec
CONSTANTS
  Client = {p}
  p = p
  None = None
  Cap = 5
  HelloEvents = 2
  MaxLog = 5
  MaxHeight = 2
INVARIANTS
  NoPanic
  NoMissedBlock
PROPERTIES
  EngineReleased
  
  KeepsPromise
CHECK_DEADLOCK FALSE

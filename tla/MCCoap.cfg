SPECIFICATION CoapFairSpec
CONSTANTS
  Client = {c1}
  Stranger = stranger
  NUM_OBSERVERS = 2
  NUM_PENDINGS = 2
  MAX_CYCLES = 2
  BLOCKS = 2
  IDS = 8
  CLASHES = 1
  QUEUE = 2
  REPLIES = 2
  Strays <- Asked
  STRAYS = 2
  None = None
INVARIANTS EveryBlockFetched ResetUnregisters
PROPERTY EverybodyServed
CHECK_DEADLOCK FALSE

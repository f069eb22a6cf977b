SPECIFICATION ThreadsSpec
CONSTANTS
  NUM_PHIL = 6
  NUM_LOOPS = 4
  MAX_MSGS = 2
  Block = {b1, b2}
  NODES = 2
  STAMPS = 3
  None = None
  CMSIS_PHIL = 3
  COUNTER = 10
INVARIANTS NoThreadOops EveryBlockInOnePlace CmsisAgrees
PROPERTIES ImplementsDining EveryoneEats ImplementsPipeline SuccessUnlessOops
CHECK_DEADLOCK FALSE

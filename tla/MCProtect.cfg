SPECIFICATION FairSpec
CONSTANTS
  READ_TYPE_SIZE = 4
  NUM_SERVICES = 5
  U8 = 256
INVARIANTS EveryFlagOneByOne ConnectionKept FaultOnlyAfterLinkLoss
PROPERTIES PassEnds
CHECK_DEADLOCK FALSE

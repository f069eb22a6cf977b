SPECIFICATION Spec
CONSTANTS
  FLAGS = 3
  SERVICES = 2
  U8 = 8
  URL_LEN = 19
  URL_LENGTHS = {5, 18, 23}
  WRITES = 3
  PERIOD = 64
  WHEEL = 1099
  CRANK = 1049
  U16 = 65536
  U32 = 8
  COUNTS = {0, 5}
  TXP_NUM = 8
  H_FAULTS = 1
  DEVICES = {"d1", "d2"}
  NODE_COUNT = 2
  P_FAULTS = 2
  P_REBOOTS = 1
INVARIANTS
  SharedStateAgrees
PROPERTIES
  WorkGetsDone
CHECK_DEADLOCK FALSE

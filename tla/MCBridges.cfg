SPECIFICATION Spec
CONSTANTS
  BUF_COUNT <- Buffers
  LEN = 2
  ROOM = 1
  PACKETS = 4
  LINE = 1
  EVENTS = 3
  COMMANDS = 3
  SPI_FAULTS = 2
  FRAMES = 4
  PKT_COUNT = 2
  PKT_ROOM = 2
  ELEMS = 4
  ROOM_CDC = 4
  HID_INPUTS = 3
  TEXTS <- Texts
  REFUSALS = 1
  MIC_BUFS = 2
  SPK_BUFS = 2
  HOST_BUFS = 4
  PACKETS_OF = 2
  HOST_COMMANDS = 2
  A_FAULTS = 1
INVARIANTS NothingGarbled BusHandover
PROPERTY RequestsServed
CHECK_DEADLOCK FALSE

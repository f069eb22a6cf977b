SPECIFICATION Spec
CONSTANTS
  HANDLERS = 1
  RECV_BUF = 2
  PEERS = 2
  PEER_BYTES = 3
  FDS = 4
  TCP_LEN = 2
  DATAGRAMS = 4
  CHANGES = 4
  ITERATIONS = 2
  L4_EVENTS = 6
  RETRIES = 3
  NUM_FDS = 3
  CALLERS = 4
  CALLER_BYTES = 1
  CONNECT_TRIES = 2
  MAX_ITERATIONS = 2
  MESSAGE_IDS = {0, 1, 2}
  G_RETRIES = 3
  MQTT_WINDOW = 3
  ID_MOD = 4
INVARIANTS EchoesInOrder BrokersAgree HealthyStayConnected
CHECK_DEADLOCK FALSE

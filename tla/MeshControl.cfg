SPECIFICATION ControlSpec
CONSTANTS
  LMAX = 3
  TEMP_MIN = 1
  TEMP_MAX = 2
  Duv = {0}
  Kinds = {"onoff", "level", "ctl_temp", "default"}
  Form = {"unack"}
  Id <- Sources
  TT = {0, 2}
  RESOLUTION = 2
  U32 = 4
  MSGS = 2
  None = None
  TIDS = 2
  RETRANSMITS = 1
  PRESSES = 2
  PRESSED = {2, 3}
  ASKS = 1
  REBOOTS = 1
INVARIANT NodeObeys
PROPERTY ListenersKnow
CHECK_DEADLOCK FALSE

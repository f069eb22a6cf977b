SPECIFICATION FairSpec
CONSTANTS
  LMAX = 3
  TEMP_MIN = 1
  TEMP_MAX = 2
  Duv = {0, 1}
  Kinds = {"onoff", "level", "delta", "move", "actual", "linear", "ctl", "ctl_temp", "level_temp", "delta_temp", "move_temp", "range", "default"}
  Form = {"unack"}
  Id = {i1}
  TT = {0, 2}
  RESOLUTION = 2
  U32 = 4
  MSGS = 2
  None = None
INVARIANTS NeitherPastNorShort DeltaNotAddedTwice
PROPERTY ComesToRest
CHECK_DEADLOCK FALSE

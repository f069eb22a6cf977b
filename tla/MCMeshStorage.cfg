SPECIFICATION NodeSpec
CONSTANTS
  LMAX = 2
  TMAX = 2
  MULTIRESET = 2
  MSGS = 2
  BOOTS = 3
  Absent = Absent
  Polls <- Samples
  STAT_COUNT = 3
  TOP = 2
  COUNT_MAX = 2
  LEDS = 2
  ROUNDS = 1
  BAD = 1
  SENDERS = {1, 2, 3}
  HOPS = {1, 2}
  BUDGETS <- Budgets
  BADGE_REBOOTS = 1
  SWITCHES = {1, 2}
  DEBOUNCE = 2
  WINDOW = 3
  UPTIME_MOD = 10
  STARTS = {0, 7}
  COUNT_MOD = 4
  LOAD = 4
INVARIANTS NodesKeepState ReportedTimeIsRight
PROPERTY NodesStepRight
CHECK_DEADLOCK FALSE

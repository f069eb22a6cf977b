SPECIFICATION KernelSpec
CONSTANTS
  WHEEL_SIZE = 26
  W1 <- START_WHEEL2
  W2 <- START_WHEEL
  W3 <- START_WHEEL
  R <- REFLECT
  ptMSG <- PT_MSG
  ptMSG2 <- PT_MSG2
  NUM_THREADS = 4
  MAX_EVENTS = 3
  QUEUE_DEPTH = 2
  HW_DEPTH = 1
  QEMU = TRUE
INVARIANTS SelfInverse
PROPERTIES ImplementsLine BothComeOut ReportedOnceAndWhole
CHECK_DEADLOCK FALSE

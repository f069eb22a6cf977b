SPECIFICATION Spec
CONSTANTS
  Player = {p1, p2}
  FAULTS = 1
  PRESSES = 4
INVARIANTS OneBall StillLooking NoGameBehindTheMenu
SYMMETRY Symmetry
CHECK_DEADLOCK FALSE

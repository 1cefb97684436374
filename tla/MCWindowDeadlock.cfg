CONSTANTS
  Overlay = {o1, o2}
  Pid = {1, 2}
  MaxFocus = 2
  MaxJoins = 3
SPECIFICATION FairSpec
CHECK_DEADLOCK FALSE
PROPERTIES DestroyEnds

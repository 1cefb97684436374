CONSTANTS
  Main = Main
  Beat = Beat
  Free = Free
  MaxBeats = 2
SPECIFICATION FairSpec
CHECK_DEADLOCK FALSE
PROPERTIES CapturedIsForwarded

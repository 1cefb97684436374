CONSTANTS
  Stop = Stop
  Caller = {c1}
  Noise = {"text"}
  MaxCalls = 1
  MaxNoise = 0
SPECIFICATION FairSpec
CHECK_DEADLOCK FALSE
PROPERTIES StartNeverHangs

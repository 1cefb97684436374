CONSTANTS
  Package = {q1}
  MaxEdits = 0
  MaxLosses = 0
  MaxBoots = 2
  MaxCrashes = 0
SPECIFICATION Spec
CHECK_DEADLOCK FALSE
INVARIANTS BypassLeavesNoTrace

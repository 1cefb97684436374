CONSTANTS
  Error = {e1}
SPECIFICATION Spec
CHECK_DEADLOCK FALSE
PROPERTIES WindowSurvives

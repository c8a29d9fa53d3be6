CONSTANTS
  FloatMax = 4
  Calls <- MCCalls
SPECIFICATION Spec
INVARIANTS
  ExtentIsFinite
CHECK_DEADLOCK FALSE

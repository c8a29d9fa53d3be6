CONSTANTS
  FloatMax = 4
  Calls <- MCCalls
SPECIFICATION Spec
INVARIANTS
  ReadsInBounds
  PublishedComplete
  BoundedPeak
  ExtentEnclosesCloud
CHECK_DEADLOCK FALSE

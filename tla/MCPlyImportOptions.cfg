CONSTANTS
  MaxCount = 3
  Opacity <- MCOpacity
SPECIFICATION Spec
INVARIANTS
  NoReadAfterOverwrite
  SurvivorsPlaced
  TruncationInPlace
PROPERTIES
  ImplementsPromise
  Returns
CHECK_DEADLOCK FALSE

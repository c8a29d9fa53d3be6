CONSTANTS
  kMaxGaussianCount = 2
  IntMax = 7
  LongMax = 15
  One = 2
  FloatMax = 12
  Numbers <- MCNumbers
  Calls <- MCCalls
SPECIFICATION PreludeSpec
INVARIANTS
  ValidArgumentsArrive
  AcceptsGaussianLayouts
  EveryColumnTaken
CHECK_DEADLOCK FALSE

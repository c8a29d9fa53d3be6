CONSTANTS
  kMaxGaussianCount = 2
  ScaleMax = 2
  Settings <- MCSettings
SPECIFICATION Spec
INVARIANTS
  StatsAccountForEveryGaussian
PROPERTIES
  ImplementsPromise
  CallReturns

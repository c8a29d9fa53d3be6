CONSTANTS
  ByteMax = 7
  kShCentroidsPerRow = 2
  kFloatLimit = 20
  kLogMin <- MCLogMin
  kLogMax = 8
  kLogWide = 7
  EditVersions <- MCEditVersions
  Files <- MCFiles
  Requests <- MCRequests
SPECIFICATION Spec
INVARIANTS
  StatsDescribeLayer
  DegradedIffWarned
PROPERTIES
  ImplementsPromise

CONSTANTS
  ByteBits = 5
  HalfMantissaBits = 5
  FloatMantissaBits = 6
  FloatBias = 16
  FloatExponentMax = 31
  EditVersions <- MCEditVersions
  Versions <- MCVersions
  Requests <- MCRequests
SPECIFICATION Spec
INVARIANTS
  NoInternalFailure
  StatsDescribeLayer
PROPERTIES
  ImplementsPromise
  CallReturns

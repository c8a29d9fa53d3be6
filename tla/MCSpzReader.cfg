CONSTANTS
  kMaxGaussianCount = 2
  kMaxPointCount = 3
  kMaxDeflateExpansion = 4
  kPrefixLimit = 20
  kCanReadRetryLimit = 30
  kMaxSpzFileBytes = 70
  MaxExtensionBytes = 17
  ScratchBytes = 8
  EditVersions <- MCEditVersions
  Versions <- MCVersions
SPECIFICATION Spec
INVARIANTS
  TypeOK
  ReadAcceptsContainers
  HeaderReadAgrees
  RoutingAgrees
  BoundedMemory
  DocumentIsOneContainer
PROPERTIES
  CallReturns

CONSTANTS
  kCodebookSize = 2
  kFormatMaxGaussianCount = 6
  kMaxGaussianCount = 4
  kMaxNameLength = 6
  kFloatLimit = 50
  Files <- MCFiles
  Worlds <- MCWorlds
  EditPrimaries <- MCEditPrimaries
  EditCompanions <- MCEditCompanions
  Loaders = {"file", "loader", "overreads"}
  kMaxMetadataBytes = 12
  kCanReadPrefixLimit = 10
  kMaxZipArchiveBytes = 20
  kMaxZipEntryCount = 9
  kMaxZipExpandedBytes = 40
  kMaxPlaneBytes = 32
  kMaxPlaneDimension = 7
  kShCentroidsPerRow = 2
SPECIFICATION Spec
INVARIANTS
  ReadAcceptsContainers
  MetadataReadAgrees
  RoutingAgrees
  DocumentIsOneContainer
  ReplacementIsNoReason
  BoundedMemory

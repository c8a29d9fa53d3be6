CONSTANTS
  kJsonMaxDepth = 1
  kJsonMaxTokens = 3
  MaxLength = 9
  Lexemes <- MCLexemes
  Strings <- MCStrings
  Numbers <- MCNumbers
  Locations <- MCLocations
  Sizes = {0, 2}
  Anchors <- MCAnchors
  Plane = "scales"
  SearchPath <- MCSearchPath
  kMaxPlaneBytes = 1
SPECIFICATION MCSpec
INVARIANTS
  AcceptsExactlyDocuments
  BoundedRecursion
  BoundedTree
  CompanionIsSibling
  SiblingIsFound
CHECK_DEADLOCK FALSE

SPECIFICATION FairSpec
CONSTANTS
  None = None
  Slash = 47
  MaxListLimit = 2
  Keys <- MCKeys
  InitRows <- MCInitRows
  Prefixes <- MCPrefixes
  PageSizes = {1, 3}
  FirstSize = 1
  MaxCalls = 3
  MaxPages = 3
  MaxEvents = 2
INVARIANTS
  PagerTypeOK
  NewestShown
  ExactPages
  WalkMissesNothing
  TotalsMatchWalk
PROPERTIES
  WalkEnds

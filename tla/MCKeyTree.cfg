SPECIFICATION Spec
CONSTANTS
  Keys <- MCKeys
  Empty = ""
  TempLike = {".upload-z"}
  Requests = {r1, r2, r3}
  None = None
  Calls <- MCCalls
  InitKeys <- MCInitKeys
  AtOnce = 2
SYMMETRY Symmetry
INVARIANTS
  KeyTreeTypeOK
  NeighboursSpared
  NoEmptyDirs
  AnsweredByTheFiles
  SweptClean
  RoomForSidecars

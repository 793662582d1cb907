\* Three calls that overlap in every way, one crash, one failed call.
SPECIFICATION Spec
CONSTANTS
  k1 = k1
  k2 = k2
  d = d
  Keys = {k1}
  Folder <- Below
  Requests = {r1, r2, r3}
  None = None
  Seed = Seed
  InitStates = {"unused", "empty", "stored", "unindexed"}
  Ops = {"create", "delete", "rotate", "put", "get", "acl", "remove", "list", "reindex", "startup"}
  MayOverlap <- Everything
  MaxCrashes = 1
  MaxFaults = 1
SYMMETRY Symmetry
INVARIANTS
  LifecycleTypeOK
  RevokedAtOnce
  UploadsSurvive

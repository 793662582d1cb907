\* Deletions overlap nothing, other admin calls only object calls; one failed call.
SPECIFICATION Spec
CONSTANTS
  k1 = k1
  k2 = k2
  d = d
  Keys = {k1, k2}
  Folder <- Below
  Requests = {r1, r2, r3}
  None = None
  Seed = Seed
  InitStates = {"unused", "empty", "stored", "unindexed"}
  Ops = {"create", "delete", "rotate", "put", "get", "acl", "remove", "list", "reindex", "startup"}
  MayOverlap <- OneAdminCall
  MaxCrashes = 0
  MaxFaults = 1
SYMMETRY Symmetry
INVARIANTS
  Belongs
  PairWorks
  PairKnown
PROPERTIES
  RefusedForCause

\* An upload that fails or dies with the server, perhaps a restart, then a deletion that
\* runs alone.
SPECIFICATION Spec
CONSTANTS
  k1 = k1
  k2 = k2
  d = d
  Keys = {k1}
  Folder <- Below
  Requests = {r1, r2, r3}
  None = None
  Seed = Seed
  InitStates = {"empty"}
  Ops = {"put", "delete", "reindex", "startup"}
  MayOverlap <- OneAdminCall
  MaxCrashes = 1
  MaxFaults = 1
SYMMETRY Symmetry
PROPERTIES
  RefusedOnlyWithObjects

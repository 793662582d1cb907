\* An upload overlaps the deletion of its bucket.
SPECIFICATION Spec
CONSTANTS
  k1 = k1
  k2 = k2
  d = d
  Keys = {k1}
  Folder <- Below
  Requests = {r1, r2}
  None = None
  Seed = Seed
  InitStates = {"empty"}
  Ops = {"put", "delete", "startup"}
  MayOverlap <- Everything
  MaxCrashes = 0
  MaxFaults = 0
SYMMETRY Symmetry
INVARIANTS
  RowsNeverOutlive

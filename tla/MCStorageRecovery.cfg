\* Reindexes that run alone, after crashes of overlapping calls.
SPECIFICATION Spec
CONSTANTS
  Keys = {k1}
  Requests = {r1, r2, r3}
  ContentTypes = {html}
  BodyLens = {2}
  TypeLen <- MCTypeLen
  None = None
  NoType = NoType
  Garbage = Garbage
  Seed = Seed
  PublicSeeds = {k1}
  InitStates = {"indexed", "legacy"}
  Ops = {"put", "acl", "delete", "list", "reindex", "startup"}
  MayOverlap <- WalkersAlone
  MaxCrashes = 1
  MaxFaults = 0
SYMMETRY Symmetry
PROPERTIES
  ReindexRebuilds

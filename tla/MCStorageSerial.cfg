\* Two keys; GETs and listings overlap each other, everything else runs alone on its key,
\* nothing fails, every file has a row or an ETag.
SPECIFICATION Spec
CONSTANTS
  Keys = {k1, k2}
  Requests = {r1, r2, r3}
  ContentTypes = {html}
  BodyLens = {2}
  TypeLen <- MCTypeLen
  None = None
  NoType = NoType
  Garbage = Garbage
  Seed = Seed
  PublicSeeds = {k1}
  InitStates = {"absent", "indexed", "unindexed", "untagged"}
  Ops = {"put", "get", "anon", "acl", "delete", "list", "reindex", "startup"}
  MayOverlap <- ReadersOverlap
  MaxCrashes = 0
  MaxFaults = 0
SYMMETRY Symmetry
INVARIANTS
  SettledAgree
PROPERTIES
  ListNotSilentlyEmpty
  ActsAtomically

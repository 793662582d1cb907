\* GETs of a key, one of them overlapping an ACL change, a PUT or another GET; nothing fails.
SPECIFICATION Spec
CONSTANTS
  Keys = {k1}
  Requests = {r1, r2}
  ContentTypes = {html}
  BodyLens = {2}
  TypeLen <- MCTypeLen
  None = None
  NoType = NoType
  Garbage = Garbage
  Seed = Seed
  PublicSeeds = {k1}
  InitStates = {"absent", "unindexed", "legacy"}
  Ops = {"put", "acl", "get"}
  MayOverlap <- Everything
  MaxCrashes = 0
  MaxFaults = 0
INVARIANTS
  MetadataReplayed

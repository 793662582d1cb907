\* Two calls that overlap in every way on one key, one crash, one failed call.
SPECIFICATION FairSpec
CONSTANTS
  Keys = {k1}
  Requests = {r1, r2}
  ContentTypes = {html}
  BodyLens = {0, 2}
  TypeLen <- MCTypeLen
  None = None
  NoType = NoType
  Garbage = Garbage
  Seed = Seed
  PublicSeeds = {}
  InitStates = {"absent", "indexed", "unindexed", "legacy", "untagged"}
  Ops = {"put", "get", "anon", "acl", "delete", "list", "reindex", "startup"}
  MayOverlap <- Everything
  MaxCrashes = 1
  MaxFaults = 1
INVARIANTS
  TypeOK
  WholeObjects
  ETagsGenuine
  PublicOnlyIfAsked
  ReindexExclusive
  TempOwned
PROPERTIES
  Progress

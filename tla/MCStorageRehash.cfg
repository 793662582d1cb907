\* An admin reindex after a crash that left bytes and sidecar apart.
SPECIFICATION FairSpec
CONSTANTS
  Keys = {k1}
  Requests = {r1, r2}
  ContentTypes = {html}
  BodyLens = {1, 2}
  TypeLen <- MCTypeLen
  None = None
  NoType = NoType
  Garbage = Garbage
  Seed = Seed
  PublicSeeds = {k1}
  InitStates = {"indexed"}
  Ops = {"put", "reindex"}
  MayOverlap <- WalkersAlone
  MaxCrashes = 1
  MaxFaults = 0
PROPERTIES
  ForcedReindexRehashes

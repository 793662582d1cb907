\* Three requests, two buckets, four seconds, one restart.
SPECIFICATION Spec
CONSTANTS
  b1 = b1
  b2 = b2
  k1 = k1
  k2 = k2
  nl = nl
  Buckets = {b1, b2}
  Keys = {k1, k2, nl}
  Multiline = {nl}
  Masters = {m1, m2}
  None = None
  Scenarios <- MCScenarios
  InitPublic <- MCPublic
  InitPrivate <- MCPrivate
  InitRows <- MCRows
  ClockSkewSeconds = 1
  MaxPresignExpirySeconds = 1
  PresignCacheCap = 1
  MaxInt = 31
  Ticks = 1
  Requests = {r1, r2, r3}
  MaxTime = 3
  MaxRestarts = 1
  AtOnce = 2
SYMMETRY Symmetry
INVARIANTS
  AuthTypeOK
  OnlyAsSigned
  GoodCredentialsWork
  ReplayWindow
  PrivateUnlessReread
  FailClosed
  FreshOnlyWhileValid

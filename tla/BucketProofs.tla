--------------------------- MODULE BucketProofs ---------------------------
(***************************************************************************)
(* Proofs about BucketLifecycle, for every set of keys and requests, every *)
(* overlap of calls and every number of crashes and failures.              *)
(***************************************************************************)
EXTENDS BucketLifecycle, TLAPS

-----------------------------------------------------------------------------
(* Data. *)

LEMMA CallFields ==
  ASSUME NEW c \in Calls
  PROVE  /\ c.op \in AllOps /\ c.pair \in Minters \cup {None}
         /\ (c.key \in Keys) <=> (c.op \in {"put", "get", "acl", "remove"})
         /\ c # None
  <1>1. /\ c.op \in Ops /\ c.key \in Keys \cup {None} /\ c.pair \in Minters \cup {None}
        /\ (c.key # None) <=> (c.op \in {"put", "get", "acl", "remove"})
    BY DEF Calls
  <1> QED
    BY <1>1, LifecycleConstants, LifecycleSentinels

LEMMA NoneApart == None \notin Requests /\ None \notin Keys /\ None \notin BucketRows
  BY LifecycleSentinels DEF Minters

LEMMA BucketFields ==
  ASSUME NEW b \in BucketRows
  PROVE  /\ b.born \in Minters /\ b.pair \in Minters
         /\ \A m \in Minters : [b EXCEPT !.pair = m] \in BucketRows
  BY DEF BucketRows

LEMMA ScanFields ==
  ASSUME NEW z \in Scans
  PROVE  /\ z.existing \in [Keys -> Minters \cup {None}] /\ z.names \in SUBSET (Keys \cup Folders)
         /\ z.seen \in SUBSET Keys /\ z.upserts \in [Keys -> Minters \cup {None}]
  BY DEF Scans

LEMMA ScanExcept ==
  ASSUME NEW z \in Scans
  PROVE  /\ \A f \in [Keys -> Minters \cup {None}] : [z EXCEPT !.existing = f] \in Scans
         /\ \A S \in SUBSET (Keys \cup Folders) : [z EXCEPT !.names = S] \in Scans
  BY DEF Scans

LEMMA VisitedType ==
  ASSUME NEW z \in Scans, NEW k \in Keys, NEW m \in Minters \cup {None}
  PROVE  Visited(z, k, m) \in Scans
  BY DEF Scans, Visited

LEMMA OpenedType ==
  ASSUME NEW z \in Scans, NEW f, NEW S \in SUBSET Keys
  PROVE  Opened(z, f, S) \in Scans /\ Opened(z, f, S).upserts = z.upserts
  BY DEF Scans, Opened

LEMMA ObjectsAre == \A f : Objects(f) \in SUBSET Keys
  BY DEF Objects

-----------------------------------------------------------------------------
(* Type correctness: which handlers reach which label.                      *)

Stage(r) ==
  \/ pc[r] \in Ended
  \/ req[r].op = "create" /\ pc[r] \in {"lookup", "insert", "mkdir", "undo"}
  \/ req[r].op = "delete" /\ pc[r] \in {"require", "isempty", "drop", "rmdir"}
  \/ req[r].op = "rotate" /\ pc[r] \in {"require", "setkeys"}
  \/ req[r].op = "put" /\ pc[r] \in {"auth", "mkparents", "mktemp", "rename", "stat", "upsert"}
  \/ req[r].op = "put" /\ pc[r] = "mkfolder" /\ Folder[req[r].key] # None
  \/ req[r].op \in {"get", "acl"} /\ pc[r] \in {"auth", "open", "getrow", "heal", "upsert"}
  \/ req[r].op = "remove" /\ pc[r] \in {"auth", "rmfile", "prune", "rmrow"}
  \/ req[r].op = "list" /\ pc[r] \in {"auth", "hasrows", "hasfiles", "lock"} \cup InLock
  \/ req[r].op = "reindex" /\ pc[r] \in {"require", "lock"} \cup InLock
  \/ req[r].op = "startup" /\ pc[r] \in {"buckets", "lock"} \cup InLock

Place(r) == IF req[r] = None THEN pc[r] = "idle" ELSE Stage(r)
Placed == \A r \in Requests : Place(r)
TypeInv == LifecycleTypeOK /\ Placed

LEMMA TypeInit == Init => TypeInv
  <1> SUFFICES ASSUME Init PROVE TypeInv
    OBVIOUS
  <1>1. /\ bucket \in BucketRows \cup {None} /\ dir \in BOOLEAN /\ sub \in SUBSET Folders
        /\ row \in [Keys -> Minters \cup {None}] /\ file \in [Keys -> Minters \cup {None}]
    BY DEF Init, BucketRows, Minters, NoRows
  <1>2. NoScan \in Scans
    BY DEF NoScan, NoRows, Scans
  <1>3. LifecycleTypeOK
    BY <1>1, <1>2, LifecycleConstants DEF Init, LifecycleTypeOK, Labels
  <1>4. Placed
    BY DEF Init, Placed, Place
  <1> QED
    BY <1>3, <1>4 DEF TypeInv

\* Who can take a step, and what no step of a handler changes.
LEMMA StepFrame ==
  ASSUME TypeInv, NEW r \in Requests, Step(r)
  PROVE  /\ req[r] \in Calls /\ Stage(r) /\ pc[r] \notin Ended
         /\ UNCHANGED env
         /\ \A q \in Requests \ {r} : pc'[q] = pc[q] /\ auth'[q] = auth[q]
  <1> USE DEF Goto, TypeInv, LifecycleTypeOK, local
  <1>1. pc[r] \notin Ended \cup {"idle"}
    BY DEF Step, At, Ended, Lookup, Insert, CreateBucketDirectory, Undo, RequireBucket,
       IsBucketEmpty, DropBucket, RemoveBucketDirectory, UpdateBucketKeys, BucketAuth, MakeParents,
       MakeFolder,
       CreateTemp, Rename, StatTarget, UpsertObject, Open, GetRow, Heal, RemoveFile,
       RemoveEmptyParents, RemoveRow,
       HasRows, HasFiles, ListBuckets, Lock, IsDir, IndexedObjects, ReadDir, Visit, VisitFile,
       VisitFolder, Apply
  <1>2. req[r] \in Calls /\ Stage(r)
    BY <1>1 DEF Placed, Place
  <1>3. UNCHANGED env /\ \A q \in Requests \ {r} : pc'[q] = pc[q] /\ auth'[q] = auth[q]
    <2>1. CASE Lookup(r) \/ Insert(r) \/ CreateBucketDirectory(r) \/ Undo(r) \/ RequireBucket(r)
      BY <2>1 DEF Lookup, Insert, CreateBucketDirectory, Undo, RequireBucket
    <2>2. CASE IsBucketEmpty(r) \/ DropBucket(r) \/ RemoveBucketDirectory(r) \/ UpdateBucketKeys(r)
      BY <2>2 DEF IsBucketEmpty, DropBucket, RemoveBucketDirectory, UpdateBucketKeys
    <2>3. CASE BucketAuth(r) \/ MakeParents(r) \/ MakeFolder(r) \/ CreateTemp(r) \/ Rename(r)
               \/ StatTarget(r)
      BY <2>3 DEF BucketAuth, MakeParents, MakeFolder, CreateTemp, Rename, StatTarget
    <2>4. CASE UpsertObject(r) \/ Open(r) \/ GetRow(r) \/ Heal(r) \/ RemoveFile(r)
               \/ RemoveEmptyParents(r) \/ RemoveRow(r)
      BY <2>4 DEF UpsertObject, Open, GetRow, Heal, RemoveFile, RemoveEmptyParents, RemoveRow
    <2>5. CASE HasRows(r) \/ HasFiles(r) \/ ListBuckets(r) \/ Lock(r) \/ IndexedObjects(r)
      BY <2>5 DEF HasRows, HasFiles, ListBuckets, Lock, IndexedObjects
    <2>6. CASE IsDir(r) \/ ReadDir(r) \/ Apply(r)
      BY <2>6 DEF IsDir, ReadDir, Apply, End
    <2>7. CASE Visit(r)
      BY <2>7 DEF Visit, VisitFile, VisitFolder, End
    <2> QED
      BY <2>1, <2>2, <2>3, <2>4, <2>5, <2>6, <2>7 DEF Step
  <1> QED
    BY <1>1, <1>2, <1>3
\* A step of r changes where r stands, and where nobody else does.
LEMMA PlacedKept ==
  ASSUME TypeInv, NEW r \in Requests, Step(r), Stage(r)'
  PROVE  Placed'
  <1>1. req' = req /\ req[r] # None
    BY StepFrame, CallFields DEF env
  <1> QED
    BY <1>1, StepFrame DEF Placed, Place, Stage, TypeInv

LEMMA AdminType ==
  ASSUME TypeInv, NEW r \in Requests, Step(r),
         \/ Lookup(r) \/ Insert(r) \/ CreateBucketDirectory(r) \/ Undo(r) \/ RequireBucket(r)
         \/ IsBucketEmpty(r) \/ DropBucket(r) \/ RemoveBucketDirectory(r) \/ UpdateBucketKeys(r)
  PROVE  TypeInv'
  <1> USE DEF Goto, At, LifecycleTypeOK, TypeInv
  <1>1. Stage(r) /\ req[r].op \in AllOps /\ req' = req
    BY StepFrame, CallFields DEF env
  <1>2. NoRows \in [Keys -> Minters \cup {None}] /\ r \in Minters
    BY DEF NoRows, Minters
  <1>3. /\ \A label \in Labels : Goto(r, label) => pc' \in [Requests -> Labels]
        /\ \A label : Goto(r, label) => pc'[r] = label
    OBVIOUS
  <1>4. CASE Lookup(r) \/ IsBucketEmpty(r)
    <2>1. Stage(r)'
      BY <1>1, <1>4 DEF Lookup, IsBucketEmpty, Stage, Ended, InLock
    <2>2. LifecycleTypeOK'
      BY <1>4 DEF Lookup, IsBucketEmpty, db, fs, local, env, Labels, Ended
    <2> QED
      BY <2>1, <2>2, PlacedKept
  <1>5. CASE Insert(r)
    <2>1. Stage(r)'
      BY <1>1, <1>5 DEF Insert, Stage, Ended, InLock
    <2>2. [born |-> r, pair |-> r] \in BucketRows
      BY <1>2 DEF BucketRows
    <2>3. LifecycleTypeOK'
      BY <1>5, <2>2 DEF Insert, fs, local, env, Labels, Ended
    <2> QED
      BY <2>1, <2>3, PlacedKept
  <1>6. CASE CreateBucketDirectory(r) \/ RemoveBucketDirectory(r)
    <2>1. Stage(r)'
      BY <1>1, <1>6 DEF CreateBucketDirectory, RemoveBucketDirectory, Stage, Ended, InLock
    <2>2. LifecycleTypeOK'
      BY <1>6 DEF CreateBucketDirectory, RemoveBucketDirectory, db, local, env, Labels, Ended
    <2> QED
      BY <2>1, <2>2, PlacedKept
  <1>7. CASE Undo(r) \/ DropBucket(r)
    <2>1. Stage(r)'
      BY <1>1, <1>7 DEF Undo, DropBucket, Stage, Ended, InLock
    <2>2. LifecycleTypeOK'
      BY <1>2, <1>7 DEF Undo, DropBucket, DropBucketRow, fs, local, env, Labels, Ended
    <2> QED
      BY <2>1, <2>2, PlacedKept
  <1>8. CASE RequireBucket(r)
    <2>1. req[r].op \in {"delete", "rotate", "reindex"}
      BY <1>1, <1>8 DEF RequireBucket, Stage, Ended, InLock
    <2>2. Stage(r)'
      BY <1>1, <1>8, <2>1 DEF RequireBucket, Stage, Ended, InLock, Admitted
    <2>3. LifecycleTypeOK'
      BY <1>8, <2>1 DEF RequireBucket, Admitted, db, fs, local, env, Labels, Ended
    <2> QED
      BY <2>2, <2>3, PlacedKept
  <1>9. CASE UpdateBucketKeys(r)
    <2>1. Stage(r)'
      BY <1>1, <1>9 DEF UpdateBucketKeys, Stage, Ended, InLock
    <2>2. bucket' \in BucketRows \cup {None}
      BY <1>2, <1>9, BucketFields DEF UpdateBucketKeys
    <2>3. LifecycleTypeOK'
      BY <1>9, <2>2 DEF UpdateBucketKeys, fs, local, env, Labels, Ended
    <2> QED
      BY <2>1, <2>3, PlacedKept
  <1> QED
    BY <1>4, <1>5, <1>6, <1>7, <1>8, <1>9

LEMMA ObjectType ==
  ASSUME TypeInv, NEW r \in Requests, Step(r),
         \/ BucketAuth(r) \/ MakeParents(r) \/ MakeFolder(r) \/ CreateTemp(r) \/ Rename(r)
         \/ StatTarget(r)
         \/ UpsertObject(r) \/ Open(r) \/ GetRow(r) \/ Heal(r) \/ RemoveFile(r)
         \/ RemoveEmptyParents(r) \/ RemoveRow(r)
  PROVE  TypeInv'
  <1> USE DEF Goto, At, LifecycleTypeOK, TypeInv
  <1>1. Stage(r) /\ req[r].op \in AllOps /\ req' = req
    BY StepFrame, CallFields DEF env
  <1>2. req[r].op \in {"put", "get", "acl", "remove"} => req[r].key \in Keys
    BY StepFrame, CallFields
  <1>3. CASE BucketAuth(r)
    <2>1. req[r].op \in SignedOps
      BY <1>1, <1>3 DEF BucketAuth, Stage, Ended, InLock, SignedOps
    <2>2. Stage(r)'
      BY <1>1, <1>3, <2>1 DEF BucketAuth, Stage, Ended, InLock, Admitted, SignedOps
    <2>3. pc' \in [Requests -> Labels]
      BY <1>3, <2>1 DEF BucketAuth, Admitted, SignedOps, Labels, Ended
    <2>4. auth' \in [Requests -> Minters \cup {None}]
      BY <1>3, BucketFields DEF BucketAuth
    <2>5. LifecycleTypeOK'
      BY <1>3, <2>3, <2>4 DEF BucketAuth, db, fs, env
    <2> QED
      BY <2>2, <2>5, PlacedKept
  <1>4. CASE MakeParents(r) \/ MakeFolder(r) \/ CreateTemp(r) \/ Rename(r)
    <2>1. Stage(r)'
      BY <1>1, <1>4 DEF MakeParents, MakeFolder, CreateTemp, Rename, Stage, Ended, InLock
    <2>2. UNCHANGED <<db, lock, local, env>>
      BY <1>4 DEF MakeParents, MakeFolder, CreateTemp, Rename
    <2>3. /\ dir' \in BOOLEAN /\ file' \in [Keys -> Minters \cup {None}]
          /\ tmp' \in SUBSET Requests /\ sub' \in SUBSET Folders
      <3>1. sub' = sub \/ (MakeFolder(r) /\ sub' = sub \cup {Folder[req[r].key]})
        BY <1>4 DEF MakeParents, MakeFolder, CreateTemp, Rename
      <3>2. MakeFolder(r) => Folder[req[r].key] \in Folders
        BY <1>1, <1>2 DEF MakeFolder, Stage, Ended, InLock, Folders
      <3> QED
        BY <1>4, <3>1, <3>2 DEF MakeParents, MakeFolder, CreateTemp, Rename, Minters
    <2>4. pc' \in [Requests -> Labels]
      BY <1>4 DEF MakeParents, MakeFolder, CreateTemp, Rename, Labels, Ended
    <2>5. LifecycleTypeOK'
      <3>1. UNCHANGED <<bucket, row, lock, req, auth, cur, scan, before, boot, crashes, faults>>
        BY <2>2 DEF db, local, env
      <3> QED
        BY <2>3, <2>4, <3>1
    <2> QED
      BY <2>1, <2>5, PlacedKept
  <1>5. CASE StatTarget(r) \/ Heal(r)
    <2>1. Stage(r)'
      BY <1>1, <1>5 DEF StatTarget, Heal, Stage, Ended, InLock
    <2>2. req[r].key \in Keys
      BY <1>1, <1>2, <1>5 DEF StatTarget, Heal, Stage, Ended, InLock
    <2>3. LifecycleTypeOK'
      BY <1>5, <2>2 DEF StatTarget, Heal, db, fs, env, Labels, Ended
    <2> QED
      BY <2>1, <2>3, PlacedKept
  <1>6. CASE UpsertObject(r) \/ RemoveFile(r) \/ RemoveEmptyParents(r) \/ RemoveRow(r)
    <2>1. Stage(r)'
      BY <1>1, <1>6 DEF UpsertObject, RemoveFile, RemoveEmptyParents, RemoveRow, Stage, Ended,
         InLock
    <2>2. LifecycleTypeOK'
      BY <1>6 DEF UpsertObject, RemoveFile, RemoveEmptyParents, RemoveRow, db, fs, local, env,
         Labels, Ended
    <2> QED
      BY <2>1, <2>2, PlacedKept
  <1>7. CASE Open(r) \/ GetRow(r)
    <2>1. Stage(r)'
      BY <1>1, <1>7 DEF Open, GetRow, Stage, Ended, InLock
    <2>2. req[r].key \in Keys
      BY <1>1, <1>2, <1>7 DEF Open, GetRow, Stage, Ended, InLock
    <2>3. LifecycleTypeOK'
      BY <1>7, <2>2 DEF Open, GetRow, db, fs, local, env, Labels, Ended
    <2> QED
      BY <2>1, <2>3, PlacedKept
  <1> QED
    BY <1>3, <1>4, <1>5, <1>6, <1>7

LEMMA WalkType ==
  ASSUME TypeInv, NEW r \in Requests, Step(r),
         \/ HasRows(r) \/ HasFiles(r) \/ ListBuckets(r) \/ Lock(r) \/ IsDir(r)
         \/ IndexedObjects(r) \/ ReadDir(r) \/ Visit(r) \/ Apply(r)
  PROVE  TypeInv'
  <1> USE DEF Goto, At, LifecycleTypeOK, TypeInv
  <1>1. Stage(r) /\ req[r].op \in AllOps /\ req' = req
    BY StepFrame, CallFields DEF env
  <1>2. scan[r] \in Scans
    OBVIOUS
  <1>3. CASE HasRows(r) \/ HasFiles(r) \/ ListBuckets(r) \/ Lock(r)
    <2>1. Stage(r)'
      BY <1>1, <1>3 DEF HasRows, HasFiles, ListBuckets, Lock, Stage, Ended, InLock
    <2>2. LifecycleTypeOK'
      BY <1>3 DEF HasRows, HasFiles, ListBuckets, Lock, db, fs, local, env, Labels, Ended, InLock
    <2> QED
      BY <2>1, <2>2, PlacedKept
  <1>4. CASE IsDir(r)
    <2>1. Stage(r)'
      BY <1>1, <1>4 DEF IsDir, End, Stage, Ended, InLock
    <2>2. LifecycleTypeOK'
      BY <1>4 DEF IsDir, End, NoRows, fs, local, env, Labels, Ended, InLock
    <2> QED
      BY <2>1, <2>2, PlacedKept
  <1>5. CASE IndexedObjects(r)
    <2>1. Stage(r)'
      BY <1>1, <1>5 DEF IndexedObjects, Stage, Ended, InLock
    <2>2. [scan[r] EXCEPT !.existing = row] \in Scans
      BY <1>2, ScanExcept
    <2>3. LifecycleTypeOK'
      BY <1>5, <2>2 DEF IndexedObjects, db, fs, env, Labels, Ended, InLock
    <2> QED
      BY <2>1, <2>3, PlacedKept
  <1>6. CASE ReadDir(r)
    <2>1. Stage(r)'
      BY <1>1, <1>6 DEF ReadDir, End, Stage, Ended, InLock
    <2>2. [scan[r] EXCEPT !.names = Objects(None) \cup sub] \in Scans
      BY <1>2, ScanExcept, ObjectsAre
    <2>3. LifecycleTypeOK'
      <3>1. UNCHANGED <<db, fs, auth, cur, env>>
        BY <1>6 DEF ReadDir
      <3>2. pc' \in [Requests -> Labels] /\ lock' \in Requests \cup {None}
        BY <1>6 DEF ReadDir, End, Labels, Ended, InLock
      <3>3. scan' \in [Requests -> Scans]
        BY <1>6, <2>2 DEF ReadDir
      <3> QED
        BY <3>1, <3>2, <3>3 DEF db, fs, env
    <2> QED
      BY <2>1, <2>3, PlacedKept
  <1>7. CASE Visit(r)
    <2>1. Stage(r)'
      BY <1>1, <1>7 DEF Visit, VisitFile, VisitFolder, End, Stage, Ended, InLock
    <2>2. /\ \A k \in Keys, m \in Minters \cup {None} : Visited(scan[r], k, m) \in Scans
          /\ \A f : Opened(scan[r], f, Objects(f)) \in Scans
      BY <1>2, VisitedType, OpenedType, ObjectsAre
    <2>3. \A k \in Keys : file[k] \in Minters \cup {None}
      OBVIOUS
    <2>4. scan' \in [Requests -> Scans]
      <3>1. CASE UNCHANGED scan
        BY <3>1
      <3>2. CASE \E k \in Keys, m \in Minters \cup {None} :
                   scan' = [scan EXCEPT ![r] = Visited(scan[r], k, m)]
        BY <2>2, <3>2
      <3>3. CASE \E f : scan' = [scan EXCEPT ![r] = Opened(scan[r], f, Objects(f))]
        BY <2>2, <3>3
      <3> QED
        BY <1>7, <2>3, <3>1, <3>2, <3>3 DEF Visit, VisitFile, VisitFolder
    <2>5. pc' \in [Requests -> Labels] /\ lock' \in Requests \cup {None}
      BY <1>7 DEF Visit, VisitFile, VisitFolder, End, Labels, Ended, InLock
    <2>6. LifecycleTypeOK'
      BY <1>7, <2>4, <2>5 DEF Visit, VisitFile, VisitFolder, db, fs, env
    <2> QED
      BY <2>1, <2>6, PlacedKept
  <1>8. CASE Apply(r)
    <2>1. Stage(r)'
      BY <1>1, <1>8 DEF Apply, End, Stage, Ended, InLock
    <2>2. \A k \in Keys : scan[r].upserts[k] \in Minters \cup {None}
      BY <1>2, ScanFields
    <2>3. row' \in [Keys -> Minters \cup {None}]
      BY <1>8, <2>2 DEF Apply
    <2>4. LifecycleTypeOK'
      BY <1>8, <2>3 DEF Apply, End, fs, local, env, Labels, Ended, InLock
    <2> QED
      BY <2>1, <2>4, PlacedKept
  <1> QED
    BY <1>3, <1>4, <1>5, <1>6, <1>7, <1>8
LEMMA StartType ==
  ASSUME TypeInv, NEW r \in Requests, Start(r)
  PROVE  TypeInv'
  <1> USE DEF Goto, At, LifecycleTypeOK, TypeInv
  <1>1. PICK c \in Calls : /\ req' = [req EXCEPT ![r] = c]
                           /\ boot' = (boot /\ c.op # "startup")
                           /\ Goto(r, Entry(c.op))
    BY DEF Start
  <1>2. /\ Entry(c.op) \in Labels
        /\ c.op = "create" => Entry(c.op) = "lookup"
        /\ c.op = "startup" => Entry(c.op) = "buckets"
        /\ c.op \in {"delete", "rotate", "reindex"} => Entry(c.op) = "require"
        /\ c.op \in SignedOps => Entry(c.op) = "auth"
    BY CallFields DEF Entry, AllOps, AdminOps, SignedOps, Labels
  <1>3. before' \in [Requests -> SUBSET Requests]
    BY DEF Start
  <1>4. LifecycleTypeOK'
    BY <1>1, <1>2, <1>3 DEF Start, db, fs, local
  <1>5. Place(r)'
    <2>1. req'[r] = c /\ pc'[r] = Entry(c.op) /\ c # None /\ c.op \in AllOps
      BY <1>1, CallFields
    <2> QED
      BY <1>2, <2>1 DEF Place, Stage, AllOps, AdminOps, SignedOps
  <1>6. \A q \in Requests \ {r} : Place(q)'
    BY <1>1 DEF Placed, Place, Stage
  <1> QED
    BY <1>4, <1>5, <1>6 DEF Placed

LEMMA FailType ==
  ASSUME TypeInv, NEW r \in Requests, Fail(r)
  PROVE  TypeInv'
  <1> USE DEF Goto, At, LifecycleTypeOK, TypeInv
  <1>1. req[r] \in Calls /\ Stage(r)
    BY DEF Fail, Running, Placed, Place
  <1>2. /\ pc'[r] = IF pc[r] = "mkdir" THEN "undo" ELSE "error"
        /\ \A q \in Requests \ {r} : pc'[q] = pc[q]
    BY DEF Fail, End
  <1>3. faults' \in 0..MaxFaults
    BY LifecycleConstants DEF Fail
  <1>4. LifecycleTypeOK'
    BY <1>3 DEF Fail, End, Cleanup, db, local, Labels, Ended
  <1>5. Stage(r)'
    BY <1>1, <1>2 DEF Fail, Stage, Ended, InLock
  <1> QED
    BY <1>1, <1>2, <1>4, <1>5, CallFields DEF Fail, Placed, Place, Stage

LEMMA TolerateType ==
  ASSUME TypeInv, NEW r \in Requests, Tolerate(r)
  PROVE  TypeInv'
  <1> USE DEF Goto, At, LifecycleTypeOK, TypeInv
  <1>1. /\ pc[r] \in {"isdir", "hasfiles", "prune", "open"}
        /\ pc'[r] = CASE pc[r] \in {"isdir", "hasfiles"} -> "ok" [] pc[r] = "prune" -> "rmrow"
                      [] pc[r] = "open" -> "notfound"
        /\ \A q \in Requests \ {r} : pc'[q] = pc[q]
        /\ pc' \in [Requests -> Labels] /\ lock' \in Requests \cup {None}
    BY DEF Tolerate, Ignored, End, Labels, Ended
  <1>2. req[r] \in Calls /\ Stage(r)
    BY <1>1 DEF Placed, Place
  <1>3. faults' \in 0..MaxFaults
    BY LifecycleConstants DEF Tolerate
  <1>4. row' \in [Keys -> Minters \cup {None}]
    BY DEF Tolerate, NoRows
  <1>5. LifecycleTypeOK'
    BY <1>1, <1>3, <1>4 DEF Tolerate, fs, local
  <1>6. Stage(r)'
    BY <1>1, <1>2 DEF Tolerate, Stage, Ended, InLock
  <1> QED
    BY <1>1, <1>2, <1>5, <1>6, CallFields DEF Tolerate, Placed, Place, Stage

LEMMA CrashType ==
  ASSUME TypeInv, Crash
  PROVE  TypeInv'
  <1> USE DEF LifecycleTypeOK, TypeInv
  <1>1. crashes' \in 0..MaxCrashes
    BY LifecycleConstants DEF Crash
  <1>2. LifecycleTypeOK'
    BY <1>1 DEF Crash, db, fs, local, Labels, Ended
  <1>3. Placed'
    BY DEF Crash, Running, Placed, Place, Stage, Ended
  <1> QED
    BY <1>2, <1>3

LEMMA TypeStep ==
  ASSUME TypeInv, [Next]_vars
  PROVE  TypeInv'
  <1>1. ASSUME NEW r \in Requests, Step(r) PROVE TypeInv'
    BY <1>1, AdminType, ObjectType, WalkType DEF Step
  <1>2. CASE UNCHANGED vars \/ Rest
    BY <1>2 DEF Rest, vars, db, fs, local, env, TypeInv, LifecycleTypeOK, Placed, Place, Stage
  <1> QED
    BY <1>1, <1>2, StartType, FailType, TolerateType, CrashType DEF Next

LEMMA TypeInvariant == Spec => []TypeInv
  BY TypeInit, TypeStep, PTL DEF Spec

\* Every variable keeps its type (LifecycleTypeOK), for any number of keys,
\* requests, crashes and failures.
THEOREM LifecycleTypeCorrect == Spec => []LifecycleTypeOK
  <1>1. TypeInv => LifecycleTypeOK
    BY DEF TypeInv
  <1> QED
    BY <1>1, TypeInvariant, PTL
-----------------------------------------------------------------------------
(* Who changes what. *)

\* The bucket row stays, goes, or gets the key pair of the handler that steps.
LEMMA BucketMoves ==
  ASSUME TypeInv, NEW r \in Requests, Step(r)
  PROVE  bucket' = bucket \/ bucket' = None \/ bucket'.pair = r
  <1>1. CASE Insert(r) \/ Undo(r) \/ DropBucket(r)
    BY <1>1 DEF Insert, Undo, DropBucket, DropBucketRow
  <1>2. CASE UpdateBucketKeys(r)
    BY <1>2 DEF UpdateBucketKeys, BucketRows, TypeInv, LifecycleTypeOK
  <1>3. CASE Lookup(r) \/ CreateBucketDirectory(r) \/ RequireBucket(r) \/ IsBucketEmpty(r)
             \/ RemoveBucketDirectory(r) \/ BucketAuth(r) \/ MakeParents(r) \/ MakeFolder(r)
             \/ CreateTemp(r)
             \/ Rename(r) \/ StatTarget(r)
    BY <1>3 DEF db, Lookup, CreateBucketDirectory, RequireBucket, IsBucketEmpty,
       RemoveBucketDirectory, BucketAuth, MakeParents, MakeFolder, CreateTemp, Rename, StatTarget
  <1>4. CASE UpsertObject(r) \/ Open(r) \/ GetRow(r) \/ Heal(r) \/ RemoveFile(r)
             \/ RemoveEmptyParents(r) \/ RemoveRow(r)
             \/ HasRows(r) \/ HasFiles(r) \/ ListBuckets(r) \/ Lock(r)
    BY <1>4 DEF db, UpsertObject, Open, GetRow, Heal, RemoveFile, RemoveEmptyParents, RemoveRow,
       HasRows, HasFiles,
       ListBuckets, Lock
  <1>5. CASE IsDir(r) \/ IndexedObjects(r) \/ ReadDir(r) \/ Visit(r) \/ Apply(r)
    BY <1>5 DEF db, IsDir, IndexedObjects, ReadDir, Visit, VisitFile, VisitFolder, Apply
  <1> QED
    BY <1>1, <1>2, <1>3, <1>4, <1>5 DEF Step

\* A request is let in only by the bucket that has its key pair.
LEMMA AuthMoves ==
  ASSUME NEW r \in Requests, Step(r)
  PROVE  \/ UNCHANGED auth
         \/ BucketAuth(r) /\ bucket # None /\ bucket.pair = req[r].pair
  <1> USE DEF local
  <1>1. CASE BucketAuth(r)
    BY <1>1 DEF BucketAuth
  <1>2. CASE Lookup(r) \/ Insert(r) \/ CreateBucketDirectory(r) \/ Undo(r) \/ RequireBucket(r)
             \/ IsBucketEmpty(r) \/ DropBucket(r) \/ RemoveBucketDirectory(r) \/ UpdateBucketKeys(r)
    BY <1>2 DEF Lookup, Insert, CreateBucketDirectory, Undo, RequireBucket, IsBucketEmpty,
       DropBucket, RemoveBucketDirectory, UpdateBucketKeys
  <1>3. CASE MakeParents(r) \/ MakeFolder(r) \/ CreateTemp(r) \/ Rename(r) \/ StatTarget(r)
             \/ UpsertObject(r) \/ Open(r) \/ GetRow(r) \/ Heal(r) \/ RemoveFile(r)
             \/ RemoveEmptyParents(r) \/ RemoveRow(r)
    BY <1>3 DEF MakeParents, MakeFolder, CreateTemp, Rename, StatTarget, UpsertObject, Open,
       GetRow, Heal,
       RemoveFile, RemoveEmptyParents, RemoveRow
  <1>4. CASE HasRows(r) \/ HasFiles(r) \/ ListBuckets(r) \/ Lock(r) \/ IsDir(r)
             \/ IndexedObjects(r) \/ ReadDir(r) \/ Visit(r) \/ Apply(r)
    BY <1>4 DEF HasRows, HasFiles, ListBuckets, Lock, IsDir, IndexedObjects, ReadDir, Visit,
       VisitFile, VisitFolder, Apply
  <1> QED
    BY <1>1, <1>2, <1>3, <1>4 DEF Step

\* Files appear by an upload's rename and go by a DELETE of their key.
LEMMA FileMoves ==
  ASSUME NEW r \in Requests, Step(r), ~Rename(r), ~RemoveFile(r)
  PROVE  file' = file
  <1> USE DEF fs
  <1>1. CASE Lookup(r) \/ Insert(r) \/ CreateBucketDirectory(r) \/ Undo(r) \/ RequireBucket(r)
             \/ IsBucketEmpty(r) \/ DropBucket(r) \/ RemoveBucketDirectory(r) \/ UpdateBucketKeys(r)
    BY <1>1 DEF Lookup, Insert, CreateBucketDirectory, Undo, RequireBucket, IsBucketEmpty,
       DropBucket, RemoveBucketDirectory, UpdateBucketKeys
  <1>2. CASE BucketAuth(r) \/ MakeParents(r) \/ MakeFolder(r) \/ CreateTemp(r) \/ StatTarget(r)
             \/ UpsertObject(r) \/ Open(r) \/ GetRow(r) \/ Heal(r) \/ RemoveEmptyParents(r)
             \/ RemoveRow(r)
    BY <1>2 DEF BucketAuth, MakeParents, MakeFolder, CreateTemp, StatTarget, UpsertObject, Open,
       GetRow, Heal,
       RemoveEmptyParents, RemoveRow
  <1>3. CASE HasRows(r) \/ HasFiles(r) \/ ListBuckets(r) \/ Lock(r) \/ IsDir(r)
             \/ IndexedObjects(r) \/ ReadDir(r) \/ Visit(r) \/ Apply(r)
    BY <1>3 DEF HasRows, HasFiles, ListBuckets, Lock, IsDir, IndexedObjects, ReadDir, Visit,
       VisitFile, VisitFolder, Apply
  <1> QED
    BY <1>1, <1>2, <1>3 DEF Step

\* A call that fails unnoticed is one of a delete, a listing, an ACL change or a reindex.
LEMMA TolerateFrame ==
  ASSUME TypeInv, NEW r \in Requests, Tolerate(r)
  PROVE  /\ pc[r] \notin Ended \cup {"idle"} /\ pc[r] \in {"isdir", "hasfiles", "prune", "open"}
         /\ pc'[r] \in {"ok", "rmrow", "notfound"} /\ (pc'[r] = "rmrow" => pc[r] = "prune")
         /\ req[r] \in Calls /\ req[r].op \notin AdminOps \cup {"put"}
         /\ UNCHANGED <<bucket, fs, local, req, before, boot, crashes>>
         /\ faults' = faults + 1 /\ faults < MaxFaults
         /\ \A k \in Keys : row'[k] \in {row[k], None}
         /\ \A q \in Requests \ {r} : pc'[q] = pc[q]
  <1> USE DEF Goto, At, LifecycleTypeOK, TypeInv
  <1>1. /\ pc[r] \in {"isdir", "hasfiles", "prune", "open"}
        /\ pc'[r] \in {"ok", "rmrow", "notfound"} /\ (pc'[r] = "rmrow" => pc[r] = "prune")
        /\ \A q \in Requests \ {r} : pc'[q] = pc[q]
    BY DEF Tolerate, Ignored, End
  <1>2. req[r] \in Calls /\ Stage(r)
    BY <1>1 DEF Placed, Place
  <1>3. req[r].op \notin AdminOps \cup {"put"}
    BY <1>1, <1>2 DEF Stage, Ended, InLock, AdminOps
  <1>4. \A k \in Keys : row'[k] \in {row[k], None}
    BY DEF Tolerate, NoRows
  <1> QED
    BY <1>1, <1>2, <1>3, <1>4 DEF Tolerate, Ended

-----------------------------------------------------------------------------
(* Revocation.  The property speaks of calls that arrived after a rotation or  *)
(* deletion was answered; what keeps them out is that from the moment its SQL   *)
(* committed, the bucket never again has a pair issued before it arrived.       *)

Revoker(r) ==
  /\ req[r] # None
  /\ \/ req[r].op = "delete" /\ pc[r] \in {"rmdir", "ok"}
     \/ req[r].op = "rotate" /\ pc[r] = "ok"
Past == \A c \in Requests : \A r \in before[c] : pc[r] \in Ended
NotYetIn == \A c \in Requests : pc[c] = "idle" => auth[c] = None
RevokedPairs ==
  \A r \in Requests : Revoker(r) => bucket = None \/ bucket.pair \notin before[r] \cup {Seed}
RevokeInv == TypeInv /\ Past /\ NotYetIn /\ RevokedPairs /\ RevokedAtOnce

LEMMA RevokeInit == Init => RevokeInv
  BY TypeInit DEF Init, RevokeInv, Past, NotYetIn, RevokedPairs, Revoker, RevokedAtOnce

LEMMA RevokerMoves ==
  ASSUME TypeInv, NEW r \in Requests, Step(r), Revoker(r)'
  PROVE  \/ Revoker(r) /\ bucket' = bucket
         \/ bucket' = None
         \/ bucket'.pair = r
  <1> USE DEF Goto, At, TypeInv, LifecycleTypeOK
  <1>1. Stage(r) /\ req' = req /\ req[r].op \in {"delete", "rotate"}
    BY StepFrame DEF env, Revoker
  <1>2. req[r].op \in AllOps
    BY StepFrame, CallFields
  <1>3. pc[r] \in {"require", "isempty", "drop", "rmdir", "setkeys"}
    BY <1>1, StepFrame DEF Stage
  <1>4. CASE RequireBucket(r)
    BY <1>1, <1>4 DEF RequireBucket, Admitted, Revoker
  <1>5. CASE IsBucketEmpty(r)
    BY <1>5 DEF IsBucketEmpty, Revoker
  <1>6. CASE DropBucket(r)
    BY <1>6 DEF DropBucket, DropBucketRow
  <1>7. CASE RemoveBucketDirectory(r)
    BY <1>1, <1>7 DEF RemoveBucketDirectory, Revoker, Stage, Ended, InLock, db
  <1>8. CASE UpdateBucketKeys(r)
    BY <1>8 DEF UpdateBucketKeys, BucketRows
  <1> QED
    BY <1>3, <1>4, <1>5, <1>6, <1>7, <1>8 DEF Step, Lookup, Insert, CreateBucketDirectory, Undo,
       BucketAuth, MakeParents, MakeFolder, CreateTemp, Rename, StatTarget, UpsertObject, Open,
       GetRow, Heal,
       RemoveFile, RemoveEmptyParents, RemoveRow, HasRows, HasFiles, ListBuckets, Lock, IsDir,
       IndexedObjects, ReadDir,
       Visit, VisitFile, VisitFolder, Apply

LEMMA RevokeStep ==
  ASSUME RevokeInv, [Next]_vars
  PROVE  RevokeInv'
  <1>1. TypeInv'
    BY TypeStep DEF RevokeInv
  <1>2. ASSUME NEW r \in Requests, Step(r)
        PROVE  RevokeInv'
    <2>1. /\ req' = req /\ before' = before /\ pc[r] \notin Ended /\ pc[r] # "idle"
          /\ \A q \in Requests \ {r} : pc'[q] = pc[q] /\ auth'[q] = auth[q]
      <3>1. pc[r] # "idle"
        BY <1>2, StepFrame DEF RevokeInv, Stage, Ended, InLock
      <3> QED
        BY <1>2, <3>1, StepFrame DEF RevokeInv, env
    <2>2. /\ before[r] \subseteq Requests /\ Seed \notin Requests
          /\ \A c \in Requests : r \notin before[c]
          /\ \A c \in Requests : before[c] \subseteq Requests
      BY <2>1, LifecycleSentinels DEF RevokeInv, Past, TypeInv, LifecycleTypeOK
    <2>3. Past'
      BY <2>1, <2>2 DEF RevokeInv, Past
    <2>4. NotYetIn'
      <3>1. pc'[r] # "idle"
        BY <1>1, <1>2, <2>1, StepFrame, CallFields DEF RevokeInv, TypeInv, Placed, Place, Stage,
           Ended, InLock
      <3> QED
        BY <2>1, <3>1 DEF RevokeInv, NotYetIn
    <2>5. RevokedPairs'
      <3> SUFFICES ASSUME NEW q \in Requests, Revoker(q)'
                   PROVE  bucket' = None \/ bucket'.pair \notin before[q] \cup {Seed}
        BY <2>1 DEF RevokedPairs
      <3>1. CASE q = r
        BY <1>2, <2>2, <3>1, RevokerMoves DEF RevokeInv, RevokedPairs
      <3>2. CASE q # r
        <4>1. Revoker(q)
          BY <2>1, <3>2 DEF Revoker
        <4> QED
          BY <1>2, <2>2, <4>1, BucketMoves DEF RevokeInv, RevokedPairs
      <3> QED
        BY <3>1, <3>2
    <2>6. RevokedAtOnce'
      <3> SUFFICES ASSUME NEW c \in Requests, NEW q \in before[c],
                          pc'[q] = "ok", req[q].op \in {"rotate", "delete"},
                          req[c].pair \in before[q] \cup {Seed}
                   PROVE  auth'[c] = None
        BY <2>1 DEF RevokedAtOnce, At
      <3>1. q \in Requests /\ pc[q] = "ok" /\ q # r
        BY <2>1, <2>2
      <3>2. auth[c] = None
        BY <3>1 DEF RevokeInv, RevokedAtOnce, At
      <3>3. CASE UNCHANGED auth \/ c # r
        BY <2>1, <3>2, <3>3
      <3>4. CASE c = r /\ bucket # None /\ bucket.pair = req[r].pair
        <4>1. req[q] # None
          BY <3>1 DEF RevokeInv, TypeInv, Placed, Place
        <4>2. Revoker(q)
          BY <3>1, <4>1 DEF Revoker
        <4> QED
          BY <3>1, <3>4, <4>2 DEF RevokeInv, RevokedPairs
      <3> QED
        BY <1>2, <3>3, <3>4, AuthMoves
    <2> QED
      BY <1>1, <2>3, <2>4, <2>5, <2>6 DEF RevokeInv
  <1>3. ASSUME NEW r \in Requests, Start(r)
        PROVE  RevokeInv'
    <2>1. /\ pc[r] = "idle" /\ auth' = auth /\ bucket' = bucket
          /\ before' = [before EXCEPT ![r] = {q \in Requests : pc[q] \in Ended}]
          /\ \A q \in Requests \ {r} : pc'[q] = pc[q] /\ req'[q] = req[q]
          /\ \E c \in Calls : pc'[r] = Entry(c.op) /\ req'[r] = c
      BY <1>3 DEF Start, At, Goto, local, db, RevokeInv, TypeInv, LifecycleTypeOK
    <2>2. /\ \A c \in Requests : r \notin before'[c]
          /\ pc'[r] \in {"lookup", "require", "buckets", "auth"}
          /\ \A c \in Requests : before[c] \subseteq Requests /\ before'[c] \subseteq Requests
          /\ \A c \in Requests \ {r} : before'[c] = before[c]
          /\ before'[r] = {q \in Requests : pc[q] \in Ended}
      BY <2>1 DEF RevokeInv, Past, TypeInv, LifecycleTypeOK, Entry, Ended
    <2>3. Past'
      BY <2>1, <2>2 DEF RevokeInv, Past
    <2>4. NotYetIn'
      BY <2>1, <2>2 DEF RevokeInv, NotYetIn
    <2>5. RevokedPairs'
      BY <2>1, <2>2 DEF RevokeInv, RevokedPairs, Revoker
    <2>6. RevokedAtOnce'
      <3>1. auth'[r] = None
        BY <2>1 DEF RevokeInv, NotYetIn
      <3>2. ASSUME NEW c \in Requests \ {r}, NEW q \in before[c]
            PROVE  pc'[q] = pc[q] /\ req'[q] = req[q] /\ before'[q] = before[q] /\ req'[c] = req[c]
        BY <2>1, <2>2, <3>2
      <3> QED
        BY <2>1, <2>2, <3>1, <3>2 DEF RevokeInv, RevokedAtOnce, At
    <2> QED
      BY <1>1, <2>3, <2>4, <2>5, <2>6 DEF RevokeInv
  <1>4. ASSUME NEW r \in Requests, Fail(r)
        PROVE  RevokeInv'
    <2>1. /\ pc[r] \notin Ended \cup {"idle"} /\ pc'[r] \in {"undo", "error"}
          /\ bucket' = bucket /\ auth' = auth /\ before' = before /\ req' = req
          /\ \A q \in Requests \ {r} : pc'[q] = pc[q]
      BY <1>4 DEF Fail, End, Goto, Running, db, local, RevokeInv, TypeInv, LifecycleTypeOK
    <2>2. \A c \in Requests : before[c] \subseteq Requests /\ r \notin before[c]
      BY <2>1 DEF RevokeInv, Past, TypeInv, LifecycleTypeOK
    <2>3. Past' /\ NotYetIn'
      BY <2>1, <2>2 DEF RevokeInv, Past, NotYetIn
    <2>4. RevokedPairs'
      BY <2>1 DEF RevokeInv, RevokedPairs, Revoker
    <2>5. RevokedAtOnce'
      BY <2>1, <2>2 DEF RevokeInv, RevokedAtOnce, At
    <2> QED
      BY <1>1, <2>3, <2>4, <2>5 DEF RevokeInv
  <1>5. CASE Crash
    <2>1. /\ bucket' = bucket /\ auth' = auth /\ before' = before /\ req' = req
          /\ \A q \in Requests : \/ pc'[q] = pc[q]
                                 \/ pc'[q] = "crashed" /\ pc[q] \notin Ended \cup {"idle"}
      BY <1>5 DEF Crash, Running, db, local, RevokeInv, TypeInv, LifecycleTypeOK
    <2>2. \A c \in Requests : before[c] \subseteq Requests
      BY DEF RevokeInv, TypeInv, LifecycleTypeOK
    <2>3. Past' /\ NotYetIn'
      BY <2>1, <2>2 DEF RevokeInv, Past, NotYetIn, Ended
    <2>4. RevokedPairs'
      BY <2>1 DEF RevokeInv, RevokedPairs, Revoker
    <2>5. RevokedAtOnce'
      BY <2>1, <2>2 DEF RevokeInv, RevokedAtOnce, At
    <2> QED
      BY <1>1, <2>3, <2>4, <2>5 DEF RevokeInv
  <1>7. ASSUME NEW r \in Requests, Tolerate(r)
        PROVE  RevokeInv'
    <2>1. /\ pc[r] \notin Ended \cup {"idle"} /\ req[r].op \notin AdminOps /\ pc'[r] # "idle"
          /\ bucket' = bucket /\ auth' = auth /\ before' = before /\ req' = req
          /\ \A q \in Requests \ {r} : pc'[q] = pc[q]
      BY <1>7, TolerateFrame DEF RevokeInv, local
    <2>2. \A c \in Requests : before[c] \subseteq Requests /\ r \notin before[c]
      BY <2>1 DEF RevokeInv, Past, TypeInv, LifecycleTypeOK
    <2>3. Past' /\ NotYetIn'
      BY <2>1, <2>2 DEF RevokeInv, Past, NotYetIn
    <2>4. RevokedPairs'
      BY <2>1 DEF RevokeInv, RevokedPairs, Revoker, AdminOps
    <2>5. RevokedAtOnce'
      BY <2>1, <2>2 DEF RevokeInv, RevokedAtOnce, At
    <2> QED
      BY <1>1, <2>3, <2>4, <2>5 DEF RevokeInv
  <1>6. CASE UNCHANGED vars \/ Rest
    <2>1. bucket' = bucket /\ auth' = auth /\ before' = before /\ req' = req /\ pc' = pc
      BY <1>6 DEF Rest, vars, db, local, env
    <2>2. Past' /\ NotYetIn'
      BY <2>1 DEF RevokeInv, Past, NotYetIn
    <2>3. RevokedPairs'
      BY <2>1 DEF RevokeInv, RevokedPairs, Revoker
    <2>4. RevokedAtOnce'
      BY <2>1 DEF RevokeInv, RevokedAtOnce, At
    <2> QED
      BY <1>1, <2>2, <2>3, <2>4 DEF RevokeInv
  <1> QED
    BY <1>2, <1>3, <1>4, <1>5, <1>6, <1>7 DEF Next

\* Once a rotation or deletion has been answered, no key pair issued before it
\* arrived lets a later request in (RevokedAtOnce), however admin calls overlap.
THEOREM OldPairsStayOut == Spec => []RevokedAtOnce
  <1>1. RevokeInv => RevokedAtOnce
    BY DEF RevokeInv
  <1> QED
    BY <1>1, RevokeInit, RevokeStep, PTL DEF Spec
-----------------------------------------------------------------------------
(* Uploads.  From its rename on, an upload's key has a file as long as nobody  *)
(* has asked to delete that key; that the rename moves a file at all needs the *)
(* upload to have been let in.                                                 *)

LetIn(r) == pc[r] \in {"mkparents", "mkfolder", "mktemp", "rename"} => auth[r] # None
Landed(r) == /\ req[r] # None /\ req[r].op = "put"
             /\ pc[r] \in {"stat", "upsert", "ok"}
Unremoved(k) == \A q \in Requests : req[q] # None /\ req[q].op = "remove" => req[q].key # k
Kept(r) == Landed(r) /\ Unremoved(req[r].key) => file[req[r].key] # None
KeepInv == TypeInv /\ \A r \in Requests : LetIn(r) /\ Kept(r)

LEMMA KeepInit == Init => KeepInv
  BY TypeInit DEF Init, KeepInv, LetIn, Kept, Landed

\* How a handler gets to the labels the invariant speaks of.
LEMMA PutMoves ==
  ASSUME TypeInv, NEW r \in Requests, Step(r), req[r].op = "put"
  PROVE  /\ Landed(r)' => Landed(r) \/ Rename(r)
         /\ pc'[r] \in {"mkparents", "mkfolder", "mktemp", "rename"} =>
              BucketAuth(r) \/ pc[r] \in {"mkparents", "mkfolder", "mktemp", "rename"}
  <1> USE DEF Goto, At, TypeInv, LifecycleTypeOK
  <1>1. req' = req /\ req[r] # None /\ pc[r] \in {"auth", "mkparents", "mkfolder", "mktemp", "rename", "stat", "upsert"}
    BY StepFrame, CallFields DEF Stage, env
  <1>2. CASE BucketAuth(r)
    BY <1>2 DEF BucketAuth, Admitted, Landed
  <1>3. CASE MakeParents(r) \/ MakeFolder(r) \/ CreateTemp(r)
    BY <1>3 DEF MakeParents, MakeFolder, CreateTemp, Landed
  <1>4. CASE Rename(r)
    BY <1>4 DEF Rename
  <1>5. CASE StatTarget(r) \/ UpsertObject(r)
    BY <1>1, <1>5 DEF StatTarget, UpsertObject, Landed
  <1> QED
    BY <1>1, <1>2, <1>3, <1>4, <1>5 DEF Step, Lookup, Insert, CreateBucketDirectory, Undo,
       RequireBucket, IsBucketEmpty, DropBucket, RemoveBucketDirectory, UpdateBucketKeys, Open,
       GetRow, Heal, RemoveFile, RemoveEmptyParents, RemoveRow, HasRows, HasFiles, ListBuckets,
       Lock, IsDir,
       IndexedObjects, ReadDir, Visit, VisitFile, VisitFolder, Apply

LEMMA KeepStep ==
  ASSUME KeepInv, [Next]_vars
  PROVE  KeepInv'
  <1>1. TypeInv'
    BY TypeStep DEF KeepInv
  <1>2. ASSUME NEW r \in Requests, Step(r) PROVE KeepInv'
    <2>1. /\ req' = req /\ req[r] # None /\ req[r].op \in AllOps /\ Stage(r)
          /\ req[r].op = "put" => req[r].key \in Keys
          /\ \A q \in Requests \ {r} : pc'[q] = pc[q] /\ auth'[q] = auth[q]
      BY <1>2, StepFrame, CallFields DEF KeepInv, env
    <2>2. ASSUME NEW q \in Requests PROVE LetIn(q)'
      <3>1. CASE q # r
        BY <2>1, <3>1 DEF KeepInv, LetIn
      <3>2. CASE q = r /\ pc'[r] \in {"mkparents", "mkfolder", "mktemp", "rename"}
        <4>1. req[r].op = "put"
          BY <1>1, <2>1, <3>2 DEF TypeInv, Placed, Place, Stage, Ended, InLock
        <4>2. CASE BucketAuth(r)
          <5>1. bucket # None /\ bucket.pair = req[r].pair
            BY <3>2, <4>2 DEF BucketAuth, Goto, KeepInv, TypeInv, LifecycleTypeOK
          <5>2. bucket.born \in Minters
            BY <5>1, BucketFields DEF KeepInv, TypeInv, LifecycleTypeOK
          <5> QED
            BY <3>2, <4>2, <5>1, <5>2, LifecycleSentinels
               DEF BucketAuth, LetIn, KeepInv, TypeInv, LifecycleTypeOK
        <4>3. CASE ~BucketAuth(r)
          BY <1>2, <3>2, <4>1, <4>3, PutMoves, AuthMoves DEF KeepInv, LetIn
        <4> QED
          BY <4>2, <4>3
      <3> QED
        BY <3>1, <3>2 DEF LetIn
    <2>3. ASSUME NEW q \in Requests PROVE Kept(q)'
      <3> SUFFICES ASSUME Landed(q)', Unremoved(req[q].key)
                   PROVE  file'[req[q].key] # None
        BY <2>1 DEF Kept, Unremoved
      <3>1. req[q] # None /\ req[q].op = "put"
        BY <2>1 DEF Landed
      <3>2. req[q].key \in Keys
        BY <3>1, CallFields DEF KeepInv, TypeInv, LifecycleTypeOK
      <3>3. CASE Rename(r)
        <4>1. pc[r] = "rename" /\ auth[r] # None
          BY <3>3 DEF Rename, At, KeepInv, LetIn
        <4>2. CASE req[q].key = req[r].key
          BY <3>2, <3>3, <4>1, <4>2 DEF Rename, KeepInv, TypeInv, LifecycleTypeOK
        <4>3. CASE req[q].key # req[r].key
          <5>1. q # r /\ Landed(q)
            BY <2>1, <4>3 DEF Landed
          <5> QED
            BY <3>2, <3>3, <4>3, <5>1 DEF Rename, KeepInv, Kept, TypeInv, LifecycleTypeOK
        <4> QED
          BY <4>2, <4>3
      <3>4. CASE ~Rename(r)
        <4>1. Landed(q)
          <5>1. CASE q = r
            BY <1>2, <3>1, <3>4, <5>1, PutMoves DEF KeepInv
          <5>2. CASE q # r
            BY <2>1, <5>2 DEF Landed
          <5> QED
            BY <5>1, <5>2
        <4>2. file[req[q].key] # None
          BY <4>1 DEF KeepInv, Kept
        <4>3. CASE RemoveFile(r)
          <5>1. req[r].op = "remove"
            BY <2>1, <4>3 DEF RemoveFile, At, Stage, Ended, InLock
          <5>2. req[r].key # req[q].key
            BY <2>1, <5>1 DEF Unremoved
          <5> QED
            BY <3>2, <4>2, <4>3, <5>2 DEF RemoveFile, KeepInv, TypeInv, LifecycleTypeOK
        <4>4. CASE ~RemoveFile(r)
          BY <1>2, <3>4, <4>2, <4>4, FileMoves
        <4> QED
          BY <4>3, <4>4
      <3> QED
        BY <3>3, <3>4
    <2> QED
      BY <1>1, <2>2, <2>3 DEF KeepInv
  <1>3. ASSUME NEW r \in Requests, Start(r) PROVE KeepInv'
    <2>1. /\ pc[r] = "idle" /\ auth' = auth /\ file' = file
          /\ \A q \in Requests \ {r} : pc'[q] = pc[q] /\ req'[q] = req[q]
          /\ \E c \in Calls : pc'[r] = Entry(c.op)
      BY <1>3 DEF Start, At, Goto, local, fs, KeepInv, TypeInv, LifecycleTypeOK
    <2>2. pc'[r] \in {"lookup", "require", "buckets", "auth"} /\ req[r] = None
      BY <2>1 DEF Entry, KeepInv, TypeInv, Placed, Place, Stage, Ended, InLock
    <2>3. \A k : Unremoved(k)' => Unremoved(k)
      BY <2>1, <2>2 DEF Unremoved
    <2>4. \A q \in Requests : LetIn(q)'
      BY <2>1, <2>2 DEF KeepInv, LetIn
    <2>5. \A q \in Requests : Kept(q)'
      BY <2>1, <2>2, <2>3 DEF KeepInv, Kept, Landed
    <2> QED
      BY <1>1, <2>4, <2>5 DEF KeepInv
  <1>4. ASSUME NEW r \in Requests, Fail(r) PROVE KeepInv'
    <2>1. /\ pc'[r] \in {"undo", "error"} /\ auth' = auth /\ file' = file /\ req' = req
          /\ \A q \in Requests \ {r} : pc'[q] = pc[q]
      BY <1>4 DEF Fail, End, Goto, local, KeepInv, TypeInv, LifecycleTypeOK
    <2>2. \A q \in Requests : LetIn(q)' /\ Kept(q)'
      BY <2>1 DEF KeepInv, LetIn, Kept, Landed, Unremoved
    <2> QED
      BY <1>1, <2>2 DEF KeepInv
  <1>5. CASE Crash
    <2>1. /\ auth' = auth /\ file' = file /\ req' = req
          /\ \A q \in Requests : pc'[q] = pc[q] \/ pc'[q] = "crashed"
      BY <1>5 DEF Crash, fs, local, KeepInv, TypeInv, LifecycleTypeOK
    <2>2. \A q \in Requests : LetIn(q)' /\ Kept(q)'
      BY <2>1 DEF KeepInv, LetIn, Kept, Landed, Unremoved
    <2> QED
      BY <1>1, <2>2 DEF KeepInv
  <1>7. ASSUME NEW r \in Requests, Tolerate(r) PROVE KeepInv'
    <2>1. /\ pc'[r] \in {"ok", "rmrow", "notfound"} /\ auth' = auth /\ file' = file /\ req' = req
          /\ req[r].op # "put" /\ \A q \in Requests \ {r} : pc'[q] = pc[q]
      BY <1>7, TolerateFrame DEF KeepInv, fs, local, AdminOps
    <2>2. \A q \in Requests : LetIn(q)' /\ Kept(q)'
      BY <2>1 DEF KeepInv, LetIn, Kept, Landed, Unremoved
    <2> QED
      BY <1>1, <2>2 DEF KeepInv
  <1>6. CASE UNCHANGED vars \/ Rest
    <2>1. auth' = auth /\ file' = file /\ req' = req /\ pc' = pc
      BY <1>6 DEF Rest, vars, fs, local, env
    <2>2. \A q \in Requests : LetIn(q)' /\ Kept(q)'
      BY <2>1 DEF KeepInv, LetIn, Kept, Landed, Unremoved
    <2> QED
      BY <1>1, <2>2 DEF KeepInv
  <1> QED
    BY <1>2, <1>3, <1>4, <1>5, <1>6, <1>7 DEF Next

\* An upload that was answered 200 keeps its bytes until its key is deleted
\* (UploadsSurvive), whatever happens to the bucket.
THEOREM UploadsAreKept == Spec => []UploadsSurvive
  <1>1. KeepInv => UploadsSurvive
    <2> SUFFICES ASSUME KeepInv, NEW r \in Requests, At(r, "ok"), req[r].op = "put",
                        Unremoved(req[r].key)
                 PROVE  file[req[r].key] # None
      BY DEF UploadsSurvive, Unremoved
    <2>1. req[r] # None
      BY DEF At, KeepInv, TypeInv, Placed, Place
    <2> QED
      BY <2>1 DEF At, KeepInv, Kept, Landed
  <1> QED
    BY <1>1, KeepInit, KeepStep, PTL DEF Spec
=============================================================================

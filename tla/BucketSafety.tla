--------------------------- MODULE BucketSafety ---------------------------
(***************************************************************************)
(* What BucketLifecycle keeps when clients keep certain calls apart        *)
(* (Apart): whose the rows and files are, that a key pair which was        *)
(* answered works, that no bucket is left whose pair nobody was given, and *)
(* when a deletion is refused.  For every set of keys and requests.        *)
(***************************************************************************)
EXTENDS BucketProofs

\* Nothing overlaps a deletion, and of two admin calls only creations overlap.
Apart ==
  \A a, b \in AllOps : <<a, b>> \in MayOverlap =>
    /\ a # "delete" /\ b # "delete"
    /\ a \in AdminOps /\ b \in AdminOps => a = "create" /\ b = "create"

\* What that makes of the handlers at work.
Alone(q, r) ==
  /\ req[q].op # "delete"
  /\ req[q].op \in AdminOps /\ req[r].op \in AdminOps =>
       req[q].op = "create" /\ req[r].op = "create"
KeptApart == \A q, r \in Requests : q # r /\ Running(q) /\ Running(r) => Alone(q, r)

LEMMA CanRun ==
  ASSUME TypeInv, NEW r \in Requests, Step(r)
  PROVE  Running(r)
  BY StepFrame DEF Running, Stage, Ended, InLock

LEMMA KeptApartStep ==
  ASSUME TypeInv, Apart, KeptApart, [Next]_vars
  PROVE  KeptApart'
  <1>1. ASSUME NEW r \in Requests, Step(r) PROVE KeptApart'
    <2>1. Running(r) /\ req' = req /\ \A q \in Requests \ {r} : pc'[q] = pc[q]
      BY <1>1, CanRun, StepFrame DEF env
    <2> QED
      BY <2>1 DEF KeptApart, Running, Alone
  <1>2. ASSUME NEW r \in Requests, Start(r) PROVE KeptApart'
    <2>1. PICK c \in Calls :
             /\ \A q \in Requests : Running(q) => <<c.op, req[q].op>> \in MayOverlap
             /\ req' = [req EXCEPT ![r] = c]
      BY <1>2 DEF Start
    <2>2. /\ ~Running(r) /\ \A q \in Requests \ {r} : pc'[q] = pc[q] /\ req'[q] = req[q]
          /\ req'[r] = c
      BY <1>2, <2>1 DEF Start, At, Goto, Running, TypeInv, LifecycleTypeOK
    <2>3. \A q \in Requests : Running(q) => req[q] \in Calls
      BY DEF Running, TypeInv, LifecycleTypeOK, Placed, Place
    <2>4. c.op \in AllOps /\ \A q \in Requests : Running(q) => req[q].op \in AllOps
      BY <2>3, CallFields
    <2>5. \A q \in Requests : Running(q) =>
             /\ c.op # "delete" /\ req[q].op # "delete"
             /\ c.op \in AdminOps /\ req[q].op \in AdminOps => c.op = "create" /\ req[q].op = "create"
      BY <2>1, <2>4 DEF Apart
    <2> QED
      BY <2>2, <2>5 DEF KeptApart, Running, Alone
  <1>3. ASSUME NEW r \in Requests, Fail(r) PROVE KeptApart'
    BY <1>3 DEF Fail, End, Goto, KeptApart, Running, Alone, TypeInv, LifecycleTypeOK
  <1>4. CASE Crash
    BY <1>4 DEF Crash, KeptApart, Running, Alone, Ended, TypeInv, LifecycleTypeOK
  <1>5. CASE UNCHANGED vars \/ Rest
    BY <1>5 DEF Rest, vars, env, KeptApart, Running, Alone
  <1>6. ASSUME NEW r \in Requests, Tolerate(r) PROVE KeptApart'
    BY <1>6, TolerateFrame DEF KeptApart, Running, Alone
  <1> QED
    BY <1>1, <1>2, <1>3, <1>4, <1>5, <1>6 DEF Next

-----------------------------------------------------------------------------
(* Whose things are about: the buckets that files, rows, and handlers about *)
(* to write one of them are of.                                             *)

Holding(r, v) ==
  \/ pc[r] \in {"mkparents", "mkfolder", "mktemp", "rename", "stat"} /\ auth[r] = v
  \/ pc[r] = "upsert" /\ cur[r] = v
  \/ pc[r] \in {"walk", "apply"} /\ \E k \in Keys : scan[r].upserts[k] = v
Present(v) ==
  \/ \E k \in Keys : file[k] = v \/ row[k] = v
  \/ \E r \in Requests : Holding(r, v)

\* A reindex that does not walk yet has no rows to write.
Blank ==
  \A r \in Requests : pc[r] \notin Ended \cup {"walk", "apply"} =>
    \A k \in Keys : scan[r].upserts[k] = None

LEMMA RowMoves ==
  ASSUME NEW r \in Requests, Step(r), NEW k \in Keys, TypeInv
  PROVE  \/ row'[k] = row[k] \/ row'[k] = None
         \/ UpsertObject(r) /\ row'[k] = cur[r]
         \/ Apply(r) /\ row'[k] = scan[r].upserts[k]
  <1> USE DEF db, TypeInv, LifecycleTypeOK
  <1>1. CASE Lookup(r) \/ Insert(r) \/ CreateBucketDirectory(r) \/ RequireBucket(r)
             \/ IsBucketEmpty(r) \/ RemoveBucketDirectory(r) \/ UpdateBucketKeys(r)
    BY <1>1 DEF Lookup, Insert, CreateBucketDirectory, RequireBucket, IsBucketEmpty,
       RemoveBucketDirectory, UpdateBucketKeys
  <1>2. CASE Undo(r) \/ DropBucket(r) \/ IsDir(r)
    BY <1>2 DEF Undo, DropBucket, DropBucketRow, IsDir, NoRows
  <1>3. CASE BucketAuth(r) \/ MakeParents(r) \/ MakeFolder(r) \/ CreateTemp(r) \/ Rename(r)
             \/ StatTarget(r)
             \/ Open(r) \/ GetRow(r) \/ Heal(r) \/ RemoveFile(r)
    BY <1>3 DEF BucketAuth, MakeParents, MakeFolder, CreateTemp, Rename, StatTarget, Open, GetRow,
       Heal,
       RemoveFile
  <1>4. CASE UpsertObject(r) \/ RemoveEmptyParents(r) \/ RemoveRow(r)
    BY <1>4 DEF UpsertObject, RemoveEmptyParents, RemoveRow
  <1>5. CASE HasRows(r) \/ HasFiles(r) \/ ListBuckets(r) \/ Lock(r) \/ IndexedObjects(r)
             \/ ReadDir(r) \/ Visit(r)
    BY <1>5 DEF HasRows, HasFiles, ListBuckets, Lock, IndexedObjects, ReadDir, Visit, VisitFile,
       VisitFolder
  <1>6. CASE Apply(r)
    BY <1>6 DEF Apply
  <1> QED
    BY <1>1, <1>2, <1>3, <1>4, <1>5, <1>6 DEF Step

LEMMA FileFrom ==
  ASSUME NEW r \in Requests, Step(r), NEW k \in Keys, TypeInv
  PROVE  file'[k] = file[k] \/ file'[k] = None \/ (Rename(r) /\ file'[k] = auth[r])
  <1>1. CASE Rename(r)
    BY <1>1 DEF Rename, TypeInv, LifecycleTypeOK
  <1>2. CASE RemoveFile(r)
    BY <1>2 DEF RemoveFile, TypeInv, LifecycleTypeOK
  <1> QED
    BY <1>1, <1>2, FileMoves

LEMMA HandsFrame ==
  ASSUME NEW r \in Requests, Step(r), TypeInv
  PROVE  \A q \in Requests \ {r} : cur'[q] = cur[q] /\ scan'[q] = scan[q]
  <1> USE DEF local, TypeInv, LifecycleTypeOK
  <1>1. CASE Lookup(r) \/ Insert(r) \/ CreateBucketDirectory(r) \/ Undo(r) \/ RequireBucket(r)
             \/ IsBucketEmpty(r) \/ DropBucket(r) \/ RemoveBucketDirectory(r) \/ UpdateBucketKeys(r)
    BY <1>1 DEF Lookup, Insert, CreateBucketDirectory, Undo, RequireBucket, IsBucketEmpty,
       DropBucket, RemoveBucketDirectory, UpdateBucketKeys
  <1>2. CASE BucketAuth(r) \/ MakeParents(r) \/ MakeFolder(r) \/ CreateTemp(r) \/ Rename(r)
             \/ StatTarget(r)
             \/ UpsertObject(r) \/ Open(r) \/ GetRow(r) \/ Heal(r) \/ RemoveFile(r)
             \/ RemoveEmptyParents(r) \/ RemoveRow(r)
    BY <1>2 DEF BucketAuth, MakeParents, MakeFolder, CreateTemp, Rename, StatTarget, UpsertObject,
       Open,
       GetRow, Heal, RemoveFile, RemoveEmptyParents, RemoveRow
  <1>3. CASE HasRows(r) \/ HasFiles(r) \/ ListBuckets(r) \/ Lock(r) \/ IsDir(r)
             \/ IndexedObjects(r) \/ ReadDir(r) \/ Apply(r)
    BY <1>3 DEF HasRows, HasFiles, ListBuckets, Lock, IsDir, IndexedObjects, ReadDir, Apply
  <1>4. CASE Visit(r)
    BY <1>4 DEF Visit, VisitFile, VisitFolder
  <1> QED
    BY <1>1, <1>2, <1>3, <1>4 DEF Step

\* A handler is about to write what was there, or what it was let in for.
LEMMA HoldingMoves ==
  ASSUME TypeInv, Blank, NEW r \in Requests, Step(r), NEW v \in Minters, Holding(r, v)'
  PROVE  \/ Present(v)
         \/ BucketAuth(r) /\ bucket # None /\ bucket.pair = req[r].pair /\ v = bucket.born
  <1> USE DEF Goto, At, TypeInv, LifecycleTypeOK
  <1>1. /\ Stage(r) /\ v # None
        /\ req[r].op \in {"put", "get", "acl", "remove"} => req[r].key \in Keys
    BY StepFrame, CallFields, LifecycleSentinels
  <1>2. CASE Lookup(r) \/ Insert(r) \/ CreateBucketDirectory(r) \/ Undo(r) \/ IsBucketEmpty(r)
             \/ DropBucket(r) \/ RemoveBucketDirectory(r) \/ UpdateBucketKeys(r)
    BY <1>2 DEF Lookup, Insert, CreateBucketDirectory, Undo, IsBucketEmpty, DropBucket,
       RemoveBucketDirectory, UpdateBucketKeys, Holding
  <1>3. CASE RequireBucket(r)
    <2>1. req[r].op \in {"delete", "rotate", "reindex"}
      BY <1>1, <1>3 DEF RequireBucket, Stage, Ended, InLock
    <2> QED
      BY <1>3, <2>1 DEF RequireBucket, Admitted, Holding
  <1>4. CASE BucketAuth(r)
    <2>1. req[r].op \in SignedOps
      BY <1>1, <1>4 DEF BucketAuth, Stage, Ended, InLock, SignedOps
    <2> QED
      BY <1>4, <2>1 DEF BucketAuth, Admitted, SignedOps, Holding
  <1>5. CASE MakeParents(r) \/ MakeFolder(r) \/ CreateTemp(r) \/ Rename(r)
    <2>1. Holding(r, v)
      BY <1>5 DEF MakeParents, MakeFolder, CreateTemp, Rename, local, Holding
    <2> QED
      BY <2>1 DEF Present
  <1>6. CASE StatTarget(r)
    <2>1. Holding(r, v)
      BY <1>6 DEF StatTarget, Holding
    <2> QED
      BY <2>1 DEF Present
  <1>7. CASE GetRow(r) \/ Heal(r)
    <2>1. req[r].key \in Keys
      BY <1>1, <1>7 DEF GetRow, Heal, Stage, Ended, InLock
    <2>2. v \in {row[req[r].key], file[req[r].key]}
      BY <1>7, <2>1 DEF GetRow, Heal, Holding
    <2> QED
      BY <2>1, <2>2 DEF Present
  <1>8. CASE UpsertObject(r) \/ Open(r) \/ RemoveFile(r) \/ RemoveEmptyParents(r)
             \/ RemoveRow(r) \/ HasRows(r)
             \/ HasFiles(r) \/ ListBuckets(r) \/ Lock(r) \/ IsDir(r) \/ IndexedObjects(r)
             \/ Apply(r)
    BY <1>8 DEF UpsertObject, Open, RemoveFile, RemoveEmptyParents, RemoveRow, HasRows, HasFiles,
       ListBuckets, Lock,
       IsDir, IndexedObjects, Apply, End, Holding
  <1>9. CASE ReadDir(r)
    <2>1. pc[r] \notin Ended \cup {"walk", "apply"}
      BY <1>9 DEF ReadDir, Ended
    <2>2. \A k \in Keys : scan[r].upserts[k] = None
      BY <2>1 DEF Blank
    <2>3. pc'[r] # "upsert" /\ (pc'[r] \in {"walk", "apply"} => scan'[r].upserts = scan[r].upserts)
      <3>1. scan[r] \in Scans
        OBVIOUS
      <3>2. \A S : [scan[r] EXCEPT !.names = S].upserts = scan[r].upserts
        BY <3>1 DEF Scans
      <3>3. CASE scan' = [scan EXCEPT ![r] = [scan[r] EXCEPT !.names = Objects(None) \cup sub]]
                 /\ pc' = [pc EXCEPT ![r] = "walk"]
        <4>1. scan'[r] = [scan[r] EXCEPT !.names = Objects(None) \cup sub]
          BY <3>3
        <4> QED
          BY <3>2, <3>3, <4>1
      <3>4. CASE pc' = [pc EXCEPT ![r] = "error"]
        BY <3>4
      <3> QED
        BY <1>9, <3>3, <3>4 DEF ReadDir, End
    <2>4. pc'[r] \notin {"mkparents", "mkfolder", "mktemp", "rename", "stat"}
      BY <1>9 DEF ReadDir, End
    <2> QED
      BY <1>1, <2>2, <2>3, <2>4 DEF Holding
  <1>10. CASE Visit(r)
    <2>1. pc'[r] \notin {"mkparents", "mkfolder", "mktemp", "rename", "stat", "upsert"}
      BY <1>10 DEF Visit, VisitFile, VisitFolder, End
    <2>2. PICK k \in Keys : scan'[r].upserts[k] = v
      BY <2>1 DEF Holding
    <2>3. CASE scan' = scan
      BY <1>10, <2>2, <2>3 DEF Visit, VisitFile, VisitFolder, Holding, Present
    <2>4. CASE \E n \in Keys : \E w :
                 scan' = [scan EXCEPT ![r] = Visited(scan[r], n, w)] /\ w \in {None, file[n]}
      <3>1. PICK n \in Keys :
               \E w : scan' = [scan EXCEPT ![r] = Visited(scan[r], n, w)] /\ w \in {None, file[n]}
        BY <2>4
      <3>2. PICK w : scan' = [scan EXCEPT ![r] = Visited(scan[r], n, w)] /\ w \in {None, file[n]}
        BY <3>1
      <3>3. scan[r] \in Scans /\ n \in Keys /\ scan[r].upserts \in [Keys -> Minters \cup {None}]
        BY ScanFields
      <3>4. scan'[r].upserts = [scan[r].upserts EXCEPT ![n] = w]
        BY <3>2, <3>3 DEF Visited, Scans
      <3>5. CASE k = n
        BY <1>1, <2>2, <3>2, <3>3, <3>4, <3>5 DEF Present
      <3>6. CASE k # n
        BY <1>10, <2>2, <3>3, <3>4, <3>6 DEF Visit, VisitFile, VisitFolder, Holding, Present
      <3> QED
        BY <3>5, <3>6
    <2>5. CASE \E f : scan' = [scan EXCEPT ![r] = Opened(scan[r], f, Objects(f))]
      <3>1. PICK f : scan' = [scan EXCEPT ![r] = Opened(scan[r], f, Objects(f))]
        BY <2>5
      <3>2. scan'[r].upserts = scan[r].upserts
        BY <3>1, OpenedType, ObjectsAre
      <3> QED
        BY <1>10, <2>2, <3>2 DEF Visit, Holding, Present
    <2> QED
      BY <1>10, <2>3, <2>4, <2>5 DEF Visit, VisitFile, VisitFolder
  <1> QED
    BY <1>2, <1>3, <1>4, <1>5, <1>6, <1>7, <1>8, <1>9, <1>10 DEF Step

\* Nothing comes in but for the bucket that let a request in.
LEMMA PresentMoves ==
  ASSUME TypeInv, Blank, NEW r \in Requests, Step(r), NEW v \in Minters, Present(v)'
  PROVE  \/ Present(v)
         \/ BucketAuth(r) /\ bucket # None /\ bucket.pair = req[r].pair /\ v = bucket.born
  <1>1. v # None
    BY LifecycleSentinels
  <1>2. CASE \E q \in Requests : Holding(q, v)'
    <2>1. ASSUME NEW q \in Requests \ {r}, Holding(q, v)' PROVE Present(v)
      <3>1. pc'[q] = pc[q] /\ auth'[q] = auth[q] /\ cur'[q] = cur[q] /\ scan'[q] = scan[q]
        BY StepFrame, HandsFrame
      <3>2. Holding(q, v)
        BY <2>1, <3>1 DEF Holding
      <3> QED
        BY <3>2 DEF Present
    <2> QED
      BY <1>2, <2>1, HoldingMoves
  <1>3. CASE \E k \in Keys : file'[k] = v
    <2>1. PICK k \in Keys : file'[k] = v
      BY <1>3
    <2>2. CASE Rename(r) /\ v = auth[r]
      BY <2>2 DEF Rename, At, Holding, Present
    <2> QED
      BY <1>1, <2>1, <2>2, FileFrom DEF Present
  <1>4. CASE \E k \in Keys : row'[k] = v
    <2>1. PICK k \in Keys : row'[k] = v
      BY <1>4
    <2>2. CASE UpsertObject(r) /\ v = cur[r]
      BY <2>2 DEF UpsertObject, At, Holding, Present
    <2>3. CASE Apply(r) /\ v = scan[r].upserts[k]
      BY <2>3 DEF Apply, At, Holding, Present
    <2> QED
      BY <1>1, <2>1, <2>2, <2>3, RowMoves DEF Present
  <1> QED
    BY <1>2, <1>3, <1>4 DEF Present

LEMMA BlankStep ==
  ASSUME TypeInv, Blank, NEW r \in Requests, Step(r)
  PROVE  Blank'
  <1> USE DEF Goto, At, TypeInv, LifecycleTypeOK
  <1>1. \A q \in Requests \ {r} : pc'[q] = pc[q] /\ scan'[q] = scan[q]
    BY StepFrame, HandsFrame
  <1>2. pc[r] \notin Ended
    BY StepFrame
  <1>3. CASE ReadDir(r) \/ Visit(r) \/ Apply(r)
    <2>1. pc'[r] \in Ended \cup {"walk", "apply"}
      BY <1>3 DEF ReadDir, Visit, VisitFile, VisitFolder, Apply, End, Ended
    <2> QED
      BY <1>1, <2>1 DEF Blank
  <1>4. CASE IndexedObjects(r)
    <2>1. pc[r] = "existing" /\ scan'[r].upserts = scan[r].upserts
      BY <1>4 DEF IndexedObjects
    <2> QED
      BY <1>1, <1>2, <2>1 DEF Blank
  <1>5. CASE ~(ReadDir(r) \/ Visit(r) \/ Apply(r) \/ IndexedObjects(r))
    <2>1. scan' = scan /\ pc[r] \notin {"walk", "apply"}
      <3>1. CASE Lookup(r) \/ Insert(r) \/ CreateBucketDirectory(r) \/ Undo(r) \/ RequireBucket(r)
                 \/ IsBucketEmpty(r) \/ DropBucket(r) \/ RemoveBucketDirectory(r)
                 \/ UpdateBucketKeys(r)
        BY <3>1 DEF local, Lookup, Insert, CreateBucketDirectory, Undo, RequireBucket,
           IsBucketEmpty, DropBucket, RemoveBucketDirectory, UpdateBucketKeys
      <3>2. CASE BucketAuth(r) \/ MakeParents(r) \/ MakeFolder(r) \/ CreateTemp(r) \/ Rename(r)
                 \/ StatTarget(r)
                 \/ UpsertObject(r) \/ Open(r) \/ GetRow(r) \/ Heal(r) \/ RemoveFile(r)
                 \/ RemoveEmptyParents(r) \/ RemoveRow(r)
        BY <3>2 DEF local, BucketAuth, MakeParents, MakeFolder, CreateTemp, Rename, StatTarget,
           UpsertObject,
           Open, GetRow, Heal, RemoveFile, RemoveEmptyParents, RemoveRow
      <3>3. CASE HasRows(r) \/ HasFiles(r) \/ ListBuckets(r) \/ Lock(r) \/ IsDir(r)
        BY <3>3 DEF local, HasRows, HasFiles, ListBuckets, Lock, IsDir
      <3> QED
        BY <1>5, <3>1, <3>2, <3>3 DEF Step
    <2> QED
      BY <1>1, <1>2, <2>1 DEF Blank
  <1> QED
    BY <1>3, <1>4, <1>5

-----------------------------------------------------------------------------
(* The bucket and its key pair: who can be creating it, whose its objects   *)
(* are, and which pairs clients have.                                       *)

Building(r) == pc[r] \in {"mkdir", "undo"}
Half == \A r \in Requests : Building(r) => bucket = [born |-> r, pair |-> r]
Own == \A v \in Minters : Present(v) => bucket # None /\ v = bucket.born
Unissued == (\E r \in Requests : Building(r)) => \A v \in Minters : ~Present(v)
PairsIssued == \A r \in Requests :
  req[r] # None /\ req[r].pair # None => req[r].pair \in Issued
Emptied == \A r \in Requests : At(r, "drop") => \A k \in Keys : file[k] = None
Rotating == \A r \in Requests : At(r, "setkeys") => bucket # None

ApartInv == /\ RevokeInv /\ KeptApart /\ Blank /\ Half /\ Own /\ Unissued
            /\ PairsIssued /\ Emptied /\ Rotating /\ PairWorks

LEMMA BucketChanges ==
  ASSUME NEW r \in Requests, Step(r)
  PROVE  \/ bucket' = bucket
         \/ Insert(r) /\ bucket = None
         \/ Undo(r) \/ DropBucket(r) \/ UpdateBucketKeys(r)
  <1>1. CASE Insert(r)
    BY <1>1 DEF Insert
  <1>2. CASE Lookup(r) \/ CreateBucketDirectory(r) \/ RequireBucket(r) \/ IsBucketEmpty(r)
             \/ RemoveBucketDirectory(r) \/ BucketAuth(r) \/ MakeParents(r) \/ MakeFolder(r)
             \/ CreateTemp(r)
             \/ Rename(r) \/ StatTarget(r)
    BY <1>2 DEF db, Lookup, CreateBucketDirectory, RequireBucket, IsBucketEmpty,
       RemoveBucketDirectory, BucketAuth, MakeParents, MakeFolder, CreateTemp, Rename, StatTarget
  <1>3. CASE UpsertObject(r) \/ Open(r) \/ GetRow(r) \/ Heal(r) \/ RemoveFile(r)
             \/ RemoveEmptyParents(r) \/ RemoveRow(r)
             \/ HasRows(r) \/ HasFiles(r) \/ ListBuckets(r) \/ Lock(r)
    BY <1>3 DEF db, UpsertObject, Open, GetRow, Heal, RemoveFile, RemoveEmptyParents, RemoveRow,
       HasRows, HasFiles,
       ListBuckets, Lock
  <1>4. CASE IsDir(r) \/ IndexedObjects(r) \/ ReadDir(r) \/ Visit(r) \/ Apply(r)
    BY <1>4 DEF db, IsDir, IndexedObjects, ReadDir, Visit, VisitFile, VisitFolder, Apply
  <1> QED
    BY <1>1, <1>2, <1>3, <1>4 DEF Step

\* How a handler gets to the labels of the admin calls.
LEMMA AdminMoves ==
  ASSUME TypeInv, NEW r \in Requests, Step(r)
  PROVE  /\ pc'[r] = "mkdir" => Insert(r) /\ bucket = None
         /\ pc'[r] # "undo"
         /\ At(r, "mkdir") => CreateBucketDirectory(r)
         /\ At(r, "undo") => Undo(r)
         /\ pc'[r] = "drop" => IsBucketEmpty(r) /\ ~Occupied
         /\ pc'[r] = "setkeys" => RequireBucket(r) /\ bucket # None
         /\ req[r].op = "create" /\ pc'[r] = "ok" => CreateBucketDirectory(r)
         /\ req[r].op = "rotate" /\ pc'[r] = "ok" => UpdateBucketKeys(r)
         /\ pc'[r] = "refused" /\ At(r, "isempty") => IsBucketEmpty(r) /\ Occupied
  <1> USE DEF Goto, At, TypeInv, LifecycleTypeOK
  <1>1. Stage(r) /\ req[r].op \in AllOps
    BY StepFrame, CallFields
  <1>2. CASE Lookup(r) \/ Insert(r) \/ CreateBucketDirectory(r) \/ Undo(r)
    BY <1>1, <1>2 DEF Lookup, Insert, CreateBucketDirectory, Undo, Stage, Ended, InLock
  <1>3. CASE RequireBucket(r)
    <2>1. req[r].op \in {"delete", "rotate", "reindex"}
      BY <1>1, <1>3 DEF RequireBucket, Stage, Ended, InLock
    <2> QED
      BY <1>3, <2>1 DEF RequireBucket, Admitted
  <1>4. CASE IsBucketEmpty(r) \/ DropBucket(r) \/ RemoveBucketDirectory(r) \/ UpdateBucketKeys(r)
    BY <1>1, <1>4 DEF IsBucketEmpty, DropBucket, RemoveBucketDirectory, UpdateBucketKeys, Stage,
       Ended, InLock
  <1>5. CASE BucketAuth(r)
    <2>1. req[r].op \in SignedOps
      BY <1>1, <1>5 DEF BucketAuth, Stage, Ended, InLock, SignedOps
    <2> QED
      BY <1>5, <2>1 DEF BucketAuth, Admitted, SignedOps
  <1>6. CASE MakeParents(r) \/ MakeFolder(r) \/ CreateTemp(r) \/ Rename(r) \/ StatTarget(r)
             \/ UpsertObject(r)
             \/ Open(r) \/ GetRow(r) \/ Heal(r) \/ RemoveFile(r) \/ RemoveEmptyParents(r)
             \/ RemoveRow(r)
    BY <1>1, <1>6 DEF MakeParents, MakeFolder, CreateTemp, Rename, StatTarget, UpsertObject, Open,
       GetRow,
       Heal, RemoveFile, RemoveEmptyParents, RemoveRow, Stage, Ended, InLock
  <1>7. CASE HasRows(r) \/ HasFiles(r) \/ ListBuckets(r) \/ Lock(r)
    BY <1>1, <1>7 DEF HasRows, HasFiles, ListBuckets, Lock, Stage, Ended, InLock
  <1>8. CASE IsDir(r) \/ IndexedObjects(r) \/ ReadDir(r) \/ Visit(r) \/ Apply(r)
    BY <1>1, <1>8 DEF IsDir, IndexedObjects, ReadDir, Visit, VisitFile, VisitFolder, Apply, End,
       Stage, Ended, InLock
  <1> QED
    BY <1>2, <1>3, <1>4, <1>5, <1>6, <1>7, <1>8 DEF Step

\* A handler's op is told by its label.
LEMMA AdminLabels ==
  ASSUME TypeInv, NEW r \in Requests
  PROVE  /\ Building(r) => Running(r) /\ req[r] # None /\ req[r].op = "create"
         /\ At(r, "insert") => Running(r) /\ req[r].op = "create"
         /\ pc[r] \in {"isempty", "drop"} => Running(r) /\ req[r].op = "delete"
         /\ At(r, "setkeys") => Running(r) /\ req[r].op = "rotate"
         /\ Running(r) => req[r] # None
  BY DEF TypeInv, Placed, Place, Stage, Ended, InLock, Building, At, Running

LEMMA IssuedGrows ==
  ASSUME TypeInv, [Next]_vars
  PROVE  /\ Issued \subseteq Issued'
         /\ \A r \in Requests : Building(r) => r \notin Issued
  <1> USE DEF TypeInv, LifecycleTypeOK
  <1>1. \A r \in Requests : At(r, "ok") => pc'[r] = "ok" /\ req'[r] = req[r]
    <2>1. ASSUME NEW q \in Requests, Step(q) PROVE \A r \in Requests : At(r, "ok") => pc'[r] = "ok" /\ req'[r] = req[r]
      BY <2>1, StepFrame DEF env, At, Ended
    <2>2. ASSUME NEW q \in Requests, Start(q) PROVE \A r \in Requests : At(r, "ok") => pc'[r] = "ok" /\ req'[r] = req[r]
      BY <2>2 DEF Start, At, Goto
    <2>3. ASSUME NEW q \in Requests, Fail(q) PROVE \A r \in Requests : At(r, "ok") => pc'[r] = "ok" /\ req'[r] = req[r]
      BY <2>3 DEF Fail, End, At, Goto, Running, Ended
    <2>4. CASE Crash
      BY <2>4 DEF Crash, At, Running, Ended
    <2>6. ASSUME NEW q \in Requests, Tolerate(q) PROVE \A r \in Requests : At(r, "ok") => pc'[r] = "ok" /\ req'[r] = req[r]
      BY <2>6, TolerateFrame DEF At, Ended
    <2>5. CASE UNCHANGED vars \/ Rest
      BY <2>5 DEF Rest, vars, env, At
    <2> QED
      BY <2>1, <2>2, <2>3, <2>4, <2>5, <2>6 DEF Next
  <1>2. Issued \subseteq Issued'
    BY <1>1 DEF Issued, At
  <1> QED
    BY <1>2, LifecycleSentinels DEF Issued, At, Building

LEMMA ApartInit == Init => ApartInv
  <1> SUFFICES ASSUME Init PROVE ApartInv
    OBVIOUS
  <1>1. RevokeInv /\ \A r \in Requests : pc[r] = "idle"
    BY RevokeInit DEF Init
  <1>2. KeptApart /\ Half /\ Unissued /\ Emptied /\ Rotating /\ PairWorks
    BY <1>1 DEF KeptApart, Running, Half, Building, Unissued, Emptied, Rotating, PairWorks, At
  <1>3. Blank
    BY DEF Init, Blank, NoScan, NoRows
  <1>4. PairsIssued
    BY DEF Init, PairsIssued
  <1>5. Own
    <2> SUFFICES ASSUME NEW v \in Minters, Present(v) PROVE bucket # None /\ v = bucket.born
      BY DEF Own
    <2>1. PICK k \in Keys : file[k] = v \/ row[k] = v
      BY <1>1 DEF Present, Holding
    <2> QED
      BY <2>1, LifecycleSentinels, LifecycleConstants DEF Init, NoRows, BucketRows, Minters
  <1> QED
    BY <1>1, <1>2, <1>3, <1>4, <1>5 DEF ApartInv

\* What a step of a handler leaves as it was, as the proofs below use it.
LEMMA Frame ==
  ASSUME ApartInv, NEW r \in Requests, Step(r)
  PROVE  /\ TypeInv /\ Past /\ Running(r) /\ pc[r] \notin Ended /\ req[r] # None /\ r # None
         /\ req' = req /\ before' = before /\ faults' = faults
         /\ \A q \in Requests \ {r} : pc'[q] = pc[q] /\ (Running(q) => Alone(q, r) /\ Alone(r, q))
         /\ \A q \in Requests : r \notin before[q]
  <1>1. TypeInv /\ Past
    BY DEF ApartInv, RevokeInv
  <1>2. Running(r) /\ pc[r] \notin Ended /\ req[r] # None /\ UNCHANGED env
    BY <1>1, StepFrame, CanRun, CallFields
  <1>3. \A q \in Requests \ {r} : pc'[q] = pc[q] /\ (Running(q) => Alone(q, r) /\ Alone(r, q))
    BY <1>1, <1>2, StepFrame DEF ApartInv, KeptApart
  <1> QED
    BY <1>1, <1>2, <1>3, NoneApart DEF env, Past

\* A drop finds nobody else at work and no files, an undo its own bucket and nothing in it.
LEMMA Gone ==
  ASSUME ApartInv, NEW r \in Requests, DropBucket(r) \/ Undo(r), Step(r), NEW v \in Minters
  PROVE  ~Present(v)'
  <1>1. v # None /\ TypeInv /\ Blank
    BY LifecycleSentinels DEF ApartInv, RevokeInv
  <1>2. CASE Undo(r)
    <2>1. ~Present(v)
      BY <1>2 DEF Undo, At, Building, ApartInv, Unissued
    <2> QED
      BY <1>1, <1>2, <2>1, PresentMoves DEF Undo, BucketAuth, At
  <1>3. CASE DropBucket(r)
    <2>1. /\ req[r].op = "delete" /\ \A k \in Keys : file[k] = None
          /\ pc[r] = "drop" /\ pc'[r] = "rmdir" /\ file' = file /\ row' = NoRows
      BY <1>1, <1>3, AdminLabels DEF DropBucket, DropBucketRow, At, Goto, fs, ApartInv, Emptied,
         TypeInv, LifecycleTypeOK
    <2>2. \A q \in Requests \ {r} : ~Running(q) /\ pc'[q] = pc[q]
      BY <2>1, Frame DEF Alone
    <2>3. \A q \in Requests : ~Holding(q, v)'
      BY <2>1, <2>2 DEF Running, Ended, Holding
    <2>4. \A k \in Keys : file'[k] # v /\ row'[k] # v
      BY <1>1, <2>1 DEF NoRows
    <2> QED
      BY <2>3, <2>4 DEF Present
  <1> QED
    BY <1>2, <1>3

LEMMA HalfStep ==
  ASSUME ApartInv, NEW r \in Requests, Step(r)
  PROVE  Half'
  <1> SUFFICES ASSUME NEW q \in Requests, Building(q)'
               PROVE  bucket' = [born |-> q, pair |-> q]
    BY DEF Half
  <1>1. TypeInv
    BY Frame
  <1>2. CASE q = r
    <2>1. Insert(r) /\ bucket = None
      BY <1>1, <1>2, AdminMoves DEF Building
    <2> QED
      BY <1>2, <2>1 DEF Insert
  <1>3. CASE q # r
    <2>1. Building(q) /\ bucket = [born |-> q, pair |-> q] /\ bucket # None
      <3>1. Building(q) /\ bucket = [born |-> q, pair |-> q]
        BY <1>3, Frame DEF Building, ApartInv, Half
      <3>2. [born |-> q, pair |-> q] \in BucketRows
        BY DEF BucketRows, Minters
      <3> QED
        BY <3>1, <3>2, NoneApart
    <2>2. Running(q) /\ req[q].op = "create"
      BY <1>1, <2>1, AdminLabels
    <2>3. ~(DropBucket(r) \/ UpdateBucketKeys(r))
      BY <1>1, <1>3, <2>2, Frame, AdminLabels DEF DropBucket, UpdateBucketKeys, At, Alone, AdminOps
    <2>4. ~Undo(r)
      <3> SUFFICES ASSUME Undo(r) PROVE FALSE
        OBVIOUS
      <3>1. bucket = [born |-> r, pair |-> r]
        BY DEF Undo, At, Building, ApartInv, Half
      <3>2. bucket.born = r
        BY <3>1
      <3>3. bucket.born = q
        BY <2>1
      <3> QED
        BY <1>3, <3>2, <3>3
    <2> QED
      BY <2>1, <2>3, <2>4, BucketChanges
  <1> QED
    BY <1>2, <1>3

LEMMA OwnStep ==
  ASSUME ApartInv, NEW r \in Requests, Step(r)
  PROVE  Own' /\ Unissued'
  <1>1. TypeInv /\ Blank
    BY Frame DEF ApartInv
  <1>2. CASE DropBucket(r) \/ Undo(r)
    BY <1>2, Gone DEF Own, Unissued
  <1>3. CASE Insert(r) /\ bucket = None
    <2>1. \A v \in Minters : ~Present(v)
      BY <1>3 DEF ApartInv, Own
    <2>2. \A v \in Minters : ~Present(v)'
      BY <1>1, <1>3, <2>1, PresentMoves
    <2> QED
      BY <2>2 DEF Own, Unissued
  <1>4. CASE ~(DropBucket(r) \/ Undo(r)) /\ ~(Insert(r) /\ bucket = None)
    <2>1. bucket' = bucket \/ UpdateBucketKeys(r)
      BY <1>4, BucketChanges
    <2>2. bucket # None => bucket' # None /\ bucket'.born = bucket.born
      <3>1. CASE UpdateBucketKeys(r)
        <4> SUFFICES ASSUME bucket # None PROVE bucket' # None /\ bucket'.born = bucket.born
          OBVIOUS
        <4>1. bucket \in BucketRows /\ bucket' = [bucket EXCEPT !.pair = r] /\ r \in Minters
          BY <1>1, <3>1 DEF UpdateBucketKeys, TypeInv, LifecycleTypeOK, Minters
        <4>2. bucket' \in BucketRows /\ bucket'.born = bucket.born
          BY <4>1 DEF BucketRows
        <4> QED
          BY <4>2, NoneApart
      <3> QED
        BY <2>1, <3>1
    <2>3. Own'
      BY <1>1, <2>2, PresentMoves DEF ApartInv, Own
    <2>4. Unissued'
      <3> SUFFICES ASSUME NEW q \in Requests, Building(q)', NEW v \in Minters, Present(v)'
                   PROVE  FALSE
        BY DEF Unissued
      <3>1. q # r
        BY <1>1, <1>4, AdminMoves DEF Building
      <3>2. Building(q)
        BY <3>1, Frame DEF Building
      <3>3. ~Present(v) /\ bucket = [born |-> q, pair |-> q]
        BY <3>2 DEF ApartInv, Unissued, Half
      <3>4. bucket # None /\ bucket.pair = req[r].pair
        BY <1>1, <3>3, PresentMoves
      <3>5. req[r].pair = q /\ q # None
        BY <3>3, <3>4, NoneApart
      <3>6. q \in Issued
        BY <3>5, Frame DEF ApartInv, PairsIssued
      <3> QED
        BY <3>2, <3>6, LifecycleSentinels DEF Issued, At, Building
    <2> QED
      BY <2>3, <2>4
  <1> QED
    BY <1>2, <1>3, <1>4

LEMMA EmptiedStep ==
  ASSUME ApartInv, NEW r \in Requests, Step(r)
  PROVE  Emptied' /\ Rotating'
  <1>1. TypeInv
    BY Frame
  <1>2. ASSUME NEW q \in Requests, At(q, "drop")' PROVE \A k \in Keys : file'[k] = None
    <2>1. q = r
      BY <1>1, <1>2, Frame, AdminLabels DEF At, Alone
    <2>2. IsBucketEmpty(r) /\ ~Occupied
      BY <1>1, <1>2, <2>1, AdminMoves DEF At
    <2> QED
      BY <2>2 DEF IsBucketEmpty, Occupied, fs
  <1>3. ASSUME NEW q \in Requests, At(q, "setkeys")' PROVE bucket' # None
    <2>1. CASE q = r
      BY <1>1, <1>3, <2>1, AdminMoves DEF At, RequireBucket, db
    <2>2. CASE q # r
      <3>1. Running(q) /\ req[q].op = "rotate" /\ bucket # None
        BY <1>1, <1>3, <2>2, Frame, AdminLabels DEF At, ApartInv, Rotating
      <3>2. req[r].op \notin {"create", "rotate", "delete"}
        BY <2>2, <3>1, Frame DEF Alone, AdminOps
      <3>3. ~(Undo(r) \/ DropBucket(r) \/ UpdateBucketKeys(r))
        BY <1>1, <3>2, AdminLabels DEF Undo, DropBucket, UpdateBucketKeys, At, Building
      <3> QED
        BY <3>1, <3>3, BucketChanges
    <2> QED
      BY <2>1, <2>2
  <1> QED
    BY <1>2, <1>3 DEF Emptied, Rotating

\* r was answered, and no admin call arrived since but creations beside a creation.
Unrivalled(r) ==
  /\ At(r, "ok") /\ req[r].op \in {"create", "rotate"}
  /\ \A q \in Requests \ (before[r] \cup {r}) :
       req[q] # None /\ req[q].op \in AdminOps => req[q].op = "create" /\ req[r].op = "create"

LEMMA PairWorksStep ==
  ASSUME ApartInv, NEW r \in Requests, Step(r)
  PROVE  PairWorks'
  <1> SUFFICES ASSUME NEW q \in Requests, Unrivalled(q)'
               PROVE  bucket' # None /\ bucket'.pair = q
    BY DEF PairWorks, Unrivalled
  <1>1. TypeInv
    BY Frame
  <1>2. CASE q = r
    <2>1. pc'[r] = "ok" /\ req[r].op \in {"create", "rotate"}
      BY <1>2, Frame DEF Unrivalled, At
    <2>2. CASE CreateBucketDirectory(r)
      <3>1. bucket = [born |-> r, pair |-> r] /\ bucket' = bucket
        BY <2>2 DEF CreateBucketDirectory, At, Building, ApartInv, Half, db
      <3>2. bucket \in BucketRows
        BY <3>1 DEF BucketRows, Minters
      <3> QED
        BY <1>2, <3>1, <3>2, NoneApart
    <2>3. CASE UpdateBucketKeys(r)
      <3>1. bucket # None
        BY <2>3 DEF UpdateBucketKeys, ApartInv, Rotating
      <3>2. bucket \in BucketRows /\ bucket' = [bucket EXCEPT !.pair = r] /\ r \in Minters
        BY <1>1, <2>3, <3>1 DEF UpdateBucketKeys, TypeInv, LifecycleTypeOK, Minters
      <3>3. bucket' \in BucketRows /\ bucket'.pair = r
        BY <3>2 DEF BucketRows
      <3> QED
        BY <1>2, <3>3, NoneApart
    <2> QED
      BY <1>1, <2>1, <2>2, <2>3, AdminMoves
  <1>3. CASE q # r
    <2>1. Unrivalled(q)
      BY <1>3, Frame DEF Unrivalled, At
    <2>2. bucket # None /\ bucket.pair = q
      BY <2>1 DEF ApartInv, PairWorks, Unrivalled
    <2>3. req[r].op \in AdminOps => req[r].op = "create"
      BY <1>3, <2>1, Frame DEF Unrivalled
    <2>4. ~(DropBucket(r) \/ UpdateBucketKeys(r))
      BY <1>1, <2>3, AdminLabels DEF DropBucket, UpdateBucketKeys, At, AdminOps
    <2>5. ~Undo(r)
      <3> SUFFICES ASSUME Undo(r) PROVE FALSE
        OBVIOUS
      <3>1. bucket = [born |-> r, pair |-> r]
        BY DEF Undo, At, Building, ApartInv, Half
      <3>2. bucket.pair = r
        BY <3>1
      <3> QED
        BY <1>3, <2>2, <3>2
    <2> QED
      BY <2>2, <2>4, <2>5, BucketChanges
  <1> QED
    BY <1>2, <1>3

LEMMA ApartStep ==
  ASSUME Apart, ApartInv, [Next]_vars
  PROVE  ApartInv'
  <1>1. TypeInv /\ Past /\ KeptApart /\ Issued \subseteq Issued'
    BY IssuedGrows DEF ApartInv, RevokeInv
  <1>2. RevokeInv' /\ KeptApart'
    BY <1>1, RevokeStep, KeptApartStep DEF ApartInv
  <1>3. ASSUME NEW r \in Requests, Step(r) PROVE ApartInv'
    <2>1. PairsIssued'
      BY <1>1, <1>3, Frame DEF ApartInv, PairsIssued
    <2> QED
      BY <1>1, <1>2, <1>3, <2>1, HalfStep, OwnStep, EmptiedStep, PairWorksStep, BlankStep
         DEF ApartInv
  <1>4. ASSUME NEW r \in Requests, Start(r) PROVE ApartInv'
    <2>1. PICK c \in Calls : /\ req' = [req EXCEPT ![r] = c]
                             /\ c.pair \in Issued \cup {None}
                             /\ Goto(r, Entry(c.op))
      BY <1>4 DEF Start
    <2>2. /\ pc[r] = "idle" /\ UNCHANGED <<bucket, row, file, auth, cur, scan>> /\ req[r] = None
          /\ \A q \in Requests \ {r} : pc'[q] = pc[q] /\ req'[q] = req[q] /\ before'[q] = before[q]
          /\ req'[r] = c /\ pc'[r] \in {"lookup", "require", "buckets", "auth"}
      BY <1>1, <1>4, <2>1
         DEF Start, Goto, At, db, fs, local, Entry, TypeInv, LifecycleTypeOK, Placed, Place, Stage,
             Ended, InLock
    <2>3. \A v : Present(v)' => Present(v)
      BY <2>2 DEF Present, Holding
    <2>4. Half' /\ Own' /\ Unissued' /\ Emptied' /\ Rotating'
      BY <2>2, <2>3 DEF ApartInv, Half, Own, Unissued, Emptied, Rotating, Building, At
    <2>5. Blank'
      BY <2>2 DEF ApartInv, Blank, Ended
    <2>6. PairsIssued'
      BY <1>1, <2>1, <2>2 DEF ApartInv, PairsIssued
    <2>7. PairWorks'
      <3> SUFFICES ASSUME NEW q \in Requests, Unrivalled(q)'
                   PROVE  bucket' # None /\ bucket'.pair = q
        BY DEF PairWorks, Unrivalled
      <3>1. q # r
        BY <2>2 DEF Unrivalled, At
      <3>2. Unrivalled(q)
        BY <2>2, <3>1 DEF Unrivalled, At
      <3> QED
        BY <2>2, <3>2 DEF ApartInv, PairWorks, Unrivalled
    <2> QED
      BY <1>2, <2>4, <2>5, <2>6, <2>7 DEF ApartInv
  <1>5. ASSUME NEW r \in Requests, Fail(r) PROVE ApartInv'
    <2>1. /\ UNCHANGED <<bucket, row, file, auth, cur, scan, req, before>> /\ Running(r)
          /\ \A q \in Requests \ {r} : pc'[q] = pc[q]
          /\ pc'[r] \in {"undo", "error"} /\ (pc'[r] = "undo" => pc[r] = "mkdir")
      BY <1>1, <1>5 DEF Fail, End, At, Goto, db, local, TypeInv, LifecycleTypeOK
    <2>2. \A v : Present(v)' => Present(v)
      BY <2>1 DEF Present, Holding
    <2>3. \A q \in Requests : Building(q)' => Building(q)
      BY <2>1 DEF Building
    <2>4. Half' /\ Own' /\ Unissued' /\ Emptied' /\ Rotating'
      BY <2>1, <2>2, <2>3 DEF ApartInv, Half, Own, Unissued, Emptied, Rotating, At
    <2>5. Blank'
      BY <2>1 DEF ApartInv, Blank, Ended
    <2>6. PairsIssued'
      BY <1>1, <2>1 DEF ApartInv, PairsIssued
    <2>7. PairWorks'
      BY <2>1 DEF ApartInv, PairWorks, At
    <2> QED
      BY <1>2, <2>4, <2>5, <2>6, <2>7 DEF ApartInv
  <1>8. ASSUME NEW r \in Requests, Tolerate(r) PROVE ApartInv'
    <2>1. /\ UNCHANGED <<bucket, file, auth, cur, scan, req, before>>
          /\ \A k \in Keys : row'[k] \in {row[k], None}
          /\ pc[r] \notin Ended \cup {"idle", "walk", "apply"} /\ ~Building(r)
          /\ pc'[r] \in {"ok", "rmrow", "notfound"} /\ req[r].op \notin AdminOps
          /\ pc'[r] \in Ended \/ pc[r] = "prune"
          /\ \A q \in Requests \ {r} : pc'[q] = pc[q]
      BY <1>1, <1>8, TolerateFrame DEF fs, local, Ended, Building
    <2>2. \A v \in Minters : Present(v)' => Present(v)
      BY <2>1, LifecycleSentinels DEF Present, Holding
    <2>3. \A q \in Requests : Building(q)' => Building(q)
      BY <2>1 DEF Building
    <2>4. Half' /\ Own' /\ Unissued' /\ Emptied' /\ Rotating'
      BY <2>1, <2>2, <2>3 DEF ApartInv, Half, Own, Unissued, Emptied, Rotating, At
    <2>5. Blank'
      BY <2>1 DEF ApartInv, Blank, Ended
    <2>6. PairsIssued'
      BY <1>1, <2>1 DEF ApartInv, PairsIssued
    <2>7. PairWorks'
      BY <2>1 DEF ApartInv, PairWorks, At, AdminOps
    <2> QED
      BY <1>2, <2>4, <2>5, <2>6, <2>7 DEF ApartInv
  <1>6. CASE Crash
    <2>1. /\ UNCHANGED <<bucket, row, file, auth, cur, scan, req, before>>
          /\ \A q \in Requests : pc'[q] = pc[q] \/ pc'[q] = "crashed"
      BY <1>1, <1>6 DEF Crash, db, fs, local, TypeInv, LifecycleTypeOK
    <2>2. \A v : Present(v)' => Present(v)
      BY <2>1 DEF Present, Holding
    <2>3. \A q \in Requests : Building(q)' => Building(q)
      BY <2>1 DEF Building
    <2>4. Half' /\ Own' /\ Unissued' /\ Emptied' /\ Rotating'
      BY <2>1, <2>2, <2>3 DEF ApartInv, Half, Own, Unissued, Emptied, Rotating, At
    <2>5. Blank'
      BY <2>1 DEF ApartInv, Blank, Ended
    <2>6. PairsIssued'
      BY <1>1, <2>1 DEF ApartInv, PairsIssued
    <2>7. PairWorks'
      BY <2>1 DEF ApartInv, PairWorks, At
    <2> QED
      BY <1>2, <2>4, <2>5, <2>6, <2>7 DEF ApartInv
  <1>7. CASE UNCHANGED vars \/ Rest
    <2>1. UNCHANGED <<bucket, row, file, auth, cur, scan, req, before, pc>>
      BY <1>7 DEF Rest, vars, db, fs, local, env
    <2>2. \A v : Present(v)' => Present(v)
      BY <2>1 DEF Present, Holding
    <2>3. Half' /\ Own' /\ Unissued' /\ Emptied' /\ Rotating' /\ Blank'
      BY <2>1, <2>2 DEF ApartInv, Half, Own, Unissued, Emptied, Rotating, Blank, Building, At
    <2>4. PairsIssued' /\ PairWorks'
      BY <1>1, <2>1 DEF ApartInv, PairsIssued, PairWorks, At
    <2> QED
      BY <1>2, <2>3, <2>4 DEF ApartInv
  <1> QED
    BY <1>3, <1>4, <1>5, <1>6, <1>7, <1>8 DEF Next

LEMMA ApartInvariant ==
  ASSUME Apart
  PROVE  Spec => []ApartInv
  <1>1. ApartInv /\ [Next]_vars => ApartInv'
    BY ApartStep
  <1> QED
    BY <1>1, ApartInit, PTL DEF Spec

\* Rows and files are of the bucket that has the name (Belongs), whatever crashes
\* and fails, if nothing overlaps a deletion and no two admin calls overlap but
\* creations.
THEOREM ObjectsBelong ==
  ASSUME Apart
  PROVE  Spec => []Belongs
  <1>1. ApartInv => Belongs
    <2> SUFFICES ASSUME ApartInv, NEW k \in Keys, NEW made \in {file[k], row[k]}, made # None
                 PROVE  bucket # None /\ made = bucket.born
      BY DEF Belongs
    <2>1. made \in Minters
      BY DEF ApartInv, RevokeInv, TypeInv, LifecycleTypeOK
    <2>2. Present(made)
      BY DEF Present
    <2> QED
      BY <2>1, <2>2 DEF ApartInv, Own
  <1> QED
    BY <1>1, ApartInvariant, PTL

\* A key pair that was answered is the bucket's until another rotation or deletion
\* arrives (PairWorks), on the same terms.
THEOREM AnsweredPairsWork ==
  ASSUME Apart
  PROVE  Spec => []PairWorks
  <1>1. ApartInv => PairWorks
    BY DEF ApartInv
  <1> QED
    BY <1>1, ApartInvariant, PTL

-----------------------------------------------------------------------------
(* What an upload or a deletion leaves in the bucket's directory.  Until a call   *)
(* fails or the process dies, a temporary file is that of an upload at work, and  *)
(* a directory below the bucket's holds something or is about to: some upload is  *)
(* about to create its file there, or some deletion has yet to remove it.         *)

TmpAtWork == \A r \in tmp : At(r, "rename")
Tending(r, f) == pc[r] \in {"mktemp", "prune"} /\ Folder[req[r].key] = f
Tended(f) == Holds(f) \/ \E r \in Requests : Tending(r, f)
Tidy ==
  /\ sub # {} => dir
  /\ faults = 0 /\ crashes = 0 => TmpAtWork /\ \A f \in sub : Tended(f)

LEMMA DirMoves ==
  ASSUME TypeInv, NEW r \in Requests, Step(r)
  PROVE  /\ sub' = sub \/ MakeFolder(r) \/ RemoveEmptyParents(r)
         /\ tmp' = tmp \/ CreateTemp(r) \/ Rename(r)
         /\ dir' = dir \/ dir' = TRUE \/ RemoveBucketDirectory(r)
         /\ pc[r] = "mktemp" => CreateTemp(r)
         /\ pc[r] = "prune" => RemoveEmptyParents(r)
         /\ pc[r] = "rename" => Rename(r)
  <1> USE DEF fs, At
  <1>1. CASE Lookup(r) \/ Insert(r) \/ CreateBucketDirectory(r) \/ Undo(r) \/ RequireBucket(r)
             \/ IsBucketEmpty(r) \/ DropBucket(r) \/ RemoveBucketDirectory(r)
             \/ UpdateBucketKeys(r)
    BY <1>1 DEF Lookup, Insert, CreateBucketDirectory, Undo, RequireBucket, IsBucketEmpty,
       DropBucket, RemoveBucketDirectory, UpdateBucketKeys
  <1>2. CASE BucketAuth(r) \/ MakeParents(r) \/ MakeFolder(r) \/ StatTarget(r) \/ UpsertObject(r)
             \/ Open(r) \/ GetRow(r) \/ Heal(r) \/ RemoveFile(r) \/ RemoveEmptyParents(r)
             \/ RemoveRow(r) \/ CreateTemp(r) \/ Rename(r)
    BY <1>2 DEF BucketAuth, MakeParents, MakeFolder, StatTarget, UpsertObject, Open, GetRow, Heal,
       RemoveFile, RemoveEmptyParents, RemoveRow, CreateTemp, Rename
  <1>3. CASE HasRows(r) \/ HasFiles(r) \/ ListBuckets(r) \/ Lock(r) \/ IsDir(r)
             \/ IndexedObjects(r) \/ ReadDir(r) \/ Visit(r) \/ Apply(r)
    BY <1>3 DEF HasRows, HasFiles, ListBuckets, Lock, IsDir, IndexedObjects, ReadDir, Visit, Apply
  <1> QED
    BY <1>1, <1>2, <1>3 DEF Step

\* Whoever tends a directory and does not step tends it still.
LEMMA TendedBesides ==
  ASSUME TypeInv, NEW r \in Requests, Step(r), NEW f,
         \E q \in Requests \ {r} : Tending(q, f)
  PROVE  Tended(f)'
  BY StepFrame DEF Tending, Tended, env

LEMMA TidyWork ==
  ASSUME KeepInv, Tidy, NEW r \in Requests, Step(r), faults = 0, crashes = 0
  PROVE  TmpAtWork' /\ \A f \in sub' : Tended(f)'
  <1> USE DEF Goto, At, TypeInv, LifecycleTypeOK
  <1>1. /\ TypeInv /\ TmpAtWork /\ req' = req /\ \A f \in sub : Tended(f)
        /\ \A q \in Requests \ {r} : pc'[q] = pc[q]
    BY StepFrame DEF KeepInv, Tidy, env
  <1>2. TmpAtWork'
    <2>1. CASE CreateTemp(r) \/ Rename(r)
      BY <1>1, <2>1 DEF CreateTemp, Rename, TmpAtWork
    <2>2. CASE ~(CreateTemp(r) \/ Rename(r))
      BY <1>1, <2>2, DirMoves DEF TmpAtWork
    <2> QED
      BY <2>1, <2>2
  <1>3. ASSUME NEW f \in sub' PROVE Tended(f)'
    <2>1. CASE MakeFolder(r) /\ f \notin sub
      <3>1. pc'[r] = "mktemp" /\ f = Folder[req[r].key]
        BY <1>1, <1>3, <2>1 DEF MakeFolder
      <3> QED
        BY <1>1, <3>1 DEF Tended, Tending
    <2>2. f \notin sub => MakeFolder(r)
      BY <1>1, <1>3, DirMoves DEF RemoveEmptyParents
    <2>3. CASE f \in sub /\ \E q \in Requests \ {r} : Tending(q, f)
      BY <1>1, <2>3, TendedBesides
    <2>4. CASE f \in sub /\ Tending(r, f) /\ pc[r] = "mktemp"
      <3>1. CreateTemp(r) /\ Folder[req[r].key] = f /\ dir
        BY <1>1, <2>4, DirMoves DEF Tending, Tidy
      <3>2. r \in tmp'
        BY <1>1, <2>4, <3>1 DEF CreateTemp
      <3> QED
        BY <1>1, <3>1, <3>2 DEF Tended, Holds
    <2>5. CASE f \in sub /\ Tending(r, f) /\ pc[r] = "prune"
      <3>1. RemoveEmptyParents(r) /\ Folder[req[r].key] = f
        BY <1>1, <2>5, DirMoves DEF Tending
      <3>2. Holds(f) /\ UNCHANGED <<file, tmp>>
        BY <1>3, <3>1 DEF RemoveEmptyParents
      <3> QED
        BY <1>1, <3>2 DEF Tended, Holds, Objects
    <2>6. CASE f \in sub /\ Holds(f)
      <3>1. CASE Rename(r)
        <4>1. /\ req[r].key \in Keys /\ auth[r] # None /\ pc[r] = "rename"
              /\ file' = [file EXCEPT ![req[r].key] = auth[r]] /\ tmp' = tmp \ {r}
          BY <3>1, StepFrame, CallFields DEF Rename, KeepInv, LetIn, Stage, Ended, InLock
        <4>2. CASE Objects(f) # {}
          <5>1. PICK k \in Keys : Folder[k] = f /\ file[k] # None
            BY <4>2 DEF Objects
          <5>2. file'[k] # None
            BY <1>1, <4>1, <5>1
          <5> QED
            BY <5>1, <5>2 DEF Tended, Holds, Objects
        <4>3. CASE \E q \in tmp : Folder[req[q].key] = f
          <5>1. PICK q \in tmp : Folder[req[q].key] = f
            BY <4>3
          <5>2. CASE q = r
            <6>1. file'[req[r].key] # None
              BY <1>1, <4>1
            <6> QED
              BY <4>1, <5>1, <5>2, <6>1 DEF Tended, Holds, Objects
          <5>3. CASE q # r
            BY <1>1, <4>1, <5>1, <5>3 DEF Tended, Holds
          <5> QED
            BY <5>2, <5>3
        <4> QED
          BY <2>6, <4>2, <4>3 DEF Holds
      <3>2. CASE RemoveFile(r)
        <4>1. /\ req[r].key \in Keys /\ tmp' = tmp
              /\ file' = [file EXCEPT ![req[r].key] = None]
              /\ Folder[req[r].key] # None => pc'[r] = "prune"
          BY <1>1, <3>2, StepFrame, CallFields DEF RemoveFile, Stage, Ended, InLock
        <4>2. CASE Folder[req[r].key] = f
          <5>1. f # None
            BY <1>1, <2>6 DEF Folders
          <5> QED
            BY <1>1, <4>1, <4>2, <5>1 DEF Tended, Tending
        <4>3. CASE Folder[req[r].key] # f
          <5>1. \A k \in Keys : Folder[k] = f => file'[k] = file[k]
            BY <1>1, <4>1, <4>3
          <5> QED
            BY <1>1, <2>6, <4>1, <5>1 DEF Tended, Holds, Objects
        <4> QED
          BY <4>2, <4>3
      <3>3. CASE ~Rename(r) /\ ~RemoveFile(r)
        <4>1. file' = file /\ tmp \subseteq tmp'
          BY <1>1, <3>3, FileMoves, DirMoves DEF CreateTemp
        <4> QED
          BY <1>1, <2>6, <4>1 DEF Tended, Holds, Objects
      <3> QED
        BY <3>1, <3>2, <3>3
    <2> QED
      BY <1>1, <2>1, <2>2, <2>3, <2>4, <2>5, <2>6 DEF Tended, Tending
  <1> QED
    BY <1>2, <1>3

LEMMA TidyStep ==
  ASSUME KeepInv, Tidy, [Next]_vars
  PROVE  Tidy'
  <1> USE DEF TypeInv, LifecycleTypeOK
  <1>1. TypeInv
    BY DEF KeepInv
  <1>2. ASSUME NEW r \in Requests, Step(r) PROVE Tidy'
    <2>1. sub' # {} => dir'
      <3>1. CASE RemoveBucketDirectory(r)
        BY <3>1 DEF RemoveBucketDirectory, Occupied, Tidy
      <3>2. CASE MakeFolder(r) \/ RemoveEmptyParents(r)
        BY <3>2 DEF MakeFolder, RemoveEmptyParents, Tidy
      <3> QED
        BY <1>1, <1>2, <3>1, <3>2, DirMoves DEF Tidy
    <2>2. faults' = faults /\ crashes' = crashes
      BY <1>1, <1>2, StepFrame DEF env
    <2> QED
      BY <1>2, <2>1, <2>2, TidyWork DEF Tidy
  <1>3. ASSUME NEW r \in Requests, Start(r) PROVE Tidy'
    <2>1. /\ UNCHANGED <<dir, sub, file, tmp, faults, crashes>> /\ pc[r] = "idle"
          /\ \A q \in Requests \ {r} : pc'[q] = pc[q] /\ req'[q] = req[q]
      BY <1>1, <1>3 DEF Start, Goto, At, fs
    <2>2. TmpAtWork => TmpAtWork' /\ r \notin tmp
      BY <1>1, <2>1 DEF TmpAtWork, At
    <2>3. ASSUME TmpAtWork, NEW f, Tended(f) PROVE Tended(f)'
      BY <1>1, <2>1, <2>2, <2>3 DEF Tended, Tending, Holds, Objects
    <2> QED
      BY <2>1, <2>2, <2>3 DEF Tidy
  <1>4. ASSUME NEW r \in Requests, Fail(r) \/ Tolerate(r) PROVE Tidy'
    <2>1. sub' = sub /\ dir' = dir /\ faults' # 0
      BY <1>1, <1>4 DEF Fail, Tolerate, fs
    <2> QED
      BY <2>1 DEF Tidy
  <1>5. CASE Crash
    <2>1. sub' = sub /\ dir' = dir /\ crashes' # 0
      BY <1>1, <1>5 DEF Crash, fs
    <2> QED
      BY <2>1 DEF Tidy
  <1>6. CASE UNCHANGED vars \/ Rest
    BY <1>6 DEF Rest, vars, fs, env, At, Tidy, TmpAtWork, Tended, Tending, Holds, Objects
  <1> QED
    BY <1>2, <1>3, <1>4, <1>5, <1>6 DEF Next

\* A deletion is refused only if there are objects, or a call has failed or the
\* process has crashed before (RefusedForCause), for any number of failures and crashes.
THEOREM RefusalsHaveCause ==
  ASSUME Apart
  PROVE  Spec => RefusedForCause
  <1>1. Init => Tidy
    <2> SUFFICES ASSUME Init PROVE Tidy
      OBVIOUS
    <2>1. tmp = {} /\ (sub # {} => dir)
      BY DEF Init
    <2>2. ASSUME NEW f \in sub PROVE Holds(f)
      <3>1. sub = Folders /\ \A k \in Keys : file[k] = Seed
        BY <2>2 DEF Init
      <3>2. PICK k \in Keys : Folder[k] = f
        BY <2>2, <3>1 DEF Folders
      <3> QED
        BY <3>1, <3>2, LifecycleSentinels DEF Holds, Objects, Minters
    <2> QED
      BY <2>1, <2>2 DEF Tidy, TmpAtWork, Tended
  <1>2. KeepInv /\ Tidy /\ [Next]_vars => Tidy'
    BY TidyStep
  <1>3. ApartInv /\ Tidy /\ [Next]_vars =>
          [\A r \in Requests : At(r, "isempty") /\ pc'[r] = "refused"
             => (\E k \in Keys : file[k] # None) \/ faults + crashes > 0]_vars
    <2> SUFFICES ASSUME ApartInv, Tidy, Next, NEW r \in Requests, At(r, "isempty"),
                        pc'[r] = "refused", ~(faults + crashes > 0)
                 PROVE  \E k \in Keys : file[k] # None
      OBVIOUS
    <2> USE DEF TypeInv, LifecycleTypeOK
    <2>1. TypeInv /\ KeptApart
      BY DEF ApartInv, RevokeInv
    <2>2. Occupied
      <3>1. ASSUME NEW q \in Requests, Step(q) PROVE Occupied
        <4>1. q = r
          BY <2>1, <3>1, StepFrame DEF At
        <4> QED
          BY <2>1, <3>1, <4>1, AdminMoves
      <3>2. ASSUME NEW q \in Requests, Start(q) \/ Fail(q) PROVE FALSE
        BY <2>1, <3>2 DEF Start, Fail, End, Goto, At, Entry
      <3>3. ASSUME NEW q \in Requests, Tolerate(q) PROVE FALSE
        BY <2>1, <3>3, TolerateFrame DEF At
      <3>4. CASE Crash \/ Rest
        BY <2>1, <3>4 DEF Crash, Rest, vars, At
      <3> QED
        BY <3>1, <3>2, <3>3, <3>4 DEF Next
    <2>3. faults = 0 /\ crashes = 0
      BY <2>1, LifecycleConstants
    <2>4. ASSUME NEW q \in Requests, pc[q] \in {"rename", "mktemp", "prune"} PROVE FALSE
      <3>1. Running(q) /\ Running(r) /\ req[r].op = "delete" /\ q # r
        BY <2>1, <2>4, AdminLabels DEF At, Running, Ended
      <3> QED
        BY <2>1, <3>1 DEF KeptApart, Alone
    <2>5. tmp = {}
      BY <2>1, <2>3, <2>4 DEF Tidy, TmpAtWork, At
    <2>6. \A f \in sub : Holds(f)
      BY <2>3, <2>4 DEF Tidy, Tended, Tending
    <2> QED
      BY <2>2, <2>5, <2>6 DEF Occupied, Holds, Objects
  <1> QED
    BY <1>1, <1>2, <1>3, ApartInvariant, KeepInit, KeepStep, PTL DEF Spec, RefusedForCause

-----------------------------------------------------------------------------
(* Without crashes and with one failed call at most, a creation whose directory *)
(* cannot be made is undone.                                                    *)

\* Known: the pair was answered, or will be unless its creation is undone.
Known == bucket = None \/ bucket.pair \in Issued \/ \E r \in Requests : Building(r)
Undoing == \A r \in Requests : At(r, "undo") => faults >= 1

LEMMA KnownStep ==
  ASSUME MaxCrashes = 0, MaxFaults <= 1, ApartInv, Known, Undoing, [Next]_vars
  PROVE  Known' /\ Undoing'
  <1>1. TypeInv /\ Issued \subseteq Issued' /\ faults \in 0..MaxFaults /\ MaxFaults \in Nat
    BY IssuedGrows, LifecycleConstants DEF ApartInv, RevokeInv, TypeInv, LifecycleTypeOK
  <1>2. ASSUME NEW r \in Requests, Step(r) PROVE Known' /\ Undoing'
    <2>1. Undoing'
      <3> SUFFICES ASSUME NEW q \in Requests, pc'[q] = "undo" PROVE faults' >= 1
        BY DEF Undoing, At
      <3>1. q # r
        BY <1>1, <1>2, AdminMoves
      <3> QED
        BY <1>2, <3>1, Frame DEF Undoing, At
    <2>2. CASE CreateBucketDirectory(r)
      <3>1. /\ bucket = [born |-> r, pair |-> r] /\ bucket' = bucket
            /\ pc' = [pc EXCEPT ![r] = "ok"] /\ req[r].op = "create"
        BY <1>1, <2>2, AdminLabels
           DEF CreateBucketDirectory, Goto, At, Building, ApartInv, Half, db
      <3>2. r \in Issued'
        BY <1>1, <1>2, <3>1, Frame DEF Issued, At, TypeInv, LifecycleTypeOK
      <3> QED
        BY <2>1, <3>1, <3>2 DEF Known
    <2>3. CASE UpdateBucketKeys(r)
      <3>1. bucket # None /\ pc' = [pc EXCEPT ![r] = "ok"] /\ req[r].op = "rotate"
        BY <1>1, <2>3, AdminLabels DEF UpdateBucketKeys, Goto, ApartInv, Rotating
      <3>2. r \in Issued'
        BY <1>1, <1>2, <3>1, Frame DEF Issued, At, TypeInv, LifecycleTypeOK
      <3>3. bucket'.pair = r
        BY <1>1, <2>3, <3>1 DEF UpdateBucketKeys, TypeInv, LifecycleTypeOK, BucketRows
      <3> QED
        BY <2>1, <3>2, <3>3 DEF Known
    <2>4. CASE Undo(r) \/ DropBucket(r)
      BY <2>1, <2>4 DEF Undo, DropBucket, DropBucketRow, Known
    <2>5. CASE Insert(r) /\ bucket = None
      <3>1. Building(r)'
        BY <1>1, <2>5 DEF Insert, Goto, Building, TypeInv, LifecycleTypeOK
      <3> QED
        BY <2>1, <3>1 DEF Known
    <2>6. CASE bucket' = bucket /\ ~CreateBucketDirectory(r) /\ ~Undo(r)
      <3>1. ~Building(r)
        BY <1>1, <1>2, <2>6, AdminMoves DEF Building, At
      <3>2. \A q \in Requests : Building(q) => Building(q)'
        BY <1>2, <3>1, Frame DEF Building
      <3> QED
        BY <1>1, <2>1, <2>6, <3>2 DEF Known
    <2> QED
      BY <1>2, <2>2, <2>3, <2>4, <2>5, <2>6, BucketChanges
  <1>3. ASSUME NEW r \in Requests, Start(r) PROVE Known' /\ Undoing'
    <2>1. /\ bucket' = bucket /\ faults' = faults /\ pc[r] = "idle"
          /\ \A q \in Requests \ {r} : pc'[q] = pc[q]
          /\ pc'[r] \in {"lookup", "require", "buckets", "auth"}
      BY <1>1, <1>3 DEF Start, Goto, At, db, Entry, TypeInv, LifecycleTypeOK
    <2> QED
      BY <1>1, <2>1 DEF Known, Undoing, Building, At
  <1>4. ASSUME NEW r \in Requests, Fail(r) PROVE Known' /\ Undoing'
    <2>1. /\ bucket' = bucket /\ faults = 0 /\ faults' = 1
          /\ \A q \in Requests \ {r} : pc'[q] = pc[q]
          /\ pc'[r] = IF pc[r] = "mkdir" THEN "undo" ELSE "error"
      BY <1>1, <1>4 DEF Fail, End, At, Goto, db, TypeInv, LifecycleTypeOK
    <2>2. pc[r] # "undo"
      BY <2>1 DEF Undoing, At
    <2>3. \A q \in Requests : Building(q) => Building(q)'
      BY <2>1, <2>2 DEF Building
    <2> QED
      BY <1>1, <2>1, <2>3 DEF Known, Undoing
  <1>7. ASSUME NEW r \in Requests, Tolerate(r) PROVE Known' /\ Undoing'
    <2>1. /\ bucket' = bucket /\ faults' = faults + 1 /\ ~Building(r)
          /\ \A q \in Requests \ {r} : pc'[q] = pc[q]
          /\ pc'[r] \in {"ok", "rmrow", "notfound"}
      BY <1>1, <1>7, TolerateFrame DEF Building
    <2> QED
      BY <1>1, <2>1 DEF Known, Undoing, Building, At
  <1>5. ~Crash
    BY <1>1 DEF Crash, TypeInv, LifecycleTypeOK
  <1>6. CASE UNCHANGED vars \/ Rest
    BY <1>1, <1>6 DEF Rest, vars, db, env, Known, Undoing, Building, At
  <1> QED
    BY <1>2, <1>3, <1>4, <1>5, <1>6, <1>7 DEF Next

\* No bucket is left whose key pair nobody was given (PairKnown), if the process
\* does not crash and no second call fails: the undo of createBucket ignores errors.
THEOREM PairsAreKnown ==
  ASSUME Apart, MaxCrashes = 0, MaxFaults <= 1
  PROVE  Spec => []PairKnown
  <1>1. Init => Known /\ Undoing
    <2> SUFFICES ASSUME Init PROVE bucket = None \/ bucket.pair = Seed
      BY DEF Init, Known, Undoing, Issued, At
    <2> QED
      BY DEF Init
  <1>2. ApartInv /\ Known /\ Undoing /\ [Next]_vars => Known' /\ Undoing'
    BY KnownStep
  <1>3. ApartInv /\ Known => PairKnown
    <2> SUFFICES ASSUME ApartInv, Known, NEW r \in Requests, Building(r)
                 PROVE  Running(r) /\ req[r].op \in AdminOps
      BY DEF Known, PairKnown
    <2> QED
      BY AdminLabels DEF ApartInv, RevokeInv, AdminOps
  <1> QED
    BY <1>1, <1>2, <1>3, ApartInvariant, PTL DEF Spec
=============================================================================

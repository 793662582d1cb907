---------------------------- MODULE StorageApart ----------------------------
(***************************************************************************)
(* What Storage promises as long as its calls are kept apart, proved for   *)
(* any number of keys and requests: bytes, sidecar and row of a key agree, *)
(* a listing is not silently empty, and each call acts at one moment, as   *)
(* on the atomic store of ObjectStore.  And what a reindex restores that   *)
(* no other call overlaps, whatever happened before it.                    *)
(***************************************************************************)
EXTENDS StorageSafety, StorageRefinement

-----------------------------------------------------------------------------
(* Kept apart: what clients and server are assumed to spare each other.      *)

Readers == {"get", "anon", "list"}

\* Only reads share a key, nothing fails, and every file was indexed or tagged once.
KeptApart ==
  /\ MayOverlap \subseteq Readers \X Readers
  /\ MaxCrashes = 0 /\ MaxFaults = 0
  /\ "legacy" \notin InitStates

Together(q, r) == Walker(q) \/ Walker(r) \/ req[q].key = req[r].key
Exclusive ==
  \A q, r \in Requests : q # r /\ Running(q) /\ Running(r) /\ Together(q, r)
    => req[q].op \in Readers /\ req[r].op \in Readers

-----------------------------------------------------------------------------
(* The inductive invariant: a key's bytes, sidecar and row tell one story,   *)
(* except for what the one handler that is changing them has still to do.    *)

FullRow(k) == RowOf(file[k].n, side[k])
Fits(w, k, m) == /\ w.size = file[k].n /\ w.etag \in {Hash(file[k]), None}
                 /\ w.ct = m.ct /\ w.public = m.public
Tells(k, m) ==
  IF file[k] = None THEN m = NoMeta /\ row[k] = None
  ELSE /\ m.etag \in {Hash(file[k]), None}
       /\ IF row[k] = None THEN m.etag # None ELSE Fits(row[k], k, m)

Changes(r) ==
  /\ Running(r)
  /\ \/ req[r].op = "put" /\ pc[r] \in {"trunc", "write", "stat", "upsert"}
     \/ req[r].op = "acl" /\ pc[r] \in {"write", "getrow", "ifdStat", "ifdMeta", "upsert"}
     \/ req[r].op = "delete" /\ pc[r] \in {"rmside", "rmrow"}
     \/ pc[r] = "ifdWrite"
Changed(k) == \E r \in Requests : Changes(r) /\ KeyOf(r) = k
Healthy == \A k \in Keys : ~Changed(k) => Tells(k, side[k])

PutWork(r, k) ==
  /\ pc[r] \in {"trunc", "write", "stat", "upsert"} => file[k] = Body(r) /\ meta[r] = PutMeta(r)
  /\ pc[r] = "write" => side[k] = NoMeta /\ r \in linked
  /\ pc[r] \in {"stat", "upsert"} => side[k] = PutMeta(r)
  /\ pc[r] = "upsert" => cur[r] = FullRow(k)

AclWork(r, k) ==
  /\ pc[r] # "isfile" => file[k] # None
  /\ pc[r] = "trunc" => meta[r] = [side[k] EXCEPT !.public = req[r].public]
  /\ pc[r] \in {"write", "getrow", "ifdStat", "ifdMeta", "upsert"} =>
       /\ meta[r].public = req[r].public /\ meta[r].etag \in {Hash(file[k]), None}
       /\ IF row[k] = None THEN meta[r].etag # None
          ELSE Fits([row[k] EXCEPT !.public = req[r].public], k, meta[r])
  /\ pc[r] = "write" => side[k] = NoMeta /\ r \in linked
  /\ pc[r] \in {"getrow", "ifdStat", "ifdMeta", "upsert"} => side[k] = meta[r]
  /\ pc[r] \in {"ifdStat", "ifdMeta"} => row[k] = None
  /\ pc[r] = "ifdMeta" => cur[r].size = file[k].n
  /\ pc[r] = "upsert" => Fits(cur[r], k, side[k]) /\ (side[k].etag = None => row[k] # None)
  /\ pc[r] \notin {"ifdHash", "ifdTrunc", "ifdWrite"}

DeleteWork(r, k) ==
  /\ pc[r] \in {"rmside", "rmrow"} => file[k] = None
  /\ pc[r] = "rmrow" => side[k] = NoMeta

GetWork(r, k) ==
  /\ req[r].op = "get" => pc[r] \notin {"public", "publicMeta"}
  /\ pc[r] \notin {"public", "publicMeta", "open"} => file[k] # None /\ fd[r] = file[k]
  /\ req[r].op = "anon" /\ pc[r] \notin {"public", "publicMeta"} =>
       file[k] # None /\ side[k].public
  /\ pc[r] \in {"ifdStat", "ifdMeta", "upsert"} => side[k].etag # None
  /\ pc[r] = "ifdMeta" => cur[r].size = file[k].n
  /\ pc[r] = "upsert" => cur[r] = FullRow(k)
  /\ pc[r] \in {"hash", "settag"} => row[k] # None /\ Fits(cur[r], k, side[k])
  /\ pc[r] = "settag" => cur[r].etag = Hash(file[k])
  /\ pc[r] \notin {"ifdHash", "ifdTrunc", "ifdWrite"}

\* The keys a walk is through with.
Done(r) == scan[r].seen \ (IF pc[r] \in InIndexFromDisk THEN {scan[r].at} ELSE {})

WalkWork(r) ==
  LET s == scan[r]  at == scan[r].at IN
  /\ pc[r] = "query" => (\E k \in Keys : row[k] # None) \/ \A k \in Keys : file[k] = None
  /\ req[r].op = "list" /\ pc[r] \notin {"hasrows", "query"} =>
       \A k \in Keys : file[k] # None => side[k].etag # None
  /\ pc[r] \in {"hasrows", "hasfiles", "lock", "existing", "readdir"} =>
       s.seen = {} /\ \A k \in Keys : s.upserts[k] = None
  /\ pc[r] \in {"readdir", "walk", "apply"} \cup InIndexFromDisk =>
       \A k \in Keys : s.existing[k] # None => row[k] # None /\ file[k] # None
  /\ pc[r] \in {"walk", "apply"} \cup InIndexFromDisk =>
       /\ s.names \cap s.seen = {}
       /\ \A k \in Keys : file[k] # None <=> k \in s.names \cup s.seen
       /\ \A k \in Keys : s.upserts[k] # None =>
            k \in Done(r) /\ s.upserts[k] = FullRow(k) /\ side[k].etag # None
       /\ \A k \in Done(r) : s.upserts[k] # None \/ row[k] # None
  /\ pc[r] = "apply" => s.names = {}
  /\ pc[r] \in InIndexFromDisk => at \in s.seen
  /\ pc[r] \in InIndexFromDisk \ {"ifdStat"} => cur[r].size = file[at].n
  /\ pc[r] \in {"ifdHash", "ifdTrunc", "ifdWrite"} => req[r].op # "list" /\ row[at] # None
  /\ pc[r] = "ifdHash" => meta[r] = side[at] /\ meta[r].etag = None
  /\ pc[r] = "ifdTrunc" => meta[r] = [side[at] EXCEPT !.etag = Hash(file[at])]
  /\ pc[r] = "ifdWrite" => /\ side[at] = NoMeta /\ r \in linked
                           /\ meta[r].etag = Hash(file[at]) /\ Fits(row[at], at, meta[r])

Work(r) ==
  /\ req[r].op = "put" => PutWork(r, req[r].key)
  /\ req[r].op = "acl" => AclWork(r, req[r].key)
  /\ req[r].op = "delete" => DeleteWork(r, req[r].key)
  /\ req[r].op \in {"get", "anon"} => GetWork(r, req[r].key)
  /\ req[r].op \in Walkers => WalkWork(r)

Working == \A r \in Requests : Running(r) => Work(r)
Fresh == \A r \in Requests : At(r, "idle") => scan[r] = NoScan
ApartInv == Exclusive /\ Healthy /\ Working /\ Fresh

-----------------------------------------------------------------------------
(* Which step a handler takes, and what it leaves alone.                     *)

LEMMA Labelled ==
  ASSUME NEW r \in Requests
  PROVE  /\ CreateTemp(r) => pc[r] = "mktemp"
         /\ Copy(r) => pc[r] = "copy"
         /\ Rename(r) => pc[r] = "rename"
         /\ Truncate(r) => pc[r] = "trunc"
         /\ Write(r) => pc[r] = "write"
         /\ StatTarget(r) => pc[r] = "stat"
         /\ Upsert(r) => pc[r] = "upsert"
         /\ IfdStat(r) => pc[r] = "ifdStat"
         /\ IfdMeta(r) => pc[r] = "ifdMeta"
         /\ IfdHash(r) => pc[r] = "ifdHash"
         /\ IfdTruncate(r) => pc[r] = "ifdTrunc"
         /\ IfdWrite(r) => pc[r] = "ifdWrite"
         /\ IsPublic(r) => pc[r] = "public"
         /\ IsPublicOnDisk(r) => pc[r] = "publicMeta"
         /\ Open(r) => pc[r] = "open"
         /\ GetRow(r) => pc[r] = "getrow"
         /\ HashFile(r) => pc[r] = "hash"
         /\ SetETag(r) => pc[r] = "settag"
         /\ IsFile(r) => pc[r] = "isfile"
         /\ ReadMeta(r) => pc[r] = "readmeta"
         /\ RemoveFile(r) => pc[r] = "rmfile"
         /\ RemoveMeta(r) => pc[r] = "rmside"
         /\ RemoveRow(r) => pc[r] = "rmrow"
         /\ HasRows(r) => pc[r] = "hasrows"
         /\ HasFiles(r) => pc[r] = "hasfiles"
         /\ Query(r) => pc[r] = "query"
         /\ Lock(r) => pc[r] = "lock"
         /\ ReadIndex(r) => pc[r] = "existing"
         /\ ReadDir(r) => pc[r] = "readdir"
         /\ Visit(r) => pc[r] = "walk"
         /\ Apply(r) => pc[r] = "apply"
  BY DEF At, CreateTemp, Copy, Rename, Truncate, Write, StatTarget, Upsert, IfdStat, IfdMeta,
     IfdHash, IfdTruncate, IfdWrite, IsPublic, IsPublicOnDisk, Open, GetRow, HashFile, SetETag,
     IsFile, ReadMeta, RemoveFile, RemoveMeta, RemoveRow, HasRows, HasFiles, Query, Lock,
     ReadIndex, ReadDir, Visit, Apply

LEMMA StepOf ==
  ASSUME TypeInv, NEW r \in Requests, Step(r)
  PROVE  /\ Running(r) /\ req[r] \in Calls /\ req[r] # None
         /\ req[r].op = "put" =>
              \/ CreateTemp(r) \/ Copy(r) \/ Rename(r) \/ Truncate(r) \/ Write(r)
              \/ StatTarget(r) \/ Upsert(r)
         /\ req[r].op = "acl" =>
              \/ IsFile(r) \/ ReadMeta(r) \/ Truncate(r) \/ Write(r) \/ GetRow(r) \/ Upsert(r)
              \/ IfdStat(r) \/ IfdMeta(r) \/ IfdHash(r) \/ IfdTruncate(r) \/ IfdWrite(r)
         /\ req[r].op = "delete" => RemoveFile(r) \/ RemoveMeta(r) \/ RemoveRow(r)
         /\ req[r].op \in {"get", "anon"} =>
              \/ IsPublic(r) \/ IsPublicOnDisk(r) \/ Open(r) \/ GetRow(r) \/ HashFile(r)
              \/ SetETag(r) \/ Upsert(r)
              \/ IfdStat(r) \/ IfdMeta(r) \/ IfdHash(r) \/ IfdTruncate(r) \/ IfdWrite(r)
         /\ Walker(r) =>
              \/ HasRows(r) \/ HasFiles(r) \/ Query(r) \/ Lock(r) \/ ReadIndex(r) \/ ReadDir(r)
              \/ Visit(r) \/ Apply(r)
              \/ IfdStat(r) \/ IfdMeta(r) \/ IfdHash(r) \/ IfdTruncate(r) \/ IfdWrite(r)
  <1>1. pc[r] \notin Ended \cup {"idle"}
    BY Labelled DEF Step, Ended
  <1>2. req[r] \in Calls /\ Stage(r) /\ Running(r) /\ req[r] # None
    BY <1>1, Called, NoneApart DEF Running
  <1>3. /\ req[r].op = "put" => pc[r] \in PutLabels
        /\ req[r].op = "acl" => pc[r] \in AclLabels
        /\ req[r].op = "delete" => pc[r] \in {"rmfile", "rmside", "rmrow"}
        /\ req[r].op \in {"get", "anon"} => pc[r] \in ReadLabels
        /\ Walker(r) => pc[r] \in WalkLabels
    BY <1>1, <1>2 DEF Stage, Walker, Walkers
  <1>4. req[r].op = "put" =>
          \/ CreateTemp(r) \/ Copy(r) \/ Rename(r) \/ Truncate(r) \/ Write(r)
          \/ StatTarget(r) \/ Upsert(r)
    BY <1>3, Labelled DEF PutLabels, Step
  <1>5. req[r].op = "acl" =>
          \/ IsFile(r) \/ ReadMeta(r) \/ Truncate(r) \/ Write(r) \/ GetRow(r) \/ Upsert(r)
          \/ IfdStat(r) \/ IfdMeta(r) \/ IfdHash(r) \/ IfdTruncate(r) \/ IfdWrite(r)
    BY <1>3, Labelled DEF AclLabels, InIndexFromDisk, Step
  <1>6. req[r].op = "delete" => RemoveFile(r) \/ RemoveMeta(r) \/ RemoveRow(r)
    BY <1>3, Labelled DEF Step
  <1>7. req[r].op \in {"get", "anon"} =>
          \/ IsPublic(r) \/ IsPublicOnDisk(r) \/ Open(r) \/ GetRow(r) \/ HashFile(r)
          \/ SetETag(r) \/ Upsert(r)
          \/ IfdStat(r) \/ IfdMeta(r) \/ IfdHash(r) \/ IfdTruncate(r) \/ IfdWrite(r)
    BY <1>3, Labelled DEF ReadLabels, InIndexFromDisk, Step
  <1>8. Walker(r) =>
          \/ HasRows(r) \/ HasFiles(r) \/ Query(r) \/ Lock(r) \/ ReadIndex(r) \/ ReadDir(r)
          \/ Visit(r) \/ Apply(r)
          \/ IfdStat(r) \/ IfdMeta(r) \/ IfdHash(r) \/ IfdTruncate(r) \/ IfdWrite(r)
    BY <1>3, Labelled DEF WalkLabels, InLock, InIndexFromDisk, Step
  <1> QED
    BY <1>2, <1>4, <1>5, <1>6, <1>7, <1>8

\* Without crashes and failures a step is a request's arrival or its handler's.
LEMMA NothingFails ==
  ASSUME KeptApart, TypeInv, [Next]_vars
  PROVE  \/ \E r \in Requests : Start(r) \/ Step(r)
         \/ UNCHANGED vars
  <1>1. crashes \in 0..MaxCrashes /\ faults \in 0..MaxFaults
    BY DEF TypeInv, TypeOK
  <1>2. ~(crashes < MaxCrashes) /\ ~(faults < MaxFaults)
    BY <1>1 DEF KeptApart
  <1> QED
    BY <1>2 DEF Next, Fail, Misread, Crash, Rest

\* What a call works on.
LEMMA WorksOn ==
  ASSUME TypeInv, NEW r \in Requests, Running(r), ~Walker(r)
  PROVE  req[r].key \in Keys /\ KeyOf(r) = req[r].key
  <1>1. req[r] \in Calls
    BY Called DEF Running
  <1> QED
    BY <1>1, CallFields DEF Walker, KeyOf

LEMMA OpsOf ==
  ASSUME TypeInv, NEW r \in Requests, Running(r)
  PROVE  /\ req[r].op \in AllOps
         /\ ~Walker(r) => req[r].op \in {"put", "acl", "delete", "get", "anon"}
  <1>1. req[r] \in Calls
    BY Called DEF Running
  <1> QED
    BY <1>1, CallFields DEF Walker, Walkers, AllOps

LEMMA ExclusiveStep ==
  ASSUME KeptApart, TypeInv, Exclusive, [Next]_vars
  PROVE  Exclusive'
  <1>1. ASSUME NEW r \in Requests, Step(r) PROVE Exclusive'
    <2>1. req' = req /\ Running(r) /\ \A q \in Requests \ {r} : pc'[q] = pc[q]
      BY <1>1, StepFrame, StepOf
    <2> QED
      BY <2>1 DEF Exclusive, Together, Walker, Running
  <1>2. ASSUME NEW r \in Requests, Start(r) PROVE Exclusive'
    <2>1. PICK c \in Calls :
            /\ \A q \in Requests : Running(q) /\ Meets(q, c) => <<c.op, req[q].op>> \in MayOverlap
            /\ req' = [req EXCEPT ![r] = c]
            /\ Goto(r, Entry[c.op])
      BY <1>2 DEF Start
    <2>2. /\ pc[r] = "idle" /\ req'[r] = c
          /\ \A q \in Requests \ {r} : pc'[q] = pc[q] /\ req'[q] = req[q]
      BY <1>2, <2>1 DEF Start, At, Goto, TypeInv, TypeOK
    <2>3. ASSUME NEW q \in Requests \ {r}, Running(q), Meets(q, c)
          PROVE  c.op \in Readers /\ req[q].op \in Readers
      <3>1. <<c.op, req[q].op>> \in Readers \X Readers
        BY <2>1, <2>3 DEF KeptApart
      <3> QED
        BY <3>1
    <2>4. \A q \in Requests \ {r} :
            /\ Running(q)' <=> Running(q)
            /\ Together(q, r)' => Meets(q, c)
            /\ Together(r, q)' => Meets(q, c)
      BY <2>2 DEF Running, Together, Meets, Walker
    <2> SUFFICES ASSUME NEW p \in Requests, NEW q \in Requests, p # q,
                        Running(p)', Running(q)', Together(p, q)'
                 PROVE  req'[p].op \in Readers /\ req'[q].op \in Readers
      BY DEF Exclusive
    <2>5. CASE p = r
      BY <2>2, <2>3, <2>4, <2>5
    <2>6. CASE q = r
      BY <2>2, <2>3, <2>4, <2>6
    <2>7. CASE p # r /\ q # r
      BY <2>2, <2>4, <2>7 DEF Exclusive, Together, Walker, Running
    <2> QED
      BY <2>5, <2>6, <2>7
  <1>3. CASE UNCHANGED vars
    BY <1>3 DEF vars, env, Exclusive, Together, Walker, Running
  <1> QED
    BY <1>1, <1>2, <1>3, NothingFails

\* Files, sidecars and rows change only at the key that a call works on.
LEMMA Elsewhere ==
  ASSUME TypeInv, NEW r \in Requests, Step(r), ~Walker(r), NEW k \in Keys, k # req[r].key
  PROVE  file'[k] = file[k] /\ side'[k] = side[k] /\ row'[k] = row[k]
  <1>1. Running(r) /\ KeyOf(r) = req[r].key
    BY StepOf, WorksOn
  <1> USE DEF TypeInv, TypeOK, disk
  <1>2. CASE CreateTemp(r) \/ Copy(r) \/ Rename(r) \/ StatTarget(r) \/ Upsert(r)
    BY <1>2 DEF CreateTemp, Copy, Rename, StatTarget, Upsert
  <1>3. CASE Truncate(r) \/ IfdTruncate(r) \/ RemoveMeta(r)
    BY <1>1, <1>3 DEF Truncate, IfdTruncate, RemoveMeta, TruncateMeta, UnlinkMeta
  <1>4. CASE Write(r) \/ IfdWrite(r)
    <2>1. file' = file /\ row' = row /\ FillMeta(r)
      BY <1>4 DEF Write, IfdWrite
    <2> QED
      BY <1>1, <2>1 DEF FillMeta
  <1>5. CASE IfdStat(r) \/ IfdMeta(r) \/ IfdHash(r)
    BY <1>5 DEF IfdStat, IfdMeta, IfdHash
  <1>6. CASE IsPublic(r) \/ IsPublicOnDisk(r) \/ Open(r) \/ GetRow(r) \/ HashFile(r)
    BY <1>6 DEF IsPublic, IsPublicOnDisk, Open, GetRow, HashFile
  <1>7. CASE SetETag(r)
    BY <1>7 DEF SetETag
  <1>8. CASE IsFile(r) \/ ReadMeta(r) \/ RemoveFile(r) \/ RemoveRow(r)
    BY <1>8 DEF IsFile, ReadMeta, RemoveFile, RemoveRow
  <1>9. req[r].op \in {"put", "acl", "delete", "get", "anon"}
    BY <1>1, OpsOf
  <1> QED
    BY <1>2, <1>3, <1>4, <1>5, <1>6, <1>7, <1>8, <1>9, StepOf

\* Nobody else's step takes the sidecar from a handler that is writing it.
LEMMA StaysLinked ==
  ASSUME TypeInv, NEW r \in Requests, Step(r), NEW q \in Requests \ {r}, q \in linked,
         KeyOf(q) # KeyOf(r)
  PROVE  q \in linked'
  <1> USE DEF disk
  <1>1. CASE Truncate(r) \/ IfdTruncate(r) \/ RemoveMeta(r)
    BY <1>1 DEF Truncate, IfdTruncate, RemoveMeta, TruncateMeta, UnlinkMeta
  <1>2. CASE Write(r) \/ IfdWrite(r)
    BY <1>2 DEF Write, IfdWrite, FillMeta
  <1>3. CASE CreateTemp(r) \/ Copy(r) \/ Rename(r) \/ StatTarget(r) \/ Upsert(r) \/ IfdStat(r)
             \/ IfdMeta(r) \/ IfdHash(r) \/ IsPublic(r) \/ IsPublicOnDisk(r) \/ Open(r) \/ GetRow(r)
    BY <1>3 DEF CreateTemp, Copy, Rename, StatTarget, Upsert, IfdStat, IfdMeta, IfdHash,
       IsPublic, IsPublicOnDisk, Open, GetRow
  <1>4. CASE HashFile(r) \/ SetETag(r) \/ IsFile(r) \/ ReadMeta(r) \/ RemoveFile(r) \/ RemoveRow(r)
             \/ HasRows(r) \/ HasFiles(r) \/ Query(r) \/ Lock(r) \/ ReadIndex(r) \/ ReadDir(r)
             \/ Visit(r) \/ Apply(r)
    BY <1>4 DEF HashFile, SetETag, IsFile, ReadMeta, RemoveFile, RemoveRow, HasRows, HasFiles,
       Query, Lock, ReadIndex, ReadDir, Visit, Apply
  <1> QED
    BY <1>1, <1>2, <1>3, <1>4 DEF Step

-----------------------------------------------------------------------------
(* Rows and sidecars field by field.                                         *)

LEMMA RowOfFields ==
  ASSUME NEW n, NEW m
  PROVE  /\ RowOf(n, m).size = n /\ RowOf(n, m).etag = m.etag
         /\ RowOf(n, m).ct = m.ct /\ RowOf(n, m).public = m.public
  BY DEF RowOf

LEMMA MetaSet ==
  ASSUME NEW m \in Metas, NEW v
  PROVE  /\ [m EXCEPT !.etag = v].etag = v /\ [m EXCEPT !.etag = v].ct = m.ct
         /\ [m EXCEPT !.etag = v].public = m.public
         /\ [m EXCEPT !.public = v].public = v /\ [m EXCEPT !.public = v].ct = m.ct
         /\ [m EXCEPT !.public = v].etag = m.etag
  BY DEF Metas

LEMMA RowSet ==
  ASSUME NEW w \in Rows, NEW v
  PROVE  /\ [w EXCEPT !.etag = v].etag = v /\ [w EXCEPT !.etag = v].ct = w.ct
         /\ [w EXCEPT !.etag = v].size = w.size /\ [w EXCEPT !.etag = v].public = w.public
         /\ [w EXCEPT !.public = v].public = v /\ [w EXCEPT !.public = v].ct = w.ct
         /\ [w EXCEPT !.public = v].size = w.size /\ [w EXCEPT !.public = v].etag = w.etag
  BY DEF Rows

LEMMA PutMetaFields ==
  ASSUME NEW r \in Requests, req[r] \in Calls
  PROVE  /\ PutMeta(r).etag = Hash(Body(r)) /\ PutMeta(r).etag # None
         /\ PutMeta(r).ct = req[r].ct /\ PutMeta(r).public = req[r].public
         /\ PutMeta(r) # NoMeta
  <1>1. PutMeta(r).etag = Hash(Body(r)) /\ PutMeta(r).ct = req[r].ct /\ PutMeta(r).public = req[r].public
    BY DEF PutMeta, PutHash
  <1>2. Hash(Body(r)) # None /\ NoMeta.etag = None
    BY BodyType, NoneApart DEF Hash, NoMeta
  <1> QED
    BY <1>1, <1>2

\* A sidecar written over an empty one reads as what was written.
LEMMA WrittenWhole ==
  ASSUME NEW m \in Metas
  PROVE  Overlays(NoMeta, m) = {m}
  <1>1. NoMeta # GarbledMeta
    BY SentinelsOK DEF NoMeta, GarbledMeta
  <1>2. MetaLen(NoMeta) = 0
    BY DEF MetaLen
  <1>3. MetaLen(m) \in Nat
    <2>1. TypeLen[m.ct] \in Nat
      BY ConstantsOK, MetaFields
    <2> QED
      BY <2>1 DEF MetaLen
  <1>4. ~(MetaLen(NoMeta) > MetaLen(m))
    BY <1>2, <1>3
  <1> QED
    BY <1>1, <1>4 DEF Overlays

-----------------------------------------------------------------------------
(* What readers may do to a key: give it the row that its file and sidecar   *)
(* describe, or the ETag that its row lacks.                                 *)

Served(k) ==
  /\ file'[k] = file[k] /\ side'[k] = side[k]
  /\ \/ row'[k] = row[k]
     \/ file[k] # None /\ side[k].etag # None /\ row'[k] = FullRow(k)
     \/ file[k] # None /\ row[k] # None /\ row'[k] = [row[k] EXCEPT !.etag = Hash(file[k])]

LEMMA ReadLeaves ==
  ASSUME TypeInv, NEW r \in Requests, Step(r), req[r].op \in Readers, Work(r)
  PROVE  linked' = linked /\ \A k \in Keys : Served(k)
  <1> USE DEF TypeInv, TypeOK, disk
  <1>0. /\ Running(r)
        /\ req[r].op \in {"get", "anon"} => ~Walker(r)
        /\ req[r].op = "list" => Walker(r)
        /\ req[r].op \in {"get", "anon", "list"}
    BY StepOf DEF Walker, Walkers, Readers
  <1>1. ~(IfdHash(r) \/ IfdTruncate(r) \/ IfdWrite(r))
    BY <1>0, Labelled DEF Work, GetWork, WalkWork, Walkers
  <1>2. CASE req[r].op \in {"get", "anon"}
    <2> DEFINE k == req[r].key
    <2>0. k \in Keys /\ GetWork(r, k) /\ KeyOf(r) = k
      BY <1>0, <1>2, WorksOn DEF Work
    <2>1. CASE IsPublic(r) \/ IsPublicOnDisk(r) \/ Open(r) \/ GetRow(r) \/ HashFile(r)
               \/ IfdStat(r) \/ IfdMeta(r)
      BY <2>1 DEF IsPublic, IsPublicOnDisk, Open, GetRow, HashFile, IfdStat, IfdMeta, Served
    <2>2. CASE SetETag(r)
      <3>1. file[k] # None /\ row[k] # None /\ cur[r].etag = Hash(file[k])
        BY <2>0, <2>2, Labelled DEF GetWork
      <3>2. disk' = disk /\ row' = [row EXCEPT ![k] = [row[k] EXCEPT !.etag = cur[r].etag]]
        <4>1. row' = IF row[k] = None THEN row ELSE [row EXCEPT ![k].etag = cur[r].etag]
          BY <2>2 DEF SetETag
        <4> QED
          BY <2>2, <3>1, <4>1 DEF SetETag
      <3> QED
        BY <2>0, <3>1, <3>2 DEF Served
    <2>3. CASE Upsert(r)
      <3>1. file[k] # None /\ side[k].etag # None /\ cur[r] = FullRow(k)
        BY <2>0, <2>3, Labelled DEF GetWork
      <3>2. disk' = disk /\ row' = [row EXCEPT ![k] = cur[r]]
        BY <2>3 DEF Upsert
      <3> QED
        BY <2>0, <3>1, <3>2 DEF Served
    <2> QED
      BY <1>1, <1>2, <2>1, <2>2, <2>3, StepOf
  <1>3. CASE req[r].op = "list"
    <2>1. CASE HasRows(r) \/ HasFiles(r) \/ Query(r) \/ Lock(r) \/ ReadIndex(r) \/ ReadDir(r)
               \/ Visit(r) \/ IfdStat(r) \/ IfdMeta(r)
      BY <2>1 DEF HasRows, HasFiles, Query, Lock, ReadIndex, ReadDir, Visit, IfdStat, IfdMeta, Served
    <2>2. CASE Apply(r)
      <3>0. pc[r] = "apply" /\ WalkWork(r)
        BY <1>3, <2>2, Labelled DEF Work, Walkers
      <3>1. /\ \A k \in Keys : scan[r].existing[k] # None => row[k] # None /\ file[k] # None
            /\ \A k \in Keys : file[k] # None <=> k \in scan[r].seen
            /\ \A k \in Keys : scan[r].upserts[k] # None =>
                 /\ k \in scan[r].seen
                 /\ scan[r].upserts[k] = FullRow(k) /\ side[k].etag # None
        BY <3>0 DEF WalkWork, Done, InIndexFromDisk
      <3>2. /\ disk' = disk
            /\ row' = [k \in Keys |-> IF scan[r].upserts[k] # None THEN scan[r].upserts[k]
                            ELSE IF scan[r].existing[k] # None /\ k \notin scan[r].seen THEN None
                            ELSE row[k]]
        BY <2>2 DEF Apply
      <3>3. ASSUME NEW k \in Keys PROVE Served(k)
        BY <3>1, <3>2 DEF Served
      <3> QED
        BY <3>2, <3>3
    <2> QED
      BY <1>0, <1>1, <1>3, <2>1, <2>2, StepOf
  <1> QED
    BY <1>0, <1>2, <1>3

LEMMA ServedRow ==
  ASSUME TypeInv, NEW k \in Keys, Served(k)
  PROVE  /\ row[k] # None => row'[k] # None
         /\ file[k] = None => row'[k] = row[k]
         /\ FullRow(k)' = FullRow(k)
         /\ \A w, m : Fits(w, k, m)' <=> Fits(w, k, m)
  <1>1. file[k] \in Blobs \cup {None} /\ side[k] \in Metas /\ row[k] \in Rows \cup {None}
    BY DEF TypeInv, TypeOK
  <1>2. file[k] # None => file[k].n \in Nat /\ Hash(file[k]) \in Blobs \cup {None}
    BY <1>1 DEF Blobs, Hash
  <1>3. file[k] # None => FullRow(k) \in Rows
    BY <1>1, <1>2, RowOfType DEF FullRow
  <1>4. file[k] # None /\ row[k] # None => [row[k] EXCEPT !.etag = Hash(file[k])] \in Rows
    BY <1>1, <1>2, RowExcept
  <1>5. row[k] # None => row'[k] # None
    BY <1>3, <1>4, NoneApart DEF Served
  <1>6. FullRow(k)' = FullRow(k) /\ \A w, m : Fits(w, k, m)' <=> Fits(w, k, m)
    BY DEF Served, FullRow, Fits
  <1> QED
    BY <1>5, <1>6 DEF Served

\* A story that is served stays the same story.
LEMMA ServedTells ==
  ASSUME TypeInv, NEW k \in Keys, Served(k), Tells(k, side[k])
  PROVE  Tells(k, side[k])'
  <1>1. side'[k] = side[k] /\ file'[k] = file[k]
    BY DEF Served
  <1>2. CASE file[k] = None
    BY <1>1, <1>2, ServedRow DEF Tells
  <1>3. CASE file[k] # None
    <2>1. CASE row'[k] = row[k]
      BY <1>1, <1>3, <2>1 DEF Tells, Fits
    <2>2. CASE side[k].etag # None /\ row'[k] = FullRow(k)
      <3>1. Fits(FullRow(k), k, side[k])
        BY <1>3, RowOfFields DEF Fits, FullRow, Tells
      <3> QED
        BY <1>1, <1>3, <2>2, <3>1 DEF Tells, Fits
    <2>3. CASE row[k] # None /\ row'[k] = [row[k] EXCEPT !.etag = Hash(file[k])]
      <3>1. row[k] \in Rows /\ row'[k] # None
        BY <2>3, ServedRow DEF TypeInv, TypeOK
      <3>2. Fits(row[k], k, side[k])
        BY <1>3, <2>3 DEF Tells
      <3>3. Fits(row'[k], k, side[k])
        BY <2>3, <3>1, <3>2, RowSet DEF Fits
      <3> QED
        BY <1>1, <1>3, <3>1, <3>3 DEF Tells, Fits
    <2> QED
      BY <1>3, <2>1, <2>2, <2>3 DEF Served
  <1> QED
    BY <1>2, <1>3

\* Where a handler stands while another one takes a step.
Still(q) == /\ req'[q] = req[q] /\ pc'[q] = pc[q] /\ fd'[q] = fd[q]
            /\ meta'[q] = meta[q] /\ cur'[q] = cur[q] /\ scan'[q] = scan[q]

LEMMA GetServed ==
  ASSUME TypeInv, NEW q \in Requests, NEW k \in Keys, Still(q), Served(k), GetWork(q, k)
  PROVE  GetWork(q, k)'
  <1>1. /\ file'[k] = file[k] /\ side'[k] = side[k]
        /\ row[k] # None => row'[k] # None
        /\ FullRow(k)' = FullRow(k)
        /\ Fits(cur[q], k, side[k])' <=> Fits(cur[q], k, side[k])
    <2>1. \A w, m : Fits(w, k, m)' <=> Fits(w, k, m)
      BY ServedRow
    <2>2. cur'[q] = cur[q] /\ side'[k] = side[k]
      BY DEF Still, Served
    <2> QED
      BY <2>1, <2>2, ServedRow DEF Served, Fits
  <1> QED
    BY <1>1 DEF Still, GetWork

LEMMA ListServed ==
  ASSUME TypeInv, NEW q \in Requests, Still(q), \A k \in Keys : Served(k), WalkWork(q),
         req[q].op = "list", scan[q] \in Scans,
         pc[q] \in InIndexFromDisk => scan[q].at \in Keys
  PROVE  WalkWork(q)'
  <1>1. \A k \in Keys : /\ file'[k] = file[k] /\ side'[k] = side[k]
                        /\ row[k] # None => row'[k] # None
                        /\ FullRow(k)' = FullRow(k)
    BY ServedRow DEF Served
  <1>2. Done(q)' = Done(q) /\ Done(q) \subseteq Keys
    BY ScanFields DEF Done, Still
  <1>3. pc[q] \notin {"ifdHash", "ifdTrunc", "ifdWrite"}
    BY DEF WalkWork
  <1>4. pc[q] = "query" => (\E k \in Keys : row'[k] # None) \/ \A k \in Keys : file'[k] = None
    BY <1>1 DEF WalkWork
  <1>5. pc[q] \notin {"hasrows", "query"} => \A k \in Keys : file'[k] # None => side'[k].etag # None
    BY <1>1 DEF WalkWork
  <1>6. pc[q] \in {"readdir", "walk", "apply"} \cup InIndexFromDisk =>
          \A k \in Keys : scan[q].existing[k] # None => row'[k] # None /\ file'[k] # None
    BY <1>1 DEF WalkWork
  <1>7. pc[q] \in {"walk", "apply"} \cup InIndexFromDisk =>
          /\ \A k \in Keys : file'[k] # None <=> k \in scan[q].names \cup scan[q].seen
          /\ \A k \in Keys : scan[q].upserts[k] # None =>
               k \in Done(q) /\ scan[q].upserts[k] = FullRow(k)' /\ side'[k].etag # None
          /\ \A k \in Done(q) : scan[q].upserts[k] # None \/ row'[k] # None
    BY <1>1, <1>2 DEF WalkWork
  <1>8. pc[q] \in InIndexFromDisk \ {"ifdStat"} => cur[q].size = file'[scan[q].at].n
    BY <1>1 DEF WalkWork, InIndexFromDisk
  <1> QED
    BY <1>2, <1>3, <1>4, <1>5, <1>6, <1>7, <1>8 DEF Still, WalkWork

\* What a handler does to its key and has at hand depends on that key alone.
LEMMA WorkUntouched ==
  ASSUME TypeInv, NEW q \in Requests, Running(q), ~Walker(q), Still(q), Work(q),
         NEW k \in Keys, k = req[q].key,
         file'[k] = file[k], side'[k] = side[k], row'[k] = row[k],
         q \in linked => q \in linked'
  PROVE  Work(q)'
  <1>1. req'[q] = req[q] /\ req[q].op \in {"put", "acl", "delete", "get", "anon"}
    BY OpsOf DEF Still
  <1>2. /\ FullRow(k)' = FullRow(k) /\ PutMeta(q)' = PutMeta(q) /\ Body(q)' = Body(q)
        /\ Fits(cur[q], k, side[k])' <=> Fits(cur[q], k, side[k])
        /\ Fits([row[k] EXCEPT !.public = req[q].public], k, meta[q])'
             <=> Fits([row[k] EXCEPT !.public = req[q].public], k, meta[q])
    BY DEF Still, FullRow, Fits, PutMeta, PutHash, Body
  <1>3. PutWork(q, k) => PutWork(q, k)'
    BY <1>2 DEF PutWork, Still
  <1>4. AclWork(q, k) => AclWork(q, k)'
    BY <1>2 DEF AclWork, Still
  <1>5. DeleteWork(q, k) => DeleteWork(q, k)'
    BY DEF DeleteWork, Still
  <1>6. GetWork(q, k) => GetWork(q, k)'
    BY <1>2 DEF GetWork, Still
  <1> QED
    BY <1>1, <1>3, <1>4, <1>5, <1>6 DEF Work, Walkers

\* A handler's story is not disturbed by the steps of the others.
LEMMA OthersWork ==
  ASSUME TypeInv, ApartInv, NEW r \in Requests, Step(r), NEW q \in Requests \ {r}, Running(q)
  PROVE  Work(q)'
  <1>1. Running(r) /\ Work(q) /\ Work(r)
    BY StepOf DEF ApartInv, Working
  <1>2. Still(q)
    BY StepFrame DEF Still
  <1>3. CASE Together(q, r)
    <2>1. req[q].op \in Readers /\ req[r].op \in Readers
      BY <1>1, <1>3 DEF ApartInv, Exclusive
    <2>2. \A k \in Keys : Served(k)
      BY <1>1, <2>1, ReadLeaves
    <2>3. CASE req[q].op \in {"get", "anon"}
      <3>1. PICK k \in Keys : k = req[q].key
        BY <2>3, WorksOn DEF Walker, Walkers
      <3>2. GetWork(q, k)
        BY <1>1, <2>3, <3>1 DEF Work
      <3>3. GetWork(q, k)'
        BY <1>2, <2>2, <3>2, GetServed
      <3> QED
        BY <1>2, <2>3, <3>1, <3>3 DEF Work, Walkers, Still
    <2>4. CASE req[q].op = "list"
      <3>1. scan[q] \in Scans /\ Walker(q)
        BY <2>4 DEF TypeInv, TypeOK, Walker, Walkers
      <3>2. pc[q] \in InIndexFromDisk => scan[q].at \in Keys
        BY <3>1, KeyOfType DEF InIndexFromDisk, InLock
      <3>3. WalkWork(q)'
        BY <1>1, <1>2, <2>2, <2>4, <3>1, <3>2, ListServed DEF Work, Walkers
      <3> QED
        BY <1>2, <2>4, <3>3 DEF Work, Walkers, Still
    <2> QED
      BY <2>1, <2>3, <2>4 DEF Readers
  <1>4. CASE ~Together(q, r)
    <2>1. ~Walker(q) /\ ~Walker(r) /\ req[q].key # req[r].key
      BY <1>4 DEF Together
    <2>2. req[q].key \in Keys /\ KeyOf(q) = req[q].key /\ KeyOf(r) = req[r].key
      BY <1>1, <2>1, WorksOn
    <2>3. q \in linked => q \in linked'
      BY <2>1, <2>2, StaysLinked
    <2>4. /\ file'[req[q].key] = file[req[q].key] /\ side'[req[q].key] = side[req[q].key]
          /\ row'[req[q].key] = row[req[q].key]
      BY <2>1, <2>2, Elsewhere
    <2> QED
      BY <1>1, <1>2, <2>1, <2>2, <2>3, <2>4, WorkUntouched
  <1> QED
    BY <1>3, <1>4

-----------------------------------------------------------------------------
(* What a handler may rely on when it is about to change its key.            *)

\* Nobody else is changing a key that a handler works on.
LEMMA Story ==
  ASSUME TypeInv, ApartInv, NEW r \in Requests, Running(r), NEW k \in Keys,
         Walker(r) \/ k = req[r].key, ~(Changes(r) /\ KeyOf(r) = k)
  PROVE  ~Changed(k) /\ Tells(k, side[k])
  <1>1. ASSUME NEW q \in Requests, Changes(q), KeyOf(q) = k PROVE FALSE
    <2>1. q # r /\ Running(q) /\ Work(q)
      BY <1>1 DEF Changes, ApartInv, Working
    <2>2. Together(q, r)
      BY <1>1, <2>1, WorksOn DEF Together
    <2>3. req[q].op \in Readers
      BY <2>1, <2>2 DEF ApartInv, Exclusive
    <2> QED
      BY <1>1, <2>1, <2>3 DEF Changes, Readers, Work, GetWork, WalkWork, Walkers
  <1> QED
    BY <1>1 DEF Changed, ApartInv, Healthy

Mine(r, k) == Walker(r) \/ req[r].key = k

\* A handler that a step belongs to is never idle again.
LEMMA FreshStep ==
  ASSUME TypeInv, Fresh, NEW r \in Requests, Step(r)
  PROVE  Fresh'
  <1>1. Running(r) /\ req' = req /\ \A q \in Requests \ {r} : pc'[q] = pc[q] /\ scan'[q] = scan[q]
    BY StepOf, StepFrame
  <1>2. TypeInv' /\ req'[r] # None
    BY <1>1, StepOf, TypeStep DEF Next
  <1>3. pc'[r] # "idle"
    BY <1>2 DEF TypeInv, Placed, Place, Stage, PutLabels, ReadLabels, AclLabels, WalkLabels,
       InLock, InIndexFromDisk, Ended
  <1> QED
    BY <1>1, <1>3 DEF Fresh, At

LEMMA Assembled ==
  ASSUME KeptApart, TypeInv, ApartInv, NEW r \in Requests, Step(r), Running(r)' => Work(r)',
         \A k \in Keys : Mine(r, k) /\ ~(Changes(r)' /\ KeyOf(r)' = k) => Tells(k, side[k])'
  PROVE  ApartInv'
  <1>1. Exclusive'
    BY ExclusiveStep DEF ApartInv, Next
  <1>2. Running(r) /\ req' = req /\ \A q \in Requests \ {r} : pc'[q] = pc[q] /\ scan'[q] = scan[q]
    BY StepOf, StepFrame
  <1>3. Working'
    <2> SUFFICES ASSUME NEW q \in Requests, Running(q)' PROVE Work(q)'
      BY DEF Working
    <2>1. q # r => Running(q)
      BY <1>2 DEF Running
    <2> QED
      BY <2>1, OthersWork
  <1>4. Healthy'
    <2> SUFFICES ASSUME NEW k \in Keys, ~Changed(k)' PROVE Tells(k, side[k])'
      BY DEF Healthy
    <2>1. CASE Mine(r, k)
      BY <2>1 DEF Changed
    <2>2. CASE ~Mine(r, k)
      <3>1. ~Walker(r) /\ k # req[r].key /\ KeyOf(r) = req[r].key
        BY <1>2, <2>2, WorksOn DEF Mine
      <3>2. file'[k] = file[k] /\ side'[k] = side[k] /\ row'[k] = row[k]
        BY <3>1, Elsewhere
      <3>3. ASSUME NEW q \in Requests, Changes(q), KeyOf(q) = k PROVE FALSE
        <4>1. q # r
          BY <3>1, <3>3
        <4>2. Changes(q)' /\ KeyOf(q)' = k
          BY <1>2, <3>3, <4>1 DEF Changes, Running, KeyOf, Walker
        <4> QED
          BY <4>2 DEF Changed
      <3>4. Tells(k, side[k])
        BY <3>3 DEF Changed, ApartInv, Healthy
      <3> QED
        BY <3>2, <3>4 DEF Tells, Fits
    <2> QED
      BY <2>1, <2>2
  <1>5. Fresh'
    BY FreshStep DEF ApartInv
  <1> QED
    BY <1>1, <1>3, <1>4, <1>5 DEF ApartInv

-----------------------------------------------------------------------------
(* A PUT's own steps.                                                        *)

LEMMA PutSteps ==
  ASSUME TypeInv, TempInv, ApartInv, NEW r \in Requests, Step(r), req[r].op = "put",
         NEW k \in Keys, k = req[r].key
  PROVE  PutWork(r, k)' /\ (~Changes(r)' => Tells(k, side[k])')
  <1> DEFINE Goal == PutWork(r, k)' /\ (~Changes(r)' => Tells(k, side[k])')
  <1>1. /\ Running(r) /\ req'[r] = req[r] /\ req[r] \in Calls /\ ~Walker(r) /\ KeyOf(r) = k
        /\ PutWork(r, k) /\ (~Changes(r) => Tells(k, side[k]))
    <2>1. Running(r) /\ req' = req /\ req[r] \in Calls /\ ~Walker(r)
      BY StepOf, StepFrame DEF Walker, Walkers
    <2> QED
      BY <2>1, WorksOn, Story DEF ApartInv, Working, Work
  <1>2. /\ Body(r)' = Body(r) /\ PutMeta(r)' = PutMeta(r) /\ Body(r) # None
        /\ PutMeta(r) # NoMeta /\ PutMeta(r).etag = Hash(Body(r)) /\ PutMeta(r) \in Metas
    <2>1. PutMeta(r) \in Metas
      BY <1>1, CallFields, BodyType DEF PutMeta, PutHash, Hash, Metas, Types
    <2> QED
      BY <1>1, <2>1, PutMetaFields, BodyType, NoneApart DEF Body, PutMeta, PutHash
  <1>t. /\ file \in [Keys -> Blobs \cup {None}] /\ side \in [Keys -> Metas]
        /\ row \in [Keys -> Rows \cup {None}] /\ pc \in [Requests -> Labels]
        /\ meta \in [Requests -> Metas] /\ cur \in [Requests -> Rows \cup {None}]
    BY DEF TypeInv, TypeOK
  <1>3. CASE CreateTemp(r) \/ Copy(r)
    <2>1. /\ file' = file /\ side' = side /\ row' = row /\ pc[r] \in {"mktemp", "copy"}
          /\ pc'[r] \in {"copy", "rename"}
      BY <1>3, <1>t DEF CreateTemp, Copy, Goto, At
    <2>2. Tells(k, side[k])'
      BY <1>1, <2>1 DEF Changes, Tells, Fits
    <2> QED
      BY <2>1, <2>2 DEF PutWork
  <1>4. CASE Rename(r)
    <2>1. tmp[r] = Body(r)
      BY <1>4, Labelled DEF TempInv
    <2>2. file'[k] = Body(r) /\ meta'[r] = PutMeta(r) /\ pc'[r] = "trunc"
      BY <1>4, <1>t, <2>1 DEF Rename, Goto, TmpName
    <2>3. Changes(r)'
      BY <1>1, <2>2 DEF Changes, Running, Ended
    <2> QED
      BY <1>2, <2>2, <2>3 DEF PutWork
  <1>5. CASE Truncate(r)
    <2>1. pc[r] = "trunc" /\ file[k] = Body(r) /\ meta[r] = PutMeta(r)
      BY <1>1, <1>5, Labelled DEF PutWork
    <2>2. TruncateMeta(r, "write")
      BY <1>2, <1>5, <2>1 DEF Truncate
    <2>3. /\ file' = file /\ meta' = meta /\ side'[k] = NoMeta /\ r \in linked' /\ pc'[r] = "write"
      BY <1>1, <1>t, <2>2 DEF TruncateMeta, Goto, local
    <2>4. Changes(r)'
      BY <1>1, <2>3 DEF Changes, Running, Ended
    <2> QED
      BY <1>2, <2>1, <2>3, <2>4 DEF PutWork
  <1>6. CASE Write(r)
    <2>1. /\ pc[r] = "write" /\ file[k] = Body(r) /\ meta[r] = PutMeta(r) /\ side[k] = NoMeta
          /\ r \in linked
      BY <1>1, <1>6, Labelled DEF PutWork
    <2>2. file' = file /\ meta' = meta /\ FillMeta(r) /\ pc'[r] = "stat"
      BY <1>6, <1>t DEF Write, Goto, local
    <2>3. side'[k] = PutMeta(r)
      BY <1>1, <1>2, <1>t, <2>1, <2>2, WrittenWhole DEF FillMeta
    <2>4. Changes(r)'
      BY <1>1, <2>2 DEF Changes, Running, Ended
    <2> QED
      BY <1>2, <2>1, <2>2, <2>3, <2>4 DEF PutWork
  <1>7. CASE StatTarget(r)
    <2>1. /\ pc[r] = "stat" /\ file[k] = Body(r) /\ meta[r] = PutMeta(r) /\ side[k] = PutMeta(r)
      BY <1>1, <1>7, Labelled DEF PutWork
    <2>2. /\ file' = file /\ meta' = meta /\ side' = side
          /\ cur'[r] = RowOf(file[k].n, meta[r]) /\ pc'[r] = "upsert"
      BY <1>1, <1>2, <1>7, <1>t, <2>1 DEF StatTarget, Goto, File, disk
    <2>3. Changes(r)'
      BY <1>1, <2>2 DEF Changes, Running, Ended
    <2> QED
      BY <1>2, <2>1, <2>2, <2>3 DEF PutWork, FullRow
  <1>8. CASE Upsert(r)
    <2>1. /\ pc[r] = "upsert" /\ file[k] = Body(r) /\ side[k] = PutMeta(r) /\ cur[r] = FullRow(k)
      BY <1>1, <1>8, Labelled DEF PutWork
    <2>2. file' = file /\ side' = side /\ row'[k] = FullRow(k) /\ pc'[r] = "ok"
      BY <1>8, <1>t, <2>1 DEF Upsert, End, Goto, disk
    <2>3. FullRow(k) # None
      BY <1>1, <1>t, <2>1, NoneApart, <1>2, RowOfType DEF FullRow, Blobs
    <2>4. Tells(k, side[k])'
      BY <1>2, <2>1, <2>2, <2>3, RowOfFields DEF Tells, Fits, FullRow
    <2> QED
      BY <2>2, <2>4 DEF PutWork
  <1> QED
    BY <1>3, <1>4, <1>5, <1>6, <1>7, <1>8, StepOf

-----------------------------------------------------------------------------
(* The own steps of an ACL change.                                           *)

LEMMA AclSteps ==
  ASSUME TypeInv, ApartInv, NEW r \in Requests, Step(r), req[r].op = "acl",
         NEW k \in Keys, k = req[r].key
  PROVE  (Running(r)' => AclWork(r, k)') /\ (~Changes(r)' => Tells(k, side[k])')
  <1>1. /\ Running(r) /\ req'[r] = req[r] /\ req[r] \in Calls /\ ~Walker(r) /\ KeyOf(r) = k
        /\ AclWork(r, k) /\ (~Changes(r) => Tells(k, side[k])) /\ req[r].public \in BOOLEAN
    <2>1. Running(r) /\ req' = req /\ req[r] \in Calls /\ ~Walker(r)
      BY StepOf, StepFrame DEF Walker, Walkers
    <2> QED
      BY <2>1, CallFields, WorksOn, Story DEF ApartInv, Working, Work
  <1>t. /\ file \in [Keys -> Blobs \cup {None}] /\ side \in [Keys -> Metas]
        /\ row \in [Keys -> Rows \cup {None}] /\ pc \in [Requests -> Labels]
        /\ meta \in [Requests -> Metas] /\ cur \in [Requests -> Rows \cup {None}]
    BY DEF TypeInv, TypeOK
  <1>c. /\ pc[r] # "ifdWrite" /\ (pc'[r] \in {"write", "getrow", "ifdStat", "ifdMeta", "upsert"}
                                    => Changes(r)')
        /\ pc[r] \notin {"write", "getrow", "ifdStat", "ifdMeta", "upsert"} => Tells(k, side[k])
    BY <1>1 DEF Changes, Running, Ended, AclWork
  <1>2. CASE IsFile(r)
    <2>1. /\ file' = file /\ side' = side /\ row' = row /\ pc[r] = "isfile"
          /\ pc'[r] = IF file[k] = None THEN "notfound" ELSE "readmeta"
      BY <1>1, <1>2, <1>t DEF IsFile, Goto, At, disk, File
    <2>2. Tells(k, side[k])'
      BY <1>c, <2>1 DEF Tells, Fits
    <2> QED
      BY <2>1, <2>2 DEF AclWork, Running, Ended
  <1>3. CASE ReadMeta(r)
    <2>1. /\ file' = file /\ side' = side /\ row' = row /\ pc[r] = "readmeta" /\ pc'[r] = "trunc"
          /\ meta'[r] = [side[k] EXCEPT !.public = req[r].public]
      BY <1>1, <1>3, <1>t DEF ReadMeta, Goto, At, disk
    <2>2. Tells(k, side[k])'
      BY <1>c, <2>1 DEF Tells, Fits
    <2> QED
      BY <1>1, <2>1, <2>2 DEF AclWork
  <1>4. CASE Truncate(r)
    <2>1. /\ pc[r] = "trunc" /\ file[k] # None /\ Tells(k, side[k])
          /\ meta[r] = [side[k] EXCEPT !.public = req[r].public]
      BY <1>1, <1>4, <1>c, Labelled DEF AclWork
    <2>2. /\ meta[r].public = req[r].public /\ meta[r].etag = side[k].etag
          /\ meta[r].ct = side[k].ct
      BY <1>t, <2>1, MetaSet
    <2>3. /\ meta[r].etag \in {Hash(file[k]), None}
          /\ IF row[k] = None THEN meta[r].etag # None
             ELSE Fits([row[k] EXCEPT !.public = req[r].public], k, meta[r])
      <3>1. ASSUME row[k] # None
            PROVE  Fits([row[k] EXCEPT !.public = req[r].public], k, meta[r])
        <4>1. Fits(row[k], k, side[k]) /\ row[k] \in Rows
          BY <1>t, <2>1, <3>1 DEF Tells
        <4> QED
          BY <2>2, <4>1, RowSet DEF Fits
      <3> QED
        BY <2>1, <2>2, <3>1 DEF Tells
    <2>4. \/ UnlinkMeta(r, "getrow") /\ meta[r] = NoMeta
          \/ TruncateMeta(r, "write")
      BY <1>4 DEF Truncate
    <2>5. /\ file' = file /\ row' = row /\ meta' = meta
          /\ \/ pc'[r] = "write" /\ side'[k] = NoMeta /\ r \in linked'
             \/ pc'[r] = "getrow" /\ side'[k] = meta[r]
      BY <1>1, <1>t, <2>4 DEF TruncateMeta, UnlinkMeta, Goto, local
    <2>6. Fits([row[k] EXCEPT !.public = req[r].public], k, meta[r])'
            <=> Fits([row[k] EXCEPT !.public = req[r].public], k, meta[r])
      BY <1>1, <2>5 DEF Fits
    <2> QED
      BY <1>1, <1>c, <2>1, <2>2, <2>3, <2>5, <2>6 DEF AclWork
  <1>5. CASE Write(r)
    <2>1. /\ pc[r] = "write" /\ side[k] = NoMeta /\ r \in linked
      BY <1>1, <1>5, Labelled DEF AclWork
    <2>2. file' = file /\ row' = row /\ meta' = meta /\ FillMeta(r) /\ pc'[r] = "getrow"
      BY <1>5, <1>t DEF Write, Goto, local
    <2>3. side'[k] = meta[r]
      BY <1>1, <1>t, <2>1, <2>2, WrittenWhole DEF FillMeta
    <2>4. Fits([row[k] EXCEPT !.public = req[r].public], k, meta[r])'
            <=> Fits([row[k] EXCEPT !.public = req[r].public], k, meta[r])
      BY <1>1, <2>2 DEF Fits
    <2> QED
      BY <1>1, <1>c, <2>1, <2>2, <2>3, <2>4 DEF AclWork
  <1>6. CASE GetRow(r)
    <2>1. pc[r] = "getrow" /\ side[k] = meta[r]
      BY <1>1, <1>6, Labelled DEF AclWork
    <2>a. file' = file /\ row' = row /\ meta' = meta /\ side' = side
      BY <1>6 DEF GetRow, disk
    <2>b. row[k] = None => pc'[r] = "ifdStat"
      BY <1>1, <1>6, <1>t DEF GetRow, Goto
    <2>c. row[k] # None =>
            /\ pc' = [pc EXCEPT ![r] = "upsert"]
            /\ cur' = [cur EXCEPT ![r] = [row[k] EXCEPT !.public = req[r].public]]
      BY <1>1, <1>6 DEF GetRow, Goto
    <2>d. row[k] # None =>
            pc'[r] = "upsert" /\ cur'[r] = [row[k] EXCEPT !.public = req[r].public]
      BY <1>t, <2>c
    <2>2. /\ file' = file /\ row' = row /\ meta' = meta /\ side' = side
          /\ \/ row[k] = None /\ pc'[r] = "ifdStat"
             \/ /\ row[k] # None /\ pc'[r] = "upsert"
                /\ cur'[r] = [row[k] EXCEPT !.public = req[r].public]
      BY <2>a, <2>b, <2>d
    <2>3. /\ Fits([row[k] EXCEPT !.public = req[r].public], k, meta[r])'
               <=> Fits([row[k] EXCEPT !.public = req[r].public], k, meta[r])
          /\ pc'[r] = "upsert" => (Fits(cur[r], k, side[k])'
               <=> Fits([row[k] EXCEPT !.public = req[r].public], k, meta[r]))
      BY <1>1, <2>1, <2>2 DEF Fits
    <2> QED
      BY <1>1, <1>c, <2>1, <2>2, <2>3 DEF AclWork
  <1>7. CASE IfdStat(r)
    <2>1. pc[r] = "ifdStat" /\ side[k] = meta[r] /\ row[k] = None /\ file[k] # None
      BY <1>1, <1>7, Labelled DEF AclWork
    <2>2. /\ file' = file /\ row' = row /\ meta' = meta /\ side' = side
          /\ pc'[r] = "ifdMeta" /\ cur'[r].size = file[k].n
      BY <1>1, <1>7, <1>t, <2>1, RowOfFields DEF IfdStat, Goto, File, disk
    <2> QED
      BY <1>1, <1>c, <2>1, <2>2 DEF AclWork
  <1>8. CASE IfdMeta(r)
    <2>1. /\ pc[r] = "ifdMeta" /\ side[k] = meta[r] /\ row[k] = None /\ file[k] # None
          /\ cur[r].size = file[k].n /\ meta[r].etag = Hash(file[k]) /\ meta[r].etag # None
          /\ meta[r].public = req[r].public
      BY <1>1, <1>8, Labelled DEF AclWork
    <2>2. /\ file' = file /\ row' = row /\ side' = side /\ meta'[r] = side[k]
          /\ Indexed(r, side[k])
      BY <1>1, <1>8, <1>t, <2>1 DEF IfdMeta, disk
    <2>3. /\ pc'[r] = "upsert"
          /\ cur'[r] = [RowOf(cur[r].size, side[k]) EXCEPT !.public = req[r].public]
      BY <1>1, <1>t, <2>2 DEF Indexed, Goto
    <2>4. cur[r] \in Rows /\ RowOf(cur[r].size, side[k]) \in Rows
      <3>1. cur[r] \in Rows
        BY <1>t, <2>1 DEF TypeInv, Placed, Place
      <3> QED
        BY <1>t, <3>1, RowFields, RowOfType
    <2>5. Fits(cur[r], k, side[k])'
      BY <1>t, <2>1, <2>2, <2>3, <2>4, RowSet, RowOfFields DEF Fits
    <2> QED
      BY <1>1, <1>c, <2>1, <2>2, <2>3, <2>5 DEF AclWork
  <1>9. CASE Upsert(r)
    <2>1. /\ pc[r] = "upsert" /\ file[k] # None /\ Fits(cur[r], k, side[k])
          /\ side[k].etag \in {Hash(file[k]), None}
      BY <1>1, <1>9, Labelled DEF AclWork
    <2>2. file' = file /\ side' = side /\ row'[k] = cur[r] /\ pc'[r] = "ok"
      BY <1>1, <1>9, <1>t DEF Upsert, End, Goto, disk
    <2>3. cur[r] # None
      BY <2>1 DEF TypeInv, Placed, Place
    <2>4. Tells(k, side[k])'
      BY <2>1, <2>2, <2>3 DEF Tells, Fits
    <2> QED
      BY <2>2, <2>4 DEF Running, Ended
  <1> QED
    BY <1>1, <1>2, <1>3, <1>4, <1>5, <1>6, <1>7, <1>8, <1>9, StepOf, Labelled DEF AclWork

-----------------------------------------------------------------------------
(* A DELETE's own steps.                                                     *)

LEMMA DeleteSteps ==
  ASSUME TypeInv, ApartInv, NEW r \in Requests, Step(r), req[r].op = "delete",
         NEW k \in Keys, k = req[r].key
  PROVE  DeleteWork(r, k)' /\ (~Changes(r)' => Tells(k, side[k])')
  <1>1. /\ Running(r) /\ req'[r] = req[r] /\ ~Walker(r) /\ KeyOf(r) = k /\ DeleteWork(r, k)
    <2>1. Running(r) /\ req' = req /\ req[r] \in Calls /\ ~Walker(r)
      BY StepOf, StepFrame DEF Walker, Walkers
    <2> QED
      BY <2>1, WorksOn DEF ApartInv, Working, Work
  <1>t. /\ file \in [Keys -> Blobs \cup {None}] /\ side \in [Keys -> Metas]
        /\ row \in [Keys -> Rows \cup {None}] /\ pc \in [Requests -> Labels]
    BY DEF TypeInv, TypeOK
  <1>c. pc'[r] \in {"rmside", "rmrow"} => Changes(r)'
    BY <1>1 DEF Changes, Running, Ended
  <1>2. CASE RemoveFile(r)
    <2>1. file'[k] = None /\ pc'[r] = "rmside"
      BY <1>1, <1>2, <1>t DEF RemoveFile, Goto
    <2> QED
      BY <1>c, <2>1 DEF DeleteWork
  <1>3. CASE RemoveMeta(r)
    <2>1. pc[r] = "rmside" /\ file[k] = None
      BY <1>1, <1>3, Labelled DEF DeleteWork
    <2>2. file' = file /\ side'[k] = NoMeta /\ pc'[r] = "rmrow"
      BY <1>1, <1>3, <1>t DEF RemoveMeta, UnlinkMeta, Goto
    <2> QED
      BY <1>c, <2>1, <2>2 DEF DeleteWork
  <1>4. CASE RemoveRow(r)
    <2>1. pc[r] = "rmrow" /\ file[k] = None /\ side[k] = NoMeta
      BY <1>1, <1>4, Labelled DEF DeleteWork
    <2>2. file' = file /\ side' = side /\ row'[k] = None /\ pc'[r] = "ok"
      BY <1>1, <1>4, <1>t DEF RemoveRow, End, Goto, disk
    <2> QED
      BY <2>1, <2>2 DEF DeleteWork, Tells
  <1> QED
    BY <1>2, <1>3, <1>4, StepOf

-----------------------------------------------------------------------------
(* The own steps of a GET, signed or not.                                    *)

LEMMA GetSteps ==
  ASSUME TypeInv, ApartInv, NEW r \in Requests, Step(r), req[r].op \in {"get", "anon"},
         NEW k \in Keys, k = req[r].key
  PROVE  Running(r)' => GetWork(r, k)'
  <1>1. /\ Running(r) /\ req'[r] = req[r] /\ ~Walker(r) /\ KeyOf(r) = k
        /\ GetWork(r, k) /\ Tells(k, side[k])
    <2>1. Running(r) /\ req' = req /\ req[r] \in Calls /\ ~Walker(r)
      BY StepOf, StepFrame DEF Walker, Walkers
    <2>2. KeyOf(r) = k /\ Work(r)
      BY <2>1, WorksOn DEF ApartInv, Working
    <2>3. GetWork(r, k) /\ ~Changes(r)
      BY <2>2 DEF Work, GetWork, Changes
    <2> QED
      BY <2>1, <2>2, <2>3, Story
  <1>t. /\ file \in [Keys -> Blobs \cup {None}] /\ side \in [Keys -> Metas]
        /\ row \in [Keys -> Rows \cup {None}] /\ pc \in [Requests -> Labels]
        /\ fd \in [Requests -> Blobs \cup {None}] /\ cur \in [Requests -> Rows \cup {None}]
    BY DEF TypeInv, TypeOK
  <1>2. CASE IsPublic(r)
    <2>1. /\ file' = file /\ side' = side /\ pc[r] = "public"
          /\ \/ pc'[r] = "publicMeta"
             \/ pc'[r] = "open" /\ row[k] # None /\ row[k].public
             \/ pc'[r] = "denied"
      BY <1>1, <1>2, <1>t DEF IsPublic, Goto, At, disk
    <2>2. row[k] # None /\ row[k].public => file[k] # None /\ side[k].public
      BY <1>1 DEF Tells, Fits
    <2> QED
      BY <1>1, <2>1, <2>2 DEF GetWork, Running, Ended
  <1>3. CASE IsPublicOnDisk(r)
    <2>1. /\ file' = file /\ side' = side
          /\ \/ pc'[r] = "open" /\ side[k].public
             \/ pc'[r] = "denied"
      BY <1>1, <1>3, <1>t DEF IsPublicOnDisk, Goto, disk
    <2>2. side[k].public => file[k] # None
      BY <1>1 DEF Tells, NoMeta
    <2> QED
      BY <1>1, <2>1, <2>2 DEF GetWork, Running, Ended
  <1>4. CASE Open(r)
    <2>1. /\ file' = file /\ side' = side /\ fd'[r] = file[k] /\ pc[r] = "open"
          /\ pc'[r] = IF file[k] = None THEN "notfound" ELSE "getrow"
      BY <1>1, <1>4, <1>t DEF Open, Goto, At, disk, File
    <2> QED
      BY <1>1, <2>1 DEF GetWork, Running, Ended
  <1>5. CASE GetRow(r)
    <2>1. /\ file' = file /\ side' = side /\ row' = row /\ fd' = fd /\ pc[r] = "getrow"
          /\ \/ row[k] = None /\ pc'[r] = "ifdStat"
             \/ row[k] # None /\ cur'[r] = row[k] /\ pc'[r] \in {"hash", "ok"}
      BY <1>1, <1>5, <1>t DEF GetRow, Goto, At, disk
    <2>2. file[k] # None
      BY <1>1, <2>1 DEF GetWork
    <2> QED
      BY <1>1, <2>1, <2>2 DEF GetWork, Tells, Fits, Running, Ended
  <1>6. CASE IfdStat(r)
    <2>1. pc[r] = "ifdStat" /\ file[k] # None
      BY <1>1, <1>6, Labelled DEF GetWork
    <2>2. /\ file' = file /\ side' = side /\ row' = row /\ fd' = fd
          /\ cur'[r].size = file[k].n /\ pc'[r] = "ifdMeta"
      BY <1>1, <1>6, <1>t, <2>1, RowOfFields DEF IfdStat, Goto, File, disk
    <2> QED
      BY <1>1, <2>1, <2>2 DEF GetWork
  <1>7. CASE IfdMeta(r)
    <2>1. /\ pc[r] = "ifdMeta" /\ file[k] # None /\ side[k].etag # None
          /\ cur[r].size = file[k].n
      BY <1>1, <1>7, Labelled DEF GetWork
    <2>2. file' = file /\ side' = side /\ row' = row /\ fd' = fd /\ Indexed(r, side[k])
      BY <1>1, <1>7, <2>1 DEF IfdMeta, disk
    <2>3. pc'[r] = "upsert" /\ cur'[r] = RowOf(cur[r].size, side[k])
      BY <1>1, <1>t, <2>2 DEF Indexed, Goto
    <2> QED
      BY <1>1, <2>1, <2>2, <2>3 DEF GetWork, FullRow
  <1>8. CASE HashFile(r)
    <2>1. /\ pc[r] = "hash" /\ file[k] # None /\ row[k] # None /\ Fits(cur[r], k, side[k])
          /\ cur[r] \in Rows
      BY <1>1, <1>8, <1>t, Labelled DEF GetWork, TypeInv, Placed, Place
    <2>2. /\ file' = file /\ side' = side /\ row' = row /\ fd' = fd /\ pc'[r] = "settag"
          /\ cur' = [cur EXCEPT ![r].etag = Hash(file[k])]
      BY <1>1, <1>8, <1>t, <2>1 DEF HashFile, Goto, File, disk
    <2>3. cur'[r] = [cur[r] EXCEPT !.etag = Hash(file[k])]
      BY <1>t, <2>2
    <2>4. Fits(cur[r], k, side[k])' /\ cur'[r].etag = Hash(file[k])
      <3>1. /\ cur'[r].etag = Hash(file[k]) /\ cur'[r].ct = cur[r].ct
            /\ cur'[r].size = cur[r].size /\ cur'[r].public = cur[r].public
        BY <2>1, <2>3, RowSet
      <3> QED
        BY <2>1, <2>2, <3>1 DEF Fits
    <2> QED
      BY <1>1, <2>1, <2>2, <2>4 DEF GetWork
  <1>9. CASE SetETag(r) \/ Upsert(r)
    <2>1. pc'[r] = "ok"
      BY <1>9, <1>t DEF SetETag, Upsert, End, Goto
    <2> QED
      BY <2>1 DEF Running, Ended
  <1> QED
    BY <1>1, <1>2, <1>3, <1>4, <1>5, <1>6, <1>7, <1>8, <1>9, StepOf, Labelled DEF GetWork

\* Neither a GET nor a listing takes a story away.
LEMMA ReadStories ==
  ASSUME TypeInv, ApartInv, NEW r \in Requests, Step(r), req[r].op \in Readers,
         NEW k \in Keys, Mine(r, k)
  PROVE  Tells(k, side[k])'
  <1>1. Running(r) /\ Work(r)
    BY StepOf DEF ApartInv, Working
  <1>2. ~Changes(r)
    BY <1>1 DEF Readers, Work, GetWork, WalkWork, Changes, Walkers
  <1> QED
    BY <1>1, <1>2, Story, ReadLeaves, ServedTells DEF Mine

-----------------------------------------------------------------------------
(* The own steps of a walk: a listing, a reindex or the startup pass.        *)

Stories(r) == \A k \in Keys : ~(Changes(r) /\ KeyOf(r) = k) => Tells(k, side[k])

LEMMA WalkBasics ==
  ASSUME TypeInv, ApartInv, NEW r \in Requests, Step(r), Walker(r)
  PROVE  /\ Running(r) /\ req'[r] = req[r] /\ req[r].op \in Walkers
         /\ WalkWork(r) /\ Stories(r) /\ scan[r] \in Scans
         /\ KeyOf(r) = scan[r].at /\ KeyOf(r)' = scan'[r].at
         /\ Changes(r) <=> pc[r] = "ifdWrite"
         /\ Changes(r)' <=> pc'[r] = "ifdWrite"
  <1>1. Running(r) /\ req'[r] = req[r] /\ req[r].op \in Walkers
    BY StepOf, StepFrame DEF Walker
  <1>2. WalkWork(r) /\ Stories(r)
    BY <1>1, Story DEF ApartInv, Working, Work, Stories
  <1>3. scan[r] \in Scans
    BY DEF TypeInv, TypeOK
  <1> QED
    BY <1>1, <1>2, <1>3 DEF KeyOf, Walker, Changes, Walkers, Running, Ended

LEMMA WalkStarts ==
  ASSUME TypeInv, ApartInv, NEW r \in Requests, Step(r), Walker(r),
         HasRows(r) \/ HasFiles(r) \/ Query(r) \/ Lock(r) \/ ReadIndex(r) \/ ReadDir(r)
  PROVE  (Running(r)' => WalkWork(r)') /\ Stories(r)'
  <1>0. /\ Running(r) /\ req'[r] = req[r] /\ WalkWork(r) /\ Stories(r) /\ scan[r] \in Scans
        /\ KeyOf(r) = scan[r].at /\ KeyOf(r)' = scan'[r].at
        /\ Changes(r) <=> pc[r] = "ifdWrite"
        /\ Changes(r)' <=> pc'[r] = "ifdWrite"
    BY WalkBasics
  <1>t. /\ pc \in [Requests -> Labels] /\ scan \in [Requests -> Scans]
    BY DEF TypeInv, TypeOK
  <1>1. /\ file' = file /\ side' = side /\ row' = row
        /\ pc[r] \in {"hasrows", "hasfiles", "query", "lock", "existing", "readdir"}
        /\ pc'[r] \in {"hasfiles", "query", "ok", "lock", "existing", "readdir", "walk"}
    BY <1>t DEF HasRows, HasFiles, Query, Lock, ReadIndex, ReadDir, At, Goto, End, disk
  <1>2. (\A k \in Keys : Tells(k, side[k])) /\ Stories(r)'
    <2>1. \A k \in Keys : Tells(k, side[k])
      BY <1>0, <1>1 DEF Stories
    <2> QED
      BY <1>0, <1>1, <2>1 DEF Stories, Tells, Fits
  <1>3. ASSUME HasRows(r) PROVE Running(r)' => WalkWork(r)'
    <2>1. /\ pc[r] = "hasrows" /\ scan' = scan
          /\ pc'[r] = IF \E k \in Keys : row[k] # None THEN "query" ELSE "hasfiles"
      BY <1>t, <1>3 DEF HasRows, At, Goto, local
    <2>2. (\A k \in Keys : row[k] = None) => \A k \in Keys : file[k] # None => side[k].etag # None
      BY <1>2 DEF Tells
    <2> QED
      BY <1>0, <1>1, <2>1, <2>2 DEF WalkWork, InIndexFromDisk
  <1>4. ASSUME HasFiles(r) PROVE Running(r)' => WalkWork(r)'
    <2>1. /\ pc[r] = "hasfiles" /\ scan' = scan
          /\ pc'[r] = IF \E k \in Keys : file[k] # None THEN "lock" ELSE "query"
      BY <1>t, <1>4 DEF HasFiles, At, Goto, local
    <2> QED
      BY <1>0, <1>1, <2>1 DEF WalkWork, InIndexFromDisk
  <1>5. ASSUME Query(r) PROVE Running(r)' => WalkWork(r)'
    BY <1>t, <1>5 DEF Query, End, Goto, Running, Ended
  <1>6. ASSUME Lock(r) PROVE Running(r)' => WalkWork(r)'
    <2>1. pc[r] = "lock" /\ scan' = scan /\ pc'[r] = "existing"
      BY <1>t, <1>6 DEF Lock, At, Goto, local
    <2> QED
      BY <1>0, <1>1, <2>1 DEF WalkWork, InIndexFromDisk
  <1>7. ASSUME ReadIndex(r) PROVE Running(r)' => WalkWork(r)'
    <2>1. /\ pc[r] = "existing" /\ pc'[r] = "readdir"
          /\ scan' = [scan EXCEPT ![r] = [scan[r] EXCEPT !.existing = row]]
      BY <1>t, <1>7 DEF ReadIndex, At, Goto
    <2>2. scan'[r] = [scan[r] EXCEPT !.existing = row]
      BY <1>t, <2>1
    <2>3. /\ scan'[r].existing = row /\ scan'[r].seen = scan[r].seen
          /\ scan'[r].upserts = scan[r].upserts
      BY <1>0, <2>2 DEF Scans
    <2>4. \A k \in Keys : row[k] # None => file[k] # None
      BY <1>2 DEF Tells
    <2> QED
      BY <1>0, <1>1, <2>1, <2>3, <2>4 DEF WalkWork, InIndexFromDisk
  <1>8. ASSUME ReadDir(r) PROVE Running(r)' => WalkWork(r)'
    <2>1. /\ pc[r] = "readdir" /\ pc'[r] = "walk"
          /\ scan' = [scan EXCEPT ![r] = [scan[r] EXCEPT !.names = {k \in Keys : file[k] # None}]]
      BY <1>t, <1>8 DEF ReadDir, At, Goto
    <2>2. scan'[r] = [scan[r] EXCEPT !.names = {k \in Keys : file[k] # None}]
      BY <1>t, <2>1
    <2>3. /\ scan'[r].existing = scan[r].existing /\ scan'[r].seen = scan[r].seen
          /\ scan'[r].upserts = scan[r].upserts /\ scan'[r].names = {k \in Keys : file[k] # None}
      BY <1>0, <2>2 DEF Scans
    <2>4. scan'[r].seen = {} /\ Done(r)' = {}
      BY <1>0, <2>1, <2>3 DEF WalkWork, Done
    <2> QED
      BY <1>0, <1>1, <2>1, <2>3, <2>4 DEF WalkWork, InIndexFromDisk
  <1> QED
    BY <1>2, <1>3, <1>4, <1>5, <1>6, <1>7, <1>8

\* A walk takes up a key: the next one to visit, and where it goes from there.
TakesUp(r, k) ==
  /\ scan' = [scan EXCEPT ![r] = [scan[r] EXCEPT !.names = @ \ {k}, !.seen = @ \cup {k}, !.at = k]]
  /\ Goto(r, IF UpToDate(r, k) THEN "walk" ELSE "ifdStat")

LEMMA VisitCases ==
  ASSUME NEW r \in Requests, Visit(r)
  PROVE  /\ pc[r] = "walk" /\ file' = file /\ side' = side /\ row' = row
         /\ scan[r].names = {} => Goto(r, "apply") /\ scan' = scan
         /\ scan[r].names # {} =>
              \E k \in scan[r].names : IF file[k] = None THEN End(r, "error") ELSE TakesUp(r, k)
  <1>1. /\ pc[r] = "walk" /\ file' = file /\ side' = side /\ row' = row
        /\ scan[r].names = {} => Goto(r, "apply") /\ scan' = scan
    BY Zenon DEF Visit, At, disk
  <1>2. ASSUME scan[r].names # {}
        PROVE  \E k \in scan[r].names : IF file[k] = None THEN End(r, "error") ELSE TakesUp(r, k)
    <2>1. PICK k \in scan[r].names :
            IF file[k] = None
              THEN End(r, "error") /\ UNCHANGED scan
              ELSE /\ scan' = [scan EXCEPT ![r].names = @ \ {k}, ![r].seen = @ \cup {k},
                                           ![r].at = k]
                   /\ Goto(r, IF UpToDate(r, k) THEN "walk" ELSE "ifdStat")
                   /\ UNCHANGED lock
      BY Zenon, <1>2 DEF Visit
    <2>2. file[k] = None => End(r, "error")
      BY <2>1
    <2>3. file[k] # None => TakesUp(r, k)
      BY <2>1 DEF TakesUp
    <2> QED
      BY <2>2, <2>3
  <1> QED
    BY <1>1, <1>2

LEMMA WalkVisits ==
  ASSUME TypeInv, ApartInv, NEW r \in Requests, Step(r), Walker(r), Visit(r)
  PROVE  (Running(r)' => WalkWork(r)') /\ Stories(r)'
  <1>0. /\ Running(r) /\ req'[r] = req[r] /\ WalkWork(r) /\ Stories(r) /\ scan[r] \in Scans
        /\ KeyOf(r) = scan[r].at /\ KeyOf(r)' = scan'[r].at
        /\ Changes(r) <=> pc[r] = "ifdWrite"
        /\ Changes(r)' <=> pc'[r] = "ifdWrite"
    BY WalkBasics
  <1>t. /\ pc \in [Requests -> Labels] /\ scan \in [Requests -> Scans]
    BY DEF TypeInv, TypeOK
  <1>1. /\ file' = file /\ side' = side /\ row' = row /\ pc[r] = "walk"
        /\ pc'[r] \in {"walk", "apply", "ifdStat", "error"}
    <2>1. Goto(r, "apply") \/ End(r, "error") \/ \E k \in scan[r].names : TakesUp(r, k)
      BY VisitCases
    <2>2. \A k : TakesUp(r, k) => Goto(r, "walk") \/ Goto(r, "ifdStat")
      BY DEF TakesUp
    <2>3. Goto(r, "apply") \/ Goto(r, "error") \/ Goto(r, "walk") \/ Goto(r, "ifdStat")
      BY <2>1, <2>2 DEF End
    <2> QED
      BY <1>t, <2>3, VisitCases DEF Goto
  <1>2. Stories(r)'
    <2>1. \A k \in Keys : Tells(k, side[k])
      BY <1>0, <1>1 DEF Stories
    <2> QED
      BY <1>0, <1>1, <2>1 DEF Stories, Tells, Fits
  <1>3. CASE scan[r].names = {}
    <2>1. scan' = scan /\ pc'[r] = "apply"
      BY <1>3, <1>t, VisitCases DEF Goto
    <2>2. Done(r)' = Done(r)
      BY <1>1, <2>1 DEF Done, InIndexFromDisk
    <2>3. WalkWork(r)'
      BY <1>0, <1>1, <1>3, <2>1, <2>2 DEF WalkWork, InIndexFromDisk, FullRow
    <2> QED
      BY <1>2, <2>3
  <1>4. CASE scan[r].names # {}
    <2>1. PICK k \in scan[r].names : IF file[k] = None THEN End(r, "error") ELSE TakesUp(r, k)
      BY <1>4, VisitCases
    <2>2. k \in Keys /\ file[k] # None /\ k \notin scan[r].seen
      <3>1. scan[r].names \subseteq Keys
        BY <1>0, ScanFields
      <3> QED
        BY <1>0, <1>1, <3>1 DEF WalkWork
    <2>3. /\ scan' = [scan EXCEPT ![r] =
                        [scan[r] EXCEPT !.names = @ \ {k}, !.seen = @ \cup {k}, !.at = k]]
          /\ pc'[r] = IF UpToDate(r, k) THEN "walk" ELSE "ifdStat"
      BY <1>t, <2>1, <2>2 DEF Goto, TakesUp
    <2>4. scan'[r] = [scan[r] EXCEPT !.names = @ \ {k}, !.seen = @ \cup {k}, !.at = k]
      BY <1>t, <2>3
    <2>5. /\ scan'[r].existing = scan[r].existing /\ scan'[r].seen = scan[r].seen \cup {k}
          /\ scan'[r].upserts = scan[r].upserts /\ scan'[r].names = scan[r].names \ {k}
          /\ scan'[r].at = k
      BY <1>0, <2>4 DEF Scans
    <2>6. /\ Done(r) = scan[r].seen
          /\ pc'[r] = "walk" => Done(r)' = scan[r].seen \cup {k} /\ row[k] # None
          /\ pc'[r] = "ifdStat" => Done(r)' = scan[r].seen
      <3>1. Done(r) = scan[r].seen
        BY <1>1 DEF Done, InIndexFromDisk
      <3>2. UpToDate(r, k) => row[k] # None
        BY <1>0, <1>1, <2>2 DEF UpToDate, WalkWork
      <3>3. pc'[r] = "walk" => Done(r)' = scan[r].seen \cup {k} /\ row[k] # None
        BY <2>3, <2>5, <3>2 DEF Done, InIndexFromDisk
      <3>4. pc'[r] = "ifdStat" => Done(r)' = scan[r].seen
        BY <2>2, <2>5 DEF Done, InIndexFromDisk
      <3> QED
        BY <3>1, <3>3, <3>4
    <2>7. WalkWork(r)'
      <3>1. /\ scan'[r].names \cap scan'[r].seen = {}
            /\ \A j \in Keys : file[j] # None <=> j \in scan'[r].names \cup scan'[r].seen
        BY <1>0, <1>1, <2>1, <2>2, <2>5 DEF WalkWork
      <3>2. /\ \A j \in Keys : scan'[r].upserts[j] # None =>
                 j \in Done(r)' /\ scan'[r].upserts[j] = FullRow(j)' /\ side[j].etag # None
            /\ \A j \in Done(r)' : scan'[r].upserts[j] # None \/ row[j] # None
        BY <1>0, <1>1, <2>3, <2>5, <2>6 DEF WalkWork, FullRow
      <3>3. /\ \A j \in Keys : scan'[r].existing[j] # None => row[j] # None /\ file[j] # None
            /\ req[r].op = "list" => \A j \in Keys : file[j] # None => side[j].etag # None
            /\ k \in scan'[r].seen
        BY <1>0, <1>1, <2>5 DEF WalkWork
      <3> QED
        BY <1>0, <1>1, <2>3, <2>5, <3>1, <3>2, <3>3 DEF WalkWork, InIndexFromDisk
    <2> QED
      BY <1>2, <2>7
  <1> QED
    BY <1>3, <1>4

\* The row a walk collected is the last thing it changed of its progress.
LEMMA Collected ==
  ASSUME NEW z \in Scans, NEW at \in Keys, NEW w
  PROVE  LET y == [z EXCEPT !.upserts[at] = w] IN
         /\ y.existing = z.existing /\ y.names = z.names /\ y.seen = z.seen /\ y.at = z.at
         /\ y.upserts = [z.upserts EXCEPT ![at] = w]
         /\ y.upserts[at] = w /\ \A k \in Keys \ {at} : y.upserts[k] = z.upserts[k]
  BY DEF Scans

LEMMA WalkReads ==
  ASSUME TypeInv, ApartInv, NEW r \in Requests, Step(r), Walker(r),
         IfdStat(r) \/ IfdHash(r) \/ IfdTruncate(r)
  PROVE  WalkWork(r)' /\ Stories(r)'
  <1>0. /\ Running(r) /\ req'[r] = req[r] /\ WalkWork(r) /\ Stories(r) /\ scan[r] \in Scans
        /\ KeyOf(r) = scan[r].at /\ KeyOf(r)' = scan'[r].at
        /\ Changes(r) <=> pc[r] = "ifdWrite"
        /\ Changes(r)' <=> pc'[r] = "ifdWrite"
    BY WalkBasics
  <1>t. /\ pc \in [Requests -> Labels] /\ scan \in [Requests -> Scans]
        /\ meta \in [Requests -> Metas] /\ side \in [Keys -> Metas]
        /\ cur \in [Requests -> Rows \cup {None}]
    BY DEF TypeInv, TypeOK
  <1>1. PICK at \in Keys : at = scan[r].at
    BY <1>0, KeyOfType, Labelled DEF InIndexFromDisk, InLock
  <1>2. /\ pc[r] \in {"ifdStat", "ifdHash", "ifdTrunc"} /\ at \in scan[r].seen
        /\ file[at] # None /\ Tells(at, side[at])
    <2>1. pc[r] \in {"ifdStat", "ifdHash", "ifdTrunc"}
      BY Labelled
    <2> QED
      BY <1>0, <1>1, <2>1 DEF WalkWork, Stories, InIndexFromDisk
  <1>3. CASE IfdStat(r)
    <2>1. /\ file' = file /\ side' = side /\ row' = row /\ scan' = scan
          /\ cur'[r].size = file[at].n /\ pc'[r] = "ifdMeta" /\ pc[r] = "ifdStat"
      BY <1>0, <1>1, <1>2, <1>3, <1>t, RowOfFields DEF IfdStat, Goto, At, File, disk
    <2>2. Done(r)' = Done(r) /\ \A k \in Keys : FullRow(k)' = FullRow(k)
      BY <2>1 DEF Done, InIndexFromDisk, FullRow
    <2>3. WalkWork(r)'
      BY <1>0, <1>1, <2>1, <2>2 DEF WalkWork, InIndexFromDisk
    <2>4. Stories(r)'
      BY <1>0, <2>1 DEF Stories, Tells, Fits
    <2> QED
      BY <2>3, <2>4
  <1>4. CASE IfdHash(r)
    <2>1. /\ file' = file /\ side' = side /\ row' = row /\ scan' = scan /\ cur' = cur
          /\ meta' = [meta EXCEPT ![r].etag = Hash(file[at])] /\ pc'[r] = "ifdTrunc"
          /\ pc[r] = "ifdHash"
      BY <1>0, <1>1, <1>2, <1>4, <1>t DEF IfdHash, Goto, At, File, disk
    <2>2. meta'[r] = [side[at] EXCEPT !.etag = Hash(file[at])]
      BY <1>0, <1>1, <1>t, <2>1 DEF WalkWork
    <2>3. Done(r)' = Done(r) /\ \A k \in Keys : FullRow(k)' = FullRow(k)
      BY <2>1 DEF Done, InIndexFromDisk, FullRow
    <2>4. WalkWork(r)'
      BY <1>0, <1>1, <2>1, <2>2, <2>3 DEF WalkWork, InIndexFromDisk
    <2>5. Stories(r)'
      BY <1>0, <2>1 DEF Stories, Tells, Fits
    <2> QED
      BY <2>4, <2>5
  <1>5. CASE IfdTruncate(r)
    <2>1. /\ file' = file /\ side' = [side EXCEPT ![at] = NoMeta] /\ row' = row /\ scan' = scan
          /\ cur' = cur /\ meta' = meta /\ r \in linked' /\ pc'[r] = "ifdWrite" /\ pc[r] = "ifdTrunc"
      BY <1>0, <1>1, <1>5, <1>t DEF IfdTruncate, TruncateMeta, Goto, At, local
    <2>2. /\ meta[r].etag = Hash(file[at]) /\ meta[r].ct = side[at].ct
          /\ meta[r].public = side[at].public /\ row[at] # None
      <3>1. meta[r] = [side[at] EXCEPT !.etag = Hash(file[at])] /\ side[at] \in Metas /\ row[at] # None
        BY <1>0, <1>1, <1>t, <2>1 DEF WalkWork
      <3> QED
        BY <3>1, MetaSet
    <2>3. Fits(row[at], at, meta[r])
      BY <1>2, <2>2 DEF Tells, Fits
    <2>4. Done(r)' = Done(r) /\ at \notin Done(r)
      BY <1>1, <2>1 DEF Done, InIndexFromDisk
    <2>5. \A k \in Keys \ {at} : /\ side'[k] = side[k] /\ FullRow(k)' = FullRow(k)
      BY <1>t, <2>1 DEF FullRow
    <2>6. WalkWork(r)'
      <3>1. \A k \in Keys : scan[r].upserts[k] # None =>
              k \in Done(r) /\ scan[r].upserts[k] = FullRow(k)' /\ side'[k].etag # None
        BY <1>0, <2>1, <2>4, <2>5 DEF WalkWork, InIndexFromDisk
      <3>2. side'[at] = NoMeta /\ Fits(row[at], at, meta[r])'
        BY <1>1, <1>t, <2>1, <2>3 DEF Fits
      <3>3. req[r].op # "list"
        BY <1>0, <2>1 DEF WalkWork
      <3> QED
        BY <1>0, <1>1, <2>1, <2>2, <2>4, <3>1, <3>2, <3>3 DEF WalkWork, InIndexFromDisk
    <2>7. Stories(r)'
      <3> SUFFICES ASSUME NEW k \in Keys \ {at} PROVE Tells(k, side[k])'
        BY <1>0, <1>1, <2>1 DEF Stories
      <3>1. Tells(k, side[k])
        BY <1>0, <2>1 DEF Stories
      <3> QED
        BY <2>1, <2>5, <3>1 DEF Tells, Fits
    <2> QED
      BY <2>6, <2>7
  <1> QED
    BY <1>3, <1>4, <1>5

LEMMA WalkIndexes ==
  ASSUME TypeInv, ApartInv, NEW r \in Requests, Step(r), Walker(r), IfdMeta(r) \/ IfdWrite(r)
  PROVE  WalkWork(r)' /\ Stories(r)'
  <1>0. /\ Running(r) /\ req'[r] = req[r] /\ WalkWork(r) /\ Stories(r) /\ scan[r] \in Scans
        /\ KeyOf(r) = scan[r].at /\ KeyOf(r)' = scan'[r].at
        /\ Changes(r) <=> pc[r] = "ifdWrite"
        /\ Changes(r)' <=> pc'[r] = "ifdWrite"
    BY WalkBasics
  <1>t. /\ pc \in [Requests -> Labels] /\ scan \in [Requests -> Scans]
        /\ meta \in [Requests -> Metas] /\ side \in [Keys -> Metas]
        /\ cur \in [Requests -> Rows \cup {None}]
    BY DEF TypeInv, TypeOK
  <1>1. PICK at \in Keys : at = scan[r].at
    BY <1>0, KeyOfType, Labelled DEF InIndexFromDisk, InLock
  <1>2. /\ pc[r] \in {"ifdMeta", "ifdWrite"} /\ at \in scan[r].seen
        /\ file[at] # None /\ cur[r].size = file[at].n
    <2>1. pc[r] \in {"ifdMeta", "ifdWrite"}
      BY Labelled
    <2> QED
      BY <1>0, <1>1, <2>1 DEF WalkWork, InIndexFromDisk
  \* The row goes to the rows to write, and the walk goes on.
  <1>3. ASSUME NEW m \in Metas, Indexed(r, m), file' = file, row' = row,
               m.etag # None, side'[at] = m, \A k \in Keys \ {at} : side'[k] = side[k]
        PROVE  WalkWork(r)' /\ pc'[r] = "walk"
    <2>1. /\ scan' = [scan EXCEPT ![r] = [scan[r] EXCEPT !.upserts[at] = FullRow(at)']]
          /\ pc'[r] = "walk"
      <3>1. RowOf(cur[r].size, m) = FullRow(at)'
        BY <1>2, <1>3 DEF FullRow
      <3> QED
        BY <1>1, <1>3, <1>t, <3>1 DEF Indexed, Goto
    <2>2. scan'[r] = [scan[r] EXCEPT !.upserts[at] = FullRow(at)']
      BY <1>t, <2>1
    <2>3. /\ scan'[r].existing = scan[r].existing /\ scan'[r].names = scan[r].names
          /\ scan'[r].seen = scan[r].seen /\ scan'[r].upserts[at] = FullRow(at)'
          /\ \A k \in Keys \ {at} : scan'[r].upserts[k] = scan[r].upserts[k]
      BY <1>0, <2>2, Collected
    <2>4. Done(r)' = Done(r) \cup {at} /\ at \notin Done(r)
      BY <1>1, <1>2, <2>1, <2>3 DEF Done, InIndexFromDisk
    <2>5. \A k \in Keys \ {at} : FullRow(k)' = FullRow(k)
      BY <1>3 DEF FullRow
    <2>6. FullRow(at)' # None
      <3>1. FullRow(at)' = RowOf(cur[r].size, m) /\ cur[r] \in Rows
        BY <1>2, <1>3, <1>t DEF FullRow, TypeInv, Placed, Place
      <3> QED
        BY <3>1, RowFields, RowOfType, NoneApart
    <2>7. /\ \A k \in Keys : scan'[r].upserts[k] # None =>
               k \in Done(r)' /\ scan'[r].upserts[k] = FullRow(k)' /\ side'[k].etag # None
          /\ \A k \in Done(r)' : scan'[r].upserts[k] # None \/ row[k] # None
      <3>1. ASSUME NEW k \in Keys, scan'[r].upserts[k] # None
            PROVE  k \in Done(r)' /\ scan'[r].upserts[k] = FullRow(k)' /\ side'[k].etag # None
        <4>1. CASE k = at
          BY <1>3, <2>3, <2>4, <4>1
        <4>2. CASE k # at
          BY <1>0, <1>2, <1>3, <2>3, <2>4, <2>5, <3>1, <4>2 DEF WalkWork, InIndexFromDisk
        <4> QED
          BY <4>1, <4>2
      <3>2. ASSUME NEW k \in Done(r)' PROVE scan'[r].upserts[k] # None \/ row[k] # None
        <4>1. CASE k = at
          BY <2>3, <2>6, <4>1
        <4>2. CASE k # at
          <5>1. k \in Done(r) /\ k \in Keys
            BY <1>0, <2>4, <3>2, <4>2, ScanFields DEF Done
          <5> QED
            BY <1>0, <1>2, <2>3, <4>2, <5>1 DEF WalkWork, InIndexFromDisk
        <4> QED
          BY <4>1, <4>2
      <3> QED
        BY <3>1, <3>2
    <2>8. /\ \A k \in Keys : scan'[r].existing[k] # None => row[k] # None /\ file[k] # None
          /\ scan'[r].names \cap scan'[r].seen = {}
          /\ \A k \in Keys : file[k] # None <=> k \in scan'[r].names \cup scan'[r].seen
      BY <1>0, <1>2, <2>3 DEF WalkWork, InIndexFromDisk
    <2>9. req[r].op = "list" => \A k \in Keys : file[k] # None => side'[k].etag # None
      BY <1>0, <1>2, <1>3 DEF WalkWork
    <2> QED
      BY <1>0, <1>3, <2>1, <2>7, <2>8, <2>9 DEF WalkWork, InIndexFromDisk
  <1>4. CASE IfdMeta(r)
    <2>1. /\ file' = file /\ side' = side /\ row' = row /\ meta'[r] = side[at] /\ pc[r] = "ifdMeta"
          /\ \/ side[at].etag # None /\ Indexed(r, side[at])
             \/ side[at].etag = None /\ pc'[r] = "ifdHash" /\ cur' = cur /\ scan' = scan
      BY <1>0, <1>1, <1>4, <1>t DEF IfdMeta, Goto, At, disk
    <2>2. Tells(at, side[at])
      BY <1>0, <2>1 DEF Stories
    <2>3. CASE side[at].etag # None /\ Indexed(r, side[at])
      <3>1. WalkWork(r)' /\ pc'[r] = "walk"
        BY <1>3, <1>t, <2>1, <2>3
      <3> QED
        BY <1>0, <2>1, <3>1 DEF Stories, Tells, Fits
    <2>4. CASE side[at].etag = None /\ pc'[r] = "ifdHash" /\ cur' = cur /\ scan' = scan
      <3>1. row[at] # None /\ req[r].op # "list"
        BY <1>0, <1>2, <2>1, <2>2, <2>4 DEF WalkWork, Tells
      <3>2. Done(r)' = Done(r) /\ \A k \in Keys : FullRow(k)' = FullRow(k)
        BY <2>1, <2>4 DEF Done, InIndexFromDisk, FullRow
      <3>3. WalkWork(r)'
        BY <1>0, <1>1, <2>1, <2>4, <3>1, <3>2 DEF WalkWork, InIndexFromDisk
      <3>4. Stories(r)'
        BY <1>0, <2>1, <2>4 DEF Stories, Tells, Fits
      <3> QED
        BY <3>3, <3>4
    <2> QED
      BY <2>1, <2>3, <2>4
  <1>5. CASE IfdWrite(r)
    <2>1. /\ pc[r] = "ifdWrite" /\ side[at] = NoMeta /\ r \in linked /\ row[at] # None
          /\ meta[r].etag = Hash(file[at]) /\ Fits(row[at], at, meta[r]) /\ meta[r] \in Metas
      BY <1>0, <1>1, <1>5, <1>t, Labelled DEF WalkWork
    <2>2. file' = file /\ row' = row /\ FillMeta(r) /\ Indexed(r, meta[r])
      BY <1>5 DEF IfdWrite
    <2>3. side' = [side EXCEPT ![at] = meta[r]]
      <3>1. Overlays(side[at], meta[r]) = {meta[r]}
        BY <2>1, WrittenWhole
      <3> QED
        BY <1>0, <1>1, <2>1, <2>2, <3>1 DEF FillMeta
    <2>4. meta[r].etag # None
      <3>1. file[at] \in Blobs
        BY <1>2 DEF TypeInv, TypeOK
      <3> QED
        BY <2>1, <3>1, NoneApart DEF Hash
    <2>5. side'[at] = meta[r] /\ \A k \in Keys \ {at} : side'[k] = side[k]
      BY <1>t, <2>3
    <2>6. WalkWork(r)' /\ pc'[r] = "walk"
      BY <1>3, <2>1, <2>2, <2>4, <2>5
    <2>7. ASSUME NEW k \in Keys PROVE Tells(k, side[k])'
      <3>1. CASE k = at
        BY <1>2, <2>1, <2>2, <2>5, <3>1 DEF Tells, Fits
      <3>2. CASE k # at
        <4>1. Tells(k, side[k])
          BY <1>0, <1>1, <3>2 DEF Stories
        <4> QED
          BY <2>2, <2>5, <3>2, <4>1 DEF Tells, Fits
      <3> QED
        BY <3>1, <3>2
    <2> QED
      BY <2>6, <2>7 DEF Stories
  <1> QED
    BY <1>4, <1>5

LEMMA WalkApplies ==
  ASSUME TypeInv, ApartInv, NEW r \in Requests, Step(r), Walker(r), Apply(r)
  PROVE  (Running(r)' => WalkWork(r)') /\ Stories(r)'
  <1>0. /\ Running(r) /\ req'[r] = req[r] /\ WalkWork(r) /\ Stories(r) /\ scan[r] \in Scans
    BY WalkBasics
  <1>1. /\ pc[r] = "apply" /\ file' = file /\ side' = side /\ scan' = scan
        /\ pc'[r] \in {"query", "ok"} /\ (pc'[r] = "query" => req[r].op = "list")
        /\ row' = [k \in Keys |-> IF scan[r].upserts[k] # None THEN scan[r].upserts[k]
                            ELSE IF scan[r].existing[k] # None /\ k \notin scan[r].seen THEN None
                            ELSE row[k]]
    BY DEF Apply, At, End, Goto, disk, local, TypeInv, TypeOK
  <1>2. /\ Done(r) = scan[r].seen
        /\ \A k \in Keys : file[k] # None <=> k \in scan[r].seen
        /\ \A k \in Keys : scan[r].upserts[k] # None =>
             k \in scan[r].seen /\ scan[r].upserts[k] = FullRow(k) /\ side[k].etag # None
        /\ \A k \in scan[r].seen : scan[r].upserts[k] # None \/ row[k] # None
        /\ \A k \in Keys : scan[r].existing[k] # None => file[k] # None
    BY <1>0, <1>1 DEF WalkWork, Done, InIndexFromDisk
  <1>3. \A k \in Keys : Tells(k, side[k])
    BY <1>0, <1>1 DEF Stories, Changes, Walker, Walkers
  <1>4. ASSUME NEW k \in Keys PROVE Tells(k, side[k])'
    <2>1. CASE scan[r].upserts[k] # None
      <3>1. row'[k] = FullRow(k) /\ row'[k] # None /\ file[k] # None /\ side[k].etag # None
        BY <1>1, <1>2, <2>1
      <3>2. Fits(FullRow(k), k, side[k])
        BY <1>3, <3>1, RowOfFields DEF Fits, FullRow, Tells
      <3> QED
        BY <1>1, <1>3, <3>1, <3>2 DEF Tells, Fits
    <2>2. CASE scan[r].upserts[k] = None
      BY <1>1, <1>2, <1>3, <2>2 DEF Tells, Fits
    <2> QED
      BY <2>1, <2>2
  <1>5. \A k \in Keys : file[k] # None => row'[k] # None
    BY <1>1, <1>2
  <1>6. Running(r)' => WalkWork(r)'
    BY <1>0, <1>1, <1>5 DEF WalkWork, InIndexFromDisk, Running, Ended
  <1> QED
    BY <1>4, <1>6 DEF Stories

-----------------------------------------------------------------------------
(* Every step keeps the calls' stories.                                      *)

LEMMA ApartOwnStep ==
  ASSUME KeptApart, TypeInv, TempInv, ApartInv, NEW r \in Requests, Step(r)
  PROVE  ApartInv'
  <1>1. Running(r) /\ req'[r] = req[r] /\ req[r].op \in AllOps
    BY StepOf, StepFrame, OpsOf
  <1>2. CASE ~Walker(r)
    <2>1. PICK k \in Keys : k = req[r].key
      BY <1>1, <1>2, WorksOn
    <2>2. /\ KeyOf(r)' = k
          /\ req[r].op \in {"put", "acl", "delete", "get", "anon"}
          /\ \A j \in Keys : Mine(r, j) => j = k
      BY <1>1, <1>2, <2>1, OpsOf DEF KeyOf, Walker, Mine
    <2>3. Running(r)' =>
            /\ req[r].op = "put" => PutWork(r, k)'
            /\ req[r].op = "acl" => AclWork(r, k)'
            /\ req[r].op = "delete" => DeleteWork(r, k)'
            /\ req[r].op \in {"get", "anon"} => GetWork(r, k)'
      BY <2>1, PutSteps, AclSteps, DeleteSteps, GetSteps
    <2>4. Running(r)' => Work(r)'
      BY <1>1, <2>1, <2>2, <2>3 DEF Work, Walkers
    <2>5. ~Changes(r)' => Tells(k, side[k])'
      <3>1. CASE req[r].op \in {"put", "acl", "delete"}
        BY <2>1, <3>1, PutSteps, AclSteps, DeleteSteps
      <3>2. CASE req[r].op \in {"get", "anon"}
        BY <2>1, <3>2, ReadStories DEF Readers, Mine
      <3> QED
        BY <2>2, <3>1, <3>2
    <2> QED
      BY <2>2, <2>4, <2>5, Assembled
  <1>3. CASE Walker(r)
    <2>1. (Running(r)' => WalkWork(r)') /\ Stories(r)'
      BY <1>3, StepOf, WalkStarts, WalkVisits, WalkReads, WalkIndexes, WalkApplies
    <2>2. Running(r)' => Work(r)'
      BY <1>1, <1>3, <2>1 DEF Work, Walker, Walkers
    <2> QED
      BY <2>1, <2>2, Assembled DEF Stories
  <1> QED
    BY <1>2, <1>3

\* A handler is not disturbed when nothing it sees changes.
LEMMA WorkFrame ==
  ASSUME NEW q \in Requests, Still(q), Work(q), UNCHANGED <<file, side, row, linked>>
  PROVE  Work(q)'
  <1>1. \A k : /\ FullRow(k)' = FullRow(k)
               /\ Fits(cur[q], k, side[k])' <=> Fits(cur[q], k, side[k])
               /\ Fits(row[k], k, meta[q])' <=> Fits(row[k], k, meta[q])
               /\ Fits([row[k] EXCEPT !.public = req[q].public], k, meta[q])'
                    <=> Fits([row[k] EXCEPT !.public = req[q].public], k, meta[q])
    BY DEF Still, FullRow, Fits
  <1>2. /\ PutMeta(q)' = PutMeta(q) /\ Body(q)' = Body(q) /\ Done(q)' = Done(q)
    BY DEF Still, PutMeta, PutHash, Body, Done
  <1>3. \A k : PutWork(q, k) => PutWork(q, k)'
    BY <1>1, <1>2 DEF PutWork, Still
  <1>4. \A k : AclWork(q, k) => AclWork(q, k)'
    BY <1>1 DEF AclWork, Still
  <1>5. \A k : DeleteWork(q, k) => DeleteWork(q, k)'
    BY DEF DeleteWork, Still
  <1>6. ASSUME NEW k, GetWork(q, k) PROVE GetWork(q, k)'
    <2>1. /\ file' = file /\ side' = side /\ row' = row /\ pc'[q] = pc[q] /\ req'[q] = req[q]
          /\ fd'[q] = fd[q] /\ cur'[q] = cur[q]
      BY DEF Still
    <2>2. /\ FullRow(k)' = FullRow(k)
          /\ Fits(cur[q], k, side[k])' <=> Fits(cur[q], k, side[k])
      BY <1>1
    <2> QED
      BY <1>6, <2>1, <2>2 DEF GetWork
  <1>7. WalkWork(q) => WalkWork(q)'
    <2>1. /\ Fits(row[scan[q].at], scan[q].at, meta[q])' <=> Fits(row[scan[q].at], scan[q].at, meta[q])
          /\ \A k \in Keys : FullRow(k)' = FullRow(k)
      BY DEF Still, Fits, FullRow
    <2> HAVE WalkWork(q)
    <2> QED
      BY <1>2, <2>1 DEF WalkWork, Still
  <1> QED
    BY <1>3, <1>4, <1>5, <1>6, <1>7 DEF Work, Still

LEMMA ApartStart ==
  ASSUME KeptApart, TypeInv, ApartInv, NEW r \in Requests, Start(r)
  PROVE  ApartInv'
  <1>1. PICK c \in Calls : req' = [req EXCEPT ![r] = c] /\ Goto(r, Entry[c.op])
    BY DEF Start
  <1>2. /\ pc[r] = "idle" /\ req'[r] = c /\ pc'[r] = Entry[c.op] /\ scan'[r] = NoScan
        /\ UNCHANGED <<file, side, row, linked, fd, meta, cur, scan>>
        /\ \A q \in Requests \ {r} : pc'[q] = pc[q] /\ req'[q] = req[q]
    BY <1>1 DEF Start, At, Goto, TypeInv, TypeOK, disk, local, ApartInv, Fresh
  <1>3. /\ c.op = "put" => pc'[r] = "mktemp"
        /\ c.op = "get" => pc'[r] = "open"
        /\ c.op = "anon" => pc'[r] = "public"
        /\ c.op = "acl" => pc'[r] = "isfile"
        /\ c.op = "delete" => pc'[r] = "rmfile"
        /\ c.op = "list" => pc'[r] = "hasrows"
        /\ c.op \in {"reindex", "startup"} => pc'[r] = "lock"
        /\ c.op \in AllOps /\ pc'[r] # "idle"
    BY <1>2, CallFields DEF Entry, AllOps
  <1>4. Exclusive'
    BY ExclusiveStep DEF ApartInv, Next
  <1>5. Work(r)'
    <2>1. scan'[r].seen = {} /\ \A k \in Keys : scan'[r].upserts[k] = None
      BY <1>2 DEF NoScan
    <2>2. c.op = "put" => PutWork(r, c.key)'
      BY <1>3 DEF PutWork
    <2>3. c.op = "acl" => AclWork(r, c.key)'
      BY <1>3 DEF AclWork
    <2>4. c.op = "delete" => DeleteWork(r, c.key)'
      BY <1>3 DEF DeleteWork
    <2>5. c.op \in {"get", "anon"} => GetWork(r, c.key)'
      BY <1>2, <1>3 DEF GetWork
    <2>6. c.op \in Walkers => WalkWork(r)'
      BY <1>2, <1>3, <2>1 DEF WalkWork, Walkers, InIndexFromDisk
    <2> QED
      BY <1>2, <2>2, <2>3, <2>4, <2>5, <2>6 DEF Work
  <1>6. Working'
    <2> SUFFICES ASSUME NEW q \in Requests, q # r, Running(q)' PROVE Work(q)'
      BY <1>5 DEF Working
    <2>1. Running(q) /\ Still(q)
      BY <1>2 DEF Running, Still
    <2> QED
      BY <1>2, <2>1, WorkFrame DEF ApartInv, Working
  <1>7. Healthy'
    <2> SUFFICES ASSUME NEW k \in Keys, ~Changed(k)' PROVE Tells(k, side[k])'
      BY DEF Healthy
    <2>1. ASSUME NEW q \in Requests, Changes(q), KeyOf(q) = k PROVE FALSE
      <3>1. q # r
        BY <1>2, <2>1 DEF Changes, Running
      <3>2. Changes(q)' /\ KeyOf(q)' = k
        BY <1>2, <2>1, <3>1 DEF Changes, Running, KeyOf, Walker
      <3> QED
        BY <3>2 DEF Changed
    <2>2. Tells(k, side[k])
      BY <2>1 DEF Changed, ApartInv, Healthy
    <2> QED
      BY <1>2, <2>2 DEF Tells, Fits
  <1>8. Fresh'
    BY <1>2, <1>3 DEF ApartInv, Fresh, At
  <1> QED
    BY <1>4, <1>6, <1>7, <1>8 DEF ApartInv

LEMMA ApartStep ==
  ASSUME KeptApart, TypeInv, TempInv, ApartInv, [Next]_vars
  PROVE  ApartInv'
  <1>1. CASE UNCHANGED vars
    <2>1. UNCHANGED <<file, side, row, linked, req, pc, fd, meta, cur, scan>>
      BY <1>1 DEF vars, disk, local, env
    <2>2. Exclusive'
      BY ExclusiveStep DEF ApartInv
    <2>3. Working'
      <3> SUFFICES ASSUME NEW q \in Requests, Running(q)' PROVE Work(q)'
        BY DEF Working
      <3> QED
        BY <2>1, WorkFrame DEF ApartInv, Working, Running, Still
    <2>4. Healthy'
      <3> SUFFICES ASSUME NEW k \in Keys, ~Changed(k)' PROVE Tells(k, side[k])'
        BY DEF Healthy
      <3>1. ~Changed(k)
        BY <2>1 DEF Changed, Changes, Running, KeyOf, Walker
      <3> QED
        BY <2>1, <3>1 DEF ApartInv, Healthy, Tells, Fits
    <2>5. Fresh'
      BY <2>1 DEF ApartInv, Fresh, At
    <2> QED
      BY <2>2, <2>3, <2>4, <2>5 DEF ApartInv
  <1> QED
    BY <1>1, NothingFails, ApartStart, ApartOwnStep

LEMMA ApartInit ==
  ASSUME KeptApart, Init
  PROVE  ApartInv
  <1>1. PICK how \in [Keys -> InitStates] :
          /\ file = [k \in Keys |-> Stored(k, how[k]).file]
          /\ side = [k \in Keys |-> Stored(k, how[k]).side]
          /\ row = [k \in Keys |-> Stored(k, how[k]).row]
    BY DEF Init
  <1>2. ASSUME NEW k \in Keys PROVE Tells(k, side[k])
    <2> DEFINE seed == [by |-> {Seed}, n |-> 1]
               tag == [ct |-> CHOOSE t \in ContentTypes : TRUE,
                       public |-> k \in PublicSeeds, etag |-> Hash(seed)]
               bare == [tag EXCEPT !.etag = None]
    <2>1. how[k] \in {"absent", "indexed", "unindexed", "untagged"}
      BY ConstantsOK DEF KeptApart
    <2>2. seed \in Blobs /\ Hash(seed) \in Blobs /\ seed.n = 1
      BY DEF Blobs, Authors, Hash
    <2>3. tag \in Metas /\ tag.etag = Hash(seed)
      BY <2>2, ConstantsOK DEF Metas, Types
    <2> HIDE DEF seed
    <2>4. /\ bare.etag = None /\ bare.ct = tag.ct /\ bare.public = tag.public /\ bare \in Metas
      BY <2>3, MetaSet, MetaExcept
    <2>5. \/ file[k] = None /\ side[k] = NoMeta /\ row[k] = None
          \/ file[k] = seed /\ side[k] = tag /\ row[k] \in {RowOf(1, tag), None}
          \/ file[k] = seed /\ side[k] = bare /\ row[k] = RowOf(1, bare)
      BY <1>1, <2>1 DEF Stored, seed
    <2> HIDE DEF tag, bare
    <2>6. RowOf(1, tag) # None /\ RowOf(1, bare) # None
      BY <2>3, <2>4, RowOfType, NoneApart
    <2> QED
      BY <2>2, <2>3, <2>4, <2>5, <2>6, NoneApart, RowOfFields DEF Tells, Fits
  <1>3. \A r \in Requests : pc[r] = "idle" /\ scan[r] = NoScan /\ ~Running(r)
    BY DEF Init, Running
  <1> QED
    BY <1>2, <1>3 DEF ApartInv, Exclusive, Healthy, Working, Fresh

LEMMA ApartInvariant ==
  ASSUME KeptApart
  PROVE  Spec => [](TypeInv /\ TempInv /\ ApartInv)
  <1>1. Init => TypeInv /\ TempInv /\ ApartInv
    BY TypeInit, TempInit, ApartInit
  <1>2. TypeInv /\ TempInv /\ ApartInv /\ [Next]_vars => (TypeInv /\ TempInv /\ ApartInv)'
    BY TypeStep, TempStep, ApartStep
  <1> QED
    BY <1>1, <1>2, PTL DEF Spec

\* On the terms of KeptApart - calls share a key only if all of them are GETs or
\* listings, nothing fails, and every file has had a row or an ETag from the start - the
\* bytes, the sidecar and the index row of a key that nobody is working on tell the same
\* story (statIndexed, SetPublic, PutObject, DeleteObject, ReindexBucket).
THEOREM KeysAgree ==
  ASSUME KeptApart
  PROVE  Spec => []SettledAgree
  <1>1. TypeInv /\ ApartInv => SettledAgree
    <2> SUFFICES ASSUME TypeInv, ApartInv, NEW k \in Keys, Settled(k) PROVE Agrees(k)
      BY DEF SettledAgree
    <2>1. ASSUME NEW r \in Requests, Changes(r), KeyOf(r) = k PROVE FALSE
      BY <2>1 DEF Settled, Touches, Changes, KeyOf
    <2>2. Tells(k, side[k])
      BY <2>1 DEF ApartInv, Healthy, Changed
    <2> QED
      BY <2>2 DEF Tells, Fits, Agrees
  <1> QED
    BY <1>1, ApartInvariant, PTL

\* And on those terms a listing that found no row and no file found them all the way through: an
\* empty first page means an empty bucket (ListObjects' lazy reindex).
THEOREM ListingsShowSomething ==
  ASSUME KeptApart
  PROVE  Spec => ListNotSilentlyEmpty
  <1> DEFINE A == \A r \in Requests :
                    At(r, "query") /\ pc'[r] = "ok" /\ scan'[r].seen = {}
                      => \A k \in Keys : file[k] = None
  <1>1. TypeInv /\ ApartInv /\ [Next]_vars => [A]_vars
    <2> SUFFICES ASSUME TypeInv, ApartInv, [Next]_vars, NEW r \in Requests,
                        At(r, "query"), pc'[r] = "ok", scan'[r].seen = {}
                 PROVE  \A k \in Keys : file[k] = None
      OBVIOUS
    <2>1. Running(r) /\ req[r] \in Calls /\ Stage(r)
      BY Called DEF At, Running, Ended
    <2>2. Walker(r) /\ WalkWork(r)
      BY <2>1 DEF At, Stage, PutLabels, ReadLabels, AclLabels, InIndexFromDisk, Ended, Walker,
         ApartInv, Working, Work
    <2>3. Step(r)
      <3>1. pc'[r] # pc[r]
        BY DEF At
      <3>2. \E q \in Requests : Start(q) \/ Step(q)
        BY <3>1, NothingFails DEF vars
      <3>3. ASSUME NEW q \in Requests, Start(q) PROVE q # r /\ pc'[r] = pc[r]
        BY <3>3 DEF Start, At, Goto, TypeInv, TypeOK
      <3>4. ASSUME NEW q \in Requests \ {r}, Step(q) PROVE pc'[r] = pc[r]
        BY <3>4, StepFrame
      <3> QED
        BY <3>1, <3>2, <3>3, <3>4
    <2>4. Query(r)
      BY <2>2, <2>3, StepOf, Labelled DEF At
    <2>5. scan'[r].seen = {k \in Keys : row[k] # None}
      <3>1. scan' = [scan EXCEPT ![r] = [scan[r] EXCEPT !.seen = {k \in Keys : row[k] # None}]]
        BY <2>4 DEF Query
      <3>2. scan'[r] = [scan[r] EXCEPT !.seen = {k \in Keys : row[k] # None}] /\ scan[r] \in Scans
        BY <3>1 DEF TypeInv, TypeOK
      <3> QED
        BY <3>2 DEF Scans
    <2> QED
      BY <2>2, <2>5 DEF WalkWork, At
  <1> QED
    BY <1>1, ApartInvariant, PTL DEF Spec, ListNotSilentlyEmpty

-----------------------------------------------------------------------------
(* What clients see: the objects of the atomic store.                        *)

\* Two handlers never change one key.
LEMMA OneChanges ==
  ASSUME TypeInv, ApartInv, NEW q \in Requests, NEW r \in Requests, Changes(q), Changes(r),
         KeyOf(q) = KeyOf(r)
  PROVE  q = r
  <1> SUFFICES ASSUME q # r PROVE FALSE
    OBVIOUS
  <1>1. Running(q) /\ Running(r) /\ Work(q)
    BY DEF Changes, ApartInv, Working
  <1>2. Together(q, r)
    BY <1>1, WorksOn DEF Together
  <1>3. req[q].op \in Readers
    BY <1>1, <1>2 DEF ApartInv, Exclusive
  <1> QED
    BY <1>1, <1>3 DEF Changes, Readers, Work, GetWork, WalkWork, Walkers

LEMMA WritingChanges ==
  ASSUME TypeInv, NEW r \in Requests, Writing(r)
  PROVE  Changes(r)
  <1>1. Running(r) /\ Stage(r)
    BY Called DEF Writing, At, Running, Ended
  <1> QED
    BY <1>1 DEF Writing, At, Changes, Stage, Running, ReadLabels, WalkLabels, InLock,
       InIndexFromDisk

DescribedByWriter ==
  \A k \in Keys :
    /\ (\A q \in Requests : ~(Writing(q) /\ KeyOf(q) = k)) => Described(k) = side[k]
    /\ \A r \in Requests : Writing(r) /\ KeyOf(r) = k => Described(k) = meta[r]

LEMMA DescribedBy == TypeInv /\ ApartInv => DescribedByWriter
  <1> SUFFICES ASSUME TypeInv, ApartInv, NEW k \in Keys
               PROVE  /\ (\A q \in Requests : ~(Writing(q) /\ KeyOf(q) = k)) => Described(k) = side[k]
                      /\ \A r \in Requests : Writing(r) /\ KeyOf(r) = k => Described(k) = meta[r]
    BY DEF DescribedByWriter
  <1>1. (\A q \in Requests : ~(Writing(q) /\ KeyOf(q) = k)) => Described(k) = side[k]
    BY DEF Described
  <1>2. ASSUME NEW r \in Requests, Writing(r), KeyOf(r) = k PROVE Described(k) = meta[r]
    <2> DEFINE w == CHOOSE q \in Requests : Writing(q) /\ KeyOf(q) = k
    <2>1. w \in Requests /\ Writing(w) /\ KeyOf(w) = k
      BY <1>2
    <2>2. Described(k) = meta[w]
      BY <1>2 DEF Described
    <2> HIDE DEF w
    <2>3. w = r
      BY <1>2, <2>1, WritingChanges, OneChanges
    <2> QED
      BY <2>2, <2>3
  <1> QED
    BY <1>1, <1>2

LEMMA DescribedByNext == (TypeInv /\ ApartInv)' => DescribedByWriter'
  BY DescribedBy, PTL

\* What describes a key that a handler works on, before and after its step.
LEMMA DescribedMine ==
  ASSUME KeptApart, TypeInv, TempInv, ApartInv, NEW r \in Requests, Step(r),
         NEW k \in Keys, Mine(r, k)
  PROVE  /\ Described(k) = IF Writing(r) /\ KeyOf(r) = k THEN meta[r] ELSE side[k]
         /\ Described(k)' = IF (Writing(r) /\ KeyOf(r) = k)' THEN meta'[r] ELSE side'[k]
  <1>1. TypeInv' /\ ApartInv'
    BY TypeStep, ApartStep DEF Next
  <1>2. \A q \in Requests \ {r} : Still(q)
    BY StepFrame DEF Still
  <1>3. ASSUME NEW q \in Requests \ {r} PROVE ~(Writing(q) /\ KeyOf(q) = k)
    <2> SUFFICES ASSUME Writing(q), KeyOf(q) = k PROVE FALSE
      OBVIOUS
    <2>1. Changes(q) /\ Running(r)
      BY WritingChanges, StepOf
    <2>2. CASE Changes(r) /\ KeyOf(r) = k
      BY <2>1, <2>2, OneChanges
    <2>3. CASE ~(Changes(r) /\ KeyOf(r) = k)
      BY <2>1, <2>3, Story DEF Mine, Changed
    <2> QED
      BY <2>2, <2>3
  <1>4. ASSUME NEW q \in Requests \ {r} PROVE ~(Writing(q) /\ KeyOf(q) = k)'
    BY <1>2, <1>3 DEF Still, Writing, At, KeyOf, Walker
  <1> QED
    BY <1>1, <1>3, <1>4, DescribedBy, DescribedByNext DEF DescribedByWriter

\* A key's object stays if its file stays and what describes it says the same.
LEMMA ObjectStays ==
  ASSUME NEW k \in Keys, file'[k] = file[k],
         \/ Described(k)' = Described(k)
         \/ Described(k).ct = Described(k)'.ct /\ Described(k).public = Described(k)'.public
  PROVE  Store'[k] = Store[k]
  BY DEF Store, ObjectOf

LEMMA ObjectsElsewhere ==
  ASSUME KeptApart, TypeInv, TempInv, ApartInv, NEW r \in Requests, Step(r),
         NEW k \in Keys, ~Mine(r, k)
  PROVE  Store'[k] = Store[k]
  <1>1. TypeInv' /\ ApartInv'
    BY TypeStep, ApartStep DEF Next
  <1>2. (\A q \in Requests \ {r} : Still(q)) /\ req' = req
    BY StepFrame DEF Still
  <1>3. /\ ~Walker(r) /\ k # req[r].key /\ KeyOf(r) = req[r].key /\ KeyOf(r)' = req[r].key
    <2>1. Running(r) /\ ~Walker(r) /\ k # req[r].key
      BY StepOf DEF Mine
    <2> QED
      BY <1>2, <2>1, WorksOn DEF KeyOf, Walker
  <1>4. file'[k] = file[k] /\ side'[k] = side[k]
    BY <1>3, Elsewhere
  <1>5. \A q \in Requests :
          /\ (Writing(q) /\ KeyOf(q) = k)' <=> (Writing(q) /\ KeyOf(q) = k)
          /\ Writing(q) /\ KeyOf(q) = k => meta'[q] = meta[q]
    BY <1>2, <1>3 DEF Still, Writing, At, KeyOf, Walker
  <1>6. Described(k)' = Described(k)
    BY <1>1, <1>4, <1>5, DescribedBy, DescribedByNext DEF DescribedByWriter
  <1> QED
    BY <1>4, <1>6, ObjectStays

LEMMA AnswersOfOthers ==
  ASSUME NEW q \in Requests, Still(q)
  PROVE  AnswerOf(q)' = AnswerOf(q)
  <1>1. Effective(q)' <=> Effective(q)
    BY DEF Still, Effective, At
  <1>2. ObjectOf(fd[q], cur[q])' = ObjectOf(fd[q], cur[q])
    BY DEF Still, ObjectOf
  <1> QED
    BY <1>1, <1>2 DEF Still, AnswerOf

\* What each operation's client has been told, by where its handler stands.
Told ==
  \A r \in Requests : req[r] # None /\ pc[r] \notin {"notfound", "denied"} =>
    /\ req[r].op = "put" =>
         AnswerOf(r) = IF pc[r] \in {"trunc", "write", "stat", "upsert", "ok"}
                         THEN [status |-> "ok"] ELSE None
    /\ req[r].op = "acl" =>
         AnswerOf(r) = IF pc[r] \notin {"isfile", "readmeta", "trunc"}
                         THEN [status |-> "ok"] ELSE None
    /\ req[r].op = "delete" =>
         AnswerOf(r) = IF pc[r] \in {"rmside", "rmrow", "ok"} THEN [status |-> "ok"] ELSE None
    /\ req[r].op \in {"get", "anon"} =>
         AnswerOf(r) = IF pc[r] = "ok"
                         THEN [status |-> "ok", object |-> ObjectOf(fd[r], cur[r]),
                               etag |-> cur[r].etag]
                         ELSE None
    /\ req[r].op = "list" =>
         AnswerOf(r) = IF pc[r] = "ok" THEN [status |-> "ok", keys |-> scan[r].seen] ELSE None
    /\ req[r].op \in {"reindex", "startup"} =>
         AnswerOf(r) = IF pc[r] = "ok" THEN [status |-> "ok"] ELSE None

LEMMA TellsClients == Told
  BY DEF Told, AnswerOf, Effective, At

LEMMA TellsClientsNext == Told'
  BY TellsClients, PTL

\* What has been answered and what is stored change with one handler at a time.
Same(r) == (\A k \in Keys : Mine(r, k) => Store'[k] = Store[k]) /\ AnswerOf(r)' = AnswerOf(r)

LEMMA Stutters ==
  ASSUME KeptApart, TypeInv, TempInv, ApartInv, NEW r \in Requests, Step(r), Same(r)
  PROVE  UNCHANGED Abstract!vars
  <1>1. req' = req /\ \A q \in Requests : AnswerOf(q)' = AnswerOf(q)
    BY StepFrame, AnswersOfOthers DEF Still, Same
  <1>2. \A k \in Keys : Store'[k] = Store[k]
    BY ObjectsElsewhere DEF Same
  <1>3. Store' = Store
    BY <1>2 DEF Store
  <1>4. [q \in Requests |-> AnswerOf(q)]' = [q \in Requests |-> AnswerOf(q)]
    BY <1>1
  <1> QED
    BY <1>1, <1>3, <1>4 DEF Abstract!vars

\* A step at which r's call takes effect on its key.
LEMMA TakesEffect ==
  ASSUME KeptApart, TypeInv, TempInv, ApartInv, NEW r \in Requests, Step(r)
  PROVE  /\ req' = req
         /\ [q \in Requests |-> AnswerOf(q)]'
              = [[q \in Requests |-> AnswerOf(q)] EXCEPT ![r] = AnswerOf(r)']
         /\ (\A k \in Keys : Mine(r, k) => Store'[k] = Store[k]) => Store' = Store
         /\ ~Walker(r) => Store' = [Store EXCEPT ![req[r].key] = Store'[req[r].key]]
  <1>1. req' = req /\ \A q \in Requests \ {r} : AnswerOf(q)' = AnswerOf(q)
    BY StepFrame, AnswersOfOthers DEF Still
  <1>2. (\A k \in Keys : Mine(r, k) => Store'[k] = Store[k]) => Store' = Store
    <2> SUFFICES ASSUME \A k \in Keys : Mine(r, k) => Store'[k] = Store[k] PROVE Store' = Store
      OBVIOUS
    <2>1. \A k \in Keys : Store'[k] = Store[k]
      BY ObjectsElsewhere
    <2> QED
      BY <2>1 DEF Store
  <1>3. ASSUME ~Walker(r) PROVE Store' = [Store EXCEPT ![req[r].key] = Store'[req[r].key]]
    <2>1. \A k \in Keys : k # req[r].key => Store'[k] = Store[k]
      BY <1>3, ObjectsElsewhere DEF Mine
    <2> QED
      BY <2>1 DEF Store
  <1> QED
    BY <1>1, <1>2, <1>3

-----------------------------------------------------------------------------
(* Every step is a step of the atomic store, or none that its clients see.   *)

LEMMA PutImplements ==
  ASSUME KeptApart, TypeInv, TempInv, ApartInv, NEW r \in Requests, Step(r), req[r].op = "put"
  PROVE  Abstract!Put(r) \/ UNCHANGED Abstract!vars
  <1>1. PICK k \in Keys : k = req[r].key
    BY StepOf, WorksOn DEF Walker, Walkers
  <1>2. /\ Running(r) /\ req' = req /\ req[r] \in Calls /\ req[r] # None /\ ~Walker(r)
        /\ KeyOf(r) = k /\ KeyOf(r)' = k /\ PutWork(r, k) /\ PutWork(r, k)' /\ Mine(r, k)
        /\ \A j \in Keys : Mine(r, j) => j = k
    <2>1. Running(r) /\ req' = req /\ req[r] \in Calls /\ req[r] # None /\ ~Walker(r)
      BY StepOf, StepFrame DEF Walker, Walkers
    <2>2. PutWork(r, k) /\ PutWork(r, k)'
      BY <1>1, <2>1, PutSteps DEF ApartInv, Working, Work
    <2> QED
      BY <1>1, <2>1, <2>2, WorksOn DEF Mine, KeyOf, Walker
  <1>3. /\ Described(k) = IF Writing(r) THEN meta[r] ELSE side[k]
        /\ Described(k)' = IF Writing(r)' THEN meta'[r] ELSE side'[k]
    BY <1>2, DescribedMine
  <1>t. /\ file \in [Keys -> Blobs \cup {None}] /\ side \in [Keys -> Metas]
        /\ pc \in [Requests -> Labels] /\ meta \in [Requests -> Metas]
    BY DEF TypeInv, TypeOK
  <1>4. /\ PutMeta(r)' = PutMeta(r) /\ Body(r)' = Body(r)
        /\ PutMeta(r).ct = req[r].ct /\ PutMeta(r).public = req[r].public
        /\ PutMeta(r) # NoMeta /\ Body(r) # None /\ Body(r) = SentBy(r, req[r])
    BY <1>2, PutMetaFields, BodyType, NoneApart DEF PutMeta, PutHash, Body, SentBy
  <1>5. CASE Rename(r)
    <2>1. /\ pc[r] = "rename" /\ pc'[r] = "trunc"
      BY <1>5, <1>t DEF Rename, At, Goto
    <2>2. file'[k] = Body(r) /\ meta'[r] = PutMeta(r) /\ Writing(r)'
      BY <1>2, <1>4, <2>1 DEF PutWork, Writing, At
    <2>3. Store'[k] = [bytes |-> SentBy(r, req[r]), ct |-> req[r].ct, public |-> req[r].public]
      BY <1>3, <1>4, <2>2 DEF Store, ObjectOf
    <2>4. AnswerOf(r) = None /\ AnswerOf(r)' = [status |-> "ok"]
      BY <1>2, <2>1, TellsClients, TellsClientsNext DEF Told
    <2> QED
      BY <1>1, <1>2, <2>3, <2>4, TakesEffect DEF Abstract!Put, Abstract!Pending, Abstract!Answer
  <1>6. CASE ~Rename(r)
    <2>1. file' = file
      BY <1>6, FileWriters, StepOf, Labelled DEF RemoveFile, At
    <2>2. /\ Described(k)' = Described(k)
          /\ pc[r] \notin {"notfound", "denied"} /\ pc'[r] \notin {"notfound", "denied"}
          /\ pc'[r] \in {"trunc", "write", "stat", "upsert", "ok"}
               <=> pc[r] \in {"trunc", "write", "stat", "upsert", "ok"}
      <3>1. CASE CreateTemp(r) \/ Copy(r)
        <4>1. side' = side /\ pc[r] \in {"mktemp", "copy"} /\ pc'[r] \in {"copy", "rename"}
          BY <1>t, <3>1 DEF CreateTemp, Copy, Goto, At
        <4> QED
          BY <1>3, <4>1 DEF Writing, At
      <3>2. CASE Truncate(r)
        <4>1. pc[r] = "trunc" /\ pc'[r] = "write" /\ meta' = meta
          <5>1. pc[r] = "trunc" /\ TruncateMeta(r, "write")
            BY <1>2, <1>4, <3>2, Labelled DEF PutWork, Truncate
          <5> QED
            BY <1>t, <5>1 DEF TruncateMeta, Goto, local
        <4> QED
          BY <1>3, <4>1 DEF Writing, At
      <3>3. CASE Write(r)
        <4>1. pc[r] = "write" /\ pc'[r] = "stat"
          BY <1>t, <3>3 DEF Write, Goto, At
        <4>2. side'[k] = PutMeta(r) /\ meta[r] = PutMeta(r)
          BY <1>2, <1>4, <4>1 DEF PutWork
        <4> QED
          BY <1>3, <4>1, <4>2 DEF Writing, At
      <3>4. CASE StatTarget(r) \/ Upsert(r)
        <4>1. pc[r] \in {"stat", "upsert"} /\ pc'[r] \in {"upsert", "ok"} /\ side' = side
          <5>1. pc[r] \in {"stat", "upsert"} /\ file[k] # None
            BY <1>2, <1>4, <3>4, Labelled DEF PutWork
          <5> QED
            BY <1>2, <1>t, <3>4, <5>1 DEF StatTarget, Upsert, Goto, End, File, disk
        <4> QED
          BY <1>3, <4>1 DEF Writing, At
      <3> QED
        BY <1>6, <3>1, <3>2, <3>3, <3>4, StepOf
    <2>3. Store'[k] = Store[k]
      BY <2>1, <2>2, ObjectStays
    <2>4. AnswerOf(r)' = AnswerOf(r)
      BY <1>2, <2>2, TellsClients, TellsClientsNext DEF Told
    <2> QED
      BY <1>2, <2>3, <2>4, Stutters DEF Same
  <1> QED
    BY <1>5, <1>6

LEMMA CallBasics ==
  ASSUME KeptApart, TypeInv, TempInv, ApartInv, NEW r \in Requests, Step(r), ~Walker(r),
         NEW k \in Keys, k = req[r].key
  PROVE  /\ Running(r) /\ req' = req /\ req[r] \in Calls /\ req[r] # None
         /\ pc[r] \notin {"notfound", "denied"}
         /\ Mine(r, k) /\ \A j \in Keys : Mine(r, j) => j = k
         /\ Work(r) /\ (Running(r)' => Work(r)')
         /\ ~Changes(r) => Tells(k, side[k])
         /\ Described(k) = IF Writing(r) THEN meta[r] ELSE side[k]
         /\ Described(k)' = IF Writing(r)' THEN meta'[r] ELSE side'[k]
  <1>1. /\ Running(r) /\ req' = req /\ req[r] \in Calls /\ req[r] # None /\ Work(r)
    BY StepOf, StepFrame DEF ApartInv, Working
  <1>2. KeyOf(r) = k /\ KeyOf(r)' = k /\ Mine(r, k) /\ \A j \in Keys : Mine(r, j) => j = k
    BY <1>1, WorksOn DEF Mine, KeyOf, Walker
  <1>3. Running(r)' => Work(r)'
    <2>1. ApartInv'
      BY ApartOwnStep
    <2> QED
      BY <2>1 DEF ApartInv, Working
  <1>4. /\ Described(k) = IF Writing(r) THEN meta[r] ELSE side[k]
        /\ Described(k)' = IF Writing(r)' THEN meta'[r] ELSE side'[k]
    BY <1>2, DescribedMine
  <1>5. ~Changes(r) => Tells(k, side[k])
    BY <1>1, <1>2, Story
  <1> QED
    BY <1>1, <1>2, <1>3, <1>4, <1>5 DEF Running, Ended

LEMMA StoredObject ==
  ASSUME TypeInv, NEW k \in Keys, Described(k) \in Metas
  PROVE  /\ file[k] = None => Store[k] = None
         /\ file[k] # None => Store[k] = ObjectOf(file[k], Described(k)) /\ Store[k] # None
  <1>1. file[k] # None => ObjectOf(file[k], Described(k)) # None
    <2> SUFFICES ASSUME file[k] # None
                 PROVE  ObjectOf(file[k], Described(k)) \in [bytes : Blobs, ct : Types, public : BOOLEAN]
      BY NoneIsNoObject
    <2>1. file[k] \in Blobs
      BY DEF TypeInv, TypeOK
    <2> QED
      BY <2>1, MetaFields DEF ObjectOf
  <1> QED
    BY <1>1 DEF Store

LEMMA AclImplements ==
  ASSUME KeptApart, TypeInv, TempInv, ApartInv, NEW r \in Requests, Step(r), req[r].op = "acl"
  PROVE  Abstract!SetPublic(r) \/ UNCHANGED Abstract!vars
  <1>0. ~Walker(r)
    BY DEF Walker, Walkers
  <1>1. PICK k \in Keys : k = req[r].key
    BY <1>0, StepOf, WorksOn
  <1>2. /\ Running(r) /\ req' = req /\ req[r] \in Calls /\ req[r] # None
        /\ pc[r] \notin {"notfound", "denied"}
        /\ Mine(r, k) /\ \A j \in Keys : Mine(r, j) => j = k
        /\ AclWork(r, k) /\ (Running(r)' => AclWork(r, k)')
        /\ Described(k) = IF Writing(r) THEN meta[r] ELSE side[k]
        /\ Described(k)' = IF Writing(r)' THEN meta'[r] ELSE side'[k]
    <2>1. Work(r) => AclWork(r, k)
      BY <1>1 DEF Work
    <2>2. req' = req /\ Work(r)' => AclWork(r, k)'
      BY <1>1 DEF Work
    <2> QED
      BY <1>0, <1>1, <2>1, <2>2, CallBasics
  <1>t. /\ file \in [Keys -> Blobs \cup {None}] /\ side \in [Keys -> Metas]
        /\ pc \in [Requests -> Labels] /\ meta \in [Requests -> Metas]
    BY DEF TypeInv, TypeOK
  <1>3. ASSUME file' = file, Described(k)' = Described(k), pc'[r] \notin {"notfound", "denied"},
               pc'[r] \in {"isfile", "readmeta", "trunc"} <=> pc[r] \in {"isfile", "readmeta", "trunc"}
        PROVE  UNCHANGED Abstract!vars
    <2>1. Store'[k] = Store[k]
      BY <1>3, ObjectStays
    <2>2. AnswerOf(r)' = AnswerOf(r)
      BY <1>2, <1>3, TellsClients, TellsClientsNext DEF Told
    <2> QED
      BY <1>2, <2>1, <2>2, Stutters DEF Same
  <1>4. CASE IsFile(r)
    <2>1. /\ pc[r] = "isfile" /\ file' = file /\ side' = side
          /\ pc'[r] = IF file[k] = None THEN "notfound" ELSE "readmeta"
      BY <1>0, <1>1, <1>4, <1>t DEF IsFile, Goto, At, disk, File, KeyOf
    <2>2. Described(k) = side[k] /\ Described(k)' = side[k]
      BY <1>2, <2>1 DEF Writing, At
    <2>3. CASE file[k] # None
      BY <1>3, <2>1, <2>2, <2>3
    <2>4. CASE file[k] = None
      <3>1. AnswerOf(r) = None /\ AnswerOf(r)' = [status |-> "notfound"]
        BY <1>2, <2>1, <2>4, TellsClients DEF Told, AnswerOf
      <3>2. Store[k] = None /\ Store'[k] = Store[k]
        BY <2>1, <2>2, <2>4, ObjectStays DEF Store
      <3>3. Store' = Store
        BY <1>2, <3>2, TakesEffect
      <3> QED
        BY <1>1, <1>2, <3>1, <3>2, <3>3, TakesEffect
        DEF Abstract!SetPublic, Abstract!Pending, Abstract!Answer, Abstract!Object
    <2> QED
      BY <2>3, <2>4
  <1>5. CASE ReadMeta(r)
    <2>1. pc[r] = "readmeta" /\ pc'[r] = "trunc" /\ file' = file /\ side' = side
      BY <1>5, <1>t DEF ReadMeta, Goto, At, disk
    <2>2. Described(k) = side[k] /\ Described(k)' = side[k]
      BY <1>2, <2>1 DEF Writing, At
    <2> QED
      BY <1>3, <2>1, <2>2
  <1>6. CASE Truncate(r)
    <2>1. /\ pc[r] = "trunc" /\ file[k] # None
          /\ meta[r] = [side[k] EXCEPT !.public = req[r].public]
      BY <1>2, <1>6, Labelled DEF AclWork
    <2>2. /\ file' = file /\ meta' = meta
          /\ \/ pc'[r] = "write"
             \/ pc'[r] = "getrow" /\ side'[k] = meta[r]
      <3>1. \/ UnlinkMeta(r, "getrow") /\ meta[r] = NoMeta
            \/ TruncateMeta(r, "write")
        BY <1>6 DEF Truncate
      <3>2. KeyOf(r) = k
        BY <1>0, <1>1 DEF KeyOf
      <3> QED
        BY <1>t, <3>1, <3>2 DEF UnlinkMeta, TruncateMeta, Goto, local
    <2>3. Described(k) = side[k] /\ Described(k)' = meta[r]
      BY <1>2, <2>1, <2>2 DEF Writing, At
    <2>4. meta[r].ct = side[k].ct /\ meta[r].public = req[r].public
      BY <1>t, <2>1, MetaSet
    <2>5. Store[k] = ObjectOf(file[k], side[k]) /\ Store[k] # None
      BY <1>t, <2>1, <2>3, StoredObject
    <2>6. Store'[k] = [Store[k] EXCEPT !.public = req[r].public]
      <3>1. Store'[k] = [bytes |-> file[k], ct |-> side[k].ct, public |-> req[r].public]
        BY <2>1, <2>2, <2>3, <2>4 DEF Store, ObjectOf
      <3> QED
        BY <2>5, <3>1 DEF ObjectOf
    <2>7. AnswerOf(r) = None /\ AnswerOf(r)' = [status |-> "ok"]
      BY <1>2, <2>1, <2>2, TellsClients, TellsClientsNext DEF Told
    <2>8. Store' = [Store EXCEPT ![k] = [Store[k] EXCEPT !.public = req[r].public]]
      BY <1>0, <1>1, <2>6, TakesEffect
    <2> QED
      BY <1>1, <1>2, <2>5, <2>7, <2>8, TakesEffect
      DEF Abstract!SetPublic, Abstract!Pending, Abstract!Answer, Abstract!Object
  <1>7. CASE Write(r)
    <2>1. pc[r] = "write" /\ pc'[r] = "getrow" /\ file' = file /\ meta' = meta
      BY <1>7, <1>t DEF Write, Goto, At, local
    <2>2. side'[k] = meta[r]
      BY <1>2, <2>1 DEF AclWork, Running, Ended
    <2>3. Described(k) = meta[r] /\ Described(k)' = meta[r]
      BY <1>2, <2>1, <2>2 DEF Writing, At
    <2> QED
      BY <1>3, <2>1, <2>3
  <1>8. CASE GetRow(r) \/ IfdStat(r) \/ IfdMeta(r) \/ Upsert(r)
    <2>1. /\ pc[r] \in {"getrow", "ifdStat", "ifdMeta", "upsert"} /\ file' = file /\ side' = side
          /\ pc'[r] \in {"ifdStat", "upsert", "ifdMeta", "ok"}
      <3>1. CASE GetRow(r) \/ Upsert(r)
        BY <1>t, <3>1 DEF GetRow, Upsert, Goto, End, At, disk
      <3>2. CASE IfdStat(r)
        BY <1>0, <1>1, <1>2, <1>t, <3>2, Labelled DEF IfdStat, AclWork, Goto, File, KeyOf, disk
      <3>3. CASE IfdMeta(r)
        <4>1. pc[r] = "ifdMeta" /\ side[KeyOf(r)].etag # None
          BY <1>0, <1>1, <1>2, <3>3, Labelled DEF AclWork, KeyOf
        <4>2. Indexed(r, side[KeyOf(r)]) /\ file' = file /\ side' = side
          BY <3>3, <4>1 DEF IfdMeta, disk
        <4> QED
          BY <1>0, <1>t, <4>1, <4>2 DEF Indexed, Goto
      <3> QED
        BY <1>8, <3>1, <3>2, <3>3
    <2>2. Described(k) = side[k] /\ Described(k)' = side[k]
      BY <1>2, <2>1 DEF Writing, At
    <2> QED
      BY <1>3, <2>1, <2>2
  <1> QED
    BY <1>2, <1>4, <1>5, <1>6, <1>7, <1>8, StepOf, Labelled DEF AclWork

LEMMA DeleteImplements ==
  ASSUME KeptApart, TypeInv, TempInv, ApartInv, NEW r \in Requests, Step(r), req[r].op = "delete"
  PROVE  Abstract!Delete(r) \/ UNCHANGED Abstract!vars
  <1>0. ~Walker(r)
    BY DEF Walker, Walkers
  <1>1. PICK k \in Keys : k = req[r].key
    BY <1>0, StepOf, WorksOn
  <1>2. /\ req' = req /\ req[r] # None /\ pc[r] \notin {"notfound", "denied"}
        /\ \A j \in Keys : Mine(r, j) => j = k
        /\ DeleteWork(r, k)
        /\ Described(k) = IF Writing(r) THEN meta[r] ELSE side[k]
        /\ Described(k)' = IF Writing(r)' THEN meta'[r] ELSE side'[k]
    <2>1. Work(r) => DeleteWork(r, k)
      BY <1>1 DEF Work
    <2> QED
      BY <1>0, <1>1, <2>1, CallBasics
  <1>t. /\ file \in [Keys -> Blobs \cup {None}] /\ pc \in [Requests -> Labels]
    BY DEF TypeInv, TypeOK
  <1>3. CASE RemoveFile(r)
    <2>1. pc[r] = "rmfile" /\ pc'[r] = "rmside" /\ file'[k] = None
      BY <1>1, <1>3, <1>t DEF RemoveFile, Goto, At
    <2>2. Store'[k] = None
      BY <2>1 DEF Store
    <2>3. AnswerOf(r) = None /\ AnswerOf(r)' = [status |-> "ok"]
      BY <1>2, <2>1, TellsClients, TellsClientsNext DEF Told
    <2> QED
      BY <1>0, <1>1, <1>2, <2>2, <2>3, TakesEffect
      DEF Abstract!Delete, Abstract!Pending, Abstract!Answer
  <1>4. CASE RemoveMeta(r) \/ RemoveRow(r)
    <2>1. pc[r] \in {"rmside", "rmrow"} /\ pc'[r] \in {"rmrow", "ok"} /\ file' = file
      BY <1>4, <1>t DEF RemoveMeta, UnlinkMeta, RemoveRow, Goto, End, At, disk
    <2>2. file[k] = None
      BY <1>2, <2>1 DEF DeleteWork
    <2>3. Store[k] = None /\ Store'[k] = None
      BY <2>1, <2>2 DEF Store
    <2>4. AnswerOf(r)' = AnswerOf(r)
      BY <1>2, <2>1, TellsClients, TellsClientsNext DEF Told
    <2> QED
      BY <1>2, <2>3, <2>4, Stutters DEF Same
  <1> QED
    BY <1>3, <1>4, StepOf

\* Readers leave all objects as they are.
LEMMA ReadersLeaveObjects ==
  ASSUME KeptApart, TypeInv, TempInv, ApartInv, NEW r \in Requests, Step(r), req[r].op \in Readers,
         NEW k \in Keys, Mine(r, k)
  PROVE  /\ Described(k) = side[k] /\ Described(k) \in Metas /\ Tells(k, side[k])
         /\ Store'[k] = Store[k]
  <1>1. Running(r) /\ Work(r) /\ ApartInv' /\ req' = req
    BY StepOf, StepFrame, ApartOwnStep DEF ApartInv, Working
  <1>2. ~Changes(r) /\ ~Writing(r)
    <2>1. ~Changes(r)
      BY <1>1 DEF Readers, Work, GetWork, WalkWork, Changes, Walkers
    <2> QED
      BY <2>1, WritingChanges
  <1>3. ~Writing(r)'
    <2> SUFFICES ASSUME Writing(r)' PROVE FALSE
      OBVIOUS
    <2>1. pc'[r] \in {"trunc", "write", "ifdWrite"} /\ (pc'[r] = "trunc" => req[r].op = "put")
      BY <1>1 DEF Writing, At
    <2>2. Work(r)' /\ TypeInv' /\ Running(r)'
      BY <1>1, <2>1, TypeStep DEF ApartInv, Working, Running, Ended, Next
    <2>3. Stage(r)' /\ req'[r] = req[r]
      BY <1>1, <2>2, StepOf DEF TypeInv, Placed, Place
    <2> QED
      BY <2>1, <2>2, <2>3 DEF Readers, Work, GetWork, WalkWork, Walkers, Stage, Ended, ReadLabels,
         WalkLabels, InLock, InIndexFromDisk
  <1>4. Described(k) = side[k] /\ Described(k)' = side'[k]
    BY <1>2, <1>3, DescribedMine
  <1>5. Served(k)
    BY <1>1, ReadLeaves
  <1>6. Store'[k] = Store[k]
    BY <1>4, <1>5, ObjectStays DEF Served
  <1>7. Tells(k, side[k])
    BY <1>1, <1>2, Story DEF Mine
  <1> QED
    BY <1>4, <1>6, <1>7 DEF TypeInv, TypeOK

LEMMA GetImplements ==
  ASSUME KeptApart, TypeInv, TempInv, ApartInv, NEW r \in Requests, Step(r),
         req[r].op \in {"get", "anon"}
  PROVE  Abstract!Get(r) \/ UNCHANGED Abstract!vars
  <1>0. ~Walker(r) /\ req[r].op \in Readers
    BY DEF Walker, Walkers, Readers
  <1>1. PICK k \in Keys : k = req[r].key
    BY <1>0, StepOf, WorksOn
  <1>2. /\ req' = req /\ req[r] # None /\ pc[r] \notin {"notfound", "denied"}
        /\ Mine(r, k) /\ \A j \in Keys : Mine(r, j) => j = k
        /\ GetWork(r, k)
    <2>1. Work(r) => GetWork(r, k)
      BY <1>1 DEF Work
    <2> QED
      BY <1>0, <1>1, <2>1, CallBasics
  <1>3. /\ Tells(k, side[k]) /\ Store' = Store /\ Store'[k] = Store[k]
        /\ file[k] = None => Store[k] = None
        /\ file[k] # None => Store[k] = ObjectOf(file[k], side[k]) /\ Store[k] # None
    <2>1. Described(k) = side[k] /\ Described(k) \in Metas /\ Tells(k, side[k]) /\ Store'[k] = Store[k]
      BY <1>0, <1>2, ReadersLeaveObjects
    <2>2. Store' = Store
      BY <1>2, <2>1, TakesEffect
    <2> QED
      BY <2>1, <2>2, StoredObject
  <1>t. /\ file \in [Keys -> Blobs \cup {None}] /\ pc \in [Requests -> Labels]
        /\ fd \in [Requests -> Blobs \cup {None}] /\ cur \in [Requests -> Rows \cup {None}]
    BY DEF TypeInv, TypeOK
  <1>4. pc[r] # "ok"
    BY StepOf DEF Running, Ended
  <1>5. AnswerOf(r) = None
    BY <1>2, <1>4, TellsClients DEF Told
  \* The call is under way: its client knows nothing yet.
  <1>6. ASSUME pc'[r] \notin {"ok", "notfound", "denied"} PROVE UNCHANGED Abstract!vars
    <2>1. AnswerOf(r)' = AnswerOf(r)
      BY <1>2, <1>5, <1>6, TellsClientsNext DEF Told
    <2> QED
      BY <1>2, <1>3, <2>1, Stutters DEF Same
  \* It ends, telling the client what.
  <1>7. ASSUME AnswerOf(r)' =
                 IF req[r].op = "anon" /\ (Store[k] = None \/ ~Store[k].public)
                   THEN [status |-> "denied"]
                 ELSE IF Store[k] = None THEN [status |-> "notfound"]
                 ELSE [status |-> "ok", object |-> Store[k], etag |-> Hash(Store[k].bytes)]
        PROVE  Abstract!Get(r)
    BY <1>1, <1>2, <1>3, <1>5, <1>7, TakesEffect
    DEF Abstract!Get, Abstract!Pending, Abstract!Answer, Abstract!Object
  <1>8. CASE IsPublic(r) \/ IsPublicOnDisk(r)
    <2>1. pc[r] \in {"public", "publicMeta"} /\ req[r].op = "anon"
      BY <1>2, <1>8, Labelled DEF GetWork
    <2>2. \/ pc'[r] \in {"publicMeta", "open"}
          \/ /\ pc'[r] = "denied"
             /\ (row[k] # None /\ ~row[k].public) \/ ~side[k].public
      BY <1>1, <1>8, <1>t DEF IsPublic, IsPublicOnDisk, Goto, At
    <2>3. CASE pc'[r] = "denied" /\ ((row[k] # None /\ ~row[k].public) \/ ~side[k].public)
      <3>1. file[k] # None => ~side[k].public
        BY <1>3, <2>3 DEF Tells, Fits
      <3>2. AnswerOf(r)' = [status |-> "denied"]
        BY <1>2, <2>3 DEF AnswerOf
      <3>3. Store[k] = None \/ ~Store[k].public
        BY <1>3, <3>1 DEF ObjectOf
      <3> QED
        BY <1>7, <2>1, <3>2, <3>3
    <2> QED
      BY <1>6, <2>2, <2>3
  <1>9. CASE Open(r)
    <2>1. pc[r] = "open" /\ pc'[r] = IF file[k] = None THEN "notfound" ELSE "getrow"
      BY <1>0, <1>1, <1>9, <1>t DEF Open, Goto, At, File, KeyOf
    <2>2. CASE file[k] = None
      <3>1. req[r].op = "get" /\ AnswerOf(r)' = [status |-> "notfound"]
        BY <1>2, <2>1, <2>2 DEF GetWork, AnswerOf
      <3> QED
        BY <1>3, <1>7, <2>2, <3>1
    <2> QED
      BY <1>6, <2>1, <2>2
  \* Bytes and row of an object that is there and that this client may see.
  <1>10. ASSUME pc'[r] = "ok", pc[r] \notin {"public", "publicMeta", "open"}, fd' = fd,
                Fits(cur'[r], k, side[k]), cur'[r].etag # None
         PROVE  Abstract!Get(r)
    <2>1. /\ file[k] # None /\ fd[r] = file[k]
          /\ req[r].op = "anon" => side[k].public
      BY <1>2, <1>10 DEF GetWork
    <2>2. AnswerOf(r)' = [status |-> "ok", object |-> ObjectOf(fd'[r], cur'[r]),
                          etag |-> cur'[r].etag]
      BY <1>2, <1>10, TellsClientsNext DEF Told
    <2>3. /\ ObjectOf(fd'[r], cur'[r]) = Store[k] /\ cur'[r].etag = Hash(Store[k].bytes)
          /\ Store[k].public = side[k].public /\ Store[k] # None
      BY <1>3, <1>10, <2>1 DEF ObjectOf, Fits
    <2> QED
      BY <1>7, <2>1, <2>2, <2>3
  <1>11. CASE GetRow(r)
    <2>1. /\ pc[r] = "getrow" /\ fd' = fd
          /\ \/ pc'[r] \in {"ifdStat", "hash"}
             \/ pc'[r] = "ok" /\ row[k] # None /\ cur'[r] = row[k] /\ row[k].etag # None
      BY <1>0, <1>1, <1>11, <1>t DEF GetRow, Goto, At, Readers
    <2>2. row[k] # None => Fits(row[k], k, side[k])
      BY <1>3 DEF Tells
    <2> QED
      BY <1>6, <1>10, <2>1, <2>2
  <1>12. CASE SetETag(r) \/ Upsert(r)
    <2>1. pc[r] \in {"settag", "upsert"} /\ pc'[r] = "ok" /\ fd' = fd /\ cur' = cur
      BY <1>12, <1>t DEF SetETag, Upsert, End, Goto, At, local
    <2>2. Fits(cur[r], k, side[k]) /\ cur[r].etag # None
      <3>1. file[k] \in Blobs
        BY <1>2, <1>t, <2>1 DEF GetWork
      <3>2. CASE pc[r] = "settag"
        BY <1>2, <3>1, <3>2, NoneApart DEF GetWork, Hash
      <3>3. CASE pc[r] = "upsert"
        BY <1>2, <1>3, <3>3, RowOfFields DEF GetWork, Tells, Fits, FullRow
      <3> QED
        BY <2>1, <3>2, <3>3
    <2> QED
      BY <1>10, <2>1, <2>2
  <1>13. CASE HashFile(r) \/ IfdStat(r) \/ IfdMeta(r)
    <2>1. pc'[r] \in {"settag", "ifdMeta", "upsert"}
      <3>1. file[k] # None /\ KeyOf(r) = k /\ (pc[r] = "ifdMeta" => side[k].etag # None)
        BY <1>0, <1>1, <1>2, <1>13, Labelled DEF GetWork, KeyOf
      <3>2. CASE HashFile(r) \/ IfdStat(r)
        BY <1>t, <3>1, <3>2 DEF HashFile, IfdStat, File, Goto
      <3>3. CASE IfdMeta(r)
        <4>1. Indexed(r, side[k])
          BY <3>1, <3>3 DEF IfdMeta, At
        <4> QED
          BY <1>0, <1>t, <4>1 DEF Indexed, Goto
      <3> QED
        BY <1>13, <3>2, <3>3
    <2> QED
      BY <1>6, <2>1
  <1> QED
    BY <1>2, <1>8, <1>9, <1>11, <1>12, <1>13, StepOf, Labelled DEF GetWork

\* A walk's client is answered when the index is read or a reindex has been applied.
LEMMA WalkGoes ==
  ASSUME TypeInv, NEW r \in Requests, Step(r), Walker(r)
  PROVE  /\ pc[r] \notin {"ok", "notfound", "denied"} /\ pc'[r] \notin {"notfound", "denied"}
         /\ Query(r) \/ (Apply(r) /\ req[r].op # "list") <=> pc'[r] = "ok"
  <1>t. pc \in [Requests -> Labels]
    BY DEF TypeInv, TypeOK
  <1>0. pc[r] \notin {"ok", "notfound", "denied"}
    BY StepOf DEF Running, Ended
  <1>1. CASE Query(r) \/ Apply(r)
    BY <1>0, <1>1, <1>t, Labelled DEF Query, Apply, End, Goto, At
  <1>2. CASE Visit(r)
    <2>1. Goto(r, "apply") \/ End(r, "error") \/ \E k \in scan[r].names : TakesUp(r, k)
      BY <1>2, VisitCases
    <2>2. \A k : TakesUp(r, k) => Goto(r, "walk") \/ Goto(r, "ifdStat")
      BY DEF TakesUp
    <2>3. pc'[r] \in {"apply", "error", "walk", "ifdStat"}
      BY <1>t, <2>1, <2>2 DEF End, Goto
    <2> QED
      BY <1>0, <1>2, <2>3, Labelled
  <1>3. CASE HasRows(r) \/ HasFiles(r) \/ Lock(r) \/ ReadIndex(r) \/ ReadDir(r)
    <2>1. pc'[r] \in {"query", "hasfiles", "lock", "existing", "readdir", "walk"}
      BY <1>3, <1>t DEF HasRows, HasFiles, Lock, ReadIndex, ReadDir, Goto
    <2> QED
      BY <1>0, <1>3, <2>1, Labelled
  <1>4. CASE IfdStat(r) \/ IfdHash(r) \/ IfdTruncate(r)
    <2>1. pc'[r] \in {"error", "ifdMeta", "ifdTrunc", "ifdWrite"}
      BY <1>4, <1>t DEF IfdStat, IfdHash, IfdTruncate, TruncateMeta, Goto, End
    <2> QED
      BY <1>0, <1>4, <2>1, Labelled
  <1>5. CASE IfdMeta(r) \/ IfdWrite(r)
    <2>1. pc'[r] \in {"walk", "ifdHash"}
      BY <1>5, <1>t DEF IfdMeta, IfdWrite, Indexed, Goto
    <2> QED
      BY <1>0, <1>5, <2>1, Labelled
  <1> QED
    BY <1>1, <1>2, <1>3, <1>4, <1>5, StepOf

LEMMA ListImplements ==
  ASSUME KeptApart, TypeInv, TempInv, ApartInv, NEW r \in Requests, Step(r), req[r].op = "list"
  PROVE  Abstract!List(r) \/ UNCHANGED Abstract!vars
  <1>0. Walker(r) /\ req[r].op \in Readers /\ \A k \in Keys : Mine(r, k)
    BY DEF Walker, Walkers, Readers, Mine
  <1>1. req' = req /\ req[r] # None /\ WalkWork(r)
    BY <1>0, StepOf, StepFrame, WalkBasics
  <1>2. \A k \in Keys : /\ Tells(k, side[k]) /\ Store'[k] = Store[k]
                        /\ Store[k] = None <=> file[k] = None
    BY <1>0, ReadersLeaveObjects, StoredObject
  <1>3. Store' = Store
    BY <1>2, TakesEffect
  <1>4. AnswerOf(r) = None
    BY <1>0, <1>1, WalkGoes, TellsClients DEF Told
  <1>5. CASE ~Query(r)
    <2>1. AnswerOf(r)' = AnswerOf(r)
      BY <1>0, <1>1, <1>4, <1>5, WalkGoes, TellsClientsNext DEF Told
    <2> QED
      BY <1>2, <2>1, Stutters DEF Same
  <1>6. CASE Query(r)
    <2> DEFINE shown == {k \in Keys : row[k] # None}
    <2>1. scan'[r].seen = shown
      <3>1. scan' = [scan EXCEPT ![r] = [scan[r] EXCEPT !.seen = shown]]
        BY <1>6 DEF Query
      <3>2. scan'[r] = [scan[r] EXCEPT !.seen = shown] /\ scan[r] \in Scans
        BY <3>1 DEF TypeInv, TypeOK
      <3> QED
        BY <3>2 DEF Scans
    <2>2. AnswerOf(r)' = [status |-> "ok", keys |-> shown]
      BY <1>0, <1>1, <1>6, <2>1, WalkGoes, TellsClientsNext DEF Told
    <2>3. shown \subseteq {k \in Keys : Store[k] # None}
      BY <1>2 DEF Tells
    <2>4. shown = {} => {k \in Keys : Store[k] # None} = {}
      BY <1>1, <1>2, <1>6, Labelled DEF WalkWork
    <2> QED
      BY <1>1, <1>3, <1>4, <2>2, <2>3, <2>4, TakesEffect
      DEF Abstract!List, Abstract!Pending, Abstract!Answer
  <1> QED
    BY <1>5, <1>6

\* A walk writes sidecars only to add the ETag that one lacks.
LEMMA WalkersLeaveObjects ==
  ASSUME KeptApart, TypeInv, TempInv, ApartInv, NEW r \in Requests, Step(r), Walker(r),
         NEW k \in Keys
  PROVE  Store'[k] = Store[k]
  <1>0. /\ req'[r] = req[r] /\ req[r].op \in Walkers /\ WalkWork(r) /\ KeyOf(r) = scan[r].at
        /\ KeyOf(r)' = scan'[r].at
    BY WalkBasics
  <1>1. /\ Described(k) = IF Writing(r) /\ scan[r].at = k THEN meta[r] ELSE side[k]
        /\ Described(k)' = IF Writing(r)' /\ scan'[r].at = k THEN meta'[r] ELSE side'[k]
    BY <1>0, DescribedMine DEF Mine
  <1>2. /\ Writing(r) <=> pc[r] = "ifdWrite"
        /\ Writing(r)' <=> pc'[r] = "ifdWrite"
    <2>1. pc[r] # "write" /\ pc'[r] # "write"
      <3>1. TypeInv' /\ Walker(r)' /\ req'[r] # None
        BY <1>0, StepOf, TypeStep DEF Next, Walker
      <3>2. Stage(r) /\ Stage(r)'
        BY <3>1, StepOf DEF TypeInv, Placed, Place
      <3> QED
        BY <3>1, <3>2 DEF Stage, Walker, Walkers, WalkLabels, InLock, InIndexFromDisk, Ended
    <2> QED
      BY <1>0, <2>1 DEF Writing, At, Walkers
  <1>t. /\ pc \in [Requests -> Labels] /\ meta \in [Requests -> Metas]
        /\ side \in [Keys -> Metas] /\ scan \in [Requests -> Scans]
    BY DEF TypeInv, TypeOK
  <1>3. file' = file
    BY FileWriters, StepOf, Labelled DEF Rename, RemoveFile, At
  <1>4. CASE IfdTruncate(r)
    <2>1. /\ pc[r] = "ifdTrunc" /\ pc'[r] = "ifdWrite" /\ meta' = meta /\ scan' = scan
          /\ side' = [side EXCEPT ![scan[r].at] = NoMeta]
      BY <1>0, <1>4, <1>t DEF IfdTruncate, TruncateMeta, Goto, At, local
    <2>2. CASE scan[r].at = k
      <3>1. meta[r] = [side[k] EXCEPT !.etag = Hash(file[k])]
        BY <1>0, <2>1, <2>2 DEF WalkWork
      <3>2. meta[r].ct = side[k].ct /\ meta[r].public = side[k].public
        BY <1>t, <3>1, MetaSet
      <3>3. Described(k) = side[k] /\ Described(k)' = meta[r]
        BY <1>1, <1>2, <2>1, <2>2
      <3> QED
        BY <1>3, <3>2, <3>3, ObjectStays
    <2>3. CASE scan[r].at # k
      BY <1>1, <1>3, <2>1, <2>3, ObjectStays
    <2> QED
      BY <2>2, <2>3
  <1>5. CASE IfdWrite(r)
    <2>1. /\ pc[r] = "ifdWrite" /\ side[scan[r].at] = NoMeta /\ r \in linked
      BY <1>0, <1>5, Labelled DEF WalkWork
    <2>2. pc'[r] = "walk" /\ FillMeta(r)
      BY <1>5, <1>t DEF IfdWrite, Indexed, Goto
    <2>3. side' = [side EXCEPT ![scan[r].at] = meta[r]]
      <3>1. Overlays(side[scan[r].at], meta[r]) = {meta[r]}
        BY <1>t, <2>1, WrittenWhole
      <3> QED
        BY <1>0, <2>1, <2>2, <3>1 DEF FillMeta
    <2>4. Described(k)' = side'[k]
      BY <1>1, <1>2, <2>2
    <2> QED
      BY <1>1, <1>2, <1>3, <1>t, <2>1, <2>3, <2>4, ObjectStays
  <1>6. CASE ~IfdTruncate(r) /\ ~IfdWrite(r)
    <2>1. side' = side
      <3>1. CASE HasRows(r) \/ HasFiles(r) \/ Query(r) \/ Lock(r) \/ ReadIndex(r) \/ ReadDir(r)
                 \/ Visit(r) \/ Apply(r)
        BY <3>1, VisitCases DEF HasRows, HasFiles, Query, Lock, ReadIndex, ReadDir, Apply, disk
      <3>2. CASE IfdStat(r) \/ IfdMeta(r) \/ IfdHash(r)
        BY <3>2 DEF IfdStat, IfdMeta, IfdHash, disk
      <3> QED
        BY <1>6, <3>1, <3>2, StepOf
    <2>2. pc[r] # "ifdWrite" /\ pc'[r] # "ifdWrite"
      <3>1. pc[r] # "ifdWrite"
        BY <1>6, StepOf, Labelled
      <3>2. CASE IfdStat(r) \/ IfdMeta(r) \/ IfdHash(r)
        BY <1>0, <1>t, <3>1, <3>2 DEF Walker, IfdStat, IfdMeta, IfdHash, Indexed, Goto, End
      <3>3. CASE HasRows(r) \/ HasFiles(r) \/ Lock(r) \/ ReadIndex(r) \/ ReadDir(r)
                 \/ Query(r) \/ Apply(r)
        BY <1>t, <3>1, <3>3 DEF HasRows, HasFiles, Lock, ReadIndex, ReadDir, Query, Apply, Goto, End
      <3>4. CASE Visit(r)
        <4>1. Goto(r, "apply") \/ End(r, "error") \/ \E j \in scan[r].names : TakesUp(r, j)
          BY <3>4, VisitCases
        <4>2. \A j : TakesUp(r, j) => Goto(r, "walk") \/ Goto(r, "ifdStat")
          BY DEF TakesUp
        <4> QED
          BY <1>t, <3>1, <4>1, <4>2 DEF End, Goto
      <3> QED
        BY <1>6, <3>1, <3>2, <3>3, <3>4, StepOf
    <2> QED
      BY <1>1, <1>2, <1>3, <2>1, <2>2, ObjectStays
  <1> QED
    BY <1>4, <1>5, <1>6

LEMMA ReindexImplements ==
  ASSUME KeptApart, TypeInv, TempInv, ApartInv, NEW r \in Requests, Step(r),
         req[r].op \in {"reindex", "startup"}
  PROVE  Abstract!Reindex(r) \/ UNCHANGED Abstract!vars
  <1>1. Walker(r) /\ req' = req /\ req[r] # None
    BY StepOf, StepFrame DEF Walker, Walkers
  <1>2. (\A k \in Keys : Store'[k] = Store[k]) /\ Store' = Store
    BY <1>1, WalkersLeaveObjects, TakesEffect
  <1>3. AnswerOf(r) = None
    BY <1>1, WalkGoes, TellsClients DEF Told
  <1>4. CASE pc'[r] = "ok"
    <2>1. AnswerOf(r)' = [status |-> "ok"]
      BY <1>1, <1>4, TellsClientsNext DEF Told
    <2> QED
      BY <1>1, <1>2, <1>3, <2>1, TakesEffect
      DEF Abstract!Reindex, Abstract!Pending, Abstract!Answer
  <1>5. CASE pc'[r] # "ok"
    <2>1. AnswerOf(r)' = None
      BY <1>1, <1>5, WalkGoes, TellsClientsNext DEF Told
    <2> QED
      BY <1>2, <1>3, <2>1, Stutters DEF Same
  <1> QED
    BY <1>4, <1>5

LEMMA ArrivalImplements ==
  ASSUME KeptApart, TypeInv, TempInv, ApartInv, NEW r \in Requests, Start(r)
  PROVE  Abstract!Arrive(r)
  <1>1. PICK c \in Calls : req' = [req EXCEPT ![r] = c] /\ Goto(r, Entry[c.op])
    BY DEF Start
  <1>2. /\ pc[r] = "idle" /\ req'[r] = c /\ pc'[r] = Entry[c.op]
        /\ UNCHANGED <<file, side, fd, meta, cur, scan>>
        /\ \A q \in Requests \ {r} : pc'[q] = pc[q] /\ req'[q] = req[q]
    BY <1>1 DEF Start, At, Goto, TypeInv, TypeOK, disk, local
  <1>3. req[r] = None
    BY <1>2 DEF TypeInv, Placed, Place, Stage, PutLabels, ReadLabels, AclLabels, WalkLabels,
       InLock, InIndexFromDisk, Ended
  <1>4. AnswerOf(r) = None /\ AnswerOf(r)' = None
    <2>1. /\ c.op = "put" => pc'[r] = "mktemp"
          /\ c.op = "get" => pc'[r] = "open"
          /\ c.op = "anon" => pc'[r] = "public"
          /\ c.op = "acl" => pc'[r] = "isfile"
          /\ c.op = "delete" => pc'[r] = "rmfile"
          /\ c.op = "list" => pc'[r] = "hasrows"
          /\ c.op \in {"reindex", "startup"} => pc'[r] = "lock"
          /\ c.op \in AllOps /\ pc'[r] # "idle" /\ c # None
      BY <1>2, CallFields, NoneApart DEF Entry, AllOps
    <2>2. pc'[r] \notin {"notfound", "denied", "ok"}
      BY <2>1 DEF AllOps
    <2>3. AnswerOf(r)' = None
      BY <1>2, <2>1, <2>2 DEF AnswerOf, Effective, At
    <2> QED
      BY <1>3, <2>3 DEF AnswerOf
  <1>5. \A q \in Requests : AnswerOf(q)' = AnswerOf(q)
    BY <1>2, <1>4, AnswersOfOthers DEF Still
  <1>6. Store' = Store
    <2>1. TypeInv' /\ ApartInv'
      BY TypeStep, ApartStart DEF Next
    <2>2. ~Writing(r) /\ ~Writing(r)'
      <3>1. ~Writing(r)
        BY <1>2 DEF Writing, At
      <3>2. pc'[r] \notin {"trunc", "write", "ifdWrite"}
        BY <1>2, CallFields DEF Entry, AllOps
      <3> QED
        BY <3>1, <3>2 DEF Writing, At
    <2>3. \A q \in Requests \ {r} : Writing(q)' <=> Writing(q)
      BY <1>2 DEF Writing, At
    <2>4. \A q \in Requests \ {r} : KeyOf(q)' = KeyOf(q)
      BY <1>2 DEF KeyOf, Walker
    <2>5. \A k \in Keys : Described(k)' = Described(k)
      BY <1>2, <2>1, <2>2, <2>3, <2>4, DescribedBy, DescribedByNext DEF DescribedByWriter
    <2>6. \A k \in Keys : Store'[k] = Store[k]
      BY <1>2, <2>5, ObjectStays
    <2> QED
      BY <2>6 DEF Store
  <1>7. [q \in Requests |-> AnswerOf(q)]' = [q \in Requests |-> AnswerOf(q)]
    BY <1>5
  <1> QED
    BY <1>1, <1>3, <1>6, <1>7 DEF Abstract!Arrive

LEMMA StepImplements ==
  ASSUME KeptApart, TypeInv, TempInv, ApartInv, [Next]_vars
  PROVE  [Abstract!Next]_(Abstract!vars)
  <1>1. ASSUME NEW r \in Requests, Start(r) PROVE Abstract!Next
    BY <1>1, ArrivalImplements DEF Abstract!Next
  <1>2. ASSUME NEW r \in Requests, Step(r) PROVE [Abstract!Next]_(Abstract!vars)
    <2>1. req[r].op \in AllOps
      BY <1>2, StepOf, OpsOf
    <2>2. \/ Abstract!Put(r) \/ Abstract!SetPublic(r) \/ Abstract!Delete(r) \/ Abstract!Get(r)
          \/ Abstract!List(r) \/ Abstract!Reindex(r)
          \/ UNCHANGED Abstract!vars
      BY <1>2, <2>1, PutImplements, AclImplements, DeleteImplements, GetImplements,
         ListImplements, ReindexImplements DEF AllOps
    <2> QED
      BY <2>2 DEF Abstract!Next
  <1>3. CASE UNCHANGED vars
    <2>1. UNCHANGED <<file, side, req, pc, fd, meta, cur, scan>>
      BY <1>3 DEF vars, disk, local, env
    <2>2. \A q \in Requests : AnswerOf(q)' = AnswerOf(q)
      BY <2>1, AnswersOfOthers DEF Still
    <2>3. \A k \in Keys : Described(k)' = Described(k)
      BY <2>1 DEF Described, Writing, At, KeyOf, Walker
    <2>4. Store' = Store
      BY <2>1, <2>3 DEF Store, ObjectOf
    <2>5. [q \in Requests |-> AnswerOf(q)]' = [q \in Requests |-> AnswerOf(q)]
      BY <2>2
    <2> QED
      BY <2>1, <2>4, <2>5 DEF Abstract!vars
  <1> QED
    BY <1>1, <1>2, <1>3, NothingFails

LEMMA InitImplements == Init => Abstract!Init
  <1> SUFFICES ASSUME Init PROVE Abstract!Init
    OBVIOUS
  <1>1. PICK how \in [Keys -> InitStates] :
          /\ file = [k \in Keys |-> Stored(k, how[k]).file]
          /\ side = [k \in Keys |-> Stored(k, how[k]).side]
    BY DEF Init
  <1>2. /\ req = [r \in Requests |-> None] /\ \A r \in Requests : pc[r] = "idle"
    BY DEF Init
  <1>3. \A k \in Keys : Described(k) = side[k]
    BY <1>2 DEF Described, Writing, At
  <1>4. ASSUME NEW k \in Keys PROVE Store[k] \in SeedsOf(k)
    <2>1. Store[k] = LET s == Stored(k, how[k])
                     IN IF s.file = None THEN None ELSE ObjectOf(s.file, s.side)
      BY <1>1, <1>3 DEF Store
    <2> QED
      BY <2>1 DEF SeedsOf
  <1>5. Store \in [Keys -> UNION {SeedsOf(k) : k \in Keys}]
    BY <1>4 DEF Store
  <1>6. [r \in Requests |-> AnswerOf(r)] = [r \in Requests |-> None]
    BY <1>2 DEF AnswerOf
  <1> QED
    BY <1>2, <1>4, <1>5, <1>6 DEF Abstract!Init

\* On the terms of KeptApart, under which nothing overlaps a PUT, an ACL change, a DELETE or
\* a reindex of the key and no two GETs write one sidecar, clients see a store on which each
\* of their calls acts at one moment: a PUT when its file is renamed into place,
\* an ACL change when it takes hold of the sidecar, a DELETE when it unlinks the file.
THEOREM CallsActAtomically ==
  ASSUME KeptApart
  PROVE  Spec => ActsAtomically
  <1>1. TypeInv /\ TempInv /\ ApartInv /\ [Next]_vars => [Abstract!Next]_(Abstract!vars)
    BY StepImplements
  <1> QED
    BY <1>1, InitImplements, ApartInvariant, PTL DEF Spec, ActsAtomically, Abstract!Spec

-----------------------------------------------------------------------------
(* What a reindex that runs alone restores, whatever crashed or failed before *)
(* it and may fail in it.                                                     *)

\* No call overlaps a walk.
WalksApart == MayOverlap \subseteq (AllOps \ Walkers) \X (AllOps \ Walkers)

WalksAlone ==
  \A q, r \in Requests : q # r /\ Running(q) /\ Running(r) => ~Walker(r)

\* What a walk has found out about a key it is through with.
Found(r, k) ==
  IF scan[r].upserts[k] # None
    THEN scan[r].upserts[k] = FullRow(k) /\ side[k].etag # None
    ELSE ~Forced(r) /\ row[k] # None /\ row[k].etag # None /\ row[k].size = file[k].n

Rebuilds(r) ==
  LET s == scan[r]  at == scan[r].at IN
  /\ pc[r] \in {"hasrows", "hasfiles", "lock", "existing", "readdir"} =>
       s.seen = {} /\ \A k \in Keys : s.upserts[k] = None
  /\ pc[r] \in {"readdir", "walk", "apply"} \cup InIndexFromDisk => s.existing = row
  /\ pc[r] \in {"walk", "apply"} \cup InIndexFromDisk =>
       /\ s.names \cap s.seen = {}
       /\ \A k \in Keys : file[k] # None <=> k \in s.names \cup s.seen
       /\ \A k \in Keys : s.upserts[k] # None => k \in Done(r)
       /\ \A k \in Done(r) : Found(r, k)
  /\ pc[r] = "apply" => s.names = {}
  /\ pc[r] \in InIndexFromDisk => at \in s.seen
  /\ pc[r] \in InIndexFromDisk \ {"ifdStat"} => cur[r].size = file[at].n
  /\ pc[r] \in {"ifdTrunc", "ifdWrite"} => meta[r].etag # None
  /\ pc[r] = "ifdWrite" => side[at] = NoMeta /\ r \in linked

Rebuilding == \A r \in Requests : Running(r) /\ Walker(r) => Rebuilds(r)
RebuildInv == WalksAlone /\ Fresh /\ Rebuilding

LEMMA RebuildBasics ==
  ASSUME TypeInv, RebuildInv, NEW r \in Requests, Step(r), Walker(r)
  PROVE  /\ Running(r) /\ req'[r] = req[r] /\ Rebuilds(r) /\ scan[r] \in Scans
         /\ pc \in [Requests -> Labels] /\ scan \in [Requests -> Scans]
         /\ pc[r] \in InIndexFromDisk => KeyOf(r) = scan[r].at /\ scan[r].at \in Keys
         /\ Forced(r)' <=> Forced(r)
  <1>1. Running(r) /\ req'[r] = req[r]
    BY StepOf, StepFrame
  <1>2. Rebuilds(r)
    BY <1>1 DEF RebuildInv, Rebuilding
  <1>3. /\ scan[r] \in Scans /\ scan \in [Requests -> Scans] /\ pc \in [Requests -> Labels]
    BY DEF TypeInv, TypeOK
  <1>4. pc[r] \in InIndexFromDisk => KeyOf(r) = scan[r].at /\ scan[r].at \in Keys
    BY <1>1, KeyOfType DEF InIndexFromDisk, InLock, KeyOf
  <1> QED
    BY <1>1, <1>2, <1>3, <1>4 DEF Forced

LEMMA RebuildStarts ==
  ASSUME TypeInv, RebuildInv, NEW r \in Requests, Step(r), Walker(r),
         HasRows(r) \/ HasFiles(r) \/ Query(r) \/ Lock(r) \/ ReadIndex(r) \/ ReadDir(r)
  PROVE  Rebuilds(r)'
  <1>0. /\ Running(r) /\ Rebuilds(r) /\ scan[r] \in Scans
        /\ pc \in [Requests -> Labels] /\ scan \in [Requests -> Scans]
    BY RebuildBasics
  <1>1. /\ file' = file /\ side' = side /\ row' = row
    BY DEF HasRows, HasFiles, Query, Lock, ReadIndex, ReadDir, disk
  <1>2. ASSUME HasRows(r) \/ HasFiles(r) \/ Lock(r) PROVE Rebuilds(r)'
    <2>1. /\ pc[r] \in {"hasrows", "hasfiles", "lock"} /\ scan' = scan
          /\ pc'[r] \in {"hasfiles", "query", "lock", "existing"}
      BY <1>0, <1>2 DEF HasRows, HasFiles, Lock, At, Goto, local
    <2> QED
      BY <1>0, <2>1 DEF Rebuilds, InIndexFromDisk
  <1>3. ASSUME Query(r) PROVE Rebuilds(r)'
    <2>1. pc'[r] = "ok"
      BY <1>0, <1>3 DEF Query, End, Goto
    <2> QED
      BY <2>1 DEF Rebuilds, InIndexFromDisk
  <1>4. ASSUME ReadIndex(r) PROVE Rebuilds(r)'
    <2>1. /\ pc[r] = "existing" /\ pc'[r] = "readdir"
          /\ scan' = [scan EXCEPT ![r] = [scan[r] EXCEPT !.existing = row]]
      BY <1>0, <1>4 DEF ReadIndex, At, Goto
    <2>2. scan'[r] = [scan[r] EXCEPT !.existing = row]
      BY <1>0, <2>1
    <2>3. /\ scan'[r].existing = row /\ scan'[r].seen = scan[r].seen
          /\ scan'[r].upserts = scan[r].upserts
      BY <1>0, <2>2 DEF Scans
    <2> QED
      BY <1>0, <1>1, <2>1, <2>3 DEF Rebuilds, InIndexFromDisk
  <1>5. ASSUME ReadDir(r) PROVE Rebuilds(r)'
    <2>1. /\ pc[r] = "readdir" /\ pc'[r] = "walk"
          /\ scan' = [scan EXCEPT ![r] = [scan[r] EXCEPT !.names = {k \in Keys : file[k] # None}]]
      BY <1>0, <1>5 DEF ReadDir, At, Goto
    <2>2. scan'[r] = [scan[r] EXCEPT !.names = {k \in Keys : file[k] # None}]
      BY <1>0, <2>1
    <2>3. /\ scan'[r].existing = scan[r].existing /\ scan'[r].seen = scan[r].seen
          /\ scan'[r].upserts = scan[r].upserts /\ scan'[r].names = {k \in Keys : file[k] # None}
      BY <1>0, <2>2 DEF Scans
    <2>4. scan'[r].seen = {} /\ Done(r)' = {}
      BY <1>0, <2>1, <2>3 DEF Rebuilds, Done
    <2> QED
      BY <1>0, <1>1, <2>1, <2>3, <2>4 DEF Rebuilds, InIndexFromDisk
  <1> QED
    BY <1>2, <1>3, <1>4, <1>5

LEMMA RebuildVisits ==
  ASSUME TypeInv, RebuildInv, NEW r \in Requests, Step(r), Walker(r), Visit(r)
  PROVE  Running(r)' => Rebuilds(r)'
  <1>0. /\ Running(r) /\ Rebuilds(r) /\ scan[r] \in Scans
        /\ pc \in [Requests -> Labels] /\ scan \in [Requests -> Scans]
        /\ Forced(r)' <=> Forced(r)
    BY RebuildBasics
  <1>1. file' = file /\ side' = side /\ row' = row /\ pc[r] = "walk"
    BY VisitCases
  <1>2. \A j \in Keys : Found(r, j)' <=>
          IF scan'[r].upserts[j] # None
            THEN scan'[r].upserts[j] = FullRow(j) /\ side[j].etag # None
            ELSE ~Forced(r) /\ row[j] # None /\ row[j].etag # None /\ row[j].size = file[j].n
    BY <1>0, <1>1 DEF Found, FullRow
  <1>3. CASE scan[r].names = {}
    <2>1. scan' = scan /\ pc'[r] = "apply"
      BY <1>0, <1>3, VisitCases DEF Goto
    <2>2. Done(r)' = Done(r)
      BY <1>1, <2>1 DEF Done, InIndexFromDisk
    <2>3. Done(r) \subseteq Keys
      BY <1>0, ScanFields DEF Done
    <2> QED
      BY <1>0, <1>1, <1>2, <1>3, <2>1, <2>2, <2>3 DEF Rebuilds, InIndexFromDisk, Found
  <1>4. CASE scan[r].names # {}
    <2>1. PICK k \in scan[r].names : IF file[k] = None THEN End(r, "error") ELSE TakesUp(r, k)
      BY <1>4, VisitCases
    <2>2. k \in Keys /\ file[k] # None /\ k \notin scan[r].seen
      <3>1. scan[r].names \subseteq Keys
        BY <1>0, ScanFields
      <3> QED
        BY <1>0, <1>1, <3>1 DEF Rebuilds
    <2>3. /\ scan' = [scan EXCEPT ![r] =
                        [scan[r] EXCEPT !.names = @ \ {k}, !.seen = @ \cup {k}, !.at = k]]
          /\ pc'[r] = IF UpToDate(r, k) THEN "walk" ELSE "ifdStat"
      BY <1>0, <2>1, <2>2 DEF Goto, TakesUp
    <2>4. scan'[r] = [scan[r] EXCEPT !.names = @ \ {k}, !.seen = @ \cup {k}, !.at = k]
      BY <1>0, <2>3
    <2>5. /\ scan'[r].existing = scan[r].existing /\ scan'[r].seen = scan[r].seen \cup {k}
          /\ scan'[r].upserts = scan[r].upserts /\ scan'[r].names = scan[r].names \ {k}
          /\ scan'[r].at = k
      BY <1>0, <2>4 DEF Scans
    <2>6. Done(r) = scan[r].seen /\ Done(r) \subseteq Keys
      BY <1>0, <1>1, ScanFields DEF Done, InIndexFromDisk
    <2>7. /\ pc'[r] = "walk" => Done(r)' = scan[r].seen \cup {k}
          /\ pc'[r] = "ifdStat" => Done(r)' = scan[r].seen
      BY <2>2, <2>3, <2>5 DEF Done, InIndexFromDisk
    <2>8. scan[r].upserts[k] = None
      BY <1>0, <1>1, <2>2, <2>6 DEF Rebuilds
    <2>9. UpToDate(r, k) => Found(r, k)'
      BY <1>0, <1>1, <1>2, <2>2, <2>5, <2>8 DEF UpToDate, Rebuilds
    <2>10. \A j \in Done(r)' : Found(r, j)'
      <3>1. \A j \in Done(r) : Found(r, j)'
        BY <1>0, <1>1, <1>2, <2>5, <2>6 DEF Rebuilds, Found
      <3> QED
        BY <2>3, <2>6, <2>7, <2>9, <3>1
    <2>11. \A j \in Keys : scan'[r].upserts[j] # None => j \in Done(r)'
      BY <1>0, <1>1, <2>3, <2>5, <2>6, <2>7 DEF Rebuilds
    <2>12. /\ scan'[r].names \cap scan'[r].seen = {}
           /\ \A j \in Keys : file[j] # None <=> j \in scan'[r].names \cup scan'[r].seen
           /\ scan'[r].existing = row
      BY <1>0, <1>1, <2>1, <2>2, <2>5 DEF Rebuilds
    <2> QED
      BY <1>1, <2>3, <2>5, <2>10, <2>11, <2>12 DEF Rebuilds, InIndexFromDisk
  <1> QED
    BY <1>3, <1>4

LEMMA RebuildReads ==
  ASSUME TypeInv, RebuildInv, NEW r \in Requests, Step(r), Walker(r),
         IfdStat(r) \/ IfdHash(r) \/ IfdTruncate(r)
  PROVE  Rebuilds(r)'
  <1>0. /\ Running(r) /\ Rebuilds(r) /\ scan[r] \in Scans
        /\ pc \in [Requests -> Labels] /\ scan \in [Requests -> Scans]
        /\ pc[r] \in InIndexFromDisk => KeyOf(r) = scan[r].at /\ scan[r].at \in Keys
        /\ Forced(r)' <=> Forced(r)
    BY RebuildBasics
  <1>t. /\ meta \in [Requests -> Metas] /\ side \in [Keys -> Metas]
        /\ cur \in [Requests -> Rows \cup {None}] /\ file \in [Keys -> Blobs \cup {None}]
    BY DEF TypeInv, TypeOK
  <1>1. pc[r] \in {"ifdStat", "ifdHash", "ifdTrunc"} /\ pc[r] \in InIndexFromDisk
    BY Labelled DEF InIndexFromDisk
  <1>2. PICK at \in Keys : at = scan[r].at
    BY <1>0, <1>1
  <1>3. KeyOf(r) = at /\ at \in scan[r].seen /\ file[at] # None /\ at \notin Done(r)
    BY <1>0, <1>1, <1>2 DEF Rebuilds, Done
  \* What these steps have in common.
  <1>4. ASSUME scan' = scan, file' = file, row' = row, pc'[r] \in InIndexFromDisk,
               \A j \in Keys \ {at} : side'[j] = side[j],
               cur'[r].size = file[at].n,
               pc'[r] \in {"ifdTrunc", "ifdWrite"} => meta'[r].etag # None,
               pc'[r] = "ifdWrite" => side'[at] = NoMeta /\ r \in linked'
        PROVE  Rebuilds(r)'
    <2>1. Done(r)' = Done(r) /\ Done(r) \subseteq Keys \ {at}
      BY <1>0, <1>1, <1>3, <1>4, ScanFields DEF Done
    <2>2. \A j \in Done(r) : Found(r, j)' <=> Found(r, j)
      BY <1>0, <1>4, <2>1 DEF Found, FullRow
    <2>3. /\ scan[r].existing = row /\ scan[r].names \cap scan[r].seen = {}
          /\ \A j \in Keys : file[j] # None <=> j \in scan[r].names \cup scan[r].seen
          /\ \A j \in Keys : scan[r].upserts[j] # None => j \in Done(r)
          /\ \A j \in Done(r) : Found(r, j)'
      BY <1>0, <1>1, <2>1, <2>2 DEF Rebuilds
    <2> QED
      BY <1>2, <1>3, <1>4, <2>1, <2>3 DEF Rebuilds, InIndexFromDisk
  <1>5. CASE IfdStat(r)
    <2>1. /\ file' = file /\ side' = side /\ row' = row /\ scan' = scan
          /\ cur'[r].size = file[at].n /\ pc'[r] = "ifdMeta"
      BY <1>0, <1>3, <1>5, <1>t, RowOfFields DEF IfdStat, Goto, File, disk
    <2> QED
      BY <1>4, <2>1 DEF InIndexFromDisk
  <1>6. CASE IfdHash(r)
    <2>1. /\ file' = file /\ side' = side /\ row' = row /\ scan' = scan /\ cur' = cur
          /\ meta' = [meta EXCEPT ![r].etag = Hash(file[at])] /\ pc'[r] = "ifdTrunc"
          /\ pc[r] = "ifdHash"
      BY <1>0, <1>3, <1>6, <1>t DEF IfdHash, Goto, At, File, disk
    <2>2. meta'[r] = [meta[r] EXCEPT !.etag = Hash(file[at])] /\ meta[r] \in Metas
      BY <1>t, <2>1
    <2>3. meta'[r].etag # None
      BY <1>3, <1>t, <2>2, MetaSet DEF Hash
    <2>4. cur'[r].size = file[at].n
      BY <1>0, <1>2, <2>1 DEF Rebuilds, InIndexFromDisk
    <2> QED
      BY <1>4, <2>1, <2>3, <2>4 DEF InIndexFromDisk
  <1>7. CASE IfdTruncate(r)
    <2>1. /\ file' = file /\ side' = [side EXCEPT ![at] = NoMeta] /\ row' = row /\ scan' = scan
          /\ cur' = cur /\ meta' = meta /\ r \in linked' /\ pc'[r] = "ifdWrite" /\ pc[r] = "ifdTrunc"
      BY <1>0, <1>3, <1>7, <1>t DEF IfdTruncate, TruncateMeta, Goto, At, local
    <2>2. meta'[r].etag # None /\ cur'[r].size = file[at].n
      BY <1>0, <1>2, <2>1 DEF Rebuilds, InIndexFromDisk
    <2>3. side'[at] = NoMeta /\ \A j \in Keys \ {at} : side'[j] = side[j]
      BY <1>t, <2>1
    <2> QED
      BY <1>4, <2>1, <2>2, <2>3 DEF InIndexFromDisk
  <1> QED
    BY <1>5, <1>6, <1>7

LEMMA RebuildIndexes ==
  ASSUME TypeInv, RebuildInv, NEW r \in Requests, Step(r), Walker(r), IfdMeta(r) \/ IfdWrite(r)
  PROVE  Rebuilds(r)'
  <1>0. /\ Running(r) /\ Rebuilds(r) /\ scan[r] \in Scans
        /\ pc \in [Requests -> Labels] /\ scan \in [Requests -> Scans]
        /\ pc[r] \in InIndexFromDisk => KeyOf(r) = scan[r].at /\ scan[r].at \in Keys
        /\ Forced(r)' <=> Forced(r)
    BY RebuildBasics
  <1>t. /\ meta \in [Requests -> Metas] /\ side \in [Keys -> Metas]
        /\ cur \in [Requests -> Rows \cup {None}] /\ file \in [Keys -> Blobs \cup {None}]
    BY DEF TypeInv, TypeOK
  <1>1. pc[r] \in {"ifdMeta", "ifdWrite"} /\ pc[r] \in InIndexFromDisk
    BY Labelled DEF InIndexFromDisk
  <1>2. PICK at \in Keys : at = scan[r].at
    BY <1>0, <1>1
  <1>3. /\ KeyOf(r) = at /\ at \in scan[r].seen /\ at \notin Done(r)
        /\ cur[r].size = file[at].n /\ cur[r] \in Rows
    BY <1>0, <1>1, <1>2, <1>t DEF Rebuilds, Done, TypeInv, Placed, Place
  <1>4. Done(r) \subseteq Keys \ {at}
    BY <1>0, <1>3, ScanFields DEF Done
  <1>5. /\ scan[r].existing = row /\ scan[r].names \cap scan[r].seen = {}
        /\ \A j \in Keys : file[j] # None <=> j \in scan[r].names \cup scan[r].seen
        /\ \A j \in Keys : scan[r].upserts[j] # None => j \in Done(r)
        /\ \A j \in Done(r) : Found(r, j)
    BY <1>0, <1>1 DEF Rebuilds
  <1>6. ASSUME NEW m \in Metas, Indexed(r, m), file' = file, row' = row,
               m.etag # None, side'[at] = m, \A j \in Keys \ {at} : side'[j] = side[j]
        PROVE  Rebuilds(r)'
    <2>1. /\ scan' = [scan EXCEPT ![r] = [scan[r] EXCEPT !.upserts[at] = FullRow(at)']]
          /\ pc'[r] = "walk"
      <3>1. RowOf(cur[r].size, m) = FullRow(at)'
        BY <1>3, <1>6 DEF FullRow
      <3> QED
        BY <1>0, <1>2, <1>6, <3>1 DEF Indexed, Goto
    <2>2. scan'[r] = [scan[r] EXCEPT !.upserts[at] = FullRow(at)']
      BY <1>0, <2>1
    <2>3. /\ scan'[r].existing = scan[r].existing /\ scan'[r].names = scan[r].names
          /\ scan'[r].seen = scan[r].seen /\ scan'[r].upserts[at] = FullRow(at)'
          /\ \A j \in Keys \ {at} : scan'[r].upserts[j] = scan[r].upserts[j]
      BY <1>0, <2>2, Collected
    <2>4. Done(r)' = Done(r) \cup {at}
      BY <1>1, <1>2, <1>3, <2>1, <2>3 DEF Done, InIndexFromDisk
    <2>5. FullRow(at)' # None
      <3>1. FullRow(at)' = RowOf(cur[r].size, m)
        BY <1>3, <1>6 DEF FullRow
      <3> QED
        BY <1>3, <1>6, <3>1, RowFields, RowOfType, NoneApart
    <2>6. Found(r, at)'
      BY <1>6, <2>3, <2>5 DEF Found
    <2>7. \A j \in Done(r) : Found(r, j)'
      BY <1>0, <1>4, <1>5, <1>6, <2>3 DEF Found, FullRow
    <2>8. \A j \in Keys : scan'[r].upserts[j] # None => j \in Done(r)'
      BY <1>5, <2>3, <2>4
    <2> QED
      BY <1>5, <1>6, <2>1, <2>3, <2>4, <2>6, <2>7, <2>8 DEF Rebuilds, InIndexFromDisk
  <1>7. CASE IfdMeta(r)
    <2>1. /\ file' = file /\ side' = side /\ row' = row /\ pc[r] = "ifdMeta"
          /\ \/ side[at].etag # None /\ Indexed(r, side[at])
             \/ side[at].etag = None /\ pc'[r] = "ifdHash" /\ cur' = cur /\ scan' = scan
      BY <1>0, <1>3, <1>7 DEF IfdMeta, Goto, At, disk
    <2>2. CASE side[at].etag # None /\ Indexed(r, side[at])
      BY <1>6, <1>t, <2>1, <2>2
    <2>3. CASE pc'[r] = "ifdHash" /\ cur' = cur /\ scan' = scan
      <3>1. Done(r)' = Done(r) /\ \A j \in Keys : Found(r, j)' <=> Found(r, j)
        BY <1>0, <1>1, <2>1, <2>3 DEF Done, InIndexFromDisk, Found, FullRow
      <3> QED
        BY <1>2, <1>3, <1>4, <1>5, <2>1, <2>3, <3>1 DEF Rebuilds, InIndexFromDisk
    <2> QED
      BY <2>1, <2>2, <2>3
  <1>8. CASE IfdWrite(r)
    <2>1. side[at] = NoMeta /\ r \in linked /\ meta[r].etag # None /\ meta[r] \in Metas
      BY <1>0, <1>2, <1>8, <1>t, Labelled DEF Rebuilds
    <2>2. file' = file /\ row' = row /\ FillMeta(r) /\ Indexed(r, meta[r])
      BY <1>8 DEF IfdWrite
    <2>3. side' = [side EXCEPT ![at] = meta[r]]
      <3>1. Overlays(side[at], meta[r]) = {meta[r]}
        BY <2>1, WrittenWhole
      <3> QED
        BY <1>3, <2>1, <2>2, <3>1 DEF FillMeta
    <2>4. side'[at] = meta[r] /\ \A j \in Keys \ {at} : side'[j] = side[j]
      BY <1>t, <2>3
    <2> QED
      BY <1>6, <2>1, <2>2, <2>4
  <1> QED
    BY <1>7, <1>8

\* What a walk that got as far writes to the index is the directory.
LEMMA RebuildApplies ==
  ASSUME TypeInv, RebuildInv, NEW r \in Requests, Step(r), Walker(r), Apply(r)
  PROVE  Rebuilt(r) /\ Rebuilds(r)'
  <1>0. /\ Running(r) /\ Rebuilds(r) /\ pc \in [Requests -> Labels]
    BY RebuildBasics
  <1>1. /\ pc[r] = "apply" /\ file' = file /\ side' = side
        /\ pc'[r] \in {"query", "ok"}
        /\ row' = [k \in Keys |-> IF scan[r].upserts[k] # None THEN scan[r].upserts[k]
                            ELSE IF scan[r].existing[k] # None /\ k \notin scan[r].seen THEN None
                            ELSE row[k]]
    BY <1>0 DEF Apply, At, End, Goto, disk
  <1>2. /\ Done(r) = scan[r].seen /\ scan[r].existing = row
        /\ \A k \in Keys : file[k] # None <=> k \in scan[r].seen
        /\ \A k \in Keys : scan[r].upserts[k] # None => k \in scan[r].seen
        /\ \A k \in scan[r].seen : Found(r, k)
    BY <1>0, <1>1 DEF Rebuilds, Done, InIndexFromDisk
  <1>3. ASSUME NEW k \in Keys, file[k] = None PROVE row'[k] = None
    BY <1>1, <1>2, <1>3
  <1>4. ASSUME NEW k \in Keys, file[k] # None
        PROVE  /\ row'[k] # None /\ row'[k].size = file[k].n /\ row'[k].etag # None
               /\ Forced(r) => row'[k] = RowOf(file[k].n, side[k])
    <2>1. Found(r, k) /\ k \in scan[r].seen
      BY <1>2, <1>4
    <2>2. CASE scan[r].upserts[k] # None
      BY <1>1, <2>1, <2>2, RowOfFields DEF Found, FullRow
    <2>3. CASE scan[r].upserts[k] = None
      BY <1>1, <2>1, <2>3 DEF Found
    <2> QED
      BY <2>2, <2>3
  <1>5. Rebuilds(r)'
    BY <1>1 DEF Rebuilds, InIndexFromDisk
  <1> QED
    BY <1>3, <1>4, <1>5 DEF Rebuilt

LEMMA RebuildOwnStep ==
  ASSUME TypeInv, RebuildInv, NEW r \in Requests, Step(r)
  PROVE  RebuildInv'
  <1>1. Running(r) /\ req' = req /\ \A q \in Requests \ {r} : pc'[q] = pc[q]
    BY StepOf, StepFrame
  <1>2. \A q \in Requests : (Running(q)' => Running(q)) /\ (Walker(q)' <=> Walker(q))
    BY <1>1 DEF Running, Walker
  <1>3. WalksAlone'
    BY <1>2 DEF RebuildInv, WalksAlone
  <1>4. Fresh'
    BY FreshStep DEF RebuildInv
  <1>5. Walker(r) /\ Running(r)' => Rebuilds(r)'
    BY StepOf, RebuildStarts, RebuildVisits, RebuildReads, RebuildIndexes, RebuildApplies
  <1>6. \A q \in Requests \ {r} : ~(Running(q)' /\ Walker(q)')
    BY <1>1, <1>2 DEF RebuildInv, WalksAlone
  <1> QED
    BY <1>2, <1>3, <1>4, <1>5, <1>6 DEF RebuildInv, Rebuilding

LEMMA RebuildArrival ==
  ASSUME WalksApart, TypeInv, RebuildInv, NEW r \in Requests, Start(r)
  PROVE  RebuildInv'
  <1>1. PICK c \in Calls :
          /\ \A q \in Requests : Running(q) /\ Meets(q, c) => <<c.op, req[q].op>> \in MayOverlap
          /\ req' = [req EXCEPT ![r] = c]
          /\ Goto(r, Entry[c.op])
    BY DEF Start
  <1>2. /\ pc[r] = "idle" /\ req'[r] = c /\ pc'[r] = Entry[c.op] /\ scan' = scan /\ scan[r] = NoScan
        /\ \A q \in Requests \ {r} : pc'[q] = pc[q] /\ req'[q] = req[q]
    BY <1>1 DEF Start, At, Goto, TypeInv, TypeOK, local, RebuildInv, Fresh
  <1>3. ASSUME NEW q \in Requests, Running(q) PROVE ~Walker(q) /\ c.op \notin Walkers
    <2>1. ASSUME Meets(q, c) PROVE ~Walker(q) /\ c.op \notin Walkers
      <3>1. <<c.op, req[q].op>> \in (AllOps \ Walkers) \X (AllOps \ Walkers)
        BY <1>1, <1>3, <2>1 DEF WalksApart
      <3> QED
        BY <3>1 DEF Walker
    <2> QED
      BY <2>1 DEF Meets
  <1>4. /\ ~Running(r)
        /\ \A q \in Requests \ {r} : (Running(q)' <=> Running(q)) /\ (Walker(q)' <=> Walker(q))
        /\ Walker(r)' <=> c.op \in Walkers
    BY <1>2 DEF Running, Walker
  <1>5. WalksAlone'
    BY <1>3, <1>4 DEF WalksAlone
  <1>6. c.op \in Walkers => Rebuilds(r)'
    <2>1. c.op \in Walkers => pc'[r] \in {"hasrows", "lock"}
      BY <1>2 DEF Entry, Walkers, AllOps
    <2>2. scan'[r].seen = {} /\ \A k \in Keys : scan'[r].upserts[k] = None
      BY <1>2 DEF NoScan
    <2> QED
      BY <2>1, <2>2 DEF Rebuilds, InIndexFromDisk
  <1>7. Rebuilding'
    BY <1>3, <1>4, <1>6 DEF Rebuilding
  <1>8. Fresh'
    <2>1. pc'[r] # "idle"
      BY <1>2, CallFields DEF Entry, AllOps
    <2> QED
      BY <1>2, <2>1 DEF RebuildInv, Fresh, At
  <1> QED
    BY <1>5, <1>7, <1>8 DEF RebuildInv

\* A walk that fails is over, and while another call fails nobody walks.
LEMMA RebuildFails ==
  ASSUME TypeInv, RebuildInv, NEW r \in Requests, Fail(r)
  PROVE  RebuildInv'
  <1>1. /\ Running(r) /\ req' = req /\ scan' = scan /\ pc'[r] = "error"
        /\ \A q \in Requests \ {r} : pc'[q] = pc[q]
    BY DEF Fail, End, Goto, local, TypeInv, TypeOK
  <1>2. ~Running(r)' /\ \A q \in Requests : (Running(q)' => Running(q)) /\ (Walker(q)' <=> Walker(q))
    BY <1>1 DEF Running, Ended, Walker
  <1>3. WalksAlone'
    BY <1>2 DEF RebuildInv, WalksAlone
  <1>4. Rebuilding'
    BY <1>1, <1>2 DEF RebuildInv, WalksAlone, Rebuilding
  <1>5. Fresh'
    BY <1>1 DEF RebuildInv, Fresh, At
  <1> QED
    BY <1>3, <1>4, <1>5 DEF RebuildInv

\* A walk that cannot read a sidecar writes one anew and goes on with that.
LEMMA RebuildMisreads ==
  ASSUME TypeInv, RebuildInv, NEW r \in Requests, Misread(r)
  PROVE  RebuildInv'
  <1>1. /\ Running(r) /\ UNCHANGED <<file, side, linked, row, req, cur, scan>>
        /\ \A q \in Requests \ {r} : pc'[q] = pc[q] /\ meta'[q] = meta[q]
    BY MisreadMoves
  <1>2. /\ pc[r] \in {"public", "publicMeta", "isfile", "hasfiles", "readmeta", "ifdMeta"}
        /\ pc'[r] \in {"denied", "notfound", "query", "trunc", "ifdHash"}
        /\ pc[r] = "ifdMeta" <=> pc'[r] = "ifdHash"
    BY MisreadMoves
  <1>3. \A q \in Requests : (Running(q)' => Running(q)) /\ (Walker(q)' <=> Walker(q))
    BY <1>1 DEF Running, Walker
  <1>4. WalksAlone'
    BY <1>3 DEF RebuildInv, WalksAlone
  <1>5. Fresh'
    BY <1>1, <1>2 DEF RebuildInv, Fresh, At
  <1>6. ASSUME Walker(r) PROVE Rebuilds(r)'
    <2>1. Rebuilds(r)
      BY <1>1, <1>6 DEF RebuildInv, Rebuilding
    <2>2. Done(r)' = Done(r)
      BY <1>1, <1>2 DEF Done, InIndexFromDisk
    <2>3. \A k \in Keys : Found(r, k)' <=> Found(r, k)
      BY <1>1 DEF Found, FullRow, Forced
    <2>4. scan[r].seen \subseteq Keys
      BY ScanFields DEF TypeInv, TypeOK
    <2> QED
      BY <1>1, <1>2, <2>1, <2>2, <2>3, <2>4 DEF Rebuilds, InIndexFromDisk, Done
  <1>7. \A q \in Requests \ {r} : Running(q)' /\ Walker(q)' => ~Running(r)
    BY <1>3 DEF RebuildInv, WalksAlone
  <1>8. Rebuilding'
    BY <1>1, <1>3, <1>6, <1>7 DEF Rebuilding
  <1> QED
    BY <1>4, <1>5, <1>8 DEF RebuildInv

LEMMA RebuildStep ==
  ASSUME WalksApart, TypeInv, RebuildInv, [Next]_vars
  PROVE  RebuildInv'
  <1>1. CASE Crash
    <2>1. \A q \in Requests : ~Running(q)' /\ (pc'[q] = "idle" => pc[q] = "idle") /\ scan' = scan
      BY <1>1 DEF Crash, Running, Ended, local
    <2> QED
      BY <2>1 DEF RebuildInv, WalksAlone, Rebuilding, Fresh, At
  <1>2. CASE UNCHANGED vars
    <2>1. UNCHANGED <<file, side, row, linked, req, pc, meta, cur, scan>>
      BY <1>2 DEF vars, disk, local, env
    <2>2. \A q \in Requests : Rebuilds(q)' <=> Rebuilds(q)
      BY <2>1 DEF Rebuilds, Done, Found, FullRow, Forced
    <2> QED
      BY <2>1, <2>2 DEF RebuildInv, WalksAlone, Rebuilding, Fresh, At, Running, Walker
  <1> QED
    BY <1>1, <1>2, RebuildOwnStep, RebuildArrival, RebuildFails, RebuildMisreads DEF Next, Rest

LEMMA RebuildInit == Init => RebuildInv
  BY DEF Init, RebuildInv, WalksAlone, Fresh, Rebuilding, Running

\* A reindex that no other call overlaps leaves index and directory with the same
\* keys and sizes, an ETag on every row, and after a forced one every sidecar in
\* the index, whatever earlier crashes, failures and calls left behind.
THEOREM ReindexRestores ==
  ASSUME WalksApart
  PROVE  Spec => ReindexRebuilds
  <1> DEFINE A == \A r \in Requests : At(r, "apply") /\ pc'[r] \in {"ok", "query"} => Rebuilt(r)
  <1>1. Init => TypeInv /\ RebuildInv
    BY TypeInit, RebuildInit
  <1>2. TypeInv /\ RebuildInv /\ [Next]_vars => (TypeInv /\ RebuildInv)'
    BY TypeStep, RebuildStep
  <1>3. TypeInv /\ RebuildInv /\ [Next]_vars => [A]_vars
    <2> SUFFICES ASSUME TypeInv, RebuildInv, [Next]_vars, NEW r \in Requests,
                        pc[r] = "apply", pc'[r] \in {"ok", "query"}
                 PROVE  Rebuilt(r)
      BY DEF At
    <2>1. Running(r) /\ Stage(r)
      BY Called DEF Running, Ended
    <2>2. Walker(r)
      BY <2>1 DEF Stage, PutLabels, ReadLabels, AclLabels, InIndexFromDisk, Ended, Walker
    <2>3. Step(r)
      <3>1. pc'[r] # pc[r]
        OBVIOUS
      <3>2. ASSUME NEW q \in Requests, Start(q) PROVE pc'[r] = pc[r]
        BY <3>2 DEF Start, At, Goto, TypeInv, TypeOK
      <3>3. ASSUME NEW q \in Requests \ {r}, Step(q) PROVE pc'[r] = pc[r]
        BY <3>3, StepFrame
      <3>4. ASSUME NEW q \in Requests, Fail(q) PROVE pc'[r] \in {pc[r], "error"}
        BY <3>4 DEF Fail, End, Goto, TypeInv, TypeOK
      <3>7. ASSUME NEW q \in Requests, Misread(q) PROVE pc'[r] = pc[r]
        <4>1. pc[q] # "apply"
          BY <3>7 DEF Misread, At
        <4> QED
          BY <3>7, <4>1, MisreadMoves
      <3>5. Crash => pc'[r] = "crashed"
        BY <2>1 DEF Crash
      <3>6. Rest \/ UNCHANGED vars => pc' = pc
        BY DEF Rest, vars
      <3> QED
        BY <3>1, <3>2, <3>3, <3>4, <3>5, <3>6, <3>7 DEF Next
    <2>4. Apply(r)
      BY <2>2, <2>3, StepOf, Labelled
    <2> QED
      BY <2>2, <2>3, <2>4, RebuildApplies
  <1> QED
    BY <1>1, <1>2, <1>3, PTL DEF Spec, ReindexRebuilds
=============================================================================

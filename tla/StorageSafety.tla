--------------------------- MODULE StorageSafety ---------------------------
(***************************************************************************)
(* The invariants of Storage that hold however its handlers overlap, fail  *)
(* and crash, proved for every instance on top of type correctness.        *)
(***************************************************************************)
EXTENDS StorageProofs

-----------------------------------------------------------------------------
(* Who changes what. *)

\* A step of one handler changes no other handler's variables, and no call.
LEMMA StepFrame ==
  ASSUME TypeInv, NEW r \in Requests, Step(r)
  PROVE  /\ req' = req
         /\ \A q \in Requests \ {r} :
              /\ pc'[q] = pc[q] /\ tmp'[q] = tmp[q] /\ fd'[q] = fd[q]
              /\ meta'[q] = meta[q] /\ cur'[q] = cur[q] /\ scan'[q] = scan[q]
  <1> USE DEF TypeInv, TypeOK, Goto, disk, local, env, TmpName
  <1>1. CASE CreateTemp(r) \/ Copy(r) \/ Rename(r)
    BY <1>1 DEF CreateTemp, Copy, Rename
  <1>2. CASE Truncate(r) \/ Write(r) \/ IfdTruncate(r) \/ RemoveMeta(r)
    BY <1>2 DEF Truncate, Write, IfdTruncate, RemoveMeta, TruncateMeta, UnlinkMeta, FillMeta
  <1>3. CASE StatTarget(r) \/ IfdStat(r) \/ IfdHash(r) \/ HashFile(r)
    BY <1>3 DEF StatTarget, IfdStat, IfdHash, HashFile, End
  <1>4. CASE Upsert(r) \/ SetETag(r) \/ RemoveRow(r) \/ Query(r) \/ Apply(r)
    BY <1>4 DEF Upsert, SetETag, RemoveRow, Query, Apply, End
  <1>5. CASE IfdMeta(r) \/ IfdWrite(r)
    BY <1>5 DEF IfdMeta, IfdWrite, FillMeta, Indexed
  <1>6. CASE IsPublic(r) \/ IsPublicOnDisk(r) \/ Open(r) \/ IsFile(r) \/ ReadMeta(r) \/ RemoveFile(r)
    BY <1>6 DEF IsPublic, IsPublicOnDisk, Open, IsFile, ReadMeta, RemoveFile
  <1>7. CASE GetRow(r)
    BY <1>7 DEF GetRow
  <1>8. CASE HasRows(r) \/ HasFiles(r) \/ Lock(r) \/ ReadIndex(r) \/ ReadDir(r)
    BY <1>8 DEF HasRows, HasFiles, Lock, ReadIndex, ReadDir
  <1>9. CASE Visit(r)
    BY <1>9 DEF Visit, End
  <1> QED
    BY <1>1, <1>2, <1>3, <1>4, <1>5, <1>6, <1>7, <1>8, <1>9 DEF Step

LEMMA FileWriters ==
  ASSUME NEW r \in Requests, Step(r), ~Rename(r), ~RemoveFile(r)
  PROVE  file' = file
  <1> USE DEF disk
  <1>1. CASE Truncate(r) \/ Write(r) \/ IfdTruncate(r) \/ RemoveMeta(r) \/ IfdWrite(r)
    BY <1>1 DEF Truncate, Write, IfdTruncate, RemoveMeta, IfdWrite, TruncateMeta, UnlinkMeta
  <1>2. CASE CreateTemp(r) \/ Copy(r) \/ StatTarget(r) \/ Upsert(r) \/ IfdStat(r) \/ IfdMeta(r)
             \/ IfdHash(r) \/ IsPublic(r) \/ IsPublicOnDisk(r) \/ Open(r) \/ GetRow(r)
    BY <1>2 DEF CreateTemp, Copy, StatTarget, Upsert, IfdStat, IfdMeta, IfdHash, IsPublic,
       IsPublicOnDisk, Open, GetRow
  <1>3. CASE HashFile(r) \/ SetETag(r) \/ IsFile(r) \/ ReadMeta(r) \/ RemoveRow(r) \/ HasRows(r)
             \/ HasFiles(r) \/ Query(r) \/ Lock(r) \/ ReadIndex(r) \/ ReadDir(r) \/ Visit(r)
             \/ Apply(r)
    BY <1>3 DEF HashFile, SetETag, IsFile, ReadMeta, RemoveRow, HasRows, HasFiles, Query, Lock,
       ReadIndex, ReadDir, Visit, Apply
  <1> QED
    BY <1>1, <1>2, <1>3 DEF Step

LEMMA TempWriters ==
  ASSUME NEW r \in Requests, Step(r), ~CreateTemp(r), ~Copy(r), ~Rename(r)
  PROVE  tmp' = tmp
  <1> USE DEF disk
  <1>1. CASE Truncate(r) \/ Write(r) \/ IfdTruncate(r) \/ RemoveMeta(r) \/ IfdWrite(r) \/ RemoveFile(r)
    BY <1>1 DEF Truncate, Write, IfdTruncate, RemoveMeta, IfdWrite, TruncateMeta, UnlinkMeta,
       RemoveFile
  <1>2. CASE StatTarget(r) \/ Upsert(r) \/ IfdStat(r) \/ IfdMeta(r) \/ IfdHash(r)
             \/ IsPublic(r) \/ IsPublicOnDisk(r) \/ Open(r) \/ GetRow(r)
    BY <1>2 DEF StatTarget, Upsert, IfdStat, IfdMeta, IfdHash, IsPublic, IsPublicOnDisk, Open,
       GetRow
  <1>3. CASE HashFile(r) \/ SetETag(r) \/ IsFile(r) \/ ReadMeta(r) \/ RemoveRow(r) \/ HasRows(r)
             \/ HasFiles(r) \/ Query(r) \/ Lock(r) \/ ReadIndex(r) \/ ReadDir(r) \/ Visit(r)
             \/ Apply(r)
    BY <1>3 DEF HashFile, SetETag, IsFile, ReadMeta, RemoveRow, HasRows, HasFiles, Query, Lock,
       ReadIndex, ReadDir, Visit, Apply
  <1> QED
    BY <1>1, <1>2, <1>3 DEF Step

-----------------------------------------------------------------------------
(* The reindex mutex. *)

\* A step takes the free mutex, leaves it alone, or ends the handler's section.
LEMMA LockMoves ==
  ASSUME TypeInv, NEW r \in Requests, Step(r)
  PROVE  \/ lock' = lock /\ (InReindex(r)' <=> InReindex(r))
         \/ lock' = (IF lock = r THEN None ELSE lock) /\ ~InReindex(r)'
         \/ lock = None /\ lock' = r /\ InReindex(r)'
  <1> USE DEF InReindex, InLock, InIndexFromDisk, At
  <1>1. /\ \A label : Goto(r, label) => pc'[r] = label
        /\ req'[r] = req[r]
    BY StepFrame DEF Goto, TypeInv, TypeOK
  <1>2. Stage(r)
    <2>1. pc[r] # "idle"
      BY DEF Step, CreateTemp, Copy, Rename, Truncate, Write, StatTarget, Upsert, IfdStat, IfdMeta,
         IfdHash, IfdTruncate, IfdWrite, IsPublic, IsPublicOnDisk, Open, GetRow, HashFile, SetETag,
         IsFile, ReadMeta, RemoveFile, RemoveMeta, RemoveRow, HasRows, HasFiles, Query, Lock,
         ReadIndex, ReadDir, Visit, Apply
    <2> QED
      BY <2>1, Called
  <1>3. CASE CreateTemp(r) \/ Copy(r) \/ Rename(r)
    BY <1>1, <1>3 DEF CreateTemp, Copy, Rename
  <1>4. CASE Truncate(r) \/ Write(r) \/ RemoveMeta(r) \/ RemoveFile(r)
    BY <1>1, <1>4 DEF Truncate, Write, RemoveMeta, RemoveFile, TruncateMeta, UnlinkMeta
  <1>5. CASE StatTarget(r) \/ HashFile(r)
    BY <1>1, <1>5 DEF StatTarget, HashFile, End
  <1>6. CASE Upsert(r) \/ SetETag(r) \/ RemoveRow(r) \/ Query(r)
    BY <1>1, <1>6 DEF Upsert, SetETag, RemoveRow, Query, End
  <1>7. CASE Apply(r)
    <2>1. pc'[r] \in {"query", "ok"}
      BY <1>1, <1>7 DEF Apply, End
    <2> QED
      BY <1>7, <2>1 DEF Apply, End
  <1>8. CASE IfdTruncate(r)
    BY <1>1, <1>8 DEF IfdTruncate, TruncateMeta, Walker
  <1>9. CASE IfdStat(r) \/ IfdHash(r)
    BY <1>1, <1>9 DEF IfdStat, IfdHash, End, Walker
  <1>10. CASE IfdMeta(r) \/ IfdWrite(r)
    BY <1>1, <1>10 DEF IfdMeta, IfdWrite, Indexed, Walker
  <1>11. CASE GetRow(r)
    <2>1. ~Walker(r)
      BY <1>2, <1>11 DEF GetRow, Stage, Walker, Walkers, WalkLabels, Ended
    <2> QED
      BY <1>1, <1>11, <2>1 DEF GetRow, Walker
  <1>12. CASE IsPublic(r) \/ IsPublicOnDisk(r) \/ Open(r) \/ IsFile(r) \/ ReadMeta(r)
    BY <1>1, <1>12 DEF IsPublic, IsPublicOnDisk, Open, IsFile, ReadMeta
  <1>13. CASE HasRows(r) \/ HasFiles(r) \/ Lock(r) \/ ReadIndex(r) \/ ReadDir(r)
    BY <1>1, <1>13 DEF HasRows, HasFiles, Lock, ReadIndex, ReadDir
  <1>14. CASE Visit(r)
    <2>1. Walker(r)
      BY <1>2, <1>14 DEF Visit, Stage, Walker, Walkers, PutLabels, ReadLabels, AclLabels, Ended
    <2> QED
      BY <1>1, <1>14, <2>1 DEF Visit, End, Walker
  <1> QED
    BY <1>3, <1>4, <1>5, <1>6, <1>7, <1>8, <1>9, <1>10, <1>11, <1>12, <1>13, <1>14 DEF Step

LEMMA LockStep ==
  ASSUME TypeInv, ReindexExclusive, [Next]_vars
  PROVE  ReindexExclusive'
  <1>1. ASSUME NEW r \in Requests, Step(r) PROVE ReindexExclusive'
    <2>1. \A q \in Requests \ {r} : InReindex(q)' <=> InReindex(q)
      BY <1>1, StepFrame DEF InReindex, Walker
    <2> QED
      BY <1>1, <2>1, LockMoves, NoneApart DEF ReindexExclusive
  <1>2. ASSUME NEW r \in Requests, Start(r) PROVE ReindexExclusive'
    <2>1. PICK c \in Calls : req' = [req EXCEPT ![r] = c] /\ Goto(r, Entry[c.op])
      BY <1>2 DEF Start
    <2>2. Entry[c.op] \notin InLock \cup InIndexFromDisk
      BY CallFields DEF Entry, AllOps, InLock, InIndexFromDisk
    <2>3. ~InReindex(r) /\ ~InReindex(r)'
      BY <1>2, <2>1, <2>2 DEF Start, At, Goto, InReindex, InLock, InIndexFromDisk, TypeInv, TypeOK
    <2>4. \A q \in Requests \ {r} : InReindex(q)' <=> InReindex(q)
      BY <2>1 DEF Goto, InReindex, Walker, TypeInv, TypeOK
    <2> QED
      BY <1>2, <2>3, <2>4 DEF Start, ReindexExclusive
  <1>3. ASSUME NEW r \in Requests, Fail(r) PROVE ReindexExclusive'
    <2>1. /\ ~InReindex(r)'
          /\ lock' = IF lock = r THEN None ELSE lock
      BY <1>3 DEF Fail, End, Goto, InReindex, InLock, InIndexFromDisk, TypeInv, TypeOK
    <2>2. \A q \in Requests \ {r} : InReindex(q)' <=> InReindex(q)
      BY <1>3 DEF Fail, End, Goto, InReindex, Walker, local, TypeInv, TypeOK
    <2> QED
      BY <2>1, <2>2, NoneApart DEF ReindexExclusive
  <1>6. ASSUME NEW r \in Requests, Misread(r) PROVE ReindexExclusive'
    <2>1. UNCHANGED <<req, lock>> /\ \A q \in Requests \ {r} : pc'[q] = pc[q]
      BY <1>6, MisreadMoves
    <2>2. /\ pc[r] \in {"public", "publicMeta", "isfile", "hasfiles", "readmeta", "ifdMeta"}
          /\ pc'[r] \in {"denied", "notfound", "query", "trunc", "ifdHash"}
          /\ pc[r] = "ifdMeta" <=> pc'[r] = "ifdHash"
      BY <1>6, MisreadMoves
    <2>3. \A q \in Requests : InReindex(q)' <=> InReindex(q)
      BY <2>1, <2>2 DEF InReindex, Walker, InLock, InIndexFromDisk
    <2> QED
      BY <2>1, <2>3 DEF ReindexExclusive
  <1>4. CASE Crash
    <2>1. \A r \in Requests : ~InReindex(r)'
      BY <1>4 DEF Crash, Running, InReindex, InLock, InIndexFromDisk, Ended, TypeInv, TypeOK
    <2> QED
      BY <1>4, <2>1, NoneApart DEF Crash, ReindexExclusive
  <1>5. CASE UNCHANGED vars \/ Rest
    BY <1>5 DEF Rest, vars, env, local, ReindexExclusive, InReindex, Walker
  <1> QED
    BY <1>1, <1>2, <1>3, <1>4, <1>5, <1>6 DEF Next

\* At no time do two reindexes of the bucket run between Lock and Unlock, and
\* the mutex is free unless one does (ReindexBucket, reindexLocks).
THEOREM ReindexIsExclusive == Spec => []ReindexExclusive
  <1>1. Init => ReindexExclusive
    BY NoneApart DEF Init, ReindexExclusive, InReindex, InLock, InIndexFromDisk
  <1> QED
    BY <1>1, LockStep, TypeInit, TypeStep, PTL DEF Spec

-----------------------------------------------------------------------------
(* What has been uploaded and asked for.  Calls are never forgotten, so both  *)
(* sets only grow.                                                            *)

Uploaded == [k \in Keys |-> Originals(k)]
Loud == PublicSeeds \cup {k \in Keys : \E c \in Setters(k) : c.public}

LEMMA CallsStay ==
  ASSUME TypeInv, [Next]_vars, NEW q \in Requests, req[q] # None
  PROVE  req'[q] = req[q]
  <1>1. ASSUME NEW r \in Requests, Start(r) PROVE req'[q] = req[q]
    <2>1. pc[r] = "idle" /\ \E c \in Calls : req' = [req EXCEPT ![r] = c]
      BY <1>1 DEF Start, At
    <2>2. q # r
      BY <2>1 DEF TypeInv, Placed, Place, Stage, Ended, PutLabels, ReadLabels, AclLabels,
         WalkLabels, InLock, InIndexFromDisk
    <2> QED
      BY <2>1, <2>2 DEF TypeInv, TypeOK
  <1>2. ASSUME NEW r \in Requests, Step(r) \/ Fail(r) \/ Misread(r) PROVE req'[q] = req[q]
    BY <1>2, StepFrame DEF Fail, Misread
  <1> QED
    BY <1>1, <1>2 DEF Next, Crash, Rest, vars, env

LEMMA HistoryGrows ==
  ASSUME TypeInv, [Next]_vars
  PROVE  /\ \A k \in Keys : Uploaded[k] \subseteq Uploaded'[k]
         /\ Loud \subseteq Loud'
  <1>1. \A q \in Requests : req[q] # None => req'[q] = req[q]
    BY CallsStay
  <1>2. ASSUME NEW k \in Keys PROVE Uploaded[k] \subseteq Uploaded'[k]
    BY <1>1 DEF Uploaded, Originals, Body
  <1>3. ASSUME NEW k \in Keys, \E c \in Setters(k) : c.public
        PROVE  \E c \in Setters(k)' : c.public
    <2>1. PICK q \in Requests : /\ req[q] # None /\ req[q].key = k
                               /\ req[q].op \in {"put", "acl"} /\ req[q].public
      BY <1>3 DEF Setters
    <2>2. req'[q] = req[q]
      BY <1>1, <2>1
    <2>3. req'[q] \in Setters(k)'
      BY <2>1, <2>2 DEF Setters
    <2> QED
      BY <2>1, <2>2, <2>3
  <1> QED
    BY <1>2, <1>3 DEF Loud

LEMMA InHistory ==
  ASSUME TypeInv, NEW r \in Requests, Running(r), req[r].op \in {"put", "acl"}
  PROVE  /\ req[r].op = "put" => Body(r) \in Uploaded[req[r].key]
         /\ req[r].public => req[r].key \in Loud
  <1>1. req[r] \in Calls /\ req[r] # None /\ req[r].key \in Keys
    <2>1. req[r] \in Calls /\ req[r] # None
      BY Called, NoneApart DEF Running
    <2> QED
      BY <2>1, CallFields DEF Walkers
  <1>2. req[r].op = "put" => Body(r) \in Originals(req[r].key)
    BY <1>1 DEF Originals
  <1>3. req[r] \in Setters(req[r].key)
    BY <1>1 DEF Setters
  <1> QED
    BY <1>1, <1>2, <1>3 DEF Uploaded, Loud

-----------------------------------------------------------------------------
(* Temporary files. *)

\* How much of the body a temporary file holds where its upload stands.
TempInv ==
  \A r \in Requests :
    /\ tmp[r] # None => pc[r] \in {"copy", "rename", "crashed"} /\ tmp[r].by = {r}
    /\ pc[r] = "copy" => tmp[r].n <= req[r].len
    /\ pc[r] = "rename" => tmp[r] = Body(r)

LEMMA TempStep ==
  ASSUME TypeInv, TempInv, [Next]_vars
  PROVE  TempInv'
  <1> DEFINE T(q) == /\ tmp[q] # None => /\ pc[q] \in {"copy", "rename", "crashed"}
                                          /\ tmp[q].by = {q}
                     /\ pc[q] = "copy" => tmp[q].n <= req[q].len
                     /\ pc[q] = "rename" => tmp[q] = Body(q)
  <1>a. \A label, q : Goto(q, label) /\ q \in Requests => pc'[q] = label
    BY DEF Goto, TypeInv, TypeOK
  <1>1. ASSUME NEW r \in Requests, Step(r) PROVE TempInv'
    <2>1. \A q \in Requests \ {r} : T(q)'
      BY <1>1, StepFrame DEF TempInv, Body
    <2>2. T(r)'
      <3>1. CASE CreateTemp(r)
        <4>1. req[r] \in Calls /\ pc'[r] = "copy" /\ req' = req
          BY <1>1, <1>a, <3>1, Called, StepFrame DEF CreateTemp, At
        <4>2. req[r].len \in Nat
          BY <4>1, CallFields
        <4>3. tmp'[r] = [by |-> {r}, n |-> 0]
          BY <3>1 DEF CreateTemp, TmpName, TypeInv, TypeOK
        <4> QED
          BY <4>1, <4>2, <4>3
      <3>2. CASE Copy(r)
        <4>1. /\ req[r] \in Calls /\ req' = req /\ tmp[r] # None /\ tmp[r] \in Blobs
              /\ pc[r] = "copy"
          BY <1>1, <3>2, Called, StepFrame DEF Copy, At, TypeInv, TypeOK, Placed, Place
        <4>2. /\ tmp[r].by = {r} /\ tmp[r].n <= req[r].len
              /\ tmp[r].n \in Nat /\ req[r].len \in Nat
          BY <4>1, CallFields DEF TempInv, Blobs
        <4>3. CASE tmp[r].n < req[r].len
          <5>1. tmp'[r] = [by |-> tmp[r].by \cup {r}, n |-> tmp[r].n + 1] /\ pc'[r] = "copy"
            BY <3>2, <4>1, <4>3 DEF Copy, TmpName, TypeInv, TypeOK
          <5> QED
            BY <4>1, <4>2, <4>3, <5>1
        <4>4. CASE ~(tmp[r].n < req[r].len)
          <5>1. tmp'[r] = tmp[r] /\ pc'[r] = "rename"
            BY <1>a, <3>2, <4>4 DEF Copy, TmpName
          <5>2. tmp[r].n = req[r].len
            BY <4>2, <4>4
          <5>3. tmp[r] = Body(r)
            BY <4>1, <4>2, <5>2 DEF Blobs, Body
          <5> QED
            BY <4>1, <4>2, <5>1, <5>3 DEF Body
        <4> QED
          BY <4>3, <4>4
      <3>3. CASE Rename(r)
        <4>1. tmp'[r] = None /\ pc'[r] = "trunc"
          BY <1>a, <3>3 DEF Rename, TmpName, TypeInv, TypeOK
        <4> QED
          BY <4>1
      <3>4. CASE ~CreateTemp(r) /\ ~Copy(r) /\ ~Rename(r)
        <4>1. tmp' = tmp /\ req' = req
          BY <1>1, <3>4, TempWriters, StepFrame
        <4>2. pc[r] \notin {"copy", "rename", "crashed"}
          BY <1>1, <3>4 DEF Step, Truncate, Write, StatTarget, Upsert, IfdStat, IfdMeta,
             IfdHash, IfdTruncate, IfdWrite, IsPublic, IsPublicOnDisk, Open, GetRow, HashFile,
             SetETag, IsFile, ReadMeta, RemoveFile, RemoveMeta, RemoveRow, HasRows, HasFiles,
             Query, Lock, ReadIndex, ReadDir, Visit, Apply, At
        <4>3. tmp[r] = None
          BY <4>2 DEF TempInv
        <4>4. pc'[r] \notin {"copy", "rename"}
          BY <1>1, <1>a, <3>4 DEF Step, Truncate, Write, StatTarget, Upsert, IfdStat, IfdMeta,
             IfdHash, IfdTruncate, IfdWrite, IsPublic, IsPublicOnDisk, Open, GetRow, HashFile,
             SetETag, IsFile, ReadMeta, RemoveFile, RemoveMeta, RemoveRow, HasRows, HasFiles,
             Query, Lock, ReadIndex, ReadDir, Visit, Apply, At, End, Indexed, TruncateMeta,
             UnlinkMeta
        <4> QED
          BY <4>1, <4>3, <4>4
      <3> QED
        BY <3>1, <3>2, <3>3, <3>4
    <2> QED
      BY <2>1, <2>2 DEF TempInv
  <1>2. ASSUME NEW r \in Requests, Start(r) PROVE TempInv'
    <2>1. PICK c \in Calls : req' = [req EXCEPT ![r] = c] /\ Goto(r, Entry[c.op])
      BY <1>2 DEF Start
    <2>2. Entry[c.op] \notin {"copy", "rename"}
      BY CallFields DEF Entry, AllOps
    <2>3. pc[r] = "idle" /\ pc'[r] \notin {"copy", "rename"} /\ tmp' = tmp
      BY <1>a, <1>2, <2>1, <2>2 DEF Start, At, disk
    <2>4. tmp[r] = None
      BY <2>3 DEF TempInv
    <2>5. \A q \in Requests \ {r} : pc'[q] = pc[q] /\ req'[q] = req[q]
      BY <2>1 DEF Goto, TypeInv, TypeOK
    <2> QED
      BY <2>3, <2>4, <2>5 DEF TempInv, Body
  <1>3. ASSUME NEW r \in Requests, Fail(r) PROVE TempInv'
    <2>1. pc'[r] = "error" /\ tmp'[r] = None /\ req' = req
      BY <1>a, <1>3 DEF Fail, End, Cleanup, TmpName, TypeInv, TypeOK
    <2>2. \A q \in Requests \ {r} : pc'[q] = pc[q] /\ tmp'[q] = tmp[q]
      BY <1>3 DEF Fail, End, Goto, Cleanup, TmpName, TypeInv, TypeOK
    <2> QED
      BY <2>1, <2>2 DEF TempInv, Body
  <1>6. ASSUME NEW r \in Requests, Misread(r) PROVE TempInv'
    <2>1. UNCHANGED <<req, tmp>> /\ \A q \in Requests \ {r} : pc'[q] = pc[q]
      BY <1>6, MisreadMoves
    <2>2. /\ pc[r] \in {"public", "publicMeta", "isfile", "hasfiles", "readmeta", "ifdMeta"}
          /\ pc'[r] \in {"denied", "notfound", "query", "trunc", "ifdHash"}
      BY <1>6, MisreadMoves
    <2> QED
      BY <2>1, <2>2 DEF TempInv, Body
  <1>4. CASE Crash
    <2>1. req' = req /\ tmp' = tmp
      BY <1>4 DEF Crash
    <2>2. \A q \in Requests : pc'[q] = pc[q] \/ pc'[q] = "crashed"
      BY <1>4 DEF Crash
    <2>3. \A q \in Requests : pc[q] \in {"copy", "rename"} => pc'[q] = "crashed"
      BY <1>4 DEF Crash, Running, Ended
    <2> QED
      BY <2>1, <2>2, <2>3 DEF TempInv, Body
  <1>5. CASE UNCHANGED vars \/ Rest
    BY <1>5 DEF Rest, vars, disk, env, TempInv, Body
  <1> QED
    BY <1>1, <1>2, <1>3, <1>4, <1>5, <1>6 DEF Next

LEMMA TempInit == Init => TempInv
  BY DEF Init, TempInv

\* Only an upload in progress, or one the process died in, has a temporary file,
\* and no other request ever writes to it (PutObject's CreateTemp and deferred
\* Remove).
THEOREM TempFilesOwned == Spec => []TempOwned
  <1>1. TempInv => TempOwned
    BY DEF TempInv, TempOwned
  <1> QED
    BY <1>1, TempInit, TempStep, TypeInit, TypeStep, PTL DEF Spec

-----------------------------------------------------------------------------
(* Whole objects. *)

WholeInv ==
  /\ \A k \in Keys : file[k] \in Uploaded[k] \cup {None}
  /\ \A r \in Requests : fd[r] # None =>
       req[r] # None /\ req[r].key \in Keys /\ fd[r] \in Uploaded[req[r].key]

LEMMA OpenWrites ==
  ASSUME NEW r \in Requests, Step(r), ~Open(r)
  PROVE  fd' = fd
  <1>1. CASE Truncate(r) \/ Write(r) \/ IfdTruncate(r) \/ RemoveMeta(r) \/ IfdWrite(r)
    BY <1>1 DEF Truncate, Write, IfdTruncate, RemoveMeta, IfdWrite, TruncateMeta, UnlinkMeta, local
  <1>2. CASE CreateTemp(r) \/ Copy(r) \/ Rename(r) \/ StatTarget(r) \/ Upsert(r) \/ IfdStat(r)
             \/ IfdMeta(r) \/ IfdHash(r) \/ IsPublic(r) \/ IsPublicOnDisk(r) \/ GetRow(r)
    BY <1>2 DEF CreateTemp, Copy, Rename, StatTarget, Upsert, IfdStat, IfdMeta, IfdHash,
       IsPublic, IsPublicOnDisk, GetRow, local
  <1>3. CASE HashFile(r) \/ SetETag(r) \/ IsFile(r) \/ ReadMeta(r) \/ RemoveFile(r)
             \/ RemoveRow(r) \/ HasRows(r) \/ HasFiles(r) \/ Query(r) \/ Lock(r)
             \/ ReadIndex(r) \/ ReadDir(r) \/ Visit(r) \/ Apply(r)
    BY <1>3 DEF HashFile, SetETag, IsFile, ReadMeta, RemoveFile, RemoveRow, HasRows, HasFiles,
       Query, Lock, ReadIndex, ReadDir, Visit, Apply, local
  <1> QED
    BY <1>1, <1>2, <1>3 DEF Step

LEMMA WholeStep ==
  ASSUME TypeInv, TempInv, WholeInv, [Next]_vars
  PROVE  WholeInv'
  <1>1. \A k \in Keys : Uploaded[k] \subseteq Uploaded'[k]
    BY HistoryGrows
  <1>2. \A q \in Requests : req[q] # None => req'[q] = req[q]
    BY CallsStay
  <1>3. ASSUME file' = file, fd' = fd PROVE WholeInv'
    BY <1>1, <1>2, <1>3 DEF WholeInv
  <1>4. ASSUME NEW r \in Requests, Rename(r) PROVE WholeInv'
    <2>1. Running(r) /\ pc[r] = "rename" /\ req[r] \in Calls /\ Stage(r)
      BY <1>4, Called DEF Rename, At, Running, Ended
    <2>2. req[r].op = "put" /\ tmp[r] = Body(r)
      BY <2>1 DEF Stage, Ended, ReadLabels, AclLabels, WalkLabels, InLock, InIndexFromDisk,
         PutLabels, TempInv
    <2>3. tmp[r] \in Uploaded[req[r].key]
      BY <2>1, <2>2, InHistory
    <2>4. file' = [file EXCEPT ![req[r].key] = tmp[r]] /\ fd' = fd
      BY <1>4 DEF Rename, TmpName
    <2> QED
      BY <1>1, <1>2, <2>3, <2>4 DEF WholeInv, TypeInv, TypeOK
  <1>5. ASSUME NEW r \in Requests, RemoveFile(r) PROVE WholeInv'
    <2>1. file' = [file EXCEPT ![req[r].key] = None] /\ fd' = fd
      BY <1>5 DEF RemoveFile, local
    <2> QED
      BY <1>1, <1>2, <2>1 DEF WholeInv, TypeInv, TypeOK
  <1>6. ASSUME NEW r \in Requests, Open(r) PROVE WholeInv'
    <2>1. Running(r) /\ pc[r] = "open" /\ req[r] # None
      BY <1>6, Called, NoneApart DEF Open, At, Running, Ended
    <2>2. /\ ~Walker(r) /\ req[r].key \in Keys /\ KeyOf(r) = req[r].key
      BY <2>1, KeyOfType DEF InIndexFromDisk, InLock
    <2>3. file' = file /\ fd' = [fd EXCEPT ![r] = file[req[r].key]]
      BY <1>6, <2>2 DEF Open, disk, File
    <2>4. file[req[r].key] \in Uploaded[req[r].key] \cup {None}
      BY <2>2 DEF WholeInv
    <2> QED
      BY <1>1, <1>2, <2>1, <2>2, <2>3, <2>4 DEF WholeInv, TypeInv, TypeOK
  <1>7. ASSUME NEW r \in Requests, Step(r), ~Rename(r), ~RemoveFile(r), ~Open(r) PROVE WholeInv'
    BY <1>3, <1>7, FileWriters, OpenWrites
  <1>8. ASSUME NEW r \in Requests, Start(r) \/ Fail(r) \/ Misread(r) PROVE WholeInv'
    BY <1>3, <1>8 DEF Start, Fail, Misread, disk, local
  <1>9. CASE Crash \/ Rest \/ UNCHANGED vars
    BY <1>3, <1>9 DEF Crash, Rest, vars, disk, local
  <1> QED
    BY <1>4, <1>5, <1>6, <1>7, <1>8, <1>9 DEF Next

LEMMA WholeInit == Init => WholeInv
  <1> SUFFICES ASSUME Init PROVE WholeInv
    OBVIOUS
  <1>1. PICK how \in [Keys -> InitStates] : file = [k \in Keys |-> Stored(k, how[k]).file]
    BY DEF Init
  <1>2. ASSUME NEW k \in Keys PROVE file[k] \in {[by |-> {Seed}, n |-> 1], None}
    <2>1. how[k] \in {"absent", "indexed", "unindexed", "legacy", "untagged"}
      BY ConstantsOK
    <2> QED
      BY <1>1, <2>1 DEF Stored
  <1> QED
    BY <1>2 DEF Init, WholeInv, Uploaded, Originals

\* Whatever overlaps, fails or crashes, a key's file is one whole uploaded body,
\* and so is the file a GET answers from (PutObject's temp file and rename).
THEOREM ObjectsAreWhole == Spec => []WholeObjects
  <1>1. WholeInv => WholeObjects
    BY DEF WholeInv, WholeObjects, Uploaded
  <1> QED
    BY <1>1, WholeInit, WholeStep, TempInit, TempStep, TypeInit, TypeStep, PTL DEF Spec

-----------------------------------------------------------------------------
(* Metadata.  Sidecars, rows and whatever a handler has read and will write   *)
(* about a key carry ETags of its own bodies, and are public only by request. *)

Sound(k, m) == m.etag \in Uploaded[k] \cup {None} /\ (m.public => k \in Loud)

OnRecord ==
  \A k \in Keys : Sound(k, side[k]) /\ (row[k] # None => Sound(k, row[k]))
HoldsMeta == {"trunc", "write", "stat", "ifdHash", "ifdTrunc", "ifdWrite"}
HoldsRow == {"upsert", "hash", "settag"}
InHand(r) ==
  /\ pc[r] \in HoldsMeta => Sound(KeyOf(r), meta[r])
  /\ pc[r] \in HoldsRow => Sound(req[r].key, cur[r])
  /\ \A k \in Keys : scan[r].upserts[k] # None => Sound(k, scan[r].upserts[k])
SoundInv == OnRecord /\ \A r \in Requests : InHand(r)

LEMMA SoundBasics ==
  ASSUME NEW k \in Keys
  PROVE  /\ Sound(k, NoMeta) /\ Sound(k, GarbledMeta)
         /\ \A n, m : Sound(k, m) => Sound(k, RowOf(n, m))
  BY DEF Sound, NoMeta, GarbledMeta, RowOf

\* Handlers other than r keep what they have in hand.
LEMMA InHandFrame ==
  ASSUME TypeInv, [Next]_vars, NEW q \in Requests, InHand(q),
         pc'[q] = pc[q] \/ pc'[q] \notin HoldsMeta \cup HoldsRow,
         meta'[q] = meta[q], cur'[q] = cur[q], scan'[q] = scan[q],
         pc'[q] \in HoldsMeta \cup HoldsRow => req[q] # None
  PROVE  InHand(q)'
  <1>1. /\ \A k \in Keys : Uploaded[k] \subseteq Uploaded'[k]
        /\ Loud \subseteq Loud'
    BY HistoryGrows
  <1>2. req[q] # None => req'[q] = req[q]
    BY CallsStay
  <1>3. scan[q].upserts \in [Keys -> Rows \cup {None}]
    BY ScanFields DEF TypeInv, TypeOK
  <1>4. pc[q] \in HoldsMeta => KeyOf(q) \in Keys
    BY KeyOfType DEF HoldsMeta, Running, InLock, Ended
  <1>5. pc[q] \in HoldsRow => req[q].key \in Keys
    <2>1. CASE pc[q] \in HoldsRow
      <3>1. Running(q) /\ KeyOf(q) \in Keys /\ (~Walker(q) => req[q].key \in Keys)
            /\ (Walker(q) => pc[q] \in InIndexFromDisk)
        BY <2>1, KeyOfType DEF HoldsRow, Running, InLock, Ended
      <3> QED
        BY <2>1, <3>1 DEF HoldsRow, InIndexFromDisk
    <2> QED
      BY <2>1
  <1>6. KeyOf(q)' = KeyOf(q) \/ pc'[q] \notin HoldsMeta
    BY <1>2 DEF KeyOf, Walker
  <1>7. pc'[q] \in HoldsMeta => Sound(KeyOf(q), meta[q])'
    BY <1>1, <1>4, <1>6 DEF InHand, Sound
  <1>8. pc'[q] \in HoldsRow => Sound(req[q].key, cur[q])'
    BY <1>1, <1>2, <1>5 DEF InHand, Sound
  <1>9. \A k \in Keys : scan'[q].upserts[k] # None => Sound(k, scan[q].upserts[k])'
    BY <1>1 DEF InHand, Sound
  <1> QED
    BY <1>7, <1>8, <1>9 DEF InHand

LEMMA OnRecordFrame ==
  ASSUME TypeInv, [Next]_vars, OnRecord, side' = side, row' = row
  PROVE  OnRecord'
  BY HistoryGrows DEF OnRecord, Sound

\* A step that writes neither sidecar nor row and leaves nothing in hand.
LEMMA QuietStep ==
  ASSUME TypeInv, SoundInv, [Next]_vars, NEW r \in Requests, side' = side, row' = row,
         pc'[r] \notin HoldsMeta \cup HoldsRow, scan'[r].upserts = scan[r].upserts
  PROVE  OnRecord' /\ InHand(r)'
  <1>1. OnRecord'
    BY OnRecordFrame DEF SoundInv
  <1>2. \A k \in Keys : scan'[r].upserts[k] # None => Sound(k, scan[r].upserts[k])'
    BY HistoryGrows DEF SoundInv, InHand, Sound
  <1> QED
    BY <1>1, <1>2 DEF InHand

LEMMA QuietActions ==
  ASSUME TypeInv, SoundInv, [Next]_vars, NEW r \in Requests,
         \/ CreateTemp(r) \/ Copy(r) \/ IfdStat(r) \/ IsPublic(r) \/ IsPublicOnDisk(r)
         \/ Open(r) \/ IsFile(r) \/ RemoveFile(r) \/ HasRows(r) \/ HasFiles(r) \/ Query(r)
         \/ Lock(r) \/ ReadIndex(r) \/ ReadDir(r) \/ Visit(r)
  PROVE  OnRecord' /\ InHand(r)'
  <1>a. \A label : Goto(r, label) => pc'[r] = label
    BY DEF Goto, TypeInv, TypeOK
  <1>b. scan \in [Requests -> Scans]
    BY DEF TypeInv, TypeOK
  <1>c. side' = side /\ row' = row
    BY DEF CreateTemp, Copy, IfdStat, IsPublic, IsPublicOnDisk, Open, IsFile, RemoveFile,
       HasRows, HasFiles, Query, Lock, ReadIndex, ReadDir, Visit, disk
  <1>1. CASE CreateTemp(r) \/ Copy(r) \/ IfdStat(r) \/ IsPublic(r) \/ IsPublicOnDisk(r)
             \/ Open(r) \/ IsFile(r) \/ RemoveFile(r)
    <2>1. scan' = scan
      BY <1>1 DEF CreateTemp, Copy, IfdStat, IsPublic, IsPublicOnDisk, Open, IsFile,
         RemoveFile, local
    <2>2. pc'[r] \notin HoldsMeta \cup HoldsRow
      BY <1>a, <1>1 DEF CreateTemp, Copy, IfdStat, IsPublic, IsPublicOnDisk, Open, IsFile,
         RemoveFile, End, HoldsMeta, HoldsRow, At
    <2> QED
      BY <1>c, <2>1, <2>2, QuietStep
  <1>2. CASE HasRows(r) \/ HasFiles(r) \/ Lock(r)
    <2>1. scan' = scan /\ pc'[r] \in {"query", "hasfiles", "lock", "existing"}
      BY <1>a, <1>2 DEF HasRows, HasFiles, Lock, local
    <2> QED
      BY <1>c, <2>1, QuietStep DEF HoldsMeta, HoldsRow
  <1>3. CASE Query(r)
    <2>1. pc'[r] = "ok" /\ scan'[r].upserts = scan[r].upserts
      BY <1>a, <1>b, <1>3 DEF Query, End, Scans
    <2> QED
      BY <1>c, <2>1, QuietStep DEF HoldsMeta, HoldsRow
  <1>4. CASE ReadIndex(r) \/ ReadDir(r)
    <2>1. pc'[r] \in {"readdir", "walk"} /\ scan'[r].upserts = scan[r].upserts
      BY <1>a, <1>b, <1>4 DEF ReadIndex, ReadDir, Scans
    <2> QED
      BY <1>c, <2>1, QuietStep DEF HoldsMeta, HoldsRow
  <1>5. CASE Visit(r)
    <2>1. pc'[r] \in {"apply", "error", "walk", "ifdStat"}
      BY <1>a, <1>5 DEF Visit, End
    <2>2. scan'[r].upserts = scan[r].upserts
      <3>1. \/ scan' = scan
            \/ \E k \in Keys : scan' = [scan EXCEPT ![r].names = @ \ {k}, ![r].seen = @ \cup {k},
                                                    ![r].at = k]
        BY <1>b, <1>5 DEF Visit, Scans
      <3>2. scan[r] \in Scans
        BY <1>b
      <3>3. ASSUME NEW k \in Keys
            PROVE  [scan[r] EXCEPT !.names = @ \ {k}, !.seen = @ \cup {k}, !.at = k].upserts
                     = scan[r].upserts
        BY <3>2 DEF Scans
      <3>4. ASSUME NEW k \in Keys, scan' = [scan EXCEPT ![r].names = @ \ {k},
                                                       ![r].seen = @ \cup {k}, ![r].at = k]
            PROVE  scan'[r] = [scan[r] EXCEPT !.names = @ \ {k}, !.seen = @ \cup {k}, !.at = k]
        BY <1>b, <3>4
      <3> QED
        BY <3>1, <3>3, <3>4
    <2> QED
      BY <1>c, <2>1, <2>2, QuietStep DEF HoldsMeta, HoldsRow
  <1> QED
    BY <1>1, <1>2, <1>3, <1>4, <1>5

\* The steps that write sidecars: what they leave is sound or garbled.
LEMMA SidecarSound ==
  ASSUME TypeInv, SoundInv, [Next]_vars, NEW r \in Requests, NEW k \in Keys, NEW m,
         m = NoMeta \/ m = GarbledMeta \/ Sound(k, m),
         side' = [side EXCEPT ![k] = m] \/ side' = side, row' = row
  PROVE  OnRecord'
  <1>1. Sound(k, m)
    BY SoundBasics
  <1>2. \A j \in Keys : side'[j] = side[j] \/ (j = k /\ side'[j] = m)
    BY DEF TypeInv, TypeOK
  <1> QED
    BY <1>1, <1>2, HistoryGrows DEF SoundInv, OnRecord, Sound

LEMMA SidecarActions ==
  ASSUME TypeInv, SoundInv, [Next]_vars, NEW r \in Requests, Step(r),
         Truncate(r) \/ Write(r) \/ RemoveMeta(r) \/ IfdTruncate(r)
  PROVE  OnRecord' /\ InHand(r)'
  <1>a. \A label : Goto(r, label) => pc'[r] = label
    BY DEF Goto, TypeInv, TypeOK
  <1>b. req' = req /\ req[r] \in Calls /\ req[r] # None /\ KeyOf(r) \in Keys
    BY StepFrame, Called, KeyOfType, NoneApart DEF Truncate, Write, RemoveMeta, IfdTruncate,
       At, Running, Ended, InLock
  <1>c. UNCHANGED <<row, meta, cur, scan>>
    BY DEF Truncate, Write, RemoveMeta, IfdTruncate, TruncateMeta, UnlinkMeta, local
  <1>d. KeyOf(r)' = KeyOf(r)
    BY <1>b, <1>c DEF KeyOf, Walker
  <1>1. OnRecord'
    <2>1. CASE Write(r)
      <3>1. Sound(KeyOf(r), meta[r])
        BY <2>1 DEF Write, At, SoundInv, InHand, HoldsMeta
      <3>2. PICK m \in {meta[r], GarbledMeta} :
              side' = [side EXCEPT ![KeyOf(r)] = m] \/ side' = side
        BY <2>1 DEF Write, FillMeta, Overlays
      <3> QED
        BY <1>b, <1>c, <3>1, <3>2, SidecarSound
    <2>2. CASE Truncate(r) \/ RemoveMeta(r) \/ IfdTruncate(r)
      <3>1. side' = [side EXCEPT ![KeyOf(r)] = NoMeta]
        BY <2>2 DEF Truncate, RemoveMeta, IfdTruncate, TruncateMeta, UnlinkMeta
      <3> QED
        BY <1>b, <1>c, <3>1, SidecarSound
    <2> QED
      BY <2>1, <2>2
  <1>2. /\ pc'[r] \notin HoldsRow
        /\ pc'[r] \in HoldsMeta => pc[r] \in HoldsMeta
    BY <1>a DEF Truncate, Write, RemoveMeta, IfdTruncate, TruncateMeta, UnlinkMeta, At,
       HoldsRow, HoldsMeta
  <1>3. pc'[r] \in HoldsMeta => Sound(KeyOf(r), meta[r])'
    BY <1>b, <1>c, <1>d, <1>2, HistoryGrows DEF SoundInv, InHand, Sound
  <1>4. \A k \in Keys : scan'[r].upserts[k] # None => Sound(k, scan[r].upserts[k])'
    BY <1>c, HistoryGrows DEF SoundInv, InHand, Sound
  <1> QED
    BY <1>1, <1>2, <1>3, <1>4 DEF InHand

\* The steps that take a sidecar's contents into memory.
LEMMA MetaInHand ==
  ASSUME TypeInv, SoundInv, WholeInv, TempInv, [Next]_vars, NEW r \in Requests, Step(r),
         Rename(r) \/ IfdHash(r) \/ ReadMeta(r)
  PROVE  OnRecord' /\ InHand(r)'
  <1>a. \A label : Goto(r, label) => pc'[r] = label
    BY DEF Goto, TypeInv, TypeOK
  <1>b. /\ req' = req /\ req[r] \in Calls /\ req[r] # None /\ KeyOf(r) \in Keys
        /\ Running(r) /\ Stage(r)
    BY StepFrame, Called, KeyOfType, NoneApart DEF Rename, IfdHash, ReadMeta, At, Running,
       Ended, InLock
  <1>c. UNCHANGED <<side, row, cur, scan>>
    BY DEF Rename, IfdHash, ReadMeta, disk, local
  <1>d. KeyOf(r)' = KeyOf(r)
    BY <1>b, <1>c DEF KeyOf, Walker
  <1>e. meta \in [Requests -> Metas] /\ meta[r] \in Metas
    BY DEF TypeInv, TypeOK
  <1>1. OnRecord'
    BY <1>c, OnRecordFrame DEF SoundInv
  <1>2. pc'[r] \notin HoldsRow
    BY <1>a DEF Rename, IfdHash, ReadMeta, End, HoldsRow
  <1>3. pc'[r] \in HoldsMeta => Sound(KeyOf(r), meta'[r])
    <2>1. CASE Rename(r)
      <3>1. req[r].op = "put" /\ ~Walker(r)
        BY <1>b, <2>1 DEF Rename, At, Stage, Ended, ReadLabels, AclLabels, WalkLabels, InLock,
           InIndexFromDisk, PutLabels, Walker, Walkers
      <3>2. Body(r) \in Uploaded[req[r].key] /\ (req[r].public => req[r].key \in Loud)
        BY <1>b, <3>1, InHistory
      <3>3. meta'[r] = PutMeta(r)
        BY <1>e, <2>1 DEF Rename
      <3> QED
        BY <3>1, <3>2, <3>3 DEF PutMeta, PutHash, Hash, Sound, KeyOf
    <2>2. CASE IfdHash(r)
      <3>1. CASE File(r) = None
        BY <1>a, <2>2, <3>1 DEF IfdHash, End, HoldsMeta
      <3>2. CASE File(r) # None
        <4>1. File(r) \in Uploaded[KeyOf(r)]
          BY <1>b, <3>2 DEF WholeInv, File
        <4>2. Sound(KeyOf(r), meta[r])
          BY <2>2 DEF IfdHash, At, SoundInv, InHand, HoldsMeta
        <4>3. meta'[r] = [meta[r] EXCEPT !.etag = File(r)]
          BY <1>e, <2>2, <3>2 DEF IfdHash, Hash
        <4>4. meta'[r].etag = File(r) /\ meta'[r].public = meta[r].public
          BY <1>e, <4>3 DEF Metas
        <4> QED
          BY <4>1, <4>2, <4>4 DEF Sound
      <3> QED
        BY <3>1, <3>2
    <2>3. CASE ReadMeta(r)
      <3>1. req[r].op = "acl" /\ ~Walker(r)
        BY <1>b, <2>3 DEF ReadMeta, At, Stage, Ended, ReadLabels, AclLabels, WalkLabels,
           InLock, InIndexFromDisk, PutLabels, Walker, Walkers
      <3>2. req[r].public => req[r].key \in Loud
        BY <1>b, <3>1, InHistory
      <3>3. KeyOf(r) = req[r].key /\ side[req[r].key] \in Metas /\ Sound(req[r].key, side[req[r].key])
        BY <1>b, <3>1 DEF KeyOf, SoundInv, OnRecord, TypeInv, TypeOK
      <3>4. meta'[r] = [side[req[r].key] EXCEPT !.public = req[r].public]
        BY <1>e, <2>3 DEF ReadMeta
      <3>5. meta'[r].etag = side[req[r].key].etag /\ meta'[r].public = req[r].public
        BY <3>3, <3>4 DEF Metas
      <3> QED
        BY <3>2, <3>3, <3>5 DEF Sound
    <2> QED
      BY <2>1, <2>2, <2>3
  <1>4. pc'[r] \in HoldsMeta => Sound(KeyOf(r), meta[r])'
    BY <1>b, <1>d, <1>3, HistoryGrows DEF Sound
  <1>5. \A k \in Keys : scan'[r].upserts[k] # None => Sound(k, scan[r].upserts[k])'
    BY <1>c, HistoryGrows DEF SoundInv, InHand, Sound
  <1> QED
    BY <1>1, <1>2, <1>4, <1>5 DEF InHand

\* The steps that take a row into memory, or a hash into the one held.
LEMMA RowInHand ==
  ASSUME TypeInv, SoundInv, WholeInv, [Next]_vars, NEW r \in Requests, Step(r),
         StatTarget(r) \/ GetRow(r) \/ HashFile(r)
  PROVE  OnRecord' /\ InHand(r)'
  <1>a. \A label : Goto(r, label) => pc'[r] = label
    BY DEF Goto, TypeInv, TypeOK
  <1>b. /\ req' = req /\ req[r] \in Calls /\ req[r] # None
        /\ Running(r) /\ Stage(r)
        /\ req[r].key \in Keys /\ KeyOf(r) = req[r].key
    BY StepFrame, Called, KeyOfType, NoneApart DEF StatTarget, GetRow, HashFile, At, Running,
       Ended, InLock, InIndexFromDisk
  <1>c. UNCHANGED <<side, row, meta, scan>>
    BY DEF StatTarget, GetRow, HashFile, disk
  <1>e. cur \in [Requests -> Rows \cup {None}]
    BY DEF TypeInv, TypeOK
  <1>1. OnRecord'
    BY <1>c, OnRecordFrame DEF SoundInv
  <1>2. pc'[r] \notin HoldsMeta
    BY <1>a DEF StatTarget, GetRow, HashFile, End, HoldsMeta
  <1>3. pc'[r] \in HoldsRow => Sound(req[r].key, cur'[r])
    <2>1. CASE StatTarget(r)
      <3>1. CASE File(r) = None
        BY <1>a, <2>1, <3>1 DEF StatTarget, End, HoldsRow
      <3>2. CASE File(r) # None
        <4>1. Sound(req[r].key, meta[r])
          BY <1>b, <2>1 DEF StatTarget, At, SoundInv, InHand, HoldsMeta
        <4>2. cur'[r] = RowOf(File(r).n, meta[r])
          BY <1>e, <2>1, <3>2 DEF StatTarget
        <4> QED
          BY <1>b, <4>1, <4>2, SoundBasics
      <3> QED
        BY <3>1, <3>2
    <2>2. CASE GetRow(r)
      <3>1. CASE row[req[r].key] = None
        BY <1>a, <2>2, <3>1 DEF GetRow, HoldsRow
      <3>2. CASE row[req[r].key] # None
        <4>1. row[req[r].key] \in Rows /\ Sound(req[r].key, row[req[r].key])
          BY <1>b, <3>2 DEF SoundInv, OnRecord, TypeInv, TypeOK
        <4>2. CASE req[r].op = "acl"
          <5>1. req[r].public => req[r].key \in Loud
            BY <1>b, <4>2, InHistory
          <5>2. cur'[r] = [row[req[r].key] EXCEPT !.public = req[r].public]
            BY <1>e, <2>2, <3>2, <4>2 DEF GetRow
          <5>3. cur'[r].etag = row[req[r].key].etag /\ cur'[r].public = req[r].public
            BY <4>1, <5>2 DEF Rows
          <5> QED
            BY <4>1, <5>1, <5>3 DEF Sound
        <4>3. CASE req[r].op # "acl"
          <5>1. cur'[r] = row[req[r].key]
            BY <1>e, <2>2, <3>2, <4>3 DEF GetRow
          <5> QED
            BY <4>1, <5>1
        <4> QED
          BY <4>2, <4>3
      <3> QED
        BY <3>1, <3>2
    <2>3. CASE HashFile(r)
      <3>1. CASE File(r) = None
        BY <1>a, <2>3, <3>1 DEF HashFile, End, HoldsRow
      <3>2. CASE File(r) # None
        <4>1. File(r) \in Uploaded[req[r].key]
          BY <1>b, <3>2 DEF WholeInv, File
        <4>2. Sound(req[r].key, cur[r]) /\ cur[r] \in Rows
          BY <1>b, <1>e, <2>3 DEF HashFile, At, SoundInv, InHand, HoldsRow, TypeInv, Placed,
             Place
        <4>3. cur'[r] = [cur[r] EXCEPT !.etag = File(r)]
          BY <1>e, <2>3, <3>2 DEF HashFile, Hash
        <4>4. cur'[r].etag = File(r) /\ cur'[r].public = cur[r].public
          BY <4>2, <4>3 DEF Rows
        <4> QED
          BY <4>1, <4>2, <4>4 DEF Sound
      <3> QED
        BY <3>1, <3>2
    <2> QED
      BY <2>1, <2>2, <2>3
  <1>4. pc'[r] \in HoldsRow => Sound(req[r].key, cur[r])'
    BY <1>b, <1>3, HistoryGrows DEF Sound
  <1>5. \A k \in Keys : scan'[r].upserts[k] # None => Sound(k, scan[r].upserts[k])'
    BY <1>c, HistoryGrows DEF SoundInv, InHand, Sound
  <1> QED
    BY <1>1, <1>2, <1>4, <1>5 DEF InHand

\* indexFromDisk hands its caller a row as sound as the metadata it is built from.
LEMMA IndexedSound ==
  ASSUME TypeInv, SoundInv, [Next]_vars, NEW r \in Requests, Running(r),
         pc[r] \in InIndexFromDisk, req' = req, cur[r] \in Rows,
         NEW m \in Metas, Sound(KeyOf(r), m), Indexed(r, m)
  PROVE  InHand(r)'
  <1> DEFINE built == RowOf(cur[r].size, m)
  <1>a. \A label : Goto(r, label) => pc'[r] = label
    BY DEF Goto, TypeInv, TypeOK
  <1>b. /\ req[r] \in Calls /\ KeyOf(r) \in Keys /\ Stage(r)
        /\ ~Walker(r) => req[r].key \in Keys /\ req[r].key = KeyOf(r)
        /\ Walker(r) => scan[r].at \in Keys
    BY Called, KeyOfType DEF Running, InIndexFromDisk, InLock
  <1>c. built \in Rows /\ Sound(KeyOf(r), built)
    BY <1>b, RowFields, RowOfType, SoundBasics
  <1> HIDE DEF built
  <1>1. CASE Walker(r)
    <2>1. /\ scan' = [scan EXCEPT ![r] = [scan[r] EXCEPT !.upserts[scan[r].at] = built]]
          /\ pc'[r] = "walk"
      BY <1>a, <1>1 DEF Indexed, built
    <2>2. scan[r] \in Scans /\ scan \in [Requests -> Scans]
      BY DEF TypeInv, TypeOK
    <2>3. scan'[r].upserts = [scan[r].upserts EXCEPT ![scan[r].at] = built]
      BY <2>1, <2>2 DEF Scans
    <2>4. ASSUME NEW k \in Keys, scan'[r].upserts[k] # None
          PROVE  Sound(k, scan[r].upserts[k])'
      <3>1. scan[r].upserts \in [Keys -> Rows \cup {None}]
        BY <2>2, ScanFields
      <3>2. CASE k = scan[r].at
        <4>1. scan'[r].upserts[k] = built
          BY <2>3, <3>1, <3>2
        <4> QED
          BY <1>1, <1>c, <3>2, <4>1, HistoryGrows DEF Sound, KeyOf
      <3>3. CASE k # scan[r].at
        <4>1. scan'[r].upserts[k] = scan[r].upserts[k]
          BY <2>3, <3>1, <3>3
        <4> QED
          BY <2>4, <4>1, HistoryGrows DEF Sound, SoundInv, InHand
      <3> QED
        BY <3>2, <3>3
    <2> QED
      BY <2>1, <2>4 DEF InHand, HoldsMeta, HoldsRow
  <1>2. CASE ~Walker(r)
    <2>1. pc'[r] = "upsert" /\ scan' = scan
      BY <1>a, <1>2 DEF Indexed
    <2>2. Sound(req[r].key, cur'[r])
      <3>1. CASE req[r].op = "acl"
        <4>1. req[r].public => req[r].key \in Loud
          BY <3>1, InHistory
        <4>2. cur'[r] = [built EXCEPT !.public = req[r].public]
          BY <1>2, <3>1 DEF Indexed, built, TypeInv, TypeOK
        <4>3. cur'[r].etag = built.etag /\ cur'[r].public = req[r].public
          BY <1>c, <4>2 DEF Rows
        <4> QED
          BY <1>b, <1>c, <1>2, <4>1, <4>3 DEF Sound
      <3>2. CASE req[r].op # "acl"
        <4>1. cur'[r] = built
          BY <1>2, <3>2 DEF Indexed, built, TypeInv, TypeOK
        <4> QED
          BY <1>b, <1>c, <1>2, <4>1
      <3> QED
        BY <3>1, <3>2
    <2>3. Sound(req[r].key, cur[r])'
      BY <1>b, <1>2, <2>2, HistoryGrows DEF Sound
    <2>4. \A k \in Keys : scan'[r].upserts[k] # None => Sound(k, scan[r].upserts[k])'
      BY <2>1, HistoryGrows DEF SoundInv, InHand, Sound
    <2> QED
      BY <2>1, <2>3, <2>4 DEF InHand, HoldsMeta
  <1> QED
    BY <1>1, <1>2

LEMMA IndexFromDiskSound ==
  ASSUME TypeInv, SoundInv, [Next]_vars, NEW r \in Requests, Step(r),
         IfdMeta(r) \/ IfdWrite(r)
  PROVE  OnRecord' /\ InHand(r)'
  <1>b. /\ Running(r) /\ pc[r] \in InIndexFromDisk /\ req' = req /\ cur[r] \in Rows
        /\ KeyOf(r) \in Keys /\ row' = row /\ req[r] # None
    <2>1. Running(r) /\ pc[r] \in InIndexFromDisk /\ pc[r] # "idle"
      BY DEF IfdMeta, IfdWrite, At, Running, Ended, InIndexFromDisk
    <2>2. req' = req /\ row' = row /\ KeyOf(r) \in Keys /\ req[r] # None
      BY <2>1, StepFrame, KeyOfType, Called, NoneApart DEF IfdMeta, IfdWrite, InLock,
         InIndexFromDisk
    <2>3. cur[r] \in Rows
      BY DEF IfdMeta, IfdWrite, At, TypeInv, TypeOK, Placed, Place
    <2> QED
      BY <2>1, <2>2, <2>3
  <1>1. CASE IfdMeta(r)
    <2>1. side' = side
      BY <1>1 DEF IfdMeta, disk
    <2>2. side[KeyOf(r)] \in Metas /\ Sound(KeyOf(r), side[KeyOf(r)])
      BY <1>b DEF SoundInv, OnRecord, TypeInv, TypeOK
    <2>3. InHand(r)'
      <3>1. CASE side[KeyOf(r)].etag # None
        <4>1. Indexed(r, side[KeyOf(r)])
          BY <1>1, <3>1 DEF IfdMeta
        <4> QED
          BY <1>b, <2>2, <4>1, IndexedSound
      <3>2. CASE side[KeyOf(r)].etag = None
        <4>1. /\ pc'[r] = "ifdHash" /\ meta'[r] = side[KeyOf(r)]
              /\ UNCHANGED <<cur, scan>>
          BY <1>1, <3>2 DEF IfdMeta, Goto, TypeInv, TypeOK
        <4>2. KeyOf(r)' = KeyOf(r)
          BY <1>b, <4>1 DEF KeyOf, Walker
        <4>3. Sound(KeyOf(r), meta[r])'
          BY <1>b, <2>2, <4>1, <4>2, HistoryGrows DEF Sound
        <4>4. \A k \in Keys : scan'[r].upserts[k] # None => Sound(k, scan[r].upserts[k])'
          BY <4>1, HistoryGrows DEF SoundInv, InHand, Sound
        <4> QED
          BY <4>1, <4>3, <4>4 DEF InHand, HoldsRow
      <3> QED
        BY <3>1, <3>2
    <2> QED
      BY <1>b, <2>1, <2>3, OnRecordFrame DEF SoundInv
  <1>2. CASE IfdWrite(r)
    <2>1. Sound(KeyOf(r), meta[r]) /\ meta[r] \in Metas
      BY <1>2 DEF IfdWrite, At, SoundInv, InHand, HoldsMeta, TypeInv, TypeOK
    <2>2. PICK m \in {meta[r], GarbledMeta} :
            side' = [side EXCEPT ![KeyOf(r)] = m] \/ side' = side
      BY <1>2 DEF IfdWrite, FillMeta, Overlays
    <2>3. OnRecord'
      BY <1>b, <2>1, <2>2, SidecarSound
    <2>4. InHand(r)'
      BY <1>b, <1>2, <2>1, IndexedSound DEF IfdWrite
    <2> QED
      BY <2>3, <2>4
  <1> QED
    BY <1>1, <1>2

\* The steps that write the index: every row they leave is one they found, the
\* one in hand, or one the walk gathered.
LEMMA RowActions ==
  ASSUME TypeInv, SoundInv, [Next]_vars, NEW r \in Requests, Step(r),
         Upsert(r) \/ SetETag(r) \/ RemoveRow(r) \/ Apply(r)
  PROVE  OnRecord' /\ InHand(r)'
  <1>a. pc'[r] \notin HoldsMeta \cup HoldsRow
    BY DEF Upsert, SetETag, RemoveRow, Apply, End, Goto, HoldsMeta, HoldsRow, TypeInv, TypeOK
  <1>b. /\ side' = side /\ scan' = scan
        /\ row \in [Keys -> Rows \cup {None}]
    BY DEF Upsert, SetETag, RemoveRow, Apply, disk, local, TypeInv, TypeOK
  <1>c. \A k \in Keys : Sound(k, side[k])'
    BY <1>b, HistoryGrows DEF SoundInv, OnRecord, Sound
  <1>d. ~Apply(r) => Running(r) /\ req[r].key \in Keys
    BY KeyOfType DEF Upsert, SetETag, RemoveRow, At, Running, Ended, InLock, InIndexFromDisk
  <1>1. ASSUME NEW k \in Keys, row'[k] # None PROVE Sound(k, row'[k])
    <2>1. CASE Upsert(r)
      <3>1. Sound(req[r].key, cur[r])
        BY <2>1 DEF Upsert, At, SoundInv, InHand, HoldsRow
      <3>2. row'[k] = IF k = req[r].key THEN cur[r] ELSE row[k]
        BY <1>b, <2>1 DEF Upsert
      <3> QED
        BY <1>1, <3>1, <3>2 DEF SoundInv, OnRecord
    <2>2. CASE SetETag(r)
      <3>1. Sound(req[r].key, cur[r])
        BY <2>2 DEF SetETag, At, SoundInv, InHand, HoldsRow
      <3>2. CASE row[req[r].key] = None \/ k # req[r].key
        <4>1. row'[k] = row[k]
          BY <1>b, <2>2, <3>2 DEF SetETag
        <4> QED
          BY <1>1, <4>1 DEF SoundInv, OnRecord
      <3>3. CASE row[req[r].key] # None /\ k = req[r].key
        <4>1. row'[k] = [row[k] EXCEPT !.etag = cur[r].etag]
          BY <1>b, <2>2, <3>3 DEF SetETag
        <4>2. row[k] \in Rows /\ Sound(k, row[k])
          BY <1>b, <3>3 DEF SoundInv, OnRecord
        <4>3. row'[k].etag = cur[r].etag /\ row'[k].public = row[k].public
          BY <4>1, <4>2 DEF Rows
        <4> QED
          BY <3>1, <3>3, <4>2, <4>3 DEF Sound
      <3> QED
        BY <3>2, <3>3
    <2>3. CASE RemoveRow(r)
      <3>1. row'[k] = row[k]
        BY <1>1, <1>b, <2>3 DEF RemoveRow
      <3> QED
        BY <1>1, <3>1 DEF SoundInv, OnRecord
    <2>4. CASE Apply(r)
      <3>1. \/ scan[r].upserts[k] # None /\ row'[k] = scan[r].upserts[k]
            \/ row'[k] = row[k]
        BY <1>1, <2>4 DEF Apply
      <3> QED
        BY <1>1, <3>1 DEF SoundInv, OnRecord, InHand
    <2> QED
      BY <2>1, <2>2, <2>3, <2>4
  <1>2. OnRecord'
    BY <1>1, <1>c, HistoryGrows DEF OnRecord, Sound
  <1>3. \A k \in Keys : scan'[r].upserts[k] # None => Sound(k, scan[r].upserts[k])'
    BY <1>b, HistoryGrows DEF SoundInv, InHand, Sound
  <1> QED
    BY <1>a, <1>2, <1>3 DEF InHand

\* A sidecar that cannot be read is taken for one that says nothing.
LEMMA MisreadInHand ==
  ASSUME TypeInv, SoundInv, [Next]_vars, NEW r \in Requests, Misread(r)
  PROVE  OnRecord' /\ InHand(r)'
  <1>1. /\ req' = req /\ req[r] \in Calls /\ req[r] # None /\ Stage(r) /\ Running(r)
        /\ UNCHANGED <<side, row, cur, scan>> /\ meta \in [Requests -> Metas]
    BY MisreadMoves DEF TypeInv, TypeOK
  <1>2. OnRecord'
    BY <1>1, OnRecordFrame DEF SoundInv
  <1>3. pc'[r] \notin HoldsRow
    BY MisreadMoves DEF HoldsRow
  <1>4. pc'[r] \in HoldsMeta => KeyOf(r) \in Keys /\ Sound(KeyOf(r), meta'[r])
    <2>1. CASE pc[r] = "readmeta"
      <3>1. req[r].op = "acl" /\ ~Walker(r)
        BY <1>1, <2>1 DEF Stage, Ended, ReadLabels, AclLabels, WalkLabels, InLock,
           InIndexFromDisk, PutLabels, Walker, Walkers
      <3>2. req[r].key \in Keys /\ KeyOf(r) = req[r].key
        BY <1>1, <2>1, KeyOfType, <3>1 DEF InLock
      <3>3. req[r].public => req[r].key \in Loud
        BY <1>1, <3>1, InHistory
      <3>4. meta'[r] = [NoMeta EXCEPT !.public = req[r].public]
        BY <1>1, <2>1, MisreadMoves
      <3>5. meta'[r].etag = None /\ meta'[r].public = req[r].public
        BY <3>4 DEF NoMeta
      <3> QED
        BY <3>2, <3>3, <3>5 DEF Sound
    <2>2. CASE pc[r] = "ifdMeta"
      <3>1. KeyOf(r) \in Keys
        BY <1>1, <2>2, KeyOfType DEF InLock
      <3>2. meta'[r] = NoMeta
        BY <1>1, <2>2, MisreadMoves
      <3> QED
        BY <3>1, <3>2, SoundBasics
    <2>3. CASE pc[r] \notin {"readmeta", "ifdMeta"}
      BY <2>3, MisreadMoves DEF HoldsMeta
    <2> QED
      BY <2>1, <2>2, <2>3
  <1>5. KeyOf(r)' = KeyOf(r)
    BY <1>1 DEF KeyOf, Walker
  <1>6. pc'[r] \in HoldsMeta => Sound(KeyOf(r), meta[r])'
    BY <1>4, <1>5, HistoryGrows DEF Sound
  <1>7. \A k \in Keys : scan'[r].upserts[k] # None => Sound(k, scan[r].upserts[k])'
    BY <1>1, HistoryGrows DEF SoundInv, InHand, Sound
  <1> QED
    BY <1>2, <1>3, <1>6, <1>7 DEF InHand

LEMMA SoundStep ==
  ASSUME TypeInv, TempInv, WholeInv, SoundInv, [Next]_vars
  PROVE  SoundInv'
  <1>a. \A q \in Requests : req[q] = None => pc[q] = "idle"
    BY DEF TypeInv, Placed, Place
  <1>1. ASSUME NEW r \in Requests, Step(r) PROVE SoundInv'
    <2>1. OnRecord' /\ InHand(r)'
      BY <1>1, QuietActions, SidecarActions, MetaInHand, RowInHand, IndexFromDiskSound,
         RowActions DEF Step
    <2>2. ASSUME NEW q \in Requests \ {r} PROVE InHand(q)'
      <3>1. pc'[q] = pc[q] /\ meta'[q] = meta[q] /\ cur'[q] = cur[q] /\ scan'[q] = scan[q]
        BY <1>1, StepFrame
      <3> QED
        BY <1>a, <3>1, InHandFrame DEF SoundInv, HoldsMeta, HoldsRow
    <2> QED
      BY <2>1, <2>2 DEF SoundInv
  <1>2. CASE UNCHANGED <<side, row, local>> /\ \A q \in Requests :
               pc'[q] = pc[q] \/ pc'[q] \notin HoldsMeta \cup HoldsRow
    <2>1. OnRecord'
      BY <1>2, OnRecordFrame DEF SoundInv
    <2>2. ASSUME NEW q \in Requests PROVE InHand(q)'
      BY <1>2, <1>a, InHandFrame DEF SoundInv, HoldsMeta, HoldsRow, local
    <2> QED
      BY <2>1, <2>2 DEF SoundInv
  <1>3. ASSUME NEW r \in Requests, Start(r) PROVE SoundInv'
    <2>1. PICK c \in Calls : Goto(r, Entry[c.op])
      BY <1>3 DEF Start
    <2>2. Entry[c.op] \notin HoldsMeta \cup HoldsRow
      BY CallFields DEF Entry, AllOps, HoldsMeta, HoldsRow
    <2>3. \A q \in Requests : pc'[q] = pc[q] \/ pc'[q] \notin HoldsMeta \cup HoldsRow
      BY <2>1, <2>2 DEF Goto, TypeInv, TypeOK
    <2> QED
      BY <1>2, <1>3, <2>3 DEF Start, disk
  <1>4. ASSUME NEW r \in Requests, Fail(r) PROVE SoundInv'
    <2>1. \A q \in Requests : pc'[q] = pc[q] \/ pc'[q] \notin HoldsMeta \cup HoldsRow
      BY <1>4 DEF Fail, End, Goto, HoldsMeta, HoldsRow, TypeInv, TypeOK
    <2> QED
      BY <1>2, <1>4, <2>1 DEF Fail
  <1>7. ASSUME NEW r \in Requests, Misread(r) PROVE SoundInv'
    <2>1. OnRecord' /\ InHand(r)'
      BY <1>7, MisreadInHand
    <2>2. ASSUME NEW q \in Requests \ {r} PROVE InHand(q)'
      <3>1. pc'[q] = pc[q] /\ meta'[q] = meta[q] /\ cur'[q] = cur[q] /\ scan'[q] = scan[q]
        BY <1>7, MisreadMoves
      <3> QED
        BY <1>a, <3>1, InHandFrame DEF SoundInv, HoldsMeta, HoldsRow
    <2> QED
      BY <2>1, <2>2 DEF SoundInv
  <1>5. CASE Crash
    <2>1. \A q \in Requests : pc'[q] = pc[q] \/ pc'[q] \notin HoldsMeta \cup HoldsRow
      BY <1>5 DEF Crash, HoldsMeta, HoldsRow
    <2> QED
      BY <1>2, <1>5, <2>1 DEF Crash
  <1>6. CASE Rest \/ UNCHANGED vars
    BY <1>2, <1>6 DEF Rest, vars, disk
  <1> QED
    BY <1>1, <1>3, <1>4, <1>5, <1>6, <1>7 DEF Next

LEMMA SoundInit == Init => SoundInv
  <1> SUFFICES ASSUME Init PROVE SoundInv
    OBVIOUS
  <1>1. PICK how \in [Keys -> InitStates] :
          /\ side = [k \in Keys |-> Stored(k, how[k]).side]
          /\ row = [k \in Keys |-> Stored(k, how[k]).row]
    BY DEF Init
  <1>2. ASSUME NEW k \in Keys
        PROVE  Sound(k, side[k]) /\ (row[k] # None => Sound(k, row[k]))
    <2> DEFINE seed == [by |-> {Seed}, n |-> 1]
               tag == [ct |-> CHOOSE t \in ContentTypes : TRUE,
                       public |-> k \in PublicSeeds, etag |-> Hash(seed)]
               bare == [tag EXCEPT !.etag = None]
    <2>1. seed \in Uploaded[k]
      BY DEF Uploaded, Originals
    <2>2. Sound(k, tag) /\ Sound(k, bare)
      BY <2>1 DEF Sound, Hash, Loud
    <2>3. how[k] \in {"absent", "indexed", "unindexed", "legacy", "untagged"}
      BY ConstantsOK
    <2> HIDE DEF seed, tag, bare
    <2>4. /\ side[k] \in {NoMeta, tag, bare}
          /\ row[k] \in {None, RowOf(1, tag), RowOf(1, bare)}
      BY <1>1, <2>3 DEF Stored, seed, tag, bare
    <2> QED
      BY <2>2, <2>4, SoundBasics
  <1>3. ASSUME NEW r \in Requests PROVE InHand(r)
    BY DEF Init, InHand, HoldsMeta, HoldsRow, NoScan
  <1> QED
    BY <1>2, <1>3 DEF SoundInv, OnRecord

\* Every ETag on disk or in the index is the hash of some whole body uploaded to
\* that key, through torn sidecars, lost races and interrupted handlers.
THEOREM ETagsAreGenuine == Spec => []ETagsGenuine
  <1>1. SoundInv => ETagsGenuine
    BY DEF SoundInv, OnRecord, Sound, Uploaded, ETagsGenuine, Hash
  <1> QED
    BY <1>1, SoundInit, SoundStep, WholeInit, WholeStep, TempInit, TempStep, TypeInit,
       TypeStep, PTL DEF Spec

\* No history of overlaps, healing, crashes and failures makes an object public
\* that nobody asked to be public (readMeta's private default).
THEOREM PublicOnlyOnRequest == Spec => []PublicOnlyIfAsked
  <1>1. SoundInv => PublicOnlyIfAsked
    BY DEF SoundInv, OnRecord, Sound, Loud, PublicOnlyIfAsked
  <1> QED
    BY <1>1, SoundInit, SoundStep, WholeInit, WholeStep, TempInit, TempStep, TypeInit,
       TypeStep, PTL DEF Spec

=============================================================================

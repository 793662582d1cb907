--------------------------- MODULE StorageProofs ---------------------------
(***************************************************************************)
(* Proofs about Storage, for every set of keys and requests, every overlap *)
(* of operations and every number of crashes and failures.                 *)
(***************************************************************************)
EXTENDS Storage, TLAPS

-----------------------------------------------------------------------------
(* Data. *)

LEMMA CallFields ==
  ASSUME NEW c \in Calls
  PROVE  /\ c.op \in AllOps
         /\ c.op \in Ops
         /\ c.key \in Keys \cup {None}
         /\ (c.key = None) <=> (c.op \in Walkers)
         /\ c.len \in Nat
         /\ c.ct \in ContentTypes \cup {NoType}
         /\ c.public \in BOOLEAN
  <1>1. c \in [op : Ops, key : Keys \cup {None}, len : BodyLens \cup {0},
               ct : ContentTypes \cup {NoType}, public : BOOLEAN]
    BY DEF Calls
  <1>2. (c.key = None) <=> (c.op \in Walkers)
    BY DEF Calls
  <1>3. Ops \subseteq AllOps /\ BodyLens \cup {0} \subseteq Nat
    BY ConstantsOK
  <1>4. c.op \in Ops /\ c.len \in BodyLens \cup {0}
    BY <1>1
  <1>5. c.key \in Keys \cup {None} /\ c.ct \in ContentTypes \cup {NoType} /\ c.public \in BOOLEAN
    BY <1>1
  <1>6. c.op \in AllOps
    BY <1>3, <1>4
  <1>7. c.len \in Nat
    BY <1>3, <1>4
  <1> QED
    BY <1>2, <1>4, <1>5, <1>6, <1>7

LEMMA NoMetaType == NoMeta \in Metas /\ GarbledMeta \in Metas
  BY DEF NoMeta, GarbledMeta, Metas, Types

LEMMA MetaFields ==
  ASSUME NEW m \in Metas
  PROVE  m.ct \in Types /\ m.public \in BOOLEAN /\ m.etag \in Blobs \cup {None}
  BY DEF Metas

LEMMA MetaExcept ==
  ASSUME NEW m \in Metas
  PROVE  /\ \A b \in Blobs \cup {None} : [m EXCEPT !.etag = b] \in Metas
         /\ \A p \in BOOLEAN : [m EXCEPT !.public = p] \in Metas
  BY DEF Metas

LEMMA RowFields ==
  ASSUME NEW w \in Rows
  PROVE  /\ w.size \in Nat /\ w.etag \in Blobs \cup {None}
         /\ w.ct \in Types /\ w.public \in BOOLEAN
  BY DEF Rows

LEMMA RowExcept ==
  ASSUME NEW w \in Rows
  PROVE  /\ \A b \in Blobs \cup {None} : [w EXCEPT !.etag = b] \in Rows
         /\ \A p \in BOOLEAN : [w EXCEPT !.public = p] \in Rows
  BY DEF Rows

LEMMA RowOfType ==
  ASSUME NEW n \in Nat, NEW m \in Metas
  PROVE  RowOf(n, m) \in Rows
  BY DEF RowOf, Rows, Metas

LEMMA ScanFields ==
  ASSUME NEW z \in Scans
  PROVE  /\ z.existing \in [Keys -> Rows \cup {None}] /\ z.names \in SUBSET Keys
         /\ z.seen \in SUBSET Keys /\ z.upserts \in [Keys -> Rows \cup {None}]
         /\ z.at \in Keys \cup {None}
  BY DEF Scans

LEMMA ScanExcept ==
  ASSUME NEW z \in Scans
  PROVE  /\ \A S \in SUBSET Keys : [z EXCEPT !.seen = S] \in Scans
         /\ \A S \in SUBSET Keys : [z EXCEPT !.names = S] \in Scans
         /\ \A f \in [Keys -> Rows \cup {None}] : [z EXCEPT !.existing = f] \in Scans
  BY DEF Scans

LEMMA ScanVisit ==
  ASSUME NEW z \in Scans, NEW k \in Keys
  PROVE  [z EXCEPT !.names = @ \ {k}, !.seen = @ \cup {k}, !.at = k] \in Scans
  BY DEF Scans

LEMMA ScanUpsert ==
  ASSUME NEW z \in Scans, NEW k \in Keys, NEW w \in Rows
  PROVE  [z EXCEPT !.upserts[k] = w] \in Scans
  BY DEF Scans

LEMMA OverlaysType ==
  ASSUME NEW old, NEW new \in Metas, NEW m \in Overlays(old, new)
  PROVE  m \in Metas
  BY NoMetaType DEF Overlays

LEMMA NoneApart ==
  /\ None \notin Blobs /\ None \notin Rows /\ None \notin Keys
  /\ None \notin Requests /\ None \notin Calls
  BY SentinelsOK

LEMMA BlobGrows ==
  ASSUME NEW b \in Blobs, NEW r \in Requests
  PROVE  [by |-> b.by \cup {r}, n |-> b.n + 1] \in Blobs
  <1>1. b.by \in SUBSET Authors /\ b.n \in Nat
    BY DEF Blobs
  <1>2. b.n + 1 \in Nat
    BY <1>1
  <1> QED
    BY <1>1, <1>2 DEF Blobs, Authors

LEMMA BodyType ==
  ASSUME NEW r \in Requests, req[r] \in Calls
  PROVE  Body(r) \in Blobs
  BY CallFields DEF Body, Blobs, Authors

LEMMA NoScanType == NoScan \in Scans
  BY DEF NoScan, Scans

LEMMA StoredType ==
  ASSUME NEW k \in Keys, NEW how \in InitStates
  PROVE  /\ Stored(k, how).file \in Blobs \cup {None}
         /\ Stored(k, how).side \in Metas
         /\ Stored(k, how).row \in Rows \cup {None}
  <1> DEFINE seed == [by |-> {Seed}, n |-> 1]
             tag == [ct |-> CHOOSE t \in ContentTypes : TRUE,
                     public |-> k \in PublicSeeds, etag |-> Hash(seed)]
             bare == [tag EXCEPT !.etag = None]
  <1>1. seed \in Blobs
    BY DEF Blobs, Authors
  <1>2. tag \in Metas
    BY <1>1, ConstantsOK DEF Metas, Types, Hash
  <1>3. bare \in Metas
    BY <1>2, MetaExcept
  <1>4. RowOf(1, tag) \in Rows /\ RowOf(1, bare) \in Rows
    BY <1>2, <1>3, RowOfType
  <1>5. how \in {"absent", "indexed", "unindexed", "legacy", "untagged"}
    BY ConstantsOK
  <1> HIDE DEF seed, tag, bare
  <1>6. Stored(k, how) \in {[file |-> None, side |-> NoMeta, row |-> None],
                            [file |-> seed, side |-> tag,  row |-> RowOf(1, tag)],
                            [file |-> seed, side |-> tag,  row |-> None],
                            [file |-> seed, side |-> bare, row |-> None],
                            [file |-> seed, side |-> bare, row |-> RowOf(1, bare)]}
    BY <1>5 DEF Stored, seed, tag, bare
  <1> QED
    BY <1>1, <1>2, <1>3, <1>4, <1>6, NoMetaType

-----------------------------------------------------------------------------
(* Type correctness.  The types of what a step reads depend on where its     *)
(* handler stands: Placed says which operations reach which label and which  *)
(* of a handler's variables are set there.                                   *)

WalkLabels == {"hasrows", "hasfiles", "query", "lock"} \cup InLock \cup InIndexFromDisk
ReadLabels == {"public", "publicMeta", "open", "getrow", "hash", "settag", "upsert"}
                \cup InIndexFromDisk
AclLabels == {"isfile", "readmeta", "trunc", "write", "getrow", "upsert"} \cup InIndexFromDisk
PutLabels == {"mktemp", "copy", "rename", "trunc", "write", "stat", "upsert"}

Stage(r) ==
  \/ pc[r] \in Ended
  \/ req[r].op = "put" /\ pc[r] \in PutLabels
  \/ req[r].op \in {"get", "anon"} /\ pc[r] \in ReadLabels
  \/ req[r].op = "acl" /\ pc[r] \in AclLabels
  \/ req[r].op = "delete" /\ pc[r] \in {"rmfile", "rmside", "rmrow"}
  \/ req[r].op \in Walkers /\ pc[r] \in WalkLabels

Place(r) ==
  /\ req[r] = None => pc[r] = "idle"
  /\ req[r] # None => Stage(r)
  /\ req[r] # None /\ Walker(r) /\ pc[r] \in InIndexFromDisk => scan[r].at # None
  /\ pc[r] \in {"copy", "rename"} => tmp[r] # None
  /\ pc[r] \in {"upsert", "hash", "settag", "ifdMeta", "ifdHash", "ifdTrunc", "ifdWrite"}
       => cur[r] # None
  /\ req[r] # None /\ req[r].op = "put" /\ pc[r] = "trunc" => meta[r] # NoMeta
Placed == \A r \in Requests : Place(r)

TypeInv == TypeOK /\ Placed

LEMMA TypeInit == Init => TypeInv
  <1> SUFFICES ASSUME Init PROVE TypeInv
    OBVIOUS
  <1>1. PICK how \in [Keys -> InitStates] :
          /\ file = [k \in Keys |-> Stored(k, how[k]).file]
          /\ side = [k \in Keys |-> Stored(k, how[k]).side]
          /\ row  = [k \in Keys |-> Stored(k, how[k]).row]
    BY DEF Init
  <1>2. /\ file \in [Keys -> Blobs \cup {None}]
        /\ side \in [Keys -> Metas]
        /\ row \in [Keys -> Rows \cup {None}]
    BY <1>1, StoredType
  <1>3. TypeOK
    BY <1>2, NoMetaType, NoScanType, ConstantsOK DEF Init, TypeOK, Labels
  <1>4. Placed
    BY DEF Init, Placed, Place, InIndexFromDisk
  <1> QED
    BY <1>3, <1>4 DEF TypeInv

\* A step of r leaves every other handler where it is.
LEMMA PlacedFrame ==
  ASSUME Placed, NEW r \in Requests, Place(r)',
         \A q \in Requests \ {r} : /\ req'[q] = req[q] /\ pc'[q] = pc[q]
                                   /\ tmp'[q] = tmp[q] /\ cur'[q] = cur[q]
                                   /\ scan'[q] = scan[q] /\ meta'[q] = meta[q]
  PROVE  Placed'
  <1> SUFFICES ASSUME NEW q \in Requests PROVE Place(q)'
    BY DEF Placed
  <1>1. CASE q = r
    BY <1>1
  <1>2. CASE q # r
    BY <1>2 DEF Placed, Place, Stage, Walker
  <1> QED
    BY <1>1, <1>2

LEMMA Called ==
  ASSUME TypeInv, NEW r \in Requests, pc[r] # "idle"
  PROVE  req[r] \in Calls /\ Stage(r)
  BY NoneApart DEF TypeInv, TypeOK, Placed, Place

\* A handler at work on a key has one.
LEMMA KeyOfType ==
  ASSUME TypeInv, NEW r \in Requests, Running(r),
         pc[r] \notin {"hasrows", "hasfiles", "query", "lock"} \cup InLock
  PROVE  /\ KeyOf(r) \in Keys
         /\ ~Walker(r) => req[r].key \in Keys /\ req[r].key = KeyOf(r)
         /\ Walker(r) => pc[r] \in InIndexFromDisk /\ scan[r].at \in Keys
  <1>1. req[r] \in Calls /\ Stage(r)
    BY Called DEF Running
  <1>2. CASE Walker(r)
    <2>1. pc[r] \in InIndexFromDisk
      BY <1>1, <1>2 DEF Walker, Walkers, Stage, WalkLabels, Running
    <2>2. scan[r].at \in Keys \cup {None} /\ scan[r].at # None
      BY <2>1, <1>1, <1>2, NoneApart DEF TypeInv, TypeOK, Scans, Placed, Place
    <2> QED
      BY <1>2, <2>1, <2>2 DEF KeyOf
  <1>3. CASE ~Walker(r)
    <2>1. req[r].key \in Keys
      BY <1>1, <1>3, CallFields DEF Walker
    <2> QED
      BY <1>3, <2>1 DEF KeyOf
  <1> QED
    BY <1>2, <1>3

LEMMA StartTypes ==
  ASSUME TypeInv, NEW r \in Requests, Start(r)
  PROVE  TypeInv'
  <1>1. PICK c \in Calls :
          /\ c.op = "startup" => boot
          /\ req' = [req EXCEPT ![r] = c]
          /\ boot' = (boot /\ c.op # "startup")
          /\ Goto(r, Entry[c.op])
    BY DEF Start
  <1>2. c.op \in AllOps /\ c # None
    BY CallFields, <1>1, NoneApart
  <1>3. /\ Entry[c.op] \in {"mktemp", "open", "public", "isfile", "rmfile", "hasrows", "lock"}
        /\ c.op = "put" <=> Entry[c.op] = "mktemp"
        /\ c.op = "get" <=> Entry[c.op] = "open"
        /\ c.op = "anon" <=> Entry[c.op] = "public"
        /\ c.op = "acl" <=> Entry[c.op] = "isfile"
        /\ c.op = "delete" <=> Entry[c.op] = "rmfile"
        /\ c.op \in Walkers <=> Entry[c.op] \in {"hasrows", "lock"}
    BY <1>2 DEF Entry, AllOps, Walkers
  <1>4. boot' \in BOOLEAN
    BY <1>1 DEF TypeInv, TypeOK
  <1>5. TypeOK'
    <2>1. req' \in [Requests -> Calls \cup {None}]
      BY <1>1 DEF TypeInv, TypeOK
    <2>2. pc' \in [Requests -> Labels]
      BY <1>1, <1>3 DEF TypeInv, TypeOK, Goto, Labels, Tolerant
    <2>3. UNCHANGED <<file, tmp, side, linked, row, lock, fd, meta, cur, scan, crashes, faults>>
      BY DEF Start, disk, local
    <2> QED
      BY <1>4, <2>1, <2>2, <2>3 DEF TypeInv, TypeOK
  <1>6. req'[r] = c /\ pc'[r] = Entry[c.op]
    BY <1>1 DEF TypeInv, TypeOK, Goto
  <1>7. Place(r)'
    BY <1>2, <1>3, <1>6 DEF Place, Stage, PutLabels, ReadLabels, AclLabels, WalkLabels,
                            InIndexFromDisk, AllOps, Walkers
  <1>8. Placed'
    BY <1>1, <1>7, PlacedFrame DEF TypeInv, TypeOK, Start, Goto, disk, local
  <1> QED
    BY <1>5, <1>8 DEF TypeInv

LEMMA PutTypes ==
  ASSUME TypeInv, NEW r \in Requests,
         CreateTemp(r) \/ Copy(r) \/ Rename(r)
  PROVE  TypeInv'
  <1>0. req[r] \in Calls /\ req[r] # None /\ Stage(r)
    BY Called, NoneApart DEF CreateTemp, Copy, Rename, At
  <1>1. CASE CreateTemp(r)
    <2>1. /\ pc' \in [Requests -> Labels] /\ pc'[r] = "copy"
          /\ \A q \in Requests \ {r} : pc'[q] = pc[q]
      BY <1>1 DEF CreateTemp, Goto, Labels, Ended, InLock, InIndexFromDisk, Tolerant,
         TypeInv, TypeOK
    <2>2. /\ tmp' \in [Requests -> Blobs \cup {None}]
          /\ tmp'[r] # None
          /\ \A q \in Requests \ {r} : tmp'[q] = tmp[q]
      BY <1>1, NoneApart DEF CreateTemp, TypeInv, TypeOK, TmpName, Blobs, Authors
    <2>3. UNCHANGED <<file, side, linked, row, lock, req, fd, meta, cur, scan, boot, crashes, faults>>
      BY <1>1 DEF CreateTemp, disk, local, env
    <2>4. TypeOK'
      BY <2>1, <2>2, <2>3 DEF TypeInv, TypeOK
    <2>5. Place(r)'
      BY <1>1, <1>0, <2>1, <2>2, <2>3 DEF CreateTemp, At, TypeInv, Placed, Place, Stage,
         Walker, Walkers, PutLabels, ReadLabels, AclLabels, WalkLabels, InIndexFromDisk,
         InLock, Ended
    <2> QED
      BY <2>1, <2>2, <2>3, <2>4, <2>5, PlacedFrame DEF TypeInv
  <1>2. CASE Copy(r)
    <2>a. tmp[r] \in Blobs
      BY <1>2, <1>0 DEF Copy, At, TypeInv, TypeOK, Placed, Place
    <2>b. [by |-> tmp[r].by \cup {r}, n |-> tmp[r].n + 1] \in Blobs
      BY <1>2, BlobGrows, <2>a DEF Copy
    <2>c. PICK b \in Blobs : tmp' \in {tmp, [tmp EXCEPT ![r] = b]}
      BY <1>2, <2>a, <2>b DEF Copy, TmpName
    <2>1. /\ pc' \in [Requests -> Labels] /\ pc'[r] \in {"copy", "rename"}
          /\ \A q \in Requests \ {r} : pc'[q] = pc[q]
      BY <1>2, <2>a, <2>b, <2>c DEF Copy, Goto, Labels, Ended, InLock, InIndexFromDisk,
         Tolerant, TypeInv, TypeOK, At
    <2>2. /\ tmp' \in [Requests -> Blobs \cup {None}]
          /\ tmp'[r] # None
          /\ \A q \in Requests \ {r} : tmp'[q] = tmp[q]
      BY <2>a, <2>b, <2>c, NoneApart DEF TypeInv, TypeOK
    <2>3. UNCHANGED <<file, side, linked, row, lock, req, fd, meta, cur, scan, boot, crashes, faults>>
      BY <1>2 DEF Copy, disk, local, env
    <2>4. TypeOK'
      BY <2>1, <2>2, <2>3 DEF TypeInv, TypeOK
    <2>5. Place(r)'
      BY <1>2, <1>0, <2>a, <2>b, <2>c, <2>1, <2>2, <2>3 DEF Copy, At, TypeInv, Placed,
         Place, Stage, Walker, Walkers, PutLabels, ReadLabels, AclLabels, WalkLabels,
         InIndexFromDisk, InLock, Ended
    <2> QED
      BY <2>1, <2>2, <2>3, <2>4, <2>5, PlacedFrame DEF TypeInv
  <1>3. CASE Rename(r)
    <2>1. /\ pc' \in [Requests -> Labels] /\ pc'[r] = "trunc"
          /\ \A q \in Requests \ {r} : pc'[q] = pc[q]
      BY <1>3 DEF Rename, Goto, Labels, Ended, InLock, InIndexFromDisk, Tolerant, TypeInv,
         TypeOK
    <2>2. file' \in [Keys -> Blobs \cup {None}]
      BY <1>3, <1>0, NoneApart, CallFields DEF Rename, TypeInv, TypeOK, At, TmpName, Stage,
         Walker, Walkers, PutLabels, ReadLabels, AclLabels, WalkLabels, InIndexFromDisk,
         InLock, Ended
    <2>3. /\ tmp' \in [Requests -> Blobs \cup {None}]
          /\ \A q \in Requests \ {r} : tmp'[q] = tmp[q]
      BY <1>3 DEF Rename, TypeInv, TypeOK, TmpName
    <2>4. /\ meta' \in [Requests -> Metas]
          /\ meta'[r] # NoMeta
          /\ \A q \in Requests \ {r} : meta'[q] = meta[q]
      BY <1>3, <1>0, CallFields, BodyType, NoneApart DEF Rename, TypeInv, TypeOK, PutMeta,
         PutHash, Hash, Metas, Types, NoMeta
    <2>5. UNCHANGED <<side, linked, row, lock, req, fd, cur, scan, boot, crashes, faults>>
      BY <1>3 DEF Rename, disk, local, env
    <2>6. TypeOK'
      BY <2>1, <2>2, <2>3, <2>4, <2>5 DEF TypeInv, TypeOK
    <2>7. Place(r)'
      BY <1>3, <1>0, <2>1, <2>2, <2>3, <2>4, <2>5 DEF Rename, At, TypeInv, Placed, Place,
         Stage, Walker, Walkers, PutLabels, ReadLabels, AclLabels, WalkLabels,
         InIndexFromDisk, InLock, Ended
    <2> QED
      BY <2>1, <2>2, <2>3, <2>4, <2>5, <2>6, <2>7, PlacedFrame DEF TypeInv
  <1> QED
    BY <1>1, <1>2, <1>3

\* Where indexFromDisk leaves its caller.
LEMMA IndexedTypes ==
  ASSUME TypeInv, NEW r \in Requests, Running(r), pc[r] \in InIndexFromDisk,
         cur[r] \in Rows, NEW m \in Metas, Indexed(r, m)
  PROVE  /\ pc' \in [Requests -> Labels]
         /\ Walker(r) => pc'[r] = "walk"
         /\ ~Walker(r) => pc'[r] = "upsert" /\ cur'[r] # None
         /\ cur' \in [Requests -> Rows \cup {None}]
         /\ scan' \in [Requests -> Scans]
         /\ \A q \in Requests \ {r} : pc'[q] = pc[q] /\ cur'[q] = cur[q] /\ scan'[q] = scan[q]
  <1> DEFINE built == RowOf(cur[r].size, m)
  <1>1. built \in Rows
    BY RowFields, RowOfType
  <1>2. req[r] \in Calls
    BY Called DEF Running
  <1> HIDE DEF built
  <1>3. CASE Walker(r)
    <2>1. scan[r].at \in Keys
      BY <1>3, KeyOfType DEF InIndexFromDisk, InLock
    <2>2. scan[r] \in Scans
      BY DEF TypeInv, TypeOK
    <2>3. [scan[r] EXCEPT !.upserts[scan[r].at] = built] \in Scans
      BY <1>1, <2>1, <2>2, ScanUpsert
    <2>4. /\ scan' = [scan EXCEPT ![r] = [scan[r] EXCEPT !.upserts[scan[r].at] = built]]
          /\ Goto(r, "walk") /\ UNCHANGED cur
      BY <1>3 DEF Indexed, built
    <2> QED
      BY <1>3, <2>3, <2>4 DEF TypeInv, TypeOK, Goto, Labels, InLock
  <1>4. CASE ~Walker(r)
    <2>1. PICK w \in Rows : /\ cur' = [cur EXCEPT ![r] = w]
                            /\ Goto(r, "upsert") /\ UNCHANGED scan
      <3>1. [built EXCEPT !.public = req[r].public] \in Rows
        BY <1>1, <1>2, CallFields, RowExcept
      <3> QED
        BY <1>1, <1>4, <3>1 DEF Indexed, built
    <2> QED
      BY <1>4, <2>1, NoneApart DEF TypeInv, TypeOK, Goto, Labels
  <1> QED
    BY <1>3, <1>4

LEMMA MetaTypes ==
  ASSUME TypeInv, NEW r \in Requests,
         Truncate(r) \/ Write(r) \/ IfdTruncate(r) \/ RemoveMeta(r)
  PROVE  TypeInv'
  <1>0. req[r] \in Calls /\ req[r] # None /\ Stage(r)
    BY Called, NoneApart DEF Truncate, Write, IfdTruncate, RemoveMeta, At
  <1>1. CASE Truncate(r)
    <2>a. KeyOf(r) \in Keys
      BY <1>1, <1>0, KeyOfType DEF Truncate, At, Running, Ended, InLock
    <2>b. req[r].op = "put" \/ req[r].op = "acl"
      BY <1>1, <1>0, <2>a DEF Truncate, At, Stage, Walker, Walkers, PutLabels, ReadLabels,
         AclLabels, WalkLabels, InIndexFromDisk, InLock, Ended
    <2>c. Goto(r, "write") \/ (Goto(r, "getrow") /\ req[r].op = "acl")
      BY <1>1, <1>0, <2>a, <2>b DEF Truncate, At, TypeInv, Placed, Place, TruncateMeta,
         UnlinkMeta
    <2>1. /\ pc' \in [Requests -> Labels] /\ pc'[r] \in {"write", "getrow"}
          /\ \A q \in Requests \ {r} : pc'[q] = pc[q]
      BY <1>1, <2>a, <2>b, <2>c DEF Truncate, Goto, Labels, Ended, InLock, InIndexFromDisk,
         Tolerant, TypeInv, TypeOK, TruncateMeta, UnlinkMeta
    <2>2. side' \in [Keys -> Metas]
      BY <1>1, <2>a, <2>b, <2>c, NoMetaType DEF Truncate, TypeInv, TypeOK, TruncateMeta,
         UnlinkMeta
    <2>3. linked' \in SUBSET Requests
      BY <1>1, <2>a, <2>b, <2>c DEF Truncate, TypeInv, TypeOK, TruncateMeta, UnlinkMeta
    <2>4. UNCHANGED <<file, tmp, row, lock, req, fd, meta, cur, scan, boot, crashes, faults>>
      BY <1>1 DEF Truncate, disk, local, env, TruncateMeta, UnlinkMeta
    <2>5. TypeOK'
      BY <2>1, <2>2, <2>3, <2>4 DEF TypeInv, TypeOK
    <2>6. Place(r)'
      BY <1>1, <1>0, <2>a, <2>b, <2>c, <2>1, <2>2, <2>3, <2>4 DEF Truncate, At, TypeInv,
         Placed, Place, Stage, Walker, Walkers, PutLabels, ReadLabels, AclLabels,
         WalkLabels, InIndexFromDisk, InLock, Ended, Goto, TypeOK
    <2> QED
      BY <2>1, <2>2, <2>3, <2>4, <2>5, <2>6, PlacedFrame DEF TypeInv
  <1>2. CASE Write(r)
    <2>a. KeyOf(r) \in Keys
      BY <1>2, <1>0, KeyOfType DEF Write, At, Running, Ended, InLock
    <2>1. /\ pc' \in [Requests -> Labels] /\ pc'[r] \in {"stat", "getrow"}
          /\ \A q \in Requests \ {r} : pc'[q] = pc[q]
      BY <1>2, <2>a DEF Write, Goto, Labels, Ended, InLock, InIndexFromDisk, Tolerant,
         TypeInv, TypeOK
    <2>2. side' \in [Keys -> Metas]
      BY <1>2, <2>a, OverlaysType DEF Write, TypeInv, TypeOK, FillMeta
    <2>3. linked' \in SUBSET Requests
      BY <1>2, <2>a DEF Write, TypeInv, TypeOK, FillMeta
    <2>4. UNCHANGED <<file, tmp, row, lock, req, fd, meta, cur, scan, boot, crashes, faults>>
      BY <1>2 DEF Write, disk, local, env, FillMeta
    <2>5. TypeOK'
      BY <2>1, <2>2, <2>3, <2>4 DEF TypeInv, TypeOK
    <2>6. Place(r)'
      BY <1>2, <1>0, <2>a, <2>1, <2>2, <2>3, <2>4 DEF Write, At, TypeInv, Placed, Place,
         Stage, Walker, Walkers, PutLabels, ReadLabels, AclLabels, WalkLabels,
         InIndexFromDisk, InLock, Ended, Goto
    <2> QED
      BY <2>1, <2>2, <2>3, <2>4, <2>5, <2>6, PlacedFrame DEF TypeInv
  <1>3. CASE IfdTruncate(r)
    <2>a. KeyOf(r) \in Keys
      BY <1>3, <1>0, KeyOfType DEF IfdTruncate, At, Running, Ended, InLock
    <2>1. /\ pc' \in [Requests -> Labels] /\ pc'[r] = "ifdWrite"
          /\ \A q \in Requests \ {r} : pc'[q] = pc[q]
      BY <1>3, <2>a DEF IfdTruncate, Goto, Labels, Ended, InLock, InIndexFromDisk, Tolerant,
         TypeInv, TypeOK, TruncateMeta
    <2>2. side' \in [Keys -> Metas]
      BY <1>3, <2>a, NoMetaType DEF IfdTruncate, TypeInv, TypeOK, TruncateMeta
    <2>3. linked' \in SUBSET Requests
      BY <1>3, <2>a DEF IfdTruncate, TypeInv, TypeOK, TruncateMeta
    <2>4. UNCHANGED <<file, tmp, row, lock, req, fd, meta, cur, scan, boot, crashes, faults>>
      BY <1>3 DEF IfdTruncate, disk, local, env, TruncateMeta
    <2>5. TypeOK'
      BY <2>1, <2>2, <2>3, <2>4 DEF TypeInv, TypeOK
    <2>6. Place(r)'
      BY <1>3, <1>0, <2>a, <2>1, <2>2, <2>3, <2>4 DEF IfdTruncate, At, TypeInv, Placed,
         Place, Stage, Walker, Walkers, PutLabels, ReadLabels, AclLabels, WalkLabels,
         InIndexFromDisk, InLock, Ended
    <2> QED
      BY <2>1, <2>2, <2>3, <2>4, <2>5, <2>6, PlacedFrame DEF TypeInv
  <1>4. CASE RemoveMeta(r)
    <2>a. KeyOf(r) \in Keys
      BY <1>4, <1>0, KeyOfType DEF RemoveMeta, At, Running, Ended, InLock
    <2>1. /\ pc' \in [Requests -> Labels] /\ pc'[r] = "rmrow"
          /\ \A q \in Requests \ {r} : pc'[q] = pc[q]
      BY <1>4, <2>a DEF RemoveMeta, Goto, Labels, Ended, InLock, InIndexFromDisk, Tolerant,
         TypeInv, TypeOK, UnlinkMeta
    <2>2. side' \in [Keys -> Metas]
      BY <1>4, <2>a, NoMetaType DEF RemoveMeta, TypeInv, TypeOK, UnlinkMeta
    <2>3. linked' \in SUBSET Requests
      BY <1>4, <2>a DEF RemoveMeta, TypeInv, TypeOK, UnlinkMeta
    <2>4. UNCHANGED <<file, tmp, row, lock, req, fd, meta, cur, scan, boot, crashes, faults>>
      BY <1>4 DEF RemoveMeta, disk, local, env, UnlinkMeta
    <2>5. TypeOK'
      BY <2>1, <2>2, <2>3, <2>4 DEF TypeInv, TypeOK
    <2>6. Place(r)'
      BY <1>4, <1>0, <2>a, <2>1, <2>2, <2>3, <2>4 DEF RemoveMeta, At, TypeInv, Placed,
         Place, Stage, Walker, Walkers, PutLabels, ReadLabels, AclLabels, WalkLabels,
         InIndexFromDisk, InLock, Ended
    <2> QED
      BY <2>1, <2>2, <2>3, <2>4, <2>5, <2>6, PlacedFrame DEF TypeInv
  <1> QED
    BY <1>1, <1>2, <1>3, <1>4

LEMMA IndexTypes ==
  ASSUME TypeInv, NEW r \in Requests, IfdMeta(r) \/ IfdWrite(r)
  PROVE  TypeInv'
  <1>0. req[r] \in Calls /\ req[r] # None /\ Stage(r)
    BY Called, NoneApart DEF IfdMeta, IfdWrite, At
  <1>1. Running(r) /\ pc[r] \in InIndexFromDisk /\ pc[r] \notin InLock
    BY DEF IfdMeta, IfdWrite, At, Running, Ended, InIndexFromDisk, InLock
  <1>2. KeyOf(r) \in Keys
    BY <1>1, KeyOfType DEF InIndexFromDisk
  <1>3. cur[r] \in Rows
    BY <1>0 DEF IfdMeta, IfdWrite, At, TypeInv, TypeOK, Placed, Place
  <1>4. \/ req[r].op \in {"get", "anon", "acl"} /\ ~Walker(r)
        \/ Walker(r)
    BY <1>0, <1>1 DEF Stage, Walker, Walkers, PutLabels, Ended, InIndexFromDisk
  <1>5. CASE IfdMeta(r) /\ side[KeyOf(r)].etag = None
    <2>1. Goto(r, "ifdHash") /\ meta' = [meta EXCEPT ![r] = side[KeyOf(r)]]
      BY <1>5 DEF IfdMeta
    <2>2. UNCHANGED <<file, tmp, side, linked, row, lock, req, fd, cur, scan, boot, crashes, faults>>
      BY <1>5 DEF IfdMeta, disk, env
    <2>3. TypeOK'
      BY <1>2, <2>1, <2>2 DEF TypeInv, TypeOK, Goto, Labels, InIndexFromDisk
    <2>4. pc'[r] = "ifdHash" /\ \A q \in Requests \ {r} : pc'[q] = pc[q] /\ meta'[q] = meta[q]
      BY <2>1 DEF TypeInv, TypeOK, Goto
    <2>5. Place(r)'
      BY <1>0, <1>1, <1>3, <1>4, <2>2, <2>4, NoneApart DEF TypeInv, Placed, Place, Stage,
         Walker, ReadLabels, AclLabels, WalkLabels, InIndexFromDisk
    <2> QED
      BY <2>2, <2>3, <2>4, <2>5, PlacedFrame DEF TypeInv
  <1>6. CASE ~(IfdMeta(r) /\ side[KeyOf(r)].etag = None)
    <2>1. PICK m \in Metas : Indexed(r, m)
      BY <1>2, <1>6 DEF IfdMeta, IfdWrite, TypeInv, TypeOK
    <2>2. /\ side' \in [Keys -> Metas] /\ linked' \in SUBSET Requests
          /\ meta' \in [Requests -> Metas]
          /\ \A q \in Requests \ {r} : meta'[q] = meta[q]
      BY <1>2, OverlaysType DEF IfdMeta, IfdWrite, FillMeta, disk, TypeInv, TypeOK
    <2>3. UNCHANGED <<file, tmp, row, lock, req, fd, boot, crashes, faults>>
      BY DEF IfdMeta, IfdWrite, disk, env
    <2>4. /\ pc' \in [Requests -> Labels]
          /\ Walker(r) => pc'[r] = "walk"
          /\ ~Walker(r) => pc'[r] = "upsert" /\ cur'[r] # None
          /\ cur' \in [Requests -> Rows \cup {None}]
          /\ scan' \in [Requests -> Scans]
          /\ \A q \in Requests \ {r} : pc'[q] = pc[q] /\ cur'[q] = cur[q] /\ scan'[q] = scan[q]
      BY <1>1, <1>3, <2>1, IndexedTypes
    <2>5. TypeOK'
      BY <2>2, <2>3, <2>4 DEF TypeInv, TypeOK
    <2>6. Place(r)'
      BY <1>0, <1>4, <2>3, <2>4 DEF Place, Stage, Walker, ReadLabels, AclLabels, WalkLabels,
         InLock, InIndexFromDisk
    <2> QED
      BY <2>2, <2>3, <2>4, <2>5, <2>6, PlacedFrame DEF TypeInv
  <1> QED
    BY <1>5, <1>6

LEMMA RowTypes ==
  ASSUME TypeInv, NEW r \in Requests,
         IfdStat(r) \/ IfdHash(r) \/ StatTarget(r) \/ HashFile(r) \/ GetRow(r)
  PROVE  TypeInv'
  <1>0. req[r] \in Calls /\ req[r] # None /\ Stage(r)
    BY Called, NoneApart DEF IfdStat, IfdHash, StatTarget, HashFile, GetRow, At
  <1>1. CASE IfdStat(r)
    <2>a. KeyOf(r) \in Keys
      BY <1>1, <1>0, KeyOfType DEF IfdStat, At, Running, Ended, InLock
    <2>b. File(r) \in Blobs \cup {None}
      BY <1>1, <2>a DEF IfdStat, File, TypeInv, TypeOK
    <2>c. File(r) # None => RowOf(File(r).n, NoMeta) \in Rows
      BY <1>1, RowOfType, NoMetaType, <2>a, <2>b DEF IfdStat, Blobs
    <2>1. /\ pc' \in [Requests -> Labels] /\ pc'[r] \in {"error", "ifdMeta"}
          /\ \A q \in Requests \ {r} : pc'[q] = pc[q]
          /\ lock' \in Requests \cup {None}
      BY <1>1, <2>a, <2>b, <2>c DEF IfdStat, Goto, End, Labels, Ended, InLock,
         InIndexFromDisk, Tolerant, TypeInv, TypeOK
    <2>2. /\ cur' \in [Requests -> Rows \cup {None}]
          /\ File(r) # None => cur'[r] # None
          /\ \A q \in Requests \ {r} : cur'[q] = cur[q]
      BY <1>1, <2>a, <2>b, <2>c, NoneApart DEF IfdStat, TypeInv, TypeOK
    <2>3. UNCHANGED <<file, tmp, side, linked, row, req, fd, meta, scan, boot, crashes, faults>>
      BY <1>1 DEF IfdStat, disk, local, env
    <2>4. TypeOK'
      BY <2>1, <2>2, <2>3 DEF TypeInv, TypeOK
    <2>5. Place(r)'
      BY <1>1, <1>0, <2>a, <2>b, <2>c, <2>1, <2>2, <2>3 DEF IfdStat, At, TypeInv, Placed,
         Place, Stage, Walker, Walkers, PutLabels, ReadLabels, AclLabels, WalkLabels,
         InIndexFromDisk, InLock, Ended, End, Goto, TypeOK
    <2> QED
      BY <2>1, <2>2, <2>3, <2>4, <2>5, PlacedFrame DEF TypeInv
  <1>2. CASE IfdHash(r)
    <2>a. KeyOf(r) \in Keys
      BY <1>2, <1>0, KeyOfType DEF IfdHash, At, Running, Ended, InLock
    <2>b. File(r) \in Blobs \cup {None}
      BY <1>2, <2>a DEF IfdHash, File, TypeInv, TypeOK
    <2>1. /\ pc' \in [Requests -> Labels] /\ pc'[r] \in {"error", "ifdTrunc"}
          /\ \A q \in Requests \ {r} : pc'[q] = pc[q]
          /\ lock' \in Requests \cup {None}
      BY <1>2, <2>a, <2>b DEF IfdHash, Goto, End, Labels, Ended, InLock, InIndexFromDisk,
         Tolerant, TypeInv, TypeOK
    <2>2. /\ meta' \in [Requests -> Metas]
          /\ \A q \in Requests \ {r} : meta'[q] = meta[q]
      BY <1>2, <2>a, <2>b, MetaExcept DEF IfdHash, TypeInv, TypeOK, Hash
    <2>3. UNCHANGED <<file, tmp, side, linked, row, req, fd, cur, scan, boot, crashes, faults>>
      BY <1>2 DEF IfdHash, disk, local, env
    <2>4. TypeOK'
      BY <2>1, <2>2, <2>3 DEF TypeInv, TypeOK
    <2>5. Place(r)'
      BY <1>2, <1>0, <2>a, <2>b, <2>1, <2>2, <2>3 DEF IfdHash, At, TypeInv, Placed, Place,
         Stage, Walker, Walkers, PutLabels, ReadLabels, AclLabels, WalkLabels,
         InIndexFromDisk, InLock, Ended
    <2> QED
      BY <2>1, <2>2, <2>3, <2>4, <2>5, PlacedFrame DEF TypeInv
  <1>3. CASE StatTarget(r)
    <2>a. KeyOf(r) \in Keys
      BY <1>3, <1>0, KeyOfType DEF StatTarget, At, Running, Ended, InLock
    <2>b. File(r) \in Blobs \cup {None}
      BY <1>3, <2>a DEF StatTarget, File, TypeInv, TypeOK
    <2>c. File(r) # None => RowOf(File(r).n, meta[r]) \in Rows
      BY <1>3, RowOfType, <2>a, <2>b DEF StatTarget, Blobs, TypeInv, TypeOK
    <2>1. /\ pc' \in [Requests -> Labels] /\ pc'[r] \in {"error", "upsert"}
          /\ \A q \in Requests \ {r} : pc'[q] = pc[q]
          /\ lock' \in Requests \cup {None}
      BY <1>3, <2>a, <2>b, <2>c DEF StatTarget, Goto, End, Labels, Ended, InLock,
         InIndexFromDisk, Tolerant, TypeInv, TypeOK
    <2>2. /\ cur' \in [Requests -> Rows \cup {None}]
          /\ File(r) # None => cur'[r] # None
          /\ \A q \in Requests \ {r} : cur'[q] = cur[q]
      BY <1>3, <2>a, <2>b, <2>c, NoneApart DEF StatTarget, TypeInv, TypeOK
    <2>3. UNCHANGED <<file, tmp, side, linked, row, req, fd, meta, scan, boot, crashes, faults>>
      BY <1>3 DEF StatTarget, disk, local, env
    <2>4. TypeOK'
      BY <2>1, <2>2, <2>3 DEF TypeInv, TypeOK
    <2>5. Place(r)'
      BY <1>3, <1>0, <2>a, <2>b, <2>c, <2>1, <2>2, <2>3 DEF StatTarget, At, TypeInv, Placed,
         Place, Stage, Walker, Walkers, PutLabels, ReadLabels, AclLabels, WalkLabels,
         InIndexFromDisk, InLock, Ended, End, Goto, TypeOK
    <2> QED
      BY <2>1, <2>2, <2>3, <2>4, <2>5, PlacedFrame DEF TypeInv
  <1>4. CASE HashFile(r)
    <2>a. KeyOf(r) \in Keys
      BY <1>4, <1>0, KeyOfType DEF HashFile, At, Running, Ended, InLock
    <2>b. File(r) \in Blobs \cup {None}
      BY <1>4, <2>a DEF HashFile, File, TypeInv, TypeOK
    <2>c. cur[r] \in Rows
      BY <1>4, <1>0, <2>a, <2>b DEF HashFile, At, TypeInv, TypeOK, Placed, Place
    <2>1. /\ pc' \in [Requests -> Labels] /\ pc'[r] \in {"error", "settag"}
          /\ \A q \in Requests \ {r} : pc'[q] = pc[q]
          /\ lock' \in Requests \cup {None}
      BY <1>4, <2>a, <2>b, <2>c DEF HashFile, Goto, End, Labels, Ended, InLock,
         InIndexFromDisk, Tolerant, TypeInv, TypeOK
    <2>2. /\ cur' \in [Requests -> Rows \cup {None}]
          /\ pc'[r] = "settag" => cur'[r] # None
          /\ \A q \in Requests \ {r} : cur'[q] = cur[q]
      BY <1>4, <2>a, <2>b, <2>c, NoneApart, RowExcept DEF HashFile, TypeInv, TypeOK, Hash
    <2>3. UNCHANGED <<file, tmp, side, linked, row, req, fd, meta, scan, boot, crashes, faults>>
      BY <1>4 DEF HashFile, disk, local, env
    <2>4. TypeOK'
      BY <2>1, <2>2, <2>3 DEF TypeInv, TypeOK
    <2>5. Place(r)'
      BY <1>4, <1>0, <2>a, <2>b, <2>c, <2>1, <2>2, <2>3 DEF HashFile, At, TypeInv, Placed,
         Place, Stage, Walker, Walkers, PutLabels, ReadLabels, AclLabels, WalkLabels,
         InIndexFromDisk, InLock, Ended
    <2> QED
      BY <2>1, <2>2, <2>3, <2>4, <2>5, PlacedFrame DEF TypeInv
  <1>5. CASE GetRow(r)
    <2>a. KeyOf(r) \in Keys
      BY <1>5, <1>0, KeyOfType DEF GetRow, At, Running, Ended, InLock
    <2>b. req[r].key \in Keys /\ req[r].op \in {"get", "anon", "acl"}
      BY <1>5, <1>0, CallFields, <2>a DEF GetRow, At, Walkers, Stage, Walker, PutLabels,
         ReadLabels, AclLabels, WalkLabels, InIndexFromDisk, InLock, Ended
    <2>c. row[req[r].key] # None => [row[req[r].key] EXCEPT !.public = req[r].public] \in Rows
      BY <1>5, <1>0, CallFields, RowExcept, <2>a, <2>b DEF GetRow, TypeInv, TypeOK
    <2>d. \/ Goto(r, "ifdStat") /\ UNCHANGED cur
          \/ \E w \in Rows : /\ cur' = [cur EXCEPT ![r] = w]
                            /\ \/ req[r].op = "acl" /\ Goto(r, "upsert")
                               \/ req[r].op # "acl" /\ (Goto(r, "hash") \/ Goto(r, "ok"))
      BY <1>5, NoneApart, <2>a, <2>b, <2>c DEF GetRow, TypeInv, TypeOK
    <2>1. /\ pc' \in [Requests -> Labels] /\ pc'[r] \in {"ifdStat", "upsert", "hash", "ok"}
          /\ \A q \in Requests \ {r} : pc'[q] = pc[q]
      BY <1>5, <2>a, <2>b, <2>c, <2>d DEF GetRow, Goto, Labels, Ended, InLock,
         InIndexFromDisk, Tolerant, TypeInv, TypeOK
    <2>2. /\ cur' \in [Requests -> Rows \cup {None}]
          /\ pc'[r] # "ifdStat" => cur'[r] # None
          /\ \A q \in Requests \ {r} : cur'[q] = cur[q]
      BY <2>a, <2>b, <2>c, <2>d, NoneApart DEF TypeInv, TypeOK, Goto
    <2>3. UNCHANGED <<file, tmp, side, linked, row, lock, req, fd, meta, scan, boot, crashes, faults>>
      BY <1>5 DEF GetRow, disk, local, env
    <2>4. TypeOK'
      BY <2>1, <2>2, <2>3 DEF TypeInv, TypeOK
    <2>5. Place(r)'
      BY <1>5, <1>0, <2>a, <2>b, <2>c, <2>d, <2>1, <2>2, <2>3 DEF GetRow, At, TypeInv,
         Placed, Place, Stage, Walker, Walkers, PutLabels, ReadLabels, AclLabels,
         WalkLabels, InIndexFromDisk, InLock, Ended, TypeOK, Goto
    <2> QED
      BY <2>1, <2>2, <2>3, <2>4, <2>5, PlacedFrame DEF TypeInv
  <1> QED
    BY <1>1, <1>2, <1>3, <1>4, <1>5

LEMMA ReadTypes ==
  ASSUME TypeInv, NEW r \in Requests,
         IsPublic(r) \/ IsPublicOnDisk(r) \/ Open(r) \/ IsFile(r) \/ ReadMeta(r) \/
         RemoveFile(r)
  PROVE  TypeInv'
  <1>0. req[r] \in Calls /\ req[r] # None /\ Stage(r)
    BY Called, NoneApart DEF IsPublic, IsPublicOnDisk, Open, IsFile, ReadMeta, RemoveFile,
       At
  <1>1. CASE IsPublic(r)
    <2>1. /\ pc' \in [Requests -> Labels] /\ pc'[r] \in {"publicMeta", "open", "denied"}
          /\ \A q \in Requests \ {r} : pc'[q] = pc[q]
      BY <1>1 DEF IsPublic, Goto, Labels, Ended, InLock, InIndexFromDisk, Tolerant, TypeInv,
         TypeOK
    <2>2. UNCHANGED <<file, tmp, side, linked, row, lock, req, fd, meta, cur, scan, boot, crashes, faults>>
      BY <1>1 DEF IsPublic, disk, local, env
    <2>3. TypeOK'
      BY <2>1, <2>2 DEF TypeInv, TypeOK
    <2>4. Place(r)'
      BY <1>1, <1>0, <2>1, <2>2 DEF IsPublic, At, TypeInv, Placed, Place, Stage, Walker,
         Walkers, PutLabels, ReadLabels, AclLabels, WalkLabels, InIndexFromDisk, InLock,
         Ended
    <2> QED
      BY <2>1, <2>2, <2>3, <2>4, PlacedFrame DEF TypeInv
  <1>2. CASE IsPublicOnDisk(r)
    <2>1. /\ pc' \in [Requests -> Labels] /\ pc'[r] \in {"open", "denied"}
          /\ \A q \in Requests \ {r} : pc'[q] = pc[q]
      BY <1>2 DEF IsPublicOnDisk, Goto, Labels, Ended, InLock, InIndexFromDisk, Tolerant,
         TypeInv, TypeOK
    <2>2. UNCHANGED <<file, tmp, side, linked, row, lock, req, fd, meta, cur, scan, boot, crashes, faults>>
      BY <1>2 DEF IsPublicOnDisk, disk, local, env
    <2>3. TypeOK'
      BY <2>1, <2>2 DEF TypeInv, TypeOK
    <2>4. Place(r)'
      BY <1>2, <1>0, <2>1, <2>2 DEF IsPublicOnDisk, At, TypeInv, Placed, Place, Stage,
         Walker, Walkers, PutLabels, ReadLabels, AclLabels, WalkLabels, InIndexFromDisk,
         InLock, Ended
    <2> QED
      BY <2>1, <2>2, <2>3, <2>4, PlacedFrame DEF TypeInv
  <1>3. CASE Open(r)
    <2>a. KeyOf(r) \in Keys
      BY <1>3, <1>0, KeyOfType DEF Open, At, Running, Ended, InLock
    <2>b. File(r) \in Blobs \cup {None}
      BY <1>3, <2>a DEF Open, File, TypeInv, TypeOK
    <2>1. /\ pc' \in [Requests -> Labels] /\ pc'[r] \in {"notfound", "getrow"}
          /\ \A q \in Requests \ {r} : pc'[q] = pc[q]
      BY <1>3, <2>a, <2>b DEF Open, Goto, Labels, Ended, InLock, InIndexFromDisk, Tolerant,
         TypeInv, TypeOK
    <2>2. fd' \in [Requests -> Blobs \cup {None}]
      BY <1>3, <2>a, <2>b DEF Open, TypeInv, TypeOK
    <2>3. UNCHANGED <<file, tmp, side, linked, row, lock, req, meta, cur, scan, boot, crashes, faults>>
      BY <1>3 DEF Open, disk, local, env
    <2>4. TypeOK'
      BY <2>1, <2>2, <2>3 DEF TypeInv, TypeOK
    <2>5. Place(r)'
      BY <1>3, <1>0, <2>a, <2>b, <2>1, <2>2, <2>3 DEF Open, At, TypeInv, Placed, Place,
         Stage, Walker, Walkers, PutLabels, ReadLabels, AclLabels, WalkLabels,
         InIndexFromDisk, InLock, Ended
    <2> QED
      BY <2>1, <2>2, <2>3, <2>4, <2>5, PlacedFrame DEF TypeInv
  <1>4. CASE IsFile(r)
    <2>1. /\ pc' \in [Requests -> Labels] /\ pc'[r] \in {"notfound", "readmeta"}
          /\ \A q \in Requests \ {r} : pc'[q] = pc[q]
      BY <1>4 DEF IsFile, Goto, Labels, Ended, InLock, InIndexFromDisk, Tolerant, TypeInv,
         TypeOK
    <2>2. UNCHANGED <<file, tmp, side, linked, row, lock, req, fd, meta, cur, scan, boot, crashes, faults>>
      BY <1>4 DEF IsFile, disk, local, env
    <2>3. TypeOK'
      BY <2>1, <2>2 DEF TypeInv, TypeOK
    <2>4. Place(r)'
      BY <1>4, <1>0, <2>1, <2>2 DEF IsFile, At, TypeInv, Placed, Place, Stage, Walker,
         Walkers, PutLabels, ReadLabels, AclLabels, WalkLabels, InIndexFromDisk, InLock,
         Ended
    <2> QED
      BY <2>1, <2>2, <2>3, <2>4, PlacedFrame DEF TypeInv
  <1>5. CASE ReadMeta(r)
    <2>a. req[r].key \in Keys
      BY <1>5, <1>0, CallFields, KeyOfType DEF ReadMeta, At, Running, Ended, InLock,
         Walkers, Stage, Walker, PutLabels, ReadLabels, AclLabels, WalkLabels,
         InIndexFromDisk
    <2>b. [side[req[r].key] EXCEPT !.public = req[r].public] \in Metas
      BY <1>5, <1>0, CallFields, MetaExcept, <2>a DEF ReadMeta, TypeInv, TypeOK
    <2>c. req[r].op = "acl"
      BY <1>5, <1>0, <2>a, <2>b DEF ReadMeta, At, Stage, Walker, Walkers, PutLabels,
         ReadLabels, AclLabels, WalkLabels, InIndexFromDisk, InLock, Ended
    <2>1. /\ pc' \in [Requests -> Labels] /\ pc'[r] = "trunc"
          /\ \A q \in Requests \ {r} : pc'[q] = pc[q]
      BY <1>5, <2>a, <2>b, <2>c DEF ReadMeta, Goto, Labels, Ended, InLock, InIndexFromDisk,
         Tolerant, TypeInv, TypeOK
    <2>2. /\ meta' \in [Requests -> Metas]
          /\ \A q \in Requests \ {r} : meta'[q] = meta[q]
      BY <1>5, <2>a, <2>b, <2>c DEF ReadMeta, TypeInv, TypeOK
    <2>3. UNCHANGED <<file, tmp, side, linked, row, lock, req, fd, cur, scan, boot, crashes, faults>>
      BY <1>5 DEF ReadMeta, disk, local, env
    <2>4. TypeOK'
      BY <2>1, <2>2, <2>3 DEF TypeInv, TypeOK
    <2>5. Place(r)'
      BY <1>5, <1>0, <2>a, <2>b, <2>c, <2>1, <2>2, <2>3 DEF ReadMeta, At, TypeInv, Placed,
         Place, Stage, Walker, Walkers, PutLabels, ReadLabels, AclLabels, WalkLabels,
         InIndexFromDisk, InLock, Ended
    <2> QED
      BY <2>1, <2>2, <2>3, <2>4, <2>5, PlacedFrame DEF TypeInv
  <1>6. CASE RemoveFile(r)
    <2>a. req[r].key \in Keys
      BY <1>6, <1>0, CallFields, KeyOfType DEF RemoveFile, At, Running, Ended, InLock,
         Walkers, Stage, Walker, PutLabels, ReadLabels, AclLabels, WalkLabels,
         InIndexFromDisk
    <2>1. /\ pc' \in [Requests -> Labels] /\ pc'[r] = "rmside"
          /\ \A q \in Requests \ {r} : pc'[q] = pc[q]
      BY <1>6, <2>a DEF RemoveFile, Goto, Labels, Ended, InLock, InIndexFromDisk, Tolerant,
         TypeInv, TypeOK
    <2>2. file' \in [Keys -> Blobs \cup {None}]
      BY <1>6, <2>a DEF RemoveFile, TypeInv, TypeOK
    <2>3. UNCHANGED <<tmp, side, linked, row, lock, req, fd, meta, cur, scan, boot, crashes, faults>>
      BY <1>6 DEF RemoveFile, disk, local, env
    <2>4. TypeOK'
      BY <2>1, <2>2, <2>3 DEF TypeInv, TypeOK
    <2>5. Place(r)'
      BY <1>6, <1>0, <2>a, <2>1, <2>2, <2>3 DEF RemoveFile, At, TypeInv, Placed, Place,
         Stage, Walker, Walkers, PutLabels, ReadLabels, AclLabels, WalkLabels,
         InIndexFromDisk, InLock, Ended
    <2> QED
      BY <2>1, <2>2, <2>3, <2>4, <2>5, PlacedFrame DEF TypeInv
  <1> QED
    BY <1>1, <1>2, <1>3, <1>4, <1>5, <1>6

LEMMA IndexEndTypes ==
  ASSUME TypeInv, NEW r \in Requests,
         Upsert(r) \/ SetETag(r) \/ RemoveRow(r)
  PROVE  TypeInv'
  <1>0. req[r] \in Calls /\ req[r] # None /\ Stage(r)
    BY Called, NoneApart DEF Upsert, SetETag, RemoveRow, At
  <1>1. CASE Upsert(r)
    <2>a. req[r].key \in Keys
      BY <1>1, <1>0, CallFields, KeyOfType DEF Upsert, At, Running, Ended, InLock, Walkers,
         Stage, Walker, PutLabels, ReadLabels, AclLabels, WalkLabels, InIndexFromDisk
    <2>b. cur[r] \in Rows
      BY <1>1, <1>0, <2>a DEF Upsert, At, TypeInv, TypeOK, Placed, Place
    <2>1. /\ pc' \in [Requests -> Labels] /\ pc'[r] = "ok"
          /\ \A q \in Requests \ {r} : pc'[q] = pc[q]
          /\ lock' \in Requests \cup {None}
      BY <1>1, <2>a, <2>b DEF Upsert, Goto, End, Labels, Ended, InLock, InIndexFromDisk,
         Tolerant, TypeInv, TypeOK
    <2>2. row' \in [Keys -> Rows \cup {None}]
      BY <1>1, <2>a, <2>b DEF Upsert, TypeInv, TypeOK
    <2>3. UNCHANGED <<file, tmp, side, linked, req, fd, meta, cur, scan, boot, crashes, faults>>
      BY <1>1 DEF Upsert, disk, local, env
    <2>4. TypeOK'
      BY <2>1, <2>2, <2>3 DEF TypeInv, TypeOK
    <2>5. Place(r)'
      BY <1>1, <1>0, <2>a, <2>b, <2>1, <2>2, <2>3 DEF Upsert, At, TypeInv, Placed, Place,
         Stage, Walker, Walkers, PutLabels, ReadLabels, AclLabels, WalkLabels,
         InIndexFromDisk, InLock, Ended
    <2> QED
      BY <2>1, <2>2, <2>3, <2>4, <2>5, PlacedFrame DEF TypeInv
  <1>2. CASE SetETag(r)
    <2>a. req[r].key \in Keys
      BY <1>2, <1>0, CallFields, KeyOfType DEF SetETag, At, Running, Ended, InLock, Walkers,
         Stage, Walker, PutLabels, ReadLabels, AclLabels, WalkLabels, InIndexFromDisk
    <2>b. cur[r].etag \in Blobs \cup {None}
      BY <1>2, <1>0, RowFields, <2>a DEF SetETag, At, TypeInv, TypeOK, Placed, Place
    <2>c. row[req[r].key] # None => [row[req[r].key] EXCEPT !.etag = cur[r].etag] \in Rows
      BY <1>2, RowExcept, <2>a, <2>b DEF SetETag, TypeInv, TypeOK
    <2>1. /\ pc' \in [Requests -> Labels] /\ pc'[r] = "ok"
          /\ \A q \in Requests \ {r} : pc'[q] = pc[q]
          /\ lock' \in Requests \cup {None}
      BY <1>2, <2>a, <2>b, <2>c DEF SetETag, Goto, End, Labels, Ended, InLock,
         InIndexFromDisk, Tolerant, TypeInv, TypeOK
    <2>2. row' \in [Keys -> Rows \cup {None}]
      BY <1>2, <2>a, <2>b, <2>c DEF SetETag, TypeInv, TypeOK
    <2>3. UNCHANGED <<file, tmp, side, linked, req, fd, meta, cur, scan, boot, crashes, faults>>
      BY <1>2 DEF SetETag, disk, local, env
    <2>4. TypeOK'
      BY <2>1, <2>2, <2>3 DEF TypeInv, TypeOK
    <2>5. Place(r)'
      BY <1>2, <1>0, <2>a, <2>b, <2>c, <2>1, <2>2, <2>3 DEF SetETag, At, TypeInv, Placed,
         Place, Stage, Walker, Walkers, PutLabels, ReadLabels, AclLabels, WalkLabels,
         InIndexFromDisk, InLock, Ended
    <2> QED
      BY <2>1, <2>2, <2>3, <2>4, <2>5, PlacedFrame DEF TypeInv
  <1>3. CASE RemoveRow(r)
    <2>a. req[r].key \in Keys
      BY <1>3, <1>0, CallFields, KeyOfType DEF RemoveRow, At, Running, Ended, InLock,
         Walkers, Stage, Walker, PutLabels, ReadLabels, AclLabels, WalkLabels,
         InIndexFromDisk
    <2>1. /\ pc' \in [Requests -> Labels] /\ pc'[r] = "ok"
          /\ \A q \in Requests \ {r} : pc'[q] = pc[q]
          /\ lock' \in Requests \cup {None}
      BY <1>3, <2>a DEF RemoveRow, Goto, End, Labels, Ended, InLock, InIndexFromDisk,
         Tolerant, TypeInv, TypeOK
    <2>2. row' \in [Keys -> Rows \cup {None}]
      BY <1>3, <2>a DEF RemoveRow, TypeInv, TypeOK
    <2>3. UNCHANGED <<file, tmp, side, linked, req, fd, meta, cur, scan, boot, crashes, faults>>
      BY <1>3 DEF RemoveRow, disk, local, env
    <2>4. TypeOK'
      BY <2>1, <2>2, <2>3 DEF TypeInv, TypeOK
    <2>5. Place(r)'
      BY <1>3, <1>0, <2>a, <2>1, <2>2, <2>3 DEF RemoveRow, At, TypeInv, Placed, Place,
         Stage, Walker, Walkers, PutLabels, ReadLabels, AclLabels, WalkLabels,
         InIndexFromDisk, InLock, Ended
    <2> QED
      BY <2>1, <2>2, <2>3, <2>4, <2>5, PlacedFrame DEF TypeInv
  <1> QED
    BY <1>1, <1>2, <1>3

LEMMA WalkTypes ==
  ASSUME TypeInv, NEW r \in Requests,
         HasRows(r) \/ HasFiles(r) \/ Lock(r) \/ Query(r) \/ ReadIndex(r) \/ ReadDir(r)
         \/ Apply(r)
  PROVE  TypeInv'
  <1>0. req[r] \in Calls /\ req[r] # None /\ Stage(r)
    BY Called, NoneApart DEF HasRows, HasFiles, Lock, Query, ReadIndex, ReadDir, Apply, At
  <1>1. CASE HasRows(r)
    <2>1. /\ pc' \in [Requests -> Labels] /\ pc'[r] \in {"query", "hasfiles"}
          /\ \A q \in Requests \ {r} : pc'[q] = pc[q]
      BY <1>1 DEF HasRows, Goto, Labels, Ended, InLock, InIndexFromDisk, Tolerant, TypeInv,
         TypeOK
    <2>2. UNCHANGED <<file, tmp, side, linked, row, lock, req, fd, meta, cur, scan, boot, crashes, faults>>
      BY <1>1 DEF HasRows, disk, local, env
    <2>3. TypeOK'
      BY <2>1, <2>2 DEF TypeInv, TypeOK
    <2>4. Place(r)'
      BY <1>1, <1>0, <2>1, <2>2 DEF HasRows, At, TypeInv, Placed, Place, Stage, Walker,
         Walkers, PutLabels, ReadLabels, AclLabels, WalkLabels, InIndexFromDisk, InLock,
         Ended
    <2> QED
      BY <2>1, <2>2, <2>3, <2>4, PlacedFrame DEF TypeInv
  <1>2. CASE HasFiles(r)
    <2>1. /\ pc' \in [Requests -> Labels] /\ pc'[r] \in {"lock", "query"}
          /\ \A q \in Requests \ {r} : pc'[q] = pc[q]
      BY <1>2 DEF HasFiles, Goto, Labels, Ended, InLock, InIndexFromDisk, Tolerant, TypeInv,
         TypeOK
    <2>2. UNCHANGED <<file, tmp, side, linked, row, lock, req, fd, meta, cur, scan, boot, crashes, faults>>
      BY <1>2 DEF HasFiles, disk, local, env
    <2>3. TypeOK'
      BY <2>1, <2>2 DEF TypeInv, TypeOK
    <2>4. Place(r)'
      BY <1>2, <1>0, <2>1, <2>2 DEF HasFiles, At, TypeInv, Placed, Place, Stage, Walker,
         Walkers, PutLabels, ReadLabels, AclLabels, WalkLabels, InIndexFromDisk, InLock,
         Ended
    <2> QED
      BY <2>1, <2>2, <2>3, <2>4, PlacedFrame DEF TypeInv
  <1>3. CASE Lock(r)
    <2>1. /\ pc' \in [Requests -> Labels] /\ pc'[r] = "existing"
          /\ \A q \in Requests \ {r} : pc'[q] = pc[q]
      BY <1>3 DEF Lock, Goto, Labels, Ended, InLock, InIndexFromDisk, Tolerant, TypeInv,
         TypeOK
    <2>2. lock' \in Requests \cup {None}
      BY <1>3 DEF Lock, TypeInv, TypeOK
    <2>3. UNCHANGED <<file, tmp, side, linked, row, req, fd, meta, cur, scan, boot, crashes, faults>>
      BY <1>3 DEF Lock, disk, local, env
    <2>4. TypeOK'
      BY <2>1, <2>2, <2>3 DEF TypeInv, TypeOK
    <2>5. Place(r)'
      BY <1>3, <1>0, <2>1, <2>2, <2>3 DEF Lock, At, TypeInv, Placed, Place, Stage, Walker,
         Walkers, PutLabels, ReadLabels, AclLabels, WalkLabels, InIndexFromDisk, InLock,
         Ended
    <2> QED
      BY <2>1, <2>2, <2>3, <2>4, <2>5, PlacedFrame DEF TypeInv
  <1>4. CASE Query(r)
    <2>a. [scan[r] EXCEPT !.seen = {k \in Keys : row[k] # None}] \in Scans
      BY <1>4, ScanExcept DEF Query, TypeInv, TypeOK
    <2>1. /\ pc' \in [Requests -> Labels] /\ pc'[r] = "ok"
          /\ \A q \in Requests \ {r} : pc'[q] = pc[q]
          /\ lock' \in Requests \cup {None}
      BY <1>4, <2>a DEF Query, Goto, End, Labels, Ended, InLock, InIndexFromDisk, Tolerant,
         TypeInv, TypeOK
    <2>2. /\ scan' \in [Requests -> Scans]
          /\ \A q \in Requests \ {r} : scan'[q] = scan[q]
      BY <1>4, <2>a DEF Query, TypeInv, TypeOK
    <2>3. UNCHANGED <<file, tmp, side, linked, row, req, fd, meta, cur, boot, crashes, faults>>
      BY <1>4 DEF Query, disk, local, env
    <2>4. TypeOK'
      BY <2>1, <2>2, <2>3 DEF TypeInv, TypeOK
    <2>5. Place(r)'
      BY <1>4, <1>0, <2>a, <2>1, <2>2, <2>3 DEF Query, At, TypeInv, Placed, Place, Stage,
         Walker, Walkers, PutLabels, ReadLabels, AclLabels, WalkLabels, InIndexFromDisk,
         InLock, Ended
    <2> QED
      BY <2>1, <2>2, <2>3, <2>4, <2>5, PlacedFrame DEF TypeInv
  <1>5. CASE ReadIndex(r)
    <2>a. [scan[r] EXCEPT !.existing = row] \in Scans
      BY <1>5, ScanExcept DEF ReadIndex, TypeInv, TypeOK
    <2>1. /\ pc' \in [Requests -> Labels] /\ pc'[r] = "readdir"
          /\ \A q \in Requests \ {r} : pc'[q] = pc[q]
      BY <1>5, <2>a DEF ReadIndex, Goto, Labels, Ended, InLock, InIndexFromDisk, Tolerant,
         TypeInv, TypeOK
    <2>2. /\ scan' \in [Requests -> Scans]
          /\ \A q \in Requests \ {r} : scan'[q] = scan[q]
      BY <1>5, <2>a DEF ReadIndex, TypeInv, TypeOK
    <2>3. UNCHANGED <<file, tmp, side, linked, row, lock, req, fd, meta, cur, boot, crashes, faults>>
      BY <1>5 DEF ReadIndex, disk, local, env
    <2>4. TypeOK'
      BY <2>1, <2>2, <2>3 DEF TypeInv, TypeOK
    <2>5. Place(r)'
      BY <1>5, <1>0, <2>a, <2>1, <2>2, <2>3 DEF ReadIndex, At, TypeInv, Placed, Place,
         Stage, Walker, Walkers, PutLabels, ReadLabels, AclLabels, WalkLabels,
         InIndexFromDisk, InLock, Ended
    <2> QED
      BY <2>1, <2>2, <2>3, <2>4, <2>5, PlacedFrame DEF TypeInv
  <1>6. CASE ReadDir(r)
    <2>a. [scan[r] EXCEPT !.names = {k \in Keys : file[k] # None}] \in Scans
      BY <1>6, ScanExcept DEF ReadDir, TypeInv, TypeOK
    <2>1. /\ pc' \in [Requests -> Labels] /\ pc'[r] = "walk"
          /\ \A q \in Requests \ {r} : pc'[q] = pc[q]
      BY <1>6, <2>a DEF ReadDir, Goto, Labels, Ended, InLock, InIndexFromDisk, Tolerant,
         TypeInv, TypeOK
    <2>2. /\ scan' \in [Requests -> Scans]
          /\ \A q \in Requests \ {r} : scan'[q] = scan[q]
      BY <1>6, <2>a DEF ReadDir, TypeInv, TypeOK
    <2>3. UNCHANGED <<file, tmp, side, linked, row, lock, req, fd, meta, cur, boot, crashes, faults>>
      BY <1>6 DEF ReadDir, disk, local, env
    <2>4. TypeOK'
      BY <2>1, <2>2, <2>3 DEF TypeInv, TypeOK
    <2>5. Place(r)'
      BY <1>6, <1>0, <2>a, <2>1, <2>2, <2>3 DEF ReadDir, At, TypeInv, Placed, Place, Stage,
         Walker, Walkers, PutLabels, ReadLabels, AclLabels, WalkLabels, InIndexFromDisk,
         InLock, Ended
    <2> QED
      BY <2>1, <2>2, <2>3, <2>4, <2>5, PlacedFrame DEF TypeInv
  <1>7. CASE Apply(r)
    <2>a. scan[r].upserts \in [Keys -> Rows \cup {None}]
      BY <1>7, ScanFields DEF Apply, TypeInv, TypeOK
    <2>1. /\ pc' \in [Requests -> Labels] /\ pc'[r] \in {"query", "ok"}
          /\ \A q \in Requests \ {r} : pc'[q] = pc[q]
          /\ lock' \in Requests \cup {None}
      BY <1>7, <2>a DEF Apply, Goto, End, Labels, Ended, InLock, InIndexFromDisk, Tolerant,
         TypeInv, TypeOK
    <2>2. row' \in [Keys -> Rows \cup {None}]
      BY <1>7, <2>a, NoneApart DEF Apply, TypeInv, TypeOK
    <2>3. UNCHANGED <<file, tmp, side, linked, req, fd, meta, cur, scan, boot, crashes, faults>>
      BY <1>7 DEF Apply, disk, local, env
    <2>4. TypeOK'
      BY <2>1, <2>2, <2>3 DEF TypeInv, TypeOK
    <2>5. Place(r)'
      BY <1>7, <1>0, <2>a, <2>1, <2>2, <2>3 DEF Apply, At, TypeInv, Placed, Place, Stage,
         Walker, Walkers, PutLabels, ReadLabels, AclLabels, WalkLabels, InIndexFromDisk,
         InLock, Ended
    <2> QED
      BY <2>1, <2>2, <2>3, <2>4, <2>5, PlacedFrame DEF TypeInv
  <1> QED
    BY <1>1, <1>2, <1>3, <1>4, <1>5, <1>6, <1>7

LEMMA VisitTypes ==
  ASSUME TypeInv, NEW r \in Requests, Visit(r)
  PROVE  TypeInv'
  <1>0. req[r] \in Calls /\ req[r] # None /\ Stage(r)
    BY Called, NoneApart DEF Visit, At
  <1>1. req[r].op \in Walkers
    BY <1>0 DEF Visit, At, Stage, Walkers, PutLabels, ReadLabels, AclLabels, InIndexFromDisk, Ended
  <1>2. UNCHANGED <<file, tmp, side, linked, row, req, fd, meta, cur, boot, crashes, faults>>
    BY DEF Visit, disk, env
  <1>3. PICK label \in {"apply", "error", "walk", "ifdStat"} :
          /\ Goto(r, label)
          /\ lock' \in Requests \cup {None}
          /\ \/ UNCHANGED scan /\ label # "ifdStat"
             \/ \E k \in Keys :
                  scan' = [scan EXCEPT ![r] =
                             [scan[r] EXCEPT !.names = @ \ {k}, !.seen = @ \cup {k}, !.at = k]]
    <2>1. scan[r].names \subseteq Keys
      BY ScanFields DEF TypeInv, TypeOK
    <2>2. CASE scan[r].names = {}
      BY <2>2 DEF Visit, TypeInv, TypeOK
    <2>3. CASE scan[r].names # {}
      <3>1. PICK k \in scan[r].names :
              IF file[k] = None
                THEN End(r, "error") /\ UNCHANGED scan
                ELSE /\ scan' = [scan EXCEPT ![r].names = @ \ {k}, ![r].seen = @ \cup {k},
                                             ![r].at = k]
                     /\ Goto(r, IF UpToDate(r, k) THEN "walk" ELSE "ifdStat")
                     /\ UNCHANGED lock
        BY <2>3 DEF Visit
      <3>2. CASE file[k] = None
        BY <3>1, <3>2 DEF End, TypeInv, TypeOK
      <3>3. CASE file[k] # None
        <4>1. scan' = [scan EXCEPT ![r] =
                         [scan[r] EXCEPT !.names = @ \ {k}, !.seen = @ \cup {k}, !.at = k]]
          BY <3>1, <3>3
        <4>2. Goto(r, "walk") \/ Goto(r, "ifdStat")
          BY <3>1, <3>3
        <4>3. lock' \in Requests \cup {None}
          BY <3>1, <3>3 DEF TypeInv, TypeOK
        <4> QED
          BY <2>1, <4>1, <4>2, <4>3
      <3> QED
        BY <3>2, <3>3
    <2> QED
      BY <2>2, <2>3
  <1>4. /\ scan' \in [Requests -> Scans]
        /\ label = "ifdStat" => scan'[r].at # None
        /\ \A q \in Requests \ {r} : scan'[q] = scan[q]
    <2>1. CASE UNCHANGED scan /\ label # "ifdStat"
      BY <2>1 DEF TypeInv, TypeOK
    <2>2. ASSUME NEW k \in Keys,
                 scan' = [scan EXCEPT ![r] =
                            [scan[r] EXCEPT !.names = @ \ {k}, !.seen = @ \cup {k}, !.at = k]]
          PROVE <1>4!:
      <3>1. scan \in [Requests -> Scans]
        BY DEF TypeInv, TypeOK
      <3>2. scan' \in [Requests -> Scans] /\ \A q \in Requests \ {r} : scan'[q] = scan[q]
        BY <2>2, <3>1, ScanVisit
      <3>3. scan'[r] = [scan[r] EXCEPT !.names = @ \ {k}, !.seen = @ \cup {k}, !.at = k]
        BY <2>2, <3>1
      <3>4. scan'[r].at = k
        BY <3>1, <3>3 DEF Scans
      <3> QED
        BY <3>2, <3>4, NoneApart
    <2> QED
      BY <1>3, <2>1, <2>2
  <1>5. /\ pc' \in [Requests -> Labels] /\ pc'[r] = label
        /\ \A q \in Requests \ {r} : pc'[q] = pc[q]
    BY <1>3 DEF Goto, TypeInv, TypeOK, Labels, Ended, InLock, InIndexFromDisk
  <1>6. TypeOK'
    BY <1>2, <1>3, <1>4, <1>5 DEF TypeInv, TypeOK
  <1>7. Place(r)'
    BY <1>0, <1>1, <1>2, <1>4, <1>5 DEF Place, Stage, Walker, WalkLabels, InLock, InIndexFromDisk, Ended
  <1> QED
    BY <1>2, <1>4, <1>5, <1>6, <1>7, PlacedFrame DEF TypeInv

LEMMA FailTypes ==
  ASSUME TypeInv, NEW r \in Requests, Fail(r)
  PROVE  TypeInv'
  <1>0. req[r] \in Calls /\ req[r] # None
    BY Called, NoneApart DEF Fail, Running
  <1>1. /\ pc' \in [Requests -> Labels] /\ pc'[r] = "error"
        /\ \A q \in Requests \ {r} : pc'[q] = pc[q]
        /\ lock' \in Requests \cup {None}
    BY DEF Fail, End, Goto, TypeInv, TypeOK, Labels, Ended
  <1>2. /\ tmp' \in [Requests -> Blobs \cup {None}]
        /\ \A q \in Requests \ {r} : tmp'[q] = tmp[q]
    BY DEF Fail, Cleanup, TmpName, TypeInv, TypeOK
  <1>3. linked' \in SUBSET Requests /\ faults' \in 0..MaxFaults
    BY ConstantsOK DEF Fail, TypeInv, TypeOK
  <1>4. UNCHANGED <<file, side, row, req, fd, meta, cur, scan, boot, crashes>>
    BY DEF Fail, local
  <1>5. TypeOK'
    BY <1>1, <1>2, <1>3, <1>4 DEF TypeInv, TypeOK
  <1>6. Place(r)'
    BY <1>0, <1>1, <1>4 DEF Place, Stage, Ended, InIndexFromDisk
  <1> QED
    BY <1>1, <1>2, <1>4, <1>5, <1>6, PlacedFrame DEF TypeInv

\* What a failing read that counts as absence changes.
LEMMA MisreadMoves ==
  ASSUME TypeInv, NEW r \in Requests, Misread(r)
  PROVE  /\ req[r] \in Calls /\ req[r] # None /\ Stage(r) /\ Running(r)
         /\ UNCHANGED <<file, tmp, side, linked, row, lock, req, fd, cur, scan, boot, crashes>>
         /\ pc' \in [Requests -> Labels] /\ \A q \in Requests \ {r} : pc'[q] = pc[q]
         /\ \A q \in Requests \ {r} : meta'[q] = meta[q]
         /\ \/ /\ pc[r] \in {"public", "publicMeta", "isfile", "hasfiles"}
               /\ pc'[r] = (IF pc[r] = "isfile" THEN "notfound"
                           ELSE IF pc[r] = "hasfiles" THEN "query" ELSE "denied")
               /\ meta' = meta
            \/ /\ pc[r] = "readmeta" /\ pc'[r] = "trunc"
               /\ meta' = [meta EXCEPT ![r] = [NoMeta EXCEPT !.public = req[r].public]]
            \/ /\ pc[r] = "ifdMeta" /\ pc'[r] = "ifdHash"
               /\ meta' = [meta EXCEPT ![r] = NoMeta]
  <1>1. pc[r] \in Tolerant
    BY DEF Misread, At, Tolerant
  <1>2. pc[r] \notin Ended \cup {"idle"}
    BY <1>1 DEF Tolerant, Ended
  <1>3. req[r] \in Calls /\ req[r] # None /\ Stage(r) /\ Running(r)
    BY <1>2, Called, NoneApart DEF Running
  <1>4. UNCHANGED <<file, tmp, side, linked, row, lock, req, fd, cur, scan, boot, crashes>>
    BY DEF Misread, disk
  <1>5. pc' \in [Requests -> Labels] /\ \A q \in Requests \ {r} : pc'[q] = pc[q]
    BY DEF Misread, Goto, Labels, Ended, InIndexFromDisk, TypeInv, TypeOK
  <1>6. \A q \in Requests \ {r} : meta'[q] = meta[q]
    BY DEF Misread, TypeInv, TypeOK
  <1>7. \/ /\ pc[r] \in {"public", "publicMeta", "isfile", "hasfiles"}
           /\ pc'[r] = (IF pc[r] = "isfile" THEN "notfound"
                       ELSE IF pc[r] = "hasfiles" THEN "query" ELSE "denied")
           /\ meta' = meta
        \/ /\ pc[r] = "readmeta" /\ pc'[r] = "trunc"
           /\ meta' = [meta EXCEPT ![r] = [NoMeta EXCEPT !.public = req[r].public]]
        \/ /\ pc[r] = "ifdMeta" /\ pc'[r] = "ifdHash"
           /\ meta' = [meta EXCEPT ![r] = NoMeta]
    BY DEF Misread, At, Goto, TypeInv, TypeOK
  <1> QED
    BY <1>3, <1>4, <1>5, <1>6, <1>7

LEMMA MisreadTypes ==
  ASSUME TypeInv, NEW r \in Requests, Misread(r)
  PROVE  TypeInv'
  <1>1. req[r] \in Calls /\ req[r] # None /\ Stage(r)
    BY MisreadMoves
  <1>2. UNCHANGED <<file, tmp, side, linked, row, lock, req, fd, cur, scan, boot, crashes>>
    BY MisreadMoves
  <1>3. /\ pc' \in [Requests -> Labels] /\ \A q \in Requests \ {r} : pc'[q] = pc[q]
        /\ \A q \in Requests \ {r} : meta'[q] = meta[q]
    BY MisreadMoves
  <1>4. meta' \in [Requests -> Metas]
    <2>1. NoMeta \in Metas /\ [NoMeta EXCEPT !.public = req[r].public] \in Metas
      BY <1>1, NoMetaType, CallFields, MetaExcept
    <2> QED
      BY <2>1, MisreadMoves DEF TypeInv, TypeOK
  <1>5. faults' \in 0..MaxFaults
    BY ConstantsOK DEF Misread, TypeInv, TypeOK
  <1>6. TypeOK'
    BY <1>2, <1>3, <1>4, <1>5 DEF TypeInv, TypeOK
  <1>7. Place(r)'
    <2>1. Place(r)
      BY DEF TypeInv, Placed
    <2>2. /\ pc[r] \in {"public", "publicMeta", "isfile", "hasfiles", "readmeta", "ifdMeta"}
          /\ pc'[r] \in {"denied", "notfound", "query", "trunc", "ifdHash"}
          /\ pc'[r] = "query" => pc[r] = "hasfiles"
          /\ pc'[r] = "trunc" => pc[r] = "readmeta"
          /\ pc'[r] = "ifdHash" => pc[r] = "ifdMeta"
      BY MisreadMoves
    <2>3. Stage(r)'
      BY <1>1, <1>2, <2>2 DEF Stage, PutLabels, ReadLabels, AclLabels, WalkLabels,
         InIndexFromDisk, InLock, Ended
    <2>4. req[r].op = "put" => pc'[r] # "trunc"
      BY <1>1, <2>2 DEF Stage, PutLabels, ReadLabels, WalkLabels, InIndexFromDisk, InLock, Ended
    <2> QED
      BY <1>1, <1>2, <2>1, <2>2, <2>3, <2>4 DEF Place, InIndexFromDisk, Walker
  <1> QED
    BY <1>2, <1>3, <1>6, <1>7, PlacedFrame DEF TypeInv

LEMMA CrashTypes ==
  ASSUME TypeInv, Crash
  PROVE  TypeInv'
  <1>1. /\ pc' \in [Requests -> Labels]
        /\ \A r \in Requests : pc'[r] = IF Running(r) THEN "crashed" ELSE pc[r]
    BY DEF Crash, TypeInv, TypeOK, Labels, Ended
  <1>2. /\ lock' \in Requests \cup {None} /\ linked' \in SUBSET Requests
        /\ boot' \in BOOLEAN /\ crashes' \in 0..MaxCrashes
    BY ConstantsOK DEF Crash, TypeInv, TypeOK
  <1>3. UNCHANGED <<file, tmp, side, row, req, fd, meta, cur, scan, faults>>
    BY DEF Crash, local
  <1>4. TypeOK'
    BY <1>1, <1>2, <1>3 DEF TypeInv, TypeOK
  <1>5. ASSUME NEW r \in Requests PROVE Place(r)'
    BY <1>1, <1>3 DEF TypeInv, Placed, Place, Stage, Walker, Running, Ended, InIndexFromDisk
  <1> QED
    BY <1>4, <1>5 DEF TypeInv, Placed

LEMMA TypeStep ==
  ASSUME TypeInv, [Next]_vars
  PROVE  TypeInv'
  <1>1. ASSUME NEW r \in Requests, Start(r) \/ Fail(r) \/ Misread(r) PROVE TypeInv'
    BY <1>1, StartTypes, FailTypes, MisreadTypes
  <1>2. ASSUME NEW r \in Requests, Step(r) PROVE TypeInv'
    BY <1>2, PutTypes, MetaTypes, IndexTypes, RowTypes, ReadTypes, IndexEndTypes, WalkTypes,
       VisitTypes DEF Step
  <1>3. CASE UNCHANGED vars \/ Rest
    BY <1>3 DEF Rest, vars, disk, local, env, TypeInv, TypeOK, Placed, Place, Stage, Walker
  <1> QED
    BY <1>1, <1>2, <1>3, CrashTypes DEF Next

\* Every variable keeps its type, whatever overlaps, fails or crashes.
THEOREM TypeCorrect == Spec => []TypeOK
  <1>1. TypeInv => TypeOK
    BY DEF TypeInv
  <1> QED
    BY <1>1, TypeInit, TypeStep, PTL DEF Spec

=============================================================================

------------------------------ MODULE Storage ------------------------------
(***************************************************************************)
(* The object layer of one bucket (engine/internal/server/storage.go and   *)
(* the object half of store.go): the bytes, the JSON sidecar and the index *)
(* row of every key, and the handlers that read and write the three.       *)
(* The handlers share no lock but the reindex mutex, so each runs as a     *)
(* process of its own whose atomic steps are single filesystem calls and   *)
(* single SQLite statements.                                               *)
(*                                                                         *)
(* Keys are flat here (the bucket directory always exists); what nested    *)
(* keys do to directories is the subject of another module.                *)
(***************************************************************************)
EXTENDS Naturals, FiniteSets

CONSTANTS
  Keys,          \* object keys of the bucket
  Requests,      \* requests the server may be handling, each used once
  ContentTypes,  \* Content-Type values clients send
  BodyLens,      \* lengths of request bodies, in chunks of io.Copy
  TypeLen,       \* JSON length of a content type, NoType and Garbage included
  None,          \* no file, no row, no ETag, no lock holder
  NoType,        \* a nil ContentType
  Garbage,       \* the text of a sidecar that no longer parses, read as a type
  Seed,          \* the author of the objects stored before this history
  PublicSeeds,   \* keys whose stored object is public
  InitStates,    \* the ways a key may be stored initially, see Stored
  Ops,           \* the operations clients use
  MayOverlap,    \* pairs of operations that clients let overlap on a key
  MaxCrashes,    \* bound: process crashes
  MaxFaults      \* bound: failed calls (cancelled context, I/O error)

AllOps == {"put", "get", "anon", "acl", "delete", "list", "reindex", "startup"}
Types  == ContentTypes \cup {NoType, Garbage}
Authors == Requests \cup {Seed}

\* Bytes on disk: who wrote them and how many chunks they have.
Blobs == [by : SUBSET Authors, n : Nat]

\* What readMeta returns for a sidecar, and an index row.
Metas == [ct : Types, public : BOOLEAN, etag : Blobs \cup {None}]
Rows  == [size : Nat, etag : Blobs \cup {None}, ct : Types, public : BOOLEAN]

\* What a reindex has read and gathered: the rows it found, the names still to
\* visit, the keys visited, the rows to write, and the key it is at.
Scans == [existing : [Keys -> Rows \cup {None}], names : SUBSET Keys, seen : SUBSET Keys,
          upserts : [Keys -> Rows \cup {None}], at : Keys \cup {None}]

\* What a client may ask for.  A walker (list, reindex, startup) has no key;
\* NoType is a Content-Type header that is absent or that sanitizeContentType
\* drops.
Walkers == {"list", "reindex", "startup"}
Calls ==
  {c \in [op : Ops, key : Keys \cup {None}, len : BodyLens \cup {0},
          ct : ContentTypes \cup {NoType}, public : BOOLEAN] :
     /\ c.key = None <=> c.op \in Walkers
     /\ IF c.op = "put" THEN c.len \in BodyLens ELSE c.len = 0 /\ c.ct = NoType
     /\ c.public => c.op \in {"put", "acl"}}

ASSUME ConstantsOK ==
  /\ Ops \subseteq AllOps
  /\ MayOverlap \subseteq AllOps \X AllOps
  /\ InitStates \subseteq {"absent", "indexed", "unindexed", "legacy", "untagged"}
  /\ ContentTypes # {}
  /\ BodyLens \subseteq Nat
  /\ TypeLen \in [Types -> Nat]
  /\ PublicSeeds \subseteq Keys
  /\ MaxCrashes \in Nat /\ MaxFaults \in Nat

ASSUME SentinelsOK ==
  /\ None \notin Blobs \cup Rows \cup Requests \cup Keys \cup Calls
  /\ Seed \notin Requests
  /\ NoType # Garbage

VARIABLES
  file,     \* file[k]: the bytes at {root}/{bucket}/{k}
  tmp,      \* tmp[r]: the temporary file r's upload created
  side,     \* side[k]: what readMeta would return for k
  linked,   \* requests whose open sidecar descriptor is still k's sidecar
  row,      \* row[k]: k's row in the Objects table
  lock,     \* holder of the bucket's reindex mutex
  req, pc,  \* each request and where its handler stands
  fd,       \* fd[r]: the bytes r has open for reading
  meta,     \* meta[r]: the sidecar contents r holds in memory
  cur,      \* cur[r]: the index row r holds in memory
  scan,     \* scan[r]: the progress of r's reindex
  boot,     \* the startup pass of this server process has not begun
  crashes, faults

disk  == <<file, tmp, side, linked>>
local == <<fd, meta, cur, scan>>
env   == <<req, boot, crashes, faults>>
vars  == <<disk, row, lock, pc, local, env>>

-----------------------------------------------------------------------------
(* Data. *)

NoMeta == [ct |-> NoType, public |-> FALSE, etag |-> None]
GarbledMeta_Public == [ct |-> Garbage, public |-> TRUE, etag |-> None]
GarbledMeta == [ct |-> Garbage, public |-> FALSE, etag |-> None]
NoScan == [existing |-> [k \in Keys |-> None], names |-> {}, seen |-> {},
           upserts |-> [k \in Keys |-> None], at |-> None]

\* MD5 is modelled as injective: the hash of some bytes stands for them.
Hash(blob) == blob

\* The bytes request r streams, once all of them have been copied.
Body(r) == [by |-> {r}, n |-> req[r].len]

\* os.CreateTemp(dir, ".upload-*.tmp") makes a name no other upload has.
TmpName(r) == r

\* The MD5 that PutObject's MultiWriter computes as the body streams past.
PutHash_FirstChunk(r) == Hash([by |-> {r}, n |-> 1])
PutHash(r) == Hash(Body(r))

\* What a PUT writes to the sidecar; nothing of the replaced object is kept.
PutMeta_KeepsPublic(r) == [ct |-> req[r].ct, etag |-> PutHash(r),
                           public |-> req[r].public \/ side[req[r].key].public]
PutMeta(r) == [ct |-> req[r].ct, public |-> req[r].public, etag |-> PutHash(r)]

\* Length of a sidecar's JSON; only compared.  An empty file reads as NoMeta.
MetaLen(m) == IF m = NoMeta THEN 0
              ELSE TypeLen[m.ct] + (IF m.public THEN 4 ELSE 5)
                                 + (IF m.etag = None THEN 0 ELSE 42)

\* What a sidecar may read as after new is written at offset 0 over old, bytes
\* that another os.WriteFile put there since this one truncated the file.  What
\* is left of a longer text no longer parses; over a text that already does not
\* parse, either can happen.
Overlays(old, new) ==
  {m \in {new, GarbledMeta} :
     IF old = GarbledMeta THEN TRUE
     ELSE m = (IF MetaLen(old) > MetaLen(new) THEN GarbledMeta ELSE new)}

RowOf(size, m) == [size |-> size, etag |-> m.etag, ct |-> m.ct, public |-> m.public]

-----------------------------------------------------------------------------
(* Control. *)

Ended == {"ok", "notfound", "denied", "error", "crashed"}
InLock == {"existing", "readdir", "walk", "apply"}
InIndexFromDisk == {"ifdStat", "ifdMeta", "ifdHash", "ifdTrunc", "ifdWrite"}
\* Reads whose failure the code takes for an absent or private object.
Tolerant == {"public", "publicMeta", "isfile", "readmeta", "ifdMeta", "hasfiles"}
Labels == Ended \cup InLock \cup InIndexFromDisk \cup Tolerant \cup
  {"idle", "mktemp", "copy", "rename", "trunc", "write", "stat", "upsert", "open",
   "getrow", "hash", "settag", "rmfile", "rmside", "rmrow", "hasrows", "lock", "query"}

\* The first step of each operation's handler.
Entry == [op \in AllOps |->
  CASE op = "put" -> "mktemp"    [] op = "get" -> "open"       [] op = "anon" -> "public"
    [] op = "acl" -> "isfile"    [] op = "delete" -> "rmfile"  [] op = "list" -> "hasrows"
    [] op = "reindex" -> "lock"  [] op = "startup" -> "lock"]

Running(r) == pc[r] \notin Ended \cup {"idle"}
Walker(r) == req[r].op \in Walkers
Forced(r) == req[r].op = "reindex"
KeyOf(r) == IF Walker(r) THEN scan[r].at ELSE req[r].key
File(r) == file[KeyOf(r)]

At(r, label) == pc[r] = label
Goto(r, label) == pc' = [pc EXCEPT ![r] = label]

\* r ends, giving up the mutex it may hold (the deferred Unlock).
End_KeepsLock(r, how) == Goto(r, how) /\ UNCHANGED lock
End(r, how) == /\ Goto(r, how)
               /\ lock' = IF lock = r THEN None ELSE lock

\* Call c works on a key that the running request q works on.
Meets(q, c) == Walker(q) \/ c.op \in Walkers \/ req[q].key = c.key

Stored(k, how) ==
  LET seed == [by |-> {Seed}, n |-> 1]
      tag  == [ct |-> CHOOSE t \in ContentTypes : TRUE,
               public |-> k \in PublicSeeds, etag |-> Hash(seed)]
      bare == [tag EXCEPT !.etag = None]
  IN CASE how = "absent"    -> [file |-> None, side |-> NoMeta, row |-> None]
       [] how = "indexed"   -> [file |-> seed, side |-> tag,  row |-> RowOf(1, tag)]
       [] how = "unindexed" -> [file |-> seed, side |-> tag,  row |-> None]
       [] how = "legacy"    -> [file |-> seed, side |-> bare, row |-> None]
       [] how = "untagged"  -> [file |-> seed, side |-> bare, row |-> RowOf(1, bare)]

Init ==
  /\ \E how \in [Keys -> InitStates] :
        /\ file = [k \in Keys |-> Stored(k, how[k]).file]
        /\ side = [k \in Keys |-> Stored(k, how[k]).side]
        /\ row  = [k \in Keys |-> Stored(k, how[k]).row]
  /\ tmp = [r \in Requests |-> None]
  /\ linked = {}
  /\ lock = None
  /\ req = [r \in Requests |-> None]
  /\ pc = [r \in Requests |-> "idle"]
  /\ fd = [r \in Requests |-> None]
  /\ meta = [r \in Requests |-> NoMeta]
  /\ cur = [r \in Requests |-> None]
  /\ scan = [r \in Requests |-> NoScan]
  /\ boot = TRUE /\ crashes = 0 /\ faults = 0

\* A request arrives; Server.ReindexAll runs once in each server process.
Start(r) ==
  /\ At(r, "idle")
  /\ \E c \in Calls :
       /\ \A q \in Requests : Running(q) /\ Meets(q, c) => <<c.op, req[q].op>> \in MayOverlap
       /\ c.op = "startup" => boot
       /\ req' = [req EXCEPT ![r] = c]
       /\ boot' = (boot /\ c.op # "startup")
       /\ Goto(r, Entry[c.op])
  /\ UNCHANGED <<disk, row, lock, local, crashes, faults>>

-----------------------------------------------------------------------------
(* writeMeta: os.WriteFile truncates the sidecar, then writes it. *)

TruncateMeta(r, next) ==
  LET k == KeyOf(r) IN
  /\ side' = [side EXCEPT ![k] = NoMeta]
  /\ linked' = linked \cup {r}
  /\ Goto(r, next)
  /\ UNCHANGED <<file, tmp, row, lock, local, env>>

\* The write reaches k's sidecar unless that was unlinked in the meantime.
FillMeta(r) ==
  LET k == KeyOf(r) IN
  /\ IF r \in linked
       THEN \E m \in Overlays(side[k], meta[r]) : side' = [side EXCEPT ![k] = m]
       ELSE UNCHANGED side
  /\ linked' = linked \ {r}

UnlinkMeta_Nil(r, next) ==
  LET k == KeyOf(r) IN
  /\ side' = [side EXCEPT ![k] = None]
  /\ linked' = {q \in linked : KeyOf(q) # k}
  /\ Goto(r, next)
  /\ UNCHANGED <<file, tmp, row, lock, local, env>>
UnlinkMeta(r, next) ==
  LET k == KeyOf(r) IN
  /\ side' = [side EXCEPT ![k] = NoMeta]
  /\ linked' = {q \in linked : KeyOf(q) # k}
  /\ Goto(r, next)
  /\ UNCHANGED <<file, tmp, row, lock, local, env>>

-----------------------------------------------------------------------------
(* PutObject *)

CreateTemp(r) ==
  /\ At(r, "mktemp")
  /\ tmp' = [tmp EXCEPT ![TmpName(r)] = [by |-> {r}, n |-> 0]]
  /\ Goto(r, "copy")
  /\ UNCHANGED <<file, side, linked, row, lock, local, env>>

Copy_IgnoresError(r) ==
  /\ At(r, "copy")
  /\ Goto(r, "rename")
  /\ UNCHANGED <<file, tmp, side, linked, row, lock, local, env>>
Copy(r) ==
  LET t == tmp[TmpName(r)] IN
  /\ At(r, "copy")
  /\ IF t.n < req[r].len
       THEN /\ tmp' = [tmp EXCEPT ![TmpName(r)] = [by |-> t.by \cup {r}, n |-> t.n + 1]]
            /\ UNCHANGED pc
       ELSE /\ Goto(r, "rename")
            /\ UNCHANGED tmp
  /\ UNCHANGED <<file, side, linked, row, lock, local, env>>

Rename(r) ==
  /\ At(r, "rename")
  /\ file' = [file EXCEPT ![req[r].key] = tmp[TmpName(r)]]
  /\ tmp' = [tmp EXCEPT ![TmpName(r)] = None]
  /\ meta' = [meta EXCEPT ![r] = PutMeta(r)]
  /\ Goto(r, "trunc")
  /\ UNCHANGED <<side, linked, row, lock, fd, cur, scan, env>>

\* The PUT's writeMeta, and SetPublic's, which removes a sidecar with nothing to say.
Truncate(r) ==
  /\ At(r, "trunc")
  /\ IF meta[r] = NoMeta THEN UnlinkMeta(r, "getrow") ELSE TruncateMeta(r, "write")

Write(r) ==
  /\ At(r, "write")
  /\ FillMeta(r)
  /\ Goto(r, IF req[r].op = "put" THEN "stat" ELSE "getrow")
  /\ UNCHANGED <<file, tmp, row, lock, local, env>>

StatTarget(r) ==
  /\ At(r, "stat")
  /\ IF File(r) = None
       THEN End(r, "error") /\ UNCHANGED cur
       ELSE /\ cur' = [cur EXCEPT ![r] = RowOf(File(r).n, meta[r])]
            /\ Goto(r, "upsert")
            /\ UNCHANGED lock
  /\ UNCHANGED <<disk, row, fd, meta, scan, env>>

\* Store.UpsertObject, the last step of PutObject, statIndexed and SetPublic.
Upsert(r) ==
  /\ At(r, "upsert")
  /\ row' = [row EXCEPT ![req[r].key] = cur[r]]
  /\ End(r, "ok")
  /\ UNCHANGED <<disk, local, env>>

-----------------------------------------------------------------------------
(* indexFromDisk, called by statIndexed, SetPublic and ReindexBucket *)

\* Where the caller goes on with the row indexFromDisk built: a walk collects it,
\* SetPublic overrides its visibility, and both other callers upsert it.
Indexed(r, m) ==
  LET built == RowOf(cur[r].size, m) IN
  IF Walker(r)
    THEN /\ scan' = [scan EXCEPT ![r].upserts[scan[r].at] = built]
         /\ Goto(r, "walk")
         /\ UNCHANGED cur
    ELSE /\ cur' = [cur EXCEPT ![r] =
                      IF req[r].op = "acl" THEN [built EXCEPT !.public = req[r].public] ELSE built]
         /\ Goto(r, "upsert")
         /\ UNCHANGED scan

IfdStat(r) ==
  /\ At(r, "ifdStat")
  /\ IF File(r) = None
       THEN End(r, "error") /\ UNCHANGED cur
       ELSE /\ cur' = [cur EXCEPT ![r] = RowOf(File(r).n, NoMeta)]
            /\ Goto(r, "ifdMeta")
            /\ UNCHANGED lock
  /\ UNCHANGED <<disk, row, fd, meta, scan, env>>

IfdMeta(r) ==
  /\ At(r, "ifdMeta")
  /\ meta' = [meta EXCEPT ![r] = side[KeyOf(r)]]
  /\ IF side[KeyOf(r)].etag # None
       THEN Indexed(r, side[KeyOf(r)])
       ELSE Goto(r, "ifdHash") /\ UNCHANGED <<cur, scan>>
  /\ UNCHANGED <<disk, row, lock, fd, env>>

IfdHash(r) ==
  /\ At(r, "ifdHash")
  /\ IF File(r) = None
       THEN End(r, "error") /\ UNCHANGED meta
       ELSE /\ meta' = [meta EXCEPT ![r].etag = Hash(File(r))]
            /\ Goto(r, "ifdTrunc")
            /\ UNCHANGED lock
  /\ UNCHANGED <<disk, row, fd, cur, scan, env>>

IfdTruncate(r) == At(r, "ifdTrunc") /\ TruncateMeta(r, "ifdWrite")

IfdWrite(r) ==
  /\ At(r, "ifdWrite")
  /\ FillMeta(r)
  /\ Indexed(r, meta[r])
  /\ UNCHANGED <<file, tmp, row, lock, fd, meta, env>>

-----------------------------------------------------------------------------
(* OpenObject and statIndexed, and IsPublic before them without a signature *)

IsPublic(r) ==
  /\ At(r, "public")
  /\ Goto(r, IF row[req[r].key] = None THEN "publicMeta"
             ELSE IF row[req[r].key].public THEN "open" ELSE "denied")
  /\ UNCHANGED <<disk, row, lock, local, env>>

IsPublicOnDisk(r) ==
  /\ At(r, "publicMeta")
  /\ Goto(r, IF side[req[r].key].public THEN "open" ELSE "denied")
  /\ UNCHANGED <<disk, row, lock, local, env>>

Open(r) ==
  /\ At(r, "open")
  /\ fd' = [fd EXCEPT ![r] = File(r)]
  /\ Goto(r, IF File(r) = None THEN "notfound" ELSE "getrow")
  /\ UNCHANGED <<disk, row, lock, meta, cur, scan, env>>

\* Store.GetObject in statIndexed and in SetPublic.
GetRow(r) ==
  LET found == row[req[r].key] IN
  /\ At(r, "getrow")
  /\ CASE found = None ->
            Goto(r, "ifdStat") /\ UNCHANGED cur
       [] found # None /\ req[r].op = "acl" ->
            /\ cur' = [cur EXCEPT ![r] = [found EXCEPT !.public = req[r].public]]
            /\ Goto(r, "upsert")
       [] found # None /\ req[r].op # "acl" ->
            /\ cur' = [cur EXCEPT ![r] = found]
            /\ Goto(r, IF found.etag = None THEN "hash" ELSE "ok")
  /\ UNCHANGED <<disk, row, lock, fd, meta, scan, env>>

HashFile(r) ==
  /\ At(r, "hash")
  /\ IF File(r) = None
       THEN End(r, "error") /\ UNCHANGED cur
       ELSE /\ cur' = [cur EXCEPT ![r].etag = Hash(File(r))]
            /\ Goto(r, "settag")
            /\ UNCHANGED lock
  /\ UNCHANGED <<disk, row, fd, meta, scan, env>>

\* An UPDATE: it does nothing to a row deleted in the meantime.
SetETag(r) ==
  LET k == req[r].key IN
  /\ At(r, "settag")
  /\ row' = IF row[k] = None THEN row ELSE [row EXCEPT ![k].etag = cur[r].etag]
  /\ End(r, "ok")
  /\ UNCHANGED <<disk, local, env>>

-----------------------------------------------------------------------------
(* SetPublic *)

IsFile(r) ==
  /\ At(r, "isfile")
  /\ Goto(r, IF File(r) = None THEN "notfound" ELSE "readmeta")
  /\ UNCHANGED <<disk, row, lock, local, env>>

ReadMeta_Fresh(r) ==
  /\ At(r, "readmeta")
  /\ meta' = [meta EXCEPT ![r] = [NoMeta EXCEPT !.public = req[r].public]]
  /\ Goto(r, "trunc")
  /\ UNCHANGED <<disk, row, lock, fd, cur, scan, env>>
ReadMeta(r) ==
  /\ At(r, "readmeta")
  /\ meta' = [meta EXCEPT ![r] = [side[req[r].key] EXCEPT !.public = req[r].public]]
  /\ Goto(r, "trunc")
  /\ UNCHANGED <<disk, row, lock, fd, cur, scan, env>>

-----------------------------------------------------------------------------
(* DeleteObject *)

RemoveFile(r) ==
  /\ At(r, "rmfile")
  /\ file' = [file EXCEPT ![req[r].key] = None]
  /\ Goto(r, "rmside")
  /\ UNCHANGED <<tmp, side, linked, row, lock, local, env>>

RemoveMeta(r) == At(r, "rmside") /\ UnlinkMeta(r, "rmrow")

RemoveRow(r) ==
  /\ At(r, "rmrow")
  /\ row' = [row EXCEPT ![req[r].key] = None]
  /\ End(r, "ok")
  /\ UNCHANGED <<disk, local, env>>

-----------------------------------------------------------------------------
(* ListObjects (the first page) and ReindexBucket *)

HasRows(r) ==
  /\ At(r, "hasrows")
  /\ Goto(r, IF \E k \in Keys : row[k] # None THEN "query" ELSE "hasfiles")
  /\ UNCHANGED <<disk, row, lock, local, env>>

HasFiles_Ignored(r) ==
  /\ At(r, "hasfiles")
  /\ Goto(r, "query")
  /\ UNCHANGED <<disk, row, lock, local, env>>
HasFiles(r) ==
  /\ At(r, "hasfiles")
  /\ Goto(r, IF \E k \in Keys : file[k] # None THEN "lock" ELSE "query")
  /\ UNCHANGED <<disk, row, lock, local, env>>

Query(r) ==
  /\ At(r, "query")
  /\ scan' = [scan EXCEPT ![r].seen = {k \in Keys : row[k] # None}]
  /\ End(r, "ok")
  /\ UNCHANGED <<disk, row, fd, meta, cur, env>>

Lock_NoWait(r) ==
  /\ At(r, "lock")
  /\ lock' = r
  /\ Goto(r, "existing")
  /\ UNCHANGED <<disk, row, local, env>>
Lock(r) ==
  /\ At(r, "lock") /\ lock = None
  /\ lock' = r
  /\ Goto(r, "existing")
  /\ UNCHANGED <<disk, row, local, env>>

ReadIndex(r) ==
  /\ At(r, "existing")
  /\ scan' = [scan EXCEPT ![r].existing = row]
  /\ Goto(r, "readdir")
  /\ UNCHANGED <<disk, row, lock, fd, meta, cur, env>>

ReadDir(r) ==
  /\ At(r, "readdir")
  /\ scan' = [scan EXCEPT ![r].names = {k \in Keys : file[k] # None}]
  /\ Goto(r, "walk")
  /\ UNCHANGED <<disk, row, lock, fd, meta, cur, env>>

\* A row the walk need not refresh.
UpToDate_AnySize(r, k) ==
  LET known == scan[r].existing[k] IN ~Forced(r) /\ known # None /\ known.etag # None
UpToDate(r, k) ==
  LET known == scan[r].existing[k] IN
  ~Forced(r) /\ known # None /\ known.etag # None /\ known.size = file[k].n

Visit(r) ==
  /\ At(r, "walk")
  /\ IF scan[r].names = {}
       THEN Goto(r, "apply") /\ UNCHANGED <<lock, scan>>
       ELSE \E k \in scan[r].names :
              IF file[k] = None
                THEN End(r, "error") /\ UNCHANGED scan
                ELSE /\ scan' = [scan EXCEPT ![r].names = @ \ {k}, ![r].seen = @ \cup {k},
                                             ![r].at = k]
                     /\ Goto(r, IF UpToDate(r, k) THEN "walk" ELSE "ifdStat")
                     /\ UNCHANGED lock
  /\ UNCHANGED <<disk, row, fd, meta, cur, env>>

\* Store.ApplyIndexChanges, one transaction; then the deferred Unlock.
Apply(r) ==
  LET s == scan[r] IN
  /\ At(r, "apply")
  /\ row' = [k \in Keys |-> IF s.upserts[k] # None THEN s.upserts[k]
                            ELSE IF s.existing[k] # None /\ k \notin s.seen THEN None
                            ELSE row[k]]
  /\ End(r, IF req[r].op = "list" THEN "query" ELSE "ok")
  /\ UNCHANGED <<disk, local, env>>

-----------------------------------------------------------------------------
(* Failures *)

\* The deferred os.Remove of PutObject; another handler has no temporary file.
Cleanup_None(r) == UNCHANGED tmp
Cleanup(r) == tmp' = [tmp EXCEPT ![TmpName(r)] = None]

\* A call of r fails (I/O error, cancelled request): the handler returns 500, its
\* deferred calls remove the temporary file and release the mutex.  Waiting for
\* the mutex cannot fail.
Fail(r) ==
  /\ faults < MaxFaults
  /\ Running(r) /\ pc[r] \notin Tolerant \cup {"lock"}
  /\ End(r, "error")
  /\ Cleanup(r)
  /\ linked' = linked \ {r}
  /\ faults' = faults + 1
  /\ UNCHANGED <<file, side, row, local, req, boot, crashes>>

\* A read whose error the code drops fails: what it should find counts as absent, or
\* the object as private.
Misread(r) ==
  /\ faults < MaxFaults
  /\ \/ pc[r] \in {"public", "publicMeta"} /\ Goto(r, "denied") /\ UNCHANGED meta
     \/ At(r, "isfile") /\ Goto(r, "notfound") /\ UNCHANGED meta
     \/ At(r, "hasfiles") /\ Goto(r, "query") /\ UNCHANGED meta
     \/ At(r, "readmeta") /\ Goto(r, "trunc")
           /\ meta' = [meta EXCEPT ![r] = [NoMeta EXCEPT !.public = req[r].public]]
     \/ At(r, "ifdMeta") /\ Goto(r, "ifdHash") /\ meta' = [meta EXCEPT ![r] = NoMeta]
  /\ faults' = faults + 1
  /\ UNCHANGED <<disk, row, lock, fd, cur, scan, req, boot, crashes>>

\* The server process dies and is started again; disk and database survive.
Crash ==
  /\ crashes < MaxCrashes
  /\ pc' = [r \in Requests |-> IF Running(r) THEN "crashed" ELSE pc[r]]
  /\ lock' = None
  /\ linked' = {}
  /\ boot' = TRUE
  /\ crashes' = crashes + 1
  /\ UNCHANGED <<file, tmp, side, row, local, req, faults>>

\* Nothing is being handled: the server may stay so.
Rest == (\A r \in Requests : ~Running(r)) /\ UNCHANGED vars

Step(r) ==
  \/ CreateTemp(r) \/ Copy(r) \/ Rename(r) \/ Truncate(r) \/ Write(r) \/ StatTarget(r)
  \/ Upsert(r) \/ IfdStat(r) \/ IfdMeta(r) \/ IfdHash(r) \/ IfdTruncate(r) \/ IfdWrite(r)
  \/ IsPublic(r) \/ IsPublicOnDisk(r) \/ Open(r) \/ GetRow(r) \/ HashFile(r) \/ SetETag(r)
  \/ IsFile(r) \/ ReadMeta(r) \/ RemoveFile(r) \/ RemoveMeta(r) \/ RemoveRow(r)
  \/ HasRows(r) \/ HasFiles(r) \/ Query(r) \/ Lock(r) \/ ReadIndex(r) \/ ReadDir(r)
  \/ Visit(r) \/ Apply(r)

Next == (\E r \in Requests : Start(r) \/ Step(r) \/ Fail(r) \/ Misread(r)) \/ Crash \/ Rest

Spec == Init /\ [][Next]_vars

\* The Go scheduler runs every handler that can take a step; a client may stop
\* sending its body, so nothing is promised of an upload that is still copying.
FairSpec == Spec /\ \A r \in Requests : WF_vars(Step(r) /\ ~At(r, "copy"))

-----------------------------------------------------------------------------
(* What holds however the handlers overlap, crash and fail. *)

TypeOK ==
  /\ file \in [Keys -> Blobs \cup {None}]
  /\ tmp \in [Requests -> Blobs \cup {None}]
  /\ side \in [Keys -> Metas]
  /\ linked \in SUBSET Requests
  /\ row \in [Keys -> Rows \cup {None}]
  /\ lock \in Requests \cup {None}
  /\ req \in [Requests -> Calls \cup {None}]
  /\ pc \in [Requests -> Labels]
  /\ fd \in [Requests -> Blobs \cup {None}]
  /\ meta \in [Requests -> Metas]
  /\ cur \in [Requests -> Rows \cup {None}]
  /\ scan \in [Requests -> Scans]
  /\ boot \in BOOLEAN /\ crashes \in 0..MaxCrashes /\ faults \in 0..MaxFaults

\* The bodies ever stored under k, and the calls that set k's metadata.
Originals(k) == {[by |-> {Seed}, n |-> 1]} \cup
  {Body(r) : r \in {q \in Requests : req[q] # None /\ req[q].op = "put" /\ req[q].key = k}}
Setters(k) == {req[r] : r \in {q \in Requests : /\ req[q] # None /\ req[q].key = k
                                                /\ req[q].op \in {"put", "acl"}}}

\* A stored object, and the file a GET answers from, is the complete body of one
\* upload to that key, never a partial or mixed one (PutObject: "readers never
\* see a partial object").
WholeObjects ==
  /\ \A k \in Keys : file[k] \in Originals(k) \cup {None}
  /\ \A r \in Requests : fd[r] # None => fd[r] \in Originals(req[r].key)

\* Every ETag in a sidecar or in the index is the hash of a complete body that
\* was uploaded to that key, if not always of the bytes it has now.
ETagsGenuine ==
  \A k \in Keys :
    /\ side[k].etag \in {Hash(b) : b \in Originals(k)} \cup {None}
    /\ row[k] # None => row[k].etag \in {Hash(b) : b \in Originals(k)} \cup {None}

\* An object is marked public, on disk or in the index, only if it was public
\* initially or some PUT or ACL call asked for it: no healing, reindexing or
\* overwritten sidecar turns a private object public (readMeta: "so old objects
\* stay private rather than silently becoming public").
PublicOnlyIfAsked ==
  \A k \in Keys :
    side[k].public \/ (row[k] # None /\ row[k].public)
      => k \in PublicSeeds \/ \E c \in Setters(k) : c.public

\* One reindex of the bucket at a time (storage.go, reindexLocks): whoever is
\* between Lock and Unlock is the mutex's only holder.
InReindex(r) == pc[r] \in InLock \/ (pc[r] \in InIndexFromDisk /\ Walker(r))
ReindexExclusive == \A r \in Requests : InReindex(r) <=> lock = r

\* Only an upload in progress has a temporary file, holding nothing but its own
\* chunks; one that ended any other way than with the process left none behind
\* (PutObject's deferred Remove).
TempOwned ==
  \A r \in Requests : tmp[r] # None =>
    pc[r] \in {"copy", "rename", "crashed"} /\ tmp[r].by \subseteq {r}

\* An upload whose client stops sending holds up nobody else: every other
\* request ends, and so does an upload once its body has arrived.
Progress ==
  \A r \in Requests :
    (Running(r) /\ pc[r] \notin {"mktemp", "copy"}) ~> ~Running(r)

-----------------------------------------------------------------------------
(* What holds when calls share a key only if all of them read it and none fails. *)

Touches(r, k) == Running(r) /\ (Walker(r) \/ req[r].key = k)
Settled(k) == \A r \in Requests : ~Touches(r, k)

\* Bytes, sidecar and index row of a key tell the same story whenever no request
\* is working on it; only a missing row or ETag is still to be filled in.  This is
\* for calls that share a key only if all of them are GETs or listings, and for files
\* that have a row or a sidecar with an ETag: GETs fill in rows and row ETags side by
\* side, but no two handlers write one sidecar.  The code, which locks no key, does not
\* keep it otherwise (statIndexed, SetPublic, writeMeta).
Agrees(k) ==
  IF file[k] = None
    THEN side[k] = NoMeta /\ row[k] = None
    ELSE /\ side[k].etag \in {Hash(file[k]), None}
         /\ row[k] # None =>
              /\ row[k].size = file[k].n
              /\ row[k].etag \in {Hash(file[k]), None}
              /\ row[k].ct = side[k].ct /\ row[k].public = side[k].public
SettledAgree == \A k \in Keys : Settled(k) => Agrees(k)

\* A first page is never silently empty (ListObjects): if a key had a file all
\* through the request, an empty answer cannot be given.
ListNotSilentlyEmpty ==
  [][\A r \in Requests :
       At(r, "query") /\ pc'[r] = "ok" /\ scan'[r].seen = {}
         => \A k \in Keys : file[k] = None]_vars

-----------------------------------------------------------------------------
(* What a reindex that runs alone restores after crashes and failures. *)

\* When a pass ends, index and directory list the same keys with the same sizes,
\* and a forced pass has also copied every sidecar into the index (ReindexBucket:
\* adds rows for files the index is missing, refreshes changed ones, drops rows
\* whose file is gone).
Rebuilt(r) ==
  \A k \in Keys :
    /\ (row'[k] = None) <=> (file[k] = None)
    /\ file[k] # None => /\ row'[k].size = file[k].n
                         /\ row'[k].etag # None
                         /\ Forced(r) => row'[k] = RowOf(file[k].n, side[k])
ReindexRebuilds ==
  [][\A r \in Requests : At(r, "apply") /\ pc'[r] \in {"ok", "query"} => Rebuilt(r)]_vars

=============================================================================

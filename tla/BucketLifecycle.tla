-------------------------- MODULE BucketLifecycle --------------------------
(***************************************************************************)
(* One bucket name over time (engine/internal/server: the admin handlers,  *)
(* the bucket half of store.go, and what object handlers do to a bucket    *)
(* after bucketAuth let them in).  The bucket is a row in Buckets, made    *)
(* and dropped by admin calls; its objects are files in a directory and    *)
(* rows in Objects, which refer to it by name only.  So each bucket that   *)
(* ever had the name is told apart here by the request that created it,    *)
(* and files and rows carry the bucket their upload was authenticated for. *)
(*                                                                         *)
(* Handlers are processes whose steps are filesystem calls and SQL         *)
(* statements.  Sizes, hashes and sidecars are the subject of Storage: one *)
(* step here stands for several there.  A key lies in the bucket's own     *)
(* directory or in one below it, which uploads make and deletions remove   *)
(* again; deeper trees, and keys that are the directory of another key,    *)
(* are the subject of KeyTree.                                             *)
(***************************************************************************)
EXTENDS Naturals, FiniteSets

CONSTANTS
  Keys,        \* object keys
  Folder,      \* Folder[k]: the directory below the bucket's that k lies in, None if none
  Requests,    \* requests the server may be handling, each used once
  None,        \* no bucket, file, row, key, key pair or lock holder
  Seed,        \* the creator of a bucket that was there before this history
  InitStates,  \* the ways the name may be in use initially, see Init
  Ops,         \* the operations clients use
  MayOverlap,  \* pairs of operations that clients let overlap
  MaxCrashes,  \* bound: process crashes
  MaxFaults    \* bound: failed calls (cancelled context, I/O error)

AdminOps  == {"create", "delete", "rotate"}
SignedOps == {"put", "get", "acl", "remove", "list"}
AllOps    == AdminOps \cup SignedOps \cup {"reindex", "startup"}

\* A bucket, a key pair and an object are each named by the request that made
\* them: born is the creator of the bucket, pair the last to have minted its keys.
Minters == Requests \cup {Seed}
BucketRows == [born : Minters, pair : Minters]

Folders == {Folder[k] : k \in Keys} \ {None}

\* A reindex in progress: rows it found, names to visit and visited, rows to write.
Scans == [existing : [Keys -> Minters \cup {None}], names : SUBSET (Keys \cup Folders),
          seen : SUBSET Keys, upserts : [Keys -> Minters \cup {None}]]

Calls ==
  {c \in [op : Ops, key : Keys \cup {None}, pair : Minters \cup {None}] :
     /\ c.key # None <=> c.op \in {"put", "get", "acl", "remove"}
     /\ c.pair # None <=> c.op \in SignedOps}

ASSUME LifecycleConstants ==
  /\ Ops \subseteq AllOps
  /\ MayOverlap \subseteq AllOps \X AllOps
  /\ InitStates \subseteq {"unused", "empty", "stored", "unindexed"}
  /\ MaxCrashes \in Nat /\ MaxFaults \in Nat

ASSUME LifecycleSentinels ==
  /\ None \notin Minters \cup Keys \cup BucketRows \cup Calls
  /\ Seed \notin Requests
  /\ Folders \cap Keys = {}

VARIABLES
  bucket,   \* the row of this name in Buckets
  row,      \* row[k]: k's row in Objects: the bucket its object was uploaded to
  dir,      \* the bucket's directory exists
  sub,      \* the directories that stand below it
  file,     \* file[k]: the object at {root}/{bucket}/{k}, likewise
  tmp,      \* uploads whose temporary file is in their key's directory
  lock,     \* holder of the bucket's reindex mutex
  req, pc,  \* each request and where its handler stands
  auth,     \* auth[r]: the bucket that bucketAuth resolved for r
  cur,      \* cur[r]: the index row r is about to upsert
  scan,     \* scan[r]: the progress of r's reindex
  before,   \* history: the requests that had ended when r arrived
  boot,     \* the startup pass of this server process has not begun
  crashes, faults

db    == <<bucket, row>>
fs    == <<dir, sub, file, tmp>>
local == <<auth, cur, scan>>
env   == <<req, before, boot, crashes, faults>>
vars  == <<db, fs, lock, pc, local, env>>

-----------------------------------------------------------------------------
NoRows == [k \in Keys |-> None]
NoScan == [existing |-> NoRows, names |-> {}, seen |-> {}, upserts |-> NoRows]

Ended == {"ok", "denied", "notfound", "refused", "error", "crashed"}
InLock == {"isdir", "existing", "readdir", "walk", "apply"}
Labels == Ended \cup InLock \cup
  {"idle", "lookup", "insert", "mkdir", "undo", "require", "isempty", "drop", "rmdir",
   "setkeys", "buckets", "auth", "mkparents", "mkfolder", "mktemp", "rename", "stat", "open",
   "getrow", "heal", "upsert", "rmfile", "prune", "rmrow", "hasrows", "hasfiles", "lock"}

\* The first step of a handler, and the step after requireBucket or bucketAuth.
Entry(op) == CASE op = "create" -> "lookup"
               [] op = "startup" -> "buckets"
               [] op \in {"delete", "rotate", "reindex"} -> "require"
               [] OTHER -> "auth"
Admitted(op) == CASE op = "delete" -> "isempty" [] op = "rotate" -> "setkeys"
                  [] op = "reindex" -> "lock"   [] op = "put" -> "mkparents"
                  [] op \in {"get", "acl"} -> "open"  [] op = "remove" -> "rmfile"
                  [] OTHER -> "hasrows"

Running(r) == pc[r] \notin Ended \cup {"idle"}
At(r, label) == pc[r] = label
Goto(r, label) == pc' = [pc EXCEPT ![r] = label]
End(r, how) == /\ Goto(r, how)
               /\ lock' = IF lock = r THEN None ELSE lock

\* Something is in directory f, the bucket's own if f is None.
Objects(f) == {k \in Keys : Folder[k] = f /\ file[k] # None}
Holds(f) == Objects(f) # {} \/ \E q \in tmp : Folder[req[q].key] = f
Occupied == sub # {} \/ tmp # {} \/ \E k \in Keys : file[k] # None

Init ==
  /\ \E how \in InitStates :
       LET stored == [k \in Keys |-> Seed] IN
       /\ bucket = IF how = "unused" THEN None ELSE [born |-> Seed, pair |-> Seed]
       /\ dir = (how # "unused")
       /\ sub = IF how \in {"stored", "unindexed"} THEN Folders ELSE {}
       /\ file = IF how \in {"stored", "unindexed"} THEN stored ELSE NoRows
       /\ row  = IF how = "stored" THEN stored ELSE NoRows
  /\ tmp = {} /\ lock = None
  /\ req = [r \in Requests |-> None]
  /\ pc = [r \in Requests |-> "idle"]
  /\ auth = [r \in Requests |-> None]
  /\ cur = [r \in Requests |-> None]
  /\ scan = [r \in Requests |-> NoScan]
  /\ before = [r \in Requests |-> {}]
  /\ boot = TRUE /\ crashes = 0 /\ faults = 0

\* The key pairs that clients have been given.
Issued == {Seed} \cup {q \in Requests : At(q, "ok") /\ req[q].op \in {"create", "rotate"}}

\* A request arrives; Server.ReindexAll runs once in each server process.
Start(r) ==
  /\ At(r, "idle")
  /\ \E c \in Calls :
       /\ \A q \in Requests : Running(q) => <<c.op, req[q].op>> \in MayOverlap
       /\ c.pair \in Issued \cup {None}
       /\ c.op = "startup" => boot
       /\ req' = [req EXCEPT ![r] = c]
       /\ boot' = (boot /\ c.op # "startup")
       /\ Goto(r, Entry(c.op))
  /\ before' = [before EXCEPT ![r] = {q \in Requests : pc[q] \in Ended}]
  /\ UNCHANGED <<db, fs, lock, local, crashes, faults>>

-----------------------------------------------------------------------------
(* createBucket *)

Lookup(r) ==
  /\ At(r, "lookup")
  /\ Goto(r, IF bucket = None THEN "insert" ELSE "refused")
  /\ UNCHANGED <<db, fs, lock, local, env>>

\* Name is the primary key: the loser of two inserts gets the conflict too.
Insert_Replaces(r) ==
  /\ At(r, "insert")
  /\ bucket' = [born |-> r, pair |-> r]
  /\ Goto(r, "mkdir")
  /\ UNCHANGED <<row, fs, lock, local, env>>
Insert(r) ==
  /\ At(r, "insert")
  /\ IF bucket = None
       THEN bucket' = [born |-> r, pair |-> r] /\ Goto(r, "mkdir")
       ELSE Goto(r, "refused") /\ UNCHANGED bucket
  /\ UNCHANGED <<row, fs, lock, local, env>>

CreateBucketDirectory(r) ==
  /\ At(r, "mkdir")
  /\ dir' = TRUE
  /\ Goto(r, "ok")
  /\ UNCHANGED <<db, sub, file, tmp, lock, local, env>>

\* Store.DeleteBucket: one transaction over both tables, by name.
DropBucketRow_Only == bucket' = None /\ UNCHANGED row
DropBucketRow == bucket' = None /\ row' = NoRows

\* The directory could not be made: the insert is undone, errors ignored.
Undo_Nothing(r) ==
  /\ At(r, "undo")
  /\ Goto(r, "error")
  /\ UNCHANGED <<db, fs, lock, local, env>>
Undo(r) ==
  /\ At(r, "undo")
  /\ DropBucketRow
  /\ Goto(r, "error")
  /\ UNCHANGED <<fs, lock, local, env>>

-----------------------------------------------------------------------------
(* requireBucket, deleteBucket, rotateBucketKey *)

RequireBucket(r) ==
  /\ At(r, "require")
  /\ Goto(r, IF bucket = None THEN "notfound" ELSE Admitted(req[r].op))
  /\ UNCHANGED <<db, fs, lock, local, env>>

IsBucketEmpty(r) ==
  /\ At(r, "isempty")
  /\ Goto(r, IF Occupied THEN "refused" ELSE "drop")
  /\ UNCHANGED <<db, fs, lock, local, env>>

DropBucket(r) ==
  /\ At(r, "drop")
  /\ DropBucketRow
  /\ Goto(r, "rmdir")
  /\ UNCHANGED <<fs, lock, local, env>>

\* os.Remove takes only an empty directory; one that is gone is no error.
RemoveBucketDirectory_All(r) ==
  /\ At(r, "rmdir")
  /\ dir' = FALSE /\ sub' = {} /\ file' = NoRows /\ tmp' = {}
  /\ Goto(r, "ok")
  /\ UNCHANGED <<db, lock, local, env>>
RemoveBucketDirectory(r) ==
  /\ At(r, "rmdir")
  /\ IF Occupied THEN Goto(r, "error") /\ UNCHANGED dir
                 ELSE dir' = FALSE /\ Goto(r, "ok")
  /\ UNCHANGED <<db, sub, file, tmp, lock, local, env>>

\* An UPDATE by name: no row to update is no error.
UpdateBucketKeys_Lost(r) ==
  /\ At(r, "setkeys")
  /\ Goto(r, "ok")
  /\ UNCHANGED <<db, fs, lock, local, env>>
UpdateBucketKeys_Inserts(r) ==
  /\ At(r, "setkeys")
  /\ bucket' = [born |-> IF bucket = None THEN None ELSE bucket.born, pair |-> r]
  /\ Goto(r, "ok")
  /\ UNCHANGED <<row, fs, lock, local, env>>
UpdateBucketKeys(r) ==
  /\ At(r, "setkeys")
  /\ bucket' = IF bucket = None THEN None ELSE [bucket EXCEPT !.pair = r]
  /\ Goto(r, "ok")
  /\ UNCHANGED <<row, fs, lock, local, env>>

-----------------------------------------------------------------------------
(* bucketAuth, PutObject, OpenObject, SetPublic, DeleteObject *)

\* BucketByAccessKey finds the bucket by the pair's access key; the signature was
\* made with the pair's secret, which that same row holds.
BucketAuth(r) ==
  /\ At(r, "auth")
  /\ IF bucket # None /\ bucket.pair = req[r].pair
       THEN auth' = [auth EXCEPT ![r] = bucket.born] /\ Goto(r, Admitted(req[r].op))
       ELSE Goto(r, "denied") /\ UNCHANGED auth
  /\ UNCHANGED <<db, fs, lock, cur, scan, env>>

\* MkdirAll makes the bucket's directory too, if it is gone, and then the key's.
MakeParents(r) ==
  /\ At(r, "mkparents")
  /\ dir' = TRUE
  /\ Goto(r, IF Folder[req[r].key] = None THEN "mktemp" ELSE "mkfolder")
  /\ UNCHANGED <<db, sub, file, tmp, lock, local, env>>

MakeFolder(r) ==
  /\ At(r, "mkfolder")
  /\ IF dir THEN sub' = sub \cup {Folder[req[r].key]} /\ Goto(r, "mktemp")
            ELSE Goto(r, "error") /\ UNCHANGED sub
  /\ UNCHANGED <<db, dir, file, tmp, lock, local, env>>

CreateTemp(r) ==
  /\ At(r, "mktemp")
  /\ IF dir /\ Folder[req[r].key] \in sub \cup {None}
       THEN tmp' = tmp \cup {r} /\ Goto(r, "rename")
       ELSE Goto(r, "error") /\ UNCHANGED tmp
  /\ UNCHANGED <<db, dir, sub, file, lock, local, env>>

Rename(r) ==
  /\ At(r, "rename")
  /\ file' = [file EXCEPT ![req[r].key] = auth[r]]
  /\ tmp' = tmp \ {r}
  /\ Goto(r, "stat")
  /\ UNCHANGED <<db, dir, sub, lock, local, env>>

StatTarget(r) ==
  /\ At(r, "stat")
  /\ IF file[req[r].key] = None
       THEN Goto(r, "error") /\ UNCHANGED cur
       ELSE cur' = [cur EXCEPT ![r] = auth[r]] /\ Goto(r, "upsert")
  /\ UNCHANGED <<db, fs, lock, auth, scan, env>>

UpsertObject(r) ==
  /\ At(r, "upsert")
  /\ row' = [row EXCEPT ![req[r].key] = cur[r]]
  /\ Goto(r, "ok")
  /\ UNCHANGED <<bucket, fs, lock, local, env>>

\* os.Open in OpenObject, isFile in SetPublic.
Open(r) ==
  /\ At(r, "open")
  /\ Goto(r, IF file[req[r].key] = None THEN "notfound" ELSE "getrow")
  /\ UNCHANGED <<db, fs, lock, local, env>>

\* SetPublic writes back the row it finds, a GET only one it has to make.
GetRow(r) ==
  LET found == row[req[r].key] IN
  /\ At(r, "getrow")
  /\ \/ found = None /\ Goto(r, "heal") /\ UNCHANGED cur
     \/ found # None /\ req[r].op = "get" /\ Goto(r, "ok") /\ UNCHANGED cur
     \/ found # None /\ req[r].op = "acl" /\ Goto(r, "upsert") /\ cur' = [cur EXCEPT ![r] = found]
  /\ UNCHANGED <<db, fs, lock, auth, scan, env>>

\* indexFromDisk, called by statIndexed and SetPublic.
Heal(r) ==
  /\ At(r, "heal")
  /\ IF file[req[r].key] = None
       THEN Goto(r, "error") /\ UNCHANGED cur
       ELSE cur' = [cur EXCEPT ![r] = file[req[r].key]] /\ Goto(r, "upsert")
  /\ UNCHANGED <<db, fs, lock, auth, scan, env>>

RemoveFile(r) ==
  /\ At(r, "rmfile")
  /\ file' = [file EXCEPT ![req[r].key] = None]
  /\ Goto(r, IF Folder[req[r].key] = None THEN "rmrow" ELSE "prune")
  /\ UNCHANGED <<db, dir, sub, tmp, lock, local, env>>

\* removeEmptyParents: os.Remove leaves a directory that holds something.
RemoveEmptyParents_Not(r) ==
  /\ At(r, "prune")
  /\ Goto(r, "rmrow")
  /\ UNCHANGED <<db, fs, lock, local, env>>
RemoveEmptyParents(r) ==
  LET f == Folder[req[r].key] IN
  /\ At(r, "prune")
  /\ sub' = IF Holds(f) THEN sub ELSE sub \ {f}
  /\ Goto(r, "rmrow")
  /\ UNCHANGED <<db, dir, file, tmp, lock, local, env>>

RemoveRow(r) ==
  /\ At(r, "rmrow")
  /\ row' = [row EXCEPT ![req[r].key] = None]
  /\ Goto(r, "ok")
  /\ UNCHANGED <<bucket, fs, lock, local, env>>

-----------------------------------------------------------------------------
(* ListObjects, ReindexAll, ReindexBucket *)

HasRows(r) ==
  /\ At(r, "hasrows")
  /\ Goto(r, IF \E k \in Keys : row[k] # None THEN "ok" ELSE "hasfiles")
  /\ UNCHANGED <<db, fs, lock, local, env>>

HasFiles(r) ==
  /\ At(r, "hasfiles")
  /\ Goto(r, IF \E k \in Keys : file[k] # None THEN "lock" ELSE "ok")
  /\ UNCHANGED <<db, fs, lock, local, env>>

ListBuckets(r) ==
  /\ At(r, "buckets")
  /\ Goto(r, IF bucket = None THEN "ok" ELSE "lock")
  /\ UNCHANGED <<db, fs, lock, local, env>>

Lock(r) ==
  /\ At(r, "lock") /\ lock = None
  /\ lock' = r
  /\ Goto(r, "isdir")
  /\ UNCHANGED <<db, fs, local, env>>

\* Without a directory there are no objects: Store.DeleteBucketObjects.
IsDir(r) ==
  /\ At(r, "isdir")
  /\ IF dir THEN Goto(r, "existing") /\ UNCHANGED <<row, lock>>
            ELSE row' = NoRows /\ End(r, "ok")
  /\ UNCHANGED <<bucket, fs, local, env>>

IndexedObjects(r) ==
  /\ At(r, "existing")
  /\ scan' = [scan EXCEPT ![r].existing = row]
  /\ Goto(r, "readdir")
  /\ UNCHANGED <<db, fs, lock, auth, cur, env>>

ReadDir(r) ==
  /\ At(r, "readdir")
  /\ IF dir THEN /\ scan' = [scan EXCEPT ![r].names = Objects(None) \cup sub]
                 /\ Goto(r, "walk")
                 /\ UNCHANGED lock
            ELSE End(r, "error") /\ UNCHANGED scan
  /\ UNCHANGED <<db, fs, auth, cur, env>>

\* A row with the size of the file is left alone: always one that describes the
\* file, and possibly one that describes an object of another bucket.
MayKeep(r, k) == req[r].op # "reindex" /\ scan[r].existing[k] # None
MustKeep(r, k) == MayKeep(r, k) /\ scan[r].existing[k] = file[k]

Visited(s, k, found) ==
  [s EXCEPT !.names = @ \ {k}, !.seen = @ \cup {k}, !.upserts[k] = found]

VisitFile(r, k) ==
  IF file[k] = None
    THEN End(r, "error") /\ UNCHANGED scan
    ELSE \E keep \in BOOLEAN :
           /\ MustKeep(r, k) => keep
           /\ keep => MayKeep(r, k)
           /\ scan' = [scan EXCEPT ![r] = Visited(scan[r], k, IF keep THEN None ELSE file[k])]
           /\ UNCHANGED <<pc, lock>>

Opened(s, f, inside) == [s EXCEPT !.names = (@ \ {f}) \cup inside]

VisitFolder(r, f) ==
  IF f \in sub
    THEN scan' = [scan EXCEPT ![r] = Opened(scan[r], f, Objects(f))] /\ UNCHANGED <<pc, lock>>
    ELSE End(r, "error") /\ UNCHANGED scan

Visit(r) ==
  /\ At(r, "walk")
  /\ \/ scan[r].names = {} /\ Goto(r, "apply") /\ UNCHANGED <<lock, scan>>
     \/ \E k \in scan[r].names \cap Keys : VisitFile(r, k)
     \/ \E f \in scan[r].names \ Keys : VisitFolder(r, f)
  /\ UNCHANGED <<db, fs, auth, cur, env>>

Apply(r) ==
  LET s == scan[r] IN
  /\ At(r, "apply")
  /\ row' = [k \in Keys |-> IF s.upserts[k] # None THEN s.upserts[k]
                            ELSE IF s.existing[k] # None /\ k \notin s.seen THEN None
                            ELSE row[k]]
  /\ End(r, "ok")
  /\ UNCHANGED <<bucket, fs, local, env>>

-----------------------------------------------------------------------------
(* Failures *)

\* The deferred os.Remove of PutObject.
Cleanup(r) == tmp' = tmp \ {r}

\* Calls whose error the code drops; waiting for the mutex cannot fail.
Ignored(r) == At(r, "hasfiles") \/ At(r, "prune") \/ (At(r, "open") /\ req[r].op = "acl")

\* A call fails: createBucket still undoes its insert if the directory was the
\* problem, every other handler returns.
Fail(r) ==
  /\ faults < MaxFaults
  /\ Running(r) /\ ~At(r, "lock") /\ ~Ignored(r)
  /\ End(r, IF At(r, "mkdir") THEN "undo" ELSE "error")
  /\ Cleanup(r)
  /\ faults' = faults + 1
  /\ UNCHANGED <<db, dir, sub, file, local, req, before, boot, crashes>>

\* A failed stat counts as no directory or no file, a failed walk as no files, and a
\* failed cleanup as a directory in use.
Tolerate(r) ==
  /\ faults < MaxFaults
  /\ \/ At(r, "isdir") /\ row' = NoRows /\ End(r, "ok")
     \/ Ignored(r) /\ UNCHANGED <<row, lock>>
        /\ Goto(r, CASE At(r, "hasfiles") -> "ok" [] At(r, "prune") -> "rmrow"
                     [] At(r, "open") -> "notfound")
  /\ faults' = faults + 1
  /\ UNCHANGED <<bucket, fs, local, req, before, boot, crashes>>

\* The server process dies and is started again; disk and database survive.
Crash ==
  /\ crashes < MaxCrashes
  /\ pc' = [r \in Requests |-> IF Running(r) THEN "crashed" ELSE pc[r]]
  /\ lock' = None
  /\ boot' = TRUE
  /\ crashes' = crashes + 1
  /\ UNCHANGED <<db, fs, local, req, before, faults>>

Rest == (\A r \in Requests : ~Running(r)) /\ UNCHANGED vars

Step(r) ==
  \/ Lookup(r) \/ Insert(r) \/ CreateBucketDirectory(r) \/ Undo(r)
  \/ RequireBucket(r) \/ IsBucketEmpty(r) \/ DropBucket(r) \/ RemoveBucketDirectory(r)
  \/ UpdateBucketKeys(r)
  \/ BucketAuth(r) \/ MakeParents(r) \/ MakeFolder(r) \/ CreateTemp(r) \/ Rename(r)
  \/ StatTarget(r) \/ UpsertObject(r) \/ Open(r) \/ GetRow(r) \/ Heal(r)
  \/ RemoveFile(r) \/ RemoveEmptyParents(r) \/ RemoveRow(r)
  \/ HasRows(r) \/ HasFiles(r) \/ ListBuckets(r) \/ Lock(r) \/ IsDir(r) \/ IndexedObjects(r)
  \/ ReadDir(r) \/ Visit(r) \/ Apply(r)

Next == (\E r \in Requests : Start(r) \/ Step(r) \/ Fail(r) \/ Tolerate(r)) \/ Crash \/ Rest

Spec == Init /\ [][Next]_vars

-----------------------------------------------------------------------------
(* What holds however the calls overlap, crash and fail. *)

LifecycleTypeOK ==
  /\ bucket \in BucketRows \cup {None}
  /\ row \in [Keys -> Minters \cup {None}]
  /\ dir \in BOOLEAN /\ sub \in SUBSET Folders
  /\ file \in [Keys -> Minters \cup {None}]
  /\ tmp \in SUBSET Requests
  /\ lock \in Requests \cup {None}
  /\ req \in [Requests -> Calls \cup {None}]
  /\ pc \in [Requests -> Labels]
  /\ auth \in [Requests -> Minters \cup {None}]
  /\ cur \in [Requests -> Minters \cup {None}]
  /\ scan \in [Requests -> Scans]
  /\ before \in [Requests -> SUBSET Requests]
  /\ boot \in BOOLEAN /\ crashes \in 0..MaxCrashes /\ faults \in 0..MaxFaults

\* Once a rotation or deletion has been answered, no request that arrives later is
\* let in with a key pair that was issued before the rotation or deletion began,
\* whatever other admin calls overlap (rotateBucketKey: "the old pair (and every
\* presigned URL signed with it) stops working immediately").
RevokedAtOnce ==
  \A c \in Requests : \A r \in before[c] :
    /\ At(r, "ok") /\ req[r].op \in {"rotate", "delete"}
    /\ req[c].pair \in before[r] \cup {Seed}
    => auth[c] = None

\* An upload that was answered 200 stays on disk until somebody asks to delete
\* that key: no deletion or creation of its bucket, no cleanup of directories after
\* the deletion of another key, and no reindex takes the bytes away, though a
\* deletion of the bucket may take away every way to reach them (os.Remove, never
\* RemoveAll).  For keys none of which is a directory of another.
UploadsSurvive ==
  \A r \in Requests :
    /\ At(r, "ok") /\ req[r].op = "put"
    /\ \A q \in Requests : req[q] # None /\ req[q].op = "remove" => req[q].key # req[r].key
    => file[req[r].key] # None

-----------------------------------------------------------------------------
(* What holds when clients keep certain calls apart. *)

\* Index rows and files belong to the bucket that has the name now: a bucket is
\* only dropped when nothing in it is left, rows without a file included
\* (Store.DeleteBucket: "so a stale row can never outlive its bucket").
Belongs ==
  \A k \in Keys : \A made \in {file[k], row[k]} :
    made # None => bucket # None /\ made = bucket.born

\* A key pair that was answered is the bucket's until another rotation or deletion
\* arrives, also if creations of the same name race.
PairWorks ==
  \A r \in Requests :
    /\ At(r, "ok") /\ req[r].op \in {"create", "rotate"}
    /\ \A q \in Requests \ (before[r] \cup {r}) :
         req[q] # None /\ req[q].op \in AdminOps => req[q].op = "create" /\ req[r].op = "create"
    => bucket # None /\ bucket.pair = r

\* No bucket is left behind whose key pair nobody was given: a creation that
\* failed is undone (createBucket).
PairKnown ==
  (\A r \in Requests : Running(r) => req[r].op \notin AdminOps)
    => bucket = None \/ bucket.pair \in Issued

\* A deletion is refused only if there are objects, or a failure or crash has left
\* something behind: whatever uploads and deletions of objects overlapped, their
\* directories and temporary files are gone with the last of them
\* (removeEmptyParents: "so an empty docs/ doesn't keep the bucket looking non-empty
\* and block its deletion").
RefusedForCause ==
  [][\A r \in Requests : At(r, "isempty") /\ pc'[r] = "refused"
       => (\E k \in Keys : file[k] # None) \/ faults + crashes > 0]_vars

=============================================================================

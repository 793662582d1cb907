------------------------------ MODULE KeyTree ------------------------------
(***************************************************************************)
(* Object keys as paths (engine/internal/server/storage.go): a key may     *)
(* contain slashes, and its file and its sidecar lie in directories that   *)
(* PutObject and writeMeta make and DeleteObject clears away again.        *)
(*                                                                         *)
(* Handlers of different keys share these directories without a lock; they *)
(* interleave at every call of the file system.  Calls on one path do not  *)
(* overlap here (that is module Storage's subject), bytes are those of the *)
(* upload that brought them, and a sidecar is the bytes its ETag is of.    *)
(***************************************************************************)
EXTENDS Naturals, Sequences, FiniteSets

CONSTANTS
  Keys,      \* sequences of segments; a key that ends in a slash ends in Empty
  Empty,     \* the empty segment
  TempLike,  \* the segments that begin with .upload-
  Requests,  \* requests the server may be handling, each used once
  None,      \* no request, no bytes
  Calls,     \* what clients ask for: [op, key]
  InitKeys,  \* sets of keys, one of which is uploaded initially
  AtOnce     \* bound: requests in progress

\* filepath.Join drops empty segments: several keys may have one path.
Path(k) == SelectSeq(k, LAMBDA s : s # Empty)
Up(p, n) == SubSeq(p, 1, n)

\* How many directories lie above p.
Depth_Target(p) == Len(p)
Depth(p) == Len(p) - 1

Below(q, p) == Len(q) > Len(p) /\ Up(q, Len(p)) = p

Paths == {Path(k) : k \in Keys}
Dirs == UNION {{Up(p, n) : n \in 1..(Len(p) - 1)} : p \in Paths}
Trees == {"data", "meta"}   \* the bucket's directory, and its directory of sidecars
Bytes == Requests \cup Paths

ASSUME KeyTreeConstants ==
  /\ Calls \subseteq [op : {"put", "get", "remove"}, key : Keys]
  /\ \A k \in Keys : Path(k) # <<>>
  /\ \A p \in Paths : p \in Seq(STRING) /\ Path(p) = p
  /\ InitKeys \subseteq SUBSET Paths
  /\ \A S \in InitKeys : \A p, q \in S : ~Below(p, q)
  /\ None \notin Bytes /\ None \notin Calls
  /\ Requests \cap Paths = {}
  /\ AtOnce \in Nat

VARIABLES
  dirs,    \* dirs[t]: the directories that there are, besides the root of the tree
  file,    \* file[t][p]: the bytes at p, or whose ETag p's sidecar holds
  tmp,     \* the requests that have a temporary file, beside their object's place
  row,     \* row[k]: the bytes that the index row of k describes
  req, pc, \* each request: what it asks for, its handler's place
  tree, level,  \* the tree its handler is in, and how deep
  etag,    \* the bytes whose ETag its handler is about to write
  with,    \* history: the requests it overlapped
  due,     \* history: how it should end if it overlaps none, None if Departs
  last,    \* history: last[p] is the last request for p
  swept    \* history: the paths without a request since a reindex

disk  == <<dirs, file, tmp>>
local == <<tree, level, etag>>
env   == <<req, with, due, last, swept>>
vars  == <<disk, row, pc, local, env>>

-----------------------------------------------------------------------------
(* The file system *)

IsDir(t, p) == p = <<>> \/ p \in dirs[t]
IsFile(t, p) == p \in Paths /\ file[t][p] # None
At(r, label) == pc[r] = label
Goto(r, label) == pc' = [pc EXCEPT ![r] = label]

Here(r) == Path(req[r].key)
Parent(p) == Up(p, Len(p) - 1)

Occupied(t, p) ==
  \/ \E q \in dirs[t] : Parent(q) = p
  \/ \E q \in Paths : IsFile(t, q) /\ Parent(q) = p
  \/ t = "data" /\ \E r \in tmp : Parent(Here(r)) = p

\* A file where the path needs a directory: ENOTDIR.
Blocked(t, p) == \E n \in 1..(Len(p) - 1) : IsFile(t, Up(p, n))

\* os.Remove takes away a file or an empty directory, whichever it finds.
CanRemove(t, p) == IsFile(t, p) \/ (p \in dirs[t] /\ ~Occupied(t, p))
Remove(t, p) ==
  /\ file' = IF IsFile(t, p) THEN [file EXCEPT ![t][p] = None] ELSE file
  /\ dirs' = [dirs EXCEPT ![t] = @ \ {p}]

Ended == {"ok", "notfound", "error", "aborted"}
Running(r) == pc[r] \notin Ended \cup {"idle"}
Resting == \A r \in Requests : ~Running(r)

-----------------------------------------------------------------------------
(* Requests *)

Init ==
  /\ \E S \in InitKeys :
       /\ dirs = [t \in Trees |-> {d \in Dirs : \E p \in S : Below(p, d)}]
       /\ file = [t \in Trees |-> [p \in Paths |-> IF p \in S THEN p ELSE None]]
       /\ row = [k \in Keys |-> IF k \in S THEN k ELSE None]
  /\ tmp = {}
  /\ req = [r \in Requests |-> None]
  /\ pc = [r \in Requests |-> "idle"]
  /\ tree = [r \in Requests |-> "data"]
  /\ level = [r \in Requests |-> 0]
  /\ etag = [r \in Requests |-> None]
  /\ with = [r \in Requests |-> {}]
  /\ due = [r \in Requests |-> None]
  /\ last = [p \in Paths |-> None]
  /\ swept = {}

\* Another object lies where p needs a directory, or below p: there is no room for a file.
Crowded(p) == Blocked("data", p) \/ \E q \in Paths : IsFile("data", q) /\ Below(q, p)

\* Where the code departs from what is documented.  A DELETE of a key that is not there
\* "is not an error" (api-reference.md, and DeleteObject's own comment), and a GET of it
\* is answered 404; but below an object os.Remove and os.Open fail with ENOTDIR, and
\* os.Remove of a directory with objects fails: the answer is 500.
Departs(c) == LET p == Path(c.key) IN
  CASE c.op = "put" -> FALSE [] c.op = "get" -> Blocked("data", p) [] c.op = "remove" -> Crowded(p)

\* What a call that has the server for itself should come to, by the objects alone.
Due(c) == LET p == Path(c.key) IN
  IF Departs(c) THEN None
  ELSE CASE c.op = "put" -> IF Crowded(p) THEN "error" ELSE "ok"
         [] c.op = "get" -> IF IsFile("data", p) THEN "ok" ELSE "notfound"
         [] c.op = "remove" -> "ok"

Entry(op) == CASE op = "put" -> "stat" [] op = "get" -> "open" [] op = "remove" -> "unlink"

Arrive(r) ==
  /\ At(r, "idle")
  /\ Cardinality({q \in Requests : Running(q)}) < AtOnce
  /\ \E c \in Calls :
       /\ \A q \in Requests : Running(q) => Here(q) # Path(c.key)
       /\ req' = [req EXCEPT ![r] = c]
       /\ Goto(r, Entry(c.op))
       /\ due' = [due EXCEPT ![r] = Due(c)]
       /\ last' = [last EXCEPT ![Path(c.key)] = r]
       /\ swept' = swept \ {Path(c.key)}
  /\ with' = [q \in Requests |->
                IF q = r THEN {s \in Requests : Running(s)}
                ELSE IF Running(q) THEN with[q] \cup {r} ELSE with[q]]
  /\ UNCHANGED <<disk, row, local>>

-----------------------------------------------------------------------------
(* os.MkdirAll, in either tree *)

\* It looks for the deepest parent that is there ...
Stat(r) ==
  /\ At(r, "stat")
  /\ LET t == tree[r]  p == Here(r)
         there == {n \in 0..Depth(p) : IsDir(t, Up(p, n))}
     IN  IF Blocked(t, p) THEN Goto(r, "error") /\ UNCHANGED level
         ELSE /\ \E n \in there : (\A m \in there : m <= n) /\ level' = [level EXCEPT ![r] = n]
              /\ Goto(r, "mkdir")
  /\ UNCHANGED <<disk, row, tree, etag, env>>

\* ... and makes the missing ones from there down, each of which may be there by now,
\* or lack its parent by now, or be a file.
Mkdir(r) ==
  /\ At(r, "mkdir")
  /\ LET t == tree[r]  p == Here(r)  d == Up(p, level[r] + 1) IN
     IF level[r] = Depth(p)
       THEN /\ Goto(r, IF t = "data" THEN "temp" ELSE "write")
            /\ UNCHANGED <<dirs, level>>
     ELSE IF IsDir(t, Parent(d)) /\ ~IsFile(t, d)
       THEN /\ dirs' = [dirs EXCEPT ![t] = @ \cup {d}]
            /\ level' = [level EXCEPT ![r] = @ + 1]
            /\ UNCHANGED pc
     ELSE Goto(r, "error") /\ UNCHANGED <<dirs, level>>
  /\ UNCHANGED <<file, tmp, row, tree, etag, env>>

-----------------------------------------------------------------------------
(* PutObject *)

CreateTemp(r) ==
  /\ At(r, "temp")
  /\ IF IsDir("data", Parent(Here(r)))
       THEN tmp' = tmp \cup {r} /\ Goto(r, "rename")
       ELSE Goto(r, "error") /\ UNCHANGED tmp
  /\ UNCHANGED <<dirs, file, row, local, env>>

\* The client's upload breaks off: the temporary file goes, the directories stay.
Abort(r) ==
  /\ At(r, "rename")
  /\ tmp' = tmp \ {r}
  /\ Goto(r, "aborted")
  /\ UNCHANGED <<dirs, file, row, local, env>>

\* A file cannot be renamed over a directory.
Rename(r) ==
  /\ At(r, "rename")
  /\ tmp' = tmp \ {r}
  /\ IF IsDir("data", Here(r))
       THEN Goto(r, "error") /\ UNCHANGED <<file, tree, etag>>
       ELSE /\ file' = [file EXCEPT !["data"][Here(r)] = r]
            /\ tree' = [tree EXCEPT ![r] = "meta"]
            /\ etag' = [etag EXCEPT ![r] = r]
            /\ Goto(r, "stat")
  /\ UNCHANGED <<dirs, row, level, env>>

\* os.WriteFile of the sidecar.
WriteMeta(r) ==
  /\ At(r, "write")
  /\ IF IsDir("meta", Here(r)) \/ ~IsDir("meta", Parent(Here(r)))
       THEN Goto(r, "error") /\ UNCHANGED file
       ELSE /\ file' = [file EXCEPT !["meta"][Here(r)] = etag[r]]
            /\ Goto(r, "upsert")
  /\ UNCHANGED <<dirs, tmp, row, local, env>>

\* PutObject stats the file once more, a GET has done so; a directory is as good.
Upsert(r) ==
  /\ At(r, "upsert")
  /\ IF req[r].op = "put" /\ ~IsFile("data", Here(r)) /\ ~IsDir("data", Here(r))
       THEN Goto(r, "error") /\ UNCHANGED row
       ELSE row' = [row EXCEPT ![req[r].key] = etag[r]] /\ Goto(r, "ok")
  /\ UNCHANGED <<disk, local, env>>

-----------------------------------------------------------------------------
(* OpenObject *)

Open(r) ==
  /\ At(r, "open")
  /\ Goto(r, IF IsFile("data", Here(r)) THEN "getrow"
             ELSE IF Blocked("data", Here(r)) THEN "error" ELSE "notfound")
  /\ UNCHANGED <<disk, row, local, env>>

\* statIndexed and indexFromDisk: without a row, the sidecar's ETag or a new hash.  By
\* now there may be a directory, which os.Stat takes but computeETag cannot read.
GetRow(r) ==
  /\ At(r, "getrow")
  /\ LET p == Here(r) IN
     IF row[req[r].key] # None THEN Goto(r, "ok") /\ UNCHANGED <<tree, etag>>
     ELSE IF IsFile("meta", p) /\ (IsFile("data", p) \/ IsDir("data", p))
       THEN /\ etag' = [etag EXCEPT ![r] = file["meta"][p]]
            /\ Goto(r, "upsert") /\ UNCHANGED tree
     ELSE IF IsFile("data", p)
       THEN /\ etag' = [etag EXCEPT ![r] = file["data"][p]]
            /\ tree' = [tree EXCEPT ![r] = "meta"]
            /\ Goto(r, "stat")
     ELSE Goto(r, "error") /\ UNCHANGED <<tree, etag>>
  /\ UNCHANGED <<disk, row, level, env>>

-----------------------------------------------------------------------------
(* DeleteObject, in one tree after the other *)

\* removeIfExists.
Unlink_KeepsSidecar(r) ==
  /\ At(r, "unlink")
  /\ LET t == tree[r]  p == Here(r) IN
     IF CanRemove(t, p) \/ ~(Blocked(t, p) \/ IsDir(t, p))
       THEN /\ IF t = "data" THEN Remove(t, p) ELSE UNCHANGED <<file, dirs>>
            /\ level' = [level EXCEPT ![r] = Depth(p)]
            /\ Goto(r, "prune")
       ELSE Goto(r, "error") /\ UNCHANGED <<file, dirs, level>>
  /\ UNCHANGED <<tmp, row, tree, etag, env>>
Unlink(r) ==
  /\ At(r, "unlink")
  /\ LET t == tree[r]  p == Here(r) IN
     IF CanRemove(t, p) \/ ~(Blocked(t, p) \/ IsDir(t, p))
       THEN /\ Remove(t, p)
            /\ level' = [level EXCEPT ![r] = Depth(p)]
            /\ Goto(r, "prune")
       ELSE Goto(r, "error") /\ UNCHANGED <<file, dirs, level>>
  /\ UNCHANGED <<tmp, row, tree, etag, env>>

\* removeEmptyParents: upwards, until os.Remove fails.
Prune_All(r) ==
  /\ At(r, "prune")
  /\ LET t == tree[r]  d == Up(Here(r), level[r]) IN
     IF level[r] > 0 /\ IsDir(t, d)
       THEN /\ file' = [file EXCEPT ![t] = [q \in Paths |-> IF Below(q, d) THEN None ELSE @[q]]]
            /\ dirs' = [dirs EXCEPT ![t] = {q \in @ : q # d /\ ~Below(q, d)}]
            /\ level' = [level EXCEPT ![r] = @ - 1]
            /\ UNCHANGED <<pc, tree>>
       ELSE /\ Goto(r, IF t = "data" THEN "unlink" ELSE "rmrow")
            /\ tree' = [tree EXCEPT ![r] = "meta"]
            /\ UNCHANGED <<file, dirs, level>>
  /\ UNCHANGED <<tmp, row, etag, env>>
Prune_Nearest(r) ==
  /\ At(r, "prune")
  /\ LET t == tree[r]  d == Up(Here(r), level[r]) IN
     IF level[r] = Depth(Here(r)) /\ level[r] > 0 /\ CanRemove(t, d)
       THEN /\ Remove(t, d)
            /\ level' = [level EXCEPT ![r] = @ - 1]
            /\ UNCHANGED <<pc, tree>>
       ELSE /\ Goto(r, IF t = "data" THEN "unlink" ELSE "rmrow")
            /\ tree' = [tree EXCEPT ![r] = "meta"]
            /\ UNCHANGED <<file, dirs, level>>
  /\ UNCHANGED <<tmp, row, etag, env>>
Prune_DataOnly(r) ==
  /\ At(r, "prune")
  /\ LET t == tree[r]  d == Up(Here(r), level[r]) IN
     IF t = "data" /\ level[r] > 0 /\ CanRemove(t, d)
       THEN /\ Remove(t, d)
            /\ level' = [level EXCEPT ![r] = @ - 1]
            /\ UNCHANGED <<pc, tree>>
       ELSE /\ Goto(r, IF t = "data" THEN "unlink" ELSE "rmrow")
            /\ tree' = [tree EXCEPT ![r] = "meta"]
            /\ UNCHANGED <<file, dirs, level>>
  /\ UNCHANGED <<tmp, row, etag, env>>
Prune(r) ==
  /\ At(r, "prune")
  /\ LET t == tree[r]  d == Up(Here(r), level[r]) IN
     IF level[r] > 0 /\ CanRemove(t, d)
       THEN /\ Remove(t, d)
            /\ level' = [level EXCEPT ![r] = @ - 1]
            /\ UNCHANGED <<pc, tree>>
       ELSE /\ Goto(r, IF t = "data" THEN "unlink" ELSE "rmrow")
            /\ tree' = [tree EXCEPT ![r] = "meta"]
            /\ UNCHANGED <<file, dirs, level>>
  /\ UNCHANGED <<tmp, row, etag, env>>

RemoveRow(r) ==
  /\ At(r, "rmrow")
  /\ row' = [row EXCEPT ![req[r].key] = None]
  /\ Goto(r, "ok")
  /\ UNCHANGED <<disk, local, env>>

-----------------------------------------------------------------------------
(* ReindexBucket, forced, with the server for itself *)

\* The walk skips files whose name begins with .upload-.
Walked == {p \in Paths : IsFile("data", p) /\ p[Len(p)] \notin TempLike}

\* A file without a sidecar is hashed and given one.  A walk that cannot write one fails,
\* and no row changes; nothing is modelled of it.
Reindex_KeepsRows ==
  /\ Resting
  /\ LET bare == {p \in Walked : ~IsFile("meta", p)}
         sidecar == [p \in Paths |-> IF p \in bare THEN file["data"][p] ELSE file["meta"][p]]
     IN  /\ \A p \in bare : ~Blocked("meta", p) /\ ~IsDir("meta", p)
         /\ file' = [file EXCEPT !["meta"] = sidecar]
         /\ dirs' = [dirs EXCEPT !["meta"] = @ \cup {d \in Dirs : \E p \in bare : Below(p, d)}]
         /\ row' = [k \in Keys |-> IF k \in Walked THEN sidecar[k] ELSE row[k]]
  /\ swept' = Paths
  /\ UNCHANGED <<tmp, pc, local, req, with, due, last>>
Reindex ==
  /\ Resting
  /\ LET bare == {p \in Walked : ~IsFile("meta", p)}
         sidecar == [p \in Paths |-> IF p \in bare THEN file["data"][p] ELSE file["meta"][p]]
     IN  /\ \A p \in bare : ~Blocked("meta", p) /\ ~IsDir("meta", p)
         /\ file' = [file EXCEPT !["meta"] = sidecar]
         /\ dirs' = [dirs EXCEPT !["meta"] = @ \cup {d \in Dirs : \E p \in bare : Below(p, d)}]
         /\ row' = [k \in Keys |-> IF k \in Walked THEN sidecar[k] ELSE None]
  /\ swept' = Paths
  /\ UNCHANGED <<tmp, pc, local, req, with, due, last>>

Rest == Resting /\ UNCHANGED vars

Step(r) ==
  \/ Stat(r) \/ Mkdir(r) \/ CreateTemp(r) \/ Abort(r) \/ Rename(r) \/ WriteMeta(r)
  \/ Upsert(r) \/ Open(r) \/ GetRow(r) \/ Unlink(r) \/ Prune(r) \/ RemoveRow(r)

Next == (\E r \in Requests : Arrive(r) \/ Step(r)) \/ Reindex \/ Rest

Spec == Init /\ [][Next]_vars

-----------------------------------------------------------------------------
(* Properties *)

KeyTreeTypeOK ==
  /\ dirs \in [Trees -> SUBSET Dirs]
  /\ file \in [Trees -> [Paths -> Bytes \cup {None}]]
  /\ tmp \in SUBSET Requests
  /\ row \in [Keys -> Bytes \cup {None}]
  /\ req \in [Requests -> Calls \cup {None}]
  /\ pc \in [Requests -> Ended \cup {"idle", "stat", "mkdir", "temp", "rename", "write",
                       "upsert", "open", "getrow", "unlink", "prune", "rmrow"}]
  /\ tree \in [Requests -> Trees] /\ level \in [Requests -> Nat]
  /\ etag \in [Requests -> Bytes \cup {None}]
  /\ with \in [Requests -> SUBSET Requests]
  /\ due \in [Requests -> {"ok", "notfound", "error", None}]
  /\ last \in [Paths -> Requests \cup {None}]
  /\ swept \in SUBSET Paths

\* A DELETE of a key below p overlapped the upload to p: its removeEmptyParents may
\* take p's new file, or its sidecar, for an empty directory.
Pruned(p) ==
  \E d, q \in Requests : d \in with[q] /\ req[d].op = "remove" /\ Below(Here(d), p)
                                    /\ req[q].op = "put" /\ Here(q) = p

\* ... and leave a sidecar there, in the way of every path above and below.
PrunedNear(p) ==
  \E q \in Paths : Pruned(q) /\ (q = p \/ Below(q, p) \/ Below(p, q))

\* An upload of a key below p was broken off: it leaves directories, perhaps p itself.
AbortedBelow(p) == \E r \in Requests : At(r, "aborted") /\ Below(Here(r), p)

\* At rest bytes, sidecar and row of the key that was last put or removed agree,
\* whatever other handlers did at the same time to the directories around it: no
\* answered upload is lost with a directory that looked empty, and none is half done.
\* The exception is an upload to a place where a DELETE expects a directory (Pruned).
NeighboursSpared ==
  Resting => \A r \in Requests :
    LET k == req[r].key  p == Path(k)
        there(v) == <<file["data"][p], file["meta"][p], row[k]>> = <<v, v, v>>
    IN  At(r, "ok") /\ last[p] = r /\ ~Pruned(p) /\ p \notin swept
          => /\ req[r].op = "put" => there(r)
             /\ req[r].op = "remove" => there(None)
             /\ req[r].op = "get" => file["data"][p] # None /\ row[k] # None

\* At rest there is a file below every directory of the bucket, so that a bucket without
\* files can be deleted (removeEmptyParents: "so an empty "docs/" doesn't keep the
\* bucket looking non-empty"); unless an upload into the directory was broken off,
\* whose MkdirAll nobody undoes.
NoEmptyDirs ==
  Resting => \A d \in dirs["data"] :
    AbortedBelow(d) \/ \E p \in Paths : IsFile("data", p) /\ Below(p, d)

\* A call that overlaps no other is answered by the objects that are there alone: nothing
\* that earlier calls left in either tree, however they overlapped, makes it fail or
\* find what is not there.  It is not claimed where the code departs from the documents
\* (Departs), and neither of directories of a broken-off upload nor of a sidecar that
\* was left behind where Prune took a file for a directory.
AnsweredByTheFiles ==
  \A r \in Requests :
    /\ pc[r] \in Ended /\ with[r] = {} /\ due[r] # None
    /\ ~AbortedBelow(Here(r)) /\ ~PrunedNear(Here(r))
    => pc[r] \in {due[r], "aborted"}

\* After a reindex the rows are those of the files, one for each, except that no row is
\* left of names that begin with .upload- and of other spellings of a path.
SweptClean ==
  \A k \in Keys : Path(k) \in swept =>
    (row[k] # None <=> /\ IsFile("data", Path(k))
                       /\ k = Path(k) /\ k[Len(k)] \notin TempLike)

\* At rest every file that the walk meets has a sidecar, or room for one: no directory
\* and no sidecar of a deleted key stands in its way, so that a reindex of the bucket
\* does not fail; with the same exception.
RoomForSidecars ==
  Resting => \A p \in Walked : ~PrunedNear(p) =>
    IsFile("meta", p) \/ ~(Blocked("meta", p) \/ IsDir("meta", p))
=============================================================================

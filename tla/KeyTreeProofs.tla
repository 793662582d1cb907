--------------------------- MODULE KeyTreeProofs ---------------------------
(***************************************************************************)
(* Proofs about KeyTree, for every set of keys, requests and calls: type   *)
(* correctness, that the objects' directories are a tree, what the index   *)
(* holds after a reindex, that no directory stays empty and no sidecar is  *)
(* in the way, how a call is answered that meets no other, and that the    *)
(* handlers of other keys spare what the last call for a path has left.    *)
(***************************************************************************)
EXTENDS KeyTree, SequenceTheorems, TLAPS

-----------------------------------------------------------------------------
(* Paths and their prefixes. *)

LEMMA Prefix ==
  ASSUME NEW p \in Seq(STRING), NEW m \in 0..Len(p)
  PROVE  Up(p, m) \in Seq(STRING) /\ Len(Up(p, m)) = m
  BY SubSeqProperties DEF Up

LEMMA PrefixOfPrefix ==
  ASSUME NEW p \in Seq(STRING), NEW m \in 0..Len(p), NEW n \in 0..m
  PROVE  Up(Up(p, m), n) = Up(p, n)
  <1>1. \A i \in 1..n : Up(Up(p, m), n)[i] = p[i] /\ Up(p, n)[i] = p[i]
    BY SubSeqProperties DEF Up
  <1>2. Up(p, m) \in Seq(STRING) /\ Len(Up(p, m)) = m
    BY Prefix
  <1>3. /\ Up(Up(p, m), n) \in Seq(STRING) /\ Len(Up(Up(p, m), n)) = n
        /\ Up(p, n) \in Seq(STRING) /\ Len(Up(p, n)) = n
    BY <1>2, Prefix
  <1> QED
    BY <1>1, <1>3, SeqEqual

LEMMA Whole ==
  ASSUME NEW p \in Seq(STRING)
  PROVE  Up(p, Len(p)) = p
  BY Prefix, SubSeqProperties, SeqEqual DEF Up

LEMMA PathFacts ==
  ASSUME NEW p \in Paths
  PROVE  /\ p \in Seq(STRING) /\ Len(p) \in Nat \ {0} /\ Depth(p) \in Nat
         /\ Path(p) = p /\ p # None
  <1>1. p \in Seq(STRING) /\ p # <<>> /\ Path(p) = p /\ p # None
    BY KeyTreeConstants DEF Paths, Bytes
  <1> QED
    BY <1>1, EmptySeq DEF Depth

LEMMA DirFacts ==
  ASSUME NEW p \in Paths, NEW n \in 1..Depth(p)
  PROVE  Up(p, n) \in Dirs
  BY DEF Dirs, Depth

\* What lies in directories that a path needs.
LEMMA DirsArePrefixes ==
  ASSUME NEW d \in Dirs
  PROVE  d \in Seq(STRING) /\ Len(d) \in Nat \ {0}
  <1>1. PICK p \in Paths : \E n \in 1..(Len(p) - 1) : d = Up(p, n)
    BY DEF Dirs
  <1>2. PICK n \in 1..(Len(p) - 1) : d = Up(p, n)
    BY <1>1
  <1> QED
    BY <1>2, PathFacts, Prefix

LEMMA OneDeeper ==
  ASSUME NEW l \in Nat, NEW d \in Nat, l <= d, l # d
  PROVE  l + 1 \in 1..d /\ l + 1 <= d /\ l + 1 \in Nat
  OBVIOUS

\* Changing one path's bytes in one tree.
LEMMA OneFile ==
  ASSUME NEW f \in [Trees -> [Paths -> Bytes \cup {None}]], NEW t \in Trees, NEW p \in Paths,
         NEW b \in Bytes \cup {None}, NEW g, g = [f EXCEPT ![t][p] = b]
  PROVE  /\ g \in [Trees -> [Paths -> Bytes \cup {None}]]
         /\ \A u \in Trees \ {t} : g[u] = f[u]
         /\ \A q \in Paths : g[t][q] = IF q = p THEN b ELSE f[t][q]
  <1>1. g = [f EXCEPT ![t] = [f[t] EXCEPT ![p] = b]]
    OBVIOUS
  <1> QED
    BY <1>1

LEMMA CallFacts ==
  ASSUME NEW c \in Calls
  PROVE  /\ c.op \in {"put", "get", "remove"} /\ c.key \in Keys /\ Path(c.key) \in Paths
         /\ c # None
  BY KeyTreeConstants DEF Paths

-----------------------------------------------------------------------------
(* Type correctness: with what a handler has at its label.                  *)

Placed ==
  \A r \in Requests :
    /\ pc[r] = "idle" <=> req[r] = None
    /\ At(r, "mkdir") => level[r] <= Depth(Here(r))
    /\ r \in tmp <=> At(r, "rename")
TypeInv == KeyTreeTypeOK /\ Placed

LEMMA TypeInit == Init => TypeInv
  <1> SUFFICES ASSUME Init PROVE TypeInv
    OBVIOUS
  <1>1. PICK S \in InitKeys :
          /\ dirs = [t \in Trees |-> {d \in Dirs : \E p \in S : Below(p, d)}]
          /\ file = [t \in Trees |-> [p \in Paths |-> IF p \in S THEN p ELSE None]]
          /\ row = [k \in Keys |-> IF k \in S THEN k ELSE None]
    BY DEF Init
  <1>2. S \subseteq Paths
    BY KeyTreeConstants
  <1>3. KeyTreeTypeOK
    <2>1. dirs \in [Trees -> SUBSET Dirs] /\ file \in [Trees -> [Paths -> Bytes \cup {None}]]
      BY <1>1 DEF Bytes
    <2>2. row \in [Keys -> Bytes \cup {None}]
      BY <1>1, <1>2 DEF Bytes
    <2> QED
      BY <2>1, <2>2 DEF Init, KeyTreeTypeOK, Trees, Ended
  <1>4. Placed
    BY DEF Init, Placed, At
  <1> QED
    BY <1>3, <1>4 DEF TypeInv

LEMMA Working ==
  ASSUME TypeInv, NEW r \in Requests, pc[r] # "idle"
  PROVE  /\ req[r] \in Calls /\ req[r].op \in {"put", "get", "remove"} /\ req[r].key \in Keys
         /\ Here(r) \in Paths /\ Depth(Here(r)) \in Nat /\ Len(Here(r)) = Depth(Here(r)) + 1
  <1>1. req[r] \in Calls
    BY DEF TypeInv, KeyTreeTypeOK, Placed
  <1>2. req[r].op \in {"put", "get", "remove"} /\ req[r].key \in Keys /\ Here(r) \in Paths
    BY <1>1, CallFacts DEF Here
  <1> QED
    BY <1>1, <1>2, PathFacts DEF Depth

\* What no step of a handler changes.
LEMMA StepFrame ==
  ASSUME TypeInv, NEW r \in Requests, Step(r)
  PROVE  /\ pc[r] \notin Ended /\ pc[r] # "idle" /\ UNCHANGED env
         /\ \A q \in Requests \ {r} : /\ pc'[q] = pc[q] /\ level'[q] = level[q]
                                      /\ tree'[q] = tree[q] /\ (q \in tmp' <=> q \in tmp)
  <1> USE DEF Goto, At, TypeInv, KeyTreeTypeOK, local, disk, Ended
  <1>1. CASE Stat(r)
    BY <1>1 DEF Stat
  <1>2. CASE Mkdir(r)
    BY <1>2 DEF Mkdir
  <1>3. CASE CreateTemp(r) \/ Abort(r) \/ Rename(r)
    BY <1>3 DEF CreateTemp, Abort, Rename
  <1>4. CASE WriteMeta(r) \/ Upsert(r) \/ Open(r) \/ GetRow(r)
    BY <1>4 DEF WriteMeta, Upsert, Open, GetRow
  <1>5. CASE Unlink(r) \/ Prune(r) \/ RemoveRow(r)
    BY <1>5 DEF Unlink, Prune, RemoveRow
  <1> QED
    BY <1>1, <1>2, <1>3, <1>4, <1>5 DEF Step

LEMMA RemoveType ==
  ASSUME TypeInv, NEW t \in Trees, NEW p, Remove(t, p)
  PROVE  /\ dirs' \in [Trees -> SUBSET Dirs] /\ file' \in [Trees -> [Paths -> Bytes \cup {None}]]
         /\ dirs'[t] = dirs[t] \ {p}
         /\ \A u \in Trees \ {t} : dirs'[u] = dirs[u] /\ file'[u] = file[u]
         /\ \A q \in Paths : file'[t][q] = IF q = p THEN None ELSE file[t][q]
  <1> USE DEF TypeInv, KeyTreeTypeOK
  <1>1. dirs' = [dirs EXCEPT ![t] = dirs[t] \ {p}]
    BY DEF Remove
  <1>2. CASE IsFile(t, p)
    <2>1. p \in Paths /\ file' = [file EXCEPT ![t] = [file[t] EXCEPT ![p] = None]]
      BY <1>2 DEF Remove, IsFile
    <2> QED
      BY <1>1, <2>1
  <1>3. CASE ~IsFile(t, p)
    <2>1. file' = file /\ (p \in Paths => file[t][p] = None)
      BY <1>3 DEF Remove, IsFile
    <2> QED
      BY <1>1, <2>1
  <1> QED
    BY <1>2, <1>3

\* Where a handler's place goes, when no other handler's does.
LEMMA PlaceType ==
  ASSUME KeyTreeTypeOK, NEW r \in Requests,
         NEW label \in Ended \cup {"stat", "mkdir", "temp", "rename", "write", "upsert",
                                   "getrow", "unlink", "prune", "rmrow"},
         pc' = [pc EXCEPT ![r] = label]
  PROVE  /\ pc' \in [Requests -> Ended \cup {"idle", "stat", "mkdir", "temp", "rename", "write",
                               "upsert", "open", "getrow", "unlink", "prune", "rmrow"}]
         /\ pc'[r] = label
  BY DEF KeyTreeTypeOK

\* A step that keeps the directories, the files and what its handler has at hand.
LEMMA StillType ==
  ASSUME KeyTreeTypeOK, UNCHANGED <<dirs, file, env>>, tmp' \in SUBSET Requests,
         row' \in [Keys -> Bytes \cup {None}], tree' \in [Requests -> Trees],
         level' \in [Requests -> Nat], etag' \in [Requests -> Bytes \cup {None}],
         pc' \in [Requests -> Ended \cup {"idle", "stat", "mkdir", "temp", "rename", "write",
                               "upsert", "open", "getrow", "unlink", "prune", "rmrow"}]
  PROVE  KeyTreeTypeOK'
  BY DEF KeyTreeTypeOK, env

LEMMA StepType ==
  ASSUME TypeInv, NEW r \in Requests, Step(r)
  PROVE  TypeInv'
  <1> USE DEF Goto, At, TypeInv, KeyTreeTypeOK
  <1>1. /\ req' = req /\ UNCHANGED env /\ pc[r] \notin Ended
        /\ req[r].op \in {"put", "get", "remove"} /\ req[r].key \in Keys
        /\ Here(r) \in Paths /\ Depth(Here(r)) \in Nat /\ Here(r)' = Here(r)
        /\ tree[r] \in Trees /\ level[r] \in Nat
    BY StepFrame, Working DEF env, Here
  <1>2. ASSUME \/ pc'[r] \notin {"idle", "mkdir", "rename"} /\ r \notin tmp'
               \/ pc'[r] = "mkdir" /\ level'[r] <= Depth(Here(r)) /\ r \notin tmp'
               \/ pc'[r] = "rename" /\ r \in tmp'
        PROVE  Placed'
    <2>1. \A q \in Requests : Here(q)' = Here(q)
      BY <1>1 DEF env, Here
    <2> QED
      BY <1>1, <1>2, <2>1, StepFrame, Working DEF Placed
  <1>3. "data" \in Trees /\ "meta" \in Trees
    BY DEF Trees
  <1>4. CASE Stat(r)
    <2>1. \/ pc' = [pc EXCEPT ![r] = "error"] /\ UNCHANGED level
          \/ /\ pc' = [pc EXCEPT ![r] = "mkdir"]
             /\ \E n \in 0..Depth(Here(r)) : level' = [level EXCEPT ![r] = n]
      BY <1>4 DEF Stat
    <2>2. /\ \/ pc'[r] = "error"
             \/ pc'[r] = "mkdir" /\ level'[r] <= Depth(Here(r))
          /\ level' \in [Requests -> Nat]
      <3>1. \A n \in 0..Depth(Here(r)) : n \in Nat /\ n <= Depth(Here(r))
        BY <1>1
      <3> QED
        BY <2>1, <3>1
    <2>3. tmp' = tmp /\ r \notin tmp
      BY <1>4 DEF Stat, disk, Placed
    <2>4. KeyTreeTypeOK'
      <3>1. UNCHANGED <<dirs, file, row, tree, etag>>
        BY <1>4 DEF Stat, disk
      <3>2. pc' \in [Requests -> Ended \cup {"idle", "stat", "mkdir", "temp", "rename", "write",
                               "upsert", "open", "getrow", "unlink", "prune", "rmrow"}]
        BY <2>1, PlaceType DEF Ended
      <3> QED
        BY <1>1, <2>2, <2>3, <3>1, <3>2, StillType
    <2> QED
      BY <1>2, <2>2, <2>3, <2>4
  <1>5. CASE Mkdir(r)
    <2>1. level[r] <= Depth(Here(r)) /\ r \notin tmp /\ tmp' = tmp
      BY <1>5 DEF Mkdir, Placed
    <2>2. CASE level[r] = Depth(Here(r))
      BY <1>1, <1>2, <1>5, <2>1, <2>2 DEF Mkdir, env, Ended
    <2>3. CASE level[r] # Depth(Here(r)) /\ pc' = [pc EXCEPT ![r] = "error"] /\ UNCHANGED <<dirs, level>>
      BY <1>1, <1>2, <1>5, <2>1, <2>3 DEF Mkdir, env, Ended
    <2>4. CASE /\ level[r] # Depth(Here(r)) /\ pc' = pc
               /\ dirs' = [dirs EXCEPT ![tree[r]] = @ \cup {Up(Here(r), level[r] + 1)}]
               /\ level' = [level EXCEPT ![r] = @ + 1]
      <3>1. Up(Here(r), level[r] + 1) \in Dirs
        <4>1. level[r] + 1 \in 1..Depth(Here(r))
          BY <1>1, <2>1, <2>4, OneDeeper
        <4> QED
          BY <1>1, <4>1, DirFacts
      <3>2. dirs' \in [Trees -> SUBSET Dirs]
        BY <1>1, <2>4, <3>1
      <3>3. pc'[r] = "mkdir" /\ level'[r] <= Depth(Here(r)) /\ level' \in [Requests -> Nat]
        <4>1. level'[r] = level[r] + 1 /\ level[r] + 1 \in Nat /\ pc[r] = "mkdir"
          BY <1>1, <1>5, <2>4 DEF Mkdir
        <4>2. level[r] + 1 <= Depth(Here(r))
          BY <1>1, <2>1, <2>4, OneDeeper
        <4> QED
          BY <2>4, <4>1, <4>2
      <3> QED
        BY <1>1, <1>2, <1>5, <2>1, <2>4, <3>2, <3>3 DEF Mkdir, env
    <2> QED
      BY <1>5, <2>2, <2>3, <2>4 DEF Mkdir
  <1>6. CASE CreateTemp(r) \/ Abort(r)
    <2>1. /\ UNCHANGED <<dirs, file, row, tree, level, etag>>
          /\ \/ pc' = [pc EXCEPT ![r] = "rename"] /\ tmp' = tmp \cup {r}
             \/ pc' = [pc EXCEPT ![r] = "error"] /\ tmp' = tmp /\ r \notin tmp
             \/ pc' = [pc EXCEPT ![r] = "aborted"] /\ tmp' = tmp \ {r}
      BY <1>6 DEF CreateTemp, Abort, local, Placed
    <2>2. KeyTreeTypeOK'
      BY <1>1, <2>1 DEF env, Ended
    <2> QED
      BY <1>2, <2>1, <2>2
  <1>7. CASE Rename(r)
    <2>1. file' \in [Trees -> [Paths -> Bytes \cup {None}]] /\ r \in Bytes
      <3>1. file' = file \/ file' = [file EXCEPT !["data"][Here(r)] = r]
        BY <1>7 DEF Rename
      <3>2. r \in Bytes
        BY DEF Bytes
      <3>3. CASE file' = [file EXCEPT !["data"][Here(r)] = r]
        BY <1>1, <1>3, <3>2, <3>3, OneFile
      <3> QED
        BY <3>1, <3>2, <3>3
    <2>2. /\ tmp' = tmp \ {r} /\ UNCHANGED <<dirs, row, level>>
          /\ tree' = tree \/ tree' = [tree EXCEPT ![r] = "meta"]
          /\ etag' = etag \/ etag' = [etag EXCEPT ![r] = r]
      BY <1>7 DEF Rename
    <2>3. pc' = [pc EXCEPT ![r] = "stat"] \/ pc' = [pc EXCEPT ![r] = "error"]
      BY <1>7 DEF Rename
    <2>4. KeyTreeTypeOK'
      <3>1. etag' \in [Requests -> Bytes \cup {None}] /\ tree' \in [Requests -> Trees]
        <4>1. [etag EXCEPT ![r] = r] \in [Requests -> Bytes \cup {None}]
          BY <2>1
        <4>2. [tree EXCEPT ![r] = "meta"] \in [Requests -> Trees]
          BY <1>3
        <4>3. etag \in [Requests -> Bytes \cup {None}] /\ tree \in [Requests -> Trees]
          OBVIOUS
        <4> QED
          BY <2>2, <4>1, <4>2, <4>3
      <3>2. tmp' \in SUBSET Requests /\ UNCHANGED <<dirs, row, level, req, with, due, last, swept>>
        BY <1>1, <2>2 DEF env
      <3>3. pc' \in [Requests -> Ended \cup {"idle", "stat", "mkdir", "temp", "rename", "write",
                               "upsert", "open", "getrow", "unlink", "prune", "rmrow"}]
        BY <2>3 DEF Ended
      <3> QED
        BY <2>1, <3>1, <3>2, <3>3
    <2> QED
      BY <1>2, <2>2, <2>3, <2>4
  <1>8. CASE WriteMeta(r)
    <2>1. file' \in [Trees -> [Paths -> Bytes \cup {None}]]
      <3>1. file' = file \/ file' = [file EXCEPT !["meta"][Here(r)] = etag[r]]
        BY <1>8 DEF WriteMeta
      <3>2. CASE file' = [file EXCEPT !["meta"][Here(r)] = etag[r]]
        BY <1>1, <1>3, <3>2, OneFile
      <3> QED
        BY <3>1, <3>2
    <2>2. /\ pc[r] = "write" /\ r \notin tmp /\ UNCHANGED <<dirs, tmp, row, tree, level, etag>>
          /\ pc' = [pc EXCEPT ![r] = "error"] \/ pc' = [pc EXCEPT ![r] = "upsert"]
      BY <1>8 DEF WriteMeta, Placed, local
    <2>3. KeyTreeTypeOK'
      BY <1>1, <2>1, <2>2 DEF env, Ended
    <2> QED
      BY <1>2, <2>2, <2>3
  <1>9. CASE Upsert(r) \/ Open(r) \/ RemoveRow(r)
    <2>1. /\ pc[r] \in {"upsert", "open", "rmrow"} /\ UNCHANGED <<disk, local>>
          /\ \E label \in {"ok", "error", "getrow", "notfound"} : pc' = [pc EXCEPT ![r] = label]
      BY <1>9 DEF Upsert, Open, RemoveRow
    <2>2. row' \in [Keys -> Bytes \cup {None}]
      BY <1>1, <1>9 DEF Upsert, Open, RemoveRow
    <2>3. /\ pc' \in [Requests -> Ended \cup {"idle", "stat", "mkdir", "temp", "rename", "write",
                               "upsert", "open", "getrow", "unlink", "prune", "rmrow"}]
          /\ pc'[r] \in {"ok", "error", "getrow", "notfound"}
      BY <2>1, PlaceType DEF Ended
    <2>4. KeyTreeTypeOK'
      BY <1>1, <2>1, <2>2, <2>3, StillType DEF disk, local
    <2>5. r \notin tmp'
      BY <2>1 DEF Placed, disk
    <2> QED
      BY <1>2, <2>3, <2>4, <2>5
  <1>10. CASE GetRow(r)
    <2>1. file["meta"][Here(r)] \in Bytes \cup {None} /\ file["data"][Here(r)] \in Bytes \cup {None}
      BY <1>1, <1>3
    <2>2. /\ \/ etag' = etag
             \/ etag' = [etag EXCEPT ![r] = file["meta"][Here(r)]]
             \/ etag' = [etag EXCEPT ![r] = file["data"][Here(r)]]
          /\ tree' = tree \/ tree' = [tree EXCEPT ![r] = "meta"]
      BY <1>10 DEF GetRow
    <2>3. etag' \in [Requests -> Bytes \cup {None}] /\ tree' \in [Requests -> Trees]
      BY <1>3, <2>1, <2>2
    <2> QED
      <3>1. /\ pc[r] = "getrow" /\ UNCHANGED <<disk, row, level>>
            /\ \E label \in {"ok", "error", "upsert", "stat"} : pc' = [pc EXCEPT ![r] = label]
        BY <1>10 DEF GetRow
      <3>2. /\ pc' \in [Requests -> Ended \cup {"idle", "stat", "mkdir", "temp", "rename", "write",
                               "upsert", "open", "getrow", "unlink", "prune", "rmrow"}]
            /\ pc'[r] \in {"ok", "error", "upsert", "stat"}
        BY <3>1, PlaceType DEF Ended
      <3>3. KeyTreeTypeOK'
        BY <1>1, <2>3, <3>1, <3>2, StillType DEF disk
      <3>4. r \notin tmp'
        BY <3>1 DEF Placed, disk
      <3> QED
        BY <1>2, <3>2, <3>3, <3>4
  <1>11. CASE Unlink(r)
    <2>1. \/ Remove(tree[r], Here(r))
          \/ UNCHANGED <<file, dirs>>
      BY <1>11 DEF Unlink
    <2>2. dirs' \in [Trees -> SUBSET Dirs] /\ file' \in [Trees -> [Paths -> Bytes \cup {None}]]
      BY <1>1, <2>1, RemoveType
    <2>3. level' \in [Requests -> Nat]
      BY <1>1, <1>11 DEF Unlink
    <2> QED
      <3>1. /\ pc[r] = "unlink" /\ UNCHANGED <<tmp, row, tree, etag>>
            /\ \E label \in {"prune", "error"} : pc' = [pc EXCEPT ![r] = label]
        BY <1>11 DEF Unlink
      <3>2. /\ pc' \in [Requests -> Ended \cup {"idle", "stat", "mkdir", "temp", "rename", "write",
                               "upsert", "open", "getrow", "unlink", "prune", "rmrow"}]
            /\ pc'[r] \in {"prune", "error"}
        BY <3>1, PlaceType DEF Ended
      <3>3. KeyTreeTypeOK'
        BY <1>1, <2>2, <2>3, <3>1, <3>2 DEF env
      <3>4. r \notin tmp'
        BY <3>1 DEF Placed
      <3> QED
        BY <1>2, <3>2, <3>3, <3>4
  <1>12. CASE Prune(r)
    <2>1. \/ Remove(tree[r], Up(Here(r), level[r]))
          \/ UNCHANGED <<file, dirs>>
      BY <1>12 DEF Prune
    <2>2. dirs' \in [Trees -> SUBSET Dirs] /\ file' \in [Trees -> [Paths -> Bytes \cup {None}]]
      BY <1>1, <2>1, RemoveType
    <2>3. level' \in [Requests -> Nat] /\ tree' \in [Requests -> Trees]
      <3>1. \/ level[r] > 0 /\ level' = [level EXCEPT ![r] = level[r] - 1] /\ tree' = tree
            \/ level' = level /\ tree' = [tree EXCEPT ![r] = "meta"]
        BY <1>12 DEF Prune
      <3>2. level[r] > 0 => level[r] - 1 \in Nat
        BY <1>1
      <3> QED
        BY <1>3, <3>1, <3>2
    <2>4. /\ r \notin tmp /\ UNCHANGED <<tmp, row, etag>>
          /\ \/ pc' = pc /\ pc[r] = "prune"
             \/ pc' = [pc EXCEPT ![r] = "unlink"] \/ pc' = [pc EXCEPT ![r] = "rmrow"]
      BY <1>12 DEF Prune, Placed
    <2>5. KeyTreeTypeOK'
      BY <1>1, <2>2, <2>3, <2>4 DEF env, Ended
    <2> QED
      BY <1>2, <2>4, <2>5
  <1> QED
    BY <1>4, <1>5, <1>6, <1>7, <1>8, <1>9, <1>10, <1>11, <1>12 DEF Step

LEMMA ArriveType ==
  ASSUME TypeInv, NEW r \in Requests, Arrive(r)
  PROVE  TypeInv'
  <1> USE DEF Goto, At, TypeInv, KeyTreeTypeOK
  <1>1. PICK c \in Calls : /\ req' = [req EXCEPT ![r] = c]
                           /\ Goto(r, Entry(c.op))
                           /\ due' = [due EXCEPT ![r] = Due(c)]
                           /\ last' = [last EXCEPT ![Path(c.key)] = r]
                           /\ swept' = swept \ {Path(c.key)}
    BY DEF Arrive
  <1>2. c.op \in {"put", "get", "remove"} /\ Path(c.key) \in Paths /\ c # None
    BY CallFacts
  <1>3. Entry(c.op) \in {"stat", "open", "unlink"} /\ Due(c) \in {"ok", "notfound", "error", None}
    BY <1>2 DEF Entry, Due
  <1>4. with' \in [Requests -> SUBSET Requests] /\ UNCHANGED <<disk, row, local>> /\ pc[r] = "idle"
    BY DEF Arrive
  <1>5. req' \in [Requests -> Calls \cup {None}]
    BY <1>1
  <1>6. KeyTreeTypeOK'
    BY <1>1, <1>2, <1>3, <1>4, <1>5 DEF disk, local, Ended
  <1>7. \A q \in Requests \ {r} : Here(q)' = Here(q) /\ pc'[q] = pc[q] /\ req'[q] = req[q]
    BY <1>1 DEF Here
  <1>8. /\ pc'[r] \in {"stat", "open", "unlink"} /\ req'[r] = c /\ r \notin tmp
        /\ tmp' = tmp /\ level' = level
    <2>1. r \notin tmp
      BY <1>4 DEF Placed
    <2>2. pc'[r] = Entry(c.op) /\ req'[r] = c
      BY <1>1
    <2> QED
      BY <1>3, <1>4, <2>1, <2>2 DEF disk, local
  <1>9. Placed'
    BY <1>2, <1>7, <1>8 DEF Placed
  <1> QED
    BY <1>6, <1>9

LEMMA ReindexType ==
  ASSUME TypeInv, Reindex
  PROVE  TypeInv'
  <1> DEFINE bare == {p \in Walked : ~IsFile("meta", p)}
             sidecar == [p \in Paths |-> IF p \in bare THEN file["data"][p] ELSE file["meta"][p]]
  <1> USE DEF TypeInv, KeyTreeTypeOK
  <1>1. "data" \in Trees /\ "meta" \in Trees
    BY DEF Trees
  <1>2. sidecar \in [Paths -> Bytes \cup {None}]
    BY <1>1
  <1>3. Walked \subseteq Paths
    BY DEF Walked
  <1>4. /\ file' = [file EXCEPT !["meta"] = sidecar]
        /\ dirs' = [dirs EXCEPT !["meta"] = @ \cup {d \in Dirs : \E p \in bare : Below(p, d)}]
        /\ row' = [k \in Keys |-> IF k \in Walked THEN sidecar[k] ELSE None]
        /\ swept' = Paths /\ UNCHANGED <<tmp, pc, local, req, with, due, last>>
    BY DEF Reindex
  <1> HIDE DEF sidecar, bare
  <1>5. /\ file' \in [Trees -> [Paths -> Bytes \cup {None}]] /\ dirs' \in [Trees -> SUBSET Dirs]
        /\ row' \in [Keys -> Bytes \cup {None}]
    BY <1>1, <1>2, <1>3, <1>4
  <1>6. KeyTreeTypeOK'
    BY <1>4, <1>5 DEF local
  <1>7. Placed'
    BY <1>4 DEF Placed, At, Here, local
  <1> QED
    BY <1>6, <1>7

LEMMA TypeStep ==
  ASSUME TypeInv, [Next]_vars
  PROVE  TypeInv'
  <1>1. CASE UNCHANGED vars \/ Rest
    BY <1>1 DEF Rest, vars, disk, local, env, TypeInv, KeyTreeTypeOK, Placed, At, Here
  <1> QED
    BY <1>1, StepType, ArriveType, ReindexType DEF Next

LEMMA TypeInvariant == Spec => []TypeInv
  BY TypeInit, TypeStep, PTL DEF Spec

\* Every variable keeps its type (KeyTreeTypeOK), for any keys, requests and calls.
THEOREM KeyTreeTypeCorrect == Spec => []KeyTreeTypeOK
  <1>1. TypeInv => KeyTreeTypeOK
    BY DEF TypeInv
  <1> QED
    BY <1>1, TypeInvariant, PTL

-----------------------------------------------------------------------------
(* Both trees are trees: a file, a directory or a temporary file lies in     *)
(* directories that are there, and nothing is a file and a directory.        *)

InTree(t, p) == \A n \in 1..(Len(p) - 1) : Up(p, n) \in dirs[t]
DirsInTree(t) == \A d \in dirs[t] : InTree(t, d)
FilesInTree(t) == \A p \in Paths : IsFile(t, p) => InTree(t, p) /\ p \notin dirs[t]
TmpInTree == \A r \in tmp : InTree("data", Here(r))
Treelike == (\A t \in Trees : DirsInTree(t) /\ FilesInTree(t)) /\ TmpInTree

LEMMA DirTypes ==
  ASSUME TypeInv, NEW t \in Trees, NEW d \in dirs[t]
  PROVE  d \in Dirs /\ d \in Seq(STRING) /\ Len(d) \in Nat \ {0}
  <1>1. d \in Dirs
    BY DEF TypeInv, KeyTreeTypeOK
  <1> QED
    BY <1>1, DirsArePrefixes

LEMMA ParentSuffices ==
  ASSUME TypeInv, NEW t \in Trees, DirsInTree(t), NEW p \in Seq(STRING), Len(p) >= 1,
         IsDir(t, Parent(p))
  PROVE  InTree(t, p)
  <1> SUFFICES ASSUME NEW n \in 1..(Len(p) - 1) PROVE Up(p, n) \in dirs[t]
    BY DEF InTree
  <1>1. /\ Len(p) \in Nat /\ Len(p) - 1 \in 0..Len(p) /\ n \in 0..(Len(p) - 1)
        /\ n < Len(p) - 1 => n \in 1..((Len(p) - 1) - 1)
    OBVIOUS
  <1>2. Parent(p) \in Seq(STRING) /\ Len(Parent(p)) = Len(p) - 1
    BY <1>1, Prefix DEF Parent
  <1>3. Parent(p) # <<>>
    BY <1>1, <1>2, EmptySeq
  <1>4. Parent(p) \in dirs[t]
    BY <1>3 DEF IsDir
  <1>5. CASE n = Len(p) - 1
    BY <1>4, <1>5 DEF Parent
  <1>6. CASE n < Len(p) - 1
    <2>1. Up(Parent(p), n) \in dirs[t]
      BY <1>1, <1>2, <1>4, <1>6 DEF DirsInTree, InTree
    <2>2. Up(Parent(p), n) = Up(p, n)
      BY <1>1, PrefixOfPrefix DEF Parent
    <2> QED
      BY <2>1, <2>2
  <1> QED
    BY <1>1, <1>5, <1>6

\* A directory that nothing lies in is not above anything.
LEMMA NothingBelow ==
  ASSUME TypeInv, NEW t \in Trees, NEW d, ~Occupied(t, d), NEW q \in Seq(STRING), InTree(t, q),
         \/ q \in dirs[t] \/ (q \in Paths /\ IsFile(t, q))
         \/ t = "data" /\ \E r \in tmp : q = Here(r),
         NEW n \in 1..(Len(q) - 1)
  PROVE  Up(q, n) # d
  <1> SUFFICES ASSUME Up(q, n) = d PROVE FALSE
    OBVIOUS
  <1>1. /\ Len(q) \in Nat /\ n + 1 \in 0..Len(q) /\ n \in 0..(n + 1) /\ (n + 1) - 1 = n
        /\ n + 1 = Len(q) \/ n + 1 \in 1..(Len(q) - 1)
    OBVIOUS
  <1>2. Parent(Up(q, n + 1)) = d
    <2>1. Len(Up(q, n + 1)) = n + 1
      BY <1>1, Prefix
    <2>2. Up(Up(q, n + 1), n) = Up(q, n)
      BY <1>1, PrefixOfPrefix
    <2> QED
      BY <1>1, <2>1, <2>2 DEF Parent
  <1>3. CASE n + 1 = Len(q)
    <2>1. Parent(q) = d
      BY <1>2, <1>3, Whole
    <2> QED
      BY <2>1 DEF Occupied
  <1>4. CASE n + 1 \in 1..(Len(q) - 1)
    BY <1>2, <1>4 DEF InTree, Occupied
  <1> QED
    BY <1>1, <1>3, <1>4

LEMMA HereFacts ==
  ASSUME TypeInv, NEW r \in tmp
  PROVE  Here(r) \in Seq(STRING) /\ Len(Here(r)) >= 1 /\ pc[r] = "rename" /\ r \in Requests
  <1>1. r \in Requests /\ pc[r] = "rename"
    BY DEF TypeInv, KeyTreeTypeOK, Placed, At
  <1>2. Here(r) \in Paths
    BY <1>1, Working
  <1> QED
    BY <1>1, <1>2, PathFacts

\* Removing what can be removed leaves trees behind.
LEMMA RemoveKeeps ==
  ASSUME TypeInv, Treelike, NEW t \in Trees, NEW p, Remove(t, p),
         CanRemove(t, p) \/ ~(IsFile(t, p) \/ p \in dirs[t]),
         UNCHANGED <<tmp, req>>
  PROVE  Treelike'
  <1>1. /\ dirs'[t] = dirs[t] \ {p}
        /\ \A u \in Trees \ {t} : dirs'[u] = dirs[u] /\ file'[u] = file[u]
        /\ \A q \in Paths : file'[t][q] = IF q = p THEN None ELSE file[t][q]
    BY RemoveType
  <1>2. dirs'[t] = dirs[t] \/ ~Occupied(t, p)
    BY <1>1 DEF CanRemove, IsFile, Treelike, FilesInTree
  <1>3. ASSUME NEW q \in Seq(STRING), InTree(t, q),
               \/ q \in dirs[t] \/ (q \in Paths /\ IsFile(t, q))
               \/ t = "data" /\ \E r \in tmp : q = Here(r)
        PROVE  InTree(t, q)'
    <2> SUFFICES ASSUME NEW n \in 1..(Len(q) - 1) PROVE Up(q, n) \in dirs'[t]
      BY DEF InTree
    <2>1. Up(q, n) \in dirs[t]
      BY <1>3 DEF InTree
    <2>2. ~Occupied(t, p) => Up(q, n) # p
      BY <1>3, NothingBelow
    <2> QED
      BY <1>1, <1>2, <2>1, <2>2
  <1>4. ASSUME NEW u \in Trees \ {t} PROVE DirsInTree(u)' /\ FilesInTree(u)'
    BY <1>1 DEF Treelike, DirsInTree, FilesInTree, InTree, IsFile
  <1>5. DirsInTree(t)'
    BY <1>1, <1>3, DirTypes DEF Treelike, DirsInTree
  <1>6. FilesInTree(t)'
    <2> SUFFICES ASSUME NEW q \in Paths, IsFile(t, q)' PROVE InTree(t, q)' /\ q \notin dirs'[t]
      BY DEF FilesInTree
    <2>1. IsFile(t, q)
      BY <1>1 DEF IsFile
    <2> QED
      BY <1>1, <1>3, <2>1, PathFacts DEF Treelike, FilesInTree
  <1>7. TmpInTree'
    <2> SUFFICES ASSUME NEW r \in tmp PROVE InTree("data", Here(r))'
      BY DEF TmpInTree
    <2>1. InTree("data", Here(r)) /\ Here(r) \in Seq(STRING) /\ Here(r)' = Here(r)
      BY HereFacts DEF Treelike, TmpInTree, Here
    <2>2. CASE t = "data"
      <3>1. \A q : q = Here(r) => InTree("data", q)'
        BY <1>3, <2>1, <2>2
      <3> QED
        BY <2>1, <3>1 DEF InTree
    <2>3. CASE t # "data"
      BY <1>1, <2>1, <2>3 DEF InTree, Trees
    <2> QED
      BY <2>2, <2>3
  <1> QED
    BY <1>4, <1>5, <1>6, <1>7 DEF Treelike

\* A new directory has the directories above it.
LEMMA MkdirKeeps ==
  ASSUME TypeInv, Treelike, NEW r \in Requests, Mkdir(r)
  PROVE  Treelike'
  <1> DEFINE t == tree[r]
             d == Up(Here(r), level[r] + 1)
  <1>1. /\ t \in Trees /\ level[r] \in Nat /\ pc[r] = "mkdir" /\ level[r] <= Depth(Here(r))
        /\ UNCHANGED <<file, tmp, req>> /\ \A q : Here(q)' = Here(q)
    BY DEF Mkdir, env, At, TypeInv, KeyTreeTypeOK, Placed, Here
  <1>2. CASE dirs' = dirs
    BY <1>1, <1>2 DEF Treelike, DirsInTree, FilesInTree, TmpInTree, InTree, IsFile
  <1>3. CASE /\ level[r] # Depth(Here(r)) /\ IsDir(t, Parent(d)) /\ ~IsFile(t, d)
             /\ dirs' = [dirs EXCEPT ![t] = @ \cup {d}]
    <2>1. level[r] + 1 \in 1..Depth(Here(r)) /\ Here(r) \in Paths
      BY <1>1, <1>3, OneDeeper, Working
    <2>2. d \in Seq(STRING) /\ Len(d) >= 1
      BY <2>1, DirFacts, DirsArePrefixes
    <2>3. InTree(t, d)
      BY <1>1, <1>3, <2>2, ParentSuffices DEF Treelike
    <2>4. dirs'[t] = dirs[t] \cup {d} /\ \A u \in Trees \ {t} : dirs'[u] = dirs[u]
      BY <1>1, <1>3 DEF TypeInv, KeyTreeTypeOK
    <2> HIDE DEF d, t
    <2>5. \A p : \A u \in Trees : InTree(u, p) => InTree(u, p)'
      BY <2>4 DEF InTree
    <2>6. \A u \in Trees : DirsInTree(u)'
      BY <1>1, <2>3, <2>4, <2>5 DEF Treelike, DirsInTree
    <2>7. \A u \in Trees : FilesInTree(u)'
      BY <1>1, <1>3, <2>4, <2>5 DEF Treelike, FilesInTree, IsFile
    <2>8. TmpInTree'
      BY <1>1, <2>5 DEF Treelike, TmpInTree, Trees, InTree
    <2> QED
      BY <2>6, <2>7, <2>8 DEF Treelike
  <1> QED
    BY <1>2, <1>3 DEF Mkdir

\* A new file lies in its directories, and not where a directory is.
LEMMA NewFileKeeps ==
  ASSUME TypeInv, Treelike, NEW t \in Trees, NEW p \in Paths, NEW b \in Bytes \cup {None},
         file' = [file EXCEPT ![t][p] = b], InTree(t, p), p \notin dirs[t],
         dirs' = dirs, req' = req, tmp' \subseteq tmp
  PROVE  Treelike'
  <1>1. /\ \A u \in Trees \ {t} : file'[u] = file[u]
        /\ \A q \in Paths : file'[t][q] = IF q = p THEN b ELSE file[t][q]
    BY OneFile DEF TypeInv, KeyTreeTypeOK
  <1>2. \A u \in Trees, q \in Paths : IsFile(u, q)' => IsFile(u, q) \/ (u = t /\ q = p)
    BY <1>1 DEF IsFile
  <1>3. \A u \in Trees : FilesInTree(u)'
    BY <1>2 DEF Treelike, FilesInTree, InTree
  <1> QED
    BY <1>3 DEF Treelike, DirsInTree, TmpInTree, InTree, Here

LEMMA TreelikeStep ==
  ASSUME TypeInv, Treelike, NEW r \in Requests, Step(r)
  PROVE  Treelike'
  <1>1. /\ req' = req /\ \A q : Here(q)' = Here(q)
        /\ Here(r) \in Paths /\ Here(r) \in Seq(STRING) /\ Len(Here(r)) >= 1
        /\ tree[r] \in Trees /\ "data" \in Trees /\ "meta" \in Trees
        /\ etag[r] \in Bytes \cup {None} /\ r \in Bytes
    BY StepFrame, Working, PathFacts DEF env, Here, TypeInv, KeyTreeTypeOK, Trees, Bytes
  <1>2. CASE UNCHANGED <<dirs, file>> /\ tmp' \subseteq tmp
    BY <1>1, <1>2 DEF Treelike, DirsInTree, FilesInTree, TmpInTree, InTree, IsFile
  <1>3. CASE Stat(r) \/ Upsert(r) \/ Open(r) \/ GetRow(r) \/ RemoveRow(r) \/ Abort(r)
    BY <1>2, <1>3 DEF Stat, Upsert, Open, GetRow, RemoveRow, Abort, disk
  <1>4. CASE CreateTemp(r)
    <2>1. CASE IsDir("data", Parent(Here(r)))
      <3>1. InTree("data", Here(r))
        BY <1>1, <2>1, ParentSuffices DEF Treelike
      <3> QED
        BY <1>1, <1>4, <3>1 DEF CreateTemp, Treelike, DirsInTree, FilesInTree, TmpInTree, InTree,
           IsFile
    <2> QED
      BY <1>2, <1>4, <2>1 DEF CreateTemp
  <1>5. CASE Rename(r)
    <2>1. CASE ~IsDir("data", Here(r))
      <3>1. InTree("data", Here(r)) /\ Here(r) \notin dirs["data"]
        BY <1>5, <2>1 DEF Rename, IsDir, TypeInv, Placed, Treelike, TmpInTree
      <3>2. /\ file' = [file EXCEPT !["data"][Here(r)] = r] /\ dirs' = dirs /\ tmp' \subseteq tmp
        BY <1>5, <2>1 DEF Rename
      <3> QED
        BY <1>1, <3>1, <3>2, NewFileKeeps
    <2> QED
      BY <1>2, <1>5, <2>1 DEF Rename
  <1>6. CASE WriteMeta(r)
    <2>1. CASE ~IsDir("meta", Here(r)) /\ IsDir("meta", Parent(Here(r)))
      <3>1. InTree("meta", Here(r)) /\ Here(r) \notin dirs["meta"]
        BY <1>1, <2>1, ParentSuffices DEF IsDir, Treelike
      <3>2. /\ file' = [file EXCEPT !["meta"][Here(r)] = etag[r]] /\ dirs' = dirs /\ tmp' = tmp
        BY <1>6, <2>1 DEF WriteMeta
      <3> QED
        BY <1>1, <3>1, <3>2, NewFileKeeps
    <2> QED
      BY <1>2, <1>6, <2>1 DEF WriteMeta
  <1>7. CASE Unlink(r)
    <2>1. CASE UNCHANGED <<file, dirs>>
      BY <1>2, <1>7, <2>1 DEF Unlink
    <2>2. CASE /\ Remove(tree[r], Here(r))
               /\ \/ CanRemove(tree[r], Here(r))
                  \/ ~(Blocked(tree[r], Here(r)) \/ IsDir(tree[r], Here(r)))
      <3>1. CanRemove(tree[r], Here(r)) \/ ~(IsFile(tree[r], Here(r)) \/ Here(r) \in dirs[tree[r]])
        BY <2>2 DEF CanRemove, IsDir
      <3>2. UNCHANGED <<tmp, req>>
        BY <1>1, <1>7 DEF Unlink
      <3> QED
        BY <1>1, <2>2, <3>1, <3>2, RemoveKeeps
    <2> QED
      BY <1>7, <2>1, <2>2 DEF Unlink
  <1>8. CASE Prune(r)
    <2>1. CASE UNCHANGED <<file, dirs>>
      BY <1>2, <1>8, <2>1 DEF Prune
    <2>2. CASE /\ Remove(tree[r], Up(Here(r), level[r]))
               /\ CanRemove(tree[r], Up(Here(r), level[r]))
      <3>1. UNCHANGED <<tmp, req>>
        BY <1>1, <1>8 DEF Prune
      <3> QED
        BY <1>1, <2>2, <3>1, RemoveKeeps
    <2> QED
      BY <1>8, <2>1, <2>2 DEF Prune
  <1> QED
    BY <1>3, <1>4, <1>5, <1>6, <1>7, <1>8, MkdirKeeps DEF Step

\* A reindex puts sidecars, and the directories above them, only where they fit.
LEMMA ReindexKeeps ==
  ASSUME TypeInv, Treelike, Reindex
  PROVE  Treelike'
  <1> DEFINE bare == {p \in Walked : ~IsFile("meta", p)}
             sidecar == [p \in Paths |-> IF p \in bare THEN file["data"][p] ELSE file["meta"][p]]
             new == {d \in Dirs : \E p \in bare : Below(p, d)}
  <1>1. "data" \in Trees /\ "meta" \in Trees /\ \A u \in Trees : u \in {"data", "meta"}
    BY DEF Trees
  <1>2. /\ file' = [file EXCEPT !["meta"] = sidecar]
        /\ dirs' = [dirs EXCEPT !["meta"] = @ \cup new]
        /\ \A p \in bare : ~Blocked("meta", p) /\ ~IsDir("meta", p)
        /\ tmp' = tmp /\ req' = req
    BY DEF Reindex
  <1>3. \A p \in bare : p \in Paths /\ IsFile("data", p)
    BY DEF Walked
  <1>4. \A p \in Paths : sidecar[p] # None => p \in bare \/ IsFile("meta", p)
    BY DEF IsFile
  <1>5. \A d \in new : d \in Dirs /\ \E p \in bare : Below(p, d)
    OBVIOUS
  <1>6. \A d \in Dirs, p \in bare : Below(p, d) => d \in new
    OBVIOUS
  <1> HIDE DEF bare, sidecar, new
  <1>7. /\ dirs'["meta"] = dirs["meta"] \cup new /\ file'["meta"] = sidecar
        /\ dirs'["data"] = dirs["data"] /\ file'["data"] = file["data"]
    BY <1>1, <1>2 DEF TypeInv, KeyTreeTypeOK
  <1>8. \A p \in Paths : \A n \in 1..(Len(p) - 1) : Below(p, Up(p, n)) /\ Up(p, n) \in Dirs
    <2> SUFFICES ASSUME NEW p \in Paths, NEW n \in 1..(Len(p) - 1)
                 PROVE  Below(p, Up(p, n)) /\ Up(p, n) \in Dirs
      OBVIOUS
    <2>1. p \in Seq(STRING) /\ n \in 0..Len(p) /\ Len(p) > n
      BY PathFacts
    <2>2. Len(Up(p, n)) = n
      BY <2>1, Prefix
    <2> QED
      BY <2>1, <2>2, DirFacts DEF Below, Depth
  <1>9. \A p \in bare : InTree("meta", p)'
    BY <1>3, <1>6, <1>7, <1>8 DEF InTree
  <1>10. ASSUME NEW d \in new PROVE InTree("meta", d)'
    <2> SUFFICES ASSUME NEW n \in 1..(Len(d) - 1) PROVE Up(d, n) \in new
      BY <1>7 DEF InTree
    <2>1. PICK p \in bare : Below(p, d)
      BY <1>5, <1>10
    <2>2. d \in Seq(STRING) /\ p \in Paths /\ p \in Seq(STRING)
      BY <1>3, <1>5, <1>10, DirsArePrefixes, PathFacts
    <2>3. Len(d) \in 0..Len(p) /\ n \in 0..Len(d) /\ n \in 1..(Len(p) - 1) /\ d = Up(p, Len(d))
      BY <2>1, <2>2 DEF Below
    <2>4. Up(d, n) = Up(p, n)
      BY <2>2, <2>3, PrefixOfPrefix
    <2> QED
      BY <1>6, <1>8, <2>2, <2>3, <2>4
  <1>11. \A p \in bare : p \notin dirs'["meta"]
    <2> SUFFICES ASSUME NEW p \in bare, p \in new PROVE FALSE
      BY <1>2, <1>7 DEF IsDir
    <2>1. PICK q \in bare : Below(q, p)
      BY <1>5
    <2>2. q \in Seq(STRING) /\ p \in Seq(STRING) /\ Len(p) \in Nat \ {0} /\ IsFile("data", q) /\ q \in Paths
      BY <1>3, PathFacts
    <2>3. Len(p) \in 1..(Len(q) - 1) /\ p = Up(q, Len(p))
      BY <2>1, <2>2 DEF Below
    <2>4. p \in dirs["data"]
      BY <1>1, <2>2, <2>3 DEF Treelike, FilesInTree, InTree
    <2> QED
      BY <1>1, <1>3, <2>4 DEF Treelike, FilesInTree
  <1>12. ASSUME NEW p \in Paths, IsFile("meta", p) PROVE p \notin new
    <2> SUFFICES ASSUME p \in new PROVE FALSE
      OBVIOUS
    <2>1. PICK q \in bare : Below(q, p)
      BY <1>5
    <2>2. q \in Seq(STRING) /\ p \in Seq(STRING) /\ Len(p) \in Nat \ {0}
      BY <1>3, PathFacts
    <2>3. Len(p) \in 1..(Len(q) - 1) /\ p = Up(q, Len(p))
      BY <2>1, <2>2 DEF Below
    <2> QED
      BY <1>2, <1>12, <2>3 DEF Blocked
  <1>13. DirsInTree("meta")'
    BY <1>1, <1>7, <1>10 DEF Treelike, DirsInTree, InTree
  <1>14. FilesInTree("meta")'
    <2> SUFFICES ASSUME NEW p \in Paths, sidecar[p] # None
                 PROVE  InTree("meta", p)' /\ p \notin dirs'["meta"]
      BY <1>7 DEF FilesInTree, IsFile
    <2>1. CASE p \in bare
      BY <1>9, <1>11, <2>1
    <2>2. CASE IsFile("meta", p)
      BY <1>1, <1>7, <1>12, <2>2 DEF Treelike, FilesInTree, InTree
    <2> QED
      BY <1>4, <2>1, <2>2
  <1>15. DirsInTree("data")' /\ FilesInTree("data")' /\ TmpInTree'
    BY <1>1, <1>2, <1>7 DEF Treelike, DirsInTree, FilesInTree, TmpInTree, InTree, IsFile, Here
  <1> QED
    BY <1>1, <1>13, <1>14, <1>15 DEF Treelike

LEMMA TreelikeInit == Init => Treelike
  <1> SUFFICES ASSUME Init PROVE Treelike
    OBVIOUS
  <1>1. PICK S \in InitKeys :
          /\ dirs = [t \in Trees |-> {d \in Dirs : \E p \in S : Below(p, d)}]
          /\ file = [t \in Trees |-> [p \in Paths |-> IF p \in S THEN p ELSE None]]
    BY DEF Init
  <1>2. S \subseteq Paths /\ \A p, q \in S : ~Below(p, q)
    BY KeyTreeConstants
  <1>3. ASSUME NEW t \in Trees, NEW p \in Paths, IsFile(t, p)
        PROVE  InTree(t, p) /\ p \notin dirs[t]
    <2>1. p \in S
      BY <1>1, <1>3 DEF IsFile
    <2>2. \A n \in 1..(Len(p) - 1) : Up(p, n) \in Dirs /\ Below(p, Up(p, n))
      <3> TAKE n \in 1..(Len(p) - 1)
      <3>1. p \in Seq(STRING) /\ n \in 0..Len(p) /\ Len(p) > n
        BY PathFacts
      <3>2. Len(Up(p, n)) = n
        BY <3>1, Prefix
      <3> QED
        BY <3>1, <3>2, DirFacts DEF Below, Depth
    <2> QED
      BY <1>1, <1>2, <2>1, <2>2 DEF InTree
  <1>4. ASSUME NEW t \in Trees, NEW d \in dirs[t] PROVE InTree(t, d)
    <2>1. PICK p \in S : Below(p, d)
      BY <1>1, <1>4
    <2>2. p \in Paths /\ p \in Seq(STRING) /\ d \in Dirs /\ d \in Seq(STRING)
      BY <1>1, <1>2, <1>4, PathFacts, DirsArePrefixes
    <2> SUFFICES ASSUME NEW n \in 1..(Len(d) - 1) PROVE Up(d, n) \in dirs[t]
      BY DEF InTree
    <2>3. Len(d) \in 0..Len(p) /\ n \in 0..Len(d) /\ n \in 1..(Len(p) - 1) /\ d = Up(p, Len(d))
          /\ n \in 0..Len(p) /\ Len(p) > n
      BY <2>1, <2>2 DEF Below
    <2>4. Up(d, n) = Up(p, n) /\ Len(Up(p, n)) = n
      BY <2>2, <2>3, PrefixOfPrefix, Prefix
    <2>5. Up(p, n) \in Dirs /\ Below(p, Up(p, n))
      BY <2>2, <2>3, <2>4, DirFacts DEF Below, Depth
    <2> QED
      BY <1>1, <2>4, <2>5
  <1>5. TmpInTree
    BY DEF Init, TmpInTree
  <1> QED
    BY <1>3, <1>4, <1>5 DEF Treelike, FilesInTree, DirsInTree

LEMMA TreelikeNext ==
  ASSUME TypeInv, Treelike, [Next]_vars
  PROVE  Treelike'
  <1>1. ASSUME NEW r \in Requests, Arrive(r) PROVE Treelike'
    <2>1. /\ UNCHANGED <<dirs, file, tmp>> /\ r \notin tmp
          /\ \A q \in tmp : Here(q)' = Here(q)
      BY <1>1 DEF Arrive, disk, At, Here, TypeInv, KeyTreeTypeOK, Placed
    <2> QED
      BY <2>1 DEF Treelike, DirsInTree, FilesInTree, TmpInTree, InTree, IsFile
  <1>2. CASE UNCHANGED vars \/ Rest
    BY <1>2 DEF Rest, vars, disk, env, Treelike, DirsInTree, FilesInTree, TmpInTree, InTree,
       IsFile, Here
  <1> QED
    BY <1>1, <1>2, TreelikeStep, ReindexKeeps DEF Next

\* Both trees stay trees: every file, sidecar, directory and temporary file lies in
\* directories that are there, and nothing is a file and a directory, whatever
\* MkdirAll, Rename and removeEmptyParents of other keys do in between.
THEOREM TreesStayTrees == Spec => []Treelike
  BY TypeInvariant, TreelikeInit, TreelikeNext, PTL DEF Spec

-----------------------------------------------------------------------------
(* After a reindex.  A path that has had no request since has its file and its *)
(* row as the reindex left them: a handler changes those of its own key, and   *)
(* the file of another only if Prune takes it for a directory, of which        *)
(* Unlink has made sure that there was none (Ahead); a file that came there    *)
(* since is that of a request.                                                 *)

Fresh == \A r \in Requests : Running(r) => Here(r) \notin swept
Ahead == \A r \in Requests : At(r, "prune") /\ tree[r] = "data" =>
  \A n \in 1..level[r] : IsFile("data", Up(Here(r), n)) => Up(Here(r), n) \notin swept
SweptInv == TypeInv /\ Treelike /\ Fresh /\ Ahead /\ SweptClean

\* What a step does to objects and to rows.
LEMMA ObjectMoves ==
  ASSUME TypeInv, NEW r \in Requests, Step(r), NEW q \in Paths
  PROVE  \/ file'["data"][q] = file["data"][q]
         \/ q = Here(r)
         \/ /\ At(r, "prune") /\ tree[r] = "data" /\ level[r] > 0 /\ q = Up(Here(r), level[r])
            /\ IsFile("data", q) /\ file'["data"][q] = None
  <1> USE DEF Trees
  <1>1. Here(r) \in Paths /\ r \in Bytes /\ etag[r] \in Bytes \cup {None} /\ tree[r] \in Trees
        /\ level[r] \in Nat /\ file \in [Trees -> [Paths -> Bytes \cup {None}]]
    BY StepFrame, Working DEF TypeInv, KeyTreeTypeOK, Bytes
  <1>2. CASE UNCHANGED file
    BY <1>2
  <1>3. CASE Stat(r) \/ Mkdir(r) \/ CreateTemp(r) \/ Abort(r) \/ Upsert(r) \/ Open(r) \/ GetRow(r)
             \/ RemoveRow(r)
    BY <1>2, <1>3 DEF Stat, Mkdir, CreateTemp, Abort, Upsert, Open, GetRow, RemoveRow, disk
  <1>4. CASE Rename(r)
    <2>1. CASE file' = [file EXCEPT !["data"][Here(r)] = r]
      BY <1>1, <2>1, OneFile
    <2> QED
      BY <1>2, <1>4, <2>1 DEF Rename
  <1>5. CASE WriteMeta(r)
    <2>1. CASE file' = [file EXCEPT !["meta"][Here(r)] = etag[r]]
      BY <1>1, <2>1, OneFile
    <2> QED
      BY <1>2, <1>5, <2>1 DEF WriteMeta
  <1>6. CASE Unlink(r)
    <2>1. CASE Remove(tree[r], Here(r))
      BY <1>1, <2>1, RemoveType
    <2> QED
      BY <1>2, <1>6, <2>1 DEF Unlink
  <1>7. CASE Prune(r)
    <2>1. CASE level[r] > 0 /\ Remove(tree[r], Up(Here(r), level[r]))
      <3>1. /\ \A u \in Trees \ {tree[r]} : file'[u] = file[u]
            /\ file'[tree[r]][q] = IF q = Up(Here(r), level[r]) THEN None ELSE file[tree[r]][q]
        BY <1>1, <2>1, RemoveType
      <3>2. CASE tree[r] = "data" /\ q = Up(Here(r), level[r]) /\ file["data"][q] # None
        BY <1>7, <2>1, <3>1, <3>2 DEF Prune, IsFile
      <3> QED
        BY <1>1, <3>1, <3>2
    <2> QED
      BY <1>2, <1>7, <2>1 DEF Prune
  <1> QED
    BY <1>3, <1>4, <1>5, <1>6, <1>7 DEF Step

LEMMA RowMoves ==
  ASSUME TypeInv, NEW r \in Requests, Step(r), NEW k \in Keys
  PROVE  row'[k] = row[k] \/ k = req[r].key
  <1> USE DEF TypeInv, KeyTreeTypeOK
  <1>1. CASE Upsert(r) \/ RemoveRow(r)
    BY <1>1 DEF Upsert, RemoveRow
  <1>2. CASE Stat(r) \/ Mkdir(r) \/ CreateTemp(r) \/ Abort(r) \/ Open(r) \/ GetRow(r) \/ Rename(r)
             \/ WriteMeta(r) \/ Unlink(r) \/ Prune(r)
    BY <1>2 DEF Stat, Mkdir, CreateTemp, Abort, Open, GetRow, Rename, WriteMeta, Unlink, Prune
  <1> QED
    BY <1>1, <1>2 DEF Step

LEMMA AheadMoves ==
  ASSUME TypeInv, NEW r \in Requests, Step(r), pc'[r] = "prune"
  PROVE  \/ /\ Unlink(r) /\ tree'[r] = tree[r] /\ level'[r] = Depth(Here(r))
            /\ Remove(tree[r], Here(r))
            /\ CanRemove(tree[r], Here(r)) \/ ~Blocked(tree[r], Here(r))
         \/ Prune(r) /\ tree'[r] = tree[r] /\ level'[r] = level[r] - 1 /\ level[r] > 0
  <1> USE DEF Goto, At, TypeInv, KeyTreeTypeOK
  <1>1. CASE Unlink(r)
    BY <1>1 DEF Unlink
  <1>2. CASE Prune(r)
    BY <1>2 DEF Prune
  <1>3. CASE Stat(r) \/ Mkdir(r) \/ CreateTemp(r) \/ Abort(r) \/ Open(r) \/ GetRow(r) \/ Rename(r)
    BY <1>3 DEF Stat, Mkdir, CreateTemp, Abort, Open, GetRow, Rename
  <1>4. CASE WriteMeta(r) \/ Upsert(r) \/ RemoveRow(r)
    BY <1>4 DEF WriteMeta, Upsert, RemoveRow
  <1> QED
    BY <1>1, <1>2, <1>3, <1>4 DEF Step

LEMMA SweptStep ==
  ASSUME SweptInv, NEW r \in Requests, Step(r)
  PROVE  Fresh' /\ Ahead' /\ SweptClean'
  <1>1. /\ TypeInv /\ Treelike /\ Running(r) /\ req' = req /\ swept' = swept
        /\ \A q \in Requests \ {r} : pc'[q] = pc[q] /\ tree'[q] = tree[q] /\ level'[q] = level[q]
        /\ \A q : Here(q)' = Here(q)
    BY StepFrame DEF SweptInv, Running, env, Here
  <1>2. Here(r) \notin swept /\ Here(r) \in Paths /\ req[r].key \in Keys /\ level[r] \in Nat
        /\ "data" \in Trees
    BY <1>1, Working DEF SweptInv, Fresh, Running, TypeInv, KeyTreeTypeOK, Trees
  <1>3. \A q \in Paths : q \in swept => file'["data"][q] = file["data"][q]
    <2> SUFFICES ASSUME NEW q \in Paths, q \in swept, file'["data"][q] # file["data"][q] PROVE FALSE
      OBVIOUS
    <2>1. /\ At(r, "prune") /\ tree[r] = "data" /\ level[r] > 0 /\ q = Up(Here(r), level[r])
          /\ IsFile("data", q)
      BY <1>1, <1>2, ObjectMoves
    <2>2. level[r] \in 1..level[r]
      BY <1>2, <2>1
    <2> QED
      BY <2>1, <2>2 DEF SweptInv, Ahead
  <1>4. \A q : q \in swept => (IsFile("data", q)' <=> IsFile("data", q))
    BY <1>3 DEF IsFile
  <1>5. SweptClean'
    <2> SUFFICES ASSUME NEW k \in Keys, Path(k) \in swept
                 PROVE  row'[k] # None <=> /\ IsFile("data", Path(k))'
                                           /\ k = Path(k) /\ k[Len(k)] \notin TempLike
      BY <1>1 DEF SweptClean
    <2>1. k # req[r].key
      BY <1>2 DEF Here
    <2>2. row'[k] = row[k]
      BY <1>1, <2>1, RowMoves
    <2> QED
      BY <1>4, <2>2 DEF SweptInv, SweptClean
  <1>6. Fresh'
    BY <1>1, <1>2 DEF SweptInv, Fresh, Running
  <1>7. ASSUME NEW q \in Requests, At(q, "prune")', tree'[q] = "data", NEW n \in 1..level'[q],
               IsFile("data", Up(Here(q), n))', Up(Here(q), n) \in swept
        PROVE  FALSE
    <2>1. IsFile("data", Up(Here(q), n))
      BY <1>1, <1>4, <1>7
    <2>2. CASE q # r
      BY <1>1, <1>7, <2>1, <2>2 DEF SweptInv, Ahead, At
    <2>3. CASE q = r /\ Prune(r) /\ tree'[r] = tree[r] /\ level'[r] = level[r] - 1 /\ level[r] > 0
      <3>1. n \in 1..level[r]
        BY <1>2, <1>7, <2>3
      <3> QED
        BY <1>7, <2>1, <2>3, <3>1 DEF SweptInv, Ahead, Prune
    <2>4. CASE /\ q = r /\ Unlink(r) /\ tree'[r] = tree[r] /\ level'[r] = Depth(Here(r))
               /\ CanRemove(tree[r], Here(r)) \/ ~Blocked(tree[r], Here(r))
      <3>1. n \in 1..(Len(Here(r)) - 1) /\ tree[r] = "data"
        BY <1>7, <2>4 DEF Depth
      <3>2. CASE ~Blocked("data", Here(r))
        BY <2>1, <2>4, <3>1, <3>2 DEF Blocked
      <3>3. CASE CanRemove("data", Here(r))
        <4>1. InTree("data", Here(r))
          BY <1>1, <1>2, <3>3 DEF CanRemove, Treelike, DirsInTree, FilesInTree
        <4>2. Up(Here(r), n) \in dirs["data"]
          BY <3>1, <4>1 DEF InTree
        <4> QED
          BY <1>1, <1>2, <2>1, <2>4, <4>2 DEF Treelike, FilesInTree, IsFile
      <3> QED
        BY <2>4, <3>1, <3>2, <3>3
    <2> QED
      BY <1>1, <1>7, <2>2, <2>3, <2>4, AheadMoves DEF At
  <1>8. Ahead'
    BY <1>1, <1>7 DEF Ahead
  <1> QED
    BY <1>5, <1>6, <1>8

LEMMA SweptReindex ==
  ASSUME SweptInv, Reindex
  PROVE  Fresh' /\ Ahead' /\ SweptClean'
  <1> DEFINE bare == {p \in Walked : ~IsFile("meta", p)}
             sidecar == [p \in Paths |-> IF p \in bare THEN file["data"][p] ELSE file["meta"][p]]
  <1>1. /\ file' = [file EXCEPT !["meta"] = sidecar] /\ UNCHANGED pc
        /\ row' = [k \in Keys |-> IF k \in Walked THEN sidecar[k] ELSE None]
        /\ \A r \in Requests : ~Running(r)
    BY DEF Reindex, Resting
  <1>2. \A k \in Walked : /\ k \in Paths /\ Path(k) = k /\ k[Len(k)] \notin TempLike
                          /\ IsFile("data", k) /\ sidecar[k] # None
    BY PathFacts DEF Walked, IsFile
  <1>3. \A k \in Keys : k = Path(k) => k \in Paths
    BY DEF Paths
  <1> HIDE DEF bare, sidecar
  <1>4. file'["data"] = file["data"]
    BY <1>1 DEF SweptInv, TypeInv, KeyTreeTypeOK, Trees
  <1>5. SweptClean'
    <2> SUFFICES ASSUME NEW k \in Keys
                 PROVE  row'[k] # None <=> /\ IsFile("data", Path(k))
                                           /\ k = Path(k) /\ k[Len(k)] \notin TempLike
      BY <1>4 DEF SweptClean, IsFile
    <2>1. CASE k \in Walked
      BY <1>1, <1>2, <2>1
    <2>2. CASE k \notin Walked
      BY <1>1, <1>3, <2>2 DEF Walked
    <2> QED
      BY <2>1, <2>2
  <1>6. Fresh' /\ Ahead'
    BY <1>1 DEF Fresh, Ahead, Running, At, Ended
  <1> QED
    BY <1>5, <1>6

LEMMA SweptNext ==
  ASSUME SweptInv, [Next]_vars
  PROVE  SweptInv'
  <1>1. TypeInv' /\ Treelike'
    BY TypeStep, TreelikeNext DEF SweptInv
  <1>2. ASSUME NEW r \in Requests, Arrive(r) PROVE Fresh' /\ Ahead' /\ SweptClean'
    <2>1. PICK c \in Calls : /\ req' = [req EXCEPT ![r] = c]
                             /\ Goto(r, Entry(c.op))
                             /\ swept' = swept \ {Path(c.key)}
      BY <1>2 DEF Arrive
    <2>2. /\ UNCHANGED <<file, row, tree, level>> /\ req'[r] = c
          /\ \A q \in Requests \ {r} : pc'[q] = pc[q] /\ Here(q)' = Here(q)
      BY <1>2, <2>1 DEF Arrive, disk, local, Goto, Here, SweptInv, TypeInv, KeyTreeTypeOK
    <2>3. pc'[r] \in {"stat", "open", "unlink"}
      <3>1. Entry(c.op) \in {"stat", "open", "unlink"}
        BY CallFacts DEF Entry
      <3> QED
        BY <2>1, <3>1 DEF Goto, SweptInv, TypeInv, KeyTreeTypeOK
    <2>4. Fresh'
      BY <2>1, <2>2 DEF SweptInv, Fresh, Running, Here
    <2>5. Ahead'
      BY <2>1, <2>2, <2>3 DEF SweptInv, Ahead, At, IsFile
    <2>6. SweptClean'
      BY <2>1, <2>2 DEF SweptInv, SweptClean, IsFile
    <2> QED
      BY <2>4, <2>5, <2>6
  <1>3. CASE UNCHANGED vars \/ Rest
    <2>1. UNCHANGED <<file, row, pc, tree, level, req, swept>>
      BY <1>3 DEF Rest, vars, disk, local, env
    <2>2. Fresh'
      BY <2>1 DEF SweptInv, Fresh, Running, Here
    <2>3. Ahead'
      BY <2>1 DEF SweptInv, Ahead, At, IsFile, Here
    <2>4. SweptClean'
      BY <2>1 DEF SweptInv, SweptClean, IsFile
    <2> QED
      BY <1>1, <2>2, <2>3, <2>4 DEF SweptInv
  <1> QED
    BY <1>1, <1>2, <1>3, SweptStep, SweptReindex DEF SweptInv, Next

\* After a reindex the rows are those of the files, one for each (SweptClean), and stay
\* so for every path without a request since, whatever handlers of other keys prune.
THEOREM SweptStaysClean == Spec => []SweptClean
  <1>1. Init => SweptInv
    <2>1. Init => Fresh /\ Ahead /\ SweptClean
      BY DEF Init, Fresh, Ahead, SweptClean, Running, At
    <2> QED
      BY <2>1, TypeInit, TreelikeInit DEF SweptInv
  <1>2. SweptInv => SweptClean
    BY DEF SweptInv
  <1> QED
    BY <1>1, <1>2, SweptNext, PTL DEF Spec

-----------------------------------------------------------------------------
(* Each step of a handler, as it changes one path, one directory and its own *)
(* place: what the invariants below are told of it.                          *)

LEMMA StepKeeps ==
  ASSUME TypeInv, NEW r \in Requests, Step(r)
  PROVE  /\ req' = req /\ with' = with /\ due' = due /\ last' = last /\ swept' = swept
         /\ \A q \in Requests \ {r} :
              pc'[q] = pc[q] /\ tree'[q] = tree[q] /\ level'[q] = level[q] /\ etag'[q] = etag[q]
         /\ \A q : Here(q)' = Here(q)
         /\ Running(r) /\ req[r] \in Calls /\ req[r] # None /\ req[r].key \in Keys
         /\ req[r].op \in {"put", "get", "remove"}
         /\ Here(r) \in Paths /\ Here(r) \in Seq(STRING) /\ Depth(Here(r)) \in Nat
         /\ Len(Here(r)) = Depth(Here(r)) + 1
         /\ tree[r] \in Trees /\ level[r] \in Nat
  <1>1. /\ pc[r] \notin Ended /\ pc[r] # "idle" /\ UNCHANGED env
        /\ \A q \in Requests \ {r} : pc'[q] = pc[q] /\ tree'[q] = tree[q] /\ level'[q] = level[q]
    BY StepFrame
  <1>2. /\ req[r] \in Calls /\ req[r].op \in {"put", "get", "remove"} /\ req[r].key \in Keys
        /\ Here(r) \in Paths /\ Depth(Here(r)) \in Nat /\ Len(Here(r)) = Depth(Here(r)) + 1
    BY <1>1, Working
  <1>3. \A q \in Requests \ {r} : etag'[q] = etag[q]
    BY DEF Step, Stat, Mkdir, CreateTemp, Abort, Rename, WriteMeta, Upsert, Open, GetRow, Unlink,
       Prune, RemoveRow, local, disk, TypeInv, KeyTreeTypeOK
  <1>4. \A q : Here(q)' = Here(q)
    BY <1>1 DEF env, Here
  <1>5. Here(r) \in Seq(STRING) /\ req[r] # None
    BY <1>2, PathFacts, CallFacts
  <1> QED
    BY <1>1, <1>2, <1>3, <1>4, <1>5 DEF env, Running, TypeInv, KeyTreeTypeOK

LEMMA StatDoes ==
  ASSUME TypeInv, NEW r \in Requests, Stat(r)
  PROVE  /\ UNCHANGED <<dirs, file, tmp, row, tree, etag>> /\ pc[r] = "stat"
         /\ \/ Blocked(tree[r], Here(r)) /\ pc'[r] = "error"
            \/ /\ ~Blocked(tree[r], Here(r)) /\ pc'[r] = "mkdir"
               /\ level'[r] \in 0..Depth(Here(r)) /\ IsDir(tree[r], Up(Here(r), level'[r]))
  <1>1. UNCHANGED <<dirs, file, tmp, row, tree, etag>> /\ pc[r] = "stat"
    BY DEF Stat, disk, At
  <1>2. \/ Blocked(tree[r], Here(r)) /\ pc' = [pc EXCEPT ![r] = "error"]
        \/ /\ ~Blocked(tree[r], Here(r)) /\ pc' = [pc EXCEPT ![r] = "mkdir"]
           /\ \E n \in 0..Depth(Here(r)) : /\ level' = [level EXCEPT ![r] = n]
                                          /\ IsDir(tree[r], Up(Here(r), n))
    BY DEF Stat, Goto
  <1> QED
    BY <1>1, <1>2 DEF TypeInv, KeyTreeTypeOK

\* The directory that a handler has made or found, and the next one it makes.
Top(r) == Up(Here(r), level[r])
Deeper(r) == Up(Here(r), level[r] + 1)

LEMMA MkdirDoes ==
  ASSUME TypeInv, NEW r \in Requests, Mkdir(r)
  PROVE  /\ UNCHANGED <<file, tmp, row, tree, etag>> /\ pc[r] = "mkdir"
         /\ \/ /\ level[r] = Depth(Here(r)) /\ UNCHANGED <<dirs, level>>
               /\ pc'[r] = IF tree[r] = "data" THEN "temp" ELSE "write"
            \/ /\ level[r] + 1 \in 1..Depth(Here(r)) /\ pc' = pc /\ level'[r] = level[r] + 1
               /\ IsDir(tree[r], Top(r)) /\ ~IsFile(tree[r], Deeper(r))
               /\ dirs'[tree[r]] = dirs[tree[r]] \cup {Deeper(r)}
               /\ \A u \in Trees \ {tree[r]} : dirs'[u] = dirs[u]
            \/ /\ level[r] + 1 \in 1..Depth(Here(r)) /\ pc'[r] = "error" /\ UNCHANGED <<dirs, level>>
               /\ ~IsDir(tree[r], Top(r)) \/ IsFile(tree[r], Deeper(r))
  <1> USE DEF TypeInv, KeyTreeTypeOK
  <1>1. UNCHANGED <<file, tmp, row, tree, etag>> /\ pc[r] = "mkdir"
    BY DEF Mkdir, At
  <1>2. /\ tree[r] \in Trees /\ level[r] \in Nat /\ level[r] <= Depth(Here(r)) /\ Here(r) \in Paths
        /\ Depth(Here(r)) \in Nat /\ Len(Here(r)) = Depth(Here(r)) + 1
    BY <1>1, Working DEF Placed, At
  <1>3. CASE level[r] = Depth(Here(r))
    BY <1>1, <1>2, <1>3 DEF Mkdir, Goto
  <1>4. CASE level[r] # Depth(Here(r))
    <2>1. level[r] + 1 \in 1..Depth(Here(r))
      BY <1>2, <1>4, OneDeeper
    <2>2. Parent(Deeper(r)) = Top(r)
      <3>1. /\ Here(r) \in Seq(STRING) /\ level[r] + 1 \in 0..Len(Here(r))
            /\ level[r] \in 0..(level[r] + 1) /\ (level[r] + 1) - 1 = level[r]
        BY <1>2, <2>1, PathFacts
      <3> QED
        BY <3>1, Prefix, PrefixOfPrefix DEF Parent, Top, Deeper
    <2>3. \/ /\ IsDir(tree[r], Parent(Deeper(r))) /\ ~IsFile(tree[r], Deeper(r)) /\ pc' = pc
             /\ dirs' = [dirs EXCEPT ![tree[r]] = @ \cup {Deeper(r)}]
             /\ level' = [level EXCEPT ![r] = @ + 1]
          \/ /\ ~(IsDir(tree[r], Parent(Deeper(r))) /\ ~IsFile(tree[r], Deeper(r)))
             /\ pc' = [pc EXCEPT ![r] = "error"] /\ UNCHANGED <<dirs, level>>
      BY <1>4 DEF Mkdir, Goto, Deeper
    <2> QED
      BY <1>1, <1>2, <2>1, <2>2, <2>3
  <1> QED
    BY <1>3, <1>4

LEMMA TempDoes ==
  ASSUME TypeInv, NEW r \in Requests, CreateTemp(r)
  PROVE  /\ UNCHANGED <<dirs, file, row, tree, level, etag>> /\ pc[r] = "temp"
         /\ \/ pc'[r] = "rename" /\ IsDir("data", Parent(Here(r)))
            \/ pc'[r] = "error" /\ ~IsDir("data", Parent(Here(r)))
  BY DEF CreateTemp, local, At, Goto, TypeInv, KeyTreeTypeOK

LEMMA AbortDoes ==
  ASSUME TypeInv, NEW r \in Requests, Abort(r)
  PROVE  /\ UNCHANGED <<dirs, file, row, tree, level, etag>>
         /\ pc[r] = "rename" /\ pc'[r] = "aborted"
  BY DEF Abort, local, At, Goto, TypeInv, KeyTreeTypeOK

LEMMA RenameDoes ==
  ASSUME TypeInv, NEW r \in Requests, Rename(r)
  PROVE  /\ UNCHANGED <<dirs, row, level>> /\ pc[r] = "rename"
         /\ \/ IsDir("data", Here(r)) /\ pc'[r] = "error" /\ UNCHANGED <<file, tree, etag>>
            \/ /\ ~IsDir("data", Here(r)) /\ pc'[r] = "stat" /\ tree'[r] = "meta" /\ etag'[r] = r
               /\ \A q \in Paths : file'["data"][q] = IF q = Here(r) THEN r ELSE file["data"][q]
               /\ file'["meta"] = file["meta"]
  <1> USE DEF TypeInv, KeyTreeTypeOK
  <1>1. UNCHANGED <<dirs, row, level>> /\ pc[r] = "rename"
    BY DEF Rename, At
  <1>2. /\ Here(r) \in Paths /\ "data" \in Trees /\ "meta" \in Trees \ {"data"} /\ r \in Bytes
    BY <1>1, Working DEF Trees, Bytes
  <1>3. \/ IsDir("data", Here(r)) /\ pc' = [pc EXCEPT ![r] = "error"] /\ UNCHANGED <<file, tree, etag>>
        \/ /\ ~IsDir("data", Here(r)) /\ pc' = [pc EXCEPT ![r] = "stat"]
           /\ tree' = [tree EXCEPT ![r] = "meta"] /\ etag' = [etag EXCEPT ![r] = r]
           /\ file' = [file EXCEPT !["data"][Here(r)] = r]
    BY DEF Rename, Goto
  <1> QED
    BY <1>1, <1>2, <1>3, OneFile

LEMMA WriteDoes ==
  ASSUME TypeInv, NEW r \in Requests, WriteMeta(r)
  PROVE  /\ UNCHANGED <<dirs, tmp, row, tree, level, etag>> /\ pc[r] = "write"
         /\ \/ /\ IsDir("meta", Here(r)) \/ ~IsDir("meta", Parent(Here(r)))
               /\ pc'[r] = "error" /\ UNCHANGED file
            \/ /\ ~IsDir("meta", Here(r)) /\ IsDir("meta", Parent(Here(r))) /\ pc'[r] = "upsert"
               /\ \A q \in Paths : file'["meta"][q] = IF q = Here(r) THEN etag[r] ELSE file["meta"][q]
               /\ file'["data"] = file["data"]
  <1> USE DEF TypeInv, KeyTreeTypeOK
  <1>1. UNCHANGED <<dirs, tmp, row, tree, level, etag>> /\ pc[r] = "write"
    BY DEF WriteMeta, At, local
  <1>2. /\ Here(r) \in Paths /\ "meta" \in Trees /\ "data" \in Trees \ {"meta"}
        /\ etag[r] \in Bytes \cup {None}
    BY <1>1, Working DEF Trees
  <1>3. \/ /\ IsDir("meta", Here(r)) \/ ~IsDir("meta", Parent(Here(r)))
           /\ pc' = [pc EXCEPT ![r] = "error"] /\ UNCHANGED file
        \/ /\ ~IsDir("meta", Here(r)) /\ IsDir("meta", Parent(Here(r)))
           /\ pc' = [pc EXCEPT ![r] = "upsert"]
           /\ file' = [file EXCEPT !["meta"][Here(r)] = etag[r]]
    BY DEF WriteMeta, Goto
  <1> QED
    BY <1>1, <1>2, <1>3, OneFile

LEMMA UpsertDoes ==
  ASSUME TypeInv, NEW r \in Requests, Upsert(r)
  PROVE  /\ UNCHANGED <<dirs, file, tmp, tree, level, etag>> /\ pc[r] = "upsert"
         /\ \/ req[r].op = "put" /\ ~IsFile("data", Here(r)) /\ pc'[r] = "error" /\ row' = row
            \/ pc'[r] = "ok" /\ row'[req[r].key] = etag[r]
  <1>1. UNCHANGED <<dirs, file, tmp, tree, level, etag>> /\ pc[r] = "upsert"
    BY DEF Upsert, At, local, disk
  <1>2. req[r].key \in Keys
    BY <1>1, Working
  <1> QED
    BY <1>1, <1>2 DEF Upsert, Goto, TypeInv, KeyTreeTypeOK

LEMMA OpenDoes ==
  ASSUME TypeInv, NEW r \in Requests, Open(r)
  PROVE  /\ UNCHANGED <<dirs, file, tmp, row, tree, level, etag>> /\ pc[r] = "open"
         /\ pc'[r] = IF IsFile("data", Here(r)) THEN "getrow"
                     ELSE IF Blocked("data", Here(r)) THEN "error" ELSE "notfound"
  BY DEF Open, local, disk, At, Goto, TypeInv, KeyTreeTypeOK

LEMMA GetRowDoes ==
  ASSUME TypeInv, NEW r \in Requests, GetRow(r)
  PROVE  /\ UNCHANGED <<dirs, file, tmp, row, level>> /\ pc[r] = "getrow"
         /\ \/ row[req[r].key] # None /\ pc'[r] = "ok" /\ UNCHANGED <<tree, etag>>
            \/ ~IsFile("data", Here(r)) /\ pc'[r] = "error" /\ UNCHANGED <<tree, etag>>
            \/ /\ IsFile("meta", Here(r)) /\ pc'[r] = "upsert"
               /\ etag'[r] = file["meta"][Here(r)] /\ tree' = tree
            \/ /\ IsFile("data", Here(r)) /\ pc'[r] = "stat"
               /\ etag'[r] = file["data"][Here(r)] /\ tree'[r] = "meta"
  <1>1. UNCHANGED <<dirs, file, tmp, row, level>> /\ pc[r] = "getrow"
    BY DEF GetRow, At, disk
  <1>2. \/ row[req[r].key] # None /\ pc' = [pc EXCEPT ![r] = "ok"] /\ UNCHANGED <<tree, etag>>
        \/ ~IsFile("data", Here(r)) /\ pc' = [pc EXCEPT ![r] = "error"] /\ UNCHANGED <<tree, etag>>
        \/ /\ IsFile("meta", Here(r)) /\ pc' = [pc EXCEPT ![r] = "upsert"]
           /\ etag' = [etag EXCEPT ![r] = file["meta"][Here(r)]] /\ tree' = tree
        \/ /\ IsFile("data", Here(r)) /\ pc' = [pc EXCEPT ![r] = "stat"]
           /\ etag' = [etag EXCEPT ![r] = file["data"][Here(r)]]
           /\ tree' = [tree EXCEPT ![r] = "meta"]
    BY DEF GetRow, Goto
  <1> QED
    BY <1>1, <1>2 DEF TypeInv, KeyTreeTypeOK

LEMMA UnlinkDoes ==
  ASSUME TypeInv, NEW r \in Requests, Unlink(r)
  PROVE  /\ UNCHANGED <<tmp, row, tree, etag>> /\ pc[r] = "unlink"
         /\ \/ /\ Remove(tree[r], Here(r)) /\ level'[r] = Depth(Here(r)) /\ pc'[r] = "prune"
               /\ \/ CanRemove(tree[r], Here(r))
                  \/ ~Blocked(tree[r], Here(r)) /\ ~IsDir(tree[r], Here(r))
            \/ /\ ~CanRemove(tree[r], Here(r)) /\ UNCHANGED <<file, dirs, level>> /\ pc'[r] = "error"
               /\ Blocked(tree[r], Here(r)) \/ IsDir(tree[r], Here(r))
  <1>1. UNCHANGED <<tmp, row, tree, etag>> /\ pc[r] = "unlink"
    BY DEF Unlink, At
  <1>2. \/ /\ CanRemove(tree[r], Here(r)) \/ ~(Blocked(tree[r], Here(r)) \/ IsDir(tree[r], Here(r)))
           /\ Remove(tree[r], Here(r)) /\ level' = [level EXCEPT ![r] = Depth(Here(r))]
           /\ pc' = [pc EXCEPT ![r] = "prune"]
        \/ /\ ~(CanRemove(tree[r], Here(r)) \/ ~(Blocked(tree[r], Here(r)) \/ IsDir(tree[r], Here(r))))
           /\ pc' = [pc EXCEPT ![r] = "error"] /\ UNCHANGED <<file, dirs, level>>
    BY DEF Unlink, Goto
  <1>3. Depth(Here(r)) \in Nat
    BY <1>1, Working
  <1> QED
    BY <1>1, <1>2, <1>3 DEF TypeInv, KeyTreeTypeOK

LEMMA PruneDoes ==
  ASSUME TypeInv, NEW r \in Requests, Prune(r)
  PROVE  /\ UNCHANGED <<tmp, row, etag>> /\ pc[r] = "prune"
         /\ \/ /\ level[r] > 0 /\ CanRemove(tree[r], Top(r)) /\ Remove(tree[r], Top(r))
               /\ level'[r] = level[r] - 1 /\ pc'[r] = "prune" /\ tree' = tree
            \/ /\ level[r] = 0 \/ ~CanRemove(tree[r], Top(r))
               /\ pc'[r] = IF tree[r] = "data" THEN "unlink" ELSE "rmrow"
               /\ tree'[r] = "meta" /\ UNCHANGED <<file, dirs, level>>
  <1>1. UNCHANGED <<tmp, row, etag>> /\ pc[r] = "prune" /\ level[r] \in Nat
    BY DEF Prune, At, TypeInv, KeyTreeTypeOK
  <1>2. \/ /\ level[r] > 0 /\ CanRemove(tree[r], Top(r)) /\ Remove(tree[r], Top(r))
           /\ level' = [level EXCEPT ![r] = @ - 1] /\ pc' = pc /\ tree' = tree
        \/ /\ ~(level[r] > 0 /\ CanRemove(tree[r], Top(r)))
           /\ pc' = [pc EXCEPT ![r] = IF tree[r] = "data" THEN "unlink" ELSE "rmrow"]
           /\ tree' = [tree EXCEPT ![r] = "meta"] /\ UNCHANGED <<file, dirs, level>>
    BY DEF Prune, Goto, Top
  <1> QED
    BY <1>1, <1>2 DEF TypeInv, KeyTreeTypeOK

LEMMA RowGoes ==
  ASSUME TypeInv, NEW r \in Requests, RemoveRow(r)
  PROVE  /\ UNCHANGED <<dirs, file, tmp, tree, level, etag>> /\ pc[r] = "rmrow"
         /\ pc'[r] = "ok" /\ row'[req[r].key] = None
  <1>1. UNCHANGED <<dirs, file, tmp, tree, level, etag>> /\ pc[r] = "rmrow"
    BY DEF RemoveRow, At, local, disk
  <1>2. req[r].key \in Keys
    BY <1>1, Working
  <1> QED
    BY <1>1, <1>2 DEF RemoveRow, Goto, TypeInv, KeyTreeTypeOK

\* A request comes: what stays, what the request is, whom it meets.
LEMMA ArriveKeeps ==
  ASSUME TypeInv, NEW r \in Requests, Arrive(r)
  PROVE  /\ dirs' = dirs /\ file' = file /\ tmp' = tmp /\ row' = row
         /\ tree' = tree /\ level' = level /\ etag' = etag
         /\ pc[r] = "idle" /\ req[r] = None
         /\ \A q \in Requests : q # r => pc'[q] = pc[q] /\ req'[q] = req[q] /\ due'[q] = due[q]
  <1> USE DEF TypeInv, KeyTreeTypeOK
  <1>1. /\ UNCHANGED <<disk, row, local>> /\ pc[r] = "idle" /\ req[r] = None
        /\ \E c \in Calls : /\ req' = [req EXCEPT ![r] = c] /\ pc' = [pc EXCEPT ![r] = Entry(c.op)]
                           /\ due' = [due EXCEPT ![r] = Due(c)]
    BY DEF Arrive, At, Goto, Placed
  <1> QED
    BY <1>1 DEF disk, local

LEMMA ArriveAsks ==
  ASSUME TypeInv, NEW r \in Requests, Arrive(r)
  PROVE  /\ pc'[r] = IF req'[r].op = "put" THEN "stat" ELSE IF req'[r].op = "get" THEN "open" ELSE "unlink"
         /\ req'[r].op \in {"put", "get", "remove"} /\ req'[r].key \in Keys
         /\ req'[r] # None /\ due'[r] = Due(req'[r]) /\ req'[r] \in Calls
  <1> USE DEF TypeInv, KeyTreeTypeOK
  <1>1. PICK c \in Calls : /\ req' = [req EXCEPT ![r] = c] /\ pc' = [pc EXCEPT ![r] = Entry(c.op)]
                           /\ due' = [due EXCEPT ![r] = Due(c)]
    BY DEF Arrive, Goto
  <1>2. req'[r] = c /\ pc'[r] = Entry(c.op) /\ due'[r] = Due(c)
    BY <1>1
  <1> QED
    BY <1>2, CallFacts DEF Entry

LEMMA ArriveMeets ==
  ASSUME TypeInv, NEW r \in Requests, Arrive(r), NEW q \in Requests
  PROVE  /\ Here(r)' \in Paths /\ last'[Here(r)'] = r /\ swept' = swept \ {Here(r)'}
         /\ \A p \in Paths : p # Here(r)' => last'[p] = last[p]
         /\ q # r => Here(q)' = Here(q)
         /\ with'[q] = IF q = r THEN {s \in Requests : Running(s)}
                       ELSE IF Running(q) THEN with[q] \cup {r} ELSE with[q]
         /\ Running(q) => Here(q) # Here(r)'
  <1> USE DEF TypeInv, KeyTreeTypeOK
  <1>1. PICK c \in Calls : /\ Running(q) => Here(q) # Path(c.key)
                           /\ req' = [req EXCEPT ![r] = c]
                           /\ last' = [last EXCEPT ![Path(c.key)] = r]
                           /\ swept' = swept \ {Path(c.key)}
    BY DEF Arrive
  <1>2. Path(c.key) \in Paths
    BY CallFacts
  <1>3. Here(r)' = Path(c.key) /\ (q # r => Here(q)' = Here(q))
    BY <1>1 DEF Here
  <1>4. with' = [s \in Requests |->
                  IF s = r THEN {u \in Requests : Running(u)}
                  ELSE IF Running(s) THEN with[s] \cup {r} ELSE with[s]]
    BY DEF Arrive
  <1>5. with'[q] = IF q = r THEN {s \in Requests : Running(s)}
                   ELSE IF Running(q) THEN with[q] \cup {r} ELSE with[q]
    BY <1>4
  <1>6. last'[Path(c.key)] = r /\ \A p \in Paths : p # Path(c.key) => last'[p] = last[p]
    BY <1>1, <1>2
  <1> QED
    BY <1>1, <1>2, <1>3, <1>5, <1>6

LEMMA ArriveJoins ==
  ASSUME NEW r \in Requests, Arrive(r), NEW q \in Requests, q # r
  PROVE  with'[q] = IF Running(q) THEN with[q] \cup {r} ELSE with[q]
  <1>1. with' = [s \in Requests |->
                  IF s = r THEN {u \in Requests : Running(u)}
                  ELSE IF Running(s) THEN with[s] \cup {r} ELSE with[s]]
    BY DEF Arrive
  <1> QED
    BY <1>1

-----------------------------------------------------------------------------
(* A path lies under another: below it, or the same. *)

Under(q, d) == Len(q) >= Len(d) /\ Up(q, Len(d)) = d

LEMMA UnderTrans ==
  ASSUME NEW a \in Seq(STRING), NEW b \in Seq(STRING), NEW c \in Seq(STRING),
         Under(a, b), Under(b, c)
  PROVE  Under(a, c) /\ (Below(a, b) \/ Below(b, c) => Below(a, c))
  <1>1. Len(b) \in 0..Len(a) /\ Len(c) \in 0..Len(b) /\ Len(a) >= Len(c)
    BY DEF Under
  <1>2. Up(a, Len(c)) = c
    BY <1>1, PrefixOfPrefix DEF Under
  <1> QED
    BY <1>1, <1>2 DEF Under, Below

LEMMA UnderOrBelow ==
  ASSUME NEW a \in Seq(STRING), NEW b \in Seq(STRING)
  PROVE  Under(a, b) <=> Below(a, b) \/ a = b
  <1>1. a = b => Under(a, b)
    BY Whole DEF Under
  <1>2. Under(a, b) /\ Len(a) = Len(b) => a = b
    BY Whole DEF Under
  <1> QED
    BY <1>1, <1>2 DEF Under, Below

LEMMA PrefixIsAbove ==
  ASSUME NEW p \in Seq(STRING), NEW n \in 0..(Len(p) - 1)
  PROVE  /\ Up(p, n) \in Seq(STRING) /\ Len(Up(p, n)) = n
         /\ Below(p, Up(p, n)) /\ Under(p, Up(p, n)) /\ Up(p, n) # p
  <1>1. Up(p, n) \in Seq(STRING) /\ Len(Up(p, n)) = n
    BY Prefix
  <1> QED
    BY <1>1 DEF Below, Under

LEMMA AboveIsPrefix ==
  ASSUME NEW p \in Seq(STRING), NEW d \in Seq(STRING), Len(d) >= 1, Below(p, d)
  PROVE  Len(d) \in 1..(Len(p) - 1) /\ d = Up(p, Len(d)) /\ Len(p) >= 2
  BY DEF Below

\* The nearest prefix lies under all the others.
LEMMA ParentIsNearest ==
  ASSUME NEW p \in Seq(STRING), NEW d \in Seq(STRING), Len(d) >= 1, Below(p, d)
  PROVE  Parent(p) \in Seq(STRING) /\ Under(Parent(p), d) /\ Parent(p) = Up(p, Len(p) - 1)
         /\ Len(p) - 1 \in 1..(Len(p) - 1) /\ Below(p, Parent(p)) /\ Parent(p) # p
  <1>1. Len(p) - 1 \in 0..(Len(p) - 1) /\ Len(d) \in 0..(Len(p) - 1) /\ Len(p) - 1 \in 0..Len(p)
        /\ Len(p) - 1 \in 1..(Len(p) - 1)
    BY DEF Below
  <1>2. Parent(p) \in Seq(STRING) /\ Len(Parent(p)) = Len(p) - 1 /\ Below(p, Parent(p)) /\ Parent(p) # p
    BY <1>1, PrefixIsAbove DEF Parent
  <1>3. Up(Parent(p), Len(d)) = Up(p, Len(d))
    BY <1>1, PrefixOfPrefix DEF Parent
  <1> QED
    BY <1>1, <1>2, <1>3 DEF Under, Below, Parent

LEMMA TopFacts ==
  ASSUME TypeInv, NEW r \in Requests, pc[r] # "idle", level[r] <= Depth(Here(r))
  PROVE  /\ Top(r) \in Seq(STRING) /\ Len(Top(r)) = level[r] /\ level[r] \in 0..Depth(Here(r))
         /\ Below(Here(r), Top(r)) /\ Here(r) \in Seq(STRING) /\ Here(r) \in Paths
         /\ Len(Here(r)) = Depth(Here(r)) + 1
         /\ level[r] = Depth(Here(r)) => Top(r) = Parent(Here(r))
         /\ level[r] + 1 \in 1..Depth(Here(r)) =>
              /\ Deeper(r) \in Seq(STRING) /\ Len(Deeper(r)) = level[r] + 1
              /\ Parent(Deeper(r)) = Top(r) /\ Below(Deeper(r), Top(r)) /\ Below(Here(r), Deeper(r))
         /\ level[r] > 0 => /\ level[r] - 1 \in 0..Depth(Here(r))
                            /\ Up(Here(r), level[r] - 1) = Parent(Top(r))
  <1>1. /\ Here(r) \in Paths /\ Depth(Here(r)) \in Nat /\ Len(Here(r)) = Depth(Here(r)) + 1
        /\ Here(r) \in Seq(STRING) /\ level[r] \in Nat
    BY Working, PathFacts DEF TypeInv, KeyTreeTypeOK
  <1>2. level[r] \in 0..Depth(Here(r)) /\ level[r] \in 0..(Len(Here(r)) - 1)
    BY <1>1
  <1>3. Top(r) \in Seq(STRING) /\ Len(Top(r)) = level[r] /\ Below(Here(r), Top(r))
    BY <1>1, <1>2, PrefixIsAbove DEF Top
  <1>4. level[r] = Depth(Here(r)) => Top(r) = Parent(Here(r))
    BY <1>1 DEF Top, Parent
  <1>5. ASSUME level[r] + 1 \in 1..Depth(Here(r))
        PROVE  /\ Deeper(r) \in Seq(STRING) /\ Len(Deeper(r)) = level[r] + 1
               /\ Parent(Deeper(r)) = Top(r) /\ Below(Deeper(r), Top(r)) /\ Below(Here(r), Deeper(r))
    <2>1. /\ level[r] + 1 \in 0..(Len(Here(r)) - 1) /\ level[r] + 1 \in 0..Len(Here(r))
          /\ level[r] \in 0..(level[r] + 1)
      BY <1>1, <1>5
    <2>2. Deeper(r) \in Seq(STRING) /\ Len(Deeper(r)) = level[r] + 1 /\ Below(Here(r), Deeper(r))
      BY <1>1, <2>1, PrefixIsAbove DEF Deeper
    <2>3. Up(Deeper(r), level[r]) = Top(r)
      BY <1>1, <2>1, PrefixOfPrefix DEF Deeper, Top
    <2>4. Parent(Deeper(r)) = Top(r) /\ Below(Deeper(r), Top(r))
      <3>1. (level[r] + 1) - 1 = level[r] /\ level[r] + 1 > level[r]
        BY <1>1
      <3> QED
        BY <1>3, <2>2, <2>3, <3>1 DEF Parent, Below
    <2> QED
      BY <2>2, <2>4
  <1>6. level[r] > 0 => /\ level[r] - 1 \in 0..Depth(Here(r))
                        /\ Up(Here(r), level[r] - 1) = Parent(Top(r))
    <2> SUFFICES ASSUME level[r] > 0
                 PROVE  level[r] - 1 \in 0..Depth(Here(r)) /\ Up(Here(r), level[r] - 1) = Parent(Top(r))
      OBVIOUS
    <2>1. level[r] \in 0..Len(Here(r)) /\ level[r] - 1 \in 0..level[r] /\ level[r] - 1 \in 0..Depth(Here(r))
      BY <1>1, <1>2
    <2>2. Up(Up(Here(r), level[r]), level[r] - 1) = Up(Here(r), level[r] - 1)
      BY <1>1, <2>1, PrefixOfPrefix
    <2> QED
      BY <1>3, <2>1, <2>2 DEF Parent, Top
  <1> QED
    BY <1>1, <1>2, <1>3, <1>4, <1>5, <1>6

-----------------------------------------------------------------------------
(* Where a handler is: its labels belong to a request and a tree, its level  *)
(* to its label; two that run know of each other, and of their paths.        *)

Stage(r) ==
  /\ At(r, "idle") => tree[r] = "data" /\ with[r] = {}
  /\ Running(r) =>
       \/ req[r].op = "put" /\ tree[r] = "data" /\ pc[r] \in {"stat", "mkdir", "temp", "rename"}
       \/ req[r].op = "put" /\ tree[r] = "meta" /\ pc[r] \in {"stat", "mkdir", "write", "upsert"}
       \/ req[r].op = "get" /\ tree[r] = "data" /\ pc[r] \in {"open", "getrow", "upsert"}
       \/ req[r].op = "get" /\ tree[r] = "meta" /\ pc[r] \in {"stat", "mkdir", "write", "upsert"}
       \/ req[r].op = "remove" /\ pc[r] \in {"unlink", "prune"}
       \/ req[r].op = "remove" /\ tree[r] = "meta" /\ pc[r] = "rmrow"
  /\ pc[r] \in {"temp", "rename", "write"} => level[r] = Depth(Here(r))
  /\ pc[r] \in {"mkdir", "prune"} => level[r] <= Depth(Here(r))
Stages == \A r \in Requests : Stage(r)

Overlaps ==
  /\ \A q, r \in Requests : /\ Running(q) /\ Running(r) => q = r \/ q \in with[r]
                            /\ q \in with[r] => req[q] # None /\ req[r] # None
  /\ \A r \in Requests : Running(r) => last[Here(r)] = r
Orderly == Stages /\ Overlaps

LEMMA StageStep ==
  ASSUME TypeInv, NEW r \in Requests, Stage(r), Step(r)
  PROVE  Stage(r)'
  <1> USE DEF Running, Ended, At
  <1>1. /\ req' = req /\ Here(r)' = Here(r) /\ Depth(Here(r)) \in Nat /\ Depth(Here(r))' = Depth(Here(r))
        /\ Running(r) /\ tree[r] \in {"data", "meta"} /\ level[r] \in Nat
    <2>1. Here(r)' = Here(r) /\ req' = req
      BY StepKeeps
    <2> QED
      BY <2>1, StepKeeps DEF Trees, Depth
  <1>2. CASE Stat(r)
    BY <1>1, <1>2, StatDoes DEF Stage
  <1>3. CASE Mkdir(r)
    BY <1>1, <1>3, MkdirDoes DEF Stage
  <1>4. CASE CreateTemp(r)
    BY <1>1, <1>4, TempDoes DEF Stage
  <1>5. CASE Abort(r)
    BY <1>1, <1>5, AbortDoes DEF Stage
  <1>6. CASE Rename(r)
    BY <1>1, <1>6, RenameDoes DEF Stage
  <1>7. CASE WriteMeta(r)
    BY <1>1, <1>7, WriteDoes DEF Stage
  <1>8. CASE Upsert(r) \/ Open(r) \/ RemoveRow(r)
    BY <1>1, <1>8, UpsertDoes, OpenDoes, RowGoes DEF Stage
  <1>9. CASE GetRow(r)
    BY <1>1, <1>9, GetRowDoes DEF Stage
  <1>10. CASE Unlink(r)
    BY <1>1, <1>10, UnlinkDoes DEF Stage
  <1>11. CASE Prune(r)
    BY <1>1, <1>11, PruneDoes DEF Stage
  <1> QED
    BY <1>2, <1>3, <1>4, <1>5, <1>6, <1>7, <1>8, <1>9, <1>10, <1>11 DEF Step

LEMMA OrderlyStep ==
  ASSUME TypeInv, Orderly, NEW r \in Requests, Step(r)
  PROVE  Orderly'
  <1>1. /\ req' = req /\ with' = with /\ last' = last /\ Running(r)
        /\ \A q \in Requests \ {r} : pc'[q] = pc[q] /\ tree'[q] = tree[q] /\ level'[q] = level[q]
        /\ \A q : Here(q)' = Here(q)
    BY StepKeeps
  <1>2. ASSUME NEW q \in Requests \ {r} PROVE Stage(q)'
    BY <1>1 DEF Orderly, Stages, Stage, At, Running, Depth
  <1>3. Stages'
    BY <1>2, StageStep DEF Orderly, Stages
  <1>4. \A q \in Requests : Running(q)' => Running(q)
    BY <1>1 DEF Running
  <1>5. Overlaps'
    BY <1>1, <1>4 DEF Orderly, Overlaps
  <1> QED
    BY <1>3, <1>5 DEF Orderly

LEMMA OrderlyArrive ==
  ASSUME TypeInv, Orderly, NEW r \in Requests, Arrive(r)
  PROVE  Orderly'
  <1>1. /\ tree' = tree /\ level' = level /\ pc[r] = "idle" /\ req[r] = None
        /\ \A q \in Requests : q # r => pc'[q] = pc[q] /\ req'[q] = req[q]
    BY ArriveKeeps
  <1>2. /\ pc'[r] = IF req'[r].op = "put" THEN "stat" ELSE IF req'[r].op = "get" THEN "open" ELSE "unlink"
        /\ req'[r].op \in {"put", "get", "remove"} /\ req'[r] # None
    BY ArriveAsks
  <1>3. /\ Here(r)' \in Paths /\ last'[Here(r)'] = r
        /\ \A p \in Paths : p # Here(r)' => last'[p] = last[p]
        /\ with'[r] = {s \in Requests : Running(s)}
    BY ArriveMeets
  <1>4. ASSUME NEW q \in Requests, q # r
        PROVE  /\ pc'[q] = pc[q] /\ req'[q] = req[q] /\ Here(q)' = Here(q)
               /\ with'[q] = IF Running(q) THEN with[q] \cup {r} ELSE with[q]
               /\ (Running(q)' <=> Running(q))
               /\ Running(q) => Here(q) # Here(r)' /\ req[q] # None /\ Here(q) \in Paths
    <2>1. Running(q) => req[q] # None /\ Here(q) \in Paths
      BY Working DEF Running, TypeInv, Placed, At
    <2>2. Here(q)' = Here(q) /\ (Running(q) => Here(q) # Here(r)')
      BY <1>4, ArriveMeets
    <2>3. with'[q] = IF Running(q) THEN with[q] \cup {r} ELSE with[q]
      BY <1>4, ArriveJoins
    <2>4. Running(q)' <=> Running(q)
      BY <1>1, <1>4 DEF Running
    <2> QED
      BY <1>1, <1>4, <2>1, <2>2, <2>3, <2>4
  <1>5. ~Running(r) /\ Running(r)'
    BY <1>1, <1>2 DEF Running, Ended
  <1>6. ASSUME NEW q \in Requests, q # r PROVE Stage(q)'
    <2>1. /\ pc'[q] = pc[q] /\ req'[q] = req[q] /\ Here(q)' = Here(q) /\ Stage(q)
          /\ Running(q)' <=> Running(q)
          /\ Depth(Here(q))' = Depth(Here(q)) /\ (At(q, "idle") => with'[q] = with[q])
      BY <1>4, <1>6 DEF Orderly, Stages, Depth, Running, At
    <2> QED
      BY <1>1, <2>1 DEF Stage, At
  <1>7. Stage(r)'
    BY <1>1, <1>2 DEF Orderly, Stages, Stage, At, Running, Ended
  <1>8. ASSUME NEW q \in Requests, NEW s \in Requests
        PROVE  /\ Running(q)' /\ Running(s)' => q = s \/ q \in with'[s]
               /\ q \in with'[s] => req'[q] # None /\ req'[s] # None
    <2>1. /\ Running(q) /\ Running(s) => q = s \/ q \in with[s]
          /\ q \in with[s] => req[q] # None /\ req[s] # None
      BY DEF Orderly, Overlaps
    <2>2. CASE s = r
      BY <1>2, <1>3, <1>4, <1>5, <2>2
    <2>3. CASE s # r
      <3>1. /\ with'[s] = IF Running(s) THEN with[s] \cup {r} ELSE with[s]
            /\ req'[s] = req[s] /\ (Running(s)' <=> Running(s)) /\ (Running(s) => req[s] # None)
        BY <1>4, <2>3
      <3>2. CASE q = r
        BY <1>1, <1>2, <2>1, <3>1, <3>2
      <3>3. CASE q # r
        BY <1>4, <2>1, <3>1, <3>3
      <3> QED
        BY <3>2, <3>3
    <2> QED
      BY <2>2, <2>3
  <1>9. ASSUME NEW q \in Requests, Running(q)' PROVE (last[Here(q)])' = q
    <2>1. CASE q = r
      BY <1>3, <2>1
    <2>2. CASE q # r
      <3>1. Running(q) /\ Here(q)' = Here(q) /\ Here(q) # Here(r)' /\ Here(q) \in Paths
        BY <1>4, <1>9, <2>2
      <3>2. last[Here(q)] = q
        BY <3>1 DEF Orderly, Overlaps
      <3> QED
        BY <1>3, <3>1, <3>2
    <2> QED
      BY <2>1, <2>2
  <1> QED
    <2>1. Stages'
      BY <1>6, <1>7 DEF Stages
    <2>2. Overlaps'
      BY <1>8, <1>9 DEF Overlaps
    <2> QED
      BY <2>1, <2>2 DEF Orderly

LEMMA OrderlyNext ==
  ASSUME TypeInv, Orderly, [Next]_vars
  PROVE  Orderly'
  <1>1. CASE UNCHANGED vars \/ Rest \/ Reindex
    <2>1. UNCHANGED <<pc, tree, level, req, with, last>>
      BY <1>1 DEF Reindex, Rest, vars, local, env
    <2> QED
      BY <2>1 DEF Orderly, Stages, Stage, Overlaps, At, Running, Here
  <1> QED
    BY <1>1, OrderlyStep, OrderlyArrive DEF Next

LEMMA OrderlyInit == Init => Orderly
  BY DEF Init, Orderly, Stages, Stage, Overlaps, At, Running, Ended

-----------------------------------------------------------------------------
(* What a handler that stores a sidecar or a row has read or written. *)

Storing(r) == Running(r) /\ \/ req[r].op = "put" /\ tree[r] = "meta"
                            \/ req[r].op = "get" /\ pc[r] # "open"
Tagged == \A r \in Requests : Storing(r) /\ pc[r] # "getrow" =>
  etag[r] # None /\ (req[r].op = "put" => etag[r] = r)

LEMMA TaggedStep ==
  ASSUME TypeInv, Orderly, Tagged, NEW r \in Requests, Step(r)
  PROVE  Tagged'
  <1> USE DEF Storing, Running, Ended
  <1>1. /\ req' = req /\ Running(r) /\ Here(r) \in Paths /\ r # None /\ Stage(r)
        /\ \A q \in Requests \ {r} : pc'[q] = pc[q] /\ tree'[q] = tree[q] /\ etag'[q] = etag[q]
    BY StepKeeps, KeyTreeConstants DEF Bytes, Orderly, Stages
  <1>2. ASSUME Storing(r)' /\ pc'[r] # "getrow"
        PROVE  etag'[r] # None /\ (req'[r].op = "put" => etag'[r] = r)
    <2> USE DEF Tagged
    <2>1. CASE Stat(r)
      BY <1>1, <1>2, <2>1, StatDoes
    <2>2. CASE Mkdir(r)
      BY <1>1, <1>2, <2>2, MkdirDoes
    <2>3. CASE CreateTemp(r) \/ Abort(r)
      BY <1>1, <1>2, <2>3, TempDoes, AbortDoes DEF Stage
    <2>4. CASE Rename(r)
      BY <1>1, <1>2, <2>4, RenameDoes
    <2>5. CASE WriteMeta(r)
      BY <1>1, <1>2, <2>5, WriteDoes
    <2>6. CASE Upsert(r) \/ Open(r) \/ RemoveRow(r)
      BY <1>1, <1>2, <2>6, UpsertDoes, OpenDoes, RowGoes
    <2>7. CASE GetRow(r)
      BY <1>1, <1>2, <2>7, GetRowDoes DEF IsFile, Stage
    <2>8. CASE Unlink(r) \/ Prune(r)
      BY <1>1, <1>2, <2>8, UnlinkDoes, PruneDoes DEF Stage
    <2> QED
      BY <2>1, <2>2, <2>3, <2>4, <2>5, <2>6, <2>7, <2>8 DEF Step
  <1> QED
    BY <1>1, <1>2 DEF Tagged

LEMMA TaggedArrive ==
  ASSUME TypeInv, Orderly, Tagged, NEW r \in Requests, Arrive(r)
  PROVE  Tagged'
  <1>1. /\ tree' = tree /\ etag' = etag /\ pc[r] = "idle"
        /\ \A q \in Requests : q # r => pc'[q] = pc[q] /\ req'[q] = req[q]
    BY ArriveKeeps
  <1>2. /\ pc'[r] = IF req'[r].op = "put" THEN "stat" ELSE IF req'[r].op = "get" THEN "open" ELSE "unlink"
        /\ req'[r].op \in {"put", "get", "remove"}
    BY ArriveAsks
  <1>3. ~Storing(r)'
    BY <1>1, <1>2 DEF Storing, Orderly, Stages, Stage, At
  <1> QED
    BY <1>1, <1>3 DEF Tagged, Storing, Running

LEMMA TaggedNext ==
  ASSUME TypeInv, Orderly, Tagged, [Next]_vars
  PROVE  Tagged'
  <1>1. CASE UNCHANGED vars \/ Rest \/ Reindex
    <2>1. UNCHANGED <<pc, tree, etag, req>>
      BY <1>1 DEF Reindex, Rest, vars, local, env
    <2> QED
      BY <2>1 DEF Tagged, Storing, Running
  <1> QED
    BY <1>1, TaggedStep, TaggedArrive DEF Next

-----------------------------------------------------------------------------
(* Why a directory is there: for a file below it, for an upload that was     *)
(* broken off below it, or for a handler that is below it on its way to put  *)
(* a file there or to take the directory away (Holds).                       *)

Holds(r, t, d) ==
  /\ tree[r] = t /\ pc[r] \in {"mkdir", "temp", "rename", "write", "prune"}
  /\ Top(r) \in dirs[t] /\ Under(Top(r), d)
Why(t, d, S) ==
  \/ \E p \in Paths : IsFile(t, p) /\ Below(p, d)
  \/ t = "data" /\ AbortedBelow(d)
  \/ \E r \in S : Holds(r, t, d)
Needed == \A t \in Trees : \A d \in dirs[t] : Why(t, d, Requests)

LEMMA AbortedStays ==
  ASSUME TypeInv, NEW r \in Requests, Step(r), NEW d, AbortedBelow(d)
  PROVE  AbortedBelow(d)'
  <1>1. PICK q \in Requests : At(q, "aborted") /\ Below(Here(q), d)
    BY DEF AbortedBelow
  <1>2. q # r /\ pc'[q] = pc[q] /\ Here(q)' = Here(q)
    BY <1>1, StepKeeps DEF At, Running, Ended
  <1> QED
    BY <1>1, <1>2 DEF AbortedBelow, At

LEMMA WhyCarries ==
  ASSUME TypeInv, NEW r \in Requests, Step(r), NEW t \in Trees, NEW d,
         Why(t, d, Requests \ {r}), dirs[t] \subseteq dirs'[t],
         \A p \in Paths : IsFile(t, p) => IsFile(t, p)'
  PROVE  Why(t, d, Requests)'
  <1>1. CASE \E p \in Paths : IsFile(t, p) /\ Below(p, d)
    BY <1>1 DEF Why
  <1>2. CASE t = "data" /\ AbortedBelow(d)
    BY <1>2, AbortedStays DEF Why
  <1>3. CASE \E q \in Requests \ {r} : Holds(q, t, d)
    <2>1. PICK q \in Requests \ {r} : Holds(q, t, d)
      BY <1>3
    <2>2. pc'[q] = pc[q] /\ tree'[q] = tree[q] /\ level'[q] = level[q] /\ Here(q)' = Here(q)
      BY StepKeeps
    <2>3. Top(q)' = Top(q)
      BY <2>2 DEF Top
    <2>4. Holds(q, t, d)'
      BY <2>1, <2>2, <2>3 DEF Holds
    <2> QED
      BY <2>4 DEF Why
  <1> QED
    BY <1>1, <1>2, <1>3 DEF Why

\* What a directory is there for, those above it are.
LEMMA WhyPasses ==
  ASSUME TypeInv, NEW t \in Trees, NEW S \in SUBSET Requests,
         NEW c \in Seq(STRING), NEW d \in Seq(STRING), Under(c, d), Why(t, c, S)
  PROVE  Why(t, d, S)
  <1>1. CASE \E p \in Paths : IsFile(t, p) /\ Below(p, c)
    <2>1. PICK p \in Paths : IsFile(t, p) /\ Below(p, c)
      BY <1>1
    <2>2. p \in Seq(STRING) /\ Under(p, c)
      BY <2>1, PathFacts, UnderOrBelow
    <2>3. Below(p, d)
      BY <2>1, <2>2, UnderTrans
    <2> QED
      BY <2>1, <2>3 DEF Why
  <1>2. CASE t = "data" /\ AbortedBelow(c)
    <2>1. PICK q \in Requests : At(q, "aborted") /\ Below(Here(q), c)
      BY <1>2 DEF AbortedBelow
    <2>2. Here(q) \in Seq(STRING)
      BY <2>1, Working, PathFacts DEF At
    <2>3. Below(Here(q), d)
      BY <2>1, <2>2, UnderOrBelow, UnderTrans
    <2> QED
      BY <1>2, <2>1, <2>3 DEF Why, AbortedBelow
  <1>3. CASE \E q \in S : Holds(q, t, c)
    <2>1. PICK q \in S : Holds(q, t, c)
      BY <1>3
    <2>2. Top(q) \in Seq(STRING)
      BY <2>1, DirTypes DEF Holds
    <2>3. Under(Top(q), d)
      BY <2>1, <2>2, UnderTrans DEF Holds
    <2> QED
      BY <2>1, <2>3 DEF Why, Holds
  <1> QED
    BY <1>1, <1>2, <1>3 DEF Why

\* A step that takes nothing away, if what its handler held is there for something else.
LEMMA KeepsNeeded ==
  ASSUME TypeInv, Needed, NEW r \in Requests, Step(r), dirs' = dirs,
         \A t \in Trees, p \in Paths : IsFile(t, p) => IsFile(t, p)',
         \A t \in Trees : \A d \in dirs[t] :
           Holds(r, t, d) => Why(t, d, Requests \ {r}) \/ Why(t, d, Requests)'
  PROVE  Needed'
  <1> SUFFICES ASSUME NEW t \in Trees, NEW d \in dirs[t] PROVE Why(t, d, Requests)'
    BY DEF Needed
  <1>1. Why(t, d, Requests \ {r}) \/ Holds(r, t, d)
    BY DEF Needed, Why
  <1>2. Why(t, d, Requests \ {r}) => Why(t, d, Requests)'
    BY WhyCarries
  <1> QED
    BY <1>1, <1>2

\* Who takes away a file or a directory holds the one above it next.
LEMMA RemoveNeeds ==
  ASSUME TypeInv, Treelike, Needed, NEW r \in Requests, Step(r), NEW x \in Seq(STRING),
         Remove(tree[r], x), tree'[r] = tree[r], pc'[r] = "prune",
         Len(x) >= 2 => Top(r)' = Parent(x),
         \A d : Holds(r, tree[r], d) => Top(r) = x
  PROVE  Needed'
  <1>1. tree[r] \in Trees
    BY StepKeeps
  <1>2. /\ dirs'[tree[r]] = dirs[tree[r]] \ {x}
        /\ \A u \in Trees \ {tree[r]} : dirs'[u] = dirs[u] /\ file'[u] = file[u]
        /\ \A p \in Paths : file'[tree[r]][p] = IF p = x THEN None ELSE file[tree[r]][p]
    BY <1>1, RemoveType
  <1>3. ASSUME NEW u \in Trees, u # tree[r], NEW d \in dirs'[u] PROVE Why(u, d, Requests)'
    <2>1. dirs'[u] = dirs[u] /\ \A p \in Paths : IsFile(u, p) => IsFile(u, p)'
      BY <1>2, <1>3 DEF IsFile
    <2>2. Why(u, d, Requests \ {r})
      BY <1>3, <2>1 DEF Needed, Why, Holds
    <2> QED
      BY <2>1, <2>2, WhyCarries
  <1>4. ASSUME NEW d \in dirs'[tree[r]] PROVE Why(tree[r], d, Requests)'
    <2>1. d \in dirs[tree[r]] /\ d # x
      BY <1>2, <1>4
    <2>2. d \in Seq(STRING) /\ Len(d) >= 1
      BY <1>1, <2>1, DirTypes
    <2>3. ASSUME Below(x, d), InTree(tree[r], x) PROVE Holds(r, tree[r], d)'
      <3>1. /\ Under(Parent(x), d) /\ Parent(x) = Up(x, Len(x) - 1) /\ Len(x) - 1 \in 1..(Len(x) - 1)
            /\ Parent(x) # x
        BY <2>2, <2>3, ParentIsNearest
      <3>2. Parent(x) \in dirs'[tree[r]]
        BY <1>2, <2>3, <3>1 DEF InTree
      <3>3. Top(r)' = Parent(x)
        <4>1. Len(x) \in Nat /\ Len(x) >= 2
          BY <3>1
        <4> QED
          BY <4>1
      <3> QED
        BY <3>1, <3>2, <3>3 DEF Holds
    <2>4. ASSUME NEW p \in Paths, IsFile(tree[r], p), Below(p, d) PROVE Why(tree[r], d, Requests)'
      <3>1. CASE p = x
        <4>1. InTree(tree[r], x)
          BY <1>1, <2>4, <3>1 DEF Treelike, FilesInTree
        <4> QED
          BY <2>3, <2>4, <3>1, <4>1 DEF Why
      <3>2. CASE p # x
        <4>1. IsFile(tree[r], p)'
          BY <1>2, <2>4, <3>2 DEF IsFile
        <4> QED
          BY <2>4, <4>1 DEF Why
      <3> QED
        BY <3>1, <3>2
    <2>5. ASSUME NEW q \in Requests, Holds(q, tree[r], d) PROVE Why(tree[r], d, Requests)'
      <3>1. CASE Top(q) = x
        <4>1. Below(x, d)
          BY <2>1, <2>2, <2>5, <3>1, UnderOrBelow DEF Holds
        <4>2. InTree(tree[r], x)
          BY <1>1, <2>5, <3>1 DEF Holds, Treelike, DirsInTree
        <4> QED
          BY <2>3, <4>1, <4>2 DEF Why
      <3>2. CASE Top(q) # x
        <4>1. q # r
          BY <2>5, <3>2
        <4>2. pc'[q] = pc[q] /\ tree'[q] = tree[q] /\ level'[q] = level[q] /\ Here(q)' = Here(q)
          BY <4>1, StepKeeps
        <4>3. Top(q)' = Top(q) /\ Top(q) \in dirs'[tree[r]]
          BY <1>2, <2>5, <3>2, <4>2 DEF Top, Holds
        <4>4. Holds(q, tree[r], d)'
          BY <2>5, <4>2, <4>3, StepKeeps DEF Holds
        <4> QED
          BY <4>4 DEF Why
      <3> QED
        BY <3>1, <3>2
    <2>6. CASE tree[r] = "data" /\ AbortedBelow(d)
      BY <2>6, AbortedStays DEF Why
    <2> QED
      BY <1>1, <2>1, <2>4, <2>5, <2>6 DEF Needed, Why
  <1>5. \A u \in Trees : \A d \in dirs'[u] : Why(u, d, Requests)'
    BY <1>3, <1>4
  <1> QED
    BY <1>5 DEF Needed

\* A directory below the one that a handler holds is there for something else.
LEMMA DeeperNeeds ==
  ASSUME TypeInv, Needed, NEW t \in Trees, NEW r \in Requests, NEW c \in dirs[t], NEW d \in dirs[t],
         Top(r) \in Seq(STRING), Below(c, Top(r)), Under(Top(r), d)
  PROVE  Why(t, d, Requests \ {r})
  <1>1. c \in Seq(STRING) /\ d \in Seq(STRING)
    BY DirTypes
  <1>2. ~Under(Top(r), c) /\ Under(c, d)
    <2>1. ~Under(Top(r), c)
      BY <1>1 DEF Under, Below
    <2>2. Under(c, Top(r))
      BY <1>1, UnderOrBelow
    <2> QED
      BY <1>1, <2>1, <2>2, UnderTrans
  <1>3. Why(t, c, Requests \ {r})
    BY <1>2 DEF Needed, Why, Holds
  <1> QED
    BY <1>1, <1>2, <1>3, WhyPasses

\* A file below it is a reason too.
LEMMA FileNeeds ==
  ASSUME TypeInv, NEW t \in Trees, NEW S, NEW p \in Paths, IsFile(t, p),
         NEW c \in Seq(STRING), NEW d \in Seq(STRING), Below(p, c), Under(c, d)
  PROVE  Why(t, d, S)
  <1>1. p \in Seq(STRING)
    BY PathFacts
  <1>2. Below(p, d)
    BY <1>1, UnderOrBelow, UnderTrans
  <1> QED
    BY <1>2 DEF Why

LEMMA MkdirNeeds ==
  ASSUME TypeInv, Needed, Orderly, NEW r \in Requests, Mkdir(r)
  PROVE  Needed'
  <1>1. Step(r) /\ UNCHANGED <<file, tmp, row, tree, etag>> /\ pc[r] = "mkdir" /\ tree[r] \in Trees
        /\ file' = file /\ tree' = tree
    BY MkdirDoes, StepKeeps DEF Step
  <1>2. level[r] <= Depth(Here(r)) /\ Here(r)' = Here(r)
    BY <1>1, StepKeeps DEF Orderly, Stages, Stage
  <1>3. /\ Top(r) \in Seq(STRING) /\ Here(r) \in Seq(STRING)
        /\ level[r] + 1 \in 1..Depth(Here(r)) =>
             Deeper(r) \in Seq(STRING) /\ Below(Deeper(r), Top(r))
    BY <1>1, <1>2, TopFacts
  <1>4. \A t \in Trees, p \in Paths : IsFile(t, p) => IsFile(t, p)'
    BY <1>1 DEF IsFile
  <1>5. CASE /\ level[r] = Depth(Here(r)) /\ UNCHANGED <<dirs, level>>
             /\ pc'[r] = IF tree[r] = "data" THEN "temp" ELSE "write"
    <2>1. \A t \in Trees : \A d \in dirs[t] : Holds(r, t, d) => Holds(r, t, d)'
      BY <1>1, <1>2, <1>5 DEF Holds, Top
    <2>2. \A t \in Trees : \A d \in dirs[t] : Holds(r, t, d) => Why(t, d, Requests)'
      BY <2>1 DEF Why
    <2> QED
      BY <1>1, <1>4, <1>5, <2>2, KeepsNeeded
  <1>6. CASE /\ level[r] + 1 \in 1..Depth(Here(r)) /\ pc'[r] = "error" /\ UNCHANGED <<dirs, level>>
             /\ ~IsDir(tree[r], Top(r)) \/ IsFile(tree[r], Deeper(r))
    <2>1. ASSUME NEW t \in Trees, NEW d \in dirs[t], Holds(r, t, d)
          PROVE  Why(t, d, Requests \ {r})
      <3>1. t = tree[r] /\ Under(Top(r), d) /\ IsDir(tree[r], Top(r)) /\ d \in Seq(STRING)
        BY <2>1, DirTypes DEF Holds, IsDir
      <3>2. IsFile(t, Deeper(r)) /\ Deeper(r) \in Paths
        BY <1>6, <3>1 DEF IsFile
      <3> QED
        BY <1>3, <1>6, <3>1, <3>2, FileNeeds
    <2> QED
      BY <1>1, <1>4, <1>6, <2>1, KeepsNeeded
  <1>7. CASE /\ level[r] + 1 \in 1..Depth(Here(r)) /\ pc' = pc /\ level'[r] = level[r] + 1
             /\ dirs'[tree[r]] = dirs[tree[r]] \cup {Deeper(r)}
             /\ \A u \in Trees \ {tree[r]} : dirs'[u] = dirs[u]
    <2>1. Top(r)' = Deeper(r) /\ Deeper(r) \in Seq(STRING) /\ Below(Deeper(r), Top(r))
      BY <1>2, <1>3, <1>7 DEF Top, Deeper
    <2>2. ASSUME NEW t \in Trees, t = tree[r], NEW d \in Seq(STRING), Under(Deeper(r), d)
          PROVE  Why(t, d, Requests)'
      <3>1. Holds(r, t, d)'
        BY <1>1, <1>7, <2>1, <2>2 DEF Holds
      <3> QED
        BY <3>1 DEF Why
    <2>3. ASSUME NEW t \in Trees, NEW d \in dirs[t] PROVE Why(t, d, Requests)'
      <3>1. CASE Why(t, d, Requests \ {r})
        <4>1. dirs[t] \subseteq dirs'[t]
          BY <1>7
        <4> QED
          BY <1>1, <1>4, <3>1, <4>1, WhyCarries
      <3>2. CASE Holds(r, t, d)
        <4>1. t = tree[r] /\ Under(Top(r), d) /\ d \in Seq(STRING)
          BY <3>2, DirTypes DEF Holds
        <4>2. Under(Deeper(r), d)
          BY <1>3, <2>1, <4>1, UnderOrBelow, UnderTrans
        <4> QED
          BY <2>2, <4>1, <4>2
      <3> QED
        BY <3>1, <3>2 DEF Needed, Why
    <2>4. ASSUME NEW t \in Trees, NEW d \in dirs'[t] PROVE Why(t, d, Requests)'
      <3>1. CASE d \in dirs[t]
        BY <2>3, <3>1
      <3>2. CASE t = tree[r] /\ d = Deeper(r)
        <4>1. d \in Seq(STRING) /\ Under(Deeper(r), d)
          BY <2>1, <3>2, UnderOrBelow
        <4> QED
          BY <2>2, <3>2, <4>1
      <3> QED
        BY <1>7, <2>4, <3>1, <3>2
    <2> QED
      BY <2>4 DEF Needed
  <1> QED
    BY <1>5, <1>6, <1>7, MkdirDoes

LEMMA TempNeeds ==
  ASSUME TypeInv, Needed, Orderly, NEW r \in Requests, CreateTemp(r) \/ Abort(r)
  PROVE  Needed'
  <1>1. Step(r) /\ dirs' = dirs /\ file' = file /\ tree' = tree /\ level' = level
        /\ pc[r] \in {"temp", "rename"} /\ Running(r)
    BY TempDoes, AbortDoes, StepKeeps DEF Step
  <1>2. tree[r] = "data" /\ level[r] = Depth(Here(r)) /\ Here(r)' = Here(r)
    BY <1>1, StepKeeps DEF Orderly, Stages, Stage
  <1>3. /\ Top(r) = Parent(Here(r)) /\ Top(r) \in Seq(STRING) /\ Here(r) \in Seq(STRING)
        /\ Below(Here(r), Top(r))
    <2>1. level[r] <= Depth(Here(r)) /\ pc[r] # "idle"
      BY <1>1, <1>2, StepKeeps
    <2> QED
      BY <1>2, <2>1, TopFacts
  <1>4. \A t \in Trees, p \in Paths : IsFile(t, p) => IsFile(t, p)'
    BY <1>1 DEF IsFile
  <1>5. ASSUME NEW t \in Trees, NEW d \in dirs[t], Holds(r, t, d) PROVE Why(t, d, Requests)'
    <2>1. CASE pc'[r] = "rename"
      <3>1. Holds(r, t, d)'
        BY <1>1, <1>2, <1>5, <2>1 DEF Holds, Top
      <3> QED
        BY <3>1 DEF Why
    <2>2. CASE pc'[r] = "error" /\ ~IsDir("data", Parent(Here(r)))
      BY <1>2, <1>3, <1>5, <2>2 DEF Holds, IsDir
    <2>3. CASE pc'[r] = "aborted"
      <3>1. d \in Seq(STRING) /\ Under(Top(r), d) /\ t = "data"
        BY <1>2, <1>5, DirTypes DEF Holds
      <3>2. Below(Here(r), d)
        BY <1>3, <3>1, UnderOrBelow, UnderTrans
      <3>3. AbortedBelow(d)'
        BY <1>2, <2>3, <3>2 DEF AbortedBelow, At
      <3> QED
        BY <3>1, <3>3 DEF Why
    <2> QED
      BY <2>1, <2>2, <2>3, TempDoes, AbortDoes
  <1> QED
    BY <1>1, <1>4, <1>5, KeepsNeeded

LEMMA RenameNeeds ==
  ASSUME TypeInv, Needed, Orderly, NEW r \in Requests, Rename(r)
  PROVE  Needed'
  <1>1. Step(r) /\ dirs' = dirs /\ level' = level /\ pc[r] = "rename" /\ Running(r) /\ Here(r) \in Paths
    BY RenameDoes, StepKeeps DEF Step
  <1>2. tree[r] = "data" /\ level[r] = Depth(Here(r))
    BY <1>1 DEF Orderly, Stages, Stage
  <1>3. /\ Top(r) \in Seq(STRING) /\ Here(r) \in Seq(STRING) /\ Below(Here(r), Top(r))
    <2>1. level[r] <= Depth(Here(r)) /\ pc[r] # "idle"
      BY <1>1, <1>2, StepKeeps
    <2> QED
      BY <2>1, TopFacts
  <1>4. CASE IsDir("data", Here(r)) /\ UNCHANGED <<file, tree, etag>>
    <2>1. \A t \in Trees, p \in Paths : IsFile(t, p) => IsFile(t, p)'
      BY <1>4 DEF IsFile
    <2>2. Here(r) \in dirs["data"]
      BY <1>1, <1>4, PathFacts DEF IsDir
    <2>3. ASSUME NEW t \in Trees, NEW d \in dirs[t], Holds(r, t, d) PROVE Why(t, d, Requests \ {r})
      <3>1. t = "data" /\ Under(Top(r), d)
        BY <1>2, <2>3 DEF Holds
      <3> QED
        BY <1>3, <2>2, <3>1, DeeperNeeds
    <2> QED
      BY <1>1, <2>1, <2>3, KeepsNeeded
  <1>5. CASE /\ \A q \in Paths : file'["data"][q] = IF q = Here(r) THEN r ELSE file["data"][q]
             /\ file'["meta"] = file["meta"]
    <2>1. r # None
      BY KeyTreeConstants DEF Bytes
    <2>2. /\ \A t \in Trees, p \in Paths : IsFile(t, p) => IsFile(t, p)'
          /\ file'["data"][Here(r)] # None
      BY <1>1, <1>5, <2>1 DEF IsFile, Trees
    <2>3. ASSUME NEW t \in Trees, NEW d \in dirs[t], Holds(r, t, d) PROVE Why(t, d, Requests)'
      <3>1. t = "data" /\ Under(Top(r), d) /\ d \in Seq(STRING)
        BY <1>2, <2>3, DirTypes DEF Holds
      <3>2. Below(Here(r), d)
        BY <1>3, <3>1, UnderOrBelow, UnderTrans
      <3>3. PICK p \in Paths : p = Here(r)
        BY <1>1
      <3>4. IsFile(t, p)' /\ Below(p, d)
        BY <2>2, <3>1, <3>2, <3>3 DEF IsFile
      <3> QED
        BY <3>4 DEF Why
    <2> QED
      BY <1>1, <2>2, <2>3, KeepsNeeded
  <1> QED
    BY <1>4, <1>5, RenameDoes

LEMMA WriteNeeds ==
  ASSUME TypeInv, Needed, Orderly, Tagged, NEW r \in Requests, WriteMeta(r)
  PROVE  Needed'
  <1>1. /\ Step(r) /\ dirs' = dirs /\ tree' = tree /\ level' = level /\ pc[r] = "write"
        /\ Running(r) /\ Here(r) \in Paths
    BY WriteDoes, StepKeeps DEF Step
  <1>2. tree[r] = "meta" /\ level[r] = Depth(Here(r)) /\ etag[r] # None
    BY <1>1 DEF Orderly, Stages, Stage, Tagged, Storing
  <1>3. /\ Top(r) \in Seq(STRING) /\ Here(r) \in Seq(STRING) /\ Below(Here(r), Top(r))
        /\ Top(r) = Parent(Here(r))
    <2>1. level[r] <= Depth(Here(r)) /\ pc[r] # "idle"
      BY <1>1, <1>2, StepKeeps
    <2> QED
      BY <1>2, <2>1, TopFacts
  <1>4. CASE (IsDir("meta", Here(r)) \/ ~IsDir("meta", Parent(Here(r)))) /\ UNCHANGED file
    <2>1. \A t \in Trees, p \in Paths : IsFile(t, p) => IsFile(t, p)'
      BY <1>4 DEF IsFile
    <2>2. ASSUME NEW t \in Trees, NEW d \in dirs[t], Holds(r, t, d) PROVE Why(t, d, Requests \ {r})
      <3>1. t = "meta" /\ Under(Top(r), d) /\ IsDir("meta", Parent(Here(r)))
        BY <1>2, <1>3, <2>2 DEF Holds, IsDir
      <3>2. Here(r) \in dirs["meta"]
        BY <1>1, <1>4, <3>1, PathFacts DEF IsDir
      <3> QED
        BY <1>3, <3>1, <3>2, DeeperNeeds
    <2> QED
      BY <1>1, <2>1, <2>2, KeepsNeeded
  <1>5. CASE /\ \A q \in Paths : file'["meta"][q] = IF q = Here(r) THEN etag[r] ELSE file["meta"][q]
             /\ file'["data"] = file["data"]
    <2>1. /\ \A t \in Trees, p \in Paths : IsFile(t, p) => IsFile(t, p)'
          /\ file'["meta"][Here(r)] # None
      BY <1>1, <1>2, <1>5 DEF IsFile, Trees
    <2>2. ASSUME NEW t \in Trees, NEW d \in dirs[t], Holds(r, t, d) PROVE Why(t, d, Requests)'
      <3>1. t = "meta" /\ Under(Top(r), d) /\ d \in Seq(STRING)
        BY <1>2, <2>2, DirTypes DEF Holds
      <3>2. Below(Here(r), d)
        BY <1>3, <3>1, UnderOrBelow, UnderTrans
      <3>3. PICK p \in Paths : p = Here(r)
        BY <1>1
      <3>4. IsFile(t, p)' /\ Below(p, d)
        BY <2>1, <3>1, <3>2, <3>3 DEF IsFile
      <3> QED
        BY <3>4 DEF Why
    <2> QED
      BY <1>1, <2>1, <2>2, KeepsNeeded
  <1> QED
    BY <1>4, <1>5, WriteDoes

LEMMA UnlinkNeeds ==
  ASSUME TypeInv, Treelike, Needed, Orderly, NEW r \in Requests, Unlink(r)
  PROVE  Needed'
  <1>1. Step(r) /\ tree' = tree /\ pc[r] = "unlink" /\ Here(r) \in Seq(STRING) /\ Here(r)' = Here(r)
    BY UnlinkDoes, StepKeeps DEF Step
  <1>2. \A t, d : ~Holds(r, t, d)
    BY <1>1 DEF Holds
  <1>3. CASE UNCHANGED <<file, dirs, level>>
    <2>1. \A t \in Trees, p \in Paths : IsFile(t, p) => IsFile(t, p)'
      BY <1>3 DEF IsFile
    <2> QED
      BY <1>1, <1>2, <1>3, <2>1, KeepsNeeded
  <1>4. CASE Remove(tree[r], Here(r)) /\ level'[r] = Depth(Here(r)) /\ pc'[r] = "prune"
    <2>1. Top(r)' = Parent(Here(r))
      BY <1>1, <1>4 DEF Top, Parent, Depth
    <2>2. tree'[r] = tree[r]
      BY <1>1
    <2> QED
      BY <1>1, <1>2, <1>4, <2>1, <2>2, RemoveNeeds
  <1> QED
    BY <1>3, <1>4, UnlinkDoes

LEMMA PruneNeeds ==
  ASSUME TypeInv, Treelike, Needed, Orderly, NEW r \in Requests, Prune(r)
  PROVE  Needed'
  <1>1. Step(r) /\ pc[r] = "prune" /\ Here(r)' = Here(r) /\ tree[r] \in Trees
    BY PruneDoes, StepKeeps DEF Step
  <1>2. level[r] <= Depth(Here(r))
    BY <1>1 DEF Orderly, Stages, Stage
  <1>3. /\ Top(r) \in Seq(STRING) /\ Len(Top(r)) = level[r] /\ level[r] \in Nat
        /\ level[r] > 0 => Up(Here(r), level[r] - 1) = Parent(Top(r))
    BY <1>1, <1>2, TopFacts
  <1>4. CASE /\ level[r] > 0 /\ Remove(tree[r], Top(r))
             /\ level'[r] = level[r] - 1 /\ pc'[r] = "prune" /\ tree' = tree
    <2>1. Top(r)' = Parent(Top(r))
      BY <1>1, <1>3, <1>4 DEF Top
    <2>2. tree'[r] = tree[r] /\ \A d : Holds(r, tree[r], d) => Top(r) = Top(r)
      BY <1>4
    <2>3. PICK x \in Seq(STRING) : x = Top(r)
      BY <1>3
    <2>4. /\ Remove(tree[r], x) /\ (Len(x) >= 2 => Top(r)' = Parent(x))
          /\ \A d : Holds(r, tree[r], d) => Top(r) = x
      BY <1>4, <2>1, <2>3
    <2> QED
      BY <1>1, <1>4, <2>2, <2>4, RemoveNeeds
  <1>5. CASE (level[r] = 0 \/ ~CanRemove(tree[r], Top(r))) /\ UNCHANGED <<file, dirs, level>>
    <2>1. \A t \in Trees, p \in Paths : IsFile(t, p) => IsFile(t, p)'
      BY <1>5 DEF IsFile
    <2>2. ASSUME NEW t \in Trees, NEW d \in dirs[t], Holds(r, t, d) PROVE Why(t, d, Requests \ {r})
      <3>1. t = tree[r] /\ Top(r) \in dirs[t] /\ Under(Top(r), d) /\ d \in Seq(STRING)
        BY <2>2, DirTypes DEF Holds
      <3>2. Occupied(t, Top(r)) /\ Len(Top(r)) >= 1
        BY <1>3, <1>5, <3>1, DirTypes DEF CanRemove
      <3>3. ASSUME NEW q \in Seq(STRING), Parent(q) = Top(r) PROVE Below(q, Top(r))
        <4>1. CASE Len(q) = 0
          <5>1. q = <<>>
            BY <4>1, EmptySeq
          <5>2. Len(Parent(q)) = 0
            BY <4>1, <5>1, SubSeqProperties DEF Parent, Up
          <5> QED
            BY <3>2, <3>3, <5>2
        <4>2. CASE Len(q) >= 1
          <5>1. Len(q) - 1 \in 0..(Len(q) - 1)
            BY <4>2
          <5> QED
            BY <3>3, <5>1, PrefixIsAbove DEF Parent
        <4> QED
          BY <4>1, <4>2
      <3>4. ASSUME NEW c \in dirs[t], Parent(c) = Top(r) PROVE Why(t, d, Requests \ {r})
        <4>1. Below(c, Top(r))
          BY <3>3, <3>4, DirTypes
        <4> QED
          BY <1>3, <3>1, <4>1, DeeperNeeds
      <3>5. ASSUME NEW p \in Paths, IsFile(t, p), Parent(p) = Top(r) PROVE Why(t, d, Requests \ {r})
        <4>1. Below(p, Top(r))
          BY <3>3, <3>5, PathFacts
        <4> QED
          BY <1>3, <3>1, <3>5, <4>1, FileNeeds
      <3>6. ASSUME t = "data", NEW s \in tmp, Parent(Here(s)) = Top(r)
            PROVE  Why(t, d, Requests \ {r})
        <4>1. s \in Requests /\ pc[s] = "rename"
          BY <3>6, HereFacts
        <4>2. s # r /\ level[s] = Depth(Here(s)) /\ tree[s] = "data" /\ pc[s] # "idle"
          BY <1>1, <4>1 DEF Orderly, Stages, Stage, Running, Ended
        <4>3. Top(s) = Parent(Here(s))
          <5>1. level[s] <= Depth(Here(s))
            BY <4>1, <4>2, Working
          <5> QED
            BY <4>1, <4>2, <5>1, TopFacts
        <4>4. Holds(s, t, d) /\ s \in Requests \ {r}
          BY <3>1, <3>6, <4>1, <4>2, <4>3 DEF Holds
        <4> QED
          BY <4>4 DEF Why
      <3> QED
        BY <3>2, <3>4, <3>5, <3>6 DEF Occupied
    <2> QED
      BY <1>1, <1>5, <2>1, <2>2, KeepsNeeded
  <1> QED
    BY <1>4, <1>5, PruneDoes

\* A reindex makes directories above the sidecars it writes.
LEMMA ReindexNeeds ==
  ASSUME TypeInv, Needed, Reindex
  PROVE  Needed'
  <1> DEFINE bare == {p \in Walked : ~IsFile("meta", p)}
             sidecar == [p \in Paths |-> IF p \in bare THEN file["data"][p] ELSE file["meta"][p]]
             new == {d \in Dirs : \E p \in bare : Below(p, d)}
  <1>1. /\ file' = [file EXCEPT !["meta"] = sidecar]
        /\ dirs' = [dirs EXCEPT !["meta"] = @ \cup new]
        /\ pc' = pc /\ req' = req /\ \A r \in Requests : ~Running(r)
    BY DEF Reindex, Resting
  <1>2. \A p \in bare : p \in Paths /\ file["data"][p] # None
    BY DEF Walked, IsFile
  <1>3. \A p \in Paths : sidecar[p] = IF p \in bare THEN file["data"][p] ELSE file["meta"][p]
    OBVIOUS
  <1>4. \A d \in new : \E p \in bare : Below(p, d)
    OBVIOUS
  <1> HIDE DEF bare, sidecar, new
  <1>5. /\ dirs'["meta"] = dirs["meta"] \cup new /\ file'["meta"] = sidecar
        /\ dirs'["data"] = dirs["data"] /\ file'["data"] = file["data"]
    BY <1>1 DEF TypeInv, KeyTreeTypeOK, Trees
  <1>6. \A p \in Paths : /\ IsFile("meta", p) \/ p \in bare => IsFile("meta", p)'
                         /\ IsFile("data", p) => IsFile("data", p)'
    BY <1>2, <1>3, <1>5 DEF IsFile
  <1> SUFFICES ASSUME NEW t \in Trees, NEW d \in dirs'[t] PROVE Why(t, d, Requests)'
    BY DEF Needed
  <1>7. CASE d \in dirs[t]
    <2>1. \A r \in Requests : ~Holds(r, t, d)
      BY <1>1 DEF Holds, Running, Ended
    <2>2. (\E p \in Paths : IsFile(t, p) /\ Below(p, d)) \/ (t = "data" /\ AbortedBelow(d))
      BY <1>7, <2>1 DEF Needed, Why
    <2>3. AbortedBelow(d) => AbortedBelow(d)'
      BY <1>1 DEF AbortedBelow, At, Here
    <2>4. \A p \in Paths : IsFile(t, p) => IsFile(t, p)'
      BY <1>6 DEF Trees
    <2> QED
      BY <2>2, <2>3, <2>4 DEF Why
  <1>8. CASE t = "meta" /\ d \in new
    <2>1. PICK p \in bare : Below(p, d)
      BY <1>4, <1>8
    <2>2. p \in Paths /\ IsFile("meta", p)'
      BY <1>2, <1>6
    <2> QED
      BY <1>8, <2>1, <2>2 DEF Why
  <1> QED
    BY <1>5, <1>7, <1>8 DEF Trees

LEMMA ArriveNeeds ==
  ASSUME TypeInv, Needed, NEW r \in Requests, Arrive(r)
  PROVE  Needed'
  <1>1. dirs' = dirs /\ file' = file /\ tree' = tree /\ level' = level /\ pc[r] = "idle"
    BY ArriveKeeps
  <1>2. ASSUME NEW q \in Requests, pc[q] # "idle"
        PROVE  pc'[q] = pc[q] /\ Here(q)' = Here(q)
    BY <1>1, <1>2, ArriveKeeps, ArriveMeets
  <1> SUFFICES ASSUME NEW t \in Trees, NEW d \in dirs[t] PROVE Why(t, d, Requests)'
    BY <1>1 DEF Needed
  <1>3. AbortedBelow(d) => AbortedBelow(d)'
    BY <1>2 DEF AbortedBelow, At
  <1>4. ASSUME NEW q \in Requests, Holds(q, t, d) PROVE Holds(q, t, d)'
    <2>1. pc'[q] = pc[q] /\ Here(q)' = Here(q)
      BY <1>2, <1>4 DEF Holds
    <2> QED
      BY <1>1, <1>4, <2>1 DEF Holds, Top
  <1>5. \A p \in Paths : IsFile(t, p) => IsFile(t, p)'
    BY <1>1 DEF IsFile
  <1> QED
    BY <1>3, <1>4, <1>5 DEF Needed, Why

LEMMA NeededNext ==
  ASSUME TypeInv, Treelike, Needed, Orderly, Tagged, [Next]_vars
  PROVE  Needed'
  <1>1. ASSUME NEW r \in Requests, Step(r) PROVE Needed'
    <2>1. CASE Stat(r) \/ Upsert(r) \/ Open(r) \/ GetRow(r) \/ RemoveRow(r)
      <3>1. /\ dirs' = dirs /\ file' = file
            /\ pc[r] \in {"stat", "upsert", "open", "getrow", "rmrow"}
        BY <2>1, StatDoes, UpsertDoes, OpenDoes, GetRowDoes, RowGoes
      <3>2. /\ \A t \in Trees, p \in Paths : IsFile(t, p) => IsFile(t, p)'
            /\ \A t, d : ~Holds(r, t, d)
        BY <3>1 DEF IsFile, Holds
      <3> QED
        BY <1>1, <3>1, <3>2, KeepsNeeded
    <2> QED
      BY <1>1, <2>1, MkdirNeeds, TempNeeds, RenameNeeds, WriteNeeds, UnlinkNeeds, PruneNeeds DEF Step
  <1>2. CASE UNCHANGED vars \/ Rest
    <2>1. /\ dirs' = dirs /\ file' = file /\ tree' = tree /\ level' = level /\ pc' = pc /\ req' = req
      BY <1>2 DEF Rest, vars, disk, local, env
    <2> QED
      BY <2>1 DEF Needed, Why, Holds, Top, IsFile, AbortedBelow, At, Here
  <1> QED
    BY <1>1, <1>2, ArriveNeeds, ReindexNeeds DEF Next

LEMMA NeededInit == Init => Needed
  <1> SUFFICES ASSUME Init, NEW t \in Trees, NEW d \in dirs[t] PROVE Why(t, d, Requests)
    BY DEF Needed
  <1>1. PICK S \in InitKeys :
          /\ dirs = [u \in Trees |-> {e \in Dirs : \E p \in S : Below(p, e)}]
          /\ file = [u \in Trees |-> [p \in Paths |-> IF p \in S THEN p ELSE None]]
    BY DEF Init
  <1>2. PICK p \in S : Below(p, d)
    BY <1>1
  <1>3. p \in Paths
    BY KeyTreeConstants
  <1>4. IsFile(t, p)
    BY <1>1, <1>3, PathFacts DEF IsFile
  <1> QED
    BY <1>2, <1>3, <1>4 DEF Why

TreeInv == TypeInv /\ Treelike /\ Orderly /\ Tagged /\ Needed

LEMMA TreeInvariant == Spec => []TreeInv
  <1>1. Init => TreeInv
    <2>1. Init => Tagged
      BY DEF Init, Tagged, Storing, Running, Ended
    <2> QED
      BY <2>1, TypeInit, TreelikeInit, OrderlyInit, NeededInit DEF TreeInv
  <1>2. TreeInv /\ [Next]_vars => TreeInv'
    BY TypeStep, TreelikeNext, OrderlyNext, TaggedNext, NeededNext DEF TreeInv
  <1> QED
    BY <1>1, <1>2, PTL DEF Spec

\* At rest there is a file below every directory of the bucket (NoEmptyDirs), unless an
\* upload into it was broken off: however MkdirAll and removeEmptyParents of several keys
\* meet, one of them finds the directory empty and takes it away.
THEOREM NoDirStaysEmpty == Spec => []NoEmptyDirs
  <1>1. TreeInv => NoEmptyDirs
    <2> SUFFICES ASSUME TreeInv, Resting, NEW d \in dirs["data"]
                 PROVE  AbortedBelow(d) \/ \E p \in Paths : IsFile("data", p) /\ Below(p, d)
      BY DEF NoEmptyDirs
    <2>1. \A r \in Requests : ~Holds(r, "data", d)
      BY DEF Resting, Running, Holds, Ended
    <2>2. "data" \in Trees
      BY DEF Trees
    <2> QED
      BY <2>1, <2>2 DEF TreeInv, Needed, Why
  <1> QED
    BY <1>1, TreeInvariant, PTL

-----------------------------------------------------------------------------
(* Files, sidecars and the DELETEs that go by them.  A DELETE that is past   *)
(* its own file has had no file above it, or one that an upload put there    *)
(* since (Cover): so an upload's file is there until its row is (Stored),    *)
(* and a sidecar without a file is that of a DELETE under way (Strays), but  *)
(* for Pruned places.                                                        *)

Past(r) == pc[r] \in {"prune", "rmrow"} \/ (At(r, "unlink") /\ tree[r] = "meta")
Cover == \A r \in Requests : Past(r) => \A n \in 1..Depth(Here(r)) :
  IsFile("data", Up(Here(r), n)) => Pruned(Up(Here(r), n))
Stored == \A r \in Requests : Storing(r) => IsFile("data", Here(r)) \/ Pruned(Here(r))
Going(r, q) ==
  /\ Here(r) = q
  /\ (At(r, "unlink") /\ tree[r] = "meta") \/ (At(r, "prune") /\ tree[r] = "data")
Strays == \A q \in Paths : IsFile("meta", q) =>
  IsFile("data", q) \/ Pruned(q) \/ \E r \in Requests : Going(r, q)

\* What a step does to a file or a sidecar.
LEMMA FileMoves ==
  ASSUME TypeInv, NEW r \in Requests, Step(r), NEW t \in Trees, NEW q \in Paths
  PROVE  \/ file'[t][q] = file[t][q]
         \/ t = "data" /\ Rename(r) /\ q = Here(r) /\ file'[t][q] = r
         \/ t = "meta" /\ WriteMeta(r) /\ q = Here(r) /\ file'[t][q] = etag[r]
         \/ t = tree[r] /\ Unlink(r) /\ q = Here(r) /\ pc'[r] = "prune" /\ file'[t][q] = None
         \/ /\ t = tree[r] /\ Prune(r) /\ level[r] > 0 /\ q = Top(r)
            /\ IsFile(t, q) /\ file'[t][q] = None
  <1>1. tree[r] \in Trees /\ t \in {"data", "meta"}
    BY StepKeeps DEF Trees
  <1>2. CASE Stat(r) \/ Mkdir(r) \/ CreateTemp(r) \/ Abort(r) \/ Upsert(r) \/ Open(r) \/ GetRow(r)
             \/ RemoveRow(r)
    <2>1. file' = file
      BY <1>2 DEF Stat, Mkdir, CreateTemp, Abort, Upsert, Open, GetRow, RemoveRow, disk
    <2> QED
      BY <2>1
  <1>3. CASE Rename(r)
    BY <1>1, <1>3, RenameDoes
  <1>4. CASE WriteMeta(r)
    BY <1>1, <1>4, WriteDoes
  <1>5. CASE Unlink(r)
    <2>1. CASE UNCHANGED <<file, dirs, level>>
      BY <2>1
    <2>2. CASE Remove(tree[r], Here(r)) /\ pc'[r] = "prune"
      <3>1. /\ \A u \in Trees \ {tree[r]} : file'[u] = file[u]
            /\ file'[tree[r]][q] = IF q = Here(r) THEN None ELSE file[tree[r]][q]
        BY <1>1, <2>2, RemoveType
      <3>2. CASE t # tree[r]
        BY <3>1, <3>2
      <3>3. CASE t = tree[r] /\ q # Here(r)
        BY <3>1, <3>3
      <3>4. CASE t = tree[r] /\ q = Here(r)
        BY <1>5, <2>2, <3>1, <3>4
      <3> QED
        BY <3>2, <3>3, <3>4
    <2> QED
      BY <1>5, <2>1, <2>2, UnlinkDoes
  <1>6. CASE Prune(r)
    <2>1. CASE UNCHANGED <<file, dirs, level>>
      BY <2>1
    <2>2. CASE level[r] > 0 /\ Remove(tree[r], Top(r))
      <3>1. /\ \A u \in Trees \ {tree[r]} : file'[u] = file[u]
            /\ file'[tree[r]][q] = IF q = Top(r) THEN None ELSE file[tree[r]][q]
        BY <1>1, <2>2, RemoveType
      <3>2. CASE t = tree[r] /\ q = Top(r) /\ file[t][q] # None
        BY <1>6, <2>2, <3>1, <3>2 DEF IsFile
      <3>3. CASE t # tree[r]
        BY <3>1, <3>3
      <3>4. CASE t = tree[r] /\ ~(q = Top(r) /\ file[t][q] # None)
        <4>1. file'[t][q] = IF q = Top(r) THEN None ELSE file[t][q]
          BY <3>1, <3>4
        <4>2. file'[t][q] = file[t][q]
          BY <3>4, <4>1
        <4> QED
          BY <4>2
      <3> QED
        BY <3>2, <3>3, <3>4
    <2>3. UNCHANGED <<file, dirs, level>> \/ (level[r] > 0 /\ Remove(tree[r], Top(r)))
      BY <1>6, PruneDoes
    <2> QED
      BY <2>1, <2>2, <2>3
  <1> QED
    BY <1>2, <1>3, <1>4, <1>5, <1>6 DEF Step

LEMMA PrunedStep ==
  ASSUME TypeInv, NEW r \in Requests, Step(r), NEW p
  PROVE  Pruned(p)' <=> Pruned(p)
  <1>1. req' = req /\ with' = with /\ \A q : Here(q)' = Here(q)
    BY StepKeeps
  <1> QED
    BY <1>1 DEF Pruned

LEMMA PrunedArrive ==
  ASSUME TypeInv, Orderly, NEW r \in Requests, Arrive(r), NEW p, Pruned(p)
  PROVE  Pruned(p)'
  <1>1. PICK d \in Requests, q \in Requests :
          /\ d \in with[q] /\ req[d].op = "remove" /\ Below(Here(d), p)
          /\ req[q].op = "put" /\ Here(q) = p
    BY DEF Pruned
  <1>2. req[d] # None /\ req[q] # None
    BY <1>1 DEF Orderly, Overlaps
  <1>3. d # r /\ q # r
    BY <1>2, ArriveKeeps
  <1>4. req'[d] = req[d] /\ req'[q] = req[q]
    BY <1>3, ArriveKeeps
  <1>5. Here(d)' = Here(d) /\ Here(q)' = Here(q)
    BY <1>3, ArriveMeets
  <1>6. with'[q] = IF Running(q) THEN with[q] \cup {r} ELSE with[q]
    BY <1>3, ArriveJoins
  <1>7. d \in with'[q]
    BY <1>1, <1>6
  <1> QED
    BY <1>1, <1>4, <1>5, <1>7 DEF Pruned

\* No two handlers that run have one path.
LEMMA TheirOwn ==
  ASSUME Orderly, NEW q \in Requests, NEW r \in Requests, Running(q), Running(r), Here(q) = Here(r)
  PROVE  q = r
  BY DEF Orderly, Overlaps

\* Prune takes a file only where it has been put since.
LEMMA PrunesPruned ==
  ASSUME TypeInv, Orderly, Cover, NEW r \in Requests, Prune(r), level[r] > 0, NEW q, q = Top(r),
         IsFile("data", q)
  PROVE  Pruned(q)
  <1>1. Past(r) /\ level[r] <= Depth(Here(r)) /\ level[r] \in Nat /\ Depth(Here(r)) \in Nat
    BY PruneDoes, Working DEF Past, Orderly, Stages, Stage, TypeInv, KeyTreeTypeOK
  <1>2. level[r] \in 1..Depth(Here(r))
    BY <1>1
  <1> QED
    BY <1>1, <1>2 DEF Cover, Top

\* When DeleteObject has removed its own file, or found none, there is no file above it.
LEMMA UnlinkCovers ==
  ASSUME TypeInv, Treelike, NEW r \in Requests, Unlink(r), pc'[r] = "prune", NEW t \in Trees, t = tree[r],
         NEW n \in 1..Depth(Here(r))
  PROVE  ~IsFile(t, Up(Here(r), n))
  <1>1. \/ CanRemove(t, Here(r))
        \/ ~Blocked(t, Here(r))
    BY UnlinkDoes
  <1>2. n \in 1..(Len(Here(r)) - 1)
    BY DEF Depth
  <1>3. CASE CanRemove(t, Here(r))
    <2>1. InTree(t, Here(r))
      BY <1>3 DEF CanRemove, Treelike, DirsInTree, FilesInTree, IsFile
    <2>2. Up(Here(r), n) \in dirs[t]
      BY <1>2, <2>1 DEF InTree
    <2> QED
      BY <2>2 DEF Treelike, FilesInTree, IsFile
  <1>4. CASE ~Blocked(t, Here(r))
    BY <1>2, <1>4 DEF Blocked
  <1> QED
    BY <1>1, <1>3, <1>4

LEMMA CoverStep ==
  ASSUME TypeInv, Treelike, Orderly, Cover, NEW s \in Requests, Step(s)
  PROVE  Cover'
  <1>1. /\ req' = req /\ with' = with /\ Running(s) /\ s # None
        /\ \A q \in Requests \ {s} : pc'[q] = pc[q] /\ tree'[q] = tree[q]
    BY StepKeeps, KeyTreeConstants DEF Bytes
  <1>2. \A q : Here(q)' = Here(q)
    BY StepKeeps
  <1> SUFFICES ASSUME NEW r \in Requests, Past(r)', NEW n \in 1..Depth(Here(r)),
                      NEW p, p = Up(Here(r), n), IsFile("data", p)'
               PROVE  Pruned(p)
    <2>1. \A r \in Requests : Depth(Here(r))' = Depth(Here(r)) /\ Here(r)' = Here(r)
      BY <1>2 DEF Depth
    <2> QED
      BY <2>1, PrunedStep DEF Cover
  <1>3. pc'[r] # "idle" /\ Running(r)' /\ p \in Paths
    BY DEF Past, At, Running, Ended, IsFile
  <1>4. Running(r)
    BY <1>1, <1>3 DEF Running
  <1>5. req[r].op = "remove"
    <2>1. Orderly' /\ Running(r)'
      BY <1>3, OrderlyStep
    <2>2. req'[r].op = "remove"
      BY <2>1 DEF Orderly, Stages, Stage, Past, At
    <2> QED
      BY <1>1, <2>2
  <1>6. CASE IsFile("data", p)
    <2>1. CASE Past(r)
      BY <1>6, <2>1 DEF Cover
    <2>2. CASE ~Past(r)
      <3>1. r = s
        BY <1>1, <2>2 DEF Past, At
      <3>2. Unlink(r) /\ pc'[r] = "prune" /\ tree[r] = "data"
        <4>1. pc[r] \in {"unlink", "prune", "rmrow"}
          BY <1>4, <1>5 DEF Orderly, Stages, Stage
        <4>2. pc[r] = "unlink" /\ tree[r] # "meta" /\ tree[r] \in Trees
          BY <2>2, <3>1, <4>1, StepKeeps DEF Past, At
        <4>3. Unlink(r)
          BY <3>1, <4>2 DEF Step, Stat, Mkdir, CreateTemp, Abort, Rename, WriteMeta, Upsert, Open,
             GetRow, Prune, RemoveRow, At
        <4>4. tree' = tree /\ pc'[r] \in {"prune", "error"}
          BY <4>3, UnlinkDoes
        <4> QED
          BY <4>2, <4>3, <4>4 DEF Past, At, Trees
      <3> QED
        BY <1>6, <3>2, UnlinkCovers DEF Trees
    <2> QED
      BY <2>1, <2>2
  <1>7. CASE ~IsFile("data", p)
    <2>1. Rename(s) /\ p = Here(s)
      BY <1>3, <1>7, FileMoves DEF IsFile, Trees
    <2>2. req[s].op = "put"
      BY <1>1, <2>1, RenameDoes DEF Orderly, Stages, Stage
    <2>3. r # s /\ r \in with[s]
      BY <1>1, <1>4, <1>5, <2>2 DEF Orderly, Overlaps
    <2>4. Below(Here(r), p)
      <3>1. Here(r) \in Seq(STRING) /\ n \in 0..(Len(Here(r)) - 1)
        BY <1>4, Working, PathFacts DEF Running, Depth
      <3> QED
        BY <3>1, PrefixIsAbove
    <2> QED
      BY <1>5, <2>1, <2>2, <2>3, <2>4 DEF Pruned
  <1> QED
    BY <1>6, <1>7

LEMMA StoredStep ==
  ASSUME TypeInv, Treelike, Orderly, Cover, Stored, NEW s \in Requests, Step(s)
  PROVE  Stored'
  <1>1. /\ req' = req /\ Running(s) /\ s # None /\ Stage(s)
        /\ \A q \in Requests \ {s} : pc'[q] = pc[q] /\ tree'[q] = tree[q]
    BY StepKeeps, KeyTreeConstants DEF Bytes, Orderly, Stages
  <1>2. \A q : Here(q)' = Here(q)
    BY StepKeeps
  <1> SUFFICES ASSUME NEW r \in Requests, Storing(r)', NEW p, p = Here(r)
               PROVE  IsFile("data", p)' \/ Pruned(p)
    <2>1. \A r \in Requests : Here(r)' = Here(r)
      BY <1>2
    <2> QED
      BY <2>1, PrunedStep DEF Stored
  <1>3. Running(r) /\ p \in Paths
    <2>1. Running(r)
      BY <1>1 DEF Storing, Running
    <2> QED
      BY <2>1, Working DEF Running
  <1>4. CASE r # s
    <2>1. Storing(r)
      BY <1>1, <1>4 DEF Storing, Running
    <2>2. CASE IsFile("data", p)
      <3>1. CASE \/ file'["data"][p] = file["data"][p]
                 \/ file'["data"][p] = s
        BY <1>1, <1>3, <2>2, <3>1 DEF IsFile
      <3>2. CASE p = Here(s)
        BY <1>1, <1>3, <1>4, <3>2, TheirOwn
      <3>3. CASE Prune(s) /\ level[s] > 0 /\ p = Top(s)
        BY <2>2, <3>3, PrunesPruned
      <3> QED
        BY <1>3, <3>1, <3>2, <3>3, FileMoves DEF Trees
    <2> QED
      BY <2>1, <2>2 DEF Stored
  <1>5. CASE r = s
    <2>1. CASE Rename(s)
      <3>1. file'["data"][p] = s
        BY <1>1, <1>3, <1>5, <2>1, RenameDoes DEF Storing, Running, Ended, Stage
      <3> QED
        BY <1>1, <1>3, <3>1 DEF IsFile
    <2>2. CASE Open(s)
      <3>1. IsFile("data", p) /\ file' = file
        BY <1>5, <2>2, OpenDoes DEF Storing, Running, Ended
      <3> QED
        BY <3>1 DEF IsFile
    <2>3. CASE ~Rename(s) /\ ~Open(s)
      <3>1. Storing(s) /\ ~Unlink(s) /\ ~Prune(s)
        <4>1. ~(Unlink(s) \/ Prune(s) \/ RemoveRow(s))
          BY <1>1, <1>5, UnlinkDoes, PruneDoes, RowGoes DEF Storing, Stage
        <4>2. Storing(s)
          <5>1. CASE Stat(s)
            BY <1>1, <1>5, <5>1, StatDoes DEF Storing
          <5>2. CASE Mkdir(s)
            BY <1>1, <1>5, <5>2, MkdirDoes DEF Storing
          <5>3. CASE CreateTemp(s) \/ Abort(s)
            BY <1>1, <1>5, <5>3, TempDoes, AbortDoes DEF Storing, Stage
          <5>4. CASE WriteMeta(s)
            BY <1>1, <1>5, <5>4, WriteDoes DEF Storing
          <5>5. CASE Upsert(s)
            BY <1>1, <1>5, <5>5, UpsertDoes DEF Storing
          <5>6. CASE GetRow(s)
            BY <1>1, <1>5, <5>6, GetRowDoes DEF Storing, Stage
          <5> QED
            BY <2>3, <4>1, <5>1, <5>2, <5>3, <5>4, <5>5, <5>6 DEF Step
        <4> QED
          BY <4>1, <4>2
      <3>2. file'["data"][p] = file["data"][p]
        BY <1>3, <2>3, <3>1, FileMoves DEF Trees
      <3> QED
        BY <1>5, <3>1, <3>2 DEF Stored, IsFile
    <2> QED
      BY <2>1, <2>2, <2>3
  <1> QED
    BY <1>4, <1>5

LEMMA StraysStep ==
  ASSUME TypeInv, Treelike, Orderly, Cover, Stored, Strays, NEW s \in Requests, Step(s)
  PROVE  Strays'
  <1>1. /\ req' = req /\ Running(s) /\ s # None /\ Stage(s)
        /\ \A q \in Requests \ {s} : pc'[q] = pc[q] /\ tree'[q] = tree[q]
    BY StepKeeps, KeyTreeConstants DEF Bytes, Orderly, Stages
  <1>2. \A q : Here(q)' = Here(q)
    BY StepKeeps
  <1> SUFFICES ASSUME NEW p \in Paths, IsFile("meta", p)'
               PROVE  IsFile("data", p)' \/ Pruned(p) \/ \E r \in Requests : Going(r, p)'
    BY PrunedStep DEF Strays
  <1>3. ASSUME IsFile("data", p)
        PROVE  IsFile("data", p)' \/ Pruned(p) \/ \E r \in Requests : Going(r, p)'
    <2>1. CASE \/ file'["data"][p] = file["data"][p]
               \/ file'["data"][p] = s
      BY <1>1, <1>3, <2>1 DEF IsFile
    <2>2. CASE tree[s] = "data" /\ Unlink(s) /\ p = Here(s) /\ pc'[s] = "prune"
      <3>1. Going(s, p)'
        BY <1>2, <2>2, UnlinkDoes DEF Going, At
      <3> QED
        BY <3>1
    <2>3. CASE Prune(s) /\ level[s] > 0 /\ p = Top(s)
      BY <1>3, <2>3, PrunesPruned
    <2> QED
      BY <2>1, <2>2, <2>3, FileMoves DEF Trees
  <1>4. CASE IsFile("meta", p)
    <2>1. ASSUME NEW r \in Requests, Going(r, p) PROVE \E q \in Requests : Going(q, p)'
      <3>1. CASE r # s
        <4>1. Going(r, p)'
          BY <1>1, <1>2, <2>1, <3>1 DEF Going, At
        <4> QED
          BY <4>1
      <3>2. CASE r = s /\ pc[s] = "unlink"
        <4>1. Unlink(s) /\ tree[s] = "meta" /\ p = Here(s)
          BY <2>1, <3>2 DEF Going, Step, Stat, Mkdir, CreateTemp, Abort, Rename, WriteMeta, Upsert,
             Open, GetRow, Prune, RemoveRow, At
        <4>2. Remove("meta", p)
          BY <1>4, <4>1, UnlinkDoes DEF CanRemove
        <4>3. file'["meta"][p] = None
          BY <4>2, RemoveType DEF Trees
        <4> QED
          BY <4>3 DEF IsFile
      <3>3. CASE r = s /\ pc[s] = "prune"
        <4>1. Prune(s) /\ tree[s] = "data" /\ p = Here(s)
          BY <2>1, <3>3 DEF Going, Step, Stat, Mkdir, CreateTemp, Abort, Rename, WriteMeta, Upsert,
             Open, GetRow, Unlink, RemoveRow, At
        <4>2. \/ pc'[s] = "prune" /\ tree' = tree
              \/ pc'[s] = "unlink" /\ tree'[s] = "meta"
          BY <4>1, PruneDoes
        <4>3. Going(s, p)'
          BY <1>2, <4>1, <4>2 DEF Going, At
        <4> QED
          BY <4>3
      <3> QED
        BY <2>1, <3>1, <3>2, <3>3 DEF Going, At
    <2> QED
      BY <1>3, <1>4, <2>1 DEF Strays
  <1>5. CASE ~IsFile("meta", p)
    <2>1. WriteMeta(s) /\ p = Here(s)
      BY <1>5, FileMoves DEF IsFile, Trees
    <2>2. Storing(s)
      BY <1>1, <2>1, WriteDoes DEF Stage, Storing
    <2> QED
      BY <1>3, <2>1, <2>2 DEF Stored
  <1> QED
    BY <1>4, <1>5

KeptInv == Cover /\ Stored /\ Strays

LEMMA KeptArrive ==
  ASSUME TypeInv, Orderly, KeptInv, NEW r \in Requests, Arrive(r)
  PROVE  KeptInv'
  <1>1. /\ file' = file /\ tree' = tree /\ pc[r] = "idle" /\ tree[r] = "data"
        /\ \A q \in Requests : q # r => pc'[q] = pc[q] /\ req'[q] = req[q]
    BY ArriveKeeps DEF Orderly, Stages, Stage, At
  <1>2. pc'[r] = IF req'[r].op = "put" THEN "stat" ELSE IF req'[r].op = "get" THEN "open" ELSE "unlink"
    BY ArriveAsks
  <1>3. \A q \in Requests : q # r => Here(q)' = Here(q)
    BY ArriveMeets
  <1>4. ~Past(r)' /\ ~Storing(r)'
    BY <1>1, <1>2 DEF Past, Storing, At
  <1>5. \A t \in Trees : \A p : IsFile(t, p)' <=> IsFile(t, p)
    BY <1>1 DEF IsFile
  <1>6. ASSUME NEW q \in Requests, Past(q)', NEW n \in 1..Depth(Here(q)'),
               NEW p, p = Up(Here(q)', n), IsFile("data", p)
        PROVE  Pruned(p)'
    <2>1. q # r /\ Past(q) /\ Here(q)' = Here(q)
      BY <1>1, <1>3, <1>4, <1>6 DEF Past, At
    <2>2. Pruned(p)
      BY <1>6, <2>1 DEF KeptInv, Cover
    <2> QED
      BY <2>2, PrunedArrive
  <1>7. ASSUME NEW q \in Requests, Storing(q)', NEW p, p = Here(q)'
        PROVE  IsFile("data", p) \/ Pruned(p)'
    <2>1. q # r
      BY <1>4, <1>7
    <2>2. Storing(q) /\ Here(q)' = Here(q)
      BY <1>1, <1>3, <1>7, <2>1 DEF Storing, Running
    <2>3. IsFile("data", p) \/ Pruned(p)
      BY <1>7, <2>2 DEF KeptInv, Stored
    <2> QED
      BY <2>3, PrunedArrive
  <1>8. ASSUME NEW p \in Paths, IsFile("meta", p)
        PROVE  IsFile("data", p) \/ Pruned(p)' \/ \E q \in Requests : Going(q, p)'
    <2>1. ASSUME NEW q \in Requests, Going(q, p) PROVE Going(q, p)'
      <3>1. q # r
        BY <1>1, <2>1 DEF Going, At
      <3> QED
        BY <1>1, <1>3, <2>1, <3>1 DEF Going, At
    <2> QED
      BY <1>8, <2>1, PrunedArrive DEF KeptInv, Strays
  <1> QED
    <2>1. Cover'
      BY <1>5, <1>6 DEF Cover, Depth, Trees
    <2>2. Stored'
      BY <1>5, <1>7 DEF Stored, Trees
    <2>3. Strays'
      BY <1>5, <1>8 DEF Strays, Trees
    <2> QED
      BY <2>1, <2>2, <2>3 DEF KeptInv

LEMMA KeptReindex ==
  ASSUME TypeInv, KeptInv, Reindex
  PROVE  KeptInv'
  <1> DEFINE bare == {p \in Walked : ~IsFile("meta", p)}
             sidecar == [p \in Paths |-> IF p \in bare THEN file["data"][p] ELSE file["meta"][p]]
  <1>1. /\ file' = [file EXCEPT !["meta"] = sidecar]
        /\ pc' = pc /\ req' = req /\ with' = with /\ \A r \in Requests : ~Running(r)
    BY DEF Reindex, Resting
  <1>2. \A p \in bare : p \in Paths /\ file["data"][p] # None
    BY DEF Walked, IsFile
  <1>3. \A p \in Paths : sidecar[p] = IF p \in bare THEN file["data"][p] ELSE file["meta"][p]
    OBVIOUS
  <1> HIDE DEF bare, sidecar
  <1>4. file'["data"] = file["data"] /\ file'["meta"] = sidecar
    BY <1>1 DEF TypeInv, KeyTreeTypeOK, Trees
  <1>5. \A p : (Pruned(p)' <=> Pruned(p)) /\ (IsFile("data", p)' <=> IsFile("data", p))
    BY <1>1, <1>4 DEF Pruned, Here, IsFile
  <1>6. \A r \in Requests : ~Past(r)' /\ ~Storing(r)' /\ \A q : ~Going(r, q)
    BY <1>1 DEF Past, Storing, Going, Running, At, Ended
  <1>7. ASSUME NEW p \in Paths, IsFile("meta", p)' PROVE IsFile("data", p) \/ Pruned(p)
    <2>1. p \in bare \/ IsFile("meta", p)
      BY <1>3, <1>4, <1>7 DEF IsFile
    <2> QED
      BY <1>2, <1>6, <2>1 DEF KeptInv, Strays, IsFile
  <1>8. Cover' /\ Stored'
    BY <1>6 DEF Cover, Stored
  <1>9. Strays'
    BY <1>5, <1>7 DEF Strays
  <1> QED
    BY <1>8, <1>9 DEF KeptInv

LEMMA KeptNext ==
  ASSUME TypeInv, Treelike, Orderly, KeptInv, [Next]_vars
  PROVE  KeptInv'
  <1>1. CASE UNCHANGED vars \/ Rest
    <2>1. UNCHANGED <<file, pc, tree, req, with>>
      BY <1>1 DEF Rest, vars, disk, local, env
    <2> QED
      BY <2>1 DEF KeptInv, Cover, Stored, Strays, Past, Storing, Going, Running, Pruned, IsFile, At,
         Here, Depth
  <1>2. ASSUME NEW r \in Requests, Step(r) PROVE KeptInv'
    BY <1>2, CoverStep, StoredStep, StraysStep DEF KeptInv
  <1> QED
    BY <1>1, <1>2, KeptArrive, KeptReindex DEF Next

LEMMA KeptInit == Init => KeptInv
  <1> SUFFICES ASSUME Init PROVE KeptInv
    OBVIOUS
  <1>1. PICK S \in InitKeys : file = [t \in Trees |-> [p \in Paths |-> IF p \in S THEN p ELSE None]]
    BY DEF Init
  <1>2. Cover /\ Stored
    BY DEF Init, Cover, Stored, Past, Storing, Running, Ended, At
  <1>3. Strays
    BY <1>1 DEF Strays, IsFile, Trees
  <1> QED
    BY <1>2, <1>3 DEF KeptInv

Inner(p) == \E q \in Paths : IsFile("data", q) /\ Below(q, p)
Clear(p) == ~Blocked("data", p) /\ ~Inner(p)

\* No file lies above a file, nor below one, nor below what is no directory.
LEMMA FilesAreClear ==
  ASSUME Treelike, NEW p \in Paths, IsFile("data", p) \/ p \notin dirs["data"]
  PROVE  ~Inner(p) /\ (IsFile("data", p) => ~Blocked("data", p))
  <1>1. p \in Seq(STRING) /\ Len(p) \in Nat \ {0} /\ p \notin dirs["data"]
    BY PathFacts DEF Treelike, FilesInTree, Trees
  <1>2. ASSUME NEW q \in Paths, IsFile("data", q), Below(q, p) PROVE FALSE
    <2>1. q \in Seq(STRING) /\ Len(p) \in 1..(Len(q) - 1) /\ p = Up(q, Len(p))
      BY <1>1, <1>2, PathFacts, AboveIsPrefix
    <2> QED
      BY <1>1, <1>2, <2>1 DEF Treelike, FilesInTree, InTree, Trees
  <1>3. IsFile("data", p) => ~Blocked("data", p)
    BY DEF Treelike, FilesInTree, InTree, Trees, Blocked, IsFile
  <1> QED
    BY <1>2, <1>3 DEF Inner

\* No sidecar is in the way of a place without a file above it or below it, unless one
\* was left near by.
LEMMA NoStrayNear ==
  ASSUME TypeInv, Treelike, Needed, Strays, NEW p \in Paths, ~PrunedNear(p), Clear(p),
         \A r \in Requests : \A q \in Paths : Going(r, q) => ~Below(q, p) /\ ~Below(p, q),
         \A r \in Requests : ~Holds(r, "meta", p)
  PROVE  ~Blocked("meta", p) /\ ~IsDir("meta", p)
  <1>1. p \in Seq(STRING) /\ p # <<>>
    BY PathFacts
  <1>2. ASSUME NEW n \in 1..(Len(p) - 1), IsFile("meta", Up(p, n)) PROVE FALSE
    <2>1. Up(p, n) \in Paths /\ Below(p, Up(p, n))
      <3>1. n \in 0..(Len(p) - 1)
        OBVIOUS
      <3> QED
        BY <1>1, <1>2, <3>1, PrefixIsAbove DEF IsFile
    <2>2. ~IsFile("data", Up(p, n))
      BY DEF Clear, Blocked
    <2>3. ~Pruned(Up(p, n))
      BY <2>1 DEF PrunedNear
    <2> QED
      BY <1>2, <2>1, <2>2, <2>3 DEF Strays
  <1>3. ASSUME p \in dirs["meta"] PROVE FALSE
    <2>1. PICK q \in Paths : IsFile("meta", q) /\ Below(q, p)
      BY <1>3 DEF Needed, Why, Trees
    <2>2. ~IsFile("data", q)
      BY <2>1 DEF Clear, Inner
    <2>3. ~Pruned(q)
      BY <2>1 DEF PrunedNear
    <2> QED
      BY <2>1, <2>2, <2>3 DEF Strays
  <1> QED
    BY <1>1, <1>2, <1>3 DEF Blocked, IsDir

LEMMA KeptInvariant == Spec => [](TreeInv /\ KeptInv)
  <1>1. TreeInv /\ KeptInv /\ [Next]_vars => KeptInv'
    BY KeptNext DEF TreeInv
  <1> QED
    BY <1>1, KeptInit, TreeInvariant, PTL DEF Spec

\* At rest every file has a sidecar or room for one (RoomForSidecars), so that a reindex
\* can write it: what DELETE leaves of sidecars and of their directories stands in the
\* way of a file only near a Pruned place.
THEOREM SidecarsHaveRoom == Spec => []RoomForSidecars
  <1>1. TreeInv /\ KeptInv => RoomForSidecars
    <2> SUFFICES ASSUME TreeInv, KeptInv, Resting, NEW p \in Walked, ~PrunedNear(p)
                 PROVE  ~Blocked("meta", p) /\ ~IsDir("meta", p)
      BY DEF RoomForSidecars
    <2>1. p \in Paths /\ Clear(p)
      BY FilesAreClear DEF Walked, Clear, TreeInv
    <2>2. \A r \in Requests : (\A q : ~Going(r, q)) /\ ~Holds(r, "meta", p)
      BY DEF Resting, Running, Going, Holds, At, Ended
    <2> QED
      BY <2>1, <2>2, NoStrayNear DEF TreeInv, KeptInv
  <1> QED
    BY <1>1, KeptInvariant, PTL

-----------------------------------------------------------------------------
(* A call that the server handles alone.  What it finds is what the files    *)
(* say (Due): directories are there for files only, and sidecars too, when   *)
(* nobody else runs and nothing was broken off or pruned near by.            *)

Alone(r) == with[r] = {} /\ ~AbortedBelow(Here(r)) /\ ~PrunedNear(Here(r))
Answer(r) ==
  /\ pc[r] \in Ended /\ due[r] # None => pc[r] \in {due[r], "aborted"}
  /\ At(r, "open") \/ (At(r, "unlink") /\ tree[r] = "data") => due[r] = Due(req[r])
  /\ Running(r) /\ req[r].op = "put" /\ tree[r] = "data" =>
       due[r] = Due(req[r]) /\ (At(r, "stat") \/ ~Blocked("data", Here(r)))
  /\ pc[r] \in {"mkdir", "temp", "rename", "write"} => IsDir(tree[r], Top(r))
  /\ Storing(r) => due[r] = "ok" /\ IsFile("data", Here(r))
  /\ Past(r) => due[r] = "ok" /\ Clear(Here(r))
Answering == \A r \in Requests : req[r] # None /\ Alone(r) => Answer(r)

LEMMA DueIs ==
  ASSUME NEW r \in Requests, req[r].op \in {"put", "get", "remove"}
  PROVE  LET p == Here(r) IN
         /\ req[r].op = "put" => Due(req[r]) = IF Clear(p) THEN "ok" ELSE "error"
         /\ req[r].op = "get" =>
              Due(req[r]) = IF Blocked("data", p) THEN None
                            ELSE IF IsFile("data", p) THEN "ok" ELSE "notfound"
         /\ req[r].op = "remove" => Due(req[r]) = IF Clear(p) THEN "ok" ELSE None
  BY DEF Due, Departs, Crowded, Here, Inner, Clear

LEMMA DueStays ==
  ASSUME req' = req, file'["data"] = file["data"], NEW r \in Requests
  PROVE  /\ Due(req[r])' = Due(req[r])
         /\ \A p : (IsFile("data", p)' <=> IsFile("data", p)) /\ (Blocked("data", p)' <=> Blocked("data", p))
                   /\ (Clear(p)' <=> Clear(p))
  BY DEF Due, Departs, Crowded, IsFile, Blocked, Clear, Inner

\* What is so while it runs: nobody else does, a directory at its place has a file below,
\* and no sidecar is in its way.
LEMMA AloneFinds ==
  ASSUME TreeInv, KeptInv, NEW r \in Requests, Running(r), Alone(r)
  PROVE  /\ Here(r) \in Paths
         /\ \A t \in Trees : Here(r) \in dirs[t] => \E q \in Paths : IsFile(t, q) /\ Below(q, Here(r))
         /\ Clear(Here(r)) => ~Blocked("meta", Here(r)) /\ ~IsDir("meta", Here(r))
  <1>1. Here(r) \in Paths /\ Here(r) \in Seq(STRING) /\ pc[r] # "idle"
    BY Working, PathFacts DEF TreeInv, Running
  <1>2. \A q \in Requests : Running(q) => q = r
    BY DEF TreeInv, Orderly, Overlaps, Alone
  <1>3. \A t : ~Holds(r, t, Here(r))
    <2> SUFFICES ASSUME NEW t, Holds(r, t, Here(r)) PROVE FALSE
      OBVIOUS
    <2>1. pc[r] \in {"mkdir", "temp", "rename", "write", "prune"} /\ Under(Top(r), Here(r))
      BY DEF Holds
    <2>2. level[r] <= Depth(Here(r))
      BY <1>1, <2>1, Working DEF TreeInv, Orderly, Stages, Stage
    <2>3. Below(Here(r), Top(r)) /\ Top(r) \in Seq(STRING)
      BY <1>1, <2>2, TopFacts DEF TreeInv
    <2> QED
      BY <1>1, <2>1, <2>3 DEF Under, Below
  <1>4. \A q \in Requests : \A t : ~Holds(q, t, Here(r))
    <2>1. \A q \in Requests : \A t : Holds(q, t, Here(r)) => Running(q)
      BY DEF Holds, Running, Ended
    <2> QED
      BY <1>2, <1>3, <2>1
  <1>5. \A q \in Requests : \A p \in Paths : Going(q, p) => ~Below(p, Here(r)) /\ ~Below(Here(r), p)
    <2>1. \A q \in Requests : \A p : Going(q, p) => Running(q) /\ p = Here(q)
      BY DEF Going, Running, Ended, At
    <2>2. ~Below(Here(r), Here(r))
      BY <1>1 DEF Below
    <2> QED
      BY <1>2, <2>1, <2>2
  <1>6. ASSUME NEW t \in Trees, Here(r) \in dirs[t] PROVE \E q \in Paths : IsFile(t, q) /\ Below(q, Here(r))
    BY <1>4, <1>6 DEF TreeInv, Needed, Why, Alone
  <1> QED
    BY <1>1, <1>4, <1>5, <1>6, NoStrayNear DEF TreeInv, KeptInv, Alone, Trees

\* What no step of its own handler changes.
LEMMA AnswerFrame ==
  ASSUME TreeInv, NEW r \in Requests, Step(r)
  PROVE  /\ TypeInv /\ Treelike /\ Stage(r) /\ Running(r) /\ pc[r] # "idle"
         /\ req' = req /\ due'[r] = due[r] /\ Here(r)' = Here(r) /\ Depth(Here(r))' = Depth(Here(r))
         /\ tree[r] \in {"data", "meta"} /\ req[r].op \in {"put", "get", "remove"}
         /\ Here(r) \in Paths /\ Here(r) # <<>> /\ level[r] \in Nat
  <1>1. Here(r)' = Here(r) /\ req' = req /\ due' = due
    BY StepKeeps DEF TreeInv
  <1>2. Here(r) # <<>>
    BY StepKeeps, PathFacts DEF TreeInv
  <1> QED
    BY <1>1, <1>2, StepKeeps DEF TreeInv, Orderly, Stages, Trees, Depth, Running

LEMMA StatAnswers ==
  ASSUME TreeInv, KeptInv, NEW r \in Requests, Answer(r), Alone(r), Stat(r)
  PROVE  Answer(r)'
  <1> USE DEF Running, Ended, At
  <1>1. /\ TypeInv /\ Stage(r) /\ Running(r) /\ req' = req /\ due'[r] = due[r] /\ Here(r)' = Here(r)
        /\ req[r].op \in {"put", "get", "remove"}
    BY AnswerFrame DEF Step
  <1>2. /\ dirs' = dirs /\ file' = file /\ tree' = tree /\ pc[r] = "stat"
        /\ \/ Blocked(tree[r], Here(r)) /\ pc'[r] = "error"
           \/ /\ ~Blocked(tree[r], Here(r)) /\ pc'[r] = "mkdir"
              /\ IsDir(tree[r], Up(Here(r), level'[r]))
    BY <1>1, StatDoes
  <1>3. /\ Due(req[r])' = Due(req[r])
        /\ \A p : (IsFile("data", p)' <=> IsFile("data", p)) /\ (Blocked("data", p)' <=> Blocked("data", p))
    BY <1>1, <1>2, DueStays
  <1>4. CASE req[r].op = "put" /\ tree[r] = "data"
    <2>1. due[r] = Due(req[r])
      BY <1>1, <1>4 DEF Answer
    <2>2. Blocked("data", Here(r)) => due[r] = "error"
      BY <1>1, <1>4, <2>1, DueIs DEF Clear
    <2>3. pc'[r] = "mkdir" => IsDir(tree[r], Top(r))'
      BY <1>1, <1>2 DEF Top, IsDir
    <2> QED
      BY <1>1, <1>2, <1>3, <1>4, <2>1, <2>2, <2>3 DEF Answer, Storing, Past
  <1>5. CASE tree[r] = "meta"
    <2>1. due[r] = "ok" /\ IsFile("data", Here(r))
      BY <1>1, <1>2, <1>5 DEF Answer, Stage, Storing
    <2>2. Clear(Here(r))
      BY <1>1, <2>1, FilesAreClear DEF TreeInv, Clear, IsFile
    <2>3. ~Blocked("meta", Here(r))
      BY <1>1, <2>2, AloneFinds
    <2>4. pc'[r] = "mkdir" /\ IsDir(tree[r], Top(r))'
      BY <1>1, <1>2, <1>5, <2>3 DEF Top, IsDir
    <2> QED
      BY <1>1, <1>2, <1>3, <1>5, <2>1, <2>4 DEF Answer, Storing, Past
  <1> QED
    BY <1>1, <1>2, <1>4, <1>5 DEF Stage

LEMMA MkdirAnswers ==
  ASSUME TreeInv, KeptInv, NEW r \in Requests, Answer(r), Alone(r), Mkdir(r)
  PROVE  Answer(r)'
  <1> USE DEF Running, Ended, At
  <1>1. /\ TypeInv /\ Stage(r) /\ Running(r) /\ req' = req /\ due'[r] = due[r] /\ Here(r)' = Here(r)
        /\ req[r].op \in {"put", "get", "remove"} /\ tree[r] \in {"data", "meta"} /\ Here(r) \in Paths
    BY AnswerFrame DEF Step
  <1>2. file' = file /\ tree' = tree /\ pc[r] = "mkdir" /\ IsDir(tree[r], Top(r))
    BY <1>1, MkdirDoes DEF Answer
  <1>3. /\ Due(req[r])' = Due(req[r])
        /\ \A p : (IsFile("data", p)' <=> IsFile("data", p)) /\ (Blocked("data", p)' <=> Blocked("data", p))
    BY <1>1, <1>2, DueStays
  <1>4. /\ tree[r] = "data" => req[r].op = "put" /\ due[r] = Due(req[r]) /\ ~Blocked("data", Here(r))
        /\ tree[r] = "meta" => Storing(r) /\ due[r] = "ok" /\ IsFile("data", Here(r))
    BY <1>1, <1>2 DEF Answer, Stage, Storing
  <1>5. ~Blocked(tree[r], Here(r))
    <2>1. CASE tree[r] = "meta"
      <3>1. Clear(Here(r))
        BY <1>1, <1>4, <2>1, FilesAreClear DEF TreeInv, Clear
      <3> QED
        BY <1>1, <2>1, <3>1, AloneFinds
    <2> QED
      BY <1>1, <1>4, <2>1
  <1>6. level[r] + 1 \in 1..Depth(Here(r)) => ~IsFile(tree[r], Deeper(r))
    BY <1>5 DEF Blocked, Deeper, Depth
  <1>7. pc'[r] \in {"mkdir", "temp", "write"} /\ IsDir(tree[r], Top(r))'
    <2>1. CASE level[r] = Depth(Here(r)) /\ UNCHANGED <<dirs, level>>
               /\ pc'[r] = IF tree[r] = "data" THEN "temp" ELSE "write"
      BY <1>1, <1>2, <2>1 DEF Top, IsDir
    <2>2. CASE /\ pc' = pc /\ level'[r] = level[r] + 1
               /\ dirs'[tree[r]] = dirs[tree[r]] \cup {Deeper(r)}
      <3>1. Top(r)' = Deeper(r)
        BY <1>1, <2>2 DEF Top, Deeper
      <3>2. tree'[r] = tree[r] /\ Deeper(r) \in dirs'[tree[r]]
        BY <1>2, <2>2
      <3> QED
        BY <1>2, <2>2, <3>1, <3>2 DEF IsDir
    <2>3. CASE level[r] + 1 \in 1..Depth(Here(r)) /\ (~IsDir(tree[r], Top(r)) \/ IsFile(tree[r], Deeper(r)))
      BY <1>2, <1>6, <2>3
    <2> QED
      BY <1>1, <2>1, <2>2, <2>3, MkdirDoes
  <1> QED
    BY <1>1, <1>2, <1>3, <1>4, <1>7 DEF Answer, Storing, Past

LEMMA TempAnswers ==
  ASSUME TreeInv, KeptInv, NEW r \in Requests, Answer(r), Alone(r), CreateTemp(r) \/ Abort(r)
  PROVE  Answer(r)'
  <1> USE DEF Running, Ended, At
  <1>1. /\ TypeInv /\ Stage(r) /\ Running(r) /\ req' = req /\ due'[r] = due[r] /\ Here(r)' = Here(r)
        /\ req[r].op \in {"put", "get", "remove"} /\ pc[r] # "idle"
    BY AnswerFrame DEF Step
  <1>2. /\ dirs' = dirs /\ file' = file /\ tree' = tree /\ level' = level /\ pc[r] \in {"temp", "rename"}
        /\ pc'[r] \in {"rename", "aborted"} \/ ~IsDir("data", Parent(Here(r)))
        /\ pc'[r] \in {"rename", "aborted", "error"}
    BY <1>1, TempDoes, AbortDoes
  <1>3. /\ Due(req[r])' = Due(req[r])
        /\ \A p : (IsFile("data", p)' <=> IsFile("data", p)) /\ (Blocked("data", p)' <=> Blocked("data", p))
    BY <1>1, <1>2, DueStays
  <1>4. /\ req[r].op = "put" /\ tree[r] = "data" /\ level[r] = Depth(Here(r))
        /\ due[r] = Due(req[r]) /\ ~Blocked("data", Here(r)) /\ IsDir(tree[r], Top(r))
    BY <1>1, <1>2 DEF Answer, Stage
  <1>5. Top(r) = Parent(Here(r)) /\ IsDir(tree[r], Top(r))'
    <2>1. level[r] <= Depth(Here(r))
      BY <1>1, <1>4, Working
    <2>2. Top(r) = Parent(Here(r))
      BY <1>1, <1>4, <2>1, TopFacts
    <2> QED
      BY <1>1, <1>2, <1>4, <2>2 DEF Top, IsDir
  <1>6. pc'[r] \in {"rename", "aborted"}
    BY <1>2, <1>4, <1>5
  <1> QED
    BY <1>1, <1>2, <1>3, <1>4, <1>5, <1>6 DEF Answer, Storing, Past

LEMMA RenameAnswers ==
  ASSUME TreeInv, KeptInv, NEW r \in Requests, Answer(r), Alone(r), Rename(r)
  PROVE  Answer(r)'
  <1> USE DEF Running, Ended, At
  <1>1. /\ TypeInv /\ Treelike /\ Stage(r) /\ Running(r) /\ req' = req /\ due'[r] = due[r] /\ Here(r)' = Here(r)
        /\ req[r].op \in {"put", "get", "remove"} /\ Here(r) \in Paths /\ Here(r) # <<>> /\ r # None
    BY AnswerFrame, KeyTreeConstants DEF Step, Bytes
  <1>2. /\ pc[r] = "rename"
        /\ \/ IsDir("data", Here(r)) /\ pc'[r] = "error"
           \/ /\ ~IsDir("data", Here(r)) /\ pc'[r] = "stat" /\ tree'[r] = "meta"
              /\ file'["data"][Here(r)] = r
    BY <1>1, RenameDoes
  <1>3. req[r].op = "put" /\ due[r] = Due(req[r]) /\ ~Blocked("data", Here(r))
    BY <1>1, <1>2 DEF Answer, Stage
  <1>4. CASE IsDir("data", Here(r)) /\ pc'[r] = "error"
    <2>1. Inner(Here(r))
      BY <1>1, <1>4, AloneFinds DEF Inner, IsDir, Trees
    <2>2. due[r] = "error"
      BY <1>1, <1>3, <2>1, DueIs DEF Clear
    <2> QED
      BY <1>1, <1>4, <2>2 DEF Answer, Storing, Past
  <1>5. CASE /\ ~IsDir("data", Here(r)) /\ pc'[r] = "stat" /\ tree'[r] = "meta"
             /\ file'["data"][Here(r)] = r
    <2>1. Clear(Here(r))
      BY <1>1, <1>3, <1>5, FilesAreClear DEF Clear, IsDir
    <2>2. due[r] = "ok"
      BY <1>1, <1>3, <2>1, DueIs
    <2>3. IsFile("data", Here(r))'
      BY <1>1, <1>5 DEF IsFile
    <2> QED
      BY <1>1, <1>3, <1>5, <2>2, <2>3 DEF Answer, Storing, Past
  <1> QED
    BY <1>2, <1>4, <1>5

LEMMA StoreAnswers ==
  ASSUME TreeInv, KeptInv, NEW r \in Requests, Answer(r), Alone(r),
         WriteMeta(r) \/ Upsert(r) \/ GetRow(r)
  PROVE  Answer(r)'
  <1> USE DEF Running, Ended, At
  <1>1. /\ TypeInv /\ Treelike /\ Stage(r) /\ Running(r) /\ req' = req /\ due'[r] = due[r] /\ Here(r)' = Here(r)
        /\ req[r].op \in {"put", "get", "remove"} /\ Here(r) \in Paths /\ pc[r] # "idle"
    BY AnswerFrame DEF Step
  <1>2. pc[r] \in {"write", "upsert", "getrow"}
    BY <1>1, WriteDoes, UpsertDoes, GetRowDoes
  <1>3. Storing(r) /\ due[r] = "ok" /\ IsFile("data", Here(r))
    BY <1>1, <1>2 DEF Stage, Storing, Answer
  <1>4. Clear(Here(r))
    BY <1>1, <1>3, FilesAreClear DEF Clear
  <1>5. CASE WriteMeta(r)
    <2>1. ~IsDir("meta", Here(r))
      BY <1>1, <1>4, AloneFinds
    <2>2. IsDir("meta", Parent(Here(r)))
      <3>1. /\ tree[r] = "meta" /\ level[r] = Depth(Here(r)) /\ level[r] <= Depth(Here(r))
            /\ IsDir(tree[r], Top(r))
        BY <1>1, <1>5, WriteDoes, Working DEF Stage, Answer
      <3> QED
        BY <1>1, <3>1, TopFacts
    <2>3. pc'[r] = "upsert" /\ tree' = tree /\ file'["data"] = file["data"]
      BY <1>1, <1>5, <2>1, <2>2, WriteDoes
    <2> QED
      BY <1>1, <1>3, <2>3 DEF Answer, Storing, Past, IsFile
  <1>6. CASE Upsert(r)
    <2>1. pc'[r] = "ok"
      BY <1>1, <1>3, <1>6, UpsertDoes
    <2> QED
      BY <1>1, <1>3, <2>1 DEF Answer, Storing, Past
  <1>7. CASE GetRow(r)
    <2>1. file' = file /\ req[r].op = "get" /\ (pc'[r] \in {"ok", "upsert"} \/ (pc'[r] = "stat" /\ tree'[r] = "meta"))
      BY <1>1, <1>3, <1>7, GetRowDoes DEF Stage
    <2> QED
      BY <1>1, <1>3, <2>1 DEF Answer, Storing, Past, IsFile
  <1> QED
    BY <1>5, <1>6, <1>7

LEMMA OpenAnswers ==
  ASSUME TreeInv, KeptInv, NEW r \in Requests, Answer(r), Open(r)
  PROVE  Answer(r)'
  <1> USE DEF Running, Ended, At
  <1>1. /\ TypeInv /\ Treelike /\ Stage(r) /\ Running(r) /\ req' = req /\ due'[r] = due[r] /\ Here(r)' = Here(r)
        /\ req[r].op \in {"put", "get", "remove"} /\ Here(r) \in Paths /\ pc[r] # "idle"
    BY AnswerFrame DEF Step
  <1>2. /\ file' = file /\ tree' = tree /\ pc[r] = "open"
        /\ pc'[r] = IF IsFile("data", Here(r)) THEN "getrow"
                    ELSE IF Blocked("data", Here(r)) THEN "error" ELSE "notfound"
    BY <1>1, OpenDoes
  <1>3. req[r].op = "get" /\ due[r] = Due(req[r])
    BY <1>1, <1>2 DEF Stage, Answer
  <1>4. CASE IsFile("data", Here(r))
    <2>1. due[r] = "ok"
      <3>1. Clear(Here(r))
        BY <1>1, <1>4, FilesAreClear DEF Clear
      <3> QED
        BY <1>1, <1>3, <1>4, <3>1, DueIs DEF Clear
    <2>2. IsFile("data", Here(r))'
      BY <1>1, <1>2, <1>4 DEF IsFile
    <2> QED
      BY <1>1, <1>2, <1>3, <1>4, <2>1, <2>2 DEF Answer, Storing, Past
  <1>5. CASE ~IsFile("data", Here(r))
    <2>1. due[r] # None => pc'[r] = due[r]
      BY <1>1, <1>2, <1>3, <1>5, DueIs
    <2> QED
      BY <1>1, <1>2, <1>5, <2>1 DEF Answer, Storing, Past
  <1> QED
    BY <1>4, <1>5

\* Taking files away leaves a place clear.
LEMMA ClearStays ==
  ASSUME \A q \in Paths : IsFile("data", q)' => IsFile("data", q), NEW p, Clear(p)
  PROVE  Clear(p)'
  <1>1. \A q : IsFile("data", q)' => IsFile("data", q)
    BY DEF IsFile
  <1> QED
    BY <1>1 DEF Clear, Blocked, Inner

LEMMA UnlinkAnswers ==
  ASSUME TreeInv, KeptInv, NEW r \in Requests, Answer(r), Alone(r), Unlink(r)
  PROVE  Answer(r)'
  <1> USE DEF Running, Ended, At
  <1>1. /\ TypeInv /\ Treelike /\ Stage(r) /\ Running(r) /\ req' = req /\ due'[r] = due[r] /\ Here(r)' = Here(r)
        /\ req[r].op \in {"put", "get", "remove"} /\ Here(r) \in Paths /\ Here(r) # <<>>
        /\ tree[r] \in {"data", "meta"} /\ Here(r) \in Seq(STRING)
    BY AnswerFrame, PathFacts DEF Step
  <1>2. tree' = tree /\ pc[r] = "unlink" /\ req[r].op = "remove"
    BY <1>1, UnlinkDoes DEF Stage
  <1>3. \A q \in Paths : IsFile("data", q)' => IsFile("data", q)
    <2> SUFFICES ASSUME NEW q \in Paths, ~IsFile("data", q) PROVE file'["data"][q] = None
      BY DEF IsFile
    <2>1. ~Rename(r)
      BY <1>1, <1>2, RenameDoes
    <2> QED
      BY <1>1, <2>1, FileMoves DEF Step, Trees, IsFile
  <1>4. Clear(Here(r)) => Clear(Here(r))'
    <2>1. \A p : Clear(p) => Clear(p)'
      BY <1>3, ClearStays
    <2>2. Clear(Here(r)) => (\A p : p = Here(r)' => Clear(p)')
      BY <1>1, <2>1
    <2> QED
      BY <1>1, <2>2 DEF Clear, Blocked, Inner
  <1>5. CASE tree[r] = "data" /\ ~CanRemove("data", Here(r)) /\ pc'[r] = "error"
             /\ (Blocked("data", Here(r)) \/ IsDir("data", Here(r)))
    <2>1. ~Blocked("data", Here(r)) => Inner(Here(r))
      BY <1>1, <1>5, AloneFinds DEF IsDir, Inner, Trees
    <2>2. due[r] = None
      BY <1>1, <1>2, <1>5, <2>1, DueIs DEF Answer, Clear
    <2> QED
      BY <1>1, <1>5, <2>2 DEF Answer, Storing, Past
  <1>6. CASE /\ tree[r] = "data" /\ pc'[r] = "prune"
             /\ \/ CanRemove("data", Here(r))
                \/ ~Blocked("data", Here(r)) /\ ~IsDir("data", Here(r))
    <2>1. Clear(Here(r))
      <3>1. CASE IsFile("data", Here(r))
        BY <1>1, <3>1, FilesAreClear DEF Clear
      <3>2. CASE Here(r) \in dirs["data"] /\ ~Occupied("data", Here(r))
        <4>1. ~Blocked("data", Here(r))
          BY <3>2 DEF TreeInv, Treelike, DirsInTree, FilesInTree, InTree, Blocked, IsFile, Trees
        <4>2. ASSUME NEW q \in Paths, IsFile("data", q), Below(q, Here(r)) PROVE FALSE
          <5>1. /\ q \in Seq(STRING) /\ Len(Here(r)) \in 1..(Len(q) - 1) /\ Here(r) = Up(q, Len(Here(r)))
                /\ InTree("data", q)
            <6>1. q \in Seq(STRING) /\ Len(Here(r)) >= 1
              BY <1>1, PathFacts
            <6>2. InTree("data", q)
              BY <1>1, <4>2 DEF Treelike, FilesInTree, Trees
            <6> QED
              BY <1>1, <4>2, <6>1, <6>2, AboveIsPrefix
          <5>2. Up(q, Len(Here(r))) # Here(r)
            BY <1>1, <3>2, <4>2, <5>1, NothingBelow DEF Trees
          <5> QED
            BY <5>1, <5>2
        <4> QED
          BY <4>1, <4>2 DEF Clear, Inner
      <3>3. CASE ~Blocked("data", Here(r)) /\ ~IsDir("data", Here(r))
        BY <1>1, <3>3, FilesAreClear DEF Clear, IsDir
      <3> QED
        BY <1>6, <3>1, <3>2, <3>3 DEF CanRemove
    <2>2. due[r] = "ok"
      BY <1>1, <1>2, <1>6, <2>1, DueIs DEF Answer
    <2> QED
      BY <1>1, <1>2, <1>4, <1>6, <2>1, <2>2 DEF Answer, Storing
  <1>7. CASE tree[r] = "meta"
    <2>1. due[r] = "ok" /\ Clear(Here(r))
      BY <1>2, <1>7 DEF Answer, Past
    <2>2. pc'[r] = "prune"
      BY <1>1, <1>7, <2>1, AloneFinds, UnlinkDoes
    <2> QED
      BY <1>1, <1>2, <1>4, <1>7, <2>1, <2>2 DEF Answer, Storing
  <1>8. CASE tree[r] = "data"
    <2>1. \/ /\ pc'[r] = "prune"
             /\ \/ CanRemove("data", Here(r))
                \/ ~Blocked("data", Here(r)) /\ ~IsDir("data", Here(r))
          \/ /\ pc'[r] = "error" /\ ~CanRemove("data", Here(r))
             /\ Blocked("data", Here(r)) \/ IsDir("data", Here(r))
      BY <1>1, <1>8, UnlinkDoes
    <2> QED
      BY <1>5, <1>6, <1>8, <2>1
  <1> QED
    BY <1>1, <1>7, <1>8

LEMMA PruneAnswers ==
  ASSUME TreeInv, KeptInv, NEW r \in Requests, Answer(r), Prune(r) \/ RemoveRow(r)
  PROVE  Answer(r)'
  <1> USE DEF Running, Ended, At
  <1>1. /\ TypeInv /\ Treelike /\ Stage(r) /\ Running(r) /\ req' = req /\ due'[r] = due[r] /\ Here(r)' = Here(r)
        /\ req[r].op \in {"put", "get", "remove"} /\ Here(r) \in Paths /\ tree[r] \in {"data", "meta"}
    BY AnswerFrame DEF Step
  <1>2. pc[r] \in {"prune", "rmrow"} /\ req[r].op = "remove"
    BY <1>1, PruneDoes, RowGoes DEF Stage
  <1>3. due[r] = "ok" /\ Clear(Here(r))
    BY <1>2 DEF Answer, Past
  <1>4. \A q \in Paths : IsFile("data", q)' => IsFile("data", q)
    <2> SUFFICES ASSUME NEW q \in Paths, ~IsFile("data", q) PROVE file'["data"][q] = None
      BY DEF IsFile
    <2>1. ~Rename(r)
      BY <1>1, <1>2, RenameDoes
    <2> QED
      BY <1>1, <2>1, FileMoves DEF Step, Trees, IsFile
  <1>5. Clear(Here(r))'
    <2>1. \A p : Clear(p) => Clear(p)'
      BY <1>4, ClearStays
    <2>2. \A p : p = Here(r)' => Clear(p)'
      BY <1>1, <1>3, <2>1
    <2> QED
      BY <1>1, <2>2 DEF Clear, Blocked, Inner
  <1>6. pc'[r] \in {"prune", "rmrow", "ok"} \/ (pc'[r] = "unlink" /\ tree'[r] = "meta")
    BY <1>1, PruneDoes, RowGoes
  <1> QED
    BY <1>1, <1>2, <1>3, <1>5, <1>6 DEF Answer, Storing

LEMMA AnsweringStep ==
  ASSUME TreeInv, KeptInv, Answering, NEW s \in Requests, Step(s)
  PROVE  Answering'
  <1>1. /\ TypeInv /\ req' = req /\ with' = with /\ due' = due /\ Running(s) /\ req[s] # None
        /\ \A q \in Requests \ {s} : pc'[q] = pc[q] /\ tree'[q] = tree[q] /\ level'[q] = level[q]
    BY StepKeeps DEF TreeInv
  <1>2. \A q : Here(q)' = Here(q)
    BY StepKeeps DEF TreeInv
  <1> SUFFICES ASSUME NEW r \in Requests, req[r] # None, Alone(r)' PROVE Answer(r)'
    BY <1>1 DEF Answering
  <1>3. Alone(r)
    <2>1. ASSUME AbortedBelow(Here(r)) PROVE AbortedBelow(Here(r))'
      <3>1. \A d : AbortedBelow(d) => AbortedBelow(d)'
        BY <1>1, AbortedStays
      <3>2. \A d : d = Here(r)' => AbortedBelow(d)'
        BY <1>2, <2>1, <3>1
      <3> QED
        BY <1>2, <3>2 DEF AbortedBelow
    <2>2. ASSUME PrunedNear(Here(r)) PROVE PrunedNear(Here(r))'
      <3>1. \A q : Pruned(q) => Pruned(q)'
        BY <1>1, PrunedStep
      <3> QED
        BY <1>2, <2>2, <3>1 DEF PrunedNear
    <2> QED
      BY <1>1, <2>1, <2>2 DEF Alone
  <1>4. Answer(r)
    BY <1>3 DEF Answering
  <1>5. CASE r = s
    BY <1>3, <1>4, <1>5, StatAnswers, MkdirAnswers, TempAnswers, RenameAnswers, StoreAnswers,
       OpenAnswers, UnlinkAnswers, PruneAnswers DEF Step
  <1>6. CASE r # s
    <2>1. ~Running(r) /\ pc[r] # "idle"
      <3>1. pc[r] # "idle"
        BY <1>1 DEF TypeInv, Placed
      <3> QED
        BY <1>1, <1>3, <1>6, <3>1 DEF TreeInv, Orderly, Overlaps, Alone
    <2>2. pc[r] \in Ended /\ pc'[r] = pc[r] /\ due'[r] = due[r]
      BY <1>1, <1>6, <2>1 DEF Running
    <2> QED
      BY <1>4, <2>2 DEF Answer, Running, Storing, Past, At, Ended
  <1> QED
    BY <1>5, <1>6

LEMMA AnsweringArrive ==
  ASSUME TreeInv, Answering, NEW s \in Requests, Arrive(s)
  PROVE  Answering'
  <1>1. /\ TypeInv /\ Orderly /\ pc[s] = "idle" /\ file' = file /\ tree' = tree
        /\ \A q \in Requests : q # s => pc'[q] = pc[q] /\ req'[q] = req[q] /\ due'[q] = due[q]
    BY ArriveKeeps DEF TreeInv
  <1>2. /\ pc'[s] = IF req'[s].op = "put" THEN "stat" ELSE IF req'[s].op = "get" THEN "open" ELSE "unlink"
        /\ req'[s].op \in {"put", "get", "remove"} /\ due'[s] = Due(req'[s])
    BY <1>1, ArriveAsks
  <1> SUFFICES ASSUME NEW r \in Requests, req'[r] # None, Alone(r)' PROVE Answer(r)'
    BY DEF Answering
  <1>3. CASE r = s
    <2>1. tree'[s] = "data"
      BY <1>1 DEF Orderly, Stages, Stage, At
    <2>2. \A c : Due(c)' = Due(c)
      BY <1>1 DEF Due, Departs, Crowded, IsFile, Blocked
    <2>3. \A c : c = req'[s] => due'[s] = Due(c)'
      BY <1>2, <2>2
    <2>4. due'[s] = Due(req[s])'
      BY <2>3 DEF Due, Departs, Crowded
    <2>5. pc'[s] \in {"stat", "open", "unlink"} /\ (pc'[s] = "open" <=> req'[s].op = "get")
          /\ (pc'[s] = "stat" <=> req'[s].op = "put")
      BY <1>2
    <2> QED
      BY <1>3, <2>1, <2>4, <2>5 DEF Answer, Storing, Past, At, Ended
  <1>4. CASE r # s
    <2>1. /\ pc'[r] = pc[r] /\ due'[r] = due[r] /\ req[r] # None /\ Here(r)' = Here(r)
          /\ with'[r] = IF Running(r) THEN with[r] \cup {s} ELSE with[r]
      <3>1. Here(r)' = Here(r)
        BY <1>1, <1>4, ArriveMeets
      <3>2. with'[r] = IF Running(r) THEN with[r] \cup {s} ELSE with[r]
        BY <1>4, ArriveJoins
      <3>3. pc'[r] = pc[r] /\ due'[r] = due[r] /\ req[r] # None
        BY <1>1, <1>4
      <3> QED
        BY <3>1, <3>2, <3>3
    <2>2. pc[r] # "idle"
      BY <1>1, <2>1 DEF TypeInv, Placed, At
    <2>3. ~Running(r) /\ with[r] = {}
      <3>1. with'[r] = {}
        BY DEF Alone
      <3> QED
        BY <2>1, <3>1
    <2>4. pc[r] \in Ended
      BY <2>2, <2>3 DEF Running
    <2>5. ~AbortedBelow(Here(r))
      <3> SUFFICES ASSUME AbortedBelow(Here(r)) PROVE AbortedBelow(Here(r))'
        BY DEF Alone
      <3>1. PICK q \in Requests : At(q, "aborted") /\ Below(Here(q), Here(r))
        BY DEF AbortedBelow
      <3>2. q # s
        BY <1>1, <3>1 DEF At
      <3>3. pc'[q] = pc[q] /\ Here(q)' = Here(q)
        BY <1>1, <3>2, ArriveMeets
      <3> QED
        BY <2>1, <3>1, <3>3 DEF AbortedBelow, At
    <2>6. ~PrunedNear(Here(r))
      <3> SUFFICES ASSUME PrunedNear(Here(r)) PROVE PrunedNear(Here(r))'
        BY DEF Alone
      <3>1. \A q : Pruned(q) => Pruned(q)'
        BY <1>1, PrunedArrive
      <3> QED
        BY <2>1, <3>1 DEF PrunedNear
    <2>7. Answer(r)
      BY <2>1, <2>3, <2>5, <2>6 DEF Answering, Alone
    <2> QED
      BY <2>1, <2>4, <2>7 DEF Answer, Running, Storing, Past, At, Ended
  <1> QED
    BY <1>3, <1>4

LEMMA AnsweringNext ==
  ASSUME TreeInv, KeptInv, Answering, [Next]_vars
  PROVE  Answering'
  <1>1. CASE Reindex
    <2>1. /\ pc' = pc /\ req' = req /\ with' = with /\ due' = due /\ tree' = tree
          /\ \A r \in Requests : ~Running(r)
      BY <1>1 DEF Reindex, Resting, local
    <2> SUFFICES ASSUME NEW r \in Requests, req[r] # None, Alone(r)' PROVE Answer(r)'
      BY <2>1 DEF Answering
    <2>2. Alone(r)
      BY <2>1 DEF Alone, AbortedBelow, PrunedNear, Pruned, At, Here
    <2>3. pc[r] \in Ended
      BY <2>1 DEF TreeInv, TypeInv, Placed, Running
    <2>4. Answer(r)
      BY <2>2 DEF Answering
    <2> QED
      BY <2>1, <2>3, <2>4 DEF Answer, Running, Storing, Past, At, Ended
  <1>2. CASE UNCHANGED vars \/ Rest
    <2>1. UNCHANGED <<dirs, file, pc, req, with, due, tree, level>>
      BY <1>2 DEF Rest, vars, disk, local, env
    <2> SUFFICES ASSUME NEW r \in Requests, req[r] # None, Alone(r)' PROVE Answer(r)'
      BY <2>1 DEF Answering
    <2>2. Alone(r)
      BY <2>1 DEF Alone, AbortedBelow, PrunedNear, Pruned, At, Here
    <2>3. Answer(r)
      BY <2>2 DEF Answering
    <2>4. /\ Due(req[r])' = Due(req[r]) /\ Here(r)' = Here(r) /\ Top(r)' = Top(r)
          /\ \A p : (IsFile("data", p)' <=> IsFile("data", p))
                    /\ (Blocked("data", p)' <=> Blocked("data", p)) /\ (Clear(p)' <=> Clear(p))
      BY <2>1, DueStays DEF Here, Top
    <2>5. /\ IsFile("data", Here(r))' <=> IsFile("data", Here(r))
          /\ Blocked("data", Here(r))' <=> Blocked("data", Here(r))
          /\ Clear(Here(r))' <=> Clear(Here(r))
          /\ IsDir(tree[r], Top(r))' <=> IsDir(tree[r], Top(r))
      BY <2>1 DEF IsFile, IsDir, Blocked, Clear, Inner, Here, Top
    <2> QED
      BY <2>1, <2>3, <2>4, <2>5 DEF Answer, Storing, Past, Running, At
  <1> QED
    BY <1>1, <1>2, AnsweringStep, AnsweringArrive DEF Next

\* A call that overlaps no other is answered as the objects say (AnsweredByTheFiles),
\* whatever directories, sidecars and rows the calls before it have left, but for an
\* upload broken off below it, a Pruned place near by, and where the code departs from
\* the documents: there the answer is 500, and nothing is claimed.
THEOREM AloneIsAnswered == Spec => []AnsweredByTheFiles
  <1>1. Init => Answering
    BY DEF Init, Answering
  <1>2. TreeInv /\ Answering => AnsweredByTheFiles
    <2> SUFFICES ASSUME TreeInv, Answering, NEW r \in Requests, pc[r] \in Ended, Alone(r),
                        due[r] # None
                 PROVE  pc[r] \in {due[r], "aborted"}
      BY DEF AnsweredByTheFiles, Alone
    <2>1. req[r] # None
      BY DEF TreeInv, TypeInv, Placed, At, Ended
    <2> QED
      BY <2>1 DEF Answering, Answer
  <1>3. TreeInv /\ KeptInv /\ Answering /\ [Next]_vars => Answering'
    BY AnsweringNext
  <1> QED
    BY <1>1, <1>2, <1>3, KeptInvariant, PTL DEF Spec

-----------------------------------------------------------------------------
(* The last call for a path.  What it has left of the object, of the sidecar *)
(* and of the row is there until the next call for the path (Latest): others *)
(* remove only what looks to them like an empty directory, and that is a     *)
(* file only at a Pruned place.                                              *)

Undisturbed(r) == req[r] # None /\ last[Here(r)] = r /\ ~Pruned(Here(r)) /\ Here(r) \notin swept
Result(r, v) ==
  /\ req[r].op = "put" => v = r
  /\ req[r].op = "remove" => v = None
  /\ req[r].op = "get" => v # None
DoneData(r) == Storing(r) \/ Past(r) \/ At(r, "ok")
DoneMeta(r) == At(r, "upsert") \/ (Past(r) /\ tree[r] = "meta" /\ ~At(r, "unlink")) \/ At(r, "ok")
Effect(r) ==
  /\ DoneData(r) => Result(r, file["data"][Here(r)])
  /\ DoneMeta(r) /\ req[r].op # "get" => Result(r, file["meta"][Here(r)])
  /\ At(r, "ok") => Result(r, row[req[r].key])
Latest == \A r \in Requests : Undisturbed(r) => Effect(r)

\* Nobody else's step changes it.
LEMMA OthersSpare ==
  ASSUME TreeInv, KeptInv, NEW s \in Requests, Step(s), NEW r \in Requests, r # s, Undisturbed(r)
  PROVE  /\ file'["data"][Here(r)] = file["data"][Here(r)]
         /\ DoneMeta(r) => file'["meta"][Here(r)] = file["meta"][Here(r)]
         /\ row'[req[r].key] = row[req[r].key]
  <1>1. /\ TypeInv /\ Orderly /\ Treelike /\ Cover /\ Strays /\ Running(s)
        /\ level[s] \in Nat /\ Depth(Here(s)) \in Nat
    BY StepKeeps DEF TreeInv, KeptInv
  <1>2. /\ req[r] \in Calls /\ req[r].key \in Keys /\ Here(r) \in Paths
    BY <1>1, CallFacts DEF Undisturbed, TypeInv, KeyTreeTypeOK, Here
  <1>3. \A q \in Requests : Running(q) /\ Here(q) = Here(r) => q = r
    BY <1>1 DEF Orderly, Overlaps, Undisturbed
  <1>4. Here(s) # Here(r)
    BY <1>1, <1>3
  <1>5. ASSUME NEW t \in Trees, file'[t][Here(r)] # file[t][Here(r)]
        PROVE  Prune(s) /\ t = tree[s] /\ level[s] > 0 /\ Here(r) = Top(s) /\ IsFile(t, Here(r))
    BY <1>1, <1>2, <1>4, <1>5, FileMoves
  <1>6. ASSUME Prune(s), level[s] > 0, Here(r) = Top(s) PROVE ~IsFile("data", Here(r))
    BY <1>1, <1>6, PrunesPruned DEF Undisturbed
  <1>7. file'["data"][Here(r)] = file["data"][Here(r)]
    BY <1>5, <1>6 DEF Trees
  <1>8. ASSUME DoneMeta(r), file'["meta"][Here(r)] # file["meta"][Here(r)] PROVE FALSE
    <2>1. Prune(s) /\ level[s] > 0 /\ Here(r) = Top(s) /\ IsFile("meta", Here(r))
      BY <1>5, <1>8 DEF Trees
    <2>2. PICK q \in Requests : Going(q, Here(r))
      BY <1>1, <1>2, <1>6, <2>1 DEF Strays, Undisturbed
    <2>3. Running(q) /\ Here(q) = Here(r)
      BY <2>2 DEF Going, At, Running, Ended
    <2>4. q = r
      BY <1>3, <2>3
    <2> QED
      BY <1>8, <2>2, <2>4 DEF Going, DoneMeta, Past, At
  <1>9. row'[req[r].key] = row[req[r].key]
    BY <1>1, <1>2, <1>4, RowMoves DEF Here
  <1> QED
    BY <1>7, <1>8, <1>9

\* Its own steps bring it about.
LEMMA OwnIsBelow ==
  ASSUME NEW r \in Requests, Here(r) \in Seq(STRING), Len(Here(r)) = Depth(Here(r)) + 1,
         level[r] \in Nat, level[r] <= Depth(Here(r)), Depth(Here(r)) \in Nat
  PROVE  Top(r) # Here(r)
  <1>1. level[r] \in 0..Len(Here(r)) /\ level[r] # Len(Here(r))
    OBVIOUS
  <1>2. Len(Top(r)) = level[r]
    BY <1>1, Prefix DEF Top
  <1> QED
    BY <1>1, <1>2

LEMMA OwnData ==
  ASSUME TreeInv, NEW r \in Requests, Step(r), DoneData(r)',
         DoneData(r) => Result(r, file["data"][Here(r)])
  PROVE  Result(r, file'["data"][Here(r)])
  <1>1. /\ TypeInv /\ Orderly /\ Stage(r) /\ Running(r) /\ r # None /\ tree[r] \in {"data", "meta"}
        /\ Here(r) \in Paths /\ Here(r) \in Seq(STRING) /\ Len(Here(r)) = Depth(Here(r)) + 1
        /\ level[r] \in Nat /\ Depth(Here(r)) \in Nat /\ req' = req
        /\ req[r].op \in {"put", "get", "remove"}
    BY StepKeeps, KeyTreeConstants DEF TreeInv, Orderly, Stages, Bytes, Trees
  <1> USE DEF DoneData, Storing, Past, At, Running, Ended
  <1>2. CASE UNCHANGED file /\ DoneData(r)
    BY <1>2
  <1>3. CASE Stat(r)
    BY <1>1, <1>2, <1>3, StatDoes
  <1>4. CASE Mkdir(r)
    BY <1>1, <1>2, <1>4, MkdirDoes
  <1>5. CASE CreateTemp(r) \/ Abort(r)
    BY <1>1, <1>5, TempDoes, AbortDoes DEF Stage
  <1>6. CASE Rename(r)
    BY <1>1, <1>6, RenameDoes DEF Stage, Result
  <1>7. CASE WriteMeta(r)
    BY <1>1, <1>7, WriteDoes DEF Stage
  <1>8. CASE Upsert(r)
    BY <1>1, <1>2, <1>8, UpsertDoes DEF Stage
  <1>9. CASE Open(r)
    BY <1>1, <1>9, OpenDoes DEF Stage, Result, IsFile
  <1>10. CASE GetRow(r)
    BY <1>1, <1>2, <1>10, GetRowDoes DEF Stage
  <1>11. CASE Unlink(r)
    <2>1. req[r].op = "remove" /\ Remove(tree[r], Here(r)) /\ tree' = tree
      BY <1>1, <1>11, UnlinkDoes DEF Stage
    <2>2. CASE tree[r] = "data"
      <3>1. file'["data"][Here(r)] = None
        BY <1>1, <2>1, <2>2, RemoveType DEF Trees
      <3> QED
        BY <2>1, <3>1 DEF Result
    <2>3. CASE tree[r] = "meta"
      <3>1. file'["data"] = file["data"]
        BY <1>1, <2>1, <2>3, RemoveType DEF Trees
      <3> QED
        BY <1>1, <1>11, <2>3, <3>1, UnlinkDoes
    <2> QED
      BY <1>1, <2>2, <2>3
  <1>12. CASE Prune(r)
    <2>1. Top(r) # Here(r) /\ pc[r] = "prune"
      <3>1. pc[r] = "prune" /\ level[r] <= Depth(Here(r))
        BY <1>1, <1>12, PruneDoes DEF Stage
      <3> QED
        BY <1>1, <3>1, OwnIsBelow
    <2>2. ~Rename(r) /\ ~Unlink(r)
      BY <1>1, <2>1, RenameDoes, UnlinkDoes
    <2>3. file'["data"][Here(r)] = file["data"][Here(r)]
      BY <1>1, <2>1, <2>2, FileMoves DEF Trees
    <2> QED
      BY <2>1, <2>3
  <1>13. CASE RemoveRow(r)
    BY <1>1, <1>2, <1>13, RowGoes DEF Stage
  <1> QED
    BY <1>3, <1>4, <1>5, <1>6, <1>7, <1>8, <1>9, <1>10, <1>11, <1>12, <1>13 DEF Step

LEMMA OwnMeta ==
  ASSUME TreeInv, NEW r \in Requests, Step(r), req[r].op # "get", DoneMeta(r)',
         DoneMeta(r) => Result(r, file["meta"][Here(r)])
  PROVE  Result(r, file'["meta"][Here(r)])
  <1>1. /\ TypeInv /\ Orderly /\ Stage(r) /\ Running(r) /\ tree[r] \in {"data", "meta"}
        /\ Here(r) \in Paths /\ Here(r) \in Seq(STRING) /\ Len(Here(r)) = Depth(Here(r)) + 1
        /\ level[r] \in Nat /\ Depth(Here(r)) \in Nat
        /\ req[r].op \in {"put", "get", "remove"}
    BY StepKeeps DEF TreeInv, Orderly, Stages, Trees
  <1> USE DEF DoneMeta, Past, At, Running, Ended
  <1>2. CASE Stat(r)
    BY <1>1, <1>2, StatDoes DEF Stage
  <1>3. CASE Mkdir(r)
    BY <1>1, <1>3, MkdirDoes DEF Stage
  <1>4. CASE CreateTemp(r) \/ Abort(r)
    BY <1>1, <1>4, TempDoes, AbortDoes DEF Stage
  <1>5. CASE Rename(r)
    BY <1>1, <1>5, RenameDoes DEF Stage
  <1>6. CASE WriteMeta(r)
    <2>1. req[r].op = "put" /\ etag[r] = r
      BY <1>1, <1>6, WriteDoes DEF Stage, TreeInv, Tagged, Storing
    <2> QED
      BY <1>1, <1>6, <2>1, WriteDoes DEF Result
  <1>7. CASE Upsert(r)
    BY <1>1, <1>7, UpsertDoes DEF Stage
  <1>8. CASE Open(r) \/ GetRow(r)
    BY <1>1, <1>8, OpenDoes, GetRowDoes DEF Stage
  <1>9. CASE Unlink(r)
    <2>1. /\ req[r].op = "remove" /\ Remove(tree[r], Here(r)) /\ tree[r] = "meta"
      BY <1>1, <1>9, UnlinkDoes DEF Stage
    <2>2. file'["meta"][Here(r)] = None
      BY <1>1, <2>1, RemoveType DEF Trees
    <2> QED
      BY <2>1, <2>2 DEF Result
  <1>10. CASE Prune(r)
    <2>1. pc[r] = "prune" /\ level[r] <= Depth(Here(r)) /\ tree[r] = "meta"
      BY <1>1, <1>10, PruneDoes DEF Stage
    <2>2. Top(r) # Here(r)
      BY <1>1, <2>1, OwnIsBelow
    <2>3. ~WriteMeta(r) /\ ~Unlink(r)
      BY <1>1, <2>1, WriteDoes, UnlinkDoes
    <2>4. file'["meta"][Here(r)] = file["meta"][Here(r)]
      BY <1>1, <2>2, <2>3, FileMoves DEF Trees
    <2> QED
      BY <2>1, <2>4
  <1>11. CASE RemoveRow(r)
    BY <1>1, <1>11, RowGoes DEF Stage
  <1> QED
    BY <1>2, <1>3, <1>4, <1>5, <1>6, <1>7, <1>8, <1>9, <1>10, <1>11 DEF Step

LEMMA OwnRow ==
  ASSUME TreeInv, NEW r \in Requests, Step(r), pc'[r] = "ok"
  PROVE  Result(r, row'[req[r].key])
  <1>1. /\ TypeInv /\ Stage(r) /\ Running(r) /\ tree[r] \in {"data", "meta"}
        /\ req[r].op \in {"put", "get", "remove"}
    BY StepKeeps DEF TreeInv, Orderly, Stages, Trees
  <1>2. CASE Stat(r) \/ Mkdir(r) \/ CreateTemp(r) \/ Abort(r)
    BY <1>1, <1>2, StatDoes, MkdirDoes, TempDoes, AbortDoes
  <1>3. CASE Rename(r) \/ WriteMeta(r) \/ Open(r) \/ Unlink(r) \/ Prune(r)
    BY <1>1, <1>3, RenameDoes, WriteDoes, OpenDoes, UnlinkDoes, PruneDoes
  <1>4. CASE Upsert(r)
    <2>1. pc[r] = "upsert" /\ row'[req[r].key] = etag[r]
      BY <1>1, <1>4, UpsertDoes
    <2>2. Storing(r) /\ req[r].op # "remove"
      BY <1>1, <2>1 DEF Stage, Storing
    <2> QED
      BY <2>1, <2>2 DEF TreeInv, Tagged, Result
  <1>5. CASE GetRow(r)
    BY <1>1, <1>5, GetRowDoes DEF Stage, Result
  <1>6. CASE RemoveRow(r)
    BY <1>1, <1>6, RowGoes DEF Stage, Result
  <1> QED
    BY <1>2, <1>3, <1>4, <1>5, <1>6 DEF Step

LEMMA LatestStep ==
  ASSUME TreeInv, KeptInv, Latest, NEW s \in Requests, Step(s)
  PROVE  Latest'
  <1>1. /\ req' = req /\ with' = with /\ last' = last /\ swept' = swept
        /\ \A q \in Requests \ {s} : pc'[q] = pc[q] /\ tree'[q] = tree[q]
    BY StepKeeps DEF TreeInv
  <1>2. \A q : Here(q)' = Here(q)
    BY StepKeeps DEF TreeInv
  <1> SUFFICES ASSUME NEW r \in Requests, Undisturbed(r)' PROVE Effect(r)'
    BY DEF Latest
  <1>3. Undisturbed(r)
    BY <1>1, <1>2 DEF Undisturbed, Pruned
  <1>4. Effect(r)
    BY <1>3 DEF Latest
  <1>5. ASSUME /\ DoneData(r)' => Result(r, file'["data"][Here(r)])
               /\ DoneMeta(r)' /\ req[r].op # "get" => Result(r, file'["meta"][Here(r)])
               /\ pc'[r] = "ok" => Result(r, row'[req[r].key])
        PROVE  Effect(r)'
    BY <1>1, <1>2, <1>5 DEF Effect, Result, At
  <1>6. CASE r = s
    <2>1. DoneData(r)' => Result(r, file'["data"][Here(r)])
      BY <1>4, <1>6, OwnData DEF Effect
    <2>2. DoneMeta(r)' /\ req[r].op # "get" => Result(r, file'["meta"][Here(r)])
      BY <1>4, <1>6, OwnMeta DEF Effect
    <2>3. pc'[r] = "ok" => Result(r, row'[req[r].key])
      BY <1>6, OwnRow
    <2> QED
      BY <1>5, <2>1, <2>2, <2>3
  <1>7. CASE r # s
    <2>1. /\ (DoneData(r)' <=> DoneData(r)) /\ (DoneMeta(r)' <=> DoneMeta(r)) /\ pc'[r] = pc[r]
      BY <1>1, <1>7 DEF DoneData, DoneMeta, Storing, Past, Running, At
    <2>2. /\ file'["data"][Here(r)] = file["data"][Here(r)]
          /\ DoneMeta(r) => file'["meta"][Here(r)] = file["meta"][Here(r)]
          /\ row'[req[r].key] = row[req[r].key]
      BY <1>3, <1>7, OthersSpare
    <2> QED
      BY <1>4, <1>5, <2>1, <2>2 DEF Effect, At
  <1> QED
    BY <1>6, <1>7

LEMMA LatestArrive ==
  ASSUME TreeInv, Latest, NEW s \in Requests, Arrive(s)
  PROVE  Latest'
  <1>1. /\ TypeInv /\ Orderly /\ pc[s] = "idle" /\ file' = file /\ row' = row /\ tree' = tree
        /\ \A q \in Requests : q # s => pc'[q] = pc[q] /\ req'[q] = req[q]
    BY ArriveKeeps DEF TreeInv
  <1>2. pc'[s] = IF req'[s].op = "put" THEN "stat" ELSE IF req'[s].op = "get" THEN "open" ELSE "unlink"
    BY <1>1, ArriveAsks
  <1> SUFFICES ASSUME NEW r \in Requests, Undisturbed(r)' PROVE Effect(r)'
    BY DEF Latest
  <1>3. CASE r = s
    <2>1. tree'[s] = "data"
      BY <1>1 DEF Orderly, Stages, Stage, At
    <2>2. ~DoneData(s)' /\ ~DoneMeta(s)' /\ pc'[s] # "ok"
      BY <1>2, <2>1 DEF DoneData, DoneMeta, Storing, Past, At
    <2> QED
      BY <1>3, <2>2 DEF Effect, At
  <1>4. CASE r # s
    <2>1. Here(r)' = Here(r)
      BY <1>1, <1>4, ArriveMeets
    <2>2. req[r] # None /\ Here(r) \in Paths /\ last'[Here(r)] = r /\ ~Pruned(Here(r))' /\ Here(r) \notin swept'
      <3>1. req[r] # None /\ last'[Here(r)] = r /\ Here(r) \notin swept'
        BY <1>1, <1>4, <2>1 DEF Undisturbed
      <3>2. Here(r) \in Paths
        BY <1>1, <3>1, CallFacts DEF TypeInv, KeyTreeTypeOK, Here
      <3>3. ASSUME Pruned(Here(r))' PROVE FALSE
        BY <2>1, <3>3 DEF Undisturbed
      <3> QED
        BY <3>1, <3>2, <3>3
    <2>3. last[Here(r)] = r /\ Here(r) \notin swept
      <3>1. /\ last'[Here(s)'] = s /\ swept' = swept \ {Here(s)'}
            /\ \A p \in Paths : p # Here(s)' => last'[p] = last[p]
        BY <1>1, ArriveMeets
      <3> QED
        BY <1>4, <2>2, <3>1
    <2>4. ~Pruned(Here(r))
      <3>1. \A p : Pruned(p) => Pruned(p)'
        BY <1>1, PrunedArrive
      <3>2. \A p : p = Here(r)' => ~Pruned(p)'
        BY DEF Undisturbed
      <3> QED
        BY <2>1, <3>1, <3>2
    <2>5. Effect(r)
      BY <2>2, <2>3, <2>4 DEF Undisturbed, Latest
    <2>6. pc'[r] = pc[r] /\ req'[r] = req[r] /\ tree'[r] = tree[r]
      BY <1>1, <1>4
    <2> QED
      BY <1>1, <2>1, <2>5, <2>6 DEF Effect, Result, DoneData, DoneMeta, Storing, Past, Running, At
  <1> QED
    BY <1>3, <1>4

LEMMA LatestNext ==
  ASSUME TreeInv, KeptInv, Latest, [Next]_vars
  PROVE  Latest'
  <1>1. CASE Reindex
    <2>1. req' = req /\ swept' = Paths
      BY <1>1 DEF Reindex
    <2> SUFFICES ASSUME NEW r \in Requests, Undisturbed(r)' PROVE FALSE
      BY DEF Latest
    <2>2. req[r] # None /\ Path(req[r].key) \notin Paths
      BY <2>1 DEF Undisturbed, Here
    <2> QED
      BY <2>2, CallFacts DEF TreeInv, TypeInv, KeyTreeTypeOK
  <1>2. CASE UNCHANGED vars \/ Rest
    <2>1. UNCHANGED <<file, row, pc, req, with, last, swept, tree>>
      BY <1>2 DEF Rest, vars, disk, local, env
    <2> QED
      BY <2>1 DEF Latest, Undisturbed, Pruned, Effect, Result, DoneData, DoneMeta, Storing, Past,
         Running, At, Here
  <1> QED
    BY <1>1, <1>2, LatestStep, LatestArrive DEF Next

\* At rest the bytes, the sidecar and the row of the key that was last put or removed
\* agree (NeighboursSpared): what other handlers do to the directories around it spares
\* them, but for a Pruned place.
THEOREM NeighboursAreSpared == Spec => []NeighboursSpared
  <1>1. Init => Latest
    BY DEF Init, Latest, Undisturbed
  <1>2. TreeInv /\ Latest => NeighboursSpared
    <2> SUFFICES ASSUME TreeInv, Latest, NEW r \in Requests, At(r, "ok"), last[Here(r)] = r,
                        ~Pruned(Here(r)), Here(r) \notin swept
                 PROVE  LET k == req[r].key  p == Here(r)
                            there(v) == <<file["data"][p], file["meta"][p], row[k]>> = <<v, v, v>>
                        IN  /\ req[r].op = "put" => there(r)
                            /\ req[r].op = "remove" => there(None)
                            /\ req[r].op = "get" => file["data"][p] # None /\ row[k] # None
      BY DEF NeighboursSpared, Here
    <2>1. Undisturbed(r)
      BY DEF Undisturbed, TreeInv, TypeInv, Placed, At
    <2>2. Effect(r) /\ DoneData(r) /\ DoneMeta(r)
      BY <2>1 DEF Latest, DoneData, DoneMeta
    <2> QED
      BY <2>2 DEF Effect, Result
  <1>3. TreeInv /\ KeptInv /\ Latest /\ [Next]_vars => Latest'
    BY LatestNext
  <1> QED
    BY <1>1, <1>2, <1>3, KeptInvariant, PTL DEF Spec
=============================================================================

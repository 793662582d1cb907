-------------------------- MODULE StorageRefinement --------------------------
(***************************************************************************)
(* The handlers of Storage implement the atomic store of ObjectStore as    *)
(* long as no call fails, calls on one key overlap only if all of them are *)
(* GETs or listings, and every file has been given a row or an ETag before.*)
(* (A GET that overlaps a PUT, an ACL change or a DELETE can undo part of  *)
(* it, and two that overlap on a file without row and ETag can make it     *)
(* lose its metadata.)  A PUT takes effect when its file is renamed into   *)
(* place, an ACL change when it replaces the sidecar, a DELETE when it     *)
(* unlinks the file, and whatever only reads when it ends.                 *)
(***************************************************************************)
EXTENDS Storage

\* A sidecar being rewritten already says what its writer is about to put there.
Writing(r) == \/ At(r, "trunc") /\ req[r].op = "put"
              \/ pc[r] \in {"write", "ifdWrite"}
Described(k) ==
  IF \E r \in Requests : Writing(r) /\ KeyOf(r) = k
    THEN meta[CHOOSE r \in Requests : Writing(r) /\ KeyOf(r) = k]
    ELSE side[k]

ObjectOf(bytes, m) == [bytes |-> bytes, ct |-> m.ct, public |-> m.public]
ASSUME NoneIsNoObject == None \notin [bytes : Blobs, ct : Types, public : BOOLEAN]

Store == [k \in Keys |-> IF file[k] = None THEN None ELSE ObjectOf(file[k], Described(k))]

\* The step a PUT, ACL or DELETE takes effect at has been taken.
Effective(r) ==
  \/ req[r].op = "put" /\ pc[r] \in {"trunc", "write", "stat", "upsert", "ok"}
  \/ req[r].op = "acl" /\ pc[r] \notin {"isfile", "readmeta", "trunc", "notfound"}
  \/ req[r].op = "delete" /\ pc[r] \in {"rmside", "rmrow", "ok"}
  \/ req[r].op \notin {"put", "acl", "delete"} /\ At(r, "ok")

AnswerOf(r) ==
  IF req[r] = None THEN None
  ELSE IF pc[r] \in {"notfound", "denied"} THEN [status |-> pc[r]]
  ELSE IF ~Effective(r) THEN None
  ELSE IF req[r].op \in {"get", "anon"}
    THEN [status |-> "ok", object |-> ObjectOf(fd[r], cur[r]), etag |-> cur[r].etag]
  ELSE IF req[r].op = "list" THEN [status |-> "ok", keys |-> scan[r].seen]
  ELSE [status |-> "ok"]

SeedsOf(k) ==
  {LET s == Stored(k, how) IN IF s.file = None THEN None ELSE ObjectOf(s.file, s.side) :
     how \in InitStates}
SentBy(r, c) == [by |-> {r}, n |-> c.len]

Abstract == INSTANCE ObjectStore WITH
  store <- Store, call <- req, answer <- [r \in Requests |-> AnswerOf(r)],
  Seeds <- SeedsOf, Sent <- SentBy, ETag <- Hash

\* Clients see a store on which each of their calls acts at once, ETag and
\* metadata always those of the bytes they come with; on the terms named above.
ActsAtomically == Abstract!Spec
=============================================================================

---------------------------- MODULE ObjectStore ----------------------------
(***************************************************************************)
(* What one bucket promises its clients: a map from keys to objects, each  *)
(* call taking effect on it in one step between its arrival and its answer.*)
(* An object is its bytes with the Content-Type and visibility that came   *)
(* with them.                                                              *)
(***************************************************************************)
CONSTANTS
  Keys, Requests,
  Calls,        \* what clients may ask for: [op, key, ct, public, ...]
  None,
  Seeds(_),     \* the objects a key may hold initially
  Sent(_, _),   \* the bytes a request sends with its call
  ETag(_)       \* hash of some bytes

VARIABLES
  store,        \* store[k]: the object under k, or None
  call,         \* call[r]: what r asked for, None before it arrives
  answer        \* answer[r]: what r was told, None before it took effect

vars == <<store, call, answer>>

Init ==
  /\ \E s \in [Keys -> UNION {Seeds(k) : k \in Keys}] :
       /\ \A k \in Keys : s[k] \in Seeds(k)
       /\ store = s
  /\ call = [r \in Requests |-> None]
  /\ answer = [r \in Requests |-> None]

Arrive(r) ==
  /\ call[r] = None
  /\ \E c \in Calls : call' = [call EXCEPT ![r] = c]
  /\ UNCHANGED <<store, answer>>

Pending(r, ops) == call[r] # None /\ call[r].op \in ops /\ answer[r] = None
Answer(r, what) == answer' = [answer EXCEPT ![r] = what]
Object(r) == store[call[r].key]

Put(r) ==
  /\ Pending(r, {"put"})
  /\ store' = [store EXCEPT ![call[r].key] =
                 [bytes |-> Sent(r, call[r]), ct |-> call[r].ct, public |-> call[r].public]]
  /\ Answer(r, [status |-> "ok"])

SetPublic(r) ==
  /\ Pending(r, {"acl"})
  /\ IF Object(r) = None
       THEN Answer(r, [status |-> "notfound"]) /\ UNCHANGED store
       ELSE /\ store' = [store EXCEPT ![call[r].key].public = call[r].public]
            /\ Answer(r, [status |-> "ok"])

Delete(r) ==
  /\ Pending(r, {"delete"})
  /\ store' = [store EXCEPT ![call[r].key] = None]
  /\ Answer(r, [status |-> "ok"])

\* Without a signature only public objects are served, and a missing object is
\* refused like a private one.
Get(r) ==
  /\ Pending(r, {"get", "anon"})
  /\ Answer(r, IF call[r].op = "anon" /\ (Object(r) = None \/ ~Object(r).public)
                 THEN [status |-> "denied"]
               ELSE IF Object(r) = None THEN [status |-> "notfound"]
               ELSE [status |-> "ok", object |-> Object(r), etag |-> ETag(Object(r).bytes)])
  /\ UNCHANGED store

\* A listing shows stored objects only, and some if there are any: the index it
\* answers from may know only part of a bucket whose files it has not met yet.
List(r) ==
  /\ Pending(r, {"list"})
  /\ LET stored == {k \in Keys : store[k] # None} IN
       \E shown \in SUBSET stored :
         /\ shown = {} => stored = {}
         /\ Answer(r, [status |-> "ok", keys |-> shown])
  /\ UNCHANGED store

Reindex(r) ==
  /\ Pending(r, {"reindex", "startup"})
  /\ Answer(r, [status |-> "ok"])
  /\ UNCHANGED store

Next == \E r \in Requests :
  Arrive(r) \/ Put(r) \/ SetPublic(r) \/ Delete(r) \/ Get(r) \/ List(r) \/ Reindex(r)

Spec == Init /\ [][Next]_vars
=============================================================================

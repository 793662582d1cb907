------------------------------- MODULE MCAuth -------------------------------
(* A small instance of Auth for TLC. *)
EXTENDS Auth, TLC

CONSTANTS b1, b2, k1, k2, nl

Call(o, b, k, with, offset) ==
  [op |-> o, bucket |-> b, key |-> k, public |-> FALSE, method |-> "GET",
   seconds |-> 1, with |-> with, offset |-> offset]

\* About credentials: timestamps at both edges of the skew and beyond, and where
\* now - ts wraps.
Signing ==
  {Call("get", b1, k1, "header", o) : o \in {-1, 2, -(MaxInt + 1)}}
  \cup {Call("get", b1, k1, w, 0) : w \in {"nothing", "foreign", "copy"}}
  \cup {Call(o, b1, k1, "header", 0) : o \in {"acl", "presign"}}
  \cup {Call("put", b1, nl, "header", 0), Call("put", b1, k1, "copy", 0)}
  \cup {Call("rotate", b1, k1, w, 0) : w \in {"admin", "nothing"}}

\* About visibility: with and without a credential, there and back.
Showing ==
  {Call(o, b2, k2, "header", 0) : o \in {"get", "put", "acl", "remove", "list"}}
  \cup {Call("get", b2, k2, "nothing", 0), Call("reindex", b2, k2, "admin", 0)}
  \cup {[Call("acl", b2, k2, "header", 0) EXCEPT !.public = TRUE]}

MCScenarios == {[calls |-> Signing, until |-> MaxTime], [calls |-> Showing, until |-> 0]}

MCPublic == {<<b2, k2>>}
MCPrivate == {<<b1, k1>>}
MCRows == {<<b1, k1>>}

Symmetry == Permutations(Requests) \cup Permutations(Masters)
=============================================================================

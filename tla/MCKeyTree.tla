------------------------------ MODULE MCKeyTree ------------------------------
(* A small instance of KeyTree for TLC. *)
EXTENDS KeyTree, TLC

MCKeys == {<<"d">>, <<"d", "">>, <<"d", "x">>, <<"d", "x", "y">>, <<"d", ".upload-z">>}

Call(o, k) == [op |-> o, key |-> k]

MCCalls ==
  {Call(o, k) : o \in {"put", "remove"}, k \in MCKeys}
  \cup {Call("get", k) : k \in {<<"d", "">>, <<"d", "x">>}}

MCInitKeys == {{}, {<<"d">>}, {<<"d", "x">>}, {<<"d", "x", "y">>}}

Symmetry == Permutations(Requests)
=============================================================================

------------------------------- MODULE MCPager -------------------------------
(* A small instance of Pager for TLC: keys a/b, a/c, aa, b; filters "" and "a". *)
EXTENDS Pager, TLC

MCKeys == {<<97, 47, 98>>, <<97, 47, 99>>, <<97, 97>>, <<98>>}
MCInitRows == {MCKeys \ {<<97, 47, 99>>}}
MCPrefixes == {<<>>, <<97>>}
=============================================================================

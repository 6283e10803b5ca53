------------------------------- MODULE MCHeap -------------------------------
(***************************************************************************)
(* Instances of Heap for TLC.  A word is 4 bytes, so that a header is 4    *)
(* words and a queue node 3.                                               *)
(***************************************************************************)
EXTENDS Heap

DefaultAlign == {[words |-> w, align |-> 1] : w \in {1, 3, 6}}
MixedAlign == DefaultAlign \cup {[words |-> 8, align |-> 8]}
Node == {[words |-> 3, align |-> 1]}
=============================================================================

------------------------------ MODULE MCKQueue ------------------------------
(***************************************************************************)
(* The instance of KQueue for TLC.  The elements are pointers, of which    *)
(* the queue sees only whether they are equal.                             *)
(***************************************************************************)
EXTENDS KQueue, TLC

ValueSymmetry == Permutations(Values)
=============================================================================

-------------------------- MODULE MCAddressSpaces --------------------------
(***************************************************************************)
(* The instance of AddressSpaces for TLC: one program with code only, one  *)
(* whose data begins in the section after its code.  The stack is in the   *)
(* third section.                                                          *)
(***************************************************************************)
EXTENDS AddressSpaces

TwoPrograms == {<<1, 0>>, <<1, 1>>}
ProcSymmetry == Permutations(Procs)
=============================================================================

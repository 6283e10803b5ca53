----------------------------- MODULE MCSdReads -----------------------------
(***************************************************************************)
(* Instances of SdReads for TLC.                                           *)
(***************************************************************************)
EXTENDS SdReads

\* The kernel as it starts today has one thread that reads, init_thread.
CONSTANTS init, other, third
OneReader == {init}
ThreeReaders == {init, other, third}
=============================================================================

----------------------------- MODULE MCSkipList -----------------------------
(* Instances of the skip list for TLC. *)
EXTENDS SkipListProofs

MCKeys == 1 .. 3
MCKeys2 == 1 .. 2
=============================================================================

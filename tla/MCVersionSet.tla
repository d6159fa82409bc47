---------------------------- MODULE MCVersionSet ----------------------------
(* Instances of VersionSet for TLC. *)
EXTENDS VersionSet

\* A level below level 0 should hold two entries, the next one four.
Limits == <<2, 4>>
=============================================================================

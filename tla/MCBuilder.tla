------------------------------ MODULE MCBuilder ------------------------------
(* Instances of Builder for TLC. *)
EXTENDS Builder
=============================================================================

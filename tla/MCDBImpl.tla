------------------------------ MODULE MCDBImpl ------------------------------
(* Instances of DBImpl for TLC. *)
EXTENDS DBImpl, TLC

\* No action tells two writers apart.
Symmetry == Permutations(Writers)
=============================================================================

---------------------------- MODULE AtomicEdits ----------------------------
(***************************************************************************)
(* What DBImpl relies on when it calls LogAndApply: an edit is applied as  *)
(* a whole.  A crash finds the files from before the edit or those after   *)
(* it; when LogAndApply returns OK, only those after it; when it fails,    *)
(* memory has those from before, and another edit follows only if a crash  *)
(* would find these, too.                                                  *)
(***************************************************************************)

VARIABLES
  state,      \* the files of the current version
  pending,    \* the files after the edit in progress, as a set of at most one
  durable     \* what recovery may find

vars == <<state, pending, durable>>

Init == pending = {} /\ durable = {state}

Begin ==
  /\ pending = {} /\ durable = {state}
  /\ \E next \in pending' : pending' = {next}
  /\ UNCHANGED <<state, durable>>

\* The edit reaches the disk, for certain or not.
Write ==
  /\ pending # {}
  /\ durable' \in {durable \cup pending, pending}
  /\ UNCHANGED <<state, pending>>

Commit ==
  /\ pending # {} /\ durable = pending
  /\ state' \in pending
  /\ pending' = {}
  /\ UNCHANGED durable

Fail ==
  /\ pending # {}
  /\ pending' = {}
  /\ UNCHANGED <<state, durable>>

Next == Begin \/ Write \/ Commit \/ Fail
Spec == Init /\ [][Next]_vars
=============================================================================

------------------------------- MODULE KVStore -------------------------------
(***************************************************************************)
(* What include/leveldb/db.h promises of Write and Get for one key: every  *)
(* batch takes effect at most once, between the call and the return of its *)
(* Write, and exactly when that returns OK; a Get returns the value that   *)
(* was current at one moment between its call and its return.              *)
(***************************************************************************)
CONSTANTS Readers, Batches

VARIABLES
  current,  \* the batch whose value the key has, as a set of at most one
  pending,  \* batches whose Write has neither taken effect nor returned
  applied,  \* batches that have taken effect, their Write not yet returned
  acked,    \* batches whose Write returned OK
  failed,   \* batches whose Write returned an error
  get,      \* per reader: "idle", "open", or "answered"
  view,     \* what its Get will return
  value     \* what it has returned

writes == <<current, pending, applied, acked, failed>>
reads  == <<get, view, value>>
kvVars == <<current, pending, applied, acked, failed, get, view, value>>

Init ==
  /\ current = {} /\ pending = {} /\ applied = {} /\ acked = {} /\ failed = {}
  /\ get = [r \in Readers |-> "idle"]
  /\ view = [r \in Readers |-> {}]
  /\ value = [r \in Readers |-> {}]

CallWrite(b) ==
  /\ b \notin pending \cup applied \cup acked \cup failed
  /\ pending' = pending \cup {b}
  /\ UNCHANGED <<current, applied, acked, failed, reads>>

TakeEffect(b) ==
  /\ b \in pending
  /\ pending' = pending \ {b}
  /\ applied' = applied \cup {b}
  /\ current' = {b}
  /\ UNCHANGED <<acked, failed, reads>>

ReturnOK(b) ==
  /\ b \in applied
  /\ applied' = applied \ {b}
  /\ acked' = acked \cup {b}
  /\ UNCHANGED <<current, pending, failed, reads>>

ReturnError(b) ==
  /\ b \in pending
  /\ pending' = pending \ {b}
  /\ failed' = failed \cup {b}
  /\ UNCHANGED <<current, applied, acked, reads>>

CallGet(r) ==
  /\ get[r] = "idle"
  /\ get' = [get EXCEPT ![r] = "open"]
  /\ view' = [view EXCEPT ![r] = current]
  /\ UNCHANGED <<value, writes>>

FindValue(r) ==
  /\ get[r] = "open"
  /\ get' = [get EXCEPT ![r] = "answered"]
  /\ value' = [value EXCEPT ![r] = view[r]]
  /\ UNCHANGED <<view, writes>>

ReturnGet(r) ==
  /\ get[r] = "answered"
  /\ get' = [get EXCEPT ![r] = "idle"]
  /\ view' = [view EXCEPT ![r] = {}]
  /\ value' = [value EXCEPT ![r] = {}]
  /\ UNCHANGED writes

Next ==
  \/ \E b \in Batches :
       CallWrite(b) \/ TakeEffect(b) \/ ReturnOK(b) \/ ReturnError(b)
  \/ \E r \in Readers : CallGet(r) \/ FindValue(r) \/ ReturnGet(r)

Spec == Init /\ [][Next]_kvVars
=============================================================================

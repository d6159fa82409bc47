------------------------------ MODULE ReadPath ------------------------------
(***************************************************************************)
(* DBImpl::Get (db/db_impl.cc): under the mutex take a snapshot sequence   *)
(* number and references to the memtables and the version; search them     *)
(* without the mutex; drop the references under the mutex.                 *)
(***************************************************************************)
EXTENDS DBState

\* A thread that is not in Get.
NoRead == [snapshot |-> 0, mem |-> nullptr, imm |-> nullptr, sst |-> {},
           stats |-> FALSE, value |-> {}]

\* The tables a reader holds.
Held(r) == {rd[r].mem, rd[r].imm} \ {nullptr}

ReadVars == <<wVars, mem_, imm_, table, logVars, next_file_number_,
              last_sequence_, log_number_, level0, sst, bg_error_, bg,
              shutting_down_, history, faults>>

\* Mutant: no reference on the immutable memtable.
MutGet(r) ==
  /\ rpc[r] = "idle"
  /\ mutex_ = NoThread
  /\ ~shutting_down_
  /\ rd' = [rd EXCEPT ![r] = [snapshot |-> last_sequence_, mem |-> mem_,
                              imm |-> imm_, sst |-> sst, stats |-> FALSE,
                              value |-> {}]]
  /\ refs' = [refs EXCEPT ![mem_] = @ + 1]
  /\ rpc' = [rpc EXCEPT ![r] = "mem"]
  /\ UNCHANGED <<mutex_, ReadVars, file_to_compact_,
                 background_compaction_scheduled_, bpc>>

\* Get up to mutex_.Unlock(), without a snapshot in its options.
Get(r) ==
  /\ rpc[r] = "idle"
  /\ mutex_ = NoThread
  /\ ~shutting_down_
  /\ rd' = [rd EXCEPT ![r] = [snapshot |-> last_sequence_, mem |-> mem_,
                              imm |-> imm_, sst |-> sst, stats |-> FALSE,
                              value |-> {}]]
  /\ refs' = [m \in Files |-> IF m \in {mem_, imm_} THEN refs[m] + 1 ELSE refs[m]]
  /\ rpc' = [rpc EXCEPT ![r] = "mem"]
  /\ UNCHANGED <<mutex_, ReadVars, file_to_compact_,
                 background_compaction_scheduled_, bpc>>

\* One lookup in the entries E: a hit ends the search, a miss goes on.
Lookup(r, from, E, next, stats) ==
  LET hit == Newest(E, rd[r].snapshot) IN
  /\ rpc[r] = from
  /\ rpc' = [rpc EXCEPT ![r] = IF hit # {} THEN "end" ELSE next]
  /\ rd' = [rd EXCEPT ![r].value = hit, ![r].stats = stats]
  /\ UNCHANGED <<mutex_, ReadVars, refs, file_to_compact_,
                 background_compaction_scheduled_, bpc>>

\* Mutant: the immutable memtable is not searched.
MutGetFromMem(r) == Lookup(r, "mem", table[rd[r].mem], "version", FALSE)

GetFromMem(r) ==
  Lookup(r, "mem", table[rd[r].mem],
         IF rd[r].imm = nullptr THEN "version" ELSE "imm", FALSE)

GetFromImm(r) == Lookup(r, "imm", table[rd[r].imm], "version", FALSE)

\* Version::Get; have_stat_update is set whether it hits or not.
GetFromVersion(r) == Lookup(r, "version", rd[r].sst, "end", TRUE)

\* The mutex again: UpdateStats (external) may find that a file's seeks are
\* used up, which the current version knows only if it is the one searched;
\* then the references are dropped.
GetReturns(r) ==
  /\ rpc[r] = "end"
  /\ mutex_ = NoThread
  /\ \E updated, current \in BOOLEAN :
       LET to_compact == file_to_compact_ \/ current
           go == updated /\ Schedules(background_compaction_scheduled_, bg_error_,
                                      imm_, NeedsCompaction(level0, to_compact)) IN
       /\ updated => rd[r].stats
       /\ current => updated
       /\ file_to_compact_' = to_compact
       /\ background_compaction_scheduled_' = (background_compaction_scheduled_ \/ go)
       /\ bpc' = IF go THEN "queued" ELSE bpc
  /\ refs' = Unref(Held(r))
  /\ rpc' = [rpc EXCEPT ![r] = "idle"]
  /\ rd' = [rd EXCEPT ![r] = NoRead]
  /\ UNCHANGED <<mutex_, ReadVars>>

ReaderStep(r) ==
  GetFromMem(r) \/ GetFromImm(r) \/ GetFromVersion(r) \/ GetReturns(r)
=============================================================================

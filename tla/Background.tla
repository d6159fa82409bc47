----------------------------- MODULE Background -----------------------------
(***************************************************************************)
(* The background thread of DBImpl (db/db_impl.cc): BackgroundCall,        *)
(* BackgroundCompaction, CompactMemtable and WriteLevel0Table, with the    *)
(* parts of BuildTable (db/builder.cc) and VersionSet::LogAndApply         *)
(* (db/version_set.cc) that DBImpl relies on.  The mutex is released while *)
(* a table is built, while a manifest record is written and while          *)
(* DoCompactionWork merges.                                                *)
(***************************************************************************)
EXTENDS DBState

\* What a call of this component leaves alone.
ClientVars == <<writers_, wr, calls, rVars, mem_, table, logfile_number_, log,
                synced, last_sequence_, shutting_down_, history>>

\* The locals of CompactMemtable: the table built (its status and the entries
\* the edit adds), the edit's log number, and the caller to return to.
NoCompaction == [s |-> "OK", file_size |-> 0, edit |-> {}, log |-> 0, caller |-> "end"]

\* FileMetaData and status that BuildTable leaves for the entries E when the
\* Env call that fails first returns e.  meta->file_size stays 0, so the check
\* that "the table is usable" opens a file of size 0, which Table::Open calls
\* Corruption; only an empty memtable needs no table.
BuildTable(E, e) ==
  [s |-> IF E = {} THEN "OK" ELSE IF ~ok(e) THEN e ELSE "Corruption",
   file_size |-> 0]

\* CompactMemtable up to BuildTable: a file number is taken and the mutex
\* released.
BeginCompactMemtable(caller) ==
  /\ imm_ # nullptr
  /\ next_file_number_ \in Files
  /\ next_file_number_' = next_file_number_ + 1
  /\ bpc' = "build"
  /\ bg' = [NoCompaction EXCEPT !.caller = caller]
  /\ mutex_' = NoThread

\* BackgroundCall: what it finds to do.  A compaction that PickCompaction
\* returns is a trivial move or a merge.
BackgroundCall ==
  /\ bpc = "queued"
  /\ mutex_ = NoThread
  /\ IF shutting_down_ \/ ~ok(bg_error_)
       THEN bpc' = "end" /\ mutex_' = Background /\ UNCHANGED <<bg, next_file_number_>>
     ELSE IF imm_ # nullptr THEN BeginCompactMemtable("end")
     ELSE /\ IF NeedsCompaction(level0, file_to_compact_)
               THEN bpc' \in {"move", "work"} /\ UNCHANGED mutex_
               ELSE bpc' = "end" /\ mutex_' = Background
          /\ UNCHANGED <<bg, next_file_number_>>
  /\ UNCHANGED <<ClientVars, wpc, imm_, refs, logs, verVars, bg_error_,
                 background_compaction_scheduled_, faults>>

\* What a compaction that PickCompaction (external) chose does to level 0 when
\* it takes up to n of its files: some go if that is why it was chosen, and
\* otherwise the file whose seeks were used up is gone.
Compacted(n) ==
  /\ level0' \in {level0 - k : k \in 0 .. n} \cap Nat
  /\ level0 >= kL0_CompactionTrigger => level0' < level0
  /\ file_to_compact_' = FALSE

\* LogAndApply of a trivial move returns.
TrivialMove ==
  /\ bpc = "move"
  /\ mutex_ = NoThread
  /\ mutex_' = Background
  /\ bpc' = "end"
  /\ \E s \in EnvStatus :
       /\ CountFault(s)
       /\ IF ok(s)
            THEN /\ Compacted(1)
                 /\ UNCHANGED <<bg_error_, wpc>>
            ELSE /\ bg_error_' = RecordBackgroundError(s)
                 /\ wpc' = SignalAll(wpc)
                 /\ UNCHANGED <<level0, file_to_compact_>>
  /\ UNCHANGED <<ClientVars, imm_, refs, logs, next_file_number_, log_number_,
                 sst, background_compaction_scheduled_, bg>>

\* DoCompactionWork (external) stops its merge for a memtable that waits.
WorkCompactsMemtable ==
  /\ bpc = "work"
  /\ mutex_ = NoThread
  /\ BeginCompactMemtable("work")
  /\ UNCHANGED <<ClientVars, wpc, imm_, refs, logs, verVars, bg_error_,
                 background_compaction_scheduled_, faults>>

\* DoCompactionWork (external) ends with a status; RemoveObsoleteFiles follows.
DoCompactionWork ==
  /\ bpc = "work"
  /\ mutex_ = NoThread
  /\ mutex_' = Background
  /\ bpc' = "end"
  /\ \E s \in EnvStatus :
       /\ CountFault(s)
       /\ IF ok(s)
            THEN /\ Compacted(level0)
                 /\ UNCHANGED <<bg_error_, wpc>>
            ELSE /\ bg_error_' = RecordBackgroundError(s)
                 /\ wpc' = SignalAll(wpc)
                 /\ UNCHANGED <<level0, file_to_compact_>>
  /\ logs' = RemoveObsoleteLogs(log_number_)
  /\ UNCHANGED <<ClientVars, imm_, refs, next_file_number_, log_number_, sst,
                 background_compaction_scheduled_, bg>>

-----------------------------------------------------------------------------
(* CompactMemtable *)

\* BuildTable runs, without the mutex, over the memtable imm_.
Build ==
  /\ bpc = "build"
  /\ \E e \in EnvStatus :
       /\ table[imm_] = {} => e = "OK"
       /\ CountFault(e)
       /\ bg' = [bg EXCEPT !.s = BuildTable(table[imm_], e).s,
                           !.file_size = BuildTable(table[imm_], e).file_size]
  /\ bpc' = "built"
  /\ UNCHANGED <<mutex_, ClientVars, wpc, imm_, refs, logs, next_file_number_,
                 verVars, bg_error_, background_compaction_scheduled_>>

\* Where CompactMemtable returns to: BackgroundCall goes on with the mutex,
\* DoCompactionWork signals and releases it.
ReturnToCaller ==
  /\ bpc' = bg.caller
  /\ mutex_' = IF bg.caller = "end" THEN Background ELSE NoThread
  /\ bg' = NoCompaction

SignalCaller == IF bg.caller = "work" THEN SignalAll(wpc) ELSE wpc

\* The edit adds the table when there is one.
EditEntries == IF ok(bg.s) /\ bg.file_size > 0 THEN table[imm_] ELSE {}

\* Mutant: the edit's log number is the one after the current log.
MutBuilt ==
  /\ bpc = "built"
  /\ mutex_ = NoThread
  /\ ok(bg.s) /\ ~shutting_down_
  /\ bg' = [bg EXCEPT !.edit = EditEntries, !.log = logfile_number_ + 1]
  /\ bpc' = "manifest"
  /\ UNCHANGED <<mutex_, ClientVars, wpc, imm_, refs, logs, next_file_number_,
                 verVars, bg_error_, background_compaction_scheduled_, faults>>

\* A usable result: LogAndApply is called with the number of the current log
\* ("Earlier logs no longer needed") and releases the mutex.
Built ==
  /\ bpc = "built"
  /\ mutex_ = NoThread
  /\ ok(bg.s) /\ ~shutting_down_
  /\ bg' = [bg EXCEPT !.edit = EditEntries, !.log = logfile_number_]
  /\ bpc' = "manifest"
  /\ UNCHANGED <<mutex_, ClientVars, wpc, imm_, refs, logs, next_file_number_,
                 verVars, bg_error_, background_compaction_scheduled_, faults>>

\* No usable table, or the database is being deleted: the error is recorded
\* and imm_ stays.
BuildFailed ==
  /\ bpc = "built"
  /\ mutex_ = NoThread
  /\ ~ok(bg.s) \/ shutting_down_
  /\ bg_error_' = RecordBackgroundError(IF ok(bg.s) THEN "IOError" ELSE bg.s)
  /\ wpc' = SignalAll(wpc)
  /\ ReturnToCaller
  /\ UNCHANGED <<ClientVars, imm_, refs, logs, next_file_number_, verVars,
                 background_compaction_scheduled_, faults>>

\* Mutant: imm_ keeps pointing at the memtable that was released.
MutInstalled ==
  /\ bpc = "manifest"
  /\ mutex_ = NoThread
  /\ log_number_' = bg.log
  /\ sst' = sst \cup bg.edit
  /\ level0' = IF bg.edit = {} THEN level0 ELSE level0 + 1
  /\ refs' = Unref({imm_})
  /\ logs' = RemoveObsoleteLogs(bg.log)
  /\ wpc' = SignalCaller
  /\ ReturnToCaller
  /\ UNCHANGED <<ClientVars, next_file_number_, file_to_compact_, bg_error_,
                 background_compaction_scheduled_, faults, imm_>>

\* The manifest record is written: the version is installed, imm_ dropped and
\* the logs below the new log number are removed.
Installed ==
  /\ bpc = "manifest"
  /\ mutex_ = NoThread
  /\ log_number_' = bg.log
  /\ sst' = sst \cup bg.edit
  /\ level0' = IF bg.edit = {} THEN level0 ELSE level0 + 1
  /\ refs' = Unref({imm_})
  /\ imm_' = nullptr
  /\ logs' = RemoveObsoleteLogs(bg.log)
  /\ wpc' = SignalCaller
  /\ ReturnToCaller
  /\ UNCHANGED <<ClientVars, next_file_number_, file_to_compact_, bg_error_,
                 background_compaction_scheduled_, faults>>

\* The manifest record could not be written.
InstallFailed ==
  /\ bpc = "manifest"
  /\ mutex_ = NoThread
  /\ ~ok("IOError") /\ "IOError" \in EnvStatus
  /\ CountFault("IOError")
  /\ bg_error_' = RecordBackgroundError("IOError")
  /\ wpc' = SignalAll(wpc)
  /\ ReturnToCaller
  /\ UNCHANGED <<ClientVars, imm_, refs, logs, next_file_number_, verVars,
                 background_compaction_scheduled_>>

-----------------------------------------------------------------------------

\* Mutant: no further compaction is scheduled.
MutEndCall ==
  /\ bpc = "end" /\ mutex_ = Background
  /\ background_compaction_scheduled_' = FALSE
  /\ bpc' = "off"
  /\ wpc' = SignalAll(wpc)
  /\ mutex_' = NoThread
  /\ UNCHANGED <<ClientVars, imm_, refs, logs, next_file_number_, verVars,
                 bg_error_, bg, faults>>

\* The end of BackgroundCall: schedule again if there is more to do, and
\* signal the writers that wait for room.
EndCall ==
  LET again == Schedules(FALSE, bg_error_, imm_,
                         NeedsCompaction(level0, file_to_compact_)) IN
  /\ bpc = "end" /\ mutex_ = Background
  /\ background_compaction_scheduled_' = again
  /\ bpc' = IF again THEN "queued" ELSE "off"
  /\ wpc' = SignalAll(wpc)
  /\ mutex_' = NoThread
  /\ UNCHANGED <<ClientVars, imm_, refs, logs, next_file_number_, verVars,
                 bg_error_, bg, faults>>

BackgroundStep ==
  \/ BackgroundCall
  \/ TrivialMove \/ WorkCompactsMemtable \/ DoCompactionWork
  \/ Build \/ Built \/ BuildFailed \/ Installed \/ InstallFailed
  \/ EndCall
=============================================================================

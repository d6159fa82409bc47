------------------------------- MODULE DBState -------------------------------
(***************************************************************************)
(* The state of one open DBImpl (db/db_impl.h) and the helpers that its    *)
(* write path, read path and background thread share.                      *)
(*                                                                         *)
(* Data abstraction.  All batches write the same user key, one entry each: *)
(* lookups never compare entries of different keys.  A batch is a number,  *)
(* given in the order of the calls to Write, and an entry is a pair        *)
(* <<sequence number, batch>>.  A memtable is named by the number of the   *)
(* log file created with it, which is how DBImpl pairs them.               *)
(***************************************************************************)
EXTENDS Integers, Sequences, FiniteSets

CONSTANTS
  Writers,                   \* client threads that call Write or Put
  Readers,                   \* client threads that call Get
  Background,                \* the Env's background thread
  NoThread,                  \* the holder of a free mutex
  StubOk,                    \* TRUE: Status::ok() is the stub of status.h
  write_buffer_size,         \* entries a memtable should hold at most
  kL0_CompactionTrigger,
  kL0_SlowdownWritesTrigger,
  kL0_StopWritesTrigger,
  InitL0,                    \* level-0 files of the database that was opened
  MaxGroup,                  \* batches BuildBatchGroup merges at most
  MaxWrites,                 \* bound: calls to Write
  MaxFileNumber,             \* bound: file numbers
  MaxFaults                  \* bound: failing calls into Env

ASSUME ThreadAssumption ==
  /\ Background \notin Writers \cup Readers
  /\ NoThread \notin Writers \cup Readers \cup {Background}
  /\ Writers \cap Readers = {}
  /\ IsFiniteSet(Readers)
ASSUME BoundAssumption ==
  /\ StubOk \in BOOLEAN
  /\ {write_buffer_size, InitL0, MaxWrites, MaxFaults} \subseteq Nat
  /\ {MaxGroup, MaxFileNumber} \subseteq Nat \ {0}
  /\ {kL0_CompactionTrigger, kL0_SlowdownWritesTrigger,
      kL0_StopWritesTrigger} \subseteq Nat \ {0}

nullptr == 0                      \* a batch or memtable that is not there
Files   == 1 .. MaxFileNumber
Batches == 1 .. MaxWrites
Entries == Nat \X Batches
Status  == {"OK", "IOError", "Corruption"}

VARIABLES
  mutex_,            \* the thread that holds mutex_
  writers_,          \* the deque of Writers
  wpc,               \* where each writer is in Write
  wr,                \* its Writer struct and the locals of Write
  mem_, imm_,        \* the memtables, by number; nullptr is 0
  table,             \* contents of each memtable
  refs,              \* MemTable::refs_
  logfile_number_,
  log,               \* records in each log file
  synced,            \* the part of each log that a Sync covered
  logs,              \* log files on disk
  next_file_number_,
  last_sequence_,
  log_number_,       \* logs below it are not needed any more
  level0,            \* number of level-0 files of the current version
  file_to_compact_,  \* is there a file whose seeks are used up?
  sst,               \* entries in the tables of the current version
  bg_error_,
  background_compaction_scheduled_,
  shutting_down_,
  bpc,               \* where the background thread is
  bg,                \* locals of the background thread
  rpc,               \* where each reader is in Get
  rd,                \* the locals of Get
  calls,             \* calls to Write with a batch or without
  faults,            \* failed calls into Env
  acked,             \* history: <<batch, sync>> acknowledged with an ok status
  failed             \* history: batches refused with a non-ok status

wVars  == <<writers_, wpc, wr, calls>>
memVars == <<mem_, imm_, table, refs>>
logVars == <<logfile_number_, log, synced, logs>>
verVars == <<log_number_, level0, file_to_compact_, sst>>
bgVars == <<background_compaction_scheduled_, bpc, bg>>
rVars  == <<rpc, rd>>
history == <<acked, failed>>
vars == <<mutex_, writers_, wpc, wr, mem_, imm_, table, refs, logfile_number_,
          log, synced, logs, next_file_number_, last_sequence_, log_number_,
          level0, file_to_compact_, sst, bg_error_,
          background_compaction_scheduled_, shutting_down_, bpc, bg, rpc, rd,
          calls, faults, acked, failed>>

-----------------------------------------------------------------------------

\* Status::ok().  status.h returns true for every status; StubOk = FALSE is
\* the contract its callers are written for, where state_ is null iff OK.
ok(s) == StubOk \/ s = "OK"

\* The statuses a call into Env may return while failures are left, and the
\* count of the failures.
EnvStatus == IF faults < MaxFaults THEN {"OK", "IOError"} ELSE {"OK"}
CountFault(s) == faults' = IF s = "OK" THEN faults ELSE faults + 1

\* The newest entry of a set that a snapshot may see, as the set of at most
\* one batch; and whether there is one.
Visible(E, snapshot) == {e \in E : e[1] <= snapshot}
Newest(E, snapshot) ==
  {e[2] : e \in {f \in Visible(E, snapshot) :
                   \A g \in Visible(E, snapshot) : g[1] <= f[1]}}

\* VersionSet::NeedsCompaction (external): the score Finalize computed, or a
\* file whose seeks are used up.
NeedsCompaction(files, to_compact) ==
  files >= kL0_CompactionTrigger \/ to_compact

\* MaybeScheduleCompaction: whether it calls Env::Schedule, given the values
\* its caller has just stored.
Schedules(scheduled, error, imm, needs) ==
  /\ ~scheduled
  /\ ~shutting_down_
  /\ ok(error)
  /\ imm # nullptr \/ needs

\* Waiters on background_work_finished_signal_ after a SignalAll.
SignalAll(p) == [w \in Writers |-> IF p[w] = "bgwait" THEN "bgwoken" ELSE p[w]]

\* RecordBackgroundError (external): the first error stays, and every thread
\* waiting for background work is signalled.
RecordBackgroundError(e) == IF ok(bg_error_) THEN e ELSE bg_error_

\* MemTable::Unref, for every memtable of the set S: at zero it is deleted.
Unref(S) == [m \in Files |-> IF m \in S THEN refs[m] - 1 ELSE refs[m]]

\* RemoveObsoleteFiles (external) keeps the logs that recovery would read.
RemoveObsoleteLogs(number) == {n \in logs : n >= number}
=============================================================================

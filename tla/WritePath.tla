------------------------------ MODULE WritePath ------------------------------
(***************************************************************************)
(* DBImpl::Write and DBImpl::MakeRoomForWrite (db/db_impl.cc).  Writers    *)
(* queue up in writers_; the one at the front works for a while without    *)
(* mutex_, on log_ and mem_, and hands over to the next.                   *)
(***************************************************************************)
EXTENDS DBState

\* Writer(&mutex_) and the initial values of Write's locals.
NewWriter(b, sync) ==
  [batch |-> b, sync |-> sync, done |-> FALSE, status |-> "OK",
   force |-> b = nullptr, allow_delay |-> b # nullptr, s |-> "OK",
   group |-> <<>>, base |-> 0, inserted |-> 0, sync_error |-> FALSE]

NoWriter == NewWriter(nullptr, FALSE)  \* a thread that is not in Write

\* What Write returned to w, for the history: nothing for a null batch.
Answer(w, s) ==
  IF wr[w].batch = nullptr THEN UNCHANGED history
  ELSE IF ok(s) THEN /\ acked' = acked \cup {<<wr[w].batch, wr[w].sync>>}
                     /\ UNCHANGED failed
  ELSE failed' = failed \cup {wr[w].batch} /\ UNCHANGED acked

Set(w, field, value) == wr' = [wr EXCEPT ![w][field] = value]

Goto(w, label) == wpc' = [wpc EXCEPT ![w] = label]

\* What the queueing in Write leaves alone, and MakeRoomForWrite too unless it
\* switches memtables.
BaseVars == <<memVars, logVars, next_file_number_, last_sequence_, verVars,
              bg_error_, bgVars, shutting_down_, rVars, faults>>
RoomVars == <<BaseVars, history>>

\* Write up to the first test of its wait loop: lock, join the queue, and
\* either go on as its only member or wait on w.cv.
Write(w, b, sync) ==
  /\ wpc[w] = "idle"
  /\ mutex_ = NoThread
  /\ ~shutting_down_
  /\ writers_' = Append(writers_, w)
  /\ wr' = [wr EXCEPT ![w] = NewWriter(b, sync)]
  /\ calls' = calls + 1
  /\ IF writers_ = <<>>
       THEN Goto(w, "makeroom") /\ mutex_' = w
       ELSE Goto(w, "wait") /\ UNCHANGED mutex_
  /\ UNCHANGED <<RoomVars>>

\* Put(key, value), or Write with a null batch ("nullptr batch is for
\* compactions").
StartWrite(w) ==
  /\ calls < MaxWrites
  /\ \E b \in {nullptr, calls + 1}, sync \in BOOLEAN : Write(w, b, sync)

\* A condition variable, w.cv or background_work_finished_signal_, may wake a
\* thread that nobody signalled.
SpuriousWakeup(w) ==
  /\ wpc[w] \in {"wait", "bgwait"}
  /\ Goto(w, IF wpc[w] = "wait" THEN "woken" ELSE "bgwoken")
  /\ UNCHANGED <<mutex_, writers_, wr, calls, RoomVars>>

\* Mutant: the wait loop is an if, a woken writer does not test again.
MutWakeup(w) ==
  /\ wpc[w] = "woken"
  /\ mutex_ = NoThread
  /\ Goto(w, "makeroom") /\ mutex_' = w
  /\ UNCHANGED <<writers_, wr, calls, RoomVars>>

\* The wait loop, once w.cv.Wait() has the mutex again: return if a group
\* leader did the work, go on at the front of the queue, or wait again.
Wakeup(w) ==
  /\ wpc[w] = "woken"
  /\ mutex_ = NoThread
  /\ IF wr[w].done
       THEN /\ Goto(w, "idle")
            /\ wr' = [wr EXCEPT ![w] = NoWriter]
            /\ Answer(w, wr[w].status)
            /\ UNCHANGED mutex_
       ELSE /\ IF w = Head(writers_)
                 THEN Goto(w, "makeroom") /\ mutex_' = w
                 ELSE Goto(w, "wait") /\ UNCHANGED mutex_
            /\ UNCHANGED <<wr, history>>
  /\ UNCHANGED <<writers_, calls, BaseVars>>

-----------------------------------------------------------------------------
(* MakeRoomForWrite: one action per branch of its loop *)

MakingRoom(w) == wpc[w] = "makeroom" /\ mutex_ = w

\* The first test, as written: "if (bg_error_.ok()) { s = bg_error_; break; }"
StopsAtError == ok(bg_error_)

Delays(w) == wr[w].allow_delay /\ level0 >= kL0_SlowdownWritesTrigger

HasRoom(w) == ~wr[w].force /\ Cardinality(table[mem_]) <= write_buffer_size

\* Mutant: the previous memtable is not waited for.
MutMustWait == level0 >= kL0_StopWritesTrigger

MustWait == imm_ # nullptr \/ level0 >= kL0_StopWritesTrigger

\* Break out of the loop with status e.
LeaveLoop(w, e) == Set(w, "s", e) /\ Goto(w, "group") /\ UNCHANGED mutex_

RoomError(w) ==
  /\ MakingRoom(w)
  /\ StopsAtError
  /\ LeaveLoop(w, bg_error_)
  /\ UNCHANGED <<writers_, calls, RoomVars>>

\* Give up the mutex for a millisecond, once.
RoomDelay(w) ==
  /\ MakingRoom(w)
  /\ ~StopsAtError
  /\ Delays(w)
  /\ Set(w, "allow_delay", FALSE)
  /\ Goto(w, "sleep")
  /\ mutex_' = NoThread
  /\ UNCHANGED <<writers_, calls, RoomVars>>

RoomFound(w) ==
  /\ MakingRoom(w)
  /\ ~StopsAtError /\ ~Delays(w)
  /\ HasRoom(w)
  /\ LeaveLoop(w, "OK")
  /\ UNCHANGED <<writers_, calls, RoomVars>>

\* Wait for background work: the previous memtable is still there, or there
\* are too many level-0 files.
RoomWait(w) ==
  /\ MakingRoom(w)
  /\ ~StopsAtError /\ ~Delays(w) /\ ~HasRoom(w)
  /\ MustWait
  /\ Goto(w, "bgwait")
  /\ mutex_' = NoThread
  /\ UNCHANGED <<writers_, wr, calls, RoomVars>>

Switches(w) ==
  /\ MakingRoom(w)
  /\ ~StopsAtError /\ ~Delays(w) /\ ~HasRoom(w) /\ ~MustWait
  /\ next_file_number_ \in Files

\* The new log file cannot be created: its number is used again.
SwitchFails(w) ==
  /\ Switches(w)
  /\ "IOError" \in EnvStatus
  /\ CountFault("IOError")
  /\ LeaveLoop(w, "IOError")
  /\ UNCHANGED <<writers_, calls, memVars, logVars, next_file_number_,
                 last_sequence_, verVars, bg_error_, bgVars, shutting_down_,
                 rVars, history>>

\* A new log file and a new memtable, the old one becomes imm_; loop again.
SwitchMemTable(w) ==
  LET n == next_file_number_
      go == Schedules(background_compaction_scheduled_, bg_error_, mem_,
                      NeedsCompaction(level0, file_to_compact_)) IN
  /\ Switches(w)
  /\ next_file_number_' = n + 1
  /\ logfile_number_' = n
  /\ logs' = logs \cup {n}
  /\ imm_' = mem_
  /\ mem_' = n
  /\ refs' = [refs EXCEPT ![n] = 1]
  /\ Set(w, "force", FALSE)
  /\ background_compaction_scheduled_' = (background_compaction_scheduled_ \/ go)
  /\ bpc' = IF go THEN "queued" ELSE bpc
  /\ UNCHANGED <<mutex_, writers_, wpc, calls, table, log, synced,
                 last_sequence_, verVars, bg_error_, bg, shutting_down_,
                 rVars, history, faults>>

\* Mutant: the mutex is not locked again before the loop goes on.
MutRoomRelock(w) ==
  /\ wpc[w] \in {"sleep", "bgwoken"}
  /\ Goto(w, "makeroom")
  /\ UNCHANGED <<mutex_, writers_, wr, calls, RoomVars>>

\* The mutex again, after the millisecond or a signal.
RoomRelock(w) ==
  /\ wpc[w] \in {"sleep", "bgwoken"}
  /\ mutex_ = NoThread
  /\ mutex_' = w
  /\ Goto(w, "makeroom")
  /\ UNCHANGED <<writers_, wr, calls, RoomVars>>

-----------------------------------------------------------------------------
(* The rest of Write *)

\* BuildBatchGroup (external): the batches of the first n writers, merged.
BuildBatchGroup(n) == [j \in 1 .. n |-> wr[writers_[j]].batch]

\* The entries that a writer's group becomes.
GroupEntries(w) ==
  {<<wr[w].base + j, wr[w].group[j]>> : j \in DOMAIN wr[w].group}

\* Mutant: the new last sequence number is stored before the group is inserted.
MutBuildGroup(w) ==
  /\ wpc[w] = "group" /\ mutex_ = w
  /\ ok(wr[w].s) /\ wr[w].batch # nullptr
  /\ wr' = [wr EXCEPT ![w].group = <<wr[w].batch>>, ![w].base = last_sequence_]
  /\ last_sequence_' = last_sequence_ + 1
  /\ Goto(w, "log")
  /\ mutex_' = NoThread
  /\ UNCHANGED <<writers_, calls, memVars, logVars, next_file_number_, verVars,
                 bg_error_, bgVars, shutting_down_, rVars, faults, history>>

\* With room and a batch: take a group, number it, release the mutex.
BuildGroup(w) ==
  /\ wpc[w] = "group" /\ mutex_ = w
  /\ ok(wr[w].s) /\ wr[w].batch # nullptr
  /\ \E n \in 1 .. Len(writers_) :
       /\ n <= MaxGroup
       /\ \A j \in 1 .. n : wr[writers_[j]].batch # nullptr
       /\ wr' = [wr EXCEPT ![w].group = BuildBatchGroup(n),
                           ![w].base = last_sequence_]
  /\ Goto(w, "log")
  /\ mutex_' = NoThread
  /\ UNCHANGED <<writers_, calls, RoomVars>>

\* No room, or a null batch: nothing to write.
SkipGroup(w) ==
  /\ wpc[w] = "group" /\ mutex_ = w
  /\ ~ok(wr[w].s) \/ wr[w].batch = nullptr
  /\ Goto(w, "finish")
  /\ UNCHANGED <<mutex_, writers_, wr, calls, RoomVars>>

\* Mutant: the status of AddRecord is not looked at.
MutAfterLog(w, e) == IF wr[w].sync THEN "sync" ELSE "insert"

\* What Write does next, without the mutex, with status e.
AfterLog(w, e) == IF ~ok(e) THEN "relock" ELSE IF wr[w].sync THEN "sync" ELSE "insert"

\* log_->AddRecord.  A failed append may or may not have left the record.
AddRecord(w) ==
  /\ wpc[w] = "log"
  /\ \E e \in EnvStatus, written \in BOOLEAN :
       /\ e = "OK" => written
       /\ CountFault(e)
       /\ Set(w, "s", e)
       /\ log' = IF written
                   THEN [log EXCEPT ![logfile_number_] = @ \cup GroupEntries(w)]
                   ELSE log
       /\ Goto(w, AfterLog(w, e))
  /\ UNCHANGED <<mutex_, writers_, calls, memVars, logfile_number_, synced,
                 logs, next_file_number_, last_sequence_, verVars, bg_error_,
                 bgVars, shutting_down_, rVars, history>>

\* logfile_->Sync
Sync(w) ==
  /\ wpc[w] = "sync"
  /\ \E e \in EnvStatus :
       /\ CountFault(e)
       /\ wr' = [wr EXCEPT ![w].s = e, ![w].sync_error = ~ok(e)]
       /\ synced' = IF e = "OK"
                      THEN [synced EXCEPT ![logfile_number_] = log[logfile_number_]]
                      ELSE synced
       /\ Goto(w, IF ok(e) THEN "insert" ELSE "relock")
  /\ UNCHANGED <<mutex_, writers_, calls, memVars, logfile_number_, log, logs,
                 next_file_number_, last_sequence_, verVars, bg_error_, bgVars,
                 shutting_down_, rVars, history>>

\* WriteBatchInternal::InsertInto (external), one entry: the group goes into mem_
\* while readers look.  It is taken to fail only for a malformed batch, which no
\* client here makes, so its status is OK.
InsertInto(w) ==
  LET j == wr[w].inserted + 1 IN
  /\ wpc[w] = "insert"
  /\ table' = [table EXCEPT ![mem_] = @ \cup {<<wr[w].base + j, wr[w].group[j]>>}]
  /\ wr' = [wr EXCEPT ![w].inserted = j, ![w].s = "OK"]
  /\ IF j = Len(wr[w].group) THEN Goto(w, "relock") ELSE UNCHANGED wpc
  /\ UNCHANGED <<mutex_, writers_, calls, mem_, imm_, refs, logVars,
                 next_file_number_, last_sequence_, verVars, bg_error_, bgVars,
                 shutting_down_, rVars, history, faults>>

\* Mutant: the sequence numbers of a group that failed are used again.
MutRelock(w) ==
  /\ wpc[w] = "relock"
  /\ mutex_ = NoThread
  /\ mutex_' = w
  /\ IF wr[w].sync_error
       THEN /\ bg_error_' = RecordBackgroundError(wr[w].s)
            /\ wpc' = [SignalAll(wpc) EXCEPT ![w] = "finish"]
       ELSE Goto(w, "finish") /\ UNCHANGED bg_error_
  /\ last_sequence_' = IF ok(wr[w].s) THEN wr[w].base + Len(wr[w].group)
                       ELSE last_sequence_
  /\ UNCHANGED <<writers_, wr, calls, memVars, logVars, next_file_number_,
                 verVars, bgVars, shutting_down_, rVars, history, faults>>

\* The mutex again: record a failed Sync, and make the group visible by
\* advancing the last sequence number, whatever the status is.
Relock(w) ==
  /\ wpc[w] = "relock"
  /\ mutex_ = NoThread
  /\ mutex_' = w
  /\ IF wr[w].sync_error
       THEN /\ bg_error_' = RecordBackgroundError(wr[w].s)
            /\ wpc' = [SignalAll(wpc) EXCEPT ![w] = "finish"]
       ELSE Goto(w, "finish") /\ UNCHANGED bg_error_
  /\ last_sequence_' = wr[w].base + Len(wr[w].group)
  /\ UNCHANGED <<writers_, wr, calls, memVars, logVars, next_file_number_,
                 verVars, bgVars, shutting_down_, rVars, history, faults>>

\* The queue after Write: last_writer is w itself (BuildBatchGroup is passed
\* &last_sequence), so the loop pops the queue up to and including w.
MyPlace(w) == CHOOSE j \in DOMAIN writers_ : writers_[j] = w
Served(w)  == {writers_[j] : j \in 1 .. (MyPlace(w) - 1)}
Rest(w)    == SubSeq(writers_, MyPlace(w) + 1, Len(writers_))

\* Threads that wait on their own cv after S was signalled.
Signal(p, S) ==
  [v \in Writers |-> IF v \in S /\ p[v] = "wait" THEN "woken" ELSE p[v]]

\* Pop the queue, with done for everybody popped but w; NewFront is the set
\* of writers signalled as the front of what remains; then return.
PopAndReturn(w, NewFront) ==
  /\ wpc[w] = "finish" /\ mutex_ = w
  /\ writers_' = Rest(w)
  /\ wr' = [v \in Writers |->
              IF v = w THEN NoWriter
              ELSE IF v \in Served(w)
                THEN [wr[v] EXCEPT !.status = wr[w].s, !.done = TRUE]
              ELSE wr[v]]
  /\ wpc' = [Signal(wpc, Served(w) \cup NewFront) EXCEPT ![w] = "idle"]
  /\ mutex_' = NoThread
  /\ Answer(w, wr[w].s)
  /\ UNCHANGED <<calls, BaseVars>>

\* Mutant: the writer that is now at the front is not signalled.
MutFinish(w) == PopAndReturn(w, {})

\* The end of Write: the next writer at the front is signalled.
Finish(w) == PopAndReturn(w, {v \in Writers : Rest(w) # <<>> /\ v = Head(Rest(w))})

WriterStep(w) ==
  \/ Wakeup(w)
  \/ RoomError(w) \/ RoomDelay(w) \/ RoomFound(w) \/ RoomWait(w)
  \/ SwitchFails(w) \/ SwitchMemTable(w) \/ RoomRelock(w)
  \/ BuildGroup(w) \/ SkipGroup(w)
  \/ AddRecord(w) \/ Sync(w) \/ InsertInto(w)
  \/ Relock(w) \/ Finish(w)
=============================================================================

---------------------------- MODULE DBImplProofs ----------------------------
(***************************************************************************)
(* Proofs about one open database, for any number of writers and readers   *)
(* and any bounds.                                                         *)
(***************************************************************************)
EXTENDS DBImpl, FiniteSetTheorems, SequenceTheorems, TLAPS

\* A writer is in the queue, once, exactly while it is in Write, and nobody is
\* ever told that a group leader did its work.
Queued ==
  /\ \A j, k \in 1 .. Len(writers_) : writers_[j] = writers_[k] => j = k
  /\ \A w \in Writers :
       wpc[w] # "idle" <=> \E j \in 1 .. Len(writers_) : writers_[j] = w
  /\ \A w \in Writers : ~wr[w].done

\* From the numbering of its group to the store of the new last sequence
\* number a writer's group starts behind last_sequence_, and its entries are
\* inserted one after the other.
Numbering == {"log", "sync", "insert", "relock"}
Counted ==
  \A w \in Writers :
    /\ wpc[w] \in Numbering =>
         wr[w].base = last_sequence_ /\ Len(wr[w].group) >= 1
    /\ wpc[w] \notin {"insert", "relock", "finish"} => wr[w].inserted = 0
    /\ wpc[w] = "insert" => wr[w].inserted < Len(wr[w].group)

\* The part of the inductive invariant about the writers.
QInv == WriterTypes /\ Queued /\ FrontOnly /\ NoLostWakeup /\ Counted

\* Files are numbered in the order of their creation, and the manifest's log
\* number disowns no log that a memtable of DBImpl still needs.
Numbered ==
  /\ mem_ = logfile_number_ /\ mem_ < next_file_number_
  /\ log_number_ <= mem_ /\ mem_ \in logs
  /\ imm_ # nullptr => imm_ < mem_ /\ log_number_ <= imm_ /\ imm_ \in logs
  /\ \A r \in Readers : \A m \in Held(r) : m < next_file_number_

\* CompactMemtable has a memtable to compact, and puts the current log's number
\* and at most the memtable's entries into its edit.
Flushing ==
  /\ bpc \in {"build", "built", "manifest"} => imm_ # nullptr
  /\ bpc = "manifest" => bg.log = logfile_number_ /\ bg.edit \subseteq table[imm_]

\* A Get holds mem_ as it was, and imm_ if there was one.
Reading ==
  \A r \in Readers :
    /\ rpc[r] = "idle" => rd[r] = NoRead
    /\ rpc[r] # "idle" => rd[r].mem # nullptr
    /\ rpc[r] = "imm" => rd[r].imm # nullptr

\* The part of the inductive invariant about memtables, files and readers.
MInv ==
  /\ TableTypes /\ BackgroundTypes /\ ReaderTypes /\ HistoryTypes
  /\ Numbered /\ Flushing /\ Reading /\ RefsExact

-----------------------------------------------------------------------------
(* The writer queue *)

\* A working writer is the first of the queue: it pops nobody but itself.
LEMMA FirstPlace ==
  ASSUME QInv, NEW w \in Writers, Working(w)
  PROVE  /\ MyPlace(w) = 1 /\ Served(w) = {}
         /\ Len(writers_) \in Nat /\ Len(writers_) >= 1 /\ writers_[1] = w
<1> USE DEF QInv
<1>1. writers_ \in Seq(Writers) /\ writers_ # <<>> /\ w = Head(writers_)
  BY DEF WriterTypes, FrontOnly
<1>2. Len(writers_) \in Nat /\ Len(writers_) >= 1 /\ writers_[1] = w /\ DOMAIN writers_ = 1 .. Len(writers_)
  BY <1>1
<1>3. MyPlace(w) = 1
  BY <1>2 DEF MyPlace, Queued
<1>4. Served(w) = {}
  BY <1>3 DEF Served
<1> QED
  BY <1>2, <1>3, <1>4

\* The writer at the front moves on within Write; others are signalled at most.
LEMMA FrontMoves ==
  ASSUME QInv, NEW w \in Writers, NEW label \in WriterLabels, UNCHANGED writers_,
         Working(w) \/ (wpc[w] = "woken" /\ writers_ # <<>> /\ w = Head(writers_)),
         label \notin {"idle", "wait", "woken"},
         wpc' = [wpc EXCEPT ![w] = label] \/ wpc' = [SignalAll(wpc) EXCEPT ![w] = label],
         wr' \in [Writers -> WriterRecords],
         \A v \in Writers : v # w => wr'[v] = wr[v],
         ~wr'[w].done,
         label \in Numbering =>
           wr'[w].base = last_sequence_' /\ Len(wr'[w].group) >= 1,
         label \notin {"insert", "relock", "finish"} => wr'[w].inserted = 0,
         label = "insert" => wr'[w].inserted < Len(wr'[w].group),
         mutex_' \in Writers \cup {Background, NoThread},
         last_sequence_' \in Nat, calls' = calls, faults' \in 0 .. MaxFaults
  PROVE  QInv'
<1> USE DEF QInv
<1>0. \A v \in Writers : v # w => wpc'[v] = wpc[v] \/ (wpc[v] = "bgwait" /\ wpc'[v] = "bgwoken")
  BY DEF WriterTypes, SignalAll
<1>1. wpc'[w] = label
  BY DEF WriterTypes, SignalAll
<1>2. writers_ # <<>> /\ w = Head(writers_)
  BY DEF FrontOnly
<1>3. Queued'
  <2>1. wpc[w] # "idle"
    BY DEF Working
  <2>2. ASSUME NEW v \in Writers PROVE wpc'[v] # "idle" <=> wpc[v] # "idle"
    BY <1>0, <1>1, <2>1
  <2> QED
    BY <2>2 DEF Queued
<1>4. FrontOnly'
  BY <1>0, <1>1, <1>2 DEF FrontOnly, Working
<1>5. NoLostWakeup'
  BY <1>1, <1>2 DEF NoLostWakeup
<1>6. WriterTypes'
  <2>1. wpc' \in [Writers -> WriterLabels]
    BY DEF WriterTypes, SignalAll, WriterLabels
  <2> QED
    BY <2>1 DEF WriterTypes
<1>7. Counted'
  <2>1. ASSUME NEW v \in Writers, v # w
        PROVE  wpc[v] \notin Numbering /\ wpc'[v] \notin Numbering
    BY <2>1, <1>0, <1>2 DEF FrontOnly, Working, Numbering
  <2>2. ASSUME NEW v \in Writers, v # w
        PROVE  wpc'[v] \notin {"insert", "relock", "finish"} => wr'[v].inserted = 0
    BY <2>2, <1>0 DEF Counted
  <2> QED
    BY <1>1, <2>1, <2>2 DEF Counted, Numbering
<1> QED
  BY <1>3, <1>4, <1>5, <1>6, <1>7

\* Writers that wait for background work are signalled, or nothing happens.
LEMMA OthersMove ==
  ASSUME QInv, UNCHANGED <<writers_, wr, last_sequence_, calls>>,
         wpc' = wpc \/ wpc' = SignalAll(wpc),
         mutex_' \in Writers \cup {Background, NoThread},
         faults' \in 0 .. MaxFaults
  PROVE  QInv'
<1> USE DEF QInv
<1>1. \A v \in Writers : wpc'[v] = wpc[v] \/ (wpc[v] = "bgwait" /\ wpc'[v] = "bgwoken")
  BY DEF WriterTypes, SignalAll
<1>2. WriterTypes'
  BY DEF WriterTypes, SignalAll, WriterLabels
<1>3. Queued'
  BY <1>1 DEF Queued
<1>4. FrontOnly'
  BY <1>1 DEF FrontOnly, Working
<1>5. NoLostWakeup'
  <2>1. writers_ # <<>> => Head(writers_) \in Writers
    BY DEF WriterTypes
  <2> QED
    BY <1>1, <2>1 DEF NoLostWakeup
<1>6. Counted'
  BY <1>1 DEF Counted, Numbering
<1> QED
  BY <1>2, <1>3, <1>4, <1>5, <1>6

\* A writer joins the queue.
LEMMA StartWriteQInv ==
  ASSUME QInv, NEW w \in Writers, StartWrite(w)
  PROVE  QInv'
<1> USE DEF QInv
<1>1. PICK b \in {nullptr, calls + 1}, sync \in BOOLEAN : Write(w, b, sync)
  BY DEF StartWrite
<1>2. b \in Batches \cup {nullptr} /\ calls' \in 0 .. MaxWrites
  BY <1>1, BoundAssumption DEF StartWrite, Write, WriterTypes, Batches
<1>3. NewWriter(b, sync) \in WriterRecords /\ ~NewWriter(b, sync).done /\ NewWriter(b, sync).inserted = 0
  BY <1>2 DEF NewWriter, WriterRecords, Status
<1>4. /\ wpc[w] = "idle" /\ writers_ \in Seq(Writers) /\ writers_' = Append(writers_, w)
      /\ wr' = [wr EXCEPT ![w] = NewWriter(b, sync)]
  BY <1>1 DEF Write, WriterTypes
<1>5. /\ Len(writers_) \in Nat /\ Len(writers_') = Len(writers_) + 1
      /\ writers_'[Len(writers_) + 1] = w
      /\ \A j \in 1 .. Len(writers_) : writers_'[j] = writers_[j]
      /\ writers_' \in Seq(Writers)
  BY <1>4
<1>6. \A j \in 1 .. Len(writers_) : writers_[j] # w
  BY <1>4 DEF Queued
<1>7. /\ wpc' = [wpc EXCEPT ![w] = wpc'[w]]
      /\ writers_ = <<>> => wpc'[w] = "makeroom"
      /\ writers_ # <<>> => wpc'[w] = "wait"
  BY <1>1 DEF Write, Goto, WriterTypes
<1>8. Queued'
  <2>1. ASSUME NEW v \in Writers
        PROVE  wpc'[v] # "idle" <=> \E j \in 1 .. Len(writers_') : writers_'[j] = v
    <3>1. CASE v = w
      BY <3>1, <1>5, <1>7 DEF WriterTypes
    <3>2. CASE v # w
      <4>1. wpc'[v] = wpc[v]
        BY <3>2, <1>7 DEF WriterTypes
      <4> QED
        BY <4>1, <3>2, <1>5 DEF Queued
    <3> QED
      BY <3>1, <3>2
  <2>2. \A j, k \in 1 .. Len(writers_') : writers_'[j] = writers_'[k] => j = k
    BY <1>5, <1>6 DEF Queued
  <2>3. \A v \in Writers : ~wr'[v].done
    BY <1>3, <1>4 DEF Queued, WriterTypes
  <2> QED
    BY <2>1, <2>2, <2>3 DEF Queued
<1>9. FrontOnly' /\ NoLostWakeup'
  <2>1. CASE writers_ = <<>>
    <3>1. \A v \in Writers : ~Working(v)
      BY <2>1 DEF FrontOnly
    <3>2. Head(writers_') = w /\ writers_' # <<>>
      BY <1>5, <2>1
    <3> QED
      BY <2>1, <3>1, <3>2, <1>7 DEF FrontOnly, NoLostWakeup, Working, WriterTypes
  <2>2. CASE writers_ # <<>>
    <3>1. Head(writers_') = Head(writers_) /\ writers_' # <<>> /\ Head(writers_) # w /\ Head(writers_) \in Writers
      BY <1>4, <1>5, <1>6, <2>2
    <3>2. wpc'[Head(writers_)] = wpc[Head(writers_)]
      BY <3>1, <1>7 DEF WriterTypes
    <3> QED
      BY <2>2, <3>1, <3>2, <1>7 DEF FrontOnly, NoLostWakeup, Working, WriterTypes
  <2> QED
    BY <2>1, <2>2
<1>10. WriterTypes'
  BY <1>1, <1>2, <1>3, <1>4, <1>5, <1>7 DEF Write, WriterTypes, WriterLabels, RoomVars, BaseVars
<1>11. Counted'
  <2>1. last_sequence_' = last_sequence_
    BY <1>1 DEF Write, RoomVars, BaseVars
  <2> QED
    BY <2>1, <1>3, <1>4, <1>7 DEF Counted, Numbering, WriterTypes
<1> QED
  BY <1>8, <1>9, <1>10, <1>11

\* The wait loop after a wakeup, with or without a signal.
LEMMA WakeupQInv ==
  ASSUME QInv, NEW w \in Writers, SpuriousWakeup(w) \/ Wakeup(w)
  PROVE  QInv'
<1> USE DEF QInv
<1>0. ~wr[w].done
  BY DEF Queued
<1>1. /\ UNCHANGED <<writers_, wr, calls, last_sequence_, faults>>
      /\ wpc[w] \in {"wait", "woken", "bgwait"}
  BY <1>0 DEF SpuriousWakeup, Wakeup, RoomVars, BaseVars
<1>2. CASE wpc' = [wpc EXCEPT ![w] = "makeroom"]
  <2>1. wpc[w] = "woken" /\ w = Head(writers_) /\ mutex_' = w
    BY <1>0, <1>2 DEF SpuriousWakeup, Wakeup, Goto, WriterTypes
  <2>2. writers_ # <<>>
    <3>1. \E j \in 1 .. Len(writers_) : writers_[j] = w
      BY <2>1 DEF Queued
    <3> QED
      BY <3>1 DEF WriterTypes
  <2>3. wr[w].inserted = 0
    BY <2>1 DEF Counted
  <2> QED
    BY <1>0, <1>1, <1>2, <2>1, <2>2, <2>3, FrontMoves DEF WriterTypes, WriterLabels, Numbering
<1>3. CASE /\ wpc[w] \in {"wait", "woken"}
           /\ \/ wpc' = [wpc EXCEPT ![w] = "woken"]
              \/ wpc' = [wpc EXCEPT ![w] = "wait"] /\ w # Head(writers_)
  <2>1. wpc'[w] \in {"wait", "woken"} /\ \A v \in Writers : v # w => wpc'[v] = wpc[v]
    BY <1>3 DEF WriterTypes
  <2>2. UNCHANGED mutex_
    BY <1>0, <1>3 DEF SpuriousWakeup, Wakeup, Goto, WriterTypes
  <2>3. WriterTypes'
    BY <1>1, <1>3, <2>2 DEF WriterTypes, WriterLabels
  <2>4. Queued'
    BY <1>1, <2>1 DEF Queued
  <2>5. FrontOnly'
    BY <1>1, <2>1 DEF FrontOnly, Working
  <2>6. NoLostWakeup'
    <3>1. CASE writers_ # <<>> /\ w # Head(writers_)
      BY <1>1, <2>1, <3>1 DEF NoLostWakeup, WriterTypes
    <3>2. CASE w = Head(writers_)
      BY <1>1, <1>3, <3>2 DEF NoLostWakeup, WriterTypes
    <3>3. CASE writers_ = <<>>
      BY <1>1, <3>3 DEF NoLostWakeup
    <3> QED
      BY <3>1, <3>2, <3>3
  <2>7. Counted'
    BY <1>1, <2>1 DEF Counted, Numbering
  <2> QED
    BY <2>3, <2>4, <2>5, <2>6, <2>7
<1>4. CASE wpc[w] = "bgwait"
  <2>1. wpc' = [wpc EXCEPT ![w] = "bgwoken"] /\ UNCHANGED mutex_
    BY <1>4 DEF SpuriousWakeup, Wakeup, Goto
  <2>2. Working(w) /\ wr[w].inserted = 0
    BY <1>4 DEF Working, Counted
  <2> QED
    BY <1>0, <1>1, <2>1, <2>2, FrontMoves DEF WriterTypes, WriterLabels, Numbering
<1> QED
  BY <1>0, <1>1, <1>2, <1>3, <1>4 DEF SpuriousWakeup, Wakeup, Goto

\* What a failing or succeeding call into Env leaves.
LEMMA EnvCall ==
  ASSUME WriterTypes, NEW e \in EnvStatus, CountFault(e)
  PROVE  e \in Status /\ faults' \in 0 .. MaxFaults
BY BoundAssumption DEF WriterTypes, EnvStatus, CountFault, Status

\* MakeRoomForWrite: the front writer stays there whatever branch it takes.
LEMMA MakeRoomQInv ==
  ASSUME QInv, bg_error_ \in Status, NEW w \in Writers,
         \/ RoomError(w) \/ RoomDelay(w) \/ RoomFound(w) \/ RoomWait(w)
         \/ SwitchFails(w) \/ SwitchMemTable(w) \/ RoomRelock(w)
  PROVE  QInv'
<1> USE DEF QInv
<1>0. /\ Working(w) /\ ~wr[w].done /\ wr[w].inserted = 0
      /\ wpc[w] \in {"makeroom", "sleep", "bgwoken"}
  BY DEF Queued, Counted, Working, MakingRoom, Switches, RoomError, RoomDelay,
         RoomFound, RoomWait, SwitchFails, SwitchMemTable, RoomRelock
<1>1. PICK label \in {"makeroom", "sleep", "bgwait", "group"} : wpc' = [wpc EXCEPT ![w] = label]
  <2>1. CASE SwitchMemTable(w)
    BY <2>1 DEF SwitchMemTable, Switches, MakingRoom, WriterTypes
  <2> QED
    BY <2>1 DEF LeaveLoop, Goto, RoomError, RoomDelay, RoomFound, RoomWait, SwitchFails, RoomRelock
<1>2. /\ UNCHANGED <<writers_, last_sequence_, calls>>
      /\ faults' \in 0 .. MaxFaults
      /\ mutex_' \in Writers \cup {Background, NoThread}
  <2>1. CASE SwitchFails(w)
    BY <2>1, EnvCall DEF SwitchFails, LeaveLoop, WriterTypes
  <2> QED
    BY <2>1 DEF LeaveLoop, RoomError, RoomDelay, RoomFound, RoomWait,
                SwitchMemTable, RoomRelock, RoomVars, BaseVars, WriterTypes
<1>3. /\ wr' \in [Writers -> WriterRecords]
      /\ \A v \in Writers : v # w => wr'[v] = wr[v]
      /\ ~wr'[w].done /\ wr'[w].inserted = 0
  <2>1. CASE UNCHANGED wr
    BY <1>0, <2>1 DEF WriterTypes
  <2>2. ASSUME NEW e \in Status, wr' = [wr EXCEPT ![w]["s"] = e]
        PROVE  /\ wr' \in [Writers -> WriterRecords]
               /\ \A v \in Writers : v # w => wr'[v] = wr[v]
               /\ ~wr'[w].done /\ wr'[w].inserted = 0
    BY <1>0, <2>2 DEF WriterTypes, WriterRecords
  <2>3. CASE wr' = [wr EXCEPT ![w]["force"] = FALSE]
    BY <1>0, <2>3 DEF WriterTypes, WriterRecords
  <2>4. CASE wr' = [wr EXCEPT ![w]["allow_delay"] = FALSE]
    BY <1>0, <2>4 DEF WriterTypes, WriterRecords
  <2> QED
    BY <2>1, <2>2, <2>3, <2>4
       DEF LeaveLoop, Set, RoomError, RoomDelay, RoomFound, RoomWait,
           SwitchFails, SwitchMemTable, RoomRelock, Status
<1>4. /\ label \in WriterLabels /\ label \notin {"idle", "wait", "woken"}
      /\ label \notin Numbering /\ label # "insert" /\ last_sequence_' \in Nat
  BY <1>2 DEF WriterLabels, Numbering, WriterTypes
<1> QED
  BY <1>0, <1>1, <1>2, <1>3, <1>4, FrontMoves

\* BuildBatchGroup is called with the mutex: the group is numbered from
\* last_sequence_ on.
LEMMA BuildGroupQInv ==
  ASSUME QInv, NEW w \in Writers, BuildGroup(w) \/ SkipGroup(w)
  PROVE  QInv'
<1> USE DEF QInv
<1>0. /\ Working(w) /\ ~wr[w].done /\ wr[w].inserted = 0
      /\ UNCHANGED <<writers_, last_sequence_, calls, faults>>
      /\ mutex_' \in Writers \cup {Background, NoThread}
  BY DEF Queued, Counted, Working, BuildGroup, SkipGroup, RoomVars, BaseVars, WriterTypes
<1>1. CASE SkipGroup(w)
  BY <1>0, <1>1, FrontMoves DEF SkipGroup, Goto, WriterLabels, Numbering, WriterTypes
<1>2. CASE BuildGroup(w)
  <2>1. PICK n \in 1 .. Len(writers_) :
          /\ \A j \in 1 .. n : wr[writers_[j]].batch # nullptr
          /\ wr' = [wr EXCEPT ![w].group = BuildBatchGroup(n), ![w].base = last_sequence_]
    BY <1>2 DEF BuildGroup
  <2>2. Len(writers_) \in Nat /\ n \in Nat /\ \A j \in 1 .. n : writers_[j] \in Writers
    BY DEF WriterTypes
  <2>3. \A j \in 1 .. n : wr[writers_[j]].batch \in Batches
    BY <2>1, <2>2 DEF WriterTypes, WriterRecords
  <2>4. BuildBatchGroup(n) \in Seq(Batches) /\ Len(BuildBatchGroup(n)) = n
    BY <2>2, <2>3 DEF BuildBatchGroup
  <2>5. /\ wr' \in [Writers -> WriterRecords]
        /\ \A v \in Writers : v # w => wr'[v] = wr[v]
        /\ ~wr'[w].done /\ wr'[w].inserted = 0
        /\ wr'[w].base = last_sequence_ /\ wr'[w].group = BuildBatchGroup(n)
    <3> DEFINE R == [wr[w] EXCEPT !.group = BuildBatchGroup(n), !.base = last_sequence_]
    <3>1. wr[w] \in WriterRecords /\ last_sequence_ \in Nat
      BY DEF WriterTypes
    <3>2. R \in WriterRecords /\ R.done = wr[w].done /\ R.inserted = wr[w].inserted
          /\ R.base = last_sequence_ /\ R.group = BuildBatchGroup(n)
      BY <3>1, <2>4 DEF WriterRecords
    <3>3. wr' = [wr EXCEPT ![w] = R]
      BY <2>1 DEF WriterTypes
    <3> HIDE DEF R
    <3> QED
      BY <1>0, <3>2, <3>3 DEF WriterTypes
  <2>6. wpc' = [wpc EXCEPT ![w] = "log"]
    BY <1>2 DEF BuildGroup, Goto
  <2>7. last_sequence_' \in Nat
    BY <1>0 DEF WriterTypes
  <2> QED
    <3>1. Len(wr'[w].group) >= 1 /\ wr'[w].base = last_sequence_'
      BY <1>0, <2>2, <2>4, <2>5
    <3>2. "log" \in WriterLabels
      BY DEF WriterLabels
    <3>3. calls' = calls /\ faults' \in 0 .. MaxFaults /\ writers_' = writers_
      BY <1>0 DEF WriterTypes
    <3> QED
      BY <1>0, <2>5, <2>6, <2>7, <3>1, <3>2, <3>3, FrontMoves
<1> QED
  BY <1>1, <1>2

\* The steps without the mutex: append, sync, insert.
LEMMA UnlockedQInv ==
  ASSUME QInv, NEW w \in Writers, AddRecord(w) \/ Sync(w) \/ InsertInto(w)
  PROVE  QInv'
<1> USE DEF QInv
<1>0. /\ Working(w) /\ ~wr[w].done /\ wpc[w] \in Numbering
      /\ UNCHANGED <<writers_, last_sequence_, calls, mutex_>>
  BY DEF Queued, Working, AddRecord, Sync, InsertInto, Numbering
<1>1. wr[w].base = last_sequence_ /\ Len(wr[w].group) >= 1
  BY <1>0 DEF Counted
<1>2. mutex_' \in Writers \cup {Background, NoThread} /\ last_sequence_' \in Nat
  BY <1>0 DEF WriterTypes
<1>3. CASE AddRecord(w)
  <2>1. PICK e \in EnvStatus : /\ CountFault(e) /\ wr' = [wr EXCEPT ![w]["s"] = e]
                               /\ wpc' = [wpc EXCEPT ![w] = AfterLog(w, e)]
    BY <1>3 DEF AddRecord, Set, Goto
  <2>2. e \in Status /\ faults' \in 0 .. MaxFaults
    BY <2>1, EnvCall
  <2>3. AfterLog(w, e) \in {"relock", "sync", "insert"}
    BY DEF AfterLog
  <2>4. /\ wr' \in [Writers -> WriterRecords]
        /\ \A v \in Writers : v # w => wr'[v] = wr[v]
        /\ ~wr'[w].done /\ wr'[w].inserted = 0
        /\ wr'[w].base = wr[w].base /\ wr'[w].group = wr[w].group
    BY <1>0, <1>3, <2>1, <2>2 DEF WriterTypes, WriterRecords, AddRecord, Counted
  <2> QED
    <3>1. Len(wr'[w].group) >= 1 /\ wr'[w].base = last_sequence_'
      BY <1>0, <1>1, <2>4
    <3>2. wr'[w].inserted < Len(wr'[w].group)
      BY <3>1, <2>4 DEF WriterRecords
    <3>3. AfterLog(w, e) \in WriterLabels /\ AfterLog(w, e) \notin {"idle", "wait", "woken"}
      BY <2>3 DEF WriterLabels
    <3> QED
      BY <1>0, <1>2, <2>1, <2>2, <2>4, <3>1, <3>2, <3>3, FrontMoves
<1>4. CASE Sync(w)
  <2>1. PICK e \in EnvStatus :
          /\ CountFault(e)
          /\ wr' = [wr EXCEPT ![w].s = e, ![w].sync_error = ~ok(e)]
          /\ wpc' = [wpc EXCEPT ![w] = IF ok(e) THEN "insert" ELSE "relock"]
    BY <1>4 DEF Sync, Goto
  <2>2. e \in Status /\ faults' \in 0 .. MaxFaults
    BY <2>1, EnvCall
  <2>3. (~ok(e)) \in BOOLEAN
    BY DEF ok
  <2>4. /\ wr' \in [Writers -> WriterRecords]
        /\ \A v \in Writers : v # w => wr'[v] = wr[v]
        /\ ~wr'[w].done /\ wr'[w].inserted = 0
        /\ wr'[w].base = wr[w].base /\ wr'[w].group = wr[w].group
    <3> DEFINE R == [wr[w] EXCEPT !.s = e, !.sync_error = ~ok(e)]
    <3>1. wr[w] \in WriterRecords /\ wr[w].inserted = 0
      BY <1>4 DEF WriterTypes, Sync, Counted
    <3>2. R \in WriterRecords /\ R.done = wr[w].done /\ R.inserted = wr[w].inserted
          /\ R.base = wr[w].base /\ R.group = wr[w].group
      BY <3>1, <2>2, <2>3 DEF WriterRecords
    <3>3. wr' = [wr EXCEPT ![w] = R]
      BY <2>1 DEF WriterTypes
    <3> HIDE DEF R
    <3> QED
      BY <1>0, <3>1, <3>2, <3>3 DEF WriterTypes
  <2>5. Len(wr'[w].group) >= 1 /\ wr'[w].base = last_sequence_'
    BY <1>0, <1>1, <2>4
  <2>6. wr'[w].inserted < Len(wr'[w].group)
    BY <2>5, <2>4 DEF WriterRecords
  <2>7. {"insert", "relock"} \subseteq WriterLabels
    BY DEF WriterLabels
  <2>8. CASE ok(e)
    <3>1. wpc' = [wpc EXCEPT ![w] = "insert"]
      BY <2>1, <2>8
    <3> QED
      BY <1>0, <1>2, <2>2, <2>4, <2>5, <2>6, <2>7, <3>1, FrontMoves
  <2>9. CASE ~ok(e)
    <3>1. wpc' = [wpc EXCEPT ![w] = "relock"]
      BY <2>1, <2>9
    <3> QED
      BY <1>0, <1>2, <2>2, <2>4, <2>5, <2>6, <2>7, <3>1, FrontMoves
  <2> QED
    BY <2>8, <2>9
<1>5. CASE InsertInto(w)
  <2> DEFINE j == wr[w].inserted + 1
  <2>1. /\ wr' = [wr EXCEPT ![w].inserted = j, ![w].s = "OK"]
        /\ faults' = faults /\ wpc[w] = "insert"
        /\ IF j = Len(wr[w].group) THEN wpc' = [wpc EXCEPT ![w] = "relock"] ELSE wpc' = wpc
    BY <1>5 DEF InsertInto, Goto
  <2>2. j \in Nat /\ j <= Len(wr[w].group) /\ Len(wr[w].group) \in Nat
    BY <2>1 DEF Counted, WriterTypes, WriterRecords
  <2>3. /\ wr' \in [Writers -> WriterRecords]
        /\ \A v \in Writers : v # w => wr'[v] = wr[v]
        /\ ~wr'[w].done /\ wr'[w].inserted = j
        /\ wr'[w].base = wr[w].base /\ wr'[w].group = wr[w].group
    <3> DEFINE R == [wr[w] EXCEPT !.inserted = j, !.s = "OK"]
    <3>1. wr[w] \in WriterRecords /\ "OK" \in Status
      BY DEF WriterTypes, Status
    <3>2. R \in WriterRecords /\ R.done = wr[w].done /\ R.inserted = j
          /\ R.base = wr[w].base /\ R.group = wr[w].group
      BY <3>1, <2>2 DEF WriterRecords
    <3>3. wr' = [wr EXCEPT ![w] = R]
      BY <2>1 DEF WriterTypes
    <3> HIDE DEF R
    <3> QED
      BY <1>0, <3>2, <3>3 DEF WriterTypes
  <2>4. faults' \in 0 .. MaxFaults
    BY <2>1 DEF WriterTypes
  <2>5. CASE j = Len(wr[w].group)
    BY <1>0, <1>1, <1>2, <2>1, <2>3, <2>4, <2>5, FrontMoves DEF WriterLabels, Numbering
  <2>6. CASE j # Len(wr[w].group)
    <3>1. wpc' = [wpc EXCEPT ![w] = "insert"]
      BY <2>1, <2>6 DEF WriterTypes
    <3> QED
      <4>1. wr'[w].inserted < Len(wr'[w].group) /\ Len(wr'[w].group) >= 1
            /\ wr'[w].base = last_sequence_' /\ "insert" \in WriterLabels
        BY <1>0, <1>1, <2>2, <2>3, <2>6 DEF WriterLabels
      <4> QED
        BY <1>0, <1>2, <2>3, <2>4, <3>1, <4>1, FrontMoves
  <2> QED
    BY <2>5, <2>6
<1> QED
  BY <1>3, <1>4, <1>5

\* The group becomes visible.
LEMMA RelockQInv ==
  ASSUME QInv, NEW w \in Writers, Relock(w)
  PROVE  QInv'
<1> USE DEF QInv
<1>1. /\ Working(w) /\ ~wr[w].done
      /\ UNCHANGED <<writers_, wr, calls, faults>> /\ mutex_' = w
      /\ wpc' = [wpc EXCEPT ![w] = "finish"] \/ wpc' = [SignalAll(wpc) EXCEPT ![w] = "finish"]
  BY DEF Queued, Working, Relock, Goto
<1>2. last_sequence_' \in Nat
  BY DEF Relock, WriterTypes, WriterRecords
<1> QED
  BY <1>1, <1>2, FrontMoves DEF WriterTypes, WriterLabels, Numbering

\* The front writer pops itself and signals the next.
LEMMA FinishQInv ==
  ASSUME QInv, NEW w \in Writers, Finish(w)
  PROVE  QInv'
<1> USE DEF QInv
<1> DEFINE N == {v \in Writers : Rest(w) # <<>> /\ v = Head(Rest(w))}
<1>1. Working(w) /\ PopAndReturn(w, N)
  BY DEF Finish, PopAndReturn, Working
<1>2. /\ MyPlace(w) = 1 /\ Served(w) = {} /\ writers_[1] = w
      /\ Len(writers_) \in Nat /\ Len(writers_) >= 1 /\ writers_ \in Seq(Writers)
  BY <1>1, FirstPlace DEF WriterTypes
<1>3. writers_' = SubSeq(writers_, 2, Len(writers_))
  BY <1>1, <1>2 DEF PopAndReturn, Rest
<1>4. /\ writers_' \in Seq(Writers) /\ Len(writers_') = Len(writers_) - 1
      /\ \A j \in 1 .. Len(writers_') : writers_'[j] = writers_[j + 1]
  <2>1. \A j \in 2 .. Len(writers_) : writers_[j] \in Writers
    BY <1>2
  <2>2. /\ writers_' \in Seq(Writers)
        /\ Len(writers_') = IF 2 <= Len(writers_) THEN Len(writers_) - 2 + 1 ELSE 0
        /\ \A j \in 1 .. (Len(writers_) - 2 + 1) : writers_'[j] = writers_[2 + j - 1]
    <3>1. 2 \in Int /\ Len(writers_) \in Int
      BY <1>2
    <3> QED
      BY <1>3, <2>1, <3>1, SubSeqProperties
  <2>3. Len(writers_') = Len(writers_) - 1
    <3> DEFINE n == Len(writers_)
    <3>1. n \in Nat /\ n >= 1 /\ Len(writers_') = IF 2 <= n THEN n - 2 + 1 ELSE 0
      BY <1>2, <2>2
    <3> HIDE DEF n
    <3>2. (IF 2 <= n THEN n - 2 + 1 ELSE 0) = n - 1
      BY <3>1
    <3> QED
      BY <3>1, <3>2 DEF n
  <2>4. ASSUME NEW j \in 1 .. Len(writers_') PROVE writers_'[j] = writers_[j + 1]
    <3>1. j \in 1 .. (Len(writers_) - 2 + 1) /\ 2 + j - 1 = j + 1
      BY <1>2, <2>3
    <3> QED
      BY <2>2, <3>1
  <2> QED
    BY <2>2, <2>3, <2>4
<1>5. /\ wr' = [v \in Writers |-> IF v = w THEN NoWriter ELSE wr[v]]
      /\ wpc' = [Signal(wpc, N) EXCEPT ![w] = "idle"]
      /\ mutex_' = NoThread
      /\ UNCHANGED <<calls, last_sequence_, faults>>
  BY <1>1, <1>2 DEF PopAndReturn, BaseVars
<1>6. NoWriter \in WriterRecords /\ ~NoWriter.done /\ NoWriter.inserted = 0
  BY DEF NoWriter, NewWriter, WriterRecords, Status, nullptr
<1>7. /\ wpc'[w] = "idle"
      /\ \A v \in Writers : v # w =>
           IF v \in N /\ wpc[v] = "wait" THEN wpc'[v] = "woken" ELSE wpc'[v] = wpc[v]
  BY <1>5 DEF Signal
<1>8. WriterTypes'
  <2>1. wpc' \in [Writers -> WriterLabels]
    BY <1>5 DEF Signal, WriterTypes, WriterLabels
  <2> QED
    BY <1>4, <1>5, <1>6, <2>1 DEF WriterTypes
<1>9. Queued'
  <2>1. \A j, k \in 1 .. Len(writers_') : writers_'[j] = writers_'[k] => j = k
    BY <1>2, <1>4 DEF Queued
  <2>2. ASSUME NEW v \in Writers
        PROVE  wpc'[v] # "idle" <=> \E j \in 1 .. Len(writers_') : writers_'[j] = v
    <3>1. CASE v = w
      BY <3>1, <1>2, <1>4, <1>7 DEF Queued
    <3>2. CASE v # w
      <4>1. wpc'[v] # "idle" <=> wpc[v] # "idle"
        BY <3>2, <1>7
      <4>2. (\E j \in 1 .. Len(writers_) : writers_[j] = v)
              <=> \E j \in 1 .. Len(writers_') : writers_'[j] = v
        <5>1. ASSUME NEW j \in 1 .. Len(writers_), writers_[j] = v
              PROVE  j - 1 \in 1 .. Len(writers_') /\ writers_'[j - 1] = v
          BY <5>1, <3>2, <1>2, <1>4
        <5>2. ASSUME NEW j \in 1 .. Len(writers_'), writers_'[j] = v
              PROVE  j + 1 \in 1 .. Len(writers_) /\ writers_[j + 1] = v
          BY <5>2, <1>2, <1>4
        <5> QED
          BY <5>1, <5>2
      <4> QED
        BY <4>1, <4>2 DEF Queued
    <3> QED
      BY <3>1, <3>2
  <2>3. \A v \in Writers : ~wr'[v].done
    BY <1>5, <1>6 DEF Queued
  <2> QED
    BY <2>1, <2>2, <2>3 DEF Queued
<1>10. \A v \in Writers : v # w => ~Working(v)
  BY <1>1, <1>2 DEF FrontOnly
<1>11. FrontOnly'
  BY <1>7, <1>10 DEF FrontOnly, Working
<1>12. NoLostWakeup'
  <2>1. ASSUME writers_' # <<>> PROVE wpc'[Head(writers_')] # "wait"
    <3>1. Head(writers_') \in Writers /\ Head(writers_') = writers_[2] /\ Len(writers_) >= 2
      BY <2>1, <1>2, <1>4
    <3>2. Head(writers_') # w
      BY <3>1, <1>2 DEF Queued
    <3>3. Rest(w) = writers_'
      BY <1>1 DEF PopAndReturn
    <3>4. Head(writers_') \in N
      BY <2>1, <3>1, <3>3
    <3> QED
      BY <3>1, <3>2, <3>4, <1>7
  <2> QED
    BY <2>1 DEF NoLostWakeup
<1>13. Counted'
  BY <1>5, <1>6, <1>7, <1>10 DEF Counted, Numbering, Working
<1> QED
  BY <1>8, <1>9, <1>11, <1>12, <1>13

-----------------------------------------------------------------------------
(* Memtables, files and readers *)

\* The readers that hold a memtable are finitely many.
LEMMA HoldersFinite ==
  ASSUME NEW m
  PROVE  /\ IsFiniteSet({r \in Readers : m \in Held(r)})
         /\ Holders(m) \in Nat
<1>1. {r \in Readers : m \in Held(r)} \subseteq Readers
  OBVIOUS
<1>2. IsFiniteSet({r \in Readers : m \in Held(r)})
  BY <1>1, ThreadAssumption, FS_Subset
<1> QED
  BY <1>2, FS_CardinalityType DEF Holders

\* Steps that touch neither references nor numbers.
LEMMA FrameMInv ==
  ASSUME MInv,
         UNCHANGED <<mem_, imm_, refs, logfile_number_, logs, next_file_number_,
                     log_number_, bpc, bg, rpc, rd>>,
         table' \in [Files -> SUBSET Entries],
         bpc = "manifest" => table[imm_] \subseteq table'[imm_],
         log' \in [Files -> SUBSET Entries], synced' \in [Files -> SUBSET Entries],
         level0' \in Nat, file_to_compact_' \in BOOLEAN, UNCHANGED sst,
         bg_error_' \in Status, shutting_down_' \in BOOLEAN,
         background_compaction_scheduled_' \in BOOLEAN,
         HistoryTypes'
  PROVE  MInv'
<1> USE DEF MInv
<1>1. TableTypes' /\ BackgroundTypes' /\ ReaderTypes'
  BY DEF TableTypes, BackgroundTypes, ReaderTypes
<1>2. Numbered'
  BY DEF Numbered, Held
<1>3. Flushing' /\ Reading'
  BY DEF Flushing, Reading
<1>4. RefsExact'
  BY DEF RefsExact, Holders, Held
<1> QED
  BY <1>1, <1>2, <1>3, <1>4

\* What Write returned is recorded as the answer to one of the batches.
LEMMA AnswerTypes ==
  ASSUME WriterTypes, HistoryTypes, NEW w \in Writers, NEW e, Answer(w, e)
  PROVE  HistoryTypes'
<1>1. wr[w].batch \in Batches \cup {nullptr} /\ wr[w].sync \in BOOLEAN
  BY DEF WriterTypes, WriterRecords
<1> QED
  BY <1>1 DEF Answer, HistoryTypes, history

\* The queueing and the room-making leave the tables alone.
LEMMA QueueingMInv ==
  ASSUME QInv, MInv, NEW w \in Writers,
         \/ StartWrite(w) \/ SpuriousWakeup(w) \/ Wakeup(w)
         \/ RoomError(w) \/ RoomDelay(w) \/ RoomFound(w) \/ RoomWait(w)
         \/ SwitchFails(w) \/ RoomRelock(w)
         \/ BuildGroup(w) \/ SkipGroup(w) \/ Finish(w)
  PROVE  MInv'
<1>1. UNCHANGED <<memVars, logVars, next_file_number_, verVars, bg_error_, bgVars,
                  shutting_down_, rVars>>
  BY DEF StartWrite, Write, SpuriousWakeup, Wakeup, RoomError, RoomDelay, RoomFound,
         RoomWait, SwitchFails, RoomRelock, BuildGroup, SkipGroup, Finish,
         PopAndReturn, RoomVars, BaseVars
<1>2. HistoryTypes'
  <2>1. WriterTypes /\ HistoryTypes
    BY DEF QInv, MInv
  <2>2. CASE UNCHANGED history
    BY <2>1, <2>2 DEF HistoryTypes, history
  <2>3. CASE Wakeup(w)
    BY <2>1, <2>2, <2>3, AnswerTypes DEF Wakeup
  <2>4. CASE Finish(w)
    BY <2>1, <2>4, AnswerTypes DEF Finish, PopAndReturn
  <2> QED
    BY <2>2, <2>3, <2>4 DEF StartWrite, Write, SpuriousWakeup, RoomError, RoomDelay,
       RoomFound, RoomWait, SwitchFails, RoomRelock, BuildGroup, SkipGroup, RoomVars
<1> QED
  <2>1. UNCHANGED <<mem_, imm_, refs, logfile_number_, logs, next_file_number_,
                     log_number_, bpc, bg, rpc, rd, table, log, synced, level0,
                     file_to_compact_, sst, bg_error_, shutting_down_,
                     background_compaction_scheduled_>>
    BY <1>1 DEF memVars, logVars, verVars, bgVars, rVars
  <2> QED
    BY <1>2, <2>1, FrameMInv DEF MInv, TableTypes, BackgroundTypes

\* Append, sync and insert add entries to logs and tables.
LEMMA UnlockedMInv ==
  ASSUME QInv, MInv, NEW w \in Writers,
         AddRecord(w) \/ Sync(w) \/ InsertInto(w) \/ Relock(w)
  PROVE  MInv'
<1> USE DEF MInv
<1>0. UNCHANGED <<mem_, imm_, refs, logfile_number_, logs, next_file_number_,
                  log_number_, bpc, bg, rpc, rd, level0, file_to_compact_, sst,
                  shutting_down_, background_compaction_scheduled_, history>>
  BY DEF AddRecord, Sync, InsertInto, Relock, memVars, logVars, verVars, bgVars, rVars
<1>1. /\ wr[w].base \in Nat /\ wr[w].group \in Seq(Batches) /\ wr[w].s \in Status
      /\ wr[w].inserted \in Nat
  BY DEF QInv, WriterTypes, WriterRecords
<1>2. GroupEntries(w) \subseteq Entries
  BY <1>1 DEF GroupEntries, Entries
<1>3. HistoryTypes'
  BY <1>0 DEF HistoryTypes, history
<1>4. log' \in [Files -> SUBSET Entries] /\ synced' \in [Files -> SUBSET Entries]
  BY <1>2 DEF AddRecord, Sync, InsertInto, Relock, TableTypes, logVars
<1>5. /\ table' \in [Files -> SUBSET Entries]
      /\ \A m \in Files : table[m] \subseteq table'[m]
  <2>1. CASE InsertInto(w)
    <3>1. wr[w].inserted < Len(wr[w].group)
      BY <2>1 DEF InsertInto, QInv, Counted
    <3>2. wr[w].inserted + 1 \in DOMAIN wr[w].group
      BY <1>1, <3>1
    <3>3. <<wr[w].base + (wr[w].inserted + 1), wr[w].group[wr[w].inserted + 1]>> \in Entries
      BY <1>1, <3>2 DEF Entries
    <3> QED
      BY <2>1, <3>3 DEF InsertInto, TableTypes
  <2>2. CASE UNCHANGED table
    BY <2>2 DEF TableTypes
  <2> QED
    BY <2>1, <2>2 DEF AddRecord, Sync, Relock, memVars
<1>6. bg_error_' \in Status
  BY <1>1 DEF AddRecord, Sync, InsertInto, Relock, RecordBackgroundError, BackgroundTypes
<1>7. bpc = "manifest" => table[imm_] \subseteq table'[imm_]
  BY <1>5 DEF Flushing, TableTypes
<1> QED
  BY <1>0, <1>3, <1>4, <1>5, <1>6, <1>7, FrameMInv DEF TableTypes, BackgroundTypes

\* A new log and a new memtable: their number was never used before.
LEMMA SwitchMInv ==
  ASSUME MInv, NEW w \in Writers, SwitchMemTable(w)
  PROVE  MInv'
<1> USE DEF MInv
<1> DEFINE n == next_file_number_
<1>0. /\ n \in Files /\ n \in Nat /\ imm_ = nullptr
      /\ next_file_number_' = n + 1 /\ logfile_number_' = n /\ logs' = logs \cup {n}
      /\ imm_' = mem_ /\ mem_' = n /\ refs' = [refs EXCEPT ![n] = 1]
      /\ UNCHANGED <<table, log, synced, log_number_, level0, file_to_compact_, sst,
                     bg_error_, bg, shutting_down_, rpc, rd, history>>
  BY DEF SwitchMemTable, Switches, MustWait, Files, verVars, rVars
<1>1. /\ mem_ \in Nat /\ mem_ < n /\ mem_ # nullptr /\ mem_ # n /\ n # nullptr
      /\ log_number_ \in Nat /\ log_number_ <= mem_ /\ mem_ \in logs
  BY <1>0 DEF Numbered, TableTypes, Files, nullptr
<1>2. TableTypes'
  BY <1>0, BoundAssumption DEF TableTypes, Files
<1>3. BackgroundTypes' /\ ReaderTypes' /\ HistoryTypes'
  <2>1. background_compaction_scheduled_' \in BOOLEAN /\ bpc' \in {bpc, "queued"}
    BY DEF SwitchMemTable, BackgroundTypes
  <2> QED
    BY <1>0, <2>1 DEF BackgroundTypes, ReaderTypes, HistoryTypes, history
<1>4. \A r \in Readers : Held(r)' = Held(r) /\ \A m \in Held(r) : m \in Nat /\ m < n
  BY <1>0 DEF Held, Numbered, ReaderTypes, Files, nullptr
<1>5. Numbered'
  BY <1>0, <1>1, <1>4 DEF Numbered
<1>6. Flushing' /\ Reading'
  BY <1>0, <1>1 DEF Flushing, Reading, SwitchMemTable
<1>7. RefsExact'
  <2>1. ASSUME NEW m \in Files PROVE Holders(m)' = Holders(m)
    BY <1>4 DEF Holders
  <2>2. Holders(n) = 0
    <3>1. {r \in Readers : n \in Held(r)} = {}
      BY <1>0, <1>4
    <3> QED
      BY <3>1, FS_EmptySet DEF Holders
  <2>3. ASSUME NEW m \in Files
        PROVE  refs'[m] = Holders(m)' + (IF m \in {mem_', imm_'} THEN 1 ELSE 0)
    <3>1. CASE m = n
      BY <1>0, <2>1, <2>2, <3>1 DEF TableTypes
    <3>2. CASE m # n
      <4>1. refs'[m] = refs[m] /\ (m \in {mem_', imm_'} <=> m \in {mem_, imm_})
        BY <1>0, <3>2 DEF TableTypes, Files, nullptr
      <4> QED
        BY <4>1, <2>1 DEF RefsExact
    <3> QED
      BY <3>1, <3>2
  <2> QED
    BY <2>3 DEF RefsExact
<1> QED
  BY <1>2, <1>3, <1>5, <1>6, <1>7

\* A Get starts: it takes a reference on each memtable there is.
LEMMA GetMInv ==
  ASSUME MInv, last_sequence_ \in Nat, NEW r \in Readers, Get(r)
  PROVE  MInv'
<1> USE DEF MInv
<1> DEFINE R == [snapshot |-> last_sequence_, mem |-> mem_, imm |-> imm_, sst |-> sst,
                 stats |-> FALSE, value |-> {}]
<1>0. /\ rpc[r] = "idle" /\ rd' = [rd EXCEPT ![r] = R] /\ rpc' = [rpc EXCEPT ![r] = "mem"]
      /\ refs' = [m \in Files |-> IF m \in {mem_, imm_} THEN refs[m] + 1 ELSE refs[m]]
      /\ UNCHANGED <<mem_, imm_, table, logfile_number_, log, synced, logs,
                     next_file_number_, log_number_, level0, file_to_compact_, sst,
                     bg_error_, background_compaction_scheduled_, bpc, bg,
                     shutting_down_, history>>
  BY DEF Get, ReadVars, logVars
<1>1. TableTypes'
  BY <1>0 DEF TableTypes
<1>2. BackgroundTypes' /\ HistoryTypes'
  BY <1>0 DEF BackgroundTypes, HistoryTypes, history
<1>3. ReaderTypes'
  BY <1>0 DEF ReaderTypes, TableTypes
<1>4. /\ Held(r) = {} /\ Held(r)' = {mem_, imm_} \ {nullptr}
      /\ \A q \in Readers : q # r => Held(q)' = Held(q)
  <2>1. rd[r] = NoRead
    BY <1>0 DEF Reading
  <2>2. rd'[r] = R /\ \A q \in Readers : q # r => rd'[q] = rd[q]
    BY <1>0 DEF ReaderTypes
  <2> QED
    BY <2>1, <2>2 DEF Held, NoRead
<1>5. Numbered'
  <2>1. \A m \in Held(r)' : m < next_file_number_
    BY <1>4 DEF Numbered, TableTypes, Files, nullptr
  <2>2. \A q \in Readers : \A m \in Held(q)' : m < next_file_number_
    BY <1>4, <2>1 DEF Numbered
  <2> QED
    BY <1>0, <2>2 DEF Numbered
<1>6. Flushing' /\ Reading'
  <2>1. mem_ # nullptr
    BY DEF TableTypes, Files, nullptr
  <2> QED
    BY <1>0, <2>1 DEF Flushing, Reading, ReaderTypes
<1>7. RefsExact'
  <2>1. ASSUME NEW m \in Files
        PROVE  Holders(m)' = Holders(m) + (IF m \in {mem_, imm_} THEN 1 ELSE 0)
    <3> DEFINE S == {q \in Readers : m \in Held(q)}
    <3>0. m # nullptr /\ IsFiniteSet(S) /\ r \notin S /\ Cardinality(S) \in Nat
      <4>1. m # nullptr
        BY DEF Files, nullptr
      <4>2. IsFiniteSet(S)
        BY HoldersFinite
      <4>3. Cardinality(S) \in Nat
        BY <4>2, FS_CardinalityType
      <4> QED
        BY <1>4, <4>1, <4>2, <4>3
    <3>1. CASE m \in {mem_, imm_}
      <4>1. {q \in Readers : m \in Held(q)'} = S \cup {r}
        BY <1>4, <3>0, <3>1
      <4>2. Cardinality(S \cup {r}) = Cardinality(S) + 1
        BY <3>0, FS_AddElement
      <4> QED
        BY <4>1, <4>2, <3>1 DEF Holders
    <3>2. CASE m \notin {mem_, imm_}
      <4>1. \A q \in Readers : m \in Held(q)' <=> m \in Held(q)
        BY <1>4, <3>2
      <4> QED
        BY <4>1, <3>0, <3>2 DEF Holders
    <3> QED
      BY <3>1, <3>2
  <2>2. ASSUME NEW m \in Files
        PROVE  refs'[m] = Holders(m)' + (IF m \in {mem_', imm_'} THEN 1 ELSE 0)
    <3>1. refs[m] = Holders(m) + (IF m \in {mem_, imm_} THEN 1 ELSE 0) /\ Holders(m) \in Nat
      BY HoldersFinite DEF RefsExact
    <3> QED
      BY <1>0, <2>1, <3>1
  <2> QED
    BY <2>2 DEF RefsExact
<1> QED
  BY <1>1, <1>2, <1>3, <1>5, <1>6, <1>7

\* One lookup: a Get goes on or has its answer.
LEMMA LookupMInv ==
  ASSUME MInv, NEW r \in Readers, GetFromMem(r) \/ GetFromImm(r) \/ GetFromVersion(r)
  PROVE  MInv'
<1> USE DEF MInv
<1>1. PICK E \in SUBSET Entries, label \in {"imm", "version", "end"}, stats \in BOOLEAN,
           from \in {"mem", "imm", "version"} :
        /\ Lookup(r, from, E, label, stats)
        /\ label = "imm" => rd[r].imm # nullptr
  <2>1. rd[r].sst \subseteq Entries
    BY DEF ReaderTypes
  <2>2. CASE GetFromMem(r)
    <3>1. rpc[r] = "mem"
      BY <2>2 DEF GetFromMem, Lookup
    <3>2. rd[r].mem \in Files
      BY <3>1 DEF Reading, ReaderTypes
    <3>3. table[rd[r].mem] \in SUBSET Entries
      BY <3>2 DEF TableTypes
    <3> QED
      BY <2>2, <3>3 DEF GetFromMem
  <2>3. CASE GetFromImm(r)
    <3>1. rpc[r] = "imm"
      BY <2>3 DEF GetFromImm, Lookup
    <3>2. rd[r].imm \in Files
      BY <3>1 DEF Reading, ReaderTypes
    <3>3. table[rd[r].imm] \in SUBSET Entries
      BY <3>2 DEF TableTypes
    <3> QED
      BY <2>3, <3>3 DEF GetFromImm
  <2>4. CASE GetFromVersion(r)
    BY <2>1, <2>4 DEF GetFromVersion
  <2> QED
    BY <2>2, <2>3, <2>4
<1> DEFINE hit == Newest(E, rd[r].snapshot)
<1>2. hit \subseteq Batches
  BY DEF Newest, Visible, Entries
<1>3. /\ rpc[r] = from
      /\ rpc' = [rpc EXCEPT ![r] = IF hit # {} THEN "end" ELSE label]
      /\ rd' = [rd EXCEPT ![r].value = hit, ![r].stats = stats]
      /\ UNCHANGED <<mem_, imm_, refs, table, logfile_number_, log, synced, logs,
                     next_file_number_, log_number_, level0, file_to_compact_, sst,
                     bg_error_, background_compaction_scheduled_, bpc, bg,
                     shutting_down_, history>>
  BY <1>1 DEF Lookup, ReadVars, logVars
<1> DEFINE R == [rd[r] EXCEPT !.value = hit, !.stats = stats]
<1>4. rd' = [rd EXCEPT ![r] = R]
  BY <1>3 DEF ReaderTypes
<1>5. /\ R \in [snapshot : Nat, mem : Files \cup {nullptr}, imm : Files \cup {nullptr},
                sst : SUBSET Entries, stats : BOOLEAN, value : SUBSET Batches]
      /\ R.mem = rd[r].mem /\ R.imm = rd[r].imm
  BY <1>2 DEF ReaderTypes
<1> HIDE DEF R, hit
<1>6. TableTypes' /\ BackgroundTypes' /\ HistoryTypes'
  BY <1>3 DEF TableTypes, BackgroundTypes, HistoryTypes, history
<1>7. ReaderTypes'
  BY <1>3, <1>4, <1>5 DEF ReaderTypes
<1>8. \A q \in Readers : rd'[q].mem = rd[q].mem /\ rd'[q].imm = rd[q].imm /\ Held(q)' = Held(q)
  BY <1>4, <1>5 DEF Held, ReaderTypes
<1>9. Numbered'
  BY <1>3, <1>8 DEF Numbered
<1>10. Flushing'
  BY <1>3 DEF Flushing
<1>11. Reading'
  <2>1. rpc'[r] \in {"imm", "version", "end"} /\ (rpc'[r] = "imm" => rd[r].imm # nullptr)
    BY <1>1, <1>3 DEF ReaderTypes
  <2>2. rd[r].mem # nullptr
    BY <1>3 DEF Reading
  <2>3. \A q \in Readers : q # r => rpc'[q] = rpc[q] /\ rd'[q] = rd[q]
    BY <1>3, <1>4 DEF ReaderTypes
  <2> QED
    BY <1>8, <2>1, <2>2, <2>3 DEF Reading
<1>12. RefsExact'
  <2>1. \A m \in Files : Holders(m)' = Holders(m)
    BY <1>8 DEF Holders
  <2> QED
    BY <1>3, <2>1 DEF RefsExact
<1> QED
  BY <1>6, <1>7, <1>9, <1>10, <1>11, <1>12

\* A Get gives its references back.
LEMMA GetReturnsMInv ==
  ASSUME MInv, NEW r \in Readers, GetReturns(r)
  PROVE  MInv'
<1> USE DEF MInv
<1>0. /\ rpc[r] = "end" /\ rd' = [rd EXCEPT ![r] = NoRead] /\ rpc' = [rpc EXCEPT ![r] = "idle"]
      /\ refs' = Unref(Held(r))
      /\ UNCHANGED <<mem_, imm_, table, logfile_number_, log, synced, logs,
                     next_file_number_, log_number_, level0, sst, bg_error_, bg,
                     shutting_down_, history>>
      /\ bpc' \in {bpc, "queued"}
  BY DEF GetReturns, ReadVars, logVars
<1>1. background_compaction_scheduled_' \in BOOLEAN /\ file_to_compact_' \in BOOLEAN
  BY DEF GetReturns, TableTypes, BackgroundTypes
<1>2. /\ Held(r)' = {}
      /\ \A q \in Readers : q # r => Held(q)' = Held(q)
  BY <1>0 DEF Held, NoRead, ReaderTypes
<1>3. ASSUME NEW m \in Files
      PROVE  /\ Holders(m) \in Nat /\ (m \in Held(r) => Holders(m) >= 1)
             /\ Holders(m)' = IF m \in Held(r) THEN Holders(m) - 1 ELSE Holders(m)
  <2> DEFINE S == {q \in Readers : m \in Held(q)}
  <2>0. IsFiniteSet(S)
    BY HoldersFinite
  <2>1. IsFiniteSet(S) /\ Cardinality(S) \in Nat
    BY <2>0, FS_CardinalityType
  <2>2. {q \in Readers : m \in Held(q)'} = S \ {r}
    BY <1>2
  <2>3. Cardinality(S \ {r}) = IF r \in S THEN Cardinality(S) - 1 ELSE Cardinality(S)
    BY <2>1, FS_RemoveElement
  <2>4. r \in S => Cardinality(S) # 0
    BY <2>1, FS_EmptySet
  <2>5. r \in S <=> m \in Held(r)
    OBVIOUS
  <2>6. Holders(m) = Cardinality(S) /\ Holders(m)' = Cardinality(S \ {r})
    BY <2>2 DEF Holders
  <2> HIDE DEF S
  <2> QED
    BY <2>1, <2>3, <2>4, <2>5, <2>6
<1>4. refs' \in [Files -> Nat]
  <2>1. ASSUME NEW m \in Files PROVE (IF m \in Held(r) THEN refs[m] - 1 ELSE refs[m]) \in Nat
    BY <1>3 DEF RefsExact
  <2> QED
    BY <1>0, <2>1 DEF Unref
<1>5. TableTypes'
  BY <1>0, <1>1, <1>4 DEF TableTypes
<1>6. BackgroundTypes' /\ HistoryTypes'
  BY <1>0, <1>1 DEF BackgroundTypes, HistoryTypes, history
<1>7. ReaderTypes'
  <2>1. NoRead \in [snapshot : Nat, mem : Files \cup {nullptr}, imm : Files \cup {nullptr},
                    sst : SUBSET Entries, stats : BOOLEAN, value : SUBSET Batches]
    BY DEF NoRead
  <2> QED
    BY <1>0, <2>1 DEF ReaderTypes
<1>8. Numbered'
  BY <1>0, <1>2 DEF Numbered
<1>9. Flushing'
  BY <1>0 DEF Flushing
<1>10. Reading'
  BY <1>0 DEF Reading, ReaderTypes
<1>11. RefsExact'
  <2>1. ASSUME NEW m \in Files
        PROVE  refs'[m] = Holders(m)' + (IF m \in {mem_', imm_'} THEN 1 ELSE 0)
    <3>1. refs[m] = Holders(m) + (IF m \in {mem_, imm_} THEN 1 ELSE 0)
      BY DEF RefsExact
    <3>2. refs'[m] = IF m \in Held(r) THEN refs[m] - 1 ELSE refs[m]
      BY <1>0 DEF Unref
    <3> QED
      BY <1>0, <1>3, <3>1, <3>2
  <2> QED
    BY <2>1 DEF RefsExact
<1> QED
  BY <1>5, <1>6, <1>7, <1>8, <1>9, <1>10, <1>11

\* The background thread, as long as it installs no version: the files and
\* memtables stay, numbers are taken, logs below the log number removed.
LEMMA FrameBackground ==
  ASSUME MInv,
         UNCHANGED <<mem_, imm_, refs, table, logfile_number_, log, synced, log_number_,
                     sst, shutting_down_, rpc, rd, history>>,
         logs' = logs \/ logs' = RemoveObsoleteLogs(log_number_),
         next_file_number_' \in 1 .. (MaxFileNumber + 1),
         next_file_number_' >= next_file_number_,
         level0' \in Nat, file_to_compact_' \in BOOLEAN,
         BackgroundTypes', Flushing'
  PROVE  MInv'
<1> USE DEF MInv
<1>1. TableTypes'
  BY DEF TableTypes, RemoveObsoleteLogs
<1>2. ReaderTypes' /\ HistoryTypes' /\ Reading'
  BY DEF ReaderTypes, HistoryTypes, Reading, history
<1>3. \A r \in Readers : Held(r)' = Held(r)
  BY DEF Held
<1>4. Numbered'
  <2>1. ASSUME NEW r \in Readers, NEW m \in Held(r)' PROVE m < next_file_number_'
    <3>1. m \in Nat /\ m < next_file_number_
      BY <1>3, <2>1 DEF Numbered, Held, ReaderTypes, Files, nullptr
    <3> QED
      BY <3>1 DEF TableTypes
  <2>2. mem_ < next_file_number_'
    BY DEF Numbered, TableTypes, Files
  <2>3. mem_ \in logs' /\ (imm_ # nullptr => imm_ \in logs')
    BY DEF Numbered, RemoveObsoleteLogs
  <2> QED
    BY <2>1, <2>2, <2>3 DEF Numbered
<1>5. RefsExact'
  BY <1>3 DEF RefsExact, Holders
<1> QED
  BY <1>1, <1>2, <1>4, <1>5

\* BackgroundCall and what it chooses; DoCompactionWork turning to a memtable.
LEMMA ChooseWorkMInv ==
  ASSUME MInv, BackgroundCall \/ WorkCompactsMemtable
  PROVE  MInv'
<1> USE DEF MInv
<1>1. UNCHANGED <<mem_, imm_, refs, table, logfile_number_, log, synced, logs, log_number_,
                  level0, file_to_compact_, sst, bg_error_,
                  background_compaction_scheduled_, shutting_down_, rpc, rd, history>>
  BY DEF BackgroundCall, WorkCompactsMemtable, ClientVars, verVars, rVars
<1>2. CASE UNCHANGED <<bg, next_file_number_>> /\ bpc' \in {"end", "move", "work"}
  <2>1. BackgroundTypes' /\ Flushing'
    BY <1>1, <1>2 DEF BackgroundTypes, Flushing
  <2> QED
    BY <1>1, <1>2, <2>1, FrameBackground DEF TableTypes
<1>3. CASE \E caller \in {"end", "work"} : BeginCompactMemtable(caller)
  <2>1. PICK caller \in {"end", "work"} : BeginCompactMemtable(caller)
    BY <1>3
  <2>2. NoCompaction \in [s : Status, file_size : Nat, edit : SUBSET Entries,
                          log : Files \cup {0}, caller : {"end", "work"}]
    BY DEF NoCompaction, Status
  <2>3. BackgroundTypes'
    BY <1>1, <2>1, <2>2 DEF BackgroundTypes, BeginCompactMemtable
  <2>4. Flushing'
    BY <1>1, <2>1 DEF Flushing, BeginCompactMemtable
  <2>5. next_file_number_' \in 1 .. (MaxFileNumber + 1) /\ next_file_number_' >= next_file_number_
    <3>1. MaxFileNumber \in Nat /\ next_file_number_ \in 1 .. MaxFileNumber
      BY <2>1, BoundAssumption DEF BeginCompactMemtable, Files
    <3>2. next_file_number_' = next_file_number_ + 1
      BY <2>1 DEF BeginCompactMemtable
    <3> QED
      BY <3>1, <3>2
  <2> QED
    BY <1>1, <2>3, <2>4, <2>5, FrameBackground DEF TableTypes
<1> QED
  BY <1>2, <1>3 DEF BackgroundCall, WorkCompactsMemtable

\* Trivial moves and merges, and the end of BackgroundCall.
LEMMA CompactMInv ==
  ASSUME QInv, MInv, TrivialMove \/ DoCompactionWork \/ EndCall
  PROVE  MInv'
<1> USE DEF MInv
<1>1. UNCHANGED <<mem_, imm_, refs, table, logfile_number_, log, synced, log_number_, sst,
                  next_file_number_, bg, shutting_down_, rpc, rd, history>>
  BY DEF TrivialMove, DoCompactionWork, EndCall, ClientVars, verVars, rVars
<1>2. logs' = logs \/ logs' = RemoveObsoleteLogs(log_number_)
  BY DEF TrivialMove, DoCompactionWork, EndCall
<1>3. level0' \in Nat /\ file_to_compact_' \in BOOLEAN
  BY DEF TrivialMove, DoCompactionWork, EndCall, Compacted, verVars, TableTypes
<1>4. bg_error_' \in Status
  <2>1. EnvStatus \subseteq Status
    BY DEF EnvStatus, Status
  <2> QED
    BY <2>1 DEF TrivialMove, DoCompactionWork, EndCall, RecordBackgroundError, BackgroundTypes
<1>5. BackgroundTypes'
  <2>1. background_compaction_scheduled_' \in BOOLEAN
    <3>1. CASE EndCall
      BY <3>1 DEF EndCall, Schedules
    <3> QED
      BY <3>1 DEF TrivialMove, DoCompactionWork, BackgroundTypes
  <2>2. bpc' \in {"end", "queued", "off"}
    BY DEF TrivialMove, DoCompactionWork, EndCall
  <2> QED
    BY <1>1, <1>4, <2>1, <2>2 DEF BackgroundTypes
<1>6. Flushing'
  BY DEF TrivialMove, DoCompactionWork, EndCall, Flushing
<1> QED
  BY <1>1, <1>2, <1>3, <1>5, <1>6, FrameBackground DEF TableTypes

\* CompactMemtable up to LogAndApply, and its error paths.
LEMMA BuildMInv ==
  ASSUME MInv, Build \/ Built \/ BuildFailed \/ InstallFailed
  PROVE  MInv'
<1> USE DEF MInv
<1>0. bpc \in {"build", "built", "manifest"} /\ imm_ # nullptr /\ imm_ \in Files
  BY DEF Build, Built, BuildFailed, InstallFailed, Flushing, TableTypes
<1>1. UNCHANGED <<mem_, imm_, refs, table, logfile_number_, log, synced, logs, log_number_,
                  level0, file_to_compact_, sst, next_file_number_,
                  background_compaction_scheduled_, shutting_down_, rpc, rd, history>>
  BY DEF Build, Built, BuildFailed, InstallFailed, ClientVars, verVars, rVars
<1>2. bg_error_' \in Status
  BY DEF Build, Built, BuildFailed, InstallFailed, RecordBackgroundError, BackgroundTypes, Status
<1>3. bg' \in [s : Status, file_size : Nat, edit : SUBSET Entries,
               log : Files \cup {0}, caller : {"end", "work"}]
  <2>1. CASE Build
    <3>1. PICK e \in EnvStatus :
            bg' = [bg EXCEPT !.s = BuildTable(table[imm_], e).s,
                             !.file_size = BuildTable(table[imm_], e).file_size]
      BY <2>1 DEF Build
    <3>2. BuildTable(table[imm_], e).s \in Status /\ BuildTable(table[imm_], e).file_size \in Nat
      BY DEF BuildTable, EnvStatus, Status
    <3> QED
      BY <3>1, <3>2 DEF BackgroundTypes
  <2>2. CASE Built
    <3>1. EditEntries \in SUBSET Entries /\ logfile_number_ \in Files
      BY <1>0 DEF EditEntries, TableTypes
    <3> QED
      BY <2>2, <3>1 DEF Built, BackgroundTypes
  <2>3. CASE bg' = NoCompaction
    BY <2>3 DEF NoCompaction, Status
  <2> QED
    BY <2>1, <2>2, <2>3 DEF BuildFailed, InstallFailed, ReturnToCaller
<1>4. BackgroundTypes'
  <2>1. bpc' \in {"built", "manifest", "end", "work"}
    BY DEF Build, Built, BuildFailed, InstallFailed, ReturnToCaller, BackgroundTypes
  <2> QED
    BY <1>1, <1>2, <1>3, <2>1 DEF BackgroundTypes
<1>5. Flushing'
  <2>1. CASE Built
    <3>1. EditEntries \subseteq table[imm_]
      BY DEF EditEntries
    <3>2. bg'.log = logfile_number_ /\ bg'.edit = EditEntries
      BY <2>1 DEF Built, BackgroundTypes
    <3> QED
      BY <1>0, <1>1, <3>1, <3>2 DEF Flushing
  <2>2. CASE bpc' # "manifest"
    BY <1>0, <1>1, <2>2 DEF Flushing
  <2> QED
    BY <2>1, <2>2 DEF Build, BuildFailed, InstallFailed, ReturnToCaller, BackgroundTypes
<1> QED
  BY <1>1, <1>4, <1>5, FrameBackground DEF TableTypes

\* A version is installed: imm_ and the logs before the current one go.
LEMMA InstalledMInv ==
  ASSUME MInv, Installed
  PROVE  MInv'
<1> USE DEF MInv
<1>0. /\ imm_ # nullptr /\ imm_ \in Files /\ bg.log = logfile_number_ /\ bg.log \in Files
      /\ bg.edit \in SUBSET Entries
  BY DEF Installed, Flushing, TableTypes, BackgroundTypes
<1>1. /\ log_number_' = bg.log /\ sst' = sst \cup bg.edit
      /\ refs' = Unref({imm_}) /\ imm_' = nullptr /\ logs' = RemoveObsoleteLogs(bg.log)
      /\ UNCHANGED <<mem_, table, logfile_number_, log, synced, next_file_number_,
                     file_to_compact_, bg_error_, background_compaction_scheduled_,
                     shutting_down_, rpc, rd, history>>
      /\ level0' \in Nat /\ bg' = NoCompaction /\ bpc' \in {"end", "work"}
  BY DEF Installed, ClientVars, rVars, ReturnToCaller, TableTypes, BackgroundTypes
<1>2. \A r \in Readers : Held(r)' = Held(r)
  BY <1>1 DEF Held
<1>3. imm_ # mem_ /\ mem_ # nullptr
  BY <1>0 DEF Numbered, TableTypes, Files, nullptr
<1>4. ASSUME NEW m \in Files
      PROVE  /\ refs'[m] \in Nat
             /\ refs'[m] = Holders(m)' + (IF m \in {mem_', imm_'} THEN 1 ELSE 0)
  <2>1. Holders(m)' = Holders(m) /\ Holders(m) \in Nat
    BY <1>2, HoldersFinite DEF Holders
  <2>2. refs[m] = Holders(m) + (IF m \in {mem_, imm_} THEN 1 ELSE 0)
    BY DEF RefsExact
  <2>3. refs'[m] = IF m = imm_ THEN refs[m] - 1 ELSE refs[m]
    BY <1>1 DEF Unref
  <2>4. m # nullptr
    BY DEF Files, nullptr
  <2> QED
    BY <1>1, <1>3, <2>1, <2>2, <2>3, <2>4
<1>5. TableTypes'
  <2>1. refs' \in [Files -> Nat]
    BY <1>1, <1>4 DEF Unref
  <2> QED
    BY <1>0, <1>1, <2>1 DEF TableTypes, RemoveObsoleteLogs
<1>6. BackgroundTypes'
  BY <1>1 DEF BackgroundTypes, NoCompaction, Status
<1>7. ReaderTypes' /\ HistoryTypes' /\ Reading'
  BY <1>1 DEF ReaderTypes, HistoryTypes, Reading, history
<1>8. Numbered'
  BY <1>0, <1>1, <1>2 DEF Numbered, RemoveObsoleteLogs, TableTypes, Files
<1>9. Flushing'
  BY <1>1 DEF Flushing
<1>10. RefsExact'
  BY <1>4 DEF RefsExact
<1> QED
  BY <1>5, <1>6, <1>7, <1>8, <1>9, <1>10

-----------------------------------------------------------------------------
(* Invariance *)

IInv == QInv /\ MInv

\* Init: an empty queue and one memtable.
LEMMA InitIInv == Init => IInv
<1> SUFFICES ASSUME Init PROVE IInv
  OBVIOUS
<1> USE DEF Init
<1>0. 1 \in Files /\ 2 \in 1 .. (MaxFileNumber + 1) /\ nullptr \notin Files
  BY BoundAssumption DEF Files, nullptr
<1>1. QInv
  <2>1. NoWriter \in WriterRecords /\ ~NoWriter.done /\ NoWriter.inserted = 0
    BY DEF NoWriter, NewWriter, WriterRecords, Status, nullptr
  <2>2. WriterTypes
    BY <2>1, BoundAssumption DEF WriterTypes, WriterLabels
  <2>3. Queued /\ FrontOnly /\ NoLostWakeup /\ Counted
    BY <2>1 DEF Queued, FrontOnly, NoLostWakeup, Counted, Working, Numbering
  <2> QED
    BY <2>2, <2>3 DEF QInv
<1>2. TableTypes /\ BackgroundTypes /\ ReaderTypes /\ HistoryTypes
  <2>1. TableTypes
    BY <1>0, BoundAssumption DEF TableTypes
  <2>2. BackgroundTypes
    BY DEF BackgroundTypes, NoCompaction, Status
  <2>3. ReaderTypes /\ HistoryTypes
    BY DEF ReaderTypes, HistoryTypes, NoRead
  <2> QED
    BY <2>1, <2>2, <2>3
<1>3. \A r \in Readers : Held(r) = {}
  BY DEF Held, NoRead
<1>4. Numbered /\ Flushing /\ Reading
  BY <1>3 DEF Numbered, Flushing, Reading, nullptr
<1>5. RefsExact
  <2>1. \A m \in Files : {r \in Readers : m \in Held(r)} = {}
    BY <1>3
  <2>2. \A m \in Files : Holders(m) = 0
    BY <2>1, FS_EmptySet DEF Holders
  <2> QED
    BY <1>0, <2>2 DEF RefsExact
<1> QED
  BY <1>1, <1>2, <1>4, <1>5 DEF IInv, MInv

\* Every step of the database preserves the invariant.
LEMMA NextIInv == IInv /\ [Next]_vars => IInv'
<1> SUFFICES ASSUME IInv, [Next]_vars PROVE IInv'
  OBVIOUS
<1>0. QInv /\ MInv /\ bg_error_ \in Status /\ last_sequence_ \in Nat
  BY DEF IInv, QInv, MInv, WriterTypes, BackgroundTypes
<1>1. ASSUME NEW w \in Writers, StartWrite(w) \/ SpuriousWakeup(w) \/ WriterStep(w)
      PROVE  IInv'
  <2>1. QInv'
    BY <1>0, <1>1, StartWriteQInv, WakeupQInv, MakeRoomQInv, BuildGroupQInv,
       UnlockedQInv, RelockQInv, FinishQInv DEF WriterStep
  <2>2. MInv'
    BY <1>0, <1>1, QueueingMInv, UnlockedMInv, SwitchMInv DEF WriterStep
  <2> QED
    BY <2>1, <2>2 DEF IInv
<1>2. ASSUME NEW r \in Readers, Get(r) \/ ReaderStep(r)
      PROVE  IInv'
  <2>1. UNCHANGED <<writers_, wpc, wr, calls, last_sequence_, mutex_, faults>>
    BY <1>2 DEF Get, ReaderStep, GetFromMem, GetFromImm, GetFromVersion, Lookup,
                GetReturns, ReadVars, wVars
  <2>2. QInv'
    BY <1>0, <2>1, OthersMove DEF QInv, WriterTypes
  <2>3. MInv'
    BY <1>0, <1>2, GetMInv, LookupMInv, GetReturnsMInv DEF ReaderStep
  <2> QED
    BY <2>2, <2>3 DEF IInv
<1>3. CASE BackgroundStep
  <2>1. UNCHANGED <<writers_, wr, calls, last_sequence_>>
    BY <1>3 DEF BackgroundStep, BackgroundCall, TrivialMove, WorkCompactsMemtable,
       DoCompactionWork, Build, Built, BuildFailed, Installed, InstallFailed, EndCall,
       ClientVars
  <2>2. wpc' = wpc \/ wpc' = SignalAll(wpc)
    BY <1>3 DEF BackgroundStep, BackgroundCall, TrivialMove, WorkCompactsMemtable,
       DoCompactionWork, Build, Built, BuildFailed, Installed, InstallFailed, EndCall,
       SignalCaller
  <2>3. mutex_' \in Writers \cup {Background, NoThread}
    <3>1. mutex_' \in {mutex_, Background, NoThread}
      BY <1>3 DEF BackgroundStep, BackgroundCall, BeginCompactMemtable, TrivialMove,
         WorkCompactsMemtable, DoCompactionWork, Build, Built, BuildFailed, Installed,
         InstallFailed, EndCall, ReturnToCaller
    <3> QED
      BY <1>0, <3>1 DEF QInv, WriterTypes
  <2>4. faults' \in 0 .. MaxFaults
    <3>1. UNCHANGED faults \/ \E e \in EnvStatus : CountFault(e)
      BY <1>3 DEF BackgroundStep, BackgroundCall, TrivialMove, WorkCompactsMemtable,
         DoCompactionWork, Build, Built, BuildFailed, Installed, InstallFailed, EndCall
    <3> QED
      BY <1>0, <3>1, EnvCall DEF QInv, WriterTypes
  <2>5. QInv'
    BY <1>0, <2>1, <2>2, <2>3, <2>4, OthersMove
  <2>6. MInv'
    BY <1>0, <1>3, ChooseWorkMInv, CompactMInv, BuildMInv, InstalledMInv DEF BackgroundStep
  <2> QED
    BY <2>5, <2>6 DEF IInv
<1>4. CASE ShutDown \/ Deleted \/ UNCHANGED vars
  <2>1. /\ UNCHANGED <<writers_, wpc, wr, calls, last_sequence_, mutex_, faults>>
        /\ UNCHANGED <<mem_, imm_, table, refs, logfile_number_, log, synced, logs,
                       next_file_number_, log_number_, level0, file_to_compact_, sst,
                       bg_error_, background_compaction_scheduled_, bpc, bg, rpc, rd,
                       acked, failed>>
        /\ shutting_down_' \in {shutting_down_, TRUE}
    BY <1>4 DEF ShutDown, Deleted, vars, wVars, memVars, logVars, verVars, bgVars, rVars, history
  <2>2. QInv'
    BY <1>0, <2>1, OthersMove DEF QInv, WriterTypes
  <2>3. MInv'
    BY <1>0, <2>1, FrameMInv DEF MInv, TableTypes, BackgroundTypes, HistoryTypes
  <2> QED
    BY <2>2, <2>3 DEF IInv
<1> QED
  BY <1>1, <1>2, <1>3, <1>4 DEF Next

LEMMA Invariance == Spec => []IInv
BY InitIInv, NextIInv, PTL DEF Spec

-----------------------------------------------------------------------------
(* The mutex *)

\* The labels of Write at which a writer has the mutex.
HoldsMutex(w) == wpc[w] \in {"makeroom", "group", "finish"}

\* A SignalAll moves nobody into or out of the mutex.
LEMMA SignalAllHolds ==
  ASSUME WriterTypes, wpc' = wpc \/ wpc' = SignalAll(wpc)
  PROVE  \A w \in Writers : HoldsMutex(w)' <=> HoldsMutex(w)
BY DEF WriterTypes, WriterLabels, SignalAll, HoldsMutex

\* A writer that locks, unlocks or goes on as it is, while everybody else stays
\* on his side of the mutex.
LEMMA WriterMutex ==
  ASSUME MutexExact, NEW w \in Writers,
         \A v \in Writers \ {w} : HoldsMutex(v)' <=> HoldsMutex(v),
         bpc' = "end" <=> bpc = "end",
         \/ mutex_ = NoThread /\ mutex_' = w /\ HoldsMutex(w)'
         \/ mutex_ = w /\ mutex_' = NoThread /\ ~HoldsMutex(w)'
         \/ UNCHANGED mutex_ /\ (HoldsMutex(w)' <=> HoldsMutex(w))
  PROVE  MutexExact'
BY ThreadAssumption DEF MutexExact, HoldsMutex

\* The steps of a writer.
LEMMA WriterStepMutex ==
  ASSUME IInv, MutexExact, NEW w \in Writers,
         StartWrite(w) \/ SpuriousWakeup(w) \/ WriterStep(w)
  PROVE  MutexExact'
<1>0. WriterTypes /\ wpc \in [Writers -> WriterLabels]
  BY DEF IInv, QInv, WriterTypes
<1>1. bpc' = "end" <=> bpc = "end"
  <2>1. CASE SwitchMemTable(w)
    <3>1. bpc # "end" /\ bpc' \in {bpc, "queued"}
      BY <2>1, ThreadAssumption DEF SwitchMemTable, Switches, MakingRoom, MutexExact
    <3> QED
      BY <3>1
  <2>2. CASE ~SwitchMemTable(w)
    BY <2>2 DEF StartWrite, Write, SpuriousWakeup, WriterStep, Wakeup, RoomError, RoomDelay,
       RoomFound, RoomWait, SwitchFails, RoomRelock, BuildGroup, SkipGroup, AddRecord, Sync,
       InsertInto, Relock, Finish, PopAndReturn, RoomVars, BaseVars, bgVars
  <2> QED
    BY <2>1, <2>2
<1>2. \A v \in Writers \ {w} : HoldsMutex(v)' <=> HoldsMutex(v)
  <2>1. CASE Relock(w)
    BY <1>0, <2>1 DEF Relock, SignalAll, Goto, HoldsMutex
  <2>2. CASE Finish(w)
    BY <1>0, <2>2 DEF Finish, PopAndReturn, Signal, HoldsMutex
  <2>3. CASE ~Relock(w) /\ ~Finish(w)
    BY <1>0, <2>3 DEF StartWrite, Write, SpuriousWakeup, WriterStep, Wakeup, RoomError,
       RoomDelay, RoomFound, RoomWait, LeaveLoop, SwitchFails, SwitchMemTable, RoomRelock,
       BuildGroup, SkipGroup, AddRecord, Sync, InsertInto, Goto, HoldsMutex
  <2> QED
    BY <2>1, <2>2, <2>3
<1>3. CASE StartWrite(w) \/ SpuriousWakeup(w) \/ Wakeup(w)
  <2>1. \/ mutex_ = NoThread /\ mutex_' = w /\ HoldsMutex(w)'
        \/ UNCHANGED mutex_ /\ (HoldsMutex(w)' <=> HoldsMutex(w))
    BY <1>0, <1>3 DEF StartWrite, Write, SpuriousWakeup, Wakeup, Goto, HoldsMutex
  <2> QED
    BY <1>1, <1>2, <2>1, WriterMutex
<1>4. CASE \/ RoomError(w) \/ RoomDelay(w) \/ RoomFound(w) \/ RoomWait(w)
           \/ SwitchFails(w) \/ SwitchMemTable(w) \/ RoomRelock(w)
  <2>1. \/ mutex_ = NoThread /\ mutex_' = w /\ HoldsMutex(w)'
        \/ mutex_ = w /\ mutex_' = NoThread /\ ~HoldsMutex(w)'
        \/ UNCHANGED mutex_ /\ (HoldsMutex(w)' <=> HoldsMutex(w))
    BY <1>0, <1>4 DEF RoomError, RoomDelay, RoomFound, RoomWait, SwitchFails, Switches,
       SwitchMemTable, RoomRelock, MakingRoom, LeaveLoop, Goto, HoldsMutex
  <2> QED
    BY <1>1, <1>2, <2>1, WriterMutex
<1>5. CASE \/ BuildGroup(w) \/ SkipGroup(w) \/ AddRecord(w) \/ Sync(w)
           \/ InsertInto(w) \/ Relock(w) \/ Finish(w)
  <2>1. \/ mutex_ = NoThread /\ mutex_' = w /\ HoldsMutex(w)'
        \/ mutex_ = w /\ mutex_' = NoThread /\ ~HoldsMutex(w)'
        \/ UNCHANGED mutex_ /\ (HoldsMutex(w)' <=> HoldsMutex(w))
    BY <1>0, <1>5 DEF BuildGroup, SkipGroup, AddRecord, AfterLog, Sync, InsertInto,
       Relock, SignalAll, Finish, PopAndReturn, Signal, Goto, HoldsMutex
  <2> QED
    BY <1>1, <1>2, <2>1, WriterMutex
<1> QED
  BY <1>3, <1>4, <1>5 DEF WriterStep

\* The steps of the background thread.
LEMMA BackgroundMutex ==
  ASSUME IInv, MutexExact, BackgroundStep
  PROVE  MutexExact'
<1>0. WriterTypes /\ bg.caller \in {"end", "work"}
  BY DEF IInv, QInv, MInv, BackgroundTypes, WriterTypes
<1>1. wpc' = wpc \/ wpc' = SignalAll(wpc)
  BY DEF BackgroundStep, BackgroundCall, TrivialMove, WorkCompactsMemtable,
     DoCompactionWork, Build, Built, BuildFailed, Installed, InstallFailed, EndCall,
     SignalCaller
<1>2. \A w \in Writers : HoldsMutex(w)' <=> HoldsMutex(w)
  BY <1>0, <1>1, SignalAllHolds
<1>3. \/ mutex_ = NoThread /\ mutex_' = Background /\ bpc' = "end"
      \/ mutex_ = NoThread /\ UNCHANGED mutex_ /\ bpc' # "end"
      \/ bpc = "build" /\ UNCHANGED mutex_ /\ bpc' # "end"
      \/ mutex_ = Background /\ mutex_' = NoThread /\ bpc' # "end"
  <2>1. CASE BackgroundCall \/ WorkCompactsMemtable \/ TrivialMove \/ DoCompactionWork
    BY <2>1 DEF BackgroundCall, BeginCompactMemtable, TrivialMove, WorkCompactsMemtable,
       DoCompactionWork
  <2>2. CASE Build \/ Built \/ EndCall
    BY <2>2 DEF Build, Built, EndCall
  <2>3. CASE BuildFailed \/ Installed \/ InstallFailed
    BY <1>0, <2>3 DEF BuildFailed, Installed, InstallFailed, ReturnToCaller
  <2> QED
    BY <2>1, <2>2, <2>3 DEF BackgroundStep
<1> QED
  BY <1>2, <1>3, ThreadAssumption DEF MutexExact, HoldsMutex

\* Every step keeps the mutex with a thread that is between Lock and Unlock.
LEMMA NextMutex == IInv /\ MutexExact /\ [Next]_vars => MutexExact'
<1> SUFFICES ASSUME IInv, MutexExact, [Next]_vars PROVE MutexExact'
  OBVIOUS
<1>1. ASSUME NEW r \in Readers, Get(r) \/ ReaderStep(r)
      PROVE  MutexExact'
  <2>1. UNCHANGED <<mutex_, wpc>>
    BY <1>1 DEF Get, ReaderStep, GetFromMem, GetFromImm, GetFromVersion, Lookup,
       GetReturns, ReadVars, wVars
  <2>2. bpc' = bpc \/ (mutex_ = NoThread /\ bpc' = "queued")
    BY <1>1 DEF Get, ReaderStep, GetFromMem, GetFromImm, GetFromVersion, Lookup, GetReturns
  <2> QED
    BY <2>1, <2>2, ThreadAssumption DEF MutexExact
<1>2. CASE ShutDown \/ Deleted \/ UNCHANGED vars
  BY <1>2 DEF ShutDown, Deleted, vars, wVars, bgVars, MutexExact
<1> QED
  BY <1>1, <1>2, WriterStepMutex, BackgroundMutex DEF Next

-----------------------------------------------------------------------------
(* Theorems *)

\* The database is well typed; in particular no memtable's reference count
\* becomes negative (MemTable::Unref).
THEOREM TypeCorrect == Spec => []TypeOK
<1>1. IInv => TypeOK
  BY DEF IInv, QInv, MInv, TypeOK
<1> QED
  BY <1>1, Invariance, PTL

\* Whatever fails and whenever threads wake up, log_ and mem_ have one writer at
\* a time (Write, lines 329-332).
THEOREM QueueCorrect == Spec => []FrontOnly
<1>1. IInv => FrontOnly
  BY DEF IInv, QInv
<1> QED
  BY <1>1, Invariance, PTL

\* The queue's hand-over is never lost: whoever comes to its front, by joining
\* it or by the end of another Write, has been signalled (lines 366-380).
THEOREM HandOverCorrect == Spec => []NoLostWakeup
<1>1. IInv => NoLostWakeup
  BY DEF IInv, QInv
<1> QED
  BY <1>1, Invariance, PTL

\* No memtable is deleted under a Get that searches it, and none leaks (Get,
\* lines 397-400 and 422-423; CompactMemtable, lines 153-156).
THEOREM ReferencesExact == Spec => []RefsExact
<1>1. IInv => RefsExact
  BY DEF IInv, MInv
<1> QED
  BY <1>1, Invariance, PTL

\* The log number that CompactMemtable chose before LogAndApply released the
\* mutex is still right when the version is installed (lines 148, 306-307).
THEOREM LogNumberCurrent == Spec => []InstallsCurrentLog
<1>1. IInv => InstallsCurrentLog
  BY DEF IInv, MInv, InstallsCurrentLog, Flushing, Numbered
<1> QED
  BY <1>1, Invariance, PTL

\* If DB::Open gives the mutex back, no path of Write, Get or the background
\* thread, whatever fails, leaves it locked behind a thread that does not need
\* it, or works as if it were locked (MakeRoomForWrite, lines 278-281; Write,
\* lines 345-357; BackgroundCall, line 184).
THEOREM MutexHeldExactly == Spec => []MutexExact
<1>1. Init => MutexExact
  BY ThreadAssumption DEF Init, MutexExact
<1> QED
  BY <1>1, Invariance, NextMutex, PTL DEF Spec

-----------------------------------------------------------------------------
(* Sequence numbers, and the snapshots of readers that rest on them *)

\* No Get looks beyond the last sequence number.
Snapshots == \A r \in Readers : rd[r].snapshot <= last_sequence_

\* An entry that is numbered beyond last_sequence_ is one of the group that
\* the writer at the front is writing.
Sequenced ==
  \A e \in AllEntries :
    \/ e[1] <= last_sequence_
    \/ \E w \in Writers : wpc[w] \in Numbering /\ e \in GroupEntries(w)

SInv == Snapshots /\ Sequenced /\ SequenceUnique

\* A group's entries are numbered beyond last_sequence_, each differently.
LEMMA GroupNumbers ==
  ASSUME IInv, NEW w \in Writers, wpc[w] \in Numbering
  PROVE  /\ \A e \in GroupEntries(w) :
              /\ e[1] \in Nat /\ last_sequence_ < e[1]
              /\ e[1] <= wr[w].base + Len(wr[w].group)
         /\ \A e, f \in GroupEntries(w) : e[1] = f[1] => e = f
         /\ \A v \in Writers : wpc[v] \in Numbering => v = w
<1>1. wr[w].base = last_sequence_ /\ wr[w].base \in Nat /\ wr[w].group \in Seq(Batches)
  BY DEF IInv, QInv, Counted, WriterTypes, WriterRecords
<1>2. DOMAIN wr[w].group = 1 .. Len(wr[w].group) /\ Len(wr[w].group) \in Nat
  BY <1>1
<1>3. \A e \in GroupEntries(w) : \E j \in 1 .. Len(wr[w].group) :
        e = <<wr[w].base + j, wr[w].group[j]>>
  BY <1>2 DEF GroupEntries
<1>4. ASSUME NEW e \in GroupEntries(w)
      PROVE  /\ e[1] \in Nat /\ last_sequence_ < e[1]
             /\ e[1] <= wr[w].base + Len(wr[w].group)
  <2>1. PICK j \in 1 .. Len(wr[w].group) : e = <<wr[w].base + j, wr[w].group[j]>>
    BY <1>3
  <2> QED
    BY <1>1, <1>2, <2>1
<1>5. ASSUME NEW e \in GroupEntries(w), NEW f \in GroupEntries(w), e[1] = f[1]
      PROVE  e = f
  <2>1. PICK j \in 1 .. Len(wr[w].group) : e = <<wr[w].base + j, wr[w].group[j]>>
    BY <1>3
  <2>2. PICK k \in 1 .. Len(wr[w].group) : f = <<wr[w].base + k, wr[w].group[k]>>
    BY <1>3
  <2>3. j = k
    BY <1>1, <1>2, <1>5, <2>1, <2>2
  <2> QED
    BY <2>1, <2>2, <2>3
<1>6. \A v \in Writers : wpc[v] \in Numbering => v = w
  BY DEF IInv, QInv, FrontOnly, Working, Numbering
<1> QED
  BY <1>4, <1>5, <1>6

\* Entries are pairs of a number and a batch.
LEMMA AllEntriesType ==
  ASSUME IInv
  PROVE  \A e \in AllEntries : e \in Entries /\ e[1] \in Nat
<1>1. \A e \in AllEntries : (\E n \in Files : e \in log[n] \/ e \in table[n]) \/ e \in sst
  BY DEF AllEntries
<1>2. \A e \in AllEntries : e \in Entries
  BY <1>1 DEF IInv, MInv, TableTypes
<1> QED
  BY <1>2 DEF Entries

\* Steps that store no new last sequence number add only entries of the group
\* that is being written.
LEMMA FrameSInv ==
  ASSUME IInv, SInv, UNCHANGED last_sequence_,
         \A e \in AllEntries' : e \in AllEntries \/
            \E w \in Writers : wpc[w] \in Numbering /\ e \in GroupEntries(w),
         \A w \in Writers : wpc[w] \in Numbering =>
            wpc'[w] \in Numbering /\ GroupEntries(w)' = GroupEntries(w),
         \A r \in Readers : rd'[r].snapshot \in {rd[r].snapshot, last_sequence_, 0}
  PROVE  SInv'
<1> USE DEF SInv
<1>1. last_sequence_ \in Nat
  BY DEF IInv, QInv, WriterTypes
<1>2. Snapshots'
  BY <1>1 DEF Snapshots
<1>3. ASSUME NEW e \in AllEntries'
      PROVE  \/ e[1] <= last_sequence_ /\ e \in AllEntries
             \/ \E w \in Writers : wpc[w] \in Numbering /\ e \in GroupEntries(w)
  BY <1>3 DEF Sequenced
<1>4. Sequenced'
  <2>1. ASSUME NEW e \in AllEntries'
        PROVE  \/ e[1] <= last_sequence_
               \/ \E w \in Writers : wpc'[w] \in Numbering /\ e \in GroupEntries(w)'
    BY <1>3
  <2> QED
    BY <2>1 DEF Sequenced
<1>5. ASSUME NEW e \in AllEntries', NEW f \in AllEntries', e[1] = f[1]
      PROVE  e = f
  <2>1. CASE e[1] <= last_sequence_ /\ e \in AllEntries
    <3>1. f \in AllEntries
      <4>1. ASSUME NEW w \in Writers, wpc[w] \in Numbering, f \in GroupEntries(w) PROVE FALSE
        <5>1. f[1] \in Nat /\ last_sequence_ < f[1]
          BY <4>1, GroupNumbers
        <5> QED
          BY <5>1, <2>1, <1>1, <1>5
      <4> QED
        BY <1>3, <4>1
    <3> QED
      BY <2>1, <3>1, <1>5 DEF SequenceUnique
  <2>2. ASSUME NEW w \in Writers, wpc[w] \in Numbering, e \in GroupEntries(w) PROVE e = f
    <3>1. e[1] \in Nat /\ last_sequence_ < e[1]
      BY <2>2, GroupNumbers
    <3>2. ~(f[1] <= last_sequence_)
      BY <3>1, <1>1, <1>5
    <3>3. f \in GroupEntries(w)
      BY <1>3, <2>2, <3>2, GroupNumbers
    <3> QED
      BY <1>5, <2>2, <3>3, GroupNumbers
  <2> QED
    BY <1>3, <2>1, <2>2
<1>6. SequenceUnique'
  BY <1>5 DEF SequenceUnique
<1> QED
  BY <1>2, <1>4, <1>6

\* The writer at the front writes its group.
LEMMA WriteSInv ==
  ASSUME IInv, SInv, NEW w \in Writers, AddRecord(w) \/ Sync(w) \/ InsertInto(w)
  PROVE  SInv'
<1>0. /\ wpc[w] \in Numbering /\ mem_ \in Files /\ logfile_number_ \in Files
      /\ wr[w] \in WriterRecords /\ wr \in [Writers -> WriterRecords]
      /\ wpc \in [Writers -> WriterLabels]
      /\ table \in [Files -> SUBSET Entries] /\ log \in [Files -> SUBSET Entries]
  BY DEF AddRecord, Sync, InsertInto, Numbering, IInv, QInv, MInv, WriterTypes, TableTypes
<1>1. UNCHANGED <<last_sequence_, sst, rd>>
  BY DEF AddRecord, Sync, InsertInto, verVars, rVars
<1>2. /\ \A n \in Files : log'[n] \subseteq log[n] \cup GroupEntries(w)
      /\ \A n \in Files : table'[n] \subseteq table[n] \cup GroupEntries(w)
  <2>1. CASE AddRecord(w)
    BY <1>0, <2>1 DEF AddRecord, memVars
  <2>2. CASE Sync(w)
    BY <2>2 DEF Sync, memVars
  <2>3. CASE InsertInto(w)
    <3> DEFINE j == wr[w].inserted + 1
    <3>1. j \in DOMAIN wr[w].group
      BY <1>0, <2>3 DEF InsertInto, IInv, QInv, Counted, WriterRecords
    <3>2. <<wr[w].base + j, wr[w].group[j]>> \in GroupEntries(w)
      BY <3>1 DEF GroupEntries
    <3>3. table' = [table EXCEPT ![mem_] = @ \cup {<<wr[w].base + j, wr[w].group[j]>>}] /\ log' = log
      BY <2>3 DEF InsertInto, logVars
    <3> QED
      BY <1>0, <3>2, <3>3
  <2> QED
    BY <2>1, <2>2, <2>3
<1>3. ASSUME NEW e \in AllEntries' PROVE e \in AllEntries \/ e \in GroupEntries(w)
  <2>1. (\E n \in Files : e \in log'[n] \/ e \in table'[n]) \/ e \in sst
    BY <1>1 DEF AllEntries
  <2>2. (\E n \in Files : e \in log[n] \/ e \in table[n]) \/ e \in sst \/ e \in GroupEntries(w)
    BY <1>2, <2>1
  <2> QED
    BY <2>2 DEF AllEntries
<1>4. /\ wpc'[w] \in Numbering /\ wr'[w].base = wr[w].base /\ wr'[w].group = wr[w].group
      /\ \A v \in Writers : v # w => wpc'[v] = wpc[v] /\ wr'[v] = wr[v]
  <2>1. CASE AddRecord(w)
    BY <1>0, <2>1 DEF AddRecord, Set, Goto, AfterLog, Numbering, WriterRecords
  <2>2. CASE Sync(w)
    <3>1. PICK e \in EnvStatus :
          /\ wr' = [wr EXCEPT ![w].s = e, ![w].sync_error = ~ok(e)]
          /\ wpc' = [wpc EXCEPT ![w] = IF ok(e) THEN "insert" ELSE "relock"]
      BY <2>2 DEF Sync, Goto
    <3> QED
      BY <1>0, <3>1 DEF Numbering, WriterRecords
  <2>3. CASE InsertInto(w)
    BY <1>0, <2>3 DEF InsertInto, Goto, Numbering, WriterRecords
  <2> QED
    BY <2>1, <2>2, <2>3
<1>5. \A v \in Writers : wpc[v] \in Numbering =>
        wpc'[v] \in Numbering /\ GroupEntries(v)' = GroupEntries(v)
  BY <1>4 DEF GroupEntries
<1> QED
  BY <1>0, <1>1, <1>3, <1>5, FrameSInv

\* The group's numbers become the past.
LEMMA RelockSInv ==
  ASSUME IInv, SInv, NEW w \in Writers, Relock(w)
  PROVE  SInv'
<1> USE DEF SInv
<1>0. /\ wpc[w] \in Numbering /\ wr[w].base = last_sequence_ /\ last_sequence_ \in Nat
      /\ Len(wr[w].group) \in Nat
  BY DEF Relock, Numbering, IInv, QInv, Counted, WriterTypes, WriterRecords
<1>1. UNCHANGED <<log, table, sst, rd>> /\ last_sequence_' = wr[w].base + Len(wr[w].group)
  BY DEF Relock, memVars, logVars, verVars, rVars
<1>2. AllEntries' = AllEntries
  BY <1>1 DEF AllEntries
<1>3. Snapshots'
  <2>1. \A r \in Readers : rd[r].snapshot \in Nat
    BY DEF IInv, MInv, ReaderTypes
  <2> QED
    BY <1>0, <1>1, <2>1 DEF Snapshots
<1>4. Sequenced'
  <2>1. ASSUME NEW e \in AllEntries PROVE e[1] <= last_sequence_'
    <3>1. CASE e[1] <= last_sequence_
      BY <3>1, <1>0, <1>1, AllEntriesType
    <3>2. CASE ~(e[1] <= last_sequence_)
      <4>1. e \in GroupEntries(w)
        BY <1>0, <3>2, GroupNumbers DEF Sequenced
      <4> QED
        BY <1>0, <1>1, <4>1, GroupNumbers
    <3> QED
      BY <3>1, <3>2
  <2> QED
    BY <1>2, <2>1 DEF Sequenced
<1>5. SequenceUnique'
  BY <1>2 DEF SequenceUnique
<1> QED
  BY <1>3, <1>4, <1>5

\* Every step of the database preserves the numbering.
LEMMA NextSInv == IInv /\ SInv /\ [Next]_vars => SInv'
<1> SUFFICES ASSUME IInv, SInv, [Next]_vars PROVE SInv'
  OBVIOUS
<1>0. /\ wpc \in [Writers -> WriterLabels] /\ wr \in [Writers -> WriterRecords]
      /\ ReaderTypes /\ TableTypes /\ \A w \in Writers : ~wr[w].done
  BY DEF IInv, QInv, MInv, WriterTypes, Queued
<1>1. ASSUME NEW w \in Writers, StartWrite(w) \/ SpuriousWakeup(w) \/ WriterStep(w)
      PROVE  SInv'
  <2>1. CASE AddRecord(w) \/ Sync(w) \/ InsertInto(w)
    BY <2>1, WriteSInv
  <2>2. CASE Relock(w)
    BY <2>2, RelockSInv
  <2>3. CASE \/ StartWrite(w) \/ SpuriousWakeup(w) \/ Wakeup(w)
             \/ RoomError(w) \/ RoomDelay(w) \/ RoomFound(w) \/ RoomWait(w)
             \/ SwitchFails(w) \/ SwitchMemTable(w) \/ RoomRelock(w)
             \/ BuildGroup(w) \/ SkipGroup(w) \/ Finish(w)
    <3>1. UNCHANGED <<last_sequence_, log, table, sst, rd>>
      BY <2>3 DEF StartWrite, Write, SpuriousWakeup, Wakeup, RoomError, RoomDelay,
         RoomFound, RoomWait, SwitchFails, SwitchMemTable, RoomRelock, BuildGroup,
         SkipGroup, Finish, PopAndReturn, RoomVars, BaseVars, memVars, logVars,
         verVars, rVars
    <3>2. AllEntries' = AllEntries
      BY <3>1 DEF AllEntries
    <3>3. wpc[w] \notin Numbering
      BY <2>3 DEF StartWrite, Write, SpuriousWakeup, Wakeup, RoomError, RoomDelay,
         RoomFound, RoomWait, SwitchFails, SwitchMemTable, RoomRelock, BuildGroup,
         SkipGroup, Finish, PopAndReturn, Switches, MakingRoom, Numbering
    <3>4. ASSUME NEW v \in Writers, wpc[v] \in Numbering
          PROVE  wpc'[v] \in Numbering /\ wr'[v] = wr[v]
      <4>1. v # w
        BY <3>3, <3>4
      <4>2. CASE Finish(w)
        <5>1. QInv /\ Working(w)
          BY <4>2 DEF IInv, Finish, PopAndReturn, Working
        <5>2. Working(v)
          BY <3>4 DEF Working, Numbering
        <5> QED
          BY <4>1, <5>1, <5>2 DEF QInv, FrontOnly
      <4>3. CASE ~Finish(w)
        <5>1. wr' = wr \/ \E R : wr' = [wr EXCEPT ![w] = R]
          BY <1>0, <2>3, <4>3 DEF StartWrite, Write, SpuriousWakeup, Wakeup, RoomError,
             RoomDelay, RoomFound, RoomWait, SwitchFails, SwitchMemTable, RoomRelock,
             BuildGroup, SkipGroup, LeaveLoop, Set
        <5>2. wpc' = wpc \/ \E l : wpc' = [wpc EXCEPT ![w] = l]
          BY <1>0, <2>3, <4>3 DEF StartWrite, Write, SpuriousWakeup, Wakeup, RoomError,
             RoomDelay, RoomFound, RoomWait, SwitchFails, SwitchMemTable, RoomRelock,
             BuildGroup, SkipGroup, LeaveLoop, Goto
        <5> QED
          BY <1>0, <3>4, <4>1, <5>1, <5>2
      <4> QED
        BY <4>2, <4>3
    <3>5. \A v \in Writers : wpc[v] \in Numbering =>
            wpc'[v] \in Numbering /\ GroupEntries(v)' = GroupEntries(v)
      BY <3>4 DEF GroupEntries
    <3> QED
      BY <3>1, <3>2, <3>5, FrameSInv
  <2> QED
    BY <1>1, <2>1, <2>2, <2>3 DEF WriterStep
<1>2. ASSUME NEW r \in Readers, Get(r) \/ ReaderStep(r)
      PROVE  SInv'
  <2>1. UNCHANGED <<wpc, wr, last_sequence_, log, table, sst>>
    BY <1>2 DEF Get, ReaderStep, GetFromMem, GetFromImm, GetFromVersion, Lookup,
                GetReturns, ReadVars, wVars, logVars
  <2>2. AllEntries' = AllEntries
    BY <2>1 DEF AllEntries
  <2>3. \A q \in Readers : rd'[q].snapshot \in {rd[q].snapshot, last_sequence_, 0}
    <3>1. CASE Get(r)
      BY <1>0, <3>1 DEF Get, ReaderTypes
    <3>2. CASE GetReturns(r)
      BY <1>0, <3>2 DEF GetReturns, NoRead, ReaderTypes
    <3>3. CASE GetFromMem(r) \/ GetFromImm(r) \/ GetFromVersion(r)
      BY <1>0, <3>3 DEF GetFromMem, GetFromImm, GetFromVersion, Lookup, ReaderTypes
    <3> QED
      BY <1>2, <3>1, <3>2, <3>3 DEF ReaderStep
  <2>4. \A w \in Writers : GroupEntries(w)' = GroupEntries(w)
    BY <2>1 DEF GroupEntries
  <2> QED
    BY <2>1, <2>2, <2>3, <2>4, FrameSInv
<1>3. CASE BackgroundStep \/ ShutDown \/ Deleted \/ UNCHANGED vars
  <2>1. UNCHANGED <<wr, last_sequence_, log, table, rd>>
    BY <1>3 DEF BackgroundStep, BackgroundCall, TrivialMove, WorkCompactsMemtable,
       DoCompactionWork, Build, Built, BuildFailed, Installed, InstallFailed, EndCall,
       ShutDown, Deleted, vars, ClientVars, rVars, wVars, memVars, logVars
  <2>2. wpc' = wpc \/ wpc' = SignalAll(wpc)
    BY <1>3 DEF BackgroundStep, BackgroundCall, TrivialMove, WorkCompactsMemtable,
       DoCompactionWork, Build, Built, BuildFailed, Installed, InstallFailed, EndCall,
       SignalCaller, ShutDown, Deleted, vars, wVars
  <2>3. \A e \in sst' : e \in sst \/ \E n \in Files : e \in table[n]
    <3>1. CASE Installed
      <4>1. imm_ \in Files /\ bg.edit \subseteq table[imm_] /\ sst' = sst \cup bg.edit
        BY <1>0, <3>1 DEF Installed, IInv, MInv, Flushing, TableTypes
      <4> QED
        BY <4>1
    <3>2. CASE ~Installed
      BY <1>3, <3>2 DEF BackgroundStep, BackgroundCall, TrivialMove, WorkCompactsMemtable,
         DoCompactionWork, Build, Built, BuildFailed, InstallFailed, EndCall,
         ShutDown, Deleted, vars, verVars
    <3> QED
      BY <3>1, <3>2
  <2>4. ASSUME NEW e \in AllEntries' PROVE e \in AllEntries
    <3>1. (\E n \in Files : e \in log[n] \/ e \in table[n]) \/ e \in sst'
      BY <2>1 DEF AllEntries
    <3>2. (\E n \in Files : e \in log[n] \/ e \in table[n]) \/ e \in sst
      BY <2>3, <3>1
    <3> QED
      BY <3>2 DEF AllEntries
  <2>5. \A w \in Writers : wpc[w] \in Numbering =>
          wpc'[w] \in Numbering /\ GroupEntries(w)' = GroupEntries(w)
    BY <1>0, <2>1, <2>2 DEF GroupEntries, SignalAll, Numbering
  <2> QED
    BY <2>1, <2>4, <2>5, FrameSInv
<1> QED
  BY <1>1, <1>2, <1>3 DEF Next

LEMMA InitSInv == Init => SInv
<1> SUFFICES ASSUME Init PROVE SInv
  OBVIOUS
<1>1. AllEntries = {}
  BY DEF Init, AllEntries
<1>2. Snapshots
  BY DEF Init, Snapshots, NoRead
<1> QED
  BY <1>1, <1>2 DEF SInv, Sequenced, SequenceUnique

LEMMA SInvariance == Spec => [](IInv /\ SInv)
<1>1. IInv /\ SInv /\ [Next]_vars => (IInv /\ SInv)'
  BY NextIInv, NextSInv
<1>2. Init => IInv /\ SInv
  BY InitIInv, InitSInv
<1> QED
  BY <1>1, <1>2, PTL DEF Spec

\* A sequence number names one batch for ever, also after appends that failed
\* half-way (Write, lines 342-365).
THEOREM SequenceNumbersUnique == Spec => []SequenceUnique
<1>1. IInv /\ SInv => SequenceUnique
  BY DEF SInv
<1> QED
  BY <1>1, SInvariance, PTL
-----------------------------------------------------------------------------
(* Snapshots *)

\* A Get that goes on searching keeps its snapshot and what it holds.
LEMMA SearchKeepsPlace ==
  ASSUME IInv, [Next]_vars, NEW r \in Readers, rpc[r] # "idle", rpc'[r] # "idle"
  PROVE  /\ rd'[r].snapshot = rd[r].snapshot /\ rd'[r].mem = rd[r].mem
         /\ rd'[r].imm = rd[r].imm /\ rd'[r].sst = rd[r].sst
<1>0. ReaderTypes
  BY DEF IInv, MInv
<1>1. ASSUME NEW w \in Writers, StartWrite(w) \/ SpuriousWakeup(w) \/ WriterStep(w)
      PROVE  rd' = rd
  BY <1>1 DEF WriterStep, StartWrite, Write, SpuriousWakeup, Wakeup, RoomError, RoomDelay,
     RoomFound, RoomWait, SwitchFails, SwitchMemTable, RoomRelock, BuildGroup, SkipGroup,
     AddRecord, Sync, InsertInto, Relock, Finish, PopAndReturn, RoomVars, BaseVars, rVars
<1>2. ASSUME NEW q \in Readers, Get(q) \/ GetReturns(q)
      PROVE  rd'[r] = rd[r]
  BY <1>0, <1>2 DEF Get, GetReturns, ReaderTypes
<1>3. ASSUME NEW q \in Readers, GetFromMem(q) \/ GetFromImm(q) \/ GetFromVersion(q)
      PROVE  /\ rd'[r].snapshot = rd[r].snapshot /\ rd'[r].mem = rd[r].mem
             /\ rd'[r].imm = rd[r].imm /\ rd'[r].sst = rd[r].sst
  BY <1>0, <1>3 DEF GetFromMem, GetFromImm, GetFromVersion, Lookup, ReaderTypes
<1>4. CASE BackgroundStep \/ ShutDown \/ Deleted \/ UNCHANGED vars
  BY <1>4 DEF BackgroundStep, BackgroundCall, TrivialMove, WorkCompactsMemtable,
     DoCompactionWork, Build, Built, BuildFailed, Installed, InstallFailed, EndCall,
     ShutDown, Deleted, vars, ClientVars, rVars
<1> QED
  BY <1>1, <1>2, <1>3, <1>4 DEF Next, ReaderStep

\* Memtables only grow, by entries that are numbered beyond last_sequence_.
LEMMA TablesGrow ==
  ASSUME IInv, [Next]_vars, NEW m \in Files
  PROVE  /\ table[m] \subseteq table'[m]
         /\ \A e \in table'[m] : e \in table[m] \/ (e[1] \in Nat /\ last_sequence_ < e[1])
<1>0. /\ table \in [Files -> SUBSET Entries] /\ mem_ \in Files
  BY DEF IInv, MInv, TableTypes
<1>1. ASSUME NEW w \in Writers, InsertInto(w)
      PROVE  /\ table[m] \subseteq table'[m]
             /\ \A e \in table'[m] : e \in table[m] \/ (e[1] \in Nat /\ last_sequence_ < e[1])
  <2> DEFINE j == wr[w].inserted + 1
  <2>1. wpc[w] \in Numbering /\ j \in DOMAIN wr[w].group
    BY <1>1 DEF InsertInto, Numbering, IInv, QInv, Counted, WriterTypes, WriterRecords
  <2>2. <<wr[w].base + j, wr[w].group[j]>> \in GroupEntries(w)
    BY <2>1 DEF GroupEntries
  <2>3. table' = [table EXCEPT ![mem_] = @ \cup {<<wr[w].base + j, wr[w].group[j]>>}]
    BY <1>1 DEF InsertInto
  <2>4. \A e \in GroupEntries(w) : e[1] \in Nat /\ last_sequence_ < e[1]
    BY <2>1, GroupNumbers
  <2>5. \A e \in table'[m] : e \in table[m] \/ e = <<wr[w].base + j, wr[w].group[j]>>
    BY <1>0, <2>3
  <2>6. table[m] \subseteq table'[m]
    BY <1>0, <2>3
  <2> HIDE DEF j
  <2> QED
    BY <2>2, <2>4, <2>5, <2>6
<1>2. ASSUME NEW w \in Writers, StartWrite(w) \/ SpuriousWakeup(w) \/ WriterStep(w), ~InsertInto(w)
      PROVE  table' = table
  BY <1>2 DEF WriterStep, StartWrite, Write, SpuriousWakeup, Wakeup, RoomError, RoomDelay,
     RoomFound, RoomWait, SwitchFails, SwitchMemTable, RoomRelock, BuildGroup, SkipGroup,
     AddRecord, Sync, Relock, Finish, PopAndReturn, RoomVars, BaseVars, memVars
<1>3. ASSUME NEW r \in Readers, Get(r) \/ ReaderStep(r) PROVE table' = table
  BY <1>3 DEF Get, ReaderStep, GetFromMem, GetFromImm, GetFromVersion, Lookup, GetReturns, ReadVars
<1>4. CASE BackgroundStep \/ ShutDown \/ Deleted \/ UNCHANGED vars
  BY <1>4 DEF BackgroundStep, BackgroundCall, TrivialMove, WorkCompactsMemtable,
     DoCompactionWork, Build, Built, BuildFailed, Installed, InstallFailed, EndCall,
     ShutDown, Deleted, vars, ClientVars, memVars
<1> QED
  BY <1>1, <1>2, <1>3, <1>4 DEF Next

LEMMA SnapshotStep ==
  ASSUME IInv, SInv, [Next]_vars, NEW r \in Readers, rpc[r] # "idle", rpc'[r] # "idle"
  PROVE  Visible(Searched(r), rd[r].snapshot)' = Visible(Searched(r), rd[r].snapshot)
<1>1. /\ rd'[r].snapshot = rd[r].snapshot /\ rd'[r].mem = rd[r].mem
      /\ rd'[r].imm = rd[r].imm /\ rd'[r].sst = rd[r].sst
  BY SearchKeepsPlace
<1>2. rd[r].snapshot \in Nat /\ last_sequence_ \in Nat /\ rd[r].snapshot <= last_sequence_
  BY DEF IInv, QInv, MInv, WriterTypes, ReaderTypes, SInv, Snapshots
<1>3. Held(r)' = Held(r) /\ Held(r) \subseteq Files
  <2>1. rd[r].mem \in Files \cup {nullptr} /\ rd[r].imm \in Files \cup {nullptr}
    BY DEF IInv, MInv, ReaderTypes
  <2> QED
    BY <1>1, <2>1 DEF Held
<1>4. ASSUME NEW e PROVE
        (e \in Searched(r)' /\ e[1] <= rd[r].snapshot) <=> (e \in Searched(r) /\ e[1] <= rd[r].snapshot)
  <2>1. e \in Searched(r)' <=> (\E m \in Held(r) : e \in table'[m]) \/ e \in rd[r].sst
    BY <1>1, <1>3 DEF Searched
  <2>2. e \in Searched(r) <=> (\E m \in Held(r) : e \in table[m]) \/ e \in rd[r].sst
    BY DEF Searched
  <2>3. ASSUME NEW m \in Held(r), e[1] <= rd[r].snapshot
        PROVE  e \in table'[m] <=> e \in table[m]
    <3>1. m \in Files
      BY <1>3
    <3>2. /\ table[m] \subseteq table'[m]
          /\ \A f \in table'[m] : f \in table[m] \/ (f[1] \in Nat /\ last_sequence_ < f[1])
      BY <3>1, TablesGrow
    <3>3. ~(e[1] \in Nat /\ last_sequence_ < e[1])
      BY <1>2, <2>3
    <3> QED
      BY <3>2, <3>3
  <2> QED
    BY <2>1, <2>2, <2>3
<1> QED
  BY <1>1, <1>4 DEF Visible

\* While a Get searches without the mutex, concurrent insertions, memtable
\* switches and flushes change nothing its snapshot can see (Get, lines 392-413).
THEOREM SnapshotsStable == Spec => SnapshotStable
<1>1. IInv /\ SInv /\ [Next]_vars =>
        [\A r \in Readers : rpc[r] # "idle" /\ rpc'[r] # "idle" =>
           Visible(Searched(r), rd[r].snapshot)' = Visible(Searched(r), rd[r].snapshot)]_vars
  BY SnapshotStep
<1> QED
  BY <1>1, SInvariance, PTL DEF Spec, SnapshotStable

-----------------------------------------------------------------------------
(* The log and what survives a crash.  This needs a Status that tells      *)
(* errors apart (~StubOk): with the stub of status.h a failed append is    *)
(* taken for a success and the theorems are false.                         *)

\* The entry that w's own batch becomes: w is the first of its group.
First(w) == <<wr[w].base + 1, wr[w].batch>>

\* A log's synced part is part of the log.
SyncedLogged == \A n \in Files : synced[n] \subseteq log[n]

\* How far the writer at the front has come with its group.
Written(w) ==
  /\ wpc[w] \in Numbering => wr[w].batch # nullptr /\ wr[w].group[1] = wr[w].batch
  /\ wpc[w] \in {"sync", "insert"} => GroupEntries(w) \subseteq log[mem_]
  /\ wpc[w] = "insert" /\ wr[w].sync => GroupEntries(w) \subseteq synced[mem_]
  /\ wpc[w] = "insert" /\ wr[w].inserted >= 1 => First(w) \in table[mem_]
  /\ wpc[w] = "insert" /\ wr[w].inserted >= 1 /\ wr[w].sync => First(w) \in synced[mem_]
  /\ wpc[w] \in {"relock", "finish"} /\ wr[w].s = "OK" /\ wr[w].batch # nullptr =>
       First(w) \in table[mem_] /\ (wr[w].sync => First(w) \in synced[mem_])
Progress == \A w \in Writers : Written(w)

\* The edit of CompactMemtable has everything that is in imm_.
Compacting ==
  /\ bpc = "built" /\ bg.s = "OK" /\ bg.file_size = 0 => table[imm_] = {}
  /\ bpc = "manifest" => table[imm_] \subseteq bg.edit

\* An acknowledged write is in the tables, or in a memtable that DBImpl still
\* has and, if so asked, in the synced part of that memtable's log.
InMemtable(e, sync) ==
  \E m \in {mem_, imm_} \ {nullptr} : e \in table[m] /\ (sync => e \in synced[m])
Kept == \A a \in acked : \E e \in Entries : e[2] = a[1] /\ (e \in sst \/ InMemtable(e, a[2]))

DInv == LoggedBeforeApplied /\ SyncedLogged /\ Progress /\ Compacting /\ Kept

-----------------------------------------------------------------------------

\* Nothing is taken out of a log, a synced part or a memtable.
LEMMA FilesGrow ==
  ASSUME IInv, SyncedLogged, [Next]_vars
  PROVE  \A n \in Files : /\ log[n] \subseteq log'[n]
                          /\ synced[n] \subseteq synced'[n]
                          /\ table[n] \subseteq table'[n]
<1>0. /\ table \in [Files -> SUBSET Entries] /\ log \in [Files -> SUBSET Entries]
      /\ synced \in [Files -> SUBSET Entries] /\ mem_ \in Files /\ logfile_number_ \in Files
  BY DEF IInv, MInv, TableTypes
<1>1. ASSUME NEW w \in Writers, AddRecord(w)
      PROVE  UNCHANGED <<table, synced>> /\ \A n \in Files : log[n] \subseteq log'[n]
  BY <1>0, <1>1 DEF AddRecord, memVars
<1>2. ASSUME NEW w \in Writers, Sync(w)
      PROVE  UNCHANGED <<table, log>> /\ \A n \in Files : synced[n] \subseteq synced'[n]
  BY <1>0, <1>2 DEF Sync, memVars, SyncedLogged
<1>3. ASSUME NEW w \in Writers, InsertInto(w)
      PROVE  UNCHANGED <<log, synced>> /\ \A n \in Files : table[n] \subseteq table'[n]
  BY <1>0, <1>3 DEF InsertInto, logVars
<1>4. ASSUME NEW w \in Writers, StartWrite(w) \/ SpuriousWakeup(w) \/ WriterStep(w),
             ~AddRecord(w), ~Sync(w), ~InsertInto(w)
      PROVE  UNCHANGED <<log, synced, table>>
  BY <1>4 DEF WriterStep, StartWrite, Write, SpuriousWakeup, Wakeup, RoomError, RoomDelay,
     RoomFound, RoomWait, SwitchFails, SwitchMemTable, RoomRelock, BuildGroup, SkipGroup,
     Relock, Finish, PopAndReturn, RoomVars, BaseVars, memVars, logVars
<1>5. ASSUME NEW r \in Readers, Get(r) \/ ReaderStep(r) PROVE UNCHANGED <<log, synced, table>>
  BY <1>5 DEF Get, ReaderStep, GetFromMem, GetFromImm, GetFromVersion, Lookup, GetReturns,
     ReadVars, logVars
<1>6. CASE BackgroundStep \/ ShutDown \/ Deleted \/ UNCHANGED vars
  BY <1>6 DEF BackgroundStep, BackgroundCall, TrivialMove, WorkCompactsMemtable,
     DoCompactionWork, Build, Built, BuildFailed, Installed, InstallFailed, EndCall,
     ShutDown, Deleted, vars, ClientVars, memVars, logVars
<1> QED
  BY <1>1, <1>2, <1>3, <1>4, <1>5, <1>6 DEF Next

\* What the writer at the front inserts next is one of its group's entries, and
\* its own batch comes first.
LEMMA GroupHead ==
  ASSUME IInv, Progress, NEW w \in Writers, wpc[w] \in Numbering
  PROVE  /\ First(w) \in GroupEntries(w)
         /\ wpc[w] = "insert" =>
              <<wr[w].base + wr[w].inserted + 1, wr[w].group[wr[w].inserted + 1]>> \in GroupEntries(w)
<1>1. /\ wr[w].group \in Seq(Batches) /\ Len(wr[w].group) >= 1 /\ wr[w].inserted \in Nat
      /\ wr[w].base \in Nat
      /\ wpc[w] = "insert" => wr[w].inserted < Len(wr[w].group)
  BY DEF IInv, QInv, Counted, WriterTypes, WriterRecords
<1>2. DOMAIN wr[w].group = 1 .. Len(wr[w].group) /\ Len(wr[w].group) \in Nat
  BY <1>1
<1>3. wr[w].group[1] = wr[w].batch
  BY DEF Progress, Written
<1>4. First(w) \in GroupEntries(w)
  BY <1>1, <1>2, <1>3 DEF First, GroupEntries
<1>5. ASSUME wpc[w] = "insert"
      PROVE  <<wr[w].base + wr[w].inserted + 1, wr[w].group[wr[w].inserted + 1]>> \in GroupEntries(w)
  <2>1. wr[w].inserted + 1 \in DOMAIN wr[w].group
    BY <1>1, <1>2, <1>5
  <2>2. wr[w].base + wr[w].inserted + 1 = wr[w].base + (wr[w].inserted + 1)
    BY <1>1
  <2> QED
    BY <2>1, <2>2 DEF GroupEntries
<1> QED
  BY <1>4, <1>5

\* The group is appended before it is inserted, to the log of the same number.
LEMMA LoggedStep ==
  ASSUME IInv, DInv, [Next]_vars
  PROVE  LoggedBeforeApplied' /\ SyncedLogged'
<1> USE DEF DInv
<1>0. /\ table \in [Files -> SUBSET Entries] /\ log \in [Files -> SUBSET Entries]
      /\ synced \in [Files -> SUBSET Entries] /\ mem_ \in Files /\ logfile_number_ \in Files
  BY DEF IInv, MInv, TableTypes
<1>1. ASSUME NEW w \in Writers, InsertInto(w), NEW n \in Files PROVE table'[n] \subseteq log[n]
  <2> DEFINE e == <<wr[w].base + wr[w].inserted + 1, wr[w].group[wr[w].inserted + 1]>>
  <2>1. e \in log[mem_]
    <3>1. wpc[w] = "insert" /\ wpc[w] \in Numbering
      BY <1>1 DEF InsertInto, Numbering
    <3>2. e \in GroupEntries(w)
      BY <3>1, GroupHead
    <3> QED
      BY <3>1, <3>2 DEF Progress, Written
  <2>2. table' = [table EXCEPT ![mem_] = @ \cup {e}]
    <3>1. wr[w].base \in Nat /\ wr[w].inserted \in Nat
      BY DEF IInv, QInv, WriterTypes, WriterRecords
    <3>2. wr[w].base + wr[w].inserted + 1 = wr[w].base + (wr[w].inserted + 1)
      BY <3>1
    <3> QED
      BY <1>1, <3>2 DEF InsertInto
  <2> QED
    BY <1>0, <2>1, <2>2 DEF LoggedBeforeApplied
<1>2. ASSUME NEW w \in Writers, Sync(w), NEW n \in Files PROVE synced'[n] \subseteq log[n]
  BY <1>0, <1>2 DEF Sync, SyncedLogged
<1>3. ASSUME NEW w \in Writers, InsertInto(w) \/ Sync(w)
      PROVE  log' = log /\ (InsertInto(w) => synced' = synced) /\ (Sync(w) => table' = table)
  BY <1>3 DEF InsertInto, Sync, logVars, memVars
<1>4. ASSUME NEW w \in Writers, StartWrite(w) \/ SpuriousWakeup(w) \/ WriterStep(w),
             ~Sync(w), ~InsertInto(w)
      PROVE  UNCHANGED <<synced, table>>
  BY <1>4 DEF WriterStep, StartWrite, Write, SpuriousWakeup, Wakeup, RoomError, RoomDelay,
     RoomFound, RoomWait, SwitchFails, SwitchMemTable, RoomRelock, BuildGroup, SkipGroup,
     AddRecord, Relock, Finish, PopAndReturn, RoomVars, BaseVars, memVars, logVars
<1>5. ASSUME NEW r \in Readers, Get(r) \/ ReaderStep(r) PROVE UNCHANGED <<synced, table>>
  BY <1>5 DEF Get, ReaderStep, GetFromMem, GetFromImm, GetFromVersion, Lookup, GetReturns,
     ReadVars, logVars
<1>6. CASE BackgroundStep \/ ShutDown \/ Deleted \/ UNCHANGED vars
  <2>1. UNCHANGED <<synced, table>>
    BY <1>6 DEF BackgroundStep, BackgroundCall, TrivialMove, WorkCompactsMemtable,
       DoCompactionWork, Build, Built, BuildFailed, Installed, InstallFailed, EndCall,
       ShutDown, Deleted, vars, ClientVars, memVars, logVars
  <2> QED
    BY <2>1, FilesGrow DEF LoggedBeforeApplied, SyncedLogged
<1>7. ASSUME NEW w \in Writers, StartWrite(w) \/ SpuriousWakeup(w) \/ WriterStep(w)
      PROVE  LoggedBeforeApplied' /\ SyncedLogged'
  <2>1. CASE InsertInto(w)
    BY <2>1, <1>1, <1>3 DEF LoggedBeforeApplied, SyncedLogged
  <2>2. CASE Sync(w)
    BY <2>2, <1>2, <1>3 DEF LoggedBeforeApplied, SyncedLogged
  <2>3. CASE ~InsertInto(w) /\ ~Sync(w)
    BY <2>3, <1>7, <1>4, FilesGrow DEF LoggedBeforeApplied, SyncedLogged
  <2> QED
    BY <2>1, <2>2, <2>3
<1>8. ASSUME NEW r \in Readers, Get(r) \/ ReaderStep(r)
      PROVE  LoggedBeforeApplied' /\ SyncedLogged'
  BY <1>5, <1>8, FilesGrow DEF LoggedBeforeApplied, SyncedLogged
<1> QED
  BY <1>6, <1>7, <1>8 DEF Next
\* A writer whose own state is as it was is as far as it was.
LEMMA WrittenKept ==
  ASSUME IInv, SyncedLogged, [Next]_vars, mem_' = mem_, NEW v \in Writers, Written(v),
         wpc'[v] \notin {"log", "sync", "insert", "relock", "finish"}
           \/ (wpc'[v] = wpc[v] /\ wr'[v] = wr[v])
  PROVE  Written(v)'
<1>1. mem_ \in Files
  BY DEF IInv, MInv, TableTypes
<1>2. /\ log[mem_] \subseteq log'[mem_] /\ synced[mem_] \subseteq synced'[mem_]
      /\ table[mem_] \subseteq table'[mem_]
  BY <1>1, FilesGrow
<1>3. CASE wpc'[v] \notin {"log", "sync", "insert", "relock", "finish"}
  BY <1>3 DEF Written, Numbering
<1>4. CASE wpc'[v] = wpc[v] /\ wr'[v] = wr[v]
  <2>1. GroupEntries(v)' = GroupEntries(v) /\ First(v)' = First(v)
    BY <1>4 DEF GroupEntries, First
  <2> QED
    BY <1>2, <1>4, <2>1 DEF Written
<1> QED
  BY <1>3, <1>4

\* A step of one writer is not a step of another beyond the wait loop.
LEMMA OtherWriters ==
  ASSUME IInv, NEW w \in Writers, StartWrite(w) \/ SpuriousWakeup(w) \/ WriterStep(w),
         NEW v \in Writers, v # w
  PROVE  /\ wr'[v] = wr[v]
         /\ \/ wpc'[v] = wpc[v]
            \/ wpc[v] = "wait" /\ wpc'[v] = "woken"
            \/ wpc[v] = "bgwait" /\ wpc'[v] = "bgwoken"
<1>0. wpc \in [Writers -> WriterLabels] /\ wr \in [Writers -> WriterRecords]
  BY DEF IInv, QInv, WriterTypes
<1>1. CASE Finish(w)
  <2>1. Served(w) = {}
    BY <1>1, FirstPlace DEF IInv, Finish, PopAndReturn, Working
  <2> QED
    BY <1>0, <1>1, <2>1 DEF Finish, PopAndReturn, Signal
<1>2. CASE Relock(w)
  BY <1>0, <1>2 DEF Relock, SignalAll, Goto
<1>3. CASE Sync(w) \/ InsertInto(w)
  BY <1>0, <1>3 DEF Sync, InsertInto, Goto
<1>4. CASE ~Finish(w) /\ ~Relock(w) /\ ~Sync(w) /\ ~InsertInto(w)
  <2>1. wr' = wr \/ \E R : wr' = [wr EXCEPT ![w] = R]
    BY <1>0, <1>4 DEF WriterStep, StartWrite, Write, SpuriousWakeup, Wakeup, RoomError,
       RoomDelay, RoomFound, RoomWait, SwitchFails, SwitchMemTable, RoomRelock,
       BuildGroup, SkipGroup, AddRecord, LeaveLoop, Set
  <2>2. wpc' = wpc \/ \E l : wpc' = [wpc EXCEPT ![w] = l]
    BY <1>0, <1>4 DEF WriterStep, StartWrite, Write, SpuriousWakeup, Wakeup, RoomError,
       RoomDelay, RoomFound, RoomWait, SwitchFails, SwitchMemTable, RoomRelock,
       BuildGroup, SkipGroup, AddRecord, LeaveLoop, Goto
  <2> QED
    BY <1>0, <2>1, <2>2
<1> QED
  BY <1>1, <1>2, <1>3, <1>4

\* A new group starts with the batch of the writer at the front.
LEMMA BuildGroupWritten ==
  ASSUME IInv, NEW w \in Writers, BuildGroup(w)
  PROVE  Written(w)'
<1>1. PICK n \in 1 .. Len(writers_) :
        wr' = [wr EXCEPT ![w].group = BuildBatchGroup(n), ![w].base = last_sequence_]
  BY DEF BuildGroup
<1>2. wpc \in [Writers -> WriterLabels] /\ wr \in [Writers -> WriterRecords]
  BY DEF IInv, QInv, WriterTypes
<1>3. writers_[1] = w /\ Len(writers_) \in Nat
  BY FirstPlace DEF IInv, BuildGroup, Working
<1>4. BuildBatchGroup(n)[1] = wr[w].batch
  BY <1>3 DEF BuildBatchGroup
<1>5. wr'[w].group[1] = wr[w].batch /\ wr'[w].batch = wr[w].batch /\ wpc'[w] = "log"
  BY <1>1, <1>2, <1>4 DEF BuildGroup, Goto, WriterRecords
<1> QED
  BY <1>5 DEF BuildGroup, Written

\* With a status that tells errors apart only a record that was written lets
\* the writer go on.
LEMMA AddRecordWritten ==
  ASSUME ~StubOk, IInv, DInv, NEW w \in Writers, AddRecord(w)
  PROVE  Written(w)'
<1>1. PICK e \in EnvStatus, written \in BOOLEAN :
        /\ e = "OK" => written
        /\ Set(w, "s", e)
        /\ log' = IF written THEN [log EXCEPT ![logfile_number_] = @ \cup GroupEntries(w)] ELSE log
        /\ Goto(w, AfterLog(w, e))
  BY DEF AddRecord
<1>2. /\ wpc \in [Writers -> WriterLabels] /\ wr \in [Writers -> WriterRecords]
      /\ log \in [Files -> SUBSET Entries] /\ mem_ = logfile_number_ /\ mem_ \in Files
      /\ wpc[w] = "log" /\ wr[w].inserted = 0
  BY DEF IInv, QInv, MInv, WriterTypes, TableTypes, Numbered, Counted, AddRecord
<1>3. /\ wpc'[w] = AfterLog(w, e) /\ wr'[w].s = e /\ wr'[w].batch = wr[w].batch
      /\ wr'[w].group = wr[w].group /\ wr'[w].base = wr[w].base /\ wr'[w].sync = wr[w].sync
      /\ wr'[w].inserted = 0
  BY <1>1, <1>2 DEF Set, Goto, WriterRecords
<1>4. GroupEntries(w)' = GroupEntries(w) /\ mem_' = mem_
  BY <1>3 DEF GroupEntries, AddRecord, memVars
<1>5. wr[w].batch # nullptr /\ wr[w].group[1] = wr[w].batch
  BY <1>2 DEF DInv, Progress, Written, Numbering
<1>6. CASE e = "OK"
  <2>1. log'[mem_] = log[mem_] \cup GroupEntries(w)
    BY <1>1, <1>2, <1>6
  <2>2. wpc'[w] \in {"sync", "insert"} /\ (wpc'[w] = "insert" => ~wr[w].sync)
    BY <1>3, <1>6 DEF AfterLog, ok
  <2> QED
    BY <1>3, <1>4, <1>5, <2>1, <2>2 DEF Written
<1>7. CASE e # "OK"
  <2>1. wpc'[w] = "relock"
    BY <1>3, <1>7 DEF AfterLog, ok
  <2> QED
    BY <1>3, <1>5, <1>7, <2>1 DEF Written
<1> QED
  BY <1>6, <1>7

LEMMA SyncWritten ==
  ASSUME ~StubOk, IInv, DInv, NEW w \in Writers, Sync(w)
  PROVE  Written(w)'
<1>1. PICK e \in EnvStatus :
        /\ wr' = [wr EXCEPT ![w].s = e, ![w].sync_error = ~ok(e)]
        /\ synced' = IF e = "OK" THEN [synced EXCEPT ![logfile_number_] = log[logfile_number_]]
                     ELSE synced
        /\ Goto(w, IF ok(e) THEN "insert" ELSE "relock")
  BY DEF Sync
<1>2. /\ wpc \in [Writers -> WriterLabels] /\ wr \in [Writers -> WriterRecords]
      /\ synced \in [Files -> SUBSET Entries] /\ mem_ = logfile_number_ /\ mem_ \in Files
      /\ wpc[w] = "sync" /\ wr[w].inserted = 0
  BY DEF IInv, QInv, MInv, WriterTypes, TableTypes, Numbered, Counted, Sync
<1>3. /\ wr'[w].s = e /\ wr'[w].batch = wr[w].batch /\ wr'[w].group = wr[w].group
      /\ wr'[w].base = wr[w].base /\ wr'[w].sync = wr[w].sync /\ wr'[w].inserted = 0
      /\ wpc'[w] = IF e = "OK" THEN "insert" ELSE "relock"
  BY <1>1, <1>2 DEF Goto, WriterRecords, ok
<1>4. GroupEntries(w)' = GroupEntries(w) /\ mem_' = mem_ /\ log' = log
  BY <1>3 DEF GroupEntries, Sync, memVars
<1>5. /\ wr[w].batch # nullptr /\ wr[w].group[1] = wr[w].batch
      /\ GroupEntries(w) \subseteq log[mem_]
  BY <1>2 DEF DInv, Progress, Written, Numbering
<1>6. e = "OK" => synced'[mem_] = log[mem_]
  BY <1>1, <1>2
<1> QED
  BY <1>3, <1>4, <1>5, <1>6 DEF Written

LEMMA InsertWritten ==
  ASSUME IInv, DInv, NEW w \in Writers, InsertInto(w)
  PROVE  Written(w)'
<1> DEFINE j == wr[w].inserted + 1
<1>1. /\ wpc \in [Writers -> WriterLabels] /\ wr \in [Writers -> WriterRecords]
      /\ table \in [Files -> SUBSET Entries] /\ mem_ \in Files
      /\ wpc[w] = "insert" /\ wr[w].inserted \in Nat /\ wr[w].base \in Nat
  BY DEF IInv, QInv, MInv, WriterTypes, WriterRecords, TableTypes, InsertInto
<1>2. /\ table' = [table EXCEPT ![mem_] = @ \cup {<<wr[w].base + j, wr[w].group[j]>>}]
      /\ wr' = [wr EXCEPT ![w].inserted = j, ![w].s = "OK"]
      /\ wpc' = wpc \/ wpc' = [wpc EXCEPT ![w] = "relock"]
      /\ UNCHANGED <<mem_, log, synced>>
  BY DEF InsertInto, Goto, logVars
<1>3. /\ wr'[w].batch = wr[w].batch /\ wr'[w].group = wr[w].group
      /\ wr'[w].base = wr[w].base /\ wr'[w].sync = wr[w].sync
      /\ wpc'[w] \in {"insert", "relock"}
  BY <1>1, <1>2 DEF WriterRecords
<1>4. GroupEntries(w)' = GroupEntries(w) /\ First(w)' = First(w)
  BY <1>3 DEF GroupEntries, First
<1>5. /\ wr[w].batch # nullptr /\ wr[w].group[1] = wr[w].batch
      /\ GroupEntries(w) \subseteq log[mem_]
      /\ wr[w].sync => GroupEntries(w) \subseteq synced[mem_]
      /\ wr[w].inserted >= 1 => First(w) \in table[mem_]
  BY <1>1 DEF DInv, Progress, Written, Numbering
<1>6. First(w) \in GroupEntries(w)
  BY <1>1, GroupHead DEF DInv, Numbering
<1>7. First(w) \in table'[mem_]
  <2>1. table'[mem_] = table[mem_] \cup {<<wr[w].base + j, wr[w].group[j]>>}
    BY <1>1, <1>2
  <2>2. CASE wr[w].inserted = 0
    BY <2>1, <2>2, <1>5 DEF First
  <2>3. CASE wr[w].inserted >= 1
    BY <2>1, <2>3, <1>5
  <2> QED
    BY <1>1, <2>2, <2>3
<1> QED
  BY <1>2, <1>3, <1>4, <1>5, <1>6, <1>7 DEF Written

\* The store of the last sequence number and the way to it change nothing.
LEMMA RelockWritten ==
  ASSUME ~StubOk, IInv, DInv, NEW w \in Writers, Relock(w) \/ SkipGroup(w)
  PROVE  Written(w)'
<1>1. /\ wpc'[w] = "finish" /\ wr' = wr /\ UNCHANGED <<mem_, table, synced>>
  BY DEF Relock, SkipGroup, Goto, SignalAll, IInv, QInv, WriterTypes, RoomVars, BaseVars,
     memVars, logVars
<1>2. First(w)' = First(w)
  BY <1>1 DEF First
<1>3. CASE Relock(w)
  BY <1>1, <1>2, <1>3 DEF Relock, DInv, Progress, Written, Numbering
<1>4. CASE SkipGroup(w)
  BY <1>1, <1>4 DEF SkipGroup, ok, Written, Numbering
<1> QED
  BY <1>3, <1>4

LEMMA ProgressStep ==
  ASSUME ~StubOk, IInv, DInv, [Next]_vars
  PROVE  Progress'
<1> USE DEF DInv
<1>0. wpc \in [Writers -> WriterLabels] /\ wr \in [Writers -> WriterRecords]
  BY DEF IInv, QInv, WriterTypes
<1>1. ASSUME NEW w \in Writers, StartWrite(w) \/ SpuriousWakeup(w) \/ WriterStep(w)
      PROVE  Progress'
  <2>1. Written(w)'
    <3>1. CASE BuildGroup(w) \/ AddRecord(w) \/ Sync(w) \/ InsertInto(w) \/ Relock(w) \/ SkipGroup(w)
      BY <3>1, BuildGroupWritten, AddRecordWritten, SyncWritten, InsertWritten, RelockWritten
    <3>2. CASE \/ StartWrite(w) \/ SpuriousWakeup(w) \/ Wakeup(w)
               \/ RoomError(w) \/ RoomDelay(w) \/ RoomFound(w) \/ RoomWait(w)
               \/ SwitchFails(w) \/ SwitchMemTable(w) \/ RoomRelock(w) \/ Finish(w)
      <4>1. wpc'[w] \in {"idle", "wait", "woken", "makeroom", "sleep", "bgwait", "bgwoken", "group"}
        BY <1>0, <3>2 DEF StartWrite, Write, SpuriousWakeup, Wakeup, RoomError, RoomDelay,
           RoomFound, RoomWait, SwitchFails, SwitchMemTable, Switches, MakingRoom, RoomRelock,
           LeaveLoop, Goto, Finish, PopAndReturn, Signal
      <4> QED
        BY <4>1 DEF Written, Numbering
    <3> QED
      BY <1>1, <3>1, <3>2 DEF WriterStep
  <2>2. ASSUME NEW v \in Writers, v # w PROVE Written(v)'
    <3>1. /\ wr'[v] = wr[v] /\ (wpc'[v] = wpc[v] \/ wpc'[v] \in {"woken", "bgwoken"})
      BY <1>1, <2>2, OtherWriters
    <3>2. CASE SwitchMemTable(w)
      <4>1. Working(w) /\ ~Working(v)
        BY <2>2, <3>2 DEF SwitchMemTable, Switches, MakingRoom, Working, IInv, QInv, FrontOnly
      <4> QED
        BY <3>1, <4>1 DEF Working, Written, Numbering
    <3>3. CASE ~SwitchMemTable(w)
      <4>1. mem_' = mem_
        BY <1>1, <3>3 DEF WriterStep, StartWrite, Write, SpuriousWakeup, Wakeup, RoomError,
           RoomDelay, RoomFound, RoomWait, SwitchFails, RoomRelock, BuildGroup, SkipGroup,
           AddRecord, Sync, InsertInto, Relock, Finish, PopAndReturn, RoomVars, BaseVars, memVars
      <4> QED
        BY <3>1, <4>1, WrittenKept DEF Progress
    <3> QED
      BY <3>2, <3>3
  <2> QED
    BY <2>1, <2>2 DEF Progress
<1>2. ASSUME NEW r \in Readers, Get(r) \/ ReaderStep(r) PROVE UNCHANGED <<wpc, wr, mem_>>
  BY <1>2 DEF Get, ReaderStep, GetFromMem, GetFromImm, GetFromVersion, Lookup, GetReturns,
     ReadVars, wVars
<1>3. ASSUME BackgroundStep \/ ShutDown \/ Deleted \/ UNCHANGED vars
      PROVE  UNCHANGED <<wr, mem_>> /\ (wpc' = wpc \/ wpc' = SignalAll(wpc))
  BY <1>3 DEF BackgroundStep, BackgroundCall, TrivialMove, WorkCompactsMemtable,
     DoCompactionWork, Build, Built, BuildFailed, Installed, InstallFailed, EndCall,
     SignalCaller, ShutDown, Deleted, vars, ClientVars, memVars, wVars
<1>4. ASSUME UNCHANGED <<wr, mem_>>, wpc' = wpc \/ wpc' = SignalAll(wpc) PROVE Progress'
  <2>1. \A v \in Writers : wpc'[v] = wpc[v] \/ wpc'[v] = "bgwoken"
    BY <1>0, <1>4 DEF SignalAll
  <2>2. ASSUME NEW v \in Writers PROVE Written(v)'
    BY <1>4, <2>1, WrittenKept DEF Progress
  <2> QED
    BY <2>2 DEF Progress
<1> QED
  BY <1>1, <1>2, <1>3, <1>4 DEF Next
\* CompactMemtable's edit loses nothing: imm_ does not change while it is
\* compacted, and only an empty memtable gets by without a table.
LEMMA CompactingStep ==
  ASSUME ~StubOk, IInv, DInv, [Next]_vars
  PROVE  Compacting'
<1> USE DEF DInv
<1>0. /\ table \in [Files -> SUBSET Entries] /\ mem_ \in Files /\ BackgroundTypes
      /\ imm_ # nullptr => imm_ # mem_ /\ imm_ \in Files
      /\ bpc \in {"build", "built", "manifest"} => imm_ # nullptr
  BY DEF IInv, MInv, TableTypes, Numbered, Flushing, Files
<1>1. ASSUME bpc' \in {"built", "manifest"} => bpc' = bpc /\ UNCHANGED <<bg, imm_>> /\ table'[imm_] = table[imm_]
      PROVE  Compacting'
  BY <1>1 DEF Compacting
<1>2. ASSUME NEW w \in Writers, StartWrite(w) \/ SpuriousWakeup(w) \/ WriterStep(w)
      PROVE  Compacting'
  <2>1. CASE InsertInto(w)
    <3>1. UNCHANGED <<bpc, bg, imm_>>
      BY <2>1 DEF InsertInto, bgVars
    <3>2. bpc \in {"built", "manifest"} => table'[imm_] = table[imm_]
      BY <1>0, <2>1 DEF InsertInto
    <3> QED
      BY <1>1, <3>1, <3>2
  <2>2. CASE SwitchMemTable(w)
    <3>1. bpc \notin {"build", "built", "manifest"}
      BY <1>0, <2>2 DEF SwitchMemTable, Switches, MustWait
    <3>2. bpc' \notin {"built", "manifest"}
      BY <2>2, <3>1 DEF SwitchMemTable
    <3> QED
      BY <3>2 DEF Compacting
  <2>3. CASE ~InsertInto(w) /\ ~SwitchMemTable(w)
    <3>1. UNCHANGED <<bpc, bg, imm_, table>>
      BY <1>2, <2>3 DEF WriterStep, StartWrite, Write, SpuriousWakeup, Wakeup, RoomError,
         RoomDelay, RoomFound, RoomWait, SwitchFails, RoomRelock, BuildGroup, SkipGroup,
         AddRecord, Sync, Relock, Finish, PopAndReturn, RoomVars, BaseVars, memVars, bgVars
    <3> QED
      BY <1>1, <3>1
  <2> QED
    BY <2>1, <2>2, <2>3
<1>3. ASSUME NEW r \in Readers, Get(r) \/ ReaderStep(r) PROVE Compacting'
  <2>1. UNCHANGED <<bg, imm_, table>> /\ (bpc' = bpc \/ bpc' = "queued")
    BY <1>3 DEF Get, ReaderStep, GetFromMem, GetFromImm, GetFromVersion, Lookup, GetReturns,
       ReadVars
  <2> QED
    BY <1>1, <2>1
<1>4. CASE Build
  <2>1. bpc' = "built" /\ UNCHANGED <<table, imm_>>
    BY <1>4 DEF Build, ClientVars
  <2>2. ASSUME table[imm_] # {} PROVE bg'.s # "OK"
    <3>1. PICK e \in EnvStatus :
            bg' = [bg EXCEPT !.s = BuildTable(table[imm_], e).s,
                             !.file_size = BuildTable(table[imm_], e).file_size]
      BY <1>4 DEF Build
    <3>2. bg'.s = BuildTable(table[imm_], e).s
      BY <1>0, <3>1 DEF BackgroundTypes
    <3> QED
      BY <2>2, <3>2 DEF BuildTable, ok
  <2> QED
    BY <2>1, <2>2 DEF Compacting
<1>5. CASE Built
  <2>1. /\ bpc = "built" /\ bg.s = "OK" /\ bpc' = "manifest" /\ UNCHANGED <<table, imm_>>
        /\ bg'.edit = IF bg.file_size > 0 THEN table[imm_] ELSE {}
    BY <1>0, <1>5 DEF Built, EditEntries, ok, ClientVars, BackgroundTypes
  <2>2. bg.file_size = 0 \/ bg.file_size > 0
    BY <1>0 DEF BackgroundTypes
  <2> QED
    BY <2>1, <2>2 DEF Compacting
<1>6. CASE BackgroundStep /\ ~Build /\ ~Built
  <2>1. bpc' \notin {"built", "manifest"}
    BY <1>0, <1>6 DEF BackgroundStep, BackgroundCall, BeginCompactMemtable, TrivialMove,
       WorkCompactsMemtable, DoCompactionWork, BuildFailed, Installed, InstallFailed, EndCall,
       ReturnToCaller, BackgroundTypes
  <2> QED
    BY <2>1 DEF Compacting
<1>7. CASE ShutDown \/ Deleted \/ UNCHANGED vars
  <2>1. UNCHANGED <<bpc, bg, imm_, table>>
    BY <1>7 DEF ShutDown, Deleted, vars, memVars, bgVars
  <2> QED
    BY <1>1, <2>1
<1> QED
  BY <1>2, <1>3, <1>4, <1>5, <1>6, <1>7 DEF Next

\* What was acknowledged stays where it was or moves to the tables.
LEMMA KeptStep ==
  ASSUME ~StubOk, IInv, DInv, [Next]_vars
  PROVE  Kept'
<1> USE DEF DInv
<1>0. /\ mem_ \in Files /\ imm_ \in Files \cup {nullptr} /\ nullptr \notin Files
      /\ acked \subseteq Batches \X BOOLEAN
  BY DEF IInv, MInv, TableTypes, HistoryTypes, Files, nullptr
<1>1. \A m \in Files : table[m] \subseteq table'[m] /\ synced[m] \subseteq synced'[m]
  BY FilesGrow
<1>2. ASSUME \A a \in acked' : a \in acked \/
               \E e \in Entries : e[2] = a[1] /\ InMemtable(e, a[2]),
             sst \subseteq sst',
             \A m \in {mem_, imm_} \ {nullptr} : m \in {mem_', imm_'} \/ table[m] \subseteq sst'
      PROVE  Kept'
  <2>1. ASSUME NEW a \in acked'
        PROVE  \E e \in Entries : e[2] = a[1] /\ (e \in sst' \/ InMemtable(e, a[2])')
    <3>1. PICK e \in Entries : e[2] = a[1] /\ (e \in sst \/ InMemtable(e, a[2]))
      BY <1>2, <2>1 DEF Kept
    <3>2. CASE e \in sst
      BY <1>2, <3>1, <3>2
    <3>3. CASE InMemtable(e, a[2])
      <4>1. PICK m \in {mem_, imm_} \ {nullptr} : e \in table[m] /\ (a[2] => e \in synced[m])
        BY <3>3 DEF InMemtable
      <4>2. m \in Files /\ e \in table'[m] /\ (a[2] => e \in synced'[m])
        BY <1>0, <1>1, <4>1
      <4>3. CASE m \in {mem_', imm_'}
        <5>1. m \in {mem_', imm_'} \ {nullptr}
          BY <4>3, <4>2, <1>0
        <5>2. InMemtable(e, a[2])'
          BY <5>1, <4>2 DEF InMemtable
        <5> QED
          BY <3>1, <5>2
      <4>4. CASE table[m] \subseteq sst'
        BY <3>1, <4>1, <4>4
      <4> QED
        BY <1>2, <4>3, <4>4
    <3> QED
      BY <3>1, <3>2, <3>3
  <2> QED
    BY <2>1 DEF Kept
<1>3. ASSUME NEW w \in Writers, StartWrite(w) \/ SpuriousWakeup(w) \/ WriterStep(w)
      PROVE  Kept'
  <2>1. CASE Finish(w)
    <3>1. UNCHANGED <<sst, mem_, imm_>>
      BY <2>1 DEF Finish, PopAndReturn, BaseVars, memVars, verVars
    <3>2. \/ acked' = acked
          \/ /\ wr[w].batch # nullptr /\ wr[w].s = "OK" /\ wpc[w] = "finish"
             /\ acked' = acked \cup {<<wr[w].batch, wr[w].sync>>}
      BY <2>1 DEF Finish, PopAndReturn, Answer, ok, history
    <3>3. ASSUME NEW a \in acked', a \notin acked
          PROVE  \E e \in Entries : e[2] = a[1] /\ InMemtable(e, a[2])
      <4>1. /\ wr[w].batch # nullptr /\ wr[w].s = "OK" /\ wpc[w] = "finish"
            /\ a = <<wr[w].batch, wr[w].sync>>
        BY <3>2, <3>3
      <4>2. First(w) \in table[mem_] /\ (wr[w].sync => First(w) \in synced[mem_])
        BY <4>1 DEF Progress, Written
      <4>3. First(w) \in Entries
        BY <1>0, <4>2 DEF IInv, MInv, TableTypes
      <4>4. First(w)[2] = a[1] /\ a[2] = wr[w].sync
        BY <4>1 DEF First
      <4>5. InMemtable(First(w), a[2])
        BY <1>0, <4>2, <4>4 DEF InMemtable
      <4> QED
        BY <4>3, <4>4, <4>5
    <3> QED
      BY <1>2, <3>1, <3>3
  <2>2. CASE SwitchMemTable(w)
    <3>1. UNCHANGED <<sst, acked>> /\ imm_ = nullptr /\ imm_' = mem_
      BY <2>2 DEF SwitchMemTable, Switches, MustWait, verVars, history
    <3> QED
      BY <1>2, <3>1
  <2>3. CASE ~Finish(w) /\ ~SwitchMemTable(w)
    <3>1. ~wr[w].done
      BY DEF IInv, QInv, Queued
    <3>2. UNCHANGED <<sst, acked, mem_, imm_>>
      BY <1>3, <2>3, <3>1 DEF WriterStep, StartWrite, Write, SpuriousWakeup, Wakeup, RoomError,
         RoomDelay, RoomFound, RoomWait, SwitchFails, RoomRelock, BuildGroup, SkipGroup,
         AddRecord, Sync, InsertInto, Relock, RoomVars, BaseVars, memVars, verVars, history
    <3> QED
      BY <1>2, <3>2
  <2> QED
    BY <2>1, <2>2, <2>3
<1>4. ASSUME NEW r \in Readers, Get(r) \/ ReaderStep(r) PROVE Kept'
  <2>1. UNCHANGED <<sst, acked, mem_, imm_>>
    BY <1>4 DEF Get, ReaderStep, GetFromMem, GetFromImm, GetFromVersion, Lookup, GetReturns,
       ReadVars, history
  <2> QED
    BY <1>2, <2>1
<1>5. CASE Installed
  <2>1. /\ UNCHANGED <<mem_, acked>> /\ sst' = sst \cup bg.edit /\ table[imm_] \subseteq bg.edit
    BY <1>5 DEF Installed, ClientVars, history, Compacting
  <2> QED
    BY <1>2, <2>1
<1>6. CASE (BackgroundStep /\ ~Installed) \/ ShutDown \/ Deleted \/ UNCHANGED vars
  <2>1. UNCHANGED <<sst, acked, mem_, imm_>>
    BY <1>6 DEF BackgroundStep, BackgroundCall, TrivialMove, WorkCompactsMemtable,
       DoCompactionWork, Build, Built, BuildFailed, InstallFailed, EndCall,
       ShutDown, Deleted, vars, ClientVars, memVars, verVars, history
  <2> QED
    BY <1>2, <2>1
<1> QED
  BY <1>3, <1>4, <1>5, <1>6 DEF Next

-----------------------------------------------------------------------------

LEMMA InitDInv == Init => DInv
<1> SUFFICES ASSUME Init PROVE DInv
  OBVIOUS
<1>1. LoggedBeforeApplied /\ SyncedLogged
  BY DEF Init, LoggedBeforeApplied, SyncedLogged
<1>2. Progress
  BY DEF Init, Progress, Written, Numbering
<1>3. Compacting /\ Kept
  BY DEF Init, Compacting, Kept
<1> QED
  BY <1>1, <1>2, <1>3 DEF DInv

LEMMA DInvariance ==
  ASSUME ~StubOk
  PROVE  Spec => [](IInv /\ DInv)
<1>1. IInv /\ DInv /\ [Next]_vars => (IInv /\ DInv)'
  BY NextIInv, LoggedStep, ProgressStep, CompactingStep, KeptStep DEF DInv
<1>2. Init => IInv /\ DInv
  BY InitIInv, InitDInv
<1> QED
  BY <1>1, <1>2, PTL DEF Spec

\* Nothing is in a memtable that is not in the log of the same number, also
\* while memtables are switched and appends fail half-way (Write, lines
\* 346-358; MakeRoomForWrite, lines 308-315).
THEOREM WriteAheadLog ==
  ASSUME ~StubOk
  PROVE  Spec => []LoggedBeforeApplied
<1>1. IInv /\ DInv => LoggedBeforeApplied
  BY DEF DInv
<1> QED
  BY <1>1, DInvariance, PTL

\* A write that was acknowledged is in a table or in a log that recovery reads,
\* in its synced part if that was asked for, at every moment of compactions,
\* memtable switches and failing calls (Write, lines 346-381; CompactMemtable,
\* lines 145-156).
THEOREM AcknowledgedSurvives ==
  ASSUME ~StubOk
  PROVE  Spec => []AckedDurable
<1>1. IInv /\ DInv => AckedDurable
  <2> SUFFICES ASSUME IInv, DInv, NEW a \in acked
               PROVE  \/ \E e \in sst : e[2] = a[1]
                      \/ \E n \in Files : Recoverable(n) /\
                           \E e \in IF a[2] THEN synced[n] ELSE log[n] : e[2] = a[1]
    BY DEF AckedDurable
  <2>1. PICK e \in Entries : e[2] = a[1] /\ (e \in sst \/ InMemtable(e, a[2]))
    BY DEF DInv, Kept
  <2>2. ASSUME InMemtable(e, a[2])
        PROVE  \E n \in Files : Recoverable(n) /\
                 \E f \in IF a[2] THEN synced[n] ELSE log[n] : f[2] = a[1]
    <3>1. PICK m \in {mem_, imm_} \ {nullptr} : e \in table[m] /\ (a[2] => e \in synced[m])
      BY <2>2 DEF InMemtable
    <3>2. m \in Files /\ m \in Nat /\ log_number_ \in Nat /\ log_number_ <= m /\ m \in logs
      BY <3>1 DEF IInv, MInv, TableTypes, Numbered, Files, nullptr
    <3>3. Recoverable(m)
      BY <3>2 DEF Recoverable
    <3>4. e \in log[m]
      BY <3>1, <3>2 DEF DInv, LoggedBeforeApplied
    <3> QED
      BY <2>1, <3>1, <3>2, <3>3, <3>4
  <2> QED
    BY <2>1, <2>2
<1> QED
  BY <1>1, DInvariance, PTL
=============================================================================

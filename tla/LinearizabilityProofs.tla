------------------------ MODULE LinearizabilityProofs ------------------------
(***************************************************************************)
(* Proof that DBImpl implements KVStore: reads and writes of an open       *)
(* database are linearizable, for any number of writers, readers, calls,   *)
(* memtables and failures.  As in the run db_linearizable, groups have one *)
(* batch (with more, the code writes batches twice) and a Status tells     *)
(* errors apart (with the stub of status.h it acknowledges lost writes).   *)
(*                                                                         *)
(* LInv adds to the invariants about the queue, the numbering and the log  *)
(* what orders the writes: a failed group is in no memtable (Placed), and  *)
(* what is in a memtable is newer than anything in an older memtable or in *)
(* a table, also for a Get that still holds memtables which DBImpl has     *)
(* dropped (Ordered), so that the first hit of a Get is the newest.        *)
(***************************************************************************)
EXTENDS DBImplProofs, Counting

\* The group of a writer is its own batch, and it has one as long as it has a
\* chance to return OK.
Alone(w) ==
  /\ wpc[w] = "idle" => wr[w].batch = nullptr
  /\ wpc[w] \in Numbering => Len(wr[w].group) = 1
  /\ wpc[w] \notin Numbering \cup {"finish"} => wr[w].group = <<>>
  /\ wpc[w] = "finish" => /\ wr[w].group # <<>> => wr[w].batch # nullptr
                          /\ wr[w].s = "OK" /\ wr[w].batch # nullptr => wr[w].group # <<>>
Grouped == \A w \in Writers : Alone(w)

\* A batch belongs to one call.
Named ==
  /\ \A w \in Writers : wr[w].batch <= calls
  /\ \A v, w \in Writers : wr[v].batch = wr[w].batch /\ wr[w].batch # nullptr => v = w
  /\ \A a \in acked : a[1] <= calls
  /\ \A b \in failed : b <= calls

\* Only a write that is about to become visible is numbered beyond
\* last_sequence_, in mem_.
Placed ==
  /\ \A m \in Files : \A e \in table[m] :
       e[1] <= last_sequence_ \/
         /\ m = mem_
         /\ \E w \in Writers : wpc[w] = "relock" /\ wr[w].s = "OK" /\ e = First(w)
  /\ \A e \in sst : e[1] <= last_sequence_

\* All that is in A is newer than all that is in B.
Newer(A, B) == \A a \in A, b \in B : b[1] < a[1]

\* Memtables are filled one after the other and flushed in the same order.
Ordered ==
  /\ \A m \in Files : m > mem_ => table[m] = {}
  /\ \A m, n \in Files : m < n => Newer(table[n], table[m])
  /\ \A m \in {mem_, imm_} \ {nullptr} : Newer(table[m], sst)
  /\ \A r \in Readers : rpc[r] # "idle" =>
       /\ rd[r].sst \subseteq sst
       /\ rd[r].imm < rd[r].mem /\ rd[r].mem <= mem_
       /\ \A m \in Held(r) : Newer(table[m], rd[r].sst)

\* A Get that goes on searching has seen nothing so far.
Misses ==
  \A r \in Readers :
    /\ rpc[r] \in {"imm", "version"} => Visible(table[rd[r].mem], rd[r].snapshot) = {}
    /\ rpc[r] = "version" /\ rd[r].imm # nullptr =>
         Visible(table[rd[r].imm], rd[r].snapshot) = {}

LInv == Grouped /\ Named /\ Placed /\ Ordered /\ Misses

-----------------------------------------------------------------------------
(* What a snapshot finds *)

\* Newest depends only on what is visible.
LEMMA NewestOfVisible ==
  ASSUME NEW A, NEW B, NEW s, NEW t, Visible(A, s) = Visible(B, t)
  PROVE  Newest(A, s) = Newest(B, t)
BY DEF Newest

\* A lookup that misses has seen nothing.
LEMMA MissSeesNothing ==
  ASSUME NEW A, A \subseteq Entries, NEW s \in Nat, Newest(A, s) = {}
  PROVE  Visible(A, s) = {}
<1> DEFINE V == Visible(A, s)
           Ages == {s - e[1] : e \in V}
<1>1. \A e \in V : e[1] \in Nat /\ e[1] <= s
  BY DEF Visible, Entries
<1>2. ASSUME V # {} PROVE FALSE
  <2>1. Ages \subseteq Nat /\ Ages # {}
    BY <1>1, <1>2
  <2>2. PICK x \in Ages : \A y \in Ages : x <= y
    <3> HIDE DEF Ages
    <3> QED
      BY <2>1, LeastElement
  <2>3. PICK e \in V : x = s - e[1]
    BY <2>2
  <2>4. \A g \in V : g[1] <= e[1]
    <3>1. ASSUME NEW g \in V PROVE g[1] <= e[1]
      <4>1. s - g[1] \in Ages
        OBVIOUS
      <4>2. x <= s - g[1]
        BY <2>2, <4>1
      <4> QED
        BY <1>1, <2>3, <4>2
    <3> QED
      BY <3>1
  <2>5. e[2] \in Newest(A, s)
    BY <2>3, <2>4 DEF Newest
  <2> QED
    BY <2>5
<1> QED
  BY <1>2

\* A hit in what is newer is the newest of all.
LEMMA HitIsNewest ==
  ASSUME NEW A, NEW B, A \subseteq Entries, B \subseteq Entries, NEW s \in Nat,
         Newer(A, B), Newest(A, s) # {}
  PROVE  Newest(A \cup B, s) = Newest(A, s)
<1> DEFINE V == Visible(A, s)
           U == Visible(A \cup B, s)
           Top(W) == {f \in W : \A g \in W : g[1] <= f[1]}
<1>1. PICK a \in V : \A g \in V : g[1] <= a[1]
  BY DEF Newest
<1>2. /\ \A e \in U : e \in V \/ e \in B
      /\ V \subseteq U /\ a \in A
  BY <1>1 DEF Visible
<1>3. \A e \in A \cup B : e[1] \in Nat
  BY DEF Entries
<1>4. \A b \in B : b[1] < a[1]
  BY <1>2 DEF Newer
<1>5. ASSUME NEW f \in Top(U) PROVE f \in Top(V)
  <2>1. a[1] <= f[1]
    BY <1>1, <1>2
  <2>2. f \notin B
    BY <1>2, <1>3, <1>4, <2>1
  <2> QED
    BY <1>2, <2>2
<1>6. ASSUME NEW f \in Top(V) PROVE f \in Top(U)
  <2>1. a[1] <= f[1] /\ f \in A /\ a \in A
    BY <1>1, <1>2 DEF Visible
  <2>2. ASSUME NEW g \in U PROVE g[1] <= f[1]
    <3>1. CASE g \in V
      BY <3>1
    <3>2. CASE g \in B
      <4>1. g[1] < a[1] /\ g[1] \in Nat /\ a[1] \in Nat /\ f[1] \in Nat
        BY <1>3, <1>4, <2>1, <3>2
      <4> QED
        BY <2>1, <4>1
    <3> QED
      BY <1>2, <3>1, <3>2
  <2> QED
    BY <1>2, <2>2
<1>7. Top(U) = Top(V)
  BY <1>5, <1>6
<1> QED
  BY <1>7 DEF Newest

\* What has nothing to see does not matter.
LEMMA MissDoesNotMatter ==
  ASSUME NEW A, NEW B, NEW s, Visible(A, s) = {}
  PROVE  Newest(A \cup B, s) = Newest(B, s)
<1>1. Visible(A \cup B, s) = Visible(B, s)
  BY DEF Visible
<1> QED
  BY <1>1, NewestOfVisible

-----------------------------------------------------------------------------
(* Writers and their batches *)

\* A writer that only changes its place of waiting keeps its group.
LEMMA AloneKept ==
  ASSUME NEW v \in Writers, Alone(v), wr'[v] = wr[v],
         \/ wpc'[v] = wpc[v]
         \/ wpc[v] = "wait" /\ wpc'[v] = "woken"
         \/ wpc[v] = "bgwait" /\ wpc'[v] = "bgwoken"
  PROVE  Alone(v)'
BY DEF Alone, Numbering

\* With room, BuildBatchGroup takes the batch of the writer at the front.
LEMMA BuildGroupAlone ==
  ASSUME MaxGroup = 1, IInv, NEW w \in Writers, BuildGroup(w)
  PROVE  Alone(w)'
<1>1. PICK n \in 1 .. Len(writers_) :
        n <= MaxGroup /\ wr' = [wr EXCEPT ![w].group = BuildBatchGroup(n), ![w].base = last_sequence_]
  BY DEF BuildGroup
<1>2. wpc \in [Writers -> WriterLabels] /\ wr \in [Writers -> WriterRecords] /\ Len(writers_) \in Nat
  BY DEF IInv, QInv, WriterTypes
<1>3. n = 1
  BY <1>1, <1>2
<1>4. Len(BuildBatchGroup(n)) = 1
  <2>1. BuildBatchGroup(n) = [j \in 1 .. 1 |-> wr[writers_[j]].batch]
    BY <1>3 DEF BuildBatchGroup
  <2> QED
    BY <2>1
<1>5. wr'[w].group = BuildBatchGroup(n) /\ wpc'[w] = "log"
  BY <1>1, <1>2 DEF BuildGroup, Goto, WriterRecords
<1> QED
  BY <1>4, <1>5 DEF Alone, Numbering

\* Nothing to write: no room, or a null batch.
LEMMA SkipGroupAlone ==
  ASSUME ~StubOk, IInv, Grouped, NEW w \in Writers, SkipGroup(w)
  PROVE  Alone(w)'
<1>1. wpc \in [Writers -> WriterLabels]
  BY DEF IInv, QInv, WriterTypes
<1>2. wpc[w] = "group" /\ wpc'[w] = "finish" /\ wr' = wr
  BY <1>1 DEF SkipGroup, Goto
<1>3. wr[w].group = <<>> /\ (wr[w].s # "OK" \/ wr[w].batch = nullptr)
  BY <1>2 DEF SkipGroup, ok, Grouped, Alone, Numbering
<1> QED
  BY <1>2, <1>3 DEF Alone, Numbering

\* The steps without the mutex, and the store of the last sequence number.
LEMMA WritingAlone ==
  ASSUME IInv, Grouped, Progress, NEW w \in Writers,
         AddRecord(w) \/ Sync(w) \/ InsertInto(w) \/ Relock(w)
  PROVE  /\ Alone(w)' /\ wr'[w].batch = wr[w].batch /\ wr'[w].group = wr[w].group
         /\ wpc'[w] # "idle" /\ (wpc'[w] = "finish" <=> Relock(w))
         /\ InsertInto(w) => wpc'[w] = "relock" /\ wr'[w].s = "OK" /\ wr[w].inserted = 0
<1>0. wpc \in [Writers -> WriterLabels] /\ wr \in [Writers -> WriterRecords]
  BY DEF IInv, QInv, WriterTypes
<1>1. wpc[w] \in Numbering /\ Len(wr[w].group) = 1 /\ wr[w].batch # nullptr
  BY DEF AddRecord, Sync, InsertInto, Relock, Numbering, Grouped, Alone, Progress, Written
<1>2. wr[w].group # <<>>
  BY <1>1
<1>3. CASE AddRecord(w)
  <2>1. PICK e \in EnvStatus : Set(w, "s", e) /\ Goto(w, AfterLog(w, e))
    BY <1>3 DEF AddRecord
  <2>2. wpc[w] = "log"
    BY <1>3 DEF AddRecord
  <2> QED
    BY <1>0, <1>1, <2>1, <2>2 DEF Set, Goto, AfterLog, WriterRecords, Alone, Numbering, Relock, InsertInto
<1>4. CASE Sync(w)
  <2>1. PICK e \in EnvStatus :
          /\ wr' = [wr EXCEPT ![w].s = e, ![w].sync_error = ~ok(e)]
          /\ Goto(w, IF ok(e) THEN "insert" ELSE "relock")
    BY <1>4 DEF Sync
  <2>2. wpc[w] = "sync"
    BY <1>4 DEF Sync
  <2> QED
    BY <1>0, <1>1, <2>1, <2>2 DEF Goto, WriterRecords, Alone, Numbering, Relock, InsertInto
<1>5. CASE InsertInto(w)
  <2>1. wpc[w] = "insert" /\ wr[w].inserted < Len(wr[w].group) /\ wr[w].inserted \in Nat
    BY <1>0, <1>5 DEF InsertInto, IInv, QInv, Counted, WriterRecords
  <2>2. wr[w].inserted = 0
    BY <1>1, <2>1
  <2>3. /\ wr' = [wr EXCEPT ![w].inserted = wr[w].inserted + 1, ![w].s = "OK"]
        /\ wpc' = [wpc EXCEPT ![w] = "relock"]
    BY <1>1, <1>5, <2>2 DEF InsertInto, Goto
  <2> QED
    BY <1>0, <1>1, <2>1, <2>2, <2>3 DEF WriterRecords, Alone, Numbering, Relock
<1>6. CASE Relock(w)
  <2>1. wpc'[w] = "finish" /\ wr' = wr /\ wpc[w] = "relock"
    BY <1>0, <1>6 DEF Relock, Goto, SignalAll
  <2> QED
    BY <1>1, <1>2, <1>6, <2>1 DEF Alone, Numbering, InsertInto
<1> QED
  BY <1>3, <1>4, <1>5, <1>6

\* Before there is a group, and at the end.
LEMMA WaitingAlone ==
  ASSUME IInv, Grouped, NEW w \in Writers,
         \/ SpuriousWakeup(w) \/ Wakeup(w) \/ RoomError(w) \/ RoomDelay(w) \/ RoomFound(w)
         \/ RoomWait(w) \/ SwitchFails(w) \/ SwitchMemTable(w) \/ RoomRelock(w)
  PROVE  /\ Alone(w)' /\ wr'[w].batch = wr[w].batch
         /\ wpc[w] \notin {"idle", "finish"} /\ wpc'[w] \notin {"idle", "finish"}
<1>0. wpc \in [Writers -> WriterLabels] /\ wr \in [Writers -> WriterRecords] /\ ~wr[w].done
  BY DEF IInv, QInv, WriterTypes, Queued
<1>1. wpc[w] \in {"wait", "woken", "makeroom", "sleep", "bgwait", "bgwoken"}
  BY DEF SpuriousWakeup, Wakeup, RoomError, RoomDelay, RoomFound, RoomWait, SwitchFails,
     SwitchMemTable, Switches, MakingRoom, RoomRelock
<1>2. wpc'[w] \in {"wait", "woken", "makeroom", "sleep", "bgwait", "bgwoken", "group"}
  BY <1>0, <1>1 DEF SpuriousWakeup, Wakeup, RoomError, RoomDelay, RoomFound, RoomWait, SwitchFails,
     SwitchMemTable, Switches, MakingRoom, RoomRelock, LeaveLoop, Goto
<1>3. wr'[w].group = wr[w].group /\ wr'[w].batch = wr[w].batch
  BY <1>0 DEF SpuriousWakeup, Wakeup, RoomError, RoomDelay, RoomFound, RoomWait, SwitchFails,
     SwitchMemTable, RoomRelock, LeaveLoop, Set, WriterRecords
<1> QED
  BY <1>1, <1>2, <1>3 DEF Grouped, Alone, Numbering

\* The first and the last step of Write.
LEMMA EndsAlone ==
  ASSUME IInv, NEW w \in Writers, StartWrite(w) \/ Finish(w)
  PROVE  Alone(w)'
<1>0. wpc \in [Writers -> WriterLabels] /\ wr \in [Writers -> WriterRecords]
  BY DEF IInv, QInv, WriterTypes
<1>1. CASE StartWrite(w)
  <2>1. PICK b, sync : Write(w, b, sync)
    BY <1>1 DEF StartWrite
  <2>2. wpc'[w] \in {"wait", "makeroom"} /\ wr'[w].group = <<>>
    BY <1>0, <2>1 DEF Write, Goto, NewWriter
  <2> QED
    BY <2>2 DEF Alone, Numbering
<1>2. CASE Finish(w)
  <2>1. wpc'[w] = "idle" /\ wr'[w] = NoWriter
    BY <1>0, <1>2 DEF Finish, PopAndReturn, Signal
  <2> QED
    BY <2>1 DEF Alone, Numbering, NoWriter, NewWriter
<1> QED
  BY <1>1, <1>2

\* The other threads do nothing to the writers but signal.
LEMMA NoWriterStep ==
  ASSUME [Next]_vars, ~\E w \in Writers : StartWrite(w) \/ SpuriousWakeup(w) \/ WriterStep(w)
  PROVE  /\ UNCHANGED <<wr, calls, mem_, table, last_sequence_, history>>
         /\ wpc' = wpc \/ wpc' = SignalAll(wpc)
<1>1. ASSUME NEW r \in Readers, Get(r) \/ ReaderStep(r)
      PROVE  UNCHANGED <<wr, calls, mem_, table, last_sequence_, history, wpc>>
  BY <1>1 DEF Get, ReaderStep, GetFromMem, GetFromImm, GetFromVersion, Lookup, GetReturns,
     ReadVars, wVars
<1>2. CASE BackgroundStep
  BY <1>2 DEF BackgroundStep, BackgroundCall, TrivialMove, WorkCompactsMemtable,
     DoCompactionWork, Build, Built, BuildFailed, Installed, InstallFailed, EndCall,
     SignalCaller, ClientVars
<1>3. CASE ShutDown \/ Deleted \/ UNCHANGED vars
  BY <1>3 DEF ShutDown, Deleted, vars, wVars, memVars, history
<1> QED
  BY <1>1, <1>2, <1>3 DEF Next

LEMMA GroupedStep ==
  ASSUME MaxGroup = 1, ~StubOk, IInv, DInv, Grouped, [Next]_vars
  PROVE  Grouped'
<1>0. wpc \in [Writers -> WriterLabels]
  BY DEF IInv, QInv, WriterTypes
<1>1. ASSUME NEW w \in Writers, StartWrite(w) \/ SpuriousWakeup(w) \/ WriterStep(w)
      PROVE  Grouped'
  <2>1. Alone(w)'
    BY <1>1, BuildGroupAlone, SkipGroupAlone, WritingAlone, WaitingAlone, EndsAlone
       DEF WriterStep, DInv
  <2>2. ASSUME NEW v \in Writers, v # w PROVE Alone(v)'
    BY <1>1, <2>2, OtherWriters, AloneKept DEF Grouped
  <2> QED
    BY <2>1, <2>2 DEF Grouped
<1>2. CASE ~\E w \in Writers : StartWrite(w) \/ SpuriousWakeup(w) \/ WriterStep(w)
  <2>1. wr' = wr /\ (wpc' = wpc \/ wpc' = SignalAll(wpc))
    BY <1>2, NoWriterStep
  <2>2. ASSUME NEW v \in Writers PROVE Alone(v)'
    <3>1. wpc'[v] = wpc[v] \/ (wpc[v] = "bgwait" /\ wpc'[v] = "bgwoken")
      BY <1>0, <2>1 DEF SignalAll
    <3> QED
      BY <2>1, <3>1, AloneKept DEF Grouped
  <2> QED
    BY <2>2 DEF Grouped
<1> QED
  BY <1>1, <1>2

\* Between the first and the last step of Write the batches stay where they are.
LEMMA MiddleStep ==
  ASSUME IInv, DInv, Grouped, NEW w \in Writers, SpuriousWakeup(w) \/ WriterStep(w), ~Finish(w)
  PROVE  /\ UNCHANGED <<calls, history>>
         /\ \A v \in Writers : /\ wr'[v].batch = wr[v].batch
                               /\ wpc'[v] = "idle" <=> wpc[v] = "idle"
         /\ ~Relock(w) /\ ~SkipGroup(w) => wpc'[w] # "finish"
<1>0. wpc \in [Writers -> WriterLabels] /\ wr \in [Writers -> WriterRecords] /\ ~wr[w].done
  BY DEF IInv, QInv, WriterTypes, Queued
<1>1. UNCHANGED <<calls, history>>
  BY <1>0 DEF SpuriousWakeup, WriterStep, Wakeup, RoomError, RoomDelay, RoomFound, RoomWait,
     SwitchFails, SwitchMemTable, RoomRelock, BuildGroup, SkipGroup, AddRecord, Sync,
     InsertInto, Relock, RoomVars, BaseVars, history
<1>2. /\ wr'[w].batch = wr[w].batch /\ wpc[w] # "idle" /\ wpc'[w] # "idle"
      /\ ~Relock(w) /\ ~SkipGroup(w) => wpc'[w] # "finish"
  <2>1. CASE BuildGroup(w) \/ SkipGroup(w)
    <3>1. wpc[w] = "group" /\ wpc'[w] \in {"log", "finish"}
          /\ (~SkipGroup(w) => wpc'[w] = "log")
      BY <1>0, <2>1 DEF BuildGroup, SkipGroup, Goto
    <3>2. wr'[w].batch = wr[w].batch
      BY <1>0, <2>1 DEF BuildGroup, SkipGroup, WriterRecords
    <3> QED
      BY <3>1, <3>2
  <2>2. CASE AddRecord(w) \/ Sync(w) \/ InsertInto(w) \/ Relock(w)
    BY <2>2, WritingAlone DEF DInv, AddRecord, Sync, InsertInto, Relock
  <2> QED
    BY <2>1, <2>2, WaitingAlone DEF WriterStep
<1>3. ASSUME NEW v \in Writers, v # w
      PROVE  /\ wr'[v].batch = wr[v].batch /\ (wpc'[v] = "idle" <=> wpc[v] = "idle")
  BY <1>3, OtherWriters
<1> QED
  BY <1>1, <1>2, <1>3

\* Write returns: what it answers is about its own batch.
LEMMA FinishBatch ==
  ASSUME IInv, NEW w \in Writers, Finish(w)
  PROVE  /\ wpc[w] = "finish" /\ wpc'[w] = "idle" /\ wr'[w] = NoWriter /\ calls' = calls
         /\ Answer(w, wr[w].s)
         /\ \A v \in Writers : v # w => wr'[v] = wr[v] /\
              (wpc'[v] = wpc[v] \/ (wpc[v] = "wait" /\ wpc'[v] = "woken"))
<1>0. wpc \in [Writers -> WriterLabels] /\ wr \in [Writers -> WriterRecords]
  BY DEF IInv, QInv, WriterTypes
<1>1. Served(w) = {}
  BY FirstPlace DEF IInv, Finish, PopAndReturn, Working
<1> QED
  BY <1>0, <1>1 DEF Finish, PopAndReturn, Signal

LEMMA NamedStep ==
  ASSUME IInv, DInv, Grouped, Named, [Next]_vars
  PROVE  Named'
<1>0. /\ wr \in [Writers -> WriterRecords] /\ calls \in Nat
      /\ acked \subseteq Batches \X BOOLEAN /\ failed \subseteq Batches
      /\ \A w \in Writers : wr[w].batch \in Nat
  <2>1. wr \in [Writers -> WriterRecords] /\ calls \in 0 .. MaxWrites /\ HistoryTypes
    BY DEF IInv, QInv, MInv, WriterTypes
  <2>2. \A w \in Writers : wr[w].batch \in Batches \cup {nullptr}
    BY <2>1 DEF WriterRecords
  <2>3. MaxWrites \in Nat
    BY BoundAssumption
  <2> QED
    BY <2>1, <2>2, <2>3 DEF HistoryTypes, Batches, nullptr
<1>1. ASSUME NEW w \in Writers, StartWrite(w) PROVE Named'
  <2>1. PICK b \in {nullptr, calls + 1}, sync \in BOOLEAN : Write(w, b, sync)
    BY <1>1 DEF StartWrite
  <2>2. /\ calls' = calls + 1 /\ UNCHANGED history /\ wr'[w].batch = b
        /\ \A v \in Writers : v # w => wr'[v] = wr[v]
    BY <1>0, <2>1 DEF Write, RoomVars, NewWriter
  <2>3. b \in Nat /\ b <= calls + 1 /\ (b # nullptr => \A v \in Writers : wr[v].batch # b)
    BY <1>0 DEF Named, nullptr
  <2>4. \A v \in Writers : wr'[v].batch <= calls'
    BY <1>0, <2>2, <2>3 DEF Named
  <2>5. \A u, v \in Writers : wr'[v].batch = wr'[u].batch /\ wr'[u].batch # nullptr => v = u
    BY <2>2, <2>3 DEF Named
  <2>6. (\A a \in acked : a[1] <= calls') /\ \A n \in failed : n <= calls'
    <3>1. (\A a \in acked : a[1] \in Nat) /\ \A n \in failed : n \in Nat
      BY <1>0 DEF Batches
    <3> QED
      BY <1>0, <2>2, <3>1 DEF Named
  <2> QED
    BY <2>2, <2>4, <2>5, <2>6 DEF Named, history
<1>2. ASSUME NEW w \in Writers, Finish(w) PROVE Named'
  <2>1. /\ calls' = calls /\ wr'[w].batch = nullptr
        /\ \A v \in Writers : v # w => wr'[v] = wr[v]
    BY <1>2, FinishBatch DEF NoWriter, NewWriter
  <2>2. /\ acked' \subseteq acked \cup {<<wr[w].batch, wr[w].sync>>}
        /\ failed' \subseteq failed \cup {wr[w].batch}
    BY <1>2, FinishBatch DEF Answer, history
  <2>3. \A a \in acked' : a[1] <= calls'
    BY <2>1, <2>2 DEF Named
  <2>4. \A b \in failed' : b <= calls'
    BY <2>1, <2>2 DEF Named
  <2>5. \A v \in Writers : wr'[v].batch <= calls'
    BY <1>0, <2>1 DEF Named, nullptr
  <2>6. \A u, v \in Writers : wr'[v].batch = wr'[u].batch /\ wr'[u].batch # nullptr => v = u
    BY <2>1 DEF Named
  <2> QED
    BY <2>3, <2>4, <2>5, <2>6 DEF Named
<1>3. ASSUME UNCHANGED <<calls, history>>, \A v \in Writers : wr'[v].batch = wr[v].batch
      PROVE  Named'
  BY <1>3 DEF Named, history
<1>4. CASE ~\E w \in Writers : StartWrite(w) \/ SpuriousWakeup(w) \/ WriterStep(w)
  BY <1>4, <1>3, NoWriterStep
<1> QED
  BY <1>1, <1>2, <1>3, <1>4, MiddleStep

-----------------------------------------------------------------------------
(* The order of the writes *)

\* The variables that order the writes, as they are typed.
LEMMA OrderTypes ==
  ASSUME IInv
  PROVE  /\ table \in [Files -> SUBSET Entries] /\ sst \subseteq Entries
         /\ last_sequence_ \in Nat /\ mem_ \in Files /\ imm_ \in Files \cup {nullptr}
         /\ nullptr \notin Files /\ Files \subseteq Nat /\ nullptr = 0
         /\ imm_ # nullptr => imm_ < mem_
         /\ next_file_number_ \in Nat /\ mem_ < next_file_number_
         /\ \A m \in Files : \A e \in table[m] : e[1] \in Nat
         /\ \A e \in sst : e[1] \in Nat
<1>1. /\ TableTypes /\ WriterTypes /\ Numbered
  BY DEF IInv, QInv, MInv
<1>2. Files \subseteq Nat /\ nullptr = 0 /\ nullptr \notin Files
  BY DEF Files, nullptr
<1>3. next_file_number_ \in Nat
  <2>1. next_file_number_ \in 1 .. (MaxFileNumber + 1)
    BY <1>1 DEF TableTypes
  <2> QED
    BY <2>1
<1>4. \A e \in Entries : e[1] \in Nat
  BY DEF Entries
<1> QED
  BY <1>1, <1>2, <1>3, <1>4 DEF TableTypes, WriterTypes, Numbered

\* A step of a writer, other than its Relock, finds no other writer there or
\* leaves it there.
LEMMA AtRelock ==
  ASSUME IInv, NEW w \in Writers, StartWrite(w) \/ SpuriousWakeup(w) \/ WriterStep(w),
         ~Relock(w), NEW v \in Writers, wpc[v] = "relock"
  PROVE  /\ wr'[v] = wr[v] /\ wpc'[v] = "relock" /\ mem_' = mem_
         /\ ~InsertInto(w)
<1>1. wpc[w] # "relock"
  BY DEF WriterStep, StartWrite, Write, SpuriousWakeup, Wakeup, RoomError, RoomDelay, RoomFound,
     RoomWait, SwitchFails, SwitchMemTable, Switches, MakingRoom, RoomRelock, BuildGroup,
     SkipGroup, AddRecord, Sync, InsertInto, Finish, PopAndReturn
<1>2. wr'[v] = wr[v] /\ wpc'[v] = "relock"
  BY <1>1, OtherWriters
<1>3. ~Working(w)
  BY <1>1 DEF IInv, QInv, FrontOnly, Working
<1>4. ~SwitchMemTable(w) /\ ~InsertInto(w)
  BY <1>3 DEF SwitchMemTable, Switches, MakingRoom, InsertInto, Working
<1>5. mem_' = mem_
  BY <1>4 DEF WriterStep, StartWrite, Write, SpuriousWakeup, Wakeup, RoomError,
     RoomDelay, RoomFound, RoomWait, SwitchFails, RoomRelock, BuildGroup, SkipGroup,
     AddRecord, Sync, Relock, Finish, PopAndReturn, RoomVars, BaseVars, memVars
<1> QED
  BY <1>2, <1>4, <1>5

\* InsertInto puts the batch of the writer into mem_, under the next number.
LEMMA InsertOne ==
  ASSUME IInv, DInv, Grouped, NEW w \in Writers, InsertInto(w)
  PROVE  /\ table' = [table EXCEPT ![mem_] = @ \cup {First(w)}]
         /\ First(w)' = First(w) /\ First(w)[1] = last_sequence_ + 1
         /\ UNCHANGED <<mem_, imm_, sst, last_sequence_, rpc, rd, next_file_number_>>
         /\ wpc'[w] = "relock" /\ wr'[w].s = "OK"
         /\ \A v \in Writers : wpc[v] # "relock"
<1>1. /\ wpc[w] = "insert" /\ wr[w].inserted = 0 /\ wpc'[w] = "relock" /\ wr'[w].s = "OK"
  BY WritingAlone DEF InsertInto, DInv
<1>2. wr \in [Writers -> WriterRecords] /\ wr[w].base = last_sequence_ /\ wr[w].base \in Nat
  BY <1>1 DEF IInv, QInv, WriterTypes, WriterRecords, Counted, Numbering
<1>3. wr[w].group[1] = wr[w].batch
  BY <1>1 DEF DInv, Progress, Written, Numbering
<1>4. table' = [table EXCEPT ![mem_] = @ \cup {<<wr[w].base + 1, wr[w].batch>>}]
  <2>1. wr[w].inserted + 1 = 1
    BY <1>1
  <2> QED
    BY <1>3, <2>1 DEF InsertInto
<1>5. wr'[w].base = wr[w].base /\ wr'[w].batch = wr[w].batch
  BY <1>2 DEF InsertInto, WriterRecords
<1>6. \A v \in Writers : wpc[v] # "relock"
  BY <1>1 DEF IInv, QInv, FrontOnly, Working
<1> QED
  BY <1>1, <1>2, <1>4, <1>5, <1>6 DEF First, InsertInto, verVars, rVars

\* All that is in memtables and tables is numbered up to last_sequence_, unless
\* a writer is about to advance it by one.
LEMMA AllPast ==
  ASSUME IInv, Placed, \A v \in Writers : wpc[v] # "relock" \/ wr[v].s # "OK"
  PROVE  \A m \in Files : \A e \in table[m] : e[1] <= last_sequence_
BY DEF Placed

\* The tables of the current version gain what was in imm_, and lose nothing.
LEMMA TablesOnlyGain ==
  ASSUME IInv, [Next]_vars
  PROVE  /\ sst \subseteq sst'
         /\ \A e \in sst' : e \in sst \/ (imm_ \in Files /\ e \in table[imm_] /\ imm_ # mem_)
<1>1. CASE Installed
  <2>1. sst' = sst \cup bg.edit /\ imm_ # nullptr /\ bg.edit \subseteq table[imm_]
    BY <1>1 DEF Installed, IInv, MInv, Flushing
  <2> QED
    BY <2>1, OrderTypes
<1>2. CASE (BackgroundStep /\ ~Installed) \/ ShutDown \/ Deleted \/ UNCHANGED vars
  BY <1>2 DEF BackgroundStep, BackgroundCall, TrivialMove, WorkCompactsMemtable,
     DoCompactionWork, Build, Built, BuildFailed, InstallFailed, EndCall,
     ShutDown, Deleted, vars, verVars
<1>3. ASSUME NEW r \in Readers, Get(r) \/ ReaderStep(r) PROVE sst' = sst
  BY <1>3 DEF Get, ReaderStep, GetFromMem, GetFromImm, GetFromVersion, Lookup, GetReturns, ReadVars
<1>4. ASSUME NEW w \in Writers, StartWrite(w) \/ SpuriousWakeup(w) \/ WriterStep(w) PROVE sst' = sst
  BY <1>4 DEF WriterStep, StartWrite, Write, SpuriousWakeup, Wakeup, RoomError, RoomDelay,
     RoomFound, RoomWait, SwitchFails, SwitchMemTable, RoomRelock, BuildGroup, SkipGroup,
     AddRecord, Sync, InsertInto, Relock, Finish, PopAndReturn, RoomVars, BaseVars, verVars
<1> QED
  BY <1>1, <1>2, <1>3, <1>4 DEF Next

LEMMA PlacedStep ==
  ASSUME IInv, DInv, Grouped, Placed, [Next]_vars
  PROVE  Placed'
<1> USE OrderTypes
<1>1. ASSUME NEW w \in Writers, InsertInto(w) PROVE Placed'
  <2>1. \A m \in Files : \A e \in table[m] : e[1] <= last_sequence_
    BY <1>1, InsertOne, AllPast
  <2>2. /\ table' = [table EXCEPT ![mem_] = @ \cup {First(w)}] /\ First(w)' = First(w)
        /\ UNCHANGED <<mem_, sst, last_sequence_>> /\ wpc'[w] = "relock" /\ wr'[w].s = "OK"
    BY <1>1, InsertOne
  <2>3. ASSUME NEW m \in Files, NEW e \in table'[m]
        PROVE  e[1] <= last_sequence_ \/ (m = mem_ /\ e = First(w))
    BY <2>1, <2>2, <2>3
  <2> QED
    BY <2>2, <2>3 DEF Placed
<1>2. ASSUME NEW w \in Writers, Relock(w) PROVE Placed'
  <2>1. /\ UNCHANGED <<table, sst>> /\ last_sequence_' = last_sequence_ + 1
    <3>1. wpc[w] = "relock" /\ Len(wr[w].group) = 1 /\ wr[w].base = last_sequence_
      BY <1>2 DEF Relock, Grouped, Alone, Numbering, IInv, QInv, Counted
    <3> QED
      BY <1>2, <3>1 DEF Relock, memVars, verVars
  <2>2. ASSUME NEW v \in Writers, wpc[v] = "relock" PROVE First(v)[1] = last_sequence_ + 1
    BY <2>2 DEF First, IInv, QInv, Counted, Numbering
  <2>3. ASSUME NEW m \in Files, NEW e \in table[m] PROVE e[1] <= last_sequence_'
    BY <2>1, <2>2 DEF Placed
  <2>4. \A e \in sst : e[1] <= last_sequence_'
    BY <2>1 DEF Placed
  <2> QED
    BY <2>1, <2>3, <2>4 DEF Placed
<1>3. ASSUME NEW w \in Writers, StartWrite(w) \/ SpuriousWakeup(w) \/ WriterStep(w),
             ~InsertInto(w), ~Relock(w)
      PROVE  Placed'
  <2>1. UNCHANGED <<table, sst, last_sequence_>>
    BY <1>3 DEF WriterStep, StartWrite, Write, SpuriousWakeup, Wakeup, RoomError, RoomDelay,
       RoomFound, RoomWait, SwitchFails, SwitchMemTable, RoomRelock, BuildGroup, SkipGroup,
       AddRecord, Sync, Finish, PopAndReturn, RoomVars, BaseVars, memVars, verVars
  <2>2. ASSUME NEW v \in Writers, wpc[v] = "relock"
        PROVE  wpc'[v] = "relock" /\ wr'[v] = wr[v] /\ First(v)' = First(v) /\ mem_' = mem_
    BY <1>3, <2>2, AtRelock DEF First
  <2> QED
    BY <2>1, <2>2 DEF Placed
<1>4. CASE ~\E w \in Writers : StartWrite(w) \/ SpuriousWakeup(w) \/ WriterStep(w)
  <2>1. /\ UNCHANGED <<wr, mem_, table, last_sequence_>>
        /\ wpc' = wpc \/ wpc' = SignalAll(wpc)
    BY <1>4, NoWriterStep
  <2>2. \A v \in Writers : wpc[v] = "relock" => wpc'[v] = "relock" /\ First(v)' = First(v)
    BY <2>1 DEF SignalAll, First
  <2>3. \A e \in sst' : e \in sst \/ (imm_ \in Files /\ e \in table[imm_] /\ imm_ # mem_)
    BY <1>4, TablesOnlyGain
  <2>4. \A e \in sst' : e[1] <= last_sequence_
    BY <2>3 DEF Placed
  <2> QED
    BY <2>1, <2>2, <2>4 DEF Placed
<1> QED
  BY <1>1, <1>2, <1>3, <1>4

\* The part of Ordered about the memtables of one Get.
Holds(r) ==
  /\ rd[r].sst \subseteq sst
  /\ rd[r].imm < rd[r].mem /\ rd[r].mem <= mem_
  /\ \A m \in Held(r) : Newer(table[m], rd[r].sst)

\* A Get holds memtables.
LEMMA HeldTypes ==
  ASSUME IInv, NEW r \in Readers, rpc[r] # "idle"
  PROVE  /\ rd[r].mem \in Files /\ rd[r].imm \in Files \cup {nullptr} /\ rd[r].snapshot \in Nat
         /\ rd[r].sst \subseteq Entries
         /\ Held(r) = IF rd[r].imm = nullptr THEN {rd[r].mem} ELSE {rd[r].mem, rd[r].imm}
<1>1. /\ rd[r].mem \in Files \cup {nullptr} /\ rd[r].imm \in Files \cup {nullptr}
      /\ rd[r].snapshot \in Nat /\ rd[r].sst \subseteq Entries
  BY DEF IInv, MInv, ReaderTypes
<1>2. rd[r].mem # nullptr
  BY DEF IInv, MInv, Reading
<1> QED
  BY <1>1, <1>2, OrderTypes DEF Held

\* The insertion of the next write keeps the order.
LEMMA InsertOrdered ==
  ASSUME IInv, DInv, Grouped, Placed, Ordered, NEW w \in Writers, InsertInto(w)
  PROVE  Ordered'
<1> USE OrderTypes
<1>1. \A m \in Files : \A e \in table[m] : e[1] <= last_sequence_
  BY InsertOne, AllPast
<1>2. /\ table' = [table EXCEPT ![mem_] = @ \cup {First(w)}]
      /\ First(w)[1] = last_sequence_ + 1
      /\ UNCHANGED <<mem_, imm_, sst, last_sequence_, rpc, rd>>
  BY InsertOne
<1>3. \A m \in Files : m # mem_ => table'[m] = table[m]
  BY <1>2
<1>4. \A e \in table'[mem_] : e \in table[mem_] \/ e[1] = last_sequence_ + 1
  BY <1>2
<1>5. \A e \in sst : e[1] <= last_sequence_
  BY DEF Placed
<1>6. \A m \in Files : m > mem_ => table'[m] = {}
  BY <1>3 DEF Ordered
<1>7. ASSUME NEW m \in Files, NEW n \in Files, m < n PROVE Newer(table'[n], table'[m])
  <2>1. Newer(table[n], table[m])
    BY <1>7 DEF Ordered
  <2>2. CASE n = mem_
    <3>1. table'[m] = table[m]
      BY <1>3, <1>7, <2>2
    <3>2. ASSUME NEW a \in table'[n], NEW b \in table[m] PROVE b[1] < a[1]
      <4>1. a \in table[n] \/ a[1] = last_sequence_ + 1
        BY <1>4, <2>2, <3>2
      <4>2. b[1] <= last_sequence_ /\ b[1] \in Nat
        BY <1>1, <3>2
      <4> QED
        BY <2>1, <4>1, <4>2, <3>2 DEF Newer
    <3> QED
      BY <3>1, <3>2 DEF Newer
  <2>3. CASE n > mem_
    BY <1>6, <2>3 DEF Newer
  <2>4. CASE n < mem_
    <3>1. table'[n] = table[n] /\ table'[m] = table[m]
      BY <1>3, <1>7, <2>4
    <3> QED
      BY <2>1, <3>1
  <2> QED
    BY <2>2, <2>3, <2>4
<1>8. ASSUME NEW m \in Files, NEW T, T \subseteq sst, Newer(table[m], T) PROVE Newer(table'[m], T)
  <2>1. ASSUME NEW a \in table'[m], NEW b \in T PROVE b[1] < a[1]
    <3>1. a \in table[m] \/ a[1] = last_sequence_ + 1
      BY <1>3, <1>4
    <3>2. b[1] <= last_sequence_ /\ b[1] \in Nat
      BY <1>5, <1>8
    <3> QED
      BY <1>8, <3>1, <3>2 DEF Newer
  <2> QED
    BY <2>1 DEF Newer
<1>9. \A m \in {mem_, imm_} \ {nullptr} : Newer(table'[m], sst)
  <2>1. \A m \in {mem_, imm_} \ {nullptr} : m \in Files
    OBVIOUS
  <2> QED
    BY <1>8, <2>1 DEF Ordered
<1>10. ASSUME NEW r \in Readers, rpc[r] # "idle" PROVE Holds(r)'
  <2>1. Holds(r)
    BY <1>10 DEF Ordered, Holds
  <2>2. Held(r)' = Held(r) /\ Held(r) \subseteq Files
    BY <1>2, <1>10, HeldTypes DEF Held
  <2>3. \A m \in Held(r) : Newer(table'[m], rd[r].sst)
    BY <1>8, <2>1, <2>2 DEF Holds
  <2> QED
    BY <1>2, <2>1, <2>2, <2>3 DEF Holds
<1> QED
  BY <1>2, <1>6, <1>7, <1>9, <1>10 DEF Ordered, Holds

\* The new memtable is empty.
LEMMA SwitchOrdered ==
  ASSUME IInv, Ordered, NEW w \in Writers, SwitchMemTable(w)
  PROVE  Ordered'
<1> USE OrderTypes
<1>1. /\ mem_' = next_file_number_ /\ imm_' = mem_ /\ UNCHANGED <<table, sst, rpc, rd>>
      /\ next_file_number_ \in Files
  BY DEF SwitchMemTable, Switches, verVars, rVars
<1>2. mem_' > mem_ /\ table[mem_'] = {}
  BY <1>1 DEF Ordered
<1>3. \A m \in Files : m > mem_' => table[m] = {}
  BY <1>1, <1>2 DEF Ordered
<1>4. \A m \in {mem_', imm_'} \ {nullptr} : Newer(table[m], sst)
  BY <1>1, <1>2 DEF Ordered, Newer
<1>5. ASSUME NEW r \in Readers, rpc[r] # "idle" PROVE Holds(r)'
  <2>1. Holds(r) /\ rd[r].mem \in Files
    BY <1>5, HeldTypes DEF Ordered, Holds
  <2>2. Held(r)' = Held(r)
    BY <1>1 DEF Held
  <2>3. rd[r].mem <= mem_'
    BY <1>1, <2>1 DEF Holds
  <2> QED
    BY <1>1, <2>1, <2>2, <2>3 DEF Holds
<1> QED
  BY <1>1, <1>3, <1>4, <1>5 DEF Ordered, Holds

\* What imm_ had is older than what mem_ has.
LEMMA InstalledOrdered ==
  ASSUME IInv, Ordered, Installed
  PROVE  Ordered'
<1> USE OrderTypes
<1>1. /\ imm_' = nullptr /\ sst' = sst \cup bg.edit /\ UNCHANGED <<table, mem_, rpc, rd>>
      /\ imm_ \in Files /\ imm_ < mem_ /\ bg.edit \subseteq table[imm_]
  BY DEF Installed, ClientVars, rVars, IInv, MInv, Flushing
<1>2. Newer(table[mem_], table[imm_]) /\ Newer(table[mem_], sst)
  BY <1>1 DEF Ordered
<1>3. Newer(table[mem_], sst')
  BY <1>1, <1>2 DEF Newer
<1>4. ASSUME NEW r \in Readers, rpc[r] # "idle" PROVE Holds(r)'
  <2>1. Holds(r)
    BY <1>4 DEF Ordered, Holds
  <2>2. Held(r)' = Held(r)
    BY <1>1 DEF Held
  <2>3. rd[r].sst \subseteq sst'
    BY <1>1, <2>1 DEF Holds
  <2> QED
    BY <1>1, <2>1, <2>2, <2>3 DEF Holds
<1> QED
  BY <1>1, <1>3, <1>4 DEF Ordered, Holds

\* A new Get holds what DBImpl has.
LEMMA GetOrdered ==
  ASSUME IInv, Ordered, NEW r \in Readers, Get(r)
  PROVE  Ordered'
<1> USE OrderTypes
<1>1. UNCHANGED <<table, sst, mem_, imm_>>
  BY DEF Get, ReadVars
<1>2. /\ rd'[r].sst = sst /\ rd'[r].mem = mem_ /\ rd'[r].imm = imm_
      /\ \A q \in Readers : q # r => rd'[q] = rd[q] /\ rpc'[q] = rpc[q]
  BY DEF Get, IInv, MInv, ReaderTypes
<1>3. Holds(r)'
  <2>1. Held(r)' = {mem_, imm_} \ {nullptr}
    BY <1>2 DEF Held
  <2>2. imm_ < mem_ /\ mem_ <= mem_
    OBVIOUS
  <2> QED
    BY <1>1, <1>2, <2>1, <2>2 DEF Holds, Ordered
<1>4. ASSUME NEW q \in Readers, q # r, rpc[q] # "idle" PROVE Holds(q)'
  <2>1. Holds(q) /\ Held(q)' = Held(q)
    BY <1>2, <1>4 DEF Ordered, Holds, Held
  <2> QED
    BY <1>1, <1>2, <1>4, <2>1 DEF Holds
<1> QED
  BY <1>1, <1>2, <1>3, <1>4 DEF Ordered, Holds

LEMMA OrderedStep ==
  ASSUME IInv, DInv, Grouped, Placed, Ordered, [Next]_vars
  PROVE  Ordered'
<1>1. ASSUME UNCHANGED <<table, sst, mem_, imm_>>,
             \A r \in Readers : rpc'[r] # "idle" => rpc[r] # "idle"
      PROVE  Ordered'
  <2>1. ASSUME NEW r \in Readers, rpc'[r] # "idle" PROVE Holds(r)'
    <3>1. rpc[r] # "idle"
      BY <1>1, <2>1
    <3>2. /\ rd'[r].snapshot = rd[r].snapshot /\ rd'[r].mem = rd[r].mem
          /\ rd'[r].imm = rd[r].imm /\ rd'[r].sst = rd[r].sst
      BY <2>1, <3>1, SearchKeepsPlace
    <3>3. Holds(r) /\ Held(r)' = Held(r)
      BY <3>1, <3>2 DEF Ordered, Holds, Held
    <3> QED
      BY <1>1, <3>2, <3>3 DEF Holds
  <2> QED
    BY <1>1, <2>1 DEF Ordered, Holds
<1>2. ASSUME NEW w \in Writers, StartWrite(w) \/ SpuriousWakeup(w) \/ WriterStep(w)
      PROVE  Ordered'
  <2>1. CASE ~InsertInto(w) /\ ~SwitchMemTable(w)
    <3>1. UNCHANGED <<table, sst, mem_, imm_, rpc>>
      BY <1>2, <2>1 DEF WriterStep, StartWrite, Write, SpuriousWakeup, Wakeup, RoomError, RoomDelay,
         RoomFound, RoomWait, SwitchFails, RoomRelock, BuildGroup, SkipGroup, AddRecord, Sync,
         Relock, Finish, PopAndReturn, RoomVars, BaseVars, memVars, verVars, rVars
    <3> QED
      BY <1>1, <3>1
  <2> QED
    BY <2>1, InsertOrdered, SwitchOrdered
<1>3. ASSUME NEW r \in Readers, ReaderStep(r) PROVE Ordered'
  <2>1. UNCHANGED <<table, sst, mem_, imm_>>
    BY <1>3 DEF ReaderStep, GetFromMem, GetFromImm, GetFromVersion, Lookup, GetReturns, ReadVars
  <2>2. \A q \in Readers : rpc'[q] # "idle" => rpc[q] # "idle"
    <3>1. rpc \in [Readers -> {"idle", "mem", "imm", "version", "end"}]
      BY DEF IInv, MInv, ReaderTypes
    <3>2. rpc[r] # "idle" /\ \A q \in Readers : q # r => rpc'[q] = rpc[q]
      BY <1>3, <3>1 DEF ReaderStep, GetFromMem, GetFromImm, GetFromVersion, Lookup, GetReturns
    <3> QED
      BY <3>2
  <2> QED
    BY <1>1, <2>1, <2>2
<1>4. CASE (BackgroundStep /\ ~Installed) \/ ShutDown \/ Deleted \/ UNCHANGED vars
  <2>1. UNCHANGED <<table, sst, mem_, imm_, rpc>>
    BY <1>4 DEF BackgroundStep, BackgroundCall, TrivialMove, WorkCompactsMemtable,
       DoCompactionWork, Build, Built, BuildFailed, InstallFailed, EndCall,
       ShutDown, Deleted, vars, ClientVars, memVars, verVars, rVars
  <2> QED
    BY <1>1, <2>1
<1> QED
  BY <1>2, <1>3, <1>4, InstalledOrdered, GetOrdered DEF Next

\* What a Get has seen of a memtable it holds is all that it can see.
LEMMA HeldStable ==
  ASSUME IInv, SInv, [Next]_vars, NEW r \in Readers, rpc[r] # "idle", rpc'[r] # "idle",
         NEW m \in Held(r)
  PROVE  Visible(table'[m], rd'[r].snapshot) = Visible(table[m], rd[r].snapshot)
<1>1. m \in Files /\ rd[r].snapshot \in Nat /\ last_sequence_ \in Nat
  BY HeldTypes, OrderTypes
<1>2. rd'[r].snapshot = rd[r].snapshot /\ rd[r].snapshot <= last_sequence_
  BY SearchKeepsPlace DEF SInv, Snapshots
<1>3. /\ table[m] \subseteq table'[m]
      /\ \A e \in table'[m] : e \in table[m] \/ (e[1] \in Nat /\ last_sequence_ < e[1])
  BY <1>1, TablesGrow
<1>4. ASSUME NEW e \in table'[m], e[1] <= rd[r].snapshot PROVE e \in table[m]
  <2>1. ~(e[1] \in Nat /\ last_sequence_ < e[1])
    BY <1>1, <1>2, <1>4
  <2> QED
    BY <1>3, <2>1
<1> QED
  BY <1>2, <1>3, <1>4 DEF Visible

\* Writers and the background thread do nothing to a Get.
LEMMA NoReaderStep ==
  ASSUME [Next]_vars, ~\E r \in Readers : Get(r) \/ ReaderStep(r)
  PROVE  UNCHANGED <<rpc, rd>>
<1>1. ASSUME NEW w \in Writers, StartWrite(w) \/ SpuriousWakeup(w) \/ WriterStep(w)
      PROVE  UNCHANGED <<rpc, rd>>
  BY <1>1 DEF WriterStep, StartWrite, Write, SpuriousWakeup, Wakeup, RoomError, RoomDelay,
     RoomFound, RoomWait, SwitchFails, SwitchMemTable, RoomRelock, BuildGroup, SkipGroup,
     AddRecord, Sync, InsertInto, Relock, Finish, PopAndReturn, RoomVars, BaseVars, rVars
<1>2. CASE BackgroundStep \/ ShutDown \/ Deleted \/ UNCHANGED vars
  BY <1>2 DEF BackgroundStep, BackgroundCall, TrivialMove, WorkCompactsMemtable,
     DoCompactionWork, Build, Built, BuildFailed, Installed, InstallFailed, EndCall,
     ShutDown, Deleted, vars, ClientVars, rVars
<1> QED
  BY <1>1, <1>2 DEF Next

LEMMA MissesStep ==
  ASSUME IInv, SInv, Misses, [Next]_vars
  PROVE  Misses'
<1> DEFINE Clean(m, r) == Visible(table[m], rd[r].snapshot) = {}
<1>0. rpc \in [Readers -> {"idle", "mem", "imm", "version", "end"}]
  BY DEF IInv, MInv, ReaderTypes
<1>1. ASSUME NEW r \in Readers, rpc'[r] \in {"imm", "version"}
      PROVE  rpc[r] = rpc'[r] \/ GetFromMem(r) \/ GetFromImm(r)
  <2>1. CASE \E q \in Readers : Get(q) \/ ReaderStep(q)
    BY <1>0, <1>1, <2>1 DEF Get, ReaderStep, GetFromMem, GetFromImm, GetFromVersion, Lookup, GetReturns
  <2>2. CASE ~\E q \in Readers : Get(q) \/ ReaderStep(q)
    <3>1. rpc' = rpc
      BY <2>2, NoReaderStep
    <3> QED
      BY <3>1
  <2> QED
    BY <2>1, <2>2
<1>2. ASSUME NEW r \in Readers, rpc'[r] \in {"imm", "version"}
      PROVE  /\ Clean(rd[r].mem, r)
             /\ rpc'[r] = "version" /\ rd[r].imm # nullptr => Clean(rd[r].imm, r)
  <2>1. CASE rpc[r] = rpc'[r]
    BY <1>2, <2>1 DEF Misses
  <2>2. CASE GetFromMem(r)
    <3>1. /\ rpc[r] = "mem" /\ Newest(table[rd[r].mem], rd[r].snapshot) = {}
          /\ rpc'[r] = IF rd[r].imm = nullptr THEN "version" ELSE "imm"
      BY <1>0, <1>2, <2>2 DEF GetFromMem, Lookup
    <3>2. table[rd[r].mem] \subseteq Entries /\ rd[r].snapshot \in Nat
      BY <3>1, HeldTypes, OrderTypes
    <3> QED
      BY <3>1, <3>2, MissSeesNothing
  <2>3. CASE GetFromImm(r)
    <3>1. /\ rpc[r] = "imm" /\ Newest(table[rd[r].imm], rd[r].snapshot) = {}
      BY <1>0, <1>2, <2>3 DEF GetFromImm, Lookup
    <3>2. rd[r].imm # nullptr
      BY <3>1 DEF IInv, MInv, Reading
    <3>3. table[rd[r].imm] \subseteq Entries /\ rd[r].snapshot \in Nat
      BY <3>1, <3>2, HeldTypes, OrderTypes
    <3> QED
      BY <3>1, <3>3, MissSeesNothing DEF Misses
  <2> QED
    BY <1>1, <1>2, <2>1, <2>2, <2>3
<1>3. ASSUME NEW r \in Readers, rpc'[r] \in {"imm", "version"}
      PROVE  /\ Visible(table'[rd'[r].mem], rd'[r].snapshot) = {}
             /\ rpc'[r] = "version" /\ rd'[r].imm # nullptr =>
                  Visible(table'[rd'[r].imm], rd'[r].snapshot) = {}
  <2>1. rpc[r] # "idle"
    BY <1>1, <1>3 DEF GetFromMem, GetFromImm, Lookup
  <2>2. rd'[r].mem = rd[r].mem /\ rd'[r].imm = rd[r].imm
    BY <1>3, <2>1, SearchKeepsPlace
  <2>3. rd[r].mem \in Held(r) /\ (rd[r].imm # nullptr => rd[r].imm \in Held(r))
    BY <2>1, HeldTypes
  <2> QED
    BY <1>2, <1>3, <2>1, <2>2, <2>3, HeldStable
<1> QED
  BY <1>3 DEF Misses

-----------------------------------------------------------------------------
(* The invariant *)

LEMMA InitLInv == Init => LInv
<1> SUFFICES ASSUME Init PROVE LInv
  OBVIOUS
<1>1. Grouped
  BY DEF Init, Grouped, Alone, Numbering, NoWriter, NewWriter
<1>2. Named
  BY DEF Init, Named, NoWriter, NewWriter, nullptr
<1>3. Placed
  BY DEF Init, Placed
<1>4. Ordered
  BY DEF Init, Ordered, Newer
<1>5. Misses
  BY DEF Init, Misses
<1> QED
  BY <1>1, <1>2, <1>3, <1>4, <1>5 DEF LInv

AllInv == IInv /\ SInv /\ DInv /\ LInv

LEMMA LInvariance ==
  ASSUME ~StubOk, MaxGroup = 1
  PROVE  /\ Init => AllInv
         /\ AllInv /\ [Next]_vars => AllInv'
<1>1. Init => AllInv
  BY InitIInv, InitSInv, InitDInv, InitLInv DEF AllInv
<1>2. ASSUME AllInv, [Next]_vars PROVE LInv'
  BY <1>2, GroupedStep, NamedStep, PlacedStep, OrderedStep, MissesStep DEF AllInv, LInv
<1>3. ASSUME AllInv, [Next]_vars PROVE DInv'
  BY <1>3, LoggedStep, ProgressStep, CompactingStep, KeptStep DEF AllInv, DInv
<1> QED
  BY <1>1, <1>2, <1>3, NextIInv, NextSInv DEF AllInv

-----------------------------------------------------------------------------
(* How the state of KVStore changes *)

Current == Newest(Live, last_sequence_)
GetState == [r \in Readers |-> IF rpc[r] \in {"idle", "end"}
               THEN IF rpc[r] = "idle" THEN "idle" ELSE "answered" ELSE "open"]
Views == [r \in Readers |-> IF rpc[r] = "idle" THEN {}
                            ELSE Newest(Searched(r), rd[r].snapshot)]
Values == [r \in Readers |-> IF rpc[r] = "end" THEN rd[r].value ELSE {}]
Writes == <<Current, Called, Effective, acked, failed>>
Reads  == <<GetState, Views, Values>>

LEMMA Stutter == UNCHANGED <<Writes, Reads>> => UNCHANGED KV!kvVars
BY DEF Writes, Reads, Current, GetState, Views, Values, KV!kvVars

\* A writer whose write has become visible.
InEffect(w) == wpc[w] = "finish" /\ wr[w].group # <<>> /\ ok(wr[w].s)

LEMMA CallsKept ==
  ASSUME \A v \in Writers : /\ wr'[v].batch = wr[v].batch
                            /\ wpc'[v] = "idle" <=> wpc[v] = "idle"
                            /\ InEffect(v)' <=> InEffect(v)
  PROVE  UNCHANGED <<Called, Effective>>
<1>1. {v \in Writers : wpc'[v] # "idle"} = {v \in Writers : wpc[v] # "idle"}
  OBVIOUS
<1>2. Called' = Called
  BY <1>1 DEF Called
<1>3. {v \in Writers : InEffect(v)'} = {v \in Writers : InEffect(v)}
  OBVIOUS
<1>4. Effective' = Effective
  BY <1>3 DEF Effective, InEffect
<1> QED
  BY <1>2, <1>4

\* What is in Live.
LEMMA InLive ==
  ASSUME NEW e
  PROVE  e \in Live <=> \/ e \in table[mem_]
                        \/ imm_ # nullptr /\ e \in table[imm_]
                        \/ e \in sst
BY DEF Live

\* Until the last sequence number is stored the current value stays.
LEMMA CurrentKept ==
  ASSUME ~StubOk, AllInv, [Next]_vars, UNCHANGED last_sequence_
  PROVE  Current' = Current
<1> USE OrderTypes DEF AllInv
<1> DEFINE L == last_sequence_
           InOld(e) == e \in table[mem_] \/ (imm_ # nullptr /\ e \in table[imm_]) \/ e \in sst
           InNew(e) == e \in table'[mem_'] \/ (imm_' # nullptr /\ e \in table'[imm_']) \/ e \in sst'
<1>1. ASSUME NEW m \in Files, NEW e, e[1] <= L PROVE e \in table'[m] <=> e \in table[m]
  <2>1. /\ table[m] \subseteq table'[m]
        /\ \A f \in table'[m] : f \in table[m] \/ (f[1] \in Nat /\ L < f[1])
    BY TablesGrow
  <2>2. ~(e[1] \in Nat /\ L < e[1])
    BY <1>1
  <2> QED
    BY <2>1, <2>2
<1>2. mem_' \in Files /\ imm_' \in Files \cup {nullptr}
  <2>1. IInv'
    BY NextIInv
  <2> QED
    BY <2>1 DEF IInv, MInv, TableTypes
<1>3. ASSUME NEW e, e[1] <= L PROVE InNew(e) <=> InOld(e)
  <2>1. CASE UNCHANGED <<mem_, imm_, sst>>
    BY <1>1, <1>3, <2>1
  <2>2. ASSUME NEW w \in Writers, SwitchMemTable(w) PROVE InNew(e) <=> InOld(e)
    <3>1. /\ mem_' = next_file_number_ /\ imm_' = mem_ /\ imm_ = nullptr /\ UNCHANGED <<table, sst>>
      BY <2>2 DEF SwitchMemTable, Switches, MustWait, verVars
    <3>2. table[mem_'] = {}
      BY <1>2, <3>1 DEF LInv, Ordered
    <3> QED
      BY <3>1, <3>2
  <2>3. CASE Installed
    <3>1. /\ imm_' = nullptr /\ imm_ # nullptr /\ sst' = sst \cup bg.edit /\ UNCHANGED <<table, mem_>>
          /\ bg.edit = table[imm_]
      BY <2>3 DEF Installed, ClientVars, IInv, MInv, Flushing, DInv, Compacting
    <3> QED
      BY <3>1
  <2>4. CASE ~Installed /\ ~\E w \in Writers : SwitchMemTable(w)
    <3>1. UNCHANGED <<mem_, imm_, sst>>
      <4>1. ASSUME NEW w \in Writers, StartWrite(w) \/ SpuriousWakeup(w) \/ WriterStep(w)
            PROVE  UNCHANGED <<mem_, imm_, sst>>
        BY <2>4, <4>1 DEF WriterStep, StartWrite, Write, SpuriousWakeup, Wakeup, RoomError, RoomDelay,
           RoomFound, RoomWait, SwitchFails, RoomRelock, BuildGroup, SkipGroup, AddRecord, Sync,
           InsertInto, Relock, Finish, PopAndReturn, RoomVars, BaseVars, memVars, verVars
      <4>2. ASSUME NEW r \in Readers, Get(r) \/ ReaderStep(r) PROVE UNCHANGED <<mem_, imm_, sst>>
        BY <4>2 DEF Get, ReaderStep, GetFromMem, GetFromImm, GetFromVersion, Lookup, GetReturns, ReadVars
      <4>3. CASE BackgroundStep \/ ShutDown \/ Deleted \/ UNCHANGED vars
        BY <2>4, <4>3 DEF BackgroundStep, BackgroundCall, TrivialMove, WorkCompactsMemtable,
           DoCompactionWork, Build, Built, BuildFailed, InstallFailed, EndCall,
           ShutDown, Deleted, vars, ClientVars, memVars, verVars
      <4> QED
        BY <4>1, <4>2, <4>3 DEF Next
    <3> QED
      BY <2>1, <3>1
  <2> QED
    BY <2>2, <2>3, <2>4
<1>4. \A e : e \in Live <=> InOld(e)
  BY InLive
<1>5. \A e : e \in Live' <=> InNew(e)
  BY DEF Live
<1>6. Visible(Live, L)' = Visible(Live, L)
  <2>1. \A e : e \in Visible(Live, L)' <=> e \in Visible(Live, L)
    <3> HIDE DEF InOld, InNew
    <3> QED
      BY <1>3, <1>4, <1>5 DEF Visible
  <2> QED
    BY <2>1
<1> QED
  BY <1>6 DEF Current, Newest

\* The store of the last sequence number makes the write the current value,
\* if it was successful.
LEMMA RelockCurrent ==
  ASSUME AllInv, NEW w \in Writers, Relock(w)
  PROVE  /\ wr[w].s = "OK" => Current' = {wr[w].batch}
         /\ wr[w].s # "OK" => Current' = Current
<1> USE OrderTypes DEF AllInv
<1> DEFINE L == last_sequence_
<1>1. wpc[w] = "relock" /\ Len(wr[w].group) = 1 /\ wr[w].base = L
  BY DEF Relock, LInv, Grouped, Alone, Numbering, IInv, QInv, Counted
<1>2. L' = L + 1 /\ UNCHANGED <<table, mem_, imm_, sst>>
  BY <1>1 DEF Relock, memVars, verVars
<1>3. Live' = Live
  BY <1>2 DEF Live
<1>4. \A e \in Live : e[1] \in Nat
  BY InLive
<1>5. First(w)[1] = L + 1 /\ First(w)[2] = wr[w].batch
  BY <1>1 DEF First
<1>6. ASSUME NEW e \in Live PROVE e[1] <= L \/ (e = First(w) /\ wr[w].s = "OK")
  <2>1. \A v \in Writers : wpc[v] = "relock" => v = w
    BY <1>1 DEF IInv, QInv, FrontOnly, Working
  <2>2. \A m \in Files : \A f \in table[m] : f[1] <= L \/ (f = First(w) /\ wr[w].s = "OK")
    BY <2>1 DEF LInv, Placed
  <2>3. \A f \in sst : f[1] <= L
    BY DEF LInv, Placed
  <2> QED
    BY <1>6, <2>2, <2>3, InLive
<1>7. CASE wr[w].s = "OK"
  <2>1. First(w) \in Live
    <3>1. wr[w].batch # nullptr
      BY <1>1 DEF DInv, Progress, Written, Numbering
    <3>2. First(w) \in table[mem_]
      BY <1>1, <1>7, <3>1 DEF DInv, Progress, Written
    <3> QED
      BY <3>2, InLive
  <2>2. \A e \in Live : e[1] <= L + 1
    BY <1>4, <1>5, <1>6
  <2>3. Visible(Live, L + 1) = Live
    BY <2>2 DEF Visible
  <2>4. \A e \in Live : e # First(w) => e[1] < L + 1
    BY <1>4, <1>6
  <2>5. {f \in Live : \A g \in Live : g[1] <= f[1]} = {First(w)}
    <3>1. \A g \in Live : g[1] <= First(w)[1]
      BY <1>5, <2>2
    <3>2. ASSUME NEW f \in Live, f # First(w) PROVE ~\A g \in Live : g[1] <= f[1]
      BY <1>4, <1>5, <2>1, <2>4, <3>2
    <3> QED
      BY <2>1, <3>1, <3>2
  <2>6. Newest(Live, L + 1) = {First(w)[2]}
    BY <2>3, <2>5 DEF Newest
  <2> QED
    BY <1>2, <1>3, <1>5, <1>7, <2>6 DEF Current
<1>8. CASE wr[w].s # "OK"
  <2>1. Visible(Live, L + 1) = Visible(Live, L)
    BY <1>4, <1>6, <1>8 DEF Visible
  <2>2. Newest(Live, L + 1) = Newest(Live, L)
    BY <2>1, NewestOfVisible
  <2> QED
    BY <1>2, <1>3, <1>8, <2>2 DEF Current
<1> QED
  BY <1>7, <1>8

-----------------------------------------------------------------------------
(* Steps of Write are steps of KVStore *)

\* What a batch is to KVStore, now and after a step.
LEMMA InCalled ==
  /\ \A b : b \in Called <=> b # nullptr /\ \E w \in Writers : wpc[w] # "idle" /\ wr[w].batch = b
  /\ \A b : b \in Called' <=> b # nullptr /\ \E w \in Writers : wpc'[w] # "idle" /\ wr'[w].batch = b
<1>1. \A b : b \in Called <=> b # nullptr /\ \E w \in Writers : wpc[w] # "idle" /\ wr[w].batch = b
  BY DEF Called
<1>2. \A b : b \in Called' <=> b # nullptr /\ \E w \in Writers : wpc'[w] # "idle" /\ wr'[w].batch = b
  BY DEF Called, nullptr
<1> QED
  BY <1>1, <1>2

LEMMA InEffective ==
  /\ \A b : b \in Effective <=> \E w \in Writers : InEffect(w) /\ wr[w].batch = b
  /\ \A b : b \in Effective' <=> \E w \in Writers : InEffect(w)' /\ wr'[w].batch = b
<1>1. \A b : b \in Effective <=> \E w \in Writers : InEffect(w) /\ wr[w].batch = b
  BY DEF Effective, InEffect
<1>2. \A b : b \in Effective' <=> \E w \in Writers : InEffect(w)' /\ wr'[w].batch = b
  BY DEF Effective, InEffect
<1> QED
  BY <1>1, <1>2

\* The steps of the other threads do not disturb a Get.
LEMMA ReadsKept ==
  ASSUME AllInv, [Next]_vars, UNCHANGED <<rpc, rd>>
  PROVE  UNCHANGED Reads
<1>1. \A r \in Readers : rpc[r] # "idle" =>
        Newest(Searched(r), rd[r].snapshot)' = Newest(Searched(r), rd[r].snapshot)
  BY SnapshotStep DEF AllInv, Newest
<1>2. Views' = Views
  BY <1>1 DEF Views
<1> QED
  BY <1>2 DEF Reads, GetState, Values

LEMMA StartStep ==
  ASSUME ~StubOk, AllInv, NEW w \in Writers, StartWrite(w)
  PROVE  [KV!Next]_(KV!kvVars)
<1>0. [Next]_vars /\ wpc \in [Writers -> WriterLabels] /\ wr \in [Writers -> WriterRecords]
      /\ calls \in Nat /\ MaxWrites \in Nat /\ calls < MaxWrites
  <2>1. calls \in 0 .. MaxWrites /\ MaxWrites \in Nat
    BY BoundAssumption DEF AllInv, IInv, QInv, WriterTypes
  <2> QED
    BY <2>1 DEF Next, AllInv, IInv, QInv, WriterTypes, StartWrite
<1>1. PICK b \in {nullptr, calls + 1}, sync \in BOOLEAN : Write(w, b, sync)
  BY DEF StartWrite
<1>2. /\ wpc[w] = "idle" /\ wpc'[w] \in {"wait", "makeroom"} /\ wr'[w].batch = b
      /\ \A v \in Writers : v # w => wr'[v] = wr[v] /\ wpc'[v] = wpc[v]
      /\ UNCHANGED <<last_sequence_, history, rpc, rd>>
  BY <1>0, <1>1 DEF Write, Goto, NewWriter, RoomVars, BaseVars, rVars
<1>3. Current' = Current
  BY <1>0, <1>2, CurrentKept
<1>4. UNCHANGED Reads
  BY <1>0, <1>2, ReadsKept
<1>5. ~InEffect(w) /\ ~InEffect(w)' /\ \A v \in Writers : v # w => (InEffect(v)' <=> InEffect(v))
  <2>1. ~InEffect(w) /\ ~InEffect(w)'
    BY <1>2 DEF InEffect
  <2>2. ASSUME NEW v \in Writers, v # w PROVE InEffect(v)' <=> InEffect(v)
    <3>1. wr'[v] = wr[v] /\ wpc'[v] = wpc[v]
      BY <1>2, <2>2
    <3> QED
      BY <3>1 DEF InEffect, ok
  <2> QED
    BY <2>1, <2>2
<1>6. wr[w].batch = nullptr
  BY <1>2 DEF AllInv, LInv, Grouped, Alone
<1>7. Effective' = Effective
  <2>1. ASSUME NEW c \in Effective' PROVE c \in Effective
    <3>1. PICK v \in Writers : InEffect(v)' /\ wr'[v].batch = c
      BY InEffective
    <3> QED
      BY <1>2, <1>5, <3>1, InEffective
  <2>2. ASSUME NEW c \in Effective PROVE c \in Effective'
    <3>1. PICK v \in Writers : InEffect(v) /\ wr[v].batch = c
      BY InEffective
    <3> QED
      BY <1>2, <1>5, <3>1, InEffective
  <2> QED
    BY <2>1, <2>2
<1>8. CASE b = nullptr
  <2>1. Called' = Called
    <3>1. ASSUME NEW c PROVE c \in Called' <=> c \in Called
      BY <1>2, <1>8, InCalled
    <3> QED
      BY <3>1
  <2> QED
    BY <1>2, <1>3, <1>4, <1>7, <2>1, Stutter DEF Writes, history
<1>9. CASE b # nullptr
  <2>1. b = calls + 1 /\ b \in Batches
    BY <1>0, <1>1, <1>9 DEF Batches
  <2>2. Called' = Called \cup {b}
    BY <1>2, <1>6, <1>9, InCalled
  <2>3. b \notin Called /\ b \notin Effective
    <3>1. \A v \in Writers : wr[v].batch # b
      BY <1>0, <2>1 DEF AllInv, LInv, Named
    <3> QED
      BY <3>1, InCalled, InEffective
  <2>4. b \notin {a[1] : a \in acked} /\ b \notin failed
    BY <1>0, <2>1 DEF AllInv, LInv, Named
  <2>5. Called' \ Effective' = (Called \ Effective) \cup {b}
    BY <1>7, <2>2, <2>3
  <2>6. KV!CallWrite(b)
    BY <1>2, <1>3, <1>4, <1>7, <2>3, <2>4, <2>5
       DEF KV!CallWrite, KV!reads, Current, Reads, GetState, Views, Values, history
  <2> QED
    BY <2>1, <2>6 DEF KV!Next
<1> QED
  BY <1>8, <1>9

\* Writers do nothing to a Get.
LEMMA WritersDoNotRead ==
  ASSUME NEW w \in Writers, SpuriousWakeup(w) \/ WriterStep(w)
  PROVE  UNCHANGED <<rpc, rd>>
BY DEF WriterStep, SpuriousWakeup, Wakeup, RoomError, RoomDelay,
   RoomFound, RoomWait, SwitchFails, SwitchMemTable, RoomRelock, BuildGroup, SkipGroup,
   AddRecord, Sync, InsertInto, Relock, Finish, PopAndReturn, RoomVars, BaseVars, rVars

\* Only Relock stores the last sequence number.
LEMMA SequenceKept ==
  ASSUME NEW w \in Writers, SpuriousWakeup(w) \/ WriterStep(w), ~Relock(w)
  PROVE  UNCHANGED last_sequence_
BY DEF WriterStep, SpuriousWakeup, Wakeup, RoomError, RoomDelay,
   RoomFound, RoomWait, SwitchFails, SwitchMemTable, RoomRelock, BuildGroup, SkipGroup,
   AddRecord, Sync, InsertInto, Finish, PopAndReturn, RoomVars, BaseVars

\* What has no effect on what KVStore sees of the writes.
LEMMA QuietWriter ==
  ASSUME ~StubOk, AllInv, NEW w \in Writers, SpuriousWakeup(w) \/ WriterStep(w), ~Finish(w),
         Relock(w) => wr[w].s # "OK"
  PROVE  UNCHANGED <<Called, Effective, acked, failed>>
<1>0. wpc \in [Writers -> WriterLabels] /\ wr \in [Writers -> WriterRecords]
  BY DEF AllInv, IInv, QInv, WriterTypes
<1>1. /\ UNCHANGED <<calls, history>>
      /\ \A v \in Writers : /\ wr'[v].batch = wr[v].batch
                            /\ wpc'[v] = "idle" <=> wpc[v] = "idle"
      /\ ~Relock(w) /\ ~SkipGroup(w) => wpc'[w] # "finish"
  BY MiddleStep DEF AllInv, LInv
<1>2. ~InEffect(w)
  <2>1. wpc[w] # "finish"
    BY DEF WriterStep, SpuriousWakeup, Wakeup, RoomError, RoomDelay, RoomFound, RoomWait,
       SwitchFails, SwitchMemTable, Switches, MakingRoom, RoomRelock, BuildGroup, SkipGroup,
       AddRecord, Sync, InsertInto, Relock
  <2> QED
    BY <2>1 DEF InEffect
<1>3. ~InEffect(w)'
  <2>1. CASE Relock(w)
    <3>1. wr' = wr /\ wr[w].s # "OK"
      BY <2>1 DEF Relock
    <3> QED
      BY <3>1 DEF InEffect, ok
  <2>2. CASE SkipGroup(w)
    <3>1. wr' = wr /\ wr[w].group = <<>>
      BY <2>2 DEF SkipGroup, AllInv, LInv, Grouped, Alone, Numbering
    <3> QED
      BY <3>1 DEF InEffect
  <2>3. CASE ~Relock(w) /\ ~SkipGroup(w)
    BY <1>1, <2>3 DEF InEffect
  <2> QED
    BY <2>1, <2>2, <2>3
<1>4. ASSUME NEW v \in Writers, v # w PROVE InEffect(v)' <=> InEffect(v)
  <2>1. /\ wr'[v] = wr[v]
        /\ wpc'[v] = wpc[v] \/ (wpc[v] = "wait" /\ wpc'[v] = "woken")
             \/ (wpc[v] = "bgwait" /\ wpc'[v] = "bgwoken")
    BY <1>4, OtherWriters DEF AllInv
  <2> QED
    BY <2>1 DEF InEffect, ok
<1> QED
  BY <1>1, <1>2, <1>3, <1>4, CallsKept DEF history

LEMMA WriterStutters ==
  ASSUME ~StubOk, AllInv, NEW w \in Writers, SpuriousWakeup(w) \/ WriterStep(w), ~Finish(w),
         Relock(w) => wr[w].s # "OK"
  PROVE  UNCHANGED KV!kvVars
<1>0. [Next]_vars
  BY DEF Next
<1>1. Current' = Current
  BY <1>0, SequenceKept, CurrentKept, RelockCurrent
<1> QED
  BY <1>0, <1>1, QuietWriter, WritersDoNotRead, ReadsKept, Stutter DEF Writes

\* The store of the last sequence number is the moment when a write takes
\* effect.
LEMMA EffectStep ==
  ASSUME ~StubOk, AllInv, NEW w \in Writers, Relock(w), wr[w].s = "OK"
  PROVE  [KV!Next]_(KV!kvVars)
<1> DEFINE b == wr[w].batch
<1>0. [Next]_vars /\ wpc \in [Writers -> WriterLabels] /\ wr \in [Writers -> WriterRecords]
  BY DEF Next, WriterStep, AllInv, IInv, QInv, WriterTypes
<1>1. /\ wpc[w] = "relock" /\ wpc'[w] = "finish" /\ wr' = wr /\ UNCHANGED history
      /\ Len(wr[w].group) = 1 /\ b # nullptr
  BY <1>0 DEF Relock, Goto, SignalAll, AllInv, LInv, Grouped, Alone, Numbering, DInv, Progress, Written
<1>2. Current' = {b}
  BY RelockCurrent
<1>3. UNCHANGED Reads
  BY <1>0, WritersDoNotRead, ReadsKept DEF WriterStep
<1>4. ~InEffect(w) /\ InEffect(w)'
  <2>1. ASSUME wr[w].group = <<>> PROVE FALSE
    <3>1. Len(wr[w].group) = 0
      BY <2>1
    <3> QED
      BY <1>1, <3>1
  <2> QED
    BY <1>1, <2>1 DEF InEffect, ok
<1>5. ASSUME NEW v \in Writers, v # w
      PROVE  (InEffect(v)' <=> InEffect(v)) /\ (wpc'[v] = "idle" <=> wpc[v] = "idle")
  <2>1. wpc'[v] = wpc[v] \/ (wpc[v] = "bgwait" /\ wpc'[v] = "bgwoken")
    BY <1>0, <1>5 DEF Relock, Goto, SignalAll
  <2> QED
    BY <1>1, <2>1 DEF InEffect, ok
<1>6. Called' = Called
  <2>1. ASSUME NEW c PROVE c \in Called' <=> c \in Called
    BY <1>1, <1>5, InCalled
  <2> QED
    BY <2>1
<1>7. Effective' = Effective \cup {b}
  <2>1. ASSUME NEW c \in Effective' PROVE c \in Effective \cup {b}
    <3>1. PICK v \in Writers : InEffect(v)' /\ wr'[v].batch = c
      BY InEffective
    <3> QED
      BY <1>1, <1>5, <3>1, InEffective
  <2>2. ASSUME NEW c \in Effective PROVE c \in Effective'
    <3>1. PICK v \in Writers : InEffect(v) /\ wr[v].batch = c
      BY InEffective
    <3> QED
      BY <1>1, <1>4, <1>5, <3>1, InEffective
  <2>3. b \in Effective'
    BY <1>1, <1>4, InEffective
  <2> QED
    BY <2>1, <2>2, <2>3
<1>8. b \in Called \ Effective
  <2>1. b \in Called
    BY <1>1, InCalled
  <2>2. b \notin Effective
    BY <1>1, <1>4, InEffective DEF AllInv, LInv, Named
  <2> QED
    BY <2>1, <2>2
<1>9. b \in Batches
  <2>1. wr[w].batch \in Batches \cup {nullptr}
    BY <1>0 DEF WriterRecords
  <2> QED
    BY <1>1, <2>1
<1>10. PICK c \in Batches : c = b
  BY <1>9
<1>11. KV!TakeEffect(c)
  <2> HIDE DEF b
  <2>1. Called' \ Effective' = (Called \ Effective) \ {b}
    BY <1>6, <1>7
  <2> QED
    BY <1>1, <1>2, <1>3, <1>7, <1>8, <1>10, <2>1
       DEF KV!TakeEffect, KV!reads, Current, Reads, GetState, Views, Values, history
<1> QED
  BY <1>11 DEF KV!Next

\* Write returns.
LEMMA ReturnStep ==
  ASSUME ~StubOk, AllInv, NEW w \in Writers, Finish(w)
  PROVE  [KV!Next]_(KV!kvVars)
<1> DEFINE b == wr[w].batch
<1>0. /\ [Next]_vars /\ wpc \in [Writers -> WriterLabels] /\ wr \in [Writers -> WriterRecords]
      /\ acked \subseteq Batches \X BOOLEAN
  BY DEF Next, WriterStep, AllInv, IInv, QInv, MInv, WriterTypes, HistoryTypes
<1>1. /\ wpc[w] = "finish" /\ wpc'[w] = "idle" /\ wr'[w].batch = nullptr
      /\ Answer(w, wr[w].s)
      /\ \A v \in Writers : v # w => wr'[v] = wr[v] /\
           (wpc'[v] = wpc[v] \/ (wpc[v] = "wait" /\ wpc'[v] = "woken"))
  BY FinishBatch DEF AllInv, NoWriter, NewWriter
<1>2. Current' = Current
  BY <1>0, SequenceKept, CurrentKept DEF WriterStep, Finish, PopAndReturn, Relock
<1>3. UNCHANGED Reads
  BY <1>0, WritersDoNotRead, ReadsKept DEF WriterStep
<1>4. ~InEffect(w)' /\ (InEffect(w) <=> b # nullptr /\ wr[w].s = "OK")
  BY <1>1 DEF InEffect, ok, AllInv, LInv, Grouped, Alone
<1>5. ASSUME NEW v \in Writers, v # w
      PROVE  /\ InEffect(v)' <=> InEffect(v)
             /\ wpc'[v] = "idle" <=> wpc[v] = "idle"
             /\ wr'[v].batch = wr[v].batch
             /\ b # nullptr => wr[v].batch # b
  <2>1. InEffect(v)' <=> InEffect(v)
    <3>1. /\ wr'[v] = wr[v]
          /\ wpc'[v] = wpc[v] \/ (wpc[v] = "wait" /\ wpc'[v] = "woken")
      BY <1>1, <1>5
    <3> QED
      BY <3>1 DEF InEffect, ok
  <2> QED
    BY <1>1, <1>5, <2>1 DEF AllInv, LInv, Named
<1>6. Called' = Called \ {b}
  <2>1. ASSUME NEW c \in Called' PROVE c \in Called \ {b}
    BY <1>1, <1>5, InCalled
  <2>2. ASSUME NEW c \in Called, c # b PROVE c \in Called'
    BY <1>1, <1>5, <2>2, InCalled
  <2> QED
    BY <2>1, <2>2
<1>7. Effective' = Effective \ {b}
  <2>1. ASSUME NEW c \in Effective' PROVE c \in Effective \ {b}
    <3>1. PICK v \in Writers : InEffect(v)' /\ wr'[v].batch = c
      BY InEffective
    <3>2. v # w /\ InEffect(v) /\ wr[v].batch = c
      BY <1>4, <1>5, <3>1
    <3>3. c # nullptr
      <4>1. wr[v].group # <<>> /\ wpc[v] = "finish"
        BY <3>2 DEF InEffect
      <4> QED
        BY <3>2, <4>1 DEF AllInv, LInv, Grouped, Alone
    <3> QED
      BY <1>5, <3>2, <3>3, InEffective
  <2>2. ASSUME NEW c \in Effective, c # b PROVE c \in Effective'
    <3>1. PICK v \in Writers : InEffect(v) /\ wr[v].batch = c
      BY InEffective
    <3>2. v # w
      BY <2>2, <3>1
    <3> QED
      BY <1>1, <1>5, <3>1, <3>2, InEffective
  <2> QED
    BY <2>1, <2>2
<1>8. b # nullptr => /\ b \in Batches /\ b \in Called
                     /\ b \in Effective <=> wr[w].s = "OK"
  <2>1. wr[w].batch \in Batches \cup {nullptr}
    BY <1>0 DEF WriterRecords
  <2>2. ASSUME b # nullptr, b \in Effective PROVE wr[w].s = "OK"
    <3>1. PICK v \in Writers : InEffect(v) /\ wr[v].batch = b
      BY <2>2, InEffective
    <3>2. v = w
      BY <1>5, <2>2, <3>1
    <3> QED
      BY <1>4, <3>1, <3>2
  <2>3. ASSUME b # nullptr, wr[w].s = "OK" PROVE b \in Effective
    BY <1>4, <2>3, InEffective
  <2>4. b # nullptr => b \in Called
    BY <1>1, InCalled
  <2> QED
    BY <2>1, <2>2, <2>3, <2>4
<1>9. CASE b = nullptr
  <2>1. nullptr \notin Called /\ nullptr \notin Effective
    <3>1. nullptr \notin Called
      BY InCalled
    <3>2. ASSUME nullptr \in Effective PROVE FALSE
      <4>1. PICK v \in Writers : InEffect(v) /\ wr[v].batch = nullptr
        BY <3>2, InEffective
      <4>2. wr[v].group # <<>> /\ wpc[v] = "finish"
        BY <4>1 DEF InEffect
      <4> QED
        BY <4>1, <4>2 DEF AllInv, LInv, Grouped, Alone
    <3> QED
      BY <3>1, <3>2
  <2>2. Called' = Called /\ Effective' = Effective
    <3> HIDE DEF b
    <3> QED
      BY <1>6, <1>7, <1>9, <2>1
  <2> QED
    BY <1>1, <1>2, <1>3, <1>9, <2>2, Stutter DEF Answer, Writes, history
<1>10. CASE b # nullptr /\ wr[w].s = "OK"
  <2>1. acked' = acked \cup {<<b, wr[w].sync>>} /\ UNCHANGED failed
    BY <1>1, <1>10 DEF Answer, ok
  <2>2. {a[1] : a \in acked'} = {a[1] : a \in acked} \cup {b}
    <3>1. ASSUME NEW a \in acked' PROVE a[1] \in {c[1] : c \in acked} \cup {b}
      BY <2>1
    <3>2. ASSUME NEW a \in acked PROVE a[1] \in {c[1] : c \in acked'}
      BY <2>1
    <3>3. b \in {c[1] : c \in acked'}
      <4>1. <<b, wr[w].sync>> \in acked' /\ <<b, wr[w].sync>>[1] = b
        BY <2>1
      <4> QED
        BY <4>1
    <3> QED
      BY <3>1, <3>2, <3>3
  <2>3. Called' \ Effective' = Called \ Effective
    <3> HIDE DEF b
    <3> QED
      BY <1>6, <1>7, <1>8, <1>10
  <2>4. PICK c \in Batches : c = b
    BY <1>8, <1>10
  <2>5. KV!ReturnOK(c)
    <3> HIDE DEF b
    <3> QED
      BY <1>2, <1>3, <1>7, <1>8, <1>10, <2>1, <2>2, <2>3, <2>4
         DEF KV!ReturnOK, KV!reads, Current, Reads, GetState, Views, Values
  <2> QED
    BY <2>5 DEF KV!Next
<1>11. CASE b # nullptr /\ wr[w].s # "OK"
  <2>1. failed' = failed \cup {b} /\ UNCHANGED acked
    BY <1>1, <1>11 DEF Answer, ok
  <2>2. Called' \ Effective' = (Called \ Effective) \ {b} /\ Effective' = Effective
    <3> HIDE DEF b
    <3> QED
      BY <1>6, <1>7, <1>8, <1>11
  <2>3. PICK c \in Batches : c = b
    BY <1>8, <1>11
  <2>4. KV!ReturnError(c)
    <3> HIDE DEF b
    <3> QED
      BY <1>2, <1>3, <1>8, <1>11, <2>1, <2>2, <2>3
         DEF KV!ReturnError, KV!reads, Current, Reads, GetState, Views, Values
  <2> QED
    BY <2>4 DEF KV!Next
<1> QED
  BY <1>9, <1>10, <1>11

-----------------------------------------------------------------------------
(* Steps of Get are steps of KVStore *)

LEMMA ReadersDoNotWrite ==
  ASSUME ~StubOk, AllInv, NEW r \in Readers, Get(r) \/ ReaderStep(r)
  PROVE  [Next]_vars /\ UNCHANGED Writes
<1>1. [Next]_vars
  BY DEF Next
<1>2. UNCHANGED <<wpc, wr, acked, failed, last_sequence_>>
  BY DEF Get, ReaderStep, GetFromMem, GetFromImm, GetFromVersion, Lookup, GetReturns,
     ReadVars, wVars, history
<1>3. Current' = Current
  BY <1>1, <1>2, CurrentKept
<1>4. Called' = Called /\ Effective' = Effective
  <2>1. Called' = Called
    BY <1>2 DEF Called
  <2>2. Effective' = Effective
    BY <1>2 DEF Effective, ok
  <2> QED
    BY <2>1, <2>2
<1> QED
  BY <1>1, <1>2, <1>3, <1>4 DEF Writes

\* A search in progress goes on to see the same.
LEMMA ViewKept ==
  ASSUME AllInv, [Next]_vars, NEW r \in Readers, rpc[r] # "idle", rpc'[r] # "idle"
  PROVE  Newest(Searched(r), rd[r].snapshot)' = Newest(Searched(r), rd[r].snapshot)
BY SnapshotStep DEF AllInv, Newest

\* What another reader sees of a step of r.
LEMMA OtherReaders ==
  ASSUME AllInv, NEW r \in Readers, Get(r) \/ ReaderStep(r), NEW q \in Readers, q # r
  PROVE  /\ rpc'[q] = rpc[q] /\ rd'[q] = rd[q]
         /\ GetState'[q] = GetState[q] /\ Views'[q] = Views[q] /\ Values'[q] = Values[q]
<1>0. [Next]_vars /\ rpc \in [Readers -> {"idle", "mem", "imm", "version", "end"}]
      /\ rd \in [Readers -> [snapshot : Nat, mem : Files \cup {nullptr}, imm : Files \cup {nullptr},
                             sst : SUBSET Entries, stats : BOOLEAN, value : SUBSET Batches]]
  BY DEF Next, AllInv, IInv, MInv, ReaderTypes
<1>1. rpc'[q] = rpc[q] /\ rd'[q] = rd[q]
  BY <1>0 DEF Get, ReaderStep, GetFromMem, GetFromImm, GetFromVersion, Lookup, GetReturns
<1>2. GetState'[q] = GetState[q] /\ Values'[q] = Values[q]
  BY <1>1 DEF GetState, Values
<1>3. Views'[q] = Views[q]
  <2>1. CASE rpc[q] = "idle"
    BY <1>1, <2>1 DEF Views
  <2>2. CASE rpc[q] # "idle"
    BY <1>0, <1>1, <2>2, ViewKept DEF Views
  <2> QED
    BY <2>1, <2>2
<1> QED
  BY <1>1, <1>2, <1>3

\* A Get is called: it will return what is current now.
LEMMA CallStep ==
  ASSUME ~StubOk, AllInv, NEW r \in Readers, Get(r)
  PROVE  KV!CallGet(r)
<1>0. UNCHANGED Writes
  BY ReadersDoNotWrite
<1>1. rpc \in [Readers -> {"idle", "mem", "imm", "version", "end"}] /\ rd = [q \in Readers |-> rd[q]]
  BY DEF AllInv, IInv, MInv, ReaderTypes
<1>2. /\ rpc[r] = "idle" /\ rpc'[r] = "mem"
      /\ rd'[r] = [snapshot |-> last_sequence_, mem |-> mem_, imm |-> imm_, sst |-> sst,
                   stats |-> FALSE, value |-> {}]
      /\ UNCHANGED table
  BY <1>1 DEF Get, ReadVars
<1>3. Searched(r)' = Live
  <2>1. Held(r)' = {mem_, imm_} \ {nullptr} /\ mem_ # nullptr
    BY <1>2, OrderTypes DEF Held, AllInv
  <2>2. \A e : e \in Searched(r)' <=> (\E m \in Held(r)' : e \in table[m]) \/ e \in sst
    BY <1>2 DEF Searched
  <2>3. \A e : e \in Searched(r)' <=> e \in Live
    BY <2>1, <2>2, InLive
  <2> QED
    BY <2>3
<1>4. Views'[r] = Current
  <2>1. Newest(Searched(r), rd[r].snapshot)' = Newest(Live, last_sequence_)
    BY <1>2, <1>3 DEF Newest, Visible
  <2> QED
    BY <1>2, <2>1 DEF Views, Current
<1>5. GetState[r] = "idle" /\ GetState'[r] = "open" /\ Values[r] = {} /\ Values'[r] = {}
  BY <1>2 DEF GetState, Values
<1>6. \A q \in Readers : q # r =>
        GetState'[q] = GetState[q] /\ Views'[q] = Views[q] /\ Values'[q] = Values[q]
  BY OtherReaders
<1>7. /\ GetState' = [GetState EXCEPT ![r] = "open"]
      /\ Views' = [Views EXCEPT ![r] = Current]
      /\ Values' = Values
  <2>1. GetState' = [GetState EXCEPT ![r] = "open"]
    BY <1>5, <1>6 DEF GetState
  <2>2. Views' = [Views EXCEPT ![r] = Current]
    <3>1. Views' = [q \in Readers |-> Views'[q]] /\ Views = [q \in Readers |-> Views[q]]
      BY DEF Views
    <3> QED
      BY <1>4, <1>6, <3>1
  <2>3. Values' = Values
    <3>1. Values' = [q \in Readers |-> Values'[q]] /\ Values = [q \in Readers |-> Values[q]]
      BY DEF Values
    <3> QED
      BY <1>5, <1>6, <3>1
  <2> QED
    BY <2>1, <2>2, <2>3
<1> QED
  BY <1>0, <1>5, <1>7 DEF KV!CallGet, KV!writes, Writes, GetState, Views, Values, Current

\* The first hit of a search is the newest entry that its snapshot can see.
LEMMA HitIsView ==
  ASSUME AllInv, NEW r \in Readers
  PROVE  LET Hit(E) == Newest(E, rd[r].snapshot) IN
         /\ rpc[r] = "mem" /\ Hit(table[rd[r].mem]) # {} =>
              Hit(table[rd[r].mem]) = Hit(Searched(r))
         /\ rpc[r] = "imm" /\ Hit(table[rd[r].imm]) # {} =>
              Hit(table[rd[r].imm]) = Hit(Searched(r))
         /\ rpc[r] = "version" => Hit(rd[r].sst) = Hit(Searched(r))
<1> DEFINE s == rd[r].snapshot
           Mem == table[rd[r].mem]
           Imm == IF rd[r].imm = nullptr THEN {} ELSE table[rd[r].imm]
           Sst == rd[r].sst
<1> SUFFICES ASSUME rpc[r] # "idle"
             PROVE  /\ rpc[r] = "mem" /\ Newest(Mem, s) # {} => Newest(Mem, s) = Newest(Searched(r), s)
                    /\ rpc[r] = "imm" /\ Newest(table[rd[r].imm], s) # {} =>
                         Newest(table[rd[r].imm], s) = Newest(Searched(r), s)
                    /\ rpc[r] = "version" => Newest(Sst, s) = Newest(Searched(r), s)
  OBVIOUS
<1>1. /\ Mem \subseteq Entries /\ Imm \subseteq Entries /\ Sst \subseteq Entries /\ s \in Nat
      /\ rd[r].mem \in Files /\ rd[r].imm \in Files \cup {nullptr}
      /\ Held(r) = IF rd[r].imm = nullptr THEN {rd[r].mem} ELSE {rd[r].mem, rd[r].imm}
  BY HeldTypes, OrderTypes DEF AllInv
<1>2. Searched(r) = Mem \cup (Imm \cup Sst)
  <2>1. \A e : e \in Searched(r) <=> (\E m \in Held(r) : e \in table[m]) \/ e \in Sst
    BY DEF Searched
  <2>2. \A e : e \in Searched(r) <=> e \in Mem \cup (Imm \cup Sst)
    BY <1>1, <2>1
  <2> QED
    BY <2>2
<1>3. Newer(Mem, Imm \cup Sst) /\ Newer(Imm, Sst)
  <2>1. /\ rd[r].imm < rd[r].mem
        /\ \A m \in Held(r) : Newer(table[m], Sst)
        /\ \A m, n \in Files : m < n => Newer(table[n], table[m])
    BY DEF AllInv, LInv, Ordered
  <2>2. Newer(Mem, Sst) /\ Newer(Imm, Sst)
    BY <1>1, <2>1 DEF Newer
  <2>3. Newer(Mem, Imm)
    BY <1>1, <2>1 DEF Newer
  <2> QED
    BY <2>2, <2>3 DEF Newer
<1>4. /\ rpc[r] \in {"imm", "version"} => Visible(Mem, s) = {}
      /\ rpc[r] = "version" => Visible(Imm, s) = {}
      /\ rpc[r] = "imm" => rd[r].imm # nullptr
  BY DEF AllInv, LInv, Misses, Visible, IInv, MInv, Reading
<1> HIDE DEF Mem, Imm, Sst, s
<1>5. CASE rpc[r] = "mem"
  <2>1. Newest(Mem, s) # {} => Newest(Mem \cup (Imm \cup Sst), s) = Newest(Mem, s)
    BY <1>1, <1>3, HitIsNewest
  <2> QED
    BY <1>2, <1>5, <2>1
<1>6. CASE rpc[r] = "imm"
  <2>1. Newest(Mem \cup (Imm \cup Sst), s) = Newest(Imm \cup Sst, s)
    BY <1>4, <1>6, MissDoesNotMatter
  <2>2. Newest(Imm, s) # {} => Newest(Imm \cup Sst, s) = Newest(Imm, s)
    BY <1>1, <1>3, HitIsNewest
  <2>3. Imm = table[rd[r].imm]
    BY <1>4, <1>6 DEF Imm
  <2> QED
    BY <1>2, <1>6, <2>1, <2>2, <2>3
<1>7. CASE rpc[r] = "version"
  <2>1. Newest(Mem \cup (Imm \cup Sst), s) = Newest(Imm \cup Sst, s)
    BY <1>4, <1>7, MissDoesNotMatter
  <2>2. Newest(Imm \cup Sst, s) = Newest(Sst, s)
    BY <1>4, <1>7, MissDoesNotMatter
  <2> QED
    BY <1>2, <1>7, <2>1, <2>2
<1> QED
  BY <1>5, <1>6, <1>7

\* Where a lookup leads, and what it found.
LEMMA LookupResult ==
  ASSUME AllInv, NEW r \in Readers, GetFromMem(r) \/ GetFromImm(r) \/ GetFromVersion(r)
  PROVE  /\ rpc[r] \in {"mem", "imm", "version"} /\ rpc'[r] \in {"imm", "version", "end"}
         /\ rpc'[r] = "end" => rd'[r].value = Newest(Searched(r), rd[r].snapshot)
<1>0. /\ rpc \in [Readers -> {"idle", "mem", "imm", "version", "end"}]
      /\ rd \in [Readers -> [snapshot : Nat, mem : Files \cup {nullptr}, imm : Files \cup {nullptr},
                             sst : SUBSET Entries, stats : BOOLEAN, value : SUBSET Batches]]
  BY DEF AllInv, IInv, MInv, ReaderTypes
<1>1. CASE GetFromMem(r)
  <2>1. /\ rpc[r] = "mem"
        /\ rd'[r].value = Newest(table[rd[r].mem], rd[r].snapshot)
        /\ IF rd'[r].value # {} THEN rpc'[r] = "end" ELSE rpc'[r] \in {"imm", "version"}
    BY <1>0, <1>1 DEF GetFromMem, Lookup
  <2> QED
    BY <2>1, HitIsView
<1>2. CASE GetFromImm(r)
  <2>1. /\ rpc[r] = "imm"
        /\ rd'[r].value = Newest(table[rd[r].imm], rd[r].snapshot)
        /\ IF rd'[r].value # {} THEN rpc'[r] = "end" ELSE rpc'[r] = "version"
    BY <1>0, <1>2 DEF GetFromImm, Lookup
  <2> QED
    BY <2>1, HitIsView
<1>3. CASE GetFromVersion(r)
  <2>1. /\ rpc[r] = "version" /\ rpc'[r] = "end"
        /\ rd'[r].value = Newest(rd[r].sst, rd[r].snapshot)
    BY <1>0, <1>3 DEF GetFromVersion, Lookup
  <2> QED
    BY <2>1, HitIsView
<1> QED
  BY <1>1, <1>2, <1>3

\* A lookup answers the Get, or changes nothing that KVStore sees.
LEMMA LookupStep ==
  ASSUME ~StubOk, AllInv, NEW r \in Readers, GetFromMem(r) \/ GetFromImm(r) \/ GetFromVersion(r)
  PROVE  KV!FindValue(r) \/ UNCHANGED KV!kvVars
<1>0. UNCHANGED Writes /\ [Next]_vars
  BY ReadersDoNotWrite DEF ReaderStep
<1>1. \A q \in Readers : q # r =>
        GetState'[q] = GetState[q] /\ Views'[q] = Views[q] /\ Values'[q] = Values[q]
  BY OtherReaders DEF ReaderStep
<1>2. /\ rpc[r] \in {"mem", "imm", "version"} /\ rpc'[r] \in {"imm", "version", "end"}
      /\ rpc'[r] = "end" => rd'[r].value = Newest(Searched(r), rd[r].snapshot)
  BY LookupResult
<1>3. Views'[r] = Views[r] /\ Views[r] = Newest(Searched(r), rd[r].snapshot)
  BY <1>0, <1>2, ViewKept DEF Views
<1>4. /\ GetState[r] = "open" /\ Values[r] = {}
      /\ GetState'[r] = IF rpc'[r] = "end" THEN "answered" ELSE "open"
      /\ Values'[r] = IF rpc'[r] = "end" THEN Views[r] ELSE {}
  BY <1>2, <1>3 DEF GetState, Values
<1>5. /\ GetState = [q \in Readers |-> GetState[q]] /\ GetState' = [q \in Readers |-> GetState'[q]]
      /\ Views = [q \in Readers |-> Views[q]] /\ Views' = [q \in Readers |-> Views'[q]]
      /\ Values = [q \in Readers |-> Values[q]] /\ Values' = [q \in Readers |-> Values'[q]]
  BY DEF GetState, Views, Values
<1>6. Views' = Views
  BY <1>1, <1>3, <1>5
<1>7. CASE rpc'[r] = "end"
  <2>1. GetState' = [GetState EXCEPT ![r] = "answered"] /\ Values' = [Values EXCEPT ![r] = Views[r]]
    BY <1>1, <1>4, <1>5, <1>7
  <2> QED
    BY <1>0, <1>4, <1>6, <2>1 DEF KV!FindValue, KV!writes, Writes, GetState, Views, Values, Current
<1>8. CASE rpc'[r] # "end"
  <2>1. GetState' = GetState /\ Values' = Values
    BY <1>1, <1>4, <1>5, <1>8
  <2> QED
    BY <1>0, <1>6, <2>1, Stutter DEF Reads
<1> QED
  BY <1>7, <1>8

LEMMA ReturnGetStep ==
  ASSUME ~StubOk, AllInv, NEW r \in Readers, GetReturns(r)
  PROVE  KV!ReturnGet(r)
<1>0. UNCHANGED Writes
  BY ReadersDoNotWrite DEF ReaderStep
<1>1. \A q \in Readers : q # r =>
        GetState'[q] = GetState[q] /\ Views'[q] = Views[q] /\ Values'[q] = Values[q]
  BY OtherReaders DEF ReaderStep
<1>2. rpc[r] = "end" /\ rpc'[r] = "idle"
  BY DEF GetReturns, AllInv, IInv, MInv, ReaderTypes
<1>3. /\ GetState[r] = "answered" /\ GetState'[r] = "idle"
      /\ Views'[r] = {} /\ Values'[r] = {}
  BY <1>2 DEF GetState, Views, Values
<1>4. /\ GetState = [q \in Readers |-> GetState[q]] /\ GetState' = [q \in Readers |-> GetState'[q]]
      /\ Views = [q \in Readers |-> Views[q]] /\ Views' = [q \in Readers |-> Views'[q]]
      /\ Values = [q \in Readers |-> Values[q]] /\ Values' = [q \in Readers |-> Values'[q]]
  BY DEF GetState, Views, Values
<1>5. /\ GetState' = [GetState EXCEPT ![r] = "idle"]
      /\ Views' = [Views EXCEPT ![r] = {}] /\ Values' = [Values EXCEPT ![r] = {}]
  BY <1>1, <1>3, <1>4
<1> QED
  BY <1>0, <1>3, <1>5 DEF KV!ReturnGet, KV!writes, Writes, GetState, Views, Values, Current

-----------------------------------------------------------------------------
(* DBImpl implements KVStore *)

\* The background thread and the deletion of the database are not seen.
LEMMA OthersStutter ==
  ASSUME ~StubOk, AllInv, [Next]_vars, BackgroundStep \/ ShutDown \/ Deleted \/ UNCHANGED vars
  PROVE  UNCHANGED KV!kvVars
<1>1. /\ UNCHANGED <<wr, last_sequence_, acked, failed, rpc, rd>>
      /\ wpc' = wpc \/ wpc' = SignalAll(wpc)
  BY DEF BackgroundStep, BackgroundCall, TrivialMove, WorkCompactsMemtable,
     DoCompactionWork, Build, Built, BuildFailed, Installed, InstallFailed, EndCall,
     SignalCaller, ShutDown, Deleted, vars, ClientVars, wVars, rVars, history
<1>2. wpc \in [Writers -> WriterLabels]
  BY DEF AllInv, IInv, QInv, WriterTypes
<1>3. ASSUME NEW v \in Writers
      PROVE  /\ wr'[v].batch = wr[v].batch /\ (wpc'[v] = "idle" <=> wpc[v] = "idle")
             /\ InEffect(v)' <=> InEffect(v)
  <2>1. wpc'[v] = wpc[v] \/ (wpc[v] = "bgwait" /\ wpc'[v] = "bgwoken")
    BY <1>1, <1>2 DEF SignalAll
  <2> QED
    BY <1>1, <2>1 DEF InEffect, ok
<1>4. Called' = Called /\ Effective' = Effective
  BY <1>3, CallsKept
<1> QED
  BY <1>1, <1>4, CurrentKept, ReadsKept, Stutter DEF Writes

LEMMA NextKV ==
  ASSUME ~StubOk, AllInv, [Next]_vars
  PROVE  [KV!Next]_(KV!kvVars)
<1>1. ASSUME NEW w \in Writers, StartWrite(w) \/ SpuriousWakeup(w) \/ WriterStep(w)
      PROVE  [KV!Next]_(KV!kvVars)
  BY <1>1, StartStep, WriterStutters, EffectStep, ReturnStep
<1>2. ASSUME NEW r \in Readers, Get(r) \/ ReaderStep(r)
      PROVE  [KV!Next]_(KV!kvVars)
  BY <1>2, CallStep, LookupStep, ReturnGetStep DEF ReaderStep, KV!Next
<1>3. CASE BackgroundStep \/ ShutDown \/ Deleted \/ UNCHANGED vars
  BY <1>3, OthersStutter
<1> QED
  BY <1>1, <1>2, <1>3 DEF Next

\* A new database is an empty store.
LEMMA InitKV == Init => KV!Init
<1> SUFFICES ASSUME Init PROVE KV!Init
  OBVIOUS
<1>1. Live = {}
  <2>1. mem_ \in Files /\ imm_ = nullptr /\ sst = {} /\ table = [m \in Files |-> {}]
    BY BoundAssumption DEF Init, Files
  <2> QED
    BY <2>1 DEF Live
<1>2. Newest(Live, last_sequence_) = {}
  BY <1>1 DEF Newest, Visible
<1>3. Called = {} /\ Effective = {}
  BY DEF Init, Called, Effective
<1>4. {a[1] : a \in acked} = {} /\ failed = {}
  BY DEF Init
<1>5. \A r \in Readers : rpc[r] = "idle"
  BY DEF Init
<1> QED
  BY <1>2, <1>3, <1>4, <1>5 DEF KV!Init

\* Reads and writes are linearizable: whatever writers, readers, the background
\* thread and failures do, Write and Get behave as if each took effect at one
\* moment between its call and its return, a Write when it stores
\* last_sequence (line 365) and a Get when it takes its snapshot.
THEOREM Linearizability ==
  ASSUME ~StubOk, MaxGroup = 1
  PROVE  Spec => Linearizable
<1>1. Init => AllInv
  BY LInvariance
<1>2. AllInv /\ [Next]_vars => AllInv'
  BY LInvariance
<1>3. AllInv /\ [Next]_vars => [KV!Next]_(KV!kvVars)
  BY NextKV
<1> QED
  BY <1>1, <1>2, <1>3, InitKV, PTL DEF Spec, Linearizable, KV!Spec

=============================================================================

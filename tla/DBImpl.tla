------------------------------- MODULE DBImpl -------------------------------
(***************************************************************************)
(* One open database: its write path, its read path and its background     *)
(* thread, interleaved at every point where the code releases mutex_ or    *)
(* works without it.                                                       *)
(***************************************************************************)
EXTENDS WritePath, ReadPath, Background

\* The state DB::Open leaves ("real impl"): file 1 is the new log, with an
\* empty memtable.  The LogAndApply that would record its number is commented
\* out, so log_number_ is still 0.  Open has locked mutex_ by then and returns
\* without unlocking it; this is the state of an Open that unlocks it, since
\* otherwise no call could begin.
Init ==
  /\ mutex_ = NoThread
  /\ writers_ = <<>>
  /\ wpc = [w \in Writers |-> "idle"]
  /\ wr = [w \in Writers |-> NoWriter]
  /\ mem_ = 1 /\ imm_ = nullptr
  /\ table = [m \in Files |-> {}]
  /\ refs = [m \in Files |-> IF m = 1 THEN 1 ELSE 0]
  /\ logfile_number_ = 1
  /\ log = [n \in Files |-> {}]
  /\ synced = [n \in Files |-> {}]
  /\ logs = {1}
  /\ next_file_number_ = 2
  /\ last_sequence_ = 0
  /\ log_number_ = 0
  /\ level0 = InitL0
  /\ file_to_compact_ = FALSE
  /\ sst = {}
  /\ bg_error_ = "OK"
  /\ background_compaction_scheduled_ = FALSE
  /\ shutting_down_ = FALSE
  /\ bpc = "off"
  /\ bg = NoCompaction
  /\ rpc = [r \in Readers |-> "idle"]
  /\ rd = [r \in Readers |-> NoRead]
  /\ calls = 0
  /\ faults = 0
  /\ acked = {}
  /\ failed = {}

\* The database is deleted (external): no client is in a call, and the
\* background thread is told.
ShutDown ==
  /\ ~shutting_down_
  /\ mutex_ = NoThread
  /\ \A w \in Writers : wpc[w] = "idle"
  /\ \A r \in Readers : rpc[r] = "idle"
  /\ shutting_down_' = TRUE
  /\ UNCHANGED <<mutex_, wVars, memVars, logVars, next_file_number_,
                 last_sequence_, verVars, bg_error_, bgVars, rVars, faults,
                 history>>

\* The deletion is complete once the background thread has stopped.
Deleted == shutting_down_ /\ bpc = "off" /\ UNCHANGED vars

Next ==
  \/ \E w \in Writers : StartWrite(w) \/ SpuriousWakeup(w) \/ WriterStep(w)
  \/ \E r \in Readers : Get(r) \/ ReaderStep(r)
  \/ BackgroundStep
  \/ ShutDown
  \/ Deleted

Spec == Init /\ [][Next]_vars

\* Every thread inside a call keeps running when it can, and the Env runs what
\* was scheduled.  Nothing obliges a client to call, and no fairness of the
\* mutex between threads is assumed.
FairSpec ==
  /\ Spec
  /\ \A w \in Writers : WF_vars(WriterStep(w))
  /\ \A r \in Readers : WF_vars(ReaderStep(r))
  /\ WF_vars(BackgroundStep)

-----------------------------------------------------------------------------
(* Properties *)

\* Where a writer may be in Write, and the values of its struct and locals.
WriterLabels ==
  {"idle", "wait", "woken", "makeroom", "sleep", "bgwait", "bgwoken", "group",
   "log", "sync", "insert", "relock", "finish"}
WriterRecords ==
  [batch : Batches \cup {nullptr}, sync : BOOLEAN, done : BOOLEAN,
   status : Status, force : BOOLEAN, allow_delay : BOOLEAN, s : Status,
   group : Seq(Batches), base : Nat, inserted : Nat, sync_error : BOOLEAN]

WriterTypes ==
  /\ mutex_ \in Writers \cup {Background, NoThread}
  /\ writers_ \in Seq(Writers)
  /\ wpc \in [Writers -> WriterLabels]
  /\ wr \in [Writers -> WriterRecords]
  /\ last_sequence_ \in Nat
  /\ calls \in 0 .. MaxWrites /\ faults \in 0 .. MaxFaults

TableTypes ==
  /\ mem_ \in Files /\ imm_ \in Files \cup {nullptr}
  /\ table \in [Files -> SUBSET Entries]
  /\ refs \in [Files -> Nat]
  /\ logfile_number_ \in Files
  /\ log \in [Files -> SUBSET Entries] /\ synced \in [Files -> SUBSET Entries]
  /\ logs \subseteq Files
  /\ next_file_number_ \in 1 .. (MaxFileNumber + 1)
  /\ log_number_ \in Files \cup {0}
  /\ level0 \in Nat /\ file_to_compact_ \in BOOLEAN
  /\ sst \subseteq Entries

BackgroundTypes ==
  /\ bg_error_ \in Status
  /\ background_compaction_scheduled_ \in BOOLEAN /\ shutting_down_ \in BOOLEAN
  /\ bpc \in {"off", "queued", "move", "work", "build", "built", "manifest", "end"}
  /\ bg \in [s : Status, file_size : Nat, edit : SUBSET Entries,
             log : Files \cup {0}, caller : {"end", "work"}]

ReaderTypes ==
  /\ rpc \in [Readers -> {"idle", "mem", "imm", "version", "end"}]
  /\ rd \in [Readers ->
       [snapshot : Nat, mem : Files \cup {nullptr}, imm : Files \cup {nullptr},
        sst : SUBSET Entries, stats : BOOLEAN, value : SUBSET Batches]]

HistoryTypes == acked \subseteq Batches \X BOOLEAN /\ failed \subseteq Batches

\* Type invariant.  In particular no reference count becomes negative
\* (MemTable::Unref asserts it).
TypeOK == WriterTypes /\ TableTypes /\ BackgroundTypes /\ ReaderTypes /\ HistoryTypes

\* The writers that work on log_ and mem_, most of the time without the mutex:
\* all of Write behind its wait loop.
Working(w) == wpc[w] \notin {"idle", "wait", "woken"}

\* In every call after Open, mutex_ is held exactly by a thread that is between
\* its Lock and its Unlock in Write or BackgroundCall, on the error paths and
\* across the releases in MakeRoomForWrite (lines 278-293) and CompactMemtable too;
\* who has returned from Write or BackgroundCall does not hold it.
MutexExact ==
  /\ \A w \in Writers : mutex_ = w <=> wpc[w] \in {"makeroom", "group", "finish"}
  /\ mutex_ = Background <=> bpc = "end"

\* log_ and mem_ are not protected by the mutex but by the queue: a writer
\* that has passed the wait loop is at the front of writers_ until it pops
\* itself, so there is never a second one (lines 330, 260, 344-360).
FrontOnly ==
  \A w \in Writers : Working(w) => writers_ # <<>> /\ w = Head(writers_)

\* No hand-over is lost: the writer at the front of writers_ is never left
\* waiting on its cv without a signal under way (lines 376-380).
NoLostWakeup == writers_ # <<>> => wpc[Head(writers_)] # "wait"

\* A sequence number names one batch for ever, in every log and memtable, also
\* when a failed AddRecord may have left its record (lines 342-365).
AllEntries == (UNION {log[n] \cup table[n] : n \in Files}) \cup sst
SequenceUnique == \A e, f \in AllEntries : e[1] = f[1] => e = f

\* refs_ of every memtable is the number of its holders: DBImpl, for mem_ and
\* imm_, and the readers that searched or will search it.  So no memtable is
\* deleted under a reader (lines 397-400, 422-423), and none leaks.
Holders(m) == Cardinality({r \in Readers : m \in Held(r)})
RefsExact ==
  \A m \in Files :
    refs[m] = Holders(m) + (IF m \in {mem_, imm_} THEN 1 ELSE 0)

\* What is inserted into a memtable is in the log file of the same number,
\* although the group is logged and inserted in separate steps without the
\* mutex and the two are switched together (lines 308-315, 346-358).
LoggedBeforeApplied == \A m \in Files : table[m] \subseteq log[m]

\* A write that was acknowledged is in a table, or in a log that recovery will
\* read; one acknowledged with options.sync is in the part that was synced.
\* RemoveObsoleteFiles and the log number in the manifest never disown it.
Recoverable(n) == n \in logs /\ n >= log_number_
AckedDurable ==
  \A a \in acked :
    \/ \E e \in sst : e[2] = a[1]
    \/ \E n \in Files : Recoverable(n) /\
         \E e \in IF a[2] THEN synced[n] ELSE log[n] : e[2] = a[1]

\* The log number that CompactMemtable put into its edit is still the number
\* of the current log when the version is installed, after the mutex was
\* released, and satisfies what LogAndApply asserts of it (lines 306-307).
InstallsCurrentLog ==
  bpc = "manifest" =>
    bg.log = logfile_number_ /\ log_number_ <= bg.log /\ bg.log < next_file_number_

\* While a reader searches without the mutex, writers, memtable switches and
\* flushes change nothing that its snapshot can see in the tables it holds.
Searched(r) == (UNION {table[m] : m \in Held(r)}) \cup rd[r].sst
SnapshotStable ==
  [][\A r \in Readers : rpc[r] # "idle" /\ rpc'[r] # "idle" =>
       Visible(Searched(r), rd[r].snapshot)' = Visible(Searched(r), rd[r].snapshot)]_vars

Quiet == \A r \in Readers : rpc[r] = "idle"

\* Every Write returns, whoever else writes, once no more Gets are called: no
\* writer waits for a signal that nobody sends (lines 330, 376-380).
WritesReturn ==
  <>[]Quiet => \A w \in Writers : wpc[w] # "idle" ~> wpc[w] = "idle"

\* A compaction that leaves too many files in level 0 is followed by another
\* (lines 194-196): once compactions have begun they go on until level 0 is
\* below the trigger.
CompactionContinues ==
  <>[]Quiet => (bpc # "off" /\ level0 >= kL0_CompactionTrigger
                  ~> level0 < kL0_CompactionTrigger \/ shutting_down_)

-----------------------------------------------------------------------------
(* DBImpl implements KVStore *)

Live == table[mem_] \cup (IF imm_ = nullptr THEN {} ELSE table[imm_]) \cup sst

Called == {wr[w].batch : w \in {v \in Writers : wpc[v] # "idle"}} \ {nullptr}
Effective ==
  {wr[w].batch : w \in {v \in Writers :
     wpc[v] = "finish" /\ wr[v].group # <<>> /\ ok(wr[v].s)}}

KV == INSTANCE KVStore WITH
  current <- Newest(Live, last_sequence_),
  pending <- Called \ Effective,
  applied <- Effective,
  acked   <- {a[1] : a \in acked},
  get     <- [r \in Readers |-> IF rpc[r] \in {"idle", "end"}
                THEN IF rpc[r] = "idle" THEN "idle" ELSE "answered" ELSE "open"],
  view    <- [r \in Readers |-> IF rpc[r] = "idle" THEN {}
                                ELSE Newest(Searched(r), rd[r].snapshot)],
  value   <- [r \in Readers |-> IF rpc[r] = "end" THEN rd[r].value ELSE {}]

\* Reads and writes of an open database are linearizable: a Write takes effect
\* when it stores last_sequence, a Get when it takes its snapshot.
Linearizable == KV!Spec

-----------------------------------------------------------------------------
(* What comments say and the code does not do *)

\* "the previous one is still being compacted, so we wait" (lines 285-286).
WaitsForCompaction ==
  \A w \in Writers : wpc[w] = "bgwait" /\ imm_ # nullptr => bpc # "off"

\* "apply the specified updates to the database" (db.h, Write): once.
AppliedOnce ==
  \A e, f \in UNION {table[m] : m \in Files} : e[2] = f[2] => e = f
=============================================================================

# A TLA+ model of leveldb_study

leveldb_study is a transliteration of LevelDB's storage engine that is still
being written: the core (skip list, write path, read path, background
compaction, version set, tables and their caches) has its control flow, many
leaves (block building, log records, the encodings) are empty bodies or
declarations. This directory models
the part that has control flow, checks it with TLC on small instances, and
proves with TLAPS, for every instance, the safety of the skip list, of an open
database, of the version set and its manifest, and of the table caches, and that
an open database is linearizable.

All paths below are relative to `src/leveldb/`.

## 1. The system

| component | state | operations | who calls it |
|---|---|---|---|
| skip list, `db/skiplist.h` | links of every node, `max_height_`; iterator's `node_` | `Insert`, `Contains`, `Seek`, `SeekToFirst`, `SeekToLast`, `Next`, `Prev` | MemTable: one inserter, readers without a lock |
| MemTable, `db/memtable.h/.cc` | `refs_`, a skip list, an arena | `Ref`, `Unref`, `Add`, `Get` | DBImpl |
| write path, `db/db_impl.cc` | `writers_`, `mem_`, `imm_`, `log_`, `logfile_number_`, `last_sequence` | `Put`, `Write`, `MakeRoomForWrite`, `BuildBatchGroup` | client threads |
| read path, `db/db_impl.cc` | references on memtables and a version | `Get` | client threads |
| background thread, `db/db_impl.cc` | `background_compaction_scheduled_`, `bg_error_`, `shutting_down_` | `MaybeScheduleCompaction`, `BackgroundCall`, `BackgroundCompaction`, `CompactMemtable`, `WriteLevel0Table` | Env's thread |
| open and recovery, `db/db_impl.cc` | the first log and memtable | `DB::Open`, `Recover` (stub) | client |
| version set, `db/version_set.cc`, `db/version_edit.h`, `db/filename.cc` | list of versions, reference counts of versions and files, `log_number_`, `next_file_number_`, MANIFEST and CURRENT | `LogAndApply`, `Builder`, `AppendVersion`, `WriteSnapshot`, `SetCurrentFile`, `Finallize`, `Version::Get` | background thread, `Get` |
| table building, `db/builder.cc`, `table/*builder*` | a file | `BuildTable`, `TableBuilder` | `WriteLevel0Table` |
| tables and their cache, `db/table_cache.cc`, `table/table.cc` | a cache of open tables, a cache of blocks, open files | `FindTable`, `Get`, `Table::Open`, `ReadMeta`, `BlockReader` | `Version::Get`, `BuildTable` |
| log writer, `db/log_writer.*` | a file | `AddRecord` (stub) | `Write`, `LogAndApply` |
| Env, `util/env*.cc`, `port/` | files, one background thread | file I/O, `Schedule`, `Mutex`, `CondVar` | all |

How they interact. A client's `Write` joins `writers_` under `mutex_`; the writer
at the front makes room (possibly replacing `mem_` and `log_`, and scheduling
the background thread), numbers a group of batches, and then, *without* the
mutex, appends to the log, syncs it and inserts into the skip list of `mem_`;
under the mutex again it publishes the group by storing the last sequence
number and signals the next writer. A `Get` takes a snapshot number and
references under the mutex and searches without it, so it runs against
insertions into the same skip list. The background thread turns `imm_` into a
table and installs a new version, releasing the mutex for all I/O, and removes
logs and tables that the new version does not need.

What is hard about it:

* lock-free readers against a skip list that is being changed;
* state that is protected by the *place in a queue* and not by a lock
  (`log_`, `mem_` in `Write`);
* hand-over of that place by condition variables, one per writer;
* values read under the mutex and used after it was released (`base` of a
  group, `logfile_number_` in an edit, a reader's pointers);
* failing I/O between two steps that belong together (append, sync, insert; the
  manifest record and CURRENT);
* a crash between any two steps;
* reference counts on five levels (memtables, versions, files, open tables,
  blocks), given back by different threads;
* caches that are looked up, missed and filled in separate steps, so that two
  threads do the same work and one result replaces the other.

`PROJECT.json` lists these per source line under `hazards`, each with the
property that would be violated.

What makes each part correct: the skip list's chains stay sorted and complete
at every store and searches are right about a moment of their execution; the
queue has one active writer and loses no wakeup; a sequence number names one
batch; a snapshot never changes; references are exact; what was acknowledged can
be recovered; levels are sorted and disjoint; a version's Get finds the newest
write; an edit is applied as a whole or not at all; a cache handle is released
once and nobody reads another table's block; a build that fails leaves no file;
and together, reads and writes of an open database are linearizable.

## 2. Modules

| module | models | composed of |
|---|---|---|
| `SkipList` | `db/skiplist.h`, one action per access to shared memory | |
| `SkipListProofs` | theorems about `SkipList` | extends `SkipList` |
| `DBState` | the members of DBImpl and the helpers all parts share | |
| `WritePath` | `Write`, `MakeRoomForWrite` | extends `DBState` |
| `ReadPath` | `Get` | extends `DBState` |
| `Background` | `BackgroundCall` and all it calls | extends `DBState` |
| `DBImpl` | one open database: Init, Next, fairness, properties | extends the three |
| `DBImplProofs` | theorems about the queue, references, file and sequence numbers, snapshots, the log and what survives a crash | extends `DBImpl` |
| `LinearizabilityProofs` | the proof that `DBImpl` implements `KVStore` | extends `DBImplProofs` |
| `KVStore` | abstract: what `include/leveldb/db.h` promises of Write and Get | instantiated by `DBImpl` |
| `Version` | what is computed from one version's files: `Version::Get`, `Finallize` | |
| `VersionSet` | `LogAndApply`, `Builder`, versions, MANIFEST, CURRENT, crashes | extends `Version` |
| `AtomicEdits` | abstract: what the callers of `LogAndApply` rely on | instantiated by `VersionSet` |
| `VersionSetProofs` | theorems about reference counts, live files, levels and scores | extends `VersionSet` |
| `GetProofs` | theorems about `Version::Get` | extends `VersionSetProofs` |
| `ManifestProofs` | theorems about recovery, the builder and the atomicity of edits | extends `VersionSetProofs` |
| `TableCache` | `db/table_cache.cc` and `table/table.cc`: the two caches and their users | |
| `Builder` | `BuildTable`, next to readers of the table cache | extends `TableCache` |
| `BuilderProofs` | theorems about the two caches and `BuildTable` | extends `Builder` |
| `Counting` | facts about cardinalities and least elements that the proofs share | |
| `MCSkipList`, `MCDBImpl`, `MCVersionSet`, `MCBuilder` | instances for TLC | |

Definitions keep the names of the source. `map` in `PROJECT.json` gives the
lines of each. Definitions named `Mut...` are plausible bugs that stand before
the definition they change; each property is known to be violated by one.

### SkipList

State: `next_[n][l]` is the level-`l` link of node `n`, with `garbage` for a
link that `NewNode` allocated and nobody has written. Each thread has the
locals of its search (`key`, `x`, `level`); the writer has `prev[]`, `height`
and `i`. `linked` and `seen` are history: the nodes published per level, and
what was published when an operation began.

Every loop iteration of a search does one load of a link, and is one action.
`Insert` is the search, `NewNode` (the height is any of 1..kMaxHeight, for
`RandomHeight`), and `InitLink`/`PublishLink` per level.

*Why interleavings are enough.* There is one writer. Links are read with
acquire and published with release (`Node::Next`, `Node::SetNext`), so a reader
that obtains a pointer to a node sees the key and all links of it that were
written before it was published; the writer's own relaxed accesses
(`NoBarrier_Next`, `NoBarrier_SetNext`) touch only links that it alone wrote or
that are not published yet. A reader's load of one link may return an older
value than the newest; that is a search that ran earlier at that point, and the
properties speak of what was published when the operation *began*. `max_height_`
is relaxed: a stale (smaller) value only starts a search on a lower level, which
an interleaving with an earlier load also does; a new value with an old link
reads null from `head_`, which is what the link held, and the search goes down.

### DBState, WritePath, ReadPath, Background, DBImpl

An action is what one thread does between two points at which it gives up or
takes `mutex_`, or one step without the mutex (one append, one sync, one
insertion, one lookup). `mutex_` is the holder; it is explicit only where a
thread keeps it across actions. `wpc`, `rpc` and `bpc` say where writers,
readers and the background thread are.

* `wpc`: `idle` → `wait`/`woken` (on the Writer's own cv) → `makeroom`
  (`sleep`, `bgwait`, `bgwoken` are the two ways to leave the mutex in
  `MakeRoomForWrite`) → `group` → `log` → `sync` → `insert` → `relock` →
  `finish` → `idle`.
* `rpc`: `idle` → `mem` → `imm` → `version` → `end` → `idle`.
* `bpc`: `off` → `queued` → one of `move`, `work`, `build` →
  `built` → `manifest` → `end` → `off` or `queued`.

Data. All batches write the same user key, with one entry each: no lookup
compares entries of different keys, so one key shows every ordering. A batch is
the number of its call to `Write`; an entry is a pair of sequence number and
batch. A memtable has the number of the log created with it. A log is the set of
its entries, `synced` the part a `Sync` covered. The memtable's lookups and
insertions are single steps: that is what the theorems about `SkipList` justify
(an insertion takes effect at the store that publishes level 0, and a search
that overlaps it may go either way, about an entry whose sequence number its
snapshot cannot see). The size of a memtable is its number of entries.

`Status::ok()` in `include/leveldb/status.h` returns true for every status. With
that, no error path of the program is ever taken. `StubOk = TRUE` models it as
it is (run `db_group`); `StubOk = FALSE` is the contract the callers are written
for (`state_ == nullptr` means OK) and is used in all other runs, so that the
error paths are explored.

`DB::Open` is taken from the part marked "real impl", which the function does not
reach yet. It locks `mutex_` and returns without unlocking it, so that no call on the
database could begin. `Init` is the state it leaves except for this: the mutex is
released. `MutexExact` and the theorem `MutexHeldExactly` say nothing of Open; they
are about the calls made afterwards.

The code does not compile as it stands; where two spellings can only mean one
thing they are taken for one identifier: `writes_`/`writers_`,
`background_work_finish_signal_`/`background_work_finished_signal_`,
`Finallize`/`Finalize`, `w.done()`/`w.done`,
`kEncodeLength`/`kEncodedLength`, `blcok_cache`/`block_cache`,
`meta->file_number`/`meta->number`, `state->stats->last_file_read`/
`state->last_file_read`. Wrong *conditions* and *arguments* are
never repaired: `if (bg_error_.ok())` in `MakeRoomForWrite` and
`BuildBatchGroup(&last_sequence)` are modelled as written.

Functions that are declared and not defined are modelled from how they are
used, and marked external: `BuildBatchGroup` (merges the first *n* writers, any
*n* ≤ `MaxGroup`), `RecordBackgroundError`, `NeedsCompaction`, `PickCompaction`
and `DoCompactionWork` (any outcome that makes progress, or an error),
`RemoveObsoleteFiles`, `UpdateStats` (any answer), `Version::Unref` and
`~Version`, the destructor of DBImpl, `CondVar` (with spurious wakeups, of a writer's
own cv and of `background_work_finished_signal_`) and Env (any call may fail, up to
`MaxFaults` times). `WriteBatchInternal::InsertInto` is declared only; it does no I/O
and could fail only for a malformed batch, which the model has none of, so its
status is OK.

Two consequences of the code that the model shows and that a reader should
know: `imm_` is set only after a background error (the inverted test), so
`BackgroundCompaction` itself never finds one and memtables are compacted only
from `DoCompactionWork`; and `BuildTable` leaves `meta->file_size` at 0, so the
check of the finished table fails with Corruption for every non-empty memtable
and only empty ones get through `CompactMemtable`.

### KVStore

The abstract store for one key: a batch takes effect at most once, between the
call and the return of its Write, exactly if that returns OK; a Get returns what
was current at one moment between its call and its return. `DBImpl` maps
`current` to the newest entry that `last_sequence_` makes visible: a Write takes
effect when `Relock` stores the sequence number, a Get when it takes its
snapshot.

### VersionSet

`LogAndApply` is one action up to `mu->Unlock()` (builder, new version, snapshot
record of a new manifest), one each for the record, its sync and the switch of
CURRENT, and one for the part after `mu->Lock()` (`Install`, `Abandon`), which
includes what its caller does next under the same lock (`CallerGoesOn`).
`caller` says who that is. It has no condition of its own: whether a caller may
begin is in the caller's action.

* `CompactMemtable`: `SwitchLog` leaves a memtable with the writes to any set of keys in
  `imm_`; `Flush` writes its table to a level where `PickLevelForMemtableOutput`
  (external) sees no overlap, `FlushNothing` is the branch for an empty memtable,
  whose edit has only the log number, and `FlushFails` ends before `LogAndApply`.
  After success obsolete files are removed; after a failure they are not.
  `BuildTable` is taken to do here what its comments say. As it stands it fails
  for every memtable that is not empty (`db/builder.cc:16`), and only `FlushNothing` and
  `FlushFails` would be left. Likewise the memtable may be switched at any time,
  not only after an error (finding 2). Both make the model allow more than the code
  does today: these are the histories that the code after LogAndApply is written for.
* `TrivialMove`: nothing is removed after it, as in lines 228-236.
* `DoCompactionWork` (external): `PickCompaction` chooses the inputs under the mutex
  and keeps them in `compact`; `OpenOutput` creates the output; `FinishWork` applies the
  edit; `WorkFails` ends it early. In between the mutex is released, and memtables
  are switched and compacted, also after a background error (`MayCompactMemtable`): an
  edit of DoCompactionWork may follow a CompactMemtable that failed. After
  DoCompactionWork obsolete files are removed whether it failed or not (line 245).
  While it is under way `pending_outputs_` keeps its output from being removed.

What is assumed of `PickCompaction` and `GetOverlappingInputs` (declared only, with the
comment at `db/version_set.h:145` on levels): `Inputs` takes one file, on level 0 with
all that overlap it directly or through others, and what these overlap on the next
level. This is not just convenient. If inputs were taken that leave a gap
between them, a memtable compacted in the meantime could be put into the gap on the
output's level, and the assertion of `MaybeAddFile` would fail; `MutInputs` does that.
The reference on `input_version_` is left out: the inputs stay in the current
version until the edit, since nobody else compacts.

A file carries the keys and the numbers of the logs whose writes it holds, so
that `RecoverySound` can say that no write is lost. A crash is not an action: the
invariant says of *every* state what recovery would find if the process stopped
there, with any part of the unsynced suffix of the manifest. A rename that has
returned (`SetCurrentFile`) survives a crash.
`VersionEdit::EncodeTo` and `DecodeFrom` are empty in the source and are taken to
be inverse to each other. The initial state is a recovered database with one
table on the last level (or none) and a new log; recovery itself is empty.

Two kinds of failure have bounds of their own, because the code does not
survive them: a Sync of the manifest that fails (`MaxSyncFaults`, finding 4), and an
append that fails, leaves its record, and is followed by more work of the
background thread (`MaxStrays`, finding 5). With both 0, `versions` shows that all other
failures are survived.

`AtomicEdits` says what DBImpl relies on: recovery finds the files of before or
after an edit, only those after it once `LogAndApply` has returned OK; after a failure
memory keeps those of before, and another edit begins only if a crash would find
exactly these. `VersionSet` maps its durable states to the replays of the
manifest that CURRENT names.

### Version

Operators only: `Get`, with the state that `Match` has left after each of the files
that `ForEachOverlapping` (external) visits, and `Finallize`, with the scores kept as
quotients instead of doubles. The properties that compare them with reference
definitions are in `VersionSet` and are checked on versions that LogAndApply
really builds, not on arbitrary arrangements of files. A write is named by the
number of its log, which orders the writes of a key; which writes are deletions
and which table cannot be read are quantified over in the property.

### TableCache and Builder

Each thread is in at most one call of `TableCache::Get` or holds one iterator.
`FindTable` is one action for the lookup, one for opening the file, one for
`Table::Open` and one for the insertion, and `BlockReader` one each for an index entry
that cannot be decoded, lookup, read and insertion: the threads have no common
lock. Tables and blocks are named by
what they were made for (file number; cache id and offset) and a slot, of which
there are enough for the cache's own and one per thread; `refs` counts the cache
and the handles, as an LRU cache with `Lookup`, `Insert`, `Release` and `Erase` must
(`include/leveldb/cache.h` is empty). An entry without a handle may be evicted at
any time. The contents of a block are the file and offset they were read from,
which is what `ReadsOwnBlock` compares; a filter is good, absent or garbage.

`Builder` adds the background thread in `BuildTable`: create, write (all of
`Finish`, `Sync`, `Close`; the first failure gives the status), check through the
same table cache with the size in `meta`, keep or remove.

## 3. Runs

| run | instance | states | shows |
|---|---|---|---|
| `skiplist_safety` | 3 keys, 2 levels, 1 reader | 117 643 | chains sorted, complete and nested at every store; Contains, Seek, Next, SeekToFirst, SeekToLast right about a moment of their execution; every operation ends |
| `skiplist_prev` | 2 keys | – | **violation**: FindLessThan's own assertion |
| `db_faults` | 2 writers, 1 reader, 3 calls, 2 faults, groups of 2 | 868 012 | queue, wakeups, mutex, sequence numbers, memtable references, log before memtable, durability, log numbers, snapshots |
| `db_linearizable` | the same with groups of 1, 1 fault | 351 234 | DBImpl implements KVStore |
| `db_live` | 2 writers, 1 reader, 2 calls, no faults, level 0 above its limit | 34 906 | writes return, compactions go on; no deadlock |
| `db_hang`, `db_group` | | – | **violations**, see findings |
| `versions` | 3 levels, 2 user keys, 7 file numbers, 1 fault, 1 reader | 240 434 | levels sorted and disjoint, builder exact, reference counts, no needed file removed, recovery loses nothing and reuses no number; LogAndApply implements AtomicEdits; Get finds the newest write and charges the first miss; no level over its limit is missed |
| `versions_work` | 2 levels, 3 user keys, 8 file numbers, 1 fault, no reader | 90 615 | a memtable compacted while DoCompactionWork has its inputs never gets under its output, and its obsolete files never include that output |
| `versions_sync` | 2 levels, failing sync of the manifest | – | **violation** |
| `versions_stray` | 2 levels, a failed append that leaves its record | – | **violation** |
| `tables` | a client and the background thread, 2 tables, 1 built, 2 cache ids, 1 fault | 821 040 | handles, files and blocks exact; own block read; no key hidden by a filter; no orphaned file, no open table of a removed file |

Bounds and why they are enough.

* Skip list: three keys give a node between two others, at its front and at its
  back, on two levels each of which can be the taller; readers do not affect each
  other, so one is enough (and the theorems hold for any number). The theorems
  remove the bound altogether.
* DBImpl: two writers are the smallest queue with a hand-over, three calls let one
  of them come back behind the other; `write_buffer_size` 1 makes the second
  entry ask for a new memtable; `MaxFileNumber` 4 allows a switch, a table and
  a second switch; two faults allow a failed sync (the only way into the rest of
  `MakeRoomForWrite`) and one failure after it. `InitL0` equals the trigger, so
  the first Get that updates statistics schedules a compaction. Writers are
  interchangeable: `SYMMETRY` in the safety runs only.
* VersionSet: a level-0 file, a level below that it may overlap, and one below
  that; two user keys give disjoint and overlapping files; seven numbers give a
  recovered table, its log, two log switches, two flushes and a merge, or moves,
  in between. So up to three tables with the same key meet in one version, on one
  level or on three, and level 1 (limit: two entries) can be filled beyond its
  limit. Two keys leave no room between two inputs; `versions_work` has three, so
  that a table fits between, before or behind the inputs of a compaction, and
  numbers for a flush, a pick, another flush and the output.
* Tables: two threads are what it takes to miss, open and insert the same file
  twice; two ids let a table be opened, evicted and opened again, or two tables be
  opened, while blocks are still cached; with two recovered tables of one block
  each a block can be taken for one of another table, not for another one of the
  same table. A fault can hit any one of the opens, reads, writes and removals.

`CHECK_DEADLOCK FALSE` is set in `db_faults` and `db_linearizable`: after an error
a writer may wait for ever (finding 2), which `db_hang` states; `db_live`, where
no call fails, checks deadlock. An idle database can always be deleted. It is
also set in `tables` and `versions_work`, where clients may simply be
done: no file number is left, no table to read, and no reader in `versions_work`.

Fairness (`FairSpec`). In DBImpl: every thread that is inside a call runs on when
it can, and Env runs what was scheduled (`Env::Schedule` promises no more). No
client is obliged to call. Weak fairness of a thread does not make the mutex
fair: a thread that wants it may be overtaken for ever by Gets that take and
release it. The code has no fair lock either, so the liveness properties carry
the premise `<>[]Quiet` (from some time on no Get is in progress) instead of an
assumption that the code does not justify. The number of Writes is bounded by
`MaxWrites`. In SkipList: a thread inside an operation goes on.

## 4. Findings

1. `db/skiplist.h:241`: `FindLessThan` leaves a level only when the next key is
   *greater*, so it steps onto the key itself; its assertion two lines above
   fails and `Iterator::Prev` does not move (`skiplist_prev`).
2. `db/db_impl.cc:268`: `MakeRoomForWrite` returns at once when there is *no*
   background error, so writes are never delayed, never wait, and memtables are
   never switched in a healthy database. After an error a writer waits for a
   compaction of `imm_` that `MaybeScheduleCompaction` will not schedule because of
   the error, and every other writer waits behind it (`db_hang`).
3. `db/db_impl.cc:341`: `last_writer` is never advanced, so the writers whose
   batches were merged into a group write them again (`db_group`). With groups
   of one the code is linearizable (`db_linearizable`).
4. `db/version_set.cc:353`: the status of the manifest's `Sync` is dropped; the
   old logs and tables are then removed although the manifest that a crash leaves
   may still need them (`versions_sync`).
5. `db/db_impl.cc:245`: when the append of a manifest record fails, the record may
   be in the manifest nevertheless. After DoCompactionWork the tables that no
   version has are removed all the same, those that the record names among them; and
   after a CompactMemtable that failed in the middle of DoCompactionWork, the
   edit of the latter is appended to that manifest. A crash then finds a manifest that
   names tables that are gone (`versions_stray`). CompactMemtable itself is
   right not to remove anything after a failure (line 158).

Others that a reader can see without a run, and how the model treats them:

* `include/leveldb/status.h:16`: `ok()` is true for every status, so every error path is
  dead and a failed log append is acknowledged (`StubOk`).
* `db/db_impl.cc:42`: `DB::Open` locks the mutex and returns without unlocking it, so
  the `Put` in `src/test.cc` could not begin; `Init` has it released.
* `db/builder.cc:16`: `meta->file_size` is never set, so the check of the finished
  table opens it with size 0 and fails, and no table is ever kept. `Builder` and
  `Background` have it as it is; `VersionSet` does not.
* `util/env_posix.cc:68`: a file that cannot be opened is reported as OK with a null
  pointer, which `BuildTable` passes on. `Builder` has the contract instead.

## 5. Proofs

All theorems are of the form `Spec => []P` (or `Spec => [][A]_vars`, or that one
specification implements another) for every value of the constants that satisfies
the assumptions named in `SkipList`, `DBState`, `Version`, `VersionSet`,
`TableCache` and `Builder`. TLC evaluates these assumptions in the runs. What a
theorem assumes beyond them stands in its statement and is listed here.

### Skip list (`SkipListProofs`)

Assumptions: keys are numbers other than 0 (0 stands for `head_`),
`kMaxHeight` is positive, the writer is not a reader. There may be infinitely
many keys and readers.

Theorems: `TypeCorrect` (`TypeOK`), `ShapeCorrect` (`SortedChains`),
`NestingCorrect` (`NestedLevels`), `ContainsIsCorrect` (`ContainsCorrect`),
`IteratorIsCorrect` (`SeekCorrect`), `SeekToLastIsCorrect` (`SeekToLastCorrect`).

The inductive invariant `IInv` adds to these properties what a thread in the
middle of an operation knows. `Cursor`: a search stands on a published node of
its level, before its key. `Insertion`: on the levels whose `prev[]` the writer
has found and not used yet (`Prepared`), the new node belongs between `prev[l]`
and its successor; it is published on exactly the levels below `i`; about to be
published on level `i`, its own link there is already the one of `prev[i]`. That
last clause is what makes the single store in `PublishLink` keep the chain
sorted, and it needs that nobody else writes. `SeenOK`: nothing is ever
unpublished, so what was there when an operation began is still there when it
ends, and a search that steps from one node to the next steps over nothing.

### An open database (`DBImplProofs`, `LinearizabilityProofs`)

Assumptions: the threads are different from each other and there are finitely
many readers (their references are counted); the sizes and bounds are natural
numbers, with `MaxGroup`, `MaxFileNumber` and the level-0 triggers positive.
The numbers of writers, groups, file numbers, calls and failures are arbitrary.

| theorem | property | rests on |
|---|---|---|
| `TypeCorrect` | `TypeOK` | `QInv`, `MInv` |
| `QueueCorrect` | `FrontOnly` | `QInv` |
| `HandOverCorrect` | `NoLostWakeup` | `QInv` |
| `MutexHeldExactly` | `MutexExact` | itself, with the types |
| `ReferencesExact` | `RefsExact` | `MInv` |
| `LogNumberCurrent` | `InstallsCurrentLog` | `MInv` |
| `SequenceNumbersUnique` | `SequenceUnique` | `SInv` |
| `SnapshotsStable` | `SnapshotStable` | `SInv` |
| `WriteAheadLog` | `LoggedBeforeApplied` | `DInv`, needs `~StubOk` |
| `AcknowledgedSurvives` | `AckedDurable` | `DInv`, needs `~StubOk` |
| `Linearizability` | `Linearizable` | all of them and `LInv`, needs `~StubOk` and `MaxGroup = 1` |

* `QInv` is about writers alone. A writer is in `writers_` once, exactly while it
  is in `Write` (`Queued`). So a writer past the wait loop is the first of the
  queue, `MyPlace` is 1 and `Served` is empty (lemma `FirstPlace`): the loop that
  pops the queue pops only the writer itself, `done` is never set, and if
  the writer that becomes the front is in `wait`, `Finish` signals it. From
  `BuildGroup` to `Relock` the base of the group is `last_sequence_` (`Counted`).
* `MInv` is about memtables, files and readers. `Numbered`: `mem_` has the number
  of the log, `imm_` a smaller one that is not below `log_number_`, and a reader
  holds only numbers that were given out, so that a new memtable starts without
  holders. `Flushing`: while a memtable is compacted `imm_` is not null, so
  `MakeRoomForWrite` cannot switch memtables and the log number in the edit
  stays current although the mutex was released twice. `RefsExact` is preserved
  because each Get enters and leaves the finite set of holders once.
* `MutexExact` is inductive once the labels and the caller of `CompactMemtable` are
  typed: each writer step locks, unlocks or keeps its side (`WriterMutex`), and a
  `SignalAll` moves nobody across (`SignalAllHolds`). That a reader or a memtable
  switch may schedule the background thread is harmless because it then is not at
  the end of `BackgroundCall`: whoever schedules has the mutex.
* `SInv`: an entry numbered beyond `last_sequence_` belongs to the group that the
  one writer at the front is writing (`Sequenced`), and no snapshot is beyond
  `last_sequence_`. So insertions next to a Get are invisible to it, and a failed
  group's numbers are not used again because `Relock` advances past them.
* `DInv`: `Written` follows the front writer's own entry (`First`) from the log
  through the sync into the memtable; `Compacting` says that the edit carries
  everything in `imm_`; `Kept` that an acknowledged write is in the tables or in
  a memtable DBImpl still has. With the stub of `Status::ok()` both theorems are
  false, since a failed append is acknowledged; hence the assumption `~StubOk`.

* `LInv` orders the writes. `Placed`: only the write that is about to become visible
  is numbered beyond `last_sequence_`, so a failed group is in no memtable and
  advancing the number past it changes nothing. `Ordered`: entries of a newer
  memtable are newer than those of an older one and than all tables, and the
  same holds of what a Get still holds although DBImpl has dropped it. `Misses`: a
  Get that searches on has seen nothing. So the first hit is the newest entry
  that the snapshot can see (`HitIsView`). `Named` and `Grouped` tie a batch to
  one call.

`Linearizability` maps every step to one of KVStore or a stutter: `StartWrite` to
CallWrite, `Relock` to TakeEffect if the write succeeded (`EffectStep`), `Finish` to
ReturnOK or ReturnError (`ReturnStep`), `Get` to CallGet, the lookup that ends a
search to FindValue (`LookupStep`), `GetReturns` to ReturnGet; everything else, also
memtable switches and flushes, leaves what KVStore sees as it is (`CurrentKept`,
`ViewKept`). Its two assumptions are those of the run `db_linearizable` and are
necessary: with groups of two the code writes batches twice (`db_group`), and with
the stub of `ok()` it acknowledges writes that are lost.

### Version set (`VersionSetProofs`, `GetProofs`, `ManifestProofs`)

Assumptions: finitely many readers, `MaxFileNumber` at least 2 (the recovered
log), positive limits of the levels, at least one user key, finitely many recovered
keys. The number of levels, the user keys (infinitely many if one likes), edits,
faults and versions are arbitrary.

| theorem | property | rests on |
|---|---|---|
| `CountsExact` | `VersionRefs` | `VersionsInv` |
| `NeededFilesKept` | `LiveFilesExist` | `VersionsInv` |
| `SortedAndDisjoint` | `LevelsSorted` | `VersionsInv`, `WorkInv` |
| `FullestLevelChosen` | `NoLevelMissed` | `VersionsInv`, `ScoresInv` |
| `GetsFindNewest` | `GetFindsNewest` | `VersionsInv`, `LayersInv` |
| `FirstMissCharged` | `ChargesFirstMiss` | `VersionsInv` |
| `VersionTypes` | `TypeOK` | `TypesInv` |
| `BuilderExact` | `BuilderCorrect` | `VersionsInv` |
| `RecoveryFindsAll` | `NoneLost => RecoverySound` | `ManifestInv` |
| `NumbersGrow` | `NoneLost => NumbersSound` | `ManifestInv` |
| `EditsAreAtomic` | `LogAndApplyAtomic`, with `MaxSyncFaults = 0` and `MaxStrays = 0` | `ManifestInv` |

The premise `NoneLost` is the one the code needs: no Sync of the manifest has failed,
whose status it drops (`versions_sync` shows that recovery then loses writes), and no
append that failed has left its record while DoCompactionWork was under way
(`versions_stray`). Other calls may fail as often as `MaxFaults` allows, also the
append of a flush or a move outside DoCompactionWork that leaves its record, and any
call in the middle of DoCompactionWork, whose edit may still follow.

* `VersionsInv` is `VersionRefs` with three facts. `Memory`: in every version each
  level is sorted and below level 0 disjoint, and a file number stands for one file
  on one level (`Distinct`); without the last, giving back the references of one
  version could delete a file under another name. `Vacant`: a version without
  references has no files, so it may be taken for the next one. `OnDisk`: the
  files of every version are on disk and their numbers are used up, so a number
  that `NewFileNumber` gives out is in no version.
* `WorkInv` is about DoCompactionWork between its pick and its edit. Its inputs are
  still in the current version, and in the one that a flush is about to install, and
  no other file of the next level overlaps them (`Includes`); its output has a number
  of its own (`OwnNumber`). A flush in between keeps this because of `Connected`: the
  inputs leave no gap, so a table that overlaps none of them lies to the left or
  right of them all, and of the output too. That is why the edit, applied to a
  version that the pick has not seen, brings no overlap.
* The callers of LogAndApply are summed up by `EditStep`: an edit adds one file
  to a level in which nothing that stays overlaps it, or, for an empty memtable,
  nothing. What the Builder does with
  such an edit follows from lemmas about `MaybeAddFiles` and `SaveTo`, which are
  recursive functions of an index. The induction theorems of the library cannot
  be used, so `UpTo` and `Recursion` derive induction and the existence of
  such functions from the least element of a set of numbers.
* `ScoresInv`: a version was finalised with the files it has. `Finallize` compares
  quotients, and the choice is shown best by induction over the levels.
* `LayersInv` is why `Version::Get` may stop at the first file that has anything. Every
  version is `Layered`: of two files, the one on the higher level, or on level 0 the
  one with the greater number, has the newer entries of every key they share. That
  the edits keep it so (`Orderly`) has three reasons. The table of a flush can go
  on top because the log of `imm_` is not older than any entry of the version
  (`Past`, with `Unflushed` the oldest log not in tables), and below level 0 it is put
  only where it overlaps nothing that is above. A file is moved down only past files
  that it does not overlap. A merge takes along all it overlaps on its own level, if
  that is level 0, and on the next; files flushed to level 0 since its inputs were
  picked are newer than these (`WorkOrdered`). For `Get` itself, `ReadingOrder` says that the files
  are visited by level and number, each once, and `GetTells` that the result is that
  of the first file that says anything.
* `ManifestInv` says at each step of LogAndApply what recovery would read. `LogOrder`:
  writes that are in no table are in the logs of `mem_` and `imm_`. `PendingEdit`: the
  version that was built is the current one with the edit applied, and sound; this
  needs that an edit's output has the data of every file it deletes (`Carries`). After
  a failure this and the following are claimed only while the background thread may go
  on (`Ready`): otherwise the last record may or may not have arrived, which is
  harmless because nothing that it or the version before it needs is removed any more.
  `Phases`: from `append` to the switch of CURRENT the synced part gives the version of
  before (`AsBefore`), and after the sync the whole gives that of after (`AsAfter`). What
  a replay finds is a recursive function of the number of records (`ReadOf`); that
  one more record does not change what was read before is `ReadPrefix`, its effect is
  `ReadNext`.
* `EditsAreAtomic` maps the first step of LogAndApply, its append, its install and its
  failure to the actions of AtomicEdits, and the rest to stutters (`AtomicStep`).

### Caches and BuildTable (`BuilderProofs`)

Assumptions: finitely many threads, file numbers and offsets; the background thread
is one of the threads. Sizes, opens and faults are arbitrary natural numbers.

| theorem | property |
|---|---|
| `TypeCorrect` | `TypeOK` |
| `TablesDeletedOnce` | `HandlesExact` |
| `BlocksDeletedOnce` | `BlocksExact` |
| `BlockReaderRight` | `ReadsOwnBlock` |
| `FilterSafe` | `FilterHidesNothing` |
| `RemovedClosed` | `RemovedFilesClosed` |
| `NothingOrphaned` | `NoOrphans` |

They rest on one invariant, `IInv`, because the reasons are circular: a table is
closed in time because its count is exact, the count is exact because an address
is reused only when nobody has it, and there is an address to reuse because the
counts are exact. `Unshared` and `BlocksUnshared` say that what is not in a cache
yet is known to one thread; `TablesAlive` that living tables have cache ids of their
own, which is why a block cached under an id is a block of that table
(`BlocksCached`) although an evicted table's blocks stay. `RoomLeft` is about
the bound on `NewId` and only keeps the ids in their type. `Building` says that the file being
written is known to nobody else and that its size in `meta` is 0.

### Left to TLC

* Liveness: `WritesReturn`, `CompactionContinues`, `OperationsEnd` (fairness and
  ENABLED are outside the prover).
* Linearizability with larger groups, and recovery after a failed Sync of the
  manifest or a stray record, which are false; and all other violations.

## 6. Not modelled

* `UpdateStats` and `allowed_seeks`, compact pointers: the first is declared only,
  the other two are written and never read. DBImpl's model allows any outcome of
  a seek charge.
* The caches' own lists (`NewLRUCache` is declared only), `InternalGet`, and the
  contents of blocks and filters.
* TableBuilder and BlockBuilder: mostly empty bodies. What BuildTable sees of them,
  a status, is in `Builder`; what DBImpl sees of BuildTable is in `Background`.
* The log format: `AddRecord` is empty. Its callers' view, including a failed
  append that left its record, is in `WritePath`.
* `Recover` is empty. `RecoverySound` and `AckedDurable` state what it must be able
  to find.
* Manual compaction: `manual_compaction_` is never set by code in the repository.
* Snapshots in `ReadOptions`: no code creates one.
* The rest of Env, ports, comparators, Slice, Options, WriteBatch's representation: I/O, data
  layout or declarations.

## 7. Plan

Done: the skip list with its proofs; DBImpl's three parts, their composition and
the proofs of its safety invariants; KVStore and the refinement; LogAndApply with
crashes and its refinement of AtomicEdits; Version::Get and Finallize against
reference definitions; the table cache, tables and BuildTable.

Also done: the proofs of all safety invariants and action properties of these
modules, and of both refinements.

Left:

1. Background composed with VersionSet, so that `Installed` is the real
   `LogAndApply` and `RecoverySound` and `AckedDurable` become one property. Until
   then `Background` uses of LogAndApply only what `LogAndApplyAtomic` states.

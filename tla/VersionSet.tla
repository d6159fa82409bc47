----------------------------- MODULE VersionSet -----------------------------
(***************************************************************************)
(* VersionSet::LogAndApply, its Builder and the reference counts of        *)
(* versions and files (db/version_set.cc, db/version_edit.h), with the     *)
(* MANIFEST and CURRENT files on disk (db/filename.cc).  Its callers are   *)
(* CompactMemtable and BackgroundCompaction; readers hold versions; a      *)
(* crash may come at any moment.                                           *)
(*                                                                         *)
(* Records of a MANIFEST are edits: EncodeTo and DecodeFrom are still      *)
(* empty in version_edit.cc and are taken to be inverse to each other.     *)
(***************************************************************************)
EXTENDS Version

CONSTANTS
  Readers,
  RecoveredKeys,   \* the keys of the one table that was recovered
  MaxFaults,       \* bound: Env calls that return an error
  MaxSyncFaults,   \* bound: calls of descriptor_file_->Sync() that fail
  MaxStrays        \* bound: appends by DoCompactionWork that fail and leave a record

ASSUME ReaderAssumption == IsFiniteSet(Readers)
ASSUME BoundAssumption == {MaxFaults, MaxSyncFaults, MaxStrays} \subseteq Nat
ASSUME RecoveredAssumption == RecoveredKeys \subseteq UserKeys /\ IsFiniteSet(RecoveredKeys)

Versions == 1 .. (Cardinality(Readers) + 2)  \* enough for all that can be alive
nullptr  == 0
Old == 1      \* the manifest that Recover read
New == 2      \* manifest_file_number_, created by the first LogAndApply
NoFiles == [l \in Levels |-> <<>>]

VARIABLES
  current_, files_,   \* the current version; files_[v][l] of every version
  refs_,              \* Version::refs_; a version with none is dead
  refs,               \* FileMetaData::refs, by level and number
  compaction_,        \* compaction_level_ and compaction_score_ of each version
  next_file_number_, log_number_,
  descriptor_file_,   \* is it open?
  manifest, synced,   \* records of each manifest, and how many a Sync covered
  CURRENT,            \* the manifest that CURRENT names
  tables, logs,       \* table and log files on disk
  logfile_number_, imm_,  \* the logs of the two memtables; nullptr is 0
  imm_keys,           \* the keys in imm_
  compact,            \* the CompactionState of DoCompactionWork
  pc, edit, v, s,     \* LogAndApply: where it is, and its locals
  creating,           \* new_manifest_file is not empty
  caller,             \* who called LogAndApply
  bg_error_,          \* has the background thread recorded an error?
  held,               \* the version each reader holds, or nullptr
  faults, sync_faults, strays,
  written             \* history: the logs with writes, and the current one

memory == <<current_, files_, refs_, refs, compaction_, log_number_>>
disk   == <<manifest, synced, CURRENT>>
files  == <<tables, logs>>
wal    == <<logfile_number_, imm_, imm_keys, written>>
locals == <<edit, v, s, creating, caller>>
counts == <<faults, sync_faults, strays>>
vars   == <<current_, files_, refs_, refs, compaction_, next_file_number_, log_number_,
            descriptor_file_, manifest, synced, CURRENT, tables, logs,
            logfile_number_, imm_, imm_keys, compact, pc, edit, v, s, creating, caller,
            bg_error_, held, faults, sync_faults, strays, written>>

-----------------------------------------------------------------------------
(* Builder *)

\* BySmallestKey: by smallest key, ties by file number.
BySmallestKey(f, g) ==
  f.smallest < g.smallest \/ (f.smallest = g.smallest /\ f.number < g.number)

\* Mutant: a deleted file is added again.
MutMaybeAddFiles(fs, deleted) == fs

\* MaybeAddFile, for each file of a sequence: a deleted file is skipped.
MaybeAddFiles(fs, deleted) ==
  LET Kept[i \in 0 .. Len(fs)] ==
        IF i = 0 THEN <<>>
        ELSE IF fs[i].number \in deleted THEN Kept[i - 1] ELSE Append(Kept[i - 1], fs[i])
  IN Kept[Len(fs)]

\* FileSet: the added files of a level in the order of BySmallestKey.
SortedFiles(added) ==
  [i \in 1 .. Cardinality(added) |->
     CHOOSE f \in added : Cardinality({g \in added : BySmallestKey(g, f)}) = i - 1]

\* Mutant: the added files come after the base files.
MutSaveTo(base, added, deleted) ==
  MaybeAddFiles(base \o SortedFiles(added), deleted)

\* SaveTo, one level: before each of the added files, in order, go the base
\* files up to its upper_bound, and the remaining base files go last.
SaveTo(base, added, deleted) ==
  LET new == SortedFiles(added)
      bpos(i) == IF i = 0 THEN 0
                 ELSE Cardinality({j \in DOMAIN base : ~BySmallestKey(new[i], base[j])})
      Merged[i \in 0 .. Len(new)] ==
        IF i = 0 THEN <<>>
        ELSE Merged[i - 1] \o Append(SubSeq(base, bpos(i - 1) + 1, bpos(i)), new[i])
  IN MaybeAddFiles(Merged[Len(new)] \o SubSeq(base, bpos(Len(new)) + 1, Len(base)), deleted)

\* Apply: what an edit adds to and deletes from a level.
AddedFiles(e, l) == {a[2] : a \in {b \in e.new_files : b[1] = l}}
DeletedFiles(e, l) ==
  {d[2] : d \in {c \in e.deleted_files : c[1] = l}}
    \ {f.number : f \in AddedFiles(e, l)}

ApplyEdit(base, e) ==
  [l \in Levels |-> SaveTo(base[l], AddedFiles(e, l), DeletedFiles(e, l))]

-----------------------------------------------------------------------------
(* Reference counts *)

\* The FileMetaData objects of a version.
Objects(fs) == UNION {{<<l, fs[l][j].number>> : j \in DOMAIN fs[l]} : l \in Levels}

\* Mutant: ~Builder takes back the reference of the version.
MutRefFiles(fs) == refs

\* Builder and ~Builder leave every file of the new version with one more.
RefFiles(fs) == [o \in Levels \X Numbers |-> IF o \in Objects(fs) THEN refs[o] + 1 ELSE refs[o]]

\* ~Version (external): one less for every file of a version that is deleted.
UnrefFiles(fs) == [o \in Levels \X Numbers |-> IF o \in Objects(fs) THEN refs[o] - 1 ELSE refs[o]]

\* Version::Unref (external): at zero the version is deleted.
UnrefVersion(u) ==
  IF refs_[u] = 1
    THEN /\ refs' = UnrefFiles(files_[u])
         /\ files_' = [files_ EXCEPT ![u] = NoFiles]
         /\ compaction_' = [compaction_ EXCEPT ![u] = NotFinalised]
    ELSE UNCHANGED <<refs, files_, compaction_>>

\* Everything a live version holds, of level and number.
LiveTables(fs) == {o[2] : o \in UNION {Objects(fs[u]) : u \in Versions}}

-----------------------------------------------------------------------------

\* A CompactionState: the inputs from level and level + 1, and the number of the
\* output file, 0 while there is none.
NoCompaction == [level |-> 0, upper |-> {}, lower |-> {}, output |-> 0]
Working == compact.upper # {}

NoEdit == [new_files |-> {}, deleted_files |-> {}, log_number |-> 0, next_file |-> 0]

\* Recovery found one table, #1, on the last level, or none.
RecoveredFiles ==
  IF RecoveredKeys = {} THEN NoFiles
  ELSE [NoFiles EXCEPT ![kNumLevels - 1] = <<FileOf(1, RecoveredKeys, 0)>>]

Init ==
  /\ current_ = 1
  /\ files_ = [u \in Versions |-> IF u = 1 THEN RecoveredFiles ELSE NoFiles]
  /\ refs_ = [u \in Versions |-> IF u = 1 THEN 1 ELSE 0]
  /\ refs = [o \in Levels \X Numbers |-> IF o \in Objects(RecoveredFiles) THEN 1 ELSE 0]
  /\ compaction_ = [u \in Versions |-> NotFinalised]
  /\ next_file_number_ = 3 /\ log_number_ = 0
  /\ descriptor_file_ = FALSE
  /\ manifest = [m \in {Old, New} |->
       IF m = Old THEN <<[NoEdit EXCEPT !.new_files = FileSet(RecoveredFiles), !.next_file = 2]>>
       ELSE <<>>]
  /\ synced = [m \in {Old, New} |-> IF m = Old THEN 1 ELSE 0]
  /\ CURRENT = Old
  /\ tables = {o[2] : o \in Objects(RecoveredFiles)} /\ logs = {2}
  /\ logfile_number_ = 2 /\ imm_ = nullptr /\ imm_keys = {}
  /\ compact = NoCompaction
  /\ pc = "idle" /\ edit = NoEdit /\ v = nullptr /\ s = "OK" /\ creating = FALSE
  /\ caller = "none"
  /\ bg_error_ = FALSE
  /\ held = [r \in Readers |-> nullptr]
  /\ faults = 0 /\ sync_faults = 0 /\ strays = 0
  /\ written = {2}

EnvStatus == IF faults < MaxFaults THEN {"OK", "IOError"} ELSE {"OK"}
CountFault(e) == faults' = IF e = "OK" THEN faults ELSE faults + 1

\* Mutant: the snapshot has no files.
MutWriteSnapshot == NoEdit

\* WriteSnapshot: the record with every file of the current version.
WriteSnapshot == [NoEdit EXCEPT !.new_files = FileSet(files_[current_])]

\* Mutant: the number of a file that the edit itself adds is left out.
MutNextFile == next_file_number_

\* SetNextFile: the numbers taken so far, that of the caller's table included.
NextFile == next_file_number_'

\* LogAndApply up to mu->Unlock(): the edit gets the log number it lacks, the
\* new version is built and finalised, and if no descriptor is open a new manifest is
\* created with a snapshot of the current version.
LogAndApply(e, from) ==
  LET u == CHOOSE w \in Versions : refs_[w] = 0
      fs == ApplyEdit(files_[current_], e) IN
  /\ edit' = [e EXCEPT !.log_number = IF e.log_number = 0 THEN log_number_ ELSE @,
                       !.next_file = NextFile]
  /\ v' = u
  /\ files_' = [files_ EXCEPT ![u] = fs]
  /\ refs' = RefFiles(fs)
  /\ compaction_' = [compaction_ EXCEPT ![u] = Finallize(fs)]
  /\ creating' = ~descriptor_file_
  /\ \E st \in EnvStatus, snapshot \in BOOLEAN :
       /\ snapshot => ~descriptor_file_
       /\ st = "OK" /\ ~descriptor_file_ => snapshot
       /\ descriptor_file_ => st = "OK"
       /\ CountFault(st)
       /\ s' = st
       /\ manifest' = IF snapshot THEN [manifest EXCEPT ![New] = <<WriteSnapshot>>]
                      ELSE manifest
       /\ descriptor_file_' = (descriptor_file_ \/ st = "OK" \/ snapshot)
  /\ pc' = "append" /\ caller' = from
  /\ UNCHANGED <<current_, refs_, log_number_, synced, CURRENT, logs, wal,
                 compact, bg_error_, held, sync_faults, strays>>

\* The manifest record.  A failed append may or may not have left it.  It is a
\* stray if the background thread goes on nevertheless, as DoCompactionWork does.
AppendRecord ==
  /\ pc = "append"
  /\ \E e \in IF s = "OK" THEN EnvStatus ELSE {"OK"}, left \in BOOLEAN :
       /\ left => s = "OK"
       /\ s = "OK" /\ e = "OK" => left
       /\ CountFault(e)
       /\ s' = IF s = "OK" THEN e ELSE s
       /\ manifest' = IF left THEN [manifest EXCEPT ![New] = Append(@, edit)] ELSE manifest
       /\ pc' = IF s' = "OK" THEN "sync" ELSE "install"
       /\ IF left /\ e # "OK" /\ Working /\ ~creating
            THEN strays < MaxStrays /\ strays' = strays + 1
            ELSE UNCHANGED strays
  /\ UNCHANGED <<memory, next_file_number_, descriptor_file_, synced, CURRENT, files,
                 wal, compact, edit, v, creating, caller, bg_error_, held, sync_faults>>

\* Mutant: the manifest is not synced.
MutSyncRecord ==
  /\ pc = "sync"
  /\ pc' = IF creating THEN "current" ELSE "install"
  /\ UNCHANGED <<memory, next_file_number_, descriptor_file_, disk, files, wal,
                 compact, locals, bg_error_, held, counts>>

\* descriptor_file_->Sync(), whose status nobody looks at.
SyncRecord ==
  /\ pc = "sync"
  /\ \/ /\ synced' = [synced EXCEPT ![New] = Len(manifest[New])]
        /\ UNCHANGED sync_faults
     \/ /\ sync_faults < MaxSyncFaults
        /\ sync_faults' = sync_faults + 1
        /\ UNCHANGED synced
  /\ pc' = IF creating THEN "current" ELSE "install"
  /\ UNCHANGED <<memory, next_file_number_, descriptor_file_, manifest, CURRENT, files,
                 wal, compact, locals, bg_error_, held, faults, strays>>

\* SetCurrentFile: the temporary file is written, synced and renamed.  A rename
\* that has returned survives a crash.
SetCurrentFile ==
  /\ pc = "current"
  /\ \E e \in EnvStatus :
       /\ CountFault(e)
       /\ s' = e
       /\ CURRENT' = IF e = "OK" THEN New ELSE CURRENT
  /\ pc' = "install"
  /\ UNCHANGED <<memory, next_file_number_, descriptor_file_, manifest, synced, files,
                 wal, compact, edit, v, creating, caller, bg_error_, held, sync_faults,
                 strays>>

\* Mutant: the old version is deleted although readers may hold it.
MutAppendVersion ==
  /\ refs_' = [refs_ EXCEPT ![v] = 1, ![current_] = 0]
  /\ refs' = UnrefFiles(files_[current_])
  /\ files_' = [files_ EXCEPT ![current_] = NoFiles]
  /\ compaction_' = [compaction_ EXCEPT ![current_] = NotFinalised]
  /\ current_' = v

\* AppendVersion: the new version is current, with one reference.
AppendVersion ==
  /\ refs_' = [refs_ EXCEPT ![v] = 1, ![current_] = @ - 1]
  /\ UnrefVersion(current_)
  /\ current_' = v


\* pending_outputs_, when CompactMemtable returns: its own output is no longer
\* in it, that of DoCompactionWork (external) is.
PendingOutputs == {compact.output} \ {0}

\* Mutant: only the tables of the new version are kept.
MutRemoveObsoleteFiles(log, pending) ==
  /\ logs' = {n \in logs : n >= log}
  /\ tables' = tables \cap (pending \cup {o[2] : o \in Objects(files_'[current_'])})

\* RemoveObsoleteFiles (external): the logs before the log number go, and the
\* tables that are in no live version and not being written.
RemoveObsoleteFiles(log, pending) ==
  /\ logs' = {n \in logs : n >= log}
  /\ tables' = tables \cap (pending \cup LiveTables(files_'))

\* What the caller does after LogAndApply has returned s: CompactMemtable drops
\* imm_ if all went well, DoCompactionWork is done, a trivial move has nothing to
\* do.  All record an error.
CallerGoesOn ==
  /\ bg_error_' = (bg_error_ \/ s # "OK")
  /\ IF caller = "DoCompactionWork"
       THEN compact' = NoCompaction /\ RemoveObsoleteFiles(log_number_', {})
       ELSE /\ UNCHANGED compact
            /\ IF caller = "CompactMemtable" /\ s = "OK"
                 THEN RemoveObsoleteFiles(log_number_', PendingOutputs)
                 ELSE UNCHANGED files
  /\ IF caller = "CompactMemtable" /\ s = "OK"
       THEN imm_' = nullptr /\ imm_keys' = {}
       ELSE UNCHANGED <<imm_, imm_keys>>
  /\ pc' = "idle" /\ edit' = NoEdit /\ v' = nullptr /\ s' = "OK"
  /\ creating' = FALSE /\ caller' = "none"
  /\ UNCHANGED <<next_file_number_, CURRENT, logfile_number_, written, held, counts>>

\* The mutex again, all went well: the version is installed.
Install ==
  /\ pc = "install" /\ s = "OK"
  /\ AppendVersion
  /\ log_number_' = edit.log_number
  /\ UNCHANGED <<descriptor_file_, manifest, synced>>
  /\ CallerGoesOn

\* Something failed: the new version is deleted, and a manifest that was just
\* created is closed and removed.
Abandon ==
  /\ pc = "install" /\ s # "OK"
  /\ refs' = UnrefFiles(files_[v])
  /\ files_' = [files_ EXCEPT ![v] = NoFiles]
  /\ compaction_' = [compaction_ EXCEPT ![v] = NotFinalised]
  /\ UNCHANGED <<current_, refs_, log_number_>>
  /\ descriptor_file_' = (descriptor_file_ /\ ~creating)
  /\ manifest' = IF creating THEN [manifest EXCEPT ![New] = <<>>] ELSE manifest
  /\ synced' = IF creating THEN [synced EXCEPT ![New] = 0] ELSE synced
  /\ CallerGoesOn

-----------------------------------------------------------------------------
(* The callers *)

NewFileNumber == next_file_number_ \in Numbers /\ next_file_number_' = next_file_number_ + 1

Overlaps(f, g) == f.smallest <= g.largest /\ g.smallest <= f.largest
InLevel(l) == ToSet(files_[current_][l])

\* MakeRoomForWrite switches to a new log; the writes of the old one, to the
\* keys in K, wait in imm_.
SwitchLog(K) ==
  /\ imm_ = nullptr
  /\ IsFiniteSet(K)
  /\ NewFileNumber
  /\ imm_' = logfile_number_ /\ imm_keys' = K
  /\ logfile_number_' = next_file_number_
  /\ logs' = logs \cup {next_file_number_}
  /\ written' = (IF K = {} THEN written \ {logfile_number_} ELSE written)
                  \cup {next_file_number_}
  /\ UNCHANGED <<memory, descriptor_file_, disk, tables, compact, pc, locals,
                 bg_error_, held, counts>>

\* BackgroundCall runs BackgroundCompaction only if there was no error;
\* DoCompactionWork (external) compacts a memtable that waits without asking.
MayCompactMemtable ==
  /\ pc = "idle" /\ imm_ # nullptr
  /\ Working \/ ~bg_error_

\* CompactMemtable: a table with the writes of imm_, on a level where
\* PickLevelForMemtableOutput (external) sees nothing that overlaps.
Flush(l) ==
  LET f == FileOf(next_file_number_, imm_keys, imm_) IN
  /\ MayCompactMemtable
  /\ imm_keys # {}
  /\ l > 0 => \A m \in 0 .. l : \A g \in InLevel(m) : ~Overlaps(f, g)
  /\ NewFileNumber
  /\ tables' = tables \cup {f.number}
  /\ LogAndApply([NoEdit EXCEPT !.new_files = {<<l, f>>}, !.log_number = logfile_number_],
                 "CompactMemtable")

\* CompactMemtable of a memtable that is empty: the file "has been deleted and
\* should not be added to the manifest".
FlushNothing ==
  /\ MayCompactMemtable
  /\ imm_keys = {}
  /\ NewFileNumber
  /\ UNCHANGED tables
  /\ LogAndApply([NoEdit EXCEPT !.log_number = logfile_number_], "CompactMemtable")

\* CompactMemtable does not get to LogAndApply: BuildTable fails, which removes
\* the file, or the database is being deleted.
FlushFails ==
  /\ MayCompactMemtable
  /\ NewFileNumber
  /\ faults < MaxFaults /\ faults' = faults + 1
  /\ tables' \in {tables, tables \cup {next_file_number_}}
  /\ bg_error_' = TRUE
  /\ UNCHANGED <<memory, descriptor_file_, disk, logs, wal, compact, pc, locals,
                 held, sync_faults, strays>>

\* BackgroundCompaction finds no memtable and calls PickCompaction.
MayPickCompaction == pc = "idle" /\ ~Working /\ ~bg_error_ /\ imm_ = nullptr

\* Mutant: all of the next level is taken along.
MutInputs(l, f) == [upper |-> {f}, lower |-> InLevel(l + 1)]

\* PickCompaction (external): a file f of level l; on level 0 with it the files
\* that overlap it, and those that overlap these, and so on; and what they all
\* overlap on the next level.
Inputs(l, f) ==
  LET closed == {S \in SUBSET InLevel(0) :
                   f \in S /\ \A g \in S, h \in InLevel(0) : Overlaps(g, h) => h \in S}
      upper == IF l = 0 THEN {g \in InLevel(0) : \A S \in closed : g \in S} ELSE {f} IN
  [upper |-> upper,
   lower |-> {g \in InLevel(l + 1) : \E h \in upper : Overlaps(g, h)}]

\* BackgroundCompaction, trivial move: a file goes down one level when nothing
\* overlaps it there, nor on its own level if that is 0.
TrivialMove(l, f) ==
  /\ MayPickCompaction
  /\ l + 1 \in Levels
  /\ Inputs(l, f) = [upper |-> {f}, lower |-> {}]
  /\ UNCHANGED <<next_file_number_, tables>>
  /\ LogAndApply([NoEdit EXCEPT !.new_files = {<<l + 1, f>>},
                                !.deleted_files = {<<l, f.number>>}], "BackgroundCompaction")

\* BackgroundCompaction goes to DoCompactionWork, which releases the mutex.
PickCompaction(l, f) ==
  /\ MayPickCompaction
  /\ l + 1 \in Levels
  /\ compact' = [level |-> l, upper |-> Inputs(l, f).upper, lower |-> Inputs(l, f).lower,
                 output |-> 0]
  /\ UNCHANGED <<memory, next_file_number_, descriptor_file_, disk, files, wal, pc,
                 locals, bg_error_, held, counts>>

\* DoCompactionWork (external) creates its output file.
OpenOutput ==
  /\ pc = "idle" /\ Working /\ compact.output = 0
  /\ NewFileNumber
  /\ compact' = [compact EXCEPT !.output = next_file_number_]
  /\ tables' = tables \cup {next_file_number_}
  /\ UNCHANGED <<memory, descriptor_file_, disk, logs, wal, pc, locals, bg_error_,
                 held, counts>>

\* The output: all the data of the inputs.
Output(c) ==
  LET inputs == c.upper \cup c.lower IN
  [number |-> c.output,
   smallest |-> Min({g.smallest : g \in inputs}),
   largest |-> Max({g.largest : g \in inputs}),
   data |-> UNION {g.data : g \in inputs}]

\* DoCompactionWork (external) has the output and applies its edit.
FinishWork ==
  /\ pc = "idle" /\ Working /\ compact.output # 0
  /\ UNCHANGED <<next_file_number_, tables>>
  /\ LogAndApply([NoEdit EXCEPT
       !.new_files = {<<compact.level + 1, Output(compact)>>},
       !.deleted_files = {<<compact.level, g.number>> : g \in compact.upper}
                    \cup {<<compact.level + 1, g.number>> : g \in compact.lower}],
       "DoCompactionWork")

\* DoCompactionWork (external) fails before it has an edit.
WorkFails ==
  /\ pc = "idle" /\ Working
  /\ faults < MaxFaults /\ faults' = faults + 1
  /\ bg_error_' = TRUE
  /\ compact' = NoCompaction
  /\ UNCHANGED <<memory, next_file_number_, descriptor_file_, disk, wal, pc, locals,
                 held, sync_faults, strays>>
  /\ RemoveObsoleteFiles(log_number_, {})

\* A Get takes and drops its reference on the current version.
RefVersion(r) ==
  /\ held[r] = nullptr
  /\ held' = [held EXCEPT ![r] = current_]
  /\ refs_' = [refs_ EXCEPT ![current_] = @ + 1]
  /\ UNCHANGED <<current_, files_, refs, compaction_, log_number_, next_file_number_,
                 descriptor_file_, disk, files, wal, compact, pc, locals, bg_error_,
                 counts>>

DropVersion(r) ==
  /\ held[r] # nullptr
  /\ held' = [held EXCEPT ![r] = nullptr]
  /\ refs_' = [refs_ EXCEPT ![held[r]] = @ - 1]
  /\ UnrefVersion(held[r])
  /\ UNCHANGED <<current_, log_number_, next_file_number_, descriptor_file_, disk,
                 files, wal, compact, pc, locals, bg_error_, counts>>

Next ==
  \/ \E K \in SUBSET UserKeys : SwitchLog(K)
  \/ \E l \in Levels : Flush(l)
  \/ FlushNothing \/ FlushFails
  \/ \E l \in Levels : \E f \in InLevel(l) : TrivialMove(l, f) \/ PickCompaction(l, f)
  \/ OpenOutput \/ FinishWork \/ WorkFails
  \/ AppendRecord \/ SyncRecord \/ SetCurrentFile \/ Install \/ Abandon
  \/ \E r \in Readers : RefVersion(r) \/ DropVersion(r)

Spec == Init /\ [][Next]_vars

-----------------------------------------------------------------------------
(* Properties *)

\* Type invariant.
TypeOK ==
  /\ current_ \in Versions
  /\ \A u \in Versions, l \in Levels : ToSet(files_[u][l]) \subseteq FileMetaData
  /\ refs_ \in [Versions -> Nat]
  /\ refs \in [Levels \X Numbers -> Nat]
  /\ next_file_number_ \in 1 .. (MaxFileNumber + 1) /\ log_number_ \in Numbers \cup {0}
  /\ \A m \in {Old, New} : synced[m] \in 0 .. Len(manifest[m])
  /\ CURRENT \in {Old, New}
  /\ tables \subseteq Numbers /\ logs \subseteq Numbers
  /\ logfile_number_ \in Numbers /\ imm_ \in Numbers \cup {nullptr}
  /\ imm_keys \subseteq UserKeys
  /\ compact.level \in Levels /\ compact.output \in Numbers \cup {0}
  /\ compact.upper \cup compact.lower \subseteq FileMetaData
  /\ caller \in {"none", "CompactMemtable", "BackgroundCompaction", "DoCompactionWork"}
  /\ pc \in {"idle", "append", "sync", "current", "install"}
  /\ edit.new_files \subseteq Levels \X FileMetaData
  /\ v \in Versions \cup {nullptr} /\ s \in {"OK", "IOError"}
  /\ {descriptor_file_, creating, bg_error_} \subseteq BOOLEAN
  /\ held \in [Readers -> Versions \cup {nullptr}]

\* Every level of every version is sorted by smallest key, and below level 0
\* no two files overlap: the assertion of MaybeAddFile (lines 224-228), after
\* any sequence of flushes, moves and merges.
LevelsSorted ==
  \A u \in Versions, l \in Levels :
    LET fs == files_[u][l] IN
    \A j \in 1 .. (Len(fs) - 1) :
      /\ BySmallestKey(fs[j], fs[j + 1])
      /\ l > 0 => fs[j].largest < fs[j + 1].smallest

\* SaveTo's merge gives, on every level, exactly the base files that the edit
\* does not delete and the files it adds.
BuilderCorrect ==
  [][pc = "idle" /\ pc' = "append" =>
       \A l \in Levels :
         ToSet(files_'[v'][l]) =
           {f \in ToSet(files_[current_][l]) : f.number \notin DeletedFiles(edit', l)}
             \cup AddedFiles(edit', l)]_vars

\* Reference counts are exact: a version's is the number of readers that hold
\* it, plus one for current_; a file's is the number of versions it is in.
\* After an edit that failed, too, nothing leaks and nothing is freed early.
VersionRefs ==
  /\ \A u \in Versions : refs_[u] =
       Cardinality({r \in Readers : held[r] = u}) + (IF u = current_ THEN 1 ELSE 0)
  /\ \A o \in Levels \X Numbers :
       refs[o] = Cardinality({u \in Versions : o \in Objects(files_[u])})

\* A file that a live version refers to is on disk, whatever was compacted and
\* removed since a reader took that version.
LiveFilesExist == LiveTables(files_) \subseteq tables

\* What recovery has read after one more record.
ReplayStep(acc, e) ==
  [files |-> {a \in acc.files : <<a[1], a[2].number>> \notin e.deleted_files} \cup e.new_files,
   log |-> IF e.log_number = 0 THEN acc.log ELSE e.log_number,
   next |-> IF e.next_file = 0 THEN acc.next ELSE e.next_file]

\* What recovery reads from the first n records of manifest m.
Replay(m, n) ==
  LET Read[i \in 0 .. n] ==
        IF i = 0 THEN [files |-> {}, log |-> 0, next |-> 0]
        ELSE ReplayStep(Read[i - 1], manifest[m][i])
  IN Read[n]

\* After a crash at any moment, with any part of the unsynced records of the
\* manifest that CURRENT names, recovery finds every table it needs, and every
\* log ever written is still there to be replayed or its writes are in one of
\* those tables ("Earlier logs no longer needed").
RecoverySound ==
  \A n \in synced[CURRENT] .. Len(manifest[CURRENT]) :
    LET found == Replay(CURRENT, n) IN
    /\ \A a \in found.files : a[2].number \in tables
    /\ \A g \in written : \/ g \in logs /\ g >= found.log
                          \/ \E a \in found.files, k \in UserKeys : <<k, g>> \in a[2].data

\* LogAndApply's assertions (lines 306-307) about the log number of an edit, and
\* what they are for: the next file number that recovery reads is beyond every
\* number that it reads with it, so that no file is overwritten by a new one.
NumbersSound ==
  /\ pc = "append" => log_number_ <= edit.log_number /\ edit.log_number < edit.next_file
  /\ \A n \in synced[CURRENT] .. Len(manifest[CURRENT]) :
       LET found == Replay(CURRENT, n) IN
       /\ found.log < found.next
       /\ \A a \in found.files : a[2].number < found.next

\* LogAndApply implements AtomicEdits.
Edits == INSTANCE AtomicEdits WITH
  state   <- FileSet(files_[current_]),
  pending <- IF pc = "idle" THEN {} ELSE {FileSet(files_[v])},
  durable <- {Replay(CURRENT, n).files : n \in synced[CURRENT] .. Len(manifest[CURRENT])}
LogAndApplyAtomic == Edits!Spec

\* A version that is about to be installed answers a Get with the newest write
\* of the key that the snapshot sees, whatever levels the writes have been
\* flushed, moved and merged to; a deletion hides what is below it; a table
\* that cannot be read gives an error, never an older write.
GetFindsNewest ==
  pc = "install" =>
    \A k \in UserKeys, snapshot \in Numbers :
      LET fs == files_[v]
          E == Seen(AllEntries(fs), k, snapshot)
          numbers == {a[2].number : a \in FileSet(fs)} IN
      \A dead \in {{}} \cup {{n} : n \in E}, bad \in {{}} \cup {{n} : n \in numbers} :
        LET r == Get(fs, k, snapshot, dead, bad) IN
        \/ r.s = "Corruption" /\ bad # {}
        \/ E # {} /\ Max(E) \notin dead /\ r.s = "OK" /\ r.value = Max(E)
        \/ (E = {} \/ Max(E) \in dead) /\ r.s = "NotFound"

\* The file that a Get charges for a seek was read, had nothing for the key,
\* and was the first such file; it is charged if another was read after it.
ChargesFirstMiss ==
  pc = "install" =>
    \A k \in UserKeys, snapshot \in Numbers :
      LET order == ForEachOverlapping(files_[v], k)
          misses == Seen(order[1][2].data, k, snapshot) = {} IN
      Get(files_[v], k, snapshot, {}, {}).seek_file =
        IF Len(order) > 1 /\ misses THEN order[1] ELSE none

\* NeedsCompaction (external) looks at the score of the best level only.  In
\* every live version no level is fuller, relative to its limit, than the level
\* Finallize has chosen, so that none that is over its limit goes unnoticed.
NoLevelMissed ==
  \A u \in Versions :
    LET c == compaction_[u] IN
    c.level # -1 /\ (refs_[u] > 0 \/ u = v) =>
      /\ \A l \in 0 .. (kNumLevels - 2) : ~Greater(Score(files_[u], l), c.score)
      /\ c.score = Score(files_[u], c.level)
=============================================================================

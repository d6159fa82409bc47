----------------------------- MODULE TableCache -----------------------------
(***************************************************************************)
(* TableCache (db/table_cache.cc) and the Table it opens (table/table.cc): *)
(* threads that call TableCache::Get or hold one of its iterators, without *)
(* a lock of their own ("table_cache_ provides its own synchronization",   *)
(* db_impl.h), and the two caches they share.                              *)
(*                                                                         *)
(* The caches are external (leveldb/cache.h is empty).  From the way they  *)
(* are used: Lookup and Insert return a handle, which counts a reference;  *)
(* Insert replaces the entry of the same key; an entry without a handle    *)
(* may be dropped at any time, for room; an entry is deleted when it is    *)
(* neither in the cache nor held.  The contents of a block are the file    *)
(* and the offset they were read from.                                     *)
(***************************************************************************)
EXTENDS Integers, FiniteSets, FiniteSetsExt

CONSTANTS
  Threads,
  Numbers,        \* numbers of the table files
  Recovered,      \* the tables of the database that was opened
  Offsets,        \* the data blocks of a file
  FileSize,       \* the size of a table file
  BlockCache,     \* TRUE: options.block_cache is not null
  FilterPolicy,   \* TRUE: options.filter_policy is not null
  MaxOpens,       \* bound: calls of NewId
  MaxFaults       \* bound: failing reads and opens

ASSUME SetAssumption == /\ IsFiniteSet(Threads) /\ IsFiniteSet(Offsets)
                        /\ Numbers \subseteq Nat \ {0} /\ IsFiniteSet(Numbers)
                        /\ Recovered \subseteq Numbers
ASSUME SizeAssumption == {FileSize, MaxOpens, MaxFaults} \subseteq Nat
ASSUME OptionAssumption == {BlockCache, FilterPolicy} \subseteq BOOLEAN

kEncodedLength == 2 * 20 + 8     \* of a footer: two block handles, a magic number
Keys == (0 .. MaxOpens) \X Offsets           \* of the block cache

\* Addresses of objects: at most one table of a file is in the cache, and at
\* most one more for each thread is alive; the same for the blocks of a key.
nullptr == <<>>
Slots  == 1 .. (Cardinality(Threads) + 1)
Tables == Numbers \X Slots
Blocks == Keys \X Slots

VARIABLES
  cache_,        \* the table cache: the TableAndFile of each number
  table,         \* its Tables: file number, cache_id, filter, references
  block_cache,   \* the block cache: the Block of each key
  block,         \* its Blocks: what was read, references
  last_id,       \* of block_cache->NewId()
  open_files,    \* RandomAccessFiles that are open
  disk,          \* table files on disk
  live,          \* numbers that a live version refers to
  pc, rd,        \* where each thread is, and its locals
  faults

tableVars == <<cache_, table, open_files>>
blockVars == <<block_cache, block, last_id>>
fileVars  == <<disk, live>>
vars == <<tableVars, blockVars, fileVars, pc, rd, faults>>

\* Locals of Get, FindTable and BlockReader: what was asked for, the handle,
\* the block at hand, and whether the key is in the table at all.
NoCall == [number |-> 0, size |-> 0, iter |-> FALSE, present |-> FALSE,
           s |-> "OK", handle |-> nullptr, offset |-> 0,
           block |-> nullptr, read |-> FALSE]
NoTable == [number |-> 0, cache_id |-> 0, filter |-> "none", refs |-> 0]
NoBlock == [number |-> 0, offset |-> 0, refs |-> 0]

Init ==
  /\ cache_ = [n \in Numbers |-> nullptr]
  /\ table = [u \in Tables |-> NoTable]
  /\ block_cache = [k \in Keys |-> nullptr]
  /\ block = [b \in Blocks |-> NoBlock]
  /\ last_id = 0 /\ open_files = 0
  /\ disk = Recovered /\ live = Recovered
  /\ pc = [t \in Threads |-> "idle"]
  /\ rd = [t \in Threads |-> NoCall]
  /\ faults = 0

EnvStatus == IF faults < MaxFaults THEN {"OK", "IOError"} ELSE {"OK"}
CountFault(s) == faults' = IF s = "OK" THEN faults ELSE faults + 1

Goto(t, label) == pc' = [pc EXCEPT ![t] = label]
FreeTable(n) == <<n, Min({i \in Slots : table[<<n, i>>].refs = 0})>>
FreeBlock(k) == <<k, Min({i \in Slots : block[<<k, i>>].refs = 0})>>

-----------------------------------------------------------------------------
(* Entries of the caches *)

\* DeleteEntry: the table and its file are deleted.
DeleteEntry(n) == n - 1

\* Release of a handle, or of the cache's own reference, in the table cache.
UnrefEntry(tab, u) ==
  IF tab[u].refs = 1 THEN [tab EXCEPT ![u] = NoTable]
                     ELSE [tab EXCEPT ![u].refs = @ - 1]
FilesAfterUnref(u) == IF table[u].refs = 1 THEN DeleteEntry(open_files) ELSE open_files

\* The same in the block cache; DeleteBlock for a block that is in no cache.
UnrefBlock(blk, b) ==
  IF blk[b].refs = 1 THEN [blk EXCEPT ![b] = NoBlock]
                     ELSE [blk EXCEPT ![b].refs = @ - 1]

-----------------------------------------------------------------------------
(* FindTable *)

\* A call begins: Lookup.  On a hit the handle is held from here on.
FindTable(t, n, size, iter, present) ==
  LET call == [NoCall EXCEPT !.number = n, !.size = size, !.iter = iter,
                             !.present = present, !.handle = cache_[n]] IN
  /\ pc[t] = "idle"
  /\ rd' = [rd EXCEPT ![t] = call]
  /\ IF cache_[n] # nullptr
       THEN /\ table' = [table EXCEPT ![cache_[n]].refs = @ + 1]
            /\ Goto(t, "table")
       ELSE Goto(t, "open") /\ UNCHANGED table
  /\ UNCHANGED <<blockVars, fileVars, cache_, open_files, faults>>

\* The bound: calls in progress can still open their tables.
Room == last_id + Cardinality({t \in Threads : pc[t] # "idle"}) < MaxOpens

\* TableCache::Get, and NewIterator (external), for a file of a version that
\* the caller holds.
Get(t) ==
  /\ Room
  /\ \E n \in live, iter, present \in BOOLEAN :
       /\ iter => ~present
       /\ FindTable(t, n, FileSize, iter, present)

\* The call is over, with status s and no handle.
Return(t, s) ==
  /\ Goto(t, "idle")
  /\ rd' = [rd EXCEPT ![t] = [NoCall EXCEPT !.s = s]]

\* NewRandomAccessFile under the one name, then under the other.
OpenFile(t) ==
  /\ pc[t] = "open"
  /\ \E s \in EnvStatus :
       /\ CountFault(s)
       /\ IF s = "OK"
            THEN /\ open_files' = open_files + 1
                 /\ Goto(t, "footer")
                 /\ UNCHANGED rd
            ELSE Return(t, s) /\ UNCHANGED open_files
  /\ UNCHANGED <<blockVars, fileVars, cache_, table>>

\* Mutant: a footer is read that the file is too short for.
MutTooShort(size) == FALSE

\* Table::Open refuses a file that has no room for a footer.
TooShort(size) == size < kEncodedLength

\* Mutant: the file stays open when its table cannot be opened.
MutOpenFails(t, s) ==
  /\ Return(t, s)
  /\ UNCHANGED open_files

\* Table::Open failed: the file is closed.
OpenFails(t, s) ==
  /\ Return(t, s)
  /\ open_files' = open_files - 1

\* Mutant: a filter is made of a block that could not be read.
MutReadMeta(meta, filter) == IF ~FilterPolicy THEN "none"
                             ELSE IF meta /\ filter THEN "good" ELSE "garbage"

\* ReadMeta and ReadFilter, given which of their two reads succeed (a table
\* written without a filter, or a handle that does not decode, is like a read
\* that fails): "don't propagate errors since meta info is not needed".
ReadMeta(meta, filter) == IF FilterPolicy /\ meta /\ filter THEN "good" ELSE "none"

\* Mutant: all tables share one id.
MutNewId == 0

\* The cache_id of a new Table.
NewId == IF BlockCache THEN last_id + 1 ELSE 0

\* Table::Open: size, footer and index block, and then the meta blocks.
OpenTable(t) ==
  /\ pc[t] = "footer"
  /\ \E s \in IF TooShort(rd[t].size) THEN {"Corruption"} ELSE EnvStatus,
        meta, filter \in BOOLEAN :
       /\ CountFault(IF s = "Corruption" THEN "OK" ELSE s)
       /\ s # "OK" => meta /\ filter
       /\ IF s # "OK"
            THEN OpenFails(t, s) /\ UNCHANGED <<table, last_id>>
            ELSE LET u == FreeTable(rd[t].number) IN
                 /\ table' = [table EXCEPT ![u] =
                      [number |-> rd[t].number, cache_id |-> NewId,
                       filter |-> ReadMeta(meta, filter), refs |-> 1]]
                 /\ rd' = [rd EXCEPT ![t].handle = u]
                 /\ last_id' = IF BlockCache THEN last_id + 1 ELSE last_id
                 /\ Goto(t, "insert")
                 /\ UNCHANGED open_files
  /\ UNCHANGED <<fileVars, cache_, block_cache, block>>

\* cache_->Insert, with n references for the entry: another thread may have
\* opened the same file meanwhile.
InsertTable(t, n) ==
  LET number == rd[t].number
      old == cache_[number]
      held == [table EXCEPT ![rd[t].handle].refs = n] IN
  /\ pc[t] = "insert"
  /\ cache_' = [cache_ EXCEPT ![number] = rd[t].handle]
  /\ table' = IF old = nullptr THEN held ELSE UnrefEntry(held, old)
  /\ open_files' = IF old = nullptr THEN open_files ELSE FilesAfterUnref(old)
  /\ Goto(t, "table")
  /\ UNCHANGED <<blockVars, fileVars, rd, faults>>

\* Mutant: the handle that Insert returns counts no reference.
MutInsert(t) == InsertTable(t, 1)

\* One reference for the cache and one for the handle.
Insert(t) == InsertTable(t, 2)

-----------------------------------------------------------------------------
(* InternalGet and BlockReader *)

\* The table of thread t, and the key of a block of it in the block cache.
Opened(t) == table[rd[t].handle]
CacheKey(t, o) == <<Opened(t).cache_id, o>>

\* InternalGet (external) asks the filter: a good one never denies a key that
\* is there.
FilterSkips(t) ==
  /\ pc[t] = "table" /\ ~rd[t].iter
  /\ Opened(t).filter \in IF rd[t].present THEN {"garbage"} ELSE {"good", "garbage"}
  /\ Goto(t, "release")
  /\ UNCHANGED <<tableVars, blockVars, fileVars, rd, faults>>

\* BlockReader when the index entry cannot be decoded: an error iterator.
BadHandle(t) ==
  /\ pc[t] = "table"
  /\ faults < MaxFaults /\ faults' = faults + 1
  /\ rd' = [rd EXCEPT ![t].s = "Corruption"]
  /\ Goto(t, "release")
  /\ UNCHANGED <<tableVars, blockVars, fileVars>>

\* BlockReader, the block being at offset o: Lookup in the block cache.
BlockLookup(t, o) ==
  LET b == IF BlockCache THEN block_cache[CacheKey(t, o)] ELSE nullptr IN
  /\ pc[t] = "table"
  /\ rd' = [rd EXCEPT ![t].offset = o, ![t].block = b, ![t].read = TRUE]
  /\ IF b # nullptr
       THEN block' = [block EXCEPT ![b].refs = @ + 1] /\ Goto(t, "iterate")
       ELSE Goto(t, "read") /\ UNCHANGED block
  /\ UNCHANGED <<tableVars, fileVars, block_cache, last_id, faults>>

\* ReadBlock: an error iterator, or a block that goes to the cache if it can
\* be cached and the caller's options say so.
ReadBlock(t) ==
  /\ pc[t] = "read"
  /\ \E s \in EnvStatus, cachable, fill_cache \in BOOLEAN :
       /\ CountFault(s)
       /\ s # "OK" => cachable /\ fill_cache
       /\ IF s # "OK"
            THEN /\ rd' = [rd EXCEPT ![t].s = s]
                 /\ Goto(t, "release")
                 /\ UNCHANGED block
            ELSE LET b == FreeBlock(CacheKey(t, rd[t].offset)) IN
                 /\ block' = [block EXCEPT ![b] =
                      [number |-> Opened(t).number, offset |-> rd[t].offset, refs |-> 1]]
                 /\ rd' = [rd EXCEPT ![t].block = b]
                 /\ Goto(t, IF BlockCache /\ cachable /\ fill_cache THEN "fill"
                            ELSE "iterate")
  /\ UNCHANGED <<tableVars, fileVars, block_cache, last_id>>

\* block_cache->Insert, with n references for the block.
InsertBlock(t, n) ==
  LET key == CacheKey(t, rd[t].offset)
      old == block_cache[key]
      held == [block EXCEPT ![rd[t].block].refs = n] IN
  /\ pc[t] = "fill"
  /\ block_cache' = [block_cache EXCEPT ![key] = rd[t].block]
  /\ block' = IF old = nullptr THEN held ELSE UnrefBlock(held, old)
  /\ Goto(t, "iterate")
  /\ UNCHANGED <<tableVars, last_id, fileVars, rd, faults>>

\* Mutant: the caller deletes the block that it has put into the cache.
MutFillCache(t) == InsertBlock(t, 1)

\* The cache owns the block now, and the iterator a handle.
FillCache(t) == InsertBlock(t, 2)

\* The block's iterator is deleted, and its cleanup (DeleteBlock or
\* ReleaseBlock) runs; the iterator of a table may go on to another block.
EndBlock(t) ==
  /\ pc[t] = "iterate"
  /\ block' = UnrefBlock(block, rd[t].block)
  /\ rd' = [rd EXCEPT ![t].block = nullptr, ![t].offset = 0]
  /\ \/ Goto(t, "release")
     \/ rd[t].iter /\ Goto(t, "table")
  /\ UNCHANGED <<tableVars, fileVars, block_cache, last_id, faults>>

\* cache_->Release(handle), at the end of Get or as the cleanup of an iterator.
Release(t) ==
  /\ pc[t] = "release"
  /\ table' = UnrefEntry(table, rd[t].handle)
  /\ open_files' = FilesAfterUnref(rd[t].handle)
  /\ Return(t, rd[t].s)
  /\ UNCHANGED <<blockVars, fileVars, cache_, faults>>

-----------------------------------------------------------------------------
(* The caches make room, and obsolete files are removed *)

DropEntry(n) ==
  /\ cache_' = [cache_ EXCEPT ![n] = nullptr]
  /\ table' = UnrefEntry(table, cache_[n])
  /\ open_files' = FilesAfterUnref(cache_[n])

EvictTable(n) ==
  /\ cache_[n] # nullptr
  /\ table[cache_[n]].refs = 1
  /\ DropEntry(n)
  /\ UNCHANGED <<blockVars, fileVars, pc, rd, faults>>

EvictBlock(k) ==
  /\ block_cache[k] # nullptr
  /\ block[block_cache[k]].refs = 1
  /\ block_cache' = [block_cache EXCEPT ![k] = nullptr]
  /\ block' = UnrefBlock(block, block_cache[k])
  /\ UNCHANGED <<tableVars, fileVars, last_id, pc, rd, faults>>

\* RemoveObsoleteFiles (external): no live version has the file any more, so
\* nobody reads it (VersionSet, LiveFilesExist); Evict and RemoveFile.
RemoveTable(n) ==
  /\ n \in live
  /\ \A t \in Threads : pc[t] # "idle" => rd[t].number # n
  /\ disk' = disk \ {n} /\ live' = live \ {n}
  /\ IF cache_[n] # nullptr THEN DropEntry(n) ELSE UNCHANGED <<tableVars>>
  /\ UNCHANGED <<blockVars, pc, rd, faults>>

Continue(t) ==
  \/ OpenFile(t) \/ OpenTable(t) \/ Insert(t)
  \/ FilterSkips(t) \/ BadHandle(t) \/ \E o \in Offsets : BlockLookup(t, o)
  \/ ReadBlock(t) \/ FillCache(t) \/ EndBlock(t) \/ Release(t)

CacheStep ==
  \/ \E t \in Threads : Continue(t)
  \/ \E n \in Numbers : EvictTable(n) \/ RemoveTable(n)
  \/ \E k \in Keys : EvictBlock(k)

-----------------------------------------------------------------------------
(* Properties *)

\* Type invariant.
TypeOK ==
  /\ cache_ \in [Numbers -> Tables \cup {nullptr}]
  /\ table \in [Tables -> [number : Numbers \cup {0}, cache_id : 0 .. MaxOpens,
                           filter : {"none", "good", "garbage"}, refs : Nat]]
  /\ block_cache \in [Keys -> Blocks \cup {nullptr}]
  /\ block \in [Blocks -> [number : Numbers \cup {0}, offset : Offsets \cup {0}, refs : Nat]]
  /\ last_id \in 0 .. MaxOpens /\ open_files \in Nat
  /\ live \subseteq disk /\ disk \subseteq Numbers
  /\ pc \in [Threads -> {"idle", "open", "footer", "insert", "table", "read", "fill",
                         "iterate", "release"}]
  /\ rd \in [Threads ->
       [number : Numbers \cup {0}, size : Nat, iter : BOOLEAN, present : BOOLEAN,
        s : {"OK", "IOError", "Corruption"},
        handle : Tables \cup {nullptr}, offset : Offsets \cup {0},
        block : Blocks \cup {nullptr}, read : BOOLEAN]]
  /\ faults \in 0 .. MaxFaults

\* Two threads that miss the same file both open and insert it.  Whatever
\* follows, a table is deleted when the last handle and the cache let go of
\* it, not before and not later, and its file is closed with it: every open
\* file belongs to a table or to a thread inside Table::Open.
HandlesExact ==
  /\ \A u \in Tables : table[u].refs =
       Cardinality({t \in Threads : rd[t].handle = u})
         + Cardinality({n \in Numbers : cache_[n] = u})
  /\ open_files = Cardinality({u \in Tables : table[u].refs > 0})
                    + Cardinality({t \in Threads : pc[t] = "footer"})

\* A block is deleted once, by the thread that read it or by the cache,
\* whether it was cached, could not be, or was replaced by another thread's.
BlocksExact ==
  \A b \in Blocks : block[b].refs =
    Cardinality({t \in Threads : rd[t].block = b})
      + Cardinality({k \in Keys : block_cache[k] = b})

\* What a thread iterates over is the block it asked for, of the file it asked
\* for: a block left in the cache by a table that was closed since, or by
\* another table, is never taken for it.
ReadsOwnBlock ==
  \A t \in Threads : pc[t] = "iterate" =>
    /\ Opened(t).number = rd[t].number
    /\ block[rd[t].block].number = rd[t].number
    /\ block[rd[t].block].offset = rd[t].offset

\* A Get of a key that the table has, and that returns OK, has read the key's
\* block, whatever failed while the filter was read.
FilterHidesNothing ==
  \A t \in Threads : pc[t] = "release" /\ rd[t].present /\ rd[t].s = "OK" => rd[t].read

\* No table is open on a file that was removed, so that the file's space is
\* really given back.
RemovedFilesClosed == \A u \in Tables : table[u].refs > 0 => table[u].number \in disk
=============================================================================

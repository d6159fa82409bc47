---------------------------- MODULE BuilderProofs ----------------------------
(***************************************************************************)
(* Proofs about the table cache, the block cache and BuildTable, for any   *)
(* number of threads, files, blocks, opens and failures.  The argument is  *)
(* circular: a table is closed in time because its count is exact, the     *)
(* count is exact because an address is reused only when nobody has it,    *)
(* and there is an address to reuse because the counts are exact.  All     *)
(* three are therefore parts of one inductive invariant.                   *)
(***************************************************************************)
EXTENDS Builder, Counting

\* Where a thread has a handle of the table cache, and where it has a block.
Holding == {"insert", "table", "read", "fill", "iterate", "release"}
Reading == {"fill", "iterate"}

\* The locals of a call, by where it is.
CallOK(t) ==
  /\ pc[t] # "idle" => rd[t].number \in Numbers
  /\ pc[t] \notin Holding => rd[t].handle = nullptr
  /\ pc[t] \in Holding => rd[t].handle \in Tables /\ rd[t].handle[1] = rd[t].number
  /\ pc[t] \notin Reading => rd[t].block = nullptr
  /\ pc[t] \in Reading => rd[t].block \in Blocks
  /\ pc[t] \in {"read", "fill", "iterate"} => rd[t].offset \in Offsets /\ rd[t].read
  /\ pc[t] = "fill" => BlockCache
Calls == \A t \in Threads : CallOK(t)

\* A table that is not in the cache yet is known to one thread only.
Unshared ==
  \A t \in Threads : pc[t] = "insert" =>
    /\ \A w \in Threads \ {t} : rd[w].handle # rd[t].handle
    /\ \A n \in Numbers : cache_[n] # rd[t].handle

\* Tables that are alive: of live files, under the number of their file, and
\* with an id that no other has.
TablesAlive ==
  /\ \A n \in Numbers : cache_[n] # nullptr => cache_[n][1] = n
  /\ \A u \in Tables : table[u].filter # "garbage"
  /\ \A u \in Tables : table[u].refs > 0 =>
       /\ table[u].number = u[1] /\ u[1] \in live
       /\ table[u].cache_id <= last_id
  /\ BlockCache => \A u, w \in Tables :
       table[u].refs > 0 /\ table[w].refs > 0 /\ table[u].cache_id = table[w].cache_id
         => u = w

\* The references of tables, the first part of HandlesExact, and the open
\* files, the second.
RefsExact ==
  \A u \in Tables : table[u].refs =
    Cardinality({t \in Threads : rd[t].handle = u})
      + Cardinality({n \in Numbers : cache_[n] = u})
FilesExact ==
  open_files = Cardinality({u \in Tables : table[u].refs > 0})
                 + Cardinality({t \in Threads : pc[t] = "footer"})

\* A block that a thread is about to put into the cache is its own; a block at
\* hand is the one asked for; a cached block is of the table with the id of its key.
BlocksUnshared ==
  \A t \in Threads : pc[t] = "fill" =>
    /\ rd[t].block[1] = CacheKey(t, rd[t].offset)
    /\ \A w \in Threads \ {t} : rd[w].block # rd[t].block
    /\ \A k \in Keys : block_cache[k] # rd[t].block
BlocksAtHand ==
  \A t \in Threads : pc[t] \in Reading =>
    /\ block[rd[t].block].number = rd[t].number
    /\ block[rd[t].block].offset = rd[t].offset
BlocksCached ==
  \A k \in Keys : block_cache[k] # nullptr =>
    /\ BlockCache /\ block_cache[k][1] = k /\ k[1] <= last_id
    /\ block[block_cache[k]].offset = k[2]
    /\ \A u \in Tables : table[u].refs > 0 /\ table[u].cache_id = k[1] =>
         block[block_cache[k]].number = table[u].number

\* Calls that will still call NewId fit under the bound.
Opening == {t \in Threads : pc[t] \in {"open", "footer"} /\ ~TooShort(rd[t].size)}
RoomLeft == last_id + Cardinality(Opening) <= MaxOpens

\* BuildTable: the file it writes is not live, and it is the one file on disk
\* that nobody knows of; the check opens it with size 0.
Building ==
  /\ meta.file_size = 0
  /\ live \subseteq taken /\ taken \subseteq Numbers
  /\ bpc \in {"idle", "create", "write", "check", "checking", "end"}
  /\ bpc # "idle" => meta.number \in Numbers /\ meta.number \notin live
  /\ disk \subseteq live \cup left
       \cup (IF bpc \in {"idle", "create"} THEN {} ELSE {meta.number})
  /\ bpc \notin {"idle", "checking"} => pc[Background] = "idle"
  /\ bpc = "checking" => /\ pc[Background] \in {"idle", "open", "footer"}
                         /\ pc[Background] # "idle" => rd[Background].size = 0
  /\ \A t \in Threads : pc[t] # "idle" =>
       rd[t].number \in live \/ (t = Background /\ bpc = "checking")

\* The inductive invariant: of the two caches, and with the bound and BuildTable.
CacheInv == /\ TypeOK /\ Calls /\ Unshared /\ TablesAlive /\ RefsExact /\ FilesExact
            /\ BlocksExact /\ BlocksUnshared /\ BlocksAtHand /\ BlocksCached
            /\ FilterHidesNothing
IInv == CacheInv /\ RoomLeft /\ Building

-----------------------------------------------------------------------------
(* Addresses *)

TableRecords == [number : Numbers \cup {0}, cache_id : 0 .. MaxOpens,
                 filter : {"none", "good", "garbage"}, refs : Nat]
BlockRecords == [number : Numbers \cup {0}, offset : Offsets \cup {0}, refs : Nat]
CallRecords ==
  [number : Numbers \cup {0}, size : Nat, iter : BOOLEAN, present : BOOLEAN,
   s : {"OK", "IOError", "Corruption"},
   handle : Tables \cup {nullptr}, offset : Offsets \cup {0},
   block : Blocks \cup {nullptr}, read : BOOLEAN]
Labels == {"idle", "open", "footer", "insert", "table", "read", "fill", "iterate",
           "release"}

\* An address is a file number (or a key) and a slot, and never null.
LEMMA Addresses ==
  /\ nullptr \notin Tables /\ nullptr \notin Blocks
  /\ \A u \in Tables : u[1] \in Numbers /\ u[2] \in Slots /\ u = <<u[1], u[2]>>
  /\ \A b \in Blocks : b[1] \in Keys /\ b[2] \in Slots /\ b = <<b[1], b[2]>>
  /\ \A k \in Keys : k[1] \in 0 .. MaxOpens /\ k[2] \in Offsets /\ k = <<k[1], k[2]>>
BY DEF nullptr, Tables, Blocks, Keys

LEMMA Finiteness ==
  /\ IsFiniteSet(Threads) /\ IsFiniteSet(Numbers) /\ IsFiniteSet(Keys)
  /\ IsFiniteSet(Slots) /\ IsFiniteSet(Tables) /\ IsFiniteSet(Blocks)
  /\ Cardinality(Threads) \in Nat /\ Cardinality(Slots) = Cardinality(Threads) + 1
<1>1. IsFiniteSet(Threads) /\ IsFiniteSet(Numbers) /\ IsFiniteSet(Offsets)
  BY SetAssumption
<1>2. Cardinality(Threads) \in Nat
  BY <1>1, FS_CardinalityType
<1>3. IsFiniteSet(Slots) /\ Cardinality(Slots) = Cardinality(Threads) + 1
  BY <1>2, FS_Interval DEF Slots
<1>4. IsFiniteSet(0 .. MaxOpens)
  BY SizeAssumption, FS_Interval
<1>5. IsFiniteSet(Keys)
  BY <1>1, <1>4, FS_Product DEF Keys
<1>6. IsFiniteSet(Tables) /\ IsFiniteSet(Blocks)
  BY <1>1, <1>3, <1>5, FS_Product DEF Tables, Blocks
<1> QED
  BY <1>1, <1>2, <1>3, <1>5, <1>6

\* A table that a thread or the cache refers to has a reference, and one
\* without a reference is nobody's.
LEMMA TableHeld ==
  ASSUME TypeOK, RefsExact, NEW u \in Tables
  PROVE  /\ table[u].refs \in Nat
         /\ \A t \in Threads : rd[t].handle = u => table[u].refs > 0
         /\ \A n \in Numbers : cache_[n] = u => table[u].refs > 0
<1> DEFINE H == {t \in Threads : rd[t].handle = u}
           C == {n \in Numbers : cache_[n] = u}
<1>1. table[u].refs = Cardinality(H) + Cardinality(C)
  BY DEF RefsExact
<1>2. Cardinality(H) \in Nat /\ (Cardinality(H) = 0 <=> H = {})
  BY Finiteness, CountZero
<1>3. Cardinality(C) \in Nat /\ (Cardinality(C) = 0 <=> C = {})
  BY Finiteness, CountZero
<1>4. (\A t \in Threads : rd[t].handle = u => H # {})
      /\ (\A n \in Numbers : cache_[n] = u => C # {})
  OBVIOUS
<1> HIDE DEF H, C
<1> QED
  BY <1>1, <1>2, <1>3, <1>4

LEMMA TableHeldAfter ==
  ASSUME RefsExact', NEW t \in Threads, rd'[t].handle \in Tables
  PROVE  table'[rd'[t].handle].refs > 0
<1> DEFINE u == rd'[t].handle
           H == {w \in Threads : rd'[w].handle = u}
           C == {n \in Numbers : cache_'[n] = u}
<1>1. table'[u].refs = Cardinality(H) + Cardinality(C)
  BY DEF RefsExact
<1>2. Cardinality(H) \in Nat /\ (Cardinality(H) = 0 <=> H = {})
  BY Finiteness, CountZero
<1>3. Cardinality(C) \in Nat
  BY Finiteness, CountZero
<1>4. H # {}
  OBVIOUS
<1> HIDE DEF H, C, u
<1>5. table'[u].refs > 0
  BY <1>1, <1>2, <1>3, <1>4
<1> QED
  BY <1>5 DEF u

LEMMA BlockHeld ==
  ASSUME TypeOK, BlocksExact, NEW b \in Blocks
  PROVE  /\ block[b].refs \in Nat
         /\ \A t \in Threads : rd[t].block = b => block[b].refs > 0
         /\ \A k \in Keys : block_cache[k] = b => block[b].refs > 0
<1> DEFINE H == {t \in Threads : rd[t].block = b}
           C == {k \in Keys : block_cache[k] = b}
<1>1. block[b].refs = Cardinality(H) + Cardinality(C)
  BY DEF BlocksExact
<1>2. Cardinality(H) \in Nat /\ (Cardinality(H) = 0 <=> H = {})
  BY Finiteness, CountZero
<1>3. Cardinality(C) \in Nat /\ (Cardinality(C) = 0 <=> C = {})
  BY Finiteness, CountZero
<1>4. (\A t \in Threads : rd[t].block = b => H # {})
      /\ (\A k \in Keys : block_cache[k] = b => C # {})
  OBVIOUS
<1> HIDE DEF H, C
<1> QED
  BY <1>1, <1>2, <1>3, <1>4

\* A thread that has no table yet finds an address for one: the others have at
\* most one each, and the cache one of each file.
LEMMA FreeTableExists ==
  ASSUME TypeOK, Calls, TablesAlive, RefsExact, NEW t \in Threads,
         rd[t].handle = nullptr, NEW n \in Numbers
  PROVE  /\ FreeTable(n) \in Tables /\ FreeTable(n)[1] = n
         /\ table[FreeTable(n)].refs = 0
<1> DEFINE Free == {i \in Slots : table[<<n, i>>].refs = 0}
<1>1. \A i \in Slots : <<n, i>> \in Tables
  BY DEF Tables
<1>2. Free # {}
  <2> SUFFICES ASSUME Free = {} PROVE FALSE
    OBVIOUS
  <2> DEFINE Owner(i) == IF cache_[n] = <<n, i>> THEN t
                         ELSE CHOOSE w \in Threads : rd[w].handle = <<n, i>>
             f == [i \in Slots |-> Owner(i)]
  <2>1. ASSUME NEW i \in Slots, cache_[n] # <<n, i>>
        PROVE  \E w \in Threads : rd[w].handle = <<n, i>>
    <3> DEFINE u == <<n, i>>
               H == {w \in Threads : rd[w].handle = u}
               C == {m \in Numbers : cache_[m] = u}
    <3>1. u \in Tables /\ table[u].refs # 0
      BY <1>1
    <3>2. C = {}
      <4>1. ASSUME NEW m \in Numbers, cache_[m] = u PROVE FALSE
        <5>1. cache_[m] # nullptr
          BY <3>1, <4>1, Addresses
        <5>2. cache_[m][1] = m
          BY <4>1, <5>1 DEF TablesAlive
        <5>3. m = n
          BY <4>1, <5>2
        <5> QED
          BY <2>1, <4>1, <5>3
      <4> QED
        BY <4>1
    <3>3. table[u].refs = Cardinality(H) + Cardinality(C)
      BY <3>1 DEF RefsExact
    <3>4. Cardinality(C) = 0 /\ Cardinality(H) \in Nat /\ (Cardinality(H) = 0 <=> H = {})
      BY <3>2, Finiteness, CountZero
    <3>5. H # {}
      BY <3>1, <3>3, <3>4
    <3> QED
      BY <3>5
  <2>2. \A i \in Slots : Owner(i) \in Threads
    BY <2>1
  <2>3. \A i \in Slots : \/ Owner(i) = t /\ cache_[n] = <<n, i>>
                         \/ rd[Owner(i)].handle = <<n, i>>
    BY <2>1
  <2> HIDE DEF Owner
  <2>4. f \in [Slots -> Threads]
    BY <2>2
  <2>5. Cardinality(Threads) < Cardinality(Slots)
    BY Finiteness
  <2>6. \E x, y \in Slots : x # y /\ f[x] = f[y]
    <3> HIDE DEF f
    <3> QED
      BY <2>4, <2>5, Finiteness, FS_PigeonHole
  <2>7. PICK x \in Slots, y \in Slots : x # y /\ Owner(x) = Owner(y)
    BY <2>6
  <2>8. <<n, x>> # nullptr /\ <<n, y>> # nullptr /\ <<n, x>> # <<n, y>>
    BY <1>1, <2>7, Addresses
  <2> QED
    BY <2>3, <2>7, <2>8
<1>3. Free \subseteq Nat
  BY Finiteness DEF Slots
<1>4. Min(Free) \in Free
  BY <1>2, <1>3, LeastElement
<1> QED
  BY <1>1, <1>4 DEF FreeTable

\* The same for a thread that has no block at hand.
LEMMA FreeBlockExists ==
  ASSUME TypeOK, Calls, BlocksCached, BlocksExact, NEW t \in Threads,
         rd[t].block = nullptr, NEW k \in Keys
  PROVE  /\ FreeBlock(k) \in Blocks /\ FreeBlock(k)[1] = k
         /\ block[FreeBlock(k)].refs = 0
<1> DEFINE Free == {i \in Slots : block[<<k, i>>].refs = 0}
<1>1. \A i \in Slots : <<k, i>> \in Blocks
  BY DEF Blocks
<1>2. Free # {}
  <2> SUFFICES ASSUME Free = {} PROVE FALSE
    OBVIOUS
  <2> DEFINE Owner(i) == IF block_cache[k] = <<k, i>> THEN t
                         ELSE CHOOSE w \in Threads : rd[w].block = <<k, i>>
             f == [i \in Slots |-> Owner(i)]
  <2>1. ASSUME NEW i \in Slots, block_cache[k] # <<k, i>>
        PROVE  \E w \in Threads : rd[w].block = <<k, i>>
    <3> DEFINE b == <<k, i>>
               H == {w \in Threads : rd[w].block = b}
               C == {m \in Keys : block_cache[m] = b}
    <3>1. b \in Blocks /\ block[b].refs # 0
      BY <1>1
    <3>2. C = {}
      <4>1. ASSUME NEW m \in Keys, block_cache[m] = b PROVE FALSE
        <5>1. block_cache[m] # nullptr
          BY <3>1, <4>1, Addresses
        <5>2. block_cache[m][1] = m
          BY <4>1, <5>1 DEF BlocksCached
        <5>3. m = k
          BY <4>1, <5>2
        <5> QED
          BY <2>1, <4>1, <5>3
      <4> QED
        BY <4>1
    <3>3. block[b].refs = Cardinality(H) + Cardinality(C)
      BY <3>1 DEF BlocksExact
    <3>4. Cardinality(C) = 0 /\ Cardinality(H) \in Nat /\ (Cardinality(H) = 0 <=> H = {})
      BY <3>2, Finiteness, CountZero
    <3>5. H # {}
      BY <3>1, <3>3, <3>4
    <3> QED
      BY <3>5
  <2>2. \A i \in Slots : Owner(i) \in Threads
    BY <2>1
  <2>3. \A i \in Slots : \/ Owner(i) = t /\ block_cache[k] = <<k, i>>
                         \/ rd[Owner(i)].block = <<k, i>>
    BY <2>1
  <2> HIDE DEF Owner
  <2>4. f \in [Slots -> Threads]
    BY <2>2
  <2>5. Cardinality(Threads) < Cardinality(Slots)
    BY Finiteness
  <2>6. \E x, y \in Slots : x # y /\ f[x] = f[y]
    <3> HIDE DEF f
    <3> QED
      BY <2>4, <2>5, Finiteness, FS_PigeonHole
  <2>7. PICK x \in Slots, y \in Slots : x # y /\ Owner(x) = Owner(y)
    BY <2>6
  <2>8. <<k, x>> # nullptr /\ <<k, y>> # nullptr /\ <<k, x>> # <<k, y>>
    BY <1>1, <2>7, Addresses
  <2> QED
    BY <2>3, <2>7, <2>8
<1>3. Free \subseteq Nat
  BY Finiteness DEF Slots
<1>4. Min(Free) \in Free
  BY <1>2, <1>3, LeastElement
<1> QED
  BY <1>1, <1>4 DEF FreeBlock
-----------------------------------------------------------------------------
(* One step of a count *)

Alive(r) == IF r > 0 THEN 1 ELSE 0

\* A step in which one thread's handle and one entry of the table cache change
\* keeps the counts exact, if it counts what it takes and what it gives back.
LEMMA RefsStep ==
  ASSUME RefsExact, NEW t \in Threads, NEW n \in Numbers,
         \A w \in Threads : w # t => rd'[w].handle = rd[w].handle,
         \A m \in Numbers : m # n => cache_'[m] = cache_[m],
         \A u \in Tables : table'[u].refs = table[u].refs
           + (Eq(rd'[t].handle, u) - Eq(rd[t].handle, u))
           + (Eq(cache_'[n], u) - Eq(cache_[n], u))
  PROVE  RefsExact'
<1> SUFFICES ASSUME NEW u \in Tables
             PROVE  table'[u].refs = Cardinality({w \in Threads : rd'[w].handle = u})
                                       + Cardinality({m \in Numbers : cache_'[m] = u})
  BY DEF RefsExact
<1> DEFINE A == {w \in Threads : rd[w].handle = u}
           B == {w \in Threads : rd'[w].handle = u}
           C == {m \in Numbers : cache_[m] = u}
           D == {m \in Numbers : cache_'[m] = u}
<1>1. /\ Cardinality(A) \in Nat /\ Cardinality(B) \in Nat
      /\ Cardinality(B) = Cardinality(A) + Eq(rd'[t].handle, u) - Eq(rd[t].handle, u)
  <2>1. A \ {t} = B \ {t} /\ IsFiniteSet(A)
    BY Finiteness, FS_Subset
  <2>2. In(t, A) = Eq(rd[t].handle, u) /\ In(t, B) = Eq(rd'[t].handle, u)
    BY DEF In, Eq
  <2> HIDE DEF A, B
  <2>3. /\ Cardinality(A) \in Nat /\ Cardinality(B) \in Nat
        /\ Cardinality(B) = Cardinality(A) + In(t, B) - In(t, A)
    BY <2>1, CardStep
  <2> QED
    BY <2>2, <2>3
<1>2. /\ Cardinality(C) \in Nat /\ Cardinality(D) \in Nat
      /\ Cardinality(D) = Cardinality(C) + Eq(cache_'[n], u) - Eq(cache_[n], u)
  <2>1. C \ {n} = D \ {n} /\ IsFiniteSet(C)
    BY Finiteness, FS_Subset
  <2>2. In(n, C) = Eq(cache_[n], u) /\ In(n, D) = Eq(cache_'[n], u)
    BY DEF In, Eq
  <2> HIDE DEF C, D
  <2>3. /\ Cardinality(C) \in Nat /\ Cardinality(D) \in Nat
        /\ Cardinality(D) = Cardinality(C) + In(n, D) - In(n, C)
    BY <2>1, CardStep
  <2> QED
    BY <2>2, <2>3
<1>3. table[u].refs = Cardinality(A) + Cardinality(C)
  BY DEF RefsExact
<1>4. table'[u].refs = table[u].refs + (Eq(rd'[t].handle, u) - Eq(rd[t].handle, u))
        + (Eq(cache_'[n], u) - Eq(cache_[n], u))
  OBVIOUS
<1> HIDE DEF A, B, C, D
<1>5. table'[u].refs = Cardinality(B) + Cardinality(D)
  BY <1>1, <1>2, <1>3, <1>4 DEF Eq
<1> QED
  BY <1>5 DEF B, D

\* The same for the block at hand and the entries of the block cache.
LEMMA BlocksStep ==
  ASSUME BlocksExact, NEW t \in Threads, NEW k \in Keys,
         \A w \in Threads : w # t => rd'[w].block = rd[w].block,
         \A m \in Keys : m # k => block_cache'[m] = block_cache[m],
         \A b \in Blocks : block'[b].refs = block[b].refs
           + (Eq(rd'[t].block, b) - Eq(rd[t].block, b))
           + (Eq(block_cache'[k], b) - Eq(block_cache[k], b))
  PROVE  BlocksExact'
<1> SUFFICES ASSUME NEW b \in Blocks
             PROVE  block'[b].refs = Cardinality({w \in Threads : rd'[w].block = b})
                                       + Cardinality({m \in Keys : block_cache'[m] = b})
  BY DEF BlocksExact
<1> DEFINE A == {w \in Threads : rd[w].block = b}
           B == {w \in Threads : rd'[w].block = b}
           C == {m \in Keys : block_cache[m] = b}
           D == {m \in Keys : block_cache'[m] = b}
<1>1. /\ Cardinality(A) \in Nat /\ Cardinality(B) \in Nat
      /\ Cardinality(B) = Cardinality(A) + Eq(rd'[t].block, b) - Eq(rd[t].block, b)
  <2>1. A \ {t} = B \ {t} /\ IsFiniteSet(A)
    BY Finiteness, FS_Subset
  <2>2. In(t, A) = Eq(rd[t].block, b) /\ In(t, B) = Eq(rd'[t].block, b)
    BY DEF In, Eq
  <2> HIDE DEF A, B
  <2>3. /\ Cardinality(A) \in Nat /\ Cardinality(B) \in Nat
        /\ Cardinality(B) = Cardinality(A) + In(t, B) - In(t, A)
    BY <2>1, CardStep
  <2> QED
    BY <2>2, <2>3
<1>2. /\ Cardinality(C) \in Nat /\ Cardinality(D) \in Nat
      /\ Cardinality(D) = Cardinality(C) + Eq(block_cache'[k], b) - Eq(block_cache[k], b)
  <2>1. C \ {k} = D \ {k} /\ IsFiniteSet(C)
    BY Finiteness, FS_Subset
  <2>2. In(k, C) = Eq(block_cache[k], b) /\ In(k, D) = Eq(block_cache'[k], b)
    BY DEF In, Eq
  <2> HIDE DEF C, D
  <2>3. /\ Cardinality(C) \in Nat /\ Cardinality(D) \in Nat
        /\ Cardinality(D) = Cardinality(C) + In(k, D) - In(k, C)
    BY <2>1, CardStep
  <2> QED
    BY <2>2, <2>3
<1>3. block[b].refs = Cardinality(A) + Cardinality(C)
  BY DEF BlocksExact
<1>4. block'[b].refs = block[b].refs + (Eq(rd'[t].block, b) - Eq(rd[t].block, b))
        + (Eq(block_cache'[k], b) - Eq(block_cache[k], b))
  OBVIOUS
<1> HIDE DEF A, B, C, D
<1>5. block'[b].refs = Cardinality(B) + Cardinality(D)
  BY <1>1, <1>2, <1>3, <1>4 DEF Eq
<1> QED
  BY <1>5 DEF B, D

\* A file is open for a thread inside Table::Open, or for a table: a step that
\* changes where one thread is, and whether one table is alive.
LEMMA FilesStep ==
  ASSUME FilesExact, NEW t \in Threads, NEW x \in Tables,
         \A w \in Threads : w # t => pc'[w] = pc[w],
         \A u \in Tables : u # x => (table'[u].refs > 0 <=> table[u].refs > 0),
         open_files' = open_files
           + (Alive(table'[x].refs) - Alive(table[x].refs))
           + (Eq(pc'[t], "footer") - Eq(pc[t], "footer"))
  PROVE  FilesExact'
<1> DEFINE A == {u \in Tables : table[u].refs > 0}
           B == {u \in Tables : table'[u].refs > 0}
           C == {w \in Threads : pc[w] = "footer"}
           D == {w \in Threads : pc'[w] = "footer"}
<1>1. /\ Cardinality(A) \in Nat /\ Cardinality(B) \in Nat
      /\ Cardinality(B) = Cardinality(A) + Alive(table'[x].refs) - Alive(table[x].refs)
  <2>1. A \ {x} = B \ {x} /\ IsFiniteSet(A)
    BY Finiteness, FS_Subset
  <2>2. In(x, A) = Alive(table[x].refs) /\ In(x, B) = Alive(table'[x].refs)
    BY DEF In, Alive
  <2> HIDE DEF A, B
  <2>3. /\ Cardinality(A) \in Nat /\ Cardinality(B) \in Nat
        /\ Cardinality(B) = Cardinality(A) + In(x, B) - In(x, A)
    BY <2>1, CardStep
  <2> QED
    BY <2>2, <2>3
<1>2. /\ Cardinality(C) \in Nat /\ Cardinality(D) \in Nat
      /\ Cardinality(D) = Cardinality(C) + Eq(pc'[t], "footer") - Eq(pc[t], "footer")
  <2>1. C \ {t} = D \ {t} /\ IsFiniteSet(C)
    BY Finiteness, FS_Subset
  <2>2. In(t, C) = Eq(pc[t], "footer") /\ In(t, D) = Eq(pc'[t], "footer")
    BY DEF In, Eq
  <2> HIDE DEF C, D
  <2>3. /\ Cardinality(C) \in Nat /\ Cardinality(D) \in Nat
        /\ Cardinality(D) = Cardinality(C) + In(t, D) - In(t, C)
    BY <2>1, CardStep
  <2> QED
    BY <2>2, <2>3
<1>3. open_files = Cardinality(A) + Cardinality(C)
  BY DEF FilesExact
<1> HIDE DEF A, B, C, D
<1>4. open_files' = Cardinality(B) + Cardinality(D)
  BY <1>1, <1>2, <1>3 DEF Eq, Alive
<1> QED
  BY <1>4 DEF B, D, FilesExact
\* A step that leaves the tables alone, and which handle each thread has.
LEMMA TablesFrame ==
  ASSUME CacheInv, UNCHANGED <<tableVars, live, last_id>>,
         \A w \in Threads : /\ rd'[w].handle = rd[w].handle
                            /\ pc'[w] = "insert" <=> pc[w] = "insert"
                            /\ pc'[w] = "footer" <=> pc[w] = "footer"
  PROVE  Unshared' /\ TablesAlive' /\ RefsExact' /\ FilesExact'
<1> USE DEF CacheInv, tableVars
<1>1. Unshared'
  BY DEF Unshared
<1>2. TablesAlive'
  BY DEF TablesAlive
<1>3. RefsExact'
  BY DEF RefsExact
<1>4. FilesExact'
  <2>1. {w \in Threads : pc'[w] = "footer"} = {w \in Threads : pc[w] = "footer"}
    OBVIOUS
  <2> QED
    BY <2>1 DEF FilesExact
<1> QED
  BY <1>1, <1>2, <1>3, <1>4

\* A step that leaves the blocks alone: what is in the block cache stays right
\* when a table is closed, or opened with an id that was never used.
LEMMA BlocksFrame ==
  ASSUME CacheInv, UNCHANGED <<block_cache, block>>, last_id <= last_id', last_id' \in Nat,
         \A w \in Threads : /\ rd'[w].block = rd[w].block
                            /\ pc'[w] \in Reading <=> pc[w] \in Reading
                            /\ pc'[w] = "fill" <=> pc[w] = "fill"
                            /\ pc[w] \in Reading => rd'[w] = rd[w],
         \A u \in Tables : table'[u].refs > 0 =>
           \/ /\ table[u].refs > 0
              /\ table'[u].number = table[u].number
              /\ table'[u].cache_id = table[u].cache_id
           \/ BlockCache => table'[u].cache_id > last_id,
         \A w \in Threads : pc[w] = "fill" =>
           table'[rd[w].handle].cache_id = table[rd[w].handle].cache_id
  PROVE  BlocksExact' /\ BlocksUnshared' /\ BlocksAtHand' /\ BlocksCached'
<1> USE DEF CacheInv
<1>1. BlocksExact'
  BY DEF BlocksExact
<1>2. BlocksUnshared'
  BY DEF BlocksUnshared, CacheKey, Opened, Reading
<1>3. BlocksAtHand'
  BY DEF BlocksAtHand
<1>4. BlocksCached'
  <2>1. \A k \in Keys : k[1] \in Nat
    BY Addresses, SizeAssumption
  <2>2. last_id \in Nat
    BY DEF TypeOK
  <2>3. ASSUME NEW k \in Keys, block_cache[k] # nullptr, NEW u \in Tables,
               table'[u].refs > 0, table'[u].cache_id = k[1]
        PROVE  block[block_cache[k]].number = table'[u].number
    BY <2>1, <2>2, <2>3 DEF BlocksCached
  <2>4. ASSUME NEW k \in Keys, block_cache[k] # nullptr
        PROVE  /\ BlockCache /\ block_cache[k][1] = k /\ k[1] <= last_id'
               /\ block[block_cache[k]].offset = k[2]
    BY <2>1, <2>2, <2>4 DEF BlocksCached
  <2> QED
    BY <2>3, <2>4 DEF BlocksCached
<1> QED
  BY <1>1, <1>2, <1>3, <1>4

-----------------------------------------------------------------------------
(* The steps of a call *)

LEMMA FindTableStep ==
  ASSUME CacheInv, NEW t \in Threads, NEW n \in Numbers, NEW size \in Nat,
         NEW iter \in BOOLEAN, NEW present \in BOOLEAN,
         FindTable(t, n, size, iter, present)
  PROVE  CacheInv'
<1> USE DEF CacheInv
<1>0. /\ pc[t] = "idle" /\ rd[t].handle = nullptr /\ rd[t].block = nullptr
      /\ UNCHANGED <<blockVars, fileVars, cache_, open_files, faults>>
  BY DEF FindTable, Calls, CallOK, Holding, Reading
<1> DEFINE call == [NoCall EXCEPT !.number = n, !.size = size, !.iter = iter,
                             !.present = present, !.handle = cache_[n]]
<1>1. cache_[n] \in Tables \cup {nullptr}
  BY DEF TypeOK
<1>2. /\ call \in CallRecords
      /\ call.number = n /\ call.handle = cache_[n] /\ call.block = nullptr
  BY <1>1 DEF NoCall, CallRecords
<1>3. /\ \A w \in Threads : w # t => rd'[w] = rd[w] /\ pc'[w] = pc[w]
      /\ rd'[t] = call
      /\ pc'[t] = IF cache_[n] # nullptr THEN "table" ELSE "open"
      /\ rd' \in [Threads -> CallRecords] /\ pc' \in [Threads -> Labels]
  <2>1. rd' = [rd EXCEPT ![t] = call]
    BY DEF FindTable
  <2>2. pc' = [pc EXCEPT ![t] = IF cache_[n] # nullptr THEN "table" ELSE "open"]
    BY DEF FindTable, Goto
  <2> HIDE DEF call
  <2> QED
    BY <1>2, <2>1, <2>2 DEF TypeOK, Labels, CallRecords
<1> HIDE DEF call
<1>4. /\ table' \in [Tables -> TableRecords]
      /\ \A u \in Tables : /\ table'[u].refs = table[u].refs + Eq(cache_[n], u)
                           /\ table'[u].number = table[u].number
                           /\ table'[u].cache_id = table[u].cache_id
                           /\ table'[u].filter = table[u].filter
  <2>1. CASE cache_[n] = nullptr
    BY <2>1, Addresses DEF TypeOK, FindTable, Eq, TableRecords
  <2>2. CASE cache_[n] # nullptr
    <3>1. cache_[n] \in Tables /\ table' = [table EXCEPT ![cache_[n]].refs = @ + 1]
      BY <1>1, <2>2 DEF FindTable
    <3> QED
      BY <3>1 DEF TypeOK, Eq, TableRecords
  <2> QED
    BY <2>1, <2>2
<1>5. \A u \in Tables : table[u].refs \in Nat /\ (table'[u].refs > 0 <=> table[u].refs > 0)
  BY <1>4, TableHeld DEF Eq
<1>6. TypeOK'
  BY <1>0, <1>3, <1>4
     DEF TypeOK, blockVars, fileVars, CallRecords, TableRecords, Labels
<1>7. Calls'
  BY <1>1, <1>2, <1>3, Addresses DEF Calls, CallOK, Holding, Reading, TablesAlive
<1>8. Unshared'
  BY <1>0, <1>2, <1>3 DEF Unshared
<1>9. TablesAlive'
  BY <1>0, <1>4, <1>5 DEF TablesAlive, blockVars, fileVars
<1>10. RefsExact'
  <2>1. \A u \in Tables : table'[u].refs = table[u].refs
           + (Eq(rd'[t].handle, u) - Eq(rd[t].handle, u))
           + (Eq(cache_'[n], u) - Eq(cache_[n], u))
    BY <1>0, <1>2, <1>3, <1>4, <1>5, Addresses DEF Eq
  <2> QED
    BY <1>0, <1>3, <2>1, RefsStep
<1>11. FilesExact'
  <2>1. PICK x \in Tables : TRUE
    <3>1. 1 \in Slots
      BY Finiteness DEF Slots
    <3>2. <<n, 1>> \in Tables
      BY <3>1 DEF Tables
    <3> QED
      BY <3>2
  <2>2. open_files' = open_files
           + (Alive(table'[x].refs) - Alive(table[x].refs))
           + (Eq(pc'[t], "footer") - Eq(pc[t], "footer"))
    BY <1>0, <1>3, <1>5 DEF Alive, Eq, TypeOK
  <2> QED
    BY <1>3, <1>5, <2>2, FilesStep
<1>12. BlocksExact'
  BY <1>0, <1>2, <1>3 DEF BlocksExact, blockVars
<1>13. BlocksUnshared'
  BY <1>0, <1>2, <1>3, <1>4 DEF BlocksUnshared, blockVars, CacheKey, Opened, Calls, CallOK, Holding
<1>14. BlocksAtHand'
  BY <1>0, <1>2, <1>3 DEF BlocksAtHand, blockVars, Reading
<1>15. BlocksCached'
  BY <1>0, <1>4, <1>5 DEF BlocksCached, blockVars
<1>16. FilterHidesNothing'
  BY <1>3 DEF FilterHidesNothing
<1> QED
  BY <1>6, <1>7, <1>8, <1>9, <1>10, <1>11, <1>12, <1>13, <1>14, <1>15, <1>16

\* What Return and Goto do to the locals and to where the threads are.
LEMMA Returned ==
  ASSUME TypeOK, NEW t \in Threads, NEW e \in {"OK", "IOError", "Corruption"}, Return(t, e)
  PROVE  /\ \A w \in Threads : w # t => rd'[w] = rd[w] /\ pc'[w] = pc[w]
         /\ rd'[t].handle = nullptr /\ rd'[t].block = nullptr /\ ~rd'[t].present
         /\ pc'[t] = "idle"
         /\ rd' \in [Threads -> CallRecords] /\ pc' \in [Threads -> Labels]
<1> DEFINE call == [NoCall EXCEPT !.s = e]
<1>1. /\ call \in CallRecords
      /\ call.handle = nullptr /\ call.block = nullptr /\ ~call.present
  BY DEF NoCall, CallRecords
<1>2. rd' = [rd EXCEPT ![t] = call] /\ pc' = [pc EXCEPT ![t] = "idle"]
  BY DEF Return, Goto
<1> HIDE DEF call
<1> QED
  BY <1>1, <1>2 DEF TypeOK, CallRecords, Labels

LEMMA Went ==
  ASSUME TypeOK, NEW t \in Threads, NEW label \in Labels, Goto(t, label)
  PROVE  /\ \A w \in Threads : w # t => pc'[w] = pc[w]
         /\ pc'[t] = label /\ pc' \in [Threads -> Labels]
BY DEF TypeOK, Goto, Labels

LEMMA OpenFileStep ==
  ASSUME CacheInv, NEW t \in Threads, OpenFile(t)
  PROVE  CacheInv'
<1> USE DEF CacheInv
<1>0. /\ pc[t] = "open" /\ rd[t].handle = nullptr /\ rd[t].block = nullptr
      /\ rd[t].number \in Numbers
      /\ UNCHANGED <<block_cache, block, last_id, disk, live, cache_, table>>
  BY DEF OpenFile, Calls, CallOK, Holding, Reading, blockVars, fileVars
<1>1. PICK e \in EnvStatus :
        /\ CountFault(e)
        /\ IF e = "OK" THEN open_files' = open_files + 1 /\ Goto(t, "footer") /\ UNCHANGED rd
                       ELSE Return(t, e) /\ UNCHANGED open_files
  BY DEF OpenFile
<1>2. faults' \in 0 .. MaxFaults /\ e \in {"OK", "IOError"}
  BY <1>1, SizeAssumption DEF EnvStatus, CountFault, TypeOK
<1>3. /\ \A w \in Threads : w # t => rd'[w] = rd[w] /\ pc'[w] = pc[w]
      /\ rd'[t].handle = nullptr /\ rd'[t].block = nullptr
      /\ pc'[t] = (IF e = "OK" THEN "footer" ELSE "idle") /\ (e = "OK" => rd'[t] = rd[t])
      /\ rd' \in [Threads -> CallRecords] /\ pc' \in [Threads -> Labels]
  <2>1. CASE e = "OK"
    BY <1>0, <1>1, <2>1, Went DEF TypeOK, CallRecords, Labels
  <2>2. CASE e # "OK"
    BY <1>1, <1>2, <2>2, Returned
  <2> QED
    BY <2>1, <2>2
<1>4. open_files' = open_files + Eq(pc'[t], "footer") /\ open_files' \in Nat
  BY <1>1, <1>3 DEF Eq, TypeOK
<1>5. TypeOK'
  BY <1>0, <1>2, <1>3, <1>4 DEF TypeOK, CallRecords, Labels
<1>6. Calls'
  BY <1>0, <1>3 DEF Calls, CallOK, Holding, Reading
<1>7. Unshared' /\ TablesAlive' /\ RefsExact'
  BY <1>0, <1>3 DEF Unshared, TablesAlive, RefsExact
<1>8. FilesExact'
  <2>1. PICK x \in Tables : TRUE
    <3>1. 1 \in Slots
      BY Finiteness DEF Slots
    <3>2. <<rd[t].number, 1>> \in Tables
      BY <1>0, <3>1 DEF Tables
    <3> QED
      BY <3>2
  <2>2. open_files' = open_files
           + (Alive(table'[x].refs) - Alive(table[x].refs))
           + (Eq(pc'[t], "footer") - Eq(pc[t], "footer"))
    BY <1>0, <1>4 DEF Alive, Eq, TypeOK
  <2> QED
    BY <1>0, <1>3, <2>2, FilesStep
<1>9. BlocksExact' /\ BlocksUnshared' /\ BlocksAtHand' /\ BlocksCached'
  BY <1>0, <1>3, BlocksFrame DEF Reading, TypeOK
<1>10. FilterHidesNothing'
  BY <1>3 DEF FilterHidesNothing
<1> QED
  BY <1>5, <1>6, <1>7, <1>8, <1>9, <1>10

LEMMA OpenTableStep ==
  ASSUME CacheInv, NEW t \in Threads, OpenTable(t),
         ~TooShort(rd[t].size) => rd[t].number \in live /\ last_id < MaxOpens
  PROVE  CacheInv'
<1> USE DEF CacheInv
<1> DEFINE n == rd[t].number
           u == FreeTable(n)
<1>0. /\ pc[t] = "footer" /\ rd[t].handle = nullptr /\ rd[t].block = nullptr
      /\ n \in Numbers
      /\ UNCHANGED <<block_cache, block, disk, live, cache_>>
  BY DEF OpenTable, Calls, CallOK, Holding, Reading, fileVars
<1>1. PICK e \in (IF TooShort(rd[t].size) THEN {"Corruption"} ELSE EnvStatus),
           m \in BOOLEAN, f \in BOOLEAN :
        /\ CountFault(IF e = "Corruption" THEN "OK" ELSE e)
        /\ IF e # "OK"
             THEN OpenFails(t, e) /\ UNCHANGED <<table, last_id>>
             ELSE /\ table' = [table EXCEPT ![u] =
                       [number |-> n, cache_id |-> NewId, filter |-> ReadMeta(m, f), refs |-> 1]]
                  /\ rd' = [rd EXCEPT ![t].handle = u]
                  /\ last_id' = IF BlockCache THEN last_id + 1 ELSE last_id
                  /\ Goto(t, "insert")
                  /\ UNCHANGED open_files
  BY DEF OpenTable
<1>2. faults' \in 0 .. MaxFaults /\ e \in {"OK", "IOError", "Corruption"}
      /\ (e = "OK" => ~TooShort(rd[t].size))
  BY <1>1, SizeAssumption DEF EnvStatus, CountFault, TypeOK
<1>3. u \in Tables /\ u[1] = n /\ table[u].refs = 0
  BY <1>0, FreeTableExists
<1>4. ASSUME e # "OK" PROVE CacheInv'
  <2>1. Return(t, e) /\ open_files' = open_files - 1 /\ UNCHANGED <<table, last_id>>
    BY <1>1, <1>4 DEF OpenFails
  <2>2. /\ \A w \in Threads : w # t => rd'[w] = rd[w] /\ pc'[w] = pc[w]
        /\ rd'[t].handle = nullptr /\ rd'[t].block = nullptr /\ pc'[t] = "idle"
        /\ rd' \in [Threads -> CallRecords] /\ pc' \in [Threads -> Labels]
    BY <1>2, <2>1, Returned
  <2>3. FilesExact'
    <3>1. open_files' = open_files
             + (Alive(table'[u].refs) - Alive(table[u].refs))
             + (Eq(pc'[t], "footer") - Eq(pc[t], "footer"))
      BY <1>0, <1>3, <2>1, <2>2 DEF Alive, Eq, TypeOK
    <3> HIDE DEF u
    <3> QED
      BY <1>3, <2>1, <2>2, <3>1, FilesStep
  <2>4. open_files' \in Nat
    <3>1. {w \in Threads : pc'[w] = "footer"} \subseteq Threads
          /\ {w \in Tables : table'[w].refs > 0} \subseteq Tables
      OBVIOUS
    <3> QED
      BY <2>3, <3>1, Finiteness, CountZero DEF FilesExact
  <2>5. TypeOK'
    BY <1>0, <1>2, <2>1, <2>2, <2>4 DEF TypeOK, CallRecords, Labels
  <2>6. Calls'
    BY <1>0, <2>2 DEF Calls, CallOK, Holding, Reading
  <2>7. Unshared' /\ TablesAlive' /\ RefsExact'
    BY <1>0, <2>1, <2>2 DEF Unshared, TablesAlive, RefsExact
  <2>8. BlocksExact' /\ BlocksUnshared' /\ BlocksAtHand' /\ BlocksCached'
    BY <1>0, <2>1, <2>2, BlocksFrame DEF Reading, TypeOK
  <2>9. FilterHidesNothing'
    BY <2>2 DEF FilterHidesNothing
  <2> QED
    BY <2>3, <2>5, <2>6, <2>7, <2>8, <2>9
<1>5. ASSUME e = "OK" PROVE CacheInv'
  <2>0. rd[t].number \in live /\ last_id < MaxOpens /\ last_id \in Nat /\ MaxOpens \in Nat
    BY <1>2, <1>5, SizeAssumption DEF TypeOK
  <2>1. /\ table' = [table EXCEPT ![u] =
              [number |-> n, cache_id |-> NewId, filter |-> ReadMeta(m, f), refs |-> 1]]
        /\ rd' = [rd EXCEPT ![t].handle = u]
        /\ last_id' = IF BlockCache THEN last_id + 1 ELSE last_id
        /\ Goto(t, "insert") /\ UNCHANGED open_files
    BY <1>1, <1>5
  <2>2. /\ NewId \in 0 .. last_id' /\ last_id <= last_id' /\ last_id' \in 0 .. MaxOpens
        /\ BlockCache => NewId > last_id
        /\ ReadMeta(m, f) \in {"none", "good"}
    BY <2>0, <2>1 DEF NewId, ReadMeta
  <2> HIDE DEF u
  <2>3. /\ table' \in [Tables -> TableRecords]
        /\ table'[u].number = n /\ table'[u].cache_id = NewId /\ table'[u].refs = 1
        /\ table'[u].filter # "garbage"
        /\ \A w \in Tables : w # u => table'[w] = table[w]
    BY <1>0, <1>3, <2>0, <2>1, <2>2 DEF TypeOK, TableRecords
  <2>4. /\ \A w \in Threads : w # t => rd'[w] = rd[w] /\ pc'[w] = pc[w]
        /\ rd'[t].handle = u /\ rd'[t].block = nullptr /\ rd'[t].number = n
        /\ pc'[t] = "insert"
        /\ rd' \in [Threads -> CallRecords] /\ pc' \in [Threads -> Labels]
    <3>1. rd' \in [Threads -> CallRecords]
      <4>1. rd \in [Threads -> CallRecords]
        BY DEF TypeOK, CallRecords
      <4>2. [rd[t] EXCEPT !.handle = u] \in CallRecords
        BY <1>3, <4>1 DEF CallRecords
      <4> QED
        BY <2>1, <4>1, <4>2
    <3>2. pc' \in [Threads -> Labels] /\ pc'[t] = "insert"
          /\ \A w \in Threads : w # t => pc'[w] = pc[w]
      BY <2>1, Went DEF Labels
    <3> QED
      BY <1>0, <2>1, <3>1, <3>2 DEF TypeOK
  <2> HIDE DEF n
  <2>5. (\A w \in Threads : rd[w].handle # u) /\ (\A k \in Numbers : cache_[k] # u)
    BY <1>3, TableHeld
  <2>6. TypeOK'
    BY <1>0, <1>2, <2>1, <2>2, <2>3, <2>4 DEF TypeOK, CallRecords, TableRecords, Labels
  <2>7. Calls'
    BY <1>0, <1>3, <2>4 DEF Calls, CallOK, Holding, Reading
  <2>8. Unshared'
    BY <1>0, <2>4, <2>5 DEF Unshared
  <2>9. TablesAlive'
    <3>1. \A w \in Tables : table[w].refs > 0 => table[w].cache_id <= last_id
      BY DEF TablesAlive
    <3>2. \A w \in Tables : table[w].cache_id \in Nat
      BY DEF TypeOK
    <3>3. \A w \in Tables : table'[w].refs > 0 =>
             /\ table'[w].number = w[1] /\ w[1] \in live'
             /\ table'[w].cache_id <= last_id'
      BY <1>0, <1>3, <2>0, <2>2, <2>3, <3>2 DEF TablesAlive, n
    <3>4. BlockCache => \A w, x \in Tables :
             table'[w].refs > 0 /\ table'[x].refs > 0 /\ table'[w].cache_id = table'[x].cache_id
               => w = x
      BY <2>0, <2>2, <2>3, <3>1, <3>2 DEF TablesAlive
    <3> QED
      BY <1>0, <2>3, <3>3, <3>4 DEF TablesAlive
  <2>10. RefsExact'
    <3>1. \A w \in Tables : table'[w].refs = table[w].refs
             + (Eq(rd'[t].handle, w) - Eq(rd[t].handle, w))
             + (Eq(cache_'[n], w) - Eq(cache_[n], w))
      BY <1>0, <1>3, <2>3, <2>4, TableHeld, Addresses DEF Eq
    <3> QED
      BY <1>0, <2>4, <3>1, RefsStep
  <2>11. FilesExact'
    <3>1. open_files' = open_files
             + (Alive(table'[u].refs) - Alive(table[u].refs))
             + (Eq(pc'[t], "footer") - Eq(pc[t], "footer"))
      BY <1>0, <1>3, <2>1, <2>3, <2>4 DEF Alive, Eq, TypeOK
    <3> QED
      BY <1>3, <2>3, <2>4, <3>1, FilesStep
  <2>12. BlocksExact' /\ BlocksUnshared' /\ BlocksAtHand' /\ BlocksCached'
    <3>1. \A w \in Threads : pc[w] = "fill" =>
             table'[rd[w].handle].cache_id = table[rd[w].handle].cache_id
      BY <2>3, <2>5 DEF Calls, CallOK, Holding
    <3> QED
      BY <1>0, <2>0, <2>2, <2>3, <2>4, <3>1, BlocksFrame DEF Reading
  <2>13. FilterHidesNothing'
    BY <2>4 DEF FilterHidesNothing
  <2> QED
    BY <2>6, <2>7, <2>8, <2>9, <2>10, <2>11, <2>12, <2>13
<1> QED
  BY <1>4, <1>5

\* One reference less: the entry loses it, or is deleted with it.
LEMMA Unrefed ==
  ASSUME NEW tab \in [Tables -> TableRecords], NEW u \in Tables, tab[u].refs > 0
  PROVE  LET new == UnrefEntry(tab, u) IN
         /\ new \in [Tables -> TableRecords]
         /\ \A w \in Tables :
              /\ new[w].refs = tab[w].refs - Eq(u, w)
              /\ new[w].refs > 0 => /\ new[w].number = tab[w].number
                                    /\ new[w].cache_id = tab[w].cache_id
              /\ new[w].filter = tab[w].filter \/ new[w].filter = "none"
<1>1. \A w \in Tables : tab[w] \in TableRecords /\ tab[w].refs \in Nat
  BY DEF TableRecords
<1>2. CASE tab[u].refs = 1
  <2>1. NoTable \in TableRecords /\ NoTable.refs = 0 /\ NoTable.filter = "none"
    BY SizeAssumption DEF NoTable, TableRecords
  <2>2. UnrefEntry(tab, u) = [tab EXCEPT ![u] = NoTable]
    BY <1>2 DEF UnrefEntry
  <2> QED
    BY <1>1, <1>2, <2>1, <2>2 DEF Eq
<1>3. CASE tab[u].refs # 1
  <2>1. UnrefEntry(tab, u) = [tab EXCEPT ![u].refs = @ - 1]
    BY <1>3 DEF UnrefEntry
  <2>2. [tab[u] EXCEPT !.refs = @ - 1] \in TableRecords
    BY <1>1, <1>3 DEF TableRecords
  <2>3. UnrefEntry(tab, u) \in [Tables -> TableRecords]
    BY <2>1, <2>2
  <2> QED
    BY <1>1, <2>1, <2>3 DEF Eq, TableRecords
<1> QED
  BY <1>2, <1>3

LEMMA InsertStep ==
  ASSUME CacheInv, NEW t \in Threads, Insert(t)
  PROVE  CacheInv'
<1> USE DEF CacheInv
<1> DEFINE n == rd[t].number
           h == rd[t].handle
           old == cache_[n]
           held == [table EXCEPT ![h].refs = 2]
<1>0. /\ pc[t] = "insert" /\ n \in Numbers /\ h \in Tables /\ h[1] = n
      /\ UNCHANGED <<block_cache, block, last_id, disk, live, rd, faults>>
      /\ cache_' = [cache_ EXCEPT ![n] = h]
      /\ table' = IF old = nullptr THEN held ELSE UnrefEntry(held, old)
      /\ open_files' = IF old = nullptr THEN open_files ELSE FilesAfterUnref(old)
      /\ Goto(t, "table")
  BY DEF Insert, InsertTable, Calls, CallOK, Holding, blockVars, fileVars
<1>1. /\ \A w \in Threads : w # t => pc'[w] = pc[w]
      /\ pc'[t] = "table" /\ pc' \in [Threads -> Labels]
  BY <1>0, Went DEF Labels
<1>2. /\ \A w \in Threads \ {t} : rd[w].handle # h
      /\ \A m \in Numbers : cache_[m] # h
      /\ old \in Tables \cup {nullptr} /\ h # nullptr /\ old # h
  BY <1>0, Addresses DEF Unshared, TypeOK
<1> HIDE DEF n, h, old
<1>3. table[h].refs = 1
  <2>1. {w \in Threads : rd[w].handle = h} = {t} /\ {m \in Numbers : cache_[m] = h} = {}
    BY <1>2 DEF h
  <2>2. Cardinality({t}) = 1 /\ Cardinality({}) = 0
    BY FS_Singleton, FS_EmptySet
  <2>3. table[h].refs = Cardinality({w \in Threads : rd[w].handle = h})
                          + Cardinality({m \in Numbers : cache_[m] = h})
    BY <1>0 DEF RefsExact
  <2> QED
    BY <2>1, <2>2, <2>3
<1>4. /\ held \in [Tables -> TableRecords]
      /\ \A w \in Tables : /\ held[w].refs = table[w].refs + Eq(h, w)
                           /\ held[w].number = table[w].number
                           /\ held[w].cache_id = table[w].cache_id
                           /\ held[w].filter = table[w].filter
  <2>1. table \in [Tables -> TableRecords] /\ \A w \in Tables : table[w].refs \in Nat
    BY DEF TypeOK, TableRecords
  <2>2. [table[h] EXCEPT !.refs = 2] \in TableRecords
    BY <1>0, <2>1 DEF TableRecords
  <2>3. held \in [Tables -> TableRecords]
    BY <1>0, <2>1, <2>2
  <2> QED
    BY <1>0, <1>3, <2>1, <2>3 DEF Eq, TableRecords
<1> HIDE DEF held
<1>5. /\ table' \in [Tables -> TableRecords]
      /\ \A w \in Tables :
           /\ table'[w].refs = table[w].refs + Eq(h, w) - Eq(old, w)
           /\ table'[w].refs > 0 => /\ table'[w].number = table[w].number
                                    /\ table'[w].cache_id = table[w].cache_id
           /\ table'[w].filter = table[w].filter \/ table'[w].filter = "none"
           /\ table[w].refs \in Nat
  <2>0. \A w \in Tables : table[w].refs \in Nat
    BY DEF TypeOK
  <2>1. CASE old = nullptr
    BY <1>0, <1>4, <2>0, <2>1, Addresses DEF Eq
  <2>2. CASE old # nullptr
    <3>1. old \in Tables /\ table[old].refs > 0
      BY <1>0, <1>2, <2>2, TableHeld DEF old
    <3>2. held[old].refs > 0
      BY <1>2, <1>4, <2>0, <3>1 DEF Eq
    <3>3. table' = UnrefEntry(held, old)
      BY <1>0, <2>2
    <3> QED
      BY <1>4, <2>0, <3>1, <3>2, <3>3, Unrefed DEF Eq
  <2> QED
    BY <2>1, <2>2
<1>6. \A w \in Tables : w # h => table'[w].refs <= table[w].refs
  BY <1>5 DEF Eq
<1>7. FilesExact'
  <2>0. open_files \in Nat
    BY DEF TypeOK
  <2>1. CASE old = nullptr
    <3>1. \A w \in Tables : table'[w].refs > 0 <=> table[w].refs > 0
      BY <1>3, <1>5, <2>1, Addresses DEF Eq
    <3>2. open_files' = open_files
             + (Alive(table'[h].refs) - Alive(table[h].refs))
             + (Eq(pc'[t], "footer") - Eq(pc[t], "footer"))
      BY <1>0, <1>1, <2>0, <2>1, <3>1 DEF Alive, Eq
    <3> QED
      BY <1>0, <1>1, <3>1, <3>2, FilesStep
  <2>2. CASE old # nullptr
    <3>0. old \in Tables /\ table[old].refs > 0
      BY <1>0, <1>2, <2>2, TableHeld DEF old
    <3>1. \A w \in Tables : w # old => (table'[w].refs > 0 <=> table[w].refs > 0)
      BY <1>3, <1>5 DEF Eq
    <3>2. table'[old].refs = table[old].refs - 1 /\ table[old].refs \in Nat
      BY <1>2, <1>5, <3>0 DEF Eq
    <3>3. open_files' = IF table[old].refs = 1 THEN open_files - 1 ELSE open_files
      BY <1>0, <2>2 DEF FilesAfterUnref, DeleteEntry
    <3>4. open_files' = open_files
             + (Alive(table'[old].refs) - Alive(table[old].refs))
             + (Eq(pc'[t], "footer") - Eq(pc[t], "footer"))
      BY <1>0, <1>1, <2>0, <3>0, <3>2, <3>3 DEF Alive, Eq
    <3> QED
      BY <1>1, <3>0, <3>1, <3>4, FilesStep
  <2> QED
    BY <2>1, <2>2
<1>8. open_files' \in Nat
  <2>1. {w \in Threads : pc'[w] = "footer"} \subseteq Threads
        /\ {w \in Tables : table'[w].refs > 0} \subseteq Tables
    OBVIOUS
  <2> QED
    BY <1>7, <2>1, Finiteness, CountZero DEF FilesExact
<1>9. TypeOK'
  <2>1. cache_' \in [Numbers -> Tables \cup {nullptr}]
    BY <1>0 DEF TypeOK
  <2> QED
    BY <1>0, <1>1, <1>5, <1>8, <2>1 DEF TypeOK, TableRecords, Labels
<1>10. Calls'
  BY <1>0, <1>1 DEF Calls, CallOK, Holding, Reading, n, h
<1>11. Unshared'
  <2>1. cache_'[n] = h /\ \A m \in Numbers : m # n => cache_'[m] = cache_[m]
    BY <1>0 DEF TypeOK
  <2> QED
    BY <1>0, <1>1, <1>2, <2>1 DEF Unshared
<1>12. TablesAlive'
  <2>1. \A m \in Numbers : cache_'[m] # nullptr => cache_'[m][1] = m
    BY <1>0 DEF TablesAlive, TypeOK
  <2>2. \A w \in Tables : table'[w].refs > 0 => table[w].refs > 0
    BY <1>3, <1>5 DEF Eq
  <2> QED
    BY <1>0, <1>5, <2>1, <2>2 DEF TablesAlive
<1>13. RefsExact'
  <2>1. cache_'[n] = h /\ \A m \in Numbers : m # n => cache_'[m] = cache_[m]
    BY <1>0 DEF TypeOK
  <2>2. \A w \in Tables : table'[w].refs = table[w].refs
           + (Eq(rd'[t].handle, w) - Eq(rd[t].handle, w))
           + (Eq(cache_'[n], w) - Eq(cache_[n], w))
    BY <1>0, <1>5, <2>1 DEF Eq, old
  <2> QED
    BY <1>0, <2>1, <2>2, RefsStep
<1>14. BlocksExact' /\ BlocksUnshared' /\ BlocksAtHand' /\ BlocksCached'
  <2>1. \A w \in Tables : table'[w].refs > 0 => table[w].refs > 0
    BY <1>3, <1>5 DEF Eq
  <2>2. \A w \in Threads : pc[w] = "fill" =>
           table'[rd[w].handle].cache_id = table[rd[w].handle].cache_id
    <3>1. ASSUME NEW w \in Threads, pc[w] = "fill"
          PROVE  table'[rd[w].handle].cache_id = table[rd[w].handle].cache_id
      <4>1. rd[w].handle \in Tables /\ rd'[w].handle = rd[w].handle
        BY <1>0, <3>1 DEF Calls, CallOK, Holding
      <4>2. table'[rd[w].handle].refs > 0
        BY <1>13, <4>1, TableHeldAfter
      <4> QED
        BY <1>5, <4>1, <4>2
    <3> QED
      BY <3>1
  <2>3. last_id \in Nat
    BY DEF TypeOK
  <2>4. \A w \in Threads : pc'[w] \in Reading <=> pc[w] \in Reading
    BY <1>0, <1>1 DEF Reading
  <2>5. \A w \in Threads : pc'[w] = "fill" <=> pc[w] = "fill"
    BY <1>0, <1>1
  <2> QED
    BY <1>0, <1>5, <2>1, <2>2, <2>3, <2>4, <2>5, BlocksFrame
<1>15. FilterHidesNothing'
  BY <1>0, <1>1 DEF FilterHidesNothing
<1> QED
  BY <1>7, <1>9, <1>10, <1>11, <1>12, <1>13, <1>14, <1>15

\* A step that gives back one reference of table u, while no thread enters or
\* leaves Table::Open.
LEMMA UnrefStep ==
  ASSUME CacheInv, NEW u \in Tables, table[u].refs > 0,
         table' = UnrefEntry(table, u), open_files' = FilesAfterUnref(u),
         NEW t \in Threads, \A w \in Threads : w # t => pc'[w] = pc[w],
         pc'[t] = "footer" <=> pc[t] = "footer"
  PROVE  /\ table' \in [Tables -> TableRecords] /\ open_files' \in Nat /\ FilesExact'
         /\ \A w \in Tables :
              /\ table[w].refs \in Nat /\ table'[w].refs = table[w].refs - Eq(u, w)
              /\ table'[w].refs > 0 => /\ table[w].refs > 0
                                       /\ table'[w].number = table[w].number
                                       /\ table'[w].cache_id = table[w].cache_id
              /\ table'[w].filter = table[w].filter \/ table'[w].filter = "none"
<1> USE DEF CacheInv
<1>1. table \in [Tables -> TableRecords] /\ open_files \in Nat
      /\ \A w \in Tables : table[w].refs \in Nat
  BY DEF TypeOK, TableRecords
<1>2. /\ table' \in [Tables -> TableRecords]
      /\ \A w \in Tables :
           /\ table'[w].refs = table[w].refs - Eq(u, w)
           /\ table'[w].refs > 0 => /\ table'[w].number = table[w].number
                                    /\ table'[w].cache_id = table[w].cache_id
           /\ table'[w].filter = table[w].filter \/ table'[w].filter = "none"
  BY <1>1, Unrefed
<1>3. \A w \in Tables : /\ w # u => (table'[w].refs > 0 <=> table[w].refs > 0)
                        /\ table'[w].refs > 0 => table[w].refs > 0
  BY <1>1, <1>2 DEF Eq
<1>4. FilesExact'
  <2>1. open_files' = IF table[u].refs = 1 THEN open_files - 1 ELSE open_files
    BY DEF FilesAfterUnref, DeleteEntry
  <2>2. table'[u].refs = table[u].refs - 1
    BY <1>2 DEF Eq
  <2>3. open_files' = open_files
           + (Alive(table'[u].refs) - Alive(table[u].refs))
           + (Eq(pc'[t], "footer") - Eq(pc[t], "footer"))
    BY <1>1, <2>1, <2>2 DEF Alive, Eq
  <2> QED
    BY <1>3, <2>3, FilesStep
<1>5. open_files' \in Nat
  <2>1. {w \in Threads : pc'[w] = "footer"} \subseteq Threads
        /\ {w \in Tables : table'[w].refs > 0} \subseteq Tables
    OBVIOUS
  <2> QED
    BY <1>4, <2>1, Finiteness, CountZero DEF FilesExact
<1> QED
  BY <1>1, <1>2, <1>3, <1>4, <1>5

LEMMA ReleaseStep ==
  ASSUME CacheInv, NEW t \in Threads, Release(t)
  PROVE  CacheInv'
<1> USE DEF CacheInv
<1> DEFINE n == rd[t].number
           h == rd[t].handle
<1>0. /\ pc[t] = "release" /\ n \in Numbers /\ h \in Tables /\ rd[t].block = nullptr
      /\ UNCHANGED <<block_cache, block, last_id, disk, live, cache_, faults>>
      /\ table' = UnrefEntry(table, h) /\ open_files' = FilesAfterUnref(h)
      /\ Return(t, rd[t].s)
  BY DEF Release, Calls, CallOK, Holding, Reading, blockVars, fileVars
<1>1. /\ \A w \in Threads : w # t => rd'[w] = rd[w] /\ pc'[w] = pc[w]
      /\ rd'[t].handle = nullptr /\ rd'[t].block = nullptr /\ pc'[t] = "idle"
      /\ rd' \in [Threads -> CallRecords] /\ pc' \in [Threads -> Labels]
  <2>1. rd[t].s \in {"OK", "IOError", "Corruption"}
    BY DEF TypeOK
  <2> QED
    BY <1>0, <2>1, Returned
<1>2. table[h].refs > 0
  BY <1>0, TableHeld
<1> HIDE DEF n, h
<1>3. /\ table' \in [Tables -> TableRecords] /\ open_files' \in Nat /\ FilesExact'
      /\ \A w \in Tables :
           /\ table[w].refs \in Nat /\ table'[w].refs = table[w].refs - Eq(h, w)
           /\ table'[w].refs > 0 => /\ table[w].refs > 0
                                    /\ table'[w].number = table[w].number
                                    /\ table'[w].cache_id = table[w].cache_id
           /\ table'[w].filter = table[w].filter \/ table'[w].filter = "none"
  BY <1>0, <1>1, <1>2, UnrefStep
<1>4. TypeOK'
  BY <1>0, <1>1, <1>3 DEF TypeOK, TableRecords, CallRecords, Labels
<1>5. Calls'
  BY <1>0, <1>1 DEF Calls, CallOK, Holding, Reading
<1>6. Unshared'
  BY <1>0, <1>1, Addresses DEF Unshared, Calls, CallOK, Holding
<1>7. TablesAlive'
  BY <1>0, <1>3 DEF TablesAlive
<1>8. RefsExact'
  <2>1. \A w \in Tables : table'[w].refs = table[w].refs
           + (Eq(rd'[t].handle, w) - Eq(rd[t].handle, w))
           + (Eq(cache_'[n], w) - Eq(cache_[n], w))
    BY <1>0, <1>1, <1>3, Addresses DEF Eq, h
  <2> QED
    BY <1>0, <1>1, <2>1, RefsStep
<1>9. BlocksExact' /\ BlocksUnshared' /\ BlocksAtHand' /\ BlocksCached'
  <2>1. \A w \in Threads : pc[w] = "fill" =>
           table'[rd[w].handle].cache_id = table[rd[w].handle].cache_id
    <3>1. ASSUME NEW w \in Threads, pc[w] = "fill"
          PROVE  table'[rd[w].handle].cache_id = table[rd[w].handle].cache_id
      <4>1. rd[w].handle \in Tables /\ rd'[w].handle = rd[w].handle
        BY <1>0, <1>1, <3>1 DEF Calls, CallOK, Holding
      <4>2. table'[rd[w].handle].refs > 0
        BY <1>8, <4>1, TableHeldAfter
      <4> QED
        BY <1>3, <4>1, <4>2
    <3> QED
      BY <3>1
  <2>2. last_id \in Nat
    BY DEF TypeOK
  <2>3. \A w \in Threads : /\ rd'[w].block = rd[w].block
                           /\ pc'[w] \in Reading <=> pc[w] \in Reading
                           /\ pc'[w] = "fill" <=> pc[w] = "fill"
                           /\ pc[w] \in Reading => rd'[w] = rd[w]
    BY <1>0, <1>1 DEF Reading
  <2> QED
    BY <1>0, <1>3, <2>1, <2>2, <2>3, BlocksFrame
<1>10. FilterHidesNothing'
  BY <1>1 DEF FilterHidesNothing
<1> QED
  BY <1>3, <1>4, <1>5, <1>6, <1>7, <1>8, <1>9, <1>10

-----------------------------------------------------------------------------
(* The table cache makes room, and files are removed *)

\* When nobody reads file n, its tables have the reference of the cache only.
LEMMA OnlyCached ==
  ASSUME CacheInv, NEW n \in Numbers,
         \A t \in Threads : pc[t] # "idle" => rd[t].number # n,
         NEW u \in Tables, u[1] = n
  PROVE  table[u].refs = Eq(cache_[n], u)
<1> USE DEF CacheInv
<1> DEFINE H == {t \in Threads : rd[t].handle = u}
           C == {m \in Numbers : cache_[m] = u}
<1>1. H = {}
  BY Addresses DEF Calls, CallOK, Holding
<1>2. (cache_[n] = u => C = {n}) /\ (cache_[n] # u => C = {})
  BY Addresses DEF TablesAlive
<1>3. Cardinality({n}) = 1 /\ Cardinality({}) = 0
  BY FS_Singleton, FS_EmptySet
<1>4. table[u].refs = Cardinality(H) + Cardinality(C)
  BY DEF RefsExact
<1> HIDE DEF H, C
<1>5. Cardinality(H) = 0
  BY <1>1, <1>3
<1>6. (cache_[n] = u => Cardinality(C) = 1) /\ (cache_[n] # u => Cardinality(C) = 0)
  BY <1>2, <1>3
<1> QED
  BY <1>4, <1>5, <1>6 DEF Eq

LEMMA DropEntryStep ==
  ASSUME CacheInv, NEW n \in Numbers, cache_[n] # nullptr, DropEntry(n),
         UNCHANGED <<blockVars, pc, rd, faults>>,
         disk' \subseteq Numbers, live' \subseteq disk',
         \/ UNCHANGED live
         \/ live' = live \ {n} /\ \A t \in Threads : pc[t] # "idle" => rd[t].number # n
  PROVE  CacheInv'
<1> USE DEF CacheInv
<1> DEFINE u == cache_[n]
<1>0. /\ u \in Tables /\ table[u].refs > 0
      /\ table' = UnrefEntry(table, u) /\ open_files' = FilesAfterUnref(u)
      /\ cache_' = [cache_ EXCEPT ![n] = nullptr]
      /\ UNCHANGED <<block_cache, block, last_id>>
  <2>1. u \in Tables
    BY DEF TypeOK
  <2> QED
    BY <2>1, TableHeld DEF DropEntry, blockVars
<1>1. cache_' \in [Numbers -> Tables \cup {nullptr}] /\ cache_'[n] = nullptr
      /\ \A m \in Numbers : m # n => cache_'[m] = cache_[m]
  BY <1>0 DEF TypeOK
<1>2. Background \in Threads
  BY BuilderAssumption
<1> HIDE DEF u
<1>3. /\ table' \in [Tables -> TableRecords] /\ open_files' \in Nat /\ FilesExact'
      /\ \A w \in Tables :
           /\ table[w].refs \in Nat /\ table'[w].refs = table[w].refs - Eq(u, w)
           /\ table'[w].refs > 0 => /\ table[w].refs > 0
                                    /\ table'[w].number = table[w].number
                                    /\ table'[w].cache_id = table[w].cache_id
           /\ table'[w].filter = table[w].filter \/ table'[w].filter = "none"
  BY <1>0, <1>2, UnrefStep
<1>4. TypeOK'
  BY <1>0, <1>1, <1>3 DEF TypeOK, TableRecords
<1>5. Calls'
  BY DEF Calls, CallOK
<1>6. Unshared'
  BY <1>1, Addresses DEF Unshared, Calls, CallOK, Holding
<1>7. RefsExact'
  <2>1. \A w \in Tables : table'[w].refs = table[w].refs
           + (Eq(rd'[Background].handle, w) - Eq(rd[Background].handle, w))
           + (Eq(cache_'[n], w) - Eq(cache_[n], w))
    BY <1>1, <1>3, Addresses DEF Eq, u
  <2> QED
    BY <1>1, <1>2, <2>1, RefsStep
<1>8. TablesAlive'
  <2>1. \A w \in Tables : table'[w].refs > 0 => w[1] \in live'
    <3>1. CASE UNCHANGED live
      BY <1>3, <3>1 DEF TablesAlive
    <3>2. CASE live' = live \ {n} /\ \A t \in Threads : pc[t] # "idle" => rd[t].number # n
      <4>1. \A w \in Tables : w[1] = n => table'[w].refs = 0
        BY <1>3, <3>2, OnlyCached DEF Eq, u
      <4> QED
        BY <1>3, <3>2, <4>1 DEF TablesAlive
    <3> QED
      BY <3>1, <3>2
  <2> QED
    BY <1>0, <1>1, <1>3, <2>1 DEF TablesAlive
<1>9. BlocksExact' /\ BlocksUnshared' /\ BlocksAtHand' /\ BlocksCached'
  <2>1. ASSUME NEW w \in Threads, pc[w] = "fill"
        PROVE  table'[rd[w].handle].cache_id = table[rd[w].handle].cache_id
    <3>1. rd[w].handle \in Tables /\ rd'[w].handle = rd[w].handle
      BY <2>1 DEF Calls, CallOK, Holding
    <3>2. table'[rd[w].handle].refs > 0
      BY <1>7, <3>1, TableHeldAfter
    <3> QED
      BY <1>3, <3>1, <3>2
  <2>2. last_id \in Nat
    BY DEF TypeOK
  <2> QED
    BY <1>0, <1>3, <2>1, <2>2, BlocksFrame
<1>10. FilterHidesNothing'
  BY DEF FilterHidesNothing
<1> QED
  BY <1>3, <1>4, <1>5, <1>6, <1>7, <1>8, <1>9, <1>10

LEMMA EvictTableStep ==
  ASSUME CacheInv, NEW n \in Numbers, EvictTable(n)
  PROVE  CacheInv'
BY DropEntryStep DEF EvictTable, fileVars, CacheInv, TypeOK

LEMMA RemoveTableStep ==
  ASSUME CacheInv, NEW n \in Numbers, RemoveTable(n)
  PROVE  CacheInv'
<1> USE DEF CacheInv
<1>0. /\ UNCHANGED <<blockVars, pc, rd, faults>>
      /\ \A t \in Threads : pc[t] # "idle" => rd[t].number # n
      /\ disk' = disk \ {n} /\ live' = live \ {n}
      /\ disk' \subseteq Numbers /\ live' \subseteq disk'
  BY DEF RemoveTable, TypeOK
<1>1. CASE cache_[n] # nullptr
  <2>1. DropEntry(n)
    BY <1>1 DEF RemoveTable
  <2> QED
    BY <1>0, <1>1, <2>1, DropEntryStep
<1>2. CASE cache_[n] = nullptr
  <2>1. UNCHANGED <<cache_, table, open_files, block_cache, block, last_id>>
    BY <1>0, <1>2 DEF RemoveTable, tableVars, blockVars
  <2>2. TypeOK'
    BY <1>0, <2>1 DEF TypeOK
  <2>3. Calls' /\ Unshared' /\ RefsExact' /\ FilesExact' /\ BlocksExact' /\ FilterHidesNothing'
    BY <1>0, <2>1 DEF Calls, CallOK, Unshared, RefsExact, FilesExact, BlocksExact,
                      FilterHidesNothing
  <2>4. BlocksUnshared' /\ BlocksAtHand' /\ BlocksCached'
    BY <1>0, <2>1 DEF BlocksUnshared, BlocksAtHand, BlocksCached, CacheKey, Opened
  <2>5. \A w \in Tables : w[1] = n => table[w].refs = 0
    BY <1>0, <1>2, OnlyCached, Addresses DEF Eq
  <2>6. TablesAlive'
    BY <1>0, <2>1, <2>5 DEF TablesAlive
  <2> QED
    BY <2>2, <2>3, <2>4, <2>6
<1> QED
  BY <1>1, <1>2

-----------------------------------------------------------------------------
(* Blocks *)

\* One reference less for a block, as for a table.
LEMMA UnrefedBlock ==
  ASSUME NEW blk \in [Blocks -> BlockRecords], NEW b \in Blocks, blk[b].refs > 0
  PROVE  LET new == UnrefBlock(blk, b) IN
         /\ new \in [Blocks -> BlockRecords]
         /\ \A c \in Blocks :
              /\ new[c].refs = blk[c].refs - Eq(b, c)
              /\ new[c].refs > 0 => /\ new[c].number = blk[c].number
                                    /\ new[c].offset = blk[c].offset
<1>1. \A c \in Blocks : blk[c] \in BlockRecords /\ blk[c].refs \in Nat
  BY DEF BlockRecords
<1>2. CASE blk[b].refs = 1
  <2>1. NoBlock \in BlockRecords /\ NoBlock.refs = 0
    BY DEF NoBlock, BlockRecords
  <2>2. UnrefBlock(blk, b) = [blk EXCEPT ![b] = NoBlock]
    BY <1>2 DEF UnrefBlock
  <2> QED
    BY <1>1, <1>2, <2>1, <2>2 DEF Eq
<1>3. CASE blk[b].refs # 1
  <2>1. UnrefBlock(blk, b) = [blk EXCEPT ![b].refs = @ - 1]
    BY <1>3 DEF UnrefBlock
  <2>2. [blk[b] EXCEPT !.refs = @ - 1] \in BlockRecords
    BY <1>1, <1>3 DEF BlockRecords
  <2>3. UnrefBlock(blk, b) \in [Blocks -> BlockRecords]
    BY <2>1, <2>2
  <2> QED
    BY <1>1, <2>1, <2>3 DEF Eq, BlockRecords
<1> QED
  BY <1>2, <1>3

LEMMA BlockHeldAfter ==
  ASSUME BlocksExact', NEW b \in Blocks,
         \/ \E t \in Threads : rd'[t].block = b
         \/ \E k \in Keys : block_cache'[k] = b
  PROVE  block'[b].refs > 0
<1> DEFINE H == {w \in Threads : rd'[w].block = b}
           C == {k \in Keys : block_cache'[k] = b}
<1>1. block'[b].refs = Cardinality(H) + Cardinality(C)
  BY DEF BlocksExact
<1>2. Cardinality(H) \in Nat /\ (Cardinality(H) = 0 <=> H = {})
  BY Finiteness, CountZero
<1>3. Cardinality(C) \in Nat /\ (Cardinality(C) = 0 <=> C = {})
  BY Finiteness, CountZero
<1>4. H # {} \/ C # {}
  OBVIOUS
<1> HIDE DEF H, C
<1> QED
  BY <1>1, <1>2, <1>3, <1>4

\* The key of a block of the table at hand.
LEMMA KeyAtHand ==
  ASSUME CacheInv, NEW t \in Threads, pc[t] \in Holding, NEW o \in Offsets
  PROVE  /\ CacheKey(t, o) \in Keys
         /\ CacheKey(t, o)[1] = table[rd[t].handle].cache_id /\ CacheKey(t, o)[2] = o
         /\ rd[t].handle \in Tables /\ table[rd[t].handle].refs > 0
         /\ table[rd[t].handle].number = rd[t].number
         /\ table[rd[t].handle].cache_id <= last_id
<1> USE DEF CacheInv
<1>1. rd[t].handle \in Tables /\ rd[t].handle[1] = rd[t].number
  BY DEF Calls, CallOK
<1>2. table[rd[t].handle].refs > 0
  BY <1>1, TableHeld
<1>3. table[rd[t].handle].cache_id \in 0 .. MaxOpens
  BY <1>1 DEF TypeOK
<1> QED
  BY <1>1, <1>2, <1>3 DEF TablesAlive, CacheKey, Opened, Keys

LEMMA FilterSkipsStep ==
  ASSUME CacheInv, NEW t \in Threads, FilterSkips(t)
  PROVE  CacheInv'
<1> USE DEF CacheInv
<1>0. /\ pc[t] = "table" /\ ~rd[t].iter
      /\ Opened(t).filter \in IF rd[t].present THEN {"garbage"} ELSE {"good", "garbage"}
      /\ UNCHANGED <<cache_, table, open_files, block_cache, block, last_id, disk, live, rd,
                     faults>>
      /\ Goto(t, "release")
  BY DEF FilterSkips, tableVars, blockVars, fileVars
<1>1. /\ \A w \in Threads : w # t => pc'[w] = pc[w]
      /\ pc'[t] = "release" /\ pc' \in [Threads -> Labels]
  BY <1>0, Went DEF Labels
<1>2. TypeOK'
  BY <1>0, <1>1 DEF TypeOK, Labels
<1>3. Calls'
  BY <1>0, <1>1 DEF Calls, CallOK, Holding, Reading
<1>4. Unshared' /\ TablesAlive' /\ RefsExact' /\ FilesExact'
  BY <1>0, <1>1, TablesFrame DEF tableVars
<1>5. BlocksExact' /\ BlocksUnshared' /\ BlocksAtHand' /\ BlocksCached'
  BY <1>0, <1>1, BlocksFrame DEF Reading, TypeOK
<1>6. FilterHidesNothing'
  <2>1. ~rd[t].present
    BY <1>0 DEF TablesAlive, Opened, Calls, CallOK, Holding
  <2> QED
    BY <1>0, <1>1, <2>1 DEF FilterHidesNothing
<1> QED
  BY <1>2, <1>3, <1>4, <1>5, <1>6

LEMMA BadHandleStep ==
  ASSUME CacheInv, NEW t \in Threads, BadHandle(t)
  PROVE  CacheInv'
<1> USE DEF CacheInv
<1>0. /\ pc[t] = "table"
      /\ UNCHANGED <<cache_, table, open_files, block_cache, block, last_id, disk, live>>
      /\ rd' = [rd EXCEPT ![t].s = "Corruption"]
      /\ Goto(t, "release")
  BY DEF BadHandle, tableVars, blockVars, fileVars
<1>1. faults' \in 0 .. MaxFaults
  BY SizeAssumption DEF BadHandle, TypeOK
<1>2. rd \in [Threads -> CallRecords] /\ rd[t] \in CallRecords
  BY DEF TypeOK, CallRecords
<1>3. [rd[t] EXCEPT !.s = "Corruption"] \in CallRecords
  BY <1>2 DEF CallRecords
<1>4. rd' \in [Threads -> CallRecords] /\ rd'[t] = [rd[t] EXCEPT !.s = "Corruption"]
  BY <1>0, <1>2, <1>3
<1>5. /\ \A w \in Threads : w # t => pc'[w] = pc[w]
      /\ pc'[t] = "release" /\ pc' \in [Threads -> Labels]
  BY <1>0, Went DEF Labels
<1>6. /\ \A w \in Threads : w # t => rd'[w] = rd[w]
      /\ rd'[t].block = rd[t].block /\ rd'[t].s = "Corruption"
      /\ rd'[t].handle = rd[t].handle /\ rd'[t].number = rd[t].number
      /\ rd'[t].offset = rd[t].offset /\ rd'[t].read = rd[t].read
  BY <1>0, <1>2, <1>4 DEF CallRecords
<1>7. TypeOK'
  BY <1>0, <1>1, <1>4, <1>5 DEF TypeOK, CallRecords, Labels
<1>8. Calls'
  BY <1>0, <1>5, <1>6 DEF Calls, CallOK, Holding, Reading
<1>9. Unshared' /\ TablesAlive' /\ RefsExact' /\ FilesExact'
  BY <1>0, <1>5, <1>6, TablesFrame DEF tableVars
<1>10. BlocksExact' /\ BlocksUnshared' /\ BlocksAtHand' /\ BlocksCached'
  BY <1>0, <1>5, <1>6, BlocksFrame DEF Reading, TypeOK
<1>11. FilterHidesNothing'
  BY <1>5, <1>6 DEF FilterHidesNothing
<1> QED
  BY <1>7, <1>8, <1>9, <1>10, <1>11

LEMMA BlockLookupStep ==
  ASSUME CacheInv, NEW t \in Threads, NEW o \in Offsets, BlockLookup(t, o)
  PROVE  CacheInv'
<1> USE DEF CacheInv
<1> DEFINE k == CacheKey(t, o)
           b == IF BlockCache THEN block_cache[k] ELSE nullptr
<1>0. /\ pc[t] = "table" /\ rd[t].block = nullptr
      /\ UNCHANGED <<cache_, table, open_files, block_cache, last_id, disk, live, faults>>
      /\ rd' = [rd EXCEPT ![t].offset = o, ![t].block = b, ![t].read = TRUE]
      /\ Goto(t, IF b # nullptr THEN "iterate" ELSE "read")
      /\ block' = IF b # nullptr THEN [block EXCEPT ![b].refs = @ + 1] ELSE block
  BY DEF BlockLookup, Calls, CallOK, Reading, tableVars, fileVars
<1>1. /\ k \in Keys /\ k[1] = table[rd[t].handle].cache_id /\ k[2] = o
      /\ rd[t].handle \in Tables /\ table[rd[t].handle].refs > 0
      /\ table[rd[t].handle].number = rd[t].number
  BY <1>0, KeyAtHand DEF Holding
<1>2. b \in Blocks \cup {nullptr} /\ (b # nullptr => b = block_cache[k])
  BY <1>1 DEF TypeOK
<1> HIDE DEF k, b
<1>3. /\ \A w \in Threads : w # t => rd'[w] = rd[w] /\ pc'[w] = pc[w]
      /\ rd'[t].block = b /\ rd'[t].offset = o /\ rd'[t].read
      /\ rd'[t].handle = rd[t].handle /\ rd'[t].number = rd[t].number
      /\ pc'[t] = IF b # nullptr THEN "iterate" ELSE "read"
      /\ rd' \in [Threads -> CallRecords] /\ pc' \in [Threads -> Labels]
  <2>1. rd \in [Threads -> CallRecords] /\ rd[t] \in CallRecords
    BY DEF TypeOK, CallRecords
  <2>2. [rd[t] EXCEPT !.offset = o, !.block = b, !.read = TRUE] \in CallRecords
    BY <1>2, <2>1 DEF CallRecords
  <2>3. rd' = [rd EXCEPT ![t] = [rd[t] EXCEPT !.offset = o, !.block = b, !.read = TRUE]]
    BY <1>0, <2>1
  <2>4. rd' \in [Threads -> CallRecords]
    BY <2>1, <2>2, <2>3
  <2>5. /\ \A w \in Threads : w # t => pc'[w] = pc[w]
        /\ pc'[t] = (IF b # nullptr THEN "iterate" ELSE "read")
        /\ pc' \in [Threads -> Labels]
    BY <1>0, Went DEF Labels
  <2> QED
    BY <2>1, <2>3, <2>4, <2>5 DEF CallRecords
<1>4. /\ block' \in [Blocks -> BlockRecords]
      /\ \A c \in Blocks : /\ block'[c].refs = block[c].refs + Eq(b, c)
                           /\ block'[c].number = block[c].number
                           /\ block'[c].offset = block[c].offset
                           /\ block[c].refs \in Nat
  <2>1. block \in [Blocks -> BlockRecords] /\ \A c \in Blocks : block[c].refs \in Nat
    BY DEF TypeOK, BlockRecords
  <2>2. CASE b = nullptr
    BY <1>0, <2>1, <2>2, Addresses DEF Eq
  <2>3. CASE b # nullptr
    <3>1. b \in Blocks /\ block' = [block EXCEPT ![b].refs = @ + 1]
      BY <1>0, <1>2, <2>3
    <3>2. [block[b] EXCEPT !.refs = @ + 1] \in BlockRecords
      BY <2>1, <3>1 DEF BlockRecords
    <3>3. block' \in [Blocks -> BlockRecords]
      BY <2>1, <3>1, <3>2
    <3> QED
      BY <2>1, <3>1, <3>3 DEF Eq, BlockRecords
  <2> QED
    BY <2>2, <2>3
<1>5. TypeOK'
  BY <1>0, <1>3, <1>4 DEF TypeOK, CallRecords, BlockRecords, Labels
<1>6. Calls'
  BY <1>0, <1>2, <1>3 DEF Calls, CallOK, Holding, Reading
<1>7. Unshared' /\ TablesAlive' /\ RefsExact' /\ FilesExact'
  BY <1>0, <1>3, TablesFrame DEF tableVars
<1>8. BlocksExact'
  <2>1. \A c \in Blocks : block'[c].refs = block[c].refs
           + (Eq(rd'[t].block, c) - Eq(rd[t].block, c))
           + (Eq(block_cache'[k], c) - Eq(block_cache[k], c))
    BY <1>0, <1>3, <1>4, Addresses DEF Eq
  <2> QED
    BY <1>0, <1>1, <1>3, <2>1, BlocksStep
<1>9. BlocksUnshared'
  BY <1>0, <1>1, <1>2, <1>3, Addresses DEF BlocksUnshared, CacheKey, Opened, Calls, CallOK, Reading
<1>10. BlocksAtHand'
  <2>1. b # nullptr => block[b].number = rd[t].number /\ block[b].offset = o
    BY <1>1, <1>2 DEF BlocksCached
  <2> QED
    BY <1>2, <1>3, <1>4, <2>1 DEF BlocksAtHand, Reading, Calls, CallOK
<1>11. BlocksCached'
  BY <1>0, <1>4 DEF BlocksCached, TypeOK
<1>12. FilterHidesNothing'
  BY <1>3 DEF FilterHidesNothing
<1> QED
  BY <1>5, <1>6, <1>7, <1>8, <1>9, <1>10, <1>11, <1>12

LEMMA ReadBlockStep ==
  ASSUME CacheInv, NEW t \in Threads, ReadBlock(t)
  PROVE  CacheInv'
<1> USE DEF CacheInv
<1> DEFINE o == rd[t].offset
           k == CacheKey(t, o)
           b == FreeBlock(k)
<1>0. /\ pc[t] = "read" /\ rd[t].block = nullptr /\ o \in Offsets /\ rd[t].read
      /\ UNCHANGED <<cache_, table, open_files, block_cache, last_id, disk, live>>
  BY DEF ReadBlock, Calls, CallOK, Reading, tableVars, fileVars
<1>1. PICK e \in EnvStatus, cachable \in BOOLEAN, fill_cache \in BOOLEAN :
        /\ CountFault(e)
        /\ IF e # "OK"
             THEN /\ rd' = [rd EXCEPT ![t].s = e]
                  /\ Goto(t, "release")
                  /\ UNCHANGED block
             ELSE /\ block' = [block EXCEPT ![b] =
                       [number |-> Opened(t).number, offset |-> o, refs |-> 1]]
                  /\ rd' = [rd EXCEPT ![t].block = b]
                  /\ Goto(t, IF BlockCache /\ cachable /\ fill_cache THEN "fill" ELSE "iterate")
  BY DEF ReadBlock
<1>2. faults' \in 0 .. MaxFaults /\ e \in {"OK", "IOError"}
  BY <1>1, SizeAssumption DEF EnvStatus, CountFault, TypeOK
<1>3. /\ k \in Keys /\ k[1] = table[rd[t].handle].cache_id /\ k[2] = o
      /\ rd[t].handle \in Tables /\ Opened(t).number = rd[t].number
  BY <1>0, KeyAtHand DEF Holding, Opened
<1>4. b \in Blocks /\ b[1] = k /\ block[b].refs = 0
  BY <1>0, <1>3, FreeBlockExists
<1>5. rd \in [Threads -> CallRecords] /\ rd[t] \in CallRecords
  BY DEF TypeOK, CallRecords
<1> HIDE DEF b
<1>6. ASSUME e # "OK" PROVE CacheInv'
  <2>1. rd' = [rd EXCEPT ![t] = [rd[t] EXCEPT !.s = e]]
        /\ Goto(t, "release") /\ UNCHANGED block
    BY <1>1, <1>5, <1>6
  <2>2. [rd[t] EXCEPT !.s = e] \in CallRecords
    BY <1>2, <1>5 DEF CallRecords
  <2>3. /\ \A w \in Threads : w # t => rd'[w] = rd[w] /\ pc'[w] = pc[w]
        /\ rd'[t].block = nullptr /\ rd'[t].s = e /\ pc'[t] = "release"
        /\ rd'[t].handle = rd[t].handle /\ rd'[t].number = rd[t].number
        /\ rd' \in [Threads -> CallRecords] /\ pc' \in [Threads -> Labels]
    <3>1. /\ \A w \in Threads : w # t => pc'[w] = pc[w]
          /\ pc'[t] = "release" /\ pc' \in [Threads -> Labels]
      BY <2>1, Went DEF Labels
    <3>2. rd' \in [Threads -> CallRecords]
      BY <1>5, <2>1, <2>2
    <3> QED
      BY <1>0, <1>5, <2>1, <3>1, <3>2 DEF CallRecords
  <2>4. TypeOK'
    BY <1>0, <1>2, <2>1, <2>3 DEF TypeOK, CallRecords, Labels
  <2>5. Calls'
    BY <1>0, <2>3 DEF Calls, CallOK, Holding, Reading
  <2>6. Unshared' /\ TablesAlive' /\ RefsExact' /\ FilesExact'
    BY <1>0, <2>3, TablesFrame DEF tableVars
  <2>7. BlocksExact' /\ BlocksUnshared' /\ BlocksAtHand' /\ BlocksCached'
    BY <1>0, <2>1, <2>3, BlocksFrame DEF Reading, TypeOK
  <2>8. FilterHidesNothing'
    BY <1>6, <2>3 DEF FilterHidesNothing
  <2> QED
    BY <2>4, <2>5, <2>6, <2>7, <2>8
<1>7. ASSUME e = "OK" PROVE CacheInv'
  <2>1. /\ rd' = [rd EXCEPT ![t] = [rd[t] EXCEPT !.block = b]]
        /\ block' = [block EXCEPT ![b] = [number |-> rd[t].number, offset |-> o, refs |-> 1]]
        /\ Goto(t, IF BlockCache /\ cachable /\ fill_cache THEN "fill" ELSE "iterate")
    BY <1>1, <1>3, <1>5, <1>7
  <2>2. [rd[t] EXCEPT !.block = b] \in CallRecords
    BY <1>4, <1>5 DEF CallRecords
  <2>3. /\ \A w \in Threads : w # t => rd'[w] = rd[w] /\ pc'[w] = pc[w]
        /\ rd'[t].block = b /\ rd'[t].offset = o /\ rd'[t].read
        /\ rd'[t].handle = rd[t].handle /\ rd'[t].number = rd[t].number
        /\ pc'[t] \in Reading /\ (pc'[t] = "fill" => BlockCache)
        /\ rd' \in [Threads -> CallRecords] /\ pc' \in [Threads -> Labels]
    <3>1. /\ \A w \in Threads : w # t => pc'[w] = pc[w]
          /\ pc'[t] \in Reading /\ (pc'[t] = "fill" => BlockCache)
          /\ pc' \in [Threads -> Labels]
      BY <2>1, Went DEF Labels, Reading
    <3>2. rd' \in [Threads -> CallRecords]
      BY <1>5, <2>1, <2>2
    <3> QED
      BY <1>0, <1>5, <2>1, <3>1, <3>2 DEF CallRecords
  <2>4. /\ block' \in [Blocks -> BlockRecords]
        /\ block'[b].number = rd[t].number /\ block'[b].offset = o /\ block'[b].refs = 1
        /\ \A c \in Blocks : c # b => block'[c] = block[c]
        /\ \A c \in Blocks : block[c].refs \in Nat
    BY <1>0, <1>4, <2>1 DEF TypeOK, BlockRecords
  <2>5. (\A w \in Threads : rd[w].block # b) /\ (\A m \in Keys : block_cache[m] # b)
    BY <1>4, BlockHeld
  <2> HIDE DEF o, k
  <2>6. TypeOK'
    BY <1>0, <1>2, <2>3, <2>4 DEF TypeOK, CallRecords, BlockRecords, Labels
  <2>7. Calls'
    BY <1>0, <1>4, <2>3 DEF Calls, CallOK, Holding, Reading
  <2>8. Unshared' /\ TablesAlive' /\ RefsExact' /\ FilesExact'
    BY <1>0, <2>3, TablesFrame DEF tableVars, Reading
  <2>9. BlocksExact'
    <3>1. \A c \in Blocks : block'[c].refs = block[c].refs
             + (Eq(rd'[t].block, c) - Eq(rd[t].block, c))
             + (Eq(block_cache'[k], c) - Eq(block_cache[k], c))
      BY <1>0, <1>4, <2>3, <2>4, Addresses DEF Eq
    <3> QED
      BY <1>0, <1>3, <2>3, <3>1, BlocksStep
  <2>10. BlocksUnshared'
    <3>1. rd'[t].block[1] = CacheKey(t, rd[t].offset)'
      BY <1>0, <1>4, <2>3 DEF CacheKey, Opened, k
    <3>2. ASSUME NEW w \in Threads, w # t, pc'[w] = "fill"
          PROVE  rd'[w].block[1] = CacheKey(w, rd[w].offset)'
      BY <1>0, <2>3, <3>2 DEF CacheKey, Opened, BlocksUnshared
    <3> QED
      BY <1>0, <2>3, <2>5, <3>1, <3>2 DEF BlocksUnshared
  <2>11. BlocksAtHand'
    BY <2>3, <2>4, <2>5 DEF BlocksAtHand, Reading, Calls, CallOK
  <2>12. BlocksCached'
    <3>1. \A m \in Keys : block_cache[m] # nullptr => block'[block_cache[m]] = block[block_cache[m]]
      BY <2>4, <2>5 DEF TypeOK
    <3> QED
      BY <1>0, <3>1 DEF BlocksCached
  <2>13. FilterHidesNothing'
    BY <2>3 DEF FilterHidesNothing, Reading
  <2> QED
    BY <2>6, <2>7, <2>8, <2>9, <2>10, <2>11, <2>12, <2>13
<1> QED
  BY <1>6, <1>7

LEMMA FillCacheStep ==
  ASSUME CacheInv, NEW t \in Threads, FillCache(t)
  PROVE  CacheInv'
<1> USE DEF CacheInv
<1> DEFINE o == rd[t].offset
           k == CacheKey(t, o)
           b == rd[t].block
           old == block_cache[k]
           held == [block EXCEPT ![b].refs = 2]
<1>0. /\ pc[t] = "fill" /\ BlockCache /\ o \in Offsets /\ b \in Blocks
      /\ UNCHANGED <<cache_, table, open_files, last_id, disk, live, rd, faults>>
      /\ block_cache' = [block_cache EXCEPT ![k] = b]
      /\ block' = IF old = nullptr THEN held ELSE UnrefBlock(held, old)
      /\ Goto(t, "iterate")
  BY DEF FillCache, InsertBlock, Calls, CallOK, Reading, tableVars, fileVars
<1>1. /\ \A w \in Threads : w # t => pc'[w] = pc[w]
      /\ pc'[t] = "iterate" /\ pc' \in [Threads -> Labels]
  BY <1>0, Went DEF Labels
<1>2. /\ k \in Keys /\ k[1] = table[rd[t].handle].cache_id /\ k[2] = o
      /\ rd[t].handle \in Tables /\ table[rd[t].handle].refs > 0
      /\ table[rd[t].handle].number = rd[t].number
      /\ table[rd[t].handle].cache_id <= last_id
  BY <1>0, KeyAtHand DEF Holding
<1>3. /\ b[1] = k
      /\ \A w \in Threads \ {t} : rd[w].block # b
      /\ \A m \in Keys : block_cache[m] # b
      /\ old \in Blocks \cup {nullptr} /\ b # nullptr /\ old # b
  BY <1>0, <1>2, Addresses DEF BlocksUnshared, TypeOK
<1>4. block[b].number = rd[t].number /\ block[b].offset = o
  BY <1>0 DEF BlocksAtHand, Reading
<1> HIDE DEF o, k, b, old
<1>5. block[b].refs = 1
  <2> DEFINE H == {w \in Threads : rd[w].block = b}
             C == {m \in Keys : block_cache[m] = b}
  <2>1. H = {t} /\ C = {}
    BY <1>3 DEF b
  <2>2. Cardinality({t}) = 1 /\ Cardinality({}) = 0
    BY FS_Singleton, FS_EmptySet
  <2>3. block[b].refs = Cardinality(H) + Cardinality(C)
    BY <1>0 DEF BlocksExact
  <2> HIDE DEF H, C
  <2>4. Cardinality(H) = 1 /\ Cardinality(C) = 0
    BY <2>1, <2>2
  <2> QED
    BY <2>3, <2>4
<1>6. /\ held \in [Blocks -> BlockRecords]
      /\ \A c \in Blocks : /\ held[c].refs = block[c].refs + Eq(b, c)
                           /\ held[c].number = block[c].number
                           /\ held[c].offset = block[c].offset
                           /\ block[c].refs \in Nat
  <2>1. block \in [Blocks -> BlockRecords] /\ \A c \in Blocks : block[c].refs \in Nat
    BY DEF TypeOK, BlockRecords
  <2>2. [block[b] EXCEPT !.refs = 2] \in BlockRecords
    BY <1>0, <2>1 DEF BlockRecords
  <2>3. held \in [Blocks -> BlockRecords]
    BY <1>0, <2>1, <2>2
  <2> QED
    BY <1>0, <1>5, <2>1, <2>3 DEF Eq, BlockRecords
<1> HIDE DEF held
<1>7. /\ block' \in [Blocks -> BlockRecords]
      /\ \A c \in Blocks :
           /\ block'[c].refs = block[c].refs + Eq(b, c) - Eq(old, c)
           /\ block'[c].refs > 0 => /\ block'[c].number = block[c].number
                                    /\ block'[c].offset = block[c].offset
  <2>1. CASE old = nullptr
    BY <1>0, <1>6, <2>1, Addresses DEF Eq
  <2>2. CASE old # nullptr
    <3>1. old \in Blocks /\ block[old].refs > 0
      BY <1>2, <1>3, <2>2, BlockHeld DEF old
    <3>2. held[old].refs > 0
      BY <1>3, <1>6, <3>1 DEF Eq
    <3>3. block' = UnrefBlock(held, old)
      BY <1>0, <2>2
    <3> QED
      BY <1>6, <3>1, <3>2, <3>3, UnrefedBlock DEF Eq
  <2> QED
    BY <2>1, <2>2
<1>8. block_cache' \in [Keys -> Blocks \cup {nullptr}] /\ block_cache'[k] = b
      /\ \A m \in Keys : m # k => block_cache'[m] = block_cache[m]
  BY <1>0, <1>2 DEF TypeOK
<1>9. TypeOK'
  BY <1>0, <1>1, <1>7, <1>8 DEF TypeOK, BlockRecords, Labels
<1>10. Calls'
  BY <1>0, <1>1 DEF Calls, CallOK, Holding, Reading
<1>11. Unshared' /\ TablesAlive' /\ RefsExact' /\ FilesExact'
  BY <1>0, <1>1, TablesFrame DEF tableVars
<1>12. BlocksExact'
  <2>1. \A c \in Blocks : block'[c].refs = block[c].refs
           + (Eq(rd'[t].block, c) - Eq(rd[t].block, c))
           + (Eq(block_cache'[k], c) - Eq(block_cache[k], c))
    BY <1>0, <1>6, <1>7, <1>8 DEF Eq, old
  <2> QED
    BY <1>0, <1>2, <1>8, <2>1, BlocksStep
<1>13. BlocksUnshared'
  <2>1. ASSUME NEW w \in Threads, w # t, pc'[w] = "fill"
        PROVE  /\ rd'[w].block[1] = CacheKey(w, rd[w].offset)'
               /\ \A x \in Threads \ {w} : rd'[x].block # rd'[w].block
               /\ \A m \in Keys : block_cache'[m] # rd'[w].block
    BY <1>0, <1>1, <1>3, <1>8, <2>1 DEF BlocksUnshared, CacheKey, Opened
  <2> QED
    BY <1>1, <2>1 DEF BlocksUnshared
<1>14. BlocksAtHand'
  <2>1. ASSUME NEW w \in Threads, pc'[w] \in Reading
        PROVE  /\ block'[rd'[w].block].number = rd'[w].number
               /\ block'[rd'[w].block].offset = rd'[w].offset
    <3>1. pc[w] \in Reading /\ rd'[w] = rd[w]
      BY <1>0, <1>1, <2>1 DEF Reading
    <3>2. rd[w].block \in Blocks
      BY <3>1 DEF Calls, CallOK
    <3>3. block'[rd[w].block].refs > 0
      BY <1>12, <3>1, <3>2, BlockHeldAfter
    <3> QED
      BY <1>7, <3>1, <3>2, <3>3 DEF BlocksAtHand
  <2> QED
    BY <2>1 DEF BlocksAtHand
<1>15. BlocksCached'
  <2>1. ASSUME NEW m \in Keys, block_cache'[m] # nullptr
        PROVE  /\ BlockCache /\ block_cache'[m][1] = m /\ m[1] <= last_id'
               /\ block'[block_cache'[m]].offset = m[2]
               /\ \A u \in Tables : table'[u].refs > 0 /\ table'[u].cache_id = m[1] =>
                    block'[block_cache'[m]].number = table'[u].number
    <3>1. block_cache'[m] \in Blocks
      BY <1>8, <2>1
    <3>2. block'[block_cache'[m]].refs > 0
      BY <1>12, <3>1, BlockHeldAfter
    <3>3. /\ block'[block_cache'[m]].number = block[block_cache'[m]].number
          /\ block'[block_cache'[m]].offset = block[block_cache'[m]].offset
      BY <1>7, <3>1, <3>2
    <3>4. CASE m = k
      BY <1>0, <1>2, <1>3, <1>4, <1>8, <3>3, <3>4 DEF TablesAlive
    <3>5. CASE m # k
      BY <1>0, <1>8, <2>1, <3>3, <3>5 DEF BlocksCached
    <3> QED
      BY <3>4, <3>5
  <2> QED
    BY <2>1 DEF BlocksCached
<1>16. FilterHidesNothing'
  BY <1>0, <1>1 DEF FilterHidesNothing
<1> QED
  BY <1>9, <1>10, <1>11, <1>12, <1>13, <1>14, <1>15, <1>16

LEMMA EndBlockStep ==
  ASSUME CacheInv, NEW t \in Threads, EndBlock(t)
  PROVE  CacheInv'
<1> USE DEF CacheInv
<1> DEFINE b == rd[t].block
           k == b[1]
<1>0. /\ pc[t] = "iterate" /\ b \in Blocks /\ rd[t].read
      /\ UNCHANGED <<cache_, table, open_files, block_cache, last_id, disk, live, faults>>
      /\ block' = UnrefBlock(block, b)
      /\ rd' = [rd EXCEPT ![t].block = nullptr, ![t].offset = 0]
      /\ Goto(t, "release") \/ Goto(t, "table")
  BY DEF EndBlock, Calls, CallOK, Reading, tableVars, fileVars
<1>1. k \in Keys /\ block[b].refs > 0
  BY <1>0, Addresses, BlockHeld
<1> HIDE DEF b, k
<1>2. /\ \A w \in Threads : w # t => rd'[w] = rd[w] /\ pc'[w] = pc[w]
      /\ rd'[t].block = nullptr /\ rd'[t].read
      /\ rd'[t].handle = rd[t].handle /\ rd'[t].number = rd[t].number
      /\ pc'[t] \in {"release", "table"}
      /\ rd' \in [Threads -> CallRecords] /\ pc' \in [Threads -> Labels]
  <2>1. rd \in [Threads -> CallRecords] /\ rd[t] \in CallRecords
    BY DEF TypeOK, CallRecords
  <2>2. [rd[t] EXCEPT !.block = nullptr, !.offset = 0] \in CallRecords
    BY <2>1 DEF CallRecords
  <2>3. rd' = [rd EXCEPT ![t] = [rd[t] EXCEPT !.block = nullptr, !.offset = 0]]
    BY <1>0, <2>1
  <2>4. rd' \in [Threads -> CallRecords]
    BY <2>1, <2>2, <2>3
  <2>5. /\ \A w \in Threads : w # t => pc'[w] = pc[w]
        /\ pc'[t] \in {"release", "table"} /\ pc' \in [Threads -> Labels]
    BY <1>0, Went DEF Labels
  <2> QED
    BY <1>0, <2>1, <2>3, <2>4, <2>5 DEF CallRecords
<1>3. /\ block' \in [Blocks -> BlockRecords]
      /\ \A c \in Blocks :
           /\ block[c].refs \in Nat /\ block'[c].refs = block[c].refs - Eq(b, c)
           /\ block'[c].refs > 0 => /\ block'[c].number = block[c].number
                                    /\ block'[c].offset = block[c].offset
  <2>1. block \in [Blocks -> BlockRecords] /\ \A c \in Blocks : block[c].refs \in Nat
    BY DEF TypeOK, BlockRecords
  <2> QED
    BY <1>0, <1>1, <2>1, UnrefedBlock
<1>4. TypeOK'
  BY <1>0, <1>2, <1>3 DEF TypeOK, CallRecords, BlockRecords, Labels
<1>5. Calls'
  BY <1>0, <1>2 DEF Calls, CallOK, Holding, Reading
<1>6. Unshared' /\ TablesAlive' /\ RefsExact' /\ FilesExact'
  BY <1>0, <1>2, TablesFrame DEF tableVars
<1>7. BlocksExact'
  <2>1. \A c \in Blocks : block'[c].refs = block[c].refs
           + (Eq(rd'[t].block, c) - Eq(rd[t].block, c))
           + (Eq(block_cache'[k], c) - Eq(block_cache[k], c))
    BY <1>0, <1>2, <1>3, Addresses DEF Eq, b
  <2> QED
    BY <1>0, <1>1, <1>2, <2>1, BlocksStep
<1>8. BlocksUnshared'
  <2>1. ASSUME NEW w \in Threads, w # t, pc'[w] = "fill"
        PROVE  /\ rd'[w].block[1] = CacheKey(w, rd[w].offset)'
               /\ \A x \in Threads \ {w} : rd'[x].block # rd'[w].block
               /\ \A m \in Keys : block_cache'[m] # rd'[w].block
    <3>1. pc[w] = "fill" /\ rd'[w] = rd[w] /\ rd[w].block \in Blocks
      BY <1>2, <2>1 DEF Calls, CallOK, Reading
    <3> QED
      BY <1>0, <1>2, <3>1, Addresses DEF BlocksUnshared, CacheKey, Opened
  <2> QED
    BY <1>2, <2>1 DEF BlocksUnshared
<1>9. BlocksAtHand'
  <2>1. ASSUME NEW w \in Threads, pc'[w] \in Reading
        PROVE  /\ block'[rd'[w].block].number = rd'[w].number
               /\ block'[rd'[w].block].offset = rd'[w].offset
    <3>1. pc[w] \in Reading /\ rd'[w] = rd[w]
      BY <1>2, <2>1 DEF Reading
    <3>2. rd[w].block \in Blocks
      BY <3>1 DEF Calls, CallOK
    <3>3. block'[rd[w].block].refs > 0
      BY <1>7, <3>1, <3>2, BlockHeldAfter
    <3> QED
      BY <1>3, <3>1, <3>2, <3>3 DEF BlocksAtHand
  <2> QED
    BY <2>1 DEF BlocksAtHand
<1>10. BlocksCached'
  <2>1. ASSUME NEW m \in Keys, block_cache'[m] # nullptr
        PROVE  /\ block'[block_cache'[m]].number = block[block_cache'[m]].number
               /\ block'[block_cache'[m]].offset = block[block_cache'[m]].offset
    <3>1. block_cache'[m] \in Blocks
      BY <1>0, <2>1 DEF TypeOK
    <3>2. block'[block_cache'[m]].refs > 0
      BY <1>7, <3>1, BlockHeldAfter
    <3> QED
      BY <1>3, <3>1, <3>2
  <2> QED
    BY <1>0, <2>1 DEF BlocksCached
<1>11. FilterHidesNothing'
  BY <1>2 DEF FilterHidesNothing
<1> QED
  BY <1>4, <1>5, <1>6, <1>7, <1>8, <1>9, <1>10, <1>11

LEMMA EvictBlockStep ==
  ASSUME CacheInv, NEW k \in Keys, EvictBlock(k)
  PROVE  CacheInv'
<1> USE DEF CacheInv
<1> DEFINE b == block_cache[k]
<1>0. /\ b \in Blocks /\ block[b].refs > 0
      /\ UNCHANGED <<cache_, table, open_files, last_id, disk, live, pc, rd, faults>>
      /\ block_cache' = [block_cache EXCEPT ![k] = nullptr]
      /\ block' = UnrefBlock(block, b)
  BY DEF EvictBlock, TypeOK, tableVars, fileVars
<1>1. block_cache' \in [Keys -> Blocks \cup {nullptr}] /\ block_cache'[k] = nullptr
      /\ \A m \in Keys : m # k => block_cache'[m] = block_cache[m]
  BY <1>0 DEF TypeOK
<1>2. Background \in Threads
  BY BuilderAssumption
<1> HIDE DEF b
<1>3. /\ block' \in [Blocks -> BlockRecords]
      /\ \A c \in Blocks :
           /\ block[c].refs \in Nat /\ block'[c].refs = block[c].refs - Eq(b, c)
           /\ block'[c].refs > 0 => /\ block'[c].number = block[c].number
                                    /\ block'[c].offset = block[c].offset
  <2>1. block \in [Blocks -> BlockRecords] /\ \A c \in Blocks : block[c].refs \in Nat
    BY DEF TypeOK, BlockRecords
  <2> QED
    BY <1>0, <2>1, UnrefedBlock
<1>4. TypeOK'
  BY <1>0, <1>1, <1>3 DEF TypeOK, BlockRecords
<1>5. Calls' /\ FilterHidesNothing'
  BY <1>0 DEF Calls, CallOK, FilterHidesNothing
<1>6. Unshared' /\ TablesAlive' /\ RefsExact' /\ FilesExact'
  BY <1>0, TablesFrame DEF tableVars
<1>7. BlocksExact'
  <2>1. \A c \in Blocks : block'[c].refs = block[c].refs
           + (Eq(rd'[Background].block, c) - Eq(rd[Background].block, c))
           + (Eq(block_cache'[k], c) - Eq(block_cache[k], c))
    BY <1>0, <1>1, <1>3, Addresses DEF Eq, b
  <2> QED
    BY <1>0, <1>1, <1>2, <2>1, BlocksStep
<1>8. BlocksUnshared'
  BY <1>0, <1>1, Addresses DEF BlocksUnshared, CacheKey, Opened, Calls, CallOK, Reading
<1>9. BlocksAtHand'
  <2>1. ASSUME NEW w \in Threads, pc[w] \in Reading
        PROVE  /\ block'[rd[w].block].number = rd[w].number
               /\ block'[rd[w].block].offset = rd[w].offset
    <3>1. rd[w].block \in Blocks /\ rd'[w] = rd[w]
      BY <1>0, <2>1 DEF Calls, CallOK
    <3>2. block'[rd[w].block].refs > 0
      BY <1>7, <3>1, BlockHeldAfter
    <3> QED
      BY <1>3, <2>1, <3>1, <3>2 DEF BlocksAtHand
  <2> QED
    BY <1>0, <2>1 DEF BlocksAtHand
<1>10. BlocksCached'
  <2>1. ASSUME NEW m \in Keys, block_cache'[m] # nullptr
        PROVE  /\ m # k /\ block_cache'[m] = block_cache[m]
               /\ block'[block_cache'[m]].number = block[block_cache'[m]].number
               /\ block'[block_cache'[m]].offset = block[block_cache'[m]].offset
    <3>1. block_cache'[m] \in Blocks
      BY <1>1, <2>1
    <3>2. block'[block_cache'[m]].refs > 0
      BY <1>7, <3>1, BlockHeldAfter
    <3> QED
      BY <1>1, <1>3, <2>1, <3>1, <3>2
  <2> QED
    BY <1>0, <2>1 DEF BlocksCached
<1> QED
  BY <1>4, <1>5, <1>6, <1>7, <1>8, <1>9, <1>10

-----------------------------------------------------------------------------
(* The bound, BuildTable, and the whole *)

\* A step that opens no table and starts no call.
LEMMA RoomFrame ==
  ASSUME TypeOK, RoomLeft, UNCHANGED last_id,
         \A t \in Threads : pc'[t] \in {"open", "footer"} /\ ~TooShort(rd'[t].size) =>
           pc[t] \in {"open", "footer"} /\ ~TooShort(rd[t].size)
  PROVE  RoomLeft'
<1>1. Opening' \subseteq Opening /\ Opening \subseteq Threads
  BY DEF Opening
<1>2. IsFiniteSet(Opening) /\ Cardinality(Opening') <= Cardinality(Opening)
  BY <1>1, Finiteness, FS_Subset
<1>3. Cardinality(Opening) \in Nat /\ Cardinality(Opening') \in Nat
  BY <1>1, <1>2, FS_Subset, FS_CardinalityType
<1> QED
  BY <1>2, <1>3, SizeAssumption DEF RoomLeft, TypeOK

\* What the steps of a call have in common.
LEMMA ContinueFrame ==
  ASSUME TypeOK, NEW t \in Threads, Continue(t)
  PROVE  /\ UNCHANGED <<disk, live>> /\ pc[t] # "idle"
         /\ \A w \in Threads : w # t => rd'[w] = rd[w] /\ pc'[w] = pc[w]
         /\ \/ pc'[t] = "idle"
            \/ rd'[t].number = rd[t].number /\ rd'[t].size = rd[t].size
         /\ pc'[t] \in {"open", "footer"} => pc[t] = "open"
         /\ \/ UNCHANGED last_id
            \/ OpenTable(t) /\ last_id' = last_id + 1 /\ pc'[t] = "insert"
         /\ pc[t] \in {"open", "footer"} /\ TooShort(rd[t].size) =>
              pc'[t] \in {"idle", "footer"}
<1>0. rd \in [Threads -> CallRecords] /\ rd[t] \in CallRecords /\ pc \in [Threads -> Labels]
  BY DEF TypeOK, CallRecords, Labels
<1>1. CASE OpenFile(t)
  BY <1>0, <1>1 DEF OpenFile, Goto, Return, fileVars, blockVars, CallRecords
<1>2. CASE OpenTable(t)
  <2>1. UNCHANGED <<disk, live>> /\ pc[t] = "footer"
    BY <1>2 DEF OpenTable, fileVars
  <2>2. PICK e \in (IF TooShort(rd[t].size) THEN {"Corruption"} ELSE EnvStatus) :
          IF e # "OK"
            THEN Return(t, e) /\ UNCHANGED last_id
            ELSE /\ \E u : rd' = [rd EXCEPT ![t].handle = u]
                 /\ last_id' = IF BlockCache THEN last_id + 1 ELSE last_id
                 /\ Goto(t, "insert")
    BY <1>2 DEF OpenTable, OpenFails
  <2>3. CASE e # "OK"
    BY <1>0, <2>1, <2>2, <2>3 DEF Return, Goto
  <2>4. CASE e = "OK"
    <3>1. PICK u : rd' = [rd EXCEPT ![t].handle = u]
      BY <2>2, <2>4
    <3>2. ~TooShort(rd[t].size)
      BY <2>2, <2>4
    <3> QED
      BY <1>0, <1>2, <2>1, <2>2, <2>4, <3>1, <3>2 DEF Goto, CallRecords
  <2> QED
    BY <2>3, <2>4
<1>3. CASE Insert(t)
  BY <1>0, <1>3 DEF Insert, InsertTable, Goto, fileVars, blockVars
<1>4. CASE FilterSkips(t)
  BY <1>0, <1>4 DEF FilterSkips, Goto, fileVars, blockVars
<1>5. CASE \E o \in Offsets : BlockLookup(t, o)
  <2>1. PICK o \in Offsets : BlockLookup(t, o)
    BY <1>5
  <2> QED
    BY <1>0, <2>1 DEF BlockLookup, Goto, fileVars, CallRecords
<1>6. CASE ReadBlock(t)
  BY <1>0, <1>6 DEF ReadBlock, Goto, fileVars, CallRecords
<1>7. CASE FillCache(t)
  BY <1>0, <1>7 DEF FillCache, InsertBlock, Goto, fileVars
<1>8. CASE EndBlock(t)
  BY <1>0, <1>8 DEF EndBlock, Goto, fileVars, CallRecords
<1>9. CASE Release(t)
  BY <1>0, <1>9 DEF Release, Return, Goto, fileVars, blockVars
<1>10. CASE BadHandle(t)
  BY <1>0, <1>10 DEF BadHandle, Goto, fileVars, blockVars, CallRecords
<1> QED
  BY <1>1, <1>2, <1>3, <1>4, <1>5, <1>6, <1>7, <1>8, <1>9, <1>10 DEF Continue

LEMMA ContinueStep ==
  ASSUME IInv, NEW t \in Threads, Continue(t), UNCHANGED bvars
  PROVE  IInv'
<1> USE DEF IInv
<1>0. TypeOK /\ CacheInv
  BY DEF CacheInv
<1>1. /\ UNCHANGED <<disk, live>> /\ pc[t] # "idle"
      /\ \A w \in Threads : w # t => rd'[w] = rd[w] /\ pc'[w] = pc[w]
      /\ \/ pc'[t] = "idle"
         \/ rd'[t].number = rd[t].number /\ rd'[t].size = rd[t].size
      /\ pc'[t] \in {"open", "footer"} => pc[t] = "open"
      /\ \/ UNCHANGED last_id
         \/ OpenTable(t) /\ last_id' = last_id + 1 /\ pc'[t] = "insert"
      /\ pc[t] \in {"open", "footer"} /\ TooShort(rd[t].size) =>
           pc'[t] \in {"idle", "footer"}
  BY <1>0, ContinueFrame
<1>2. bpc = "checking" /\ t = Background => TooShort(rd[t].size) /\ pc[t] \in {"open", "footer"}
  BY <1>1 DEF Building, TooShort, kEncodedLength
<1>3. ASSUME pc[t] = "footer", ~TooShort(rd[t].size)
      PROVE  /\ rd[t].number \in live
             /\ last_id \in Nat /\ Cardinality(Opening) \in Nat \ {0}
             /\ IsFiniteSet(Opening) /\ t \in Opening
             /\ last_id < MaxOpens
  <2>1. rd[t].number \in live
    BY <1>1, <1>2, <1>3 DEF Building
  <2>2. t \in Opening /\ Opening \subseteq Threads
    BY <1>3 DEF Opening
  <2>3. Cardinality(Opening) \in Nat /\ Cardinality(Opening) # 0 /\ IsFiniteSet(Opening)
    BY <2>2, Finiteness, CountZero, FS_Subset
  <2>4. last_id \in Nat
    BY <1>0 DEF TypeOK
  <2> QED
    BY <2>1, <2>2, <2>3, <2>4, SizeAssumption DEF RoomLeft
<1>4. CacheInv'
  <2>1. OpenTable(t) => CacheInv'
    BY <1>0, <1>3, OpenTableStep DEF OpenTable
  <2> QED
    BY <1>0, <2>1, OpenFileStep, InsertStep, FilterSkipsStep, BadHandleStep, BlockLookupStep,
       ReadBlockStep, FillCacheStep, EndBlockStep, ReleaseStep DEF Continue
<1>5. RoomLeft'
  <2>1. CASE UNCHANGED last_id
    <3>1. \A w \in Threads : pc'[w] \in {"open", "footer"} /\ ~TooShort(rd'[w].size) =>
             pc[w] \in {"open", "footer"} /\ ~TooShort(rd[w].size)
      BY <1>1
    <3> QED
      BY <1>0, <2>1, <3>1, RoomFrame
  <2>2. CASE OpenTable(t) /\ last_id' = last_id + 1 /\ pc'[t] = "insert"
    <3>1. pc[t] = "footer" /\ ~TooShort(rd[t].size)
      BY <1>1, <2>2 DEF OpenTable
    <3>2. /\ last_id \in Nat /\ Cardinality(Opening) \in Nat \ {0}
          /\ IsFiniteSet(Opening) /\ t \in Opening
      BY <1>3, <3>1
    <3>3. Opening' = Opening \ {t}
      BY <1>1, <2>2 DEF Opening
    <3>4. Cardinality(Opening') = Cardinality(Opening) - 1
      BY <3>2, <3>3, FS_RemoveElement
    <3> QED
      BY <2>2, <3>2, <3>4, SizeAssumption DEF RoomLeft
  <2> QED
    BY <1>1, <2>1, <2>2
<1>6. Building'
  <2>1. bpc \notin {"idle", "checking"} => t # Background
    BY <1>1 DEF Building
  <2>2. bpc = "checking" => /\ pc'[Background] \in {"idle", "open", "footer"}
                            /\ pc'[Background] # "idle" => rd'[Background].size = 0
    BY <1>1, <1>2, BuilderAssumption DEF Building
  <2> QED
    BY <1>1, <2>1, <2>2, BuilderAssumption DEF Building, bvars
<1> QED
  BY <1>4, <1>5, <1>6

LEMMA GetStep ==
  ASSUME IInv, NEW t \in Threads, Get(t), t = Background => bpc = "idle", UNCHANGED bvars
  PROVE  IInv'
<1> USE DEF IInv
<1>0. TypeOK /\ CacheInv
  BY DEF CacheInv
<1>1. PICK n \in live, iter \in BOOLEAN, present \in BOOLEAN :
        FindTable(t, n, FileSize, iter, present)
  BY DEF Get
<1>2. n \in Numbers /\ FileSize \in Nat
  BY <1>0, SizeAssumption DEF TypeOK
<1>3. CacheInv'
  BY <1>0, <1>1, <1>2, FindTableStep
<1>4. /\ \A w \in Threads : w # t => rd'[w] = rd[w] /\ pc'[w] = pc[w]
      /\ rd'[t].number = n /\ pc[t] = "idle"
      /\ UNCHANGED <<last_id, disk, live>>
  <2>1. [NoCall EXCEPT !.number = n, !.size = FileSize, !.iter = iter,
                       !.present = present, !.handle = cache_[n]].number = n
    BY DEF NoCall
  <2> QED
    BY <1>0, <1>1, <2>1 DEF FindTable, Goto, blockVars, fileVars, TypeOK
<1>5. RoomLeft'
  <2> DEFINE Busy == {w \in Threads : pc[w] # "idle"}
  <2>1. Opening \subseteq Busy /\ Busy \subseteq Threads /\ Opening' \subseteq Opening \cup {t}
    BY <1>4 DEF Opening
  <2>2. IsFiniteSet(Busy) /\ IsFiniteSet(Opening)
    BY <2>1, Finiteness, FS_Subset
  <2>3. Cardinality(Opening) <= Cardinality(Busy)
    BY <2>1, <2>2, FS_Subset
  <2>4. IsFiniteSet(Opening \cup {t}) /\ Cardinality(Opening \cup {t}) <= Cardinality(Opening) + 1
    <3>1. Cardinality(Opening) \in Nat
      BY <2>2, FS_CardinalityType
    <3>2. /\ IsFiniteSet(Opening \cup {t})
          /\ Cardinality(Opening \cup {t}) =
               IF t \in Opening THEN Cardinality(Opening) ELSE Cardinality(Opening) + 1
      BY <2>2, FS_AddElement
    <3> QED
      BY <3>1, <3>2
  <2>5. Cardinality(Opening') <= Cardinality(Opening \cup {t}) /\ IsFiniteSet(Opening')
    BY <2>1, <2>4, FS_Subset
  <2>6. /\ Cardinality(Opening) \in Nat /\ Cardinality(Busy) \in Nat
        /\ Cardinality(Opening') \in Nat /\ Cardinality(Opening \cup {t}) \in Nat
    BY <2>2, <2>4, <2>5, FS_CardinalityType
  <2>7. last_id + Cardinality(Busy) < MaxOpens /\ last_id \in Nat
    BY <1>0 DEF Get, Room, TypeOK
  <2> HIDE DEF Busy
  <2> QED
    BY <1>4, <2>3, <2>4, <2>5, <2>6, <2>7, SizeAssumption DEF RoomLeft
<1>6. Building'
  BY <1>4, BuilderAssumption DEF Building, bvars
<1> QED
  BY <1>3, <1>5, <1>6

LEMMA RoomMadeStep ==
  ASSUME IInv, UNCHANGED bvars,
         \/ \E n \in Numbers : EvictTable(n) \/ RemoveTable(n)
         \/ \E k \in Keys : EvictBlock(k)
  PROVE  IInv'
<1> USE DEF IInv
<1>0. TypeOK /\ CacheInv
  BY DEF CacheInv
<1>1. CacheInv'
  BY <1>0, EvictTableStep, RemoveTableStep, EvictBlockStep
<1>2. UNCHANGED <<pc, rd, last_id>>
  BY DEF EvictTable, RemoveTable, EvictBlock, blockVars
<1>3. RoomLeft'
  BY <1>0, <1>2, RoomFrame
<1>4. Building'
  <2>1. CASE \E n \in Numbers : RemoveTable(n)
    BY <1>2, <2>1 DEF Building, bvars, RemoveTable
  <2>2. CASE UNCHANGED <<disk, live>>
    BY <1>2, <2>2 DEF Building, bvars
  <2> QED
    BY <2>1, <2>2 DEF EvictTable, EvictBlock, fileVars
<1> QED
  BY <1>1, <1>3, <1>4

\* A step of BuildTable that leaves the caches and the calls alone.
LEMMA BuildFrame ==
  ASSUME CacheInv, RoomLeft, UNCHANGED <<tableVars, blockVars, pc, rd, live>>,
         disk' \subseteq Numbers, live \subseteq disk', faults' \in 0 .. MaxFaults
  PROVE  CacheInv' /\ RoomLeft'
<1> USE DEF CacheInv
<1>0. UNCHANGED <<cache_, table, open_files, block_cache, block, last_id>>
  BY DEF tableVars, blockVars
<1>1. TypeOK'
  BY <1>0 DEF TypeOK
<1>2. Calls' /\ FilterHidesNothing'
  BY DEF Calls, CallOK, FilterHidesNothing
<1>3. Unshared' /\ TablesAlive' /\ RefsExact' /\ FilesExact'
  BY <1>0, TablesFrame
<1>4. BlocksExact' /\ BlocksUnshared' /\ BlocksAtHand' /\ BlocksCached'
  BY <1>0, BlocksFrame DEF TypeOK
<1>5. RoomLeft'
  BY <1>0, RoomFrame
<1> QED
  BY <1>1, <1>2, <1>3, <1>4, <1>5

LEMMA BuildTableStep ==
  ASSUME IInv, BuildTable
  PROVE  IInv'
<1> USE DEF IInv
<1>0. /\ bpc = "idle" /\ pc[Background] = "idle" /\ UNCHANGED <<vars, left>>
      /\ meta' = [number |-> Min(Numbers \ taken), file_size |-> 0]
      /\ taken' = taken \cup {meta'.number}
      /\ bpc' \in {"end", "create"} /\ Numbers \ taken # {}
  BY DEF BuildTable
<1>1. Min(Numbers \ taken) \in Numbers \ taken
  BY <1>0, LeastElement, SetAssumption
<1>2. CacheInv' /\ RoomLeft'
  <2>1. disk \subseteq Numbers /\ live \subseteq disk /\ faults \in 0 .. MaxFaults
    BY DEF CacheInv, TypeOK
  <2> QED
    BY <1>0, <2>1, BuildFrame DEF vars, fileVars
<1>3. meta'.number = Min(Numbers \ taken) /\ meta'.file_size = 0
  BY <1>0
<1>4. Building'
  BY <1>0, <1>1, <1>3, BuilderAssumption DEF Building, vars, fileVars
<1> QED
  BY <1>2, <1>4

LEMMA NewWritableFileStep ==
  ASSUME IInv, NewWritableFile
  PROVE  IInv'
<1> USE DEF IInv
<1>1. PICK e \in EnvStatus :
        /\ CountFault(e)
        /\ disk' = IF e = "OK" THEN disk \cup {meta.number} ELSE disk
        /\ s' = e
        /\ bpc' = IF s' = "OK" THEN "write" ELSE "idle"
  BY DEF NewWritableFile
<1>2. /\ bpc = "create" /\ pc[Background] = "idle"
      /\ UNCHANGED <<tableVars, blockVars, live, pc, rd, meta, taken, left>>
      /\ meta.number \in Numbers
  BY DEF NewWritableFile, Building
<1>3. /\ faults' \in 0 .. MaxFaults /\ disk \subseteq Numbers /\ live \subseteq disk
      /\ e \in {"OK", "IOError"}
  BY <1>1, SizeAssumption DEF EnvStatus, CountFault, CacheInv, TypeOK
<1>4. CacheInv' /\ RoomLeft'
  BY <1>1, <1>2, <1>3, BuildFrame
<1>5. Building'
  BY <1>1, <1>2, <1>3 DEF Building
<1> QED
  BY <1>4, <1>5

LEMMA WriteTableStep ==
  ASSUME IInv, WriteTable
  PROVE  IInv'
<1> USE DEF IInv
<1>1. PICK e \in EnvStatus : CountFault(e) /\ bpc' = IF e = "OK" THEN "check" ELSE "end"
  BY DEF WriteTable
<1>2. /\ bpc = "write" /\ pc[Background] = "idle"
      /\ UNCHANGED <<tableVars, blockVars, disk, live, pc, rd, meta, taken, left>>
  BY DEF WriteTable, Building, fileVars
<1>3. faults' \in 0 .. MaxFaults /\ disk \subseteq Numbers /\ live \subseteq disk
  BY <1>1, SizeAssumption DEF EnvStatus, CountFault, CacheInv, TypeOK
<1>4. CacheInv' /\ RoomLeft'
  BY <1>2, <1>3, BuildFrame
<1>5. Building'
  BY <1>1, <1>2 DEF Building
<1> QED
  BY <1>4, <1>5

LEMMA CheckTableStep ==
  ASSUME IInv, CheckTable
  PROVE  IInv'
<1> USE DEF IInv
<1>0. /\ bpc = "check" /\ pc[Background] = "idle" /\ bpc' = "checking"
      /\ UNCHANGED <<meta, taken, left>>
      /\ FindTable(Background, meta.number, 0, TRUE, FALSE)
      /\ Background \in Threads /\ meta.number \in Numbers /\ meta.number \notin live
  BY BuilderAssumption DEF CheckTable, Building
<1>1. CacheInv'
  BY <1>0, FindTableStep
<1>2. cache_[meta.number] = nullptr
  <2>1. ASSUME cache_[meta.number] # nullptr PROVE FALSE
    <3>1. cache_[meta.number] \in Tables /\ cache_[meta.number][1] = meta.number
      BY <1>0, <2>1 DEF CacheInv, TypeOK, TablesAlive
    <3>2. table[cache_[meta.number]].refs > 0
      BY <1>0, <3>1, TableHeld DEF CacheInv
    <3> QED
      BY <1>0, <3>1, <3>2 DEF CacheInv, TablesAlive
  <2> QED
    BY <2>1
<1>3. /\ \A w \in Threads : w # Background => rd'[w] = rd[w] /\ pc'[w] = pc[w]
      /\ rd'[Background].size = 0 /\ pc'[Background] = "open"
      /\ UNCHANGED <<last_id, disk, live>>
  <2>1. [NoCall EXCEPT !.number = meta.number, !.size = 0, !.iter = TRUE,
                       !.present = FALSE, !.handle = cache_[meta.number]].size = 0
    BY DEF NoCall
  <2> QED
    BY <1>0, <1>2, <2>1 DEF FindTable, Goto, blockVars, fileVars, CacheInv, TypeOK
<1>4. RoomLeft'
  <2>1. TooShort(rd'[Background].size)
    BY <1>3 DEF TooShort, kEncodedLength
  <2> QED
    BY <1>3, <2>1, RoomFrame DEF CacheInv
<1>5. Building'
  BY <1>0, <1>3 DEF Building
<1> QED
  BY <1>1, <1>4, <1>5

LEMMA CheckedStep ==
  ASSUME IInv, Checked
  PROVE  IInv'
<1> USE DEF IInv
<1>0. /\ bpc = "checking" /\ pc[Background] = "idle" /\ bpc' = "end"
      /\ UNCHANGED <<vars, meta, taken, left>>
  BY DEF Checked
<1>1. disk \subseteq Numbers /\ live \subseteq disk /\ faults \in 0 .. MaxFaults
  BY DEF CacheInv, TypeOK
<1>2. CacheInv' /\ RoomLeft'
  BY <1>0, <1>1, BuildFrame DEF vars, fileVars
<1>3. Building'
  BY <1>0 DEF Building, vars, fileVars
<1> QED
  BY <1>2, <1>3

LEMMA EndBuildStep ==
  ASSUME IInv, EndBuild
  PROVE  IInv'
<1> USE DEF IInv
<1>0. /\ bpc = "end" /\ bpc' = "idle" /\ meta.file_size = 0
      /\ UNCHANGED <<tableVars, blockVars, pc, rd, meta, taken>>
      /\ meta.number \notin live /\ disk \subseteq Numbers /\ live \subseteq disk
  BY DEF EndBuild, Building, CacheInv, TypeOK
<1>1. PICK e \in EnvStatus, removed \in EnvStatus :
        /\ faults' = faults + Cardinality({x \in {"e", "removed"} :
                       (IF x = "e" THEN e ELSE removed) # "OK"})
        /\ faults' <= MaxFaults
        /\ disk' = IF Keeps(s') \/ removed # "OK" THEN disk ELSE disk \ {meta.number}
        /\ left' = IF removed # "OK" THEN left \cup {meta.number} ELSE left
        /\ live' = IF s' = "OK" /\ meta.file_size > 0 THEN live \cup {meta.number} ELSE live
  BY DEF EndBuild
<1>2. faults' \in 0 .. MaxFaults
  <2> DEFINE F == {x \in {"e", "removed"} : (IF x = "e" THEN e ELSE removed) # "OK"}
  <2>1. IsFiniteSet({"e", "removed"})
    <3>1. IsFiniteSet({"e"} \cup {"removed"})
      BY FS_Singleton, FS_AddElement
    <3>2. {"e"} \cup {"removed"} = {"e", "removed"}
      OBVIOUS
    <3> QED
      BY <3>1, <3>2
  <2>2. F \subseteq {"e", "removed"}
    OBVIOUS
  <2>3. faults' = faults + Cardinality(F)
    BY <1>1
  <2> HIDE DEF F
  <2>4. Cardinality(F) \in Nat
    BY <2>1, <2>2, FS_Subset, FS_CardinalityType
  <2> QED
    BY <1>1, <2>3, <2>4, SizeAssumption DEF CacheInv, TypeOK
<1>3. ~Keeps(s') /\ live' = live
  BY <1>0, <1>1 DEF Keeps
<1>4. disk' \subseteq Numbers /\ live \subseteq disk'
      /\ (removed # "OK" => disk' = disk) /\ (removed = "OK" => disk' = disk \ {meta.number})
  BY <1>0, <1>1, <1>3
<1>5. CacheInv' /\ RoomLeft'
  BY <1>0, <1>2, <1>3, <1>4, BuildFrame
<1>6. Building'
  BY <1>0, <1>1, <1>3, <1>4 DEF Building
<1> QED
  BY <1>5, <1>6

LEMMA InitIInv == BInit => IInv
<1> SUFFICES ASSUME BInit PROVE IInv
  OBVIOUS
<1> USE DEF BInit, Init
<1>0. Cardinality({}) = 0 /\ Recovered \subseteq Numbers
  BY FS_EmptySet, SetAssumption
<1>1. /\ \A t \in Threads : pc[t] = "idle" /\ rd[t] = NoCall
      /\ \A u \in Tables : table[u] = NoTable
      /\ \A b \in Blocks : block[b] = NoBlock
      /\ \A n \in Numbers : cache_[n] = nullptr
      /\ \A k \in Keys : block_cache[k] = nullptr
  OBVIOUS
<1>2. /\ NoCall \in CallRecords /\ NoTable \in TableRecords /\ NoBlock \in BlockRecords
      /\ NoCall.handle = nullptr /\ NoCall.block = nullptr
      /\ NoTable.refs = 0 /\ NoTable.filter = "none" /\ NoBlock.refs = 0
  BY SizeAssumption DEF NoCall, CallRecords, NoTable, TableRecords, NoBlock, BlockRecords
<1>3. TypeOK
  BY <1>0, <1>2, SizeAssumption DEF TypeOK, CallRecords, TableRecords, BlockRecords
<1>4. Calls /\ FilterHidesNothing
  BY <1>1, <1>2 DEF Calls, CallOK, Holding, Reading, FilterHidesNothing
<1>5. Unshared /\ TablesAlive /\ BlocksUnshared /\ BlocksAtHand /\ BlocksCached
  BY <1>1, <1>2 DEF Unshared, TablesAlive, BlocksUnshared, BlocksAtHand, BlocksCached, Reading
<1>6. RefsExact
  <2>1. ASSUME NEW u \in Tables
        PROVE  table[u].refs = Cardinality({t \in Threads : rd[t].handle = u})
                                  + Cardinality({n \in Numbers : cache_[n] = u})
    <3> DEFINE H == {t \in Threads : rd[t].handle = u}
               C == {n \in Numbers : cache_[n] = u}
    <3>1. H = {} /\ C = {} /\ table[u].refs = 0
      BY <1>1, <1>2, Addresses
    <3> HIDE DEF H, C
    <3>2. table[u].refs = Cardinality(H) + Cardinality(C)
      BY <1>0, <3>1
    <3> QED
      BY <3>2 DEF H, C
  <2> QED
    BY <2>1 DEF RefsExact
<1>7. FilesExact
  <2> DEFINE A == {u \in Tables : table[u].refs > 0}
             F == {t \in Threads : pc[t] = "footer"}
  <2>1. A = {} /\ F = {}
    BY <1>1, <1>2
  <2> HIDE DEF A, F
  <2>2. open_files = Cardinality(A) + Cardinality(F)
    BY <1>0, <2>1
  <2> QED
    BY <2>2 DEF FilesExact, A, F
<1>8. BlocksExact
  <2>1. ASSUME NEW b \in Blocks
        PROVE  block[b].refs = Cardinality({t \in Threads : rd[t].block = b})
                                  + Cardinality({k \in Keys : block_cache[k] = b})
    <3> DEFINE H == {t \in Threads : rd[t].block = b}
               C == {k \in Keys : block_cache[k] = b}
    <3>1. H = {} /\ C = {} /\ block[b].refs = 0
      BY <1>1, <1>2, Addresses
    <3> HIDE DEF H, C
    <3>2. block[b].refs = Cardinality(H) + Cardinality(C)
      BY <1>0, <3>1
    <3> QED
      BY <3>2 DEF H, C
  <2> QED
    BY <2>1 DEF BlocksExact
<1>9. RoomLeft
  <2>1. Opening = {}
    BY <1>1 DEF Opening
  <2> QED
    BY <1>0, <2>1, SizeAssumption DEF RoomLeft
<1>10. Building
  BY <1>0, BuilderAssumption DEF Building
<1> QED
  BY <1>3, <1>4, <1>5, <1>6, <1>7, <1>8, <1>9, <1>10 DEF IInv, CacheInv

LEMMA NextIInv == IInv /\ [Next]_allVars => IInv'
<1> SUFFICES ASSUME IInv, [Next]_allVars PROVE IInv'
  OBVIOUS
<1>1. CASE BuildNext
  BY <1>1, BuildTableStep, NewWritableFileStep, WriteTableStep, CheckTableStep, CheckedStep,
     EndBuildStep DEF BuildNext
<1>2. CASE CacheStep /\ UNCHANGED bvars
  BY <1>2, ContinueStep, RoomMadeStep DEF CacheStep
<1>3. CASE \E t \in Threads : Get(t) /\ (t = Background => bpc = "idle") /\ UNCHANGED bvars
  BY <1>3, GetStep
<1>4. CASE UNCHANGED allVars
  <2>1. UNCHANGED <<vars, bvars>>
    BY <1>4 DEF allVars
  <2>2. disk \subseteq Numbers /\ live \subseteq disk /\ faults \in 0 .. MaxFaults
    BY DEF IInv, CacheInv, TypeOK
  <2>3. CacheInv' /\ RoomLeft'
    BY <2>1, <2>2, BuildFrame DEF vars, fileVars, IInv
  <2>4. Building'
    BY <2>1 DEF IInv, Building, vars, bvars, fileVars
  <2> QED
    BY <2>3, <2>4 DEF IInv
<1> QED
  BY <1>1, <1>2, <1>3, <1>4 DEF Next

\* The inductive invariant holds in every reachable state of the two caches and
\* of BuildTable, whatever the number of threads, files and blocks.
THEOREM Invariance == Spec => []IInv
BY InitIInv, NextIInv, PTL DEF Spec

-----------------------------------------------------------------------------
(* The properties *)

\* FindTable, BlockReader and BuildTable keep their variables in their types; in
\* particular the addresses that FreeTable and FreeBlock choose always exist.
THEOREM TypeCorrect == Spec => []TypeOK
<1>1. IInv => TypeOK
  BY DEF IInv, CacheInv
<1> QED
  BY <1>1, Invariance, PTL

\* A Table is deleted, and its file closed, exactly when the last handle and the
\* table cache have let go of it (FindTable, Release, Evict), also when several
\* threads opened the same file; a failed Table::Open closes its file.
THEOREM TablesDeletedOnce == Spec => []HandlesExact
<1>1. IInv => HandlesExact
  BY DEF IInv, CacheInv, RefsExact, FilesExact, HandlesExact
<1> QED
  BY <1>1, Invariance, PTL

\* A Block is deleted exactly when its iterator and the block cache have let go
\* of it, on every path of BlockReader.
THEOREM BlocksDeletedOnce == Spec => []BlocksExact
<1>1. IInv => BlocksExact
  BY DEF IInv, CacheInv
<1> QED
  BY <1>1, Invariance, PTL

\* BlockReader iterates over the block it asked for: the id that Table::Open took
\* from NewId keeps the blocks of different tables of the block cache apart.
THEOREM BlockReaderRight == Spec => []ReadsOwnBlock
<1>1. IInv => ReadsOwnBlock
  <2> SUFFICES ASSUME IInv, NEW t \in Threads, pc[t] = "iterate"
               PROVE  /\ Opened(t).number = rd[t].number
                      /\ block[rd[t].block].number = rd[t].number
                      /\ block[rd[t].block].offset = rd[t].offset
    BY DEF ReadsOwnBlock
  <2>1. rd[t].offset \in Offsets
    BY DEF IInv, CacheInv, Calls, CallOK
  <2>2. Opened(t).number = rd[t].number
    BY <2>1, KeyAtHand DEF IInv, Holding, Opened
  <2> QED
    BY <2>2 DEF IInv, CacheInv, BlocksAtHand, Reading
<1> QED
  BY <1>1, Invariance, PTL

\* A read error inside ReadMeta or ReadFilter never makes a Get miss a key.
THEOREM FilterSafe == Spec => []FilterHidesNothing
<1>1. IInv => FilterHidesNothing
  BY DEF IInv, CacheInv
<1> QED
  BY <1>1, Invariance, PTL

\* RemoveObsoleteFiles evicts the table of a file before it removes the file, and
\* BuildTable's check leaves none open: no open table outlives its file.
THEOREM RemovedClosed == Spec => []RemovedFilesClosed
<1>1. IInv => RemovedFilesClosed
  BY DEF IInv, CacheInv, TablesAlive, TypeOK, RemovedFilesClosed
<1> QED
  BY <1>1, Invariance, PTL

\* BuildTable leaves no file behind that is in no version, on any path, unless
\* RemoveFile failed.
THEOREM NothingOrphaned == Spec => []NoOrphans
<1>1. IInv => NoOrphans
  BY DEF IInv, Building, NoOrphans
<1> QED
  BY <1>1, Invariance, PTL
=============================================================================

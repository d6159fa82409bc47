--------------------------- MODULE SkipListProofs ---------------------------
(***************************************************************************)
(* Proofs about the skip list, for any keys, heights and readers: it is    *)
(* well typed, its levels are sorted and nested at every moment, and what  *)
(* readers get is right whatever an insertion is in the middle of.         *)
(***************************************************************************)
EXTENDS SkipList, TLAPS

Searching == {"ge", "lt", "last"}
Inserting == {"ge", "height", "init", "publish"}

\* A search stands on a published node of its level, strictly before its key
\* when it looks for the first node at or after the key.
Cursor ==
  \A t \in Threads : pc[t] \in Searching =>
    /\ x[t] \in linked[level[t]]
    /\ pc[t] = "ge" => x[t] < key[t] /\ key[t] \in Keys

\* Which operation a search belongs to.
OpOfSearch ==
  \A t \in Threads :
    /\ pc[t] \in {"height", "init", "publish"} => t = Writer
    /\ pc[t] = "ge" => op[t] \in {"Contains", "Seek", "Insert"}
    /\ pc[t] = "lt" => op[t] = "Prev"
    /\ pc[t] = "last" => op[t] = "SeekToLast"

\* An iterator stands on a published node, or on none.
IteratorOK == \A r \in Readers : node_[r] # nullptr => node_[r] \in linked[0]

\* The levels whose prev[] the insertion has found and will still use.
Prepared ==
  {l \in Levels :
     \/ pc[Writer] = "ge" /\ level[Writer] < l /\ l < max_height_
     \/ pc[Writer] = "height" /\ l < max_height_
     \/ pc[Writer] \in {"init", "publish"} /\ i <= l /\ l < height}

\* The new node belongs between prev[l] and its successor on those levels,
\* is published on exactly the levels below i, and while it is about to be
\* published on level i its own link there is that of prev[i].
Insertion ==
  /\ \A l \in Prepared :
       /\ prev[l] \in linked[l]
       /\ prev[l] < key[Writer]
       /\ next_[prev[l]][l] = nullptr \/ key[Writer] < next_[prev[l]][l]
  /\ pc[Writer] \in Inserting => key[Writer] \in Keys
  /\ pc[Writer] \in {"ge", "height"} => \A l \in Levels : key[Writer] \notin linked[l]
  /\ pc[Writer] \in {"init", "publish"} =>
       /\ i < height /\ height <= max_height_
       /\ \A l \in Levels : key[Writer] \in linked[l] <=> l < i
  /\ pc[Writer] = "publish" => next_[key[Writer]][i] = next_[prev[i]][i]

\* Nothing is ever unpublished.
SeenOK == \A t \in Threads : seen[t] \subseteq linked[0] /\ head_ \in seen[t]

\* The list is a structure that searches can rely on.
Shape == SortedChains /\ NestedLevels

\* The inductive invariant.
IInv ==
  /\ TypeOK /\ Shape
  /\ Cursor /\ OpOfSearch /\ IteratorOK /\ Insertion /\ SeenOK
  /\ ContainsCorrect /\ SeekCorrect /\ SeekToLastCorrect

-----------------------------------------------------------------------------

\* The levels and nodes, with what the provers need to know of them.
LEMMA Constants ==
  /\ kMaxHeight \in Nat /\ kMaxHeight > 0
  /\ 0 \in Levels
  /\ \A l \in Levels : l \in Nat /\ l < kMaxHeight
  /\ \A k \in Keys : k \in Nat /\ k > 0 /\ k # nullptr /\ k # garbage
  /\ Keys \subseteq Nodes /\ head_ \in Nodes /\ head_ \notin Keys
  /\ \A n \in Nodes : n \in Nat
BY KeysAssumption, HeightAssumption DEF Levels, Nodes, head_, nullptr, garbage

\* What a link of a published node is: null, or a published key after it.
LEMMA LinkOf ==
  ASSUME TypeOK, Shape, NEW l \in Levels, NEW n \in linked[l]
  PROVE  /\ n \in Nodes
         /\ next_[n][l] = nullptr \/ (/\ next_[n][l] \in linked[l]
                                      /\ next_[n][l] \in Keys
                                      /\ n < next_[n][l])
         /\ next_[n][l] \in Keys \cup {nullptr}
<1>1. linked[l] \subseteq Nodes
  BY DEF TypeOK
<1>2. next_[n][l] \in (linked[l] \ {head_}) \cup {nullptr}
  BY DEF Shape, SortedChains
<1>3. next_[n][l] # nullptr => n < next_[n][l]
  BY DEF Shape, SortedChains
<1> QED
  BY <1>1, <1>2, <1>3 DEF Nodes

\* Init: every level is the empty chain.
LEMMA InitIInv == Init => IInv
<1> SUFFICES ASSUME Init PROVE IInv
  OBVIOUS
<1> USE Constants DEF Init
<1>1. TypeOK
  BY HeightAssumption DEF TypeOK, Uninitialised, Links, Levels, Nodes, head_, nullptr
<1>2. SortedChains
  BY DEF SortedChains, head_, nullptr
<1>3. NestedLevels
  BY DEF NestedLevels
<1>4. Cursor /\ OpOfSearch /\ IteratorOK /\ SeenOK
  BY DEF Cursor, OpOfSearch, IteratorOK, SeenOK, Searching
<1>5. Insertion
  <2>1. pc[Writer] = "idle"
    BY DEF Threads
  <2> QED
    BY <2>1 DEF Insertion, Prepared, Inserting
<1>6. ContainsCorrect /\ SeekCorrect /\ SeekToLastCorrect
  BY DEF ContainsCorrect, SeekCorrect, SeekToLastCorrect, Threads
<1> QED
  BY <1>1, <1>2, <1>3, <1>4, <1>5, <1>6 DEF IInv, Shape

\* A step that leaves the list alone leaves its shape alone.
LEMMA SameShape ==
  ASSUME Shape, UNCHANGED list
  PROVE  Shape'
BY DEF Shape, SortedChains, NestedLevels, list

\* Starting a search: at head_, on the topmost level.
LEMMA StartSearchIInv ==
  ASSUME IInv, NEW t \in Threads, NEW search \in Searching, NEW o, NEW k \in Nat,
         StartSearch(t, search, o, k),
         search = "ge" => k \in Keys /\ o \in {"Contains", "Seek", "Insert"},
         search = "lt" => o = "Prev",
         search = "last" => o = "SeekToLast",
         t = Writer => search = "ge" /\ k \notin linked[0]
  PROVE  IInv'
<1> USE Constants
<1> USE DEF StartSearch, list, answer, IInv
<1>1. TypeOK'
  BY DEF TypeOK, Searching, Levels, Uninitialised
<1>2. Shape'
  BY SameShape
<1>3. max_height_ - 1 \in Levels /\ head_ \in linked[max_height_ - 1]
  BY DEF TypeOK, Levels, Shape, NestedLevels
<1>4. Cursor'
  BY <1>3 DEF TypeOK, Cursor, Searching, head_
<1>5. OpOfSearch'
  BY DEF TypeOK, OpOfSearch, Searching
<1>6. IteratorOK' /\ SeenOK'
  BY DEF TypeOK, IteratorOK, SeenOK, Shape, NestedLevels
<1>7. Insertion'
  <2>1. CASE t = Writer
    <3>1. pc'[Writer] = "ge" /\ level'[Writer] = max_height_ - 1 /\ key'[Writer] = k
      BY <2>1 DEF TypeOK
    <3>2. Prepared' = {}
      BY <3>1 DEF Prepared, TypeOK
    <3>3. \A l \in Levels : k \notin linked[l]
      BY <2>1 DEF Shape, NestedLevels
    <3> QED
      BY <2>1, <3>1, <3>2, <3>3 DEF Insertion, Inserting
  <2>2. CASE t # Writer
    <3>1. pc'[Writer] = pc[Writer] /\ level'[Writer] = level[Writer] /\ key'[Writer] = key[Writer]
      BY <2>2 DEF TypeOK, Threads
    <3>2. Prepared' = Prepared
      BY <3>1 DEF Prepared
    <3> QED
      BY <2>2, <3>1, <3>2 DEF Insertion, Inserting
  <2> QED
    BY <2>1, <2>2
<1>8. ContainsCorrect' /\ SeekCorrect' /\ SeekToLastCorrect'
  BY DEF TypeOK, ContainsCorrect, SeekCorrect, SeekToLastCorrect, Searching, Threads
<1> QED
  BY <1>1, <1>2, <1>4, <1>5, <1>6, <1>7, <1>8

\* SeekToFirst and Next: one load of a published node's level-0 link.
LEMMA StepIteratorIInv ==
  ASSUME IInv, NEW r \in Readers, NEW o \in {"SeekToFirst", "Next"},
         NEW from \in linked[0], StepIterator(r, o, from)
  PROVE  IInv'
<1> USE Constants
<1> USE DEF StepIterator, list, insert, IInv
<1>0. /\ from \in Nodes
      /\ next_[from][0] = nullptr \/ (/\ next_[from][0] \in linked[0]
                                      /\ next_[from][0] \in Keys
                                      /\ from < next_[from][0])
      /\ next_[from][0] \in Keys \cup {nullptr}
  BY LinkOf
<1>1. TypeOK'
  BY <1>0 DEF TypeOK, Threads
<1>2. Shape'
  BY SameShape
<1>3. Cursor' /\ OpOfSearch'
  BY DEF TypeOK, Cursor, OpOfSearch, Searching, Threads
<1>4. IteratorOK' /\ SeenOK'
  BY <1>0 DEF TypeOK, IteratorOK, SeenOK, Shape, NestedLevels, Threads
<1>5. Insertion'
  <2>1. key'[Writer] = key[Writer]
    BY ThreadAssumption DEF TypeOK, Threads
  <2> QED
    BY <2>1 DEF Insertion, Prepared, Inserting
<1>6. ContainsCorrect' /\ SeekToLastCorrect'
  BY DEF TypeOK, ContainsCorrect, SeekToLastCorrect, Threads
<1>7. SeekCorrect'
  <2>1. \A m \in linked[0] : from < m => next_[from][0] # nullptr /\ next_[from][0] <= m
    BY DEF Shape, SortedChains
  <2>2. linked[0] \subseteq Nat
    BY DEF TypeOK
  <2>3. /\ next_[from][0] # nullptr => /\ next_[from][0] \in linked[0]
                                      /\ from + 1 <= next_[from][0]
        /\ \A k \in linked[0] : from + 1 <= k =>
             next_[from][0] # nullptr /\ next_[from][0] <= k
    BY <1>0, <2>1, <2>2
  <2>4. ASSUME NEW q \in Readers, (pc[q] = "idle")', (op[q] \in {"Seek", "SeekToFirst", "Next"})'
        PROVE  /\ node_'[q] # nullptr => node_'[q] \in linked[0] /\ key'[q] <= node_'[q]
               /\ \A k \in seen'[q] : key'[q] <= k => node_'[q] # nullptr /\ node_'[q] <= k
    <3>1. CASE q = r
      BY <3>1, <2>3 DEF TypeOK, Threads
    <3>2. CASE q # r
      BY <3>2, <2>4 DEF TypeOK, Threads, SeekCorrect
    <3> QED
      BY <3>1, <3>2
  <2> QED
    BY <2>4 DEF SeekCorrect
<1> QED
  BY <1>1, <1>2, <1>3, <1>4, <1>5, <1>6, <1>7

\* A step inside a search that only moves the cursor of t.
LEMMA MoveIInv ==
  ASSUME IInv, NEW t \in Threads, pc[t] \in Searching,
         x' = [x EXCEPT ![t] = x'[t]], level' = [level EXCEPT ![t] = level'[t]],
         level'[t] \in Levels, x'[t] \in linked[level'[t]],
         pc[t] = "ge" => x'[t] < key[t],
         UNCHANGED <<pc, op, key, list, answer, height, i, seen>>,
         prev' \in [Levels -> Nodes \cup {garbage}],
         t # Writer => UNCHANGED prev,
         Insertion'
  PROVE  IInv'
<1> USE Constants
<1> USE DEF list, answer, IInv
<1>1. TypeOK'
  BY DEF TypeOK
<1>2. Shape'
  BY SameShape
<1>3. Cursor'
  BY DEF TypeOK, Cursor
<1>4. OpOfSearch' /\ IteratorOK' /\ SeenOK'
  BY DEF OpOfSearch, IteratorOK, SeenOK
<1>5. ContainsCorrect' /\ SeekCorrect' /\ SeekToLastCorrect'
  BY DEF ContainsCorrect, SeekCorrect, SeekToLastCorrect
<1> QED
  BY <1>1, <1>2, <1>3, <1>4, <1>5

\* A reader's search returns the node n, and n answers its question.
LEMMA ReturnIInv ==
  ASSUME IInv, NEW r \in Readers, NEW n \in linked[0] \cup {nullptr},
         Return(r, n), UNCHANGED insert,
         pc[r] \in Searching,
         op[r] = "Contains" => (n # nullptr /\ n = key[r]) \/ key[r] \notin linked[0],
         op[r] \in {"Seek", "SeekToFirst", "Next"} =>
           /\ n # nullptr => n # head_ /\ key[r] <= n
           /\ \A k \in linked[0] : key[r] <= k => n # nullptr /\ n <= k,
         op[r] = "SeekToLast" => n # nullptr /\ \A k \in linked[0] : k <= n
  PROVE  IInv'
<1> USE Constants
<1> USE DEF Return, list, insert, IInv
<1>1. linked[0] \subseteq Nodes /\ Nodes = Keys \cup {head_}
  BY DEF TypeOK, Nodes
<1>2. TypeOK'
  <2>1. n = nullptr \/ n = head_ \/ n \in Keys
    BY <1>1
  <2>2. node_' \in [Readers -> Keys \cup {nullptr}] /\ found' \in [Readers -> BOOLEAN]
    BY <2>1 DEF TypeOK
  <2>3. pc' \in [Threads -> {"idle", "ge", "lt", "last", "height", "init", "publish"}]
    BY DEF TypeOK, Threads
  <2> QED
    BY <2>2, <2>3 DEF TypeOK
<1>3. Shape'
  BY SameShape
<1>4. Cursor' /\ OpOfSearch' /\ SeenOK'
  BY DEF TypeOK, Cursor, OpOfSearch, SeenOK, Searching, Threads
<1>5. IteratorOK'
  BY DEF TypeOK, IteratorOK
<1>6. Insertion'
  <2>1. pc'[Writer] = pc[Writer]
    BY ThreadAssumption DEF TypeOK, Threads
  <2> QED
    BY <2>1 DEF Insertion, Prepared, Inserting
<1>7. ContainsCorrect'
  BY DEF TypeOK, ContainsCorrect, SeenOK, Threads
<1>8. SeekCorrect'
  <2>1. ASSUME NEW q \in Readers, (pc[q] = "idle")', op[q] \in {"Seek", "SeekToFirst", "Next"}
        PROVE  /\ node_'[q] # nullptr => node_'[q] \in linked[0] /\ key[q] <= node_'[q]
               /\ \A k \in seen[q] : key[q] <= k => node_'[q] # nullptr /\ node_'[q] <= k
    <3>1. CASE q = r
      <4>1. node_'[r] = n
        BY <3>1, <2>1 DEF TypeOK, head_, nullptr
      <4> QED
        BY <4>1, <3>1, <2>1, <1>1 DEF SeenOK, Threads
    <3>2. CASE q # r
      <4>1. node_'[q] = node_[q] /\ pc[q] = "idle"
        BY <3>2, <2>1 DEF TypeOK, Threads
      <4> QED
        BY <4>1, <2>1 DEF SeekCorrect
    <3> QED
      BY <3>1, <3>2
  <2> QED
    BY <2>1 DEF SeekCorrect
<1>9. SeekToLastCorrect'
  <2>1. ASSUME NEW q \in Readers, (pc[q] = "idle")', op[q] = "SeekToLast"
        PROVE  IF node_'[q] = nullptr THEN seen[q] = {head_}
               ELSE node_'[q] \in linked[0] /\ \A k \in seen[q] : k <= node_'[q]
    <3>1. CASE q = r
      <4>1. node_'[r] = IF n = head_ THEN nullptr ELSE n
        BY <3>1, <2>1 DEF TypeOK
      <4>2. seen[r] \subseteq linked[0] /\ head_ \in seen[r]
        BY DEF SeenOK, Threads
      <4>3. CASE n = head_
        <5>1. \A k \in seen[r] : k = head_
          BY <4>2, <4>3, <3>1, <2>1, <1>1 DEF head_
        <5> QED
          BY <5>1, <4>1, <4>2, <4>3, <3>1
      <4>4. CASE n # head_
        BY <4>1, <4>2, <4>4, <3>1, <2>1
      <4> QED
        BY <4>3, <4>4
    <3>2. CASE q # r
      <4>1. node_'[q] = node_[q] /\ pc[q] = "idle"
        BY <3>2, <2>1 DEF TypeOK, Threads
      <4> QED
        BY <4>1, <2>1 DEF SeekToLastCorrect
    <3> QED
      BY <3>1, <3>2
  <2> QED
    BY <2>1 DEF SeekToLastCorrect
<1> QED
  BY <1>2, <1>3, <1>4, <1>5, <1>6, <1>7, <1>8, <1>9

\* The steps of a reader's cursor along a level and down to the next.
LEMMA ReaderMovesIInv ==
  ASSUME IInv, NEW r \in Readers, pc[r] \in Searching, UNCHANGED insert,
         \/ /\ next_[x[r]][level[r]] # nullptr
            /\ pc[r] = "ge" => next_[x[r]][level[r]] < key[r]
            /\ MoveRight(r, next_[x[r]][level[r]])
         \/ level[r] > 0 /\ MoveDown(r)
  PROVE  IInv'
<1> DEFINE n == next_[x[r]][level[r]]
<1> USE Constants
<1> USE DEF IInv, insert
<1>0. r \in Threads /\ r # Writer
  BY ThreadAssumption DEF Threads
<1>1. level[r] \in Levels /\ x[r] \in linked[level[r]]
  BY <1>0 DEF TypeOK, Cursor
<1>2. n = nullptr \/ n \in linked[level[r]]
  BY <1>1, LinkOf
<1>3. CASE n # nullptr /\ (pc[r] = "ge" => n < key[r]) /\ MoveRight(r, n)
  <2>1. x' = [x EXCEPT ![r] = x'[r]] /\ level' = [level EXCEPT ![r] = level'[r]]
    BY <1>3, <1>0 DEF MoveRight, TypeOK
  <2>2. x'[r] = n /\ level'[r] = level[r]
    BY <1>3, <1>0 DEF MoveRight, TypeOK
  <2>3. Insertion'
    BY <1>3, <1>0 DEF MoveRight, Insertion, Prepared, Inserting, list
  <2> QED
    BY <1>0, <1>1, <1>2, <1>3, <2>1, <2>2, <2>3, MoveIInv DEF MoveRight, TypeOK
<1>4. CASE level[r] > 0 /\ MoveDown(r)
  <2>1. x' = [x EXCEPT ![r] = x'[r]] /\ level' = [level EXCEPT ![r] = level'[r]]
    BY <1>4, <1>0 DEF MoveDown, TypeOK
  <2>2. x'[r] = x[r] /\ level'[r] = level[r] - 1
    BY <1>4, <1>0 DEF MoveDown, TypeOK
  <2>3. level[r] - 1 \in Levels /\ x[r] \in linked[level[r] - 1]
    BY <1>4, <1>1 DEF Levels, Shape, NestedLevels
  <2>4. Insertion'
    <3>1. level'[Writer] = level[Writer]
      BY <1>0, <1>4 DEF MoveDown, TypeOK, Threads
    <3> QED
      BY <3>1, <1>4 DEF MoveDown, Insertion, Prepared, Inserting, list
  <2>5. pc[r] = "ge" => x'[r] < key[r]
    BY <2>2, <1>0 DEF Cursor, Searching
  <2> QED
    BY <1>0, <1>1, <1>4, <2>1, <2>2, <2>3, <2>4, <2>5, MoveIInv DEF MoveDown, TypeOK
<1> QED
  BY <1>3, <1>4

\* One iteration of FindLast.
LEMMA FindLastIInv ==
  ASSUME IInv, NEW r \in Readers, FindLast(r)
  PROVE  IInv'
<1> DEFINE n == next_[x[r]][level[r]]
<1> USE Constants
<1> USE DEF IInv
<1>0. r \in Threads /\ pc[r] = "last" /\ pc[r] \in Searching /\ UNCHANGED insert
  BY DEF Threads, FindLast, Searching
<1>1. level[r] \in Levels /\ x[r] \in linked[level[r]] /\ op[r] = "SeekToLast"
  BY <1>0 DEF TypeOK, Cursor, OpOfSearch
<1>2. CASE n # nullptr /\ MoveRight(r, n)
  BY <1>0, <1>2, ReaderMovesIInv
<1>3. CASE level[r] > 0 /\ MoveDown(r)
  BY <1>0, <1>3, ReaderMovesIInv
<1>4. CASE n = nullptr /\ ~(level[r] > 0) /\ Return(r, x[r])
  <2>1. level[r] = 0
    BY <1>4, <1>1
  <2>2. x[r] \in Nat /\ linked[0] \subseteq Nat
    BY <1>0 DEF TypeOK
  <2>3. \A m \in linked[0] : ~(x[r] < m)
    BY <2>1, <1>1, <1>4 DEF Shape, SortedChains
  <2>4. ASSUME NEW k \in linked[0] PROVE k <= x[r]
    <3>1. k \in Nat /\ ~(x[r] < k)
      BY <2>2, <2>3
    <3> QED
      BY ONLY <3>1, <2>2
  <2>5. x[r] # nullptr
    BY <2>2 DEF nullptr
  <2> QED
    BY <1>0, <1>1, <1>4, <2>1, <2>4, <2>5, ReturnIInv
<1> QED
  BY <1>0, <1>2, <1>3, <1>4 DEF FindLast

\* One iteration of FindLessThan.
LEMMA FindLessThanIInv ==
  ASSUME IInv, NEW r \in Readers, FindLessThan(r)
  PROVE  IInv'
<1> DEFINE n == next_[x[r]][level[r]]
<1> USE Constants
<1> USE DEF IInv
<1>0. r \in Threads /\ pc[r] = "lt" /\ pc[r] \in Searching /\ UNCHANGED insert
  BY DEF Threads, FindLessThan, Searching
<1>1. level[r] \in Levels /\ x[r] \in linked[level[r]] /\ op[r] = "Prev"
  BY <1>0 DEF TypeOK, Cursor, OpOfSearch
<1>2. CASE ~BeyondKey(n, key[r]) /\ MoveRight(r, n)
  BY <1>0, <1>2, ReaderMovesIInv DEF BeyondKey
<1>3. CASE level[r] > 0 /\ MoveDown(r)
  BY <1>0, <1>3, ReaderMovesIInv
<1>4. CASE ~(level[r] > 0) /\ Return(r, x[r])
  <2>1. level[r] = 0
    BY <1>4, <1>1
  <2> QED
    BY <1>0, <1>1, <1>4, <2>1, ReturnIInv
<1> QED
  BY <1>0, <1>2, <1>3, <1>4 DEF FindLessThan

\* One iteration of FindGreaterOrEqual, called by a reader.
LEMMA ReaderFindGreaterOrEqualIInv ==
  ASSUME IInv, NEW r \in Readers, FindGreaterOrEqual(r)
  PROVE  IInv'
<1> DEFINE n == next_[x[r]][level[r]]
<1> USE Constants
<1> USE DEF IInv
<1>0. r \in Threads /\ r # Writer /\ pc[r] = "ge" /\ pc[r] \in Searching
  BY ThreadAssumption DEF Threads, FindGreaterOrEqual, Searching
<1>1. /\ level[r] \in Levels /\ x[r] \in linked[level[r]] /\ x[r] < key[r]
      /\ key[r] \in Keys /\ op[r] \in {"Contains", "Seek", "Insert"}
  BY <1>0 DEF TypeOK, Cursor, OpOfSearch
<1>2. UNCHANGED insert
  BY <1>0 DEF FindGreaterOrEqual, insert
<1>3. CASE KeyIsAfterNode(key[r], n) /\ MoveRight(r, n)
  BY <1>0, <1>2, <1>3, ReaderMovesIInv DEF KeyIsAfterNode
<1>4. CASE level[r] > 0 /\ MoveDown(r)
  BY <1>0, <1>2, <1>4, ReaderMovesIInv
<1>5. CASE ~KeyIsAfterNode(key[r], n) /\ ~(level[r] > 0) /\ Return(r, n)
  <2>1. level[r] = 0 /\ n = next_[x[r]][0]
    BY <1>5, <1>1
  <2>2. n = nullptr \/ (n \in linked[0] /\ n \in Keys /\ key[r] <= n)
    <3>1. n = nullptr \/ (n \in linked[0] /\ n \in Keys)
      BY <2>1, <1>1, LinkOf
    <3> QED
      BY <3>1, <1>1, <1>5 DEF KeyIsAfterNode
  <2>3. \A m \in linked[0] : x[r] < m => n # nullptr /\ n <= m
    BY <2>1, <1>1 DEF Shape, SortedChains
  <2>4. \A k \in linked[0] : key[r] <= k => n # nullptr /\ n <= k
    <3>1. linked[0] \subseteq Nat /\ x[r] \in Nat /\ key[r] \in Nat
      BY <1>0 DEF TypeOK
    <3> QED
      BY <3>1, <2>3, <1>1
  <2>5. (n # nullptr /\ n = key[r]) \/ key[r] \notin linked[0]
    BY <2>2, <2>4, <1>1
  <2>6. n # nullptr => n # head_ /\ key[r] <= n
    BY <2>2
  <2>7. n \in linked[0] \cup {nullptr}
    BY <2>2
  <2> QED
    BY <1>0, <1>1, <1>2, <1>5, <2>4, <2>5, <2>6, <2>7, ReturnIInv
<1> QED
  BY <1>0, <1>3, <1>4, <1>5 DEF FindGreaterOrEqual

\* One iteration of FindGreaterOrEqual, called by Insert: on the way down it
\* leaves in prev[] the last node before the key.
LEMMA WriterFindGreaterOrEqualIInv ==
  ASSUME IInv, FindGreaterOrEqual(Writer)
  PROVE  IInv'
<1> DEFINE n == next_[x[Writer]][level[Writer]]
<1> USE Constants
<1> USE DEF IInv
<1>0. Writer \in Threads /\ pc[Writer] = "ge" /\ pc[Writer] \in Searching
  BY DEF Threads, FindGreaterOrEqual, Searching
<1>1. /\ level[Writer] \in Levels /\ x[Writer] \in linked[level[Writer]]
      /\ x[Writer] < key[Writer] /\ key[Writer] \in Keys /\ x[Writer] \in Nodes
  BY <1>0 DEF TypeOK, Cursor
<1>2. n = nullptr \/ (n \in linked[level[Writer]] /\ n \in Keys)
  BY <1>1, LinkOf
<1>3. CASE KeyIsAfterNode(key[Writer], n) /\ MoveRight(Writer, n) /\ UNCHANGED insert
  <2>1. x' = [x EXCEPT ![Writer] = x'[Writer]] /\ level' = [level EXCEPT ![Writer] = level'[Writer]]
    BY <1>3, <1>0 DEF MoveRight, TypeOK
  <2>2. x'[Writer] = n /\ level'[Writer] = level[Writer]
    BY <1>3, <1>0 DEF MoveRight, TypeOK
  <2>3. Insertion'
    BY <1>3, <1>0 DEF MoveRight, Insertion, Prepared, Inserting, list, insert
  <2> QED
    BY <1>0, <1>1, <1>2, <1>3, <2>1, <2>2, <2>3, MoveIInv
       DEF MoveRight, KeyIsAfterNode, insert, TypeOK
<1> DEFINE Found == /\ ~KeyIsAfterNode(key[Writer], n)
                    /\ prev' = [prev EXCEPT ![level[Writer]] = x[Writer]]
                    /\ UNCHANGED <<height, i>>
<1>4. ASSUME Found
      PROVE  /\ prev' \in [Levels -> Nodes \cup {garbage}]
             /\ \A l \in Levels : level[Writer] <= l /\ l < max_height_ =>
                  /\ prev'[l] \in linked[l]
                  /\ prev'[l] < key[Writer]
                  /\ next_[prev'[l]][l] = nullptr \/ key[Writer] < next_[prev'[l]][l]
  <2>1. n = nullptr \/ key[Writer] < n
    <3>1. key[Writer] \notin linked[level[Writer]]
      BY <1>0, <1>1 DEF Insertion
    <3> QED
      BY <1>1, <1>2, <1>4, <3>1 DEF KeyIsAfterNode
  <2>2. prev' \in [Levels -> Nodes \cup {garbage}]
    BY <1>1, <1>4 DEF TypeOK
  <2>3. ASSUME NEW l \in Levels, level[Writer] <= l, l < max_height_
        PROVE  /\ prev'[l] \in linked[l]
               /\ prev'[l] < key[Writer]
               /\ next_[prev'[l]][l] = nullptr \/ key[Writer] < next_[prev'[l]][l]
    <3>1. CASE l = level[Writer]
      BY <3>1, <2>1, <1>1, <1>4 DEF TypeOK
    <3>2. CASE l # level[Writer]
      <4>1. l \in Prepared
        BY <3>2, <2>3, <1>0, <1>1 DEF Prepared
      <4>2. prev'[l] = prev[l]
        BY <3>2, <1>4 DEF TypeOK
      <4> QED
        BY <4>1, <4>2 DEF Insertion
    <3> QED
      BY <3>1, <3>2
  <2> QED
    BY <2>2, <2>3
<1>5. CASE Found /\ level[Writer] > 0 /\ MoveDown(Writer)
  <2>1. x' = [x EXCEPT ![Writer] = x'[Writer]] /\ level' = [level EXCEPT ![Writer] = level'[Writer]]
    BY <1>5, <1>0 DEF MoveDown, TypeOK
  <2>2. x'[Writer] = x[Writer] /\ level'[Writer] = level[Writer] - 1
    BY <1>5, <1>0 DEF MoveDown, TypeOK
  <2>3. level[Writer] - 1 \in Levels /\ x[Writer] \in linked[level[Writer] - 1]
    BY <1>5, <1>1 DEF Levels, Shape, NestedLevels
  <2>4. \A l \in Prepared' : level[Writer] <= l /\ l < max_height_
    BY <2>2, <1>0, <1>1, <1>5 DEF Prepared, MoveDown, list
  <2>5. Insertion'
    BY <2>4, <1>4, <1>5, <1>0 DEF MoveDown, Insertion, Prepared, Inserting, list
  <2> QED
    BY <1>0, <1>1, <1>4, <1>5, <2>1, <2>2, <2>3, <2>5, MoveIInv DEF MoveDown
<1>6. CASE /\ Found /\ ~(level[Writer] > 0)
           /\ pc' = [pc EXCEPT ![Writer] = "height"]
           /\ UNCHANGED <<op, key, x, level, list, answer, seen>>
  <2> USE <1>6 DEF list, answer
  <2>1. TypeOK'
    BY <1>4 DEF TypeOK
  <2>2. Shape'
    BY SameShape
  <2>3. Cursor' /\ OpOfSearch' /\ IteratorOK' /\ SeenOK'
    BY DEF TypeOK, Cursor, OpOfSearch, IteratorOK, SeenOK, Searching
  <2>4. pc'[Writer] = "height" /\ level[Writer] = 0
    BY <1>0, <1>1 DEF TypeOK
  <2>5. Insertion'
    BY <2>4, <1>0, <1>1, <1>4 DEF Insertion, Prepared, Inserting
  <2>6. \A r \in Readers : pc'[r] = pc[r]
    BY ThreadAssumption DEF TypeOK, Threads
  <2>7. ContainsCorrect' /\ SeekCorrect' /\ SeekToLastCorrect'
    BY <2>6 DEF ContainsCorrect, SeekCorrect, SeekToLastCorrect
  <2> QED
    BY <2>1, <2>2, <2>3, <2>5, <2>7
<1> QED
  BY <1>0, <1>3, <1>5, <1>6 DEF FindGreaterOrEqual

\* RandomHeight and NewNode: the levels that are new start at head_.
LEMMA NewNodeIInv ==
  ASSUME IInv, NEW h \in 1 .. kMaxHeight, NewNode(h)
  PROVE  IInv'
<1> USE Constants
<1> USE DEF IInv, NewNode, answer
<1>0. Writer \in Threads /\ pc[Writer] = "height" /\ pc'[Writer] = "init"
  BY DEF Threads, TypeOK
<1>1. max_height_' \in 1 .. kMaxHeight /\ h <= max_height_' /\ max_height_ <= max_height_'
  BY DEF TypeOK
<1>2. TypeOK'
  <2>1. prev' \in [Levels -> Nodes \cup {garbage}]
    BY DEF TypeOK
  <2>2. h \in 1 .. kMaxHeight /\ 0 \in 0 .. kMaxHeight
    OBVIOUS
  <2> QED
    BY <1>0, <1>1, <2>1, <2>2 DEF TypeOK
<1>3. Shape'
  BY <1>1 DEF Shape, SortedChains, NestedLevels, TypeOK
<1>4. Cursor' /\ OpOfSearch' /\ IteratorOK' /\ SeenOK'
  BY DEF TypeOK, Cursor, OpOfSearch, IteratorOK, SeenOK, Searching
<1>5. key[Writer] \in Keys /\ \A l \in Levels : key[Writer] \notin linked[l]
  BY <1>0 DEF Insertion, Inserting
<1>6. ASSUME NEW l \in Prepared'
      PROVE  /\ prev'[l] \in linked[l]
             /\ prev'[l] < key[Writer]
             /\ next_[prev'[l]][l] = nullptr \/ key[Writer] < next_[prev'[l]][l]
  <2>1. l \in Levels /\ l < h
    BY <1>0 DEF Prepared
  <2>2. CASE l < max_height_
    <3>1. l \in Prepared /\ prev'[l] = prev[l]
      BY <2>1, <2>2, <1>0 DEF Prepared, TypeOK
    <3> QED
      BY <3>1 DEF Insertion
  <2>3. CASE ~(l < max_height_)
    <3>1. prev'[l] = head_
      BY <2>1, <2>3 DEF TypeOK
    <3>2. linked[l] = {head_}
      <4>1. l >= max_height_
        BY <2>1, <2>3 DEF TypeOK
      <4> QED
        BY <2>1, <4>1 DEF Shape, NestedLevels
    <3>3. next_[head_][l] = nullptr
      BY <2>1, <3>2 DEF Shape, SortedChains
    <3> QED
      BY <3>1, <3>2, <3>3, <1>5 DEF head_
  <2> QED
    BY <2>2, <2>3
<1>7. Insertion'
  <2>1. 0 < h
    OBVIOUS
  <2>2. \A l \in Levels : (key[Writer] \in linked[l]) <=> l < 0
    BY <1>5
  <2> QED
    BY <1>0, <1>1, <1>5, <1>6, <2>1, <2>2 DEF Insertion, Inserting
<1>8. ContainsCorrect' /\ SeekCorrect' /\ SeekToLastCorrect'
  <2>1. \A r \in Readers : pc'[r] = pc[r]
    BY ThreadAssumption DEF TypeOK, Threads
  <2> QED
    BY <2>1 DEF ContainsCorrect, SeekCorrect, SeekToLastCorrect
<1> QED
  BY <1>2, <1>3, <1>4, <1>7, <1>8

\* The new node's own link on level i is written: nobody can see it yet.
LEMMA InitLinkIInv ==
  ASSUME IInv, InitLink
  PROVE  IInv'
<1> USE Constants
<1> USE DEF IInv, InitLink, answer, insert
<1> DEFINE k == key[Writer]
<1>0. Writer \in Threads /\ pc[Writer] = "init" /\ pc'[Writer] = "publish"
  BY DEF Threads, TypeOK
<1>1. /\ k \in Keys /\ i < height /\ height <= max_height_
      /\ \A l \in Levels : k \in linked[l] <=> l < i
  BY <1>0 DEF Insertion, Inserting
<1>2. i \in Levels /\ i \in Prepared
  BY <1>0, <1>1 DEF TypeOK, Levels, Prepared
<1>3. prev[i] \in linked[i] /\ prev[i] \in Nodes
  BY <1>2 DEF Insertion, TypeOK
<1>4. next_[prev[i]][i] \in Links
  BY <1>2, <1>3 DEF TypeOK
<1>5. /\ next_' \in [Nodes -> [Levels -> Links]]
      /\ next_'[k][i] = next_[prev[i]][i]
      /\ \A m \in Nodes, l \in Levels : m # k \/ l # i => next_'[m][l] = next_[m][l]
  BY <1>1, <1>2, <1>4 DEF TypeOK
<1>6. \A l \in Levels : \A m \in linked[l] : next_'[m][l] = next_[m][l]
  BY <1>1, <1>2, <1>5 DEF TypeOK
<1>7. TypeOK'
  BY <1>5 DEF TypeOK
<1>8. Shape'
  BY <1>6 DEF Shape, SortedChains, NestedLevels
<1>9. Cursor' /\ OpOfSearch' /\ IteratorOK' /\ SeenOK'
  BY DEF TypeOK, Cursor, OpOfSearch, IteratorOK, SeenOK, Searching
<1>10. Insertion'
  <2>1. Prepared' = Prepared
    BY <1>0 DEF Prepared
  <2>2. \A l \in Prepared : l \in Levels /\ prev[l] \in linked[l]
    BY DEF Prepared, Insertion
  <2>3. \A l \in Prepared : next_'[prev[l]][l] = next_[prev[l]][l]
    BY <2>2, <1>6
  <2>4. next_'[k][i] = next_'[prev[i]][i]
    BY <1>2, <1>5, <2>3
  <2> QED
    BY <2>1, <2>3, <2>4, <1>0, <1>1 DEF Insertion, Inserting
<1>11. ContainsCorrect' /\ SeekCorrect' /\ SeekToLastCorrect'
  <2>1. \A r \in Readers : pc'[r] = pc[r]
    BY ThreadAssumption DEF TypeOK, Threads
  <2> QED
    BY <2>1 DEF ContainsCorrect, SeekCorrect, SeekToLastCorrect
<1> QED
  BY <1>7, <1>8, <1>9, <1>10, <1>11

\* The new node is published on level i, between prev[i] and its successor.
LEMMA PublishLinkIInv ==
  ASSUME IInv, PublishLink
  PROVE  IInv'
<1> USE Constants
<1> USE DEF IInv, PublishLink, answer
<1> DEFINE k == key[Writer]
           p == prev[i]
           s == next_[prev[i]][i]
<1>0. Writer \in Threads /\ pc[Writer] = "publish"
  BY DEF Threads
<1>1. /\ k \in Keys /\ i < height /\ height <= max_height_ /\ next_[k][i] = s
      /\ \A l \in Levels : k \in linked[l] <=> l < i
  BY <1>0 DEF Insertion, Inserting
<1>2. i \in Levels /\ i \in Prepared
  BY <1>0, <1>1 DEF TypeOK, Levels, Prepared
<1>3. p \in linked[i] /\ p \in Nodes /\ p < k /\ (s = nullptr \/ k < s)
  BY <1>2 DEF Insertion, TypeOK
<1>4. /\ next_' \in [Nodes -> [Levels -> Links]]
      /\ next_'[p][i] = k
      /\ \A m \in Nodes, l \in Levels : m # p \/ l # i => next_'[m][l] = next_[m][l]
  BY <1>1, <1>2, <1>3 DEF TypeOK, Links
<1>5. /\ linked' \in [Levels -> SUBSET Nodes]
      /\ linked'[i] = linked[i] \cup {k}
      /\ \A l \in Levels : l # i => linked'[l] = linked[l]
      /\ \A l \in Levels : linked[l] \subseteq linked'[l]
  BY <1>1, <1>2 DEF TypeOK
<1>6. /\ i' = i + 1 /\ i' \in 0 .. kMaxHeight /\ i \in Nat /\ height \in Nat
      /\ pc'[Writer] = IF i + 1 < height THEN "init" ELSE "idle"
  BY <1>0, <1>1 DEF TypeOK
<1>7. TypeOK'
  BY <1>4, <1>5, <1>6 DEF TypeOK
<1>8. linked[i] \subseteq Nat /\ p \in Nat /\ k \in Nat
  BY <1>1, <1>2, <1>3 DEF TypeOK
<1>9. /\ s \in (linked[i] \ {head_}) \cup {nullptr}
      /\ \A m \in linked[i] : p < m => s # nullptr /\ s <= m
  BY <1>2, <1>3 DEF Shape, SortedChains
<1>10. ASSUME NEW m \in linked[i], m # p
       PROVE  /\ next_[m][i] \in (linked[i] \ {head_}) \cup {nullptr}
              /\ next_[m][i] # nullptr => m < next_[m][i]
              /\ \A q \in linked[i] \cup {k} : m < q => next_[m][i] # nullptr /\ next_[m][i] <= q
  <2>1. /\ next_[m][i] \in (linked[i] \ {head_}) \cup {nullptr}
        /\ next_[m][i] # nullptr => m < next_[m][i]
        /\ \A q \in linked[i] : m < q => next_[m][i] # nullptr /\ next_[m][i] <= q
    BY <1>2 DEF Shape, SortedChains
  <2>2. m < k => next_[m][i] # nullptr /\ next_[m][i] <= k
    <3>1. m \in Nat /\ (next_[m][i] = nullptr \/ next_[m][i] \in Nat)
      BY <2>1, <1>8
    <3>2. s = nullptr \/ s \in Nat
      BY <1>8, <1>9
    <3>3. ~(p < m /\ m < k)
      BY <3>1, <3>2, <1>3, <1>8, <1>9, <1>10
    <3> QED
      BY <3>1, <3>3, <2>1, <1>3, <1>8, <1>10
  <2> QED
    BY <2>1, <2>2
<1>11. SortedChains'
  <2>1. ASSUME NEW l \in Levels, NEW m \in linked'[l]
        PROVE  /\ next_'[m][l] \in (linked'[l] \ {head_}) \cup {nullptr}
               /\ next_'[m][l] # nullptr => m < next_'[m][l]
               /\ \A q \in linked'[l] : m < q => next_'[m][l] # nullptr /\ next_'[m][l] <= q
    <3>0. m \in Nodes
      BY <1>5
    <3>1. CASE l # i
      <4>1. linked'[l] = linked[l] /\ next_'[m][l] = next_[m][l]
        BY <3>0, <3>1, <1>4, <1>5
      <4> QED
        BY <4>1, <2>1 DEF Shape, SortedChains
    <3>2. CASE l = i /\ m = p
      <4>1. next_'[m][l] = k /\ linked'[l] = linked[i] \cup {k}
        BY <3>2, <1>4, <1>5
      <4>2. ASSUME NEW q \in linked[i], p < q PROVE k <= q
        <5>1. s # nullptr /\ s <= q /\ q \in Nat /\ k < s /\ s \in Nat
          BY <4>2, <1>3, <1>8, <1>9
        <5> QED
          BY <5>1, <1>8
      <4> QED
        BY <4>1, <4>2, <3>2, <1>1, <1>3, <1>8
    <3>3. CASE l = i /\ m = k
      <4>1. next_'[m][l] = s /\ linked'[l] = linked[i] \cup {k} /\ m # p
        BY <3>0, <3>3, <1>1, <1>2, <1>3, <1>4, <1>5, <1>8
      <4>2. ASSUME NEW q \in linked[i] \cup {k}, k < q PROVE s # nullptr /\ s <= q
        BY <4>2, <1>3, <1>8, <1>9
      <4> QED
        BY <4>1, <4>2, <3>3, <1>3, <1>9
    <3>4. CASE l = i /\ m # p /\ m # k
      <4>1. m \in linked[i] /\ next_'[m][l] = next_[m][l] /\ linked'[l] = linked[i] \cup {k}
        BY <3>0, <3>4, <1>4, <1>5
      <4> QED
        BY <4>1, <3>4, <1>10
    <3> QED
      BY <3>1, <3>2, <3>3, <3>4
  <2> QED
    BY <2>1 DEF SortedChains
<1>12. NestedLevels'
  <2>1. ASSUME NEW l \in Levels
        PROVE  /\ head_ \in linked'[l]
               /\ \A m \in Levels : m < l => linked'[l] \subseteq linked'[m]
               /\ l >= max_height_ => linked'[l] = {head_}
    <3>1. /\ head_ \in linked[l]
          /\ \A m \in Levels : m < l => linked[l] \subseteq linked[m]
          /\ l >= max_height_ => linked[l] = {head_}
      BY DEF Shape, NestedLevels
    <3>2. CASE l = i
      BY <3>1, <3>2, <1>1, <1>2, <1>5, <1>6 DEF TypeOK
    <3>3. CASE l # i
      BY <3>1, <3>3, <1>5
    <3> QED
      BY <3>2, <3>3
  <2> QED
    BY <2>1 DEF NestedLevels
<1>13. Cursor' /\ OpOfSearch' /\ IteratorOK' /\ SeenOK'
  BY <1>0, <1>5 DEF TypeOK, Cursor, OpOfSearch, IteratorOK, SeenOK, Searching
<1>14. Insertion'
  <2>1. ASSUME NEW l \in Prepared'
        PROVE  /\ prev[l] \in linked'[l]
               /\ prev[l] < k
               /\ next_'[prev[l]][l] = nullptr \/ k < next_'[prev[l]][l]
    <3>1. l \in Prepared /\ l \in Levels /\ l # i
      BY <1>0, <1>6, <2>1 DEF Prepared
    <3>2. next_'[prev[l]][l] = next_[prev[l]][l] /\ linked'[l] = linked[l]
      BY <3>1, <1>4, <1>5 DEF TypeOK
    <3> QED
      BY <3>1, <3>2 DEF Insertion
  <2>2. \A l \in Levels : k \in linked'[l] <=> l < i + 1
    BY <1>1, <1>2, <1>5, <1>6
  <2> QED
    BY <1>1, <1>6, <2>1, <2>2 DEF Insertion, Inserting
<1>15. ContainsCorrect' /\ SeekCorrect' /\ SeekToLastCorrect'
  <2>1. \A r \in Readers : pc'[r] = pc[r]
    BY ThreadAssumption DEF TypeOK, Threads
  <2> QED
    BY <2>1, <1>5 DEF ContainsCorrect, SeekCorrect, SeekToLastCorrect
<1> QED
  BY <1>7, <1>11, <1>12, <1>13, <1>14, <1>15 DEF Shape

\* Every step keeps the inductive invariant.
LEMMA NextIInv == IInv /\ [NextStep]_vars => IInv'
<1> SUFFICES ASSUME IInv, [NextStep]_vars PROVE IInv'
  OBVIOUS
<1> USE Constants
<1>1. ASSUME NEW r \in Readers, StartRead(r) PROVE IInv'
  <2>0. r \in Threads /\ r # Writer /\ Keys \subseteq Nat /\ head_ \in Nat
    BY ThreadAssumption DEF Threads
  <2>1. CASE \E k \in Keys : Contains(r, k) \/ Seek(r, k)
    BY <2>0, <2>1, StartSearchIInv DEF Contains, Seek, Searching
  <2>2. CASE SeekToFirst(r)
    <3>1. head_ \in linked[0]
      BY DEF IInv, Shape, NestedLevels
    <3> QED
      BY <2>2, <3>1, StepIteratorIInv DEF SeekToFirst
  <2>3. CASE SeekToLast(r)
    BY <2>0, <2>3, StartSearchIInv DEF SeekToLast, Searching
  <2>4. CASE Next(r)
    <3>1. node_[r] \in linked[0]
      BY <2>4 DEF Next, IInv, IteratorOK
    <3> QED
      BY <2>4, <3>1, StepIteratorIInv DEF Next
  <2>5. CASE Prev(r)
    <3>1. node_[r] \in Nat
      BY <2>5 DEF Prev, IInv, TypeOK
    <3> QED
      BY <2>0, <2>5, <3>1, StartSearchIInv DEF Prev, Searching
  <2> QED
    BY <1>1, <2>1, <2>2, <2>3, <2>4, <2>5 DEF StartRead
<1>2. ASSUME NEW r \in Readers, ContinueRead(r) PROVE IInv'
  BY <1>2, FindLastIInv, FindLessThanIInv, ReaderFindGreaterOrEqualIInv DEF ContinueRead
<1>3. ASSUME NEW k \in Keys, Insert(k) PROVE IInv'
  <2>1. Writer \in Threads /\ k \in Nat
    BY DEF Threads
  <2> QED
    BY <1>3, <2>1, StartSearchIInv DEF Insert, Searching
<1>4. CASE ContinueInsert
  BY <1>4, WriterFindGreaterOrEqualIInv, NewNodeIInv, InitLinkIInv, PublishLinkIInv
     DEF ContinueInsert
<1>5. CASE UNCHANGED vars
  <2> USE <1>5 DEF vars, IInv
  <2>1. TypeOK' /\ Shape'
    BY DEF TypeOK, Shape, SortedChains, NestedLevels
  <2>2. Cursor' /\ OpOfSearch' /\ IteratorOK' /\ SeenOK'
    BY DEF Cursor, OpOfSearch, IteratorOK, SeenOK
  <2>3. Insertion'
    BY DEF Insertion, Prepared
  <2>4. ContainsCorrect' /\ SeekCorrect' /\ SeekToLastCorrect'
    BY DEF ContainsCorrect, SeekCorrect, SeekToLastCorrect
  <2> QED
    BY <2>1, <2>2, <2>3, <2>4
<1> QED
  BY <1>1, <1>2, <1>3, <1>4, <1>5 DEF NextStep

LEMMA Invariance == Spec => []IInv
BY InitIInv, NextIInv, PTL DEF Spec

\* The skip list is well typed; in particular no thread ever holds a link that
\* was allocated and not yet written (Insert, lines 302-305).
THEOREM TypeCorrect == Spec => []TypeOK
<1>1. IInv => TypeOK
  BY DEF IInv
<1> QED
  BY <1>1, Invariance, PTL

\* At every moment of every insertion the levels are sorted and complete, which
\* is what lets searches run without a lock.
THEOREM ShapeCorrect == Spec => []SortedChains
<1>1. IInv => SortedChains
  BY DEF IInv, Shape
<1> QED
  BY <1>1, Invariance, PTL

\* At every moment of every insertion a level holds only nodes of the level
\* below, so a search that goes down a level loses nothing.
THEOREM NestingCorrect == Spec => []NestedLevels
<1>1. IInv => NestedLevels
  BY DEF IInv, Shape
<1> QED
  BY <1>1, Invariance, PTL

\* Contains answers for some moment between its call and its return, whatever
\* is inserted meanwhile.
THEOREM ContainsIsCorrect == Spec => []ContainsCorrect
<1>1. IInv => ContainsCorrect
  BY DEF IInv
<1> QED
  BY <1>1, Invariance, PTL

\* Seek, SeekToFirst and Next stop at a published node and step over nothing
\* that was in the list when they began.
THEOREM IteratorIsCorrect == Spec => []SeekCorrect
<1>1. IInv => SeekCorrect
  BY DEF IInv
<1> QED
  BY <1>1, Invariance, PTL

\* SeekToLast stops at a published node behind everything that was in the list
\* when it began.
THEOREM SeekToLastIsCorrect == Spec => []SeekToLastCorrect
<1>1. IInv => SeekToLastCorrect
  BY DEF IInv
<1> QED
  BY <1>1, Invariance, PTL
=============================================================================

------------------------------ MODULE SkipList ------------------------------
(***************************************************************************)
(* The skip list behind MemTable (db/skiplist.h): one inserting thread,    *)
(* serialised by its caller, and any number of readers that take no lock.  *)
(*                                                                         *)
(* One action is one shared-memory access: one atomic load or store of a   *)
(* link, or of max_height_.  Loads of links are acquire loads and stores   *)
(* that publish a node are release stores (lines 104-116), and there is a  *)
(* single writer, so every execution is an interleaving of these accesses  *)
(* in program order (the README gives the argument, also for the relaxed   *)
(* accesses to max_height_).                                               *)
(*                                                                         *)
(* A node is named by its key: the list never holds two equal keys.        *)
(***************************************************************************)
EXTENDS Integers

CONSTANTS
  Keys,        \* the keys that may be inserted; the comparator is <
  kMaxHeight,  \* enum { kMaxHeight }
  Readers,     \* threads that search and iterate
  Writer       \* the one thread that inserts

ASSUME KeysAssumption == Keys \subseteq Nat \ {0}
ASSUME HeightAssumption == kMaxHeight \in Nat \ {0}
ASSUME ThreadAssumption == Writer \notin Readers

head_   == 0     \* below every key: no search compares with its key
nullptr == -1    \* "null n is considered infinite"
garbage == -2    \* a link that was allocated and not yet written

Levels  == 0 .. (kMaxHeight - 1)
Nodes   == Keys \cup {head_}
Threads == Readers \cup {Writer}

VARIABLES
  next_,        \* next_[n][l]: the level-l link of node n
  max_height_,  \* height of the list, as last stored
  pc,           \* what each thread is doing
  op,           \* the operation a thread is in, or finished last
  key,          \* its search key
  x,            \* its cursor: the node it has reached
  level,        \* and the level it searches
  node_,        \* Iterator::node_ of each reader
  found,        \* the answer of each reader's last Contains
  prev,         \* Insert's array prev[]
  height,       \* Insert's height
  i,            \* Insert's loop variable
  linked,       \* history: linked[l], the nodes published at level l
  seen          \* history: linked[0] when each thread's operation began

list   == <<next_, max_height_, linked>>
local  == <<pc, op, key, x, level>>
answer == <<node_, found>>
insert == <<prev, height, i>>
vars   == <<next_, max_height_, pc, op, key, x, level, node_, found,
            prev, height, i, linked, seen>>

-----------------------------------------------------------------------------

\* Mutant: an equal key counts as smaller.
MutKeyIsAfterNode(k, n) == n # nullptr /\ n <= k

\* KeyIsAfterNode: is k greater than the key of node n?
KeyIsAfterNode(k, n) == n # nullptr /\ n < k

\* The test with which FindLessThan leaves a level: next == nullptr or
\* compare_(next->key, key) > 0.
BeyondKey(n, k) == n = nullptr \/ n > k

\* "Node* prev[kMaxHeight];"
Uninitialised == [l \in Levels |-> garbage]

\* The constructor: head_ has every link null, max_height_ is 1.
Init ==
  /\ next_ = [n \in Nodes |->
                [l \in Levels |-> IF n = head_ THEN nullptr ELSE garbage]]
  /\ max_height_ = 1
  /\ pc = [t \in Threads |-> "idle"]
  /\ op = [t \in Threads |-> "none"]
  /\ key = [t \in Threads |-> head_]
  /\ x = [t \in Threads |-> head_]
  /\ level = [t \in Threads |-> 0]
  /\ node_ = [r \in Readers |-> nullptr]
  /\ found = [r \in Readers |-> FALSE]
  /\ prev = Uninitialised
  /\ height = 1
  /\ i = 0
  /\ linked = [l \in Levels |-> {head_}]
  /\ seen = [t \in Threads |-> {head_}]

\* Every search starts at head_ on level GetMaxHeight() - 1.  The writer's is
\* the first thing Insert does, with an array prev[] nobody has written.
StartSearch(t, search, o, k) ==
  /\ pc[t] = "idle"
  /\ pc' = [pc EXCEPT ![t] = search]
  /\ op' = [op EXCEPT ![t] = o]
  /\ key' = [key EXCEPT ![t] = k]
  /\ x' = [x EXCEPT ![t] = head_]
  /\ level' = [level EXCEPT ![t] = max_height_ - 1]
  /\ seen' = [seen EXCEPT ![t] = linked[0]]
  /\ prev' = IF t = Writer THEN Uninitialised ELSE prev
  /\ UNCHANGED <<list, answer, height, i>>

Contains(r, k) == StartSearch(r, "ge", "Contains", k)

Seek(r, k) == StartSearch(r, "ge", "Seek", k)

SeekToLast(r) == StartSearch(r, "last", "SeekToLast", head_)

\* Prev asserts Valid() and looks for the last node before its own.
Prev(r) == node_[r] # nullptr /\ StartSearch(r, "lt", "Prev", node_[r])

\* Mutant: the iterator follows the topmost link instead of the level-0 one.
MutStepIterator(r, o, from) ==
  /\ pc[r] = "idle"
  /\ op' = [op EXCEPT ![r] = o]
  /\ key' = [key EXCEPT ![r] = from + 1]
  /\ node_' = [node_ EXCEPT ![r] = IF next_[from][max_height_ - 1] = garbage
                                   THEN next_[from][0]
                                   ELSE next_[from][max_height_ - 1]]
  /\ seen' = [seen EXCEPT ![r] = linked[0]]
  /\ UNCHANGED <<list, pc, x, level, found, insert>>

\* SeekToFirst and Next are one load: the first node after head_, or after
\* node_; the key they look for is the next one up.
StepIterator(r, o, from) ==
  /\ pc[r] = "idle"
  /\ op' = [op EXCEPT ![r] = o]
  /\ key' = [key EXCEPT ![r] = from + 1]
  /\ node_' = [node_ EXCEPT ![r] = next_[from][0]]
  /\ seen' = [seen EXCEPT ![r] = linked[0]]
  /\ UNCHANGED <<list, pc, x, level, found, insert>>

SeekToFirst(r) == StepIterator(r, "SeekToFirst", head_)

Next(r) == node_[r] # nullptr /\ StepIterator(r, "Next", node_[r])

\* Insert(k).  Its caller promises that k is not in the list.
Insert(k) == k \notin linked[0] /\ StartSearch(Writer, "ge", "Insert", k)

-----------------------------------------------------------------------------

\* Mutant: the level is not decremented, the loop looks at the same link again.
MutMoveDown(t) == UNCHANGED <<pc, op, key, x, level, list, answer, seen>>

\* The cursor of t moves along its level.
MoveRight(t, n) ==
  /\ x' = [x EXCEPT ![t] = n]
  /\ UNCHANGED <<pc, op, key, level, list, answer, seen>>

MoveDown(t) ==
  /\ level' = [level EXCEPT ![t] = @ - 1]
  /\ UNCHANGED <<pc, op, key, x, list, answer, seen>>

\* A reader's search ends: Contains compares, the iterator takes the node.
Return(r, n) ==
  /\ pc' = [pc EXCEPT ![r] = "idle"]
  /\ IF op[r] = "Contains"
       THEN /\ found' = [found EXCEPT ![r] = n # nullptr /\ n = key[r]]
            /\ UNCHANGED node_
       ELSE /\ node_' = [node_ EXCEPT ![r] = IF n = head_ THEN nullptr ELSE n]
            /\ UNCHANGED found
  /\ UNCHANGED <<op, key, x, level, list, seen>>

\* One iteration of FindGreaterOrEqual's loop.
FindGreaterOrEqual(t) ==
  LET n == next_[x[t]][level[t]] IN
  /\ pc[t] = "ge"
  /\ IF KeyIsAfterNode(key[t], n)
       THEN MoveRight(t, n) /\ UNCHANGED insert
       ELSE /\ IF t = Writer
                 THEN prev' = [prev EXCEPT ![level[t]] = x[t]]
                 ELSE UNCHANGED prev
            /\ UNCHANGED <<height, i>>
            /\ IF level[t] > 0 THEN MoveDown(t)
               ELSE IF t = Writer
                 THEN /\ pc' = [pc EXCEPT ![t] = "height"]
                      /\ UNCHANGED <<op, key, x, level, list, answer, seen>>
                 ELSE Return(t, n)

\* One iteration of FindLessThan's loop.
FindLessThan(r) ==
  LET n == next_[x[r]][level[r]] IN
  /\ pc[r] = "lt"
  /\ UNCHANGED insert
  /\ IF ~BeyondKey(n, key[r]) THEN MoveRight(r, n)
     ELSE IF level[r] > 0 THEN MoveDown(r)
     ELSE Return(r, x[r])

\* Mutant: the end of the topmost level is taken for the end of the list.
MutFindLast(r) ==
  LET n == next_[x[r]][level[r]] IN
  /\ pc[r] = "last"
  /\ UNCHANGED insert
  /\ IF n # nullptr THEN MoveRight(r, n) ELSE Return(r, x[r])

\* One iteration of FindLast's loop.
FindLast(r) ==
  LET n == next_[x[r]][level[r]] IN
  /\ pc[r] = "last"
  /\ UNCHANGED insert
  /\ IF n # nullptr THEN MoveRight(r, n)
     ELSE IF level[r] > 0 THEN MoveDown(r)
     ELSE Return(r, x[r])

\* Mutant: prev[] is not completed, above max_height_ it is what the stack held.
MutNewNodePrev(h) ==
  /\ pc[Writer] = "height"
  /\ prev' \in {p \in [Levels -> Nodes] :
                 \A l \in Levels : l < max_height_ => p[l] = prev[l]}
  /\ max_height_' = IF h > max_height_ THEN h ELSE max_height_
  /\ height' = h
  /\ i' = 0
  /\ pc' = [pc EXCEPT ![Writer] = "init"]
  /\ UNCHANGED <<next_, linked, op, key, x, level, answer, seen>>

\* Mutant: the new height is not stored in max_height_.
MutNewNodeHeight(h) ==
  /\ pc[Writer] = "height"
  /\ prev' = [l \in Levels |->
                IF l \in max_height_ .. (h - 1) THEN head_ ELSE prev[l]]
  /\ height' = h
  /\ i' = 0
  /\ pc' = [pc EXCEPT ![Writer] = "init"]
  /\ UNCHANGED <<list, op, key, x, level, answer, seen>>

\* RandomHeight returns h; prev[] is completed with head_, max_height_ is
\* raised and the node is allocated, its links still uninitialised.
NewNode(h) ==
  /\ pc[Writer] = "height"
  /\ prev' = [l \in Levels |->
                IF l \in max_height_ .. (h - 1) THEN head_ ELSE prev[l]]
  /\ max_height_' = IF h > max_height_ THEN h ELSE max_height_
  /\ height' = h
  /\ i' = 0
  /\ pc' = [pc EXCEPT ![Writer] = "init"]
  /\ UNCHANGED <<next_, linked, op, key, x, level, answer, seen>>

\* Mutant: the node is published before its own link is written.
MutInitLink ==
  /\ pc[Writer] = "init"
  /\ pc' = [pc EXCEPT ![Writer] = "publish"]
  /\ UNCHANGED <<list, op, key, x, level, answer, insert, seen>>

\* x->NoBarrier_SetNext(i, prev[i]->NoBarrier_Next(i))
InitLink ==
  /\ pc[Writer] = "init"
  /\ next_' = [next_ EXCEPT ![key[Writer]][i] = next_[prev[i]][i]]
  /\ pc' = [pc EXCEPT ![Writer] = "publish"]
  /\ UNCHANGED <<max_height_, linked, op, key, x, level, answer, insert, seen>>

\* prev[i]->SetNext(i, x)
PublishLink ==
  /\ pc[Writer] = "publish"
  /\ next_' = [next_ EXCEPT ![prev[i]][i] = key[Writer]]
  /\ linked' = [linked EXCEPT ![i] = @ \cup {key[Writer]}]
  /\ i' = i + 1
  /\ pc' = [pc EXCEPT ![Writer] = IF i + 1 < height THEN "init" ELSE "idle"]
  /\ UNCHANGED <<max_height_, op, key, x, level, answer, prev, height, seen>>

-----------------------------------------------------------------------------

StartRead(r) ==
  \/ \E k \in Keys : Contains(r, k) \/ Seek(r, k)
  \/ SeekToFirst(r)
  \/ SeekToLast(r)
  \/ Next(r)
  \/ Prev(r)

ContinueRead(r) == FindGreaterOrEqual(r) \/ FindLessThan(r) \/ FindLast(r)

ContinueInsert ==
  \/ FindGreaterOrEqual(Writer)
  \/ \E h \in 1 .. kMaxHeight : NewNode(h)
  \/ InitLink
  \/ PublishLink

NextStep ==
  \/ \E r \in Readers : StartRead(r) \/ ContinueRead(r)
  \/ \E k \in Keys : Insert(k)
  \/ ContinueInsert

Spec == Init /\ [][NextStep]_vars

\* Threads that are inside an operation keep running; nothing obliges a
\* caller to start one.
FairSpec ==
  /\ Spec
  /\ \A r \in Readers : WF_vars(ContinueRead(r))
  /\ WF_vars(ContinueInsert)

-----------------------------------------------------------------------------
(* Properties *)

Links == Nodes \cup {nullptr, garbage}

\* Type invariant.  In particular no thread's cursor and no iterator ever
\* holds an uninitialised link: the new node's own link is written before the
\* node is published on that level (lines 302-305).
TypeOK ==
  /\ next_ \in [Nodes -> [Levels -> Links]]
  /\ max_height_ \in 1 .. kMaxHeight
  /\ pc \in [Threads -> {"idle", "ge", "lt", "last", "height", "init", "publish"}]
  /\ op \in [Threads -> {"none", "Contains", "Seek", "SeekToFirst",
                         "SeekToLast", "Next", "Prev", "Insert"}]
  /\ key \in [Threads -> Nat]
  /\ x \in [Threads -> Nodes]
  /\ level \in [Threads -> Levels]
  /\ node_ \in [Readers -> Keys \cup {nullptr}]
  /\ found \in [Readers -> BOOLEAN]
  /\ prev \in [Levels -> Nodes \cup {garbage}]
  /\ height \in 1 .. kMaxHeight
  /\ i \in 0 .. kMaxHeight
  /\ linked \in [Levels -> SUBSET Nodes]
  /\ seen \in [Threads -> SUBSET Nodes]

\* Whatever the inserting thread is in the middle of, every level is a sorted
\* chain that misses no published node: the link of a published node leads to
\* its successor among the published nodes, and to null only from the last.
SortedChains ==
  \A l \in Levels : \A n \in linked[l] :
    /\ next_[n][l] \in (linked[l] \ {head_}) \cup {nullptr}
    /\ next_[n][l] # nullptr => n < next_[n][l]
    /\ \A m \in linked[l] : n < m => next_[n][l] # nullptr /\ next_[n][l] <= m

\* A node on some level is on every level below it, so that a search may go
\* down from where it stands (line 227), and levels that max_height_ does not
\* count yet are empty.
NestedLevels ==
  \A l \in Levels :
    /\ head_ \in linked[l]
    /\ \A m \in Levels : m < l => linked[l] \subseteq linked[m]
    /\ l >= max_height_ => linked[l] = {head_}

\* Contains, run against concurrent inserts, is right about some moment of
\* its execution: it says yes only for a published key, and no only for a key
\* that was not yet published when it began.
ContainsCorrect ==
  \A r \in Readers : pc[r] = "idle" /\ op[r] = "Contains" =>
    IF found[r] THEN key[r] \in linked[0] ELSE key[r] \notin seen[r]

\* Seek, SeekToFirst and Next stop at a published node at or after the key
\* asked for, and never step over a key that was in the list when they began.
SeekCorrect ==
  \A r \in Readers : pc[r] = "idle" /\ op[r] \in {"Seek", "SeekToFirst", "Next"} =>
    /\ node_[r] # nullptr => node_[r] \in linked[0] /\ key[r] <= node_[r]
    /\ \A k \in seen[r] : key[r] <= k => node_[r] # nullptr /\ node_[r] <= k

\* SeekToLast stops at a published node with no key after it that was in the
\* list when it began.
SeekToLastCorrect ==
  \A r \in Readers : pc[r] = "idle" /\ op[r] = "SeekToLast" =>
    IF node_[r] = nullptr THEN seen[r] = {head_}
    ELSE node_[r] \in linked[0] /\ \A k \in seen[r] : k <= node_[r]

\* What the assertion at the top of FindLessThan's loop says, which is also
\* its contract "return the latest node with a key < key".
FindLessThanAssertion ==
  \A r \in Readers : pc[r] = "lt" => x[r] = head_ \/ x[r] < key[r]

\* Every search and every insertion ends, whatever the other threads do.
OperationsEnd == \A t \in Threads : pc[t] # "idle" ~> pc[t] = "idle"

=============================================================================

----------------------------- MODULE GetProofs -----------------------------
(***************************************************************************)
(* Proofs about Version::Get, for any number of levels, files, user keys   *)
(* and failures: a Get finds the newest write of its key that its snapshot *)
(* sees, and charges the file that it should.                              *)
(*                                                                         *)
(* Get looks at one file after the other and stops at the first that has   *)
(* anything.  That is right because a version is Layered: what a file has  *)
(* is newer than what the files after it have of the same key.  LayersInv  *)
(* is the inductive invariant that says so; the table of a flush can go on *)
(* top because the log of imm_ is newer than all that was flushed before.  *)
(***************************************************************************)
EXTENDS VersionSetProofs

-----------------------------------------------------------------------------
(* Ranks *)

\* The elements of H that R puts before a.
Below(H, R, a) == {b \in H : <<b, a>> \in R}

\* In a finite set with a strict total order, the rank of an element is the
\* number of elements before it, and every rank occurs.
LEMMA Ranked ==
  ASSUME NEW H, IsFiniteSet(H), NEW R,
         \A a \in H : <<a, a>> \notin R,
         \A a, b, c \in H : <<a, b>> \in R /\ <<b, c>> \in R => <<a, c>> \in R,
         \A a, b \in H : a # b => <<a, b>> \in R \/ <<b, a>> \in R
  PROVE  /\ Cardinality(H) \in Nat
         /\ \A a \in H : Cardinality(Below(H, R, a)) \in 0 .. (Cardinality(H) - 1)
         /\ \A a, b \in H : <<a, b>> \in R =>
              Cardinality(Below(H, R, a)) < Cardinality(Below(H, R, b))
         /\ \A i \in 1 .. Cardinality(H) : \E a \in H : Cardinality(Below(H, R, a)) = i - 1
<1> DEFINE N == Cardinality(H)
           rank == [a \in H |-> Cardinality(Below(H, R, a)) + 1]
<1>1. N \in Nat
  BY FS_CardinalityType
<1>2. ASSUME NEW a \in H
      PROVE  /\ IsFiniteSet(Below(H, R, a))
             /\ Cardinality(Below(H, R, a)) \in 0 .. (N - 1)
  <2>1. Below(H, R, a) \subseteq H \ {a}
    BY DEF Below
  <2>2. IsFiniteSet(H \ {a}) /\ Cardinality(H \ {a}) = N - 1
    BY FS_RemoveElement
  <2>3. IsFiniteSet(Below(H, R, a)) /\ Cardinality(Below(H, R, a)) <= N - 1
    BY <2>1, <2>2, FS_Subset
  <2>4. Cardinality(Below(H, R, a)) \in Nat
    BY <2>3, FS_CardinalityType
  <2> QED
    BY <1>1, <2>3, <2>4
<1>3. ASSUME NEW a \in H, NEW b \in H, <<a, b>> \in R
      PROVE  Cardinality(Below(H, R, a)) < Cardinality(Below(H, R, b))
  <2> DEFINE A == Below(H, R, a)
             B == Below(H, R, b)
  <2>1. A \subseteq B /\ a \in B /\ a \notin A
    BY <1>3 DEF Below
  <2>2. IsFiniteSet(A) /\ IsFiniteSet(B) /\ Cardinality(A) \in Nat /\ Cardinality(B) \in Nat
    BY <1>2, <1>1
  <2> HIDE DEF A, B
  <2>3. Cardinality(A) <= Cardinality(B) /\ (Cardinality(B) = Cardinality(A) => B = A)
    BY <2>1, <2>2, FS_Subset
  <2>4. Cardinality(A) < Cardinality(B)
    BY <2>1, <2>2, <2>3
  <2> QED
    BY <2>4 DEF A, B
<1>4. \A i \in 1 .. N : \E a \in H : Cardinality(Below(H, R, a)) = i - 1
  <2>1. rank \in [H -> 1 .. N]
    BY <1>1, <1>2
  <2>2. \A a, b \in H : rank[a] = rank[b] => a = b
    <3> SUFFICES ASSUME NEW a \in H, NEW b \in H, rank[a] = rank[b], a # b
                 PROVE  FALSE
      OBVIOUS
    <3>1. Cardinality(Below(H, R, a)) \in Nat /\ Cardinality(Below(H, R, b)) \in Nat
      BY <1>1, <1>2
    <3>2. Cardinality(Below(H, R, a)) = Cardinality(Below(H, R, b))
      BY <3>1
    <3>3. <<a, b>> \in R \/ <<b, a>> \in R
      OBVIOUS
    <3>4. CASE <<a, b>> \in R
      <4>1. Cardinality(Below(H, R, a)) < Cardinality(Below(H, R, b))
        BY <1>3, <3>4
      <4> QED
        BY <3>1, <3>2, <4>1
    <3>5. CASE <<b, a>> \in R
      <4>1. Cardinality(Below(H, R, b)) < Cardinality(Below(H, R, a))
        BY <1>3, <3>5
      <4> QED
        BY <3>1, <3>2, <4>1
    <3> QED
      BY <3>3, <3>4, <3>5
  <2>3. \A a \in H : rank[a] = Cardinality(Below(H, R, a)) + 1
    OBVIOUS
  <2> HIDE DEF rank, N
  <2>4. rank \in Injection(H, 1 .. N)
    BY <2>1, <2>2 DEF Injection, IsInjective
  <2>5. IsFiniteSet(1 .. N) /\ Cardinality(1 .. N) = N
    BY <1>1, FS_Interval
  <2>6. rank \in Surjection(H, 1 .. N)
    BY <2>4, <2>5, FS_Injection DEF N
  <2>7. \A i \in 1 .. N : \E a \in H : rank[a] = i
    BY <2>6 DEF Surjection
  <2> SUFFICES ASSUME NEW i \in 1 .. N
               PROVE  \E a \in H : Cardinality(Below(H, R, a)) = i - 1
    OBVIOUS
  <2>8. PICK a \in H : rank[a] = i
    BY <2>7
  <2>9. Cardinality(Below(H, R, a)) \in Int
    BY <1>1, <1>2 DEF N
  <2> QED
    BY <2>3, <2>8, <2>9
<1> QED
  BY <1>1, <1>2, <1>3, <1>4

-----------------------------------------------------------------------------
(* The order in which the files are read *)

\* The files of a version that may have k, and which of two files is read first.
Hits(fs, k) == {a \in FileSet(fs) : a[2].smallest <= k /\ k <= a[2].largest}
Before(a, b) == a[1] < b[1] \/ (a[1] = b[1] /\ a[2].number > b[2].number)

LEMMA FiniteFiles ==
  ASSUME NEW fs \in [Levels -> Seq(FileMetaData)]
  PROVE  IsFiniteSet(FileSet(fs))
<1> DEFINE S == UNION {ToSet(fs[l]) : l \in Levels}
           P == {ToSet(fs[l]) : l \in Levels}
           m == [l \in Levels |-> ToSet(fs[l])]
<1>1. IsFiniteSet(Levels)
  BY LevelAssumption, FS_Interval DEF Levels
<1>2. \A x \in P : IsFiniteSet(x)
  BY FiniteLevel
<1>3. IsFiniteSet(P)
  <2>1. m \in Surjection(Levels, P)
    BY DEF Surjection
  <2> HIDE DEF m, P
  <2> QED
    BY <1>1, <2>1, FS_Surjection
<1>4. S = UNION P
  OBVIOUS
<1>5. IsFiniteSet(S)
  <2> HIDE DEF S, P
  <2> QED
    BY <1>2, <1>3, <1>4, FS_UNION
<1>6. FileSet(fs) \subseteq Levels \X S
  <2> SUFFICES ASSUME NEW a \in FileSet(fs)
               PROVE  a \in Levels \X S
    OBVIOUS
  <2>1. a \in Levels \X FileMetaData
    BY FileSetOf
  <2>2. a = <<a[1], a[2]>>
    BY <2>1
  <2>3. a[1] \in Levels /\ a[2] \in ToSet(fs[a[1]])
    BY <2>2, FileSetOf
  <2>4. a[2] \in S
    BY <2>3
  <2> QED
    BY <2>2, <2>3, <2>4
<1> HIDE DEF S
<1>7. IsFiniteSet(Levels \X S)
  BY <1>1, <1>5, FS_Product
<1> QED
  BY <1>6, <1>7, FS_Subset

\* What a file of a version is.
LEMMA FileOfVersion ==
  ASSUME NEW fs, WellFormed(fs), NEW a \in FileSet(fs)
  PROVE  /\ a = <<a[1], a[2]>> /\ a[1] \in Levels /\ a[1] \in Nat
         /\ a[2] \in ToSet(fs[a[1]]) /\ a[2] \in FileMetaData /\ a[2].number \in Nat
<1>1. fs \in [Levels -> Seq(FileMetaData)]
  BY DEF WellFormed
<1>2. a \in Levels \X FileMetaData
  BY <1>1, FileSetOf
<1>3. a = <<a[1], a[2]>> /\ a[1] \in Levels /\ a[2] \in FileMetaData
  BY <1>2
<1>4. a[2] \in ToSet(fs[a[1]])
  BY <1>1, <1>3, FileSetOf
<1> QED
  BY <1>3, <1>4, FileTypes, LevelFacts

\* Before is a strict total order on the files of a version.
LEMMA BeforeOrders ==
  ASSUME NEW fs, WellFormed(fs)
  PROVE  /\ \A a \in FileSet(fs) : ~Before(a, a)
         /\ \A a, b, c \in FileSet(fs) : Before(a, b) /\ Before(b, c) => Before(a, c)
         /\ \A a, b \in FileSet(fs) : a # b => Before(a, b) \/ Before(b, a)
<1>1. \A a \in FileSet(fs) : a[1] \in Nat /\ a[2].number \in Nat
  BY FileOfVersion
<1>2. ASSUME NEW a \in FileSet(fs), NEW b \in FileSet(fs), a # b
      PROVE  Before(a, b) \/ Before(b, a)
  <2>1. /\ a = <<a[1], a[2]>> /\ a[1] \in Levels /\ a[2] \in ToSet(fs[a[1]])
        /\ b = <<b[1], b[2]>> /\ b[1] \in Levels /\ b[2] \in ToSet(fs[b[1]])
    BY FileOfVersion
  <2>2. a[1] = b[1] => a[2] # b[2]
    BY <1>2, <2>1
  <2>3. a[1] = b[1] => a[2].number # b[2].number
    BY <2>1, <2>2 DEF WellFormed, Distinct
  <2> QED
    BY <1>1, <2>3 DEF Before
<1> QED
  BY <1>1, <1>2 DEF Before

\* ForEachOverlapping gives every file that may have k, in the order of Before.
LEMMA ReadingOrder ==
  ASSUME NEW fs, WellFormed(fs), NEW k
  PROVE  /\ ForEachOverlapping(fs, k) \in Seq(Hits(fs, k))
         /\ \A a \in Hits(fs, k) :
              \E i \in 1 .. Len(ForEachOverlapping(fs, k)) : ForEachOverlapping(fs, k)[i] = a
         /\ \A i, j \in 1 .. Len(ForEachOverlapping(fs, k)) :
              i < j => Before(ForEachOverlapping(fs, k)[i], ForEachOverlapping(fs, k)[j])
<1> DEFINE H == Hits(fs, k)
           N == Cardinality(H)
           R == {p \in H \X H : Before(p[1], p[2])}
           rank(a) == Cardinality({b \in H : Before(b, a)})
           order == [i \in 1 .. N |-> CHOOSE a \in H : rank(a) = i - 1]
<1>1. ForEachOverlapping(fs, k) = order
  BY DEF ForEachOverlapping, Hits, Before
<1>2. H \subseteq FileSet(fs) /\ IsFiniteSet(H)
  <2>1. H \subseteq FileSet(fs)
    BY DEF Hits
  <2>2. IsFiniteSet(FileSet(fs))
    BY FiniteFiles DEF WellFormed
  <2> QED
    BY <2>1, <2>2, FS_Subset
<1> HIDE DEF H
<1>3. \A a, b \in H : <<a, b>> \in R <=> Before(a, b)
  OBVIOUS
<1>4. \A a \in H : Below(H, R, a) = {b \in H : Before(b, a)}
  BY <1>3 DEF Below
<1> HIDE DEF R
<1>5. /\ N \in Nat
      /\ \A a \in H : Cardinality(Below(H, R, a)) \in 0 .. (N - 1)
      /\ \A a, b \in H : <<a, b>> \in R => Cardinality(Below(H, R, a)) < Cardinality(Below(H, R, b))
      /\ \A i \in 1 .. N : \E a \in H : Cardinality(Below(H, R, a)) = i - 1
  <2>1. \A a \in H : <<a, a>> \notin R
    BY <1>2, <1>3, BeforeOrders
  <2>2. \A a, b, c \in H : <<a, b>> \in R /\ <<b, c>> \in R => <<a, c>> \in R
    BY <1>2, <1>3, BeforeOrders
  <2>3. \A a, b \in H : a # b => <<a, b>> \in R \/ <<b, a>> \in R
    BY <1>2, <1>3, BeforeOrders
  <2> QED
    BY <1>2, <2>1, <2>2, <2>3, Ranked
<1>6. /\ \A a \in H : rank(a) \in 0 .. (N - 1)
      /\ \A a, b \in H : Before(a, b) => rank(a) < rank(b)
      /\ \A i \in 1 .. N : \E a \in H : rank(a) = i - 1
  BY <1>3, <1>4, <1>5
<1> HIDE DEF rank, N
<1>7. \A i \in 1 .. N : order[i] \in H /\ rank(order[i]) = i - 1
  BY <1>6
<1>8. \A a, b \in H : rank(a) = rank(b) => a = b
  <2> SUFFICES ASSUME NEW a \in H, NEW b \in H, rank(a) = rank(b), a # b
               PROVE  FALSE
    OBVIOUS
  <2>1. Before(a, b) \/ Before(b, a)
    BY <1>2, BeforeOrders
  <2>2. rank(a) \in Int /\ rank(b) \in Int
    BY <1>5, <1>6
  <2> QED
    BY <1>6, <2>1, <2>2
<1>9. order \in Seq(H) /\ Len(order) = N
  BY <1>5, <1>7
<1> HIDE DEF order
<1>10. ASSUME NEW a \in H
       PROVE  \E i \in 1 .. N : order[i] = a
  <2>1. rank(a) + 1 \in 1 .. N /\ (rank(a) + 1) - 1 = rank(a)
    BY <1>5, <1>6
  <2>2. order[rank(a) + 1] = a
    BY <1>7, <1>8, <2>1
  <2> QED
    BY <2>1, <2>2
<1>11. ASSUME NEW i \in 1 .. N, NEW j \in 1 .. N, i < j
       PROVE  Before(order[i], order[j])
  <2>1. /\ order[i] \in H /\ rank(order[i]) = i - 1
        /\ order[j] \in H /\ rank(order[j]) = j - 1
    BY <1>7
  <2>2. order[i] # order[j]
    BY <1>5, <1>11, <2>1
  <2>3. ~Before(order[j], order[i])
    BY <1>5, <1>6, <1>11, <2>1
  <2> QED
    BY <1>2, <2>1, <2>2, <2>3, BeforeOrders
<1> QED
  BY <1>1, <1>9, <1>10, <1>11 DEF H

-----------------------------------------------------------------------------
(* What Get has found after some of the files *)

\* The entries of a table, and what a snapshot sees of a key in it.
Entries == UserKeys \X (Numbers \cup {0})

LEMMA SeenNumbers ==
  ASSUME NEW data \in SUBSET Entries, NEW k, NEW snapshot \in Nat
  PROVE  /\ \A n : n \in Seen(data, k, snapshot) <=> <<k, n>> \in data /\ n <= snapshot
         /\ Seen(data, k, snapshot) \subseteq Nat
         /\ Seen(data, k, snapshot) # {} =>
              /\ Max(Seen(data, k, snapshot)) \in Seen(data, k, snapshot)
              /\ \A n \in Seen(data, k, snapshot) : n <= Max(Seen(data, k, snapshot))
<1> DEFINE T == Seen(data, k, snapshot)
<1>1. \A d \in data : d = <<d[1], d[2]>> /\ d[2] \in Nat
  BY DEF Entries, Numbers
<1>2. \A n : n \in T <=> <<k, n>> \in data /\ n <= snapshot
  <2>1. \A n : n \in T <=> \E d \in data : d[1] = k /\ d[2] <= snapshot /\ n = d[2]
    BY DEF Seen
  <2>2. \A n : n \in T => <<k, n>> \in data /\ n <= snapshot
    BY <1>1, <2>1
  <2>3. \A n : <<k, n>> \in data /\ n <= snapshot => n \in T
    BY <2>1
  <2> QED
    BY <2>2, <2>3
<1>3. T \subseteq Nat
  <2>1. \A n : <<k, n>> \in data => n \in Nat
    BY DEF Entries, Numbers
  <2> HIDE DEF T
  <2> QED
    BY <1>2, <2>1
<1> HIDE DEF T
<1>4. IsFiniteSet(T)
  BY <1>2, <1>3, FS_BoundedSetOfNaturals
<1>5. T # {} => Max(T) \in T /\ \A n \in T : n <= Max(T)
  BY <1>3, <1>4, GreatestElement
<1> QED
  BY <1>2, <1>3, <1>5 DEF T

\* The table of a can be read and has nothing for k.
Misses(a, k, snapshot, bad) == a[2].number \notin bad /\ Seen(a[2].data, k, snapshot) = {}

\* What the first file that does not miss says.
Answers(state, a, k, snapshot, dead, bad) ==
  LET newest == Max(Seen(a[2].data, k, snapshot)) IN
  /\ a[2].number \in bad => state.found /\ state.s = "Corruption"
  /\ a[2].number \notin bad /\ newest \in dead => ~state.found /\ state.value = 0
  /\ a[2].number \notin bad /\ newest \notin dead =>
       state.found /\ state.s = "OK" /\ state.value = newest

MatchStates(H) ==
  [seek_file : H \cup {none}, last_file_read : H \cup {none}, s : {"OK", "Corruption"},
   found : BOOLEAN, value : Nat, more : BOOLEAN]

\* Match goes on exactly if the file misses.
LEMMA MatchEffect ==
  ASSUME NEW H, NEW a \in H, a[2].data \in SUBSET Entries, NEW k, NEW snapshot \in Nat,
         NEW dead, NEW bad, NEW state \in MatchStates(H)
  PROVE  LET m == Match(state, a, k, snapshot, dead, bad) IN
         /\ m \in MatchStates(H)
         /\ m.seek_file = ChargedFile(state, a) /\ m.last_file_read = a
         /\ m.more <=> Misses(a, k, snapshot, bad)
         /\ m.more => ~m.found /\ m.value = 0
         /\ ~m.more => Answers(m, a, k, snapshot, dead, bad)
<1> DEFINE T == Seen(a[2].data, k, snapshot)
           newest == Max(T)
           got == SaveValue(a[2], k, snapshot, dead)
           b == a[2].number \in bad
           st == IF b THEN "Corruption" ELSE "OK"
           fd == st # "OK" \/ got = "kFound"
           vl == IF st = "OK" /\ fd THEN newest ELSE 0
           mr == st = "OK" /\ got = "kNotFound"
           sk == ChargedFile(state, a)
           m == Match(state, a, k, snapshot, dead, bad)
<1>1. T # {} => newest \in Nat
  BY SeenNumbers
<1>2. got = IF T = {} THEN "kNotFound" ELSE IF newest \in dead THEN "kDeleted" ELSE "kFound"
  BY DEF SaveValue
<1>3. m = [seek_file |-> sk, last_file_read |-> a, s |-> st, found |-> fd, value |-> vl, more |-> mr]
  BY DEF Match
<1>4. Misses(a, k, snapshot, bad) <=> ~b /\ T = {}
  BY DEF Misses
<1>5. sk \in H \cup {none}
  BY DEF ChargedFile, MatchStates
<1> HIDE DEF T, newest, got, b, sk, m
<1>6. /\ st \in {"OK", "Corruption"} /\ fd \in BOOLEAN /\ mr \in BOOLEAN
      /\ mr <=> ~b /\ T = {}
      /\ mr => ~fd /\ vl = 0
      /\ b => fd /\ st = "Corruption" /\ vl = 0
      /\ ~b /\ ~mr /\ newest \in dead => ~fd /\ vl = 0
      /\ ~b /\ ~mr /\ newest \notin dead => fd /\ st = "OK" /\ vl = newest
  BY <1>2
<1>7. vl \in Nat
  BY <1>1, <1>2
<1> HIDE DEF st, fd, vl, mr
<1>8. /\ m.seek_file = sk /\ m.last_file_read = a /\ m.s = st /\ m.found = fd
      /\ m.value = vl /\ m.more = mr
  BY <1>3
<1>9. m \in MatchStates(H)
  BY <1>3, <1>5, <1>6, <1>7 DEF MatchStates
<1>10. ~mr => Answers(m, a, k, snapshot, dead, bad)
  BY <1>6, <1>8 DEF Answers, b, newest, T
<1> QED
  BY <1>4, <1>6, <1>8, <1>9, <1>10 DEF m, sk

Start == [seek_file |-> none, last_file_read |-> none, s |-> "OK",
          found |-> FALSE, value |-> 0, more |-> TRUE]

\* One more file.
NextState(state, a, k, snapshot, dead, bad) ==
  IF state.more THEN Match(state, a, k, snapshot, dead, bad) ELSE state

Result(state) ==
  [s |-> IF state.found THEN state.s ELSE "NotFound", value |-> state.value,
   seek_file |-> state.seek_file]

\* The states of a Get, file by file.
Trace(g, fs, k, snapshot, dead, bad) ==
  LET order == ForEachOverlapping(fs, k) IN
  /\ g[0] = Start
  /\ \A i \in 0 .. Len(order) : g[i] \in MatchStates(Hits(fs, k))
  /\ \A i \in 1 .. Len(order) : g[i] = NextState(g[i - 1], order[i], k, snapshot, dead, bad)
  /\ Get(fs, k, snapshot, dead, bad) = Result(g[Len(order)])

LEMMA GetStates ==
  ASSUME NEW fs, WellFormed(fs), NEW k, NEW snapshot \in Nat, NEW dead, NEW bad
  PROVE  \E g : Trace(g, fs, k, snapshot, dead, bad)
<1> DEFINE order == ForEachOverlapping(fs, k)
           H == Hits(fs, k)
           n == Len(order)
           S == MatchStates(H)
           State == CHOOSE g : g = [i \in 0 .. n |->
                      IF i = 0 THEN Start
                      ELSE NextState(g[i - 1], order[i], k, snapshot, dead, bad)]
           step == [z \in (1 .. n) \X S |-> NextState(z[2], order[z[1]], k, snapshot, dead, bad)]
<1>1. order \in Seq(H)
  BY ReadingOrder
<1>2. \A a \in H : a[2].data \in SUBSET Entries
  BY FileOfVersion DEF Hits, FileMetaData, Entries
<1>3. Get(fs, k, snapshot, dead, bad) = Result(State[n])
  BY DEF Get, Result, Start, NextState
<1> HIDE DEF order, H
<1>4. n \in Nat /\ \A i \in 1 .. n : order[i] \in H
  BY <1>1
<1>5. Start \in S
  BY DEF Start, MatchStates
<1>6. ASSUME NEW i \in 1 .. n, NEW x \in S
      PROVE  NextState(x, order[i], k, snapshot, dead, bad) \in S
  <2>1. Match(x, order[i], k, snapshot, dead, bad) \in S
    BY <1>2, <1>4, MatchEffect
  <2> QED
    BY <2>1 DEF NextState
<1> HIDE DEF S, n
<1>7. step \in [(1 .. n) \X S -> S]
  BY <1>6
<1>8. \A i \in 1 .. n, x \in S : step[<<i, x>>] = NextState(x, order[i], k, snapshot, dead, bad)
  OBVIOUS
<1> HIDE DEF step
<1>9. PICK g \in [0 .. n -> S] : Iterates(g, n, Start, step)
  BY <1>4, <1>5, <1>7, Recursion
<1>10. g[0] = Start /\ \A i \in 1 .. n : g[i] = step[<<i, g[i - 1]>>]
  BY <1>9 DEF Iterates
<1>11. \A i \in 1 .. n : g[i] = NextState(g[i - 1], order[i], k, snapshot, dead, bad)
  <2>1. \A i \in 1 .. n : g[i - 1] \in S
    BY <1>4
  <2> QED
    BY <1>8, <1>10, <2>1
<1>12. g = [i \in 0 .. n |-> IF i = 0 THEN Start
                             ELSE NextState(g[i - 1], order[i], k, snapshot, dead, bad)]
  <2>1. \A i \in 0 .. n : g[i] = IF i = 0 THEN Start
                                 ELSE NextState(g[i - 1], order[i], k, snapshot, dead, bad)
    <3>1. \A i \in 0 .. n : i = 0 \/ i \in 1 .. n
      BY <1>4
    <3>2. \A i \in 1 .. n : i # 0
      BY <1>4
    <3> QED
      BY <1>10, <1>11, <3>1, <3>2
  <2> QED
    BY <2>1
<1>13. State = [i \in 0 .. n |-> IF i = 0 THEN Start
                                 ELSE NextState(State[i - 1], order[i], k, snapshot, dead, bad)]
  BY <1>12, Zenon
<1> HIDE DEF State
<1>14. /\ State[0] = Start
       /\ \A i \in 1 .. n : State[i] = NextState(State[i - 1], order[i], k, snapshot, dead, bad)
  <2>1. \A i \in 0 .. n : State[i] = IF i = 0 THEN Start
                                     ELSE NextState(State[i - 1], order[i], k, snapshot, dead, bad)
    BY <1>13, Zenon
  <2>2. 0 \in 0 .. n /\ \A i \in 1 .. n : i \in 0 .. n /\ i # 0
    BY <1>4
  <2> QED
    BY <2>1, <2>2, Zenon
<1> DEFINE U == {i \in 0 .. n : State[i] \in S}
<1>15. 0 \in U
  BY <1>4, <1>5, <1>14
<1>16. ASSUME NEW i \in 1 .. n, i - 1 \in U
       PROVE  i \in U
  BY <1>4, <1>6, <1>14, <1>16
<1>17. \A i \in 0 .. n : State[i] \in S
  <2>1. 0 .. n \subseteq U
    <3> HIDE DEF U
    <3> QED
      BY <1>4, <1>15, <1>16, UpTo
  <2> QED
    BY <2>1
<1> QED
  BY <1>3, <1>14, <1>17 DEF n, order, H, S, Trace

\* What the state after i files says: if Get goes on, all of them miss; if not,
\* it has the answer of the first that does not.  The file to be charged is the
\* first, if it misses and another was read.
Told(state, order, i, k, snapshot, dead, bad) ==
  /\ state.more => ~state.found /\ state.value = 0 /\ \A j \in 1 .. i : Misses(order[j], k, snapshot, bad)
  /\ ~state.more =>
       \E j \in 1 .. i :
         /\ \A h \in 1 .. (j - 1) : Misses(order[h], k, snapshot, bad)
         /\ ~Misses(order[j], k, snapshot, bad)
         /\ Answers(state, order[j], k, snapshot, dead, bad)
  /\ i = 0 => state.last_file_read = none
  /\ i = 1 => state.last_file_read = order[1]
  /\ i < 2 => state.seek_file = none
  /\ i >= 2 => state.seek_file = IF Misses(order[1], k, snapshot, bad) THEN order[1] ELSE none

\* One more file.
LEMMA ToldNext ==
  ASSUME NEW H, none \notin H, \A a \in H : a[2].data \in SUBSET Entries,
         NEW order \in Seq(H), NEW i \in 1 .. Len(order),
         NEW k, NEW snapshot \in Nat, NEW dead, NEW bad, NEW state \in MatchStates(H),
         Told(state, order, i - 1, k, snapshot, dead, bad)
  PROVE  Told(NextState(state, order[i], k, snapshot, dead, bad), order, i, k, snapshot, dead, bad)
<1> DEFINE m == NextState(state, order[i], k, snapshot, dead, bad)
           miss(j) == Misses(order[j], k, snapshot, bad)
<1>1. order[i] \in H /\ order[1] \in H /\ order[1] # none /\ 1 \in 1 .. Len(order) /\ i \in Nat
  BY Zenon, SMT
<1>2. CASE ~state.more
  <2>1. m = state
    BY <1>2 DEF NextState
  <2>2. PICK j \in 1 .. (i - 1) :
          /\ \A h \in 1 .. (j - 1) : miss(h)
          /\ ~miss(j) /\ Answers(state, order[j], k, snapshot, dead, bad)
    BY <1>2 DEF Told
  <2> HIDE DEF m, miss
  <2>3. i >= 2 /\ j \in 1 .. i
    BY <1>1
  <2>4. state.seek_file = IF miss(1) THEN order[1] ELSE none
    <3>1. CASE i - 1 >= 2
      BY <3>1 DEF Told, miss
    <3>2. CASE ~(i - 1 >= 2)
      <4>1. i - 1 < 2 /\ j = 1
        BY <2>3, <3>2
      <4>2. state.seek_file = none
        BY <4>1 DEF Told
      <4> QED
        BY <2>2, <4>1, <4>2
    <3> QED
      BY <3>1, <3>2
  <2>5. Told(state, order, i, k, snapshot, dead, bad)
    BY <1>2, <2>2, <2>3, <2>4 DEF Told, miss
  <2> QED
    BY <2>1, <2>5 DEF m
<1>3. CASE state.more
  <2>1. /\ m = Match(state, order[i], k, snapshot, dead, bad)
        /\ m.seek_file = ChargedFile(state, order[i]) /\ m.last_file_read = order[i]
        /\ m.more <=> miss(i)
        /\ m.more => ~m.found /\ m.value = 0
        /\ ~m.more => Answers(m, order[i], k, snapshot, dead, bad)
    BY <1>1, <1>3, MatchEffect DEF NextState
  <2>2. \A j \in 1 .. (i - 1) : miss(j)
    BY <1>3 DEF Told
  <2> HIDE DEF m, miss
  <2>3. m.more => \A j \in 1 .. i : miss(j)
    <3>1. \A j \in 1 .. i : j = i \/ j \in 1 .. (i - 1)
      BY <1>1
    <3> QED
      BY <2>1, <2>2, <3>1
  <2>4. i < 2 => m.seek_file = none
    <3> SUFFICES ASSUME i < 2
                 PROVE  m.seek_file = none
      OBVIOUS
    <3>1. i - 1 = 0
      BY <1>1
    <3>2. state.seek_file = none /\ state.last_file_read = none
      BY <3>1 DEF Told
    <3> QED
      BY <2>1, <3>2 DEF ChargedFile
  <2>5. i >= 2 => m.seek_file = IF miss(1) THEN order[1] ELSE none
    <3> SUFFICES ASSUME i >= 2
                 PROVE  m.seek_file = order[1] /\ miss(1)
      OBVIOUS
    <3>1. miss(1)
      BY <1>1, <2>2
    <3>2. CASE i - 1 >= 2
      <4>1. state.seek_file = order[1]
        BY <3>1, <3>2 DEF Told, miss
      <4> QED
        BY <1>1, <2>1, <3>1, <4>1 DEF ChargedFile
    <3>3. CASE ~(i - 1 >= 2)
      <4>1. i - 1 = 1
        BY <1>1, <3>3
      <4>2. state.seek_file = none /\ state.last_file_read = order[1]
        BY <4>1 DEF Told
      <4> QED
        BY <2>1, <3>1, <4>2 DEF ChargedFile
    <3> QED
      BY <3>2, <3>3
  <2>6. i \in 1 .. i /\ (i = 1 => m.last_file_read = order[1]) /\ i # 0
    BY <1>1, <2>1
  <2>7. Told(m, order, i, k, snapshot, dead, bad)
    BY <2>1, <2>2, <2>3, <2>4, <2>5, <2>6 DEF Told, miss
  <2> QED
    BY <2>7 DEF m
<1> QED
  BY <1>2, <1>3

\* What Get returns, from what its last state says.
LEMMA GetTells ==
  ASSUME NEW fs, WellFormed(fs), NEW k, NEW snapshot \in Nat, NEW dead, NEW bad
  PROVE  LET order == ForEachOverlapping(fs, k) IN
         \E state : /\ Get(fs, k, snapshot, dead, bad) = Result(state)
                    /\ Told(state, order, Len(order), k, snapshot, dead, bad)
<1> DEFINE order == ForEachOverlapping(fs, k)
           H == Hits(fs, k)
           n == Len(order)
<1>1. order \in Seq(H)
  BY ReadingOrder
<1>2. \A a \in H : a[2].data \in SUBSET Entries /\ a # none
  <2>1. \A a \in H : a = <<a[1], a[2]>> /\ a[2] \in FileMetaData
    BY FileOfVersion DEF Hits
  <2> HIDE DEF H
  <2>2. \A a \in H : a # none
    BY <2>1 DEF none
  <2> QED
    BY <2>1, <2>2 DEF FileMetaData, Entries
<1>3. PICK g : Trace(g, fs, k, snapshot, dead, bad)
  BY GetStates
<1>4. /\ g[0] = Start
      /\ \A i \in 0 .. n : g[i] \in MatchStates(H)
      /\ \A i \in 1 .. n : g[i] = NextState(g[i - 1], order[i], k, snapshot, dead, bad)
      /\ Get(fs, k, snapshot, dead, bad) = Result(g[n])
  BY <1>3, Zenon DEF Trace
<1> HIDE DEF order, H
<1>5. n \in Nat
  BY <1>1
<1> DEFINE U == {i \in 0 .. n : Told(g[i], order, i, k, snapshot, dead, bad)}
<1>6. 0 \in U
  BY <1>4, <1>5 DEF Told, Start
<1>7. ASSUME NEW i \in 1 .. n, i - 1 \in U
      PROVE  i \in U
  <2>1. i - 1 \in 0 .. n /\ i \in 0 .. n /\ i \in 1 .. Len(order)
    BY <1>5
  <2>2. g[i - 1] \in MatchStates(H) /\ Told(g[i - 1], order, i - 1, k, snapshot, dead, bad)
    BY <1>4, <1>7, <2>1
  <2>3. Told(NextState(g[i - 1], order[i], k, snapshot, dead, bad), order, i, k, snapshot, dead, bad)
    BY <1>1, <1>2, <2>1, <2>2, ToldNext
  <2>4. g[i] = NextState(g[i - 1], order[i], k, snapshot, dead, bad)
    BY <1>4
  <2> QED
    BY <2>1, <2>3, <2>4
<1>8. n \in U
  <2> HIDE DEF U, n
  <2>1. 0 .. n \subseteq U
    BY <1>5, <1>6, <1>7, UpTo
  <2> QED
    BY <1>5, <2>1
<1> QED
  BY <1>4, <1>8 DEF order

-----------------------------------------------------------------------------
(* Layers *)

\* What f has of a key is newer than what g has of it.
Newer(f, g) == \A d \in f.data, e \in g.data : d[1] = e[1] => e[2] < d[2]

\* The keys of a file lie between its smallest and its largest.
Inside(f) == \A d \in f.data : f.smallest <= d[1] /\ d[1] <= f.largest

\* A level has newer entries than those below it, and on level 0 the files with
\* higher numbers have.
Layered(fs) ==
  /\ \A l \in Levels : \A f \in ToSet(fs[l]) : Inside(f)
  /\ \A l, m \in Levels : \A f \in ToSet(fs[l]), g \in ToSet(fs[m]) :
       l < m \/ (l = m /\ g.number < f.number) => Newer(f, g)

\* The answer that a Get of k should give.
RightAnswer(r, fs, k, snapshot, dead, bad) ==
  LET E == Seen(AllEntries(fs), k, snapshot) IN
  \/ r.s = "Corruption" /\ bad # {}
  \/ E # {} /\ Max(E) \notin dead /\ r.s = "OK" /\ r.value = Max(E)
  \/ (E = {} \/ Max(E) \in dead) /\ r.s = "NotFound"

\* In a version with such layers a Get finds the newest write.
LEMMA LayeredGet ==
  ASSUME NEW fs, WellFormed(fs), Layered(fs),
         NEW k \in UserKeys, NEW snapshot \in Nat, NEW dead, NEW bad
  PROVE  RightAnswer(Get(fs, k, snapshot, dead, bad), fs, k, snapshot, dead, bad)
<1> DEFINE E == Seen(AllEntries(fs), k, snapshot)
           order == ForEachOverlapping(fs, k)
           n == Len(order)
           H == Hits(fs, k)
           Of(a) == Seen(a[2].data, k, snapshot)
           r == Get(fs, k, snapshot, dead, bad)
<1>1. \A a \in FileSet(fs) : a[2].data \in SUBSET Entries
  BY FileOfVersion DEF FileMetaData, Entries
<1>2. AllEntries(fs) \in SUBSET Entries
  BY <1>1 DEF AllEntries
<1>3. /\ E \subseteq Nat
      /\ \A x : x \in E <=> <<k, x>> \in AllEntries(fs) /\ x <= snapshot
      /\ E # {} => Max(E) \in E /\ \A x \in E : x <= Max(E)
  BY <1>2, SeenNumbers
<1>4. ASSUME NEW a \in FileSet(fs)
      PROVE  /\ \A x : x \in Of(a) <=> <<k, x>> \in a[2].data /\ x <= snapshot
             /\ Of(a) \subseteq Nat
             /\ Of(a) # {} => Max(Of(a)) \in Of(a) /\ \A x \in Of(a) : x <= Max(Of(a))
  BY <1>1, SeenNumbers
<1>5. order \in Seq(H) /\ (\A a \in H : \E i \in 1 .. n : order[i] = a)
      /\ \A i, j \in 1 .. n : i < j => Before(order[i], order[j])
  BY ReadingOrder
<1>6. PICK state : r = Result(state) /\ Told(state, order, n, k, snapshot, dead, bad)
  BY GetTells
<1> HIDE DEF order, r
<1>7. n \in Nat /\ \A i \in 1 .. n : order[i] \in H /\ order[i] \in FileSet(fs)
  BY <1>5 DEF Hits
<1>8. \A x \in E : \E a \in FileSet(fs) : x \in Of(a)
  <2> SUFFICES ASSUME NEW x \in E
               PROVE  \E a \in FileSet(fs) : x \in Of(a)
    OBVIOUS
  <2>1. <<k, x>> \in AllEntries(fs) /\ x <= snapshot
    BY <1>3
  <2>2. PICK a \in FileSet(fs) : <<k, x>> \in a[2].data
    BY <2>1 DEF AllEntries
  <2> QED
    BY <1>4, <2>1, <2>2
<1>9. \A a \in FileSet(fs) : Of(a) \subseteq E
  <2>1. \A a \in FileSet(fs) : a[2].data \subseteq AllEntries(fs)
    BY DEF AllEntries
  <2> QED
    BY <1>3, <1>4, <2>1
<1>10. \A a \in FileSet(fs) : Of(a) # {} => \E i \in 1 .. n : order[i] = a
  <2> SUFFICES ASSUME NEW a \in FileSet(fs), NEW x \in Of(a)
               PROVE  a \in H
    BY <1>5
  <2>1. <<k, x>> \in a[2].data
    BY <1>4
  <2>2. Inside(a[2])
    BY FileOfVersion DEF Layered
  <2>3. <<k, x>>[1] = k
    OBVIOUS
  <2> QED
    BY <2>1, <2>2, <2>3 DEF Inside, Hits
<1> HIDE DEF n, H, E
<1>11. CASE state.more
  <2>1. ~state.found /\ \A j \in 1 .. n : Of(order[j]) = {}
    BY <1>6, <1>11 DEF Told, Misses
  <2>2. E = {}
    <3> SUFFICES ASSUME NEW x \in E
                 PROVE  FALSE
      OBVIOUS
    <3>1. PICK a \in FileSet(fs) : x \in Of(a)
      BY <1>8
    <3>2. PICK i \in 1 .. n : order[i] = a
      BY <1>10, <3>1
    <3> QED
      BY <2>1, <3>1, <3>2
  <2>3. r.s = "NotFound"
    BY <1>6, <2>1 DEF Result
  <2> QED
    BY <2>2, <2>3 DEF RightAnswer, E, r
<1>12. CASE ~state.more
  <2>1. PICK j \in 1 .. n :
          /\ \A h \in 1 .. (j - 1) : Misses(order[h], k, snapshot, bad)
          /\ ~Misses(order[j], k, snapshot, bad)
          /\ Answers(state, order[j], k, snapshot, dead, bad)
    BY <1>6, <1>12 DEF Told
  <2> DEFINE a == order[j]
             newest == Max(Of(a))
  <2>2. a \in FileSet(fs)
    BY <1>7
  <2>3. CASE a[2].number \in bad
    <3>1. r.s = "Corruption" /\ bad # {}
      BY <1>6, <2>1, <2>3 DEF Answers, Result
    <3> QED
      BY <3>1 DEF RightAnswer, r
  <2>4. CASE a[2].number \notin bad
    <3>1. Of(a) # {}
      BY <2>1, <2>4 DEF Misses
    <3>2. newest \in Of(a) /\ \A x \in Of(a) : x <= newest
      BY <1>4, <2>2, <3>1
    <3>3. newest \in E /\ newest \in Nat
      BY <1>4, <1>9, <2>2, <3>2
    <3>4. ASSUME NEW x \in E
          PROVE  x <= newest
      <4>1. PICK b \in FileSet(fs) : x \in Of(b)
        BY <1>8
      <4>2. PICK i \in 1 .. n : order[i] = b
        BY <1>10, <4>1
      <4>3. CASE i < j
        <5>1. i \in 1 .. (j - 1)
          BY <1>7, <4>3
        <5> QED
          BY <2>1, <4>1, <4>2, <5>1 DEF Misses
      <4>4. CASE i = j
        BY <3>2, <4>1, <4>2, <4>4
      <4>5. CASE j < i
        <5>1. Before(a, b)
          BY <1>5, <4>2, <4>5 DEF n
        <5>2. Newer(a[2], b[2])
          <6>1. /\ a[1] \in Levels /\ a[2] \in ToSet(fs[a[1]]) /\ a[2].number \in Nat
                /\ b[1] \in Levels /\ b[2] \in ToSet(fs[b[1]]) /\ b[2].number \in Nat
            BY <2>2, FileOfVersion
          <6> HIDE DEF a
          <6>2. a[1] < b[1] \/ (a[1] = b[1] /\ b[2].number < a[2].number)
            BY <5>1, <6>1 DEF Before
          <6> QED
            BY <6>1, <6>2 DEF Layered
        <5>3. <<k, newest>> \in a[2].data /\ <<k, x>> \in b[2].data
          BY <1>4, <2>2, <3>2, <4>1
        <5>4. x < newest
          <6>1. <<k, newest>>[1] = <<k, x>>[1] /\ <<k, newest>>[2] = newest /\ <<k, x>>[2] = x
            OBVIOUS
          <6> HIDE DEF a, newest
          <6> QED
            BY <5>2, <5>3, <6>1 DEF Newer
        <5>5. x \in Nat
          BY <1>3
        <5> QED
          BY <3>3, <5>4, <5>5
      <4> QED
        BY <1>7, <4>3, <4>4, <4>5
    <3> HIDE DEF newest, a
    <3>5. E # {} /\ Max(E) = newest
      <4>1. Max(E) \in E /\ newest <= Max(E) /\ Max(E) <= newest
        BY <1>3, <3>3, <3>4
      <4>2. Max(E) \in Nat
        BY <1>3, <4>1
      <4> QED
        BY <3>3, <4>1, <4>2
    <3>6. CASE newest \in dead
      <4>1. ~state.found
        BY <2>1, <2>4, <3>6 DEF Answers, newest, a
      <4>2. r.s = "NotFound"
        BY <1>6, <4>1 DEF Result
      <4> QED
        BY <3>5, <3>6, <4>2 DEF RightAnswer, E, r
    <3>7. CASE newest \notin dead
      <4>1. state.found /\ state.s = "OK" /\ state.value = newest
        BY <2>1, <2>4, <3>7 DEF Answers, newest, a
      <4>2. r.s = "OK" /\ r.value = newest
        BY <1>6, <4>1 DEF Result
      <4> QED
        BY <3>5, <3>7, <4>2 DEF RightAnswer, E, r
    <3> QED
      BY <3>6, <3>7
  <2> QED
    BY <2>3, <2>4
<1> QED
  BY <1>11, <1>12

\* A Get without errors charges the file that it should.
LEMMA ChargedRight ==
  ASSUME NEW fs, WellFormed(fs), NEW k, NEW snapshot \in Nat
  PROVE  LET order == ForEachOverlapping(fs, k) IN
         Get(fs, k, snapshot, {}, {}).seek_file =
           IF Len(order) > 1 /\ Seen(order[1][2].data, k, snapshot) = {} THEN order[1] ELSE none
<1> DEFINE order == ForEachOverlapping(fs, k)
           n == Len(order)
           r == Get(fs, k, snapshot, {}, {})
<1>1. PICK state : r = Result(state) /\ Told(state, order, n, k, snapshot, {}, {})
  BY GetTells
<1>2. n \in Nat
  BY ReadingOrder
<1> HIDE DEF order, n, r
<1>3. r.seek_file = state.seek_file
  BY <1>1 DEF Result
<1>4. Misses(order[1], k, snapshot, {}) <=> Seen(order[1][2].data, k, snapshot) = {}
  BY DEF Misses
<1>5. n < 2 => state.seek_file = none
  BY <1>1 DEF Told
<1>6. n >= 2 => state.seek_file = IF Misses(order[1], k, snapshot, {}) THEN order[1] ELSE none
  BY <1>1 DEF Told
<1>7. r.seek_file = IF n > 1 /\ Seen(order[1][2].data, k, snapshot) = {} THEN order[1] ELSE none
  BY <1>2, <1>3, <1>4, <1>5, <1>6
<1> QED
  BY <1>7 DEF order, n, r

-----------------------------------------------------------------------------
(* Edits keep the layers *)

\* Files that do not overlap have no key in common.
LEMMA NothingShared ==
  ASSUME NEW f \in FileMetaData, NEW g \in FileMetaData, Inside(f), Inside(g), ~Overlaps(f, g)
  PROVE  Newer(f, g) /\ Newer(g, f)
<1>1. \A d \in f.data, e \in g.data : d[1] # e[1]
  <2> SUFFICES ASSUME NEW d \in f.data, NEW e \in g.data, d[1] = e[1]
               PROVE  FALSE
    OBVIOUS
  <2>1. /\ f.smallest <= d[1] /\ d[1] <= f.largest
        /\ g.smallest <= d[1] /\ d[1] <= g.largest
    BY DEF Inside
  <2>2. d[1] \in Nat
    <3>1. d \in UserKeys \X (Numbers \cup {0})
      BY DEF FileMetaData
    <3> QED
      BY <3>1, KeyAssumption
  <2> QED
    BY <2>1, <2>2, FileTypes DEF Overlaps
<1> QED
  BY <1>1 DEF Newer

\* The file that an edit adds to level t has newer entries than what stays below
\* it, and older ones than what stays above it.
Fits(base, e, t, f) ==
  /\ Inside(f)
  /\ \A l \in Levels : \A g \in ToSet(base[l]) : <<l, g.number>> \notin e.deleted_files =>
       /\ l < t => Newer(g, f)
       /\ t < l => Newer(f, g)
       /\ t = 0 /\ l = 0 => g.number < f.number /\ Newer(f, g)

LEMMA LayeredApply ==
  ASSUME NEW base, WellFormed(base), Layered(base), NEW e, NEW t, NEW f,
         Applies(base, e, t, f), Fits(base, e, t, f)
  PROVE  Layered(ApplyEdit(base, e))
<1> DEFINE fs == ApplyEdit(base, e)
           old(l, g) == g \in ToSet(base[l]) /\ <<l, g.number>> \notin e.deleted_files
<1>1. /\ WellFormed(fs)
      /\ \A l \in Levels : \A g : g \in ToSet(fs[l]) => old(l, g) \/ (l = t /\ g = f)
  BY NewVersion
<1>2. t \in Levels /\ f \in FileMetaData /\ f.number \in Nat /\ t \in Nat
  BY FileTypes, LevelFacts DEF Applies
<1> HIDE DEF fs
<1>3. \A l \in Levels : \A g \in ToSet(fs[l]) : Inside(g)
  BY <1>1 DEF Layered, Fits
<1>4. ASSUME NEW l \in Levels, NEW m \in Levels, NEW g \in ToSet(fs[l]), NEW h \in ToSet(fs[m]),
             l < m \/ (l = m /\ h.number < g.number)
      PROVE  Newer(g, h)
  <2>1. l \in Nat /\ m \in Nat
    BY LevelFacts
  <2>2. CASE l = m /\ l > 0
    <3>1. g \in FileMetaData /\ h \in FileMetaData /\ Inside(g) /\ Inside(h)
      BY <1>1, <1>3, ObjectsOf DEF WellFormed
    <3>2. g # h
      <4>1. g.number \in Nat
        BY <3>1, FileTypes
      <4> QED
        BY <1>4, <2>1, <2>2, <4>1
    <3>3. ~Overlaps(g, h)
      BY <1>1, <2>2, <3>2 DEF WellFormed, Apart
    <3> QED
      BY <3>1, <3>3, NothingShared
  <2>3. CASE old(l, g) /\ old(m, h)
    BY <1>4, <2>3 DEF Layered
  <2>4. CASE ~(l = m /\ l > 0) /\ l = t /\ g = f /\ old(m, h)
    <3>1. l < m \/ (l = 0 /\ m = 0)
      BY <1>4, <2>1, <2>4
    <3> QED
      BY <2>4, <3>1 DEF Fits
  <2>5. CASE ~(l = m /\ l > 0) /\ m = t /\ h = f /\ old(l, g)
    <3>1. CASE l < m
      BY <2>5, <3>1 DEF Fits
    <3>2. CASE ~(l < m)
      <4>1. l = 0 /\ m = 0 /\ f.number < g.number
        BY <1>4, <2>1, <2>5, <3>2
      <4>2. g.number < f.number
        BY <2>5, <4>1 DEF Fits
      <4>3. g.number \in Nat
        BY <1>1, ObjectsOf, FileTypes DEF WellFormed
      <4> QED
        BY <1>2, <4>1, <4>2, <4>3
    <3> QED
      BY <3>1, <3>2
  <2>6. CASE l = t /\ g = f /\ m = t /\ h = f
    BY <1>2, <1>4, <2>1, <2>6
  <2> QED
    BY <1>1, <2>2, <2>3, <2>4, <2>5, <2>6
<1> QED
  BY <1>3, <1>4 DEF fs, Layered

\* All entries of a version, or of a file, are from logs before n.
FromBefore(f, n) == \A d \in f.data : d[2] < n
Past(fs, n) == \A l \in Levels : \A f \in ToSet(fs[l]) : FromBefore(f, n)

LEMMA PastApply ==
  ASSUME NEW base, WellFormed(base), NEW e, NEW t, NEW f, Applies(base, e, t, f),
         NEW n, Past(base, n), FromBefore(f, n)
  PROVE  Past(ApplyEdit(base, e), n)
<1>1. ASSUME NEW l \in Levels, NEW g \in ToSet(ApplyEdit(base, e)[l])
      PROVE  g \in ToSet(base[l]) \/ g = f
  BY AppliedFile
<1> QED
  BY <1>1 DEF Past

-----------------------------------------------------------------------------
(* The edits of the callers fit *)

\* The oldest log whose writes are not in tables yet.
Unflushed == IF imm_ = nullptr THEN logfile_number_ ELSE imm_

\* What stays on the level of a compaction's upper inputs is newer than they are,
\* although their entries go below it.
UpperOldest(fs, c) == \A g \in ToSet(fs[c.level]) \ c.upper, h \in c.upper : Newer(g, h)

LogsFlushed ==
  v # nullptr =>
    \/ caller # "CompactMemtable" /\ edit.log_number = log_number_ /\ Past(files_[v], Unflushed)
    \/ /\ caller = "CompactMemtable" /\ imm_ # nullptr
       /\ edit.log_number = logfile_number_ /\ Past(files_[v], logfile_number_)

WorkOrdered ==
  Working => /\ UpperOldest(files_[current_], compact)
             /\ caller = "CompactMemtable" => UpperOldest(files_[v], compact)

LayersInv ==
  /\ \A u \in Versions : Layered(files_[u])
  /\ log_number_ \in Nat /\ log_number_ <= Unflushed
  /\ imm_ # nullptr => imm_ < logfile_number_
  /\ Past(files_[current_], Unflushed)
  /\ LogsFlushed
  /\ WorkOrdered

\* What a caller's edit is besides: its file fits, and has the writes of no log
\* that the edit does not make superfluous.
Orderly(e, t, f) ==
  /\ Fits(files_[current_], e, t, f)
  /\ \/ e.log_number = 0 /\ caller' # "CompactMemtable" /\ FromBefore(f, Unflushed)
     \/ /\ imm_ # nullptr /\ e.log_number = logfile_number_ /\ caller' = "CompactMemtable"
        /\ FromBefore(f, logfile_number_) /\ e.deleted_files = {}
        /\ \A l \in Levels : \A g \in InLevel(l) : Newer(f, g)

\* A file of the current version.
LEMMA CurrentFile ==
  ASSUME VersionsInv, LayersInv, NEW l \in Levels, NEW g \in InLevel(l)
  PROVE  /\ g \in FileMetaData /\ Inside(g) /\ FromBefore(g, Unflushed)
         /\ g.number < next_file_number_
         /\ \A m \in Levels : \A h \in InLevel(m) :
              l < m \/ (l = m /\ h.number < g.number) => Newer(g, h)
<1>1. current_ \in Versions
  BY DEF VersionsInv, Memory
<1>2. Layered(files_[current_]) /\ Past(files_[current_], Unflushed)
  BY <1>1 DEF LayersInv
<1>3. g \in FileMetaData
  BY FreshNumber
<1>4. g.number < next_file_number_
  BY <1>1 DEF VersionsInv, OnDisk, InLevel
<1> QED
  BY <1>2, <1>3, <1>4 DEF Layered, Past, InLevel

\* A table of writes of imm_ is newer than every file there is.
LEMMA TableNewest ==
  ASSUME VersionsInv, LayersInv, NEW K \in SUBSET UserKeys, K # {}, IsFiniteSet(K),
         imm_ # nullptr, NEW f, f = FileOf(next_file_number_, K, imm_)
  PROVE  /\ Inside(f) /\ FromBefore(f, logfile_number_)
         /\ \A m \in Levels : \A g \in InLevel(m) : Newer(f, g)
<1>1. K \subseteq Nat
  BY KeyAssumption
<1>2. imm_ \in Nat /\ logfile_number_ \in Nat /\ imm_ < logfile_number_ /\ Unflushed = imm_
  BY DEF VersionsInv, Memory, Numbers, nullptr, LayersInv, Unflushed
<1>3. \A d \in f.data : d[1] \in K /\ d[2] = imm_
  BY DEF FileOf
<1>4. Inside(f)
  <2>1. Min(K) \in K /\ \A y \in K : Min(K) <= y
    BY <1>1, LeastElement
  <2>2. Max(K) \in K /\ \A y \in K : y <= Max(K)
    BY <1>1, GreatestElement
  <2>3. f.smallest = Min(K) /\ f.largest = Max(K)
    BY DEF FileOf
  <2> QED
    BY <1>3, <2>1, <2>2, <2>3 DEF Inside
<1>5. \A m \in Levels : \A g \in InLevel(m) : Newer(f, g)
  <2> SUFFICES ASSUME NEW m \in Levels, NEW g \in InLevel(m), NEW d \in f.data, NEW e \in g.data
               PROVE  e[2] < d[2]
    BY DEF Newer
  <2>1. FromBefore(g, imm_)
    BY <1>2, CurrentFile
  <2> QED
    BY <1>3, <2>1 DEF FromBefore
<1>6. FromBefore(f, logfile_number_)
  BY <1>2, <1>3 DEF FromBefore
<1> QED
  BY <1>4, <1>5, <1>6

LEMMA FlushOrderly ==
  ASSUME VersionsInv, LayersInv, NEW l \in Levels, Flush(l)
  PROVE  LET f == FileOf(next_file_number_, imm_keys, imm_) IN Orderly(FlushEdit(l, f), l, f)
<1> DEFINE f == FileOf(next_file_number_, imm_keys, imm_)
<1>1. /\ f \in FileMetaData /\ f.number = next_file_number_ /\ imm_ # nullptr /\ imm_keys # {}
      /\ FlushEdit(l, f).log_number = logfile_number_ /\ FlushEdit(l, f).deleted_files = {}
      /\ l > 0 => \A m \in 0 .. l : \A g \in InLevel(m) : ~Overlaps(f, g)
      /\ caller' = "CompactMemtable"
  BY FlushApplies, FlushStep
<1>2. imm_keys \in SUBSET UserKeys /\ IsFiniteSet(imm_keys)
  BY DEF VersionsInv, Memory
<1>3. /\ Inside(f) /\ FromBefore(f, logfile_number_)
      /\ \A m \in Levels : \A g \in InLevel(m) : Newer(f, g)
  BY <1>1, <1>2, TableNewest
<1> HIDE DEF f
<1>4. \A m \in Levels : \A g \in InLevel(m) : m < l => Newer(g, f)
  <2> SUFFICES ASSUME NEW m \in Levels, NEW g \in InLevel(m), m < l
               PROVE  Newer(g, f)
    OBVIOUS
  <2>1. m \in 0 .. l /\ l > 0
    BY LevelFacts
  <2>2. ~Overlaps(f, g)
    BY <1>1, <2>1
  <2>3. g \in FileMetaData /\ Inside(g)
    BY CurrentFile
  <2> QED
    BY <1>1, <1>3, <2>2, <2>3, NothingShared
<1>5. \A m \in Levels : \A g \in InLevel(m) : g.number < f.number
  BY <1>1, CurrentFile
<1>6. Fits(files_[current_], FlushEdit(l, f), l, f)
  BY <1>3, <1>4, <1>5 DEF Fits, InLevel
<1>7. Orderly(FlushEdit(l, f), l, f)
  BY <1>1, <1>3, <1>6 DEF Orderly
<1> QED
  BY <1>7 DEF f

LEMMA EmptyOrderly ==
  ASSUME VersionsInv, LayersInv, FlushNothing
  PROVE  Orderly(EmptyEdit, 0, NoTable)
<1> DEFINE k == CHOOSE k \in UserKeys : TRUE
           f == NoTable
<1>1. {k} \in SUBSET UserKeys /\ {k} # {} /\ IsFiniteSet({k})
  BY KeyAssumption, FS_Singleton
<1>2. f = FileOf(next_file_number_, {k}, imm_)
  BY DEF NoTable
<1> HIDE DEF k, f
<1>3. /\ f.number = next_file_number_ /\ imm_ # nullptr
      /\ EmptyEdit.log_number = logfile_number_ /\ EmptyEdit.deleted_files = {}
      /\ caller' = "CompactMemtable"
  BY EmptyApplies, EmptyStep DEF f
<1>4. /\ Inside(f) /\ FromBefore(f, logfile_number_)
      /\ \A m \in Levels : \A g \in InLevel(m) : Newer(f, g)
  BY <1>1, <1>2, <1>3, TableNewest
<1>5. \A m \in Levels : \A g \in InLevel(m) : g.number < f.number
  BY <1>3, CurrentFile
<1>6. Fits(files_[current_], EmptyEdit, 0, f)
  <2>1. \A m \in Levels : ~(m < 0)
    BY LevelFacts
  <2> QED
    BY <1>4, <1>5, <2>1 DEF Fits, InLevel
<1>7. Orderly(EmptyEdit, 0, f)
  BY <1>3, <1>4, <1>6 DEF Orderly
<1> QED
  BY <1>7 DEF f

\* The upper inputs of a compaction and what stays on their level have no key in
\* common: below level 0 files are disjoint, on level 0 the inputs are closed.
LEMMA PickedApart ==
  ASSUME VersionsInv, LayersInv, NEW l \in Levels, NEW f \in InLevel(l),
         NEW U, U = Inputs(l, f).upper, NEW g \in InLevel(l) \ U, NEW h \in U
  PROVE  ~Overlaps(h, g) /\ Newer(g, h)
<1>1. /\ f \in U /\ U \subseteq InLevel(l) /\ (l # 0 => U = {f})
      /\ l = 0 => \A a \in U, b \in InLevel(0) : Overlaps(a, b) => b \in U
  BY UpperInputs
<1>2. ~Overlaps(h, g)
  <2>1. CASE l = 0
    BY <1>1, <2>1
  <2>2. CASE l # 0
    <3>1. l > 0 /\ h = f /\ h # g
      BY <1>1, <2>2, LevelFacts
    <3> QED
      BY <1>1, <3>1 DEF VersionsInv, Memory, WellFormed, Apart, InLevel
  <2> QED
    BY <2>1, <2>2
<1>3. g \in FileMetaData /\ Inside(g) /\ h \in FileMetaData /\ Inside(h)
  BY <1>1, CurrentFile
<1> QED
  BY <1>2, <1>3, NothingShared

LEMMA MoveOrderly ==
  ASSUME VersionsInv, LayersInv, NEW l \in Levels, NEW f \in InLevel(l), TrivialMove(l, f)
  PROVE  Orderly(MoveEdit(l, f), l + 1, f)
<1>1. /\ l + 1 \in Levels /\ l \in Nat
      /\ MoveEdit(l, f).deleted_files = {<<l, f.number>>} /\ MoveEdit(l, f).log_number = 0
  BY MoveApplies, LevelFacts
<1>2. \A g \in InLevel(l) \ {f} : Newer(g, f)
  <2> DEFINE U == Inputs(l, f).upper
  <2>1. U = {f}
    BY MoveApplies
  <2> HIDE DEF U
  <2>2. \A g \in InLevel(l) \ U : \A h \in U : Newer(g, h)
    BY PickedApart DEF U
  <2> QED
    BY <2>1, <2>2
<1>3. f \in FileMetaData /\ Inside(f) /\ FromBefore(f, Unflushed) /\ caller' # "CompactMemtable"
  BY CurrentFile, MoveStep
<1>4. ASSUME NEW m \in Levels, NEW g \in InLevel(m), <<m, g.number>> # <<l, f.number>>
      PROVE  /\ m < l + 1 => Newer(g, f)
             /\ l + 1 < m => Newer(f, g)
  <2>1. m \in Nat
    BY LevelFacts
  <2>2. CASE m < l
    <3>1. Newer(g, f)
      BY <2>2, CurrentFile
    <3> QED
      BY <1>1, <2>1, <2>2, <3>1
  <2>3. CASE m = l
    <3>1. f # g
      BY <1>4, <2>3
    <3>2. Newer(g, f)
      BY <1>2, <2>3, <3>1
    <3> QED
      BY <1>1, <2>3, <3>2
  <2>4. CASE l < m
    <3>1. Newer(f, g)
      BY <2>4, CurrentFile
    <3> QED
      BY <1>1, <2>1, <2>4, <3>1
  <2> QED
    BY <1>1, <2>1, <2>2, <2>3, <2>4
<1>5. Fits(files_[current_], MoveEdit(l, f), l + 1, f)
  <2> SUFFICES ASSUME NEW m \in Levels, NEW g \in InLevel(m),
                      <<m, g.number>> \notin MoveEdit(l, f).deleted_files
               PROVE  /\ m < l + 1 => Newer(g, f)
                      /\ l + 1 < m => Newer(f, g)
                      /\ l + 1 # 0
    BY <1>3 DEF Fits, InLevel
  <2>1. <<m, g.number>> # <<l, f.number>>
    BY <1>1
  <2> QED
    BY <1>1, <1>4, <2>1
<1> QED
  BY <1>1, <1>3, <1>5 DEF Orderly

LEMMA WorkOrderly ==
  ASSUME VersionsInv, WorkInv, LayersInv, FinishWork
  PROVE  Orderly(WorkEdit(compact), compact.level + 1, Output(compact))
<1> DEFINE out == Output(compact)
           I == Chosen(compact)
           l == compact.level
           e == WorkEdit(compact)
<1>1. /\ l + 1 \in Levels /\ Working /\ pc = "idle" /\ out \in FileMetaData
      /\ e.deleted_files = Deleted(compact) /\ e.log_number = 0
      /\ caller' = "DoCompactionWork"
  BY WorkApplies, WorkStep
<1>2. /\ out.data = UNION {g.data : g \in I}
      /\ \A g \in I : out.smallest <= g.smallest /\ g.largest <= out.largest
  BY OutputData
<1>3. \A h \in I : /\ h \in FileMetaData
                   /\ \/ h \in compact.upper /\ h \in InLevel(l)
                      \/ h \in compact.lower /\ h \in InLevel(l + 1)
  BY <1>1, ChosenFiles
<1>4. l \in Levels /\ l \in Nat
  BY <1>1, LevelFacts DEF WorkInv, Includes
<1>5. \A m \in Levels : \A g \in InLevel(m) : <<m, g.number>> \notin e.deleted_files =>
        (m = l => g \notin compact.upper)
  BY <1>1 DEF Deleted
<1>6. \A g \in InLevel(l) \ compact.upper, h \in compact.upper : Newer(g, h)
  BY <1>1 DEF LayersInv, WorkOrdered, UpperOldest, InLevel
<1> HIDE DEF out, I, l, e
<1>7. \A d \in out.data : \E h \in I : d \in h.data
  BY <1>2
<1>8. \A h \in I : h \in FileMetaData /\ Inside(h) /\ FromBefore(h, Unflushed)
  BY <1>1, <1>3, <1>4, CurrentFile
<1>9. Inside(out)
  <2> SUFFICES ASSUME NEW d \in out.data
               PROVE  out.smallest <= d[1] /\ d[1] <= out.largest
    BY DEF Inside
  <2>1. PICK h \in I : d \in h.data
    BY <1>7
  <2>2. h \in FileMetaData /\ h.smallest <= d[1] /\ d[1] <= h.largest
    BY <1>8, <2>1 DEF Inside
  <2>3. out.smallest <= h.smallest /\ h.largest <= out.largest
    BY <1>2
  <2>4. d[1] \in Nat
    <3>1. d \in UserKeys \X (Numbers \cup {0})
      BY <2>1, <2>2 DEF FileMetaData
    <3> QED
      BY <3>1, KeyAssumption
  <2>5. /\ out.smallest \in Nat /\ out.largest \in Nat
        /\ h.smallest \in Nat /\ h.largest \in Nat
    BY <1>1, <2>2, FileTypes
  <2> QED
    BY <2>2, <2>3, <2>4, <2>5
<1>10. FromBefore(out, Unflushed)
  BY <1>7, <1>8 DEF FromBefore
<1>11. ASSUME NEW m \in Levels, NEW g \in InLevel(m), <<m, g.number>> \notin e.deleted_files, m < l + 1
       PROVE  Newer(g, out)
  <2>1. m \in Nat
    BY LevelFacts
  <2>2. ASSUME NEW h \in I
        PROVE  Newer(g, h)
    <3>1. CASE m < l \/ h \in InLevel(l + 1)
      <4>1. (h \in InLevel(l) /\ m < l) \/ (h \in InLevel(l + 1) /\ m < l + 1)
        BY <1>3, <1>11, <3>1
      <4> QED
        BY <1>1, <1>4, <4>1, CurrentFile
    <3>2. CASE m = l /\ h \in compact.upper
      BY <1>5, <1>6, <1>11, <3>2
    <3> QED
      BY <1>3, <1>4, <1>11, <2>1, <3>1, <3>2
  <2> QED
    BY <1>7, <2>2 DEF Newer
<1>12. ASSUME NEW m \in Levels, NEW g \in InLevel(m), l + 1 < m
       PROVE  Newer(out, g)
  <2>1. m \in Nat
    BY LevelFacts
  <2>2. ASSUME NEW h \in I
        PROVE  Newer(h, g)
    <3>1. (h \in InLevel(l) /\ l < m) \/ (h \in InLevel(l + 1) /\ l + 1 < m)
      BY <1>3, <1>4, <1>12, <2>1
    <3> QED
      BY <1>1, <1>4, <3>1, CurrentFile
  <2> QED
    BY <1>7, <2>2 DEF Newer
<1>13. Fits(files_[current_], e, l + 1, out)
  <2>1. l + 1 # 0
    BY <1>4
  <2> QED
    BY <1>9, <1>11, <1>12, <2>1 DEF Fits, InLevel
<1>14. Orderly(e, l + 1, out)
  BY <1>1, <1>10, <1>13 DEF Orderly
<1> QED
  BY <1>14 DEF out, l, e

-----------------------------------------------------------------------------
(* The inductive invariant *)

LEMMA NoFilesLayered == Layered(NoFiles) /\ \A n : Past(NoFiles, n)
BY NoFilesFacts DEF Layered, Past

LEMMA LayersInit == Init => LayersInv
<1> SUFFICES ASSUME Init
             PROVE  LayersInv
  OBVIOUS
<1>1. /\ current_ = 1 /\ v = nullptr /\ imm_ = nullptr /\ logfile_number_ = 2 /\ log_number_ = 0
      /\ compact = NoCompaction
      /\ files_ = [u \in Versions |-> IF u = 1 THEN RecoveredFiles ELSE NoFiles]
  BY DEF Init
<1>2. /\ WellFormed(RecoveredFiles)
      /\ \A l \in Levels : \A f \in ToSet(RecoveredFiles[l]) : f.number = 1
  BY RecoveredVersion
<1>3. ASSUME NEW l \in Levels, NEW f \in ToSet(RecoveredFiles[l])
      PROVE  Inside(f) /\ FromBefore(f, 2)
  <2>1. RecoveredKeys # {}
    BY <1>3, NoFilesFacts DEF RecoveredFiles
  <2> DEFINE g == FileOf(1, RecoveredKeys, 0)
             b == kNumLevels - 1
  <2>2. b \in Levels /\ RecoveredFiles = [NoFiles EXCEPT ![b] = <<g>>] /\ DOMAIN NoFiles = Levels
    BY <2>1, LevelFacts DEF RecoveredFiles, NoFiles
  <2>3. ToSet(<<g>>) = {g}
    BY DEF ToSet
  <2>4. f = g
    <3> HIDE DEF b, g
    <3>1. RecoveredFiles[l] = IF l = b THEN <<g>> ELSE NoFiles[l]
      BY <2>2
    <3> QED
      BY <2>3, <3>1, NoFilesFacts
  <2>5. RecoveredKeys \subseteq Nat /\ IsFiniteSet(RecoveredKeys)
    BY RecoveredAssumption, KeyAssumption
  <2>6. Min(RecoveredKeys) \in RecoveredKeys /\ \A y \in RecoveredKeys : Min(RecoveredKeys) <= y
    BY <2>1, <2>5, LeastElement
  <2>7. Max(RecoveredKeys) \in RecoveredKeys /\ \A y \in RecoveredKeys : y <= Max(RecoveredKeys)
    BY <2>1, <2>5, GreatestElement
  <2>8. /\ g.smallest = Min(RecoveredKeys) /\ g.largest = Max(RecoveredKeys)
        /\ \A d \in g.data : d[1] \in RecoveredKeys /\ d[2] = 0
    BY DEF FileOf
  <2> HIDE DEF g
  <2> QED
    BY <2>4, <2>6, <2>7, <2>8 DEF Inside, FromBefore
<1>4. Layered(RecoveredFiles)
  <2> SUFFICES ASSUME NEW l \in Levels, NEW m \in Levels,
                      NEW f \in ToSet(RecoveredFiles[l]), NEW g \in ToSet(RecoveredFiles[m]),
                      l < m \/ (l = m /\ g.number < f.number)
               PROVE  FALSE
    BY <1>3 DEF Layered
  <2>1. f.number = 1 /\ g.number = 1 /\ l = m
    BY <1>2 DEF WellFormed, Distinct
  <2> QED
    BY <2>1, LevelFacts
<1>5. Past(RecoveredFiles, 2)
  BY <1>3 DEF Past
<1>6. 1 \in Versions
  BY VersionFacts
<1>7. \A u \in Versions : Layered(files_[u])
  BY <1>1, <1>4, NoFilesLayered
<1>8. files_[1] = RecoveredFiles
  BY <1>1, <1>6
<1>9. ~Working
  BY <1>1 DEF Working, NoCompaction
<1> QED
  BY <1>1, <1>5, <1>7, <1>8, <1>9 DEF LayersInv, Unflushed, LogsFlushed, WorkOrdered

LEMMA CallerLayers ==
  ASSUME VersionsInv, WorkInv, LayersInv, NEW e, NEW t, NEW f, EditStep(e, t, f), Orderly(e, t, f)
  PROVE  LayersInv'
<1> DEFINE fs == ApplyEdit(files_[current_], e)
<1>1. /\ v' \in Versions /\ v' # current_
      /\ files_' = [files_ EXCEPT ![v'] = fs]
      /\ DOMAIN files_ = Versions /\ current_ \in Versions /\ WellFormed(files_[current_])
  BY EditStepInv DEF VersionsInv, Memory
<1>2. /\ UNCHANGED <<current_, log_number_, logfile_number_, imm_, compact>>
      /\ LogAndApply(e, caller') /\ Applies(files_[current_], e, t, f) /\ e \in VersionEdits
  BY DEF EditStep, LogAndApply, Applies, wal
<1>3. Layered(files_[current_]) /\ Past(files_[current_], Unflushed) /\ log_number_ \in Nat
  BY <1>1 DEF LayersInv
<1>4. Layered(fs)
  BY <1>1, <1>2, <1>3, LayeredApply DEF Orderly
<1>5. edit'.log_number = IF e.log_number = 0 THEN log_number_ ELSE e.log_number
  <2>1. next_file_number_' \in Nat
    BY LimitAssumption DEF EditStep
  <2> QED
    BY <1>2, <1>3, <2>1, RecordedEdit
<1>6. \/ caller' # "CompactMemtable" /\ edit'.log_number = log_number_ /\ Past(fs, Unflushed)
      \/ /\ caller' = "CompactMemtable" /\ imm_ # nullptr
         /\ edit'.log_number = logfile_number_ /\ Past(fs, logfile_number_)
  <2>1. CASE e.log_number = 0 /\ caller' # "CompactMemtable" /\ FromBefore(f, Unflushed)
    <3>1. Past(fs, Unflushed)
      BY <1>1, <1>2, <1>3, <2>1, PastApply
    <3> QED
      BY <1>5, <2>1, <3>1
  <2>2. CASE /\ imm_ # nullptr /\ e.log_number = logfile_number_ /\ caller' = "CompactMemtable"
             /\ FromBefore(f, logfile_number_)
    <3>1. logfile_number_ \in Nat /\ logfile_number_ # 0 /\ imm_ \in Nat
          /\ imm_ < logfile_number_ /\ Unflushed = imm_
      BY <2>2 DEF VersionsInv, Memory, Numbers, nullptr, LayersInv, Unflushed
    <3>2. Past(files_[current_], logfile_number_)
      <4> SUFFICES ASSUME NEW l \in Levels, NEW g \in InLevel(l), NEW d \in g.data
                   PROVE  d[2] < logfile_number_
        BY DEF Past, FromBefore, InLevel
      <4>1. d[2] < imm_
        BY <3>1, CurrentFile DEF FromBefore
      <4>2. d[2] \in Nat
        <5>1. d \in UserKeys \X (Numbers \cup {0})
          BY CurrentFile DEF FileMetaData
        <5> QED
          BY <5>1 DEF Numbers
      <4> QED
        BY <3>1, <4>1, <4>2
    <3>3. Past(fs, logfile_number_)
      BY <1>1, <1>2, <2>2, <3>2, PastApply
    <3> QED
      BY <1>5, <2>2, <3>1, <3>3
  <2> QED
    BY <2>1, <2>2 DEF Orderly
<1> HIDE DEF fs
<1>7. \A u \in Versions : IF u = v' THEN files_'[u] = fs ELSE files_'[u] = files_[u]
  BY <1>1
<1>8. \A u \in Versions : Layered(files_'[u])
  BY <1>4, <1>7 DEF LayersInv
<1>9. (\A u \in Versions : Layered(files_[u]))'
  BY <1>8
<1>10. Unflushed' = Unflushed
  BY <1>2 DEF Unflushed
<1>11. files_'[current_] = files_[current_] /\ files_'[v'] = fs
  BY <1>1, <1>7
<1>12. ASSUME Working, caller' = "CompactMemtable"
       PROVE  UpperOldest(fs, compact)
  <2>1. /\ compact.level \in Levels /\ compact.upper \subseteq InLevel(compact.level)
        /\ UpperOldest(files_[current_], compact)
    BY <1>12 DEF WorkInv, Includes, InLevel, LayersInv, WorkOrdered
  <2>2. \A g \in InLevel(compact.level) : Newer(f, g)
    BY <1>12, <2>1 DEF Orderly
  <2>3. ASSUME NEW l \in Levels, NEW g \in ToSet(fs[l])
        PROVE  g \in ToSet(files_[current_][l]) \/ g = f
    BY <1>1, <1>2, AppliedFile DEF fs
  <2>4. \A g \in ToSet(fs[compact.level]) : g \in InLevel(compact.level) \/ g = f
    BY <2>1, <2>3 DEF InLevel
  <2> QED
    BY <2>1, <2>2, <2>4 DEF UpperOldest, InLevel
<1>13. WorkOrdered'
  BY <1>2, <1>11, <1>12 DEF LayersInv, WorkOrdered, Working
<1>14. LogsFlushed'
  BY <1>2, <1>6, <1>10, <1>11 DEF LogsFlushed
<1> QED
  BY <1>2, <1>9, <1>10, <1>11, <1>13, <1>14 DEF LayersInv

\* A step that only lets versions lose all their files, other than those that
\* LayersInv is about.
LEMMA LosesFiles ==
  ASSUME VersionsInv, LayersInv,
         \A u \in Versions : files_'[u] = files_[u] \/ files_'[u] = NoFiles
  PROVE  (\A u \in Versions : Layered(files_[u]))'
<1>1. \A u \in Versions : Layered(files_'[u])
  BY NoFilesLayered DEF LayersInv
<1> QED
  BY <1>1

LEMMA ReadingLayers ==
  ASSUME VersionsInv, WorkInv, LayersInv, Reading,
         \A u \in Versions : files_'[u] = files_[u] \/ files_'[u] = NoFiles
  PROVE  LayersInv'
<1>1. (\A u \in Versions : Layered(files_[u]))'
  BY LosesFiles
<1>2. /\ UNCHANGED <<current_, log_number_, logfile_number_, imm_, edit, v, compact, caller>>
      /\ files_'[current_] = files_[current_] /\ (v # nullptr => files_'[v] = files_[v])
  BY DEF Reading
<1>3. Unflushed' = Unflushed
  BY <1>2 DEF Unflushed
<1>4. WorkOrdered'
  <2>1. caller = "CompactMemtable" => v # nullptr
    BY DEF WorkInv, Callers, VersionsInv, Vacant
  <2> QED
    BY <1>2, <2>1 DEF LayersInv, WorkOrdered, Working
<1>5. LogsFlushed'
  BY <1>2, <1>3 DEF LayersInv, LogsFlushed
<1> QED
  BY <1>1, <1>2, <1>3, <1>4, <1>5 DEF LayersInv

LEMMA InstallLayers ==
  ASSUME VersionsInv, WorkInv, LayersInv, Install
  PROVE  LayersInv'
<1>1. /\ UnrefVersion(current_) /\ current_' = v /\ v' = nullptr
      /\ log_number_' = edit.log_number /\ caller' = "none"
      /\ imm_' = (IF caller = "CompactMemtable" THEN nullptr ELSE imm_)
      /\ compact' = (IF caller = "DoCompactionWork" THEN NoCompaction ELSE compact)
      /\ pc = "install" /\ UNCHANGED logfile_number_
  BY DEF Install, AppendVersion, CallerGoesOn
<1>2. /\ current_ \in Versions /\ v \in Versions /\ v # nullptr /\ refs_[v] = 0
      /\ logfile_number_ \in Nat /\ imm_ \in Nat /\ logfile_number_ # 0
  BY <1>1 DEF VersionsInv, Memory, Vacant, Numbers, nullptr
<1>3. v # current_
  BY <1>2, ReferencedWhen DEF VersionsInv, Memory
<1>4. \A u \in Versions : files_'[u] = files_[u] \/ files_'[u] = NoFiles
  BY <1>1, <1>2, UnrefVersionEffect
<1>5. (\A u \in Versions : Layered(files_[u]))'
  BY <1>4, LosesFiles
<1>6. files_'[v] = files_[v]
  BY <1>1, <1>2, <1>3, UnrefVersionEffect
<1>7. /\ log_number_ \in Nat /\ log_number_ <= Unflushed
      /\ imm_ # nullptr => imm_ < logfile_number_
      /\ \/ /\ caller # "CompactMemtable" /\ edit.log_number = log_number_
            /\ Past(files_[v], Unflushed)
         \/ /\ caller = "CompactMemtable" /\ imm_ # nullptr
            /\ edit.log_number = logfile_number_ /\ Past(files_[v], logfile_number_)
  BY <1>2 DEF LayersInv, LogsFlushed
<1>8. WorkOrdered'
  <2>1. CASE caller = "DoCompactionWork"
    BY <1>1, <2>1 DEF WorkOrdered, Working, NoCompaction
  <2>2. CASE caller # "DoCompactionWork" /\ Working
    <3>1. caller = "CompactMemtable"
      BY <1>1, <2>2 DEF WorkInv, Callers
    <3>2. UpperOldest(files_[v], compact)
      BY <2>2, <3>1 DEF LayersInv, WorkOrdered
    <3> QED
      BY <1>1, <1>6, <2>2, <3>2 DEF WorkOrdered
  <2>3. CASE caller # "DoCompactionWork" /\ ~Working
    BY <1>1, <2>3 DEF WorkOrdered, Working
  <2> QED
    BY <2>1, <2>2, <2>3
<1>9. LogsFlushed'
  BY <1>1 DEF LogsFlushed
<1>10. CASE caller # "CompactMemtable" /\ edit.log_number = log_number_ /\ Past(files_[v], Unflushed)
  <2>1. imm_' = imm_ /\ log_number_' = log_number_
    BY <1>1, <1>10
  <2>2. Unflushed' = Unflushed
    BY <1>1, <2>1 DEF Unflushed
  <2> QED
    BY <1>1, <1>5, <1>6, <1>7, <1>8, <1>9, <1>10, <2>1, <2>2 DEF LayersInv
<1>11. CASE /\ caller = "CompactMemtable" /\ imm_ # nullptr
            /\ edit.log_number = logfile_number_ /\ Past(files_[v], logfile_number_)
  <2>1. imm_' = nullptr /\ log_number_' = logfile_number_
    BY <1>1, <1>11
  <2>2. Unflushed' = logfile_number_
    BY <1>1, <2>1 DEF Unflushed
  <2> QED
    BY <1>1, <1>2, <1>5, <1>6, <1>8, <1>9, <1>11, <2>1, <2>2 DEF LayersInv
<1> QED
  BY <1>7, <1>10, <1>11

LEMMA AbandonLayers ==
  ASSUME VersionsInv, WorkInv, LayersInv, Abandon
  PROVE  LayersInv'
<1>1. /\ files_' = [files_ EXCEPT ![v] = NoFiles] /\ v' = nullptr /\ pc = "install"
      /\ UNCHANGED <<current_, log_number_, logfile_number_, imm_>> /\ caller' = "none"
      /\ compact' = (IF caller = "DoCompactionWork" THEN NoCompaction ELSE compact)
  BY DEF Abandon, CallerGoesOn
<1>2. /\ current_ \in Versions /\ v \in Versions /\ refs_[v] = 0 /\ DOMAIN files_ = Versions
  BY <1>1 DEF VersionsInv, Memory, Vacant
<1>3. v # current_
  BY <1>2, ReferencedWhen DEF VersionsInv, Memory
<1>4. \A u \in Versions : files_'[u] = files_[u] \/ files_'[u] = NoFiles
  BY <1>1, <1>2
<1>5. (\A u \in Versions : Layered(files_[u]))'
  BY <1>4, LosesFiles
<1>6. files_'[current_] = files_[current_] /\ Unflushed' = Unflushed
  BY <1>1, <1>2, <1>3 DEF Unflushed
<1>7. WorkOrdered'
  <2>1. compact' = NoCompaction \/ compact' = compact
    BY <1>1
  <2>2. CASE compact' = NoCompaction
    BY <2>2 DEF WorkOrdered, Working, NoCompaction
  <2>3. CASE compact' = compact
    BY <1>1, <1>6, <2>3 DEF LayersInv, WorkOrdered, Working
  <2> QED
    BY <2>1, <2>2, <2>3
<1>8. LogsFlushed'
  BY <1>1 DEF LogsFlushed
<1> QED
  BY <1>1, <1>5, <1>6, <1>7, <1>8 DEF LayersInv

LEMMA SwitchLogLayers ==
  ASSUME VersionsInv, WorkInv, LayersInv, NEW K, SwitchLog(K)
  PROVE  LayersInv'
<1>1. /\ imm_ = nullptr /\ imm_' = logfile_number_ /\ logfile_number_' = next_file_number_
      /\ UNCHANGED <<current_, files_, log_number_, edit, v, compact, caller>>
  BY DEF SwitchLog, memory, locals
<1>2. logfile_number_ < next_file_number_ /\ logfile_number_ # nullptr
  BY DEF VersionsInv, Memory, Numbers, nullptr
<1>3. Unflushed' = Unflushed
  BY <1>1, <1>2 DEF Unflushed
<1>4. WorkOrdered' /\ LogsFlushed'
  BY <1>1, <1>3 DEF LayersInv, WorkOrdered, LogsFlushed, Working
<1> QED
  BY <1>1, <1>2, <1>3, <1>4 DEF LayersInv

\* The steps of the work that do not touch versions.
LEMMA TableLayers ==
  ASSUME VersionsInv, WorkInv, LayersInv, TableStep
  PROVE  LayersInv'
<1>1. UNCHANGED <<current_, files_, log_number_, logfile_number_, imm_, edit, v, caller>>
  BY DEF TableStep, FlushFails, WorkFails, OpenOutput, PickCompaction, memory, wal, locals
<1>2. Unflushed' = Unflushed
  BY <1>1 DEF Unflushed
<1>3. WorkOrdered'
  <2>1. CASE FlushFails
    BY <1>1, <2>1 DEF FlushFails, LayersInv, WorkOrdered, Working
  <2>2. CASE WorkFails
    BY <2>2 DEF WorkFails, WorkOrdered, Working, NoCompaction
  <2>3. CASE OpenOutput
    <3>1. compact' = [compact EXCEPT !.output = next_file_number_]
      BY <2>3 DEF OpenOutput
    <3>2. compact'.level = compact.level /\ compact'.upper = compact.upper
      BY <3>1
    <3> QED
      BY <1>1, <3>2 DEF LayersInv, WorkOrdered, Working, UpperOldest
  <2>4. ASSUME NEW l \in Levels, NEW f \in InLevel(l), PickCompaction(l, f)
        PROVE  WorkOrdered'
    <3> DEFINE U == Inputs(l, f).upper
    <3>1. compact'.level = l /\ compact'.upper = U /\ pc = "idle"
      BY <2>4 DEF PickCompaction, MayPickCompaction
    <3> HIDE DEF U
    <3>2. \A g \in InLevel(l) \ U, h \in U : Newer(g, h)
      BY PickedApart DEF U
    <3>3. UpperOldest(files_[current_], compact')
      BY <3>1, <3>2 DEF UpperOldest, InLevel
    <3>4. caller = "none"
      BY <3>1 DEF WorkInv, Callers
    <3> QED
      BY <1>1, <3>3, <3>4 DEF WorkOrdered
  <2> QED
    BY <2>1, <2>2, <2>3, <2>4 DEF TableStep
<1>4. LogsFlushed'
  BY <1>1, <1>2 DEF LayersInv, LogsFlushed
<1> QED
  BY <1>1, <1>2, <1>3, <1>4 DEF LayersInv

LEMMA LayersNext ==
  ASSUME VersionsInv, WorkInv, LayersInv, [Next]_vars
  PROVE  LayersInv'
<1>1. ASSUME NEW K \in SUBSET UserKeys, SwitchLog(K)
      PROVE  LayersInv'
  BY <1>1, SwitchLogLayers
<1>2. ASSUME NEW l \in Levels, Flush(l)
      PROVE  LayersInv'
  BY <1>2, FlushStep, FlushOrderly, CallerLayers
<1>3. CASE FlushNothing
  BY <1>3, EmptyStep, EmptyOrderly, CallerLayers
<1>4. ASSUME NEW l \in Levels, NEW f \in InLevel(l), TrivialMove(l, f)
      PROVE  LayersInv'
  BY <1>4, MoveStep, MoveOrderly, CallerLayers
<1>5. CASE FinishWork
  BY <1>5, WorkStep, WorkOrderly, CallerLayers
<1>6. CASE TableStep
  BY <1>6, TableLayers
<1>7. CASE AppendRecord \/ SyncRecord \/ SetCurrentFile
  <2>1. UNCHANGED <<current_, files_, log_number_, logfile_number_, imm_, edit, v, compact, caller>>
    BY <1>7 DEF AppendRecord, SyncRecord, SetCurrentFile, memory, wal, locals
  <2> QED
    BY <2>1 DEF LayersInv, Unflushed, LogsFlushed, WorkOrdered, Working
<1>8. CASE Install
  BY <1>8, InstallLayers
<1>9. CASE Abandon
  BY <1>9, AbandonLayers
<1>10. ASSUME NEW r \in Readers, RefVersion(r)
       PROVE  LayersInv'
  <2>1. UNCHANGED files_
    BY <1>10 DEF RefVersion
  <2> QED
    BY <1>10, <2>1, ReaderStep, ReadingLayers
<1>11. ASSUME NEW r \in Readers, DropVersion(r)
       PROVE  LayersInv'
  <2>1. held[r] \in Versions /\ UnrefVersion(held[r])
    BY <1>11 DEF DropVersion, VersionsInv, Memory
  <2>2. \A u \in Versions : files_'[u] = files_[u] \/ files_'[u] = NoFiles
    BY <2>1, UnrefVersionEffect
  <2> QED
    BY <1>11, <2>2, ReaderStep, ReadingLayers
<1>12. CASE UNCHANGED vars
  BY <1>12 DEF vars, LayersInv, Unflushed, LogsFlushed, WorkOrdered, Working
<1> QED
  BY <1>1, <1>2, <1>3, <1>4, <1>5, <1>6, <1>7, <1>8, <1>9, <1>10, <1>11, <1>12 DEF Next, TableStep

\* LayersInv is an invariant of the version set: in every version that a reader
\* can hold, what lies above is newer, after any sequence of flushes, moves and
\* merges, flushes in the middle of a merge too, whatever fails.
THEOREM LayersInvariant == Spec => []LayersInv
<1>1. VersionsInv /\ WorkInv /\ LayersInv /\ [Next]_vars => LayersInv'
  BY LayersNext
<1> QED
  BY <1>1, LayersInit, VersionsInvariant, PTL DEF Spec

\* A version that is about to be installed answers a Get with the newest write
\* of the key that the snapshot sees; a deletion hides what is below it; a table
\* that cannot be read gives an error, never an older write.
THEOREM GetsFindNewest == Spec => []GetFindsNewest
<1>1. VersionsInv /\ LayersInv => GetFindsNewest
  <2> SUFFICES ASSUME VersionsInv, LayersInv, pc = "install",
                      NEW k \in UserKeys, NEW snapshot \in Numbers,
                      NEW dead \in {{}} \cup {{n} : n \in Seen(AllEntries(files_[v]), k, snapshot)},
                      NEW bad \in {{}} \cup {{n} : n \in {a[2].number : a \in FileSet(files_[v])}}
               PROVE  RightAnswer(Get(files_[v], k, snapshot, dead, bad),
                                  files_[v], k, snapshot, dead, bad)
    BY Zenon DEF GetFindsNewest, RightAnswer
  <2>1. v \in Versions
    BY DEF VersionsInv, Memory, Vacant
  <2>2. WellFormed(files_[v]) /\ Layered(files_[v]) /\ snapshot \in Nat
    BY <2>1 DEF VersionsInv, Memory, LayersInv, Numbers
  <2> QED
    BY <2>2, LayeredGet
<1> QED
  BY <1>1, VersionsInvariant, LayersInvariant, PTL

\* The file that a Get charges for a seek is the first that it read, if that
\* had nothing for the key and another was read after it.
THEOREM FirstMissCharged == Spec => []ChargesFirstMiss
<1>1. VersionsInv => ChargesFirstMiss
  <2> SUFFICES ASSUME VersionsInv, pc = "install",
                      NEW k \in UserKeys, NEW snapshot \in Numbers
               PROVE  LET order == ForEachOverlapping(files_[v], k) IN
                      Get(files_[v], k, snapshot, {}, {}).seek_file =
                        IF Len(order) > 1 /\ Seen(order[1][2].data, k, snapshot) = {}
                          THEN order[1] ELSE none
    BY Zenon DEF ChargesFirstMiss
  <2>1. WellFormed(files_[v]) /\ snapshot \in Nat
    BY DEF VersionsInv, Memory, Vacant, Numbers
  <2> QED
    BY <2>1, ChargedRight
<1> QED
  BY <1>1, VersionsInvariant, PTL
=============================================================================

-------------------------- MODULE VersionSetProofs --------------------------
(***************************************************************************)
(* Proofs about the version set in memory and the tables on disk, for any  *)
(* number of levels, files, readers, failures and any set of user keys:    *)
(* reference counts, the files that must stay, the order of the files in a *)
(* level, and the level that a version is to be compacted at.              *)
(*                                                                         *)
(* VersionsInv is inductive.  Vacant says which versions have no files, so *)
(* that giving back the references of one takes no other version's files;  *)
(* OnDisk that a number NewFileNumber gives out is in no version.  It      *)
(* suffices that an edit is one of EditStep: it adds one file at most, and *)
(* what it adds lies apart from what it leaves in the level (Applies).     *)
(***************************************************************************)
EXTENDS VersionSet, Counting, SequenceTheorems

-----------------------------------------------------------------------------
(* Induction and recursion up to a number *)

\* A set with 0 and the successor of each of its elements below n has all of
\* 0 .. n.
LEMMA UpTo ==
  ASSUME NEW n \in Nat, NEW T, 0 \in T, \A i \in 1 .. n : i - 1 \in T => i \in T
  PROVE  0 .. n \subseteq T
<1> DEFINE Out == (0 .. n) \ T
<1>1. ASSUME Out # {}
      PROVE  FALSE
  <2>1. PICK m \in Out : \A y \in Out : m <= y
    <3>1. Out \subseteq Nat
      OBVIOUS
    <3> HIDE DEF Out
    <3> QED
      BY <1>1, <3>1, LeastElement
  <2>2. m \in 1 .. n /\ m - 1 \in 0 .. n
    OBVIOUS
  <2>3. m - 1 \in T
    BY <2>1, <2>2
  <2> QED
    BY <2>1, <2>2, <2>3
<1> QED
  BY <1>1

\* The function on 0 .. n with the value base at 0 that goes on with step.
Iterates(g, n, base, step) ==
  g[0] = base /\ \A i \in 1 .. n : g[i] = step[<<i, g[i - 1]>>]

\* A function that is defined by its value at 0 and a step exists.
LEMMA Recursion ==
  ASSUME NEW n \in Nat, NEW S, NEW base \in S, NEW step \in [(1 .. n) \X S -> S]
  PROVE  \E g \in [0 .. n -> S] : Iterates(g, n, base, step)
<1> DEFINE Upto(m, g) == g[0] = base /\ \A i \in 1 .. m : g[i] = step[<<i, g[i - 1]>>]
           T == {m \in 0 .. n : \E g \in [0 .. m -> S] : Upto(m, g)}
<1>1. 0 \in T
  <2> DEFINE h == [i \in 0 .. 0 |-> base]
  <2>1. h \in [0 .. 0 -> S] /\ Upto(0, h)
    OBVIOUS
  <2> HIDE DEF h, Upto
  <2> QED
    BY <2>1
<1>2. ASSUME NEW i \in 1 .. n, i - 1 \in T
      PROVE  i \in T
  <2>1. PICK g \in [0 .. (i - 1) -> S] : Upto(i - 1, g)
    BY <1>2
  <2>2. g[i - 1] \in S /\ step[<<i, g[i - 1]>>] \in S
    OBVIOUS
  <2> DEFINE h == [j \in 0 .. i |-> IF j = i THEN step[<<i, g[i - 1]>>] ELSE g[j]]
  <2>3. h \in [0 .. i -> S]
    BY <2>2
  <2>4. Upto(i, h)
    <3>1. h[0] = base
      BY <2>1
    <3>2. ASSUME NEW j \in 1 .. i
          PROVE  h[j] = step[<<j, h[j - 1]>>]
      <4>1. CASE j = i
        <5>1. h[j - 1] = g[i - 1]
          BY <4>1
        <5>2. h[j] = step[<<i, g[i - 1]>>]
          BY <4>1
        <5> QED
          BY <4>1, <5>1, <5>2, Zenon
      <4>2. CASE j # i
        <5>1. j \in 1 .. (i - 1)
          BY <4>2
        <5>2. h[j - 1] = g[j - 1] /\ h[j] = g[j]
          BY <5>1
        <5> QED
          BY <2>1, <5>1, <5>2
      <4> QED
        BY <4>1, <4>2
    <3> QED
      BY <3>1, <3>2
  <2> HIDE DEF h, Upto
  <2> QED
    BY <2>3, <2>4
<1> HIDE DEF T
<1>3. 0 .. n \subseteq T
  BY <1>1, <1>2, UpTo
<1> QED
  BY <1>3 DEF T, Iterates

-----------------------------------------------------------------------------
(* The Builder *)

\* MaybeAddFile, over a sequence, keeps exactly the files that are not deleted,
\* in their order.
LEMMA KeptFiles ==
  ASSUME NEW F, NEW fs \in Seq(F), NEW deleted
  PROVE  /\ MaybeAddFiles(fs, deleted) \in Seq(F)
         /\ \A x : x \in ToSet(MaybeAddFiles(fs, deleted))
                     <=> x \in ToSet(fs) /\ x.number \notin deleted
         /\ \A p, q \in 1 .. Len(MaybeAddFiles(fs, deleted)) : p < q =>
              \E a, b \in 1 .. Len(fs) :
                /\ a < b
                /\ MaybeAddFiles(fs, deleted)[p] = fs[a]
                /\ MaybeAddFiles(fs, deleted)[q] = fs[b]
<1> DEFINE N == Len(fs)
           Kept == CHOOSE k : k = [i \in 0 .. Len(fs) |->
                     IF i = 0 THEN <<>>
                     ELSE IF fs[i].number \in deleted THEN k[i - 1]
                          ELSE Append(k[i - 1], fs[i])]
           step == [z \in (1 .. N) \X Seq(F) |->
                      IF fs[z[1]].number \in deleted THEN z[2] ELSE Append(z[2], fs[z[1]])]
<1>1. N \in Nat /\ (\A i \in 1 .. N : fs[i] \in F) /\ DOMAIN fs = 1 .. N
  OBVIOUS
<1>2. step \in [(1 .. N) \X Seq(F) -> Seq(F)]
  BY <1>1
<1>3. \A i \in 1 .. N, x \in Seq(F) :
        step[<<i, x>>] = IF fs[i].number \in deleted THEN x ELSE Append(x, fs[i])
  BY <1>1
<1>4. PICK g \in [0 .. N -> Seq(F)] :
        g[0] = <<>> /\ \A i \in 1 .. N : g[i] = step[<<i, g[i - 1]>>]
  <2> DEFINE SF == Seq(F)
             empty == <<>>
  <2>1. empty \in SF
    OBVIOUS
  <2>2. N \in Nat /\ step \in [(1 .. N) \X SF -> SF]
    BY <1>1, <1>2
  <2> HIDE DEF step, N, SF, empty
  <2>3. PICK g \in [0 .. N -> SF] : Iterates(g, N, empty, step)
    BY <2>1, <2>2, Recursion
  <2> QED
    BY <2>3 DEF SF, empty, Iterates
<1> HIDE DEF step
<1>5. \A i \in 1 .. N : g[i - 1] \in Seq(F) /\ g[i] = IF fs[i].number \in deleted THEN g[i - 1] ELSE Append(g[i - 1], fs[i])
  <2>1. \A i \in 1 .. N : g[i - 1] \in Seq(F)
    BY <1>1
  <2> QED
    BY <2>1, <1>3, <1>4
<1>6. g = [i \in 0 .. Len(fs) |->
                     IF i = 0 THEN <<>>
                     ELSE IF fs[i].number \in deleted THEN g[i - 1]
                          ELSE Append(g[i - 1], fs[i])]
  <2>1. \A i \in 0 .. N : g[i] = IF i = 0 THEN <<>>
                     ELSE IF fs[i].number \in deleted THEN g[i - 1]
                          ELSE Append(g[i - 1], fs[i])
    <3> SUFFICES ASSUME NEW i \in 0 .. N
                 PROVE  g[i] = IF i = 0 THEN <<>>
                     ELSE IF fs[i].number \in deleted THEN g[i - 1]
                          ELSE Append(g[i - 1], fs[i])
      OBVIOUS
    <3>1. CASE i = 0
      BY <1>4, <3>1
    <3>2. CASE i # 0
      <4>1. i \in 1 .. N
        BY <1>1, <3>2
      <4> QED
        BY <4>1, <1>5, <3>2
    <3> QED
      BY <3>1, <3>2
  <2> QED
    BY <2>1
<1>7. Kept = [i \in 0 .. Len(fs) |->
                     IF i = 0 THEN <<>>
                     ELSE IF fs[i].number \in deleted THEN Kept[i - 1]
                          ELSE Append(Kept[i - 1], fs[i])]
  BY <1>6
<1>8. MaybeAddFiles(fs, deleted) = Kept[N]
  BY DEF MaybeAddFiles
<1> HIDE DEF Kept
<1>9. /\ Kept[0] = <<>>
      /\ \A i \in 1 .. N : Kept[i] = IF fs[i].number \in deleted THEN Kept[i - 1]
                                     ELSE Append(Kept[i - 1], fs[i])
  <2>1. \A i \in 0 .. N : Kept[i] =
                     IF i = 0 THEN <<>>
                     ELSE IF fs[i].number \in deleted THEN Kept[i - 1]
                          ELSE Append(Kept[i - 1], fs[i])
    BY <1>7, Zenon
  <2>2. 0 \in 0 .. N /\ \A i \in 1 .. N : i \in 0 .. N /\ i # 0
    BY <1>1
  <2> HIDE DEF N
  <2> QED
    BY <2>1, <2>2, Zenon
<1> HIDE DEF N
<1> DEFINE T1 == {i \in 0 .. N : Kept[i] \in Seq(F)}
           T2 == {i \in 0 .. N : \A x :
                    (\E j \in 1 .. Len(Kept[i]) : Kept[i][j] = x)
                      <=> (\E j \in 1 .. i : fs[j] = x) /\ x.number \notin deleted}
           T3 == {i \in 0 .. N : \A p, q \in 1 .. Len(Kept[i]) : p < q =>
                    \E a, b \in 1 .. i : a < b /\ Kept[i][p] = fs[a] /\ Kept[i][q] = fs[b]}
<1>10. 0 .. N \subseteq T1
  <2>1. 0 \in T1
    <3>1. <<>> \in Seq(F) /\ 0 \in 0 .. N
      BY <1>1
    <3> QED
      BY <1>9, <3>1, Zenon
  <2>2. ASSUME NEW i \in 1 .. N, i - 1 \in T1
        PROVE  i \in T1
    <3>1. i \in 0 .. N /\ fs[i] \in F /\ Kept[i - 1] \in Seq(F)
      BY <1>1, <2>2
    <3>2. Append(Kept[i - 1], fs[i]) \in Seq(F)
      BY <3>1
    <3>3. Kept[i] = Kept[i - 1] \/ Kept[i] = Append(Kept[i - 1], fs[i])
      BY <1>9, Zenon
    <3> QED
      BY <3>1, <3>2, <3>3, Zenon
  <2> HIDE DEF T1
  <2> QED
    BY <1>1, <2>1, <2>2, UpTo
<1>11. ASSUME NEW i \in 1 .. N
       PROVE  /\ i - 1 \in 0 .. N /\ i \in 0 .. N
              /\ Kept[i - 1] \in Seq(F) /\ fs[i] \in F
              /\ fs[i].number \in deleted => Kept[i] = Kept[i - 1]
              /\ fs[i].number \notin deleted =>
                   /\ Kept[i] = Append(Kept[i - 1], fs[i])
                   /\ Len(Kept[i]) = Len(Kept[i - 1]) + 1
                   /\ \A j \in 1 .. Len(Kept[i - 1]) : Kept[i][j] = Kept[i - 1][j]
                   /\ Kept[i][Len(Kept[i])] = fs[i]
              /\ Len(Kept[i - 1]) \in Nat
  <2>1. i - 1 \in 0 .. N /\ i \in 0 .. N
    BY <1>1
  <2>2. Kept[i - 1] \in Seq(F) /\ fs[i] \in F
    BY <1>1, <1>10, <2>1
  <2> DEFINE k == Kept[i - 1]
             x == fs[i]
  <2>3. /\ x.number \in deleted => Kept[i] = k
        /\ x.number \notin deleted => Kept[i] = Append(k, x)
    BY <1>9, Zenon
  <2>4. k \in Seq(F) /\ x \in F
    BY <2>2
  <2> HIDE DEF k, x
  <2>5. /\ Len(Append(k, x)) = Len(k) + 1 /\ Len(k) \in Nat
        /\ \A j \in 1 .. Len(k) : Append(k, x)[j] = k[j]
        /\ Append(k, x)[Len(Append(k, x))] = x
    BY <2>4
  <2>6. /\ x.number \in deleted => Kept[i] = k
        /\ x.number \notin deleted =>
             /\ Kept[i] = Append(k, x)
             /\ Len(Kept[i]) = Len(k) + 1
             /\ \A j \in 1 .. Len(k) : Kept[i][j] = k[j]
             /\ Kept[i][Len(Kept[i])] = x
    BY <2>3, <2>5, Zenon
  <2> QED
    BY <2>1, <2>4, <2>5, <2>6, Zenon DEF k, x
<1>12. 0 .. N \subseteq T2
  <2>1. 0 \in T2
    BY <1>1, <1>9
  <2>2. ASSUME NEW i \in 1 .. N, i - 1 \in T2
        PROVE  i \in T2
    <3> SUFFICES ASSUME NEW x
                 PROVE  (\E j \in 1 .. Len(Kept[i]) : Kept[i][j] = x)
                          <=> (\E j \in 1 .. i : fs[j] = x) /\ x.number \notin deleted
      BY <1>11
    <3>1. (\E j \in 1 .. Len(Kept[i - 1]) : Kept[i - 1][j] = x)
             <=> (\E j \in 1 .. (i - 1) : fs[j] = x) /\ x.number \notin deleted
      BY <2>2
    <3>2. (\E j \in 1 .. i : fs[j] = x) <=> (\E j \in 1 .. (i - 1) : fs[j] = x) \/ fs[i] = x
      OBVIOUS
    <3>3. CASE fs[i].number \in deleted
      BY <1>11, <3>1, <3>2, <3>3
    <3>4. CASE fs[i].number \notin deleted
      <4>1. (\E j \in 1 .. Len(Kept[i]) : Kept[i][j] = x)
              <=> (\E j \in 1 .. Len(Kept[i - 1]) : Kept[i - 1][j] = x) \/ fs[i] = x
        <5> DEFINE k == Kept[i - 1]
                   h == Kept[i]
                   n == Len(k)
        <5>1. /\ Len(h) = n + 1 /\ n \in Nat
              /\ \A j \in 1 .. n : h[j] = k[j]
              /\ h[n + 1] = fs[i]
          BY <1>11, <3>4
        <5> HIDE DEF k, h, n
        <5>2. (\E j \in 1 .. Len(h) : h[j] = x) <=> (\E j \in 1 .. n : k[j] = x) \/ fs[i] = x
          BY <5>1
        <5> QED
          BY <5>2, Zenon DEF k, h, n
      <4> QED
        BY <3>1, <3>2, <3>4, <4>1
    <3> QED
      BY <3>3, <3>4
  <2> HIDE DEF T2
  <2> QED
    BY <1>1, <2>1, <2>2, UpTo
<1>13. 0 .. N \subseteq T3
  <2>1. 0 \in T3
    BY <1>1, <1>9
  <2>2. ASSUME NEW i \in 1 .. N, i - 1 \in T3
        PROVE  i \in T3
    <3> SUFFICES ASSUME NEW p \in 1 .. Len(Kept[i]), NEW q \in 1 .. Len(Kept[i]), p < q
                 PROVE  \E a, b \in 1 .. i : a < b /\ Kept[i][p] = fs[a] /\ Kept[i][q] = fs[b]
      BY <1>11
    <3>1. ASSUME p \in 1 .. Len(Kept[i - 1]), q \in 1 .. Len(Kept[i - 1]),
                 Kept[i][p] = Kept[i - 1][p], Kept[i][q] = Kept[i - 1][q]
          PROVE  \E a, b \in 1 .. i : a < b /\ Kept[i][p] = fs[a] /\ Kept[i][q] = fs[b]
      <4>1. PICK a, b \in 1 .. (i - 1) : a < b /\ Kept[i - 1][p] = fs[a] /\ Kept[i - 1][q] = fs[b]
        BY <2>2, <3>1
      <4>2. a \in 1 .. i /\ b \in 1 .. i
        BY <4>1
      <4> QED
        BY <3>1, <4>1, <4>2
    <3>2. CASE fs[i].number \in deleted
      BY <1>11, <3>1, <3>2
    <3>3. CASE fs[i].number \notin deleted
      <4>1. p \in 1 .. Len(Kept[i - 1]) /\ Kept[i][p] = Kept[i - 1][p]
        BY <1>11, <3>3
      <4>2. CASE q \in 1 .. Len(Kept[i - 1])
        BY <1>11, <3>1, <3>3, <4>1, <4>2
      <4>3. CASE q \notin 1 .. Len(Kept[i - 1])
        <5>1. q = Len(Kept[i]) /\ Kept[i][q] = fs[i]
          BY <1>11, <3>3, <4>3
        <5>2. i - 1 \in 0 .. N /\ i - 1 \in T2
          BY <1>11, <1>12
        <5>3. PICK a \in 1 .. (i - 1) : fs[a] = Kept[i - 1][p]
          BY <5>2, <4>1
        <5>4. a \in 1 .. i /\ i \in 1 .. i /\ a < i
          BY <5>3
        <5> QED
          BY <4>1, <5>1, <5>3, <5>4
      <4> QED
        BY <4>2, <4>3
    <3> QED
      BY <3>2, <3>3
  <2> HIDE DEF T3
  <2> QED
    BY <1>1, <2>1, <2>2, UpTo
<1>14. N \in T1 /\ N \in T2 /\ N \in T3
  BY <1>1, <1>10, <1>12, <1>13
<1> DEFINE r == Kept[N]
<1>15. r \in Seq(F) /\ DOMAIN r = 1 .. Len(r)
  BY <1>14
<1>16. ToSet(r) = {r[j] : j \in 1 .. Len(r)} /\ ToSet(fs) = {fs[j] : j \in 1 .. N}
  BY <1>1, <1>15 DEF ToSet
<1>17. \A x : x \in ToSet(r) <=> x \in ToSet(fs) /\ x.number \notin deleted
  <2>1. \A x : (\E j \in 1 .. Len(r) : r[j] = x)
                  <=> (\E j \in 1 .. N : fs[j] = x) /\ x.number \notin deleted
    BY <1>14
  <2> HIDE DEF r
  <2> QED
    BY <1>16, <2>1, Zenon
<1>18. \A p, q \in 1 .. Len(r) : p < q =>
         \E a, b \in 1 .. Len(fs) : a < b /\ r[p] = fs[a] /\ r[q] = fs[b]
  BY <1>14 DEF N
<1> QED
  BY <1>8, <1>15, <1>17, <1>18

\* The sets of added files that an edit has here: none, or one file.
LEMMA SortedNone == SortedFiles({}) = <<>>
BY FS_EmptySet DEF SortedFiles

LEMMA FileTypes ==
  ASSUME NEW f \in FileMetaData
  PROVE  /\ f.number \in Nat /\ f.number \in Numbers
         /\ f.smallest \in Nat /\ f.largest \in Nat
         /\ f.smallest \in UserKeys /\ f.largest \in UserKeys
<1>1. f.number \in Numbers /\ f.smallest \in UserKeys /\ f.largest \in UserKeys
  BY DEF FileMetaData
<1>2. Numbers \subseteq Nat /\ UserKeys \subseteq Nat
  BY KeyAssumption, LimitAssumption DEF Numbers
<1> QED
  BY <1>1, <1>2

LEMMA SortedOne ==
  ASSUME NEW f \in FileMetaData
  PROVE  SortedFiles({f}) = <<f>>
<1>1. Cardinality({f}) = 1
  BY FS_Singleton
<1>2. {g \in {f} : BySmallestKey(g, f)} = {}
  BY FileTypes DEF BySmallestKey
<1>3. \A i \in 1 .. 1 : (CHOOSE h \in {f} : Cardinality({g \in {f} : BySmallestKey(g, h)}) = i - 1) = f
  BY <1>2, FS_EmptySet
<1>4. SortedFiles({f}) = [i \in 1 .. 1 |-> f]
  BY <1>1, <1>3 DEF SortedFiles
<1> QED
  BY <1>4

\* Without added files, SaveTo keeps what is not deleted.
LEMMA SaveToNone ==
  ASSUME NEW F, NEW base \in Seq(F), NEW deleted
  PROVE  SaveTo(base, {}, deleted) = MaybeAddFiles(base, deleted)
<1> DEFINE new == SortedFiles({})
           bpos(i) == IF i = 0 THEN 0
                      ELSE Cardinality({j \in DOMAIN base : ~BySmallestKey(new[i], base[j])})
           Body(M, i) == IF i = 0 THEN <<>>
                         ELSE M[i - 1] \o Append(SubSeq(base, bpos(i - 1) + 1, bpos(i)), new[i])
           Merged == CHOOSE M : M = [i \in 0 .. Len(new) |-> Body(M, i)]
<1>1. Len(new) = 0
  BY SortedNone
<1>2. SaveTo(base, {}, deleted)
        = MaybeAddFiles(Merged[Len(new)] \o SubSeq(base, bpos(Len(new)) + 1, Len(base)), deleted)
  BY DEF SaveTo
<1> HIDE DEF new
<1>3. Merged[0] = <<>>
  <2> DEFINE g == [i \in 0 .. 0 |-> <<>>]
  <2>1. g = [i \in 0 .. Len(new) |-> Body(g, i)]
    BY <1>1
  <2>2. Merged = [i \in 0 .. Len(new) |-> Body(Merged, i)]
    BY <2>1
  <2> HIDE DEF Merged
  <2> QED
    BY <1>1, <2>2
<1>4. SaveTo(base, {}, deleted)
        = MaybeAddFiles(<<>> \o SubSeq(base, 0 + 1, Len(base)), deleted)
  BY <1>1, <1>2, <1>3, Zenon
<1>5. <<>> \o SubSeq(base, 0 + 1, Len(base)) = base
  OBVIOUS
<1> QED
  BY <1>4, <1>5

\* upper_bound: the number of base files that are not greater than f.
UpperBound(base, f) == Cardinality({j \in DOMAIN base : ~BySmallestKey(f, base[j])})

\* A sequence with f put in after the first n elements.
Splice(base, f, n) == Append(SubSeq(base, 1, n), f) \o SubSeq(base, n + 1, Len(base))

\* One added file goes in at its upper bound.
LEMMA SaveToOne ==
  ASSUME NEW base \in Seq(FileMetaData), NEW f \in FileMetaData, NEW deleted,
         UpperBound(base, f) \in 0 .. Len(base)
  PROVE  SaveTo(base, {f}, deleted) =
           MaybeAddFiles(Splice(base, f, UpperBound(base, f)), deleted)
<1> DEFINE new == SortedFiles({f})
           bpos(i) == IF i = 0 THEN 0
                      ELSE Cardinality({j \in DOMAIN base : ~BySmallestKey(new[i], base[j])})
           Body(M, i) == IF i = 0 THEN <<>>
                         ELSE M[i - 1] \o Append(SubSeq(base, bpos(i - 1) + 1, bpos(i)), new[i])
           Merged == CHOOSE M : M = [i \in 0 .. Len(new) |-> Body(M, i)]
           n == UpperBound(base, f)
           front == Append(SubSeq(base, 0 + 1, n), f)
<1>1. Len(new) = 1 /\ new[1] = f
  BY SortedOne
<1>2. SaveTo(base, {f}, deleted)
        = MaybeAddFiles(Merged[Len(new)] \o SubSeq(base, bpos(Len(new)) + 1, Len(base)), deleted)
  BY DEF SaveTo
<1> HIDE DEF new
<1>3. bpos(0) = 0 /\ bpos(1) = n
  BY <1>1 DEF UpperBound
<1> HIDE DEF n
<1>4. n \in 0 .. Len(base)
  BY DEF n
<1>5. front \in Seq(FileMetaData)
  BY <1>4
<1>6. \A M : Body(M, 0) = <<>> /\ Body(M, 1) = M[0] \o front
  <2> SUFFICES ASSUME NEW M
               PROVE  Body(M, 0) = <<>> /\ Body(M, 1) = M[0] \o front
    OBVIOUS
  <2>1. Body(M, 0) = <<>>
    OBVIOUS
  <2>2. 1 - 1 = 0 /\ 1 # 0
    OBVIOUS
  <2> HIDE DEF bpos
  <2>3. Body(M, 1) = M[1 - 1] \o Append(SubSeq(base, bpos(1 - 1) + 1, bpos(1)), new[1])
    BY <2>2, Zenon
  <2>4. Body(M, 1) = M[0] \o front
    BY <1>1, <1>3, <2>2, <2>3, Zenon
  <2> QED
    BY <2>1, <2>4
<1> HIDE DEF front, bpos
<1>7. Merged[1] = <<>> \o front
  <2> DEFINE g == [i \in 0 .. 1 |-> IF i = 0 THEN <<>> ELSE <<>> \o front]
  <2>1. g = [i \in 0 .. Len(new) |-> Body(g, i)]
    <3>1. Body(g, 0) = <<>> /\ Body(g, 1) = <<>> \o front
      <4>1. g[0] = <<>>
        OBVIOUS
      <4> HIDE DEF g, Body
      <4> QED
        BY <1>6, <4>1, Zenon
    <3>2. \A i \in 0 .. 1 : Body(g, i) = IF i = 0 THEN <<>> ELSE <<>> \o front
      <4>1. \A i \in 0 .. 1 : i = 0 \/ i = 1
        OBVIOUS
      <4> HIDE DEF Body, g
      <4> QED
        BY <4>1, <3>1
    <3> HIDE DEF Body
    <3> QED
      BY <1>1, <3>2, Zenon
  <2>2. Merged = [i \in 0 .. Len(new) |-> Body(Merged, i)]
    BY <2>1
  <2> HIDE DEF Merged
  <2>3. Merged[0] = Body(Merged, 0) /\ Merged[1] = Body(Merged, 1)
    <3> HIDE DEF Body
    <3> QED
      BY <1>1, <2>2
  <2> QED
    BY <1>6, <2>3, Zenon
<1>8. SaveTo(base, {f}, deleted)
        = MaybeAddFiles((<<>> \o front) \o SubSeq(base, n + 1, Len(base)), deleted)
  BY <1>1, <1>2, <1>3, <1>7, Zenon
<1>9. <<>> \o front = front
  BY <1>5
<1> QED
  BY <1>8, <1>9 DEF n, front, Splice

\* BySmallestKey is a strict order, total on files with different numbers.
LEMMA FileOrder ==
  ASSUME NEW f \in FileMetaData, NEW g \in FileMetaData, NEW h \in FileMetaData
  PROVE  /\ ~BySmallestKey(f, f)
         /\ BySmallestKey(f, g) /\ BySmallestKey(g, h) => BySmallestKey(f, h)
         /\ f.number # g.number => BySmallestKey(f, g) \/ BySmallestKey(g, f)
BY FileTypes DEF BySmallestKey

Increasing(fs) == \A i, j \in 1 .. Len(fs) : i < j => BySmallestKey(fs[i], fs[j])

\* In a sorted level upper_bound splits the files that are greater than f from
\* those that are not.
LEMMA UpperBoundSplits ==
  ASSUME NEW base \in Seq(FileMetaData), NEW f \in FileMetaData, Increasing(base)
  PROVE  /\ UpperBound(base, f) \in 0 .. Len(base)
         /\ \A j \in 1 .. Len(base) :
              j <= UpperBound(base, f) <=> ~BySmallestKey(f, base[j])
<1> DEFINE N == Len(base)
           D == {j \in DOMAIN base : ~BySmallestKey(f, base[j])}
           Out == (1 .. (N + 1)) \ D
<1>1. N \in Nat /\ DOMAIN base = 1 .. N /\ \A j \in 1 .. N : base[j] \in FileMetaData
  OBVIOUS
<1>2. PICK m \in Out : \A y \in Out : m <= y
  <2>1. Out \subseteq Nat /\ N + 1 \in Out
    BY <1>1
  <2> HIDE DEF Out
  <2> QED
    BY <2>1, LeastElement
<1>3. m \in 1 .. (N + 1) /\ m \notin D
  BY <1>2
<1>4. \A j \in 1 .. (m - 1) : j \in D
  <2> TAKE j \in 1 .. (m - 1)
  <2>1. j \in 1 .. (N + 1) /\ ~(m <= j)
    BY <1>1, <1>3
  <2> QED
    BY <1>2, <2>1
<1>5. ASSUME NEW j \in 1 .. N, j >= m
      PROVE  BySmallestKey(f, base[j])
  <2>1. m \in 1 .. N /\ BySmallestKey(f, base[m])
    BY <1>1, <1>3, <1>5
  <2>2. CASE j = m
    BY <2>1, <2>2
  <2>3. CASE j # m
    <3>1. BySmallestKey(base[m], base[j])
      BY <1>1, <1>3, <1>5, <2>1, <2>3 DEF Increasing
    <3> QED
      BY <1>1, <2>1, <3>1, FileOrder
  <2> QED
    BY <2>2, <2>3
<1>6. D = 1 .. (m - 1)
  <2>1. \A j \in D : j \in 1 .. (m - 1)
    <3> TAKE j \in D
    <3>1. j \in 1 .. N /\ ~BySmallestKey(f, base[j])
      BY <1>1
    <3>2. ~(j >= m)
      BY <1>5, <3>1
    <3> QED
      BY <1>1, <1>3, <3>1, <3>2
  <2> HIDE DEF D
  <2> QED
    BY <1>4, <2>1
<1>7. UpperBound(base, f) = m - 1
  <2>1. Cardinality(1 .. (m - 1)) = m - 1
    BY <1>1, <1>3, FS_Interval
  <2> QED
    BY <1>6, <2>1 DEF UpperBound
<1>8. \A j \in 1 .. N : j <= m - 1 <=> j \in D
  BY <1>1, <1>3, <1>6
<1> QED
  BY <1>1, <1>3, <1>7, <1>8

\* An element put into a sequence after the n first ones.
LEMMA Spliced ==
  ASSUME NEW S, NEW base \in Seq(S), NEW f \in S, NEW n \in 0 .. Len(base)
  PROVE  /\ Splice(base, f, n) \in Seq(S)
         /\ Len(Splice(base, f, n)) = Len(base) + 1
         /\ \A i \in 1 .. (Len(base) + 1) :
              Splice(base, f, n)[i] = IF i <= n THEN base[i] ELSE IF i = n + 1 THEN f ELSE base[i - 1]
<1> DEFINE N == Len(base)
           front == SubSeq(base, 1, n)
           a == Append(front, f)
           b == SubSeq(base, n + 1, N)
           m == a \o b
<1>0. N \in Nat /\ n \in Nat /\ n <= N /\ \A i \in 1 .. N : base[i] \in S
  OBVIOUS
<1>1. front \in Seq(S) /\ Len(front) = n /\ \A i \in 1 .. n : front[i] = base[i]
  <2>1. SubSeq(base, 1, n) = [i \in 1 .. n |-> base[i]]
    BY <1>0
  <2> QED
    BY <2>1, <1>0
<1>2. b \in Seq(S) /\ Len(b) = N - n /\ \A i \in 1 .. (N - n) : b[i] = base[i + n]
  BY <1>0
<1> HIDE DEF front, b, N
<1>3. /\ a \in Seq(S) /\ Len(a) = n + 1
      /\ \A i \in 1 .. (n + 1) : a[i] = IF i <= n THEN base[i] ELSE f
  BY <1>0, <1>1
<1> HIDE DEF a
<1>4. /\ m \in Seq(S) /\ Len(m) = N + 1
      /\ \A i \in 1 .. (N + 1) :
           m[i] = IF i <= n + 1 THEN a[i] ELSE b[i - (n + 1)]
  <2>1. /\ m \in Seq(S) /\ Len(m) = Len(a) + Len(b)
        /\ \A i \in 1 .. (Len(a) + Len(b)) : m[i] = IF i <= Len(a) THEN a[i] ELSE b[i - Len(a)]
    BY <1>2, <1>3, ConcatProperties
  <2>2. Len(a) + Len(b) = N + 1
    BY <1>0, <1>2, <1>3
  <2> QED
    BY <1>3, <2>1, <2>2
<1> HIDE DEF m
<1>5. ASSUME NEW i \in 1 .. (N + 1)
      PROVE  m[i] = IF i <= n THEN base[i] ELSE IF i = n + 1 THEN f ELSE base[i - 1]
  <2>1. CASE i <= n + 1
    <3>1. i \in 1 .. (n + 1) /\ m[i] = a[i]
      BY <1>0, <1>4, <2>1
    <3> QED
      BY <1>0, <1>3, <2>1, <3>1
  <2>2. CASE i > n + 1
    <3>1. i - (n + 1) \in 1 .. (N - n) /\ (i - (n + 1)) + n = i - 1 /\ m[i] = b[i - (n + 1)]
      BY <1>0, <1>4, <2>2
    <3>2. m[i] = base[i - 1]
      BY <1>2, <3>1
    <3> QED
      BY <1>0, <2>2, <3>2
  <2> QED
    BY <1>0, <2>1, <2>2
<1> QED
  BY <1>4, <1>5 DEF m, a, b, front, N, Splice

\* A file that goes in at its upper bound: the files are those of the level and
\* it, and they are sorted.
LEMMA Insertion ==
  ASSUME NEW base \in Seq(FileMetaData), NEW f \in FileMetaData, Increasing(base),
         \A g \in ToSet(base) : g.number # f.number,
         NEW m \in Seq(FileMetaData), Len(m) = Len(base) + 1,
         \A i \in 1 .. (Len(base) + 1) :
           m[i] = IF i <= UpperBound(base, f) THEN base[i]
                  ELSE IF i = UpperBound(base, f) + 1 THEN f ELSE base[i - 1]
  PROVE  ToSet(m) = ToSet(base) \cup {f} /\ Increasing(m)
<1> DEFINE n == UpperBound(base, f)
           N == Len(base)
<1>1. /\ n \in 0 .. N /\ N \in Nat /\ n \in Nat
      /\ \A j \in 1 .. N : base[j] \in FileMetaData
      /\ \A j \in 1 .. N : j <= n <=> ~BySmallestKey(f, base[j])
  BY UpperBoundSplits
<1>2. /\ Len(m) = N + 1
      /\ \A i \in 1 .. (N + 1) :
           m[i] = IF i <= n THEN base[i] ELSE IF i = n + 1 THEN f ELSE base[i - 1]
  OBVIOUS
<1> HIDE DEF n
<1> HIDE DEF N
<1>3. ToSet(m) = {m[i] : i \in 1 .. (N + 1)} /\ ToSet(base) = {base[i] : i \in 1 .. N}
  <2>1. DOMAIN m = 1 .. (N + 1) /\ DOMAIN base = 1 .. N
    BY <1>2 DEF N
  <2> QED
    BY <2>1, Zenon DEF ToSet
<1>4. ToSet(m) = ToSet(base) \cup {f}
  <2>1. ASSUME NEW x \in ToSet(m)
        PROVE  x \in ToSet(base) \cup {f}
    <3>1. PICK i \in 1 .. (N + 1) : x = m[i]
      BY <1>3
    <3>2. CASE i <= n
      <4>1. i \in 1 .. N /\ x = base[i]
        BY <1>1, <1>2, <3>1, <3>2
      <4> QED
        BY <1>3, <4>1
    <3>3. CASE i = n + 1
      BY <1>1, <1>2, <3>1, <3>3
    <3>4. CASE i > n + 1
      <4>1. i - 1 \in 1 .. N /\ x = base[i - 1]
        BY <1>1, <1>2, <3>1, <3>4
      <4> QED
        BY <1>3, <4>1
    <3> QED
      BY <1>1, <3>2, <3>3, <3>4
  <2>2. ASSUME NEW x \in ToSet(base)
        PROVE  x \in ToSet(m)
    <3>1. PICK i \in 1 .. N : x = base[i]
      BY <1>3
    <3>2. CASE i <= n
      <4>1. i \in 1 .. (N + 1) /\ x = m[i]
        BY <1>1, <1>2, <3>1, <3>2
      <4> QED
        BY <1>3, <4>1
    <3>3. CASE i > n
      <4>1. i + 1 \in 1 .. (N + 1) /\ x = m[i + 1]
        BY <1>1, <1>2, <3>1, <3>3
      <4> QED
        BY <1>3, <4>1
    <3> QED
      BY <1>1, <3>2, <3>3
  <2>3. f \in ToSet(m)
    <3>1. n + 1 \in 1 .. (N + 1) /\ m[n + 1] = f
      BY <1>1, <1>2
    <3> QED
      BY <1>3, <3>1
  <2> QED
    BY <2>1, <2>2, <2>3
<1>5. \A i \in 1 .. N : /\ i <= n => BySmallestKey(base[i], f)
                        /\ i > n => BySmallestKey(f, base[i])
  <2> TAKE i \in 1 .. N
  <2>1. base[i].number # f.number /\ base[i] \in FileMetaData
    BY <1>1, <1>3
  <2> QED
    BY <1>1, <2>1, FileOrder
<1>6. ASSUME NEW i \in 1 .. (N + 1), NEW j \in 1 .. (N + 1), i < j
      PROVE  BySmallestKey(m[i], m[j])
  <2>0. \A p, q \in 1 .. N : p < q => BySmallestKey(base[p], base[q])
    BY DEF Increasing, N
  <2>1. CASE j <= n
    <3>1. m[i] = base[i] /\ m[j] = base[j] /\ i \in 1 .. N /\ j \in 1 .. N
      BY <1>1, <1>2, <1>6, <2>1
    <3> QED
      BY <1>6, <2>0, <3>1
  <2>2. CASE j = n + 1
    <3>1. m[i] = base[i] /\ m[j] = f /\ i \in 1 .. N /\ i <= n
      BY <1>1, <1>2, <1>6, <2>2
    <3> QED
      BY <1>5, <3>1
  <2>3. CASE j > n + 1 /\ i <= n
    <3>1. m[i] = base[i] /\ m[j] = base[j - 1] /\ i \in 1 .. N /\ j - 1 \in 1 .. N /\ i < j - 1
      BY <1>1, <1>2, <1>6, <2>3
    <3> QED
      BY <2>0, <3>1
  <2>4. CASE j > n + 1 /\ i = n + 1
    <3>1. m[i] = f /\ m[j] = base[j - 1] /\ j - 1 \in 1 .. N /\ j - 1 > n
      BY <1>1, <1>2, <1>6, <2>4
    <3> QED
      BY <1>5, <3>1
  <2>5. CASE j > n + 1 /\ i > n + 1
    <3>1. m[i] = base[i - 1] /\ m[j] = base[j - 1] /\ i - 1 \in 1 .. N /\ j - 1 \in 1 .. N /\ i - 1 < j - 1
      BY <1>1, <1>2, <1>6, <2>5
    <3> QED
      BY <2>0, <3>1
  <2> QED
    BY <1>1, <2>1, <2>2, <2>3, <2>4, <2>5
<1>7. Increasing(m)
  BY <1>2, <1>6 DEF Increasing
<1> QED
  BY <1>4, <1>7

\* What is kept of a sorted level is sorted.
LEMMA KeptSorted ==
  ASSUME NEW fs \in Seq(FileMetaData), NEW deleted, Increasing(fs)
  PROVE  /\ MaybeAddFiles(fs, deleted) \in Seq(FileMetaData)
         /\ ToSet(MaybeAddFiles(fs, deleted)) = {x \in ToSet(fs) : x.number \notin deleted}
         /\ Increasing(MaybeAddFiles(fs, deleted))
<1> DEFINE r == MaybeAddFiles(fs, deleted)
<1>1. /\ r \in Seq(FileMetaData)
      /\ \A x : x \in ToSet(r) <=> x \in ToSet(fs) /\ x.number \notin deleted
      /\ \A p, q \in 1 .. Len(r) : p < q =>
           \E a, b \in 1 .. Len(fs) : a < b /\ r[p] = fs[a] /\ r[q] = fs[b]
  BY KeptFiles
<1> HIDE DEF r
<1>2. ToSet(r) = {x \in ToSet(fs) : x.number \notin deleted}
  BY <1>1
<1>3. Increasing(r)
  BY <1>1 DEF Increasing
<1> QED
  BY <1>1, <1>2, <1>3 DEF r

\* The Builder, on a level that is sorted and to which at most one file is
\* added: the level stays sorted, and has exactly what it should.
LEMMA Saved ==
  ASSUME NEW base \in Seq(FileMetaData), Increasing(base), NEW deleted,
         NEW added \in SUBSET FileMetaData,
         added = {} \/ \E f \in FileMetaData : added = {f},
         \A f \in added : f.number \notin deleted /\ \A g \in ToSet(base) : g.number # f.number
  PROVE  /\ SaveTo(base, added, deleted) \in Seq(FileMetaData)
         /\ ToSet(SaveTo(base, added, deleted)) =
              {g \in ToSet(base) : g.number \notin deleted} \cup added
         /\ Increasing(SaveTo(base, added, deleted))
<1>1. CASE added = {}
  <2>1. SaveTo(base, added, deleted) = MaybeAddFiles(base, deleted)
    BY <1>1, SaveToNone
  <2> QED
    BY <1>1, <2>1, KeptSorted
<1>2. CASE added # {}
  <2>1. PICK f \in FileMetaData : added = {f}
    BY <1>2
  <2> DEFINE m == Splice(base, f, UpperBound(base, f))
  <2>2. UpperBound(base, f) \in 0 .. Len(base)
    BY UpperBoundSplits
  <2>3. SaveTo(base, added, deleted) = MaybeAddFiles(m, deleted)
    BY <2>1, <2>2, SaveToOne
  <2>4. \A g \in ToSet(base) : g.number # f.number
    BY <2>1
  <2>5. m \in Seq(FileMetaData) /\ ToSet(m) = ToSet(base) \cup {f} /\ Increasing(m)
    <3>1. /\ m \in Seq(FileMetaData) /\ Len(m) = Len(base) + 1
          /\ \A i \in 1 .. (Len(base) + 1) :
               m[i] = IF i <= UpperBound(base, f) THEN base[i]
                      ELSE IF i = UpperBound(base, f) + 1 THEN f ELSE base[i - 1]
      <4> DEFINE n == UpperBound(base, f)
      <4>1. n \in 0 .. Len(base)
        BY <2>2
      <4> HIDE DEF n
      <4>2. /\ Splice(base, f, n) \in Seq(FileMetaData) /\ Len(Splice(base, f, n)) = Len(base) + 1
            /\ \A i \in 1 .. (Len(base) + 1) :
                 Splice(base, f, n)[i] = IF i <= n THEN base[i] ELSE IF i = n + 1 THEN f ELSE base[i - 1]
        BY <4>1, Spliced, SMTT(30)
      <4> QED
        BY <4>2 DEF n
    <3> HIDE DEF m
    <3> QED
      BY <2>4, <3>1, Insertion
  <2> HIDE DEF m
  <2>6. f.number \notin deleted
    BY <2>1
  <2>7. /\ MaybeAddFiles(m, deleted) \in Seq(FileMetaData)
        /\ ToSet(MaybeAddFiles(m, deleted)) = {x \in ToSet(m) : x.number \notin deleted}
        /\ Increasing(MaybeAddFiles(m, deleted))
    BY <2>5, KeptSorted
  <2>8. {x \in ToSet(m) : x.number \notin deleted} = {g \in ToSet(base) : g.number \notin deleted} \cup added
    BY <2>1, <2>5, <2>6
  <2> QED
    BY <2>3, <2>7, <2>8, Zenon
<1> QED
  BY <1>1, <1>2

-----------------------------------------------------------------------------
(* The inductive invariant of the versions in memory *)

\* Files of level l that have their keys in order and, below level 0, no key
\* in common.
Apart(l, S) ==
  \A f \in S : f.smallest <= f.largest /\ (l > 0 => \A g \in S : f # g => ~Overlaps(f, g))

\* A file number stands for one file, on one level.
Distinct(fs) ==
  \A l, m \in Levels : \A f \in ToSet(fs[l]), g \in ToSet(fs[m]) :
    f.number = g.number => l = m /\ f = g

WellFormed(fs) ==
  /\ fs \in [Levels -> Seq(FileMetaData)]
  /\ \A l \in Levels : Increasing(fs[l]) /\ Apart(l, ToSet(fs[l]))
  /\ Distinct(fs)

Memory ==
  /\ current_ \in Versions
  /\ DOMAIN files_ = Versions /\ \A u \in Versions : WellFormed(files_[u])
  /\ refs_ \in [Versions -> Nat]
  /\ refs \in [Levels \X Numbers -> Nat]
  /\ next_file_number_ \in 3 .. (MaxFileNumber + 1)
  /\ tables \subseteq Numbers
  /\ logfile_number_ \in Numbers /\ imm_ \in Numbers \cup {nullptr}
  /\ logfile_number_ < next_file_number_
  /\ imm_keys \in SUBSET UserKeys /\ IsFiniteSet(imm_keys)
  /\ pc \in {"idle", "append", "sync", "current", "install"}
  /\ v \in Versions \cup {nullptr}
  /\ held \in [Readers -> Versions \cup {nullptr}]

\* The new version of a LogAndApply is not referenced yet; any other version
\* without references has no files.
Vacant ==
  /\ v = nullptr <=> pc = "idle"
  /\ v # nullptr => refs_[v] = 0
  /\ \A u \in Versions : refs_[u] = 0 /\ u # v => files_[u] = NoFiles

\* The files of every version are on disk, and their numbers are used up.
OnDisk ==
  \A u \in Versions, l \in Levels : \A f \in ToSet(files_[u][l]) :
    f.number \in tables /\ f.number < next_file_number_

VersionsInv == Memory /\ VersionRefs /\ Vacant /\ OnDisk

-----------------------------------------------------------------------------
(* Facts about files and versions *)

\* A finite set of numbers that is not empty has a greatest element.
LEMMA GreatestElement ==
  ASSUME NEW T, T \subseteq Nat, T # {}, IsFiniteSet(T)
  PROVE  Max(T) \in T /\ \A y \in T : y <= Max(T)
<1> DEFINE HasMax(S) == \E x \in S : \A y \in S : y <= x
           Bad == {n \in Nat : \E S \in SUBSET Nat :
                     IsFiniteSet(S) /\ Cardinality(S) = n /\ S # {} /\ ~HasMax(S)}
<1>1. ASSUME Bad # {}
      PROVE  FALSE
  <2>1. PICK n \in Bad : \A k \in Bad : n <= k
    <3>1. Bad \subseteq Nat
      OBVIOUS
    <3> HIDE DEF Bad
    <3> QED
      BY <1>1, <3>1, LeastElement
  <2>2. PICK S \in SUBSET Nat : IsFiniteSet(S) /\ Cardinality(S) = n /\ S # {} /\ ~HasMax(S)
    BY <2>1
  <2>3. PICK x \in S : TRUE
    BY <2>2
  <2> DEFINE R == S \ {x}
  <2>4. IsFiniteSet(R) /\ Cardinality(R) = n - 1 /\ R \in SUBSET Nat
    BY <2>2, <2>3, FS_RemoveElement
  <2>5. n \in Nat /\ n - 1 \in Nat
    BY <2>1, <2>4, FS_CardinalityType
  <2>6. R # {}
    <3>1. x \in Nat
      BY <2>3
    <3> QED
      BY <2>2, <2>3, <3>1
  <2>7. HasMax(R)
    <3>1. n - 1 \notin Bad
      BY <2>1, <2>5
    <3> QED
      BY <2>4, <2>5, <2>6, <3>1
  <2>8. PICK m \in R : \A y \in R : y <= m
    BY <2>7
  <2>9. x \in Nat /\ m \in Nat /\ m \in S /\ \A y \in S : y \in Nat /\ (y = x \/ y <= m)
    BY <2>2, <2>3, <2>8
  <2>10. CASE x <= m
    BY <2>2, <2>9, <2>10
  <2>11. CASE ~(x <= m)
    <3>1. \A y \in S : y <= x
      BY <2>9, <2>11
    <3> QED
      BY <2>2, <2>3, <3>1
  <2> QED
    BY <2>10, <2>11
<1>2. HasMax(T)
  BY <1>1, FS_CardinalityType
<1> QED
  BY <1>2 DEF Max

\* The table that CompactMemtable writes.
LEMMA FlushedFile ==
  ASSUME NEW K \in SUBSET UserKeys, K # {}, IsFiniteSet(K),
         NEW n \in Numbers, NEW g \in Numbers \cup {0}
  PROVE  /\ FileOf(n, K, g) \in FileMetaData
         /\ FileOf(n, K, g).number = n
         /\ FileOf(n, K, g).smallest <= FileOf(n, K, g).largest
         /\ \E k \in UserKeys : <<k, g>> \in FileOf(n, K, g).data
<1>1. K \subseteq Nat
  BY KeyAssumption
<1>2. Min(K) \in K /\ \A y \in K : Min(K) <= y
  BY <1>1, LeastElement
<1>3. Max(K) \in K /\ \A y \in K : y <= Max(K)
  BY <1>1, GreatestElement
<1>4. Min(K) \in UserKeys /\ Max(K) \in UserKeys /\ Min(K) <= Max(K)
  BY <1>2, <1>3
<1>5. {<<k, g>> : k \in K} \in SUBSET (UserKeys \X (Numbers \cup {0}))
  OBVIOUS
<1>6. \E k \in UserKeys : <<k, g>> \in {<<j, g>> : j \in K}
  BY <1>2
<1> QED
  BY <1>4, <1>5, <1>6 DEF FileOf, FileMetaData

LEMMA LevelFacts == 0 \in Levels /\ Levels \subseteq Nat /\ kNumLevels - 1 \in Levels
BY LevelAssumption DEF Levels

LEMMA NoFilesFacts ==
  /\ WellFormed(NoFiles)
  /\ \A l \in Levels : NoFiles[l] = <<>> /\ ToSet(NoFiles[l]) = {}
<1>1. \A l \in Levels : NoFiles[l] = <<>>
  BY DEF NoFiles
<1>2. ToSet(<<>>) = {}
  BY DEF ToSet
<1>3. NoFiles \in [Levels -> Seq(FileMetaData)]
  BY DEF NoFiles
<1>4. Increasing(<<>>)
  BY DEF Increasing
<1>5. \A l \in Levels : Increasing(NoFiles[l]) /\ ToSet(NoFiles[l]) = {}
  BY <1>1, <1>2, <1>4
<1> QED
  BY <1>1, <1>3, <1>5, Zenon DEF WellFormed, Apart, Distinct

\* A version's objects are the numbers of its files, by level.
LEMMA ObjectsOf ==
  ASSUME NEW fs \in [Levels -> Seq(FileMetaData)]
  PROVE  /\ Objects(fs) \subseteq Levels \X Numbers
         /\ \A l \in Levels : \A f \in ToSet(fs[l]) : <<l, f.number>> \in Objects(fs) /\ f \in FileMetaData
         /\ \A o \in Objects(fs) : \E f \in ToSet(fs[o[1]]) : f.number = o[2] /\ o[1] \in Levels
<1>1. \A l \in Levels : ToSet(fs[l]) = {fs[l][j] : j \in DOMAIN fs[l]}
  BY DEF ToSet
<1>2. \A l \in Levels : \A j \in DOMAIN fs[l] : fs[l][j] \in FileMetaData
  OBVIOUS
<1>3. ASSUME NEW l \in Levels, NEW f \in ToSet(fs[l])
      PROVE  <<l, f.number>> \in Objects(fs) /\ f \in FileMetaData
  <2>1. PICK j \in DOMAIN fs[l] : f = fs[l][j]
    BY <1>1
  <2> QED
    BY <1>2, <2>1 DEF Objects
<1>4. ASSUME NEW o \in Objects(fs)
      PROVE  /\ o \in Levels \X Numbers
             /\ \E f \in ToSet(fs[o[1]]) : f.number = o[2] /\ o[1] \in Levels
  <2>1. PICK l \in Levels : \E j \in DOMAIN fs[l] : o = <<l, fs[l][j].number>>
    BY DEF Objects
  <2>2. PICK j \in DOMAIN fs[l] : o = <<l, fs[l][j].number>>
    BY <2>1
  <2>3. fs[l][j] \in ToSet(fs[l]) /\ fs[l][j] \in FileMetaData
    BY <1>1, <1>2
  <2>4. fs[l][j].number \in Numbers
    BY <2>3, FileTypes
  <2> QED
    BY <2>2, <2>3, <2>4
<1> QED
  BY <1>3, <1>4

LEMMA NoObjects == Objects(NoFiles) = {}
<1>1. NoFiles \in [Levels -> Seq(FileMetaData)]
  BY NoFilesFacts DEF WellFormed
<1> QED
  BY <1>1, ObjectsOf, NoFilesFacts

\* The files of a version with their levels.
LEMMA FileSetOf ==
  ASSUME NEW fs \in [Levels -> Seq(FileMetaData)]
  PROVE  /\ FileSet(fs) \in SUBSET (Levels \X FileMetaData)
         /\ \A l, f : <<l, f>> \in FileSet(fs) <=> l \in Levels /\ f \in ToSet(fs[l])
<1>1. \A l \in Levels : ToSet(fs[l]) = {fs[l][j] : j \in DOMAIN fs[l]}
  BY DEF ToSet
<1>2. \A l \in Levels : \A j \in DOMAIN fs[l] : fs[l][j] \in FileMetaData
  OBVIOUS
<1>3. ASSUME NEW a \in FileSet(fs)
      PROVE  a \in Levels \X FileMetaData /\ a[1] \in Levels /\ a[2] \in ToSet(fs[a[1]])
  <2>1. PICK l \in Levels : \E j \in DOMAIN fs[l] : a = <<l, fs[l][j]>>
    BY DEF FileSet
  <2> QED
    BY <1>1, <1>2, <2>1
<1>4. ASSUME NEW l \in Levels, NEW f \in ToSet(fs[l])
      PROVE  <<l, f>> \in FileSet(fs)
  <2>1. PICK j \in DOMAIN fs[l] : f = fs[l][j]
    BY <1>1
  <2> QED
    BY <2>1 DEF FileSet
<1>5. \A l, f : <<l, f>> \in FileSet(fs) => l \in Levels /\ f \in ToSet(fs[l])
  BY <1>3
<1> QED
  BY <1>3, <1>4, <1>5

VersionEdits ==
  [new_files : SUBSET (Levels \X FileMetaData), deleted_files : SUBSET (Levels \X Numbers),
   log_number : Nat, next_file : Nat]

\* What an edit that adds the file f to level t asks of the version it is
\* applied to: no file of that level has its number, a file of another level
\* that has it is deleted, and below level 0 it overlaps nothing that stays.
\* The edit of an empty memtable adds and deletes nothing.
Applies(base, e, t, f) ==
  /\ t \in Levels /\ f \in FileMetaData /\ f.smallest <= f.largest
  /\ e \in VersionEdits
  /\ e.new_files = {<<t, f>>} \/ (e.new_files = {} /\ e.deleted_files = {})
  /\ \A g \in ToSet(base[t]) : g.number # f.number
  /\ \A l \in Levels : \A g \in ToSet(base[l]) :
       g.number = f.number => <<l, g.number>> \in e.deleted_files
  /\ t > 0 => \A g \in ToSet(base[t]) :
                <<t, g.number>> \in e.deleted_files \/ ~Overlaps(f, g)

\* What such an edit adds to and deletes from a level.
LEMMA EditOfLevel ==
  ASSUME NEW base, NEW e, NEW t, NEW f, Applies(base, e, t, f), NEW l \in Levels
  PROVE  /\ AddedFiles(e, l) = IF l = t /\ e.new_files # {} THEN {f} ELSE {}
         /\ \A h \in AddedFiles(e, l) : h.number \notin DeletedFiles(e, l)
         /\ \A n : n \in DeletedFiles(e, l)
                     <=> <<l, n>> \in e.deleted_files /\ (l = t => n # f.number)
<1>0. CASE e.new_files = {}
  <2>1. e.deleted_files = {}
    BY <1>0 DEF Applies
  <2>2. {b \in e.new_files : b[1] = l} = {} /\ {c \in e.deleted_files : c[1] = l} = {}
    BY <1>0, <2>1
  <2>3. AddedFiles(e, l) = {} /\ DeletedFiles(e, l) = {}
    BY <2>2 DEF AddedFiles, DeletedFiles
  <2> QED
    BY <1>0, <2>1, <2>3
<1> SUFFICES ASSUME e.new_files # {}
             PROVE  /\ AddedFiles(e, l) = IF l = t THEN {f} ELSE {}
                    /\ \A h \in AddedFiles(e, l) : h.number \notin DeletedFiles(e, l)
                    /\ \A n : n \in DeletedFiles(e, l)
                                <=> <<l, n>> \in e.deleted_files /\ (l = t => n # f.number)
  BY <1>0
<1>1. AddedFiles(e, l) = IF l = t THEN {f} ELSE {}
  <2>1. e.new_files = {<<t, f>>}
    BY DEF Applies
  <2>2. CASE l = t
    <3>1. {b \in e.new_files : b[1] = l} = {<<t, f>>}
      BY <2>1, <2>2
    <3>2. {a[2] : a \in {<<t, f>>}} = {f}
      OBVIOUS
    <3> QED
      BY <2>2, <3>1, <3>2 DEF AddedFiles
  <2>3. CASE l # t
    <3>1. {b \in e.new_files : b[1] = l} = {}
      BY <2>1, <2>3
    <3> QED
      BY <2>3, <3>1 DEF AddedFiles
  <2> QED
    BY <2>2, <2>3
<1>2. \A n : n \in {d[2] : d \in {c \in e.deleted_files : c[1] = l}} <=> <<l, n>> \in e.deleted_files
  <2>1. e.deleted_files \subseteq Levels \X Numbers
    BY DEF Applies, VersionEdits
  <2> QED
    BY <2>1
<1>3. \A n : n \in {g.number : g \in AddedFiles(e, l)} <=> l = t /\ n = f.number
  BY <1>1
<1>4. \A h \in AddedFiles(e, l) : h.number \notin DeletedFiles(e, l)
  BY DEF DeletedFiles
<1>5. \A n : n \in DeletedFiles(e, l) <=> <<l, n>> \in e.deleted_files /\ (l = t => n # f.number)
  BY <1>2, <1>3 DEF DeletedFiles
<1> QED
  BY <1>1, <1>4, <1>5

\* LogAndApply's Builder: the new version is well formed, and has on each level
\* what the edit keeps and adds.
LEMMA NewVersion ==
  ASSUME NEW base, WellFormed(base), NEW e, NEW t, NEW f, Applies(base, e, t, f)
  PROVE  /\ WellFormed(ApplyEdit(base, e))
         /\ \A l \in Levels :
              /\ ToSet(ApplyEdit(base, e)[l]) =
                   {g \in ToSet(base[l]) : g.number \notin DeletedFiles(e, l)} \cup AddedFiles(e, l)
              /\ \A g : g \in ToSet(ApplyEdit(base, e)[l])
                          <=> \/ g \in ToSet(base[l]) /\ <<l, g.number>> \notin e.deleted_files
                              \/ (l = t /\ g = f /\ e.new_files # {})
<1> DEFINE fs == ApplyEdit(base, e)
<1>1. /\ t \in Levels /\ f \in FileMetaData /\ f.smallest <= f.largest
      /\ \A g \in ToSet(base[t]) : g.number # f.number
      /\ \A l \in Levels : \A g \in ToSet(base[l]) :
           g.number = f.number => <<l, g.number>> \in e.deleted_files
      /\ t > 0 => \A g \in ToSet(base[t]) :
                    <<t, g.number>> \in e.deleted_files \/ ~Overlaps(f, g)
  BY DEF Applies
<1>2. /\ base \in [Levels -> Seq(FileMetaData)]
      /\ \A l \in Levels : Increasing(base[l]) /\ Apart(l, ToSet(base[l]))
      /\ Distinct(base)
  BY DEF WellFormed
<1>3. ASSUME NEW l \in Levels
      PROVE  /\ fs[l] \in Seq(FileMetaData) /\ Increasing(fs[l])
             /\ ToSet(fs[l]) =
                  {g \in ToSet(base[l]) : g.number \notin DeletedFiles(e, l)} \cup AddedFiles(e, l)
  <2> DEFINE A == AddedFiles(e, l)
             D == DeletedFiles(e, l)
  <2>1. fs[l] = SaveTo(base[l], A, D)
    BY DEF ApplyEdit
  <2>2. A \in SUBSET FileMetaData /\ (A = {} \/ \E h \in FileMetaData : A = {h})
    BY <1>1, EditOfLevel
  <2>3. \A h \in A : h.number \notin D /\ \A g \in ToSet(base[l]) : g.number # h.number
    <3>1. AddedFiles(e, l) = IF l = t /\ e.new_files # {} THEN {f} ELSE {}
      BY EditOfLevel
    <3>2. \A h \in AddedFiles(e, l) : h.number \notin DeletedFiles(e, l)
      BY EditOfLevel
    <3> QED
      BY <1>1, <3>1, <3>2
  <2>4. base[l] \in Seq(FileMetaData) /\ Increasing(base[l])
    BY <1>2
  <2> HIDE DEF A, D, fs
  <2>5. /\ SaveTo(base[l], A, D) \in Seq(FileMetaData)
        /\ ToSet(SaveTo(base[l], A, D)) = {g \in ToSet(base[l]) : g.number \notin D} \cup A
        /\ Increasing(SaveTo(base[l], A, D))
    BY <2>2, <2>3, <2>4, Saved
  <2> QED
    BY <2>1, <2>5 DEF A, D
<1>4. fs \in [Levels -> Seq(FileMetaData)]
  <2>1. fs = [l \in Levels |-> fs[l]]
    BY DEF ApplyEdit
  <2> HIDE DEF fs
  <2> QED
    BY <1>3, <2>1
<1> HIDE DEF fs
<1>5. ASSUME NEW l \in Levels, NEW g
      PROVE  g \in ToSet(fs[l]) <=> \/ g \in ToSet(base[l]) /\ <<l, g.number>> \notin e.deleted_files
                                    \/ (l = t /\ g = f /\ e.new_files # {})
  BY <1>1, <1>3, EditOfLevel
<1>6. ASSUME NEW l \in Levels
      PROVE  Apart(l, ToSet(fs[l]))
  <2>1. ASSUME NEW g \in ToSet(fs[l])
        PROVE  /\ g.smallest <= g.largest
               /\ l > 0 => \A h \in ToSet(fs[l]) : g # h => ~Overlaps(g, h)
    <3>1. g.smallest <= g.largest
      BY <1>1, <1>2, <1>5, <2>1 DEF Apart
    <3>2. ASSUME l > 0, NEW h \in ToSet(fs[l]), g # h, Overlaps(g, h)
          PROVE  FALSE
      <4>1. CASE l = t /\ g = f
        BY <1>1, <1>5, <3>2, <4>1
      <4>2. CASE l = t /\ h = f
        <5>1. Overlaps(h, g)
          BY <3>2 DEF Overlaps
        <5> QED
          BY <1>1, <1>5, <2>1, <3>2, <4>2, <5>1
      <4>3. CASE ~(l = t /\ g = f) /\ ~(l = t /\ h = f)
        <5>1. g \in ToSet(base[l]) /\ h \in ToSet(base[l])
          BY <1>5, <2>1, <3>2, <4>3
        <5> QED
          BY <1>2, <3>2, <5>1 DEF Apart
      <4> QED
        BY <4>1, <4>2, <4>3
    <3> QED
      BY <3>1, <3>2
  <2> QED
    BY <2>1 DEF Apart
<1>7. Distinct(fs)
  <2>1. ASSUME NEW l \in Levels, NEW m \in Levels, NEW g \in ToSet(fs[l]), NEW h \in ToSet(fs[m]),
               g.number = h.number
        PROVE  l = m /\ g = h
    <3>1. CASE g \in ToSet(base[l]) /\ h \in ToSet(base[m])
      BY <1>2, <2>1, <3>1 DEF Distinct
    <3>2. \A i \in Levels : \A k \in ToSet(fs[i]) : k.number = f.number => i = t /\ k = f
      BY <1>1, <1>5
    <3>3. CASE l = t /\ g = f
      BY <2>1, <3>2, <3>3
    <3>4. CASE m = t /\ h = f
      BY <2>1, <3>2, <3>4
    <3>5. /\ g \in ToSet(base[l]) \/ (l = t /\ g = f)
          /\ h \in ToSet(base[m]) \/ (m = t /\ h = f)
      BY <1>5, <2>1
    <3> QED
      BY <3>1, <3>3, <3>4, <3>5
  <2> QED
    BY <2>1 DEF Distinct
<1> QED
  BY <1>3, <1>4, <1>5, <1>6, <1>7 DEF fs, WellFormed

\* A file of the new version is one of the base, or the added one.
LEMMA AppliedFile ==
  ASSUME NEW base, WellFormed(base), NEW e, NEW t, NEW f, Applies(base, e, t, f),
         NEW l, l \in Levels, NEW g, g \in ToSet(ApplyEdit(base, e)[l])
  PROVE  g \in ToSet(base[l]) \/ g = f
<1>1. \A h : h \in ToSet(ApplyEdit(base, e)[l])
        <=> \/ h \in ToSet(base[l]) /\ <<l, h.number>> \notin e.deleted_files
            \/ (l = t /\ h = f /\ e.new_files # {})
  BY NewVersion
<1>2. \/ g \in ToSet(base[l]) /\ <<l, g.number>> \notin e.deleted_files
      \/ (l = t /\ g = f /\ e.new_files # {})
  BY <1>1
<1> QED
  BY <1>2

-----------------------------------------------------------------------------
(* Reference counts *)

LEMMA VersionFacts ==
  /\ IsFiniteSet(Versions) /\ Cardinality(Versions) = Cardinality(Readers) + 2
  /\ Cardinality(Readers) \in Nat /\ Versions \subseteq Nat /\ nullptr \notin Versions
  /\ 1 \in Versions
<1>1. Cardinality(Readers) \in Nat
  BY ReaderAssumption, FS_CardinalityType
<1>2. IsFiniteSet(1 .. (Cardinality(Readers) + 2))
  BY <1>1, FS_Interval
<1>3. Cardinality(1 .. (Cardinality(Readers) + 2)) = Cardinality(Readers) + 2
  BY <1>1, FS_Interval
<1> QED
  BY <1>1, <1>2, <1>3 DEF Versions, nullptr

\* The number of versions with a file, and of readers of a version.
Sharing(F, o) == {w \in Versions : o \in Objects(F[w])}
Holders(h, u) == {r \in Readers : h[r] = u}

\* Two functions that are the same on S but for x.
SameBut(F, G, S, x) == x \in S /\ \A w \in S \ {x} : G[w] = F[w]

\* When one version changes, the count of a file changes by that version.
LEMMA FileCount ==
  ASSUME NEW F, NEW G, NEW u, SameBut(F, G, Versions, u), NEW o
  PROVE  /\ Cardinality(Sharing(F, o)) \in Nat
         /\ Cardinality(Sharing(G, o)) \in Nat
         /\ Cardinality(Sharing(G, o)) =
              Cardinality(Sharing(F, o)) + In(o, Objects(G[u])) - In(o, Objects(F[u]))
<1> DEFINE A == Sharing(F, o)
           B == Sharing(G, o)
<1>1. A \ {u} = B \ {u}
  BY DEF Sharing, SameBut
<1>2. In(u, B) = In(o, Objects(G[u])) /\ In(u, A) = In(o, Objects(F[u]))
  BY DEF In, Sharing, SameBut
<1>3. IsFiniteSet(A)
  BY VersionFacts, FS_Subset DEF Sharing
<1> HIDE DEF A, B
<1>4. /\ Cardinality(A) \in Nat /\ Cardinality(B) \in Nat
      /\ Cardinality(B) = Cardinality(A) + In(u, B) - In(u, A)
  BY <1>1, <1>3, CardStep
<1> QED
  BY <1>2, <1>4 DEF A, B

\* When one reader changes, so does the count of the version it takes or drops.
LEMMA HolderCount ==
  ASSUME NEW h, NEW k, NEW r, SameBut(h, k, Readers, r), NEW u
  PROVE  /\ Cardinality(Holders(h, u)) \in Nat
         /\ Cardinality(Holders(k, u)) \in Nat
         /\ Cardinality(Holders(k, u)) = Cardinality(Holders(h, u)) + Eq(k[r], u) - Eq(h[r], u)
<1> DEFINE A == Holders(h, u)
           B == Holders(k, u)
<1>1. A \ {r} = B \ {r}
  BY DEF Holders, SameBut
<1>2. In(r, B) = Eq(k[r], u) /\ In(r, A) = Eq(h[r], u)
  BY DEF In, Eq, Holders, SameBut
<1>3. IsFiniteSet(A)
  BY ReaderAssumption, FS_Subset DEF Holders
<1> HIDE DEF A, B
<1>4. /\ Cardinality(A) \in Nat /\ Cardinality(B) \in Nat
      /\ Cardinality(B) = Cardinality(A) + In(r, B) - In(r, A)
  BY <1>1, <1>3, CardStep
<1> QED
  BY <1>2, <1>4 DEF A, B

\* The two halves of VersionRefs.
HeldExact == \A u \in Versions : refs_[u] = Cardinality(Holders(held, u)) + Eq(u, current_)
FilesExact == \A o \in Levels \X Numbers : refs[o] = Cardinality(Sharing(files_, o))

LEMMA VersionRefsSplit ==
  /\ VersionRefs <=> HeldExact /\ FilesExact
  /\ VersionRefs' <=> HeldExact' /\ FilesExact'
BY DEF VersionRefs, HeldExact, FilesExact, Holders, Sharing, Eq

\* What a version's references say: it is current, or a reader holds it.
LEMMA ReferencedWhen ==
  ASSUME VersionsInv, NEW u \in Versions
  PROVE  /\ refs_[u] \in Nat
         /\ u = current_ => refs_[u] > 0
         /\ \A r \in Readers : held[r] = u => refs_[u] > 0
         /\ refs_[u] = 0 \/ u = current_ \/ \E r \in Readers : held[r] = u
<1>1. refs_[u] = Cardinality(Holders(held, u)) + Eq(u, current_) /\ refs_[u] \in Nat
  BY VersionRefsSplit DEF VersionsInv, HeldExact, Memory
<1>2. Cardinality(Holders(held, u)) \in Nat /\ (Cardinality(Holders(held, u)) = 0 <=> Holders(held, u) = {})
  BY ReaderAssumption, CountZero DEF Holders
<1>3. Eq(u, current_) = IF u = current_ THEN 1 ELSE 0
  BY DEF Eq
<1>4. Holders(held, u) = {} <=> \A r \in Readers : held[r] # u
  BY DEF Holders
<1> HIDE DEF Holders
<1>5. u = current_ => refs_[u] > 0
  BY <1>1, <1>2, <1>3
<1>6. Holders(held, u) # {} => refs_[u] > 0
  BY <1>1, <1>2, <1>3
<1>7. refs_[u] # 0 /\ u # current_ => Holders(held, u) # {}
  BY <1>1, <1>2, <1>3
<1> QED
  BY <1>1, <1>4, <1>5, <1>6, <1>7

\* LogAndApply always has a version to build in: the current one and those of
\* the readers are fewer than all.
LEMMA FreeVersion ==
  ASSUME VersionsInv
  PROVE  \E u \in Versions : refs_[u] = 0
<1> SUFFICES ASSUME \A u \in Versions : refs_[u] # 0
             PROVE  FALSE
  OBVIOUS
<1> DEFINE H == {held[r] : r \in Readers}
<1>1. held \in Surjection(Readers, H)
  <2>1. held \in [Readers -> H]
    BY DEF VersionsInv, Memory
  <2> QED
    BY <2>1 DEF Surjection
<1>2. IsFiniteSet(H) /\ Cardinality(H) <= Cardinality(Readers)
  BY <1>1, ReaderAssumption, FS_Surjection
<1>3. Versions \subseteq H \cup {current_}
  BY ReferencedWhen
<1> HIDE DEF H
<1>4. IsFiniteSet(H \cup {current_}) /\ Cardinality(H \cup {current_}) <= Cardinality(H) + 1
  <2>1. Cardinality(H \cup {current_}) = Cardinality(H) \/ Cardinality(H \cup {current_}) = Cardinality(H) + 1
    BY <1>2, FS_AddElement
  <2> QED
    BY <1>2, <2>1, FS_AddElement, FS_CardinalityType
<1>5. Cardinality(Versions) <= Cardinality(H \cup {current_})
  BY <1>3, <1>4, FS_Subset
<1>6. Cardinality(H) \in Nat /\ Cardinality(H \cup {current_}) \in Nat
  BY <1>2, <1>4, FS_CardinalityType
<1> QED
  BY <1>2, <1>4, <1>5, <1>6, VersionFacts

-----------------------------------------------------------------------------
(* The steps *)

\* LogAndApply with an edit that applies: a version without references gets the
\* new files.
LEMMA LogAndApplyInv ==
  ASSUME VersionsInv, NEW e, LogAndApply(e, caller'), pc = "idle",
         NEW t, NEW f, Applies(files_[current_], e, t, f),
         next_file_number_' \in 3 .. (MaxFileNumber + 1),
         next_file_number_ <= next_file_number_', f.number < next_file_number_',
         tables \subseteq tables', tables' \subseteq Numbers,
         e.new_files # {} => f.number \in tables'
  PROVE  /\ VersionsInv'
         /\ v' \in Versions /\ v' # current_ /\ files_[v'] = NoFiles
         /\ files_' = [files_ EXCEPT ![v'] = ApplyEdit(files_[current_], e)]
         /\ \A l \in Levels :
              ToSet(files_'[v'][l]) =
                {g \in ToSet(files_[current_][l]) : g.number \notin DeletedFiles(e, l)}
                  \cup AddedFiles(e, l)
<1> DEFINE fs == ApplyEdit(files_[current_], e)
<1>1. /\ v' \in Versions /\ refs_[v'] = 0
  BY FreeVersion DEF LogAndApply
<1>2. /\ files_' = [files_ EXCEPT ![v'] = fs] /\ refs' = RefFiles(fs)
      /\ pc' = "append"
      /\ UNCHANGED <<current_, refs_, logfile_number_, imm_, imm_keys, held>>
  BY DEF LogAndApply, wal
<1>3. Memory /\ Vacant /\ OnDisk /\ HeldExact /\ FilesExact
  BY VersionRefsSplit DEF VersionsInv
<1>4. v = nullptr /\ v' # nullptr /\ v' # current_ /\ files_[v'] = NoFiles
  BY <1>1, <1>2, <1>3, VersionFacts, ReferencedWhen DEF Vacant
<1>5. WellFormed(files_[current_])
  BY <1>3 DEF Memory
<1>6. /\ WellFormed(fs)
      /\ \A l \in Levels :
           /\ ToSet(fs[l]) =
                {g \in ToSet(files_[current_][l]) : g.number \notin DeletedFiles(e, l)} \cup AddedFiles(e, l)
           /\ \A g : g \in ToSet(fs[l])
                       <=> \/ g \in ToSet(files_[current_][l]) /\ <<l, g.number>> \notin e.deleted_files
                           \/ (l = t /\ g = f /\ e.new_files # {})
  BY <1>5, NewVersion
<1> HIDE DEF fs
<1>7. DOMAIN files_ = Versions /\ DOMAIN files_' = Versions
      /\ files_'[v'] = fs /\ \A u \in Versions \ {v'} : files_'[u] = files_[u]
  BY <1>1, <1>2, <1>3 DEF Memory
<1>8. fs \in [Levels -> Seq(FileMetaData)]
  BY <1>6 DEF WellFormed
<1>9. \A o \in Levels \X Numbers : refs'[o] = refs[o] + In(o, Objects(fs)) /\ refs[o] \in Nat /\ refs'[o] \in Nat
  BY <1>2, <1>3 DEF RefFiles, In, Memory
<1>10. Memory'
  <2>1. \A u \in Versions : WellFormed(files_'[u])
    BY <1>3, <1>6, <1>7 DEF Memory
  <2>2. (\A u \in Versions : WellFormed(files_[u]))'
    BY <2>1
  <2>3. refs' \in [Levels \X Numbers -> Nat]
    BY <1>2, <1>9 DEF RefFiles
  <2>4. logfile_number_ < next_file_number_'
    BY <1>3 DEF Memory, Numbers
  <2> QED
    BY <1>1, <1>2, <1>3, <1>7, <2>2, <2>3, <2>4 DEF Memory
<1>11. HeldExact'
  BY <1>2, <1>3 DEF HeldExact, Holders
<1>12. FilesExact'
  <2> SUFFICES ASSUME NEW o \in Levels \X Numbers
               PROVE  refs'[o] = Cardinality(Sharing(files_', o))
    BY DEF FilesExact, Sharing
  <2>1. /\ Cardinality(Sharing(files_, o)) \in Nat
        /\ Cardinality(Sharing(files_', o)) =
             Cardinality(Sharing(files_, o)) + In(o, Objects(fs)) - In(o, Objects(files_[v']))
    <3>1. SameBut(files_, files_', Versions, v')
      BY <1>1, <1>7 DEF SameBut
    <3> QED
      BY <1>7, <3>1, FileCount
  <2>2. In(o, Objects(files_[v'])) = 0
    BY <1>4, NoObjects DEF In
  <2>3. In(o, Objects(fs)) \in Nat
    BY DEF In
  <2>4. refs[o] = Cardinality(Sharing(files_, o))
    BY <1>3 DEF FilesExact
  <2> QED
    BY <1>9, <2>1, <2>2, <2>3, <2>4
<1>13. Vacant'
  <2>1. (v' = nullptr <=> pc' = "idle") /\ (v' # nullptr => refs_'[v'] = 0)
    BY <1>1, <1>2, <1>4
  <2>2. \A u \in Versions : refs_'[u] = 0 /\ u # v' => files_'[u] = NoFiles
    BY <1>2, <1>3, <1>4, <1>7, VersionFacts DEF Vacant
  <2> QED
    BY <2>1, <2>2 DEF Vacant
<1>14. OnDisk'
  <2> SUFFICES ASSUME NEW u \in Versions, NEW l \in Levels, NEW g \in ToSet(files_'[u][l])
               PROVE  g.number \in tables' /\ g.number < next_file_number_'
    BY DEF OnDisk
  <2>0. next_file_number_ \in Int /\ next_file_number_' \in Int /\ MaxFileNumber \in Int
    BY <1>3, LimitAssumption DEF Memory
  <2>1. ASSUME NEW w \in Versions, g \in ToSet(files_[w][l])
        PROVE  g.number \in tables' /\ g.number < next_file_number_'
    <3>1. g.number \in tables /\ g.number < next_file_number_
      BY <1>3, <2>1 DEF OnDisk
    <3>2. g.number \in Int
      <4>1. tables \subseteq Numbers /\ Numbers \subseteq Int
        BY <1>3 DEF Memory, Numbers
      <4> QED
        BY <3>1, <4>1
    <3> QED
      BY <2>0, <3>1, <3>2
  <2>2. CASE u = v'
    <3>1. g \in ToSet(files_[current_][l]) \/ (g = f /\ e.new_files # {})
      BY <1>6, <1>7, <2>2
    <3>2. current_ \in Versions
      BY <1>3 DEF Memory
    <3> QED
      BY <2>1, <3>1, <3>2
  <2>3. CASE u # v'
    BY <1>7, <2>1, <2>3
  <2> QED
    BY <2>2, <2>3
<1> QED
  BY <1>1, <1>2, <1>4, <1>6, <1>7, <1>10, <1>11, <1>12, <1>13, <1>14, VersionRefsSplit DEF VersionsInv, fs

\* The number of a file of a version is that of a live table.
LEMMA LiveTable ==
  ASSUME NEW F, NEW u \in Versions, WellFormed(F[u]), NEW l \in Levels, NEW g \in ToSet(F[u][l])
  PROVE  g.number \in LiveTables(F)
<1>1. <<l, g.number>> \in Objects(F[u])
  BY ObjectsOf DEF WellFormed
<1>2. <<l, g.number>>[2] = g.number
  OBVIOUS
<1> QED
  BY <1>1, <1>2 DEF LiveTables

\* A step that leaves the versions alone.
LEMMA QuietInv ==
  ASSUME VersionsInv,
         UNCHANGED <<current_, files_, refs_, refs, v, held>>,
         tables' \subseteq Numbers, tables \cap LiveTables(files_) \subseteq tables',
         imm_keys' \in SUBSET UserKeys, IsFiniteSet(imm_keys'),
         next_file_number_' \in 3 .. (MaxFileNumber + 1), next_file_number_ <= next_file_number_',
         pc' \in {"idle", "append", "sync", "current", "install"}, pc' = "idle" <=> pc = "idle",
         logfile_number_' \in Numbers /\ imm_' \in Numbers \cup {nullptr},
         logfile_number_' < next_file_number_'
  PROVE  VersionsInv'
<1>1. Memory /\ Vacant /\ OnDisk /\ HeldExact /\ FilesExact
  BY VersionRefsSplit DEF VersionsInv
<1>2. Memory'
  BY <1>1 DEF Memory
<1>3. Vacant'
  BY <1>1 DEF Vacant
<1>4. HeldExact' /\ FilesExact'
  BY <1>1 DEF HeldExact, FilesExact, Holders, Sharing
<1>5. OnDisk'
  <2> SUFFICES ASSUME NEW u \in Versions, NEW l \in Levels, NEW g \in ToSet(files_[u][l])
               PROVE  g.number \in tables' /\ g.number < next_file_number_'
    BY DEF OnDisk
  <2>1. g.number \in tables /\ g.number < next_file_number_
    BY <1>1 DEF OnDisk
  <2>3. g.number \in LiveTables(files_)
    BY LiveTable DEF VersionsInv, Memory
  <2>2. g.number \in Int /\ next_file_number_ \in Int /\ next_file_number_' \in Int
    <3>1. tables \subseteq Numbers /\ Numbers \subseteq Int
      BY <1>1 DEF Memory, Numbers
    <3>2. next_file_number_ \in Int /\ next_file_number_' \in Int
      BY <1>1, LimitAssumption DEF Memory
    <3> QED
      BY <2>1, <3>1, <3>2
  <2> QED
    BY <2>1, <2>2, <2>3
<1> QED
  BY <1>2, <1>3, <1>4, <1>5, VersionRefsSplit DEF VersionsInv

LEMMA ManifestStepInv ==
  ASSUME VersionsInv, AppendRecord \/ SyncRecord \/ SetCurrentFile
  PROVE  VersionsInv'
<1>1. /\ UNCHANGED <<current_, files_, refs_, refs, tables, v, held>>
      /\ UNCHANGED <<next_file_number_, logfile_number_, imm_, imm_keys>>
      /\ pc # "idle" /\ pc' \in {"sync", "current", "install"}
  BY DEF AppendRecord, SyncRecord, SetCurrentFile, memory, files, wal, locals
<1>2. /\ next_file_number_ \in 3 .. (MaxFileNumber + 1) /\ tables \subseteq Numbers
      /\ imm_keys \in SUBSET UserKeys /\ IsFiniteSet(imm_keys)
      /\ logfile_number_ \in Numbers /\ imm_ \in Numbers \cup {nullptr}
      /\ logfile_number_ < next_file_number_
  BY DEF VersionsInv, Memory
<1>3. next_file_number_ <= next_file_number_'
  BY <1>1, <1>2, LimitAssumption
<1> QED
  BY <1>1, <1>2, <1>3, QuietInv

LEMMA SwitchLogInv ==
  ASSUME VersionsInv, NEW K \in SUBSET UserKeys, SwitchLog(K)
  PROVE  VersionsInv'
<1>1. /\ UNCHANGED <<current_, files_, refs_, refs, tables, v, held, pc>>
      /\ next_file_number_ \in Numbers /\ next_file_number_' = next_file_number_ + 1
      /\ imm_' = logfile_number_ /\ logfile_number_' = next_file_number_
      /\ imm_keys' = K /\ IsFiniteSet(K)
  BY DEF SwitchLog, NewFileNumber, memory, locals
<1>2. /\ next_file_number_ \in 3 .. (MaxFileNumber + 1) /\ logfile_number_ \in Numbers
      /\ pc \in {"idle", "append", "sync", "current", "install"} /\ tables \subseteq Numbers
  BY DEF VersionsInv, Memory
<1>3. /\ next_file_number_' \in 3 .. (MaxFileNumber + 1) /\ next_file_number_ <= next_file_number_'
      /\ logfile_number_' < next_file_number_'
  BY <1>1, <1>2, LimitAssumption DEF Numbers
<1> QED
  BY <1>1, <1>2, <1>3, QuietInv

\* The steps that work on tables without an edit.
TableStep ==
  \/ FlushFails \/ WorkFails \/ OpenOutput
  \/ \E l \in Levels : \E f \in InLevel(l) : PickCompaction(l, f)

LEMMA TableStepInv ==
  ASSUME VersionsInv,
         TableStep
  PROVE  VersionsInv'
<1>1. /\ UNCHANGED <<current_, files_, refs_, refs, v, held, pc>>
      /\ UNCHANGED <<logfile_number_, imm_, imm_keys>>
      /\ \/ UNCHANGED <<next_file_number_, tables>>
         \/ UNCHANGED next_file_number_ /\ tables' = tables \cap LiveTables(files_)
         \/ /\ next_file_number_ \in Numbers /\ next_file_number_' = next_file_number_ + 1
            /\ tables' \in {tables, tables \cup {next_file_number_}}
  <2>1. CASE FlushFails
    BY <2>1 DEF FlushFails, NewFileNumber, memory, wal, locals
  <2>2. CASE WorkFails
    BY <2>2 DEF WorkFails, RemoveObsoleteFiles, memory, wal, locals
  <2>3. CASE OpenOutput
    BY <2>3 DEF OpenOutput, NewFileNumber, memory, wal, locals
  <2>4. ASSUME NEW l \in Levels, NEW f \in InLevel(l), PickCompaction(l, f)
        PROVE  /\ UNCHANGED <<current_, files_, refs_, refs, v, held, pc>>
               /\ UNCHANGED <<logfile_number_, imm_, imm_keys>>
               /\ UNCHANGED <<next_file_number_, tables>>
    BY <2>4 DEF PickCompaction, memory, files, wal, locals
  <2> QED
    BY <2>1, <2>2, <2>3, <2>4 DEF TableStep
<1>2. /\ next_file_number_ \in 3 .. (MaxFileNumber + 1) /\ tables \subseteq Numbers
      /\ logfile_number_ \in Numbers /\ imm_ \in Numbers \cup {nullptr}
      /\ imm_keys \in SUBSET UserKeys /\ IsFiniteSet(imm_keys)
      /\ logfile_number_ < next_file_number_
      /\ pc \in {"idle", "append", "sync", "current", "install"}
  BY DEF VersionsInv, Memory
<1>3. /\ next_file_number_' \in 3 .. (MaxFileNumber + 1) /\ next_file_number_ <= next_file_number_'
      /\ logfile_number_ < next_file_number_'
  BY <1>1, <1>2, LimitAssumption DEF Numbers
<1>4. tables' \subseteq Numbers /\ tables \cap LiveTables(files_) \subseteq tables'
  BY <1>1, <1>2
<1> QED
  BY <1>1, <1>2, <1>3, <1>4, QuietInv

\* A version that is deleted takes its references on files with it.
LEMMA DeletedVersion ==
  ASSUME VersionsInv, NEW u \in Versions,
         refs' = UnrefFiles(files_[u]), files_' = [files_ EXCEPT ![u] = NoFiles]
  PROVE  /\ FilesExact' /\ refs' \in [Levels \X Numbers -> Nat]
         /\ DOMAIN files_' = Versions /\ files_'[u] = NoFiles
         /\ \A w \in Versions \ {u} : files_'[w] = files_[w]
         /\ \A w \in Versions : WellFormed(files_'[w])
<1>1. Memory /\ FilesExact
  BY VersionRefsSplit DEF VersionsInv
<1>2. /\ DOMAIN files_' = Versions /\ files_'[u] = NoFiles
      /\ \A w \in Versions \ {u} : files_'[w] = files_[w]
  BY <1>1 DEF Memory
<1>3. \A w \in Versions : WellFormed(files_'[w])
  BY <1>1, <1>2, NoFilesFacts DEF Memory
<1>4. ASSUME NEW o \in Levels \X Numbers
      PROVE  refs'[o] = Cardinality(Sharing(files_', o)) /\ refs'[o] \in Nat
  <2>1. SameBut(files_, files_', Versions, u)
    BY <1>2 DEF SameBut
  <2>2. /\ Cardinality(Sharing(files_, o)) \in Nat /\ Cardinality(Sharing(files_', o)) \in Nat
        /\ Cardinality(Sharing(files_', o)) =
             Cardinality(Sharing(files_, o)) + In(o, Objects(files_'[u])) - In(o, Objects(files_[u]))
    <3> DEFINE F == files_
               G == files_'
    <3>1. SameBut(F, G, Versions, u)
      BY <2>1
    <3> HIDE DEF F, G
    <3>2. /\ Cardinality(Sharing(F, o)) \in Nat /\ Cardinality(Sharing(G, o)) \in Nat
          /\ Cardinality(Sharing(G, o)) =
               Cardinality(Sharing(F, o)) + In(o, Objects(G[u])) - In(o, Objects(F[u]))
      BY <3>1, FileCount
    <3> QED
      BY <3>2, Zenon DEF F, G
  <2>3. In(o, Objects(files_'[u])) = 0
    BY <1>2, NoObjects DEF In
  <2>4. refs'[o] = refs[o] - In(o, Objects(files_[u])) /\ In(o, Objects(files_[u])) \in Nat
    <3>1. refs[o] \in Nat
      BY <1>1 DEF Memory
    <3> QED
      BY <3>1 DEF UnrefFiles, In
  <2>5. refs[o] = Cardinality(Sharing(files_, o))
    BY <1>1 DEF FilesExact
  <2> QED
    BY <2>2, <2>3, <2>4, <2>5
<1>5. refs' \in [Levels \X Numbers -> Nat]
  BY <1>4 DEF UnrefFiles
<1>6. FilesExact'
  BY <1>4 DEF FilesExact, Sharing
<1> QED
  BY <1>2, <1>3, <1>5, <1>6

\* Version::Unref deletes the version with its last reference only.
LEMMA UnrefVersionEffect ==
  ASSUME VersionsInv, NEW u \in Versions, UnrefVersion(u)
  PROVE  /\ FilesExact' /\ refs' \in [Levels \X Numbers -> Nat]
         /\ DOMAIN files_' = Versions
         /\ refs_[u] = 1 => files_'[u] = NoFiles
         /\ refs_[u] # 1 => files_'[u] = files_[u]
         /\ \A w \in Versions \ {u} : files_'[w] = files_[w]
         /\ \A w \in Versions : WellFormed(files_'[w])
<1>1. CASE refs_[u] = 1
  BY <1>1, DeletedVersion DEF UnrefVersion
<1>2. CASE refs_[u] # 1
  <2>1. files_' = files_ /\ refs' = refs
    BY <1>2 DEF UnrefVersion
  <2>2. Memory /\ FilesExact
    BY VersionRefsSplit DEF VersionsInv
  <2> QED
    BY <1>2, <2>1, <2>2 DEF Memory, FilesExact, Sharing
<1> QED
  BY <1>1, <1>2

\* Versions that change by losing their files are still on disk.
LEMMA StillOnDisk ==
  ASSUME VersionsInv,
         \A u \in Versions : files_'[u] = files_[u] \/ files_'[u] = NoFiles,
         tables \cap LiveTables(files_') \subseteq tables',
         \A u \in Versions : WellFormed(files_'[u]), next_file_number_' = next_file_number_
  PROVE  OnDisk'
<1> SUFFICES ASSUME NEW u \in Versions, NEW l \in Levels, NEW g \in ToSet(files_'[u][l])
             PROVE  g.number \in tables' /\ g.number < next_file_number_'
  BY DEF OnDisk
<1>1. g \in ToSet(files_[u][l])
  BY NoFilesFacts
<1>2. g.number \in tables /\ g.number < next_file_number_
  BY <1>1 DEF VersionsInv, OnDisk
<1>3. g.number \in LiveTables(files_')
  BY LiveTable
<1> QED
  BY <1>2, <1>3

\* What CallerGoesOn does to the tables and to the memtable.
LEMMA CallerEffect ==
  ASSUME CallerGoesOn
  PROVE  /\ tables' \subseteq tables /\ tables \cap LiveTables(files_') \subseteq tables'
         /\ imm_' \in {imm_, nullptr} /\ imm_keys' \in {imm_keys, {}}
         /\ pc' = "idle" /\ v' = nullptr /\ caller' = "none"
         /\ compact' = (IF caller = "DoCompactionWork" THEN NoCompaction ELSE compact)
         /\ caller # "DoCompactionWork" /\ compact.output \in tables /\ compact.output # 0
              => compact.output \in tables'
         /\ UNCHANGED <<next_file_number_, logfile_number_, held>>
<1>1. /\ tables' \subseteq tables /\ tables \cap LiveTables(files_') \subseteq tables'
      /\ caller # "DoCompactionWork" /\ compact.output \in tables /\ compact.output # 0
           => compact.output \in tables'
  BY DEF CallerGoesOn, RemoveObsoleteFiles, PendingOutputs, files
<1> QED
  BY <1>1 DEF CallerGoesOn

LEMMA RefVersionInv ==
  ASSUME VersionsInv, NEW r \in Readers, RefVersion(r)
  PROVE  VersionsInv'
<1>1. Memory /\ Vacant /\ OnDisk /\ HeldExact /\ FilesExact
  BY VersionRefsSplit DEF VersionsInv
<1>2. /\ held[r] = nullptr /\ held' = [held EXCEPT ![r] = current_]
      /\ refs_' = [refs_ EXCEPT ![current_] = @ + 1]
      /\ UNCHANGED <<current_, files_, refs, tables, next_file_number_, pc, v>>
      /\ UNCHANGED <<logfile_number_, imm_, imm_keys>>
  BY DEF RefVersion, files, wal, locals
<1>3. current_ \in Versions /\ held \in [Readers -> Versions \cup {nullptr}] /\ refs_ \in [Versions -> Nat]
  BY <1>1 DEF Memory
<1>4. refs_' \in [Versions -> Nat] /\ held' \in [Readers -> Versions \cup {nullptr}]
  BY <1>2, <1>3
<1>5. Memory'
  BY <1>1, <1>2, <1>4 DEF Memory
<1>6. HeldExact'
  <2> SUFFICES ASSUME NEW u \in Versions
               PROVE  refs_'[u] = Cardinality(Holders(held', u)) + Eq(u, current_)
    BY <1>2 DEF HeldExact, Holders
  <2>1. SameBut(held, held', Readers, r) /\ held'[r] = current_
    BY <1>2, <1>3 DEF SameBut
  <2>2. /\ Cardinality(Holders(held, u)) \in Nat /\ Cardinality(Holders(held', u)) \in Nat
        /\ Cardinality(Holders(held', u)) = Cardinality(Holders(held, u)) + Eq(held'[r], u) - Eq(held[r], u)
    BY <2>1, HolderCount
  <2>3. Eq(held[r], u) = 0 /\ Eq(held'[r], u) = Eq(u, current_)
    BY <1>2, <2>1, VersionFacts DEF Eq
  <2>4. refs_'[u] = refs_[u] + Eq(u, current_) /\ Eq(u, current_) \in Nat
    BY <1>2, <1>3 DEF Eq
  <2>5. refs_[u] = Cardinality(Holders(held, u)) + Eq(u, current_) /\ refs_[u] \in Nat
    BY <1>1, <1>3 DEF HeldExact
  <2> QED
    BY <2>2, <2>3, <2>4, <2>5
<1>7. FilesExact'
  BY <1>1, <1>2 DEF FilesExact, Sharing
<1>8. Vacant'
  <2>1. \A u \in Versions : refs_'[u] = 0 => refs_[u] = 0
    BY <1>2, <1>3
  <2>2. v # nullptr => v \in Versions /\ v # current_
    BY <1>1, <1>3, ReferencedWhen DEF Memory, Vacant
  <2>3. v # nullptr => refs_'[v] = 0
    BY <1>1, <1>2, <1>3, <2>2 DEF Vacant
  <2> QED
    BY <1>1, <1>2, <2>1, <2>3 DEF Vacant
<1>9. OnDisk'
  BY <1>1, <1>2 DEF OnDisk
<1> QED
  BY <1>5, <1>6, <1>7, <1>8, <1>9, VersionRefsSplit DEF VersionsInv

LEMMA DropVersionInv ==
  ASSUME VersionsInv, NEW r \in Readers, DropVersion(r)
  PROVE  VersionsInv'
<1> DEFINE w == held[r]
<1>1. Memory /\ Vacant /\ OnDisk /\ HeldExact /\ FilesExact
  BY VersionRefsSplit DEF VersionsInv
<1>2. /\ w # nullptr /\ held' = [held EXCEPT ![r] = nullptr]
      /\ refs_' = [refs_ EXCEPT ![w] = @ - 1]
      /\ UnrefVersion(w)
      /\ UNCHANGED <<current_, tables, next_file_number_, pc, v>>
      /\ UNCHANGED <<logfile_number_, imm_, imm_keys>>
  BY DEF DropVersion, files, wal, locals
<1>3. current_ \in Versions /\ held \in [Readers -> Versions \cup {nullptr}] /\ refs_ \in [Versions -> Nat]
  BY <1>1 DEF Memory
<1>4. w \in Versions /\ refs_[w] > 0
  BY <1>2, <1>3, ReferencedWhen
<1> HIDE DEF w
<1>5. refs_' \in [Versions -> Nat] /\ held' \in [Readers -> Versions \cup {nullptr}]
  BY <1>2, <1>3, <1>4
<1>6. /\ FilesExact' /\ refs' \in [Levels \X Numbers -> Nat]
      /\ DOMAIN files_' = Versions
      /\ refs_[w] = 1 => files_'[w] = NoFiles
      /\ refs_[w] # 1 => files_'[w] = files_[w]
      /\ \A u \in Versions \ {w} : files_'[u] = files_[u]
      /\ \A u \in Versions : WellFormed(files_'[u])
  BY <1>2, <1>4, UnrefVersionEffect
<1>7. Memory'
  <2>1. (\A u \in Versions : WellFormed(files_[u]))'
    BY <1>6
  <2> QED
    BY <1>1, <1>2, <1>5, <1>6, <2>1 DEF Memory
<1>8. HeldExact'
  <2> SUFFICES ASSUME NEW u \in Versions
               PROVE  refs_'[u] = Cardinality(Holders(held', u)) + Eq(u, current_)
    BY <1>2 DEF HeldExact, Holders
  <2>1. SameBut(held, held', Readers, r) /\ held'[r] = nullptr
    BY <1>2, <1>3 DEF SameBut
  <2>2. /\ Cardinality(Holders(held, u)) \in Nat /\ Cardinality(Holders(held', u)) \in Nat
        /\ Cardinality(Holders(held', u)) = Cardinality(Holders(held, u)) + Eq(held'[r], u) - Eq(held[r], u)
    BY <2>1, HolderCount
  <2>3. Eq(held'[r], u) = 0 /\ Eq(held[r], u) = Eq(w, u) /\ Eq(w, u) \in Nat
    BY <2>1, VersionFacts DEF Eq, w
  <2>4. refs_'[u] = refs_[u] - Eq(w, u)
    BY <1>2, <1>3, <1>4 DEF Eq
  <2>5. refs_[u] = Cardinality(Holders(held, u)) + Eq(u, current_) /\ refs_[u] \in Nat
    BY <1>1, <1>3 DEF HeldExact
  <2>6. Eq(u, current_) \in Nat
    BY DEF Eq
  <2> QED
    BY <2>2, <2>3, <2>4, <2>5, <2>6
<1>9. Vacant'
  <2>1. \A u \in Versions : refs_'[u] = IF u = w THEN refs_[u] - 1 ELSE refs_[u]
    BY <1>2, <1>3
  <2>2. v # nullptr => v \in Versions /\ v # w
    BY <1>1, <1>4 DEF Memory, Vacant
  <2>3. v # nullptr => refs_'[v] = 0
    BY <1>1, <2>1, <2>2 DEF Vacant
  <2>4. ASSUME NEW u \in Versions, refs_'[u] = 0, u # v
        PROVE  files_'[u] = NoFiles
    <3>1. CASE u = w
      BY <1>3, <1>4, <1>6, <2>1, <2>4, <3>1
    <3>2. CASE u # w
      BY <1>1, <1>6, <2>1, <2>4, <3>2 DEF Vacant
    <3> QED
      BY <3>1, <3>2
  <2> QED
    BY <1>1, <1>2, <2>3, <2>4 DEF Vacant
<1>10. OnDisk'
  <2>1. \A u \in Versions : files_'[u] = files_[u] \/ files_'[u] = NoFiles
    BY <1>4, <1>6
  <2> QED
    BY <1>2, <1>6, <2>1, StillOnDisk
<1> QED
  BY <1>6, <1>7, <1>8, <1>9, <1>10, VersionRefsSplit DEF VersionsInv

LEMMA InstallInv ==
  ASSUME VersionsInv, Install
  PROVE  VersionsInv'
<1>1. Memory /\ Vacant /\ OnDisk /\ HeldExact /\ FilesExact
  BY VersionRefsSplit DEF VersionsInv
<1>2. /\ refs_' = [refs_ EXCEPT ![v] = 1, ![current_] = @ - 1]
      /\ UnrefVersion(current_) /\ current_' = v
      /\ tables' \subseteq tables /\ tables \cap LiveTables(files_') \subseteq tables'
      /\ pc = "install" /\ pc' = "idle" /\ v' = nullptr
      /\ imm_' \in {imm_, nullptr} /\ imm_keys' \in {imm_keys, {}}
      /\ UNCHANGED <<next_file_number_, logfile_number_, held>>
  BY CallerEffect DEF Install, AppendVersion
<1>3. current_ \in Versions /\ held \in [Readers -> Versions \cup {nullptr}] /\ refs_ \in [Versions -> Nat]
  BY <1>1 DEF Memory
<1>4. v \in Versions /\ refs_[v] = 0 /\ v # nullptr
  BY <1>1, <1>2 DEF Memory, Vacant
<1>5. refs_[current_] > 0 /\ v # current_
  BY <1>3, <1>4, ReferencedWhen
<1>6. \A u \in Versions : refs_'[u] = IF u = v THEN 1 ELSE IF u = current_ THEN refs_[u] - 1 ELSE refs_[u]
  BY <1>2, <1>3, <1>4, <1>5
<1>7. refs_' \in [Versions -> Nat]
  BY <1>2, <1>3, <1>4, <1>5
<1>8. /\ FilesExact' /\ refs' \in [Levels \X Numbers -> Nat]
      /\ DOMAIN files_' = Versions
      /\ refs_[current_] = 1 => files_'[current_] = NoFiles
      /\ refs_[current_] # 1 => files_'[current_] = files_[current_]
      /\ \A u \in Versions \ {current_} : files_'[u] = files_[u]
      /\ \A u \in Versions : WellFormed(files_'[u])
  BY <1>2, <1>3, UnrefVersionEffect
<1>9. Memory'
  <2>1. (\A u \in Versions : WellFormed(files_[u]))'
    BY <1>8
  <2>2. /\ tables' \subseteq Numbers /\ imm_' \in Numbers \cup {nullptr}
        /\ imm_keys' \in SUBSET UserKeys /\ IsFiniteSet(imm_keys')
    BY <1>1, <1>2, FS_EmptySet DEF Memory
  <2> QED
    BY <1>1, <1>2, <1>4, <1>7, <1>8, <2>1, <2>2 DEF Memory
<1>10. HeldExact'
  <2> SUFFICES ASSUME NEW u \in Versions
               PROVE  refs_'[u] = Cardinality(Holders(held, u)) + Eq(u, v)
    BY <1>2 DEF HeldExact, Holders
  <2>1. refs_[u] = Cardinality(Holders(held, u)) + Eq(u, current_) /\ refs_[u] \in Nat
    BY <1>1, <1>3 DEF HeldExact
  <2>2. Cardinality(Holders(held, u)) \in Nat
    BY ReaderAssumption, CountZero DEF Holders
  <2> QED
    BY <1>4, <1>5, <1>6, <2>1, <2>2 DEF Eq
<1>11. Vacant'
  <2>1. ASSUME NEW u \in Versions, refs_'[u] = 0
        PROVE  files_'[u] = NoFiles
    <3>1. u # v
      BY <1>6, <2>1
    <3>2. CASE u = current_
      BY <1>3, <1>5, <1>6, <1>8, <2>1, <3>1, <3>2
    <3>3. CASE u # current_
      BY <1>1, <1>6, <1>8, <2>1, <3>1, <3>3 DEF Vacant
    <3> QED
      BY <3>2, <3>3
  <2> QED
    BY <1>2, <2>1 DEF Vacant
<1>12. OnDisk'
  <2>1. \A u \in Versions : files_'[u] = files_[u] \/ files_'[u] = NoFiles
    BY <1>3, <1>8
  <2> QED
    BY <1>2, <1>8, <2>1, StillOnDisk
<1> QED
  BY <1>8, <1>9, <1>10, <1>11, <1>12, VersionRefsSplit DEF VersionsInv

LEMMA AbandonInv ==
  ASSUME VersionsInv, Abandon
  PROVE  VersionsInv'
<1>1. Memory /\ Vacant /\ OnDisk /\ HeldExact /\ FilesExact
  BY VersionRefsSplit DEF VersionsInv
<1>2. /\ refs' = UnrefFiles(files_[v]) /\ files_' = [files_ EXCEPT ![v] = NoFiles]
      /\ pc = "install" /\ pc' = "idle" /\ v' = nullptr
      /\ tables' \subseteq tables /\ tables \cap LiveTables(files_') \subseteq tables'
      /\ imm_' \in {imm_, nullptr} /\ imm_keys' \in {imm_keys, {}}
      /\ UNCHANGED <<current_, refs_, next_file_number_, logfile_number_, held>>
  BY CallerEffect DEF Abandon
<1>3. v \in Versions
  BY <1>1, <1>2 DEF Memory, Vacant
<1>4. /\ FilesExact' /\ refs' \in [Levels \X Numbers -> Nat]
      /\ DOMAIN files_' = Versions /\ files_'[v] = NoFiles
      /\ \A w \in Versions \ {v} : files_'[w] = files_[w]
      /\ \A w \in Versions : WellFormed(files_'[w])
  BY <1>2, <1>3, DeletedVersion
<1>5. Memory'
  <2>1. (\A u \in Versions : WellFormed(files_[u]))'
    BY <1>4
  <2>2. /\ tables' \subseteq Numbers /\ imm_' \in Numbers \cup {nullptr}
        /\ imm_keys' \in SUBSET UserKeys /\ IsFiniteSet(imm_keys')
    BY <1>1, <1>2, FS_EmptySet DEF Memory
  <2> QED
    BY <1>1, <1>2, <1>4, <2>1, <2>2 DEF Memory
<1>6. HeldExact'
  BY <1>1, <1>2 DEF HeldExact, Holders
<1>7. Vacant'
  <2>1. \A u \in Versions : refs_[u] = 0 => files_'[u] = NoFiles
    BY <1>1, <1>3, <1>4 DEF Vacant
  <2> QED
    BY <1>2, <2>1 DEF Vacant
<1>8. OnDisk'
  <2>1. \A u \in Versions : files_'[u] = files_[u] \/ files_'[u] = NoFiles
    BY <1>3, <1>4
  <2> QED
    BY <1>2, <1>4, <2>1, StillOnDisk
<1> QED
  BY <1>4, <1>5, <1>6, <1>7, <1>8, VersionRefsSplit DEF VersionsInv

-----------------------------------------------------------------------------
(* The callers' edits apply *)

\* The edits of the callers: of a flush, and of a compaction.
Adding(x, n) == [NoEdit EXCEPT !.new_files = x, !.log_number = n]
Moving(x, d) == [NoEdit EXCEPT !.new_files = x, !.deleted_files = d]

LEMMA AddingFields ==
  ASSUME NEW x \in SUBSET (Levels \X FileMetaData), NEW n \in Nat
  PROVE  /\ Adding(x, n) \in VersionEdits /\ Adding(x, n).new_files = x
         /\ Adding(x, n).deleted_files = {} /\ Adding(x, n).log_number = n
<1> DEFINE X == SUBSET (Levels \X FileMetaData)
           D == SUBSET (Levels \X Numbers)
<1>1. x \in X /\ {} \in D
  OBVIOUS
<1>2. VersionEdits = [new_files : X, deleted_files : D, log_number : Nat, next_file : Nat]
  BY DEF VersionEdits
<1> HIDE DEF X, D
<1> QED
  BY <1>1, <1>2 DEF NoEdit, Adding

LEMMA MovingFields ==
  ASSUME NEW x \in SUBSET (Levels \X FileMetaData), NEW d \in SUBSET (Levels \X Numbers)
  PROVE  /\ Moving(x, d) \in VersionEdits /\ Moving(x, d).new_files = x
         /\ Moving(x, d).deleted_files = d /\ Moving(x, d).log_number = 0
<1> DEFINE X == SUBSET (Levels \X FileMetaData)
           D == SUBSET (Levels \X Numbers)
<1>1. x \in X /\ d \in D
  OBVIOUS
<1>2. VersionEdits = [new_files : X, deleted_files : D, log_number : Nat, next_file : Nat]
  BY DEF VersionEdits
<1> HIDE DEF X, D
<1> QED
  BY <1>1, <1>2 DEF NoEdit, Moving

\* A number that was never given out is not that of a file.
LEMMA FreshNumber ==
  ASSUME VersionsInv, NEW l \in Levels, NEW g \in InLevel(l)
  PROVE  /\ g \in FileMetaData /\ g.number # next_file_number_
         /\ g.smallest <= g.largest /\ g.number \in tables
<1>1. current_ \in Versions /\ WellFormed(files_[current_]) /\ g \in ToSet(files_[current_][l])
  BY DEF VersionsInv, Memory, InLevel
<1>2. g \in FileMetaData
  BY <1>1, ObjectsOf DEF WellFormed
<1>3. g.number \in tables /\ g.number < next_file_number_
  BY <1>1 DEF VersionsInv, OnDisk
<1>4. g.number \in Int /\ next_file_number_ \in Int
  BY <1>2, FileTypes, LimitAssumption DEF VersionsInv, Memory
<1>5. g.smallest <= g.largest
  BY <1>1 DEF WellFormed, Apart
<1> QED
  BY <1>2, <1>3, <1>4, <1>5

\* The edits of CompactMemtable, with a table and without.
FlushEdit(l, f) == Adding({<<l, f>>}, logfile_number_)
EmptyEdit == [NoEdit EXCEPT !.log_number = logfile_number_]

\* A table that CompactMemtable writes to level l fits there: at level 0 always,
\* further down if it overlaps nothing.
LEMMA TableFits ==
  ASSUME VersionsInv, NEW l \in Levels, NEW K \in SUBSET UserKeys, K # {}, IsFiniteSet(K),
         next_file_number_ \in Numbers,
         l > 0 => \A g \in InLevel(l) : ~Overlaps(FileOf(next_file_number_, K, imm_), g),
         NEW e \in VersionEdits, e.deleted_files = {},
         e.new_files \in {{}, {<<l, FileOf(next_file_number_, K, imm_)>>}}
  PROVE  Applies(files_[current_], e, l, FileOf(next_file_number_, K, imm_))
<1> DEFINE f == FileOf(next_file_number_, K, imm_)
<1>1. imm_ \in Numbers \cup {0}
  BY DEF VersionsInv, Memory, nullptr
<1>2. f \in FileMetaData /\ f.number = next_file_number_ /\ f.smallest <= f.largest
  BY <1>1, FlushedFile
<1>3. e.new_files = {<<l, f>>} \/ e.new_files = {}
  OBVIOUS
<1>4. l > 0 => \A g \in InLevel(l) : ~Overlaps(f, g)
  OBVIOUS
<1> HIDE DEF f
<1>5. \A m \in Levels : \A g \in ToSet(files_[current_][m]) : g.number # f.number
  BY <1>2, FreshNumber DEF InLevel
<1>6. Applies(files_[current_], e, l, f)
  BY <1>2, <1>3, <1>4, <1>5 DEF Applies, InLevel
<1> QED
  BY <1>6 DEF f

LEMMA FlushApplies ==
  ASSUME VersionsInv, NEW l \in Levels, Flush(l)
  PROVE  LET f == FileOf(next_file_number_, imm_keys, imm_) IN
         /\ f \in FileMetaData /\ f.number = next_file_number_ /\ imm_ # nullptr
         /\ pc = "idle" /\ imm_keys # {}
         /\ next_file_number_ \in Numbers /\ next_file_number_' = next_file_number_ + 1
         /\ tables' = tables \cup {next_file_number_}
         /\ LogAndApply(FlushEdit(l, f), "CompactMemtable")
         /\ Applies(files_[current_], FlushEdit(l, f), l, f)
         /\ FlushEdit(l, f).deleted_files = {} /\ FlushEdit(l, f).log_number = logfile_number_
         /\ FlushEdit(l, f).new_files = {<<l, f>>}
         /\ l > 0 => \A m \in 0 .. l : \A g \in InLevel(m) : ~Overlaps(f, g)
<1> DEFINE f == FileOf(next_file_number_, imm_keys, imm_)
           e == FlushEdit(l, f)
<1>1. /\ imm_ # nullptr /\ imm_keys # {} /\ pc = "idle"
      /\ l > 0 => \A m \in 0 .. l : \A g \in InLevel(m) : ~Overlaps(f, g)
      /\ next_file_number_ \in Numbers /\ next_file_number_' = next_file_number_ + 1
      /\ tables' = tables \cup {f.number}
      /\ LogAndApply(e, "CompactMemtable")
  BY Zenon DEF Flush, MayCompactMemtable, NewFileNumber, FlushEdit, Adding
<1>2. imm_ \in Numbers \cup {0} /\ logfile_number_ \in Nat
      /\ imm_keys \in SUBSET UserKeys /\ IsFiniteSet(imm_keys)
  BY LimitAssumption DEF VersionsInv, Memory, nullptr, Numbers
<1>3. f \in FileMetaData /\ f.number = next_file_number_
  BY <1>1, <1>2, FlushedFile
<1>4. /\ e \in VersionEdits /\ e.new_files = {<<l, f>>} /\ e.deleted_files = {}
      /\ e.log_number = logfile_number_
  <2> DEFINE x == {<<l, f>>}
  <2> HIDE DEF f
  <2>1. x \in SUBSET (Levels \X FileMetaData)
    BY <1>3
  <2>2. e = Adding(x, logfile_number_)
    BY DEF FlushEdit
  <2> HIDE DEF x, e
  <2>3. e \in VersionEdits /\ e.new_files = x /\ e.deleted_files = {} /\ e.log_number = logfile_number_
    BY <1>2, <2>1, <2>2, AddingFields
  <2> QED
    BY <2>3 DEF x
<1>5. l > 0 => \A g \in InLevel(l) : ~Overlaps(f, g)
  <2>1. l \in 0 .. l
    BY LevelFacts
  <2> QED
    BY <1>1, <2>1
<1> HIDE DEF e
<1>6. Applies(files_[current_], e, l, f)
  <2>1. e.new_files \in {{}, {<<l, f>>}}
    BY <1>4
  <2> QED
    BY <1>1, <1>2, <1>4, <1>5, <2>1, TableFits
<1> QED
  BY <1>1, <1>3, <1>4, <1>6 DEF f, e

\* The table that an empty memtable does not get, for the lemmas about edits.
NoTable == FileOf(next_file_number_, {CHOOSE k \in UserKeys : TRUE}, imm_)

LEMMA EmptyApplies ==
  ASSUME VersionsInv, FlushNothing
  PROVE  /\ NoTable \in FileMetaData /\ NoTable.number = next_file_number_ /\ imm_ # nullptr
         /\ pc = "idle" /\ imm_keys = {}
         /\ next_file_number_ \in Numbers /\ next_file_number_' = next_file_number_ + 1
         /\ tables' = tables
         /\ LogAndApply(EmptyEdit, "CompactMemtable")
         /\ Applies(files_[current_], EmptyEdit, 0, NoTable)
         /\ EmptyEdit.deleted_files = {} /\ EmptyEdit.log_number = logfile_number_
         /\ EmptyEdit.new_files = {}
<1> DEFINE k == CHOOSE k \in UserKeys : TRUE
           e == EmptyEdit
<1>1. {k} \in SUBSET UserKeys /\ {k} # {} /\ IsFiniteSet({k})
  BY KeyAssumption, FS_Singleton
<1> HIDE DEF k
<1>2. /\ imm_ # nullptr /\ imm_keys = {} /\ pc = "idle"
      /\ next_file_number_ \in Numbers /\ next_file_number_' = next_file_number_ + 1
      /\ tables' = tables
      /\ LogAndApply(e, "CompactMemtable")
  <2>1. [NoEdit EXCEPT !.log_number = logfile_number_] = e
    BY DEF EmptyEdit
  <2> HIDE DEF e
  <2> QED
    BY <2>1 DEF FlushNothing, MayCompactMemtable, NewFileNumber
<1>3. imm_ \in Numbers \cup {0} /\ logfile_number_ \in Nat
  BY LimitAssumption DEF VersionsInv, Memory, nullptr, Numbers
<1>4. FileOf(next_file_number_, {k}, imm_) = NoTable
  BY DEF NoTable, k
<1>5. NoTable \in FileMetaData /\ NoTable.number = next_file_number_
  BY <1>1, <1>2, <1>3, <1>4, FlushedFile
<1>6. /\ e \in VersionEdits /\ e.new_files = {} /\ e.deleted_files = {}
      /\ e.log_number = logfile_number_
  BY <1>3 DEF EmptyEdit, NoEdit, VersionEdits
<1> HIDE DEF e
<1>7. Applies(files_[current_], e, 0, NoTable)
  <2>1. e.new_files \in {{}, {<<0, FileOf(next_file_number_, {k}, imm_)>>}}
    BY <1>6
  <2> QED
    BY <1>1, <1>2, <1>4, <1>6, <2>1, LevelFacts, TableFits
<1> QED
  BY <1>2, <1>5, <1>6, <1>7 DEF e

\* The edit of a trivial move.
MoveEdit(l, f) == Moving({<<l + 1, f>>}, {<<l, f.number>>})

LEMMA MoveApplies ==
  ASSUME VersionsInv, NEW l \in Levels, NEW f \in InLevel(l), TrivialMove(l, f)
  PROVE  /\ f \in FileMetaData /\ f.number \in tables /\ l + 1 \in Levels
         /\ ~Working /\ pc = "idle"
         /\ LogAndApply(MoveEdit(l, f), "BackgroundCompaction")
         /\ UNCHANGED <<next_file_number_, tables>>
         /\ Applies(files_[current_], MoveEdit(l, f), l + 1, f)
         /\ MoveEdit(l, f).deleted_files = {<<l, f.number>>} /\ MoveEdit(l, f).log_number = 0
         /\ MoveEdit(l, f).new_files = {<<l + 1, f>>}
         /\ Inputs(l, f) = [upper |-> {f}, lower |-> {}]
<1> DEFINE e == MoveEdit(l, f)
<1>1. /\ l + 1 \in Levels /\ ~Working /\ pc = "idle"
      /\ Inputs(l, f) = [upper |-> {f}, lower |-> {}]
      /\ UNCHANGED <<next_file_number_, tables>> /\ LogAndApply(e, "BackgroundCompaction")
  BY DEF TrivialMove, MayPickCompaction, MoveEdit, Moving
<1>2. f \in FileMetaData /\ f.smallest <= f.largest /\ f.number \in tables
  BY FreshNumber
<1>3. f.number \in Numbers
  BY <1>2, FileTypes
<1>4. /\ e \in VersionEdits /\ e.new_files = {<<l + 1, f>>} /\ e.deleted_files = {<<l, f.number>>}
      /\ e.log_number = 0
  <2> DEFINE x == {<<l + 1, f>>}
             d == {<<l, f.number>>}
  <2>1. x \in SUBSET (Levels \X FileMetaData) /\ d \in SUBSET (Levels \X Numbers)
    BY <1>1, <1>2, <1>3
  <2>2. e = Moving(x, d)
    BY DEF MoveEdit
  <2> HIDE DEF x, d, e
  <2>3. e \in VersionEdits /\ e.new_files = x /\ e.deleted_files = d /\ e.log_number = 0
    BY <2>1, <2>2, MovingFields
  <2> QED
    BY <2>3 DEF x, d
<1>5. \A g \in InLevel(l + 1) : ~Overlaps(f, g)
  <2>1. Inputs(l, f).upper = {f} /\ Inputs(l, f).lower = {}
    BY <1>1
  <2>2. Inputs(l, f).lower = {g \in InLevel(l + 1) : \E h \in Inputs(l, f).upper : Overlaps(g, h)}
    BY DEF Inputs
  <2>3. \A g \in InLevel(l + 1) : ~Overlaps(g, f)
    BY <2>1, <2>2
  <2> QED
    BY <2>3 DEF Overlaps
<1> HIDE DEF e
<1>6. Distinct(files_[current_]) /\ f \in ToSet(files_[current_][l]) /\ l # l + 1
  BY LevelFacts DEF VersionsInv, Memory, WellFormed, InLevel
<1>7. \A m \in Levels : \A g \in ToSet(files_[current_][m]) : g.number = f.number => m = l
  BY <1>6 DEF Distinct
<1>8. Applies(files_[current_], e, l + 1, f)
  BY <1>1, <1>2, <1>4, <1>5, <1>6, <1>7 DEF Applies, InLevel
<1> QED
  BY <1>1, <1>2, <1>4, <1>8 DEF e

LEMMA FiniteLevel ==
  ASSUME NEW F, NEW s1 \in Seq(F)
  PROVE  IsFiniteSet(ToSet(s1))
<1>1. DOMAIN s1 = 1 .. Len(s1) /\ Len(s1) \in Nat
  OBVIOUS
<1>2. IsFiniteSet(1 .. Len(s1))
  BY <1>1, FS_Interval
<1>3. s1 \in Surjection(1 .. Len(s1), ToSet(s1))
  BY <1>1 DEF Surjection, ToSet
<1> QED
  BY <1>2, <1>3, FS_Surjection

\* Every caller's step is a LogAndApply of an edit that applies.
EditStep(e, t, f) ==
  /\ LogAndApply(e, caller') /\ Applies(files_[current_], e, t, f) /\ pc = "idle"
  /\ next_file_number_' \in 3 .. (MaxFileNumber + 1)
  /\ next_file_number_ <= next_file_number_' /\ f.number < next_file_number_'
  /\ tables' = (IF e.new_files = {} THEN tables ELSE tables \cup {f.number})
  /\ tables' \subseteq Numbers

\* LogAndApply records its caller.
LEMMA CalledFrom ==
  ASSUME NEW e, NEW from, LogAndApply(e, from)
  PROVE  LogAndApply(e, caller') /\ caller' = from
<1>1. caller' = from
  BY DEF LogAndApply
<1> QED
  BY <1>1

\* A step that takes the next file number for f.
LEMMA NumberedStep ==
  ASSUME VersionsInv, NEW e, NEW t, NEW f, LogAndApply(e, caller'), Applies(files_[current_], e, t, f),
         pc = "idle", f.number = next_file_number_, next_file_number_ \in Numbers,
         next_file_number_' = next_file_number_ + 1,
         tables' = (IF e.new_files = {} THEN tables ELSE tables \cup {next_file_number_})
  PROVE  EditStep(e, t, f)
<1>1. next_file_number_ \in 3 .. (MaxFileNumber + 1) /\ tables \subseteq Numbers
  BY DEF VersionsInv, Memory
<1>2. /\ next_file_number_' \in 3 .. (MaxFileNumber + 1)
      /\ next_file_number_ <= next_file_number_' /\ next_file_number_ < next_file_number_'
  BY <1>1, LimitAssumption DEF Numbers
<1>3. tables' \subseteq Numbers
  BY <1>1
<1> QED
  BY <1>1, <1>2, <1>3 DEF EditStep

\* A step that takes no number, for a file f that is there.
LEMMA UnnumberedStep ==
  ASSUME VersionsInv, NEW e, NEW t, NEW f, LogAndApply(e, caller'), Applies(files_[current_], e, t, f),
         pc = "idle", f.number \in tables, f.number < next_file_number_, e.new_files # {},
         UNCHANGED <<next_file_number_, tables>>
  PROVE  EditStep(e, t, f)
<1>1. next_file_number_ \in 3 .. (MaxFileNumber + 1) /\ tables \subseteq Numbers
  BY DEF VersionsInv, Memory
<1>2. next_file_number_ <= next_file_number_' /\ tables' = tables \cup {f.number}
  BY <1>1, LimitAssumption
<1> QED
  BY <1>1, <1>2 DEF EditStep

LEMMA FlushStep ==
  ASSUME VersionsInv, NEW l \in Levels, Flush(l)
  PROVE  LET f == FileOf(next_file_number_, imm_keys, imm_) IN
         EditStep(FlushEdit(l, f), l, f) /\ caller' = "CompactMemtable"
<1> DEFINE f == FileOf(next_file_number_, imm_keys, imm_)
<1>1. /\ f.number = next_file_number_ /\ pc = "idle"
      /\ next_file_number_ \in Numbers /\ next_file_number_' = next_file_number_ + 1
      /\ tables' = tables \cup {next_file_number_}
      /\ LogAndApply(FlushEdit(l, f), "CompactMemtable")
      /\ Applies(files_[current_], FlushEdit(l, f), l, f)
      /\ FlushEdit(l, f).new_files = {<<l, f>>}
  BY FlushApplies
<1> HIDE DEF f
<1>2. EditStep(FlushEdit(l, f), l, f) /\ caller' = "CompactMemtable"
  BY <1>1, CalledFrom, NumberedStep
<1> QED
  BY <1>2 DEF f

LEMMA EmptyStep ==
  ASSUME VersionsInv, FlushNothing
  PROVE  EditStep(EmptyEdit, 0, NoTable) /\ caller' = "CompactMemtable"
BY EmptyApplies, CalledFrom, NumberedStep

LEMMA MoveStep ==
  ASSUME VersionsInv, NEW l \in Levels, NEW f \in InLevel(l), TrivialMove(l, f)
  PROVE  EditStep(MoveEdit(l, f), l + 1, f) /\ caller' = "BackgroundCompaction"
<1>1. /\ f.number \in tables /\ pc = "idle"
      /\ LogAndApply(MoveEdit(l, f), "BackgroundCompaction")
      /\ UNCHANGED <<next_file_number_, tables>>
      /\ Applies(files_[current_], MoveEdit(l, f), l + 1, f)
      /\ MoveEdit(l, f).new_files = {<<l + 1, f>>}
  BY MoveApplies
<1>2. f.number < next_file_number_
  BY DEF VersionsInv, OnDisk, InLevel, Memory
<1>3. MoveEdit(l, f).new_files # {}
  BY <1>1
<1> QED
  BY <1>1, <1>2, <1>3, CalledFrom, UnnumberedStep

-----------------------------------------------------------------------------
(* DoCompactionWork, and the memtables that are compacted in the meantime *)

Chosen(c) == c.upper \cup c.lower

\* No interval between the inputs is free of them: an interval of keys that
\* meets none of the files lies to the left or to the right of them all.
Connected(I) ==
  \A a, b \in UserKeys : a <= b =>
    \/ \E g \in I : a <= g.largest /\ g.smallest <= b
    \/ \A g \in I : g.largest < a
    \/ \A g \in I : b < g.smallest

\* The inputs of c are in the version fs, and no other file of the next level
\* overlaps them.
Includes(fs, c) ==
  /\ c.level \in Levels /\ c.level + 1 \in Levels
  /\ c.upper \subseteq ToSet(fs[c.level]) /\ c.lower \subseteq ToSet(fs[c.level + 1])
  /\ \A g \in ToSet(fs[c.level + 1]) \ c.lower : \A h \in Chosen(c) : ~Overlaps(g, h)

\* The output has a number that no file of a version has.
OwnNumber ==
  compact.output # 0 =>
    /\ compact.output \in tables /\ compact.output < next_file_number_
    /\ \A u \in Versions, l \in Levels : \A f \in ToSet(files_[u][l]) : f.number # compact.output

Callers ==
  /\ pc = "idle" <=> caller = "none"
  /\ caller \in {"none", "CompactMemtable", "BackgroundCompaction", "DoCompactionWork"}
  /\ caller = "CompactMemtable" => imm_ # nullptr
  /\ caller = "BackgroundCompaction" => ~Working
  /\ caller = "DoCompactionWork" => Working

\* While the work is done only memtables are compacted: the inputs stay in the
\* current version, and in the one that replaces it.
WorkInv ==
  /\ Callers
  /\ compact.level \in Nat /\ compact.output \in Nat
  /\ Chosen(compact) \in SUBSET FileMetaData /\ IsFiniteSet(Chosen(compact))
  /\ ~Working => compact = NoCompaction
  /\ Working =>
       /\ Includes(files_[current_], compact) /\ Connected(Chosen(compact))
       /\ caller # "DoCompactionWork" => OwnNumber
       /\ caller = "CompactMemtable" => Includes(files_[v], compact)

\* The output is a file.
LEMMA OutputFile ==
  ASSUME NEW c, Chosen(c) \in SUBSET FileMetaData, IsFiniteSet(Chosen(c)), c.upper # {},
         c.output \in Numbers, \A g \in Chosen(c) : g.smallest <= g.largest
  PROVE  /\ Output(c) \in FileMetaData /\ Output(c).number = c.output
         /\ Output(c).smallest <= Output(c).largest
         /\ Output(c).data = UNION {g.data : g \in Chosen(c)}
         /\ \A g \in Chosen(c) : Output(c).smallest <= g.smallest /\ g.largest <= Output(c).largest
         /\ \E g \in Chosen(c) : g.smallest = Output(c).smallest
         /\ \E g \in Chosen(c) : g.largest = Output(c).largest
<1> DEFINE I == Chosen(c)
           S == {g.smallest : g \in I}
           L == {g.largest : g \in I}
           D == UNION {g.data : g \in I}
<1>1. PICK f \in c.upper : TRUE
  OBVIOUS
<1>2. f \in I
  BY DEF Chosen
<1>3. \A g \in I : g \in FileMetaData /\ g.smallest <= g.largest
  OBVIOUS
<1>4. IsFiniteSet(I)
  OBVIOUS
<1>5. Output(c) = [number |-> c.output, smallest |-> Min(S), largest |-> Max(L), data |-> D]
  BY DEF Output, Chosen
<1> HIDE DEF I
<1>6. /\ S \subseteq UserKeys /\ L \subseteq UserKeys /\ S \subseteq Nat /\ L \subseteq Nat
      /\ f.smallest \in S /\ f.largest \in L /\ f.smallest <= f.largest
      /\ f.smallest \in Nat /\ f.largest \in Nat
  BY <1>2, <1>3, FileTypes
<1>7. IsFiniteSet(L)
  <2> DEFINE m == [g \in I |-> g.largest]
  <2>1. m \in Surjection(I, L)
    BY DEF Surjection
  <2> HIDE DEF m, L
  <2> QED
    BY <1>4, <2>1, FS_Surjection
<1>8. D \in SUBSET (UserKeys \X (Numbers \cup {0}))
  BY <1>3 DEF FileMetaData
<1>9. \A g \in I : g.smallest \in S /\ g.largest \in L
  OBVIOUS
<1>10. (\A x \in S : \E g \in I : g.smallest = x) /\ (\A x \in L : \E g \in I : g.largest = x)
  OBVIOUS
<1> HIDE DEF S, L
<1>11. Min(S) \in S /\ \A y \in S : Min(S) <= y
  <2>1. S # {}
    BY <1>6
  <2> QED
    BY <1>6, <2>1, LeastElement
<1>12. Max(L) \in L /\ \A y \in L : y <= Max(L)
  <2>1. L # {}
    BY <1>6
  <2> QED
    BY <1>6, <1>7, <2>1, GreatestElement
<1>13. Min(S) \in UserKeys /\ Max(L) \in UserKeys /\ Min(S) \in Nat /\ Max(L) \in Nat
  BY <1>6, <1>11, <1>12
<1>14. Min(S) <= Max(L)
  BY <1>6, <1>11, <1>12, <1>13
<1>15. \A g \in I : Min(S) <= g.smallest /\ g.largest <= Max(L)
  BY <1>9, <1>11, <1>12
<1>16. D = UNION {g.data : g \in Chosen(c)}
  BY DEF D, I
<1> HIDE DEF D
<1>17. /\ Output(c).number = c.output /\ Output(c).smallest = Min(S) /\ Output(c).largest = Max(L)
       /\ Output(c).data = D
  BY <1>5
<1>18. Output(c) \in FileMetaData
  BY <1>5, <1>8, <1>13 DEF FileMetaData
<1> QED
  BY <1>10, <1>11, <1>12, <1>14, <1>15, <1>16, <1>17, <1>18 DEF I

\* What overlaps none of the inputs does not overlap the output.
LEMMA OutsideOutput ==
  ASSUME NEW c, Chosen(c) \in SUBSET FileMetaData, IsFiniteSet(Chosen(c)), c.upper # {},
         c.output \in Numbers, \A g \in Chosen(c) : g.smallest <= g.largest,
         Connected(Chosen(c)),
         NEW f \in FileMetaData, f.smallest <= f.largest, \A h \in Chosen(c) : ~Overlaps(f, h)
  PROVE  ~Overlaps(Output(c), f)
<1>1. PICK g \in Chosen(c) : g.smallest = Output(c).smallest
  BY OutputFile
<1>2. PICK h \in Chosen(c) : h.largest = Output(c).largest
  BY OutputFile
<1>3. /\ f.smallest \in UserKeys /\ f.largest \in UserKeys /\ f.smallest \in Nat /\ f.largest \in Nat
      /\ g.smallest \in Nat /\ h.largest \in Nat
  BY <1>1, <1>2, FileTypes
<1>4. ~\E x \in Chosen(c) : f.smallest <= x.largest /\ x.smallest <= f.largest
  BY DEF Overlaps
<1>5. (\A x \in Chosen(c) : x.largest < f.smallest) \/ (\A x \in Chosen(c) : f.largest < x.smallest)
  BY <1>3, <1>4 DEF Connected
<1>6. h.largest < f.smallest \/ f.largest < g.smallest
  BY <1>1, <1>2, <1>5
<1> QED
  BY <1>1, <1>2, <1>3, <1>6 DEF Overlaps

LEMMA EditStepInv ==
  ASSUME VersionsInv, NEW e, NEW t, NEW f, EditStep(e, t, f)
  PROVE  /\ VersionsInv'
         /\ v' \in Versions /\ v' # current_ /\ files_[v'] = NoFiles
         /\ files_' = [files_ EXCEPT ![v'] = ApplyEdit(files_[current_], e)]
         /\ \A l \in Levels :
              ToSet(files_'[v'][l]) =
                {g \in ToSet(files_[current_][l]) : g.number \notin DeletedFiles(e, l)}
                  \cup AddedFiles(e, l)
<1>1. /\ LogAndApply(e, caller') /\ Applies(files_[current_], e, t, f) /\ pc = "idle"
      /\ next_file_number_' \in 3 .. (MaxFileNumber + 1)
      /\ next_file_number_ <= next_file_number_' /\ f.number < next_file_number_'
      /\ tables \subseteq tables' /\ tables' \subseteq Numbers
      /\ e.new_files # {} => f.number \in tables'
  BY DEF EditStep
<1> QED
  BY <1>1, LogAndApplyInv

\* The edit of DoCompactionWork.
Deleted(c) == {<<c.level, g.number>> : g \in c.upper} \cup {<<c.level + 1, g.number>> : g \in c.lower}
WorkEdit(c) == Moving({<<c.level + 1, Output(c)>>}, Deleted(c))

\* The inputs are files of the current version.
LEMMA ChosenFiles ==
  ASSUME VersionsInv, WorkInv, Working, NEW g \in Chosen(compact)
  PROVE  /\ g \in FileMetaData /\ g.smallest <= g.largest
         /\ (g \in compact.upper /\ g \in InLevel(compact.level))
              \/ (g \in compact.lower /\ g \in InLevel(compact.level + 1))
         /\ compact.level \in Levels /\ compact.level + 1 \in Levels
<1>1. /\ compact.level \in Levels /\ compact.level + 1 \in Levels
      /\ compact.upper \subseteq InLevel(compact.level)
      /\ compact.lower \subseteq InLevel(compact.level + 1)
  BY DEF WorkInv, Includes, InLevel
<1>2. (g \in compact.upper /\ g \in InLevel(compact.level))
        \/ (g \in compact.lower /\ g \in InLevel(compact.level + 1))
  BY <1>1 DEF Chosen
<1> QED
  BY <1>1, <1>2, FreshNumber

LEMMA WorkApplies ==
  ASSUME VersionsInv, WorkInv, FinishWork
  PROVE  /\ Working /\ pc = "idle" /\ compact.level + 1 \in Levels
         /\ LogAndApply(WorkEdit(compact), "DoCompactionWork")
         /\ UNCHANGED <<next_file_number_, tables>>
         /\ Output(compact) \in FileMetaData /\ Output(compact).number = compact.output
         /\ compact.output \in tables /\ compact.output < next_file_number_
         /\ Applies(files_[current_], WorkEdit(compact), compact.level + 1, Output(compact))
         /\ WorkEdit(compact).deleted_files = Deleted(compact)
         /\ WorkEdit(compact).log_number = 0
         /\ WorkEdit(compact).new_files = {<<compact.level + 1, Output(compact)>>}
<1> DEFINE c == compact
           out == Output(compact)
           e == WorkEdit(compact)
           t == compact.level + 1
<1>1. /\ pc = "idle" /\ Working /\ compact.output # 0
      /\ UNCHANGED <<next_file_number_, tables>>
      /\ LogAndApply(e, "DoCompactionWork")
  BY Zenon DEF FinishWork, WorkEdit, Deleted, Moving
<1>2. OwnNumber /\ Includes(files_[current_], c) /\ Connected(Chosen(c))
      /\ Chosen(c) \in SUBSET FileMetaData /\ IsFiniteSet(Chosen(c)) /\ c.upper # {}
  BY <1>1 DEF WorkInv, Callers, Working
<1>3. c.output \in tables /\ c.output < next_file_number_
      /\ \A l \in Levels : \A f \in InLevel(l) : f.number # c.output
  BY <1>1, <1>2 DEF OwnNumber, VersionsInv, Memory, InLevel
<1>4. c.output \in Numbers
  BY <1>3 DEF VersionsInv, Memory
<1>5. \A g \in Chosen(c) : g \in FileMetaData /\ g.smallest <= g.largest
  BY <1>1, ChosenFiles
<1>6. out \in FileMetaData /\ out.number = c.output /\ out.smallest <= out.largest
  BY <1>2, <1>4, <1>5, OutputFile
<1>7. t \in Levels /\ c.level \in Levels
  BY <1>2 DEF Includes
<1>8. Deleted(c) \in SUBSET (Levels \X Numbers)
  <2>1. \A g \in c.upper \cup c.lower : g.number \in Numbers
    BY <1>5, FileTypes DEF Chosen
  <2> QED
    BY <1>7, <2>1 DEF Deleted
<1> HIDE DEF out, t
<1>9. /\ e \in VersionEdits /\ e.new_files = {<<t, out>>} /\ e.deleted_files = Deleted(c)
      /\ e.log_number = 0
  <2> DEFINE x == {<<t, out>>}
  <2>1. x \in SUBSET (Levels \X FileMetaData)
    BY <1>6, <1>7
  <2>2. e = Moving(x, Deleted(c))
    BY DEF WorkEdit, out, t
  <2> HIDE DEF x, e, c
  <2>3. e \in VersionEdits /\ e.new_files = x /\ e.deleted_files = Deleted(c) /\ e.log_number = 0
    BY <1>8, <2>1, <2>2, MovingFields
  <2> QED
    BY <2>3 DEF x
<1> HIDE DEF e
<1>10. ASSUME NEW g \in ToSet(files_[current_][t])
       PROVE  <<t, g.number>> \in e.deleted_files \/ ~Overlaps(out, g)
  <2>1. CASE g \in c.lower
    BY <1>9, <2>1 DEF Deleted, t
  <2>2. CASE g \notin c.lower
    <3>1. \A h \in Chosen(c) : ~Overlaps(g, h)
      BY <1>2, <1>10, <2>2 DEF Includes, t
    <3>2. g \in FileMetaData /\ g.smallest <= g.largest
      BY <1>7, <1>10, FreshNumber DEF InLevel
    <3> QED
      BY <1>2, <1>4, <1>5, <3>1, <3>2, OutsideOutput DEF out
  <2> QED
    BY <2>1, <2>2
<1>11. Applies(files_[current_], e, t, out)
  BY <1>3, <1>6, <1>7, <1>9, <1>10 DEF Applies, InLevel
<1> QED
  BY <1>1, <1>3, <1>6, <1>7, <1>9, <1>11 DEF out, e, t

LEMMA WorkStep ==
  ASSUME VersionsInv, WorkInv, FinishWork
  PROVE  /\ EditStep(WorkEdit(compact), compact.level + 1, Output(compact))
         /\ caller' = "DoCompactionWork"
<1>1. WorkEdit(compact).new_files # {}
  BY WorkApplies
<1> QED
  BY <1>1, WorkApplies, CalledFrom, UnnumberedStep

\* The files of level 0 that PickCompaction takes with f.
ClosedSets(f) ==
  {S \in SUBSET InLevel(0) : f \in S /\ \A g \in S, h \in InLevel(0) : Overlaps(g, h) => h \in S}

LEMMA UpperInputs ==
  ASSUME NEW l \in Levels, NEW f \in InLevel(l), NEW U, U = Inputs(l, f).upper
  PROVE  /\ f \in U /\ U \subseteq InLevel(l) /\ (l # 0 => U = {f})
         /\ l = 0 => /\ \A g \in U, h \in InLevel(0) : Overlaps(g, h) => h \in U
                     /\ \A S \in ClosedSets(f) : U \subseteq S
         /\ Inputs(l, f).lower = {g \in InLevel(l + 1) : \E h \in U : Overlaps(g, h)}
<1>1. /\ U = IF l = 0 THEN {g \in InLevel(0) : \A S \in ClosedSets(f) : g \in S} ELSE {f}
      /\ Inputs(l, f).lower = {g \in InLevel(l + 1) : \E h \in U : Overlaps(g, h)}
  BY Zenon DEF Inputs, ClosedSets
<1>2. CASE l # 0
  BY <1>1, <1>2
<1>3. CASE l = 0
  <2>1. U = {g \in InLevel(0) : \A S \in ClosedSets(f) : g \in S}
    BY <1>1, <1>3
  <2>2. \A S \in ClosedSets(f) : f \in S
    BY DEF ClosedSets
  <2>3. ASSUME NEW g \in U, NEW h \in InLevel(0), Overlaps(g, h)
        PROVE  h \in U
    <3>1. ASSUME NEW S \in ClosedSets(f)
          PROVE  h \in S
      BY <2>1, <2>3, <3>1 DEF ClosedSets
    <3> QED
      BY <2>1, <3>1
  <2> HIDE DEF ClosedSets
  <2> QED
    BY <1>1, <1>3, <2>1, <2>2, <2>3
<1> QED
  BY <1>2, <1>3

\* What PickCompaction takes along leaves no gap.
LEMMA UpperConnected ==
  ASSUME VersionsInv, NEW l \in Levels, NEW f \in InLevel(l), NEW U, U = Inputs(l, f).upper
  PROVE  Connected(U)
<1>1. /\ f \in U /\ U \subseteq InLevel(l) /\ (l # 0 => U = {f})
      /\ l = 0 => /\ \A g \in U, h \in InLevel(0) : Overlaps(g, h) => h \in U
                  /\ \A S \in ClosedSets(f) : U \subseteq S
  BY UpperInputs
<1>2. ASSUME NEW g \in U
      PROVE  g.smallest \in Nat /\ g.largest \in Nat /\ g.smallest <= g.largest
  BY <1>1, <1>2, FreshNumber, FileTypes
<1> SUFFICES ASSUME NEW a \in UserKeys, NEW b \in UserKeys, a <= b,
                    \A g \in U : ~(a <= g.largest /\ g.smallest <= b)
             PROVE  (\A g \in U : g.largest < a) \/ (\A g \in U : b < g.smallest)
  BY Zenon DEF Connected
<1>3. a \in Nat /\ b \in Nat
  BY KeyAssumption
<1>4. \A g \in U : g.largest < a \/ b < g.smallest
  BY <1>2, <1>3
<1>5. CASE l # 0
  BY <1>1, <1>4, <1>5
<1>6. CASE l = 0
  <2>1. ASSUME f.largest < a
        PROVE  \A g \in U : g.largest < a
    <3> DEFINE S == {g \in U : g.largest < a}
    <3>1. ASSUME NEW g \in S, NEW h \in InLevel(0), Overlaps(g, h)
          PROVE  h \in S
      <4>1. h \in U
        BY <1>1, <1>6, <3>1
      <4>2. h.smallest <= g.largest /\ g.largest < a
        BY <3>1 DEF Overlaps
      <4>3. ~(b < h.smallest)
        BY <1>2, <1>3, <4>1, <4>2
      <4> QED
        BY <1>4, <4>1, <4>3
    <3>2. S \subseteq InLevel(0) /\ f \in S
      BY <1>1, <1>6, <2>1
    <3> HIDE DEF S
    <3>3. S \in ClosedSets(f)
      BY <3>1, <3>2 DEF ClosedSets
    <3>4. U \subseteq S
      BY <1>1, <1>6, <3>3
    <3> QED
      BY <3>4 DEF S
  <2>2. ASSUME b < f.smallest
        PROVE  \A g \in U : b < g.smallest
    <3> DEFINE S == {g \in U : b < g.smallest}
    <3>1. ASSUME NEW g \in S, NEW h \in InLevel(0), Overlaps(g, h)
          PROVE  h \in S
      <4>1. h \in U
        BY <1>1, <1>6, <3>1
      <4>2. g.smallest <= h.largest /\ b < g.smallest
        BY <3>1 DEF Overlaps
      <4>3. ~(h.largest < a)
        BY <1>2, <1>3, <4>1, <4>2
      <4> QED
        BY <1>4, <4>1, <4>3
    <3>2. S \subseteq InLevel(0) /\ f \in S
      BY <1>1, <1>6, <2>2
    <3> HIDE DEF S
    <3>3. S \in ClosedSets(f)
      BY <3>1, <3>2 DEF ClosedSets
    <3>4. U \subseteq S
      BY <1>1, <1>6, <3>3
    <3> QED
      BY <3>4 DEF S
  <2> QED
    BY <1>1, <1>4, <2>1, <2>2
<1> QED
  BY <1>5, <1>6

LEMMA PickedInputs ==
  ASSUME VersionsInv, NEW l \in Levels, l + 1 \in Levels, NEW f \in InLevel(l),
         NEW c, c.level = l, c.upper = Inputs(l, f).upper, c.lower = Inputs(l, f).lower
  PROVE  /\ Includes(files_[current_], c) /\ Connected(Chosen(c)) /\ c.upper # {}
         /\ Chosen(c) \in SUBSET FileMetaData /\ IsFiniteSet(Chosen(c))
<1> DEFINE U == c.upper
           W == c.lower
           I == Chosen(c)
<1>1. /\ f \in U /\ U \subseteq InLevel(l)
      /\ W = {g \in InLevel(l + 1) : \E h \in U : Overlaps(g, h)}
      /\ Connected(U)
  BY UpperInputs, UpperConnected
<1>2. I = U \cup W
  BY DEF Chosen
<1> HIDE DEF U, W, I
<1>3. \A g \in I : /\ g \in FileMetaData /\ g.smallest <= g.largest
                   /\ g.smallest \in Nat /\ g.largest \in Nat
  BY <1>1, <1>2, FreshNumber, FileTypes
<1>4. IsFiniteSet(I)
  <2>1. files_[current_][l] \in Seq(FileMetaData) /\ files_[current_][l + 1] \in Seq(FileMetaData)
    BY DEF VersionsInv, Memory, WellFormed
  <2>2. IsFiniteSet(InLevel(l)) /\ IsFiniteSet(InLevel(l + 1))
    BY <2>1, FiniteLevel DEF InLevel
  <2>3. IsFiniteSet(InLevel(l) \cup InLevel(l + 1)) /\ I \subseteq InLevel(l) \cup InLevel(l + 1)
    BY <1>1, <1>2, <2>2, FS_Union
  <2> QED
    BY <2>3, FS_Subset
<1>5. Connected(I)
  <2> SUFFICES ASSUME NEW a \in UserKeys, NEW b \in UserKeys, a <= b,
                      \A g \in I : ~(a <= g.largest /\ g.smallest <= b)
               PROVE  (\A g \in I : g.largest < a) \/ (\A g \in I : b < g.smallest)
    BY Zenon DEF Connected
  <2>1. a \in Nat /\ b \in Nat
    BY KeyAssumption
  <2>2. (\A g \in U : g.largest < a) \/ (\A g \in U : b < g.smallest)
    BY <1>1, <1>2 DEF Connected
  <2>3. ASSUME NEW g \in I
        PROVE  g \in U \/ \E h \in U : Overlaps(g, h)
    BY <1>1, <1>2
  <2>4. ASSUME NEW g \in I, \A h \in U : h.largest < a
        PROVE  g.largest < a
    <3>1. CASE g \in U
      BY <2>4, <3>1
    <3>2. ASSUME NEW h \in U, Overlaps(g, h)
          PROVE  g.largest < a
      <4>1. h \in I
        BY <1>2
      <4> QED
        BY <1>3, <2>1, <2>4, <3>2, <4>1 DEF Overlaps
    <3> QED
      BY <2>3, <3>1, <3>2
  <2>5. ASSUME NEW g \in I, \A h \in U : b < h.smallest
        PROVE  b < g.smallest
    <3>1. CASE g \in U
      BY <2>5, <3>1
    <3>2. ASSUME NEW h \in U, Overlaps(g, h)
          PROVE  b < g.smallest
      <4>1. h \in I
        BY <1>2
      <4> QED
        BY <1>3, <2>1, <2>5, <3>2, <4>1 DEF Overlaps
    <3> QED
      BY <2>3, <3>1, <3>2
  <2> QED
    BY <2>2, <2>4, <2>5
<1>6. ASSUME NEW g \in InLevel(l + 1) \ W, NEW h \in I
      PROVE  ~Overlaps(g, h)
  <2>1. CASE h \in U
    BY <1>1, <1>6, <2>1
  <2>2. CASE h \in W
    <3>1. h \in InLevel(l + 1) /\ g # h /\ l + 1 > 0
      BY <1>1, <1>6, <2>2, LevelFacts
    <3> QED
      BY <3>1 DEF VersionsInv, Memory, WellFormed, Apart, InLevel
  <2> QED
    BY <1>2, <2>1, <2>2
<1>7. Includes(files_[current_], c)
  BY <1>1, <1>6 DEF Includes, InLevel, U, W, I
<1> QED
  BY <1>1, <1>3, <1>4, <1>5, <1>7 DEF U, I

-----------------------------------------------------------------------------
(* The theorems about versions *)

LEMMA RecoveredVersion ==
  /\ WellFormed(RecoveredFiles)
  /\ \A l \in Levels : \A f \in ToSet(RecoveredFiles[l]) : f.number = 1
<1>1. CASE RecoveredKeys = {}
  BY <1>1, NoFilesFacts DEF RecoveredFiles
<1>2. CASE RecoveredKeys # {}
  <2> DEFINE f == FileOf(1, RecoveredKeys, 0)
             b == kNumLevels - 1
  <2>1. f \in FileMetaData /\ f.number = 1 /\ f.smallest <= f.largest
    <3>1. 1 \in Numbers
      BY LimitAssumption DEF Numbers
    <3>2. RecoveredKeys \in SUBSET UserKeys /\ IsFiniteSet(RecoveredKeys) /\ 0 \in Numbers \cup {0}
      BY RecoveredAssumption
    <3> QED
      BY <1>2, <3>1, <3>2, FlushedFile
  <2> HIDE DEF f
  <2>2. b \in Levels /\ RecoveredFiles = [NoFiles EXCEPT ![b] = <<f>>]
    BY <1>2, LevelFacts DEF RecoveredFiles, f
  <2> HIDE DEF b
  <2>3. NoFiles \in [Levels -> Seq(FileMetaData)] /\ <<f>> \in Seq(FileMetaData)
    BY <2>1, NoFilesFacts DEF WellFormed
  <2>4. RecoveredFiles \in [Levels -> Seq(FileMetaData)]
    BY <2>2, <2>3
  <2>5. \A l \in Levels : RecoveredFiles[l] = IF l = b THEN <<f>> ELSE <<>>
    BY <2>2, <2>3, NoFilesFacts
  <2>6. ToSet(<<f>>) = {f} /\ Increasing(<<f>>) /\ ToSet(<<>>) = {} /\ Increasing(<<>>)
    BY DEF ToSet, Increasing
  <2>7. \A l \in Levels : /\ ToSet(RecoveredFiles[l]) = IF l = b THEN {f} ELSE {}
                          /\ Increasing(RecoveredFiles[l])
    BY <2>5, <2>6
  <2>8. \A l \in Levels : Apart(l, ToSet(RecoveredFiles[l]))
    BY <2>1, <2>7 DEF Apart
  <2>9. Distinct(RecoveredFiles)
    BY <2>7 DEF Distinct
  <2> QED
    BY <2>1, <2>4, <2>7, <2>8, <2>9 DEF WellFormed
<1> QED
  BY <1>1, <1>2

\* A step of a reader, or none: what LogAndApply and recovery look at stays.
Reading ==
  /\ UNCHANGED <<current_, log_number_, next_file_number_, descriptor_file_>>
  /\ UNCHANGED <<manifest, synced, CURRENT, tables, logs>>
  /\ UNCHANGED <<logfile_number_, imm_, imm_keys, pc, edit, v, s, creating, bg_error_, written>>
  /\ UNCHANGED <<compact, caller, faults, sync_faults, strays>>
  /\ files_'[current_] = files_[current_] /\ (v # nullptr => files_'[v] = files_[v])

LEMMA ReaderStep ==
  ASSUME VersionsInv, (\E r \in Readers : RefVersion(r) \/ DropVersion(r)) \/ UNCHANGED vars
  PROVE  Reading
<1>1. ASSUME NEW r \in Readers, RefVersion(r)
      PROVE  Reading
  BY <1>1 DEF RefVersion, Reading, disk, files, wal, locals, counts
<1>2. ASSUME NEW r \in Readers, DropVersion(r)
      PROVE  Reading
  <2>1. /\ UNCHANGED <<current_, log_number_, next_file_number_, descriptor_file_>>
        /\ UNCHANGED <<manifest, synced, CURRENT, tables, logs>>
        /\ UNCHANGED <<logfile_number_, imm_, imm_keys, pc, edit, v, s, creating, bg_error_, written>>
        /\ UNCHANGED <<compact, caller, faults, sync_faults, strays>>
    BY <1>2 DEF DropVersion, disk, files, wal, locals, counts
  <2>2. held[r] \in Versions /\ UnrefVersion(held[r])
    BY <1>2 DEF DropVersion, VersionsInv, Memory
  <2>3. refs_[held[r]] > 0 /\ refs_[held[r]] \in Nat
    BY <2>2, ReferencedWhen
  <2>4. v # nullptr => v \in Versions /\ refs_[v] = 0
    BY DEF VersionsInv, Memory, Vacant
  <2>5. v # held[r] \/ v = nullptr
    BY <2>3, <2>4
  <2>6. CASE refs_[held[r]] # 1
    BY <2>1, <2>2, <2>6 DEF UnrefVersion, Reading
  <2>7. CASE refs_[held[r]] = 1
    <3>1. current_ # held[r]
      <4> SUFFICES ASSUME current_ = held[r]
                   PROVE  FALSE
        OBVIOUS
      <4>1. refs_[current_] = Cardinality(Holders(held, current_)) + 1
        BY <2>2, VersionRefsSplit DEF VersionsInv, HeldExact, Eq, Memory
      <4>2. Cardinality(Holders(held, current_)) \in Nat /\ (Cardinality(Holders(held, current_)) = 0 <=> Holders(held, current_) = {})
        BY ReaderAssumption, CountZero DEF Holders
      <4>3. r \in Holders(held, current_)
        BY DEF Holders
      <4> QED
        BY <2>7, <4>1, <4>2, <4>3
    <3>2. files_' = [files_ EXCEPT ![held[r]] = NoFiles] /\ DOMAIN files_ = Versions /\ current_ \in Versions
      BY <2>2, <2>7 DEF UnrefVersion, VersionsInv, Memory
    <3>3. files_'[current_] = files_[current_]
      BY <3>1, <3>2
    <3>4. v # nullptr => files_'[v] = files_[v]
      BY <2>4, <2>5, <3>2
    <3> QED
      BY <2>1, <3>3, <3>4 DEF Reading
  <2> QED
    BY <2>6, <2>7
<1>3. CASE UNCHANGED vars
  BY <1>3 DEF vars, Reading
<1> QED
  BY <1>1, <1>2, <1>3

LEMMA InitInv == Init => VersionsInv
<1> SUFFICES ASSUME Init
             PROVE  VersionsInv
  OBVIOUS
<1>0. MaxFileNumber \in Nat /\ MaxFileNumber >= 2
  BY LimitAssumption
<1>1. /\ current_ = 1 /\ files_ = [u \in Versions |-> IF u = 1 THEN RecoveredFiles ELSE NoFiles]
      /\ refs_ = [u \in Versions |-> IF u = 1 THEN 1 ELSE 0]
      /\ refs = [o \in Levels \X Numbers |-> IF o \in Objects(RecoveredFiles) THEN 1 ELSE 0]
      /\ next_file_number_ = 3 /\ logfile_number_ = 2 /\ imm_ = nullptr
      /\ tables = {o[2] : o \in Objects(RecoveredFiles)}
      /\ pc = "idle" /\ v = nullptr /\ held = [r \in Readers |-> nullptr]
      /\ imm_keys = {}
  BY DEF Init
<1>2. \A u \in Versions : files_[u] = IF u = 1 THEN RecoveredFiles ELSE NoFiles
  BY <1>1
<1>3. /\ Objects(RecoveredFiles) \subseteq Levels \X Numbers
      /\ \A l \in Levels : \A f \in ToSet(RecoveredFiles[l]) :
           <<l, f.number>> \in Objects(RecoveredFiles) /\ f.number = 1
  BY RecoveredVersion, ObjectsOf DEF WellFormed
<1>4. Memory
  <2>1. \A u \in Versions : WellFormed(files_[u])
    BY <1>2, RecoveredVersion, NoFilesFacts
  <2>2. refs_ \in [Versions -> Nat] /\ refs \in [Levels \X Numbers -> Nat]
    BY <1>1
  <2>3. tables \subseteq Numbers
    BY <1>1, <1>3
  <2>4. held \in [Readers -> Versions \cup {nullptr}]
    BY <1>1
  <2>5. 2 \in Numbers /\ 3 \in 3 .. (MaxFileNumber + 1) /\ IsFiniteSet({})
    BY <1>0, FS_EmptySet DEF Numbers
  <2> QED
    BY <1>1, <2>1, <2>2, <2>3, <2>4, <2>5, VersionFacts DEF Memory
<1>5. HeldExact
  <2> SUFFICES ASSUME NEW u \in Versions
               PROVE  refs_[u] = Cardinality(Holders(held, u)) + Eq(u, current_)
    BY DEF HeldExact
  <2>1. Holders(held, u) = {}
    BY <1>1, VersionFacts DEF Holders
  <2>2. Cardinality(Holders(held, u)) = 0
    BY <2>1, FS_EmptySet
  <2> QED
    BY <1>1, <2>2 DEF Eq
<1>6. FilesExact
  <2> SUFFICES ASSUME NEW o \in Levels \X Numbers
               PROVE  refs[o] = Cardinality(Sharing(files_, o))
    BY DEF FilesExact
  <2>1. CASE o \in Objects(RecoveredFiles)
    <3>1. Sharing(files_, o) = {1}
      BY <1>2, <2>1, NoObjects, VersionFacts DEF Sharing
    <3> QED
      BY <1>1, <2>1, <3>1, FS_Singleton
  <2>2. CASE o \notin Objects(RecoveredFiles)
    <3>1. Sharing(files_, o) = {}
      BY <1>2, <2>2, NoObjects DEF Sharing
    <3> QED
      BY <1>1, <2>2, <3>1, FS_EmptySet
  <2> QED
    BY <2>1, <2>2
<1>7. Vacant
  BY <1>1, <1>2 DEF Vacant
<1>8. OnDisk
  <2> SUFFICES ASSUME NEW u \in Versions, NEW l \in Levels, NEW f \in ToSet(files_[u][l])
               PROVE  f.number \in tables /\ f.number < next_file_number_
    BY DEF OnDisk
  <2>1. f \in ToSet(RecoveredFiles[l])
    BY <1>2, NoFilesFacts
  <2>2. <<l, f.number>> \in Objects(RecoveredFiles) /\ f.number = 1 /\ <<l, f.number>>[2] = f.number
    BY <1>3, <2>1
  <2> QED
    BY <1>1, <2>2
<1> QED
  BY <1>4, <1>5, <1>6, <1>7, <1>8, VersionRefsSplit DEF VersionsInv

LEMMA NextInv == VersionsInv /\ WorkInv /\ [Next]_vars => VersionsInv'
<1> SUFFICES ASSUME VersionsInv, WorkInv, [Next]_vars
             PROVE  VersionsInv'
  OBVIOUS
<1>1. ASSUME NEW K \in SUBSET UserKeys, SwitchLog(K)
      PROVE  VersionsInv'
  BY <1>1, SwitchLogInv
<1>2. ASSUME NEW l \in Levels, Flush(l)
      PROVE  VersionsInv'
  BY <1>2, FlushStep, EditStepInv
<1>3. ASSUME NEW l \in Levels, NEW f \in InLevel(l), TrivialMove(l, f)
      PROVE  VersionsInv'
  BY <1>3, MoveStep, EditStepInv
<1>4. CASE FlushNothing
  BY <1>4, EmptyStep, EditStepInv
<1>10. CASE FinishWork
  BY <1>10, WorkStep, EditStepInv
<1>11. CASE TableStep
  BY <1>11, TableStepInv
<1>5. CASE AppendRecord \/ SyncRecord \/ SetCurrentFile
  BY <1>5, ManifestStepInv
<1>6. CASE Install
  BY <1>6, InstallInv
<1>7. CASE Abandon
  BY <1>7, AbandonInv
<1>8. ASSUME NEW r \in Readers, RefVersion(r) \/ DropVersion(r)
      PROVE  VersionsInv'
  BY <1>8, RefVersionInv, DropVersionInv
<1>9. CASE UNCHANGED vars
  <2>1. /\ UNCHANGED <<current_, files_, refs_, refs, tables, v, held>>
        /\ UNCHANGED <<next_file_number_, logfile_number_, imm_, imm_keys, pc>>
    BY <1>9 DEF vars
  <2>2. /\ next_file_number_ \in 3 .. (MaxFileNumber + 1) /\ tables \subseteq Numbers
        /\ imm_keys \in SUBSET UserKeys /\ IsFiniteSet(imm_keys)
        /\ logfile_number_ \in Numbers /\ imm_ \in Numbers \cup {nullptr}
        /\ logfile_number_ < next_file_number_
        /\ pc \in {"idle", "append", "sync", "current", "install"}
    BY DEF VersionsInv, Memory
  <2>3. next_file_number_ <= next_file_number_'
    BY <2>1, <2>2, LimitAssumption
  <2> QED
    BY <2>1, <2>2, <2>3, QuietInv
<1> QED
  BY <1>1, <1>2, <1>3, <1>4, <1>5, <1>6, <1>7, <1>8, <1>9, <1>10, <1>11 DEF Next, TableStep

LEMMA WorkInit == Init => WorkInv
<1>1. Init => pc = "idle" /\ caller = "none" /\ compact = NoCompaction
  BY DEF Init
<1>2. NoCompaction.level = 0 /\ NoCompaction.output = 0 /\ NoCompaction.upper = {} /\ NoCompaction.lower = {}
  BY DEF NoCompaction
<1>3. Chosen(NoCompaction) = {} /\ IsFiniteSet({})
  BY <1>2, FS_EmptySet DEF Chosen
<1> QED
  BY <1>1, <1>2, <1>3 DEF WorkInv, Callers, Working

\* A step that leaves the work, its caller and the versions it looks at alone.
LEMMA WorkKept ==
  ASSUME VersionsInv, WorkInv, UNCHANGED <<current_, compact, caller, v>>,
         pc' = "idle" <=> pc = "idle", imm_ # nullptr => imm_' # nullptr,
         files_'[current_] = files_[current_], v # nullptr => files_'[v] = files_[v],
         \A u \in Versions : files_'[u] = files_[u] \/ files_'[u] = NoFiles,
         tables \subseteq tables', next_file_number_ <= next_file_number_', next_file_number_' \in Int
  PROVE  WorkInv'
<1>1. Callers'
  BY DEF WorkInv, Callers, Working
<1>2. caller = "CompactMemtable" => v # nullptr
  BY DEF WorkInv, Callers, VersionsInv, Vacant
<1>3. OwnNumber => OwnNumber'
  <2> SUFFICES ASSUME OwnNumber, compact.output # 0
               PROVE  /\ compact.output \in tables' /\ compact.output < next_file_number_'
                      /\ \A u \in Versions, l \in Levels : \A f \in ToSet(files_'[u][l]) :
                           f.number # compact.output
    BY DEF OwnNumber
  <2>1. compact.output \in Nat /\ next_file_number_ \in Int
    BY LimitAssumption DEF WorkInv, VersionsInv, Memory
  <2>2. compact.output \in tables' /\ compact.output < next_file_number_'
    BY <2>1 DEF OwnNumber
  <2>3. \A u \in Versions, l \in Levels : ToSet(files_'[u][l]) \subseteq ToSet(files_[u][l])
    BY NoFilesFacts
  <2> QED
    BY <2>2, <2>3 DEF OwnNumber
<1>4. Working => /\ Includes(files_[current_], compact) /\ Connected(Chosen(compact))
                 /\ caller # "DoCompactionWork" => OwnNumber'
                 /\ caller = "CompactMemtable" => Includes(files_[v], compact)
  BY <1>3 DEF WorkInv
<1>5. Working => /\ Includes(files_'[current_], compact)
                 /\ caller = "CompactMemtable" => Includes(files_'[v], compact)
  BY <1>2, <1>4
<1>6. compact.level \in Nat /\ compact.output \in Nat
      /\ Chosen(compact) \in SUBSET FileMetaData /\ IsFiniteSet(Chosen(compact))
      /\ (~Working => compact = NoCompaction)
  BY DEF WorkInv
<1> QED
  BY <1>1, <1>4, <1>5, <1>6 DEF WorkInv, Working

\* There is no work any more.
LEMMA WorkEnds ==
  ASSUME compact' = NoCompaction, Callers'
  PROVE  WorkInv'
<1>2. NoCompaction.level = 0 /\ NoCompaction.output = 0 /\ NoCompaction.upper = {} /\ NoCompaction.lower = {}
  BY DEF NoCompaction
<1>3. Chosen(NoCompaction) = {} /\ IsFiniteSet({})
  BY <1>2, FS_EmptySet DEF Chosen
<1> QED
  BY <1>2, <1>3 DEF WorkInv, Working

\* A memtable is compacted during the work: its table is not among the inputs,
\* has a number of its own and overlaps no input if it goes to the next level.
LEMMA WorkFlush ==
  ASSUME VersionsInv, WorkInv, NEW e, NEW t, NEW f, EditStep(e, t, f),
         caller' = "CompactMemtable", imm_ # nullptr,
         e.deleted_files = {}, f.number = next_file_number_,
         t > 0 => \A m \in 0 .. t : \A g \in InLevel(m) : ~Overlaps(f, g)
  PROVE  WorkInv'
<1> DEFINE c == compact
<1>1. /\ pc = "idle" /\ pc' = "append" /\ UNCHANGED <<current_, compact, imm_>>
      /\ Applies(files_[current_], e, t, f)
  BY DEF EditStep, LogAndApply, wal
<1>2. /\ v' \in Versions /\ v' # current_
      /\ files_' = [files_ EXCEPT ![v'] = ApplyEdit(files_[current_], e)]
      /\ current_ \in Versions /\ WellFormed(files_[current_]) /\ DOMAIN files_ = Versions
  BY EditStepInv DEF VersionsInv, Memory
<1>3. \A l \in Levels : \A g : g \in ToSet(ApplyEdit(files_[current_], e)[l])
        <=> g \in InLevel(l) \/ (l = t /\ g = f /\ e.new_files # {})
  <2>1. WellFormed(files_[current_]) /\ Applies(files_[current_], e, t, f)
    BY <1>1, <1>2
  <2>2. \A l \in Levels : \A g : g \in ToSet(ApplyEdit(files_[current_], e)[l])
          <=> \/ g \in ToSet(files_[current_][l]) /\ <<l, g.number>> \notin e.deleted_files
              \/ (l = t /\ g = f /\ e.new_files # {})
    BY <2>1, NewVersion
  <2>3. \A l \in Levels : \A g : <<l, g.number>> \notin e.deleted_files
    OBVIOUS
  <2> QED
    BY <2>2, <2>3 DEF InLevel
<1>4. /\ files_'[v'] = ApplyEdit(files_[current_], e)
      /\ \A u \in Versions \ {v'} : files_'[u] = files_[u]
  BY <1>2
<1>5. Callers'
  BY <1>1 DEF Callers
<1>6. CASE ~Working
  BY <1>1, <1>5, <1>6, WorkEnds DEF WorkInv
<1>7. CASE Working
  <2>1. /\ Includes(files_[current_], c) /\ Connected(Chosen(c)) /\ OwnNumber
        /\ c.level \in Nat /\ c.output \in Nat
        /\ Chosen(c) \in SUBSET FileMetaData /\ IsFiniteSet(Chosen(c))
    BY <1>1, <1>7 DEF WorkInv, Callers
  <2>2. Includes(files_'[v'], c)
    <3>1. /\ c.level \in Levels /\ c.level + 1 \in Levels
          /\ c.upper \subseteq InLevel(c.level) /\ c.lower \subseteq InLevel(c.level + 1)
          /\ \A g \in InLevel(c.level + 1) \ c.lower : \A h \in Chosen(c) : ~Overlaps(g, h)
      BY <2>1 DEF Includes, InLevel
    <3>2. c.upper \subseteq ToSet(files_'[v'][c.level]) /\ c.lower \subseteq ToSet(files_'[v'][c.level + 1])
      BY <1>3, <1>4, <3>1
    <3>3. ASSUME NEW g \in ToSet(files_'[v'][c.level + 1]) \ c.lower, NEW h \in Chosen(c)
          PROVE  ~Overlaps(g, h)
      <4>1. CASE g \in InLevel(c.level + 1)
        BY <3>1, <3>3, <4>1
      <4>2. CASE g \notin InLevel(c.level + 1)
        <5>1. g = f /\ t = c.level + 1
          BY <1>3, <1>4, <3>1, <3>3, <4>2
        <5>2. c.level \in 0 .. t /\ c.level + 1 \in 0 .. t /\ t > 0
          BY <2>1, <5>1
        <5>3. h \in InLevel(c.level) \/ h \in InLevel(c.level + 1)
          BY <3>1 DEF Chosen
        <5> QED
          BY <5>1, <5>2, <5>3
      <4> QED
        BY <4>1, <4>2
    <3> QED
      BY <3>1, <3>2, <3>3 DEF Includes
  <2>3. OwnNumber'
    <3> SUFFICES ASSUME c.output # 0
                 PROVE  /\ c.output \in tables' /\ c.output < next_file_number_'
                        /\ \A u \in Versions, l \in Levels : \A g \in ToSet(files_'[u][l]) :
                             g.number # c.output
      BY <1>1 DEF OwnNumber
    <3>1. next_file_number_ \in Int /\ next_file_number_' \in Int /\ next_file_number_ <= next_file_number_'
          /\ tables \subseteq tables'
      BY LimitAssumption DEF EditStep, VersionsInv, Memory
    <3>2. c.output \in tables' /\ c.output < next_file_number_' /\ c.output # next_file_number_
      BY <2>1, <3>1 DEF OwnNumber
    <3>3. ASSUME NEW u \in Versions, NEW l \in Levels, NEW g \in ToSet(files_'[u][l])
          PROVE  g.number # c.output
      <4>1. \A w \in Versions : g \in ToSet(files_[w][l]) => g.number # c.output
        BY <2>1 DEF OwnNumber
      <4>2. CASE u = v'
        BY <1>2, <1>3, <1>4, <3>2, <3>3, <4>1, <4>2 DEF InLevel
      <4>3. CASE u # v'
        BY <1>4, <3>3, <4>1, <4>3
      <4> QED
        BY <4>2, <4>3
    <3> QED
      BY <3>2, <3>3
  <2>4. Includes(files_'[current_], c)
    BY <1>2, <1>4, <2>1
  <2> QED
    BY <1>1, <1>5, <1>7, <2>1, <2>2, <2>3, <2>4 DEF WorkInv, Working
<1> QED
  BY <1>6, <1>7

LEMMA WorkPicked ==
  ASSUME VersionsInv, WorkInv, NEW l \in Levels, NEW f \in InLevel(l), PickCompaction(l, f)
  PROVE  WorkInv'
<1> DEFINE c == [level |-> l, upper |-> Inputs(l, f).upper, lower |-> Inputs(l, f).lower, output |-> 0]
<1>1. /\ l + 1 \in Levels /\ compact' = c /\ pc = "idle"
      /\ UNCHANGED <<current_, files_, pc, caller, imm_>>
  BY DEF PickCompaction, MayPickCompaction, memory, wal, locals
<1>2. c.level = l /\ c.upper = Inputs(l, f).upper /\ c.lower = Inputs(l, f).lower /\ c.output = 0
  OBVIOUS
<1> HIDE DEF c
<1>3. /\ Includes(files_[current_], c) /\ Connected(Chosen(c)) /\ c.upper # {}
      /\ Chosen(c) \in SUBSET FileMetaData /\ IsFiniteSet(Chosen(c))
  BY <1>1, <1>2, PickedInputs
<1>4. Callers' /\ caller' = "none"
  BY <1>1 DEF WorkInv, Callers
<1>5. OwnNumber'
  BY <1>1, <1>2 DEF OwnNumber
<1>6. l \in Nat
  BY LevelFacts
<1> QED
  BY <1>1, <1>2, <1>3, <1>4, <1>5, <1>6 DEF WorkInv, Working

LEMMA WorkOpened ==
  ASSUME VersionsInv, WorkInv, OpenOutput
  PROVE  WorkInv'
<1> DEFINE n == next_file_number_
<1>1. /\ pc = "idle" /\ Working /\ n \in Numbers /\ n' = n + 1
      /\ compact' = [compact EXCEPT !.output = n] /\ tables' = tables \cup {n}
      /\ UNCHANGED <<current_, files_, pc, caller, imm_>>
  BY DEF OpenOutput, NewFileNumber, memory, wal, locals
<1>2. compact'.level = compact.level /\ compact'.upper = compact.upper
      /\ compact'.lower = compact.lower /\ compact'.output \in {n, compact.output}
      /\ compact'.output \in {n, 0}
  <2>1. compact.output = 0
    BY DEF OpenOutput
  <2> QED
    BY <1>1, <2>1
<1>3. Chosen(compact') = Chosen(compact)
  BY <1>2 DEF Chosen
<1>4. n \in Nat
  BY <1>1, LimitAssumption DEF Numbers
<1>5. Callers' /\ caller' = "none"
  BY <1>1, <1>2 DEF WorkInv, Callers, Working
<1>6. OwnNumber'
  <2> SUFFICES ASSUME compact'.output = n
               PROVE  /\ n \in tables' /\ n < n'
                      /\ \A u \in Versions, l \in Levels : \A f \in ToSet(files_[u][l]) : f.number # n
    BY <1>1, <1>2 DEF OwnNumber
  <2>1. ASSUME NEW u \in Versions, NEW l \in Levels, NEW f \in ToSet(files_[u][l])
        PROVE  f.number # n
    <3>1. f.number < n
      BY <2>1 DEF VersionsInv, OnDisk
    <3> QED
      BY <1>4, <3>1
  <2> QED
    BY <1>1, <1>4, <2>1
<1>7. Includes(files_[current_], compact')
  <2>1. Includes(files_[current_], compact)
    BY <1>1 DEF WorkInv
  <2> QED
    BY <1>2, <1>3, <2>1 DEF Includes
<1> QED
  BY <1>1, <1>2, <1>3, <1>4, <1>5, <1>6, <1>7 DEF WorkInv, Working

\* When LogAndApply returns to CompactMemtable, the work goes on with a current
\* version that has its inputs.
LEMMA WorkReturned ==
  ASSUME VersionsInv, WorkInv, Install \/ Abandon
  PROVE  WorkInv'
<1>1. /\ pc = "install" /\ pc' = "idle" /\ caller' = "none"
      /\ compact' = (IF caller = "DoCompactionWork" THEN NoCompaction ELSE compact)
      /\ caller # "DoCompactionWork" /\ compact.output \in tables /\ compact.output # 0
           => compact.output \in tables'
      /\ UNCHANGED next_file_number_
  BY CallerEffect DEF Install, Abandon
<1>2. Callers'
  BY <1>1 DEF Callers
<1>3. /\ v \in Versions /\ v # current_ /\ current_ \in Versions /\ DOMAIN files_ = Versions
      /\ refs_[v] = 0
  <2>1. v \in Versions /\ refs_[v] = 0 /\ current_ \in Versions /\ DOMAIN files_ = Versions
    BY <1>1 DEF VersionsInv, Memory, Vacant
  <2> QED
    BY <2>1, ReferencedWhen
<1>4. CASE caller = "DoCompactionWork" \/ ~Working
  BY <1>1, <1>2, <1>4, WorkEnds DEF WorkInv
<1>5. CASE caller # "DoCompactionWork" /\ Working
  <2>1. caller = "CompactMemtable" /\ compact' = compact
    BY <1>1, <1>5 DEF WorkInv, Callers
  <2>2. /\ Includes(files_[current_], compact) /\ Includes(files_[v], compact)
        /\ Connected(Chosen(compact)) /\ OwnNumber
        /\ compact.level \in Nat /\ compact.output \in Nat
        /\ Chosen(compact) \in SUBSET FileMetaData /\ IsFiniteSet(Chosen(compact))
    BY <1>5, <2>1 DEF WorkInv
  <2>3. \A u \in Versions : files_'[u] = files_[u] \/ files_'[u] = NoFiles
    <3>1. CASE Install
      BY <1>3, <3>1, UnrefVersionEffect DEF Install, AppendVersion
    <3>2. CASE Abandon
      BY <1>3, <3>2 DEF Abandon
    <3> QED
      BY <3>1, <3>2
  <2>4. Includes(files_'[current_'], compact)
    <3>1. CASE Install
      <4>1. current_' = v /\ files_'[v] = files_[v]
        BY <1>3, <3>1, UnrefVersionEffect DEF Install, AppendVersion
      <4> QED
        BY <2>2, <4>1
    <3>2. CASE Abandon
      <4>1. current_' = current_ /\ files_'[current_] = files_[current_]
        BY <1>3, <3>2 DEF Abandon
      <4> QED
        BY <2>2, <4>1
    <3> QED
      BY <3>1, <3>2
  <2>5. OwnNumber'
    <3>1. \A u \in Versions, l \in Levels : ToSet(files_'[u][l]) \subseteq ToSet(files_[u][l])
      BY <2>3, NoFilesFacts
    <3> QED
      BY <1>1, <1>5, <2>1, <2>2, <3>1 DEF OwnNumber
  <2> QED
    BY <1>1, <1>2, <1>5, <2>1, <2>2, <2>4, <2>5 DEF WorkInv, Working
<1> QED
  BY <1>4, <1>5

LEMMA WorkNext ==
  ASSUME VersionsInv, WorkInv, [Next]_vars
  PROVE  WorkInv'
<1>0. next_file_number_ \in Int /\ next_file_number_ <= next_file_number_ /\ logfile_number_ # nullptr
  BY LimitAssumption DEF VersionsInv, Memory, Numbers, nullptr
<1>1. CASE \/ \E K \in SUBSET UserKeys : SwitchLog(K)
           \/ FlushFails \/ AppendRecord \/ SyncRecord \/ SetCurrentFile
  <2>1. /\ UNCHANGED <<current_, files_, compact, caller, v>>
        /\ pc' = "idle" <=> pc = "idle"
        /\ imm_ # nullptr => imm_' # nullptr
        /\ tables \subseteq tables' /\ next_file_number_' \in {next_file_number_, next_file_number_ + 1}
    <3>1. CASE \E K \in SUBSET UserKeys : SwitchLog(K)
      BY <3>1 DEF SwitchLog, NewFileNumber, memory, locals
    <3>2. CASE FlushFails
      BY <3>2 DEF FlushFails, NewFileNumber, memory, wal, locals
    <3>3. CASE AppendRecord \/ SyncRecord \/ SetCurrentFile
      BY <3>3 DEF AppendRecord, SyncRecord, SetCurrentFile, memory, files, wal, locals
    <3> QED
      BY <1>1, <3>1, <3>2, <3>3
  <2>2. next_file_number_ <= next_file_number_' /\ next_file_number_' \in Int
    BY <1>0, <2>1
  <2> QED
    BY <2>1, <2>2, WorkKept
<1>2. ASSUME NEW l \in Levels, Flush(l)
      PROVE  WorkInv'
  <2> DEFINE f == FileOf(next_file_number_, imm_keys, imm_)
  <2>1. /\ EditStep(FlushEdit(l, f), l, f) /\ caller' = "CompactMemtable" /\ imm_ # nullptr
        /\ FlushEdit(l, f).deleted_files = {} /\ f.number = next_file_number_
        /\ l > 0 => \A m \in 0 .. l : \A g \in InLevel(m) : ~Overlaps(f, g)
    BY <1>2, FlushStep, FlushApplies
  <2> HIDE DEF f
  <2> QED
    BY <2>1, WorkFlush
<1>3. CASE FlushNothing
  <2>1. ~(0 > 0)
    OBVIOUS
  <2> QED
    BY <1>3, <2>1, EmptyStep, EmptyApplies, WorkFlush
<1>4. ASSUME NEW l \in Levels, NEW f \in InLevel(l), TrivialMove(l, f)
      PROVE  WorkInv'
  <2>1. /\ ~Working /\ caller' = "BackgroundCompaction" /\ pc' = "append" /\ compact' = compact
    BY <1>4, MoveStep, MoveApplies DEF EditStep, LogAndApply
  <2>2. Callers'
    BY <2>1 DEF Callers, Working
  <2> QED
    BY <2>1, <2>2, WorkEnds DEF WorkInv
<1>5. CASE FinishWork
  <2>1. /\ Working /\ caller' = "DoCompactionWork" /\ pc' = "append" /\ UNCHANGED <<compact, current_>>
        /\ EditStep(WorkEdit(compact), compact.level + 1, Output(compact))
    BY <1>5, WorkStep, WorkApplies DEF LogAndApply
  <2>2. Callers'
    BY <2>1 DEF Callers, Working
  <2>3. files_'[current_] = files_[current_]
    BY <2>1, EditStepInv DEF VersionsInv, Memory
  <2> QED
    BY <2>1, <2>2, <2>3 DEF WorkInv, Working
<1>6. CASE WorkFails
  <2>1. compact' = NoCompaction /\ UNCHANGED <<pc, caller>> /\ pc = "idle"
    BY <1>6 DEF WorkFails, locals
  <2>2. Callers'
    BY <2>1 DEF WorkInv, Callers
  <2> QED
    BY <2>1, <2>2, WorkEnds
<1>7. CASE (\E r \in Readers : RefVersion(r) \/ DropVersion(r)) \/ UNCHANGED vars
  <2>1. Reading
    BY <1>7, ReaderStep
  <2>2. \A u \in Versions : files_'[u] = files_[u] \/ files_'[u] = NoFiles
    <3>1. ASSUME NEW r \in Readers, DropVersion(r)
          PROVE  \A u \in Versions : files_'[u] = files_[u] \/ files_'[u] = NoFiles
      <4>1. held[r] \in Versions /\ UnrefVersion(held[r])
        BY <3>1 DEF DropVersion, VersionsInv, Memory
      <4> QED
        BY <4>1, UnrefVersionEffect
    <3> QED
      BY <1>7, <3>1 DEF RefVersion, vars
  <2> QED
    BY <1>0, <2>1, <2>2, WorkKept DEF Reading
<1> QED
  BY <1>1, <1>2, <1>3, <1>4, <1>5, <1>6, <1>7, WorkPicked, WorkOpened, WorkReturned DEF Next

\* VersionsInv and WorkInv are invariants of the version set.
THEOREM VersionsInvariant == Spec => [](VersionsInv /\ WorkInv)
<1>1. Init => VersionsInv /\ WorkInv
  BY InitInv, WorkInit
<1>2. VersionsInv /\ WorkInv /\ [Next]_vars => (VersionsInv /\ WorkInv)'
  BY NextInv, WorkNext
<1> QED
  BY <1>1, <1>2, PTL DEF Spec

\* Reference counts of versions and files are exact in every reachable state:
\* nothing leaks, and nothing is freed while a reader, the current version or a
\* LogAndApply in progress needs it, whatever fails.
THEOREM CountsExact == Spec => []VersionRefs
<1>1. VersionsInv /\ WorkInv => VersionRefs
  BY DEF VersionsInv
<1> QED
  BY <1>1, VersionsInvariant, PTL

\* No table that a live version refers to is removed from the disk.
THEOREM NeededFilesKept == Spec => []LiveFilesExist
<1>1. VersionsInv /\ WorkInv => LiveFilesExist
  <2> SUFFICES ASSUME VersionsInv, NEW n \in LiveTables(files_)
               PROVE  n \in tables
    BY DEF LiveFilesExist
  <2>0. PICK u \in Versions : \E o \in Objects(files_[u]) : n = o[2]
    BY DEF LiveTables
  <2>1. PICK o \in Objects(files_[u]) : n = o[2]
    BY <2>0
  <2>2. files_[u] \in [Levels -> Seq(FileMetaData)]
    BY DEF VersionsInv, Memory, WellFormed
  <2>3. o[1] \in Levels /\ \E f \in ToSet(files_[u][o[1]]) : f.number = o[2]
    BY <2>2, ObjectsOf
  <2> QED
    BY <2>1, <2>3 DEF VersionsInv, OnDisk
<1> QED
  BY <1>1, VersionsInvariant, PTL

\* The assertion of MaybeAddFile holds: each level of each version is sorted by
\* smallest key, and below level 0 no two files have a key in common.
THEOREM SortedAndDisjoint == Spec => []LevelsSorted
<1>1. VersionsInv /\ WorkInv => LevelsSorted
  <2> SUFFICES ASSUME VersionsInv, NEW u \in Versions, NEW l \in Levels,
                      NEW j \in 1 .. (Len(files_[u][l]) - 1)
               PROVE  /\ BySmallestKey(files_[u][l][j], files_[u][l][j + 1])
                      /\ l > 0 => files_[u][l][j].largest < files_[u][l][j + 1].smallest
    BY DEF LevelsSorted
  <2> DEFINE fs == files_[u][l]
             f == fs[j]
             g == fs[j + 1]
  <2>1. fs \in Seq(FileMetaData) /\ Increasing(fs) /\ Apart(l, ToSet(fs))
    BY DEF VersionsInv, Memory, WellFormed
  <2> HIDE DEF fs
  <2>2. j \in 1 .. Len(fs) /\ j + 1 \in 1 .. Len(fs) /\ j < j + 1
    BY <2>1 DEF fs
  <2>3. f \in ToSet(fs) /\ g \in ToSet(fs) /\ f \in FileMetaData /\ g \in FileMetaData
    BY <2>1, <2>2 DEF ToSet
  <2>4. BySmallestKey(f, g)
    BY <2>1, <2>2 DEF Increasing
  <2> HIDE DEF f, g
  <2>5. ASSUME l > 0
        PROVE  f.largest < g.smallest
    <3>1. f # g
      BY <2>3, <2>4, FileOrder
    <3>2. ~Overlaps(f, g) /\ g.smallest <= g.largest
      BY <2>1, <2>3, <2>5, <3>1 DEF Apart
    <3>3. f.smallest <= g.smallest
      BY <2>3, <2>4, FileTypes DEF BySmallestKey
    <3> QED
      BY <2>3, <3>2, <3>3, FileTypes DEF Overlaps
  <2> QED
    BY <2>4, <2>5 DEF fs, f, g
<1> QED
  BY <1>1, VersionsInvariant, PTL

\* LogAndApply records the edit with the two numbers it adds.
LEMMA RecordedEdit ==
  ASSUME NEW e \in VersionEdits, LogAndApply(e, caller'), log_number_ \in Nat, next_file_number_' \in Nat
  PROVE  /\ edit' \in VersionEdits
         /\ edit'.new_files = e.new_files /\ edit'.deleted_files = e.deleted_files
         /\ edit'.log_number = (IF e.log_number = 0 THEN log_number_ ELSE e.log_number)
         /\ edit'.next_file = next_file_number_'
<1> DEFINE n == IF e.log_number = 0 THEN log_number_ ELSE e.log_number
           m == next_file_number_'
<1>1. edit' = [e EXCEPT !.log_number = n, !.next_file = m]
  BY DEF LogAndApply, NextFile
<1>2. n \in Nat /\ m \in Nat
  BY DEF VersionEdits
<1> HIDE DEF n, m
<1>3. /\ edit' \in VersionEdits
      /\ edit'.new_files = e.new_files /\ edit'.deleted_files = e.deleted_files
      /\ edit'.log_number = n /\ edit'.next_file = m
  BY <1>1, <1>2 DEF VersionEdits
<1> QED
  BY <1>3 DEF n, m

-----------------------------------------------------------------------------
(* What the callers' edits have in common *)

\* Every file of a version has finitely many entries.
FiniteData(fs) == \A l \in Levels : \A f \in ToSet(fs[l]) : IsFiniteSet(f.data)

\* The output f of an edit has the data of every file that the edit deletes; an
\* edit that moves the log number on is a flush, and f has the writes of imm_ if
\* there are any; f has finitely many entries if all files have.
Carries(e, f) ==
  /\ \/ e.log_number = 0 /\ caller' # "CompactMemtable"
     \/ /\ e.log_number = logfile_number_ /\ imm_ # nullptr /\ caller' = "CompactMemtable"
        /\ IF e.new_files = {} THEN imm_keys = {} ELSE \E k \in UserKeys : <<k, imm_>> \in f.data
  /\ \A l \in Levels : \A g \in InLevel(l) :
       <<l, g.number>> \in e.deleted_files => g.data \subseteq f.data
  /\ FiniteData(files_[current_]) => IsFiniteSet(f.data)
  /\ Working \/ ~bg_error_

\* A table of a memtable with finitely many keys.
LEMMA FiniteTable ==
  ASSUME NEW n, NEW K, IsFiniteSet(K), NEW g
  PROVE  IsFiniteSet(FileOf(n, K, g).data)
<1> DEFINE D == {<<k, g>> : k \in K}
           m == [k \in K |-> <<k, g>>]
<1>1. FileOf(n, K, g).data = D
  BY DEF FileOf
<1>2. m \in Surjection(K, D)
  BY DEF Surjection
<1> HIDE DEF m, D
<1> QED
  BY <1>1, <1>2, FS_Surjection

LEMMA FlushCarries ==
  ASSUME VersionsInv, NEW l \in Levels, Flush(l)
  PROVE  LET f == FileOf(next_file_number_, imm_keys, imm_) IN Carries(FlushEdit(l, f), f)
<1> DEFINE f == FileOf(next_file_number_, imm_keys, imm_)
<1>1. /\ FlushEdit(l, f).deleted_files = {} /\ FlushEdit(l, f).log_number = logfile_number_
      /\ imm_ # nullptr /\ FlushEdit(l, f).new_files = {<<l, f>>} /\ imm_keys # {}
      /\ caller' = "CompactMemtable"
  BY FlushApplies, FlushStep
<1>2. IsFiniteSet(imm_keys) /\ imm_keys \in SUBSET UserKeys
  BY DEF VersionsInv, Memory
<1>3. \E k \in UserKeys : <<k, imm_>> \in f.data
  BY <1>1, <1>2 DEF FileOf
<1>4. IsFiniteSet(f.data)
  BY <1>2, FiniteTable
<1>6. Working \/ ~bg_error_
  BY DEF Flush, MayCompactMemtable
<1> HIDE DEF f
<1>5. Carries(FlushEdit(l, f), f)
  BY <1>1, <1>3, <1>4, <1>6 DEF Carries
<1> QED
  BY <1>5 DEF f

LEMMA EmptyCarries ==
  ASSUME VersionsInv, FlushNothing
  PROVE  Carries(EmptyEdit, NoTable)
<1>1. IsFiniteSet(NoTable.data)
  BY FS_Singleton, FiniteTable DEF NoTable
<1>2. Working \/ ~bg_error_
  BY DEF FlushNothing, MayCompactMemtable
<1> QED
  BY <1>1, <1>2, EmptyApplies, EmptyStep DEF Carries

LEMMA MoveCarries ==
  ASSUME VersionsInv, NEW l \in Levels, NEW f \in InLevel(l), TrivialMove(l, f)
  PROVE  Carries(MoveEdit(l, f), f)
<1>1. /\ MoveEdit(l, f).deleted_files = {<<l, f.number>>} /\ MoveEdit(l, f).log_number = 0
      /\ caller' = "BackgroundCompaction"
  BY MoveApplies, MoveStep
<1>2. Distinct(files_[current_])
  BY DEF VersionsInv, Memory, WellFormed
<1>3. \A m \in Levels : \A g \in InLevel(m) : g.number = f.number => g = f
  BY <1>2 DEF Distinct, InLevel
<1>4. FiniteData(files_[current_]) => IsFiniteSet(f.data)
  BY DEF FiniteData, InLevel
<1>5. Working \/ ~bg_error_
  BY DEF TrivialMove, MayPickCompaction
<1> QED
  BY <1>1, <1>3, <1>4, <1>5 DEF Carries

\* What DoCompactionWork deletes are its inputs.
LEMMA DeletedInputs ==
  ASSUME VersionsInv, WorkInv, Working, NEW m \in Levels, NEW g \in InLevel(m),
         <<m, g.number>> \in Deleted(compact)
  PROVE  g \in Chosen(compact)
<1>1. \E h \in Chosen(compact) : g.number = h.number
  BY DEF Deleted, Chosen
<1>2. PICK h \in Chosen(compact) : g.number = h.number
  BY <1>1
<1>3. h \in InLevel(compact.level) \/ h \in InLevel(compact.level + 1)
  BY ChosenFiles
<1>4. Distinct(files_[current_]) /\ compact.level \in Levels /\ compact.level + 1 \in Levels
  BY <1>2, ChosenFiles DEF VersionsInv, Memory, WellFormed
<1>5. g = h
  BY <1>2, <1>3, <1>4 DEF Distinct, InLevel
<1> QED
  BY <1>2, <1>5

\* The data of the output.
LEMMA OutputData ==
  ASSUME VersionsInv, WorkInv, FinishWork
  PROVE  /\ Output(compact) \in FileMetaData
         /\ Output(compact).data = UNION {g.data : g \in Chosen(compact)}
         /\ \A g \in Chosen(compact) : /\ Output(compact).smallest <= g.smallest
                                       /\ g.largest <= Output(compact).largest
<1>1. Working /\ compact.output \in tables
  BY WorkApplies
<1>2. compact.output \in Numbers /\ compact.upper # {}
  BY <1>1 DEF VersionsInv, Memory, Working
<1>3. Chosen(compact) \in SUBSET FileMetaData /\ IsFiniteSet(Chosen(compact))
  BY DEF WorkInv
<1>4. \A g \in Chosen(compact) : g.smallest <= g.largest
  BY <1>1, ChosenFiles
<1> QED
  BY <1>2, <1>3, <1>4, OutputFile

LEMMA WorkCarries ==
  ASSUME VersionsInv, WorkInv, FinishWork
  PROVE  Carries(WorkEdit(compact), Output(compact))
<1>1. /\ WorkEdit(compact).deleted_files = Deleted(compact) /\ WorkEdit(compact).log_number = 0
      /\ Working /\ caller' = "DoCompactionWork"
  BY WorkApplies, WorkStep
<1>2. Output(compact).data = UNION {g.data : g \in Chosen(compact)}
  BY OutputData
<1>3. \A m \in Levels : \A g \in InLevel(m) :
        <<m, g.number>> \in Deleted(compact) => g.data \subseteq Output(compact).data
  BY <1>1, <1>2, DeletedInputs
<1>4. FiniteData(files_[current_]) => IsFiniteSet(Output(compact).data)
  <2> SUFFICES ASSUME FiniteData(files_[current_])
               PROVE  IsFiniteSet(Output(compact).data)
    OBVIOUS
  <2> DEFINE I == Chosen(compact)
             D == {g.data : g \in I}
             m == [g \in I |-> g.data]
  <2>1. \A g \in I : IsFiniteSet(g.data)
    BY <1>1, ChosenFiles DEF FiniteData, InLevel
  <2>2. IsFiniteSet(I)
    BY DEF WorkInv
  <2>3. Output(compact).data = UNION D
    BY <1>2
  <2> HIDE DEF I
  <2>4. m \in Surjection(I, D)
    BY DEF Surjection
  <2>5. \A x \in D : IsFiniteSet(x)
    BY <2>1
  <2> HIDE DEF D, m
  <2>6. IsFiniteSet(D)
    BY <2>2, <2>4, FS_Surjection
  <2> QED
    BY <2>3, <2>5, <2>6, FS_UNION
<1> QED
  BY <1>1, <1>3, <1>4 DEF Carries

\* A caller's step.
CallerStep == \E e, t, f : EditStep(e, t, f) /\ Carries(e, f)

LEMMA CallerSteps ==
  ASSUME VersionsInv, WorkInv,
         \/ \E l \in Levels : Flush(l)
         \/ FlushNothing \/ FinishWork
         \/ \E l \in Levels : \E f \in InLevel(l) : TrivialMove(l, f)
  PROVE  CallerStep
<1>1. ASSUME NEW l \in Levels, Flush(l)
      PROVE  CallerStep
  BY <1>1, FlushStep, FlushCarries DEF CallerStep
<1>2. ASSUME NEW l \in Levels, NEW f \in InLevel(l), TrivialMove(l, f)
      PROVE  CallerStep
  BY <1>2, MoveStep, MoveCarries DEF CallerStep
<1>3. CASE FinishWork
  BY <1>3, WorkStep, WorkCarries DEF CallerStep
<1>4. CASE FlushNothing
  BY <1>4, EmptyStep, EmptyCarries DEF CallerStep
<1> QED
  BY <1>1, <1>2, <1>3, <1>4

\* The steps there are.
LEMMA StepKinds ==
  ASSUME VersionsInv, WorkInv, [Next]_vars
  PROVE  \/ \E K \in SUBSET UserKeys : SwitchLog(K)
         \/ CallerStep \/ TableStep \/ Reading
         \/ AppendRecord \/ SyncRecord \/ SetCurrentFile \/ Install \/ Abandon
<1>1. (\E r \in Readers : RefVersion(r) \/ DropVersion(r)) \/ UNCHANGED vars => Reading
  BY ReaderStep
<1> QED
  BY <1>1, CallerSteps DEF Next, TableStep

-----------------------------------------------------------------------------
(* The level that Finallize chooses *)

\* Quotients with positive denominators: what is not greater than a quotient is
\* not greater than one that is.
LEMMA NotGreater ==
  ASSUME NEW a \in Int, NEW c \in Int, NEW e \in Int,
         NEW b \in Nat \ {0}, NEW d \in Nat \ {0}, NEW f \in Nat \ {0},
         a * d <= c * b, e * d > c * f
  PROVE  a * f <= e * b
<1>1. (a * d) * f <= (c * b) * f
  <2> DEFINE x == a * d
             y == c * b
  <2>1. x \in Int /\ y \in Int /\ x <= y
    OBVIOUS
  <2> HIDE DEF x, y
  <2>2. x * f <= y * f
    BY <2>1
  <2> QED
    BY <2>2 DEF x, y
<1>2. (c * f) * b <= (e * d) * b
  <2> DEFINE x == c * f
             y == e * d
  <2>1. x \in Int /\ y \in Int /\ x <= y
    OBVIOUS
  <2> HIDE DEF x, y
  <2>2. x * b <= y * b
    BY <2>1
  <2> QED
    BY <2>2 DEF x, y
<1>3. (a * d) * f = (a * f) * d /\ (c * b) * f = (c * f) * b /\ (e * d) * b = (e * b) * d
  OBVIOUS
<1>4. (a * f) * d <= (e * b) * d
  <2> DEFINE u == (a * f) * d
             w == (c * f) * b
             z == (e * b) * d
  <2>1. u \in Int /\ w \in Int /\ z \in Int /\ u <= w /\ w <= z
    BY <1>1, <1>2, <1>3
  <2> HIDE DEF u, w, z
  <2>2. u <= z
    BY <2>1
  <2> QED
    BY <2>2 DEF u, z
<1>5. a * f \in Int /\ e * b \in Int
  OBVIOUS
<1> DEFINE x == a * f
           y == e * b
<1> HIDE DEF x, y
<1>6. x \in Int /\ y \in Int /\ x * d <= y * d => x <= y
  OBVIOUS
<1> QED
  BY <1>4, <1>5, <1>6 DEF x, y

Quotients == Int \X (Nat \ {0})
Bests == [level : Int, score : Quotients]

LEMMA ScoreType ==
  ASSUME NEW fs \in [Levels -> Seq(FileMetaData)], FiniteData(fs), NEW l \in 0 .. (kNumLevels - 2)
  PROVE  Score(fs, l) \in Quotients
<1>1. l \in Levels /\ 0 \in Levels
  BY LevelAssumption DEF Levels
<1>2. CASE l = 0
  <2>1. Len(fs[0]) \in Int /\ kL0_CompactionTrigger \in Nat \ {0}
    BY <1>1, LimitAssumption
  <2> QED
    BY <1>2, <2>1 DEF Score, Quotients
<1>3. CASE l # 0
  <2> DEFINE S == ToSet(fs[l])
             D == {f.data \X {f.number} : f \in S}
             m == [f \in S |-> f.data \X {f.number}]
  <2>1. IsFiniteSet(S)
    BY <1>1, FiniteLevel
  <2>2. \A f \in S : IsFiniteSet(f.data \X {f.number})
    <3> SUFFICES ASSUME NEW f \in S
                 PROVE  IsFiniteSet(f.data \X {f.number})
      OBVIOUS
    <3>1. IsFiniteSet(f.data) /\ IsFiniteSet({f.number})
      BY <1>1, FS_Singleton DEF FiniteData
    <3> QED
      BY <3>1, FS_Product
  <2> HIDE DEF S
  <2>3. m \in Surjection(S, D)
    BY DEF Surjection
  <2>4. \A x \in D : IsFiniteSet(x)
    BY <2>2
  <2> HIDE DEF m
  <2>5. IsFiniteSet(D)
    <3> HIDE DEF D
    <3> QED
      BY <2>1, <2>3, FS_Surjection
  <2>6. IsFiniteSet(UNION D)
    <3> HIDE DEF D
    <3> QED
      BY <2>4, <2>5, FS_UNION
  <2>7. Cardinality(UNION D) \in Int
    <3> HIDE DEF D
    <3>1. Cardinality(UNION D) \in Nat
      BY <2>6, FS_CardinalityType
    <3> QED
      BY <3>1
  <2>8. MaxByteForLevel[l] \in Nat \ {0}
    BY <1>3, LevelAssumption, LimitAssumption
  <2>9. Score(fs, l) = <<Cardinality(UNION D), MaxByteForLevel[l]>>
    BY <1>3 DEF Score, D, S
  <2> QED
    BY <2>7, <2>8, <2>9 DEF Quotients
<1> QED
  BY <1>2, <1>3

\* Of the levels below n, that of best has the best score.
BestOf(fs, n, best) ==
  /\ best.level # -1 => best.level \in 0 .. (n - 1) /\ best.score = Score(fs, best.level)
  /\ \A l \in 0 .. (n - 1) : ~Greater(Score(fs, l), best.score)

\* Finallize looks at one more level.
Better(fs, n, best) ==
  IF Greater(Score(fs, n - 1), best.score) THEN [level |-> n - 1, score |-> Score(fs, n - 1)] ELSE best

LEMMA BetterIsBest ==
  ASSUME NEW fs \in [Levels -> Seq(FileMetaData)], FiniteData(fs), NEW n \in 1 .. (kNumLevels - 1),
         NEW best \in Bests, BestOf(fs, n - 1, best)
  PROVE  Better(fs, n, best) \in Bests /\ BestOf(fs, n, Better(fs, n, best))
<1> DEFINE new == Score(fs, n - 1)
<1>1. n - 1 \in 0 .. (kNumLevels - 2) /\ n - 1 \in Int /\ kNumLevels - 1 \in Nat
  BY LevelAssumption
<1>2. new \in Quotients
  BY <1>1, ScoreType
<1>3. best.score \in Quotients /\ best.level \in Int
  BY DEF Bests
<1>4. \A l \in 0 .. (n - 1) : l = n - 1 \/ l \in 0 .. ((n - 1) - 1)
  BY <1>1
<1>5. CASE Greater(new, best.score)
  <2> DEFINE b == [level |-> n - 1, score |-> new]
  <2>1. Better(fs, n, best) = b
    BY <1>5 DEF Better
  <2> HIDE DEF new
  <2>2. b \in Bests /\ b.level = n - 1 /\ b.score = new
    BY <1>1, <1>2 DEF Bests
  <2>3. ASSUME NEW l \in 0 .. ((n - 1) - 1)
        PROVE  ~Greater(Score(fs, l), new)
    <3>1. Score(fs, l) \in Quotients
      <4>1. l \in 0 .. (kNumLevels - 2)
        BY <1>1, LevelAssumption
      <4> QED
        BY <4>1, ScoreType
    <3>2. ~Greater(Score(fs, l), best.score)
      BY DEF BestOf
    <3> DEFINE p == Score(fs, l)
               q == best.score
    <3>3. /\ p[1] \in Int /\ p[2] \in Nat \ {0} /\ q[1] \in Int /\ q[2] \in Nat \ {0}
          /\ new[1] \in Int /\ new[2] \in Nat \ {0}
      BY <1>2, <1>3, <3>1 DEF Quotients
    <3>4. ~(p[1] * q[2] > q[1] * p[2]) /\ new[1] * q[2] > q[1] * new[2]
      BY <1>5, <3>2 DEF Greater
    <3> HIDE DEF p, q
    <3>5. p[1] * q[2] <= q[1] * p[2]
      BY <3>3, <3>4
    <3>6. p[1] * new[2] <= new[1] * p[2]
      BY <3>3, <3>4, <3>5, NotGreater
    <3>7. ~(p[1] * new[2] > new[1] * p[2])
      BY <3>3, <3>6
    <3> QED
      BY <3>7 DEF Greater, p
  <2>4. ~Greater(new, new)
    <3>1. new[1] \in Int /\ new[2] \in Int
      BY <1>2 DEF Quotients
    <3> QED
      BY <3>1 DEF Greater
  <2>5. \A l \in 0 .. (n - 1) : ~Greater(Score(fs, l), new)
    BY <1>4, <2>3, <2>4 DEF new
  <2> HIDE DEF b
  <2>6. BestOf(fs, n, b)
    BY <1>1, <2>2, <2>5 DEF BestOf, new
  <2> QED
    BY <2>1, <2>2, <2>6
<1>6. CASE ~Greater(new, best.score)
  <2>1. Better(fs, n, best) = best
    BY <1>6 DEF Better
  <2>2. \A l \in 0 .. (n - 1) : ~Greater(Score(fs, l), best.score)
    BY <1>4, <1>6 DEF BestOf
  <2>3. best.level # -1 => best.level \in 0 .. (n - 1) /\ best.score = Score(fs, best.level)
    BY <1>1, <1>3 DEF BestOf
  <2> QED
    BY <2>1, <2>2, <2>3 DEF BestOf
<1> QED
  BY <1>5, <1>6

LEMMA FinallizeBest ==
  ASSUME NEW fs \in [Levels -> Seq(FileMetaData)], FiniteData(fs)
  PROVE  BestOf(fs, kNumLevels - 1, Finallize(fs))
<1> DEFINE n == kNumLevels - 1
           Best == CHOOSE b : b = [i \in 0 .. (kNumLevels - 1) |->
                     IF i = 0 THEN NotFinalised
                     ELSE LET best == b[i - 1] IN
                          IF Greater(Score(fs, i - 1), best.score)
                            THEN [level |-> i - 1, score |-> Score(fs, i - 1)] ELSE best]
           step == [z \in (1 .. n) \X Bests |-> IF Better(fs, z[1], z[2]) \in Bests
                                               THEN Better(fs, z[1], z[2]) ELSE z[2]]
<1>1. n \in Nat
  BY LevelAssumption
<1>2. NotFinalised \in Bests /\ BestOf(fs, 0, NotFinalised)
  BY DEF NotFinalised, Bests, Quotients, BestOf
<1>3. step \in [(1 .. n) \X Bests -> Bests]
  OBVIOUS
<1>4. \A i \in 1 .. n, b \in Bests : Better(fs, i, b) \in Bests => step[<<i, b>>] = Better(fs, i, b)
  OBVIOUS
<1> HIDE DEF n, step
<1>5. PICK g \in [0 .. n -> Bests] : Iterates(g, n, NotFinalised, step)
  BY <1>1, <1>2, <1>3, Recursion
<1>6. g[0] = NotFinalised /\ \A i \in 1 .. n : g[i] = step[<<i, g[i - 1]>>]
  BY <1>5 DEF Iterates
<1> DEFINE T == {i \in 0 .. n : BestOf(fs, i, g[i]) /\ (i = 0 \/ g[i] = Better(fs, i, g[i - 1]))}
<1>7. 0 \in T
  BY <1>1, <1>2, <1>6
<1>8. ASSUME NEW i \in 1 .. n, i - 1 \in T
      PROVE  i \in T
  <2>1. BestOf(fs, i - 1, g[i - 1]) /\ g[i - 1] \in Bests /\ i \in 0 .. n
    BY <1>1, <1>8
  <2>2. Better(fs, i, g[i - 1]) \in Bests /\ BestOf(fs, i, Better(fs, i, g[i - 1]))
    BY <2>1, BetterIsBest DEF n
  <2>3. g[i] = Better(fs, i, g[i - 1])
    BY <1>4, <1>6, <2>1, <2>2
  <2> QED
    BY <2>1, <2>2, <2>3
<1>9. 0 .. n \subseteq T
  <2> HIDE DEF T
  <2> QED
    BY <1>1, <1>7, <1>8, UpTo
<1>10. \A i \in 1 .. n : g[i] = Better(fs, i, g[i - 1])
  <2>1. \A i \in 1 .. n : i \in 0 .. n /\ i # 0
    BY <1>1
  <2> QED
    BY <1>9, <2>1
<1>11. g = [i \in 0 .. n |-> IF i = 0 THEN NotFinalised ELSE Better(fs, i, g[i - 1])]
  <2>1. \A i \in 0 .. n : g[i] = IF i = 0 THEN NotFinalised ELSE Better(fs, i, g[i - 1])
    <3>1. \A i \in 0 .. n : i = 0 \/ i \in 1 .. n
      BY <1>1
    <3>2. \A i \in 1 .. n : i # 0
      BY <1>1
    <3> QED
      BY <1>6, <1>10, <3>1, <3>2
  <2> QED
    BY <2>1
<1>12. Best = [i \in 0 .. n |-> IF i = 0 THEN NotFinalised ELSE Better(fs, i, Best[i - 1])]
  BY <1>11, Zenon DEF Better, n
<1>13. Finallize(fs) = Best[n]
  BY DEF Finallize, n
<1> HIDE DEF Best
<1> DEFINE U == {i \in 0 .. n : Best[i] = g[i]}
<1>14. 0 \in U
  BY <1>1, <1>6, <1>12
<1>15. ASSUME NEW i \in 1 .. n, i - 1 \in U
       PROVE  i \in U
  <2>1. i \in 0 .. n /\ i # 0 /\ Best[i - 1] = g[i - 1]
    BY <1>1, <1>15
  <2>2. Best[i] = Better(fs, i, Best[i - 1])
    BY <1>12, <2>1
  <2>3. Best[i] = g[i]
    BY <1>10, <2>1, <2>2, Zenon
  <2> QED
    BY <2>1, <2>3
<1>16. n \in 0 .. n
  BY <1>1
<1>17. Best[n] = g[n]
  <2> HIDE DEF U
  <2>1. n \in U
    BY <1>1, <1>14, <1>15, <1>16, UpTo
  <2> QED
    BY <2>1 DEF U
<1>18. BestOf(fs, n, Best[n])
  BY <1>9, <1>16, <1>17
<1> QED
  BY <1>13, <1>18 DEF n

\* Every file has finitely many entries, and a version that is finalised was
\* finalised with the files it has.
ScoresInv ==
  /\ \A u \in Versions : FiniteData(files_[u])
  /\ DOMAIN compaction_ = Versions
  /\ \A u \in Versions : compaction_[u] = NotFinalised \/ compaction_[u] = Finallize(files_[u])

LEMMA NoFilesFinite == FiniteData(NoFiles)
BY NoFilesFacts DEF FiniteData

LEMMA ScoresInit == Init => ScoresInv
<1> SUFFICES ASSUME Init
             PROVE  ScoresInv
  OBVIOUS
<1>1. /\ files_ = [u \in Versions |-> IF u = 1 THEN RecoveredFiles ELSE NoFiles]
      /\ compaction_ = [u \in Versions |-> NotFinalised]
  BY DEF Init
<1>2. FiniteData(RecoveredFiles)
  <2>1. CASE RecoveredKeys = {}
    BY <2>1, NoFilesFinite DEF RecoveredFiles
  <2>2. CASE RecoveredKeys # {}
    <3> DEFINE f == FileOf(1, RecoveredKeys, 0)
               b == kNumLevels - 1
               D == {<<k, 0>> : k \in RecoveredKeys}
               m == [k \in RecoveredKeys |-> <<k, 0>>]
    <3>1. m \in Surjection(RecoveredKeys, D) /\ f.data = D
      BY DEF Surjection, FileOf
    <3> HIDE DEF m, D, f
    <3>2. IsFiniteSet(f.data)
      BY <3>1, FS_Surjection, RecoveredAssumption
    <3>3. b \in Levels /\ RecoveredFiles = [NoFiles EXCEPT ![b] = <<f>>] /\ DOMAIN NoFiles = Levels
      BY <2>2, LevelFacts DEF RecoveredFiles, f, NoFiles
    <3> HIDE DEF b
    <3>4. \A l \in Levels : RecoveredFiles[l] = IF l = b THEN <<f>> ELSE NoFiles[l]
      BY <3>3
    <3>5. ToSet(<<f>>) = {f}
      BY DEF ToSet
    <3>6. \A l \in Levels : \A g \in ToSet(RecoveredFiles[l]) : g = f
      BY <3>4, <3>5, NoFilesFacts
    <3> QED
      BY <3>2, <3>6 DEF FiniteData
  <2> QED
    BY <2>1, <2>2
<1> QED
  BY <1>1, <1>2, NoFilesFinite DEF ScoresInv

\* A version that is deleted has no files and is not finalised.
LEMMA ScoresDeleted ==
  ASSUME VersionsInv, ScoresInv,
         \/ UNCHANGED <<files_, compaction_>>
         \/ \E u \in Versions : /\ files_' = [files_ EXCEPT ![u] = NoFiles]
                                /\ compaction_' = [compaction_ EXCEPT ![u] = NotFinalised]
  PROVE  ScoresInv'
<1>1. CASE UNCHANGED <<files_, compaction_>>
  BY <1>1 DEF ScoresInv
<1>2. ASSUME NEW u \in Versions, files_' = [files_ EXCEPT ![u] = NoFiles],
             compaction_' = [compaction_ EXCEPT ![u] = NotFinalised]
      PROVE  ScoresInv'
  <2>1. DOMAIN files_ = Versions /\ DOMAIN compaction_ = Versions
    BY DEF VersionsInv, Memory, ScoresInv
  <2>2. \A w \in Versions : IF w = u THEN files_'[w] = NoFiles /\ compaction_'[w] = NotFinalised
                            ELSE files_'[w] = files_[w] /\ compaction_'[w] = compaction_[w]
    BY <1>2, <2>1
  <2>3. \A w \in Versions : FiniteData(files_'[w])
    BY <2>2, NoFilesFinite DEF ScoresInv
  <2>4. \A w \in Versions : compaction_'[w] = NotFinalised \/ compaction_'[w] = Finallize(files_'[w])
    BY <2>2 DEF ScoresInv
  <2>5. DOMAIN compaction_' = Versions
    BY <1>2, <2>1
  <2>6. (\A w \in Versions : FiniteData(files_[w]))'
    BY <2>3
  <2>7. (\A w \in Versions : compaction_[w] = NotFinalised \/ compaction_[w] = Finallize(files_[w]))'
    BY <2>4
  <2> QED
    BY <2>5, <2>6, <2>7 DEF ScoresInv
<1> QED
  BY <1>1, <1>2

LEMMA ScoresCaller ==
  ASSUME VersionsInv, ScoresInv, NEW e, NEW t, NEW f, EditStep(e, t, f), Carries(e, f)
  PROVE  ScoresInv'
<1> DEFINE fs == ApplyEdit(files_[current_], e)
<1>1. /\ v' \in Versions /\ files_' = [files_ EXCEPT ![v'] = fs]
      /\ DOMAIN files_ = Versions /\ DOMAIN compaction_ = Versions
      /\ current_ \in Versions /\ WellFormed(files_[current_])
  BY EditStepInv DEF VersionsInv, Memory, ScoresInv
<1>2. compaction_' = [compaction_ EXCEPT ![v'] = Finallize(fs)]
  BY DEF EditStep, LogAndApply
<1>3. FiniteData(fs)
  <2>1. /\ IsFiniteSet(f.data)
        /\ \A l \in Levels : \A g \in ToSet(files_[current_][l]) : IsFiniteSet(g.data)
    BY <1>1 DEF ScoresInv, Carries, FiniteData
  <2>2. \A l \in Levels : \A g \in ToSet(fs[l]) : g \in ToSet(files_[current_][l]) \/ g = f
    <3>1. WellFormed(files_[current_]) /\ Applies(files_[current_], e, t, f)
      BY <1>1 DEF EditStep
    <3>2. ASSUME NEW l \in Levels, NEW g \in ToSet(fs[l])
          PROVE  g \in ToSet(files_[current_][l]) \/ g = f
      BY <3>1, AppliedFile
    <3> QED
      BY <3>2
  <2> QED
    BY <2>1, <2>2 DEF FiniteData
<1> HIDE DEF fs
<1>4. \A w \in Versions : IF w = v' THEN files_'[w] = fs /\ compaction_'[w] = Finallize(fs)
                          ELSE files_'[w] = files_[w] /\ compaction_'[w] = compaction_[w]
  BY <1>1, <1>2
<1>5. \A w \in Versions : FiniteData(files_'[w])
  BY <1>3, <1>4 DEF ScoresInv
<1>6. \A w \in Versions : compaction_'[w] = NotFinalised \/ compaction_'[w] = Finallize(files_'[w])
  BY <1>4 DEF ScoresInv
<1>7. DOMAIN compaction_' = Versions
  BY <1>1, <1>2
<1>8. (\A w \in Versions : FiniteData(files_[w]))'
  BY <1>5
<1>9. (\A w \in Versions : compaction_[w] = NotFinalised \/ compaction_[w] = Finallize(files_[w]))'
  BY <1>6
<1> QED
  BY <1>7, <1>8, <1>9 DEF ScoresInv

LEMMA ScoresNext ==
  ASSUME VersionsInv, WorkInv, ScoresInv, [Next]_vars
  PROVE  ScoresInv'
<1>1. CASE CallerStep
  BY <1>1, ScoresCaller DEF CallerStep
<1>2. CASE \/ \E K \in SUBSET UserKeys : SwitchLog(K)
           \/ TableStep \/ AppendRecord \/ SyncRecord \/ SetCurrentFile \/ UNCHANGED vars
  <2>1. UNCHANGED <<files_, compaction_>>
    BY <1>2 DEF SwitchLog, TableStep, FlushFails, WorkFails, OpenOutput, PickCompaction,
                AppendRecord, SyncRecord, SetCurrentFile, memory, vars
  <2> QED
    BY <2>1, ScoresDeleted
<1>3. ASSUME NEW u \in Versions, UnrefVersion(u)
      PROVE  ScoresInv'
  BY <1>3, ScoresDeleted DEF UnrefVersion
<1>4. CASE Install
  BY <1>3, <1>4 DEF Install, AppendVersion, VersionsInv, Memory
<1>5. CASE Abandon
  <2>1. /\ v \in Versions /\ files_' = [files_ EXCEPT ![v] = NoFiles]
        /\ compaction_' = [compaction_ EXCEPT ![v] = NotFinalised]
    BY <1>5 DEF Abandon, VersionsInv, Memory, Vacant
  <2> QED
    BY <2>1, ScoresDeleted
<1>6. ASSUME NEW r \in Readers, RefVersion(r)
      PROVE  ScoresInv'
  BY <1>6, ScoresDeleted DEF RefVersion
<1>7. ASSUME NEW r \in Readers, DropVersion(r)
      PROVE  ScoresInv'
  BY <1>3, <1>7 DEF DropVersion, VersionsInv, Memory
<1> QED
  BY <1>1, <1>2, <1>4, <1>5, <1>6, <1>7, CallerSteps DEF Next, TableStep

\* In every live version no level is fuller than the one that Finallize chose:
\* a level that is over its limit does not go unnoticed.
THEOREM FullestLevelChosen == Spec => []NoLevelMissed
<1>1. Spec => []ScoresInv
  <2>1. VersionsInv /\ WorkInv /\ ScoresInv /\ [Next]_vars => ScoresInv'
    BY ScoresNext
  <2> QED
    BY <2>1, ScoresInit, VersionsInvariant, PTL DEF Spec
<1>2. VersionsInv /\ ScoresInv => NoLevelMissed
  <2> SUFFICES ASSUME VersionsInv, ScoresInv, NEW u \in Versions, compaction_[u].level # -1
               PROVE  /\ \A l \in 0 .. (kNumLevels - 2) : ~Greater(Score(files_[u], l), compaction_[u].score)
                      /\ compaction_[u].score = Score(files_[u], compaction_[u].level)
    BY DEF NoLevelMissed
  <2>1. compaction_[u] # NotFinalised
    BY DEF NotFinalised
  <2>2. compaction_[u] = Finallize(files_[u])
    BY <2>1 DEF ScoresInv
  <2>3. BestOf(files_[u], kNumLevels - 1, compaction_[u])
    BY <2>2, FinallizeBest DEF ScoresInv, VersionsInv, Memory, WellFormed
  <2>4. (kNumLevels - 1) - 1 = kNumLevels - 2
    BY LevelAssumption
  <2> QED
    BY <2>3, <2>4 DEF BestOf
<1> QED
  BY <1>1, <1>2, VersionsInvariant, PTL
=============================================================================

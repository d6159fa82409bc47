------------------------------ MODULE Version ------------------------------
(***************************************************************************)
(* What is computed from the files of one version: Version::Get and        *)
(* VersionSet::Finallize (db/version_set.cc).                              *)
(*                                                                         *)
(* A file is a record: its number, its smallest and largest user key, and  *)
(* its entries.  An entry is a pair of a user key and the number of the    *)
(* log that the write went to, which orders the writes of a key as their   *)
(* sequence numbers do.  The size of a file is its number of entries.      *)
(***************************************************************************)
EXTENDS Integers, Sequences, FiniteSets, FiniteSetsExt, SequencesExt

CONSTANTS
  kNumLevels,
  UserKeys,               \* small set of numbers
  MaxFileNumber,          \* bound: file numbers
  kL0_CompactionTrigger,
  MaxByteForLevel         \* the size limits of the levels from 1 on (external)

ASSUME LevelAssumption == kNumLevels \in Nat \ {0}
ASSUME KeyAssumption == UserKeys \subseteq Nat /\ UserKeys # {}
ASSUME LimitAssumption ==
  /\ MaxFileNumber \in Nat \ {0, 1} /\ kL0_CompactionTrigger \in Nat \ {0}
  /\ \A l \in 1 .. (kNumLevels - 1) : MaxByteForLevel[l] \in Nat \ {0}

Levels  == 0 .. (kNumLevels - 1)
Numbers == 1 .. MaxFileNumber
FileMetaData == [number : Numbers, smallest : UserKeys, largest : UserKeys,
                 data : SUBSET (UserKeys \X (Numbers \cup {0}))]

\* A table with an entry of each key in K from log n.
FileOf(number, K, n) ==
  [number |-> number, smallest |-> Min(K), largest |-> Max(K),
   data |-> {<<k, n>> : k \in K}]

\* The files of a version as pairs of level and file, and all their entries.
FileSet(fs) == UNION {{<<l, fs[l][j]>> : j \in DOMAIN fs[l]} : l \in Levels}
AllEntries(fs) == UNION {a[2].data : a \in FileSet(fs)}

\* The writes of key k that a snapshot sees.
Seen(data, k, snapshot) == {e[2] : e \in {d \in data : d[1] = k /\ d[2] <= snapshot}}

-----------------------------------------------------------------------------
(* Get *)

\* SaveValue (external): what the newest entry of k in the table says.  The
\* writes in dead are deletions.
SaveValue(f, k, snapshot, dead) ==
  LET E == Seen(f.data, k, snapshot) IN
  IF E = {} THEN "kNotFound" ELSE IF Max(E) \in dead THEN "kDeleted" ELSE "kFound"

\* ForEachOverlapping (external): the files that may have k, level by level,
\* on level 0 the newest first.
ForEachOverlapping(fs, k) ==
  LET hits == {a \in FileSet(fs) : a[2].smallest <= k /\ k <= a[2].largest}
      Before(a, b) == a[1] < b[1] \/ (a[1] = b[1] /\ a[2].number > b[2].number)
  IN [i \in 1 .. Cardinality(hits) |->
        CHOOSE a \in hits : Cardinality({b \in hits : Before(b, a)}) = i - 1]

none == <<>>   \* seek_file and last_file_read before there is one

\* Mutant: the last file read is charged.
MutChargedFile(state, a) == IF state.last_file_read # none THEN a ELSE none

\* "more than one seek for this read. charge the 1st file"
ChargedFile(state, a) == IF state.seek_file = none THEN state.last_file_read ELSE state.seek_file

\* Mutant: a table that cannot be read is passed over.
MutMatch(state, a, k, snapshot, dead, bad) ==
  LET got == SaveValue(a[2], k, snapshot, dead)
      s == IF a[2].number \in bad THEN "Corruption" ELSE "OK"
      found == s = "OK" /\ got = "kFound" IN
  [seek_file |-> ChargedFile(state, a), last_file_read |-> a,
   s |-> s, found |-> found,
   value |-> IF found THEN Max(Seen(a[2].data, k, snapshot)) ELSE 0,
   more |-> s # "OK" \/ got = "kNotFound"]

\* Match: a is the next file.  A table in bad gives an error: its read fails, or
\* its key does not parse (kCorrupt).
Match(state, a, k, snapshot, dead, bad) ==
  LET got == SaveValue(a[2], k, snapshot, dead)
      s == IF a[2].number \in bad THEN "Corruption" ELSE "OK"
      found == s # "OK" \/ got = "kFound" IN
  [seek_file |-> ChargedFile(state, a), last_file_read |-> a,
   s |-> s, found |-> found,
   value |-> IF s = "OK" /\ found THEN Max(Seen(a[2].data, k, snapshot)) ELSE 0,
   more |-> s = "OK" /\ got = "kNotFound"]

\* Version::Get: Match until it says stop.  A deletion leaves found false.
Get(fs, k, snapshot, dead, bad) ==
  LET order == ForEachOverlapping(fs, k)
      start == [seek_file |-> none, last_file_read |-> none, s |-> "OK",
                found |-> FALSE, value |-> 0, more |-> TRUE]
      State[i \in 0 .. Len(order)] ==
        IF i = 0 THEN start
        ELSE LET state == State[i - 1] IN
             IF state.more THEN Match(state, order[i], k, snapshot, dead, bad) ELSE state
      state == State[Len(order)]
  IN [s |-> IF state.found THEN state.s ELSE "NotFound", value |-> state.value,
      seek_file |-> state.seek_file]

-----------------------------------------------------------------------------
(* Finallize *)

\* The score of a level, a quotient <<size, limit>>.
Score(fs, level) ==
  IF level = 0 THEN <<Len(fs[0]), kL0_CompactionTrigger>>
  ELSE <<Cardinality(UNION {f.data \X {f.number} : f \in ToSet(fs[level])}),
         MaxByteForLevel[level]>>
Greater(p, q) == p[1] * q[2] > q[1] * p[2]

\* Version's constructor: not finalised.
NotFinalised == [level |-> -1, score |-> <<-1, 1>>]

\* Mutant: the scores are integers.
MutFinallize(fs) ==
  LET Better(best, level) ==
        IF Score(fs, level)[1] \div Score(fs, level)[2] > best.score[1] \div best.score[2]
          THEN [level |-> level, score |-> Score(fs, level)] ELSE best
  IN FoldLeft(Better, NotFinalised, [i \in 1 .. (kNumLevels - 1) |-> i - 1])

\* Finallize: the first level with the best score; the last level has none.
Finallize(fs) ==
  LET Best[n \in 0 .. (kNumLevels - 1)] ==
        IF n = 0 THEN NotFinalised
        ELSE LET best == Best[n - 1] IN
             IF Greater(Score(fs, n - 1), best.score)
               THEN [level |-> n - 1, score |-> Score(fs, n - 1)] ELSE best
  IN Best[kNumLevels - 1]
=============================================================================

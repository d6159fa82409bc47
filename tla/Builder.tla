------------------------------- MODULE Builder -------------------------------
(***************************************************************************)
(* BuildTable (db/builder.cc), called by the background thread while other *)
(* threads read tables: a memtable is written to a new table file, the     *)
(* file is opened through the table cache "to verify that the table is     *)
(* usable", and it is kept or removed.  TableBuilder is mostly empty; the  *)
(* first of its Finish, Sync and Close that fails gives the status.        *)
(***************************************************************************)
EXTENDS TableCache

CONSTANTS
  Background      \* the thread that runs BuildTable

ASSUME BuilderAssumption == Background \in Threads

VARIABLES
  bpc,            \* where BuildTable is
  meta,           \* FileMetaData: number and file_size
  s,              \* Status s
  taken,          \* numbers that NewFileNumber has given out
  left            \* files whose RemoveFile failed

bvars == <<bpc, meta, s, taken, left>>
allVars == <<vars, bvars>>

BInit ==
  /\ Init
  /\ bpc = "idle" /\ meta = [number |-> 0, file_size |-> 0]
  /\ s = "OK" /\ taken = Recovered /\ left = {}

\* BuildTable up to iter->Valid(), with the number WriteLevel0Table gave it; the
\* memtable may be empty.
BuildTable ==
  /\ bpc = "idle" /\ pc[Background] = "idle"
  /\ Room
  /\ Numbers \ taken # {}
  /\ meta' = [number |-> Min(Numbers \ taken), file_size |-> 0]
  /\ taken' = taken \cup {meta'.number}
  /\ s' = "OK"
  /\ bpc' \in {"create", "end"}
  /\ UNCHANGED <<vars, left>>

\* NewWritableFile, with the contract that its callers are written for: on a
\* failure it says so, and BuildTable returns at once.
NewWritableFile ==
  /\ bpc = "create"
  /\ \E e \in EnvStatus :
       /\ CountFault(e)
       /\ disk' = IF e = "OK" THEN disk \cup {meta.number} ELSE disk
       /\ s' = e
       /\ bpc' = IF s' = "OK" THEN "write" ELSE "idle"
  /\ UNCHANGED <<tableVars, blockVars, live, pc, rd, meta, taken, left>>

\* All entries are added; Finish, Sync, Close; the file is deleted.
WriteTable ==
  /\ bpc = "write"
  /\ \E e \in EnvStatus :
       /\ CountFault(e)
       /\ s' = e
       /\ bpc' = IF e = "OK" THEN "check" ELSE "end"
  /\ UNCHANGED <<tableVars, blockVars, fileVars, pc, rd, meta, taken, left>>

\* The table is opened through the cache, with meta->file_size ...
CheckTable ==
  /\ bpc = "check"
  /\ FindTable(Background, meta.number, meta.file_size, TRUE, FALSE)
  /\ bpc' = "checking"
  /\ UNCHANGED <<meta, s, taken, left>>

\* ... and the iterator's status is the result.
Checked ==
  /\ bpc = "checking" /\ pc[Background] = "idle"
  /\ s' = rd[Background].s
  /\ bpc' = "end"
  /\ UNCHANGED <<vars, meta, taken, left>>

\* Mutant: the file of a failed build stays.
MutKeeps(st) == TRUE

\* Whether the file is kept, and then added to the version by the caller.
Keeps(st) == st = "OK" /\ meta.file_size > 0

\* The status of the memtable's iterator (external) comes first; a file that
\* is not kept is removed, and nobody looks at the status of that.
EndBuild ==
  /\ bpc = "end"
  /\ \E e, removed \in EnvStatus :
       /\ Keeps(IF e = "OK" THEN s ELSE e) => removed = "OK"
       /\ faults' = faults + Cardinality({x \in {"e", "removed"} :
                      (IF x = "e" THEN e ELSE removed) # "OK"})
       /\ faults' <= MaxFaults
       /\ s' = IF e = "OK" THEN s ELSE e
       /\ disk' = IF Keeps(s') \/ removed # "OK" THEN disk ELSE disk \ {meta.number}
       /\ left' = IF removed # "OK" THEN left \cup {meta.number} ELSE left
       /\ live' = IF s' = "OK" /\ meta.file_size > 0 THEN live \cup {meta.number} ELSE live
  /\ bpc' = "idle"
  /\ UNCHANGED <<tableVars, blockVars, pc, rd, meta, taken>>

BuildNext ==
  BuildTable \/ NewWritableFile \/ WriteTable \/ CheckTable \/ Checked \/ EndBuild

\* The background thread also reads tables, in DoCompactionWork (external).
Next ==
  \/ BuildNext
  \/ CacheStep /\ UNCHANGED bvars
  \/ \E t \in Threads : Get(t) /\ (t = Background => bpc = "idle") /\ UNCHANGED bvars

Spec == BInit /\ [][Next]_allVars

-----------------------------------------------------------------------------
(* Properties *)

\* A file that BuildTable gave up is not left behind, on any of its paths,
\* unless removing it failed: on disk are the tables of the live versions.
NoOrphans == bpc = "idle" => disk \subseteq live \cup left
=============================================================================

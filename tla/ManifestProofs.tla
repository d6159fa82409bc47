--------------------------- MODULE ManifestProofs ---------------------------
(***************************************************************************)
(* Proofs about the manifest: what recovery would find in it after a crash *)
(* at any moment, and that LogAndApply applies an edit as a whole.         *)
(*                                                                         *)
(* ManifestInv is inductive.  LogOrder says which logs hold writes that    *)
(* are in no table; PendingEdit that the version LogAndApply has built is  *)
(* the current one with the edit applied, and sound; Phases what recovery  *)
(* reads from the synced and from the written part of the manifest at each *)
(* step of LogAndApply.  What it reads (Replay) is a recursive function of *)
(* the length of the manifest; the proofs need that it does not change     *)
(* when records follow (ReadPrefix), and what one more record does to it   *)
(* (ReadNext).                                                             *)
(***************************************************************************)
EXTENDS VersionSetProofs

\* The types of the variables that VersionsInv says nothing of.
Rest ==
  /\ log_number_ \in Numbers \cup {0}
  /\ edit \in VersionEdits /\ edit.log_number \in Numbers \cup {0}
  /\ manifest \in [{Old, New} -> Seq(VersionEdits)]
  /\ synced \in [{Old, New} -> Nat]
  /\ CURRENT \in {Old, New}
  /\ logs \subseteq Numbers
  /\ s \in {"OK", "IOError"}
  /\ descriptor_file_ \in BOOLEAN /\ creating \in BOOLEAN /\ bg_error_ \in BOOLEAN
  /\ compact.output \in Numbers \cup {0}

\* What has been synced is in the manifest, also after it is created anew.
SyncedPart ==
  /\ \A m \in {Old, New} : synced[m] <= Len(manifest[m])
  /\ ~descriptor_file_ => synced[New] = 0
  /\ pc \in {"sync", "current"} \/ (pc = "append" /\ s = "OK") => descriptor_file_

TypesInv == VersionsInv /\ WorkInv /\ Rest /\ SyncedPart

-----------------------------------------------------------------------------
(* Types *)

\* The snapshot is a record.
LEMMA SnapshotFields ==
  ASSUME NEW x \in SUBSET (Levels \X FileMetaData)
  PROVE  LET r == [NoEdit EXCEPT !.new_files = x] IN
         /\ r \in VersionEdits /\ r.new_files = x
         /\ r.deleted_files = {} /\ r.log_number = 0 /\ r.next_file = 0
<1> DEFINE X == SUBSET (Levels \X FileMetaData)
           D == SUBSET (Levels \X Numbers)
<1>1. x \in X /\ {} \in D
  OBVIOUS
<1>2. VersionEdits = [new_files : X, deleted_files : D, log_number : Nat, next_file : Nat]
  BY DEF VersionEdits
<1> HIDE DEF X, D
<1> QED
  BY <1>1, <1>2 DEF NoEdit

LEMMA WriteSnapshotFields ==
  ASSUME VersionsInv
  PROVE  /\ WriteSnapshot \in VersionEdits /\ WriteSnapshot.new_files = FileSet(files_[current_])
         /\ WriteSnapshot.deleted_files = {} /\ WriteSnapshot.log_number = 0
         /\ WriteSnapshot.next_file = 0
<1> DEFINE x == FileSet(files_[current_])
<1>1. x \in SUBSET (Levels \X FileMetaData)
  BY FileSetOf DEF VersionsInv, Memory, WellFormed
<1> HIDE DEF x
<1> QED
  BY <1>1, SnapshotFields DEF WriteSnapshot, x

\* What LogAndApply does to the manifest before it unlocks.
LEMMA BeginEffect ==
  ASSUME NEW e, NEW from, LogAndApply(e, from), descriptor_file_ \in BOOLEAN
  PROVE  /\ pc' = "append" /\ caller' = from
         /\ creating' = ~descriptor_file_
         /\ s' \in {"OK", "IOError"} /\ descriptor_file_' \in BOOLEAN
         /\ \/ descriptor_file_ /\ s' = "OK" /\ manifest' = manifest /\ descriptor_file_'
            \/ /\ ~descriptor_file_ /\ descriptor_file_'
               /\ manifest' = [manifest EXCEPT ![New] = <<WriteSnapshot>>]
            \/ ~descriptor_file_ /\ s' = "IOError" /\ manifest' = manifest /\ ~descriptor_file_'
         /\ UNCHANGED <<current_, log_number_, synced, CURRENT, logs>>
         /\ UNCHANGED <<logfile_number_, imm_, imm_keys, compact, bg_error_, written>>
<1>1. PICK st \in EnvStatus, snapshot \in BOOLEAN :
        /\ snapshot => ~descriptor_file_
        /\ st = "OK" /\ ~descriptor_file_ => snapshot
        /\ descriptor_file_ => st = "OK"
        /\ s' = st
        /\ manifest' = IF snapshot THEN [manifest EXCEPT ![New] = <<WriteSnapshot>>]
                       ELSE manifest
        /\ descriptor_file_' = (descriptor_file_ \/ st = "OK" \/ snapshot)
  BY Zenon DEF LogAndApply
<1>2. st \in {"OK", "IOError"}
  BY DEF EnvStatus
<1>3. CASE descriptor_file_
  <2>1. st = "OK" /\ ~snapshot
    BY <1>1, <1>3
  <2>2. s' = "OK" /\ manifest' = manifest /\ descriptor_file_' = TRUE
    BY <1>1, <1>3, <2>1
  <2> QED
    BY <1>3, <2>2 DEF LogAndApply, wal
<1>4. CASE ~descriptor_file_ /\ snapshot
  <2>1. manifest' = [manifest EXCEPT ![New] = <<WriteSnapshot>>] /\ s' \in {"OK", "IOError"}
    BY <1>1, <1>2, <1>4
  <2>2. descriptor_file_' = TRUE
    BY <1>1, <1>4
  <2> QED
    BY <1>4, <2>1, <2>2 DEF LogAndApply, wal
<1>5. CASE ~descriptor_file_ /\ ~snapshot
  <2>1. st = "IOError" /\ manifest' = manifest /\ s' = st
    BY <1>1, <1>2, <1>5
  <2>2. descriptor_file_' = FALSE
    BY <1>1, <1>5, <2>1
  <2> QED
    BY <1>5, <2>1, <2>2 DEF LogAndApply, wal
<1> QED
  BY <1>3, <1>4, <1>5

LEMMA NoEditFields ==
  /\ NoEdit \in VersionEdits /\ NoEdit.new_files = {} /\ NoEdit.deleted_files = {}
  /\ NoEdit.log_number = 0 /\ NoEdit.next_file = 0
BY DEF NoEdit, VersionEdits

\* Any record appended to a manifest.
LEMMA Appended ==
  ASSUME NEW recs \in Seq(VersionEdits), NEW e \in VersionEdits
  PROVE  /\ Append(recs, e) \in Seq(VersionEdits) /\ Len(Append(recs, e)) = Len(recs) + 1
         /\ Len(recs) \in Nat
         /\ \A i \in 1 .. Len(recs) : Append(recs, e)[i] = recs[i]
         /\ Append(recs, e)[Len(recs) + 1] = e
OBVIOUS

LEMMA ManifestNames == Old \in {Old, New} /\ New \in {Old, New} /\ Old # New
BY DEF Old, New

LEMMA TypesOfInit == Init => TypesInv
<1> SUFFICES ASSUME Init
             PROVE  TypesInv
  OBVIOUS
<1> DEFINE x == FileSet(RecoveredFiles)
           r == [NoEdit EXCEPT !.new_files = x, !.next_file = 2]
<1>1. /\ log_number_ = 0 /\ edit = NoEdit /\ CURRENT = Old /\ logs = {2} /\ s = "OK" /\ pc = "idle"
      /\ descriptor_file_ = FALSE /\ creating = FALSE /\ bg_error_ = FALSE /\ compact = NoCompaction
      /\ manifest = [m \in {Old, New} |-> IF m = Old THEN <<r>> ELSE <<>>]
      /\ synced = [m \in {Old, New} |-> IF m = Old THEN 1 ELSE 0]
  BY DEF Init
<1>2. x \in SUBSET (Levels \X FileMetaData)
  BY FileSetOf, RecoveredVersion DEF WellFormed
<1> HIDE DEF x
<1>3. r \in VersionEdits
  <2> DEFINE X == SUBSET (Levels \X FileMetaData)
             D == SUBSET (Levels \X Numbers)
  <2>1. x \in X /\ {} \in D
    BY <1>2
  <2>2. VersionEdits = [new_files : X, deleted_files : D, log_number : Nat, next_file : Nat]
    BY DEF VersionEdits
  <2> HIDE DEF X, D
  <2> QED
    BY <2>1, <2>2 DEF NoEdit
<1> HIDE DEF r
<1>4. manifest \in [{Old, New} -> Seq(VersionEdits)] /\ synced \in [{Old, New} -> Nat]
  BY <1>1, <1>3
<1>5. \A m \in {Old, New} : synced[m] <= Len(manifest[m])
  BY <1>1, <1>3, ManifestNames
<1>6. synced[New] = 0
  BY <1>1, ManifestNames
<1>7. 2 \in Numbers
  BY LimitAssumption DEF Numbers
<1>8. Rest
  BY <1>1, <1>4, <1>7, NoEditFields, ManifestNames DEF Rest, NoCompaction
<1>9. SyncedPart
  BY <1>1, <1>5, <1>6 DEF SyncedPart
<1> QED
  BY <1>8, <1>9, InitInv, WorkInit DEF TypesInv

LEMMA CallerTypes ==
  ASSUME TypesInv, NEW e, NEW t, NEW f, EditStep(e, t, f), Carries(e, f)
  PROVE  /\ Rest' /\ SyncedPart'
         /\ edit'.new_files = e.new_files /\ edit'.deleted_files = e.deleted_files
         /\ edit'.log_number = (IF e.log_number = 0 THEN log_number_ ELSE e.log_number)
         /\ edit'.next_file = next_file_number_'
<1>1. VersionsInv /\ Rest /\ SyncedPart
  BY DEF TypesInv
<1>3. LogAndApply(e, caller') /\ e \in VersionEdits /\ next_file_number_' \in Nat /\ log_number_ \in Nat
  BY <1>1, LimitAssumption DEF EditStep, Applies, Rest, Numbers
<1>4. /\ edit' \in VersionEdits
      /\ edit'.new_files = e.new_files /\ edit'.deleted_files = e.deleted_files
      /\ edit'.log_number = (IF e.log_number = 0 THEN log_number_ ELSE e.log_number)
      /\ edit'.next_file = next_file_number_'
  BY <1>3, RecordedEdit
<1>5. edit'.log_number \in Numbers \cup {0}
  BY <1>1, <1>4 DEF Carries, Rest, VersionsInv, Memory
<1>6. /\ creating' = ~descriptor_file_ /\ pc' = "append" /\ s' \in {"OK", "IOError"}
      /\ descriptor_file_' \in BOOLEAN /\ UNCHANGED <<log_number_, synced, CURRENT, logs, bg_error_, compact>>
      /\ \/ descriptor_file_ /\ manifest' = manifest /\ descriptor_file_'
         \/ /\ ~descriptor_file_ /\ descriptor_file_'
            /\ manifest' = [manifest EXCEPT ![New] = <<WriteSnapshot>>]
         \/ ~descriptor_file_ /\ s' = "IOError" /\ manifest' = manifest /\ ~descriptor_file_'
  BY <1>1, <1>3, BeginEffect DEF Rest
<1>7. <<WriteSnapshot>> \in Seq(VersionEdits) /\ Len(<<WriteSnapshot>>) = 1
  BY <1>1, WriteSnapshotFields
<1>8. /\ manifest' \in [{Old, New} -> Seq(VersionEdits)]
      /\ manifest' = manifest
           \/ (~descriptor_file_ /\ manifest'[New] = <<WriteSnapshot>> /\ manifest'[Old] = manifest[Old])
  BY <1>1, <1>6, <1>7, ManifestNames DEF Rest
<1>9. Rest'
  BY <1>1, <1>4, <1>5, <1>6, <1>8 DEF Rest
<1>10. ~descriptor_file_' => ~descriptor_file_
  BY <1>6
<1>11. \A m \in {Old, New} : synced'[m] <= Len(manifest'[m])
  <2>1. synced' = synced /\ synced[New] \in Nat /\ \A m \in {Old, New} : synced[m] <= Len(manifest[m])
    BY <1>1, <1>6 DEF SyncedPart, Rest
  <2>2. ~descriptor_file_ => synced[New] = 0
    BY <1>1 DEF SyncedPart
  <2> QED
    BY <1>7, <1>8, <2>1, <2>2
<1>12. SyncedPart'
  <2>1. ~descriptor_file_' => synced'[New] = 0
    BY <1>1, <1>6, <1>10 DEF SyncedPart
  <2>2. s' = "OK" => descriptor_file_'
    BY <1>6
  <2> QED
    BY <1>6, <1>11, <2>1, <2>2 DEF SyncedPart
<1> QED
  BY <1>4, <1>9, <1>12

LEMMA AppendTypes ==
  ASSUME TypesInv, AppendRecord
  PROVE  Rest' /\ SyncedPart'
<1>1. VersionsInv /\ Rest /\ SyncedPart
  BY DEF TypesInv
<1>3. PICK left \in BOOLEAN :
        /\ left => s = "OK"
        /\ s' \in {"OK", "IOError"} /\ (s' = "OK" => s = "OK" /\ left)
        /\ manifest' = IF left THEN [manifest EXCEPT ![New] = Append(@, edit)] ELSE manifest
        /\ pc' = IF s' = "OK" THEN "sync" ELSE "install"
  BY <1>1 DEF AppendRecord, EnvStatus, Rest
<1>4. /\ UNCHANGED <<log_number_, descriptor_file_, synced, CURRENT, logs, edit, creating, bg_error_, compact>>
      /\ pc = "append"
  BY DEF AppendRecord, memory, files
<1>5. Append(manifest[New], edit) \in Seq(VersionEdits) /\ Len(Append(manifest[New], edit)) = Len(manifest[New]) + 1
      /\ Len(manifest[New]) \in Nat
  BY <1>1, Appended, ManifestNames DEF Rest
<1>6. /\ manifest' \in [{Old, New} -> Seq(VersionEdits)]
      /\ manifest'[Old] = manifest[Old]
      /\ manifest'[New] = manifest[New] \/ manifest'[New] = Append(manifest[New], edit)
  BY <1>1, <1>3, <1>5, ManifestNames DEF Rest
<1>7. Rest'
  BY <1>1, <1>3, <1>4, <1>6 DEF Rest
<1>8. \A m \in {Old, New} : synced[m] <= Len(manifest'[m])
  BY <1>1, <1>5, <1>6 DEF SyncedPart, Rest
<1>9. SyncedPart'
  BY <1>1, <1>3, <1>4, <1>8 DEF SyncedPart
<1> QED
  BY <1>7, <1>9

LEMMA SyncTypes ==
  ASSUME TypesInv, SyncRecord
  PROVE  Rest' /\ SyncedPart'
<1>1. VersionsInv /\ Rest /\ SyncedPart
  BY DEF TypesInv
<1>3. /\ UNCHANGED <<log_number_, descriptor_file_, manifest, CURRENT, logs, edit, s, creating, bg_error_, compact>>
      /\ pc = "sync" /\ pc' \in {"current", "install"} /\ descriptor_file_
  BY <1>1 DEF SyncRecord, memory, files, locals, SyncedPart
<1>4. synced' = synced \/ synced' = [synced EXCEPT ![New] = Len(manifest[New])]
  BY DEF SyncRecord
<1>5. Len(manifest[New]) \in Nat /\ synced \in [{Old, New} -> Nat]
  BY <1>1, ManifestNames DEF Rest
<1>6. /\ synced' \in [{Old, New} -> Nat] /\ synced'[Old] = synced[Old]
      /\ synced'[New] = synced[New] \/ synced'[New] = Len(manifest[New])
  BY <1>4, <1>5, ManifestNames
<1>7. Rest'
  BY <1>1, <1>3, <1>6 DEF Rest
<1>8. \A m \in {Old, New} : synced'[m] <= Len(manifest[m])
  BY <1>1, <1>5, <1>6 DEF SyncedPart
<1>9. SyncedPart'
  BY <1>3, <1>8 DEF SyncedPart
<1> QED
  BY <1>7, <1>9

LEMMA SetCurrentTypes ==
  ASSUME TypesInv, SetCurrentFile
  PROVE  Rest' /\ SyncedPart'
<1>1. VersionsInv /\ Rest /\ SyncedPart
  BY DEF TypesInv
<1>3. /\ UNCHANGED <<log_number_, descriptor_file_, manifest, synced, logs, edit, creating, bg_error_, compact>>
      /\ pc = "current" /\ pc' = "install" /\ descriptor_file_
      /\ s' \in {"OK", "IOError"} /\ CURRENT' \in {CURRENT, New}
  BY <1>1 DEF SetCurrentFile, memory, files, SyncedPart, EnvStatus
<1>4. Rest'
  BY <1>1, <1>3, ManifestNames DEF Rest
<1>5. SyncedPart'
  BY <1>1, <1>3 DEF SyncedPart
<1> QED
  BY <1>4, <1>5

\* What a caller does when LogAndApply has returned.
LEMMA ReturnEffect ==
  ASSUME CallerGoesOn
  PROVE  /\ pc' = "idle" /\ edit' = NoEdit /\ v' = nullptr /\ s' = "OK" /\ creating' = FALSE
         /\ bg_error_' = (bg_error_ \/ s # "OK") /\ bg_error_' \in BOOLEAN
         /\ compact'.output \in {compact.output, 0}
         /\ logs' \subseteq logs /\ \A n \in logs : n >= log_number_' => n \in logs'
         /\ tables' \subseteq tables /\ tables \cap LiveTables(files_') \subseteq tables'
         /\ caller # "DoCompactionWork" /\ s # "OK" => UNCHANGED <<tables, logs>>
         /\ IF caller = "CompactMemtable" /\ s = "OK"
              THEN imm_' = nullptr /\ imm_keys' = {}
              ELSE UNCHANGED <<imm_, imm_keys>>
         /\ UNCHANGED <<next_file_number_, CURRENT, logfile_number_, written, sync_faults, strays>>
<1>1. /\ logs' \subseteq logs /\ \A n \in logs : n >= log_number_' => n \in logs'
      /\ caller # "DoCompactionWork" /\ s # "OK" => UNCHANGED <<tables, logs>>
  BY DEF CallerGoesOn, RemoveObsoleteFiles, files
<1>2. compact'.output \in {compact.output, 0}
  BY DEF CallerGoesOn, NoCompaction
<1>3. bg_error_' = (bg_error_ \/ s # "OK") /\ bg_error_' \in BOOLEAN
  BY Zenon DEF CallerGoesOn
<1>4. /\ pc' = "idle" /\ edit' = NoEdit /\ v' = nullptr /\ s' = "OK" /\ creating' = FALSE
      /\ IF caller = "CompactMemtable" /\ s = "OK"
              THEN imm_' = nullptr /\ imm_keys' = {}
              ELSE UNCHANGED <<imm_, imm_keys>>
      /\ UNCHANGED <<next_file_number_, CURRENT, logfile_number_, written, sync_faults, strays>>
  BY DEF CallerGoesOn, counts
<1> QED
  BY <1>1, <1>2, <1>3, <1>4, CallerEffect

LEMMA InstallTypes ==
  ASSUME TypesInv, Install
  PROVE  Rest' /\ SyncedPart'
<1>1. VersionsInv /\ Rest /\ SyncedPart
  BY DEF TypesInv
<1>3. /\ UNCHANGED <<descriptor_file_, manifest, synced, CURRENT>> /\ s' = "OK"
      /\ pc' = "idle" /\ edit' = NoEdit /\ creating' = FALSE
      /\ log_number_' = edit.log_number /\ logs' \subseteq logs
      /\ bg_error_' \in BOOLEAN /\ compact'.output \in {compact.output, 0}
  BY ReturnEffect DEF Install
<1>4. Rest'
  BY <1>1, <1>3, NoEditFields DEF Rest
<1>5. SyncedPart'
  BY <1>1, <1>3 DEF SyncedPart
<1> QED
  BY <1>4, <1>5

LEMMA AbandonTypes ==
  ASSUME TypesInv, Abandon
  PROVE  Rest' /\ SyncedPart'
<1>1. VersionsInv /\ Rest /\ SyncedPart
  BY DEF TypesInv
<1>3. /\ UNCHANGED <<log_number_, CURRENT>> /\ logs' \subseteq logs
      /\ pc' = "idle" /\ edit' = NoEdit /\ creating' = FALSE /\ s' = "OK"
      /\ bg_error_' \in BOOLEAN /\ compact'.output \in {compact.output, 0}
  BY ReturnEffect DEF Abandon
<1>4. /\ manifest' = IF creating THEN [manifest EXCEPT ![New] = <<>>] ELSE manifest
      /\ synced' = IF creating THEN [synced EXCEPT ![New] = 0] ELSE synced
  BY DEF Abandon
<1>5. descriptor_file_' \in BOOLEAN /\ (~descriptor_file_' => ~descriptor_file_ \/ creating)
  BY <1>1 DEF Abandon, Rest
<1>6. manifest \in [{Old, New} -> Seq(VersionEdits)] /\ synced \in [{Old, New} -> Nat]
  BY <1>1 DEF Rest
<1>7. /\ manifest' \in [{Old, New} -> Seq(VersionEdits)] /\ synced' \in [{Old, New} -> Nat]
      /\ manifest'[Old] = manifest[Old] /\ synced'[Old] = synced[Old]
      /\ manifest'[New] = (IF creating THEN <<>> ELSE manifest[New])
      /\ synced'[New] = (IF creating THEN 0 ELSE synced[New])
  <2>1. CASE creating
    BY <1>4, <1>6, <2>1, ManifestNames
  <2>2. CASE ~creating
    BY <1>4, <1>6, <2>2
  <2> QED
    BY <2>1, <2>2
<1>8. Rest'
  BY <1>1, <1>3, <1>5, <1>7, NoEditFields DEF Rest
<1>9. \A m \in {Old, New} : synced'[m] <= Len(manifest'[m])
  BY <1>1, <1>6, <1>7 DEF SyncedPart
<1>10. SyncedPart'
  BY <1>1, <1>3, <1>5, <1>7, <1>9 DEF SyncedPart
<1> QED
  BY <1>8, <1>10

\* The steps of the work that leave the manifest alone.
LEMMA TableEffect ==
  ASSUME TableStep
  PROVE  /\ UNCHANGED <<current_, files_, log_number_, descriptor_file_, manifest, synced, CURRENT>>
         /\ UNCHANGED <<logfile_number_, imm_, imm_keys, written>>
         /\ UNCHANGED <<pc, edit, v, s, creating, caller, sync_faults, strays>>
         /\ pc = "idle" /\ (Working \/ ~bg_error_)
         /\ bg_error_' = TRUE \/ bg_error_' = bg_error_
<1>1. CASE FlushFails
  BY <1>1 DEF FlushFails, MayCompactMemtable, memory, disk, wal, locals
<1>2. CASE WorkFails
  BY <1>2 DEF WorkFails, memory, disk, wal, locals
<1>3. CASE OpenOutput
  BY <1>3 DEF OpenOutput, memory, disk, wal, locals, counts
<1>4. ASSUME NEW l \in Levels, NEW f \in InLevel(l), PickCompaction(l, f)
      PROVE  /\ UNCHANGED <<current_, files_, log_number_, descriptor_file_, manifest, synced, CURRENT>>
             /\ UNCHANGED <<logfile_number_, imm_, imm_keys, written>>
             /\ UNCHANGED <<pc, edit, v, s, creating, caller, sync_faults, strays>>
             /\ pc = "idle" /\ ~bg_error_ /\ bg_error_' = bg_error_
  BY <1>4 DEF PickCompaction, MayPickCompaction, memory, disk, wal, locals, counts
<1> QED
  BY <1>1, <1>2, <1>3, <1>4 DEF TableStep

LEMMA TableTypes ==
  ASSUME TypesInv, TableStep
  PROVE  Rest' /\ SyncedPart'
<1>1. Rest /\ SyncedPart
  BY DEF TypesInv
<1>2. /\ UNCHANGED <<log_number_, descriptor_file_, manifest, synced, CURRENT, pc, edit, s, creating>>
      /\ bg_error_' = TRUE \/ bg_error_' = bg_error_
  BY TableEffect
<1>3. logs' \subseteq logs /\ compact'.output \in Numbers \cup {0}
  <2>1. CASE FlushFails
    BY <1>1, <2>1 DEF FlushFails, Rest
  <2>2. CASE WorkFails
    BY <2>2 DEF WorkFails, RemoveObsoleteFiles, NoCompaction
  <2>3. CASE OpenOutput
    <3>1. /\ compact' = [compact EXCEPT !.output = next_file_number_]
          /\ next_file_number_ \in Numbers /\ logs' = logs
      BY <2>3 DEF OpenOutput, NewFileNumber
    <3>2. compact'.output \in {next_file_number_, compact.output}
      BY <3>1
    <3> QED
      BY <1>1, <3>1, <3>2 DEF Rest
  <2>4. ASSUME NEW l \in Levels, NEW f \in InLevel(l), PickCompaction(l, f)
        PROVE  logs' \subseteq logs /\ compact'.output \in Numbers \cup {0}
    BY <2>4 DEF PickCompaction, files
  <2> QED
    BY <2>1, <2>2, <2>3, <2>4 DEF TableStep
<1>4. bg_error_' \in BOOLEAN
  BY <1>1, <1>2 DEF Rest
<1> QED
  BY <1>1, <1>2, <1>3, <1>4 DEF Rest, SyncedPart

LEMMA NextTypes == TypesInv /\ [Next]_vars => TypesInv'
<1> SUFFICES ASSUME TypesInv, [Next]_vars
             PROVE  TypesInv'
  OBVIOUS
<1>1. VersionsInv /\ WorkInv /\ Rest /\ SyncedPart
  BY DEF TypesInv
<1>2. VersionsInv' /\ WorkInv'
  BY <1>1, NextInv, WorkNext
<1>3. ASSUME NEW K \in SUBSET UserKeys, SwitchLog(K)
      PROVE  Rest' /\ SyncedPart'
  <2>1. /\ UNCHANGED <<log_number_, descriptor_file_, manifest, synced, CURRENT>>
        /\ UNCHANGED <<pc, edit, s, creating, bg_error_, compact>>
        /\ logs' = logs \cup {next_file_number_} /\ next_file_number_ \in Numbers
    BY <1>3 DEF SwitchLog, memory, disk, locals, NewFileNumber
  <2> QED
    BY <1>1, <2>1 DEF Rest, SyncedPart
<1>4. Reading => Rest' /\ SyncedPart'
  BY <1>1 DEF Rest, SyncedPart, Reading
<1>5. CallerStep => Rest' /\ SyncedPart'
  BY CallerTypes DEF CallerStep
<1>6. Rest' /\ SyncedPart'
  BY <1>1, <1>3, <1>4, <1>5, StepKinds, TableTypes, AppendTypes, SyncTypes, SetCurrentTypes,
     InstallTypes, AbandonTypes
<1> QED
  BY <1>2, <1>6 DEF TypesInv

\* TypesInv is an invariant: no record of the manifest is counted as synced that
\* AddRecord has not written, and a new manifest is empty until WriteSnapshot.
THEOREM TypesInvariant == Spec => []TypesInv
BY TypesOfInit, NextTypes, PTL DEF Spec

\* The type invariant of the version set.
THEOREM VersionTypes == Spec => []TypeOK
<1>1. TypesInv => TypeOK
  <2> SUFFICES ASSUME TypesInv
               PROVE  TypeOK
    OBVIOUS
  <2>1. VersionsInv /\ WorkInv /\ Memory /\ Rest /\ SyncedPart
    BY DEF TypesInv, VersionsInv
  <2>2. \A u \in Versions, l \in Levels : ToSet(files_[u][l]) \subseteq FileMetaData
    BY <2>1, ObjectsOf DEF Memory, WellFormed
  <2>3. \A m \in {Old, New} : synced[m] \in 0 .. Len(manifest[m])
    BY <2>1 DEF Rest, SyncedPart
  <2>4. edit.new_files \subseteq Levels \X FileMetaData
    BY <2>1 DEF Rest, VersionEdits
  <2>5. next_file_number_ \in 1 .. (MaxFileNumber + 1)
    BY <2>1, LimitAssumption DEF Memory
  <2>6. {descriptor_file_, creating, bg_error_} \subseteq BOOLEAN
    BY <2>1, Zenon DEF Rest
  <2>7. /\ compact.level \in Levels /\ compact.upper \cup compact.lower \subseteq FileMetaData
        /\ caller \in {"none", "CompactMemtable", "BackgroundCompaction", "DoCompactionWork"}
    <3>1. CASE Working
      BY <2>1, <3>1 DEF WorkInv, Includes, Chosen, Callers
    <3>2. CASE ~Working
      BY <2>1, <3>2, LevelFacts DEF WorkInv, NoCompaction, Chosen, Callers
    <3> QED
      BY <3>1, <3>2
  <2>8. compact.output \in Numbers \cup {0}
    BY <2>1 DEF Rest
  <2> QED
    BY <2>1, <2>2, <2>3, <2>4, <2>5, <2>6, <2>7, <2>8 DEF TypeOK, Memory, Rest
<1> QED
  BY <1>1, TypesInvariant, PTL

\* SaveTo's merge loses no file, keeps no deleted one and adds what the edit adds,
\* at every LogAndApply.
THEOREM BuilderExact == Spec => BuilderCorrect
<1> DEFINE A == pc = "idle" /\ pc' = "append" =>
                  \A l \in Levels :
                    ToSet(files_'[v'][l]) =
                      {f \in ToSet(files_[current_][l]) : f.number \notin DeletedFiles(edit', l)}
                        \cup AddedFiles(edit', l)
<1>1. VersionsInv /\ WorkInv /\ log_number_ \in Nat /\ [Next]_vars => [A]_vars
  <2> SUFFICES ASSUME VersionsInv, WorkInv, log_number_ \in Nat, [Next]_vars, pc = "idle", pc' = "append",
                      NEW l \in Levels
               PROVE  ToSet(files_'[v'][l]) =
                        {f \in ToSet(files_[current_][l]) : f.number \notin DeletedFiles(edit', l)}
                          \cup AddedFiles(edit', l)
    OBVIOUS
  <2>1. PICK e, t, f : EditStep(e, t, f)
    <3>1. ~TableStep
      BY TableEffect
    <3>2. \A K : ~SwitchLog(K)
      BY DEF SwitchLog
    <3> QED
      BY <3>1, <3>2, StepKinds
         DEF CallerStep, Reading, AppendRecord, SyncRecord, SetCurrentFile, Install, Abandon, CallerGoesOn
  <2>2. e \in VersionEdits /\ LogAndApply(e, caller') /\ next_file_number_' \in Nat
    BY <2>1, LimitAssumption DEF EditStep, Applies
  <2>3. edit'.new_files = e.new_files /\ edit'.deleted_files = e.deleted_files
    BY <2>2, RecordedEdit
  <2>4. AddedFiles(edit', l) = AddedFiles(e, l) /\ DeletedFiles(edit', l) = DeletedFiles(e, l)
    BY <2>3 DEF AddedFiles, DeletedFiles
  <2>5. ToSet(files_'[v'][l]) =
          {g \in ToSet(files_[current_][l]) : g.number \notin DeletedFiles(e, l)} \cup AddedFiles(e, l)
    BY <2>1, EditStepInv
  <2> QED
    BY <2>4, <2>5, Zenon
<1>2. TypesInv => VersionsInv /\ WorkInv /\ log_number_ \in Nat
  BY LimitAssumption DEF TypesInv, Rest, Numbers
<1> QED
  BY <1>1, <1>2, TypesInvariant, PTL DEF Spec, BuilderCorrect

-----------------------------------------------------------------------------
(* What recovery reads *)

\* What recovery reads from the first n of some records.
ReadOf(recs, n) ==
  LET Read[i \in 0 .. n] ==
        IF i = 0 THEN [files |-> {}, log |-> 0, next |-> 0]
        ELSE ReplayStep(Read[i - 1], recs[i])
  IN Read[n]

LEMMA ReplayIs == \A m, n : Replay(m, n) = ReadOf(manifest[m], n)
BY DEF Replay, ReadOf

Findings == [files : SUBSET (Levels \X FileMetaData), log : Nat, next : Nat]
Nothing == [files |-> {}, log |-> 0, next |-> 0]

\* g lists what has been read after each of n records.
ReadsTo(g, recs, n) ==
  g[0] = Nothing /\ \A i \in 1 .. n : g[i] = ReplayStep(g[i - 1], recs[i])

LEMMA ReplayStepFields ==
  ASSUME NEW acc \in Findings, NEW e \in VersionEdits
  PROVE  /\ ReplayStep(acc, e) \in Findings
         /\ ReplayStep(acc, e).files =
              {a \in acc.files : <<a[1], a[2].number>> \notin e.deleted_files} \cup e.new_files
         /\ ReplayStep(acc, e).log = (IF e.log_number = 0 THEN acc.log ELSE e.log_number)
         /\ ReplayStep(acc, e).next = (IF e.next_file = 0 THEN acc.next ELSE e.next_file)
<1> DEFINE F == {a \in acc.files : <<a[1], a[2].number>> \notin e.deleted_files} \cup e.new_files
           L == IF e.log_number = 0 THEN acc.log ELSE e.log_number
           N == IF e.next_file = 0 THEN acc.next ELSE e.next_file
<1>1. F \in SUBSET (Levels \X FileMetaData) /\ L \in Nat /\ N \in Nat
  BY DEF Findings, VersionEdits
<1>2. ReplayStep(acc, e) = [files |-> F, log |-> L, next |-> N]
  BY DEF ReplayStep
<1> HIDE DEF F, L, N
<1>3. /\ ReplayStep(acc, e) \in Findings /\ ReplayStep(acc, e).files = F
      /\ ReplayStep(acc, e).log = L /\ ReplayStep(acc, e).next = N
  BY <1>1, <1>2 DEF Findings
<1> QED
  BY <1>3 DEF F, L, N

\* Equal records are read equally, however many follow.
LEMMA ReadsAgree ==
  ASSUME NEW n \in Nat, NEW m \in Nat, n <= m, NEW g, NEW h, NEW recs, NEW more,
         ReadsTo(g, recs, n), ReadsTo(h, more, m), \A i \in 1 .. n : recs[i] = more[i]
  PROVE  g[n] = h[n]
<1> DEFINE T == {i \in 0 .. n : g[i] = h[i]}
<1>1. 0 \in T
  BY DEF ReadsTo
<1>2. ASSUME NEW i \in 1 .. n, i - 1 \in T
      PROVE  i \in T
  <2>1. g[i - 1] = h[i - 1] /\ recs[i] = more[i] /\ i \in 1 .. m /\ i \in 0 .. n
    BY <1>2
  <2>2. g[i] = ReplayStep(g[i - 1], recs[i]) /\ h[i] = ReplayStep(h[i - 1], more[i])
    BY <2>1 DEF ReadsTo
  <2>3. g[i] = h[i]
    BY <2>1, <2>2, Zenon
  <2> QED
    BY <2>1, <2>3
<1>3. n \in 0 .. n
  OBVIOUS
<1> HIDE DEF T
<1>4. n \in T
  BY <1>1, <1>2, <1>3, UpTo
<1> QED
  BY <1>4 DEF T

LEMMA ReadExists ==
  ASSUME NEW n \in Nat, NEW recs, \A i \in 1 .. n : recs[i] \in VersionEdits
  PROVE  \E g \in [0 .. n -> Findings] : ReadsTo(g, recs, n) /\ ReadOf(recs, n) = g[n]
<1> DEFINE Read == CHOOSE r : r = [i \in 0 .. n |->
                     IF i = 0 THEN [files |-> {}, log |-> 0, next |-> 0]
                     ELSE ReplayStep(r[i - 1], recs[i])]
           step == [z \in (1 .. n) \X Findings |-> ReplayStep(z[2], recs[z[1]])]
<1>0. Nothing \in Findings
  BY DEF Nothing, Findings
<1>1. step \in [(1 .. n) \X Findings -> Findings]
  BY ReplayStepFields
<1>2. \A i \in 1 .. n, x \in Findings : step[<<i, x>>] = ReplayStep(x, recs[i])
  OBVIOUS
<1> HIDE DEF step
<1>3. PICK g \in [0 .. n -> Findings] : Iterates(g, n, Nothing, step)
  BY <1>0, <1>1, Recursion
<1>4. g[0] = Nothing /\ \A i \in 1 .. n : g[i] = step[<<i, g[i - 1]>>]
  BY <1>3 DEF Iterates
<1>5. \A i \in 1 .. n : g[i - 1] \in Findings
  OBVIOUS
<1>6. ReadsTo(g, recs, n)
  BY <1>2, <1>4, <1>5 DEF ReadsTo
<1>7. \A i \in 0 .. n : g[i] = IF i = 0 THEN [files |-> {}, log |-> 0, next |-> 0]
                               ELSE ReplayStep(g[i - 1], recs[i])
  <2> SUFFICES ASSUME NEW i \in 0 .. n
               PROVE  g[i] = IF i = 0 THEN [files |-> {}, log |-> 0, next |-> 0]
                             ELSE ReplayStep(g[i - 1], recs[i])
    OBVIOUS
  <2>1. CASE i = 0
    BY <1>4, <2>1 DEF Nothing
  <2>2. CASE i # 0
    <3>1. i \in 1 .. n
      BY <2>2
    <3> QED
      BY <1>6, <2>2, <3>1 DEF ReadsTo
  <2> QED
    BY <2>1, <2>2
<1>8. g = [i \in 0 .. n |-> IF i = 0 THEN [files |-> {}, log |-> 0, next |-> 0]
                            ELSE ReplayStep(g[i - 1], recs[i])]
  BY <1>7
<1>9. Read = [i \in 0 .. n |-> IF i = 0 THEN [files |-> {}, log |-> 0, next |-> 0]
                               ELSE ReplayStep(Read[i - 1], recs[i])]
  BY <1>8
<1>10. ReadOf(recs, n) = Read[n]
  BY DEF ReadOf
<1> HIDE DEF Read
<1>11. ReadsTo(Read, recs, n)
  <2>1. 0 \in 0 .. n /\ \A i \in 1 .. n : i \in 0 .. n /\ i # 0
    OBVIOUS
  <2>2. Read[0] = Nothing
    BY <1>9, <2>1 DEF Nothing
  <2>3. \A i \in 1 .. n : Read[i] = ReplayStep(Read[i - 1], recs[i])
    BY <1>9, <2>1
  <2> QED
    BY <2>2, <2>3 DEF ReadsTo
<1>12. g[n] = Read[n]
  BY <1>6, <1>11, ReadsAgree
<1> QED
  BY <1>6, <1>10, <1>12

\* The first records of two manifests that begin alike are read equally.
LEMMA ReadPrefix ==
  ASSUME NEW n \in Nat, NEW recs, NEW more, \A i \in 1 .. n : recs[i] \in VersionEdits,
         \A i \in 1 .. n : recs[i] = more[i]
  PROVE  ReadOf(more, n) = ReadOf(recs, n) /\ ReadOf(recs, n) \in Findings
<1>1. PICK g \in [0 .. n -> Findings] : ReadsTo(g, recs, n) /\ ReadOf(recs, n) = g[n]
  BY ReadExists
<1>2. \A i \in 1 .. n : more[i] \in VersionEdits
  OBVIOUS
<1>3. PICK h \in [0 .. n -> Findings] : ReadsTo(h, more, n) /\ ReadOf(more, n) = h[n]
  BY <1>2, ReadExists
<1>4. g[n] = h[n] /\ g[n] \in Findings
  BY <1>1, <1>3, ReadsAgree
<1> QED
  BY <1>1, <1>3, <1>4

\* One more record.
LEMMA ReadNext ==
  ASSUME NEW n \in Nat, NEW recs, \A i \in 1 .. (n + 1) : recs[i] \in VersionEdits
  PROVE  ReadOf(recs, n + 1) = ReplayStep(ReadOf(recs, n), recs[n + 1])
<1>1. PICK h \in [0 .. (n + 1) -> Findings] : ReadsTo(h, recs, n + 1) /\ ReadOf(recs, n + 1) = h[n + 1]
  BY ReadExists
<1>2. \A i \in 1 .. n : recs[i] \in VersionEdits /\ i \in 1 .. (n + 1)
  OBVIOUS
<1>3. PICK g \in [0 .. n -> Findings] : ReadsTo(g, recs, n) /\ ReadOf(recs, n) = g[n]
  BY <1>2, ReadExists
<1>4. g[n] = h[n]
  BY <1>1, <1>3, ReadsAgree
<1>5. h[n + 1] = ReplayStep(h[n], recs[n + 1])
  <2>1. n + 1 \in 1 .. (n + 1) /\ (n + 1) - 1 = n
    OBVIOUS
  <2> QED
    BY <1>1, <2>1 DEF ReadsTo
<1> QED
  BY <1>1, <1>3, <1>4, <1>5

LEMMA ReadNothing == \A recs : ReadOf(recs, 0) = Nothing
<1> SUFFICES ASSUME NEW recs
             PROVE  ReadOf(recs, 0) = Nothing
  OBVIOUS
<1>1. \A i \in 1 .. 0 : recs[i] \in VersionEdits
  OBVIOUS
<1>2. PICK g \in [0 .. 0 -> Findings] : ReadsTo(g, recs, 0) /\ ReadOf(recs, 0) = g[0]
  BY <1>1, ReadExists
<1> QED
  BY <1>2 DEF ReadsTo

\* A manifest of one record.
LEMMA ReadOne ==
  ASSUME NEW e \in VersionEdits
  PROVE  ReadOf(<<e>>, 1) = ReplayStep(Nothing, e)
<1>1. \A i \in 1 .. (0 + 1) : <<e>>[i] \in VersionEdits
  OBVIOUS
<1>2. ReadOf(<<e>>, 0 + 1) = ReplayStep(ReadOf(<<e>>, 0), <<e>>[0 + 1])
  BY <1>1, ReadNext
<1> QED
  BY <1>2, ReadNothing

\* A record is appended.
LEMMA ReadAppended ==
  ASSUME NEW recs \in Seq(VersionEdits), NEW e \in VersionEdits
  PROVE  /\ \A n \in 0 .. Len(recs) :
              ReadOf(Append(recs, e), n) = ReadOf(recs, n) /\ ReadOf(recs, n) \in Findings
         /\ ReadOf(Append(recs, e), Len(recs) + 1) = ReplayStep(ReadOf(recs, Len(recs)), e)
<1> DEFINE more == Append(recs, e)
<1>1. /\ Len(recs) \in Nat /\ more[Len(recs) + 1] = e /\ more \in Seq(VersionEdits)
      /\ Len(more) = Len(recs) + 1
      /\ \A i \in 1 .. Len(recs) : more[i] = recs[i] /\ recs[i] \in VersionEdits
  BY Appended
<1> HIDE DEF more
<1>2. ASSUME NEW n \in 0 .. Len(recs)
      PROVE  ReadOf(more, n) = ReadOf(recs, n) /\ ReadOf(recs, n) \in Findings
  <2>1. n \in Nat /\ \A i \in 1 .. n : recs[i] \in VersionEdits /\ recs[i] = more[i]
    BY <1>1
  <2> QED
    BY <2>1, ReadPrefix
<1>3. \A i \in 1 .. (Len(recs) + 1) : more[i] \in VersionEdits
  BY <1>1
<1>4. ReadOf(more, Len(recs) + 1) = ReplayStep(ReadOf(more, Len(recs)), more[Len(recs) + 1])
  BY <1>1, <1>3, ReadNext
<1>5. Len(recs) \in 0 .. Len(recs)
  BY <1>1
<1> QED
  BY <1>1, <1>2, <1>4, <1>5 DEF more

-----------------------------------------------------------------------------
(* The inductive invariant of the manifest *)

\* What makes recovery sound that finds files F, log number L and next file
\* number N, when T and G are the tables and logs on disk, W the logs there ever
\* were and X the next file number in memory: every file is there and has a
\* number below N, and of each log the writes can be found.
SoundIn(F, L, N, T, G, W, X) ==
  /\ \A a \in F : a[2].number \in T /\ a[2].number < N
  /\ \A g \in W : \/ g \in G /\ g >= L
                  \/ \E a \in F, k \in UserKeys : <<k, g>> \in a[2].data
  /\ L < N /\ N <= X

Sound(F, L, N) == SoundIn(F, L, N, tables, logs, written, next_file_number_)
SoundAt(recs, n) == Sound(ReadOf(recs, n).files, ReadOf(recs, n).log, ReadOf(recs, n).next)
Reads(recs, n, F, L) == ReadOf(recs, n).files = F /\ ReadOf(recs, n).log = L

\* Recovery is sound with every part of what has not been synced.
Durable == \A n \in synced[CURRENT] .. Len(manifest[CURRENT]) : SoundAt(manifest[CURRENT], n)

\* The writes of a log are in the memtables, or the log is not needed.
LogOrder ==
  /\ log_number_ <= logfile_number_
  /\ imm_ # nullptr => log_number_ <= imm_ /\ imm_ < logfile_number_
  /\ imm_ # nullptr /\ imm_keys = {} => imm_ \notin written
  /\ written \subseteq Numbers
  /\ \A g \in written : g < next_file_number_ /\ (g >= log_number_ => g \in {imm_, logfile_number_})

\* The new version is what recovery would find after the edit, and that is sound.
PendingEdit ==
  pc # "idle" =>
    /\ FileSet(files_[v]) =
         {a \in FileSet(files_[current_]) : <<a[1], a[2].number>> \notin edit.deleted_files}
           \cup edit.new_files
    /\ Sound(FileSet(files_[v]), edit.log_number, edit.next_file)
    /\ \/ caller # "CompactMemtable" /\ edit.log_number = log_number_
       \/ /\ caller = "CompactMemtable" /\ imm_ # nullptr
          /\ edit.log_number = logfile_number_ /\ edit.log_number > log_number_

\* What recovery finds in the synced part of the manifest that CURRENT names is
\* the current version; what it finds in all of the new one is the new version.
AsBefore == Reads(manifest[CURRENT], synced[CURRENT], FileSet(files_[current_]), log_number_)
AsAfter ==
  /\ Reads(manifest[New], Len(manifest[New]), FileSet(files_[v]), edit.log_number)
  /\ ReadOf(manifest[New], Len(manifest[New])).next = edit.next_file
Settled == Len(manifest[CURRENT]) = synced[CURRENT]

OldManifest == Len(manifest[Old]) = 1 /\ synced[Old] = 1
Ready == Working \/ ~bg_error_
Idle == pc = "idle" /\ Ready => AsBefore /\ Settled /\ (descriptor_file_ <=> CURRENT = New)
Running ==
  pc \in {"append", "sync", "current"} \/ (pc = "install" /\ s # "OK") =>
    AsBefore /\ (creating <=> CURRENT = Old) /\ (~creating => descriptor_file_)
Appending ==
  pc = "append" =>
    /\ Settled
    /\ creating /\ s = "OK" =>
         Len(manifest[New]) = 1 /\ Reads(manifest[New], 1, FileSet(files_[current_]), 0)
Syncing ==
  pc = "sync" => s = "OK" /\ AsAfter /\ (~creating => Len(manifest[New]) = synced[New] + 1)
Naming == pc = "current" => s = "OK" /\ creating /\ AsAfter /\ Len(manifest[New]) = synced[New]
Installing ==
  pc = "install" /\ s = "OK" =>
    descriptor_file_ /\ CURRENT = New /\ AsAfter /\ Len(manifest[New]) = synced[New]
Failing ==
  pc = "install" /\ s # "OK" /\ ~creating /\ Working => Len(manifest[New]) = synced[New]

Phases ==
  OldManifest /\ Idle /\ Running /\ Appending /\ Syncing /\ Naming /\ Installing /\ Failing
Whole == LogOrder /\ PendingEdit /\ Durable /\ Phases

\* It holds as long as no Sync of the manifest has failed and DoCompactionWork
\* has left no record whose append failed.
NoneLost == sync_faults = 0 /\ strays = 0
ManifestInv == TypesInv /\ sync_faults \in Nat /\ strays \in Nat /\ (NoneLost => Whole)

\* Tables, file numbers and one more log do no harm.
LEMMA SoundKept ==
  ASSUME NEW F, NEW L \in Nat, NEW N \in Nat, NEW T, NEW G, NEW W, NEW X \in Nat,
         NEW T2, NEW G2, NEW W2, NEW X2 \in Nat, SoundIn(F, L, N, T, G, W, X),
         T \subseteq T2, X <= X2,
         (G2 = G /\ W2 = W) \/ (G2 = G \cup {X} /\ W2 \subseteq W \cup {X})
  PROVE  SoundIn(F, L, N, T2, G2, W2, X2)
<1>1. \A a \in F : a[2].number \in T2 /\ a[2].number < N
  BY DEF SoundIn
<1>2. L < N /\ N <= X2 /\ X >= L
  BY DEF SoundIn
<1>3. ASSUME NEW g \in W
      PROVE  \/ g \in G2 /\ g >= L
             \/ \E a \in F, k \in UserKeys : <<k, g>> \in a[2].data
  BY DEF SoundIn
<1>4. \A g \in W2 : \/ g \in G2 /\ g >= L
                    \/ \E a \in F, k \in UserKeys : <<k, g>> \in a[2].data
  BY <1>2, <1>3
<1> QED
  BY <1>1, <1>2, <1>4 DEF SoundIn

\* A step that keeps what there is on disk for recovery.
Harmless ==
  /\ tables \subseteq tables' /\ next_file_number_ <= next_file_number_'
  /\ \/ logs' = logs /\ written' = written
     \/ /\ logs' = logs \cup {next_file_number_}
        /\ written' \subseteq written \cup {next_file_number_}

LEMMA ReadTypes ==
  ASSUME TypesInv, NEW m \in {Old, New}, NEW n \in 0 .. Len(manifest[m])
  PROVE  ReadOf(manifest[m], n) \in Findings
<1>1. manifest[m] \in Seq(VersionEdits)
  BY DEF TypesInv, Rest
<1>2. n \in Nat /\ \A i \in 1 .. n : manifest[m][i] \in VersionEdits
  BY <1>1
<1> QED
  BY <1>2, ReadPrefix

LEMMA Bounds ==
  ASSUME TypesInv
  PROVE  /\ next_file_number_ \in Nat /\ log_number_ \in Nat /\ edit.log_number \in Nat
         /\ logfile_number_ \in Nat /\ imm_ \in Nat /\ edit.next_file \in Nat
         /\ \A m \in {Old, New} : synced[m] \in Nat /\ Len(manifest[m]) \in Nat /\ synced[m] <= Len(manifest[m])
         /\ CURRENT \in {Old, New} /\ nullptr \in Nat
<1>1. Numbers \cup {0} \subseteq Nat
  BY LimitAssumption DEF Numbers
<1>2. next_file_number_ \in Nat
  BY LimitAssumption DEF TypesInv, VersionsInv, Memory
<1>3. edit.next_file \in Nat
  BY DEF TypesInv, Rest, VersionEdits
<1> QED
  BY <1>1, <1>2, <1>3 DEF TypesInv, VersionsInv, Memory, Rest, SyncedPart, nullptr

LEMMA DurableKept ==
  ASSUME TypesInv, TypesInv', Durable, Harmless,
         manifest'[CURRENT'] = manifest[CURRENT], synced'[CURRENT'] = synced[CURRENT]
  PROVE  Durable'
<1> DEFINE recs == manifest[CURRENT]
<1>1. ASSUME NEW n \in synced[CURRENT] .. Len(recs)
      PROVE  SoundIn(ReadOf(recs, n).files, ReadOf(recs, n).log, ReadOf(recs, n).next,
                     tables', logs', written', next_file_number_')
  <2>1. SoundIn(ReadOf(recs, n).files, ReadOf(recs, n).log, ReadOf(recs, n).next,
                tables, logs, written, next_file_number_)
    BY DEF Durable, SoundAt, Sound
  <2>2. n \in 0 .. Len(recs) /\ CURRENT \in {Old, New}
    BY Bounds
  <2>3. ReadOf(recs, n) \in Findings
    BY <2>2, ReadTypes
  <2>4. ReadOf(recs, n).log \in Nat /\ ReadOf(recs, n).next \in Nat
    BY <2>3 DEF Findings
  <2>5. next_file_number_ \in Nat /\ next_file_number_' \in Nat
    BY LimitAssumption DEF TypesInv, VersionsInv, Memory
  <2> HIDE DEF recs
  <2> QED
    BY <2>1, <2>4, <2>5, SoundKept DEF Harmless
<1> QED
  BY <1>1 DEF Durable, SoundAt, Sound

\* The manifest and the versions in it stay as they are.
LEMMA PhasesKept ==
  ASSUME TypesInv, Phases,
         UNCHANGED <<manifest, synced, CURRENT, pc, s, edit, v, creating>>,
         UNCHANGED <<descriptor_file_, log_number_, current_>>,
         Ready' => Ready, pc # "idle" => (Working' => Working),
         files_'[current_] = files_[current_], v # nullptr => files_'[v] = files_[v]
  PROVE  Phases'
<1>1. pc # "idle" => v # nullptr
  BY DEF TypesInv, VersionsInv, Vacant
<1>2. FileSet(files_'[current_]) = FileSet(files_[current_])
  OBVIOUS
<1>3. pc # "idle" => FileSet(files_'[v]) = FileSet(files_[v])
  BY <1>1
<1>4. AsBefore' <=> AsBefore
  BY <1>2 DEF AsBefore
<1>5. pc # "idle" => (AsAfter' <=> AsAfter)
  BY <1>3 DEF AsAfter
<1>6. Settled' <=> Settled
  BY DEF Settled
<1>7. OldManifest' /\ Idle' /\ Running' /\ Naming'
  BY <1>4, <1>5, <1>6 DEF Phases, OldManifest, Idle, Running, Naming
<1>8. Appending'
  BY <1>2, <1>6 DEF Phases, Appending
<1>9. Syncing' /\ Installing'
  BY <1>5 DEF Phases, Syncing, Installing
<1>10. Failing'
  BY DEF Phases, Failing
<1> QED
  BY <1>7, <1>8, <1>9, <1>10 DEF Phases

LEMMA PendingKept ==
  ASSUME TypesInv, TypesInv', PendingEdit, Harmless, UNCHANGED <<edit, v, current_, caller, log_number_>>,
         pc' # "idle" => pc # "idle",
         files_'[current_] = files_[current_], v # nullptr => files_'[v] = files_[v],
         UNCHANGED <<logfile_number_, imm_>> \/ imm_ = nullptr
  PROVE  PendingEdit'
<1> SUFFICES ASSUME pc' # "idle"
             PROVE  PendingEdit'
  BY DEF PendingEdit
<1>1. pc # "idle" /\ v # nullptr
  BY DEF TypesInv, VersionsInv, Vacant
<1> DEFINE F == FileSet(files_[v])
<1>2. FileSet(files_'[current_]) = FileSet(files_[current_]) /\ FileSet(files_'[v]) = F
  BY <1>1
<1>3. SoundIn(F, edit.log_number, edit.next_file, tables, logs, written, next_file_number_)
  BY <1>1 DEF PendingEdit, Sound
<1>4. /\ edit.log_number \in Nat /\ edit.next_file \in Nat /\ next_file_number_ \in Nat
      /\ next_file_number_' \in Nat
  BY Bounds, LimitAssumption DEF TypesInv, VersionsInv, Memory
<1>5. SoundIn(F, edit.log_number, edit.next_file, tables', logs', written', next_file_number_')
  <2> HIDE DEF F
  <2> QED
    BY <1>3, <1>4, SoundKept DEF Harmless
<1>6. F = {a \in FileSet(files_[current_]) : <<a[1], a[2].number>> \notin edit.deleted_files}
           \cup edit.new_files
  BY <1>1 DEF PendingEdit
<1>7. \/ caller # "CompactMemtable" /\ edit.log_number = log_number_
      \/ /\ caller = "CompactMemtable" /\ imm_' # nullptr
         /\ edit.log_number = logfile_number_' /\ edit.log_number > log_number_
  BY <1>1 DEF PendingEdit
<1> QED
  BY <1>2, <1>5, <1>6, <1>7 DEF PendingEdit, Sound

LEMMA ReadingWhole ==
  ASSUME TypesInv, TypesInv', Whole, Reading
  PROVE  Whole'
<1>1. LogOrder /\ PendingEdit /\ Durable /\ Phases
  BY DEF Whole
<1>2. next_file_number_ <= next_file_number_'
  BY Bounds DEF Reading
<1>3. Harmless
  BY <1>2 DEF Harmless, Reading
<1>4. LogOrder'
  BY <1>1 DEF LogOrder, Reading
<1>5. PendingEdit'
  BY <1>1, <1>3, PendingKept DEF Reading
<1>6. Durable'
  BY <1>1, <1>3, DurableKept DEF Reading
<1>7. Phases'
  <2>1. (Ready' => Ready) /\ (Working' => Working)
    BY DEF Reading, Ready, Working
  <2> QED
    BY <1>1, <2>1, PhasesKept DEF Reading
<1> QED
  BY <1>4, <1>5, <1>6, <1>7 DEF Whole

LEMMA SwitchLogWhole ==
  ASSUME TypesInv, TypesInv', Whole, NEW K, SwitchLog(K)
  PROVE  Whole'
<1>1. LogOrder /\ PendingEdit /\ Durable /\ Phases
  BY DEF Whole
<1>2. /\ imm_ = nullptr /\ next_file_number_ \in Numbers
      /\ next_file_number_' = next_file_number_ + 1
      /\ imm_' = logfile_number_ /\ imm_keys' = K /\ logfile_number_' = next_file_number_
      /\ logs' = logs \cup {next_file_number_}
      /\ written' = (IF K = {} THEN written \ {logfile_number_} ELSE written) \cup {next_file_number_}
      /\ UNCHANGED <<current_, files_, log_number_, descriptor_file_, tables, pc, bg_error_>>
      /\ UNCHANGED <<manifest, synced, CURRENT, edit, v, s, creating, caller, compact>>
  BY DEF SwitchLog, NewFileNumber, memory, disk, locals
<1>3. Harmless
  <2>1. written' \subseteq written \cup {next_file_number_}
    BY <1>2
  <2> QED
    BY <1>2, <2>1, Bounds DEF Harmless
<1>4. LogOrder'
  <2>1. log_number_ <= logfile_number_ /\ logfile_number_ < next_file_number_
    BY <1>1 DEF LogOrder, TypesInv, VersionsInv, Memory
  <2>2. \A g \in written : g \in Nat /\ g # 0 /\ g < next_file_number_ /\ (g >= log_number_ => g = logfile_number_)
    BY <1>1, <1>2, LimitAssumption DEF LogOrder, Numbers, nullptr
  <2>3. log_number_ <= next_file_number_ /\ written' \subseteq Numbers
    BY <1>1, <1>2, <2>1, Bounds DEF LogOrder
  <2>4. \A g \in written' : g < next_file_number_' /\ (g >= log_number_ => g \in {imm_', logfile_number_'})
    BY <1>2, <2>1, <2>2, Bounds
  <2>5. K = {} => logfile_number_ \notin written'
    BY <1>2, <2>1, Bounds
  <2> QED
    BY <1>2, <2>1, <2>3, <2>4, <2>5 DEF LogOrder
<1>5. PendingEdit'
  BY <1>1, <1>2, <1>3, PendingKept
<1>6. Durable'
  BY <1>1, <1>2, <1>3, DurableKept
<1>7. Phases'
  <2>1. (Ready' => Ready) /\ (Working' => Working)
    BY <1>2 DEF Ready, Working
  <2> QED
    BY <1>1, <1>2, <2>1, PhasesKept
<1> QED
  BY <1>4, <1>5, <1>6, <1>7 DEF Whole

\* The files of the new version are those that recovery has after the edit.
LEMMA NewFileSet ==
  ASSUME NEW base, WellFormed(base), NEW e, NEW t, NEW f, Applies(base, e, t, f)
  PROVE  FileSet(ApplyEdit(base, e)) =
           {a \in FileSet(base) : <<a[1], a[2].number>> \notin e.deleted_files} \cup e.new_files
<1> DEFINE fs == ApplyEdit(base, e)
           A == FileSet(fs)
           B == FileSet(base)
           K == {a \in B : <<a[1], a[2].number>> \notin e.deleted_files} \cup e.new_files
<1>1. /\ WellFormed(fs)
      /\ \A l \in Levels : \A g : g \in ToSet(fs[l])
                          <=> \/ g \in ToSet(base[l]) /\ <<l, g.number>> \notin e.deleted_files
                              \/ (l = t /\ g = f /\ e.new_files # {})
  BY NewVersion
<1>2. (e.new_files = {<<t, f>>} \/ e.new_files = {}) /\ t \in Levels /\ f \in FileMetaData
  BY DEF Applies
<1> HIDE DEF fs
<1>3. /\ A \subseteq Levels \X FileMetaData
      /\ \A l, g : <<l, g>> \in A <=> l \in Levels /\ g \in ToSet(fs[l])
  BY <1>1, FileSetOf DEF WellFormed
<1>4. /\ B \subseteq Levels \X FileMetaData
      /\ \A l, g : <<l, g>> \in B <=> l \in Levels /\ g \in ToSet(base[l])
  BY FileSetOf DEF WellFormed
<1> HIDE DEF A, B
<1>5. K \subseteq Levels \X FileMetaData
  BY <1>2, <1>4
<1>6. \A l \in Levels, g \in FileMetaData : <<l, g>> \in A <=> <<l, g>> \in K
  <2> SUFFICES ASSUME NEW l \in Levels, NEW g \in FileMetaData
               PROVE  <<l, g>> \in A <=> <<l, g>> \in K
    OBVIOUS
  <2>1. <<l, g>> \in A <=> \/ <<l, g>> \in B /\ <<l, g.number>> \notin e.deleted_files
                           \/ (l = t /\ g = f /\ e.new_files # {})
    BY <1>1, <1>3, <1>4
  <2>2. <<l, g>>[1] = l /\ <<l, g>>[2] = g
    OBVIOUS
  <2>3. <<l, g>> \in e.new_files <=> l = t /\ g = f /\ e.new_files # {}
    BY <1>2
  <2> QED
    BY <2>1, <2>2, <2>3
<1> HIDE DEF K
<1>7. A = K
  <2>1. \A a \in Levels \X FileMetaData : a = <<a[1], a[2]>> /\ a[1] \in Levels /\ a[2] \in FileMetaData
    OBVIOUS
  <2>2. \A a \in Levels \X FileMetaData : a \in A <=> a \in K
    BY <1>6, <2>1, Zenon
  <2>3. \A a : a \in A <=> a \in K
    BY <1>3, <1>5, <2>2, Zenon
  <2> QED
    BY <2>3
<1> QED
  BY <1>7 DEF A, B, K, fs

\* The edit of a caller takes a sound state to a sound one: the numbers of the
\* new version are used up, and no write is lost with the files and the logs
\* that are no longer needed.
LEMMA CallerSound ==
  ASSUME TypesInv, LogOrder, NEW e, NEW t, NEW f, EditStep(e, t, f), Carries(e, f),
         NEW N \in Nat, NEW log,
         Sound(FileSet(files_[current_]), log_number_, N),
         log = IF e.log_number = 0 THEN log_number_ ELSE e.log_number
  PROVE  SoundIn({a \in FileSet(files_[current_]) : <<a[1], a[2].number>> \notin e.deleted_files}
                   \cup e.new_files, log, next_file_number_',
                 tables', logs, written, next_file_number_')
<1> DEFINE B == FileSet(files_[current_])
           K == {a \in B : <<a[1], a[2].number>> \notin e.deleted_files} \cup e.new_files
<1>1. /\ next_file_number_' \in Nat /\ next_file_number_ <= next_file_number_'
      /\ f.number < next_file_number_' /\ f \in FileMetaData
      /\ tables' = (IF e.new_files = {} THEN tables ELSE tables \cup {f.number})
      /\ e.new_files = {<<t, f>>} \/ (e.new_files = {} /\ e.deleted_files = {})
  BY LimitAssumption DEF EditStep, Applies
<1>2. /\ WellFormed(files_[current_]) /\ current_ \in Versions
      /\ logfile_number_ < next_file_number_ /\ next_file_number_ \in Nat
      /\ log_number_ \in Nat /\ logfile_number_ \in Nat /\ imm_ \in Nat
  BY Bounds DEF TypesInv, VersionsInv, Memory
<1>3. \A a \in B : a \in Levels \X FileMetaData /\ a[2] \in InLevel(a[1])
  <2>1. /\ B \subseteq Levels \X FileMetaData
        /\ \A l, g : <<l, g>> \in B <=> l \in Levels /\ g \in ToSet(files_[current_][l])
    BY <1>2, FileSetOf DEF WellFormed
  <2> HIDE DEF B
  <2>2. ASSUME NEW a \in B
        PROVE  a[2] \in InLevel(a[1])
    <3>1. a = <<a[1], a[2]>>
      BY <2>1
    <3> QED
      BY <2>1, <3>1 DEF InLevel
  <2> QED
    BY <2>1, <2>2
<1> HIDE DEF B
<1>4. \A a \in B : a[2].number \in tables /\ a[2].number < next_file_number_ /\ a[2].number \in Nat
  <2> SUFFICES ASSUME NEW a \in B
               PROVE  a[2].number \in tables /\ a[2].number < next_file_number_ /\ a[2].number \in Nat
    OBVIOUS
  <2>1. a[1] \in Levels /\ a[2] \in FileMetaData /\ a[2] \in ToSet(files_[current_][a[1]])
    BY <1>3 DEF InLevel
  <2>2. a[2].number \in tables /\ a[2].number < next_file_number_
    BY <1>2, <2>1 DEF TypesInv, VersionsInv, OnDisk
  <2>3. a[2].number \in Nat
    BY <2>1, LimitAssumption DEF FileMetaData, Numbers
  <2> QED
    BY <2>2, <2>3
<1>5. f.number \in Nat
  BY <1>1, LimitAssumption DEF FileMetaData, Numbers
<1>6. \A a \in K : a[2].number \in tables' /\ a[2].number < next_file_number_'
  BY <1>1, <1>2, <1>4, <1>5
<1>7. ASSUME NEW g \in written, NEW k \in UserKeys, NEW a \in B, <<k, g>> \in a[2].data
      PROVE  \E b \in K : <<k, g>> \in b[2].data
  <2>1. CASE <<a[1], a[2].number>> \notin e.deleted_files
    <3>1. a \in K
      BY <2>1
    <3> QED
      BY <1>7, <3>1
  <2>2. CASE <<a[1], a[2].number>> \in e.deleted_files
    <3>1. a[2].data \subseteq f.data
      BY <1>3, <2>2 DEF Carries
    <3>2. <<t, f>> \in K /\ <<t, f>>[2] = f
      BY <1>1, <2>2
    <3> QED
      BY <1>7, <3>1, <3>2
  <2> QED
    BY <2>1, <2>2
<1>8. ASSUME NEW g \in written
      PROVE  \/ g \in logs /\ g >= log
             \/ \E a \in K, k \in UserKeys : <<k, g>> \in a[2].data
  <2>1. \/ g \in logs /\ g >= log_number_
        \/ \E a \in B, k \in UserKeys : <<k, g>> \in a[2].data
    BY DEF Sound, SoundIn, B
  <2>2. CASE \E a \in B, k \in UserKeys : <<k, g>> \in a[2].data
    BY <1>7, <2>2
  <2>3. CASE g \in logs /\ g >= log_number_
    <3>1. g \in {imm_, logfile_number_}
      BY <2>3 DEF LogOrder
    <3>2. CASE e.log_number = 0
      BY <2>3, <3>2
    <3>3. CASE e.log_number # 0
      <4>1. /\ log = logfile_number_ /\ imm_ # nullptr
            /\ IF e.new_files = {} THEN imm_keys = {} ELSE \E k \in UserKeys : <<k, imm_>> \in f.data
        BY <3>3 DEF Carries
      <4>2. CASE g = logfile_number_
        <5>1. g >= logfile_number_
          BY <1>2, <4>2
        <5> QED
          BY <2>3, <4>1, <5>1, Zenon
      <4>3. CASE g = imm_
        <5>1. e.new_files # {}
          BY <4>1, <4>3 DEF LogOrder
        <5>2. <<t, f>> \in K /\ <<t, f>>[2] = f
          BY <1>1, <5>1
        <5> QED
          BY <4>1, <4>3, <5>1, <5>2
      <4> QED
        BY <3>1, <4>2, <4>3
    <3> QED
      BY <3>2, <3>3
  <2> QED
    BY <2>1, <2>2, <2>3
<1>9. log < next_file_number_' /\ next_file_number_' <= next_file_number_'
  <2>1. log_number_ <= logfile_number_
    BY DEF LogOrder
  <2>2. log = log_number_ \/ log = logfile_number_
    BY DEF Carries
  <2> QED
    BY <1>1, <1>2, <2>1, <2>2
<1> HIDE DEF K
<1>10. SoundIn(K, log, next_file_number_', tables', logs, written, next_file_number_')
  BY <1>6, <1>8, <1>9 DEF SoundIn
<1> QED
  BY <1>10 DEF K, B

\* The snapshot alone gives the files of the current version.
LEMMA SnapshotRead ==
  ASSUME VersionsInv
  PROVE  Reads(<<WriteSnapshot>>, 1, FileSet(files_[current_]), 0)
<1> DEFINE e == WriteSnapshot
           B == FileSet(files_[current_])
<1>1. e \in VersionEdits /\ e.new_files = B /\ e.deleted_files = {} /\ e.log_number = 0
  BY WriteSnapshotFields
<1>2. Nothing \in Findings /\ Nothing.files = {} /\ Nothing.log = 0
  BY DEF Nothing, Findings
<1> HIDE DEF e, B
<1>3. ReadOf(<<e>>, 1) = ReplayStep(Nothing, e)
  BY <1>1, ReadOne
<1>4. ReplayStep(Nothing, e).files = B /\ ReplayStep(Nothing, e).log = 0
  BY <1>1, <1>2, ReplayStepFields
<1>5. Reads(<<e>>, 1, B, 0)
  BY <1>3, <1>4 DEF Reads
<1> QED
  BY <1>5 DEF e, B

LEMMA CallerWhole ==
  ASSUME TypesInv, TypesInv', Whole, NEW e, NEW t, NEW f, EditStep(e, t, f), Carries(e, f)
  PROVE  Whole'
<1>1. LogOrder /\ PendingEdit /\ Durable /\ Phases /\ VersionsInv
  BY DEF Whole, TypesInv
<1>2. LogAndApply(e, caller') /\ Applies(files_[current_], e, t, f) /\ pc = "idle" /\ Ready
  BY DEF EditStep, Carries, Ready
<1>3. /\ pc' = "append"
      /\ creating' = ~descriptor_file_ /\ descriptor_file_ \in BOOLEAN
      /\ \/ descriptor_file_ /\ manifest' = manifest /\ descriptor_file_'
         \/ ~descriptor_file_ /\ manifest' = [manifest EXCEPT ![New] = <<WriteSnapshot>>]
         \/ ~descriptor_file_ /\ s' = "IOError" /\ manifest' = manifest
      /\ UNCHANGED <<current_, log_number_, synced, CURRENT, logs>>
      /\ UNCHANGED <<logfile_number_, imm_, imm_keys, written>>
  BY <1>2, BeginEffect DEF TypesInv, Rest
<1>4. AsBefore /\ Settled /\ (descriptor_file_ <=> CURRENT = New) /\ OldManifest
  BY <1>1, <1>2 DEF Phases, Idle
<1>5. /\ v' \in Versions /\ v' # current_ /\ current_ \in Versions /\ DOMAIN files_ = Versions
      /\ files_' = [files_ EXCEPT ![v'] = ApplyEdit(files_[current_], e)]
      /\ WellFormed(files_[current_])
  BY <1>1, EditStepInv DEF VersionsInv, Memory
<1>6. files_'[current_] = files_[current_] /\ files_'[v'] = ApplyEdit(files_[current_], e)
  BY <1>5
<1>7. /\ edit'.new_files = e.new_files /\ edit'.deleted_files = e.deleted_files
      /\ edit'.log_number = (IF e.log_number = 0 THEN log_number_ ELSE e.log_number)
      /\ edit'.next_file = next_file_number_'
  BY CallerTypes
<1>8. Harmless
  <2>1. tables \subseteq tables' /\ next_file_number_ <= next_file_number_'
    BY DEF EditStep
  <2> QED
    BY <1>3, <2>1 DEF Harmless
<1>9. LogOrder'
  <2>1. \A g \in written : g \in Nat
    BY <1>1, LimitAssumption DEF LogOrder, Numbers
  <2>2. next_file_number_ \in Nat /\ next_file_number_' \in Nat /\ next_file_number_ <= next_file_number_'
    BY <1>8, Bounds, LimitAssumption DEF Harmless, TypesInv, VersionsInv, Memory
  <2>3. \A g \in written : g < next_file_number_'
    BY <1>1, <2>1, <2>2 DEF LogOrder
  <2> QED
    BY <1>1, <1>3, <2>3 DEF LogOrder
<1>10. PendingEdit'
  <2> DEFINE B == FileSet(files_[current_])
             N == ReadOf(manifest[CURRENT], synced[CURRENT]).next
  <2>1. synced[CURRENT] \in synced[CURRENT] .. Len(manifest[CURRENT]) /\ synced[CURRENT] \in 0 .. Len(manifest[CURRENT])
        /\ CURRENT \in {Old, New}
    BY Bounds
  <2>2. SoundAt(manifest[CURRENT], synced[CURRENT])
    BY <1>1, <2>1 DEF Durable
  <2>3. ReadOf(manifest[CURRENT], synced[CURRENT]) \in Findings
    BY <2>1, ReadTypes
  <2>4. Sound(B, log_number_, N) /\ N \in Nat
    BY <1>4, <2>2, <2>3 DEF SoundAt, AsBefore, Reads, Findings
  <2>5. SoundIn({a \in B : <<a[1], a[2].number>> \notin e.deleted_files} \cup e.new_files,
                edit'.log_number, next_file_number_', tables', logs, written, next_file_number_')
    <3> HIDE DEF N
    <3> QED
      BY <1>1, <1>7, <2>4, CallerSound
  <2>6. FileSet(files_'[v']) =
          {a \in FileSet(files_[current_]) : <<a[1], a[2].number>> \notin e.deleted_files} \cup e.new_files
    BY <1>2, <1>5, <1>6, NewFileSet
  <2>7. \/ caller' # "CompactMemtable" /\ edit'.log_number = log_number_
        \/ /\ caller' = "CompactMemtable" /\ imm_ # nullptr
           /\ edit'.log_number = logfile_number_ /\ edit'.log_number > log_number_
    <3>0. logfile_number_ # 0
      BY LimitAssumption DEF TypesInv, VersionsInv, Memory, Numbers
    <3>1. CASE e.log_number = 0
      BY <1>7, <3>0, <3>1 DEF Carries
    <3>2. CASE e.log_number # 0
      <4>1. edit'.log_number = logfile_number_ /\ imm_ # nullptr /\ caller' = "CompactMemtable"
        BY <1>7, <3>2 DEF Carries
      <4>2. log_number_ < logfile_number_
        BY <1>1, <4>1, Bounds DEF LogOrder
      <4> QED
        BY <4>1, <4>2, Bounds
    <3> QED
      BY <3>1, <3>2
  <2>8. SoundIn(FileSet(files_'[v']), edit'.log_number, edit'.next_file, tables', logs', written', next_file_number_')
    BY <1>3, <1>7, <2>5, <2>6
  <2>9. FileSet(files_'[v']) =
          {a \in FileSet(files_'[current_']) : <<a[1], a[2].number>> \notin edit'.deleted_files} \cup edit'.new_files
    BY <1>3, <1>6, <1>7, <2>6
  <2> QED
    BY <1>3, <2>7, <2>8, <2>9 DEF PendingEdit, Sound
<1>11. /\ manifest'[CURRENT] = manifest[CURRENT] /\ manifest'[Old] = manifest[Old]
       /\ ~descriptor_file_ /\ s' = "OK" => manifest'[New] = <<WriteSnapshot>>
  <2>1. manifest \in [{Old, New} -> Seq(VersionEdits)] /\ CURRENT \in {Old, New}
    BY DEF TypesInv, Rest
  <2>2. ~descriptor_file_ => CURRENT = Old
    BY <1>4, <2>1
  <2> QED
    BY <1>3, <2>1, <2>2, ManifestNames
<1>12. Durable'
  BY <1>1, <1>3, <1>8, <1>11, DurableKept
<1>13. AsBefore' /\ Settled' /\ OldManifest'
  BY <1>3, <1>4, <1>6, <1>11 DEF AsBefore, Settled, OldManifest
<1>14. Running'
  <2>1. (creating' <=> CURRENT' = Old) /\ (~creating' => descriptor_file_')
    BY <1>3, <1>4, ManifestNames DEF TypesInv, Rest
  <2> QED
    BY <1>13, <2>1 DEF Running
<1>15. Appending'
  <2> DEFINE B == FileSet(files_[current_])
  <2>1. ASSUME creating', s' = "OK"
        PROVE  Len(manifest'[New]) = 1 /\ Reads(manifest'[New], 1, B, 0)
    <3>1. manifest'[New] = <<WriteSnapshot>>
      BY <1>3, <1>11, <2>1
    <3>2. Reads(<<WriteSnapshot>>, 1, B, 0) /\ Len(<<WriteSnapshot>>) = 1
      BY <1>1, SnapshotRead
    <3> QED
      BY <3>1, <3>2
  <2>2. B = FileSet(files_'[current_'])
    BY <1>3, <1>6
  <2> HIDE DEF B
  <2> QED
    BY <1>13, <2>1, <2>2 DEF Appending
<1>16. Phases'
  BY <1>3, <1>13, <1>14, <1>15 DEF Phases, Idle, Syncing, Naming, Installing, Failing
<1> QED
  BY <1>9, <1>10, <1>12, <1>16 DEF Whole

\* With the record of the edit, the new manifest gives the new version.
LEMMA AfterAppend ==
  ASSUME TypesInv, Whole, pc = "append", s = "OK"
  PROVE  LET recs == Append(manifest[New], edit)
             n == Len(manifest[New]) + 1 IN
         /\ Reads(recs, n, FileSet(files_[v]), edit.log_number)
         /\ ReadOf(recs, n).next = edit.next_file
<1> DEFINE recs == manifest[New]
           B == FileSet(files_[current_])
           V == FileSet(files_[v])
           last == ReadOf(recs, Len(recs))
<1>1. PendingEdit /\ Running /\ Appending
  BY DEF Whole, Phases
<1>2. recs \in Seq(VersionEdits) /\ edit \in VersionEdits
  BY ManifestNames DEF TypesInv, Rest
<1>3. last \in Findings
  BY ReadTypes, Bounds, ManifestNames
<1>4. /\ V = {a \in B : <<a[1], a[2].number>> \notin edit.deleted_files} \cup edit.new_files
      /\ edit.log_number < edit.next_file
      /\ edit.log_number = log_number_ \/ edit.log_number > log_number_
  BY <1>1 DEF PendingEdit, Sound, SoundIn
<1>5. last.files = B /\ (last.log = 0 \/ last.log = log_number_)
  <2>1. CASE creating
    <3>1. Len(recs) = 1 /\ Reads(recs, 1, B, 0)
      BY <1>1, <2>1 DEF Appending
    <3> QED
      BY <3>1 DEF Reads
  <2>2. CASE ~creating
    <3>1. CURRENT = New /\ AsBefore /\ Settled
      BY <1>1, <2>2, Bounds DEF Running, Appending
    <3> QED
      BY <3>1 DEF Reads, AsBefore, Settled
  <2> QED
    BY <2>1, <2>2
<1>6. ReadOf(Append(recs, edit), Len(recs) + 1) = ReplayStep(last, edit)
  BY <1>2, ReadAppended
<1> HIDE DEF recs, B, V, last
<1>7. /\ ReplayStep(last, edit).files = V
      /\ ReplayStep(last, edit).log = (IF edit.log_number = 0 THEN last.log ELSE edit.log_number)
      /\ ReplayStep(last, edit).next = (IF edit.next_file = 0 THEN last.next ELSE edit.next_file)
  BY <1>2, <1>3, <1>4, <1>5, ReplayStepFields
<1>8. edit.log_number \in Nat /\ edit.next_file \in Nat /\ log_number_ \in Nat
  BY Bounds
<1>9. ReplayStep(last, edit).next = edit.next_file /\ ReplayStep(last, edit).log = edit.log_number
  BY <1>4, <1>5, <1>7, <1>8
<1>10. Reads(Append(recs, edit), Len(recs) + 1, V, edit.log_number)
       /\ ReadOf(Append(recs, edit), Len(recs) + 1).next = edit.next_file
  BY <1>6, <1>7, <1>9 DEF Reads
<1> QED
  BY <1>10 DEF recs, V

LEMMA AppendWhole ==
  ASSUME TypesInv, TypesInv', Whole, AppendRecord, strays' = strays, strays \in Nat
  PROVE  Whole'
<1> DEFINE recs == manifest[New]
           more == Append(recs, edit)
<1>1. LogOrder /\ PendingEdit /\ Durable /\ Phases
  BY DEF Whole
<1>2. /\ pc = "append"
      /\ UNCHANGED <<current_, files_, log_number_, next_file_number_, descriptor_file_, synced, CURRENT>>
      /\ UNCHANGED <<tables, logs, logfile_number_, imm_, imm_keys, edit, v, creating, caller, written>>
      /\ UNCHANGED compact
  BY DEF AppendRecord, memory, files, wal
<1>3. /\ \/ manifest' = manifest /\ s' # "OK"
         \/ s = "OK" /\ manifest' = [manifest EXCEPT ![New] = Append(@, edit)]
      /\ \/ s' = "OK" /\ pc' = "sync"
         \/ s' # "OK" /\ pc' = "install" /\ (Working /\ ~creating => manifest' = manifest)
  <2>1. PICK x \in {"OK", "IOError"}, left \in BOOLEAN :
          /\ left => s = "OK"
          /\ s = "OK" /\ x = "OK" => left
          /\ s' = IF s = "OK" THEN x ELSE s
          /\ manifest' = IF left THEN [manifest EXCEPT ![New] = Append(@, edit)] ELSE manifest
          /\ pc' = IF s' = "OK" THEN "sync" ELSE "install"
          /\ IF left /\ x # "OK" /\ Working /\ ~creating
               THEN strays < MaxStrays /\ strays' = strays + 1
               ELSE UNCHANGED strays
    BY DEF AppendRecord, EnvStatus
  <2>2. ~(left /\ x # "OK" /\ Working /\ ~creating)
    BY <2>1
  <2> QED
    BY <2>1, <2>2
<1>4. /\ manifest \in [{Old, New} -> Seq(VersionEdits)] /\ edit \in VersionEdits
      /\ recs \in Seq(VersionEdits) /\ Len(recs) \in Nat
  BY ManifestNames DEF TypesInv, Rest
<1>5. /\ manifest'[Old] = manifest[Old]
      /\ (manifest'[New] = recs /\ s' # "OK") \/ (s = "OK" /\ manifest'[New] = more)
  BY <1>3, <1>4, ManifestNames
<1>6. Len(more) = Len(recs) + 1
  BY <1>4, Appended
<1>7. \A n \in 0 .. Len(recs) : ReadOf(more, n) = ReadOf(recs, n)
  BY <1>4, ReadAppended
<1>8. Harmless
  BY <1>2, Bounds DEF Harmless
<1>9. LogOrder'
  BY <1>1, <1>2 DEF LogOrder
<1>10. PendingEdit'
  BY <1>1, <1>2, <1>8, PendingKept
<1>11. /\ AsBefore /\ (creating <=> CURRENT = Old) /\ Settled /\ OldManifest
       /\ ~creating => descriptor_file_
  BY <1>1, <1>2 DEF Phases, Running, Appending
<1>12. AsBefore'
  <2>1. \A n \in 0 .. Len(recs) : ReadOf(manifest'[New], n) = ReadOf(recs, n)
    BY <1>5, <1>7
  <2>2. CURRENT \in {Old, New} /\ synced[CURRENT] \in 0 .. Len(manifest[CURRENT])
    BY Bounds
  <2>3. ReadOf(manifest'[CURRENT], synced[CURRENT]) = ReadOf(manifest[CURRENT], synced[CURRENT])
    BY <1>5, <2>1, <2>2
  <2> QED
    BY <1>2, <1>11, <2>3 DEF AsBefore, Reads
<1>13. s = "OK" => /\ Reads(more, Len(more), FileSet(files_[v]), edit.log_number)
                   /\ ReadOf(more, Len(more)).next = edit.next_file
  BY <1>2, <1>6, AfterAppend
<1>14. s = "OK" /\ manifest'[New] = more => AsAfter'
  BY <1>2, <1>13 DEF AsAfter
<1>15. Durable'
  <2>1. CASE CURRENT = Old \/ manifest'[New] = recs
    <3>1. manifest'[CURRENT'] = manifest[CURRENT] /\ synced'[CURRENT'] = synced[CURRENT]
      BY <1>2, <1>5, <2>1, Bounds
    <3> QED
      BY <1>1, <1>8, <3>1, DurableKept
  <2>2. CASE CURRENT = New /\ manifest'[New] = more /\ s = "OK"
    <3>1. ASSUME NEW n \in synced[New] .. Len(more)
          PROVE  Sound(ReadOf(more, n).files, ReadOf(more, n).log, ReadOf(more, n).next)
      <4>1. CASE n = Len(more)
        BY <1>1, <1>2, <1>13, <2>2, <4>1 DEF PendingEdit, Reads
      <4>2. CASE n # Len(more)
        <5>1. n \in synced[New] .. Len(recs) /\ n \in 0 .. Len(recs)
          BY <1>4, <1>6, <4>2, Bounds, ManifestNames
        <5>2. SoundAt(recs, n)
          BY <1>1, <2>2, <5>1 DEF Durable
        <5> QED
          BY <1>7, <5>1, <5>2 DEF SoundAt
      <4> QED
        BY <4>1, <4>2
    <3> HIDE DEF more, recs
    <3>2. \A n \in synced[New] .. Len(more) :
            SoundIn(ReadOf(more, n).files, ReadOf(more, n).log, ReadOf(more, n).next,
                    tables', logs', written', next_file_number_')
      BY <1>2, <3>1 DEF Sound
    <3> QED
      BY <1>2, <2>2, <3>2 DEF Durable, SoundAt, Sound
  <2> QED
    BY <1>5, <2>1, <2>2, Bounds
<1>16. OldManifest' /\ Running'
  BY <1>2, <1>5, <1>11, <1>12 DEF OldManifest, Running
<1>17. Syncing' /\ Failing'
  <2>1. ~creating => CURRENT = New /\ Len(recs) = synced[New]
    BY <1>11, Bounds DEF Settled
  <2>2. s' # "OK" /\ ~creating /\ Working' => Len(manifest'[New]) = synced[New]
    BY <1>2, <1>3, <2>1 DEF Working
  <2>3. s' = "OK" => AsAfter' /\ (~creating => Len(manifest'[New]) = synced[New] + 1)
    BY <1>5, <1>6, <1>14, <2>1
  <2> QED
    BY <1>2, <1>3, <2>2, <2>3 DEF Syncing, Failing
<1>18. Phases'
  BY <1>3, <1>16, <1>17 DEF Phases, Idle, Appending, Naming, Installing
<1> QED
  BY <1>9, <1>10, <1>15, <1>18 DEF Whole

\* The Sync succeeds.
LEMMA SyncWhole ==
  ASSUME TypesInv, TypesInv', Whole, SyncRecord,
         synced' = [synced EXCEPT ![New] = Len(manifest[New])]
  PROVE  Whole'
<1>1. LogOrder /\ PendingEdit /\ Durable /\ Phases
  BY DEF Whole
<1>2. /\ pc = "sync" /\ pc' = IF creating THEN "current" ELSE "install"
      /\ UNCHANGED <<current_, files_, log_number_, next_file_number_, descriptor_file_, manifest, CURRENT>>
      /\ UNCHANGED <<tables, logs, logfile_number_, imm_, imm_keys, edit, v, s, creating, caller, written>>
  BY DEF SyncRecord, memory, files, wal, locals
<1>3. descriptor_file_ /\ s = "OK" /\ AsBefore /\ AsAfter /\ OldManifest /\ (creating <=> CURRENT = Old)
  BY <1>1, <1>2 DEF Phases, Running, Syncing, TypesInv, SyncedPart
<1>4. synced'[New] = Len(manifest[New]) /\ synced'[Old] = synced[Old]
  BY ManifestNames DEF TypesInv, Rest
<1>5. Harmless
  BY <1>2, Bounds DEF Harmless
<1>6. LogOrder'
  BY <1>1, <1>2 DEF LogOrder
<1>7. PendingEdit'
  BY <1>1, <1>2, <1>5, PendingKept
<1>8. Durable'
  <2>1. synced[CURRENT] <= synced'[CURRENT]
    BY <1>4, Bounds
  <2>2. \A n \in synced'[CURRENT] .. Len(manifest[CURRENT]) : n \in synced[CURRENT] .. Len(manifest[CURRENT])
    BY <2>1, <1>4, Bounds, ManifestNames
  <2>3. \A n \in synced'[CURRENT] .. Len(manifest[CURRENT]) : SoundAt(manifest[CURRENT], n)
    BY <1>1, <2>2 DEF Durable
  <2> QED
    BY <1>2, <2>3 DEF Durable, SoundAt, Sound
<1>9. OldManifest' /\ AsAfter'
  BY <1>2, <1>3, <1>4 DEF OldManifest, AsAfter
<1>10. CASE creating
  <2>1. AsBefore'
    BY <1>2, <1>3, <1>4, <1>10 DEF AsBefore
  <2>2. Phases'
    BY <1>2, <1>3, <1>4, <1>9, <1>10, <2>1
       DEF Phases, Idle, Running, Appending, Syncing, Naming, Installing, Failing
  <2> QED
    BY <1>6, <1>7, <1>8, <2>2 DEF Whole
<1>11. CASE ~creating
  <2>1. CURRENT = New
    BY <1>3, <1>11, Bounds
  <2>2. Phases'
    BY <1>2, <1>3, <1>4, <1>9, <1>11, <2>1
       DEF Phases, Idle, Running, Appending, Syncing, Naming, Installing, Failing
  <2> QED
    BY <1>6, <1>7, <1>8, <2>2 DEF Whole
<1> QED
  BY <1>10, <1>11

LEMMA SetCurrentWhole ==
  ASSUME TypesInv, TypesInv', Whole, SetCurrentFile
  PROVE  Whole'
<1>1. LogOrder /\ PendingEdit /\ Durable /\ Phases
  BY DEF Whole
<1>2. /\ pc = "current" /\ pc' = "install"
      /\ UNCHANGED <<current_, files_, log_number_, next_file_number_, descriptor_file_, manifest, synced>>
      /\ UNCHANGED <<tables, logs, logfile_number_, imm_, imm_keys, edit, v, creating, caller, written>>
      /\ (s' = "OK" /\ CURRENT' = New) \/ (s' = "IOError" /\ CURRENT' = CURRENT)
  BY DEF SetCurrentFile, memory, files, wal, EnvStatus
<1>3. /\ descriptor_file_ /\ creating /\ AsBefore /\ AsAfter /\ OldManifest
      /\ (creating <=> CURRENT = Old) /\ Len(manifest[New]) = synced[New]
  BY <1>1, <1>2 DEF Phases, Running, Naming, TypesInv, SyncedPart
<1>4. Harmless
  BY <1>2, Bounds DEF Harmless
<1>5. LogOrder'
  BY <1>1, <1>2 DEF LogOrder
<1>6. PendingEdit'
  BY <1>1, <1>2, <1>4, PendingKept
<1>7. OldManifest' /\ AsAfter'
  BY <1>2, <1>3 DEF OldManifest, AsAfter
<1>8. CASE s' = "OK" /\ CURRENT' = New
  <2>1. Phases'
    BY <1>2, <1>3, <1>7, <1>8 DEF Phases, Idle, Running, Appending, Syncing, Naming, Installing, Failing
  <2>2. SoundAt(manifest[New], Len(manifest[New]))
    BY <1>1, <1>2, <1>3 DEF PendingEdit, AsAfter, Reads, SoundAt
  <2>3. \A n \in synced[New] .. Len(manifest[New]) : n = Len(manifest[New])
    BY <1>3, Bounds, ManifestNames
  <2>4. \A n \in synced[New] .. Len(manifest[New]) : SoundAt(manifest[New], n)
    BY <2>2, <2>3
  <2>5. Durable'
    BY <1>2, <1>8, <2>4 DEF Durable, SoundAt, Sound
  <2> QED
    BY <1>5, <1>6, <2>1, <2>5 DEF Whole
<1>9. CASE s' = "IOError" /\ CURRENT' = CURRENT
  <2>1. AsBefore'
    BY <1>2, <1>3, <1>9 DEF AsBefore
  <2>2. Phases'
    BY <1>2, <1>3, <1>7, <1>9, <2>1 DEF Phases, Idle, Running, Appending, Syncing, Naming, Installing, Failing
  <2>3. Durable'
    BY <1>1, <1>2, <1>4, <1>9, DurableKept
  <2> QED
    BY <1>5, <1>6, <2>2, <2>3 DEF Whole
<1> QED
  BY <1>2, <1>8, <1>9

\* RemoveObsoleteFiles does no harm to what recovery finds, if that is the files of
\* a live version and its log number.
LEMMA SoundAfterRemoval ==
  ASSUME NEW u \in Versions, NEW fs \in [Levels -> Seq(FileMetaData)], files_'[u] = fs,
         NEW L, NEW N, NEW F, F = FileSet(fs),
         SoundIn(F, L, N, tables, logs, written, next_file_number_),
         tables \cap LiveTables(files_') \subseteq tables',
         \A n \in logs : n >= L => n \in logs',
         UNCHANGED <<written, next_file_number_>>
  PROVE  SoundIn(F, L, N, tables', logs', written', next_file_number_')
<1>1. \A a \in F : a[2].number \in LiveTables(files_')
  <2> SUFFICES ASSUME NEW a \in F
               PROVE  a[2].number \in LiveTables(files_')
    OBVIOUS
  <2>1. a \in Levels \X FileMetaData
    BY FileSetOf
  <2>2. a = <<a[1], a[2]>>
    BY <2>1
  <2>3. a[1] \in Levels /\ a[2] \in ToSet(fs[a[1]])
    BY <2>2, FileSetOf
  <2> DEFINE o == <<a[1], a[2].number>>
  <2>4. o \in Objects(fs) /\ o[2] = a[2].number
    BY <2>3, ObjectsOf
  <2> HIDE DEF o
  <2>5. o \in UNION {Objects(files_'[w]) : w \in Versions}
    BY <2>4
  <2> QED
    BY <2>4, <2>5 DEF LiveTables
<1>2. \A a \in F : a[2].number \in tables' /\ a[2].number < N
  BY <1>1 DEF SoundIn
<1>3. \A g \in written' : \/ g \in logs' /\ g >= L
                          \/ \E a \in F, k \in UserKeys : <<k, g>> \in a[2].data
  BY DEF SoundIn
<1>4. L < N /\ N <= next_file_number_'
  BY DEF SoundIn
<1> QED
  BY <1>2, <1>3, <1>4 DEF SoundIn

\* The same when recovery can find only the current version.
LEMMA DurableAfterRemoval ==
  ASSUME TypesInv, Durable, AsBefore, Settled, files_'[current_] = files_[current_],
         tables \cap LiveTables(files_') \subseteq tables',
         \A n \in logs : n >= log_number_ => n \in logs',
         UNCHANGED <<written, next_file_number_>>,
         manifest'[CURRENT'] = manifest[CURRENT], synced'[CURRENT'] = synced[CURRENT]
  PROVE  Durable'
<1> DEFINE recs == manifest[CURRENT]
           k == synced[CURRENT]
           N == ReadOf(recs, k).next
           F == FileSet(files_[current_])
<1>1. current_ \in Versions /\ files_[current_] \in [Levels -> Seq(FileMetaData)]
  BY DEF TypesInv, VersionsInv, Memory, WellFormed
<1>2. Len(recs) = k /\ k \in k .. Len(recs)
  BY Bounds DEF Settled
<1>3. ReadOf(recs, k).files = F /\ ReadOf(recs, k).log = log_number_
  BY DEF AsBefore, Reads
<1>4. SoundIn(F, log_number_, N, tables, logs, written, next_file_number_)
  BY <1>2, <1>3 DEF Durable, SoundAt, Sound
<1> HIDE DEF N, F
<1>5. SoundIn(F, log_number_, N, tables', logs', written', next_file_number_')
  BY <1>1, <1>4, SoundAfterRemoval DEF F
<1>6. \A n \in k .. Len(recs) : n = k
  BY <1>2, Bounds
<1>7. \A n \in k .. Len(recs) :
        SoundIn(ReadOf(recs, n).files, ReadOf(recs, n).log, ReadOf(recs, n).next,
                tables', logs', written', next_file_number_')
  BY <1>3, <1>5, <1>6 DEF N
<1> HIDE DEF recs, k
<1> QED
  BY <1>7 DEF Durable, SoundAt, Sound, recs, k

LEMMA InstallWhole ==
  ASSUME TypesInv, TypesInv', Whole, Install
  PROVE  Whole'
<1> DEFINE F == FileSet(files_[v])
           L == edit.log_number
           N == edit.next_file
           recs == manifest[New]
<1>1. LogOrder /\ PendingEdit /\ Durable /\ Phases /\ VersionsInv
  BY DEF Whole, TypesInv
<1>2. /\ pc = "install" /\ s = "OK" /\ pc' = "idle"
      /\ current_' = v /\ log_number_' = L
      /\ IF caller = "CompactMemtable" THEN imm_' = nullptr ELSE UNCHANGED <<imm_, imm_keys>>
      /\ \A n \in logs : n >= L => n \in logs'
      /\ tables \cap LiveTables(files_') \subseteq tables'
      /\ UNCHANGED <<next_file_number_, descriptor_file_, manifest, synced, CURRENT>>
      /\ UNCHANGED <<logfile_number_, written>>
  BY ReturnEffect DEF Install, AppendVersion
<1>3. descriptor_file_ /\ CURRENT = New /\ AsAfter /\ OldManifest /\ Len(recs) = synced[New]
  BY <1>1, <1>2 DEF Phases, Installing
<1>4. /\ Sound(F, L, N)
      /\ \/ caller # "CompactMemtable" /\ L = log_number_
         \/ caller = "CompactMemtable" /\ L = logfile_number_ /\ imm_ # nullptr /\ L > log_number_
  BY <1>1, <1>2 DEF PendingEdit
<1>5. v \in Versions /\ v # current_ /\ files_'[v] = files_[v] /\ files_[v] \in [Levels -> Seq(FileMetaData)]
  <2>1. v # nullptr /\ v \in Versions /\ refs_[v] = 0 /\ DOMAIN files_ = Versions /\ current_ \in Versions
        /\ files_[v] \in [Levels -> Seq(FileMetaData)]
    BY <1>1, <1>2 DEF VersionsInv, Memory, Vacant, WellFormed
  <2>2. v # current_
    BY <1>1, <2>1, ReferencedWhen
  <2>3. files_' = files_ \/ files_' = [files_ EXCEPT ![current_] = NoFiles]
    BY DEF Install, AppendVersion, UnrefVersion
  <2> QED
    BY <2>1, <2>2, <2>3
<1>6. LogOrder'
  <2>1. CASE caller # "CompactMemtable"
    BY <1>1, <1>2, <1>4, <2>1 DEF LogOrder
  <2>2. CASE caller = "CompactMemtable"
    <3>1. \A g \in written : g >= L => g = logfile_number_
      <4> SUFFICES ASSUME NEW g \in written, g >= L
                   PROVE  g = logfile_number_
        OBVIOUS
      <4>1. g \in Nat
        BY <1>1, LimitAssumption DEF LogOrder, Numbers
      <4>2. g >= log_number_
        BY <1>4, <2>2, <4>1, Bounds
      <4>3. g \in {imm_, logfile_number_} /\ imm_ < logfile_number_
        BY <1>1, <1>4, <2>2, <4>2 DEF LogOrder
      <4> QED
        BY <1>4, <2>2, <4>3, Bounds
    <3>2. imm_' = nullptr /\ log_number_' <= logfile_number_
      BY <1>2, <1>4, <2>2, Bounds
    <3>3. \A g \in written : g >= log_number_' => g \in {imm_', logfile_number_}
      BY <1>2, <3>1
    <3> QED
      BY <1>1, <1>2, <3>2, <3>3 DEF LogOrder
  <2> QED
    BY <2>1, <2>2
<1>7. PendingEdit'
  BY <1>2 DEF PendingEdit
<1>9. SoundIn(F, L, N, tables', logs', written', next_file_number_')
  <2>1. SoundIn(F, L, N, tables, logs, written, next_file_number_)
    BY <1>4 DEF Sound
  <2> HIDE DEF F, L, N
  <2> QED
    BY <1>2, <1>5, <2>1, SoundAfterRemoval DEF F
<1>10. SoundIn(ReadOf(recs, Len(recs)).files, ReadOf(recs, Len(recs)).log, ReadOf(recs, Len(recs)).next,
               tables', logs', written', next_file_number_')
  BY <1>3, <1>9 DEF AsAfter, Reads
<1>11. Durable'
  <2>1. \A n \in synced[New] .. Len(recs) : n = Len(recs)
    BY <1>3, Bounds, ManifestNames
  <2> HIDE DEF recs
  <2>2. \A n \in synced[New] .. Len(recs) :
          SoundIn(ReadOf(recs, n).files, ReadOf(recs, n).log, ReadOf(recs, n).next,
                  tables', logs', written', next_file_number_')
    BY <1>10, <2>1
  <2> QED
    BY <1>2, <1>3, <2>2 DEF Durable, SoundAt, Sound, recs
<1>12. AsBefore' /\ Settled' /\ OldManifest'
  BY <1>2, <1>3, <1>5 DEF AsBefore, AsAfter, Settled, OldManifest
<1>13. Phases'
  BY <1>2, <1>3, <1>12 DEF Phases, Idle, Running, Appending, Syncing, Naming, Installing, Failing
<1> QED
  BY <1>6, <1>7, <1>11, <1>13 DEF Whole

LEMMA AbandonWhole ==
  ASSUME TypesInv, TypesInv', Whole, Abandon
  PROVE  Whole'
<1>1. LogOrder /\ PendingEdit /\ Durable /\ Phases
  BY DEF Whole
<1>2. /\ pc = "install" /\ s # "OK" /\ pc' = "idle"
      /\ bg_error_' = (bg_error_ \/ s # "OK")
      /\ UNCHANGED <<current_, next_file_number_, log_number_, CURRENT, logfile_number_, written>>
      /\ UNCHANGED <<imm_, imm_keys>>
      /\ caller # "DoCompactionWork" => UNCHANGED <<tables, logs>>
      /\ compact' = (IF caller = "DoCompactionWork" THEN NoCompaction ELSE compact)
      /\ \A n \in logs : n >= log_number_ => n \in logs'
      /\ tables \cap LiveTables(files_') \subseteq tables'
  BY ReturnEffect, CallerEffect DEF Abandon
<1>3. OldManifest /\ AsBefore /\ (creating <=> CURRENT = Old) /\ (~creating => descriptor_file_)
  BY <1>1, <1>2 DEF Phases, Running
<1>4. /\ manifest'[Old] = manifest[Old] /\ synced'[Old] = synced[Old]
      /\ ~creating => manifest' = manifest /\ synced' = synced
  BY ManifestNames DEF Abandon, TypesInv, Rest
<1>5. manifest'[CURRENT'] = manifest[CURRENT] /\ synced'[CURRENT'] = synced[CURRENT]
  BY <1>2, <1>3, <1>4
<1>6. files_'[current_] = files_[current_]
  <2>1. v # nullptr /\ v \in Versions /\ refs_[v] = 0 /\ current_ \in Versions /\ VersionsInv
        /\ DOMAIN files_ = Versions
    BY <1>2 DEF TypesInv, VersionsInv, Memory, Vacant
  <2>2. v # current_
    BY <2>1, ReferencedWhen
  <2> QED
    BY <2>1, <2>2 DEF Abandon
<1>7. Working => Settled
  <2>1. CASE creating
    BY <1>3, <2>1 DEF OldManifest, Settled
  <2>2. CASE ~creating
    <3>1. CURRENT = New
      BY <1>3, <2>2, Bounds
    <3> QED
      BY <1>1, <1>2, <2>2, <3>1 DEF Phases, Failing, Settled
  <2> QED
    BY <2>1, <2>2
<1>8. Durable'
  <2>1. CASE caller # "DoCompactionWork"
    <3>1. Harmless
      BY <1>2, <2>1, Bounds DEF Harmless
    <3> QED
      BY <1>1, <1>5, <3>1, DurableKept
  <2>2. CASE caller = "DoCompactionWork"
    <3>1. Working
      BY <2>2 DEF TypesInv, WorkInv, Callers
    <3> QED
      BY <1>1, <1>2, <1>3, <1>5, <1>6, <1>7, <3>1, DurableAfterRemoval
  <2> QED
    BY <2>1, <2>2
<1>9. LogOrder' /\ PendingEdit'
  BY <1>1, <1>2 DEF LogOrder, PendingEdit
<1>10. OldManifest'
  BY <1>3, <1>4 DEF OldManifest
<1>11. Idle'
  <2> SUFFICES ASSUME Ready'
               PROVE  AsBefore' /\ Settled' /\ (descriptor_file_' <=> CURRENT' = New)
    BY DEF Idle
  <2>1. Working'
    BY <1>2 DEF Ready
  <2>2. Working
    BY <1>2, <2>1 DEF Working, NoCompaction
  <2>3. AsBefore' /\ Settled'
    BY <1>2, <1>3, <1>5, <1>6, <1>7, <2>2 DEF AsBefore, Settled
  <2>4. descriptor_file_' <=> CURRENT' = New
    BY <1>2, <1>3, Bounds, ManifestNames DEF Abandon
  <2> QED
    BY <2>3, <2>4
<1>12. Phases'
  BY <1>2, <1>10, <1>11 DEF Phases, Running, Appending, Syncing, Naming, Installing, Failing
<1> QED
  BY <1>8, <1>9, <1>12 DEF Whole

\* The steps of the work: a table more, or, when it fails, those that no live
\* version needs less.
LEMMA TableWhole ==
  ASSUME TypesInv, TypesInv', Whole, TableStep
  PROVE  Whole'
<1>1. LogOrder /\ PendingEdit /\ Durable /\ Phases
  BY DEF Whole
<1>2. /\ UNCHANGED <<current_, files_, log_number_, descriptor_file_, manifest, synced, CURRENT>>
      /\ UNCHANGED <<logfile_number_, imm_, imm_keys, written>>
      /\ UNCHANGED <<pc, edit, v, s, creating, caller>>
      /\ pc = "idle" /\ Ready
  BY TableEffect DEF Ready
<1>3. AsBefore /\ Settled
  BY <1>1, <1>2 DEF Phases, Idle
<1>4. Phases'
  BY <1>1, <1>2, PhasesKept
<1>5. PendingEdit'
  BY <1>2 DEF PendingEdit
<1>6. next_file_number_' \in {next_file_number_, next_file_number_ + 1}
  BY DEF TableStep, FlushFails, WorkFails, OpenOutput, PickCompaction, NewFileNumber
<1>7. LogOrder'
  <2>1. \A g \in written : g \in Nat
    BY <1>1, LimitAssumption DEF LogOrder, Numbers
  <2>2. \A g \in written : g < next_file_number_'
    BY <1>1, <1>6, <2>1, Bounds DEF LogOrder
  <2> QED
    BY <1>1, <1>2, <2>2 DEF LogOrder
<1>8. Durable'
  <2>1. CASE WorkFails
    <3>1. /\ logs' = {n \in logs : n >= log_number_} /\ next_file_number_' = next_file_number_
          /\ tables \cap LiveTables(files_') \subseteq tables'
      BY <2>1 DEF WorkFails, RemoveObsoleteFiles
    <3>2. \A n \in logs : n >= log_number_ => n \in logs'
      BY <3>1
    <3> QED
      BY <1>1, <1>2, <1>3, <3>1, <3>2, DurableAfterRemoval
  <2>2. CASE ~WorkFails
    <3>1. tables \subseteq tables' /\ logs' = logs
      BY <2>2 DEF TableStep, FlushFails, OpenOutput, PickCompaction, files
    <3>2. Harmless
      BY <1>2, <1>6, <3>1, Bounds DEF Harmless
    <3> QED
      BY <1>1, <1>2, <3>2, DurableKept
  <2> QED
    BY <2>1, <2>2
<1> QED
  BY <1>4, <1>5, <1>7, <1>8 DEF Whole

LEMMA WholeAtFirst == Init => Whole
<1> SUFFICES ASSUME Init
             PROVE  Whole
  OBVIOUS
<1> DEFINE x == FileSet(RecoveredFiles)
           r == [NoEdit EXCEPT !.new_files = x, !.next_file = 2]
<1>1. /\ current_ = 1 /\ files_ = [u \in Versions |-> IF u = 1 THEN RecoveredFiles ELSE NoFiles]
      /\ log_number_ = 0 /\ logfile_number_ = 2 /\ imm_ = nullptr /\ next_file_number_ = 3
      /\ CURRENT = Old /\ logs = {2} /\ written = {2} /\ pc = "idle" /\ descriptor_file_ = FALSE
      /\ manifest = [m \in {Old, New} |-> IF m = Old THEN <<r>> ELSE <<>>]
      /\ synced = [m \in {Old, New} |-> IF m = Old THEN 1 ELSE 0]
      /\ tables = {o[2] : o \in Objects(RecoveredFiles)}
  BY DEF Init
<1>2. /\ x \in SUBSET (Levels \X FileMetaData)
      /\ \A l, f : <<l, f>> \in x <=> l \in Levels /\ f \in ToSet(RecoveredFiles[l])
  BY FileSetOf, RecoveredVersion DEF WellFormed
<1>3. FileSet(files_[current_]) = x
  BY <1>1, VersionFacts
<1>4. \A a \in x : a[2].number = 1 /\ a[2].number \in tables
  <2> SUFFICES ASSUME NEW a \in x
               PROVE  a[2].number = 1 /\ a[2].number \in tables
    OBVIOUS
  <2>1. a = <<a[1], a[2]>>
    BY <1>2
  <2>2. a[1] \in Levels /\ a[2] \in ToSet(RecoveredFiles[a[1]])
    BY <1>2, <2>1
  <2>3. <<a[1], a[2].number>> \in Objects(RecoveredFiles) /\ a[2].number = 1
    BY <2>2, ObjectsOf, RecoveredVersion DEF WellFormed
  <2>4. <<a[1], a[2].number>>[2] = a[2].number
    OBVIOUS
  <2> QED
    BY <1>1, <2>3, <2>4
<1> HIDE DEF x
<1>5. r \in VersionEdits /\ r.new_files = x /\ r.deleted_files = {} /\ r.log_number = 0 /\ r.next_file = 2
  <2> DEFINE X == SUBSET (Levels \X FileMetaData)
             D == SUBSET (Levels \X Numbers)
  <2>1. x \in X /\ {} \in D
    BY <1>2
  <2>2. VersionEdits = [new_files : X, deleted_files : D, log_number : Nat, next_file : Nat]
    BY DEF VersionEdits
  <2> HIDE DEF X, D
  <2> QED
    BY <2>1, <2>2 DEF NoEdit
<1> HIDE DEF r
<1>6. manifest[Old] = <<r>> /\ synced[Old] = 1 /\ Len(<<r>>) = 1
  BY <1>1, ManifestNames
<1>7. /\ ReadOf(<<r>>, 1).files = x /\ ReadOf(<<r>>, 1).log = 0 /\ ReadOf(<<r>>, 1).next = 2
  <2>1. Nothing \in Findings /\ Nothing.files = {} /\ Nothing.log = 0
    BY DEF Nothing, Findings
  <2>2. ReadOf(<<r>>, 1) = ReplayStep(Nothing, r)
    BY <1>5, ReadOne
  <2>3. /\ ReplayStep(Nothing, r).files =
             {a \in Nothing.files : <<a[1], a[2].number>> \notin r.deleted_files} \cup r.new_files
        /\ ReplayStep(Nothing, r).log = (IF r.log_number = 0 THEN Nothing.log ELSE r.log_number)
        /\ ReplayStep(Nothing, r).next = (IF r.next_file = 0 THEN Nothing.next ELSE r.next_file)
    BY <1>5, <2>1, ReplayStepFields, Zenon
  <2>4. ReplayStep(Nothing, r).files = x
    BY <1>5, <2>1, <2>3
  <2>5. ReplayStep(Nothing, r).log = 0 /\ ReplayStep(Nothing, r).next = 2
    BY <1>5, <2>1, <2>3
  <2> QED
    BY <2>2, <2>4, <2>5
<1>8. LogOrder
  <2>1. 2 \in Numbers
    BY LimitAssumption DEF Numbers
  <2> QED
    BY <1>1, <2>1 DEF LogOrder
<1>9. SoundAt(<<r>>, 1)
  <2>1. SoundIn(x, 0, 2, tables, logs, written, next_file_number_)
    BY <1>1, <1>4 DEF SoundIn
  <2> QED
    BY <1>7, <2>1 DEF SoundAt, Sound
<1>10. Durable
  <2>1. \A n \in 1 .. 1 : SoundAt(<<r>>, n)
    BY <1>9
  <2> QED
    BY <1>1, <1>6, <2>1 DEF Durable
<1>11. PendingEdit
  BY <1>1 DEF PendingEdit
<1>12. AsBefore /\ Settled /\ OldManifest
  BY <1>1, <1>3, <1>6, <1>7 DEF AsBefore, Reads, Settled, OldManifest
<1>13. Phases
  BY <1>1, <1>12, ManifestNames
     DEF Phases, Idle, Running, Appending, Syncing, Naming, Installing, Failing
<1> QED
  BY <1>8, <1>10, <1>11, <1>13 DEF Whole

\* The counts of failed Syncs and of stray records only grow.
LEMMA LossesGrow ==
  ASSUME sync_faults \in Nat, strays \in Nat, VersionsInv, WorkInv, [Next]_vars
  PROVE  /\ sync_faults' \in Nat /\ strays' \in Nat
         /\ NoneLost' =>
              /\ NoneLost
              /\ SyncRecord => synced' = [synced EXCEPT ![New] = Len(manifest[New])]
              /\ AppendRecord => strays' = strays
         /\ MaxSyncFaults = 0 /\ MaxStrays = 0 /\ NoneLost => NoneLost'
<1>1. CASE SyncRecord
  <2>1. ~AppendRecord /\ UNCHANGED strays
    BY <1>1 DEF SyncRecord, AppendRecord
  <2>2. \/ synced' = [synced EXCEPT ![New] = Len(manifest[New])] /\ sync_faults' = sync_faults
        \/ sync_faults < MaxSyncFaults /\ sync_faults' = sync_faults + 1
    BY <1>1 DEF SyncRecord
  <2> QED
    BY <2>1, <2>2 DEF NoneLost
<1>2. CASE AppendRecord
  <2>1. ~SyncRecord /\ UNCHANGED sync_faults
    BY <1>2 DEF SyncRecord, AppendRecord
  <2>2. strays' = strays \/ (strays < MaxStrays /\ strays' = strays + 1)
    BY <1>2 DEF AppendRecord
  <2> QED
    BY <2>1, <2>2 DEF NoneLost
<1>3. CASE ~SyncRecord /\ ~AppendRecord
  <2>1. \A K : SwitchLog(K) => UNCHANGED <<sync_faults, strays>>
    BY DEF SwitchLog, counts
  <2>2. CallerStep => UNCHANGED <<sync_faults, strays>>
    BY DEF CallerStep, EditStep, LogAndApply
  <2>3. SetCurrentFile \/ Install \/ Abandon => UNCHANGED <<sync_faults, strays>>
    BY ReturnEffect DEF SetCurrentFile, Install, Abandon
  <2>4. Reading \/ TableStep => UNCHANGED <<sync_faults, strays>>
    BY TableEffect DEF Reading
  <2>5. UNCHANGED <<sync_faults, strays>>
    BY <1>3, <2>1, <2>2, <2>3, <2>4, StepKinds
  <2> QED
    BY <1>3, <2>5 DEF NoneLost
<1> QED
  BY <1>1, <1>2, <1>3

LEMMA WholeNext ==
  ASSUME TypesInv, TypesInv', Whole, [Next]_vars, strays \in Nat,
         SyncRecord => synced' = [synced EXCEPT ![New] = Len(manifest[New])],
         AppendRecord => strays' = strays
  PROVE  Whole'
<1>1. CASE CallerStep
  BY <1>1, CallerWhole DEF CallerStep
<1>2. ASSUME NEW K, SwitchLog(K)
      PROVE  Whole'
  BY <1>2, SwitchLogWhole
<1>3. CASE AppendRecord \/ SyncRecord
  BY <1>3, AppendWhole, SyncWhole
<1>4. CASE Reading \/ TableStep \/ SetCurrentFile \/ Install \/ Abandon
  BY <1>4, ReadingWhole, TableWhole, SetCurrentWhole, InstallWhole, AbandonWhole
<1> QED
  BY <1>1, <1>2, <1>3, <1>4, StepKinds DEF TypesInv

\* ManifestInv is an invariant: as long as no Sync of a manifest has failed and no
\* failed append of DoCompactionWork has left its record, the steps of LogAndApply
\* keep the manifest and the versions in memory together, with memtables compacted
\* and edits applied also after an error during DoCompactionWork.
THEOREM ManifestInvariant == Spec => []ManifestInv
<1>1. Init => ManifestInv
  <2>1. Init => sync_faults \in Nat /\ strays \in Nat
    BY DEF Init
  <2> QED
    BY <2>1, TypesOfInit, WholeAtFirst DEF ManifestInv
<1>2. ManifestInv /\ [Next]_vars => ManifestInv'
  <2> SUFFICES ASSUME ManifestInv, [Next]_vars
               PROVE  ManifestInv'
    OBVIOUS
  <2>0. VersionsInv /\ WorkInv /\ sync_faults \in Nat /\ strays \in Nat /\ TypesInv
    BY DEF ManifestInv, TypesInv
  <2>1. TypesInv' /\ sync_faults' \in Nat /\ strays' \in Nat
    BY <2>0, NextTypes, LossesGrow
  <2>2. NoneLost' => Whole'
    BY <2>0, <2>1, LossesGrow, WholeNext DEF ManifestInv
  <2> QED
    BY <2>1, <2>2 DEF ManifestInv
<1> QED
  BY <1>1, <1>2, PTL DEF Spec

\* After a crash at any moment, recovery finds every table it needs and loses no
\* log, unless the Sync of a record has failed, whose status LogAndApply does not
\* look at, or DoCompactionWork went on to RemoveObsoleteFiles after an append that
\* failed and left its record.
THEOREM RecoveryFindsAll == Spec => [](NoneLost => RecoverySound)
<1>1. ManifestInv => (NoneLost => RecoverySound)
  <2> SUFFICES ASSUME ManifestInv, NoneLost,
                      NEW n \in synced[CURRENT] .. Len(manifest[CURRENT])
               PROVE  LET found == Replay(CURRENT, n) IN
                      /\ \A a \in found.files : a[2].number \in tables
                      /\ \A g \in written : \/ g \in logs /\ g >= found.log
                                            \/ \E a \in found.files, k \in UserKeys : <<k, g>> \in a[2].data
    BY DEF RecoverySound
  <2>1. SoundAt(manifest[CURRENT], n)
    BY DEF ManifestInv, Whole, Durable
  <2>2. Replay(CURRENT, n) = ReadOf(manifest[CURRENT], n)
    BY ReplayIs
  <2> QED
    BY <2>1, <2>2 DEF SoundAt, Sound, SoundIn
<1> QED
  BY <1>1, ManifestInvariant, PTL

\* The assertions of LogAndApply about the log number of an edit hold, and the
\* next file number that recovery reads is beyond every number it reads with it,
\* under the same condition.
THEOREM NumbersGrow == Spec => [](NoneLost => NumbersSound)
<1>1. ManifestInv => (NoneLost => NumbersSound)
  <2> SUFFICES ASSUME ManifestInv, NoneLost
               PROVE  NumbersSound
    OBVIOUS
  <2>1. PendingEdit /\ Durable /\ TypesInv
    BY DEF ManifestInv, Whole
  <2>2. pc = "append" => log_number_ <= edit.log_number /\ edit.log_number < edit.next_file
    BY <2>1, Bounds DEF PendingEdit, Sound, SoundIn
  <2>3. ASSUME NEW n \in synced[CURRENT] .. Len(manifest[CURRENT])
        PROVE  LET found == Replay(CURRENT, n) IN
               /\ found.log < found.next
               /\ \A a \in found.files : a[2].number < found.next
    <3>1. SoundAt(manifest[CURRENT], n)
      BY <2>1 DEF Durable
    <3>2. Replay(CURRENT, n) = ReadOf(manifest[CURRENT], n)
      BY ReplayIs
    <3> QED
      BY <3>1, <3>2 DEF SoundAt, Sound, SoundIn
  <2> QED
    BY <2>2, <2>3 DEF NumbersSound
<1> QED
  BY <1>1, ManifestInvariant, PTL

-----------------------------------------------------------------------------
(* LogAndApply implements AtomicEdits *)

\* The variables of AtomicEdits: the files of the current version, those after
\* the edit in progress, and what recovery may find.
Files == FileSet(files_[current_])
Waiting == IF pc = "idle" THEN {} ELSE {FileSet(files_[v])}
FoundIn(recs, k) == {ReadOf(recs, n).files : n \in k .. Len(recs)}
Found == FoundIn(manifest[CURRENT], synced[CURRENT])

\* The steps of AtomicEdits, in the terms of the version set.
EditBegins ==
  /\ Waiting = {} /\ Found = {Files}
  /\ \E next \in Waiting' : Waiting' = {next}
  /\ Files' = Files /\ Found' = Found
EditWritten ==
  /\ Waiting # {}
  /\ Found' = Found \cup Waiting \/ Found' = Waiting
  /\ Files' = Files /\ Waiting' = Waiting
EditCommits ==
  /\ Waiting # {} /\ Found = Waiting
  /\ Files' \in Waiting /\ Waiting' = {}
  /\ Found' = Found
EditFails ==
  /\ Waiting # {}
  /\ Waiting' = {}
  /\ Files' = Files /\ Found' = Found
NoEditStep == Files' = Files /\ Waiting' = Waiting /\ Found' = Found
AtomicStep == EditBegins \/ EditWritten \/ EditCommits \/ EditFails \/ NoEditStep

LEMMA FoundSame ==
  manifest'[CURRENT'] = manifest[CURRENT] /\ synced'[CURRENT'] = synced[CURRENT] => Found' = Found
BY DEF Found

\* With everything synced, recovery finds one thing.
LEMMA FoundOne ==
  ASSUME NEW recs, NEW k \in Nat, Len(recs) = k
  PROVE  FoundIn(recs, k) = {ReadOf(recs, k).files}
<1>1. k .. Len(recs) = {k}
  OBVIOUS
<1> QED
  BY <1>1 DEF FoundIn

\* The files of the current version stay while it is current.
LEMMA FilesStay ==
  ASSUME TypesInv, pc # "idle"
  PROVE  v \in Versions /\ v # current_ /\ current_ \in Versions /\ DOMAIN files_ = Versions
<1>1. VersionsInv /\ v # nullptr /\ v \in Versions /\ refs_[v] = 0 /\ current_ \in Versions /\ DOMAIN files_ = Versions
  BY DEF TypesInv, VersionsInv, Memory, Vacant
<1> QED
  BY <1>1, ReferencedWhen

LEMMA CallerAtomic ==
  ASSUME TypesInv, Whole, NEW e, NEW t, NEW f, EditStep(e, t, f), Carries(e, f)
  PROVE  EditBegins
<1>1. Phases /\ VersionsInv
  BY DEF Whole, TypesInv
<1>2. /\ pc = "idle" /\ Ready /\ pc' = "append"
      /\ manifest' = manifest \/ (~descriptor_file_ /\ manifest' = [manifest EXCEPT ![New] = <<WriteSnapshot>>])
      /\ UNCHANGED <<current_, synced, CURRENT>>
  <2>1. LogAndApply(e, caller') /\ descriptor_file_ \in BOOLEAN /\ pc = "idle" /\ Ready
    BY DEF EditStep, TypesInv, Rest, Carries, Ready
  <2> QED
    BY <2>1, BeginEffect
<1>3. (descriptor_file_ <=> CURRENT = New) /\ AsBefore /\ Settled
  BY <1>1, <1>2 DEF Phases, Idle
<1>8. Found = {Files}
  BY <1>3, FoundOne, Bounds DEF Found, Files, AsBefore, Reads, Settled
<1>4. manifest'[CURRENT] = manifest[CURRENT]
  BY <1>2, <1>3, ManifestNames DEF TypesInv, Rest
<1>5. Found' = Found
  BY <1>2, <1>4, FoundSame
<1>6. Files' = Files
  <2>1. /\ v' \in Versions /\ v' # current_ /\ current_ \in Versions /\ DOMAIN files_ = Versions
        /\ files_' = [files_ EXCEPT ![v'] = ApplyEdit(files_[current_], e)]
    BY <1>1, EditStepInv DEF VersionsInv, Memory
  <2>2. files_'[current_] = files_[current_]
    BY <2>1
  <2> QED
    BY <1>2, <2>2 DEF Files
<1>7. Waiting = {} /\ Waiting' = {FileSet(files_'[v'])}
  BY <1>2 DEF Waiting
<1> QED
  BY <1>5, <1>6, <1>7, <1>8 DEF EditBegins

LEMMA AppendAtomic ==
  ASSUME TypesInv, Whole, AppendRecord
  PROVE  EditWritten \/ NoEditStep
<1> DEFINE recs == manifest[New]
           more == Append(recs, edit)
<1>1. Running /\ Appending
  BY DEF Whole, Phases
<1>2. /\ pc = "append" /\ pc' \in {"sync", "install"}
      /\ UNCHANGED <<current_, files_, v, synced, CURRENT>>
      /\ manifest' = manifest \/ (s = "OK" /\ manifest' = [manifest EXCEPT ![New] = Append(@, edit)])
  BY DEF AppendRecord, memory, files
<1>3. Files' = Files /\ Waiting' = Waiting /\ Waiting = {FileSet(files_[v])}
  BY <1>2 DEF Files, Waiting
<1>4. manifest \in [{Old, New} -> Seq(VersionEdits)] /\ edit \in VersionEdits /\ CURRENT \in {Old, New}
  BY DEF TypesInv, Rest
<1>5. CASE manifest' = manifest \/ CURRENT = Old
  <2>1. manifest'[CURRENT] = manifest[CURRENT]
    BY <1>2, <1>4, <1>5, ManifestNames
  <2>2. Found' = Found
    BY <1>2, <2>1, FoundSame
  <2> QED
    BY <1>2, <1>3, <2>2 DEF NoEditStep
<1>6. CASE CURRENT = New /\ s = "OK" /\ manifest' = [manifest EXCEPT ![New] = Append(@, edit)]
  <2>1. manifest'[New] = more /\ recs \in Seq(VersionEdits)
    BY <1>4, <1>6, ManifestNames
  <2>2. Len(more) = Len(recs) + 1 /\ Len(recs) \in Nat /\ Len(recs) = synced[New]
    BY <1>1, <1>2, <1>4, <1>6, <2>1, Appended DEF Appending, Settled
  <2>3. ReadOf(more, Len(recs)) = ReadOf(recs, Len(recs))
    <3>1. Len(recs) \in 0 .. Len(recs)
      BY <2>2
    <3> QED
      BY <1>4, <2>1, <3>1, ReadAppended
  <2>4. ReadOf(more, Len(recs) + 1).files = FileSet(files_[v])
    BY <1>2, <1>6, AfterAppend DEF Reads
  <2>5. Found = {ReadOf(recs, Len(recs)).files}
    BY <1>2, <1>6, <2>2, FoundOne DEF Found
  <2>6. Found' = {ReadOf(more, n).files : n \in Len(recs) .. (Len(recs) + 1)}
    BY <1>2, <1>6, <2>1, <2>2 DEF Found, FoundIn
  <2> HIDE DEF more, recs
  <2>7. Len(recs) .. (Len(recs) + 1) = {Len(recs), Len(recs) + 1}
    BY <2>2
  <2>8. Found' = Found \cup Waiting
    BY <1>3, <2>3, <2>4, <2>5, <2>6, <2>7
  <2> QED
    BY <1>2, <1>3, <2>8 DEF EditWritten
<1> QED
  BY <1>2, <1>4, <1>5, <1>6

LEMMA SyncAtomic ==
  ASSUME TypesInv, TypesInv', Whole, SyncRecord,
         synced' = [synced EXCEPT ![New] = Len(manifest[New])]
  PROVE  EditWritten \/ NoEditStep
<1>1. Running /\ Syncing
  BY DEF Whole, Phases
<1>2. /\ pc = "sync" /\ pc' \in {"current", "install"}
      /\ UNCHANGED <<current_, files_, v, manifest, CURRENT>>
  BY DEF SyncRecord, memory, locals
<1>3. Files' = Files /\ Waiting' = Waiting /\ Waiting = {FileSet(files_[v])}
  BY <1>2 DEF Files, Waiting
<1>4. synced'[New] = Len(manifest[New]) /\ synced'[Old] = synced[Old] /\ CURRENT \in {Old, New}
  BY ManifestNames DEF TypesInv, Rest
<1>5. CASE CURRENT = Old
  <2>1. Found' = Found
    BY <1>2, <1>4, <1>5, FoundSame
  <2> QED
    BY <1>2, <1>3, <2>1 DEF NoEditStep
<1>6. CASE CURRENT = New
  <2>1. manifest'[CURRENT'] = manifest[New] /\ synced'[CURRENT'] = Len(manifest[New]) /\ Len(manifest[New]) \in Nat
    BY <1>2, <1>4, <1>6, Bounds
  <2>2. Found' = {ReadOf(manifest[New], Len(manifest[New])).files}
    BY <2>1, FoundOne DEF Found
  <2>3. ReadOf(manifest[New], Len(manifest[New])).files = FileSet(files_[v])
    BY <1>1, <1>2 DEF Syncing, AsAfter, Reads
  <2>4. Found' = Waiting
    BY <1>3, <2>2, <2>3
  <2> QED
    BY <1>2, <1>3, <2>4 DEF EditWritten
<1> QED
  BY <1>4, <1>5, <1>6

LEMMA SetCurrentAtomic ==
  ASSUME TypesInv, TypesInv', Whole, SetCurrentFile
  PROVE  EditWritten \/ NoEditStep
<1>1. Naming
  BY DEF Whole, Phases
<1>2. /\ pc = "current" /\ pc' = "install"
      /\ UNCHANGED <<current_, files_, v, manifest, synced>>
      /\ CURRENT' = CURRENT \/ CURRENT' = New
  BY DEF SetCurrentFile, memory
<1>3. Files' = Files /\ Waiting' = Waiting /\ Waiting = {FileSet(files_[v])}
  BY <1>2 DEF Files, Waiting
<1>4. CASE CURRENT' = CURRENT
  <2>1. Found' = Found
    BY <1>2, <1>4, FoundSame
  <2> QED
    BY <1>2, <1>3, <2>1 DEF NoEditStep
<1>5. CASE CURRENT' = New
  <2>1. manifest'[CURRENT'] = manifest[New] /\ synced'[CURRENT'] = synced[New]
        /\ Len(manifest[New]) = synced[New] /\ synced[New] \in Nat
    BY <1>1, <1>2, <1>5, Bounds, ManifestNames DEF Naming
  <2>2. Found' = {ReadOf(manifest[New], synced[New]).files}
    BY <2>1, FoundOne DEF Found
  <2>3. ReadOf(manifest[New], synced[New]).files = FileSet(files_[v])
    BY <1>1, <1>2 DEF Naming, AsAfter, Reads
  <2>4. Found' = Waiting
    BY <1>3, <2>2, <2>3
  <2> QED
    BY <1>2, <1>3, <2>4 DEF EditWritten
<1> QED
  BY <1>2, <1>4, <1>5

LEMMA InstallAtomic ==
  ASSUME TypesInv, TypesInv', Whole, Install
  PROVE  EditCommits
<1>1. Installing
  BY DEF Whole, Phases
<1>2. /\ pc = "install" /\ s = "OK" /\ pc' = "idle" /\ current_' = v
      /\ UNCHANGED <<manifest, synced, CURRENT>>
      /\ files_' = files_ \/ files_' = [files_ EXCEPT ![current_] = NoFiles]
  BY ReturnEffect DEF Install, AppendVersion, UnrefVersion
<1>3. files_'[v] = files_[v]
  BY <1>2, FilesStay
<1>4. Waiting = {FileSet(files_[v])} /\ Waiting' = {} /\ Files' = FileSet(files_[v])
  BY <1>2, <1>3 DEF Waiting, Files
<1>5. Settled /\ CURRENT = New
  BY <1>1, <1>2 DEF Installing, Settled
<1>6. ReadOf(manifest[New], synced[New]).files = FileSet(files_[v])
  BY <1>1, <1>2 DEF Installing, AsAfter, Reads
<1>7. Found = Waiting
  BY <1>4, <1>5, <1>6, FoundOne, Bounds DEF Found, Settled
<1>8. Found' = Found
  BY <1>2, FoundSame
<1> QED
  BY <1>2, <1>4, <1>7, <1>8 DEF EditCommits

LEMMA AbandonAtomic ==
  ASSUME TypesInv, Whole, Abandon
  PROVE  EditFails
<1>1. Running
  BY DEF Whole, Phases
<1>2. /\ pc = "install" /\ s # "OK" /\ pc' = "idle"
      /\ UNCHANGED <<current_, CURRENT>> /\ files_' = [files_ EXCEPT ![v] = NoFiles]
  BY ReturnEffect DEF Abandon
<1>3. creating <=> CURRENT = Old
  BY <1>1, <1>2 DEF Running
<1>4. /\ manifest'[Old] = manifest[Old] /\ synced'[Old] = synced[Old]
      /\ ~creating => manifest' = manifest /\ synced' = synced
  BY ManifestNames DEF Abandon, TypesInv, Rest
<1>5. Found' = Found
  <2>1. manifest'[CURRENT'] = manifest[CURRENT] /\ synced'[CURRENT'] = synced[CURRENT]
    BY <1>2, <1>3, <1>4
  <2> QED
    BY <2>1, FoundSame
<1>6. Files' = Files
  <2>1. files_'[current_] = files_[current_]
    BY <1>2, FilesStay
  <2> QED
    BY <1>2, <2>1 DEF Files
<1>7. Waiting # {} /\ Waiting' = {}
  BY <1>2 DEF Waiting
<1> QED
  BY <1>2, <1>5, <1>6, <1>7 DEF EditFails

LEMMA QuietAtomic ==
  ASSUME TypesInv, Reading \/ TableStep \/ \E K : SwitchLog(K)
  PROVE  NoEditStep
<1>1. /\ UNCHANGED <<current_, manifest, synced, CURRENT, pc, v>>
      /\ files_'[current_] = files_[current_] /\ (v # nullptr => files_'[v] = files_[v])
  BY TableEffect DEF Reading, SwitchLog, memory, disk, locals
<1>2. pc # "idle" => v # nullptr
  BY DEF TypesInv, VersionsInv, Vacant
<1>3. Files' = Files /\ Waiting' = Waiting
  BY <1>1, <1>2 DEF Files, Waiting
<1>4. Found' = Found
  BY <1>1, FoundSame
<1> QED
  BY <1>1, <1>3, <1>4 DEF NoEditStep

LEMMA NextAtomic ==
  ASSUME TypesInv, TypesInv', Whole, [Next]_vars,
         SyncRecord => synced' = [synced EXCEPT ![New] = Len(manifest[New])]
  PROVE  AtomicStep
<1>1. CASE CallerStep
  BY <1>1, CallerAtomic DEF CallerStep, AtomicStep
<1>2. CASE ~CallerStep
  <2>1. \/ Reading \/ TableStep \/ \E K : SwitchLog(K)
        \/ AppendRecord \/ SyncRecord \/ SetCurrentFile \/ Install \/ Abandon
    BY <1>2, StepKinds DEF TypesInv
  <2> QED
    BY <2>1, QuietAtomic, AppendAtomic, SyncAtomic, SetCurrentAtomic, InstallAtomic, AbandonAtomic
       DEF AtomicStep
<1> QED
  BY <1>1, <1>2

LEMMA DurableFiles ==
  {Replay(CURRENT, n).files : n \in synced[CURRENT] .. Len(manifest[CURRENT])} = Found
BY ReplayIs DEF Found, FoundIn

LEMMA AtomicInit ==
  ASSUME TypesInv, Whole, Init
  PROVE  Edits!Init
<1>1. pc = "idle" /\ bg_error_ = FALSE
  BY DEF Init
<1>2. AsBefore /\ Settled
  BY <1>1 DEF Whole, Phases, Idle, Ready
<1>3. Found = {Files}
  BY <1>2, FoundOne, Bounds DEF Found, Files, AsBefore, Reads, Settled
<1> QED
  BY <1>1, <1>3, DurableFiles DEF Edits!Init, Files

LEMMA AtomicNext ==
  ASSUME AtomicStep
  PROVE  [Edits!Next]_(Edits!vars)
<1>1. /\ {Replay(CURRENT, n).files : n \in synced[CURRENT] .. Len(manifest[CURRENT])} = Found
      /\ {Replay(CURRENT, n).files : n \in synced[CURRENT] .. Len(manifest[CURRENT])}' = Found'
  BY DEF Replay, ReadOf, Found, FoundIn
<1>2. EditBegins => Edits!Begin
  BY <1>1 DEF EditBegins, Edits!Begin, Files, Waiting
<1>3. EditWritten => Edits!Write
  BY <1>1 DEF EditWritten, Edits!Write, Files, Waiting
<1>4. EditCommits => Edits!Commit
  BY <1>1 DEF EditCommits, Edits!Commit, Files, Waiting
<1>5. EditFails => Edits!Fail
  BY <1>1 DEF EditFails, Edits!Fail, Files, Waiting
<1>6. NoEditStep => UNCHANGED Edits!vars
  BY <1>1 DEF NoEditStep, Edits!vars, Files, Waiting
<1> QED
  BY <1>2, <1>3, <1>4, <1>5, <1>6 DEF AtomicStep, Edits!Next

\* LogAndApply applies an edit as a whole, also across a crash, and another follows
\* only when a crash would find the files that memory has, if no Sync of a manifest
\* fails and DoCompactionWork leaves no record whose append failed.
THEOREM EditsAreAtomic ==
  ASSUME MaxSyncFaults = 0, MaxStrays = 0 PROVE Spec => LogAndApplyAtomic
<1> DEFINE I == TypesInv /\ Whole /\ sync_faults = 0 /\ strays = 0
<1>1. Init => I
  <2>1. Init => sync_faults = 0 /\ strays = 0
    BY DEF Init
  <2> QED
    BY <2>1, TypesOfInit, WholeAtFirst
<1>2. I /\ [Next]_vars => I' /\ AtomicStep
  <2> SUFFICES ASSUME TypesInv, Whole, sync_faults = 0, strays = 0, [Next]_vars
               PROVE  I' /\ AtomicStep
    OBVIOUS
  <2>0. VersionsInv /\ WorkInv /\ NoneLost
    BY DEF TypesInv, NoneLost
  <2>1. TypesInv'
    BY NextTypes
  <2>2. /\ NoneLost' /\ (AppendRecord => strays' = strays)
        /\ SyncRecord => synced' = [synced EXCEPT ![New] = Len(manifest[New])]
    BY <2>0, LossesGrow
  <2>3. Whole'
    BY <2>1, <2>2, WholeNext
  <2>4. sync_faults' = 0 /\ strays' = 0
    BY <2>2 DEF NoneLost
  <2> QED
    BY <2>1, <2>2, <2>3, <2>4, NextAtomic
<1>3. I /\ [Next]_vars => [Edits!Next]_(Edits!vars)
  BY <1>2, AtomicNext
<1>4. Init => Edits!Init
  BY <1>1, AtomicInit
<1>5. I /\ [Next]_vars => I'
  BY <1>2
<1> QED
  BY <1>1, <1>3, <1>4, <1>5, PTL DEF Spec, LogAndApplyAtomic, Edits!Spec
=============================================================================

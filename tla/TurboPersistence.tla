-------------------------- MODULE TurboPersistence --------------------------
(***************************************************************************)
(* turbopack/crates/turbo-persistence: the key-value store under           *)
(* Turbopack's persistent cache. Data lives in immutable, numbered files   *)
(* (sst, meta, blob, del); the file CURRENT names the last number that     *)
(* counts. A write batch or a compaction writes files numbered above       *)
(* CURRENT, syncs them, publishes them in memory, records the files it     *)
(* made superfluous in a .del file, advances CURRENT and only then removes *)
(* those files. Opening the directory finishes or undoes what a crash      *)
(* interrupted.                                                            *)
(*                                                                         *)
(* A key stands for its hash, so Keys are numbers and a file's hash range  *)
(* is the range of its keys. Block layout, compression and filters (AMQF)  *)
(* are left out; where they influence a choice (which keys of a merge are  *)
(* cold, where an output file is split, which jobs the size limits allow)  *)
(* the choice is nondeterministic.                                         *)
(***************************************************************************)
EXTENDS Naturals, FiniteSets, SstFilter, MergePlan

CONSTANTS Families,    \* key families
          Keys,        \* key hashes
          Values,      \* values
          LargeValues, \* the values above MAX_MEDIUM_VALUE_SIZE, kept in blob files
          Deleted,     \* the tombstone
          Absent,      \* what get returns for a key that has no value
          Torn,        \* content of a CURRENT file that was created but not written
          NoCurrent,   \* no CURRENT file
          MaxSeq,      \* bound on sequence numbers
          MaxJobs,     \* bound on max_merge_segment_count
          MaxBatchFiles, \* bound on the blob and SST files of one batch
          MaxLive,     \* bound on the SST files a batch adds to
          Crashes,     \* whether the process crashes and write operations fail
          ReadOnlyOpens \* whether the directory is also opened read-only

ASSUME KeysAssumption == Keys \subseteq Nat
ASSUME ValuesAssumption == /\ LargeValues \subseteq Values /\ Deleted \notin Values /\ Absent \notin Values
                         /\ \A v \in Values \cup {Deleted} : v \notin [blob : Nat]
ASSUME CurrentAssumption == Torn \notin Nat /\ NoCurrent \notin Nat /\ Torn # NoCurrent
ASSUME BoundsAssumption == MaxSeq \in Nat /\ MaxJobs \in Nat /\ MaxBatchFiles \in Nat /\ MaxLive \in Nat
                         /\ Crashes \in BOOLEAN /\ ReadOnlyOpens \in BOOLEAN

VARIABLES disk,       \* the directory: what each number's file holds
          synced,     \* the files whose content is known to be on stable storage
          CURRENT,    \* the CURRENT file as the operating system shows it
          stable,     \* the CURRENT file as a power loss would leave it
          meta_files, \* Inner::meta_files: the open meta files; the Vec is in number order
          current_sequence_number, \* Inner::current_sequence_number
          active_write_operation,  \* TurboPersistence::active_write_operation
          read_only,  \* TurboPersistence::read_only
          proc,       \* the process: "down", "init", "recover" or "open"
          todo,       \* files load_directory has still to remove
          stage,      \* how far the write operation has come
          next_seq,   \* the write operation's sequence number counter
          new_files,  \* files the write operation has created
          new_ssts,   \* per family: SST files for its next meta file, with their place in it
          jobs,       \* per family: the merge jobs a compaction has still to run
          obsolete,   \* per family: the SST files the compaction merges away
          to_delete   \* files the commit will remove

disk_vars == <<disk, synced, CURRENT, stable>>
db_vars == <<meta_files, current_sequence_number, active_write_operation, read_only>>
writer_vars == <<stage, next_seq, new_files, new_ssts, jobs, obsolete, to_delete>>
vars == <<disk_vars, db_vars, proc, todo, writer_vars>>

-----------------------------------------------------------------------------
(* Files *)

Seqs == 1..MaxSeq
EmptyFunction == [x \in {} |-> x]

\* What an SST file holds for a key: a value, a tombstone, or the number of a blob file.
Entries == Values \cup {Deleted} \cup [blob : Seqs]

IsPartialFunction(f, S, T) == DOMAIN f \subseteq S /\ f \in [DOMAIN f -> T]

\* A meta file lists SST files with their place in its entries: a batch appends them as they are
\* created, a compaction job by job. The outputs of one job share a place: their keys are disjoint.
NoFile == [kind |-> "none"]
SstFile(x) == /\ x \in [kind : {"sst"}, family : Families, rows : {x.rows}]
              /\ IsPartialFunction(x.rows, Keys, Entries)
MetaFile(x) == /\ x \in [kind : {"meta"}, family : Families, ssts : {x.ssts}, obsolete : SUBSET Seqs]
               /\ IsPartialFunction(x.ssts, Seqs, Nat)
BlobFile(x) == x \in [kind : {"blob"}, value : LargeValues]
DelFile(x) == x \in [kind : {"del"}, dead : SUBSET Seqs]

Exists(s) == disk[s].kind # "none"
IsKind(s, kind) == s \in Seqs /\ disk[s].kind = kind
Rows(s) == IF IsKind(s, "sst") THEN disk[s].rows ELSE EmptyFunction
Present == {s \in Seqs : Exists(s)}

\* An open meta file: what the file lists, and the entries it still offers (an SstFilter takes some).
OpenedMeta(x) ==
  /\ x \in [seq : Seqs, family : Families, ssts : {x.ssts}, live : SUBSET DOMAIN x.ssts, obsolete : SUBSET Seqs]
  /\ IsPartialFunction(x.ssts, Seqs, Nat)
Opened(m) == [seq |-> m, family |-> disk[m].family, ssts |-> disk[m].ssts,
              live |-> DOMAIN disk[m].ssts, obsolete |-> disk[m].obsolete]

-----------------------------------------------------------------------------
(* Loading *)

\* Some .del file up to number cur lists s.
IsDead(s, cur) == \E d \in Seqs : d <= cur /\ IsKind(d, "del") /\ s \in disk[d].dead

\* load_directory, once the directory is read: the meta files a database at number cur consists of.
Load(cur) ==
  Filter({Opened(m) : m \in {m \in Seqs : m <= cur /\ IsKind(m, "meta") /\ ~IsDead(m, cur)}})

-----------------------------------------------------------------------------
(* Reading *)

\* The places a reader may find key k of family f in, and the order it looks in: newest meta file first,
\* last entry first.
Slots(metas, f, k) ==
  {slot \in metas \X Seqs : slot[1].family = f /\ slot[2] \in slot[1].live /\ k \in DOMAIN Rows(slot[2])}
Newer(a, b) ==
  a[1].seq > b[1].seq \/ (a[1].seq = b[1].seq /\ a[1].ssts[a[2]] >= b[1].ssts[b[2]])

BlobValue(b) == IF IsKind(b, "blob") THEN disk[b].value ELSE Absent
Resolve(entry) ==
  IF entry = Deleted THEN Absent ELSE IF entry \in Values THEN entry ELSE BlobValue(entry.blob)

Get(metas, f, k) ==
  CHOOSE v \in Values \cup {Absent} :
    \E slots \in {Slots(metas, f, k)} :
      IF slots = {} THEN v = Absent
      ELSE \E a \in slots : (\A b \in slots : Newer(a, b)) /\ v = Resolve(Rows(a[2])[k])

View(metas) == [f \in Families |-> [k \in Keys |-> Get(metas, f, k)]]

-----------------------------------------------------------------------------
(* Initial state and helpers of the actions *)

\* There is no write operation.
NoWriter ==
  /\ stage' = "idle"
  /\ next_seq' = 0
  /\ new_files' = {}
  /\ new_ssts' = [f \in Families |-> EmptyFunction]
  /\ jobs' = [f \in Families |-> EmptyFunction]
  /\ obsolete' = [f \in Families |-> {}]
  /\ to_delete' = {}

Init ==
  /\ disk = [s \in Seqs |-> NoFile]
  /\ synced = {}
  /\ CURRENT = NoCurrent
  /\ stable = NoCurrent
  /\ meta_files = {}
  /\ current_sequence_number = 0
  /\ active_write_operation = FALSE
  /\ read_only = FALSE
  /\ proc = "down"
  /\ todo = {}
  /\ stage = "idle"
  /\ next_seq = 0
  /\ new_files = {}
  /\ new_ssts = [f \in Families |-> EmptyFunction]
  /\ jobs = [f \in Families |-> EmptyFunction]
  /\ obsolete = [f \in Families |-> {}]
  /\ to_delete = {}

\* The write operation creates the file with the next sequence number. The bound MaxSeq must leave room
\* for the files that have to follow.
CreateFile(content, room) ==
  /\ next_seq + room < MaxSeq
  /\ next_seq' = next_seq + 1
  /\ disk' = [disk EXCEPT ![next_seq + 1] = content]
  /\ synced' = synced \ {next_seq + 1}
  /\ new_files' = new_files \cup {next_seq + 1}

-----------------------------------------------------------------------------
(* Opening, for reading and writing or (ro) for reading only. The read-only open passes                     *)
(* read_only = false to open_directory, so it creates and cleans up like any other.                        *)

\* init_directory creates CURRENT ...
InitCreate(ro) ==
  /\ proc = "down" /\ CURRENT = NoCurrent
  /\ ro => ReadOnlyOpens
  /\ read_only' = ro
  /\ CURRENT' = Torn /\ stable' = Torn
  /\ proc' = "init"
  /\ UNCHANGED <<disk, synced, meta_files, current_sequence_number, active_write_operation, todo, writer_vars>>

\* ... and writes 0 into it; the database is open with no meta files.
InitWrite ==
  /\ proc = "init"
  /\ CURRENT' = 0 /\ stable' = 0
  /\ proc' = "open"
  /\ UNCHANGED <<disk, synced, db_vars, todo, writer_vars>>

\* Mutant: recovery follows the .del files only.
LeftoversBelowCurrent ==
  {s \in Present : IsDead(s, CURRENT)}
    \cup {d \in Present : d <= CURRENT /\ IsKind(d, "del") /\ disk[d].dead \cap Present = {}}

\* What load_directory removes: files above CURRENT, files a .del file lists, and .del files none of
\* whose files is left.
Leftovers ==
  {s \in Present : s > CURRENT}
    \cup {s \in Present : IsDead(s, CURRENT)}
    \cup {d \in Present : d <= CURRENT /\ IsKind(d, "del") /\ disk[d].dead \cap Present = {}}

\* load_directory reads CURRENT and the directory. A Torn CURRENT makes every open fail.
OpenStart(ro) ==
  /\ proc = "down" /\ CURRENT \in Nat
  /\ ro => ReadOnlyOpens
  /\ read_only' = ro
  /\ todo' = Leftovers
  /\ proc' = "recover"
  /\ UNCHANGED <<disk_vars, meta_files, current_sequence_number, active_write_operation, writer_vars>>

RecoverRemove(s) ==
  /\ proc = "recover" /\ s \in todo
  /\ disk' = [disk EXCEPT ![s] = NoFile]
  /\ synced' = synced \ {s}
  /\ todo' = todo \ {s}
  /\ UNCHANGED <<CURRENT, stable, db_vars, proc, writer_vars>>

OpenFinish ==
  /\ proc = "recover" /\ todo = {}
  /\ meta_files' = Load(CURRENT)
  /\ current_sequence_number' = CURRENT
  /\ proc' = "open"
  /\ UNCHANGED <<disk_vars, active_write_operation, read_only, todo, writer_vars>>

-----------------------------------------------------------------------------
(* Write batch *)

\* The compare_exchange of write_batch and compact; both refuse on a read-only database.
AcquireWrite ==
  /\ proc = "open" /\ ~read_only
  /\ ~active_write_operation
  /\ active_write_operation' = TRUE
  /\ next_seq' = current_sequence_number

BeginBatch ==
  /\ AcquireWrite
  /\ stage' = "batch"
  /\ UNCHANGED <<disk_vars, meta_files, current_sequence_number, read_only, proc, todo,
                 new_files, new_ssts, jobs, obsolete, to_delete>>

\* The SST files on offer in family f and in all.
Live(f) == UNION {m.live : m \in {m \in meta_files : m.family = f}}
AllLive == UNION {Live(f) : f \in Families}
BatchHasRoom == Cardinality(new_files) < MaxBatchFiles /\ Cardinality(new_files \cup AllLive) < MaxLive

\* put of a large value writes the value to a blob file at once ...
CreateBlob(v) ==
  /\ stage = "batch" /\ BatchHasRoom
  /\ CreateFile([kind |-> "blob", value |-> v], 2)
  /\ UNCHANGED <<CURRENT, stable, db_vars, proc, todo, stage, new_ssts, jobs, obsolete, to_delete>>

\* ... and its entry is collected. The blobs whose entry is not in an SST file yet:
BlobsOf(rows) == {b \in Seqs : \E k \in DOMAIN rows : rows[k] = [blob |-> b]}
UnreferencedBlobs ==
  {b \in new_files : IsKind(b, "blob") /\ \A s \in new_files : b \notin BlobsOf(Rows(s))}

\* A full or flushed collector becomes an SST file (create_sst_file), which joins its family's meta
\* collector. One put creates one blob, so a blob stands for at most one key.
WriteSst(f, rows) ==
  /\ stage = "batch" /\ BatchHasRoom
  /\ DOMAIN rows # {}
  /\ \A j, k \in DOMAIN rows : j # k /\ rows[j] = rows[k] => rows[j] \in Values \cup {Deleted}
  /\ CreateFile([kind |-> "sst", family |-> f, rows |-> rows], 1)
  /\ new_ssts' = [new_ssts EXCEPT ![f] =
                    [s \in DOMAIN @ \cup {next_seq + 1} |-> IF s \in DOMAIN @ THEN @[s] ELSE s]]
  /\ UNCHANGED <<CURRENT, stable, db_vars, proc, todo, stage, jobs, obsolete, to_delete>>

BatchRows ==
  UNION {[D -> (Values \ LargeValues) \cup {Deleted} \cup [blob : UnreferencedBlobs]] : D \in SUBSET Keys}

\* commit_write_batch: no more puts; finish writes the meta files.
FinishBatch ==
  /\ stage = "batch"
  /\ stage' = "metas"
  /\ UNCHANGED <<disk_vars, db_vars, proc, todo, next_seq, new_files, new_ssts, jobs, obsolete, to_delete>>

-----------------------------------------------------------------------------
(* Compaction *)

\* The range test of the selector, and the order SST files are read in.
Overlap(s, t) ==
  /\ \E i \in DOMAIN Rows(s), j \in DOMAIN Rows(t) : i <= j
  /\ \E i \in DOMAIN Rows(s), j \in DOMAIN Rows(t) : i >= j
Older(s, t) ==
  \E m, n \in meta_files : /\ s \in m.live /\ t \in n.live
                            /\ \/ m.seq < n.seq
                               \/ m.seq = n.seq /\ m.ssts[s] < n.ssts[t]

\* A compaction that finds nothing to merge takes and returns the flag and changes nothing else.
BeginCompact(plan) ==
  /\ AcquireWrite
  /\ \A f \in Families :
       LET pairs == Live(f) \X Live(f)
       IN LegalPlan(plan, Live(f), {p \in pairs : Older(p[1], p[2])}, {p \in pairs : Overlap(p[1], p[2])})
  /\ \E s \in DOMAIN plan : plan[s] > 0
  /\ current_sequence_number + 2 < MaxSeq
  /\ stage' = "metas"
  /\ jobs' = [f \in Families |->
                [j \in {plan[s] : s \in Live(f)} \ {0} |-> {s \in Live(f) : plan[s] = j}]]
  /\ obsolete' = [f \in Families |->
                {s \in Live(f) : plan[s] > 0 /\ \E t \in Live(f) : t # s /\ plan[t] = plan[s]}]
  /\ UNCHANGED <<disk_vars, meta_files, current_sequence_number, read_only, proc, todo,
                 new_files, new_ssts, to_delete>>

\* Mutant: the oldest entry wins.
MergedOldest(inputs) ==
  [k \in UNION {DOMAIN Rows(s) : s \in inputs} |->
     Rows(CHOOSE s \in inputs : /\ k \in DOMAIN Rows(s)
                                /\ \A t \in inputs : t # s /\ k \in DOMAIN Rows(t) => Older(s, t))[k]]

\* Merging keeps, for each key, the entry of the newest input (MergeIter and the duplicate removal).
Merged(inputs) ==
  [k \in UNION {DOMAIN Rows(s) : s \in inputs} |->
     Rows(CHOOSE s \in inputs : /\ k \in DOMAIN Rows(s)
                                /\ \A t \in inputs : t # s /\ k \in DOMAIN Rows(t) => Older(t, s))[k]]

Collect(f, placed) ==
  new_ssts' = [new_ssts EXCEPT ![f] =
                 [s \in DOMAIN @ \cup DOMAIN placed |-> IF s \in DOMAIN @ THEN @[s] ELSE placed[s]]]
EndJob(f, j) == jobs' = [jobs EXCEPT ![f] = [i \in DOMAIN @ \ {j} |-> @[i]]]

\* A job of one SST file keeps the file and gives it an entry in the new meta file.
MoveSst(f, j, s) ==
  /\ stage = "metas" /\ j \in DOMAIN jobs[f] /\ jobs[f][j] = {s}
  /\ Collect(f, [t \in {s} |-> j])
  /\ EndJob(f, j)
  /\ UNCHANGED <<disk_vars, db_vars, proc, todo, stage, next_seq, new_files, obsolete, to_delete>>

\* A job of several writes the merged entries to one file, or to two with different keys.
MergeSsts(f, j, first) ==
  LET rows == Merged(jobs[f][j])
      part == [k \in first |-> rows[k]]
      rest == [k \in DOMAIN rows \ first |-> rows[k]]
      sst(r) == [kind |-> "sst", family |-> f, rows |-> r]
      one == next_seq + 1
      files == IF rest = EmptyFunction THEN {one} ELSE {one, one + 1}
  IN
  /\ stage = "metas" /\ j \in DOMAIN jobs[f] /\ \E s, t \in jobs[f][j] : s # t
  /\ first # {} /\ first \subseteq DOMAIN rows
  /\ files \subseteq 1..(MaxSeq - 2)
  /\ next_seq' = IF rest = EmptyFunction THEN one ELSE one + 1
  /\ disk' = [s \in Seqs |-> IF s \notin files THEN disk[s] ELSE IF s = one THEN sst(part) ELSE sst(rest)]
  /\ synced' = synced \ files
  /\ new_files' = new_files \cup files
  /\ Collect(f, [s \in files |-> j])
  /\ EndJob(f, j)
  /\ UNCHANGED <<CURRENT, stable, db_vars, proc, todo, stage, obsolete, to_delete>>

-----------------------------------------------------------------------------
(* Commit, for both kinds of write operation *)

\* The meta file of a family that has new SST files and no job left to run.
WriteMeta(f) ==
  /\ stage = "metas" /\ jobs[f] = EmptyFunction /\ new_ssts[f] # EmptyFunction
  /\ CreateFile([kind |-> "meta", family |-> f, ssts |-> new_ssts[f], obsolete |-> obsolete[f]], 0)
  /\ new_ssts' = [new_ssts EXCEPT ![f] = EmptyFunction]
  /\ UNCHANGED <<CURRENT, stable, db_vars, proc, todo, stage, jobs, obsolete, to_delete>>

\* Mutant: SST and blob files are not synced.
SyncMetasOnly ==
  /\ stage = "metas"
  /\ \A f \in Families : jobs[f] = EmptyFunction /\ new_ssts[f] = EmptyFunction
  /\ synced' = synced \cup {m \in new_files : IsKind(m, "meta")}
  /\ stage' = "publish"
  /\ UNCHANGED <<disk, CURRENT, stable, db_vars, proc, todo, next_seq, new_files, new_ssts, jobs, obsolete,
                 to_delete>>

\* commit syncs the meta, SST and blob files.
SyncFiles ==
  /\ stage = "metas"
  /\ \A f \in Families : jobs[f] = EmptyFunction /\ new_ssts[f] = EmptyFunction
  /\ synced' = synced \cup new_files
  /\ stage' = "publish"
  /\ UNCHANGED <<disk, CURRENT, stable, db_vars, proc, todo, next_seq, new_files, new_ssts, jobs, obsolete,
                 to_delete>>

\* The number CURRENT will hold: the .del file, if there is one, takes a number of its own.
NextCurrentAlwaysBumped(doomed) == next_seq + 1      \* Mutant
NextCurrentNeverBumped(doomed) == next_seq           \* Mutant
NextCurrent(doomed) == IF doomed = {} THEN next_seq ELSE next_seq + 1

\* What retain leaves in Inner::meta_files.
RetainAll(metas, removed) == metas                   \* Mutant
Retain(metas, removed) == metas \ removed

\* Under the write lock of Inner: filter the meta files, add the new ones, take out the superfluous ones,
\* advance the sequence number (once more when there are files to delete).
Publish ==
  LET added == {Opened(m) : m \in {m \in new_files : IsKind(m, "meta")}}
      filtered == Filter(meta_files \cup added)
      removed == {m \in filtered : Removable(filtered, m)}
      doomed == {m.seq : m \in removed} \cup UNION {obsolete[f] : f \in Families}
  IN
  /\ stage = "publish"
  /\ meta_files' = Retain(filtered, removed)
  /\ to_delete' = doomed
  /\ doomed # {} => next_seq < MaxSeq
  /\ current_sequence_number' = NextCurrent(doomed)
  /\ stage' = IF doomed = {} THEN "current" ELSE "del"
  /\ UNCHANGED <<disk_vars, active_write_operation, read_only, proc, todo,
                 next_seq, new_files, new_ssts, jobs, obsolete>>

\* The .del file, written and synced.
WriteDel ==
  /\ stage = "del"
  /\ disk' = [disk EXCEPT ![current_sequence_number] = [kind |-> "del", dead |-> to_delete]]
  /\ synced' = synced \cup {current_sequence_number}
  /\ stage' = "current"
  /\ UNCHANGED <<CURRENT, stable, db_vars, proc, todo, next_seq, new_files, new_ssts, jobs, obsolete, to_delete>>

\* Mutant: CURRENT is not synced before files are removed.
WriteCurrentOnly ==
  /\ stage = "current"
  /\ CURRENT' = current_sequence_number
  /\ stage' = "remove"
  /\ UNCHANGED <<disk, synced, stable, db_vars, proc, todo, next_seq, new_files, new_ssts, jobs, obsolete, to_delete>>

WriteCurrent ==
  /\ stage = "current"
  /\ CURRENT' = current_sequence_number
  /\ stage' = "sync_current"
  /\ UNCHANGED <<disk, synced, stable, db_vars, proc, todo, next_seq, new_files, new_ssts, jobs, obsolete, to_delete>>

SyncCurrent ==
  /\ stage = "sync_current"
  /\ stable' = CURRENT
  /\ stage' = "remove"
  /\ UNCHANGED <<disk, synced, CURRENT, db_vars, proc, todo, next_seq, new_files, new_ssts, jobs, obsolete,
                 to_delete>>

\* SST files go before meta files, each kind in number order.
RemoveFile(s) ==
  /\ stage = "remove" /\ s \in to_delete
  /\ \A t \in to_delete : IF disk[t].kind = disk[s].kind THEN s <= t ELSE disk[s].kind = "sst"
  /\ disk' = [disk EXCEPT ![s] = NoFile]
  /\ synced' = synced \ {s}
  /\ to_delete' = to_delete \ {s}
  /\ UNCHANGED <<CURRENT, stable, db_vars, proc, todo, stage, next_seq, new_files, new_ssts, jobs, obsolete>>

\* The flag is returned only here: on success.
CommitDone ==
  /\ stage = "remove" /\ to_delete = {}
  /\ active_write_operation' = FALSE
  /\ NoWriter
  /\ UNCHANGED <<disk_vars, meta_files, current_sequence_number, read_only, proc, todo>>

-----------------------------------------------------------------------------
(* Failures *)

\* An I/O error leaves the write operation through "?", or its owner drops the batch: nothing is undone
\* and active_write_operation stays set.
Fail ==
  /\ Crashes
  /\ stage \notin {"idle", "publish", "failed"}
  /\ stage' = "failed"
  /\ new_files' = {} /\ to_delete' = {}
  /\ new_ssts' = [f \in Families |-> EmptyFunction]
  /\ jobs' = [f \in Families |-> EmptyFunction]
  /\ obsolete' = [f \in Families |-> {}]
  /\ UNCHANGED <<disk_vars, db_vars, proc, todo, next_seq>>

\* The process or the machine stops. Files never synced may be gone; CURRENT is as last written or as last synced.
Crash ==
  /\ Crashes
  /\ proc # "down"
  /\ \E lost \in SUBSET (Present \ synced) :
       /\ disk' = [s \in Seqs |-> IF s \in lost THEN NoFile ELSE disk[s]]
       /\ synced' = Present \ lost
  /\ CURRENT' \in {CURRENT, stable}
  /\ stable' = CURRENT'
  /\ meta_files' = {}
  /\ current_sequence_number' = 0
  /\ active_write_operation' = FALSE
  /\ read_only' = FALSE
  /\ proc' = "down"
  /\ todo' = {}
  /\ NoWriter

-----------------------------------------------------------------------------

Opening == (\E ro \in BOOLEAN : InitCreate(ro) \/ OpenStart(ro)) \/ InitWrite
             \/ (\E s \in Seqs : RecoverRemove(s)) \/ OpenFinish
Batching == BeginBatch \/ (\E v \in LargeValues : CreateBlob(v))
             \/ (\E f \in Families, rows \in BatchRows : WriteSst(f, rows)) \/ FinishBatch
Compacting ==
  \/ \E plan \in [AllLive -> 0..MaxJobs] : BeginCompact(plan)
  \/ \E f \in Families, j \in 1..MaxJobs :
       \/ \E s \in Seqs : MoveSst(f, j, s)
       \/ \E first \in SUBSET Keys : MergeSsts(f, j, first)
Committing == (\E f \in Families : WriteMeta(f)) \/ SyncFiles \/ Publish \/ WriteDel \/ WriteCurrent
             \/ SyncCurrent \/ (\E s \in Seqs : RemoveFile(s)) \/ CommitDone

Next == Opening \/ Batching \/ Compacting \/ Committing \/ Fail \/ Crash

Spec == Init /\ [][Next]_vars

-----------------------------------------------------------------------------
(* Properties *)

\* Every variable has its type.
TypeOK ==
  /\ disk = [s \in Seqs |-> disk[s]]
  /\ \A s \in Seqs : \/ disk[s] = NoFile
                     \/ disk[s].kind = "sst" /\ SstFile(disk[s])
                     \/ disk[s].kind = "meta" /\ MetaFile(disk[s])
                     \/ disk[s].kind = "blob" /\ BlobFile(disk[s])
                     \/ disk[s].kind = "del" /\ DelFile(disk[s])
  /\ synced \subseteq Seqs
  /\ CURRENT \in Nat \cup {Torn, NoCurrent}
  /\ stable \in Nat \cup {Torn, NoCurrent}
  /\ \A m \in meta_files : OpenedMeta(m)
  /\ current_sequence_number \in 0..MaxSeq
  /\ active_write_operation \in BOOLEAN
  /\ read_only \in BOOLEAN
  /\ proc \in {"down", "init", "recover", "open"}
  /\ todo \subseteq Seqs
  /\ stage \in {"idle", "batch", "metas", "publish", "del", "current", "sync_current", "remove", "failed"}
  /\ next_seq \in 0..MaxSeq
  /\ new_files \subseteq Seqs
  /\ new_ssts = [f \in Families |-> new_ssts[f]]
  /\ jobs = [f \in Families |-> jobs[f]]
  /\ \A f \in Families : /\ IsPartialFunction(new_ssts[f], Seqs, Nat)
                        /\ IsPartialFunction(jobs[f], 1..MaxJobs, SUBSET Seqs)
  /\ obsolete \in [Families -> SUBSET Seqs]
  /\ to_delete \subseteq Seqs

\* Whatever CURRENT counts is on stable storage: the commit syncs its files and the .del file before it
\* writes CURRENT, and recovery never leaves an unsynced file below CURRENT.
CurrentFilesSynced ==
  \A cur \in {CURRENT, stable} \cap Nat : \A s \in Present : s <= cur => s \in synced

\* A set of open meta files is intact: each SST file they offer exists, with the family they give it, and
\* so does each blob file these SST files name.
Intact(metas) ==
  \A m \in metas : \A s \in m.live :
    /\ IsKind(s, "sst") /\ disk[s].family = m.family
    /\ \A b \in BlobsOf(Rows(s)) : IsKind(b, "blob")

\* A reader, who opens SST and blob files lazily, never meets a file that a commit has removed.
ReadersFindFiles == Intact(meta_files)

\* However far a commit or a recovery has come, the database a restart would load is intact -- from CURRENT
\* as written and from CURRENT as last synced.
RestartFindsFiles == \A cur \in {CURRENT, stable} \cap Nat : Intact(Load(cur))

\* fs::remove_file fails on a missing file: what a durable commit has still to remove is there.
RemovalsExist == stage \in {"sync_current", "remove"} => to_delete \subseteq Present

\* Between write operations no SST or meta file is left behind: each one on disk is on offer.
NothingLeftBehind ==
  proc = "open" /\ stage = "idle" =>
    \A s \in Present :
      /\ IsKind(s, "sst") => \E f \in Families : s \in Live(f)
      /\ IsKind(s, "meta") => \E m \in meta_files : m.seq = s

\* No file is ever overwritten: a number is used again only after its file has been removed. (File caches
\* are keyed by number, and File::create would truncate.)
NoOverwrite == [][\A s \in Seqs : Exists(s) => disk'[s] \in {disk[s], NoFile}]_vars

\* What a compaction publishes reads exactly as what it found, whichever SST files it merged, moved and
\* left alone.
CompactionKeepsReads ==
  [][stage = "publish" /\ proc' = "open" /\ (\E f \in Families : obsolete[f] # {})
       => View(meta_files') = View(meta_files)]_vars

-----------------------------------------------------------------------------
(* The store it implements *)

Durable == IF stable \in Nat THEN View(Load(stable)) ELSE View({})

\* What a batch has collected in SST files, over what is visible; a compaction changes nothing.
PendingView ==
  [f \in Families |-> [k \in Keys |->
     LET ssts == {s \in new_files : IsKind(s, "sst") /\ disk[s].family = f /\ k \in DOMAIN Rows(s)}
     IN IF ssts = {} \/ (\E g \in Families : obsolete[g] # {})
        THEN Get(meta_files, f, k)
        ELSE Resolve(Rows(CHOOSE s \in ssts : \A t \in ssts : t <= s)[k])]]

Writing == stage \in {"batch", "metas", "publish"}

KV == INSTANCE KVStore WITH
  durable <- Durable,
  visible <- View(meta_files),
  pending <- IF Writing THEN PendingView ELSE View(meta_files),
  stage <- IF proc # "open" THEN "closed"
           ELSE IF stage = "idle" THEN "idle"
           ELSE IF stage = "failed" THEN "broken"
           ELSE IF stage = "batch" THEN "writing"
           ELSE IF Writing THEN "sealed" ELSE "published"

\* Commits are atomic, reads see the last committed state, and a crash at any step of a batch, a
\* compaction, a commit or a recovery loses and invents nothing.
ImplementsKVStore == KV!KVSpec
=============================================================================

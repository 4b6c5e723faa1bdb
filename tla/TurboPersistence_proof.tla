------------------------ MODULE TurboPersistence_proof ------------------------
(***************************************************************************)
(* Proofs about TurboPersistence, for every set of families, keys and      *)
(* values and every bound: what CURRENT counts is on stable storage; no    *)
(* file is ever overwritten; wherever a process stops, a restart finds     *)
(* every file it needs; readers never lose a file; removals never fail on  *)
(* a missing file; nothing is left behind; every variable has its type; a  *)
(* compaction keeps every read; and the store implements KVStore: commits  *)
(* are atomic, reads see the last committed state, and a crash loses and   *)
(* invents nothing.                                                        *)
(*                                                                         *)
(* The first part, with the invariant Inv, is about numbers and syncs. The *)
(* second is about a directory d, a function from numbers to files like    *)
(* the variable disk: what Filter makes of its meta files, when it is      *)
(* Sound, and why a commit that adds meta files and drops the superfluous  *)
(* ones leaves it so (CommitSound). The third is the inductive invariant,  *)
(* RecoveryInv, and the fourth shows that each action keeps it. The fifth  *)
(* says what a read of a directory returns, the entry of the newest SST    *)
(* file that holds the key, the sixth strengthens RecoveryInv by what a    *)
(* write operation is about to make of each key (Meaning), and the last    *)
(* maps each step to a step of KVStore.                                    *)
(***************************************************************************)
EXTENDS TurboPersistence, TLAPS, FiniteSetTheorems, WellFoundedInduction

-----------------------------------------------------------------------------
(* Natural numbers and finite sets *)

NatLess == {p \in Nat \X Nat : p[1] < p[2]}

LEMMA Minimum ==
  ASSUME NEW T, T \subseteq Nat, T # {}
  PROVE  \E x \in T : \A y \in T : x <= y
<1>1. IsWellFoundedOn(NatLess, Nat)
  BY NatLessThanWellFounded DEF NatLess, OpToRel
<1>2. PICK x \in T : \A y \in T : ~(<<y, x>> \in NatLess)
  BY <1>1, WFMin
<1>3. ASSUME NEW y \in T, ~(x <= y) PROVE FALSE
  <2>1. <<y, x>> \in NatLess
    BY <1>3 DEF NatLess
  <2> QED
    BY <1>2, <2>1
<1> QED
  BY <1>3

LEMMA Maximum ==
  ASSUME NEW T, T \subseteq Nat, T # {}, NEW b \in Nat, \A x \in T : x <= b
  PROVE  \E x \in T : \A y \in T : y <= x
<1> DEFINE Gaps == {b - x : x \in T}
<1>1. Gaps \subseteq Nat /\ Gaps # {}
  <2>1. \A x \in T : b - x \in Nat
    OBVIOUS
  <2> QED
    BY <2>1
<1>2. PICK g \in Gaps : \A h \in Gaps : g <= h
  BY <1>1, Minimum
<1>3. PICK x \in T : g = b - x
  OBVIOUS
<1>4. ASSUME NEW y \in T PROVE y <= x
  <2>1. b - y \in Gaps
    OBVIOUS
  <2> QED
    BY <1>2, <1>3, <2>1
<1> QED
  BY <1>4

LEMMA Maximal ==
  ASSUME NEW T, IsFiniteSet(T), T # {}, NEW R,
         \A x \in T : <<x, x>> \notin R,
         \A x, y, z \in T : <<x, y>> \in R /\ <<y, z>> \in R => <<x, z>> \in R
  PROVE  \E x \in T : \A y \in T : <<x, y>> \notin R
<1> DEFINE Above(x) == {y \in T : <<x, y>> \in R}
           Sizes == {Cardinality(Above(x)) : x \in T}
<1>1. \A x \in T : IsFiniteSet(Above(x)) /\ Cardinality(Above(x)) \in Nat
  BY FS_Subset, FS_CardinalityType
<1>2. PICK n \in Sizes : \A m \in Sizes : n <= m
  <2>1. Sizes \subseteq Nat /\ Sizes # {}
    <3> HIDE DEF Above
    <3> QED
      BY <1>1
  <2> HIDE DEF Sizes
  <2> QED
    BY <2>1, Minimum
<1>3. PICK x \in T : n = Cardinality(Above(x))
  OBVIOUS
<1>4. ASSUME NEW y \in T, <<x, y>> \in R PROVE FALSE
  <2>1. Above(y) \subseteq Above(x) /\ y \in Above(x) /\ y \notin Above(y)
    BY <1>4
  <2>2. Cardinality(Above(y)) <= Cardinality(Above(x)) /\ Cardinality(Above(y)) # Cardinality(Above(x))
    BY <1>1, <2>1, FS_Subset
  <2>3. Cardinality(Above(x)) <= Cardinality(Above(y))
    <3>1. Cardinality(Above(y)) \in Sizes
      OBVIOUS
    <3> HIDE DEF Sizes, Above
    <3> QED
      BY <3>1, <1>2, <1>3
  <2> QED
    BY <1>1, <2>2, <2>3
<1> QED
  BY <1>4

-----------------------------------------------------------------------------
(* Numbers and syncs *)

Stages == {"idle", "batch", "metas", "publish", "del", "current", "sync_current", "remove", "failed"}

\* The part of the types the argument needs.
Typed ==
  /\ disk = [s \in Seqs |-> disk[s]]
  /\ CURRENT \in Nat \cup {Torn, NoCurrent}
  /\ stable \in Nat \cup {Torn, NoCurrent}
  /\ current_sequence_number \in Nat
  /\ next_seq \in Nat
  /\ proc \in {"down", "init", "recover", "open"}
  /\ stage \in Stages

\* How the process, its writer and the three copies of the current number depend on each other. Only during a
\* commit do they differ; after a failure nothing is known but that there is no other writer.
Control ==
  /\ proc # "open" => stage = "idle" /\ ~active_write_operation
  /\ stage # "idle" => active_write_operation
  /\ proc # "open" => stable = CURRENT
  /\ proc \in {"recover", "open"} => CURRENT \in Nat /\ stable \in Nat
  /\ proc \in {"down", "init"} => current_sequence_number = 0
  /\ proc = "open" /\ stage \in {"idle", "batch", "metas", "publish"} =>
       CURRENT = current_sequence_number /\ stable = current_sequence_number
  /\ stage \in {"sync_current", "remove"} => CURRENT = current_sequence_number
  /\ stage = "remove" => stable = current_sequence_number

\* Where numbers are that have a file: below the next number of a writer, and below CURRENT when there is none.
Numbered ==
  /\ NoCurrent \in {CURRENT, stable} => Present = {}
  /\ proc = "init" => Present = {}
  /\ proc = "recover" => \A s \in Present : s > CURRENT => s \in todo
  /\ proc = "open" /\ stage = "idle" => \A s \in Present : s <= current_sequence_number
  /\ stage \in {"batch", "metas", "publish"} =>
       current_sequence_number <= next_seq /\ \A s \in Present : s <= next_seq
  /\ stage = "del" => \A s \in Present : s < current_sequence_number
  /\ stage \in {"current", "sync_current", "remove"} => \A s \in Present : s <= current_sequence_number

\* Only a writer that has not reached its sync, or failed before it, leaves unsynced files, all of them above CURRENT.
Flushed ==
  /\ stage \notin {"batch", "metas", "failed"} => Present \subseteq synced
  /\ stage \in {"batch", "metas"} =>
       \A s \in Present : s \notin synced => s \in new_files /\ s > current_sequence_number
  /\ stage = "failed" => CurrentFilesSynced

Inv == Typed /\ Control /\ Numbered /\ Flushed

USE BoundsAssumption DEF Stages, Seqs, NoFile, Present, Exists

LEMMA InitInv == Init => Inv
BY DEF Init, Inv, Typed, Control, Numbered, Flushed

LEMMA SyncedInv == Inv => CurrentFilesSynced
BY DEF Inv, Typed, Control, Flushed, CurrentFilesSynced

LEMMA OpeningInv == Inv /\ Opening => Inv'
<1> SUFFICES ASSUME Inv, Opening PROVE Inv'
  OBVIOUS
<1> USE DEF Inv, Typed, Control, Numbered, Flushed, disk_vars, db_vars, writer_vars
<1>1. ASSUME NEW ro \in BOOLEAN, InitCreate(ro) PROVE Inv'
  BY <1>1 DEF InitCreate
<1>2. CASE InitWrite
  BY <1>2 DEF InitWrite
<1>3. ASSUME NEW ro \in BOOLEAN, OpenStart(ro) PROVE Inv'
  BY <1>3 DEF OpenStart, Leftovers
<1>4. ASSUME NEW s \in Seqs, RecoverRemove(s) PROVE Inv'
  BY <1>4 DEF RecoverRemove
<1>5. CASE OpenFinish
  BY <1>5, CurrentAssumption DEF OpenFinish
<1> QED
  BY <1>1, <1>2, <1>3, <1>4, <1>5 DEF Opening

\* One new file with the next number, neither synced nor counted yet.
LEMMA CreateFileInv ==
  ASSUME Inv, stage \in {"batch", "metas"}, NEW content, NEW room \in Nat, content.kind # "none",
         CreateFile(content, room), UNCHANGED <<CURRENT, stable, db_vars, proc, todo, stage>>
  PROVE  Inv'
<1> USE DEF Inv, Typed, Control, Numbered, Flushed, db_vars, CreateFile
<1>0. disk' = [s \in Seqs |-> IF s = next_seq + 1 THEN content ELSE disk[s]]
  OBVIOUS
<1>1. Typed' /\ Control'
  <2>1. disk' = [s \in Seqs |-> disk'[s]]
    BY <1>0
  <2>2. next_seq' \in Nat /\ UNCHANGED <<CURRENT, stable, current_sequence_number, proc, stage>>
    OBVIOUS
  <2>3. Typed'
    BY <2>1, <2>2 DEF Typed
  <2>4. Control'
    OBVIOUS
  <2> QED
    BY <2>3, <2>4
<1>2. \A s \in Seqs : Exists(s)' => Exists(s) \/ s = next_seq + 1
  OBVIOUS
<1>3. Numbered'
  BY <1>2, CurrentAssumption
<1>4. Flushed'
  BY <1>2
<1> QED
  BY <1>1, <1>3, <1>4

LEMMA BatchingInv == Inv /\ Batching => Inv'
<1> SUFFICES ASSUME Inv, Batching PROVE Inv'
  OBVIOUS
<1>1. CASE BeginBatch
  BY <1>1, CurrentAssumption DEF BeginBatch, AcquireWrite, Inv, Typed, Control, Numbered, Flushed, disk_vars
<1>2. ASSUME NEW v \in LargeValues, CreateBlob(v) PROVE Inv'
  BY <1>2, CreateFileInv DEF CreateBlob
<1>3. ASSUME NEW f \in Families, NEW rows, WriteSst(f, rows) PROVE Inv'
  BY <1>3, CreateFileInv DEF WriteSst
<1>4. CASE FinishBatch
  BY <1>4 DEF FinishBatch, Inv, Typed, Control, Numbered, Flushed, disk_vars, db_vars
<1> QED
  BY <1>1, <1>2, <1>3, <1>4 DEF Batching

LEMMA CompactingInv == Inv /\ Compacting => Inv'
<1> SUFFICES ASSUME Inv, Compacting PROVE Inv'
  OBVIOUS
<1> USE DEF Inv, Typed, Control, Numbered, Flushed
<1>1. ASSUME NEW plan, BeginCompact(plan) PROVE Inv'
  BY <1>1, CurrentAssumption DEF BeginCompact, AcquireWrite, disk_vars
<1>2. ASSUME NEW f, NEW j, NEW s, MoveSst(f, j, s) PROVE Inv'
  BY <1>2 DEF MoveSst, disk_vars, db_vars
<1>3. ASSUME NEW f, NEW j, NEW first, MergeSsts(f, j, first) PROVE Inv'
  <2>1. PICK files : /\ \/ files = {next_seq + 1} /\ next_seq' = next_seq + 1
                        \/ files = {next_seq + 1, next_seq + 2} /\ next_seq' = next_seq + 2
                     /\ \A s \in Seqs : s \notin files => disk'[s] = disk[s]
                     /\ synced' = synced \ files
                     /\ new_files' = new_files \cup files
    <3> DEFINE one == next_seq + 1
               rows == Merged(jobs[f][j])
               rest == [k \in DOMAIN rows \ first |-> rows[k]]
               outputs == IF rest = EmptyFunction THEN {one} ELSE {one, one + 1}
    <3>1. next_seq' = IF rest = EmptyFunction THEN one ELSE one + 1
      BY <1>3 DEF MergeSsts
    <3>2. /\ \A s \in Seqs : s \notin outputs => disk'[s] = disk[s]
          /\ synced' = synced \ outputs
          /\ new_files' = new_files \cup outputs
      BY <1>3 DEF MergeSsts
    <3>3. one + 1 = next_seq + 2
      OBVIOUS
    <3>4. \/ outputs = {next_seq + 1} /\ next_seq' = next_seq + 1
          \/ outputs = {next_seq + 1, next_seq + 2} /\ next_seq' = next_seq + 2
      BY <3>1, <3>3
    <3> HIDE DEF outputs
    <3> WITNESS outputs
    <3> QED
      BY <3>2, <3>4
  <2>2. disk' = [s \in Seqs |-> disk'[s]]
    BY <1>3 DEF MergeSsts
  <2>3. stage = "metas" /\ UNCHANGED <<CURRENT, stable, db_vars, proc, todo, stage>>
    BY <1>3 DEF MergeSsts
  <2>4. \A s \in Seqs : Exists(s)' => Exists(s) \/ s \in files
    BY <2>1
  <2>5. Typed' /\ Control'
    BY <2>1, <2>2, <2>3 DEF db_vars
  <2>6. Numbered'
    BY <2>1, <2>3, <2>4, CurrentAssumption DEF db_vars
  <2>7. Flushed'
    BY <2>1, <2>3, <2>4 DEF db_vars
  <2> QED
    BY <2>5, <2>6, <2>7
<1> QED
  BY <1>1, <1>2, <1>3 DEF Compacting

LEMMA CommittingInv == Inv /\ Committing => Inv'
<1> SUFFICES ASSUME Inv, Committing PROVE Inv'
  OBVIOUS
<1>1. ASSUME NEW f \in Families, WriteMeta(f) PROVE Inv'
  BY <1>1, CreateFileInv DEF WriteMeta
<1> USE DEF Inv, Typed, Control, Numbered, Flushed
<1>2. CASE SyncFiles
  BY <1>2 DEF SyncFiles, db_vars
<1>3. CASE Publish
  <2>1. \/ current_sequence_number' = next_seq /\ stage' = "current"
        \/ current_sequence_number' = next_seq + 1 /\ stage' = "del"
    BY <1>3 DEF Publish, NextCurrent
  <2>2. /\ stage = "publish"
        /\ UNCHANGED <<disk_vars, active_write_operation, proc, todo, next_seq>>
    BY <1>3 DEF Publish
  <2> QED
    BY <2>1, <2>2, CurrentAssumption DEF disk_vars
<1>4. CASE WriteDel
  <2>1. disk' = [s \in Seqs |-> IF s = current_sequence_number THEN [kind |-> "del", dead |-> to_delete] ELSE disk[s]]
    BY <1>4 DEF WriteDel
  <2>2. \A s \in Seqs : Exists(s)' => Exists(s) \/ s = current_sequence_number
    BY <2>1
  <2>3. /\ stage = "del" /\ stage' = "current"
        /\ synced' = synced \cup {current_sequence_number}
        /\ UNCHANGED <<CURRENT, stable, db_vars, proc, todo, next_seq, new_files>>
    BY <1>4 DEF WriteDel
  <2> QED
    BY <2>1, <2>2, <2>3, CurrentAssumption DEF db_vars
<1>5. CASE WriteCurrent
  BY <1>5, CurrentAssumption DEF WriteCurrent, db_vars
<1>6. CASE SyncCurrent
  BY <1>6 DEF SyncCurrent, db_vars
<1>7. ASSUME NEW s \in Seqs, RemoveFile(s) PROVE Inv'
  BY <1>7 DEF RemoveFile, db_vars
<1>8. CASE CommitDone
  BY <1>8 DEF CommitDone, NoWriter, disk_vars
<1> QED
  BY <1>1, <1>2, <1>3, <1>4, <1>5, <1>6, <1>7, <1>8 DEF Committing

LEMMA StepInv == Inv /\ [Next]_vars => Inv'
<1> SUFFICES ASSUME Inv, [Next]_vars PROVE Inv'
  OBVIOUS
<1>1. CASE Fail
  BY <1>1, SyncedInv DEF Fail, Inv, Typed, Control, Numbered, Flushed, CurrentFilesSynced, disk_vars, db_vars
<1>2. CASE Crash
  <2>1. PICK lost : /\ disk' = [s \in Seqs |-> IF s \in lost THEN NoFile ELSE disk[s]]
                    /\ synced' = Present \ lost
    BY <1>2 DEF Crash
  <2>2. \A s \in Seqs : Exists(s)' => Exists(s) /\ s \notin lost
    BY <2>1
  <2>3. /\ CURRENT' \in {CURRENT, stable} /\ stable' = CURRENT' /\ proc' = "down" /\ stage' = "idle"
        /\ current_sequence_number' = 0 /\ next_seq' = 0 /\ active_write_operation' = FALSE
    BY <1>2 DEF Crash, NoWriter
  <2> QED
    BY <2>1, <2>2, <2>3 DEF Inv, Typed, Control, Numbered, Flushed
<1>3. CASE UNCHANGED vars
  <2>1. UNCHANGED <<disk, synced, CURRENT, stable, current_sequence_number, active_write_operation, proc, todo,
                    stage, next_seq, new_files>>
    BY <1>3 DEF vars, disk_vars, db_vars, writer_vars
  <2>2. Typed' /\ Control'
    BY <2>1 DEF Inv, Typed, Control
  <2>3. Numbered'
    BY <2>1 DEF Inv, Numbered
  <2>4. Flushed'
    BY <2>1 DEF Inv, Flushed, CurrentFilesSynced
  <2> QED BY <2>2, <2>3, <2>4 DEF Inv
<1> QED
  BY <1>1, <1>2, <1>3, OpeningInv, BatchingInv, CompactingInv, CommittingInv DEF Next

THEOREM Invariance == Spec => []Inv
BY InitInv, StepInv, PTL DEF Spec

\* Whatever CURRENT counts, as written or as last synced, is on stable storage.
THEOREM CurrentIsDurable == Spec => []CurrentFilesSynced
BY Invariance, SyncedInv, PTL

-----------------------------------------------------------------------------
(* No file is overwritten *)

\* What a step may do to the files there are.
FilesKept == \A s \in Seqs : Exists(s) => disk'[s] \in {disk[s], NoFile}

LEMMA CreateFileKeeps ==
  ASSUME Inv, stage \in {"batch", "metas"}, NEW content, NEW room \in Nat, CreateFile(content, room)
  PROVE  FilesKept
BY DEF Inv, Typed, Numbered, CreateFile, FilesKept

LEMMA StepKeepsFiles == Inv /\ Next => FilesKept
<1> SUFFICES ASSUME Inv, Next PROVE FilesKept
  OBVIOUS
<1>1. CASE Opening
  BY <1>1 DEF Opening, InitCreate, InitWrite, OpenStart, RecoverRemove, OpenFinish, disk_vars, FilesKept, Inv, Typed
<1>2. CASE Batching
  <2>1. ASSUME NEW v \in LargeValues, CreateBlob(v) PROVE FilesKept
    BY <2>1, CreateFileKeeps DEF CreateBlob
  <2>2. ASSUME NEW f \in Families, NEW rows, WriteSst(f, rows) PROVE FilesKept
    BY <2>2, CreateFileKeeps DEF WriteSst
  <2>3. CASE BeginBatch \/ FinishBatch
    BY <2>3 DEF BeginBatch, FinishBatch, disk_vars, FilesKept
  <2> QED
    BY <1>2, <2>1, <2>2, <2>3 DEF Batching
<1>3. CASE Compacting
  <2>1. ASSUME NEW plan, BeginCompact(plan) PROVE FilesKept
    BY <2>1 DEF BeginCompact, disk_vars, FilesKept
  <2>2. ASSUME NEW f, NEW j, NEW s, MoveSst(f, j, s) PROVE FilesKept
    BY <2>2 DEF MoveSst, disk_vars, FilesKept
  <2>3. ASSUME NEW f, NEW j, NEW first, MergeSsts(f, j, first) PROVE FilesKept
    <3>1. \A s \in Seqs : s \notin {next_seq + 1, next_seq + 1 + 1} => disk'[s] = disk[s]
      BY <2>3 DEF MergeSsts
    <3>2. stage = "metas"
      BY <2>3 DEF MergeSsts
    <3> QED
      BY <3>1, <3>2 DEF Inv, Typed, Numbered, FilesKept
  <2> QED
    BY <1>3, <2>1, <2>2, <2>3 DEF Compacting
<1>4. CASE Committing
  <2>1. ASSUME NEW f \in Families, WriteMeta(f) PROVE FilesKept
    BY <2>1, CreateFileKeeps DEF WriteMeta
  <2>2. CASE WriteDel
    BY <2>2 DEF WriteDel, Inv, Typed, Numbered, FilesKept
  <2>3. ASSUME NEW s \in Seqs, RemoveFile(s) PROVE FilesKept
    BY <2>3 DEF RemoveFile, Inv, Typed, FilesKept
  <2>4. CASE SyncFiles \/ Publish \/ WriteCurrent \/ SyncCurrent \/ CommitDone
    BY <2>4 DEF SyncFiles, Publish, WriteCurrent, SyncCurrent, CommitDone, disk_vars, FilesKept
  <2> QED
    BY <1>4, <2>1, <2>2, <2>3, <2>4 DEF Committing
<1>5. CASE Fail
  BY <1>5 DEF Fail, disk_vars, FilesKept
<1>6. CASE Crash
  BY <1>6 DEF Crash, FilesKept
<1> QED
  BY <1>1, <1>2, <1>3, <1>4, <1>5, <1>6 DEF Next

\* A number is used again only after its file is gone, through failures, crashes and recoveries.
THEOREM FilesAreImmutable == Spec => NoOverwrite
<1>1. Inv /\ [Next]_vars => [FilesKept]_vars
  BY StepKeepsFiles
<1> QED
  BY <1>1, Invariance, PTL DEF Spec, NoOverwrite, FilesKept

HIDE DEF Stages, NoFile, Present, Exists

-----------------------------------------------------------------------------
(* Databases: what Filter makes of the meta files of a directory d, and what it takes out of them *)

DeadIn(d, cur) == {s \in Seqs : \E x \in Seqs : x <= cur /\ d[x].kind = "del" /\ s \in d[x].dead}
MetasIn(d, cur, dead) == {m \in Seqs : m <= cur /\ d[m].kind = "meta" /\ m \notin dead}
Mentions(d, m, s) == s \in DOMAIN d[m].ssts \/ s \in d[m].obsolete
Hidden(d, metas, m, s) == \E n \in metas : n > m /\ Mentions(d, n, s)
Offering(d, m, live) == [seq |-> m, family |-> d[m].family, ssts |-> d[m].ssts,
                         live |-> live, obsolete |-> d[m].obsolete]
OpenedIn(d, m) == Offering(d, m, DOMAIN d[m].ssts)
Entry(d, metas, m) == Offering(d, m, {s \in DOMAIN d[m].ssts : ~Hidden(d, metas, m, s)})
Database(d, metas) == {Entry(d, metas, m) : m \in metas}

Covers(n, s) == s \in n.live \cup n.obsolete
Filtered(X, x) == [x EXCEPT !.live = {s \in x.live : \A n \in X : n.seq > x.seq => ~Covers(n, s)}]

LEMMA FilterIs ==
  ASSUME NEW X
  PROVE  Filter(X) = {Filtered(X, x) : x \in X}
BY DEF Filter, Covers, Filtered

LEMMA FilterOffering ==
  ASSUME NEW d, NEW m, NEW live, NEW X, NEW kept,
         \A s : s \in kept <=> s \in live /\ \A n \in X : n.seq > m => ~Covers(n, s)
  PROVE  Filtered(X, Offering(d, m, live)) = Offering(d, m, kept)
<1> DEFINE x == Offering(d, m, live)
<1>1. x.live = live /\ x.seq = m
  BY DEF Offering
<1>2. {s \in x.live : \A n \in X : n.seq > x.seq => ~Covers(n, s)} = kept
  BY <1>1
<1>3. [x EXCEPT !.live = kept] = Offering(d, m, kept)
  BY DEF Offering
<1> QED
  BY <1>2, <1>3 DEF Filtered

LEMMA CoversOpened ==
  ASSUME NEW d, NEW m, NEW s
  PROVE  OpenedIn(d, m).seq = m /\ (Covers(OpenedIn(d, m), s) <=> Mentions(d, m, s))
BY DEF Covers, OpenedIn, Offering, Mentions

\* Filtering again after adding newer meta files is filtering everything at once.
LEMMA FilterTwice ==
  ASSUME NEW d, NEW M \in SUBSET Nat, NEW A \in SUBSET Nat, \A m \in M, a \in A : m < a
  PROVE  Filter(Database(d, M) \cup {OpenedIn(d, a) : a \in A}) = Database(d, M \cup A)
<1> DEFINE X == Database(d, M) \cup {OpenedIn(d, a) : a \in A}
           Kept(m) == {s \in DOMAIN d[m].ssts : ~Hidden(d, M \cup A, m, s)}
<1>1. ASSUME NEW m \in M PROVE Filtered(X, Entry(d, M, m)) = Entry(d, M \cup A, m)
  <2> DEFINE live == {s \in DOMAIN d[m].ssts : ~Hidden(d, M, m, s)}
  <2>1. ASSUME NEW s \in live, NEW n \in X, n.seq > m, Covers(n, s) PROVE Hidden(d, M \cup A, m, s)
    <3>1. CASE n \in Database(d, M)
      BY <3>1, <2>1 DEF Database, Entry, Offering, Covers, Hidden, Mentions
    <3>2. ASSUME NEW a \in A, n = OpenedIn(d, a) PROVE Hidden(d, M \cup A, m, s)
      BY <3>2, <2>1, CoversOpened DEF Hidden
    <3> QED
      BY <3>1, <3>2
  <2>2. ASSUME NEW s \in live, Hidden(d, M \cup A, m, s) PROVE \E n \in X : n.seq > m /\ Covers(n, s)
    <3>1. PICK a \in M \cup A : a > m /\ Mentions(d, a, s)
      BY <2>2 DEF Hidden
    <3>2. a \in A
      BY <3>1, <2>2 DEF Hidden
    <3>3. OpenedIn(d, a) \in X
      BY <3>2
    <3> QED
      BY <3>1, <3>3, CoversOpened
  <2>3. \A s : s \in Kept(m) => s \in live
    BY DEF Hidden
  <2>4. \A s : s \in Kept(m) <=> s \in live /\ \A n \in X : n.seq > m => ~Covers(n, s)
    <3> HIDE DEF X
    <3> QED
      BY <2>1, <2>2, <2>3
  <2> HIDE DEF X, live, Kept
  <2>5. Filtered(X, Offering(d, m, live)) = Offering(d, m, Kept(m))
    BY <2>4, FilterOffering
  <2> QED
    BY <2>5 DEF Entry, live, Kept
<1>2. ASSUME NEW a \in A PROVE Filtered(X, OpenedIn(d, a)) = Entry(d, M \cup A, a)
  <2>1. ASSUME NEW s, NEW n \in X, n.seq > a, Covers(n, s) PROVE Hidden(d, M \cup A, a, s)
    <3>1. CASE n \in Database(d, M)
      BY <3>1, <2>1 DEF Database, Entry, Offering
    <3>2. ASSUME NEW b \in A, n = OpenedIn(d, b) PROVE Hidden(d, M \cup A, a, s)
      BY <3>2, <2>1, CoversOpened DEF Hidden
    <3> QED
      BY <3>1, <3>2
  <2>2. ASSUME NEW s, Hidden(d, M \cup A, a, s) PROVE \E n \in X : n.seq > a /\ Covers(n, s)
    <3>1. PICK b \in M \cup A : b > a /\ Mentions(d, b, s)
      BY <2>2 DEF Hidden
    <3>2. b \in A
      BY <3>1
    <3>3. OpenedIn(d, b) \in X
      BY <3>2
    <3> QED
      BY <3>1, <3>3, CoversOpened
  <2>3. \A s : s \in Kept(a) <=> s \in DOMAIN d[a].ssts /\ \A n \in X : n.seq > a => ~Covers(n, s)
    <3> HIDE DEF X
    <3> QED
      BY <2>1, <2>2
  <2> HIDE DEF X, Kept
  <2>4. Filtered(X, Offering(d, a, DOMAIN d[a].ssts)) = Offering(d, a, Kept(a))
    BY <2>3, FilterOffering
  <2> QED
    BY <2>4 DEF OpenedIn, Entry, Kept
<1>3. Filter(X) = {Filtered(X, x) : x \in X}
  BY FilterIs
<1>4. {Filtered(X, x) : x \in X} = {Filtered(X, Entry(d, M, m)) : m \in M} \cup {Filtered(X, OpenedIn(d, a)) : a \in A}
  BY DEF Database
<1> QED
  BY <1>1, <1>2, <1>3, <1>4 DEF Database

LEMMA FilterOfOpened ==
  ASSUME NEW d, NEW M \in SUBSET Nat
  PROVE  Filter({OpenedIn(d, m) : m \in M}) = Database(d, M)
<1>1. Database(d, {}) = {}
  BY DEF Database
<1>2. {} \cup M = M /\ {} \cup {OpenedIn(d, m) : m \in M} = {OpenedIn(d, m) : m \in M}
  OBVIOUS
<1> QED
  BY <1>1, <1>2, FilterTwice

\* The newest meta file that mentions an SST file some meta file lists is not superfluous.
LEMMA NewestStays ==
  ASSUME NEW d, NEW M \in SUBSET Nat, NEW b \in Nat, \A n \in M : n <= b,
         NEW m \in M, NEW s \in DOMAIN d[m].ssts
  PROVE  \E n \in M : /\ n >= m /\ Mentions(d, n, s) /\ ~Hidden(d, M, n, s)
                      /\ ~Removable(Database(d, M), Entry(d, M, n))
<1> DEFINE T == {n \in M : n >= m /\ Mentions(d, n, s)}
<1>1. m \in T
  BY DEF Mentions
<1>2. PICK n \in T : \A x \in T : x <= n
  <2>1. T \subseteq Nat /\ T # {} /\ \A x \in T : x <= b
    BY <1>1
  <2> HIDE DEF T
  <2> QED
    BY <2>1, Maximum
<1>3. ~Hidden(d, M, n, s)
  BY <1>2 DEF Hidden
<1>4. CASE s \in DOMAIN d[n].ssts
  <2>1. s \in Entry(d, M, n).live
    BY <1>3, <1>4 DEF Entry, Offering
  <2> QED
    BY <1>3, <2>1 DEF Removable
<1>5. CASE s \notin DOMAIN d[n].ssts
  <2>1. n > m /\ s \in Entry(d, M, n).obsolete
    BY <1>5 DEF Entry, Offering, Mentions
  <2>2. \A x \in Database(d, M) : x.seq > n => s \notin x.obsolete
    BY <1>3 DEF Database, Entry, Offering, Hidden, Mentions
  <2>3. \A x \in Database(d, M) : x.seq >= n => s \notin x.live
    BY <1>3, <1>5 DEF Database, Entry, Offering, Hidden, Mentions
  <2>4. Entry(d, M, m) \in Database(d, M) /\ Entry(d, M, m).seq < n /\ s \in DOMAIN Entry(d, M, m).ssts
    BY <2>1 DEF Database, Entry, Offering
  <2>5. Entry(d, M, n).seq = n
    BY DEF Entry, Offering
  <2>6. Needed(Database(d, M), Entry(d, M, n), s)
    BY <2>2, <2>3, <2>4, <2>5 DEF Needed
  <2> QED
    BY <1>3, <2>1, <2>6 DEF Removable
<1> QED
  BY <1>4, <1>5

Superfluous(d, M) == {r \in M : Removable(Database(d, M), Entry(d, M, r))}

\* Taking out what is superfluous changes nothing for the meta files that stay.
LEMMA SuperfluousGone ==
  ASSUME NEW d, NEW M \in SUBSET Nat, NEW b \in Nat, \A n \in M : n <= b
  PROVE  LET filtered == Database(d, M)
             removed == {x \in filtered : Removable(filtered, x)}
             rest == M \ Superfluous(d, M)
         IN  /\ filtered \ removed = Database(d, rest)
             /\ {x.seq : x \in removed} = Superfluous(d, M)
             /\ \A m \in M : \A s \in DOMAIN d[m].ssts : Hidden(d, M, m, s) <=> Hidden(d, rest, m, s)
<1> DEFINE filtered == Database(d, M)
           removed == {x \in filtered : Removable(filtered, x)}
           R == Superfluous(d, M)
<1>1. ASSUME NEW m \in M, NEW s \in DOMAIN d[m].ssts
      PROVE Hidden(d, M, m, s) <=> Hidden(d, M \ R, m, s)
  <2>1. Hidden(d, M \ R, m, s) => Hidden(d, M, m, s)
    BY DEF Hidden
  <2>2. ASSUME Hidden(d, M, m, s) PROVE Hidden(d, M \ R, m, s)
    <3>1. PICK n \in M : /\ n >= m /\ Mentions(d, n, s) /\ ~Hidden(d, M, n, s)
                         /\ ~Removable(Database(d, M), Entry(d, M, n))
      BY NewestStays
    <3>2. n > m
      BY <2>2, <3>1
    <3> QED
      BY <3>1, <3>2 DEF Hidden, Superfluous
  <2> QED
    BY <2>1, <2>2
<1>2. \A m \in M : Entry(d, M, m).seq = m
  BY DEF Entry, Offering
<1>3. \A m \in M \ R : Entry(d, M, m) = Entry(d, M \ R, m)
  BY <1>1 DEF Entry
<1>4. removed = {Entry(d, M, r) : r \in R}
  BY DEF Superfluous, Database
<1>5. {x.seq : x \in removed} = R
  <2> HIDE DEF removed, R
  <2>1. \A r \in R : r \in M
    BY DEF R, Superfluous
  <2> QED
    BY <1>2, <1>4, <2>1
<1>6. filtered \ removed = {Entry(d, M, m) : m \in M \ R}
  <2>1. \A m, n \in M : Entry(d, M, m) = Entry(d, M, n) => m = n
    BY <1>2
  <2>2. R \subseteq M
    BY DEF Superfluous
  <2> HIDE DEF removed, R
  <2> QED
    BY <1>4, <2>1, <2>2 DEF Database
<1>7. filtered \ removed = Database(d, M \ R)
  <2> HIDE DEF removed, R
  <2> QED
    BY <1>3, <1>6 DEF Database
<1> QED
  BY <1>1, <1>5, <1>7

\* Every listed SST file is hidden by a newer meta file or is there, of the family the meta file gives it ...
Offers(d, metas, dead) ==
  \A m \in metas : \A s \in DOMAIN d[m].ssts :
    \/ Hidden(d, metas, m, s)
    \/ s \in Seqs /\ d[s].kind = "sst" /\ d[s].family = d[m].family /\ s \notin dead
\* ... and every SST file that is there is on offer.
Offered(d, cur, metas, dead) ==
  \A s \in Seqs : s <= cur /\ d[s].kind = "sst" /\ s \notin dead =>
    \E m \in metas : s \in DOMAIN d[m].ssts /\ ~Hidden(d, metas, m, s)
Sound(d, cur, dead) ==
  Offers(d, MetasIn(d, cur, dead), dead) /\ Offered(d, cur, MetasIn(d, cur, dead), dead)

OnOffer(d, metas, s) == \E m \in metas : s \in DOMAIN d[m].ssts /\ ~Hidden(d, metas, m, s)
ListsLower(d) == \A m \in Seqs : d[m].kind = "meta" => \A s \in Seqs : Mentions(d, m, s) => s < m

\* What a write operation that is about to be published has added above cur: its meta files list SST files that
\* are new or on offer, and obsolete is what they declare merged away.
Complete(d, cur, metas, added, gone) ==
  /\ \A a \in added : \A s \in DOMAIN d[a].ssts :
       /\ s \in Seqs /\ d[s].kind = "sst" /\ d[s].family = d[a].family /\ s \notin d[a].obsolete
       /\ s > cur \/ OnOffer(d, metas, s)
  /\ \A a, b \in added : d[a].family = d[b].family => d[a].obsolete = d[b].obsolete
  /\ \A o \in gone : OnOffer(d, metas, o) /\ \E a \in added : o \in d[a].obsolete /\ d[a].family = d[o].family
  /\ \A a \in added : d[a].obsolete \subseteq gone
  /\ \A s \in Seqs : s > cur /\ d[s].kind = "sst" => \E a \in added : s \in DOMAIN d[a].ssts

MetasAbove(d, cur, top) == {m \in Seqs : m > cur /\ m <= top /\ d[m].kind = "meta"}
LEMMA CommitSound ==
  ASSUME NEW d, NEW cur \in Nat, NEW top \in Nat, cur <= top, NEW dead, \A s \in dead : s <= cur,
         NEW metas, metas = MetasIn(d, cur, dead), NEW gone,
         NEW added, added = MetasAbove(d, cur, top),
         Sound(d, cur, dead), ListsLower(d), Complete(d, cur, metas, added, gone),
         NEW dead2, dead2 = dead \cup Superfluous(d, metas \cup added) \cup gone
  PROVE  /\ MetasIn(d, top, dead2) = (metas \cup added) \ Superfluous(d, metas \cup added)
         /\ Sound(d, top, dead2)
<1>a. \A m : m \in added <=> m \in Seqs /\ m > cur /\ m <= top /\ d[m].kind = "meta"
  BY DEF MetasAbove
<1> DEFINE M == metas \cup added
           R == Superfluous(d, M)
<1>0. /\ M \in SUBSET Nat /\ M \subseteq Seqs /\ R \subseteq M
      /\ \A m \in M : m <= top /\ d[m].kind = "meta"
      /\ \A m \in metas, a \in added : m < a
  BY <1>a DEF MetasIn, Superfluous
<1>1. ASSUME NEW s, OnOffer(d, metas, s)
      PROVE s \in Seqs /\ s < cur /\ d[s].kind = "sst" /\ s \notin dead
            /\ \A m \in metas : s \in DOMAIN d[m].ssts /\ ~Hidden(d, metas, m, s) => d[s].family = d[m].family
  <2>1. PICK m \in metas : s \in DOMAIN d[m].ssts /\ ~Hidden(d, metas, m, s)
    BY <1>1 DEF OnOffer
  <2>2. s \in Seqs /\ d[s].kind = "sst" /\ s \notin dead
    BY <2>1 DEF Sound, Offers
  <2>3. s < m /\ m <= cur /\ m \in Nat
    BY <2>1, <2>2 DEF ListsLower, Mentions, MetasIn
  <2>4. \A n \in metas : s \in DOMAIN d[n].ssts /\ ~Hidden(d, metas, n, s) => d[s].family = d[n].family
    BY DEF Sound, Offers
  <2> QED
    BY <2>2, <2>3, <2>4
<1>2. \A m \in M : m \notin dead /\ m \notin gone
  <2>1. \A m \in metas : m \notin dead
    BY DEF MetasIn
  <2>2. \A m \in added : m \notin dead
    BY <1>a
  <2>3. \A m \in gone : d[m].kind = "sst"
    BY <1>1 DEF Complete
  <2> QED
    BY <1>0, <2>1, <2>2, <2>3
<1>3. MetasIn(d, top, dead2) = M \ R
  <2>1. ASSUME NEW m \in MetasIn(d, top, dead2) PROVE m \in M \ R
    BY <1>a, <2>1 DEF MetasIn
  <2>2. ASSUME NEW m \in M \ R PROVE m \in MetasIn(d, top, dead2)
    BY <1>0, <1>2, <2>2 DEF MetasIn
  <2> QED
    BY <2>1, <2>2
<1>4. \A m \in M : \A s \in DOMAIN d[m].ssts : Hidden(d, M, m, s) <=> Hidden(d, M \ R, m, s)
  BY <1>0, SuperfluousGone
<1>5. Offers(d, M \ R, dead2)
  <2> SUFFICES ASSUME NEW m \in M \ R, NEW s \in DOMAIN d[m].ssts, ~Hidden(d, M, m, s)
               PROVE  s \in Seqs /\ d[s].kind = "sst" /\ d[s].family = d[m].family /\ s \notin dead2
    BY <1>4 DEF Offers
  <2>1. s \in Seqs /\ d[s].kind = "sst" /\ d[s].family = d[m].family /\ s \notin dead
    <3>1. CASE m \in metas
      <4>1. ~Hidden(d, metas, m, s)
        BY DEF Hidden
      <4> QED
        BY <3>1, <4>1 DEF Sound, Offers
    <3>2. CASE m \in added
      <4>1. s \in Seqs /\ d[s].kind = "sst" /\ d[s].family = d[m].family /\ (s > cur \/ OnOffer(d, metas, s))
        BY <3>2 DEF Complete
      <4>2. s > cur => s \notin dead
        BY <4>1
      <4> QED
        BY <4>1, <4>2, <1>1
    <3> QED
      BY <3>1, <3>2
  <2>2. s \notin R
    BY <1>0, <2>1
  <2>3. s \notin gone
    <3>1. SUFFICES ASSUME s \in gone PROVE FALSE
      OBVIOUS
    <3>2. PICK a \in added : s \in d[a].obsolete /\ d[a].family = d[s].family
      BY <3>1 DEF Complete
    <3>3. CASE m \in metas
      BY <1>0, <3>2, <3>3 DEF Hidden, Mentions
    <3>4. CASE m \in added
      BY <3>2, <3>4, <2>1 DEF Complete
    <3> QED
      BY <3>3, <3>4
  <2> QED
    BY <2>1, <2>2, <2>3
<1>6. Offered(d, top, M \ R, dead2)
  <2> SUFFICES ASSUME NEW s \in Seqs, s <= top, d[s].kind = "sst", s \notin dead2
               PROVE  \E m \in M \ R : s \in DOMAIN d[m].ssts /\ ~Hidden(d, M \ R, m, s)
    BY DEF Offered
  <2>1. PICK m \in M : s \in DOMAIN d[m].ssts
    <3>1. CASE s <= cur
      BY <3>1 DEF Sound, Offered
    <3>2. CASE s > cur
      BY <3>2 DEF Complete
    <3> QED
      BY <3>1, <3>2
  <2>2. PICK n \in M : /\ Mentions(d, n, s) /\ ~Hidden(d, M, n, s)
                       /\ ~Removable(Database(d, M), Entry(d, M, n))
    BY <1>0, <2>1, NewestStays
  <2>3. n \in M \ R
    BY <2>2 DEF Superfluous
  <2>4. s \in DOMAIN d[n].ssts
    <3>1. CASE n \in added
      <4>1. s \notin d[n].obsolete
        BY <3>1 DEF Complete
      <4> QED
        BY <2>2, <4>1 DEF Mentions
    <3>2. CASE n \in metas
      <4>1. \A a \in added : ~Mentions(d, a, s)
        BY <1>0, <2>2, <3>2 DEF Hidden
      <4>2. s <= cur
        BY <4>1 DEF Complete, Mentions
      <4>3. PICK h \in metas : s \in DOMAIN d[h].ssts /\ ~Hidden(d, metas, h, s)
        BY <4>2 DEF Sound, Offered
      <4>4. h >= n
        BY <4>3, <2>2, <3>2, <1>0 DEF Hidden
      <4>5. ~(h > n)
        BY <4>3, <2>2 DEF Hidden, Mentions
      <4>6. h = n
        BY <4>4, <4>5, <1>0, <3>2
      <4> QED
        BY <4>3, <4>6
    <3> QED
      BY <3>1, <3>2
  <2> QED
    BY <1>4, <2>2, <2>3, <2>4
<1> QED
  BY <1>3, <1>5, <1>6 DEF Sound


LEMMA SoundKept ==
  ASSUME NEW d, NEW e, NEW cur \in Nat, NEW dead, NEW dead2, ListsLower(d),
         \A s \in Seqs : s <= cur /\ d[s].kind \in {"sst", "meta"} /\ s \notin dead => e[s] = d[s] /\ s \notin dead2,
         \A s \in Seqs : s <= cur /\ e[s].kind \in {"sst", "meta"} /\ s \notin dead2 => e[s] = d[s] /\ s \notin dead
  PROVE  /\ MetasIn(e, cur, dead2) = MetasIn(d, cur, dead)
         /\ Database(e, MetasIn(e, cur, dead2)) = Database(d, MetasIn(d, cur, dead))
         /\ Sound(d, cur, dead) => Sound(e, cur, dead2)
<1> DEFINE M == MetasIn(d, cur, dead)
<1>1. MetasIn(e, cur, dead2) = M
  BY DEF MetasIn
<1>2. \A m \in M : e[m] = d[m] /\ m \in Seqs /\ m <= cur /\ d[m].kind = "meta"
  BY DEF MetasIn
<1> HIDE DEF M
<1>3. \A m \in M : \A s : Hidden(e, M, m, s) <=> Hidden(d, M, m, s)
  BY <1>2 DEF Hidden, Mentions
<1>4. \A m \in M : Entry(e, M, m) = Entry(d, M, m)
  BY <1>2, <1>3 DEF Entry, Offering
<1>5. Database(e, M) = Database(d, M)
  BY <1>4 DEF Database
<1>6. ASSUME Sound(d, cur, dead) PROVE Offers(e, M, dead2)
  <2> SUFFICES ASSUME NEW m \in M, NEW s \in DOMAIN d[m].ssts, ~Hidden(d, M, m, s)
               PROVE  s \in Seqs /\ e[s].kind = "sst" /\ e[s].family = d[m].family /\ s \notin dead2
    BY <1>2, <1>3 DEF Offers
  <2>1. s \in Seqs /\ d[s].kind = "sst" /\ d[s].family = d[m].family /\ s \notin dead
    BY <1>6 DEF Sound, Offers, M
  <2>2. s <= cur
    <3>1. s < m /\ m <= cur /\ m \in Seqs
      BY <1>2, <2>1 DEF ListsLower, Mentions
    <3> QED
      BY <2>1, <3>1
  <2> QED
    BY <2>1, <2>2
<1>7. ASSUME Sound(d, cur, dead) PROVE Offered(e, cur, M, dead2)
  <2> SUFFICES ASSUME NEW s \in Seqs, s <= cur, e[s].kind = "sst", s \notin dead2
               PROVE  \E m \in M : s \in DOMAIN e[m].ssts /\ ~Hidden(e, M, m, s)
    BY DEF Offered
  <2>1. d[s].kind = "sst" /\ s \notin dead
    OBVIOUS
  <2> QED
    BY <1>2, <1>3, <1>7, <2>1 DEF Sound, Offered, M
<1> QED
  BY <1>1, <1>5, <1>6, <1>7 DEF Sound, M

\* Each file on its own: a .del file lists lower SST and meta files, if they are still there; the blobs of an SST
\* file are lower and, up to top, there; a meta file lists lower SST files, and those in one place share no key.
PlacesApart(d, ssts) ==
  \A s, t \in DOMAIN ssts : s # t /\ ssts[s] = ssts[t] /\ d[s].kind = "sst" /\ d[t].kind = "sst"
                              => DOMAIN d[s].rows \cap DOMAIN d[t].rows = {}
FileOK(d, top, x) ==
  /\ d[x].kind = "del" => \A s \in d[x].dead : s \in Seqs /\ s < x /\ d[s].kind \in {"none", "sst", "meta"}
  /\ d[x].kind = "sst" => \A b \in BlobsOf(d[x].rows) : b < x /\ (x <= top => d[b].kind = "blob")
  /\ d[x].kind = "meta" => /\ \A s \in DOMAIN d[x].ssts \cup d[x].obsolete : s \in Seqs /\ s < x
                           /\ PlacesApart(d, d[x].ssts)
FilesOK(d, top) == \A x \in Seqs : FileOK(d, top, x)

LEMMA ListsAreLower ==
  ASSUME NEW d, NEW top, FilesOK(d, top)
  PROVE  ListsLower(d)
BY DEF FilesOK, FileOK, ListsLower, Mentions

\* New files get numbers above all that are there.
LEMMA FilesCreated ==
  ASSUME NEW d, NEW e, NEW top, NEW new \in SUBSET Nat, FilesOK(d, top),
         \A s \in Seqs : s \notin new => e[s] = d[s],
         \A s \in Seqs : d[s].kind # "none" => \A n \in new : s < n,
         \A n \in new \cap Seqs : FileOK(e, top, n)
  PROVE  FilesOK(e, top)
<1> SUFFICES ASSUME NEW x \in Seqs, x \notin new, e[x].kind \in {"del", "sst", "meta"} PROVE FileOK(e, top, x)
  BY DEF FilesOK, FileOK
<1>1. e[x] = d[x] /\ FileOK(d, top, x)
  BY DEF FilesOK
<1>2. \A s \in Seqs : s < x => e[s] = d[s]
  BY <1>1
<1>3. CASE d[x].kind = "del"
  BY <1>1, <1>2, <1>3 DEF FileOK
<1>4. CASE d[x].kind = "sst"
  <2>1. \A b \in BlobsOf(d[x].rows) : b \in Seqs
    BY DEF BlobsOf
  <2> QED
    BY <1>1, <1>2, <1>4, <2>1 DEF FileOK
<1>5. CASE d[x].kind = "meta"
  <2>1. \A s \in DOMAIN d[x].ssts : e[s] = d[s]
    BY <1>1, <1>2, <1>5 DEF FileOK
  <2>2. PlacesApart(e, e[x].ssts)
    BY <1>1, <1>5, <2>1 DEF FileOK, PlacesApart
  <2> QED
    BY <1>1, <1>5, <2>2 DEF FileOK
<1> QED
  BY <1>1, <1>3, <1>4, <1>5

LEMMA FilesRemoved ==
  ASSUME NEW d, NEW e, NEW top, NEW top2, FilesOK(d, top),
         \A s \in Seqs : e[s] = d[s] \/ e[s].kind = "none",
         \A s \in Seqs : s <= top2 /\ e[s].kind = "sst" =>
            s <= top /\ \A b \in Seqs : b < s /\ d[b].kind = "blob" => e[b] = d[b]
  PROVE  FilesOK(e, top2)
<1> SUFFICES ASSUME NEW x \in Seqs, e[x].kind \in {"del", "sst", "meta"} PROVE FileOK(e, top2, x)
  BY DEF FilesOK, FileOK
<1>1. e[x] = d[x] /\ FileOK(d, top, x)
  BY DEF FilesOK
<1>3. CASE d[x].kind = "del"
  BY <1>1, <1>3 DEF FileOK
<1>4. CASE d[x].kind = "sst"
  <2>1. \A b \in BlobsOf(d[x].rows) : b \in Seqs
    BY DEF BlobsOf
  <2> QED
    BY <1>1, <1>4, <2>1 DEF FileOK
<1>5. CASE d[x].kind = "meta"
  <2>1. \A s \in DOMAIN d[x].ssts : s \in Seqs /\ (e[s] = d[s] \/ e[s].kind = "none")
    BY <1>1, <1>5 DEF FileOK
  <2>2. PlacesApart(e, e[x].ssts)
    BY <1>1, <1>5, <2>1 DEF FileOK, PlacesApart
  <2> QED
    BY <1>1, <1>5, <2>2 DEF FileOK
<1> QED
  BY <1>1, <1>3, <1>4, <1>5

-----------------------------------------------------------------------------
(* The inductive invariant *)

Dead(cur) == DeadIn(disk, cur)

\* From publishing on, the files to delete count as dead.
DeadNow == IF stage \in {"del", "current"} THEN Dead(CURRENT) \cup to_delete ELSE Dead(CURRENT)

Top == IF proc = "open" THEN MaxSeq ELSE CURRENT
Shape == FilesOK(disk, Top)

Loadable == \A cur \in {CURRENT, stable} : cur \in Nat => cur <= MaxSeq /\ Sound(disk, cur, Dead(cur))

TodoOK ==
  /\ todo \subseteq Present
  /\ \A s \in Present : s > CURRENT \/ s \in Dead(CURRENT) => s \in todo
  /\ \A s \in todo : s > CURRENT \/ s \in Dead(CURRENT) \/ (disk[s].kind = "del" /\ disk[s].dead \cap Present = {})
Recovering ==
  /\ proc # "open" => meta_files = {}
  /\ proc = "recover" => TodoOK

\* The running database is what a restart would load, once the commit is through; after a failure it is whatever
\* the readers have.
Running == proc = "open" =>
  IF stage = "failed" THEN Intact(meta_files)
  ELSE /\ meta_files = Database(disk, MetasIn(disk, current_sequence_number, DeadNow))
       /\ Sound(disk, current_sequence_number, DeadNow)
       /\ DeadNow \cap Present \subseteq to_delete

Deleting ==
  /\ stage \in {"idle", "batch", "metas", "publish", "failed"} => to_delete = {}
  /\ \A s \in to_delete : s \in Seqs /\ s < current_sequence_number /\ disk[s].kind \in {"sst", "meta"}
  /\ stage = "del" => /\ CURRENT < current_sequence_number /\ stable < current_sequence_number
                      /\ \A s \in Present : s > CURRENT => disk[s].kind # "del"
  /\ stage = "current" => Dead(current_sequence_number) = DeadNow
  /\ stage \in {"sync_current", "remove"} => to_delete \subseteq Dead(CURRENT)

\* An SST file fit for a new meta file of family f.
Collectable(f, s) ==
  /\ s \in Seqs /\ disk[s].kind = "sst" /\ disk[s].family = f
  /\ s > current_sequence_number \/ s \in Live(f)
  /\ s \notin obsolete[f]
NewMetas == {m \in new_files : disk[m].kind = "meta"}
CollectedOK(f) ==
  /\ \A s \in DOMAIN new_ssts[f] : Collectable(f, s)
  /\ PlacesApart(disk, new_ssts[f])
  /\ \A s \in DOMAIN new_ssts[f] : new_ssts[f][s] \notin DOMAIN jobs[f]
JobsOK(f) ==
  /\ obsolete[f] \subseteq Live(f)
  /\ obsolete[f] # {} => \/ DOMAIN jobs[f] # {} \/ DOMAIN new_ssts[f] # {}
                         \/ \E m \in NewMetas : disk[m].family = f
  /\ \A j \in DOMAIN jobs[f] :
       /\ jobs[f][j] \subseteq Live(f) /\ jobs[f][j] # {}
       /\ \A s \in jobs[f][j] : s \in obsolete[f] <=> \E t \in jobs[f][j] : t # s
NewMetaOK(m) == /\ disk[m].obsolete = obsolete[disk[m].family]
                /\ \A s \in DOMAIN disk[m].ssts : Collectable(disk[m].family, s)
NoWork == /\ new_files = {}
          /\ \A f \in Families : new_ssts[f] = EmptyFunction /\ jobs[f] = EmptyFunction /\ obsolete[f] = {}
Work ==
  /\ new_files = {s \in Present : s > current_sequence_number}
  /\ \A s \in new_files : disk[s].kind # "del"
  /\ \A s \in new_files : disk[s].kind = "sst" =>
       s \in DOMAIN new_ssts[disk[s].family] \/ \E m \in NewMetas : s \in DOMAIN disk[m].ssts
  /\ \A m \in NewMetas : NewMetaOK(m)
  /\ \A f \in Families :
       /\ CollectedOK(f) /\ JobsOK(f)
       /\ stage = "batch" => /\ jobs[f] = EmptyFunction /\ obsolete[f] = {}
                             /\ \A s \in DOMAIN new_ssts[f] : new_ssts[f][s] = s
       /\ stage = "publish" => jobs[f] = EmptyFunction /\ new_ssts[f] = EmptyFunction
Writer == (stage = "idle" => NoWork) /\ (stage \in {"batch", "metas", "publish"} => Work)

RecoveryInv == Inv /\ TypeOK /\ Shape /\ Loadable /\ Recovering /\ Running /\ Deleting /\ Writer

-----------------------------------------------------------------------------
(* What the invariant gives *)

LEMMA SstsAreTyped ==
  ASSUME TypeOK, NEW s \in Seqs, disk[s].kind = "sst"
  PROVE  disk[s].family \in Families /\ IsPartialFunction(disk[s].rows, Keys, Entries)
<1>1. disk[s] # NoFile
  BY DEF NoFile
<1>2. SstFile(disk[s])
  BY <1>1 DEF TypeOK
<1> QED
  BY <1>2 DEF SstFile

LEMMA LoadIs ==
  ASSUME NEW cur
  PROVE  Load(cur) = Database(disk, MetasIn(disk, cur, Dead(cur)))
<1> DEFINE M == {m \in Seqs : m <= cur /\ IsKind(m, "meta") /\ ~IsDead(m, cur)}
<1>1. M = MetasIn(disk, cur, Dead(cur))
  BY DEF MetasIn, Dead, DeadIn, IsDead, IsKind
<1>2. {Opened(m) : m \in M} = {OpenedIn(disk, m) : m \in M}
  BY DEF Opened, OpenedIn, Offering
<1>3. M \in SUBSET Nat
  OBVIOUS
<1>4. Filter({OpenedIn(disk, m) : m \in M}) = Database(disk, M)
  BY <1>3, FilterOfOpened
<1>5. Load(cur) = Filter({Opened(m) : m \in M})
  BY DEF Load
<1> QED
  BY <1>1, <1>2, <1>4, <1>5

LEMMA SoundIsIntact ==
  ASSUME NEW cur \in Nat, NEW dead, NEW top \in Nat, FilesOK(disk, top), Sound(disk, cur, dead), cur <= top
  PROVE  Intact(Database(disk, MetasIn(disk, cur, dead)))
<1> DEFINE M == MetasIn(disk, cur, dead)
<1> SUFFICES ASSUME NEW m \in M, NEW s \in Entry(disk, M, m).live
             PROVE  /\ IsKind(s, "sst") /\ disk[s].family = Entry(disk, M, m).family
                    /\ \A b \in BlobsOf(Rows(s)) : IsKind(b, "blob")
  BY DEF Intact, Database
<1>1. s \in DOMAIN disk[m].ssts /\ ~Hidden(disk, M, m, s)
  BY DEF Entry, Offering
<1>2. s \in Seqs /\ disk[s].kind = "sst" /\ disk[s].family = disk[m].family
  BY <1>1 DEF Sound, Offers
<1>3. s < m /\ m <= cur /\ m \in Seqs
  BY <1>1, <1>2, ListsAreLower DEF ListsLower, Mentions, MetasIn
<1>4. \A b \in BlobsOf(disk[s].rows) : b \in Seqs /\ disk[b].kind = "blob"
  BY <1>2, <1>3 DEF FilesOK, FileOK, BlobsOf
<1> QED
  BY <1>2, <1>4 DEF IsKind, Rows, Entry, Offering

LEMMA TopIsNat ==
  ASSUME Inv, TypeOK, Loadable, CURRENT \in Nat
  PROVE  Top \in Nat /\ CURRENT <= Top /\ (stable \in Nat => stable <= Top) /\ current_sequence_number \in Nat
         /\ (proc = "open" => current_sequence_number <= Top)
BY DEF Top, Loadable, TypeOK, Inv, Control

LEMMA RecoveryImpliesRestart == RecoveryInv => RestartFindsFiles
<1> SUFFICES ASSUME RecoveryInv, NEW cur \in {CURRENT, stable} \cap Nat PROVE Intact(Load(cur))
  BY DEF RestartFindsFiles
<1>1. CURRENT \in Nat
  BY DEF RecoveryInv, Inv, Control, Typed
<1>2. Top \in Nat /\ cur <= Top
  BY <1>1, TopIsNat DEF RecoveryInv
<1> QED
  BY <1>2, LoadIs, SoundIsIntact DEF RecoveryInv, Loadable, Shape

LEMMA RecoveryImpliesReaders == RecoveryInv => ReadersFindFiles
<1> SUFFICES ASSUME RecoveryInv PROVE Intact(meta_files)
  BY DEF ReadersFindFiles
<1>1. CASE proc # "open"
  BY <1>1 DEF RecoveryInv, Recovering, Intact
<1>2. CASE proc = "open" /\ stage # "failed"
  <2>1. Top \in Nat /\ current_sequence_number \in Nat /\ current_sequence_number <= Top
    BY <1>2, TopIsNat DEF RecoveryInv, Inv, Control
  <2> QED
    BY <1>2, <2>1, SoundIsIntact DEF RecoveryInv, Running, Shape
<1>3. CASE proc = "open" /\ stage = "failed"
  BY <1>3 DEF RecoveryInv, Running
<1> QED
  BY <1>1, <1>2, <1>3

LEMMA RecoveryImpliesRemovals == RecoveryInv => RemovalsExist
BY DEF RecoveryInv, Deleting, RemovalsExist, Present, Exists

LEMMA RecoveryImpliesNothingLeft == RecoveryInv => NothingLeftBehind
<1> SUFFICES ASSUME RecoveryInv, proc = "open", stage = "idle", NEW s \in Present
             PROVE  /\ IsKind(s, "sst") => \E f \in Families : s \in Live(f)
                    /\ IsKind(s, "meta") => \E m \in meta_files : m.seq = s
  BY DEF NothingLeftBehind
<1> DEFINE M == MetasIn(disk, current_sequence_number, DeadNow)
<1>1. meta_files = Database(disk, M) /\ Sound(disk, current_sequence_number, DeadNow) /\ s \notin DeadNow
  BY DEF RecoveryInv, Running, Deleting
<1>2. s <= current_sequence_number /\ s \in Seqs
  BY DEF RecoveryInv, Inv, Numbered, Present
<1>3. ASSUME IsKind(s, "sst") PROVE \E f \in Families : s \in Live(f)
  <2>1. PICK m \in M : s \in DOMAIN disk[m].ssts /\ ~Hidden(disk, M, m, s)
    BY <1>1, <1>2, <1>3 DEF Sound, Offered, IsKind
  <2>2. Entry(disk, M, m) \in meta_files /\ s \in Entry(disk, M, m).live
    BY <1>1, <2>1 DEF Database, Entry, Offering
  <2>3. disk[m].family \in Families
    BY DEF RecoveryInv, TypeOK, MetasIn, NoFile, MetaFile
  <2>4. Entry(disk, M, m).family = disk[m].family
    BY DEF Entry, Offering
  <2> QED
    BY <2>2, <2>3, <2>4 DEF Live
<1>4. ASSUME IsKind(s, "meta") PROVE \E m \in meta_files : m.seq = s
  <2>1. s \in M
    BY <1>1, <1>2, <1>4 DEF MetasIn, IsKind
  <2>2. Entry(disk, M, s) \in meta_files
    BY <1>1, <2>1 DEF Database
  <2>3. Entry(disk, M, s).seq = s
    BY DEF Entry, Offering
  <2> QED
    BY <2>2, <2>3
<1> QED
  BY <1>3, <1>4

-----------------------------------------------------------------------------
(* Steps *)

DiskInv == Shape /\ Loadable /\ Recovering /\ Running /\ Deleting

\* Steps of a writer that leave the directory and the database alone.
Unpublished == {"idle", "batch", "metas", "publish"}
LEMMA Quiet ==
  ASSUME DiskInv, stage \in Unpublished, stage' \in Unpublished,
         UNCHANGED <<disk, CURRENT, stable, meta_files, current_sequence_number, proc, todo, to_delete>>
  PROVE  DiskInv'
<1> USE DEF DiskInv, Unpublished
<1>1. Shape'
  BY DEF Shape, Top
<1>2. Loadable'
  BY DEF Loadable, Dead
<1>3. Recovering'
  BY DEF Recovering, TodoOK, Dead, Present, Exists
<1>4. Running'
  BY DEF Running, DeadNow, Dead, Present, Exists
<1>5. Deleting'
  BY DEF Deleting
<1> QED
  BY <1>1, <1>2, <1>3, <1>4, <1>5

LEMMA DeadIsTyped ==
  ASSUME NEW d, NEW top, FilesOK(d, top), NEW cur \in Nat, NEW s \in DeadIn(d, cur)
  PROVE  s \in Seqs /\ s < cur /\ d[s].kind \in {"none", "sst", "meta"}
BY DEF DeadIn, FilesOK, FileOK

LEMMA EmptyDirectory ==
  ASSUME NEW d, \A s \in Seqs : d[s].kind = "none", NEW cur, NEW dead, NEW top
  PROVE  /\ FilesOK(d, top) /\ Sound(d, cur, dead) /\ MetasIn(d, cur, dead) = {}
         /\ Database(d, MetasIn(d, cur, dead)) = {}
<1>1. FilesOK(d, top)
  BY DEF FilesOK, FileOK
<1>2. MetasIn(d, cur, dead) = {}
  BY DEF MetasIn
<1>3. Sound(d, cur, dead)
  BY <1>2 DEF Sound, Offers, Offered
<1>4. Database(d, {}) = {}
  BY DEF Database
<1> QED
  BY <1>1, <1>2, <1>3, <1>4

\* Removing a file that a load at CURRENT ignores, and whose going does not wake another one.
LEMMA RecoverRemoveDisk ==
  ASSUME RecoveryInv, NEW s \in Seqs, RecoverRemove(s)
  PROVE  DiskInv'
<1> USE DEF RecoveryInv
<1>0. /\ proc = "recover" /\ s \in todo /\ stage = "idle"
      /\ disk' = [disk EXCEPT ![s] = NoFile] /\ todo' = todo \ {s}
      /\ UNCHANGED <<CURRENT, stable, meta_files, current_sequence_number, proc, stage, to_delete>>
  BY DEF RecoverRemove, db_vars, writer_vars, Inv, Control
<1>1. /\ CURRENT \in Nat /\ stable = CURRENT /\ Top = CURRENT /\ to_delete = {}
      /\ disk = [x \in Seqs |-> disk[x]]
  BY <1>0 DEF Inv, Control, Typed, Top, Deleting
<1>2. disk' = [x \in Seqs |-> IF x = s THEN NoFile ELSE disk[x]] /\ Present' = Present \ {s}
  BY <1>0, <1>1 DEF Present, Exists, NoFile
<1>3. TodoOK /\ FilesOK(disk, CURRENT)
  BY <1>0, <1>1 DEF Recovering, Shape
<1>4. \A x \in Present : x \in Dead(CURRENT) => x < CURRENT /\ disk[x].kind \in {"sst", "meta"}
  BY <1>1, <1>3, DeadIsTyped DEF Dead, Present, Exists
<1>a. s \in Present /\ (s > CURRENT \/ s \in Dead(CURRENT) \/ (disk[s].kind = "del" /\ disk[s].dead \cap Present = {}))
  BY <1>0, <1>3 DEF TodoOK
<1>5. \A x \in Seqs : x \in Dead(CURRENT)' => x \in Dead(CURRENT)
  BY <1>0, <1>2 DEF Dead, DeadIn, NoFile
<1>6. ASSUME NEW x \in Present', x \in Dead(CURRENT) PROVE x \in Dead(CURRENT)'
  <2>1. PICK y \in Seqs : y <= CURRENT /\ disk[y].kind = "del" /\ x \in disk[y].dead
    BY <1>6 DEF Dead, DeadIn
  <2>2. y # s
    <3>1. SUFFICES ASSUME y = s PROVE FALSE
      OBVIOUS
    <3>2. s \notin Dead(CURRENT)
      BY <1>4, <2>1, <3>1 DEF Present, Exists
    <3>3. disk[s].dead \cap Present = {}
      BY <1>1, <1>a, <2>1, <3>1, <3>2
    <3> QED
      BY <1>2, <1>6, <2>1, <3>1, <3>3
  <2> QED
    <3>1. disk'[y] = disk[y] /\ x \in Seqs
      BY <1>2, <1>6, <2>1, <2>2 DEF Present
    <3> QED
      BY <1>0, <2>1, <3>1 DEF Dead, DeadIn
<1>7. Shape'
  <2>1. ASSUME NEW x \in Seqs, x <= CURRENT, disk'[x].kind = "sst", NEW b \in Seqs, b < x, disk[b].kind = "blob"
        PROVE  disk'[b] = disk[b]
    <3>1. b # s
      <4>1. b <= CURRENT /\ disk[b].kind \notin {"sst", "meta", "del"} /\ ~(b > CURRENT)
        BY <1>1, <2>1
      <4> QED
        BY <1>a, <1>4, <4>1
    <3> QED
      BY <1>2, <3>1
  <2>2. \A x \in Seqs : disk'[x] = disk[x] \/ disk'[x].kind = "none"
    BY <1>2 DEF NoFile
  <2>3. FilesOK(disk', CURRENT)
    BY <1>3, <2>1, <2>2, FilesRemoved
  <2> QED
    BY <1>0, <1>1, <2>3 DEF Shape, Top
<1>8. Loadable'
  <2>1. \A x \in Seqs : x <= CURRENT /\ disk[x].kind \in {"sst", "meta"} /\ x \notin Dead(CURRENT)
                         => disk'[x] = disk[x] /\ x \notin Dead(CURRENT)'
    BY <1>0, <1>1, <1>2, <1>3, <1>5 DEF TodoOK
  <2>2. \A x \in Seqs : x <= CURRENT /\ disk'[x].kind \in {"sst", "meta"} /\ x \notin Dead(CURRENT)'
                         => disk'[x] = disk[x] /\ x \notin Dead(CURRENT)
    BY <1>2, <1>6 DEF Present, Exists, NoFile
  <2>3. ListsLower(disk)
    BY <1>3, ListsAreLower
  <2>4. Sound(disk, CURRENT, Dead(CURRENT)) /\ CURRENT <= MaxSeq
    BY <1>1 DEF Loadable
  <2>5. Sound(disk', CURRENT, Dead(CURRENT)')
    BY <1>1, <2>1, <2>2, <2>3, <2>4, SoundKept
  <2> QED
    BY <1>0, <1>1, <2>4, <2>5 DEF Loadable
<1>9. Recovering'
  <2>1. todo' \subseteq Present'
    BY <1>0, <1>2, <1>3 DEF TodoOK
  <2>2. \A x \in Present' : x > CURRENT \/ x \in Dead(CURRENT)' => x \in todo'
    BY <1>0, <1>2, <1>3, <1>5 DEF TodoOK, Present
  <2>3. \A x \in todo' : x > CURRENT \/ x \in Dead(CURRENT)' \/ (disk'[x].kind = "del" /\ disk'[x].dead \cap Present' = {})
    BY <1>0, <1>2, <1>3, <1>6, <2>1 DEF TodoOK, Present
  <2> QED
    BY <1>0, <2>1, <2>2, <2>3 DEF Recovering, TodoOK
<1>10. Running' /\ Deleting'
  BY <1>0, <1>1 DEF Running, Deleting
<1> QED
  BY <1>7, <1>8, <1>9, <1>10 DEF DiskInv

LEMMA OpeningDisk == RecoveryInv /\ Opening => DiskInv'
<1> SUFFICES ASSUME RecoveryInv, Opening PROVE DiskInv'
  OBVIOUS
<1> USE DEF RecoveryInv
<1>1. ASSUME NEW ro \in BOOLEAN, InitCreate(ro) PROVE DiskInv'
  <2>1. /\ proc' = "init" /\ CURRENT' = Torn /\ stable' = Torn /\ stage = "idle" /\ stage' = "idle"
        /\ UNCHANGED <<disk, meta_files, to_delete>> /\ meta_files = {} /\ to_delete = {}
    BY <1>1 DEF InitCreate, writer_vars, Inv, Control, Recovering, Deleting
  <2>2. \A s \in Seqs : disk'[s].kind = "none"
    BY <1>1, <2>1 DEF InitCreate, Inv, Numbered, Present, Exists
  <2>3. FilesOK(disk', Top')
    BY <2>2, EmptyDirectory
  <2>4. Shape' /\ Loadable' /\ Recovering' /\ Running' /\ Deleting'
    BY <2>1, <2>3, CurrentAssumption DEF Shape, Loadable, Recovering, Running, Deleting
  <2> QED
    BY <2>4 DEF DiskInv
<1>2. CASE InitWrite
  <2>1. /\ proc' = "open" /\ CURRENT' = 0 /\ stable' = 0 /\ stage' = "idle"
        /\ meta_files' = {} /\ to_delete' = {} /\ current_sequence_number' = 0 /\ disk' = disk
    BY <1>2 DEF InitWrite, writer_vars, db_vars, Inv, Control, Recovering, Deleting
  <2>2. \A s \in Seqs : disk'[s].kind = "none"
    BY <1>2, <2>1 DEF InitWrite, Inv, Numbered, Present, Exists
  <2>3. FilesOK(disk', Top') /\ Present' = {}
    BY <2>2, EmptyDirectory DEF Present, Exists
  <2>4. \A dead : Sound(disk', 0, dead) /\ Database(disk', MetasIn(disk', 0, dead)) = {}
    BY <2>2, EmptyDirectory
  <2>5. Shape' /\ Recovering' /\ Deleting'
    BY <2>1, <2>3 DEF Shape, Recovering, Deleting
  <2>6. Loadable' /\ Running'
    BY <2>1, <2>3, <2>4 DEF Loadable, Running
  <2> QED
    BY <2>5, <2>6 DEF DiskInv
<1>3. ASSUME NEW ro \in BOOLEAN, OpenStart(ro) PROVE DiskInv'
  <2>1. /\ proc = "down" /\ proc' = "recover" /\ todo' = Leftovers /\ stage' = "idle" /\ to_delete' = {}
        /\ UNCHANGED <<disk, CURRENT, stable, meta_files, current_sequence_number>>
    BY <1>3 DEF OpenStart, disk_vars, writer_vars, Inv, Control, Deleting
  <2>2. \A s \in Seqs : IsDead(s, CURRENT) <=> s \in Dead(CURRENT)
    BY DEF IsDead, IsKind, Dead, DeadIn
  <2>3. Recovering'
    BY <2>1, <2>2 DEF Recovering, TodoOK, Leftovers, IsKind, Present, Exists, Dead
  <2>4. Shape' /\ Loadable'
    BY <2>1 DEF Shape, Top, Loadable, Dead
  <2>5. Running' /\ Deleting'
    BY <2>1 DEF Running, Deleting
  <2> QED
    BY <2>3, <2>4, <2>5 DEF DiskInv
<1>4. ASSUME NEW s \in Seqs, RecoverRemove(s) PROVE DiskInv'
  BY <1>4, RecoverRemoveDisk
<1>5. CASE OpenFinish
  <2>1. /\ proc = "recover" /\ proc' = "open" /\ todo = {} /\ stage' = "idle" /\ to_delete' = {}
        /\ meta_files' = Load(CURRENT) /\ current_sequence_number' = CURRENT
        /\ UNCHANGED <<disk, CURRENT, stable>>
    BY <1>5 DEF OpenFinish, disk_vars, writer_vars, Inv, Control, Deleting
  <2>2. CURRENT \in Nat /\ Top = CURRENT /\ Top' = MaxSeq
    BY <2>1 DEF Inv, Control, Top
  <2>3. \A s \in Seqs : disk[s].kind = "sst" => s <= CURRENT
    BY <2>1, <2>2 DEF Recovering, TodoOK, Present, Exists
  <2>4. FilesOK(disk, MaxSeq)
    BY <2>2, <2>3, FilesRemoved DEF Shape
  <2>5. Shape' /\ Loadable' /\ Recovering' /\ Deleting'
    BY <2>1, <2>2, <2>4 DEF Shape, Loadable, Dead, Recovering, Deleting
  <2>6. Running'
    <3>1. DeadNow' = Dead(CURRENT) /\ Dead(CURRENT)' = Dead(CURRENT)
      BY <2>1 DEF DeadNow, Dead
    <3>2. Dead(CURRENT) \cap Present = {}
      BY <2>1 DEF Recovering, TodoOK
    <3>3. Sound(disk, CURRENT, Dead(CURRENT))
      BY <2>2 DEF Loadable
    <3>4. meta_files' = Database(disk, MetasIn(disk, CURRENT, Dead(CURRENT)))
      BY <2>1, LoadIs
    <3> QED
      BY <2>1, <3>1, <3>2, <3>3, <3>4 DEF Running, Present, Exists
  <2> QED
    BY <2>5, <2>6 DEF DiskInv
<1> QED
  BY <1>1, <1>2, <1>3, <1>4, <1>5 DEF Opening

LEMMA SameBelow ==
  ASSUME NEW d, NEW e, NEW cur \in Nat, ListsLower(d), \A s \in Seqs : s <= cur => e[s] = d[s]
  PROVE  /\ DeadIn(e, cur) = DeadIn(d, cur)
         /\ \A dead : /\ MetasIn(e, cur, dead) = MetasIn(d, cur, dead)
                      /\ Database(e, MetasIn(e, cur, dead)) = Database(d, MetasIn(d, cur, dead))
                      /\ Sound(d, cur, dead) => Sound(e, cur, dead)
<1>1. DeadIn(e, cur) = DeadIn(d, cur)
  BY DEF DeadIn
<1> QED
  BY <1>1, SoundKept

\* New files do not touch what CURRENT counts, nor what the running database consists of.
LEMMA Grow ==
  ASSUME RecoveryInv, stage \in {"batch", "metas", "del"}, NEW new \in SUBSET Nat,
         UNCHANGED <<CURRENT, stable, meta_files, current_sequence_number, proc, todo, to_delete>>,
         stage' = stage \/ (stage = "del" /\ stage' = "current"),
         \A s \in Seqs : s \notin new => disk'[s] = disk[s],
         \A s \in Seqs : disk[s].kind # "none" => \A n \in new : s < n,
         \A n \in new : n > CURRENT /\ n > stable,
         \A n \in new \cap Seqs : n > current_sequence_number \/ disk'[n].kind = "del",
         \A n \in new \cap Seqs : FileOK(disk', MaxSeq, n)
  PROVE  Shape' /\ Loadable' /\ Recovering' /\ Running'
<1>1. /\ proc = "open" /\ CURRENT \in Nat /\ stable \in Nat /\ current_sequence_number \in Nat /\ Top = MaxSeq
      /\ stage \notin {"idle", "failed"}
  BY DEF RecoveryInv, Inv, Typed, Control, Top
<1>2. FilesOK(disk, MaxSeq) /\ ListsLower(disk)
  BY <1>1, ListsAreLower DEF RecoveryInv, Shape
<1>3. \A n \in new \cap Seqs : disk[n].kind = "none"
  OBVIOUS
<1>4. Shape'
  <2>1. FilesOK(disk', MaxSeq)
    BY <1>2, FilesCreated
  <2> QED
    BY <1>1, <2>1 DEF Shape, Top
<1>5. ASSUME NEW cur \in {CURRENT, stable} PROVE Dead(cur)' = Dead(cur) /\ Sound(disk', cur, Dead(cur))
  <2>1. cur \in Nat /\ \A s \in Seqs : s <= cur => disk'[s] = disk[s]
    BY <1>1
  <2>2. Sound(disk, cur, Dead(cur))
    BY <2>1 DEF RecoveryInv, Loadable
  <2> QED
    BY <1>2, <2>1, <2>2, SameBelow DEF Dead
<1>6. Loadable'
  BY <1>1, <1>5 DEF RecoveryInv, Loadable
<1>7. Recovering'
  BY <1>1 DEF Recovering
<1>8. Running'
  <2>1. DeadNow' = DeadNow
    BY <1>5 DEF DeadNow
  <2>2. meta_files = Database(disk, MetasIn(disk, current_sequence_number, DeadNow))
        /\ Sound(disk, current_sequence_number, DeadNow) /\ DeadNow \cap Present \subseteq to_delete
    BY <1>1 DEF RecoveryInv, Running
  <2>3. ASSUME NEW s \in Seqs, s <= current_sequence_number, disk[s].kind \in {"sst", "meta"} \/ disk'[s].kind \in {"sst", "meta"}
        PROVE  disk'[s] = disk[s]
    BY <1>1, <1>3, <2>3
  <2>4. /\ MetasIn(disk', current_sequence_number, DeadNow) = MetasIn(disk, current_sequence_number, DeadNow)
        /\ Database(disk', MetasIn(disk', current_sequence_number, DeadNow)) = Database(disk, MetasIn(disk, current_sequence_number, DeadNow))
        /\ Sound(disk', current_sequence_number, DeadNow)
    BY <1>1, <1>2, <2>2, <2>3, SoundKept
  <2>5. ASSUME NEW s \in DeadNow \cap Present' PROVE s \in to_delete
    <3>1. CASE s \in Dead(CURRENT)
      <4>1. s < CURRENT /\ s \in Seqs
        BY <1>1, <1>2, <3>1, DeadIsTyped DEF Dead
      <4>2. s \notin new
        BY <1>1, <4>1
      <4> QED
        BY <2>2, <2>5, <4>2 DEF Present, Exists
    <3> QED
      BY <3>1 DEF DeadNow
  <2> QED
    BY <1>1, <2>1, <2>2, <2>4, <2>5 DEF Running
<1> QED
  BY <1>4, <1>6, <1>7, <1>8

LEMMA LiveFacts ==
  ASSUME RecoveryInv, stage \in Unpublished, proc = "open", NEW f, NEW s \in Live(f)
  PROVE  /\ s \in Seqs /\ s < current_sequence_number /\ disk[s].kind = "sst" /\ disk[s].family = f
         /\ OnOffer(disk, MetasIn(disk, current_sequence_number, DeadNow), s)
<1> DEFINE M == MetasIn(disk, current_sequence_number, DeadNow)
<1>1. /\ meta_files = Database(disk, M) /\ Sound(disk, current_sequence_number, DeadNow)
      /\ current_sequence_number \in Nat
  BY DEF RecoveryInv, Running, Unpublished, Inv, Typed
<1>2. PICK m \in M : Entry(disk, M, m).family = f /\ s \in Entry(disk, M, m).live
  <2>1. PICK x \in meta_files : x.family = f /\ s \in x.live
    BY DEF Live
  <2> QED
    BY <1>1, <2>1 DEF Database
<1>3. disk[m].family = f /\ s \in DOMAIN disk[m].ssts /\ ~Hidden(disk, M, m, s)
  BY <1>2 DEF Entry, Offering
<1>4. s \in Seqs /\ disk[s].kind = "sst" /\ disk[s].family = f
  BY <1>1, <1>3 DEF Sound, Offers
<1>5. s < m /\ m <= current_sequence_number /\ m \in Nat
  BY <1>3, <1>4, ListsAreLower DEF RecoveryInv, Shape, ListsLower, Mentions, MetasIn
<1> QED
  BY <1>1, <1>3, <1>4, <1>5 DEF OnOffer

\* What a writer has collected is not touched by new files.
LEMMA WorkGrows ==
  ASSUME RecoveryInv, stage \in {"batch", "metas"}, NEW new \in SUBSET Seqs,
         UNCHANGED <<meta_files, current_sequence_number, stage, obsolete>>,
         \A s \in Seqs : s \notin new => disk'[s] = disk[s],
         \A s \in Seqs : disk[s].kind # "none" => \A n \in new : s < n,
         \A n \in new : n > current_sequence_number /\ disk'[n].kind \notin {"none", "del"},
         new_files' = new_files \cup new
  PROVE  /\ Work
         /\ \A s \in Present : s \notin new
         /\ \A f : Live(f)' = Live(f)
         /\ \A f, s : Collectable(f, s) => Collectable(f, s)' /\ s \in Present
         /\ \A f \in Families : PlacesApart(disk', new_ssts[f])
         /\ new_files' = {s \in Present' : s > current_sequence_number'}
         /\ \A s \in new_files' : disk'[s].kind # "del"
         /\ NewMetas' = NewMetas \cup {n \in new : disk'[n].kind = "meta"}
         /\ \A m \in new_files : disk'[m] = disk[m] /\ m \in Present
<1>1. Work
  BY DEF RecoveryInv, Writer
<1>2. \A s \in Present : s \notin new
  BY DEF Present, Exists
<1>3. \A f : Live(f)' = Live(f)
  BY DEF Live
<1>4. ASSUME NEW f, NEW s, Collectable(f, s) PROVE Collectable(f, s)' /\ s \in Present
  BY <1>2, <1>3, <1>4 DEF Collectable, Present, Exists
<1>5. ASSUME NEW f \in Families PROVE PlacesApart(disk', new_ssts[f])
  <2>1. PlacesApart(disk, new_ssts[f]) /\ \A s \in DOMAIN new_ssts[f] : disk'[s] = disk[s]
    BY <1>1, <1>2, <1>4 DEF Work, CollectedOK, Present
  <2> QED
    BY <2>1 DEF PlacesApart
<1>6. new_files = {s \in Present : s > current_sequence_number} /\ new_files \subseteq Present
  BY <1>1 DEF Work
<1>7. Present' = Present \cup new
  BY DEF Present, Exists
<1>8. new_files' = {s \in Present' : s > current_sequence_number'}
  BY <1>6, <1>7
<1>9. \A m \in new_files : disk'[m] = disk[m] /\ m \in Present
  BY <1>2, <1>6 DEF Present
<1>10. \A s \in new_files' : disk'[s].kind # "del"
  BY <1>1, <1>9 DEF Work
<1>11. NewMetas' = NewMetas \cup {n \in new : disk'[n].kind = "meta"}
  BY <1>9 DEF NewMetas
<1> QED
  BY <1>1, <1>2, <1>3, <1>4, <1>5, <1>8, <1>9, <1>10, <1>11

LEMMA CreateFileFacts ==
  ASSUME RecoveryInv, stage \in {"batch", "metas"}, NEW content, NEW room \in Nat, CreateFile(content, room)
  PROVE  /\ next_seq + 1 \in Seqs /\ disk'[next_seq + 1] = content /\ new_files' = new_files \cup {next_seq + 1}
         /\ \A s \in Seqs : s \notin {next_seq + 1} => disk'[s] = disk[s]
         /\ \A s \in Seqs : disk[s].kind # "none" => \A n \in {next_seq + 1} : s < n
         /\ next_seq + 1 > current_sequence_number /\ CURRENT = current_sequence_number
         /\ stable = current_sequence_number
BY DEF RecoveryInv, Inv, Typed, Control, Numbered, CreateFile, Present, Exists

\* One more file in the directory.
LEMMA CreateFileDisk ==
  ASSUME RecoveryInv, stage \in {"batch", "metas"}, NEW content, NEW room \in Nat, CreateFile(content, room),
         UNCHANGED <<CURRENT, stable, db_vars, proc, todo, stage, to_delete>>,
         FileOK(disk', MaxSeq, next_seq + 1)
  PROVE  DiskInv'
<1> DEFINE new == {next_seq + 1}
<1>0. UNCHANGED <<meta_files, current_sequence_number>>
  BY DEF db_vars
<1>1. Shape' /\ Loadable' /\ Recovering' /\ Running'
  <2>1. /\ new \in SUBSET Nat /\ \A n \in new : n > CURRENT /\ n > stable
        /\ \A n \in new \cap Seqs : n > current_sequence_number \/ disk'[n].kind = "del"
        /\ \A n \in new \cap Seqs : FileOK(disk', MaxSeq, n)
        /\ \A s \in Seqs : s \notin new => disk'[s] = disk[s]
        /\ \A s \in Seqs : disk[s].kind # "none" => \A n \in new : s < n
    BY CreateFileFacts
  <2> HIDE DEF new
  <2> QED
    BY <1>0, <2>1, Grow
<1>2. Deleting'
  BY <1>0 DEF RecoveryInv, Deleting
<1> QED
  BY <1>1, <1>2 DEF DiskInv

LEMMA WorkKept ==
  ASSUME RecoveryInv, stage \in {"batch", "metas"}, NEW new \in SUBSET Seqs,
         UNCHANGED <<meta_files, current_sequence_number, stage, obsolete>>,
         \A s \in Seqs : s \notin new => disk'[s] = disk[s],
         \A s \in Seqs : disk[s].kind # "none" => \A n \in new : s < n,
         \A n \in new : n > current_sequence_number /\ disk'[n].kind \notin {"none", "del"},
         new_files' = new_files \cup new
  PROVE  /\ \A m \in NewMetas : m \in NewMetas' /\ disk'[m] = disk[m] /\ NewMetaOK(m)'
         /\ \A s \in new_files : disk'[s].kind = "sst" =>
              \/ disk'[s].family \in Families /\ s \in DOMAIN new_ssts[disk'[s].family]
              \/ \E m \in NewMetas' : s \in DOMAIN disk'[m].ssts
         /\ \A f \in Families : new_ssts'[f] = new_ssts[f] /\ jobs'[f] = jobs[f] => CollectedOK(f)' /\ JobsOK(f)'
<1>1. /\ Work /\ \A f : Live(f)' = Live(f)
      /\ \A f, s : Collectable(f, s) => Collectable(f, s)' /\ s \in Present
      /\ \A f \in Families : PlacesApart(disk', new_ssts[f])
      /\ NewMetas' = NewMetas \cup {n \in new : disk'[n].kind = "meta"}
      /\ \A m \in new_files : disk'[m] = disk[m] /\ m \in Present
  BY WorkGrows
<1>2. \A m \in NewMetas : m \in NewMetas' /\ disk'[m] = disk[m]
  BY <1>1 DEF NewMetas
<1>3. ASSUME NEW m \in NewMetas PROVE NewMetaOK(m)'
  <2>1. disk'[m] = disk[m]
    BY <1>2
  <2>2. disk[m].obsolete = obsolete[disk[m].family] /\ \A s \in DOMAIN disk[m].ssts : Collectable(disk[m].family, s)
    BY <1>1 DEF Work, NewMetaOK
  <2>3. PICK f : f = disk[m].family
    OBVIOUS
  <2>4. \A s \in DOMAIN disk[m].ssts : Collectable(f, s)'
    BY <1>1, <2>2, <2>3
  <2> QED
    BY <2>1, <2>2, <2>3, <2>4 DEF NewMetaOK, Collectable
<1>4. ASSUME NEW s \in new_files, disk'[s].kind = "sst"
      PROVE  \/ disk'[s].family \in Families /\ s \in DOMAIN new_ssts[disk'[s].family]
             \/ \E m \in NewMetas' : s \in DOMAIN disk'[m].ssts
  <2>1. disk'[s] = disk[s] /\ s \in Present
    BY <1>1
  <2>2. disk[s].family \in Families
    BY <1>4, <2>1 DEF RecoveryInv, TypeOK, SstFile, NoFile, Present
  <2>3. s \in DOMAIN new_ssts[disk[s].family] \/ \E m \in NewMetas : s \in DOMAIN disk[m].ssts
    BY <1>1, <1>4, <2>1 DEF Work
  <2> QED
    BY <1>2, <2>1, <2>2, <2>3
<1>5. ASSUME NEW f \in Families, new_ssts'[f] = new_ssts[f], jobs'[f] = jobs[f] PROVE CollectedOK(f)' /\ JobsOK(f)'
  <2>1. CollectedOK(f) /\ JobsOK(f)
    BY <1>1 DEF Work
  <2>2. CollectedOK(f)'
    BY <1>1, <1>5, <2>1 DEF CollectedOK
  <2>3. JobsOK(f)'
    BY <1>1, <1>2, <1>5, <2>1 DEF JobsOK
  <2> QED
    BY <2>2, <2>3
<1> QED
  BY <1>2, <1>3, <1>4, <1>5

LEMMA BatchRowsBlobs ==
  ASSUME NEW rows \in BatchRows, NEW b \in BlobsOf(rows)
  PROVE  b \in new_files /\ b \in Seqs /\ disk[b].kind = "blob"
<1>1. PICK D \in SUBSET Keys :
        rows \in [D -> (Values \ LargeValues) \cup {Deleted} \cup [blob : UnreferencedBlobs]]
  BY DEF BatchRows
<1>2. PICK k \in DOMAIN rows : rows[k] = [blob |-> b]
  BY DEF BlobsOf
<1>3. b \in Seqs /\ [blob |-> b] \in [blob : Nat]
  BY DEF BlobsOf
<1>4. [blob |-> b] \notin Values \cup {Deleted}
  BY <1>3, ValuesAssumption
<1>5. rows[k] \in (Values \ LargeValues) \cup {Deleted} \cup [blob : UnreferencedBlobs]
  BY <1>1, <1>2
<1>6. [blob |-> b] \in [blob : UnreferencedBlobs]
  BY <1>2, <1>4, <1>5
<1>7. b \in UnreferencedBlobs
  BY <1>6
<1> QED
  BY <1>7 DEF UnreferencedBlobs, IsKind

LEMMA CreateBlobStep ==
  ASSUME RecoveryInv, NEW v \in LargeValues, CreateBlob(v)
  PROVE  DiskInv' /\ Writer'
<1>0. PICK n : n = next_seq + 1
  OBVIOUS
<1> DEFINE new == {n}
<1>1. /\ stage = "batch" /\ CreateFile([kind |-> "blob", value |-> v], 2)
      /\ UNCHANGED <<CURRENT, stable, db_vars, proc, todo, stage, new_ssts, jobs, obsolete, to_delete>>
  BY DEF CreateBlob
<1>2. /\ n \in Seqs /\ new \in SUBSET Seqs /\ disk'[n].kind = "blob" /\ new_files' = new_files \cup new
      /\ \A s \in Seqs : s \notin new => disk'[s] = disk[s]
      /\ \A s \in Seqs : disk[s].kind # "none" => \A x \in new : s < x
      /\ \A x \in new : x > current_sequence_number
  BY <1>0, <1>1, CreateFileFacts
<1>3. DiskInv'
  <2>1. FileOK(disk', MaxSeq, n)
    BY <1>2 DEF FileOK
  <2> QED
    BY <1>0, <1>1, <2>1, CreateFileDisk
<1>4. UNCHANGED <<meta_files, current_sequence_number, stage, obsolete>> /\ stage \in {"batch", "metas"}
  BY <1>1 DEF db_vars
<1>5. \A x \in new : x > current_sequence_number /\ disk'[x].kind \notin {"none", "del"}
  BY <1>2
<1> HIDE DEF new
<1>6. Work'
  <2>1. /\ Work /\ new_files' = {s \in Present' : s > current_sequence_number'}
        /\ \A s \in new_files' : disk'[s].kind # "del"
        /\ NewMetas' = NewMetas \cup {x \in new : disk'[x].kind = "meta"}
    BY <1>2, <1>4, <1>5, WorkGrows
  <2>2. /\ \A m \in NewMetas : m \in NewMetas' /\ disk'[m] = disk[m] /\ NewMetaOK(m)'
        /\ \A s \in new_files : disk'[s].kind = "sst" =>
              \/ disk'[s].family \in Families /\ s \in DOMAIN new_ssts[disk'[s].family]
              \/ \E m \in NewMetas' : s \in DOMAIN disk'[m].ssts
        /\ \A f \in Families : new_ssts'[f] = new_ssts[f] /\ jobs'[f] = jobs[f] => CollectedOK(f)' /\ JobsOK(f)'
    BY <1>2, <1>4, <1>5, WorkKept
  <2>3. NewMetas' = NewMetas
    BY <1>2, <2>1 DEF new
  <2>4. \A s \in new_files' : disk'[s].kind = "sst" =>
              s \in DOMAIN new_ssts'[disk'[s].family] \/ \E m \in NewMetas' : s \in DOMAIN disk'[m].ssts
    BY <1>1, <1>2, <2>2 DEF new
  <2>5. \A f \in Families : CollectedOK(f)' /\ JobsOK(f)'
    BY <1>1, <2>2
  <2> QED
    BY <1>1, <2>1, <2>2, <2>3, <2>4, <2>5 DEF Work
<1> QED
  BY <1>1, <1>3, <1>6 DEF Writer

LEMMA WriteSstStep ==
  ASSUME RecoveryInv, NEW f \in Families, NEW rows \in BatchRows, WriteSst(f, rows)
  PROVE  DiskInv' /\ Writer'
<1>0. PICK n : n = next_seq + 1
  OBVIOUS
<1> DEFINE new == {n}
<1>1. /\ stage = "batch" /\ CreateFile([kind |-> "sst", family |-> f, rows |-> rows], 1)
      /\ UNCHANGED <<CURRENT, stable, db_vars, proc, todo, stage, jobs, obsolete, to_delete>>
  BY DEF WriteSst
<1>2. /\ n \in Seqs /\ new \in SUBSET Seqs /\ new_files' = new_files \cup new
      /\ disk'[n].kind = "sst" /\ disk'[n].family = f /\ disk'[n].rows = rows
      /\ \A s \in Seqs : s \notin new => disk'[s] = disk[s]
      /\ \A s \in Seqs : disk[s].kind # "none" => \A x \in new : s < x
      /\ \A x \in new : x > current_sequence_number
  BY <1>0, <1>1, CreateFileFacts
<1>3. DiskInv'
  <2>1. ASSUME NEW b \in BlobsOf(rows) PROVE b \in Seqs /\ disk[b].kind = "blob" /\ b < n /\ disk'[b] = disk[b]
    BY <1>2, BatchRowsBlobs
  <2>2. FileOK(disk', MaxSeq, n)
    BY <1>2, <2>1 DEF FileOK
  <2> QED
    BY <1>0, <1>1, <2>2, CreateFileDisk
<1>4. UNCHANGED <<meta_files, current_sequence_number, stage, obsolete>> /\ stage \in {"batch", "metas"}
  BY <1>1 DEF db_vars
<1>5. \A x \in new : x > current_sequence_number /\ disk'[x].kind \notin {"none", "del"}
  BY <1>2
<1>6. /\ new_ssts'[f] = [s \in DOMAIN new_ssts[f] \cup {n} |-> IF s \in DOMAIN new_ssts[f] THEN new_ssts[f][s] ELSE s]
      /\ \A g \in Families : g # f => new_ssts'[g] = new_ssts[g]
  <2>1. new_ssts = [g \in Families |-> new_ssts[g]]
    BY DEF RecoveryInv, TypeOK
  <2> QED
    BY <1>0, <2>1 DEF WriteSst
<1> HIDE DEF new
<1>7. Work'
  <2>1. /\ Work /\ new_files' = {s \in Present' : s > current_sequence_number'}
        /\ \A s \in new_files' : disk'[s].kind # "del"
        /\ NewMetas' = NewMetas \cup {x \in new : disk'[x].kind = "meta"}
        /\ \A g, s : Collectable(g, s) => Collectable(g, s)' /\ s \in Present
    BY <1>2, <1>4, <1>5, WorkGrows
  <2>2. /\ \A m \in NewMetas : m \in NewMetas' /\ disk'[m] = disk[m] /\ NewMetaOK(m)'
        /\ \A s \in new_files : disk'[s].kind = "sst" =>
              \/ disk'[s].family \in Families /\ s \in DOMAIN new_ssts[disk'[s].family]
              \/ \E m \in NewMetas' : s \in DOMAIN disk'[m].ssts
        /\ \A g \in Families : new_ssts'[g] = new_ssts[g] /\ jobs'[g] = jobs[g] => CollectedOK(g)' /\ JobsOK(g)'
    BY <1>2, <1>4, <1>5, WorkKept
  <2>3. NewMetas' = NewMetas
    BY <1>2, <2>1 DEF new
  <2>4. \A s \in new_files' : disk'[s].kind = "sst" =>
              s \in DOMAIN new_ssts'[disk'[s].family] \/ \E m \in NewMetas' : s \in DOMAIN disk'[m].ssts
    <3>1. \A g \in Families : DOMAIN new_ssts[g] \subseteq DOMAIN new_ssts'[g]
      BY <1>6
    <3>2. disk'[n].family = f /\ n \in DOMAIN new_ssts'[f]
      BY <1>2, <1>6
    <3> QED
      BY <1>2, <2>2, <3>1, <3>2 DEF new
  <2>5. /\ jobs'[f] = EmptyFunction /\ obsolete'[f] = {}
        /\ \A s \in DOMAIN new_ssts'[f] : new_ssts'[f][s] = s
    BY <1>1, <1>6, <2>1 DEF Work
  <2>6. CollectedOK(f)'
    <3>1. Collectable(f, n)'
      BY <1>1, <1>2, <1>4, <2>5 DEF Collectable, new
    <3>2. \A s \in DOMAIN new_ssts'[f] : Collectable(f, s)'
      <4>1. \A s \in DOMAIN new_ssts[f] : Collectable(f, s)
        BY <2>1 DEF Work, CollectedOK
      <4> QED
        BY <1>6, <2>1, <3>1, <4>1
    <3>3. PlacesApart(disk', new_ssts'[f])
      BY <2>5 DEF PlacesApart
    <3>4. DOMAIN jobs'[f] = {}
      BY <2>5 DEF EmptyFunction
    <3> QED
      BY <3>2, <3>3, <3>4 DEF CollectedOK
  <2>7. JobsOK(f)'
    BY <2>5 DEF JobsOK, EmptyFunction
  <2>8. \A g \in Families : CollectedOK(g)' /\ JobsOK(g)'
    BY <1>1, <1>6, <2>2, <2>6, <2>7
  <2>9. ASSUME NEW g \in Families
        PROVE  jobs'[g] = EmptyFunction /\ obsolete'[g] = {} /\ \A s \in DOMAIN new_ssts'[g] : new_ssts'[g][s] = s
    <3>1. CASE g = f
      BY <2>5, <3>1
    <3>2. CASE g # f
      BY <1>1, <1>6, <2>1, <3>2 DEF Work
    <3> QED
      BY <3>1, <3>2
  <2> QED
    BY <1>1, <2>1, <2>2, <2>3, <2>4, <2>8, <2>9 DEF Work
<1> QED
  BY <1>1, <1>3, <1>7 DEF Writer

LEMMA BeginStep ==
  ASSUME RecoveryInv, AcquireWrite
  PROVE  /\ proc = "open" /\ stage = "idle" /\ NoWork /\ to_delete = {}
         /\ {s \in Present : s > current_sequence_number} = {}
BY DEF RecoveryInv, AcquireWrite, Inv, Typed, Control, Numbered, Writer, Deleting, Present

LEMMA BatchingStep == RecoveryInv /\ Batching => DiskInv' /\ Writer'
<1> SUFFICES ASSUME RecoveryInv, Batching PROVE DiskInv' /\ Writer'
  OBVIOUS
<1>1. CASE BeginBatch
  <2>1. /\ AcquireWrite /\ stage' = "batch"
        /\ UNCHANGED <<disk, CURRENT, stable, meta_files, current_sequence_number, proc, todo, to_delete,
                       new_files, new_ssts, jobs, obsolete>>
    BY <1>1 DEF BeginBatch, disk_vars
  <2>2. proc = "open" /\ stage = "idle" /\ NoWork /\ {s \in Present : s > current_sequence_number} = {}
    BY <2>1, BeginStep
  <2>3. DiskInv'
    BY <2>1, <2>2, Quiet DEF RecoveryInv, DiskInv, Unpublished
  <2>4. new_files' = {} /\ {s \in Present' : s > current_sequence_number'} = {}
        /\ \A f \in Families : new_ssts'[f] = EmptyFunction /\ jobs'[f] = EmptyFunction /\ obsolete'[f] = {}
    BY <2>1, <2>2 DEF NoWork, Present, Exists
  <2>5. Work'
    BY <2>1, <2>4 DEF Work, NewMetas, CollectedOK, JobsOK, PlacesApart, EmptyFunction
  <2> QED
    BY <2>1, <2>3, <2>5 DEF Writer
<1>2. ASSUME NEW v \in LargeValues, CreateBlob(v) PROVE DiskInv' /\ Writer'
  BY <1>2, CreateBlobStep
<1>3. ASSUME NEW f \in Families, NEW rows \in BatchRows, WriteSst(f, rows) PROVE DiskInv' /\ Writer'
  BY <1>3, WriteSstStep
<1>4. CASE FinishBatch
  <2>1. /\ stage = "batch" /\ stage' = "metas"
        /\ UNCHANGED <<disk, CURRENT, stable, meta_files, current_sequence_number, proc, todo, to_delete,
                       new_files, new_ssts, jobs, obsolete>>
    BY <1>4 DEF FinishBatch, disk_vars, db_vars
  <2>2. DiskInv'
    BY <2>1, Quiet DEF RecoveryInv, DiskInv, Unpublished
  <2>3. Work
    BY <2>1 DEF RecoveryInv, Writer
  <2>4. /\ NewMetas' = NewMetas /\ Present' = Present /\ \A f, s : Collectable(f, s)' <=> Collectable(f, s)
        /\ \A f : JobsOK(f)' <=> JobsOK(f)
    BY <2>1 DEF NewMetas, Present, Exists, Collectable, Live, JobsOK
  <2>5. \A m : NewMetaOK(m) => NewMetaOK(m)'
    BY <2>1 DEF NewMetaOK, Collectable, Live
  <2>6. \A f : CollectedOK(f) => CollectedOK(f)'
    BY <2>1, <2>4 DEF CollectedOK
  <2>7. Work'
    BY <2>1, <2>3, <2>4, <2>5, <2>6 DEF Work
  <2> QED
    BY <2>1, <2>2, <2>7 DEF Writer
<1> QED
  BY <1>1, <1>2, <1>3, <1>4 DEF Batching

\* The meta file that offers an SST file, and the place it gives it.
Offerer(metas, s) == CHOOSE m \in metas : s \in DOMAIN disk[m].ssts /\ ~Hidden(disk, metas, m, s)
Place(metas, s) == disk[Offerer(metas, s)].ssts[s]

LEMMA OlderIs ==
  ASSUME NEW metas \in SUBSET Seqs, meta_files = Database(disk, metas), NEW s, OnOffer(disk, metas, s),
         NEW t, OnOffer(disk, metas, t)
  PROVE  /\ Offerer(metas, s) \in metas /\ s \in DOMAIN disk[Offerer(metas, s)].ssts
         /\ Older(s, t) <=> \/ Offerer(metas, s) < Offerer(metas, t)
                            \/ Offerer(metas, s) = Offerer(metas, t) /\ Place(metas, s) < Place(metas, t)
<1> DEFINE Offers1(m, x) == x \in DOMAIN disk[m].ssts /\ ~Hidden(disk, metas, m, x)
<1>1. ASSUME NEW x, OnOffer(disk, metas, x)
      PROVE  Offerer(metas, x) \in metas /\ Offers1(Offerer(metas, x), x)
  BY <1>1 DEF Offerer, OnOffer
<1>2. ASSUME NEW x, OnOffer(disk, metas, x), NEW m \in metas, Offers1(m, x) PROVE m = Offerer(metas, x)
  <2>1. PICK n \in metas : n = Offerer(metas, x) /\ Offers1(n, x)
    BY <1>1, <1>2
  <2>2. ~(n > m) /\ ~(m > n)
    BY <1>2, <2>1 DEF Hidden, Mentions
  <2> QED
    BY <2>1, <2>2
<1>3. \A m \in metas : /\ Entry(disk, metas, m) \in meta_files /\ Entry(disk, metas, m).seq = m
                       /\ Entry(disk, metas, m).ssts = disk[m].ssts
                       /\ \A x : x \in Entry(disk, metas, m).live <=> Offers1(m, x)
  BY DEF Database, Entry, Offering
<1> HIDE DEF Offers1
<1>4. \A x \in meta_files : \E m \in metas : x = Entry(disk, metas, m)
  BY DEF Database
<1>5. ASSUME Older(s, t)
      PROVE  \/ Offerer(metas, s) < Offerer(metas, t)
             \/ Offerer(metas, s) = Offerer(metas, t) /\ Place(metas, s) < Place(metas, t)
  <2>1. PICK a, b \in metas :
          /\ s \in Entry(disk, metas, a).live /\ t \in Entry(disk, metas, b).live
          /\ \/ Entry(disk, metas, a).seq < Entry(disk, metas, b).seq
             \/ /\ Entry(disk, metas, a).seq = Entry(disk, metas, b).seq
                /\ Entry(disk, metas, a).ssts[s] < Entry(disk, metas, b).ssts[t]
    BY <1>4, <1>5 DEF Older
  <2>2. a = Offerer(metas, s) /\ b = Offerer(metas, t)
    BY <1>2, <1>3, <2>1
  <2> QED
    BY <1>3, <2>1, <2>2 DEF Place
<1>6. ASSUME \/ Offerer(metas, s) < Offerer(metas, t)
             \/ Offerer(metas, s) = Offerer(metas, t) /\ Place(metas, s) < Place(metas, t)
      PROVE  Older(s, t)
  <2> DEFINE a == Entry(disk, metas, Offerer(metas, s))
             b == Entry(disk, metas, Offerer(metas, t))
  <2>1. /\ a \in meta_files /\ a.seq = Offerer(metas, s) /\ a.ssts[s] = Place(metas, s) /\ s \in a.live
        /\ b \in meta_files /\ b.seq = Offerer(metas, t) /\ b.ssts[t] = Place(metas, t) /\ t \in b.live
    BY <1>1, <1>3 DEF Place
  <2> HIDE DEF a, b
  <2> QED
    BY <1>6, <2>1 DEF Older
<1> QED
  BY <1>1, <1>5, <1>6 DEF Offers1

\* Among SST files on offer that hold key k one is newer than all others.
LEMMA NewestHolder ==
  ASSUME RecoveryInv, NEW metas \in SUBSET Seqs, meta_files = Database(disk, metas),
         \A m \in metas : disk[m].kind = "meta",
         NEW inputs, \A s \in inputs : s \in Seqs /\ disk[s].kind = "sst" /\ OnOffer(disk, metas, s),
         NEW k, \E s \in inputs : k \in DOMAIN Rows(s)
  PROVE  \E s \in inputs : /\ k \in DOMAIN Rows(s)
                           /\ \A t \in inputs : t # s /\ k \in DOMAIN Rows(t) => Older(t, s)
<1> DEFINE T == {s \in inputs : k \in DOMAIN Rows(s)}
           R == {p \in T \X T : Older(p[1], p[2])}
           M(s) == Offerer(metas, s)
           P(s) == Place(metas, s)
<1>1. ASSUME NEW s \in inputs
      PROVE  M(s) \in metas /\ M(s) \in Nat /\ s \in DOMAIN disk[M(s)].ssts /\ P(s) \in Nat
  <2>1. M(s) \in metas /\ s \in DOMAIN disk[M(s)].ssts
    BY OlderIs
  <2>2. M(s) \in Seqs /\ disk[M(s)].kind = "meta"
    BY <2>1
  <2>3. MetaFile(disk[M(s)])
    BY <2>2 DEF RecoveryInv, TypeOK, NoFile
  <2>4. P(s) \in Nat
    BY <2>1, <2>3 DEF MetaFile, IsPartialFunction, Place
  <2> QED
    BY <2>1, <2>2, <2>4
<1>2. \A s, t \in inputs : Older(s, t) <=> M(s) < M(t) \/ (M(s) = M(t) /\ P(s) < P(t))
  BY OlderIs
<1>3. IsFiniteSet(T) /\ T # {}
  <2>1. IsFiniteSet(1..MaxSeq)
    BY FS_Interval
  <2>2. T \in SUBSET (1..MaxSeq) /\ T # {}
    OBVIOUS
  <2> HIDE DEF T
  <2> QED
    BY <2>1, <2>2, FS_Subset
<1> HIDE DEF M, P
<1>4. PICK s \in T : \A t \in T : <<s, t>> \notin R
  <2>1. \A x \in T : <<x, x>> \notin R
    BY <1>1, <1>2
  <2>2. ASSUME NEW x \in T, NEW y \in T, NEW z \in T, <<x, y>> \in R, <<y, z>> \in R PROVE <<x, z>> \in R
    <3>1. Older(x, y) /\ Older(y, z)
      BY <2>2
    <3>2. /\ M(x) < M(y) \/ (M(x) = M(y) /\ P(x) < P(y))
          /\ M(y) < M(z) \/ (M(y) = M(z) /\ P(y) < P(z))
      BY <1>2, <3>1
    <3>3. M(x) < M(z) \/ (M(x) = M(z) /\ P(x) < P(z))
      BY <1>1, <3>2
    <3> QED
      BY <1>2, <3>3
  <2> HIDE DEF T, R
  <2> QED
    BY <1>3, <2>1, <2>2, Maximal
<1>5. ASSUME NEW t \in inputs, t # s, k \in DOMAIN Rows(t) PROVE Older(t, s)
  <2>1. ~Older(s, t)
    BY <1>4, <1>5
  <2>2. CASE M(s) = M(t)
    <3>1. P(s) # P(t)
      <4>1. SUFFICES ASSUME P(s) = P(t) PROVE FALSE
        OBVIOUS
      <4>2. PlacesApart(disk, disk[M(s)].ssts)
        BY <1>1 DEF RecoveryInv, Shape, FilesOK, FileOK
      <4>3. disk[M(s)].ssts[s] = disk[M(s)].ssts[t] /\ s \in DOMAIN disk[M(s)].ssts /\ t \in DOMAIN disk[M(s)].ssts
        BY <1>1, <2>2, <4>1 DEF P, M, Place
      <4>4. DOMAIN disk[s].rows \cap DOMAIN disk[t].rows = {}
        BY <1>5, <4>2, <4>3 DEF PlacesApart
      <4>5. k \in DOMAIN disk[s].rows /\ k \in DOMAIN disk[t].rows
        BY <1>5 DEF Rows, IsKind
      <4> QED
        BY <4>4, <4>5
    <3> QED
      BY <1>1, <1>2, <2>1, <2>2, <3>1
  <2>3. CASE M(s) # M(t)
    BY <1>1, <1>2, <2>1, <2>3
  <2> QED
    BY <2>2, <2>3
<1> QED
  BY <1>5

\* A merge keeps, for each key of its inputs, the entry of one of them.
LEMMA MergedRows ==
  ASSUME RecoveryInv, stage \in Unpublished, proc = "open", NEW f, NEW inputs, inputs \subseteq Live(f)
  PROVE  /\ DOMAIN Merged(inputs) = UNION {DOMAIN disk[s].rows : s \in inputs}
         /\ \A k \in DOMAIN Merged(inputs) :
              \E s \in inputs : k \in DOMAIN disk[s].rows /\ Merged(inputs)[k] = disk[s].rows[k]
<1> DEFINE metas == MetasIn(disk, current_sequence_number, DeadNow)
           Newest(k, s) == /\ k \in DOMAIN Rows(s)
                           /\ \A t \in inputs : t # s /\ k \in DOMAIN Rows(t) => Older(t, s)
<1>1. metas \in SUBSET Seqs /\ meta_files = Database(disk, metas) /\ \A m \in metas : disk[m].kind = "meta"
  BY DEF RecoveryInv, Running, Unpublished, MetasIn
<1>2. \A s \in inputs : s \in Seqs /\ disk[s].kind = "sst" /\ OnOffer(disk, metas, s)
  BY LiveFacts
<1>3. \A s \in inputs : Rows(s) = disk[s].rows
  BY <1>2 DEF Rows, IsKind
<1> HIDE DEF metas
<1>4. Merged(inputs) = [k \in UNION {DOMAIN Rows(s) : s \in inputs} |-> Rows(CHOOSE s \in inputs : Newest(k, s))[k]]
  BY DEF Merged
<1>5. UNION {DOMAIN Rows(s) : s \in inputs} = UNION {DOMAIN disk[s].rows : s \in inputs}
  BY <1>3
<1>6. ASSUME NEW k \in UNION {DOMAIN Rows(s) : s \in inputs}
      PROVE  \E s \in inputs : k \in DOMAIN disk[s].rows /\ Merged(inputs)[k] = disk[s].rows[k]
  <2>1. \E s \in inputs : Newest(k, s)
    BY <1>1, <1>2, NewestHolder
  <2>2. PICK s \in inputs : s = (CHOOSE x \in inputs : Newest(k, x)) /\ Newest(k, s)
    <3> HIDE DEF Newest
    <3> QED
      BY <2>1
  <2>3. Merged(inputs)[k] = Rows(s)[k]
    <3> HIDE DEF Newest
    <3> QED
      BY <1>4, <2>2
  <2> QED
    BY <1>3, <2>2, <2>3
<1> HIDE DEF Newest
<1> QED
  BY <1>4, <1>5, <1>6

\* A job's outputs join what is collected for the family's meta file.
LEMMA CollectStep ==
  ASSUME RecoveryInv, stage = "metas", NEW new \in SUBSET Seqs,
         UNCHANGED <<meta_files, current_sequence_number, stage, obsolete>>,
         \A s \in Seqs : s \notin new => disk'[s] = disk[s],
         \A s \in Seqs : disk[s].kind # "none" => \A n \in new : s < n,
         \A n \in new : n > current_sequence_number /\ disk'[n].kind = "sst",
         new_files' = new_files \cup new,
         NEW f \in Families, NEW j \in DOMAIN jobs[f], NEW placed,
         Collect(f, placed), EndJob(f, j),
         DOMAIN placed # {}, \A s \in DOMAIN placed : placed[s] = j,
         PlacesApart(disk', placed),
         \A s \in DOMAIN placed : Collectable(f, s)',
         \A n \in new : disk'[n].family = f /\ n \in DOMAIN placed
  PROVE  Work'
<1>1. /\ new_ssts'[f] = [s \in DOMAIN new_ssts[f] \cup DOMAIN placed |->
                           IF s \in DOMAIN new_ssts[f] THEN new_ssts[f][s] ELSE placed[s]]
      /\ jobs'[f] = [i \in DOMAIN jobs[f] \ {j} |-> jobs[f][i]]
      /\ \A g \in Families : g # f => new_ssts'[g] = new_ssts[g] /\ jobs'[g] = jobs[g]
  <2>1. new_ssts = [g \in Families |-> new_ssts[g]] /\ jobs = [g \in Families |-> jobs[g]]
    BY DEF RecoveryInv, TypeOK
  <2> QED
    BY <2>1 DEF Collect, EndJob
<1>2. stage \in {"batch", "metas"} /\ \A n \in new : n > current_sequence_number /\ disk'[n].kind \notin {"none", "del"}
  OBVIOUS
<1>3. /\ Work /\ new_files' = {s \in Present' : s > current_sequence_number'}
      /\ \A s \in new_files' : disk'[s].kind # "del"
      /\ NewMetas' = NewMetas \cup {x \in new : disk'[x].kind = "meta"}
      /\ \A g, s : Collectable(g, s) => Collectable(g, s)' /\ s \in Present
      /\ \A g \in Families : PlacesApart(disk', new_ssts[g])
      /\ \A g : Live(g)' = Live(g)
  BY <1>2, WorkGrows
<1>4. /\ \A m \in NewMetas : m \in NewMetas' /\ disk'[m] = disk[m] /\ NewMetaOK(m)'
      /\ \A s \in new_files : disk'[s].kind = "sst" =>
            \/ disk'[s].family \in Families /\ s \in DOMAIN new_ssts[disk'[s].family]
            \/ \E m \in NewMetas' : s \in DOMAIN disk'[m].ssts
      /\ \A g \in Families : new_ssts'[g] = new_ssts[g] /\ jobs'[g] = jobs[g] => CollectedOK(g)' /\ JobsOK(g)'
  BY <1>2, WorkKept
<1>5. NewMetas' = NewMetas
  BY <1>3
<1>6. \A s \in new_files' : disk'[s].kind = "sst" =>
            s \in DOMAIN new_ssts'[disk'[s].family] \/ \E m \in NewMetas' : s \in DOMAIN disk'[m].ssts
  <2>1. \A g \in Families : DOMAIN new_ssts[g] \subseteq DOMAIN new_ssts'[g]
    BY <1>1
  <2>2. \A n \in new : disk'[n].family = f /\ n \in DOMAIN new_ssts'[f]
    BY <1>1
  <2> QED
    BY <1>4, <2>1, <2>2
<1>7. CollectedOK(f) /\ JobsOK(f)
  BY <1>3 DEF Work
<1>8. CollectedOK(f)'
  <2>1. \A s \in DOMAIN new_ssts'[f] : Collectable(f, s)'
    BY <1>1, <1>3, <1>7 DEF CollectedOK
  <2>2. PlacesApart(disk', new_ssts'[f])
    <3>1. \A s \in DOMAIN new_ssts[f] : new_ssts[f][s] # j
      BY <1>7 DEF CollectedOK
    <3>2. /\ \A s \in DOMAIN new_ssts[f] : new_ssts'[f][s] = new_ssts[f][s]
          /\ \A s \in DOMAIN new_ssts'[f] : s \notin DOMAIN new_ssts[f] => s \in DOMAIN placed /\ new_ssts'[f][s] = j
      BY <1>1
    <3>3. PlacesApart(disk', new_ssts[f])
      BY <1>3
    <3> QED
      BY <3>1, <3>2, <3>3 DEF PlacesApart
  <2>3. \A s \in DOMAIN new_ssts'[f] : new_ssts'[f][s] \notin DOMAIN jobs'[f]
    BY <1>1, <1>7 DEF CollectedOK
  <2> QED
    BY <2>1, <2>2, <2>3 DEF CollectedOK
<1>9. JobsOK(f)'
  <2>1. DOMAIN new_ssts'[f] # {} /\ obsolete'[f] \subseteq Live(f)'
    BY <1>1, <1>3, <1>7 DEF JobsOK
  <2>2. \A i \in DOMAIN jobs'[f] : i \in DOMAIN jobs[f] /\ jobs'[f][i] = jobs[f][i]
    BY <1>1
  <2> QED
    BY <1>3, <1>7, <2>1, <2>2 DEF JobsOK
<1>10. \A g \in Families : CollectedOK(g)' /\ JobsOK(g)'
  BY <1>1, <1>4, <1>8, <1>9
<1> QED
  BY <1>3, <1>4, <1>5, <1>6, <1>10 DEF Work

LEMMA BeginCompactStep ==
  ASSUME RecoveryInv, NEW plan \in [AllLive -> 0..MaxJobs], BeginCompact(plan)
  PROVE  DiskInv' /\ Writer'
<1>1. /\ AcquireWrite /\ stage' = "metas"
      /\ UNCHANGED <<disk, CURRENT, stable, meta_files, current_sequence_number, proc, todo, to_delete,
                     new_files, new_ssts>>
      /\ \A f \in Families :
           /\ jobs'[f] = [j \in {plan[s] : s \in Live(f)} \ {0} |-> {s \in Live(f) : plan[s] = j}]
           /\ obsolete'[f] = {s \in Live(f) : plan[s] > 0 /\ \E t \in Live(f) : t # s /\ plan[t] = plan[s]}
  BY DEF BeginCompact, disk_vars
<1>2. proc = "open" /\ stage = "idle" /\ NoWork /\ {s \in Present : s > current_sequence_number} = {}
  BY <1>1, BeginStep
<1>3. DiskInv'
  BY <1>1, <1>2, Quiet DEF RecoveryInv, DiskInv, Unpublished
<1>4. /\ new_files' = {} /\ {s \in Present' : s > current_sequence_number'} = {}
      /\ \A f \in Families : new_ssts'[f] = EmptyFunction
      /\ \A f : Live(f)' = Live(f)
  BY <1>1, <1>2 DEF NoWork, Present, Exists, Live
<1>5. ASSUME NEW f \in Families PROVE JobsOK(f)'
  <2> DEFINE J == {plan[s] : s \in Live(f)} \ {0}
  <2>1. \A s \in Live(f) : plan[s] \in Nat
    <3>1. \A s \in Live(f) : s \in AllLive
      BY DEF AllLive
    <3> QED
      BY <3>1
  <2>2. jobs'[f] = [j \in J |-> {s \in Live(f) : plan[s] = j}]
    BY <1>1
  <2>3. \A s : s \in obsolete'[f] <=> s \in Live(f) /\ plan[s] > 0 /\ \E t \in Live(f) : t # s /\ plan[t] = plan[s]
    <3>1. obsolete'[f] = {s \in Live(f) : plan[s] > 0 /\ \E t \in Live(f) : t # s /\ plan[t] = plan[s]}
      BY <1>1
    <3> QED
      BY <3>1
  <2>4. \A j : j \in J <=> j # 0 /\ \E s \in Live(f) : plan[s] = j
    OBVIOUS
  <2> HIDE DEF J
  <2>5. DOMAIN jobs'[f] = J /\ \A j \in J : \A s : s \in jobs'[f][j] <=> s \in Live(f) /\ plan[s] = j
    BY <2>2
  <2>6. obsolete'[f] # {} => DOMAIN jobs'[f] # {}
    <3>1. SUFFICES ASSUME NEW s \in obsolete'[f] PROVE \E j : j \in DOMAIN jobs'[f]
      OBVIOUS
    <3>2. s \in Live(f) /\ plan[s] > 0
      BY <2>3
    <3>3. plan[s] \in J
      BY <2>1, <2>4, <3>2
    <3> QED
      BY <2>5, <3>3
  <2>7. ASSUME NEW j \in J
        PROVE  /\ jobs'[f][j] \subseteq Live(f) /\ jobs'[f][j] # {}
               /\ \A s \in jobs'[f][j] : s \in obsolete'[f] <=> \E t \in jobs'[f][j] : t # s
    <3>1. \A s : s \in jobs'[f][j] <=> s \in Live(f) /\ plan[s] = j
      BY <2>5
    <3>2. \A s \in jobs'[f][j] : plan[s] > 0
      BY <2>1, <2>4, <3>1
    <3>3. \E s : s \in jobs'[f][j]
      BY <2>4, <3>1
    <3> QED
      BY <2>3, <3>1, <3>2, <3>3
  <2> QED
    BY <1>4, <2>3, <2>5, <2>6, <2>7 DEF JobsOK
<1>6. \A f \in Families : CollectedOK(f)'
  BY <1>4 DEF CollectedOK, PlacesApart, EmptyFunction
<1>7. Work'
  BY <1>1, <1>4, <1>5, <1>6 DEF Work, NewMetas
<1> QED
  BY <1>1, <1>3, <1>7 DEF Writer

LEMMA MoveSstStep ==
  ASSUME RecoveryInv, NEW f \in Families, NEW j, NEW s, MoveSst(f, j, s)
  PROVE  DiskInv' /\ Writer'
<1> DEFINE placed == [t \in {s} |-> j]
<1>1. /\ stage = "metas" /\ j \in DOMAIN jobs[f] /\ jobs[f][j] = {s}
      /\ Collect(f, placed) /\ EndJob(f, j)
      /\ UNCHANGED <<disk, CURRENT, stable, meta_files, current_sequence_number, proc, todo, to_delete,
                     new_files, obsolete, stage>>
  BY DEF MoveSst, disk_vars, db_vars
<1>2. DiskInv'
  BY <1>1, Quiet DEF RecoveryInv, DiskInv, Unpublished
<1>3. proc = "open" /\ JobsOK(f)
  BY <1>1 DEF RecoveryInv, Inv, Control, Writer, Work
<1>4. s \in Live(f) /\ s \notin obsolete[f]
  BY <1>1, <1>3 DEF JobsOK
<1>5. Collectable(f, s)'
  <2>1. s \in Seqs /\ disk[s].kind = "sst" /\ disk[s].family = f
    BY <1>1, <1>3, <1>4, LiveFacts DEF Unpublished
  <2>2. Live(f)' = Live(f)
    BY <1>1 DEF Live
  <2>3. Collectable(f, s)
    BY <1>4, <2>1 DEF Collectable
  <2> QED
    BY <1>1, <2>2, <2>3 DEF Collectable
<1>6. Work'
  <2>1. /\ DOMAIN placed = {s} /\ DOMAIN placed # {} /\ \A t \in DOMAIN placed : placed[t] = j
        /\ PlacesApart(disk', placed)
    BY DEF PlacesApart
  <2>2. \A t \in DOMAIN placed : Collectable(f, t)'
    BY <1>5, <2>1
  <2>3. PICK new \in SUBSET Seqs : new = {}
    OBVIOUS
  <2> HIDE DEF placed
  <2> QED
    BY <1>1, <2>1, <2>2, <2>3, CollectStep
<1> QED
  BY <1>1, <1>2, <1>6 DEF Writer

LEMMA MergeSstsStep ==
  ASSUME RecoveryInv, NEW f \in Families, NEW j, NEW first \in SUBSET Keys, MergeSsts(f, j, first)
  PROVE  DiskInv' /\ Writer'
<1>0. PICK one, two : one = next_seq + 1 /\ two = next_seq + 2
  OBVIOUS
<1> DEFINE rows == Merged(jobs[f][j])
           part == [k \in first |-> rows[k]]
           rest == [k \in DOMAIN rows \ first |-> rows[k]]
           sst(r) == [kind |-> "sst", family |-> f, rows |-> r]
           files == IF rest = EmptyFunction THEN {one} ELSE {one, two}
           placed == [s \in files |-> j]
<1>1. /\ stage = "metas" /\ j \in DOMAIN jobs[f]
      /\ UNCHANGED <<CURRENT, stable, meta_files, current_sequence_number, proc, todo, to_delete, stage, obsolete>>
      /\ EndJob(f, j)
  BY DEF MergeSsts, db_vars
<1>2. next_seq \in Nat /\ next_seq + 1 + 1 = two
  BY <1>0 DEF RecoveryInv, Inv, Typed
<1>3. /\ files \subseteq 1..(MaxSeq - 2)
      /\ disk' = [s \in Seqs |-> IF s \notin files THEN disk[s] ELSE IF s = one THEN sst(part) ELSE sst(rest)]
      /\ new_files' = new_files \cup files
      /\ Collect(f, placed)
      /\ first \subseteq DOMAIN rows
  BY <1>0, <1>2 DEF MergeSsts
<1>4. /\ proc = "open" /\ JobsOK(f) /\ CURRENT = current_sequence_number /\ stable = current_sequence_number
      /\ current_sequence_number \in Nat /\ current_sequence_number <= next_seq /\ \A s \in Present : s <= next_seq
  BY <1>1 DEF RecoveryInv, Inv, Typed, Control, Numbered, Writer, Work
<1>5. /\ files \in SUBSET Seqs /\ one \in files /\ \A n \in files : n = one \/ n = two
      /\ \A n \in files : n > current_sequence_number /\ n \in Nat
      /\ \A s \in Seqs : disk[s].kind # "none" => \A n \in files : s < n
  <2>1. files \in SUBSET Seqs
    <3> HIDE DEF files
    <3> QED
      BY <1>3
  <2>2. one > next_seq /\ two > next_seq
    BY <1>0, <1>2
  <2>3. one \in files /\ \A n \in files : n = one \/ n = two
    OBVIOUS
  <2> HIDE DEF files
  <2> QED
    BY <1>2, <1>4, <2>1, <2>2, <2>3 DEF Present, Exists
<1>6. /\ disk'[one].rows = part /\ \A n \in files : n # one => disk'[n].rows = rest
      /\ \A n \in files : disk'[n].kind = "sst" /\ disk'[n].family = f
      /\ \A s \in Seqs : s \notin files => disk'[s] = disk[s]
  <2>1. \A r : sst(r).kind = "sst" /\ sst(r).family = f /\ sst(r).rows = r
    OBVIOUS
  <2> HIDE DEF files, sst, part, rest
  <2>2. /\ disk'[one] = sst(part) /\ \A n \in files : n # one => disk'[n] = sst(rest)
        /\ \A s \in Seqs : s \notin files => disk'[s] = disk[s]
    BY <1>3, <1>5
  <2> QED
    BY <2>1, <2>2
<1>7. jobs[f][j] \subseteq Live(f)
  BY <1>1, <1>4 DEF JobsOK
<1>8. ASSUME NEW k \in DOMAIN rows, NEW b \in Seqs, rows[k] = [blob |-> b]
      PROVE  disk[b].kind = "blob"
  <2>1. PICK s \in jobs[f][j] : k \in DOMAIN disk[s].rows /\ rows[k] = disk[s].rows[k]
    <3>1. PICK inputs : inputs = jobs[f][j]
      OBVIOUS
    <3>2. \A i \in DOMAIN Merged(inputs) :
             \E s \in inputs : i \in DOMAIN disk[s].rows /\ Merged(inputs)[i] = disk[s].rows[i]
      <4>1. inputs \subseteq Live(f) /\ stage \in Unpublished /\ proc = "open"
        BY <1>1, <1>4, <1>7, <3>1 DEF Unpublished
      <4> QED
        BY <4>1, MergedRows
    <3> QED
      BY <3>1, <3>2
  <2>2. b \in BlobsOf(disk[s].rows)
    BY <1>8, <2>1 DEF BlobsOf
  <2>3. s \in Seqs /\ disk[s].kind = "sst"
    BY <1>1, <1>4, <1>7, LiveFacts DEF Unpublished
  <2>4. Top = MaxSeq
    BY <1>4 DEF Top
  <2> QED
    BY <2>2, <2>3, <2>4 DEF RecoveryInv, Shape, FilesOK, FileOK
<1> HIDE DEF rows
<1>9. ASSUME NEW n \in files
      PROVE  /\ disk'[n].kind = "sst" /\ disk'[n].family = f
             /\ \A k \in DOMAIN disk'[n].rows : k \in DOMAIN rows /\ disk'[n].rows[k] = rows[k]
  <2>1. CASE n = one
    <3>1. disk'[n].rows = part
      BY <1>6, <2>1
    <3>2. \A k \in DOMAIN part : k \in DOMAIN rows /\ part[k] = rows[k]
      BY <1>3
    <3> HIDE DEF part
    <3> QED
      BY <1>6, <3>1, <3>2
  <2>2. CASE n # one
    <3>1. disk'[n].rows = rest
      BY <1>6, <2>2
    <3> QED
      BY <1>6, <3>1
  <2> QED
    BY <2>1, <2>2
<1>10. PlacesApart(disk', placed)
  <2>1. DOMAIN part = first /\ DOMAIN rest = DOMAIN rows \ first
    OBVIOUS
  <2>2. ASSUME NEW n \in files, n # one, NEW k \in DOMAIN disk'[n].rows PROVE k \notin DOMAIN disk'[one].rows
    <3>1. DOMAIN disk'[n].rows = DOMAIN rows \ first /\ DOMAIN disk'[one].rows = first
      <4> HIDE DEF part, rest, files
      <4> QED
        BY <1>6, <2>1, <2>2
    <3> QED
      BY <2>2, <3>1
  <2>3. DOMAIN placed = files
    OBVIOUS
  <2>4. \A s, t \in files : s # t => (s = one /\ t # one) \/ (t = one /\ s # one)
    BY <1>5
  <2> HIDE DEF files, part, rest, placed, sst
  <2> QED
    BY <2>2, <2>3, <2>4 DEF PlacesApart
<1> HIDE DEF files, part, rest, sst
<1>11. \A n \in files \cap Seqs : FileOK(disk', MaxSeq, n)
  <2> SUFFICES ASSUME NEW n \in files, n \in Seqs PROVE FileOK(disk', MaxSeq, n)
    OBVIOUS
  <2>1. ASSUME NEW b \in BlobsOf(disk'[n].rows) PROVE b < n /\ disk'[b].kind = "blob"
    <3>1. b \in Seqs /\ \E k \in DOMAIN disk'[n].rows : disk'[n].rows[k] = [blob |-> b]
      BY DEF BlobsOf
    <3>2. disk[b].kind = "blob"
      BY <1>8, <1>9, <3>1
    <3>3. b < n /\ b \notin files
      BY <1>5, <3>1, <3>2
    <3> QED
      BY <1>6, <3>1, <3>2, <3>3
  <2>2. disk'[n].kind = "sst"
    BY <1>9
  <2> QED
    BY <2>1, <2>2 DEF FileOK
<1>12. DiskInv'
  <2>1. Shape' /\ Loadable' /\ Recovering' /\ Running'
    <3>1. files \in SUBSET Nat /\ \A n \in files : n > CURRENT /\ n > stable
      BY <1>4, <1>5
    <3> QED
      BY <1>1, <1>5, <1>6, <1>11, <3>1, Grow
  <2>2. Deleting'
    BY <1>1 DEF RecoveryInv, Deleting
  <2> QED
    BY <2>1, <2>2 DEF DiskInv
<1>13. ASSUME NEW n \in files PROVE Collectable(f, n)'
  <2>1. n > current_sequence_number /\ n \in Seqs
    BY <1>5
  <2>2. n \notin obsolete[f]
    <3>1. \A s \in Live(f) : s < current_sequence_number /\ s \in Seqs
      BY <1>1, <1>4, LiveFacts DEF Unpublished
    <3>2. obsolete[f] \subseteq Live(f)
      BY <1>4 DEF JobsOK
    <3> QED
      BY <1>4, <2>1, <3>1, <3>2
  <2> QED
    BY <1>1, <1>9, <2>1, <2>2 DEF Collectable
<1>14. Work'
  <2>1. DOMAIN placed = files /\ \A s \in DOMAIN placed : placed[s] = j
    OBVIOUS
  <2>2. DOMAIN placed # {}
    BY <1>5, <2>1
  <2>3. \A s \in DOMAIN placed : Collectable(f, s)'
    BY <1>13, <2>1
  <2>4. \A n \in files : n > current_sequence_number /\ disk'[n].kind = "sst" /\ disk'[n].family = f /\ n \in DOMAIN placed
    BY <1>5, <1>9, <2>1
  <2>5. new_files' = new_files \cup files /\ Collect(f, placed)
    BY <1>3
  <2> HIDE DEF placed
  <2> QED
    BY <1>1, <1>5, <1>6, <1>10, <2>1, <2>2, <2>3, <2>4, <2>5, CollectStep
<1> QED
  BY <1>1, <1>12, <1>14 DEF Writer

LEMMA CompactingStep == RecoveryInv /\ Compacting => DiskInv' /\ Writer'
BY BeginCompactStep, MoveSstStep, MergeSstsStep DEF Compacting

LEMMA WriteMetaStep ==
  ASSUME RecoveryInv, NEW f \in Families, WriteMeta(f)
  PROVE  DiskInv' /\ Writer'
<1>0. PICK n : n = next_seq + 1
  OBVIOUS
<1> DEFINE new == {n}
<1>1. /\ stage = "metas" /\ jobs[f] = EmptyFunction
      /\ CreateFile([kind |-> "meta", family |-> f, ssts |-> new_ssts[f], obsolete |-> obsolete[f]], 0)
      /\ UNCHANGED <<CURRENT, stable, db_vars, proc, todo, stage, jobs, obsolete, to_delete>>
  BY DEF WriteMeta
<1>2. /\ n \in Seqs /\ new \in SUBSET Seqs /\ new_files' = new_files \cup new
      /\ disk'[n].kind = "meta" /\ disk'[n].family = f /\ disk'[n].ssts = new_ssts[f] /\ disk'[n].obsolete = obsolete[f]
      /\ \A s \in Seqs : s \notin new => disk'[s] = disk[s]
      /\ \A s \in Seqs : disk[s].kind # "none" => \A x \in new : s < x
      /\ \A x \in new : x > current_sequence_number
  BY <1>0, <1>1, CreateFileFacts
<1>3. UNCHANGED <<meta_files, current_sequence_number, stage, obsolete>> /\ stage \in {"batch", "metas"}
  BY <1>1 DEF db_vars
<1>4. \A x \in new : x > current_sequence_number /\ disk'[x].kind \notin {"none", "del"}
  BY <1>2
<1>5. /\ new_ssts'[f] = EmptyFunction
      /\ \A g \in Families : g # f => new_ssts'[g] = new_ssts[g]
  <2>1. new_ssts = [g \in Families |-> new_ssts[g]]
    BY DEF RecoveryInv, TypeOK
  <2> QED
    BY <2>1 DEF WriteMeta
<1>6. /\ Work /\ new_files' = {s \in Present' : s > current_sequence_number'}
      /\ \A s \in new_files' : disk'[s].kind # "del"
      /\ NewMetas' = NewMetas \cup {x \in new : disk'[x].kind = "meta"}
      /\ \A g, s : Collectable(g, s) => Collectable(g, s)' /\ s \in Present
      /\ \A g \in Families : PlacesApart(disk', new_ssts[g])
      /\ \A g : Live(g)' = Live(g)
  BY <1>2, <1>3, <1>4, WorkGrows
<1>7. /\ \A m \in NewMetas : m \in NewMetas' /\ disk'[m] = disk[m] /\ NewMetaOK(m)'
      /\ \A s \in new_files : disk'[s].kind = "sst" =>
            \/ disk'[s].family \in Families /\ s \in DOMAIN new_ssts[disk'[s].family]
            \/ \E m \in NewMetas' : s \in DOMAIN disk'[m].ssts
      /\ \A g \in Families : new_ssts'[g] = new_ssts[g] /\ jobs'[g] = jobs[g] => CollectedOK(g)' /\ JobsOK(g)'
  BY <1>2, <1>3, <1>4, WorkKept
<1>8. CollectedOK(f) /\ JobsOK(f) /\ proc = "open"
  BY <1>1, <1>6 DEF Work, RecoveryInv, Inv, Control
<1>9. DiskInv'
  <2>1. ASSUME NEW s \in DOMAIN new_ssts[f] PROVE s \in Seqs /\ s < n
    <3>1. Collectable(f, s)
      BY <1>8 DEF CollectedOK
    <3> QED
      BY <1>2, <1>6, <3>1 DEF Present, Exists
  <2>2. ASSUME NEW s \in obsolete[f] PROVE s \in Seqs /\ s < n
    <3>1. s \in Live(f)
      BY <1>8 DEF JobsOK
    <3>2. s \in Seqs /\ disk[s].kind = "sst"
      BY <1>1, <1>8, <3>1, LiveFacts DEF Unpublished
    <3> QED
      BY <1>2, <3>2
  <2>3. FileOK(disk', MaxSeq, n)
    BY <1>2, <1>6, <2>1, <2>2 DEF FileOK
  <2> QED
    BY <1>0, <1>1, <2>3, CreateFileDisk
<1> HIDE DEF new
<1>10. NewMetas' = NewMetas \cup {n}
  BY <1>2, <1>6 DEF new
<1>11. NewMetaOK(n)'
  <2>1. \A s \in DOMAIN new_ssts[f] : Collectable(f, s)'
    BY <1>6, <1>8 DEF CollectedOK
  <2> QED
    BY <1>1, <1>2, <2>1 DEF NewMetaOK, Collectable
<1>12. \A s \in new_files' : disk'[s].kind = "sst" =>
            s \in DOMAIN new_ssts'[disk'[s].family] \/ \E m \in NewMetas' : s \in DOMAIN disk'[m].ssts
  BY <1>2, <1>5, <1>7, <1>10 DEF new
<1>13. CollectedOK(f)'
  BY <1>5 DEF CollectedOK, PlacesApart, EmptyFunction
<1>14. JobsOK(f)'
  <2>1. obsolete'[f] \subseteq Live(f)' /\ DOMAIN jobs'[f] = {}
    BY <1>1, <1>6, <1>8 DEF JobsOK, EmptyFunction
  <2> QED
    BY <1>2, <1>10, <2>1 DEF JobsOK
<1>15. \A g \in Families : CollectedOK(g)' /\ JobsOK(g)'
  BY <1>1, <1>5, <1>7, <1>13, <1>14
<1>16. \A m \in NewMetas' : NewMetaOK(m)'
  BY <1>7, <1>10, <1>11
<1>17. Work'
  BY <1>1, <1>6, <1>12, <1>15, <1>16 DEF Work
<1> QED
  BY <1>1, <1>9, <1>17 DEF Writer

LEMMA SyncFilesStep == RecoveryInv /\ SyncFiles => DiskInv' /\ Writer'
<1> SUFFICES ASSUME RecoveryInv, SyncFiles PROVE DiskInv' /\ Writer'
  OBVIOUS
<1>1. /\ stage = "metas" /\ stage' = "publish"
      /\ \A f \in Families : jobs[f] = EmptyFunction /\ new_ssts[f] = EmptyFunction
      /\ UNCHANGED <<disk, CURRENT, stable, meta_files, current_sequence_number, proc, todo, to_delete,
                     new_files, new_ssts, jobs, obsolete>>
  BY DEF SyncFiles, db_vars
<1>2. DiskInv'
  BY <1>1, Quiet DEF RecoveryInv, DiskInv, Unpublished
<1>3. Work
  BY <1>1 DEF RecoveryInv, Writer
<1>4. /\ Present' = Present /\ NewMetas' = NewMetas /\ \A f : Live(f)' = Live(f)
  BY <1>1 DEF Present, Exists, NewMetas, Live
<1>5. \A f, s : Collectable(f, s) <=> Collectable(f, s)'
  BY <1>1, <1>4 DEF Collectable
<1>6. ASSUME NEW f \in Families PROVE CollectedOK(f)' /\ JobsOK(f)'
  <2>1. CollectedOK(f) /\ JobsOK(f)
    BY <1>3 DEF Work
  <2> QED
    BY <1>1, <1>4, <1>5, <2>1 DEF CollectedOK, JobsOK
<1>7. ASSUME NEW m \in NewMetas PROVE NewMetaOK(m)'
  <2>1. NewMetaOK(m)
    BY <1>3 DEF Work
  <2> QED
    BY <1>1, <1>4, <2>1 DEF NewMetaOK, Collectable
<1>8. Work'
  BY <1>1, <1>3, <1>4, <1>6, <1>7 DEF Work
<1> QED
  BY <1>1, <1>2, <1>8 DEF Writer

\* When everything is written, the writer's files are what a commit needs.
LEMMA WorkIsComplete ==
  ASSUME RecoveryInv, stage = "publish", NEW metas, metas = MetasIn(disk, current_sequence_number, DeadNow),
         NEW gone, gone = UNION {obsolete[f] : f \in Families}
  PROVE  Complete(disk, current_sequence_number, metas, NewMetas, gone)
<1>1. /\ Work /\ proc = "open" /\ new_files = {s \in Present : s > current_sequence_number}
      /\ \A f \in Families : jobs[f] = EmptyFunction /\ new_ssts[f] = EmptyFunction
  BY DEF RecoveryInv, Writer, Work, Inv, Control
<1>2. \A f : \A s \in Live(f) : /\ s \in Seqs /\ s < current_sequence_number /\ disk[s].kind = "sst" /\ disk[s].family = f
                                /\ OnOffer(disk, metas, s)
  BY <1>1, LiveFacts DEF Unpublished
<1>3. \A a \in NewMetas : /\ a \in new_files /\ a \in Seqs /\ disk[a].kind = "meta" /\ disk[a].family \in Families
                         /\ NewMetaOK(a)
  <2>1. \A a \in NewMetas : a \in new_files /\ a \in Seqs /\ disk[a].kind = "meta" /\ NewMetaOK(a)
    BY <1>1 DEF NewMetas, Work, Present
  <2> QED
    BY <2>1 DEF RecoveryInv, TypeOK, NoFile, MetaFile
<1>4. ASSUME NEW a \in NewMetas, NEW s \in DOMAIN disk[a].ssts
      PROVE  /\ s \in Seqs /\ disk[s].kind = "sst" /\ disk[s].family = disk[a].family /\ s \notin disk[a].obsolete
             /\ s > current_sequence_number \/ OnOffer(disk, metas, s)
  <2>1. Collectable(disk[a].family, s) /\ disk[a].obsolete = obsolete[disk[a].family]
    BY <1>3 DEF NewMetaOK
  <2> QED
    BY <1>2, <2>1 DEF Collectable
<1>5. ASSUME NEW a \in NewMetas, NEW b \in NewMetas, disk[a].family = disk[b].family
      PROVE  disk[a].obsolete = disk[b].obsolete
  BY <1>3, <1>5 DEF NewMetaOK
<1>6. ASSUME NEW o \in gone
      PROVE  OnOffer(disk, metas, o) /\ \E a \in NewMetas : o \in disk[a].obsolete /\ disk[a].family = disk[o].family
  <2>1. PICK f \in Families : o \in obsolete[f]
    OBVIOUS
  <2>2. JobsOK(f)
    BY <1>1 DEF Work
  <2>3. o \in Live(f)
    BY <2>1, <2>2 DEF JobsOK
  <2>4. PICK m \in NewMetas : disk[m].family = f
    BY <1>1, <2>1, <2>2 DEF JobsOK, EmptyFunction
  <2>5. disk[m].obsolete = obsolete[f]
    BY <1>3, <2>4 DEF NewMetaOK
  <2> QED
    BY <1>2, <2>1, <2>3, <2>4, <2>5
<1>7. ASSUME NEW a \in NewMetas PROVE disk[a].obsolete \subseteq gone
  BY <1>3 DEF NewMetaOK
<1>8. ASSUME NEW s \in Seqs, s > current_sequence_number, disk[s].kind = "sst"
      PROVE  \E a \in NewMetas : s \in DOMAIN disk[a].ssts
  <2>1. s \in new_files
    BY <1>1, <1>8 DEF Present, Exists
  <2>2. disk[s].family \in Families
    BY <1>8, SstsAreTyped DEF RecoveryInv
  <2>3. DOMAIN new_ssts[disk[s].family] = {}
    BY <1>1, <2>2 DEF EmptyFunction
  <2> QED
    BY <1>1, <1>8, <2>1, <2>3 DEF Work
<1> QED
  BY <1>4, <1>5, <1>6, <1>7, <1>8 DEF Complete

\* What Publish computes, as the meta files that stay.
LEMMA PublishIs ==
  ASSUME RecoveryInv, Publish, NEW metas, metas = MetasIn(disk, current_sequence_number, DeadNow),
         NEW doomed, doomed = Superfluous(disk, metas \cup NewMetas) \cup UNION {obsolete[f] : f \in Families}
  PROVE  /\ meta_files' = Database(disk, (metas \cup NewMetas) \ Superfluous(disk, metas \cup NewMetas))
         /\ to_delete' = doomed
         /\ current_sequence_number' = (IF doomed = {} THEN next_seq ELSE next_seq + 1)
         /\ stage' = (IF doomed = {} THEN "current" ELSE "del")
         /\ metas \in SUBSET Nat /\ NewMetas \in SUBSET Nat /\ \A m \in metas, a \in NewMetas : m < a
         /\ \A m \in metas \cup NewMetas : m \in Present /\ disk[m].kind = "meta" /\ m <= next_seq
         /\ NewMetas = {m \in Seqs : m > current_sequence_number /\ disk[m].kind = "meta"}
<1>1. /\ stage = "publish" /\ Work /\ proc = "open" /\ new_files = {s \in Present : s > current_sequence_number}
  BY DEF Publish, RecoveryInv, Writer, Work, Inv, Control
<1>2. PICK cur, added : cur = current_sequence_number /\ added = NewMetas
  OBVIOUS
<1>3. cur \in Nat /\ next_seq \in Nat /\ cur <= next_seq /\ \A s \in Present : s <= next_seq
  BY <1>1, <1>2 DEF RecoveryInv, Inv, Typed, Numbered
<1>4. meta_files = Database(disk, metas)
  BY <1>1 DEF RecoveryInv, Running
<1>5. /\ metas \in SUBSET Nat /\ added \in SUBSET Nat /\ \A m \in metas, a \in added : m < a
      /\ \A m \in metas \cup added : m \in Present /\ disk[m].kind = "meta" /\ m <= next_seq
      /\ added = {m \in Seqs : m > cur /\ disk[m].kind = "meta"}
  <2>1. \A m \in metas : m \in Seqs /\ m <= cur /\ disk[m].kind = "meta"
    BY <1>2 DEF MetasIn
  <2>2. added = {m \in Seqs : m > cur /\ disk[m].kind = "meta"}
    BY <1>1, <1>2 DEF NewMetas, Present, Exists
  <2>3. \A m \in metas \cup added : m \in Present
    BY <2>1, <2>2 DEF Present, Exists
  <2> QED
    BY <1>3, <2>1, <2>2, <2>3
<1>6. /\ meta_files' = Database(disk, (metas \cup added) \ Superfluous(disk, metas \cup added))
      /\ to_delete' = doomed
      /\ current_sequence_number' = (IF doomed = {} THEN next_seq ELSE next_seq + 1)
      /\ stage' = (IF doomed = {} THEN "current" ELSE "del")
  <2> DEFINE add == {Opened(m) : m \in {m \in new_files : IsKind(m, "meta")}}
             filtered == Filter(meta_files \cup add)
             removed == {m \in filtered : Removable(filtered, m)}
             files == {m.seq : m \in removed} \cup UNION {obsolete[f] : f \in Families}
  <2>1. /\ meta_files' = filtered \ removed /\ to_delete' = files
        /\ current_sequence_number' = (IF files = {} THEN next_seq ELSE next_seq + 1)
        /\ stage' = (IF files = {} THEN "current" ELSE "del")
    BY DEF Publish, Retain, NextCurrent
  <2>2. add = {OpenedIn(disk, m) : m \in added}
    <3>1. {m \in new_files : IsKind(m, "meta")} = added
      BY <1>1, <1>2 DEF NewMetas, IsKind, Present
    <3>2. \A m \in added : Opened(m) = OpenedIn(disk, m)
      BY DEF Opened, OpenedIn, Offering
    <3> QED
      BY <3>1, <3>2
  <2>3. filtered = Database(disk, metas \cup added)
    <3>1. Filter(Database(disk, metas) \cup {OpenedIn(disk, a) : a \in added}) = Database(disk, metas \cup added)
      BY <1>5, FilterTwice
    <3> HIDE DEF add
    <3> QED
      BY <1>4, <2>2, <3>1
  <2>4. /\ filtered \ removed = Database(disk, (metas \cup added) \ Superfluous(disk, metas \cup added))
        /\ {m.seq : m \in removed} = Superfluous(disk, metas \cup added)
    <3> DEFINE all == metas \cup added
    <3>1. all \in SUBSET Nat /\ (\A n \in all : n <= next_seq) /\ next_seq \in Nat
      BY <1>3, <1>5
    <3> HIDE DEF all
    <3>2. LET entries == Database(disk, all)
              superfluous == {x \in entries : Removable(entries, x)}
          IN  /\ entries \ superfluous = Database(disk, all \ Superfluous(disk, all))
              /\ {x.seq : x \in superfluous} = Superfluous(disk, all)
      BY <3>1, SuperfluousGone
    <3>3. filtered = Database(disk, all)
      BY <2>3 DEF all
    <3> HIDE DEF filtered
    <3> QED
      BY <3>2, <3>3 DEF all
  <2>5. files = doomed
    <3> HIDE DEF removed
    <3> QED
      BY <1>2, <2>4
  <2> HIDE DEF filtered, removed, files
  <2> QED
    BY <1>2, <2>1, <2>4, <2>5
<1> QED
  BY <1>2, <1>5, <1>6

LEMMA PublishStep == RecoveryInv /\ Publish => DiskInv' /\ Writer'
<1> SUFFICES ASSUME RecoveryInv, Publish PROVE DiskInv' /\ Writer'
  OBVIOUS
<1>1. /\ stage = "publish" /\ UNCHANGED <<disk, CURRENT, stable, proc, todo, next_seq, new_files, obsolete>>
      /\ Work /\ proc = "open" /\ to_delete = {} /\ new_files = {s \in Present : s > current_sequence_number}
      /\ DeadNow = Dead(CURRENT)
  BY DEF Publish, disk_vars, RecoveryInv, Writer, Work, Inv, Control, Deleting, DeadNow
<1>2. PICK cur, top, dead, metas, added, gone, doomed :
        /\ cur = current_sequence_number /\ top = current_sequence_number' /\ dead = Dead(CURRENT)
        /\ metas = MetasIn(disk, cur, dead) /\ added = NewMetas
        /\ gone = UNION {obsolete[f] : f \in Families}
        /\ doomed = Superfluous(disk, metas \cup added) \cup gone
  OBVIOUS
<1>3. /\ cur \in Nat /\ CURRENT = cur /\ stable = cur /\ next_seq \in Nat /\ cur <= next_seq
      /\ \A s \in Present : s <= next_seq
      /\ FilesOK(disk, MaxSeq) /\ ListsLower(disk)
  BY <1>1, <1>2, ListsAreLower DEF RecoveryInv, Inv, Typed, Control, Numbered, Shape, Top
<1>4. meta_files = Database(disk, metas) /\ Sound(disk, cur, dead) /\ dead \cap Present = {}
  BY <1>1, <1>2 DEF RecoveryInv, Running
<1>p. /\ meta_files' = Database(disk, (metas \cup added) \ Superfluous(disk, metas \cup added))
      /\ to_delete' = doomed
      /\ top = (IF doomed = {} THEN next_seq ELSE next_seq + 1)
      /\ stage' = (IF doomed = {} THEN "current" ELSE "del")
      /\ metas \in SUBSET Nat /\ added \in SUBSET Nat /\ \A m \in metas, a \in added : m < a
      /\ \A m \in metas \cup added : m \in Present /\ disk[m].kind = "meta" /\ m <= next_seq
      /\ added = {m \in Seqs : m > cur /\ disk[m].kind = "meta"}
  <2>1. /\ metas = MetasIn(disk, current_sequence_number, DeadNow)
        /\ doomed = Superfluous(disk, metas \cup NewMetas) \cup UNION {obsolete[f] : f \in Families}
    BY <1>1, <1>2
  <2> QED
    BY <1>2, <2>1, PublishIs
<1>5. /\ metas \in SUBSET Nat /\ added \in SUBSET Nat /\ \A m \in metas, a \in added : m < a
      /\ \A m \in metas \cup added : m \in Present /\ disk[m].kind = "meta" /\ m <= next_seq
      /\ added = {m \in Seqs : m > cur /\ disk[m].kind = "meta"}
  BY <1>p
<1>6. /\ meta_files' = Database(disk, (metas \cup added) \ Superfluous(disk, metas \cup added))
      /\ to_delete' = doomed
      /\ top = (IF doomed = {} THEN next_seq ELSE next_seq + 1)
      /\ stage' = (IF doomed = {} THEN "current" ELSE "del")
  BY <1>p
<1>a. /\ top = next_seq \/ top = next_seq + 1
      /\ doomed # {} => top = next_seq + 1
      /\ \A s \in Present : s \in Nat
  BY <1>6 DEF Present
<1>b. top \in Nat /\ cur <= top /\ \A s \in Present : s <= top
  BY <1>3, <1>a
<1>7. Complete(disk, cur, metas, added, gone)
  BY <1>1, <1>2, WorkIsComplete
<1>8. /\ MetasIn(disk, top, dead \cup doomed) = (metas \cup added) \ Superfluous(disk, metas \cup added)
      /\ Sound(disk, top, dead \cup doomed)
  <2>2. \A s \in dead : s <= cur
    BY <1>2, <1>3, DeadIsTyped DEF Dead
  <2>3. added = MetasAbove(disk, cur, top)
    BY <1>5, <1>b DEF MetasAbove, Present, Exists
  <2>4. dead \cup doomed = dead \cup Superfluous(disk, metas \cup added) \cup gone
    BY <1>2
  <2>5. PICK dead2 : dead2 = dead \cup doomed
    OBVIOUS
  <2>6. MetasIn(disk, top, dead2) = (metas \cup added) \ Superfluous(disk, metas \cup added) /\ Sound(disk, top, dead2)
    <3>1. metas = MetasIn(disk, cur, dead) /\ cur \in Nat /\ ListsLower(disk) /\ Sound(disk, cur, dead)
      BY <1>2, <1>3, <1>4
    <3>2. dead2 = dead \cup Superfluous(disk, metas \cup added) \cup gone
      BY <2>4, <2>5
    <3> QED
      BY <1>7, <1>b, <2>2, <2>3, <3>1, <3>2, CommitSound, SMTT(60)
  <2> QED
    BY <2>5, <2>6
<1>9. ASSUME NEW s \in doomed
      PROVE  s \in Seqs /\ s <= next_seq /\ disk[s].kind \in {"sst", "meta"}
  <2>1. CASE s \in Superfluous(disk, metas \cup added)
    BY <1>5, <2>1 DEF Superfluous, Present
  <2>2. CASE s \in gone
    <3>1. OnOffer(disk, metas, s)
      BY <1>7, <2>2 DEF Complete
    <3>2. s \in Seqs /\ disk[s].kind = "sst"
      BY <1>2, <1>4, <3>1 DEF OnOffer, Sound, Offers
    <3> QED
      BY <1>3, <3>2 DEF Present, Exists
  <2> QED
    BY <1>2, <1>9, <2>1, <2>2
<1>10. Dead(CURRENT)' = dead /\ Present' = Present /\ DeadNow' = dead \cup doomed
  BY <1>1, <1>2, <1>6 DEF Dead, Present, Exists, DeadNow
<1>11. Shape' /\ Loadable' /\ Recovering'
  BY <1>1 DEF RecoveryInv, Shape, Top, Loadable, Dead, Recovering
<1>12. Running'
  BY <1>1, <1>2, <1>4, <1>6, <1>8, <1>10 DEF Running
<1>13. Deleting'
  <2>1. \A s \in to_delete' : s \in Seqs /\ s < current_sequence_number' /\ disk'[s].kind \in {"sst", "meta"}
    <3>1. \A s \in doomed : s < top
      BY <1>3, <1>9, <1>a
    <3>2. to_delete' = doomed /\ current_sequence_number' = top /\ disk' = disk
      BY <1>1, <1>2, <1>6
    <3> QED
      BY <1>9, <3>1, <3>2
  <2>2. \A s \in Present : s > cur => disk[s].kind # "del"
    BY <1>1, <1>2 DEF Work
  <2>4. stage' = "del" => CURRENT' < current_sequence_number' /\ stable' < current_sequence_number'
    <3>1. stage' = "del" => cur < top
      BY <1>3, <1>6, <1>a
    <3> QED
      BY <1>1, <1>2, <1>3, <3>1
  <2>3. ASSUME stage' = "current" PROVE Dead(current_sequence_number)' = DeadNow'
    <3>1. doomed = {}
      BY <1>6, <2>3
    <3>2. DeadIn(disk, top) = DeadIn(disk, cur)
      BY <1>3, <1>6, <2>2 DEF DeadIn, Present, Exists
    <3> QED
      BY <1>1, <1>2, <1>3, <1>10, <3>1, <3>2 DEF Dead
  <2> QED
    BY <1>1, <1>2, <1>3, <1>6, <1>10, <2>1, <2>2, <2>3, <2>4 DEF Deleting
<1>14. Writer'
  BY <1>6 DEF Writer
<1> QED
  BY <1>11, <1>12, <1>13, <1>14 DEF DiskInv

LEMMA WriteDelStep == RecoveryInv /\ WriteDel => DiskInv' /\ Writer'
<1> SUFFICES ASSUME RecoveryInv, WriteDel PROVE DiskInv' /\ Writer'
  OBVIOUS
<1>0. PICK n : n = current_sequence_number
  OBVIOUS
<1> DEFINE new == {n}
<1>1. /\ stage = "del" /\ stage' = "current"
      /\ disk' = [disk EXCEPT ![n] = [kind |-> "del", dead |-> to_delete]]
      /\ UNCHANGED <<CURRENT, stable, meta_files, current_sequence_number, proc, todo, to_delete>>
  BY <1>0 DEF WriteDel, db_vars
<1>2. /\ proc = "open" /\ CURRENT \in Nat /\ stable \in Nat /\ n \in Nat /\ CURRENT < n /\ stable < n
      /\ \A s \in Present : s < n
      /\ \A s \in Present : s > CURRENT => disk[s].kind # "del"
      /\ \A s \in to_delete : s \in Seqs /\ s < n /\ disk[s].kind \in {"sst", "meta"}
  BY <1>0, <1>1 DEF RecoveryInv, Inv, Typed, Control, Numbered, Deleting
<1>a. n \in Seqs
  <2>1. n \in 0..MaxSeq
    BY <1>0 DEF RecoveryInv, TypeOK
  <2> QED
    BY <1>2, <2>1
<1>3. /\ disk'[n].kind = "del" /\ disk'[n].dead = to_delete
      /\ \A s \in Seqs : s \notin new => disk'[s] = disk[s]
  <2>1. disk = [s \in Seqs |-> disk[s]]
    BY DEF RecoveryInv, TypeOK
  <2> QED
    BY <1>1, <1>a, <2>1
<1>4. FileOK(disk', MaxSeq, n)
  <2>1. \A s \in to_delete : disk'[s] = disk[s]
    BY <1>2, <1>3
  <2> QED
    BY <1>2, <1>3, <2>1 DEF FileOK
<1>5. Shape' /\ Loadable' /\ Recovering' /\ Running'
  <2>1. /\ new \in SUBSET Nat
        /\ \A s \in Seqs : disk[s].kind # "none" => \A x \in new : s < x
        /\ \A x \in new : x > CURRENT /\ x > stable
        /\ \A x \in new \cap Seqs : x > current_sequence_number \/ disk'[x].kind = "del"
        /\ \A x \in new \cap Seqs : FileOK(disk', MaxSeq, x)
    BY <1>2, <1>3, <1>4, <1>a DEF Present, Exists
  <2> HIDE DEF new
  <2> QED
    BY <1>1, <1>3, <2>1, Grow
<1>6. DeadIn(disk', CURRENT) = DeadIn(disk, CURRENT)
  BY <1>2, <1>3 DEF DeadIn
<1>7. DeadIn(disk', n) = DeadIn(disk, CURRENT) \cup to_delete
  <2>1. ASSUME NEW s \in DeadIn(disk', n) PROVE s \in DeadIn(disk, CURRENT) \cup to_delete
    <3>1. PICK x \in Seqs : x <= n /\ disk'[x].kind = "del" /\ s \in disk'[x].dead
      BY DEF DeadIn
    <3>2. CASE x = n
      BY <1>3, <3>1, <3>2
    <3>3. CASE x # n
      <4>1. disk'[x] = disk[x] /\ x \in Present
        BY <1>3, <3>1, <3>3 DEF Present, Exists
      <4>2. x <= CURRENT
        <5>1. x > CURRENT => disk[x].kind # "del"
          BY <1>2, <4>1
        <5> QED
          BY <1>2, <3>1, <4>1, <5>1
      <4> QED
        BY <3>1, <4>1, <4>2 DEF DeadIn
    <3> QED
      BY <3>2, <3>3
  <2>2. ASSUME NEW s \in DeadIn(disk, CURRENT) PROVE s \in DeadIn(disk', n)
    <3>1. PICK x \in Seqs : x <= CURRENT /\ disk[x].kind = "del" /\ s \in disk[x].dead
      BY DEF DeadIn
    <3>2. x <= n /\ disk'[x] = disk[x]
      BY <1>2, <1>3, <3>1
    <3> QED
      BY <3>1, <3>2 DEF DeadIn
  <2>3. ASSUME NEW s \in to_delete PROVE s \in DeadIn(disk', n)
    BY <1>2, <1>3, <1>a DEF DeadIn
  <2> QED
    BY <2>1, <2>2, <2>3
<1>8. Deleting'
  <2>1. Dead(current_sequence_number)' = DeadNow'
    BY <1>0, <1>1, <1>6, <1>7 DEF Dead, DeadNow
  <2>2. \A s \in to_delete' : s \in Seqs /\ s < current_sequence_number' /\ disk'[s].kind \in {"sst", "meta"}
    <3>1. \A s \in to_delete : disk'[s] = disk[s]
      BY <1>2, <1>3
    <3>2. to_delete' = to_delete /\ current_sequence_number' = n
      BY <1>0, <1>1
    <3> QED
      BY <1>2, <3>1, <3>2
  <2> QED
    BY <1>1, <2>1, <2>2 DEF Deleting
<1> QED
  BY <1>1, <1>5, <1>8 DEF DiskInv, Writer

\* From now on a restart loads what is running.
LEMMA WriteCurrentStep == RecoveryInv /\ WriteCurrent => DiskInv' /\ Writer'
<1> SUFFICES ASSUME RecoveryInv, WriteCurrent PROVE DiskInv' /\ Writer'
  OBVIOUS
<1>1. /\ stage = "current" /\ stage' = "sync_current" /\ CURRENT' = current_sequence_number
      /\ UNCHANGED <<disk, stable, meta_files, current_sequence_number, proc, todo, to_delete>>
  BY DEF WriteCurrent, db_vars
<1>2. /\ proc = "open" /\ current_sequence_number \in Nat /\ current_sequence_number <= MaxSeq
      /\ Dead(current_sequence_number) = DeadNow /\ to_delete \subseteq DeadNow
  BY <1>1 DEF RecoveryInv, Inv, Typed, Control, Deleting, TypeOK, DeadNow
<1>3. DeadNow' = DeadNow /\ Dead(CURRENT)' = DeadNow
  BY <1>1, <1>2 DEF DeadNow, Dead
<1>4. Shape' /\ Recovering'
  BY <1>1, <1>2 DEF RecoveryInv, Shape, Top, Recovering
<1>5. Sound(disk, current_sequence_number, DeadNow) /\ Running'
  BY <1>1, <1>2, <1>3 DEF RecoveryInv, Running, Present, Exists
<1>6. Loadable'
  <2>1. Sound(disk', CURRENT', Dead(CURRENT)')
    BY <1>1, <1>3, <1>5
  <2>2. stable \in Nat => stable <= MaxSeq /\ Sound(disk, stable, Dead(stable))
    BY DEF RecoveryInv, Loadable
  <2>3. Dead(stable)' = Dead(stable)
    BY <1>1 DEF Dead
  <2>4. ASSUME NEW cur \in {CURRENT', stable'}, cur \in Nat PROVE cur <= MaxSeq /\ Sound(disk', cur, DeadIn(disk', cur))
    <3>1. CASE cur = CURRENT'
      <4>1. cur <= MaxSeq
        BY <1>1, <1>2, <3>1
      <4>2. DeadIn(disk', cur) = Dead(CURRENT)'
        BY <3>1 DEF Dead
      <4> QED
        BY <2>1, <3>1, <4>1, <4>2
    <3>2. CASE cur = stable'
      <4>1. cur = stable /\ disk' = disk
        BY <1>1, <3>2
      <4> QED
        BY <2>2, <2>4, <4>1 DEF Dead
    <3> QED
      BY <3>1, <3>2
  <2> QED
    BY <2>4 DEF Loadable, Dead
<1>7. Deleting'
  BY <1>1, <1>2, <1>3 DEF RecoveryInv, Deleting
<1> QED
  BY <1>1, <1>4, <1>5, <1>6, <1>7 DEF DiskInv, Writer

LEMMA SyncCurrentStep == RecoveryInv /\ SyncCurrent => DiskInv' /\ Writer'
<1> SUFFICES ASSUME RecoveryInv, SyncCurrent PROVE DiskInv' /\ Writer'
  OBVIOUS
<1>1. /\ stage = "sync_current" /\ stage' = "remove" /\ stable' = CURRENT
      /\ UNCHANGED <<disk, CURRENT, meta_files, current_sequence_number, proc, todo, to_delete>>
  BY DEF SyncCurrent, db_vars
<1>2. DeadNow' = DeadNow /\ Dead(CURRENT)' = Dead(CURRENT) /\ Present' = Present /\ proc = "open"
  BY <1>1 DEF DeadNow, Dead, Present, Exists, RecoveryInv, Inv, Control
<1>3. Shape' /\ Recovering' /\ Running' /\ Deleting'
  BY <1>1, <1>2 DEF RecoveryInv, Shape, Top, Recovering, Running, Deleting
<1>4. Loadable'
  BY <1>1 DEF RecoveryInv, Loadable, Dead
<1> QED
  BY <1>1, <1>3, <1>4 DEF DiskInv, Writer

\* Removing a dead SST or meta file.
LEMMA RemoveFileStep ==
  ASSUME RecoveryInv, NEW s \in Seqs, RemoveFile(s)
  PROVE  DiskInv' /\ Writer'
<1>1. /\ stage = "remove" /\ s \in to_delete /\ to_delete' = to_delete \ {s}
      /\ disk' = [disk EXCEPT ![s] = NoFile]
      /\ UNCHANGED <<CURRENT, stable, meta_files, current_sequence_number, proc, todo, stage>>
  BY DEF RemoveFile, db_vars
<1>2. /\ proc = "open" /\ CURRENT \in Nat /\ CURRENT = current_sequence_number /\ stable = CURRENT
      /\ s \in Dead(CURRENT) /\ disk[s].kind \in {"sst", "meta"} /\ disk = [x \in Seqs |-> disk[x]]
      /\ to_delete \subseteq Dead(CURRENT) /\ FilesOK(disk, MaxSeq) /\ ListsLower(disk) /\ DeadNow = Dead(CURRENT)
  BY <1>1, ListsAreLower DEF RecoveryInv, Inv, Typed, Control, Deleting, Shape, Top, DeadNow
<1>3. /\ disk'[s].kind = "none" /\ \A x \in Seqs : x # s => disk'[x] = disk[x]
      /\ Present' = Present \ {s}
  BY <1>1, <1>2 DEF Present, Exists, NoFile
<1>4. DeadIn(disk', CURRENT) = DeadIn(disk, CURRENT)
  BY <1>2, <1>3 DEF DeadIn
<1>5. Dead(CURRENT)' = Dead(CURRENT) /\ DeadNow' = DeadNow
  BY <1>1, <1>2, <1>4 DEF Dead, DeadNow
<1>6. Shape'
  <2>1. \A x \in Seqs : disk'[x] = disk[x] \/ disk'[x].kind = "none"
    BY <1>3
  <2>2. \A x \in Seqs : x <= MaxSeq /\ disk'[x].kind = "sst" =>
            x <= MaxSeq /\ \A b \in Seqs : b < x /\ disk[b].kind = "blob" => disk'[b] = disk[b]
    BY <1>2, <1>3
  <2>3. FilesOK(disk', MaxSeq)
    BY <1>2, <2>1, <2>2, FilesRemoved
  <2> QED
    BY <1>1, <1>2, <2>3 DEF Shape, Top
<1>7. /\ Database(disk', MetasIn(disk', CURRENT, Dead(CURRENT))) = Database(disk, MetasIn(disk, CURRENT, Dead(CURRENT)))
      /\ Sound(disk, CURRENT, Dead(CURRENT)) => Sound(disk', CURRENT, Dead(CURRENT))
  <2>1. PICK dead : dead = Dead(CURRENT)
    OBVIOUS
  <2>2. \A x \in Seqs : x \notin dead => disk'[x] = disk[x]
    BY <1>2, <1>3, <2>1
  <2>3. PICK cur \in Nat : cur = CURRENT
    BY <1>2
  <2>4. /\ \A x \in Seqs : x <= cur /\ disk[x].kind \in {"sst", "meta"} /\ x \notin dead => disk'[x] = disk[x] /\ x \notin dead
        /\ \A x \in Seqs : x <= cur /\ disk'[x].kind \in {"sst", "meta"} /\ x \notin dead => disk'[x] = disk[x] /\ x \notin dead
    BY <2>2
  <2>5. ListsLower(disk)
    BY <1>2
  <2>6. /\ Database(disk', MetasIn(disk', cur, dead)) = Database(disk, MetasIn(disk, cur, dead))
        /\ Sound(disk, cur, dead) => Sound(disk', cur, dead)
    BY <2>4, <2>5, SoundKept
  <2> QED
    BY <2>1, <2>3, <2>6
<1>8. Loadable'
  <2>1. CURRENT <= MaxSeq /\ Sound(disk, CURRENT, Dead(CURRENT))
    BY <1>2 DEF RecoveryInv, Loadable
  <2>2. Sound(disk', CURRENT, DeadIn(disk', CURRENT))
    BY <1>4, <1>7, <2>1 DEF Dead
  <2> QED
    BY <1>1, <1>2, <2>1, <2>2 DEF Loadable, Dead
<1>9. Recovering'
  BY <1>1, <1>2 DEF RecoveryInv, Recovering
<1>10. Running'
  <2>1. /\ meta_files = Database(disk, MetasIn(disk, CURRENT, Dead(CURRENT)))
        /\ Sound(disk, CURRENT, Dead(CURRENT)) /\ Dead(CURRENT) \cap Present \subseteq to_delete
    BY <1>1, <1>2 DEF RecoveryInv, Running
  <2> QED
    BY <1>1, <1>2, <1>3, <1>5, <1>7, <2>1 DEF Running
<1>11. Deleting'
  <2>1. \A x \in to_delete' : x \in Seqs /\ x < current_sequence_number' /\ disk'[x].kind \in {"sst", "meta"}
    BY <1>1, <1>3 DEF RecoveryInv, Deleting
  <2> QED
    BY <1>1, <1>2, <1>5, <2>1 DEF Deleting
<1> QED
  BY <1>1, <1>6, <1>8, <1>9, <1>10, <1>11 DEF DiskInv, Writer

LEMMA CommitDoneStep == RecoveryInv /\ CommitDone => DiskInv' /\ Writer'
<1> SUFFICES ASSUME RecoveryInv, CommitDone PROVE DiskInv' /\ Writer'
  OBVIOUS
<1>1. /\ stage = "remove" /\ stage' = "idle" /\ to_delete = {} /\ to_delete' = {}
      /\ UNCHANGED <<disk, CURRENT, stable, meta_files, current_sequence_number, proc, todo>>
      /\ new_files' = {} /\ new_ssts' = [f \in Families |-> EmptyFunction]
      /\ jobs' = [f \in Families |-> EmptyFunction] /\ obsolete' = [f \in Families |-> {}]
  BY DEF CommitDone, NoWriter, disk_vars
<1>2. DeadNow' = DeadNow /\ Dead(CURRENT)' = Dead(CURRENT) /\ Present' = Present /\ proc = "open"
  BY <1>1 DEF DeadNow, Dead, Present, Exists, RecoveryInv, Inv, Control
<1>3. Shape' /\ Recovering' /\ Running' /\ Deleting'
  BY <1>1, <1>2 DEF RecoveryInv, Shape, Top, Recovering, Running, Deleting
<1>4. Loadable'
  BY <1>1 DEF RecoveryInv, Loadable, Dead
<1>5. Writer'
  BY <1>1 DEF Writer, NoWork
<1> QED
  BY <1>3, <1>4, <1>5 DEF DiskInv

LEMMA CommittingStep == RecoveryInv /\ Committing => DiskInv' /\ Writer'
BY WriteMetaStep, SyncFilesStep, PublishStep, WriteDelStep, WriteCurrentStep, SyncCurrentStep, RemoveFileStep,
   CommitDoneStep DEF Committing

LEMMA FailStep == RecoveryInv /\ Fail => DiskInv' /\ Writer'
<1> SUFFICES ASSUME RecoveryInv, Fail PROVE DiskInv' /\ Writer'
  OBVIOUS
<1>1. /\ stage # "idle" /\ stage' = "failed" /\ to_delete' = {}
      /\ UNCHANGED <<disk, CURRENT, stable, meta_files, current_sequence_number, proc, todo>>
  BY DEF Fail, disk_vars, db_vars
<1>2. proc = "open" /\ Intact(meta_files)
  BY <1>1, RecoveryImpliesReaders DEF RecoveryInv, Inv, Control, ReadersFindFiles
<1>3. Intact(meta_files)'
  BY <1>1, <1>2 DEF Intact, IsKind, Rows
<1>4. Shape' /\ Loadable' /\ Recovering' /\ Running' /\ Deleting' /\ Writer'
  BY <1>1, <1>2, <1>3 DEF RecoveryInv, Shape, Top, Loadable, Dead, Recovering, Running, Deleting, Writer
<1> QED
  BY <1>4 DEF DiskInv

\* A crash loses no file that the surviving CURRENT counts.
LEMMA CrashStep == RecoveryInv /\ Crash => DiskInv' /\ Writer'
<1> SUFFICES ASSUME RecoveryInv, Crash PROVE DiskInv' /\ Writer'
  OBVIOUS
<1>1. /\ CURRENT' \in {CURRENT, stable} /\ stable' = CURRENT' /\ meta_files' = {} /\ proc' = "down" /\ proc # "down"
      /\ stage' = "idle" /\ to_delete' = {} /\ NoWork'
  BY DEF Crash, NoWriter, NoWork
<1>2. PICK lost : /\ lost \subseteq Present \ synced
                  /\ disk' = [s \in Seqs |-> IF s \in lost THEN NoFile ELSE disk[s]]
  BY DEF Crash
<1>3. \A s \in Seqs : (s \in lost /\ disk'[s].kind = "none") \/ (s \notin lost /\ disk'[s] = disk[s])
  BY <1>2 DEF NoFile
<1>4. Recovering' /\ Running' /\ Deleting' /\ Writer'
  BY <1>1 DEF Recovering, Running, Deleting, Writer
<1>5. Shape' /\ Loadable'
  <2>1. CASE proc = "init"
    <3>1. Present = {}
      BY <2>1 DEF RecoveryInv, Inv, Numbered
    <3>2. \A s \in Seqs : disk'[s].kind = "none"
      BY <1>3, <3>1 DEF Present, Exists
    <3>3. FilesOK(disk', CURRENT') /\ \A cur, dead : Sound(disk', cur, dead)
      BY <3>2, EmptyDirectory
    <3>4. CURRENT' \in Nat => CURRENT' <= MaxSeq
      BY <1>1 DEF RecoveryInv, Loadable
    <3> QED
      BY <1>1, <3>3, <3>4 DEF Shape, Top, Loadable
  <2>2. CASE proc # "init"
    <3>1. PICK cur \in Nat : cur = CURRENT' /\ cur \in {CURRENT, stable}
      BY <1>1, <2>2 DEF RecoveryInv, Inv, Typed, Control
    <3>2. \A s \in Seqs : s <= cur => disk'[s] = disk[s]
      <4>1. \A s \in Present : s <= cur => s \in synced
        BY <3>1, SyncedInv DEF RecoveryInv, CurrentFilesSynced
      <4> QED
        BY <1>2, <1>3, <4>1
    <3>3. /\ FilesOK(disk, Top) /\ ListsLower(disk) /\ cur <= Top /\ Top \in Nat
          /\ cur <= MaxSeq /\ Sound(disk, cur, DeadIn(disk, cur))
      <4>1. CURRENT \in Nat
        BY <1>1, <2>2 DEF RecoveryInv, Inv, Typed, Control
      <4> QED
        BY <3>1, <4>1, TopIsNat, ListsAreLower DEF RecoveryInv, Shape, Loadable, Dead
    <3>4. Sound(disk', cur, DeadIn(disk', cur))
      BY <3>2, <3>3, SameBelow
    <3>5. FilesOK(disk', cur)
      <4>1. \A s \in Seqs : disk'[s] = disk[s] \/ disk'[s].kind = "none"
        BY <1>3
      <4>2. PICK top \in Nat : top = Top
        BY <3>3
      <4>3. \A s \in Seqs : s <= cur /\ disk'[s].kind = "sst" =>
              s <= top /\ \A b \in Seqs : b < s /\ disk[b].kind = "blob" => disk'[b] = disk[b]
        BY <3>2, <3>3, <4>2
      <4> QED
        BY <3>3, <4>1, <4>2, <4>3, FilesRemoved
    <3> QED
      BY <1>1, <3>1, <3>3, <3>4, <3>5 DEF Shape, Top, Loadable, Dead
  <2> QED
    BY <2>1, <2>2
<1> QED
  BY <1>4, <1>5 DEF DiskInv

\* Opening changes nothing of the writer's.
LEMMA OpeningWriter == RecoveryInv /\ Opening => Writer'
<1> SUFFICES ASSUME RecoveryInv, Opening PROVE Writer'
  OBVIOUS
<1>1. proc # "open" /\ UNCHANGED writer_vars
  BY DEF Opening, InitCreate, InitWrite, OpenStart, RecoverRemove, OpenFinish
<1>2. stage = "idle" /\ NoWork
  BY <1>1 DEF RecoveryInv, Inv, Control, Writer
<1> QED
  BY <1>1, <1>2 DEF Writer, NoWork, writer_vars

LEMMA RecoveryStutters == RecoveryInv /\ UNCHANGED vars => RecoveryInv'
<1> SUFFICES ASSUME RecoveryInv, UNCHANGED vars PROVE RecoveryInv'
  OBVIOUS
<1>1. UNCHANGED <<disk, synced, CURRENT, stable, meta_files, current_sequence_number, active_write_operation,
                  read_only, proc, todo, stage, next_seq, new_files, new_ssts, jobs, obsolete, to_delete>>
  BY DEF vars, disk_vars, db_vars, writer_vars
<1>2. Inv'
  BY StepInv DEF RecoveryInv
<1>3. TypeOK'
  <2>1. TypeOK' = TypeOK
    BY <1>1, Zenon DEF TypeOK, EmptyFunction, OpenedMeta
  <2> QED
    BY <2>1 DEF RecoveryInv
<1>4. Shape' /\ Loadable' /\ Deleting'
  BY <1>1 DEF RecoveryInv, Shape, Top, Loadable, Dead, Deleting, DeadNow, Present, Exists
<1>5. Recovering' /\ Running'
  BY <1>1 DEF RecoveryInv, Recovering, TodoOK, Running, Intact, IsKind, Rows, Dead, DeadNow, Present, Exists
<1>6. Writer'
  <2>1. stage = "idle" => NoWork'
    BY <1>1 DEF RecoveryInv, Writer, NoWork
  <2>2. ASSUME Work PROVE Work'
    <3>1. Present' = Present /\ NewMetas' = NewMetas /\ \A f : Live(f)' = Live(f)
      BY <1>1 DEF Present, Exists, NewMetas, Live
    <3>2. \A f, s : Collectable(f, s)' <=> Collectable(f, s)
      BY <1>1, <3>1 DEF Collectable
    <3>3. \A f \in Families : CollectedOK(f)' /\ JobsOK(f)'
      BY <1>1, <2>2, <3>1, <3>2 DEF Work, CollectedOK, JobsOK
    <3>4. \A m \in NewMetas : NewMetaOK(m)'
      BY <1>1, <2>2, <3>1 DEF Work, NewMetaOK, Collectable
    <3> QED
      BY <1>1, <2>2, <3>1, <3>3, <3>4 DEF Work
  <2> QED
    BY <1>1, <2>1, <2>2 DEF RecoveryInv, Writer
<1> QED
  BY <1>2, <1>3, <1>4, <1>5, <1>6 DEF RecoveryInv

-----------------------------------------------------------------------------
(* Types *)

FileTyped(x) == \/ x = NoFile
                \/ x.kind = "sst" /\ SstFile(x)
                \/ x.kind = "meta" /\ MetaFile(x)
                \/ x.kind = "blob" /\ BlobFile(x)
                \/ x.kind = "del" /\ DelFile(x)
DiskTyped == disk = [s \in Seqs |-> disk[s]] /\ (\A s \in Seqs : FileTyped(disk[s])) /\ synced \subseteq Seqs
DbTyped ==
  /\ CURRENT \in Nat \cup {Torn, NoCurrent}
  /\ stable \in Nat \cup {Torn, NoCurrent}
  /\ \A m \in meta_files : OpenedMeta(m)
  /\ current_sequence_number \in 0..MaxSeq
  /\ active_write_operation \in BOOLEAN
  /\ read_only \in BOOLEAN
  /\ proc \in {"down", "init", "recover", "open"}
  /\ todo \subseteq Seqs
CollectorTyped(f) == IsPartialFunction(new_ssts[f], Seqs, Nat) /\ IsPartialFunction(jobs[f], 1..MaxJobs, SUBSET Seqs)
WriterTyped ==
  /\ stage \in Stages
  /\ next_seq \in 0..MaxSeq
  /\ new_files \subseteq Seqs
  /\ new_ssts = [f \in Families |-> new_ssts[f]]
  /\ jobs = [f \in Families |-> jobs[f]]
  /\ \A f \in Families : CollectorTyped(f)
  /\ obsolete \in [Families -> SUBSET Seqs]
  /\ to_delete \subseteq Seqs

LEMMA TypeParts == /\ TypeOK <=> DiskTyped /\ DbTyped /\ WriterTyped
                   /\ TypeOK' <=> DiskTyped' /\ DbTyped' /\ WriterTyped'
BY DEF TypeOK, DiskTyped, FileTyped, DbTyped, WriterTyped, CollectorTyped, Stages

LEMMA EmptyIsTyped == \A S, T : IsPartialFunction(EmptyFunction, S, T)
BY DEF IsPartialFunction, EmptyFunction

\* Open meta files have the types of the files they were read from.
LEMMA OpenedIsTyped ==
  ASSUME NEW d, \A s \in Seqs : FileTyped(d[s]), NEW cur, NEW dead, NEW x \in Database(d, MetasIn(d, cur, dead))
  PROVE  OpenedMeta(x)
<1> DEFINE M == MetasIn(d, cur, dead)
<1>1. PICK m \in M : x = Entry(d, M, m)
  BY DEF Database
<1>2. m \in Seqs /\ MetaFile(d[m])
  BY DEF MetasIn, FileTyped, NoFile
<1>3. /\ d[m].family \in Families /\ d[m].obsolete \in SUBSET Seqs
      /\ IsPartialFunction(d[m].ssts, Seqs, Nat)
  BY <1>2 DEF MetaFile
<1>4. PICK live \in SUBSET DOMAIN d[m].ssts : x = Offering(d, m, live)
  BY <1>1 DEF Entry
<1> QED
  BY <1>2, <1>3, <1>4 DEF OpenedMeta, Offering

LEMMA OneFileTyped ==
  ASSUME DiskTyped, NEW n, NEW content, FileTyped(content), disk' = [disk EXCEPT ![n] = content], synced' \subseteq Seqs
  PROVE  DiskTyped'
<1>1. disk' = [s \in Seqs |-> IF s = n THEN content ELSE disk[s]]
  BY DEF DiskTyped
<1> QED
  BY <1>1 DEF DiskTyped

LEMMA SstTyped ==
  ASSUME NEW f \in Families, NEW rows, IsPartialFunction(rows, Keys, Entries)
  PROVE  FileTyped([kind |-> "sst", family |-> f, rows |-> rows])
BY DEF FileTyped, SstFile

LEMMA OpeningTypes == RecoveryInv /\ Opening => TypeOK'
<1> SUFFICES ASSUME RecoveryInv, Opening PROVE TypeOK'
  OBVIOUS
<1>1. DiskTyped /\ DbTyped /\ WriterTyped
  BY TypeParts DEF RecoveryInv
<1>3. UNCHANGED writer_vars
  BY DEF Opening, InitCreate, InitWrite, OpenStart, RecoverRemove, OpenFinish
<1>4. WriterTyped'
  BY <1>1, <1>3 DEF writer_vars, WriterTyped, CollectorTyped
<1>5. DiskTyped' /\ DbTyped'
  <2>1. ASSUME NEW ro \in BOOLEAN, InitCreate(ro) PROVE DiskTyped' /\ DbTyped'
    BY <1>1, <2>1 DEF InitCreate, DiskTyped, DbTyped
  <2>2. CASE InitWrite
    BY <1>1, <2>2 DEF InitWrite, db_vars, DiskTyped, DbTyped
  <2>3. ASSUME NEW ro \in BOOLEAN, OpenStart(ro) PROVE DiskTyped' /\ DbTyped'
    <3>1. Leftovers \subseteq Seqs
      BY DEF Leftovers, Present
    <3> QED
      BY <1>1, <2>3, <3>1 DEF OpenStart, disk_vars, DiskTyped, DbTyped
  <2>4. ASSUME NEW s \in Seqs, RecoverRemove(s) PROVE DiskTyped' /\ DbTyped'
    <3>1. FileTyped(NoFile)
      BY DEF FileTyped
    <3>2. disk' = [disk EXCEPT ![s] = NoFile] /\ synced' \subseteq Seqs
      BY <1>1, <2>4 DEF RecoverRemove, DiskTyped
    <3>3. DiskTyped'
      BY <1>1, <3>1, <3>2, OneFileTyped
    <3> QED
      BY <1>1, <2>4, <3>3 DEF RecoverRemove, db_vars, DbTyped
  <2>5. CASE OpenFinish
    <3>1. DiskTyped'
      BY <1>1, <2>5 DEF OpenFinish, disk_vars, DiskTyped
    <3>2. CURRENT \in 0..MaxSeq /\ stage = "idle"
      BY <2>5 DEF OpenFinish, RecoveryInv, Loadable, Inv, Control
    <3>5. \A m \in meta_files' : OpenedMeta(m)
      <4>1. meta_files' = Load(CURRENT)
        BY <2>5 DEF OpenFinish
      <4> QED
        BY <1>1, <4>1, LoadIs, OpenedIsTyped DEF DiskTyped
    <3> QED
      BY <1>1, <2>5, <3>1, <3>2, <3>5 DEF OpenFinish, disk_vars, DbTyped, OpenedMeta
  <2> QED
    BY <2>1, <2>2, <2>3, <2>4, <2>5 DEF Opening
<1> QED
  BY <1>4, <1>5, TypeParts

LEMMA CreateFileTypes ==
  ASSUME RecoveryInv, NEW content, NEW room \in Nat, FileTyped(content), CreateFile(content, room)
  PROVE  DiskTyped' /\ next_seq' \in 0..MaxSeq /\ new_files' \subseteq Seqs /\ next_seq + 1 \in Seqs
<1>1. DiskTyped /\ DbTyped /\ WriterTyped
  BY TypeParts DEF RecoveryInv
<1>2. /\ disk' = [disk EXCEPT ![next_seq + 1] = content] /\ synced' = synced \ {next_seq + 1}
      /\ next_seq' = next_seq + 1 /\ next_seq + room < MaxSeq /\ new_files' = new_files \cup {next_seq + 1}
  BY DEF CreateFile
<1>3. next_seq \in Nat /\ next_seq + 1 \in Seqs /\ next_seq' \in 0..MaxSeq
  BY <1>1, <1>2 DEF WriterTyped
<1>4. synced' \subseteq Seqs /\ new_files' \subseteq Seqs
  BY <1>1, <1>2, <1>3 DEF DiskTyped, WriterTyped
<1>5. DiskTyped'
  BY <1>1, <1>2, <1>4, OneFileTyped
<1> QED
  BY <1>3, <1>4, <1>5

LEMMA BatchRowsTyped ==
  ASSUME NEW rows \in BatchRows
  PROVE  IsPartialFunction(rows, Keys, Entries)
<1>1. PICK D \in SUBSET Keys :
        rows \in [D -> (Values \ LargeValues) \cup {Deleted} \cup [blob : UnreferencedBlobs]]
  BY DEF BatchRows
<1>2. [blob : UnreferencedBlobs] \subseteq [blob : Seqs]
  BY DEF UnreferencedBlobs, IsKind
<1>3. \A k \in D : rows[k] \in Entries
  BY <1>1, <1>2 DEF Entries
<1> QED
  BY <1>1, <1>3 DEF IsPartialFunction

LEMMA BatchingTypes == RecoveryInv /\ Batching => TypeOK'
<1> SUFFICES ASSUME RecoveryInv, Batching PROVE TypeOK'
  OBVIOUS
<1>1. DiskTyped /\ DbTyped /\ WriterTyped
  BY TypeParts DEF RecoveryInv
<1>2. CASE BeginBatch
  <2>1. DiskTyped' /\ DbTyped'
    BY <1>1, <1>2 DEF BeginBatch, AcquireWrite, disk_vars, DiskTyped, DbTyped
  <2>2. WriterTyped'
    BY <1>1, <1>2 DEF BeginBatch, AcquireWrite, WriterTyped, CollectorTyped, DbTyped, Stages
  <2> QED
    BY <2>1, <2>2, TypeParts
<1>3. ASSUME NEW v \in LargeValues, CreateBlob(v) PROVE TypeOK'
  <2>1. FileTyped([kind |-> "blob", value |-> v])
    BY DEF FileTyped, BlobFile
  <2>2. DiskTyped' /\ next_seq' \in 0..MaxSeq /\ new_files' \subseteq Seqs
    BY <1>3, <2>1, CreateFileTypes DEF CreateBlob
  <2>3. DbTyped'
    BY <1>1, <1>3 DEF CreateBlob, db_vars, DbTyped
  <2>4. WriterTyped'
    BY <1>1, <1>3, <2>2 DEF CreateBlob, WriterTyped, CollectorTyped
  <2> QED
    BY <2>2, <2>3, <2>4, TypeParts
<1>4. ASSUME NEW f \in Families, NEW rows \in BatchRows, WriteSst(f, rows) PROVE TypeOK'
  <2>0. PICK n : n = next_seq + 1
    OBVIOUS
  <2>1. FileTyped([kind |-> "sst", family |-> f, rows |-> rows])
    BY BatchRowsTyped, SstTyped
  <2>2. DiskTyped' /\ next_seq' \in 0..MaxSeq /\ new_files' \subseteq Seqs /\ n \in Seqs
    BY <1>4, <2>0, <2>1, CreateFileTypes DEF WriteSst
  <2>3. DbTyped'
    BY <1>1, <1>4 DEF WriteSst, db_vars, DbTyped
  <2>4. new_ssts' = [new_ssts EXCEPT ![f] =
                       [s \in DOMAIN @ \cup {n} |-> IF s \in DOMAIN @ THEN @[s] ELSE s]]
    BY <1>4, <2>0 DEF WriteSst
  <2>5. IsPartialFunction(new_ssts'[f], Seqs, Nat)
    <3>1. IsPartialFunction(new_ssts[f], Seqs, Nat)
      BY <1>1 DEF WriterTyped, CollectorTyped
    <3>2. new_ssts'[f] = [s \in DOMAIN new_ssts[f] \cup {n} |-> IF s \in DOMAIN new_ssts[f] THEN new_ssts[f][s] ELSE s]
      BY <1>1, <2>4 DEF WriterTyped
    <3> QED
      BY <2>2, <3>1, <3>2 DEF IsPartialFunction
  <2>6. /\ new_ssts' = [g \in Families |-> new_ssts'[g]]
        /\ \A g \in Families : g # f => new_ssts'[g] = new_ssts[g]
    BY <1>1, <2>4 DEF WriterTyped
  <2>7. UNCHANGED <<stage, jobs, obsolete, to_delete>>
    BY <1>4 DEF WriteSst
  <2>8. \A g \in Families : CollectorTyped(g)'
    BY <1>1, <2>5, <2>6, <2>7 DEF WriterTyped, CollectorTyped
  <2>9. WriterTyped'
    BY <1>1, <2>2, <2>6, <2>7, <2>8 DEF WriterTyped
  <2> QED
    BY <2>2, <2>3, <2>9, TypeParts
<1>5. CASE FinishBatch
  <2>1. DiskTyped' /\ DbTyped' /\ WriterTyped'
    BY <1>1, <1>5 DEF FinishBatch, disk_vars, db_vars, DiskTyped, DbTyped, WriterTyped, CollectorTyped, Stages
  <2> QED
    BY <2>1, TypeParts
<1> QED
  BY <1>2, <1>3, <1>4, <1>5 DEF Batching

LEMMA CollectTypes ==
  ASSUME WriterTyped, NEW f \in Families, NEW j \in 1..MaxJobs, NEW files \in SUBSET Seqs,
         Collect(f, [s \in files |-> j]), EndJob(f, j)
  PROVE  /\ new_ssts' = [g \in Families |-> new_ssts'[g]] /\ jobs' = [g \in Families |-> jobs'[g]]
         /\ \A g \in Families : CollectorTyped(g)'
<1> DEFINE placed == [s \in files |-> j]
<1>1. /\ new_ssts'[f] = [s \in DOMAIN new_ssts[f] \cup files |->
                           IF s \in DOMAIN new_ssts[f] THEN new_ssts[f][s] ELSE placed[s]]
      /\ jobs'[f] = [i \in DOMAIN jobs[f] \ {j} |-> jobs[f][i]]
      /\ \A g \in Families : g # f => new_ssts'[g] = new_ssts[g] /\ jobs'[g] = jobs[g]
  <2>1. DOMAIN placed = files
    OBVIOUS
  <2> HIDE DEF placed
  <2>2. Collect(f, placed)
    BY DEF placed
  <2> QED
    BY <2>1, <2>2 DEF WriterTyped, Collect, EndJob
<1>2. new_ssts' = [g \in Families |-> new_ssts'[g]] /\ jobs' = [g \in Families |-> jobs'[g]]
  BY DEF WriterTyped, Collect, EndJob
<1>3. \A s \in files : placed[s] \in Nat
  OBVIOUS
<1> HIDE DEF placed
<1>4. IsPartialFunction(new_ssts'[f], Seqs, Nat)
  <2>1. IsPartialFunction(new_ssts[f], Seqs, Nat)
    BY DEF WriterTyped, CollectorTyped
  <2> QED
    BY <1>1, <1>3, <2>1 DEF IsPartialFunction
<1>5. IsPartialFunction(jobs'[f], 1..MaxJobs, SUBSET Seqs)
  <2>1. IsPartialFunction(jobs[f], 1..MaxJobs, SUBSET Seqs)
    BY DEF WriterTyped, CollectorTyped
  <2> QED
    BY <1>1, <2>1 DEF IsPartialFunction
<1>6. \A g \in Families : CollectorTyped(g)'
  BY <1>1, <1>4, <1>5 DEF WriterTyped, CollectorTyped
<1> QED
  BY <1>2, <1>6

LEMMA MergedTyped ==
  ASSUME RecoveryInv, stage \in Unpublished, proc = "open", NEW f, NEW inputs, inputs \subseteq Live(f)
  PROVE  DOMAIN Merged(inputs) \subseteq Keys /\ \A k \in DOMAIN Merged(inputs) : Merged(inputs)[k] \in Entries
<1>1. \A s \in inputs : IsPartialFunction(disk[s].rows, Keys, Entries)
  <2>1. \A s \in inputs : s \in Seqs /\ disk[s].kind = "sst"
    BY LiveFacts
  <2> QED
    BY <2>1, SstsAreTyped DEF RecoveryInv
<1>2. PICK rows : rows = Merged(inputs)
  OBVIOUS
<1>3. /\ DOMAIN rows = UNION {DOMAIN disk[s].rows : s \in inputs}
      /\ \A k \in DOMAIN rows : \E s \in inputs : k \in DOMAIN disk[s].rows /\ rows[k] = disk[s].rows[k]
  <2>1. /\ DOMAIN Merged(inputs) = UNION {DOMAIN disk[s].rows : s \in inputs}
        /\ \A k \in DOMAIN Merged(inputs) :
              \E s \in inputs : k \in DOMAIN disk[s].rows /\ Merged(inputs)[k] = disk[s].rows[k]
    BY MergedRows
  <2> QED
    BY <1>2, <2>1
<1>4. DOMAIN rows \subseteq Keys
  BY <1>1, <1>3 DEF IsPartialFunction
<1>5. \A k \in DOMAIN rows : rows[k] \in Entries
  BY <1>1, <1>3 DEF IsPartialFunction
<1> QED
  BY <1>2, <1>4, <1>5

LEMMA CompactingTypes == RecoveryInv /\ Compacting => TypeOK'
<1> SUFFICES ASSUME RecoveryInv, Compacting PROVE TypeOK'
  OBVIOUS
<1>1. DiskTyped /\ DbTyped /\ WriterTyped
  BY TypeParts DEF RecoveryInv
<1>2. ASSUME NEW plan \in [AllLive -> 0..MaxJobs], BeginCompact(plan) PROVE TypeOK'
  <2>1. DiskTyped' /\ DbTyped'
    BY <1>1, <1>2 DEF BeginCompact, AcquireWrite, disk_vars, DiskTyped, DbTyped
  <2>2. \A f \in Families : Live(f) \subseteq Seqs /\ \A s \in Live(f) : plan[s] \in 0..MaxJobs
    <3>1. \A m \in meta_files : m.live \subseteq Seqs
      BY <1>1 DEF DbTyped, OpenedMeta, IsPartialFunction
    <3>2. \A f \in Families : \A s \in Live(f) : s \in AllLive
      BY DEF AllLive
    <3> QED
      BY <3>1, <3>2 DEF Live
  <2>3. /\ stage' = "metas" /\ next_seq' = current_sequence_number /\ UNCHANGED <<new_files, new_ssts, to_delete>>
        /\ jobs' = [f \in Families |->
                      [j \in {plan[s] : s \in Live(f)} \ {0} |-> {s \in Live(f) : plan[s] = j}]]
        /\ obsolete' = [f \in Families |->
                      {s \in Live(f) : plan[s] > 0 /\ \E t \in Live(f) : t # s /\ plan[t] = plan[s]}]
    BY <1>2 DEF BeginCompact, AcquireWrite
  <2>4. obsolete' \in [Families -> SUBSET Seqs]
    BY <2>2, <2>3
  <2>5. ASSUME NEW f \in Families PROVE IsPartialFunction(jobs'[f], 1..MaxJobs, SUBSET Seqs)
    <3>1. jobs'[f] = [j \in {plan[s] : s \in Live(f)} \ {0} |-> {s \in Live(f) : plan[s] = j}]
      BY <2>3
    <3>2. {plan[s] : s \in Live(f)} \ {0} \subseteq 1..MaxJobs
      BY <2>2
    <3> QED
      BY <2>2, <3>1, <3>2 DEF IsPartialFunction
  <2>6. jobs' = [f \in Families |-> jobs'[f]]
    BY <2>3
  <2>7. \A f \in Families : CollectorTyped(f)'
    BY <1>1, <2>3, <2>5 DEF WriterTyped, CollectorTyped
  <2>8. WriterTyped'
    BY <1>1, <2>3, <2>4, <2>6, <2>7 DEF WriterTyped, DbTyped, Stages
  <2> QED
    BY <2>1, <2>8, TypeParts
<1>3. ASSUME NEW f \in Families, NEW j \in 1..MaxJobs, NEW s \in Seqs, MoveSst(f, j, s) PROVE TypeOK'
  <2>1. DiskTyped' /\ DbTyped'
    BY <1>1, <1>3 DEF MoveSst, disk_vars, db_vars, DiskTyped, DbTyped
  <2>2. Collect(f, [t \in {s} |-> j]) /\ EndJob(f, j) /\ UNCHANGED <<stage, next_seq, new_files, obsolete, to_delete>>
    BY <1>3 DEF MoveSst
  <2>3. /\ new_ssts' = [g \in Families |-> new_ssts'[g]] /\ jobs' = [g \in Families |-> jobs'[g]]
        /\ \A g \in Families : CollectorTyped(g)'
    <3>1. PICK files \in SUBSET Seqs : files = {s}
      OBVIOUS
    <3>2. Collect(f, [t \in files |-> j])
      BY <2>2, <3>1
    <3> QED
      BY <1>1, <2>2, <3>2, CollectTypes
  <2>4. WriterTyped'
    BY <1>1, <2>2, <2>3 DEF WriterTyped
  <2> QED
    BY <2>1, <2>4, TypeParts
<1>4. ASSUME NEW f \in Families, NEW j \in 1..MaxJobs, NEW first \in SUBSET Keys, MergeSsts(f, j, first) PROVE TypeOK'
  <2> DEFINE rows == Merged(jobs[f][j])
             part == [k \in first |-> rows[k]]
             rest == [k \in DOMAIN rows \ first |-> rows[k]]
             sst(r) == [kind |-> "sst", family |-> f, rows |-> r]
             one == next_seq + 1
             files == IF rest = EmptyFunction THEN {one} ELSE {one, one + 1}
  <2>1. /\ stage = "metas" /\ j \in DOMAIN jobs[f] /\ first \subseteq DOMAIN rows
        /\ files \subseteq 1..(MaxSeq - 2)
        /\ next_seq' = (IF rest = EmptyFunction THEN one ELSE one + 1)
        /\ disk' = [s \in Seqs |-> IF s \notin files THEN disk[s] ELSE IF s = one THEN sst(part) ELSE sst(rest)]
        /\ synced' = synced \ files /\ new_files' = new_files \cup files
        /\ Collect(f, [s \in files |-> j]) /\ EndJob(f, j)
        /\ UNCHANGED <<CURRENT, stable, db_vars, proc, todo, stage, obsolete, to_delete>>
    BY <1>4 DEF MergeSsts
  <2>2. PICK inputs : inputs = jobs[f][j]
    OBVIOUS
  <2>3. inputs \subseteq Live(f) /\ stage \in Unpublished /\ proc = "open"
    BY <2>1, <2>2 DEF RecoveryInv, Writer, Work, JobsOK, Inv, Control, Unpublished
  <2>4. DOMAIN rows \subseteq Keys /\ \A k \in DOMAIN rows : rows[k] \in Entries
    <3>1. DOMAIN Merged(inputs) \subseteq Keys /\ \A k \in DOMAIN Merged(inputs) : Merged(inputs)[k] \in Entries
      BY <2>3, MergedTyped
    <3> QED
      BY <2>2, <3>1
  <2> HIDE DEF rows
  <2>5. IsPartialFunction(part, Keys, Entries) /\ IsPartialFunction(rest, Keys, Entries)
    BY <2>1, <2>4 DEF IsPartialFunction
  <2>6. FileTyped(sst(part)) /\ FileTyped(sst(rest))
    <3> HIDE DEF part, rest
    <3> QED
      BY <2>5, SstTyped
  <2>7. next_seq' \in files /\ next_seq \in Nat
    BY <1>1, <2>1 DEF WriterTyped
  <2> HIDE DEF files, sst, part, rest
  <2>8. files \in SUBSET Seqs /\ next_seq' \in 0..MaxSeq
    BY <2>1, <2>7
  <2>9. DiskTyped'
    BY <1>1, <2>1, <2>6 DEF DiskTyped
  <2>10. DbTyped'
    BY <1>1, <2>1 DEF DbTyped, db_vars
  <2>11. /\ new_ssts' = [g \in Families |-> new_ssts'[g]] /\ jobs' = [g \in Families |-> jobs'[g]]
         /\ \A g \in Families : CollectorTyped(g)'
    BY <1>1, <2>1, <2>8, CollectTypes
  <2>12. new_files' \subseteq Seqs /\ UNCHANGED <<stage, obsolete, to_delete>>
    BY <1>1, <2>1, <2>8 DEF WriterTyped
  <2>13. WriterTyped'
    BY <1>1, <2>8, <2>11, <2>12 DEF WriterTyped
  <2> QED
    BY <2>9, <2>10, <2>13, TypeParts
<1> QED
  BY <1>2, <1>3, <1>4 DEF Compacting

LEMMA CommittingTypes == RecoveryInv /\ Committing => TypeOK'
<1> SUFFICES ASSUME RecoveryInv, Committing PROVE TypeOK'
  OBVIOUS
<1>1. DiskTyped /\ DbTyped /\ WriterTyped
  BY TypeParts DEF RecoveryInv
<1>2. ASSUME NEW f \in Families, WriteMeta(f) PROVE TypeOK'
  <2> DEFINE content == [kind |-> "meta", family |-> f, ssts |-> new_ssts[f], obsolete |-> obsolete[f]]
  <2>1. FileTyped(content)
    <3>1. IsPartialFunction(new_ssts[f], Seqs, Nat) /\ obsolete[f] \in SUBSET Seqs
      BY <1>1 DEF WriterTyped, CollectorTyped
    <3> QED
      BY <3>1 DEF FileTyped, MetaFile
  <2>2. CreateFile(content, 0) /\ UNCHANGED <<CURRENT, stable, db_vars, proc, todo, stage, jobs, obsolete, to_delete>>
        /\ new_ssts' = [new_ssts EXCEPT ![f] = EmptyFunction]
    BY <1>2 DEF WriteMeta
  <2> HIDE DEF content
  <2>3. DiskTyped' /\ next_seq' \in 0..MaxSeq /\ new_files' \subseteq Seqs
    BY <2>1, <2>2, CreateFileTypes
  <2>4. DbTyped'
    BY <1>1, <2>2 DEF db_vars, DbTyped
  <2>5. /\ new_ssts' = [g \in Families |-> new_ssts'[g]] /\ new_ssts'[f] = EmptyFunction
        /\ \A g \in Families : g # f => new_ssts'[g] = new_ssts[g]
    BY <1>1, <2>2 DEF WriterTyped
  <2>6. \A g \in Families : CollectorTyped(g)'
    BY <1>1, <2>2, <2>5, EmptyIsTyped DEF WriterTyped, CollectorTyped
  <2>7. WriterTyped'
    BY <1>1, <2>2, <2>3, <2>5, <2>6 DEF WriterTyped
  <2> QED
    BY <2>3, <2>4, <2>7, TypeParts
<1>3. CASE SyncFiles
  <2>1. DiskTyped' /\ DbTyped' /\ WriterTyped'
    BY <1>1, <1>3 DEF SyncFiles, db_vars, DiskTyped, DbTyped, WriterTyped, CollectorTyped, Stages
  <2> QED
    BY <2>1, TypeParts
<1>4. CASE Publish
  <2>1. DiskTyped'
    BY <1>1, <1>4 DEF Publish, disk_vars, DiskTyped
  <2>2. Running' /\ Deleting'
    BY <1>4, PublishStep DEF DiskInv
  <2>3. /\ proc' = proc /\ proc = "open" /\ disk' = disk /\ stage' \in {"current", "del"}
        /\ UNCHANGED <<disk_vars, active_write_operation, read_only, proc, todo, next_seq, new_files, new_ssts, jobs, obsolete>>
    BY <1>4 DEF Publish, disk_vars, RecoveryInv, Inv, Control
  <2>4. \A m \in meta_files' : OpenedMeta(m)
    <3>1. meta_files' = Database(disk, MetasIn(disk, current_sequence_number', DeadNow'))
      BY <2>2, <2>3 DEF Running
    <3> QED
      BY <1>1, <3>1, OpenedIsTyped DEF DiskTyped
  <2>5. current_sequence_number' \in 0..MaxSeq
    <3>1. PICK doomed : (doomed # {} => next_seq < MaxSeq) /\ current_sequence_number' = NextCurrent(doomed)
      BY <1>4 DEF Publish
    <3>2. next_seq \in 0..MaxSeq
      BY <1>1 DEF WriterTyped
    <3> QED
      BY <3>1, <3>2 DEF NextCurrent
  <2>6. DbTyped'
    BY <1>1, <2>3, <2>4, <2>5 DEF DbTyped, disk_vars, OpenedMeta
  <2>7. to_delete' \subseteq Seqs
    BY <2>2 DEF Deleting
  <2>8. WriterTyped'
    BY <1>1, <2>3, <2>7 DEF WriterTyped, CollectorTyped, Stages
  <2> QED
    BY <2>1, <2>6, <2>8, TypeParts
<1>5. CASE WriteDel
  <2>1. FileTyped([kind |-> "del", dead |-> to_delete])
    BY <1>1 DEF FileTyped, DelFile, WriterTyped
  <2>2. disk' = [disk EXCEPT ![current_sequence_number] = [kind |-> "del", dead |-> to_delete]]
    BY <1>5 DEF WriteDel
  <2>3. synced' \subseteq Seqs
    <3>1. current_sequence_number \in Seqs
      <4>1. current_sequence_number \in 0..MaxSeq
        BY <1>1 DEF DbTyped
      <4>2. CURRENT \in Nat /\ CURRENT < current_sequence_number
        BY <1>5 DEF WriteDel, RecoveryInv, Deleting, Inv, Typed, Control
      <4> QED
        BY <4>1, <4>2
    <3> QED
      BY <1>1, <1>5, <3>1 DEF WriteDel, DiskTyped
  <2>4. DiskTyped'
    BY <1>1, <2>1, <2>2, <2>3, OneFileTyped
  <2>5. DbTyped' /\ WriterTyped'
    BY <1>1, <1>5 DEF WriteDel, db_vars, DbTyped, WriterTyped, CollectorTyped, Stages
  <2> QED
    BY <2>4, <2>5, TypeParts
<1>6. CASE WriteCurrent
  <2>1. DiskTyped' /\ WriterTyped'
    BY <1>1, <1>6 DEF WriteCurrent, DiskTyped, WriterTyped, CollectorTyped, Stages
  <2>2. CURRENT' \in Nat
    BY <1>1, <1>6 DEF WriteCurrent, DbTyped
  <2>3. DbTyped'
    BY <1>1, <1>6, <2>2 DEF WriteCurrent, db_vars, DbTyped
  <2> QED
    BY <2>1, <2>3, TypeParts
<1>7. CASE SyncCurrent
  <2>1. DiskTyped' /\ DbTyped' /\ WriterTyped'
    BY <1>1, <1>7 DEF SyncCurrent, db_vars, DiskTyped, DbTyped, WriterTyped, CollectorTyped, Stages
  <2> QED
    BY <2>1, TypeParts
<1>8. ASSUME NEW s \in Seqs, RemoveFile(s) PROVE TypeOK'
  <2>1. FileTyped(NoFile)
    BY DEF FileTyped
  <2>2. disk' = [disk EXCEPT ![s] = NoFile] /\ synced' \subseteq Seqs
    BY <1>1, <1>8 DEF RemoveFile, DiskTyped
  <2>3. DiskTyped'
    BY <1>1, <2>1, <2>2, OneFileTyped
  <2>4. DbTyped' /\ WriterTyped'
    BY <1>1, <1>8 DEF RemoveFile, db_vars, DbTyped, WriterTyped, CollectorTyped
  <2> QED
    BY <2>3, <2>4, TypeParts
<1>9. CASE CommitDone
  <2>1. DiskTyped' /\ DbTyped'
    BY <1>1, <1>9 DEF CommitDone, disk_vars, DiskTyped, DbTyped
  <2>2. WriterTyped'
    BY <1>9, EmptyIsTyped DEF CommitDone, NoWriter, WriterTyped, CollectorTyped, Stages
  <2> QED
    BY <2>1, <2>2, TypeParts
<1> QED
  BY <1>2, <1>3, <1>4, <1>5, <1>6, <1>7, <1>8, <1>9 DEF Committing

LEMMA FailTypes == RecoveryInv /\ Fail => TypeOK'
<1> SUFFICES ASSUME RecoveryInv, Fail PROVE TypeOK'
  OBVIOUS
<1>1. DiskTyped /\ DbTyped /\ WriterTyped
  BY TypeParts DEF RecoveryInv
<1>2. DiskTyped' /\ DbTyped'
  BY <1>1 DEF Fail, disk_vars, db_vars, DiskTyped, DbTyped
<1>3. WriterTyped'
  BY <1>1, EmptyIsTyped DEF Fail, WriterTyped, CollectorTyped, Stages
<1> QED
  BY <1>2, <1>3, TypeParts

LEMMA CrashTypes == RecoveryInv /\ Crash => TypeOK'
<1> SUFFICES ASSUME RecoveryInv, Crash PROVE TypeOK'
  OBVIOUS
<1>1. DiskTyped /\ DbTyped /\ WriterTyped
  BY TypeParts DEF RecoveryInv
<1>2. PICK lost : /\ disk' = [s \in Seqs |-> IF s \in lost THEN NoFile ELSE disk[s]]
                  /\ synced' = Present \ lost
  BY DEF Crash
<1>3. DiskTyped'
  <2>1. FileTyped(NoFile)
    BY DEF FileTyped
  <2> QED
    BY <1>1, <1>2, <2>1 DEF DiskTyped, Present
<1>4. DbTyped'
  <2>1. CURRENT' \in Nat \cup {Torn, NoCurrent} /\ stable' \in Nat \cup {Torn, NoCurrent}
    BY <1>1 DEF Crash, DbTyped
  <2>2. meta_files' = {} /\ todo' = {} /\ proc' = "down"
    BY DEF Crash
  <2>3. current_sequence_number' \in 0..MaxSeq
    BY DEF Crash
  <2>4. active_write_operation' \in BOOLEAN /\ read_only' \in BOOLEAN
    BY DEF Crash
  <2> QED
    BY <2>1, <2>2, <2>3, <2>4 DEF DbTyped
<1>5. WriterTyped'
  BY EmptyIsTyped DEF Crash, NoWriter, WriterTyped, CollectorTyped, Stages
<1> QED
  BY <1>3, <1>4, <1>5, TypeParts

-----------------------------------------------------------------------------
(* The theorems *)

LEMMA InitRecovery == Init => RecoveryInv
<1> SUFFICES ASSUME Init PROVE RecoveryInv
  OBVIOUS
<1>1. /\ proc = "down" /\ stage = "idle" /\ meta_files = {} /\ to_delete = {} /\ CURRENT = NoCurrent /\ stable = NoCurrent
      /\ \A s \in Seqs : disk[s].kind = "none"
  BY DEF Init, NoFile
<1>2. Inv
  BY InitInv
<1>3. TypeOK
  <2>1. DiskTyped
    <3>1. \A s \in Seqs : disk[s] = NoFile
      BY DEF Init
    <3>2. disk = [s \in Seqs |-> disk[s]] /\ synced = {}
      BY DEF Init
    <3> QED
      BY <3>1, <3>2 DEF DiskTyped, FileTyped
  <2>3. DbTyped
    <3>1. 0 \in 0..MaxSeq
      OBVIOUS
    <3> QED
      BY <3>1 DEF Init, DbTyped
  <2>2. WriterTyped
    BY EmptyIsTyped DEF Init, WriterTyped, CollectorTyped, Stages
  <2> QED
    BY <2>1, <2>2, <2>3, TypeParts
<1>4. Shape
  BY <1>1, EmptyDirectory DEF Shape
<1>5. Loadable /\ Recovering /\ Running /\ Deleting
  BY <1>1, CurrentAssumption DEF Loadable, Recovering, Running, Deleting
<1>6. Writer
  BY <1>1 DEF Init, Writer, NoWork
<1> QED
  BY <1>2, <1>3, <1>4, <1>5, <1>6 DEF RecoveryInv

LEMMA StepRecovery == RecoveryInv /\ [Next]_vars => RecoveryInv'
<1> SUFFICES ASSUME RecoveryInv, [Next]_vars PROVE RecoveryInv'
  OBVIOUS
<1>1. CASE UNCHANGED vars
  BY <1>1, RecoveryStutters
<1>2. CASE Next
  <2>1. Inv'
    BY StepInv DEF RecoveryInv
  <2>2. TypeOK'
    BY <1>2, OpeningTypes, BatchingTypes, CompactingTypes, CommittingTypes, FailTypes, CrashTypes DEF Next
  <2>3. DiskInv' /\ Writer'
    BY <1>2, OpeningDisk, OpeningWriter, BatchingStep, CompactingStep, CommittingStep, FailStep, CrashStep DEF Next
  <2> QED
    BY <2>1, <2>2, <2>3 DEF RecoveryInv, DiskInv
<1> QED
  BY <1>1, <1>2

\* Through every interleaving of batches, compactions, commits, failures, crashes and recoveries: the directory holds
\* what CURRENT, as written and as last synced, needs; the running database is the one a restart would load once its
\* commit is through; and the writer has accounted for every file above CURRENT.
THEOREM RecoveryIsInvariant == Spec => []RecoveryInv
BY InitRecovery, StepRecovery, PTL DEF Spec

\* Every variable has its type, for every number of families, keys and values and every bound.
THEOREM Types == Spec => []TypeOK
<1>1. RecoveryInv => TypeOK
  BY DEF RecoveryInv
<1> QED
  BY <1>1, RecoveryIsInvariant, PTL

\* However far a commit or a recovery had come when the process stopped, load_directory finds each SST file that its
\* meta files offer, in the right family, and each blob file these name.
THEOREM RestartsFindFiles == Spec => []RestartFindsFiles
BY RecoveryImpliesRestart, RecoveryIsInvariant, PTL

\* A reader that opens SST and blob files lazily never finds that a commit has removed one.
THEOREM ReadersAreSafe == Spec => []ReadersFindFiles
BY RecoveryImpliesReaders, RecoveryIsInvariant, PTL

\* Once CURRENT is written, every fs::remove_file of the commit meets a file.
THEOREM RemovalsSucceed == Spec => []RemovalsExist
BY RecoveryImpliesRemovals, RecoveryIsInvariant, PTL

\* When no write operation is under way, the directory of an open database holds no SST or meta file that is not in use.
THEOREM NothingIsLeftBehind == Spec => []NothingLeftBehind
BY RecoveryImpliesNothingLeft, RecoveryIsInvariant, PTL

-----------------------------------------------------------------------------
(* Reading the open meta files X of a directory d: Get and View as operators of the directory *)

SstRows(d, s) == IF s \in Seqs /\ d[s].kind = "sst" THEN d[s].rows ELSE EmptyFunction
Blob(d, b) == IF b \in Seqs /\ d[b].kind = "blob" THEN d[b].value ELSE Absent
Resolved(d, entry) ==
  IF entry = Deleted THEN Absent ELSE IF entry \in Values THEN entry ELSE Blob(d, entry.blob)
SlotsIn(d, X, f, k) ==
  {slot \in X \X Seqs : slot[1].family = f /\ slot[2] \in slot[1].live /\ k \in DOMAIN SstRows(d, slot[2])}
GetIn(d, X, f, k) ==
  CHOOSE v \in Values \cup {Absent} :
    \E slots \in {SlotsIn(d, X, f, k)} :
      IF slots = {} THEN v = Absent
      ELSE \E a \in slots : (\A b \in slots : Newer(a, b)) /\ v = Resolved(d, SstRows(d, a[2])[k])
ViewIn(d, X) == [f \in Families |-> [k \in Keys |-> GetIn(d, X, f, k)]]

LEMMA GetIs == \A X, f, k : Get(X, f, k) = GetIn(disk, X, f, k)
BY DEF Get, GetIn, Slots, SlotsIn, Rows, SstRows, Resolve, Resolved, BlobValue, Blob, IsKind

LEMMA ViewIs == \A X : View(X) = ViewIn(disk, X)
BY GetIs DEF View, ViewIn

LEMMA ViewIsNext == (\A X : View(X) = ViewIn(disk, X))'
BY ViewIs, PTL

\* An SST file reads the same in two directories.
SameRead(d, e, s) ==
  /\ SstRows(e, s) = SstRows(d, s)
  /\ \A k \in DOMAIN SstRows(d, s) : Resolved(e, SstRows(d, s)[k]) = Resolved(d, SstRows(d, s)[k])

LEMMA SameView ==
  ASSUME NEW d, NEW e, NEW X, \A x \in X : \A s \in x.live \cap Seqs : SameRead(d, e, s)
  PROVE  ViewIn(e, X) = ViewIn(d, X) /\ \A f, k : GetIn(e, X, f, k) = GetIn(d, X, f, k)
<1>1. ASSUME NEW f, NEW k PROVE GetIn(e, X, f, k) = GetIn(d, X, f, k)
  <2>1. \A slot \in X \X Seqs : slot[2] \in slot[1].live => SameRead(d, e, slot[2])
    OBVIOUS
  <2>2. SlotsIn(e, X, f, k) = SlotsIn(d, X, f, k)
    BY <2>1 DEF SlotsIn, SameRead
  <2>3. \A a \in SlotsIn(d, X, f, k) : Resolved(e, SstRows(e, a[2])[k]) = Resolved(d, SstRows(d, a[2])[k])
    BY <2>1 DEF SlotsIn, SameRead
  <2>4. \A v \in Values \cup {Absent} :
          (\E slots \in {SlotsIn(e, X, f, k)} :
             IF slots = {} THEN v = Absent
             ELSE \E a \in slots : (\A b \in slots : Newer(a, b)) /\ v = Resolved(e, SstRows(e, a[2])[k]))
          <=>
          (\E slots \in {SlotsIn(d, X, f, k)} :
             IF slots = {} THEN v = Absent
             ELSE \E a \in slots : (\A b \in slots : Newer(a, b)) /\ v = Resolved(d, SstRows(d, a[2])[k]))
    BY <2>2, <2>3
  <2> QED
    BY <2>4 DEF GetIn
<1> QED
  BY <1>1 DEF ViewIn

\* So does one that is kept with the blobs it names, because no file is overwritten ...
LEMMA SstReads ==
  ASSUME TypeOK, FilesKept, NEW s, IsKind(s, "sst"), IsKind(s, "sst")',
         \A b \in BlobsOf(Rows(s)) : IsKind(b, "blob"), (\A b \in BlobsOf(Rows(s)) : IsKind(b, "blob"))'
  PROVE  SameRead(disk, disk', s)
<1>1. /\ s \in Seqs /\ disk[s].kind = "sst" /\ disk'[s].kind = "sst"
      /\ \A b \in BlobsOf(Rows(s)) : b \in Seqs /\ disk[b].kind = "blob"
      /\ \A b \in BlobsOf(Rows(s)') : b \in Seqs /\ disk'[b].kind = "blob"
  BY DEF IsKind, BlobsOf
<1>2. \A b \in Seqs : disk[b].kind # "none" /\ disk'[b].kind # "none" => disk'[b] = disk[b]
  BY DEF FilesKept, Exists, NoFile
<1>3. disk'[s] = disk[s] /\ SstRows(disk', s) = disk[s].rows /\ SstRows(disk, s) = disk[s].rows
  BY <1>1, <1>2 DEF SstRows
<1>4. Rows(s) = disk[s].rows /\ Rows(s)' = disk[s].rows
  BY <1>1, <1>3 DEF Rows, IsKind
<1>5. ASSUME NEW k \in DOMAIN disk[s].rows
      PROVE  Resolved(disk', disk[s].rows[k]) = Resolved(disk, disk[s].rows[k])
  <2>1. disk[s].rows[k] \in Entries
    BY <1>1, SstsAreTyped DEF IsPartialFunction
  <2>2. ASSUME NEW b \in Seqs, disk[s].rows[k] = [blob |-> b] PROVE disk'[b] = disk[b]
    <3>1. b \in BlobsOf(disk[s].rows)
      BY <2>2 DEF BlobsOf
    <3> QED
      BY <1>1, <1>2, <1>4, <3>1
  <2> QED
    BY <2>1, <2>2 DEF Resolved, Blob, Entries
<1> QED
  BY <1>3, <1>5 DEF SameRead

\* ... and so do meta files that stay intact.
LEMMA IntactView ==
  ASSUME TypeOK, FilesKept, NEW X, Intact(X), Intact(X)'
  PROVE  ViewIn(disk', X) = ViewIn(disk, X) /\ \A f, k : GetIn(disk', X, f, k) = GetIn(disk, X, f, k)
<1>1. ASSUME NEW x \in X, NEW s \in x.live PROVE SameRead(disk, disk', s)
  BY SstReads DEF Intact
<1> QED
  BY <1>1, SameView

-----------------------------------------------------------------------------
(* The newest SST file that holds a key *)

\* Meta file m of M offers s, of family f, which holds key k ...
Holds(d, M, f, k, m, s) ==
  /\ m \in M /\ d[m].family = f /\ s \in Seqs /\ s \in DOMAIN d[m].ssts /\ ~Hidden(d, M, m, s)
  /\ k \in DOMAIN SstRows(d, s)
\* ... and no other is read before it.
Newest(d, M, f, k, m, s) ==
  /\ Holds(d, M, f, k, m, s)
  /\ \A n, t : Holds(d, M, f, k, n, t) => m > n \/ (m = n /\ d[m].ssts[s] >= d[n].ssts[t])

\* What every database has: places are numbers, two SST files in one place share no key, and what is on offer
\* is there, with the blobs it names.
Readable(d, M) ==
  /\ M \in SUBSET Seqs
  /\ \A m \in M : /\ \A s \in DOMAIN d[m].ssts : d[m].ssts[s] \in Nat
                  /\ PlacesApart(d, d[m].ssts)
  /\ \A m \in M : \A s \in DOMAIN d[m].ssts : ~Hidden(d, M, m, s) =>
       /\ s \in Seqs /\ d[s].kind = "sst"
       /\ \A k \in DOMAIN d[s].rows : Resolved(d, d[s].rows[k]) \in Values \cup {Absent}

LEMMA HoldsIs ==
  ASSUME NEW d, NEW M, Readable(d, M), NEW f, NEW k, NEW m, NEW s, Holds(d, M, f, k, m, s)
  PROVE  /\ m \in Seqs /\ s \in Seqs /\ d[m].ssts[s] \in Nat /\ d[s].kind = "sst"
         /\ SstRows(d, s) = d[s].rows /\ k \in DOMAIN d[s].rows
         /\ Resolved(d, d[s].rows[k]) \in Values \cup {Absent}
BY DEF Readable, Holds, SstRows

LEMMA NewestExists ==
  ASSUME NEW d, NEW M, Readable(d, M), NEW f, NEW k, NEW m0, NEW s0, Holds(d, M, f, k, m0, s0)
  PROVE  \E m, s : Newest(d, M, f, k, m, s)
<1> DEFINE T == {p \in Seqs \X Seqs : Holds(d, M, f, k, p[1], p[2])}
           R == {q \in T \X T : \/ q[1][1] < q[2][1]
                                \/ q[1][1] = q[2][1] /\ d[q[1][1]].ssts[q[1][2]] < d[q[2][1]].ssts[q[2][2]]}
           Less(x, y) == \/ x[1] < y[1]
                         \/ x[1] = y[1] /\ d[x[1]].ssts[x[2]] < d[y[1]].ssts[y[2]]
<1>1. \A x \in T : x[1] \in Nat /\ d[x[1]].ssts[x[2]] \in Nat
  BY HoldsIs
<1>2. \A x, y \in T : <<x, y>> \in R <=> Less(x, y)
  OBVIOUS
<1>3. IsFiniteSet(T)
  <2>1. IsFiniteSet(1..MaxSeq)
    BY FS_Interval
  <2>2. IsFiniteSet(Seqs \X Seqs)
    BY <2>1, FS_Product
  <2> QED
    BY <2>2, FS_Subset
<1>4. <<m0, s0>> \in T
  BY HoldsIs
<1>5. \A x \in T : ~Less(x, x)
  BY <1>1
<1>6. \A x, y, z \in T : Less(x, y) /\ Less(y, z) => Less(x, z)
  BY <1>1
<1> HIDE DEF R
<1>7. PICK p \in T : \A q \in T : <<p, q>> \notin R
  <2> HIDE DEF T, Less
  <2>1. T # {} /\ \A x \in T : <<x, x>> \notin R
    BY <1>2, <1>4, <1>5
  <2>2. \A x, y, z \in T : <<x, y>> \in R /\ <<y, z>> \in R => <<x, z>> \in R
    BY <1>2, <1>6
  <2> QED
    BY <1>3, <2>1, <2>2, Maximal
<1>8. ASSUME NEW n, NEW t, Holds(d, M, f, k, n, t)
      PROVE  p[1] > n \/ (p[1] = n /\ d[p[1]].ssts[p[2]] >= d[n].ssts[t])
  <2>1. <<n, t>> \in T
    BY <1>8, HoldsIs
  <2>2. ~Less(p, <<n, t>>)
    BY <1>2, <1>7, <2>1
  <2>3. /\ p[1] \in Nat /\ d[p[1]].ssts[p[2]] \in Nat
        /\ <<n, t>>[1] = n /\ <<n, t>>[2] = t /\ n \in Nat /\ d[n].ssts[t] \in Nat
    BY <1>1, <2>1
  <2> QED
    BY <2>2, <2>3
<1> QED
  BY <1>7, <1>8 DEF Newest

LEMMA NewestUnique ==
  ASSUME NEW d, NEW M, Readable(d, M), NEW f, NEW k, NEW m, NEW s, Newest(d, M, f, k, m, s),
         NEW n, NEW t, Newest(d, M, f, k, n, t)
  PROVE  m = n /\ s = t
<1>1. /\ m \in Nat /\ n \in Nat /\ d[m].ssts[s] \in Nat /\ d[n].ssts[t] \in Nat
      /\ d[s].kind = "sst" /\ d[t].kind = "sst" /\ k \in DOMAIN d[s].rows /\ k \in DOMAIN d[t].rows
  BY HoldsIs DEF Newest
<1>2. m = n /\ d[m].ssts[s] = d[n].ssts[t]
  BY <1>1 DEF Newest
<1>3. PlacesApart(d, d[m].ssts) /\ s \in DOMAIN d[m].ssts /\ t \in DOMAIN d[m].ssts
  BY <1>2 DEF Readable, Newest, Holds
<1> QED
  BY <1>1, <1>2, <1>3 DEF PlacesApart

\* The slots of a database are its holders.
LEMMA SlotsAre ==
  ASSUME NEW d, NEW M, NEW f, NEW k
  PROVE  /\ \A slot : slot \in SlotsIn(d, Database(d, M), f, k) =>
              \E m, s : Holds(d, M, f, k, m, s) /\ slot = <<Entry(d, M, m), s>>
         /\ \A m, s : Holds(d, M, f, k, m, s) => <<Entry(d, M, m), s>> \in SlotsIn(d, Database(d, M), f, k)
         /\ \A m, s, n, t : Newer(<<Entry(d, M, m), s>>, <<Entry(d, M, n), t>>)
                              <=> m > n \/ (m = n /\ d[m].ssts[s] >= d[n].ssts[t])
<1>1. \A m : /\ Entry(d, M, m).seq = m /\ Entry(d, M, m).family = d[m].family /\ Entry(d, M, m).ssts = d[m].ssts
             /\ \A s : s \in Entry(d, M, m).live <=> s \in DOMAIN d[m].ssts /\ ~Hidden(d, M, m, s)
  BY DEF Entry, Offering
<1>2. ASSUME NEW slot \in SlotsIn(d, Database(d, M), f, k)
      PROVE  \E m, s : Holds(d, M, f, k, m, s) /\ slot = <<Entry(d, M, m), s>>
  <2>1. PICK m \in M, s \in Seqs : slot = <<Entry(d, M, m), s>>
    BY DEF SlotsIn, Database
  <2>2. Holds(d, M, f, k, m, s)
    BY <1>1, <2>1 DEF SlotsIn, Holds
  <2> QED
    BY <2>1, <2>2
<1>3. ASSUME NEW m, NEW s, Holds(d, M, f, k, m, s)
      PROVE  <<Entry(d, M, m), s>> \in SlotsIn(d, Database(d, M), f, k)
  BY <1>1, <1>3 DEF SlotsIn, Holds, Database
<1>4. \A m, s, n, t : Newer(<<Entry(d, M, m), s>>, <<Entry(d, M, n), t>>)
                         <=> m > n \/ (m = n /\ d[m].ssts[s] >= d[n].ssts[t])
  BY <1>1 DEF Newer
<1> QED
  BY <1>2, <1>3, <1>4

\* A read finds what the newest holder says, or nothing if there is none.
LEMMA GetNewest ==
  ASSUME NEW d, NEW M, Readable(d, M), NEW f, NEW k, NEW m, NEW s, Newest(d, M, f, k, m, s)
  PROVE  GetIn(d, Database(d, M), f, k) = Resolved(d, d[s].rows[k])
<1> DEFINE S == SlotsIn(d, Database(d, M), f, k)
           a0 == <<Entry(d, M, m), s>>
           v0 == Resolved(d, d[s].rows[k])
           Answer(v) == \E slots \in {S} :
             IF slots = {} THEN v = Absent
             ELSE \E a \in slots : (\A b \in slots : Newer(a, b)) /\ v = Resolved(d, SstRows(d, a[2])[k])
<1>1. Holds(d, M, f, k, m, s) /\ v0 \in Values \cup {Absent} /\ SstRows(d, s) = d[s].rows
  BY HoldsIs DEF Newest
<1>2. a0 \in S /\ \A b \in S : Newer(a0, b)
  BY <1>1, SlotsAre DEF Newest
<1>3. ASSUME NEW a \in S, \A b \in S : Newer(a, b) PROVE a[2] = s
  <2>1. PICK n, t : Holds(d, M, f, k, n, t) /\ a = <<Entry(d, M, n), t>>
    BY SlotsAre
  <2>2. Newest(d, M, f, k, n, t)
    <3> SUFFICES ASSUME NEW o, NEW u, Holds(d, M, f, k, o, u)
                 PROVE  n > o \/ (n = o /\ d[n].ssts[t] >= d[o].ssts[u])
      BY <2>1 DEF Newest
    <3>1. <<Entry(d, M, o), u>> \in S
      BY SlotsAre
    <3> QED
      BY <1>3, <2>1, <3>1, SlotsAre
  <2> QED
    BY <2>1, <2>2, NewestUnique
<1> HIDE DEF S, v0
<1>4. Answer(v0)
  BY <1>1, <1>2 DEF v0
<1>5. \A v : Answer(v) => v = v0
  BY <1>1, <1>2, <1>3 DEF v0
<1>6. GetIn(d, Database(d, M), f, k) = CHOOSE v \in Values \cup {Absent} : Answer(v)
  BY DEF GetIn, S
<1> HIDE DEF Answer
<1>7. GetIn(d, Database(d, M), f, k) = v0
  BY <1>1, <1>4, <1>5, <1>6
<1> QED
  BY <1>7 DEF v0

LEMMA GetNone ==
  ASSUME NEW d, NEW M, NEW f, NEW k, \A m, s : ~Holds(d, M, f, k, m, s)
  PROVE  GetIn(d, Database(d, M), f, k) = Absent
<1>1. SlotsIn(d, Database(d, M), f, k) = {}
  BY SlotsAre
<1> QED
  BY <1>1 DEF GetIn

LEMMA GetTyped ==
  ASSUME NEW d, NEW M, Readable(d, M), NEW f, NEW k
  PROVE  GetIn(d, Database(d, M), f, k) \in Values \cup {Absent}
<1>1. CASE \A m, s : ~Holds(d, M, f, k, m, s)
  BY <1>1, GetNone
<1>2. ASSUME NEW m, NEW s, Holds(d, M, f, k, m, s) PROVE GetIn(d, Database(d, M), f, k) \in Values \cup {Absent}
  <2>1. PICK n, t : Newest(d, M, f, k, n, t)
    BY <1>2, NewestExists
  <2> QED
    BY <2>1, GetNewest, HoldsIs DEF Newest
<1> QED
  BY <1>1, <1>2

\* Databases with the same holders of a key answer the same.
LEMMA SameHolders ==
  ASSUME NEW d, NEW M, Readable(d, M), NEW N, Readable(d, N), NEW f, NEW k,
         \A m, s : Holds(d, M, f, k, m, s) <=> Holds(d, N, f, k, m, s)
  PROVE  GetIn(d, Database(d, M), f, k) = GetIn(d, Database(d, N), f, k)
<1>1. CASE \A m, s : ~Holds(d, M, f, k, m, s)
  BY <1>1, GetNone
<1>2. ASSUME NEW m, NEW s, Holds(d, M, f, k, m, s)
      PROVE  GetIn(d, Database(d, M), f, k) = GetIn(d, Database(d, N), f, k)
  <2>1. PICK n, t : Newest(d, M, f, k, n, t)
    BY <1>2, NewestExists
  <2>2. Newest(d, N, f, k, n, t)
    BY <2>1 DEF Newest
  <2> QED
    BY <2>1, <2>2, GetNewest
<1> QED
  BY <1>1, <1>2


-----------------------------------------------------------------------------
(* The running database *)

Metas == MetasIn(disk, current_sequence_number, DeadNow)

LEMMA EntriesResolve ==
  ASSUME TypeOK, NEW e \in Entries
  PROVE  Resolved(disk, e) \in Values \cup {Absent}
<1>1. \A b \in Seqs : disk[b].kind = "blob" => disk[b].value \in Values
  BY ValuesAssumption DEF TypeOK, NoFile, BlobFile
<1> QED
  BY <1>1 DEF Resolved, Blob, Entries

LEMMA RunningReadable ==
  RecoveryInv /\ proc = "open" /\ stage # "failed" => meta_files = Database(disk, Metas) /\ Readable(disk, Metas)
<1> SUFFICES ASSUME RecoveryInv, proc = "open", stage # "failed"
             PROVE  meta_files = Database(disk, Metas) /\ Readable(disk, Metas)
  OBVIOUS
<1>1. meta_files = Database(disk, Metas) /\ Sound(disk, current_sequence_number, DeadNow) /\ TypeOK
  BY DEF RecoveryInv, Running, Metas
<1>2. Metas \in SUBSET Seqs /\ \A m \in Metas : disk[m].kind = "meta"
  BY DEF Metas, MetasIn
<1>3. \A m \in Metas : (\A s \in DOMAIN disk[m].ssts : disk[m].ssts[s] \in Nat) /\ PlacesApart(disk, disk[m].ssts)
  <2> SUFFICES ASSUME NEW m \in Metas
               PROVE  (\A s \in DOMAIN disk[m].ssts : disk[m].ssts[s] \in Nat) /\ PlacesApart(disk, disk[m].ssts)
    OBVIOUS
  <2>1. m \in Seqs /\ disk[m].kind = "meta" /\ disk[m] # NoFile
    BY <1>2 DEF NoFile
  <2>2. MetaFile(disk[m])
    BY <1>1, <2>1 DEF TypeOK
  <2>3. PlacesApart(disk, disk[m].ssts)
    BY <2>1 DEF RecoveryInv, Shape, FilesOK, FileOK
  <2> QED
    BY <2>2, <2>3 DEF MetaFile, IsPartialFunction
<1>4. ASSUME NEW m \in Metas, NEW s \in DOMAIN disk[m].ssts, ~Hidden(disk, Metas, m, s)
      PROVE  /\ s \in Seqs /\ disk[s].kind = "sst"
             /\ \A k \in DOMAIN disk[s].rows : Resolved(disk, disk[s].rows[k]) \in Values \cup {Absent}
  <2>1. s \in Seqs /\ disk[s].kind = "sst"
    BY <1>1, <1>4 DEF Sound, Offers, Metas
  <2>2. \A k \in DOMAIN disk[s].rows : disk[s].rows[k] \in Entries
    BY <1>1, <2>1, SstsAreTyped DEF IsPartialFunction
  <2> QED
    BY <1>1, <2>1, <2>2, EntriesResolve
<1> QED
  BY <1>1, <1>2, <1>3, <1>4 DEF Readable

LEMMA NextReadable ==
  RecoveryInv' /\ proc' = "open" /\ stage' # "failed"
    => meta_files' = Database(disk', Metas') /\ Readable(disk', Metas')
<1>1. (RecoveryInv /\ proc = "open" /\ stage # "failed" => meta_files = Database(disk, Metas) /\ Readable(disk, Metas))'
  BY RunningReadable, PTL
<1> QED
  BY <1>1

\* Some of the inputs holds entry e for key k, and no newer one holds the key.
NewestOf(inputs, k, e) ==
  \E s \in inputs : /\ k \in DOMAIN Rows(s) /\ e = Rows(s)[k]
                    /\ \A t \in inputs : t # s /\ k \in DOMAIN Rows(t) => Older(t, s)

LEMMA OlderIsOrder ==
  ASSUME RecoveryInv, stage \in Unpublished, proc = "open", NEW f, NEW s \in Live(f), NEW t \in Live(f), Older(s, t)
  PROVE  ~Older(t, s)
<1>1. /\ Readable(disk, Metas) /\ meta_files = Database(disk, Metas) /\ Metas \in SUBSET Seqs
      /\ OnOffer(disk, Metas, s) /\ OnOffer(disk, Metas, t)
  BY RunningReadable, LiveFacts DEF Unpublished, Metas, Readable
<1>2. /\ Offerer(Metas, s) \in Metas /\ s \in DOMAIN disk[Offerer(Metas, s)].ssts
      /\ Older(s, t) <=> \/ Offerer(Metas, s) < Offerer(Metas, t)
                         \/ Offerer(Metas, s) = Offerer(Metas, t) /\ Place(Metas, s) < Place(Metas, t)
  BY <1>1, OlderIs
<1>3. /\ Offerer(Metas, t) \in Metas /\ t \in DOMAIN disk[Offerer(Metas, t)].ssts
      /\ Older(t, s) <=> \/ Offerer(Metas, t) < Offerer(Metas, s)
                         \/ Offerer(Metas, t) = Offerer(Metas, s) /\ Place(Metas, t) < Place(Metas, s)
  BY <1>1, OlderIs
<1>4. /\ Offerer(Metas, s) \in Nat /\ Offerer(Metas, t) \in Nat /\ Place(Metas, s) \in Nat /\ Place(Metas, t) \in Nat
  <2>1. \A m \in Metas : m \in Nat /\ \A x \in DOMAIN disk[m].ssts : disk[m].ssts[x] \in Nat
    BY <1>1 DEF Readable
  <2> QED
    BY <1>2, <1>3, <2>1 DEF Place
<1> QED
  BY <1>2, <1>3, <1>4

LEMMA LiveHolds ==
  ASSUME RecoveryInv, stage \in Unpublished, proc = "open", NEW f
  PROVE  /\ \A s \in Live(f) : /\ s \in Seqs /\ disk[s].kind = "sst" /\ Rows(s) = disk[s].rows
                               /\ SstRows(disk, s) = Rows(s)
                               /\ \A k \in DOMAIN Rows(s) : \E m : Holds(disk, Metas, f, k, m, s)
         /\ \A k, m, s : Holds(disk, Metas, f, k, m, s) => s \in Live(f) /\ k \in DOMAIN Rows(s)
<1>1. meta_files = Database(disk, Metas) /\ Readable(disk, Metas)
  BY RunningReadable DEF Unpublished
<1>2. \A m : /\ Entry(disk, Metas, m).family = disk[m].family
             /\ \A s : s \in Entry(disk, Metas, m).live <=> s \in DOMAIN disk[m].ssts /\ ~Hidden(disk, Metas, m, s)
  BY DEF Entry, Offering
<1>3. ASSUME NEW s \in Live(f)
      PROVE  /\ s \in Seqs /\ disk[s].kind = "sst" /\ Rows(s) = disk[s].rows /\ SstRows(disk, s) = Rows(s)
             /\ \A k \in DOMAIN Rows(s) : \E m : Holds(disk, Metas, f, k, m, s)
  <2>1. s \in Seqs /\ disk[s].kind = "sst"
    BY LiveFacts
  <2>2. Rows(s) = disk[s].rows /\ SstRows(disk, s) = Rows(s)
    BY <2>1 DEF Rows, SstRows, IsKind
  <2>3. PICK m \in Metas : Entry(disk, Metas, m).family = f /\ s \in Entry(disk, Metas, m).live
    BY <1>1 DEF Live, Database
  <2> QED
    BY <1>2, <2>1, <2>2, <2>3 DEF Holds
<1>4. ASSUME NEW k, NEW m, NEW s, Holds(disk, Metas, f, k, m, s) PROVE s \in Live(f) /\ k \in DOMAIN Rows(s)
  <2>1. Entry(disk, Metas, m) \in meta_files /\ Entry(disk, Metas, m).family = f /\ s \in Entry(disk, Metas, m).live
    BY <1>1, <1>2, <1>4 DEF Holds, Database
  <2> QED
    BY <1>4, <2>1 DEF Live, Holds, Rows, SstRows, IsKind
<1> QED
  BY <1>3, <1>4

\* What Older calls newest, a read returns.
LEMMA CurrentIsRead ==
  ASSUME RecoveryInv, stage \in Unpublished, proc = "open", NEW f, NEW k, NEW e, NewestOf(Live(f), k, e)
  PROVE  GetIn(disk, meta_files, f, k) = Resolved(disk, e)
<1>1. meta_files = Database(disk, Metas) /\ Readable(disk, Metas) /\ Metas \in SUBSET Seqs
  BY RunningReadable DEF Unpublished, Readable
<1>2. PICK h \in Live(f) : /\ k \in DOMAIN Rows(h) /\ e = Rows(h)[k]
                           /\ \A t \in Live(f) : t # h /\ k \in DOMAIN Rows(t) => Older(t, h)
  BY DEF NewestOf
<1>3. PICK m : Holds(disk, Metas, f, k, m, h)
  BY <1>2, LiveHolds
<1>4. Rows(h) = disk[h].rows
  BY LiveHolds
<1>5. ASSUME NEW n, NEW t, Holds(disk, Metas, f, k, n, t)
      PROVE  m > n \/ (m = n /\ disk[m].ssts[h] >= disk[n].ssts[t])
  <2>0. /\ m \in Nat /\ n \in Nat /\ disk[m].ssts[h] \in Nat /\ disk[n].ssts[t] \in Nat
        /\ m \in Metas /\ n \in Metas /\ t \in Live(f) /\ k \in DOMAIN Rows(t)
    <3>1. m \in Nat /\ n \in Nat /\ disk[m].ssts[h] \in Nat /\ disk[n].ssts[t] \in Nat
      <4>1. m \in Seqs /\ disk[m].ssts[h] \in Nat
        BY <1>1, <1>3, HoldsIs
      <4>2. n \in Seqs /\ disk[n].ssts[t] \in Nat
        BY <1>1, <1>5, HoldsIs
      <4> QED
        BY <4>1, <4>2
    <3>2. m \in Metas /\ n \in Metas
      BY <1>3, <1>5 DEF Holds
    <3>3. t \in Live(f) /\ k \in DOMAIN Rows(t)
      BY <1>5, LiveHolds
    <3> QED
      BY <3>1, <3>2, <3>3
  <2>1. \A x, y \in Metas : \A s :
          s \in DOMAIN disk[x].ssts /\ s \in DOMAIN disk[y].ssts
            /\ ~Hidden(disk, Metas, x, s) /\ ~Hidden(disk, Metas, y, s) => x = y
    <3>1. ASSUME NEW x \in Metas, NEW y \in Metas, NEW s, s \in DOMAIN disk[x].ssts, s \in DOMAIN disk[y].ssts,
                 ~Hidden(disk, Metas, x, s), ~Hidden(disk, Metas, y, s)
          PROVE  x = y
      <4>1. x \in Nat /\ y \in Nat
        BY <1>1
      <4>2. ~(x > y) /\ ~(y > x)
        BY <3>1 DEF Hidden, Mentions
      <4> QED
        BY <4>1, <4>2
    <3> QED
      BY <3>1
  <2>2. CASE t = h
    <3>1. m = n
      BY <1>3, <1>5, <2>0, <2>1, <2>2 DEF Holds
    <3> QED
      BY <2>0, <2>2, <3>1
  <2>3. CASE t # h
    <3>1. Older(t, h)
      BY <1>2, <2>0, <2>3
    <3>2. PICK x, y \in meta_files : /\ t \in x.live /\ h \in y.live
                                     /\ x.seq < y.seq \/ (x.seq = y.seq /\ x.ssts[t] < y.ssts[h])
      BY <3>1 DEF Older
    <3>3. PICK xm, ym \in Metas : x = Entry(disk, Metas, xm) /\ y = Entry(disk, Metas, ym)
      BY <1>1 DEF Database
    <3>4. /\ x.seq = xm /\ x.ssts = disk[xm].ssts /\ t \in DOMAIN disk[xm].ssts /\ ~Hidden(disk, Metas, xm, t)
          /\ y.seq = ym /\ y.ssts = disk[ym].ssts /\ h \in DOMAIN disk[ym].ssts /\ ~Hidden(disk, Metas, ym, h)
      BY <3>2, <3>3 DEF Entry, Offering
    <3>5. xm = n /\ ym = m
      BY <1>3, <1>5, <2>0, <2>1, <3>4 DEF Holds
    <3> QED
      BY <2>0, <3>2, <3>4, <3>5
  <2> QED
    BY <2>2, <2>3
<1>6. Newest(disk, Metas, f, k, m, h)
  BY <1>3, <1>5 DEF Newest
<1> QED
  BY <1>1, <1>2, <1>4, <1>6, GetNewest

\* Merging keeps the newest entry of each key.
LEMMA MergedIs ==
  ASSUME RecoveryInv, stage \in Unpublished, proc = "open", NEW f, NEW inputs, inputs \subseteq Live(f), NEW k, NEW e
  PROVE  NewestOf(inputs, k, e) <=> k \in DOMAIN Merged(inputs) /\ e = Merged(inputs)[k]
<1> DEFINE Best(x, s) == /\ x \in DOMAIN Rows(s)
                         /\ \A t \in inputs : t # s /\ x \in DOMAIN Rows(t) => Older(t, s)
<1>1. Merged(inputs) = [x \in UNION {DOMAIN Rows(s) : s \in inputs} |-> Rows(CHOOSE s \in inputs : Best(x, s))[x]]
  BY DEF Merged
<1>2. k \in DOMAIN Merged(inputs) => \E s \in inputs : Best(k, s)
  <2> SUFFICES ASSUME k \in DOMAIN Merged(inputs) PROVE \E s \in inputs : Best(k, s)
    OBVIOUS
  <2>1. \E s \in inputs : k \in DOMAIN Rows(s)
    BY <1>1
  <2>2. /\ Metas \in SUBSET Seqs /\ meta_files = Database(disk, Metas)
        /\ \A m \in Metas : disk[m].kind = "meta"
    BY RunningReadable DEF Unpublished, Readable, Metas, MetasIn
  <2>3. \A s \in inputs : s \in Seqs /\ disk[s].kind = "sst" /\ OnOffer(disk, Metas, s)
    BY LiveFacts DEF Metas
  <2> QED
    BY <2>1, <2>2, <2>3, NewestHolder
<1>3. ASSUME NEW s \in inputs, Best(k, s), NEW t \in inputs, Best(k, t) PROVE s = t
  <2>1. s # t => Older(t, s) /\ Older(s, t)
    BY <1>3
  <2>2. s \in Live(f) /\ t \in Live(f)
    OBVIOUS
  <2> QED
    BY <2>1, <2>2, OlderIsOrder
<1>4. NewestOf(inputs, k, e) <=> \E s \in inputs : Best(k, s) /\ e = Rows(s)[k]
  BY DEF NewestOf
<1>5. \A s \in inputs : Best(k, s) => k \in DOMAIN Merged(inputs)
  BY <1>1
<1>6. k \in DOMAIN Merged(inputs) => Merged(inputs)[k] = Rows(CHOOSE s \in inputs : Best(k, s))[k]
  BY <1>1
<1> HIDE DEF Best
<1>7. \A s \in inputs : Best(k, s) => s = CHOOSE t \in inputs : Best(k, t)
  BY <1>3
<1> QED
  BY <1>2, <1>4, <1>5, <1>6, <1>7


-----------------------------------------------------------------------------
(* The invariant: what a write operation is about to make of each key *)

\* SST file s has place j in what will be family f's meta file.
Listed(f, s, j) ==
  \/ s \in DOMAIN new_ssts[f] /\ new_ssts[f][s] = j
  \/ \E m \in NewMetas : disk[m].family = f /\ s \in DOMAIN disk[m].ssts /\ disk[m].ssts[s] = j
\* Place j says, or will say once its job has run, that key k has entry e.
At(f, k, j, e) ==
  \/ j \in DOMAIN jobs[f] /\ NewestOf(jobs[f][j], k, e)
  \/ \E s : Listed(f, s, j) /\ k \in DOMAIN Rows(s) /\ e = Rows(s)[k]
\* What a compaction's last place says of a key is what the key has now; a key it does not mention is not in the
\* SST files it merges away.
KeepsKey(f, k) ==
  /\ \A j, e : At(f, k, j, e) /\ (\A i, d : At(f, k, i, d) => i <= j) => NewestOf(Live(f), k, e)
  /\ (\A j, e : ~At(f, k, j, e)) => \A s \in obsolete[f] : k \notin DOMAIN Rows(s)
\* A batch runs no jobs, and the place of an SST file is its number.
Fresh(f) == jobs[f] = EmptyFunction /\ \A s, j : Listed(f, s, j) => j = s /\ s \in new_files
\* Jobs share no SST file, and none is listed before its job has run.
JobsApart(f) ==
  \A j \in DOMAIN jobs[f] : \A s \in jobs[f][j] :
    /\ \A i \in DOMAIN jobs[f] : s \in jobs[f][i] => i = j
    /\ s \notin DOMAIN new_ssts[f]
\* A family gets one meta file, its last.
OneMeta(f) ==
  \A m \in NewMetas : disk[m].family = f =>
    /\ jobs[f] = EmptyFunction /\ new_ssts[f] = EmptyFunction
    /\ \A n \in NewMetas : disk[n].family = f => n = m
Reorganizing == \E f \in Families : obsolete[f] # {}
Meaning ==
  stage \in {"batch", "metas", "publish"} =>
    /\ stage = "batch" => NewMetas = {}
    /\ \A f \in Families : OneMeta(f) /\ JobsApart(f)
    /\ IF Reorganizing THEN \A f \in Families : \A k : KeepsKey(f, k) ELSE \A f \in Families : Fresh(f)

LEMMA RowsGrow ==
  ASSUME NEW new, \A s \in Seqs : s \notin new => disk'[s] = disk[s]
  PROVE  \A s : s \notin new => Rows(s)' = Rows(s)
BY DEF Rows, IsKind

LEMMA NewestKept ==
  ASSUME UNCHANGED meta_files, NEW inputs, \A s \in inputs : Rows(s)' = Rows(s), NEW k, NEW e
  PROVE  NewestOf(inputs, k, e)' <=> NewestOf(inputs, k, e)
<1>1. \A s, t : Older(s, t)' <=> Older(s, t)
  BY DEF Older
<1> QED
  BY <1>1 DEF NewestOf

\* Nothing of this depends on more than the writer's variables, its files and the database.
LEMMA MeaningQuiet ==
  ASSUME Meaning, stage \in {"batch", "metas", "publish"}, stage' = "batch" => stage = "batch",
         UNCHANGED <<disk, meta_files, new_files, new_ssts, jobs, obsolete>>
  PROVE  Meaning'
<1>1. NewMetas' = NewMetas /\ (Reorganizing' <=> Reorganizing)
  BY DEF NewMetas, Reorganizing
<1>2. \A f, s, j : Listed(f, s, j)' <=> Listed(f, s, j)
  BY <1>1 DEF Listed
<1>3. \A f : (OneMeta(f)' <=> OneMeta(f)) /\ (JobsApart(f)' <=> JobsApart(f))
  BY <1>1 DEF OneMeta, JobsApart
<1>4. \A f : Fresh(f)' <=> Fresh(f)
  BY <1>2 DEF Fresh
<1>5. /\ \A s : Rows(s)' = Rows(s)
      /\ \A s, t : Older(s, t)' <=> Older(s, t)
      /\ \A f : Live(f)' = Live(f)
  BY DEF Rows, IsKind, Older, Live
<1>6. ASSUME NEW f, NEW k PROVE KeepsKey(f, k)' <=> KeepsKey(f, k)
  <2>1. \A j, e : At(f, k, j, e)' <=> At(f, k, j, e)
    BY <1>2, <1>5 DEF At, NewestOf
  <2>2. \A e : NewestOf(Live(f), k, e)' <=> NewestOf(Live(f), k, e)
    BY <1>5 DEF NewestOf
  <2> QED
    BY <1>5, <2>1, <2>2 DEF KeepsKey
<1> QED
  BY <1>1, <1>3, <1>4, <1>6 DEF Meaning

LEMMA BatchWork ==
  ASSUME RecoveryInv, stage = "batch"
  PROVE  /\ Work /\ ~Reorganizing /\ new_files \subseteq Present
         /\ \A f \in Families : obsolete[f] = {} /\ jobs[f] = EmptyFunction
BY DEF RecoveryInv, Writer, Work, Reorganizing

LEMMA CreateBlobMeaning ==
  ASSUME RecoveryInv, Meaning, NEW v \in LargeValues, CreateBlob(v)
  PROVE  Meaning'
<1>0. PICK n : n = next_seq + 1
  OBVIOUS
<1>1. /\ stage = "batch" /\ stage' = "batch" /\ CreateFile([kind |-> "blob", value |-> v], 2)
      /\ UNCHANGED <<new_ssts, jobs, obsolete>>
  BY DEF CreateBlob
<1>2. /\ n \in Seqs /\ disk'[n].kind = "blob" /\ new_files' = new_files \cup {n}
      /\ \A s \in Seqs : s \notin {n} => disk'[s] = disk[s]
      /\ \A s \in Seqs : disk[s].kind # "none" => s # n
  BY <1>0, <1>1, CreateFileFacts
<1>3. NewMetas' = {}
  <2>1. NewMetas = {}
    BY <1>1 DEF Meaning
  <2>2. \A s \in new_files : disk'[s] = disk[s]
    BY <1>1, <1>2, BatchWork DEF Present, Exists
  <2> QED
    BY <1>2, <2>1, <2>2 DEF NewMetas
<1>4. /\ ~Reorganizing /\ ~Reorganizing' /\ \A f \in Families : Fresh(f)
  BY <1>1, BatchWork DEF Meaning, Reorganizing
<1>5. ASSUME NEW f \in Families PROVE OneMeta(f)' /\ JobsApart(f)' /\ Fresh(f)'
  <2>1. OneMeta(f)' /\ JobsApart(f)'
    BY <1>1, <1>3 DEF Meaning, OneMeta, JobsApart
  <2>2. \A s, j : Listed(f, s, j)' => Listed(f, s, j)
    BY <1>1, <1>3 DEF Listed
  <2>3. Fresh(f)'
    BY <1>1, <1>2, <1>4, <2>2 DEF Fresh
  <2> QED
    BY <2>1, <2>3
<1> QED
  BY <1>1, <1>3, <1>4, <1>5 DEF Meaning

LEMMA WriteSstFacts ==
  ASSUME RecoveryInv, NEW f \in Families, NEW rows \in BatchRows, WriteSst(f, rows), NEW n, n = next_seq + 1
  PROVE  /\ stage = "batch" /\ stage' = "batch" /\ UNCHANGED <<jobs, obsolete, meta_files, current_sequence_number, proc>>
         /\ n \in Seqs /\ new_files' = new_files \cup {n}
         /\ disk'[n].kind = "sst" /\ disk'[n].family = f /\ disk'[n].rows = rows
         /\ \A s \in Seqs : s \notin {n} => disk'[s] = disk[s]
         /\ \A s \in Seqs : disk[s].kind # "none" => s < n
         /\ new_ssts'[f] = [s \in DOMAIN new_ssts[f] \cup {n} |-> IF s \in DOMAIN new_ssts[f] THEN new_ssts[f][s] ELSE s]
         /\ \A g \in Families : g # f => new_ssts'[g] = new_ssts[g]
<1>1. /\ stage = "batch" /\ CreateFile([kind |-> "sst", family |-> f, rows |-> rows], 1)
      /\ UNCHANGED <<CURRENT, stable, db_vars, proc, todo, stage, jobs, obsolete, to_delete>>
  BY DEF WriteSst
<1>2. /\ n \in Seqs /\ new_files' = new_files \cup {n}
      /\ disk'[n].kind = "sst" /\ disk'[n].family = f /\ disk'[n].rows = rows
      /\ \A s \in Seqs : s \notin {n} => disk'[s] = disk[s]
      /\ \A s \in Seqs : disk[s].kind # "none" => s < n
  BY <1>1, CreateFileFacts
<1>3. new_ssts = [g \in Families |-> new_ssts[g]]
  BY DEF RecoveryInv, TypeOK
<1> QED
  BY <1>1, <1>2, <1>3 DEF WriteSst, db_vars

LEMMA WriteSstMeaning ==
  ASSUME RecoveryInv, Meaning, NEW f \in Families, NEW rows \in BatchRows, WriteSst(f, rows)
  PROVE  Meaning'
<1>0. PICK n : n = next_seq + 1
  OBVIOUS
<1>1. /\ stage = "batch" /\ stage' = "batch" /\ UNCHANGED <<jobs, obsolete>>
      /\ n \in Seqs /\ new_files' = new_files \cup {n} /\ disk'[n].kind = "sst"
      /\ \A s \in Seqs : s \notin {n} => disk'[s] = disk[s]
      /\ \A s \in Seqs : disk[s].kind # "none" => s < n
      /\ new_ssts'[f] = [s \in DOMAIN new_ssts[f] \cup {n} |-> IF s \in DOMAIN new_ssts[f] THEN new_ssts[f][s] ELSE s]
      /\ \A g \in Families : g # f => new_ssts'[g] = new_ssts[g]
  BY <1>0, WriteSstFacts
<1>3. NewMetas' = {}
  <2>1. NewMetas = {}
    BY <1>1 DEF Meaning
  <2>2. \A s \in new_files : disk'[s] = disk[s]
    <3>1. \A s \in new_files : s \in Seqs /\ disk[s].kind # "none"
      BY <1>1, BatchWork DEF Present, Exists
    <3>2. n \in Nat
      BY <1>1
    <3> QED
      BY <1>1, <3>1, <3>2
  <2> QED
    BY <1>1, <2>1, <2>2 DEF NewMetas
<1>4. /\ ~Reorganizing /\ ~Reorganizing' /\ \A g \in Families : Fresh(g) /\ jobs[g] = EmptyFunction
  BY <1>1, BatchWork DEF Meaning, Reorganizing
<1>5. ASSUME NEW g \in Families PROVE OneMeta(g)' /\ JobsApart(g)' /\ Fresh(g)'
  <2>1. OneMeta(g)' /\ JobsApart(g)'
    BY <1>1, <1>3, <1>4 DEF OneMeta, JobsApart, EmptyFunction
  <2>2. \A s, j : Listed(g, s, j)' => Listed(g, s, j) \/ (s = n /\ j = n)
    <3>1. \A s, j : Listed(g, s, j)' => s \in DOMAIN new_ssts'[g] /\ new_ssts'[g][s] = j
      BY <1>3 DEF Listed
    <3>2. CASE g = f
      BY <1>1, <3>1, <3>2 DEF Listed
    <3>3. CASE g # f
      BY <1>1, <3>1, <3>3 DEF Listed
    <3> QED
      BY <3>2, <3>3
  <2>3. Fresh(g)'
    BY <1>1, <1>4, <2>2 DEF Fresh
  <2> QED
    BY <2>1, <2>3
<1> QED
  BY <1>1, <1>3, <1>4, <1>5 DEF Meaning

LEMMA BatchingMeaning == RecoveryInv /\ Meaning /\ Batching => Meaning'
<1> SUFFICES ASSUME RecoveryInv, Meaning, Batching PROVE Meaning'
  OBVIOUS
<1>1. CASE BeginBatch
  <2>1. AcquireWrite /\ stage' = "batch" /\ UNCHANGED <<new_files, new_ssts, jobs, obsolete>> /\ NoWork
    BY <1>1, BeginStep DEF BeginBatch
  <2>2. /\ NewMetas' = {} /\ ~Reorganizing'
        /\ \A f \in Families : new_ssts'[f] = EmptyFunction /\ jobs'[f] = EmptyFunction
    BY <2>1 DEF NoWork, NewMetas, Reorganizing
  <2>3. \A f \in Families : OneMeta(f)' /\ JobsApart(f)' /\ Fresh(f)'
    BY <2>2 DEF OneMeta, JobsApart, Fresh, Listed, EmptyFunction
  <2> QED
    BY <2>1, <2>2, <2>3 DEF Meaning
<1>2. ASSUME NEW v \in LargeValues, CreateBlob(v) PROVE Meaning'
  BY <1>2, CreateBlobMeaning
<1>3. ASSUME NEW f \in Families, NEW rows \in BatchRows, WriteSst(f, rows) PROVE Meaning'
  BY <1>3, WriteSstMeaning
<1>4. CASE FinishBatch
  BY <1>4, MeaningQuiet DEF FinishBatch, disk_vars, db_vars
<1> QED
  BY <1>1, <1>2, <1>3, <1>4 DEF Batching

\* What keeps the places of a family, its SST files and the order these are read in keeps KeepsKey.
LEMMA KeepsKeyKept ==
  ASSUME UNCHANGED <<meta_files, obsolete>>, NEW f, obsolete[f] \subseteq Live(f), \A s \in Live(f) : Rows(s)' = Rows(s),
         NEW k, \A j, e : At(f, k, j, e)' <=> At(f, k, j, e), KeepsKey(f, k)
  PROVE  KeepsKey(f, k)'
<1>1. Live(f)' = Live(f)
  BY DEF Live
<1>2. \A e : NewestOf(Live(f), k, e)' <=> NewestOf(Live(f), k, e)
  <2>1. PICK live : live = Live(f)
    OBVIOUS
  <2>2. \A e : NewestOf(live, k, e)' <=> NewestOf(live, k, e)
    BY <2>1, NewestKept
  <2> QED
    BY <1>1, <2>1, <2>2
<1> QED
  BY <1>1, <1>2 DEF KeepsKey

LEMMA WriteMetaFacts ==
  ASSUME RecoveryInv, NEW f \in Families, WriteMeta(f), NEW n, n = next_seq + 1
  PROVE  /\ stage = "metas" /\ stage' = "metas" /\ proc = "open"
         /\ UNCHANGED <<jobs, obsolete, meta_files, current_sequence_number>>
         /\ jobs[f] = EmptyFunction /\ new_ssts[f] # EmptyFunction
         /\ n \in Seqs /\ new_files' = new_files \cup {n} /\ new_files \subseteq Present
         /\ disk'[n].kind = "meta" /\ disk'[n].family = f /\ disk'[n].ssts = new_ssts[f]
         /\ \A s \in Seqs : s \notin {n} => disk'[s] = disk[s]
         /\ disk[n].kind = "none"
         /\ new_ssts'[f] = EmptyFunction
         /\ \A g \in Families : g # f => new_ssts'[g] = new_ssts[g]
<1>1. /\ stage = "metas" /\ jobs[f] = EmptyFunction /\ new_ssts[f] # EmptyFunction
      /\ CreateFile([kind |-> "meta", family |-> f, ssts |-> new_ssts[f], obsolete |-> obsolete[f]], 0)
      /\ UNCHANGED <<CURRENT, stable, db_vars, proc, todo, stage, jobs, obsolete, to_delete>>
  BY DEF WriteMeta
<1>2. /\ n \in Seqs /\ new_files' = new_files \cup {n}
      /\ disk'[n].kind = "meta" /\ disk'[n].family = f /\ disk'[n].ssts = new_ssts[f]
      /\ \A s \in Seqs : s \notin {n} => disk'[s] = disk[s]
      /\ \A s \in Seqs : disk[s].kind # "none" => s < n
  BY <1>1, CreateFileFacts
<1>3. disk[n].kind = "none"
  BY <1>2
<1>4. new_ssts = [g \in Families |-> new_ssts[g]]
  BY DEF RecoveryInv, TypeOK
<1>5. new_ssts'[f] = EmptyFunction /\ \A g \in Families : g # f => new_ssts'[g] = new_ssts[g]
  BY <1>4 DEF WriteMeta
<1>6. proc = "open" /\ new_files \subseteq Present
  BY <1>1 DEF RecoveryInv, Writer, Work, Inv, Control
<1> QED
  BY <1>1, <1>2, <1>3, <1>5, <1>6 DEF db_vars

LEMMA WriteMetaMeaning ==
  ASSUME RecoveryInv, Meaning, NEW f \in Families, WriteMeta(f)
  PROVE  Meaning'
<1>0. PICK n : n = next_seq + 1
  OBVIOUS
<1>1. /\ stage = "metas" /\ stage' = "metas" /\ proc = "open"
      /\ UNCHANGED <<jobs, obsolete, meta_files>>
      /\ jobs[f] = EmptyFunction /\ new_ssts[f] # EmptyFunction
      /\ n \in Seqs /\ new_files' = new_files \cup {n} /\ new_files \subseteq Present
      /\ disk'[n].kind = "meta" /\ disk'[n].family = f /\ disk'[n].ssts = new_ssts[f]
      /\ \A s \in Seqs : s \notin {n} => disk'[s] = disk[s]
      /\ disk[n].kind = "none"
      /\ new_ssts'[f] = EmptyFunction
      /\ \A g \in Families : g # f => new_ssts'[g] = new_ssts[g]
  BY <1>0, WriteMetaFacts
<1>2. \A m \in NewMetas : disk[m].family # f
  BY <1>1 DEF Meaning, OneMeta
<1>3. NewMetas' = NewMetas \cup {n} /\ \A m \in NewMetas : m # n /\ disk'[m] = disk[m]
  <2>1. \A m \in new_files : m \in Seqs /\ m # n
    BY <1>1 DEF Present, Exists
  <2> QED
    BY <1>1, <2>1 DEF NewMetas
<1>4. \A s : Rows(s)' = Rows(s)
  BY <1>1 DEF Rows, IsKind
<1>5. ASSUME NEW g \in Families PROVE \A s, j : Listed(g, s, j)' <=> Listed(g, s, j)
  <2>1. CASE g = f
    <3>1. \A s, j : Listed(g, s, j)' <=> s \in DOMAIN new_ssts[f] /\ new_ssts[f][s] = j
      BY <1>1, <1>2, <1>3, <2>1 DEF Listed, EmptyFunction
    <3>2. \A s, j : Listed(g, s, j) <=> s \in DOMAIN new_ssts[f] /\ new_ssts[f][s] = j
      BY <1>2, <2>1 DEF Listed
    <3> QED
      BY <3>1, <3>2
  <2>2. CASE g # f
    BY <1>1, <1>3, <2>2 DEF Listed
  <2> QED
    BY <2>1, <2>2
<1>6. ASSUME NEW g \in Families PROVE OneMeta(g)' /\ JobsApart(g)'
  <2>0. OneMeta(g) /\ JobsApart(g)
    BY <1>1 DEF Meaning
  <2>1. CASE g = f
    BY <1>1, <1>2, <1>3, <2>1 DEF OneMeta, JobsApart, EmptyFunction
  <2>2. CASE g # f
    BY <1>1, <1>3, <2>0, <2>2 DEF OneMeta, JobsApart
  <2> QED
    BY <2>1, <2>2
<1>7. Reorganizing' <=> Reorganizing
  BY <1>1 DEF Reorganizing
<1>8. CASE Reorganizing
  <2>1. ASSUME NEW g \in Families, NEW k PROVE KeepsKey(g, k)'
    <3>1. KeepsKey(g, k) /\ obsolete[g] \subseteq Live(g)
      BY <1>1, <1>8 DEF Meaning, RecoveryInv, Writer, Work, JobsOK
    <3>2. \A j, e : At(g, k, j, e)' <=> At(g, k, j, e)
      <4>1. \A j, e : NewestOf(jobs[g][j], k, e)' <=> NewestOf(jobs[g][j], k, e)
        <5>1. \A s, t : Older(s, t)' <=> Older(s, t)
          BY <1>1 DEF Older
        <5> QED
          BY <1>1, <1>4, <5>1 DEF NewestOf
      <4> QED
        BY <1>1, <1>4, <1>5, <4>1 DEF At
    <3> QED
      BY <1>1, <1>4, <3>1, <3>2, KeepsKeyKept
  <2> QED
    BY <1>1, <1>6, <1>7, <1>8, <2>1 DEF Meaning
<1>9. CASE ~Reorganizing
  <2>1. ASSUME NEW g \in Families PROVE Fresh(g)'
    <3>1. Fresh(g)
      BY <1>1, <1>9 DEF Meaning
    <3> QED
      BY <1>1, <1>5, <3>1 DEF Fresh
  <2> QED
    BY <1>1, <1>6, <1>7, <1>9, <2>1 DEF Meaning
<1> QED
  BY <1>8, <1>9

\* SST files that the writer lists, or has still to merge, are there before its next file.
LEMMA WorkIsThere ==
  ASSUME RecoveryInv, stage \in {"batch", "metas", "publish"}
  PROVE  /\ Work /\ proc = "open" /\ new_files \subseteq Present
         /\ \A f \in Families : Live(f) \subseteq Present /\ obsolete[f] \subseteq Live(f)
         /\ \A f \in Families : \A j \in DOMAIN jobs[f] : jobs[f][j] \subseteq Live(f)
         /\ \A f \in Families : \A s, j : Listed(f, s, j) => s \in Present /\ disk[s].kind = "sst" /\ disk[s].family = f
<1>1. Work /\ proc = "open" /\ new_files \subseteq Present
  BY DEF RecoveryInv, Writer, Work, Inv, Control
<1>2. \A f : \A s \in Live(f) : s \in Present
  BY <1>1, LiveFacts DEF Unpublished, Present, Exists
<1>3. \A f \in Families : obsolete[f] \subseteq Live(f) /\ \A j \in DOMAIN jobs[f] : jobs[f][j] \subseteq Live(f)
  BY <1>1 DEF Work, JobsOK
<1>4. ASSUME NEW f \in Families, NEW s, NEW j, Listed(f, s, j)
      PROVE  s \in Present /\ disk[s].kind = "sst" /\ disk[s].family = f
  <2>1. CASE s \in DOMAIN new_ssts[f]
    BY <1>1, <2>1 DEF Work, CollectedOK, Collectable, Present, Exists
  <2>2. ASSUME NEW m \in NewMetas, disk[m].family = f, s \in DOMAIN disk[m].ssts
        PROVE  s \in Present /\ disk[s].kind = "sst" /\ disk[s].family = f
    BY <1>1, <2>2 DEF Work, NewMetaOK, Collectable, Present, Exists
  <2> QED
    BY <1>4, <2>1, <2>2 DEF Listed
<1> QED
  BY <1>1, <1>2, <1>3, <1>4

\* A job ends: its outputs say, at its place, what its inputs said together.
LEMMA JobMeaning ==
  ASSUME RecoveryInv, Meaning, stage = "metas", stage' = "metas", NEW new \in SUBSET Seqs,
         UNCHANGED <<meta_files, obsolete>>,
         \A s \in Seqs : s \notin new => disk'[s] = disk[s],
         \A n \in new : disk[n].kind = "none" /\ disk'[n].kind = "sst",
         new_files' = new_files \cup new,
         NEW f \in Families, NEW j \in DOMAIN jobs[f], NEW placed,
         Collect(f, placed), EndJob(f, j),
         \A s \in DOMAIN placed : placed[s] = j /\ s \notin DOMAIN new_ssts[f],
         \A i \in DOMAIN jobs[f] : i # j => \A s \in jobs[f][i] : s \notin DOMAIN placed,
         \A k, e : NewestOf(jobs[f][j], k, e) <=> \E s \in DOMAIN placed : k \in DOMAIN Rows(s)' /\ e = Rows(s)'[k]
  PROVE  Meaning'
<1>1. /\ new_ssts'[f] = [s \in DOMAIN new_ssts[f] \cup DOMAIN placed |->
                           IF s \in DOMAIN new_ssts[f] THEN new_ssts[f][s] ELSE placed[s]]
      /\ jobs'[f] = [i \in DOMAIN jobs[f] \ {j} |-> jobs[f][i]]
      /\ \A g \in Families : g # f => new_ssts'[g] = new_ssts[g] /\ jobs'[g] = jobs[g]
  <2>1. new_ssts = [g \in Families |-> new_ssts[g]] /\ jobs = [g \in Families |-> jobs[g]]
    BY DEF RecoveryInv, TypeOK
  <2> QED
    BY <2>1 DEF Collect, EndJob
<1>2. /\ new_files \subseteq Present
      /\ \A g \in Families : Live(g) \subseteq Present /\ obsolete[g] \subseteq Live(g)
      /\ \A g \in Families : \A i \in DOMAIN jobs[g] : jobs[g][i] \subseteq Live(g)
      /\ \A g \in Families : \A s, i : Listed(g, s, i) => s \in Present
  BY WorkIsThere
<1>3. /\ \A s \in Present : s \notin new /\ Rows(s)' = Rows(s)
      /\ \A s, t : Older(s, t)' <=> Older(s, t)
  <2>1. \A s \in Present : s \in Seqs /\ s \notin new
    BY DEF Present, Exists
  <2> QED
    BY <2>1, RowsGrow DEF Older
<1>4. NewMetas' = NewMetas /\ \A m \in NewMetas : disk'[m] = disk[m]
  <2>1. \A m \in new_files : m \in Seqs /\ m \notin new /\ disk'[m] = disk[m]
    BY <1>2, <1>3 DEF Present
  <2>2. \A m \in new : disk'[m].kind # "meta"
    OBVIOUS
  <2> QED
    BY <2>1, <2>2 DEF NewMetas
<1>5. jobs[f] # EmptyFunction
  BY DEF EmptyFunction
<1>6. Reorganizing /\ Reorganizing'
  BY <1>5 DEF Meaning, Fresh, Reorganizing
<1>7. \A m \in NewMetas : disk[m].family # f
  BY <1>5 DEF Meaning, OneMeta
<1>8. /\ \A s, i : Listed(f, s, i) <=> s \in DOMAIN new_ssts[f] /\ new_ssts[f][s] = i
      /\ \A s, i : Listed(f, s, i)' <=> Listed(f, s, i) \/ (s \in DOMAIN placed /\ i = j)
      /\ \A g \in Families : g # f => \A s, i : Listed(g, s, i)' <=> Listed(g, s, i)
  <2>1. \A s, i : Listed(f, s, i) <=> s \in DOMAIN new_ssts[f] /\ new_ssts[f][s] = i
    BY <1>7 DEF Listed
  <2>2. \A s, i : Listed(f, s, i)' <=> s \in DOMAIN new_ssts'[f] /\ new_ssts'[f][s] = i
    BY <1>4, <1>7 DEF Listed
  <2>3. \A g \in Families : g # f => \A s, i : Listed(g, s, i)' <=> Listed(g, s, i)
    BY <1>1, <1>4 DEF Listed
  <2>4. \A s, i : s \in DOMAIN new_ssts'[f] /\ new_ssts'[f][s] = i
           <=> (s \in DOMAIN new_ssts[f] /\ new_ssts[f][s] = i) \/ (s \in DOMAIN placed /\ i = j)
    BY <1>1
  <2>5. \A s, i : Listed(f, s, i)' <=> Listed(f, s, i) \/ (s \in DOMAIN placed /\ i = j)
    BY <2>1, <2>2, <2>4
  <2> QED
    BY <2>1, <2>3, <2>5
<1>10. ASSUME NEW g \in Families, NEW k, NEW i, NEW e PROVE At(g, k, i, e)' <=> At(g, k, i, e)
  <2>1. (\E s : Listed(g, s, i) /\ k \in DOMAIN Rows(s) /\ e = Rows(s)[k])
          <=> (\E s : Listed(g, s, i) /\ k \in DOMAIN Rows(s)' /\ e = Rows(s)'[k])
    BY <1>2, <1>3
  <2>2. At(g, k, i, e)' <=> \/ i \in DOMAIN jobs'[g] /\ NewestOf(jobs[g][i], k, e)'
                            \/ \E s : Listed(g, s, i)' /\ k \in DOMAIN Rows(s)' /\ e = Rows(s)'[k]
    BY DEF At, NewestOf
  <2>3. ASSUME NEW x \in DOMAIN jobs[g], x \in DOMAIN jobs'[g], jobs'[g][x] = jobs[g][x]
        PROVE  NewestOf(jobs[g][x], k, e)' <=> NewestOf(jobs[g][x], k, e)
    <3>1. PICK inputs : inputs = jobs[g][x]
      OBVIOUS
    <3>2. NewestOf(inputs, k, e)' <=> NewestOf(inputs, k, e)
      <4>1. \A s \in inputs : Rows(s)' = Rows(s)
        BY <1>2, <1>3, <3>1
      <4> QED
        BY <4>1, NewestKept
    <3> QED
      BY <2>3, <3>1, <3>2
  <2>4. CASE g = f
    BY <1>1, <1>8, <2>1, <2>2, <2>3, <2>4 DEF At
  <2>5. CASE g # f
    BY <1>1, <1>8, <2>1, <2>2, <2>3, <2>5 DEF At
  <2> QED
    BY <2>4, <2>5
<1>11. ASSUME NEW g \in Families PROVE OneMeta(g)' /\ JobsApart(g)'
  <2>0. OneMeta(g) /\ JobsApart(g)
    BY DEF Meaning
  <2>1. CASE g = f
    <3>1. OneMeta(g)'
      BY <1>4, <1>7, <2>1 DEF OneMeta
    <3>2. JobsApart(g)'
      BY <1>1, <2>0, <2>1 DEF JobsApart
    <3> QED
      BY <3>1, <3>2
  <2>2. CASE g # f
    BY <1>1, <1>4, <2>0, <2>2 DEF OneMeta, JobsApart
  <2> QED
    BY <2>1, <2>2
<1>12. ASSUME NEW g \in Families, NEW k PROVE KeepsKey(g, k)'
  <2>1. KeepsKey(g, k)
    BY <1>6 DEF Meaning
  <2>2. \A s \in Live(g) : Rows(s)' = Rows(s)
    BY <1>2, <1>3
  <2> QED
    BY <1>2, <1>10, <2>1, <2>2, KeepsKeyKept
<1> QED
  BY <1>6, <1>11, <1>12 DEF Meaning

LEMMA MoveSstMeaning ==
  ASSUME RecoveryInv, Meaning, NEW f \in Families, NEW j, NEW s, MoveSst(f, j, s)
  PROVE  Meaning'
<1> DEFINE placed == [t \in {s} |-> j]
<1>1. /\ stage = "metas" /\ stage' = "metas" /\ j \in DOMAIN jobs[f] /\ jobs[f][j] = {s}
      /\ Collect(f, placed) /\ EndJob(f, j)
      /\ UNCHANGED <<disk, meta_files, new_files, obsolete>>
  BY DEF MoveSst, disk_vars, db_vars
<1>2. /\ s \notin DOMAIN new_ssts[f]
      /\ \A i \in DOMAIN jobs[f] : i # j => s \notin jobs[f][i]
  BY <1>1 DEF Meaning, JobsApart
<1>3. /\ \A t \in DOMAIN placed : placed[t] = j /\ t \notin DOMAIN new_ssts[f]
      /\ \A i \in DOMAIN jobs[f] : i # j => \A t \in jobs[f][i] : t \notin DOMAIN placed
  BY <1>2
<1>4. \A k, e : NewestOf(jobs[f][j], k, e) <=> \E t \in DOMAIN placed : k \in DOMAIN Rows(t)' /\ e = Rows(t)'[k]
  <2>1. Rows(s)' = Rows(s)
    BY <1>1 DEF Rows, IsKind
  <2>2. DOMAIN placed = {s}
    OBVIOUS
  <2> QED
    BY <1>1, <2>1, <2>2 DEF NewestOf
<1>5. PICK new \in SUBSET Seqs : new = {}
  OBVIOUS
<1>6. /\ \A t \in Seqs : t \notin new => disk'[t] = disk[t]
      /\ \A n \in new : disk[n].kind = "none" /\ disk'[n].kind = "sst"
      /\ new_files' = new_files \cup new
      /\ UNCHANGED <<meta_files, obsolete>>
  BY <1>1, <1>5
<1> HIDE DEF placed
<1> QED
  BY <1>1, <1>3, <1>4, <1>6, JobMeaning

\* SST files hold just the entries of rows.
HoldEntries(files, rows) ==
  \A k, e : (k \in DOMAIN rows /\ e = rows[k]) <=> \E n \in files : k \in DOMAIN disk[n].rows /\ e = disk[n].rows[k]

LEMMA MergeSstsFacts ==
  ASSUME RecoveryInv, NEW f \in Families, NEW j, NEW first \in SUBSET Keys, MergeSsts(f, j, first),
         NEW rows, rows = Merged(jobs[f][j])
  PROVE  \E files, placed :
           /\ files \in SUBSET Seqs
           /\ files # {} /\ new_files' = new_files \cup files
           /\ DOMAIN placed = files /\ (\A s \in files : placed[s] = j) /\ Collect(f, placed)
           /\ \A s \in Seqs : s \notin files => disk'[s] = disk[s]
           /\ \A n \in files : /\ disk[n].kind = "none" /\ n > current_sequence_number
                               /\ disk'[n].kind = "sst" /\ disk'[n].family = f
           /\ HoldEntries(files, rows)'
<1>0. PICK one, two : one = next_seq + 1 /\ two = next_seq + 2
  OBVIOUS
<1> DEFINE part == [k \in first |-> rows[k]]
           rest == [k \in DOMAIN rows \ first |-> rows[k]]
           sst(r) == [kind |-> "sst", family |-> f, rows |-> r]
           files == IF rest = EmptyFunction THEN {one} ELSE {one, two}
<1>1. next_seq \in Nat /\ next_seq + 1 + 1 = two
  BY <1>0 DEF RecoveryInv, Inv, Typed
<1>2. /\ stage = "metas" /\ files \subseteq 1..(MaxSeq - 2)
      /\ disk' = [s \in Seqs |-> IF s \notin files THEN disk[s] ELSE IF s = one THEN sst(part) ELSE sst(rest)]
      /\ new_files' = new_files \cup files
      /\ Collect(f, [s \in files |-> j])
      /\ first \subseteq DOMAIN rows
  BY <1>0, <1>1 DEF MergeSsts
<1>3. /\ current_sequence_number \in Nat /\ current_sequence_number <= next_seq
      /\ \A s \in Seqs : disk[s].kind # "none" => s <= next_seq
  BY <1>2 DEF RecoveryInv, Inv, Typed, Numbered, Present, Exists
<1>4. one \in files /\ (\A n \in files : n = one \/ n = two) /\ one # two
      /\ (rest = EmptyFunction \/ two \in files)
  BY <1>0, <1>1
<1>5. files \in SUBSET Seqs
  <2> HIDE DEF files
  <2> QED
    BY <1>2
<1>6. DOMAIN part = first /\ DOMAIN rest = DOMAIN rows \ first
      /\ (\A k \in DOMAIN part : part[k] = rows[k]) /\ (\A k \in DOMAIN rest : rest[k] = rows[k])
  OBVIOUS
<1>7. \A r : sst(r).kind = "sst" /\ sst(r).family = f /\ sst(r).rows = r
  OBVIOUS
<1> HIDE DEF files, part, rest, sst
<1>8. disk'[one] = sst(part) /\ (\A n \in files : n # one => disk'[n] = sst(rest))
      /\ \A s \in Seqs : s \notin files => disk'[s] = disk[s]
  BY <1>2, <1>4, <1>5
<1>9. \A n \in files : /\ disk[n].kind = "none" /\ n > current_sequence_number
                       /\ disk'[n].kind = "sst" /\ disk'[n].family = f
  <2>1. \A n \in files : n > next_seq /\ n \in Seqs
    BY <1>0, <1>1, <1>4, <1>5
  <2>2. \A n \in files : disk[n].kind = "none" /\ n > current_sequence_number
    BY <1>1, <1>3, <2>1
  <2> QED
    BY <1>7, <1>8, <2>2
<1>10. ASSUME NEW k, NEW e
       PROVE  (k \in DOMAIN rows /\ e = rows[k]) <=> \E n \in files : k \in DOMAIN disk'[n].rows /\ e = disk'[n].rows[k]
  <2>1. disk'[one].rows = part /\ \A n \in files : n # one => disk'[n].rows = rest
    BY <1>7, <1>8
  <2>2. ASSUME k \in DOMAIN rows, e = rows[k]
        PROVE  \E n \in files : k \in DOMAIN disk'[n].rows /\ e = disk'[n].rows[k]
    <3>1. CASE k \in first
      BY <1>4, <1>6, <2>1, <2>2, <3>1
    <3>2. CASE k \notin first
      <4>1. k \in DOMAIN rest /\ two \in files /\ two # one
        BY <1>4, <1>6, <2>2, <3>2 DEF EmptyFunction
      <4> QED
        BY <1>6, <2>1, <2>2, <4>1
    <3> QED
      BY <3>1, <3>2
  <2>3. ASSUME NEW n \in files, k \in DOMAIN disk'[n].rows, e = disk'[n].rows[k]
        PROVE  k \in DOMAIN rows /\ e = rows[k]
    BY <1>2, <1>6, <2>1, <2>3
  <2> QED
    BY <2>2, <2>3
<1>11. HoldEntries(files, rows)'
  BY <1>10 DEF HoldEntries
<1>12. PICK placed : placed = [s \in files |-> j]
  OBVIOUS
<1>13. DOMAIN placed = files /\ (\A s \in files : placed[s] = j) /\ Collect(f, placed)
  BY <1>2, <1>12
<1>14. files # {} /\ new_files' = new_files \cup files
  BY <1>2, <1>4
<1> QED
  BY <1>5, <1>8, <1>9, <1>11, <1>13, <1>14

LEMMA MergeSstsMeaning ==
  ASSUME RecoveryInv, Meaning, NEW f \in Families, NEW j, NEW first \in SUBSET Keys, MergeSsts(f, j, first)
  PROVE  Meaning'
<1>1. /\ stage = "metas" /\ stage' = "metas" /\ j \in DOMAIN jobs[f] /\ EndJob(f, j)
      /\ UNCHANGED <<meta_files, obsolete>>
  BY DEF MergeSsts, db_vars
<1>2. PICK rows, inputs : inputs = jobs[f][j] /\ rows = Merged(inputs)
  OBVIOUS
<1>3. PICK files, placed :
           /\ files \in SUBSET Seqs
           /\ files # {} /\ new_files' = new_files \cup files
           /\ DOMAIN placed = files /\ (\A s \in files : placed[s] = j) /\ Collect(f, placed)
           /\ \A s \in Seqs : s \notin files => disk'[s] = disk[s]
           /\ \A n \in files : /\ disk[n].kind = "none" /\ n > current_sequence_number
                               /\ disk'[n].kind = "sst" /\ disk'[n].family = f
           /\ HoldEntries(files, rows)'
  <2>1. rows = Merged(jobs[f][j])
    BY <1>2
  <2> QED
    BY <2>1, MergeSstsFacts
<1>4. /\ proc = "open" /\ stage \in Unpublished /\ Live(f) \subseteq Present
      /\ \A i \in DOMAIN jobs[f] : jobs[f][i] \subseteq Live(f)
      /\ \A s \in DOMAIN new_ssts[f] : s \in Present
  <2>1. \A s \in DOMAIN new_ssts[f] : Listed(f, s, new_ssts[f][s])
    BY DEF Listed
  <2> QED
    BY <1>1, <2>1, WorkIsThere DEF Unpublished
<1>5. DOMAIN placed = files /\ \A s \in files : s \notin Present /\ placed[s] = j
  BY <1>3 DEF Present, Exists
<1>6. /\ \A s \in DOMAIN placed : placed[s] = j /\ s \notin DOMAIN new_ssts[f]
      /\ \A i \in DOMAIN jobs[f] : i # j => \A s \in jobs[f][i] : s \notin DOMAIN placed
  BY <1>4, <1>5
<1>7. \A k, e : NewestOf(jobs[f][j], k, e) <=> \E s \in DOMAIN placed : k \in DOMAIN Rows(s)' /\ e = Rows(s)'[k]
  <2>1. \A s \in files : Rows(s)' = disk'[s].rows
    BY <1>3 DEF Rows, IsKind
  <2>2. \A k, e : NewestOf(inputs, k, e) <=> k \in DOMAIN rows /\ e = rows[k]
    BY <1>1, <1>2, <1>4, MergedIs
  <2> SUFFICES ASSUME NEW k, NEW e
               PROVE  NewestOf(jobs[f][j], k, e) <=> \E s \in DOMAIN placed : k \in DOMAIN Rows(s)' /\ e = Rows(s)'[k]
    OBVIOUS
  <2>3. NewestOf(inputs, k, e) <=> \E n \in files : k \in DOMAIN disk'[n].rows /\ e = disk'[n].rows[k]
    <3>1. NewestOf(inputs, k, e) <=> (k \in DOMAIN rows /\ e = rows[k])
      BY <2>2
    <3>2. (k \in DOMAIN rows /\ e = rows[k]) <=> \E n \in files : k \in DOMAIN disk'[n].rows /\ e = disk'[n].rows[k]
      <4>1. HoldEntries(files, rows)'
        BY <1>3
      <4> QED
        BY <4>1 DEF HoldEntries
    <3> QED
      BY <3>1, <3>2
  <2>4. NewestOf(jobs[f][j], k, e) <=> NewestOf(inputs, k, e)
    BY <1>2
  <2> QED
    BY <1>5, <2>1, <2>3, <2>4
<1> QED
  BY <1>1, <1>3, <1>6, <1>7, JobMeaning

\* Of SST files on offer that hold a key, one says what it is.
LEMMA SomeNewest ==
  ASSUME RecoveryInv, stage \in Unpublished, proc = "open", NEW f, NEW inputs, inputs \subseteq Live(f),
         NEW k, NEW s0 \in inputs, k \in DOMAIN Rows(s0)
  PROVE  \E s \in inputs : /\ k \in DOMAIN Rows(s)
                           /\ \A t \in inputs : t # s /\ k \in DOMAIN Rows(t) => Older(t, s)
<1>1. /\ Metas \in SUBSET Seqs /\ meta_files = Database(disk, Metas)
      /\ \A m \in Metas : disk[m].kind = "meta"
  BY RunningReadable DEF Unpublished, Readable, Metas, MetasIn
<1>2. \A s \in inputs : s \in Seqs /\ disk[s].kind = "sst" /\ OnOffer(disk, Metas, s)
  BY LiveFacts DEF Metas
<1>3. \E s \in inputs : k \in DOMAIN Rows(s)
  OBVIOUS
<1> QED
  BY <1>1, <1>2, <1>3, NewestHolder

\* The last job that holds a key holds its newest entry: a legal plan never lifts an older one over it.
LEMMA PlanKeepsKey ==
  ASSUME RecoveryInv, stage \in Unpublished, proc = "open", NEW f, NEW plan, \A s \in Live(f) : plan[s] \in Nat,
         \A s, t \in Live(f) : plan[s] > plan[t] => ~(Older(s, t) /\ Overlap(s, t)),
         NEW k, NEW s \in Live(f), k \in DOMAIN Rows(s),
         \A t \in Live(f) : plan[t] = plan[s] /\ t # s /\ k \in DOMAIN Rows(t) => Older(t, s),
         \A t \in Live(f) : k \in DOMAIN Rows(t) => plan[t] <= plan[s]
  PROVE  \A t \in Live(f) : t # s /\ k \in DOMAIN Rows(t) => Older(t, s)
<1>1. PICK h \in Live(f) : /\ k \in DOMAIN Rows(h)
                           /\ \A t \in Live(f) : t # h /\ k \in DOMAIN Rows(t) => Older(t, h)
  <2>1. PICK live : live = Live(f)
    OBVIOUS
  <2> QED
    BY <2>1, SomeNewest
<1>2. SUFFICES ASSUME s # h PROVE FALSE
  BY <1>1
<1>3. Older(s, h) /\ ~Older(h, s)
  BY <1>1, <1>2, OlderIsOrder
<1>4. Overlap(s, h)
  <2>1. k \in Keys
    <3>1. s \in Seqs /\ disk[s].kind = "sst" /\ Rows(s) = disk[s].rows
      BY LiveHolds
    <3> QED
      BY <3>1, SstsAreTyped DEF RecoveryInv, IsPartialFunction
  <2>2. k <= k /\ k >= k
    BY <2>1, KeysAssumption
  <2> QED
    BY <1>1, <2>2 DEF Overlap
<1>5. ~(plan[s] > plan[h]) /\ plan[h] <= plan[s] /\ plan[s] \in Nat /\ plan[h] \in Nat
  BY <1>1, <1>3, <1>4
<1>6. plan[h] = plan[s]
  BY <1>5
<1> QED
  BY <1>1, <1>2, <1>3, <1>6

LEMMA PlanReorganizes ==
  ASSUME NEW live, NEW plan, \A s \in live : plan[s] \in Nat, NEW older, NEW overlapping,
         LegalPlan(plan, live, older, overlapping), NEW s0 \in live, plan[s0] > 0
  PROVE  \E s, t \in live : plan[s] > 0 /\ t # s /\ plan[t] = plan[s]
<1> DEFINE T == {plan[s] : s \in {s \in live : plan[s] > 0}}
<1>1. T \subseteq Nat /\ T # {}
  OBVIOUS
<1>2. PICK x \in T : \A y \in T : x <= y
  <2> HIDE DEF T
  <2> QED
    BY <1>1, Minimum
<1>3. PICK s \in live : plan[s] > 0 /\ plan[s] = x
  OBVIOUS
<1>4. \A t \in live : 0 < plan[t] => x <= plan[t]
  BY <1>2
<1>5. ~\E t \in live : 0 < plan[t] /\ plan[t] < plan[s]
  BY <1>3, <1>4
<1>6. {t \in live : plan[t] = plan[s]} # {s}
  BY <1>3, <1>5 DEF LegalPlan
<1> QED
  BY <1>3, <1>6

LEMMA BeginCompactMeaning ==
  ASSUME RecoveryInv, NEW plan \in [AllLive -> 0..MaxJobs], BeginCompact(plan)
  PROVE  Meaning'
<1>1. /\ AcquireWrite /\ stage' = "metas"
      /\ UNCHANGED <<disk, meta_files, new_files, new_ssts>>
      /\ \A f \in Families :
           /\ LegalPlan(plan, Live(f), {p \in Live(f) \X Live(f) : Older(p[1], p[2])},
                        {p \in Live(f) \X Live(f) : Overlap(p[1], p[2])})
           /\ jobs'[f] = [j \in {plan[s] : s \in Live(f)} \ {0} |-> {s \in Live(f) : plan[s] = j}]
           /\ obsolete'[f] = {s \in Live(f) : plan[s] > 0 /\ \E t \in Live(f) : t # s /\ plan[t] = plan[s]}
      /\ \E s \in AllLive : plan[s] > 0
  BY DEF BeginCompact, disk_vars
<1>2. proc = "open" /\ stage \in Unpublished /\ NoWork
  BY <1>1, BeginStep DEF Unpublished
<1>3. /\ NewMetas' = {}
      /\ \A f \in Families : new_ssts'[f] = EmptyFunction /\ \A s, j : ~Listed(f, s, j)'
      /\ \A s : Rows(s)' = Rows(s)
      /\ \A s, t : Older(s, t)' <=> Older(s, t)
      /\ \A f : Live(f)' = Live(f)
  BY <1>1, <1>2 DEF NoWork, NewMetas, Listed, EmptyFunction, Rows, IsKind, Older, Live
<1>4. \A f \in Families : \A s \in Live(f) : plan[s] \in Nat
  BY DEF AllLive
<1>5. Reorganizing'
  <2>1. PICK f \in Families : \E s \in Live(f) : plan[s] > 0
    BY <1>1 DEF AllLive
  <2>0. PICK s0 \in Live(f) : plan[s0] > 0
    BY <2>1
  <2>2. PICK s, t \in Live(f) : plan[s] > 0 /\ t # s /\ plan[t] = plan[s]
    <3>1. PICK live, older, overlapping :
            /\ live = Live(f) /\ older = {p \in Live(f) \X Live(f) : Older(p[1], p[2])}
            /\ overlapping = {p \in Live(f) \X Live(f) : Overlap(p[1], p[2])}
      OBVIOUS
    <3>2. LegalPlan(plan, live, older, overlapping) /\ s0 \in live /\ \A s \in live : plan[s] \in Nat
      BY <1>1, <1>4, <2>0, <3>1
    <3>3. \E s, t \in live : plan[s] > 0 /\ t # s /\ plan[t] = plan[s]
      BY <2>0, <3>2, PlanReorganizes
    <3> QED
      BY <3>1, <3>3
  <2>3. s \in obsolete'[f]
    BY <1>1, <2>2
  <2> QED
    BY <2>3 DEF Reorganizing
<1>6. ASSUME NEW f \in Families
      PROVE  OneMeta(f)' /\ JobsApart(f)' /\ \A k : KeepsKey(f, k)'
  <2> DEFINE J == {plan[s] : s \in Live(f)} \ {0}
             Job(j) == {s \in Live(f) : plan[s] = j}
             Best(j, k, s) == /\ s \in Job(j) /\ k \in DOMAIN Rows(s)
                              /\ \A t \in Job(j) : t # s /\ k \in DOMAIN Rows(t) => Older(t, s)
  <2>1. /\ \A j : j \in J <=> (j # 0 /\ \E s \in Live(f) : plan[s] = j)
        /\ \A s, j : s \in Job(j) <=> (s \in Live(f) /\ plan[s] = j)
        /\ \A j : Job(j) \subseteq Live(f)
    OBVIOUS
  <2>2. jobs'[f] = [j \in J |-> Job(j)]
    BY <1>1
  <2>3. \A s : s \in obsolete'[f] => s \in Live(f) /\ plan[s] > 0
    <3>1. obsolete'[f] = {s \in Live(f) : plan[s] > 0 /\ \E t \in Live(f) : t # s /\ plan[t] = plan[s]}
      BY <1>1
    <3> QED
      BY <3>1
  <2> HIDE DEF J, Job
  <2>4. DOMAIN jobs'[f] = J /\ \A j \in J : jobs'[f][j] = Job(j)
    BY <2>2
  <2>5. OneMeta(f)' /\ JobsApart(f)'
    BY <1>3, <2>1, <2>4 DEF OneMeta, JobsApart, EmptyFunction
  <2>6. ASSUME NEW k, NEW j, NEW e
        PROVE  At(f, k, j, e)' <=> j \in J /\ \E s : Best(j, k, s) /\ e = Rows(s)[k]
    <3>1. At(f, k, j, e)' <=> j \in DOMAIN jobs'[f] /\ NewestOf(jobs[f][j], k, e)'
      BY <1>3 DEF At
    <3>2. NewestOf(jobs[f][j], k, e)' <=>
            \E s \in jobs'[f][j] : /\ k \in DOMAIN Rows(s) /\ e = Rows(s)[k]
                                   /\ \A t \in jobs'[f][j] : t # s /\ k \in DOMAIN Rows(t) => Older(t, s)
      BY <1>3 DEF NewestOf
    <3> QED
      BY <2>4, <3>1, <3>2
  <2>7. ASSUME NEW s \in Live(f), plan[s] > 0, NEW k \in DOMAIN Rows(s)
        PROVE  plan[s] \in J /\ \E e : At(f, k, plan[s], e)'
    <3>1. PICK j : j = plan[s]
      OBVIOUS
    <3>2. s \in Job(j) /\ Job(j) \subseteq Live(f) /\ j \in J
      BY <1>4, <2>1, <2>7, <3>1
    <3>3. \E t \in Job(j) : Best(j, k, t)
      BY <1>2, <3>2, SomeNewest
    <3> QED
      BY <2>6, <3>1, <3>2, <3>3
  <2>8. ASSUME NEW k, NEW j, NEW e, At(f, k, j, e)', \A i, d : At(f, k, i, d)' => i <= j
        PROVE  NewestOf(Live(f), k, e)'
    <3>1. PICK s : j \in J /\ Best(j, k, s) /\ e = Rows(s)[k]
      BY <2>6, <2>8
    <3>2. s \in Live(f) /\ plan[s] = j /\ j # 0 /\ k \in DOMAIN Rows(s)
          /\ \A t \in Live(f) : plan[t] = plan[s] /\ t # s /\ k \in DOMAIN Rows(t) => Older(t, s)
      BY <2>1, <3>1
    <3>3. \A t \in Live(f) : k \in DOMAIN Rows(t) => plan[t] <= plan[s]
      <4> SUFFICES ASSUME NEW t \in Live(f), k \in DOMAIN Rows(t) PROVE plan[t] <= plan[s]
        OBVIOUS
      <4>1. CASE plan[t] > 0
        BY <2>7, <2>8, <3>2, <4>1
      <4>2. CASE ~(plan[t] > 0)
        BY <1>4, <3>2, <4>2
      <4> QED
        BY <4>1, <4>2
    <3>4. \A x, y \in Live(f) : plan[x] > plan[y] => ~(Older(x, y) /\ Overlap(x, y))
      <4>1. PICK live, older, overlapping :
              /\ live = Live(f) /\ older = {p \in Live(f) \X Live(f) : Older(p[1], p[2])}
              /\ overlapping = {p \in Live(f) \X Live(f) : Overlap(p[1], p[2])}
        OBVIOUS
      <4>2. LegalPlan(plan, live, older, overlapping)
        BY <1>1, <4>1
      <4>3. \A x, y \in live : plan[x] > plan[y] => <<x, y>> \notin older \cap overlapping
        BY <4>2 DEF LegalPlan
      <4> QED
        BY <4>1, <4>3
    <3>5. \A t \in Live(f) : t # s /\ k \in DOMAIN Rows(t) => Older(t, s)
      BY <1>2, <1>4, <3>2, <3>3, <3>4, PlanKeepsKey
    <3> QED
      BY <1>3, <3>1, <3>2, <3>5 DEF NewestOf
  <2>9. ASSUME NEW k, \A j, e : ~At(f, k, j, e)', NEW s \in obsolete'[f] PROVE k \notin DOMAIN Rows(s)'
    BY <1>3, <2>3, <2>7, <2>9
  <2>10. ASSUME NEW k PROVE KeepsKey(f, k)'
    BY <2>8, <2>9 DEF KeepsKey
  <2> QED
    BY <2>5, <2>10
<1> QED
  BY <1>1, <1>3, <1>5, <1>6 DEF Meaning

LEMMA CompactingMeaning == RecoveryInv /\ Meaning /\ Compacting => Meaning'
BY BeginCompactMeaning, MoveSstMeaning, MergeSstsMeaning DEF Compacting

LEMMA CommittingMeaning == RecoveryInv /\ Meaning /\ Committing => Meaning'
<1> SUFFICES ASSUME RecoveryInv, Meaning, Committing PROVE Meaning'
  OBVIOUS
<1>1. ASSUME NEW f \in Families, WriteMeta(f) PROVE Meaning'
  BY <1>1, WriteMetaMeaning
<1>2. CASE SyncFiles
  BY <1>2, MeaningQuiet DEF SyncFiles, db_vars
<1>3. CASE Publish
  BY <1>3 DEF Publish, Meaning
<1>4. CASE WriteDel \/ WriteCurrent \/ SyncCurrent
  BY <1>4 DEF WriteDel, WriteCurrent, SyncCurrent, Meaning
<1>5. ASSUME NEW s \in Seqs, RemoveFile(s) PROVE Meaning'
  BY <1>5 DEF RemoveFile, Meaning
<1>6. CASE CommitDone
  BY <1>6 DEF CommitDone, NoWriter, Meaning
<1> QED
  BY <1>1, <1>2, <1>3, <1>4, <1>5, <1>6 DEF Committing

LEMMA OpeningIsIdle == RecoveryInv /\ Opening => stage = "idle" /\ UNCHANGED writer_vars
BY DEF RecoveryInv, Inv, Control, Opening, InitCreate, InitWrite, OpenStart, RecoverRemove, OpenFinish

LEMMA MeaningSteps == RecoveryInv /\ Meaning /\ [Next]_vars => Meaning'
<1> SUFFICES ASSUME RecoveryInv, Meaning, [Next]_vars PROVE Meaning'
  OBVIOUS
<1>1. CASE Opening
  <2>1. stage' = "idle"
    BY <1>1, OpeningIsIdle DEF writer_vars
  <2> QED
    BY <2>1 DEF Meaning
<1>2. CASE Batching
  BY <1>2, BatchingMeaning
<1>3. CASE Compacting
  BY <1>3, CompactingMeaning
<1>4. CASE Committing
  BY <1>4, CommittingMeaning
<1>5. CASE Fail \/ Crash
  BY <1>5 DEF Fail, Crash, NoWriter, Meaning
<1>6. CASE UNCHANGED vars
  <2>1. UNCHANGED <<disk, meta_files, stage, new_files, new_ssts, jobs, obsolete>>
    BY <1>6 DEF vars, disk_vars, db_vars, writer_vars
  <2>2. CASE stage \in {"batch", "metas", "publish"}
    BY <2>1, <2>2, MeaningQuiet
  <2>3. CASE stage \notin {"batch", "metas", "publish"}
    BY <2>1, <2>3 DEF Meaning
  <2> QED
    BY <2>2, <2>3
<1> QED
  BY <1>1, <1>2, <1>3, <1>4, <1>5, <1>6 DEF Next

-----------------------------------------------------------------------------
(* CURRENT as written and as synced *)

\* Before CURRENT is written, what is written is synced; an operation that failed after it wrote CURRENT had already
\* published what CURRENT names.
Settled ==
  /\ stage \in {"del", "current"} => CURRENT = stable
  /\ stage = "failed" /\ CURRENT # stable => meta_files = Load(CURRENT)

RefinementInv == RecoveryInv /\ Meaning /\ Settled

\* What is published is what CURRENT names, once it is written.
LEMMA PublishedIsLoaded ==
  RecoveryInv /\ stage \in {"sync_current", "remove"} => CURRENT \in Nat /\ meta_files = Load(CURRENT)
<1> SUFFICES ASSUME RecoveryInv, stage \in {"sync_current", "remove"}
             PROVE  CURRENT \in Nat /\ meta_files = Load(CURRENT)
  OBVIOUS
<1>1. proc = "open" /\ CURRENT = current_sequence_number /\ DeadNow = Dead(CURRENT) /\ CURRENT \in Nat
  BY DEF RecoveryInv, Inv, Control, Typed, DeadNow
<1>2. meta_files = Database(disk, MetasIn(disk, current_sequence_number, DeadNow))
  BY <1>1 DEF RecoveryInv, Running
<1> QED
  BY <1>1, <1>2, LoadIs

LEMMA LoadSame ==
  ASSUME UNCHANGED disk, NEW cur
  PROVE  Load(cur)' = Load(cur)
BY DEF Load, Opened, IsKind, IsDead

LEMMA SettledSteps == RecoveryInv /\ Settled /\ [Next]_vars => Settled'
<1> SUFFICES ASSUME RecoveryInv, Settled, [Next]_vars PROVE Settled'
  OBVIOUS
<1>1. CASE Opening
  <2>1. stage' = "idle"
    BY <1>1, OpeningIsIdle DEF writer_vars
  <2> QED
    BY <2>1 DEF Settled
<1>2. CASE Batching \/ Compacting
  <2>1. Batching => stage' \in {"batch", "metas"}
    BY Zenon DEF Batching, BeginBatch, CreateBlob, WriteSst, FinishBatch
  <2>2. /\ \A plan : BeginCompact(plan) => stage' = "metas"
        /\ \A f, j, s : MoveSst(f, j, s) => stage' = "metas"
        /\ \A f, j, first : MergeSsts(f, j, first) => stage' = "metas"
    BY DEF BeginCompact, MoveSst, MergeSsts
  <2>3. Compacting => stage' = "metas"
    BY <2>2 DEF Compacting
  <2> QED
    BY <1>2, <2>1, <2>3 DEF Settled
<1>3. CASE Committing
  <2>1. CASE stage' \notin {"del", "current", "failed"}
    BY <2>1 DEF Settled
  <2>2. CASE Publish
    <3>1. CURRENT = stable /\ UNCHANGED <<CURRENT, stable>> /\ stage' # "failed"
      BY <2>2 DEF Publish, disk_vars, RecoveryInv, Inv, Control
    <3> QED
      BY <3>1 DEF Settled
  <2>3. CASE WriteDel
    BY <2>3 DEF WriteDel, Settled
  <2> QED
    BY <1>3, <2>1, <2>2, <2>3
       DEF Committing, WriteMeta, SyncFiles, WriteCurrent, SyncCurrent, RemoveFile, CommitDone, NoWriter
<1>4. CASE Fail
  <2>1. /\ stage \in {"batch", "metas", "del", "current", "sync_current", "remove"} /\ stage' = "failed"
        /\ UNCHANGED <<disk, CURRENT, stable, meta_files>>
    BY <1>4 DEF Fail, disk_vars, db_vars, RecoveryInv, Inv, Typed, Stages
  <2>2. CASE CURRENT = stable
    BY <2>1, <2>2 DEF Settled
  <2>3. CASE CURRENT # stable
    <3>1. stage \in {"sync_current", "remove"}
      BY <2>1, <2>3 DEF Settled, RecoveryInv, Inv, Control
    <3>2. PICK cur : cur = CURRENT
      OBVIOUS
    <3>3. meta_files' = Load(cur) /\ Load(cur)' = Load(cur) /\ CURRENT' = cur
      BY <2>1, <3>1, <3>2, PublishedIsLoaded, LoadSame
    <3> QED
      BY <2>1, <3>3 DEF Settled
  <2> QED
    BY <2>2, <2>3
<1>5. CASE Crash
  BY <1>5 DEF Crash, NoWriter, Settled
<1>6. CASE UNCHANGED vars
  <2>1. UNCHANGED <<disk, CURRENT, stable, meta_files, stage>>
    BY <1>6 DEF vars, disk_vars, db_vars, writer_vars
  <2>2. PICK cur : cur = CURRENT
    OBVIOUS
  <2>3. Load(cur)' = Load(cur) /\ CURRENT' = cur
    BY <2>1, <2>2, LoadSame
  <2> QED
    BY <2>1, <2>2, <2>3 DEF Settled
<1> QED
  BY <1>1, <1>2, <1>3, <1>4, <1>5, <1>6 DEF Next

\* The invariant of the refinement: beyond what recovery needs, it says which entry each job and each new SST file
\* will give a key.
THEOREM RefinementIsInvariant == Spec => []RefinementInv
<1>1. Init => RefinementInv
  <2>1. Init => Meaning /\ Settled
    BY DEF Init, Meaning, Settled
  <2> QED
    BY <2>1, InitRecovery DEF RefinementInv
<1>2. RefinementInv /\ [Next]_vars => RefinementInv'
  BY StepRecovery, MeaningSteps, SettledSteps DEF RefinementInv
<1> QED
  BY <1>1, <1>2, PTL DEF Spec


-----------------------------------------------------------------------------
(* What is durable changes only when CURRENT is synced *)

LEMMA LoadIsNext == (\A cur : Load(cur) = Database(disk, MetasIn(disk, cur, Dead(cur))))'
<1>1. \A cur : Load(cur) = Database(disk, MetasIn(disk, cur, Dead(cur)))
  BY LoadIs
<1> QED
  BY <1>1, PTL

LEMMA RestartNext == (RecoveryInv => RestartFindsFiles)'
BY RecoveryImpliesRestart, PTL

LEMMA ReadersNext == (RecoveryInv => ReadersFindFiles)'
BY RecoveryImpliesReaders, PTL

LEMMA LoadBelow ==
  ASSUME RecoveryInv, NEW cur \in Nat, \A s \in Seqs : s <= cur => disk'[s] = disk[s]
  PROVE  Load(cur)' = Load(cur)
<1>1. ListsLower(disk)
  BY ListsAreLower DEF RecoveryInv, Shape
<1>2. DeadIn(disk', cur) = DeadIn(disk, cur)
  BY <1>1, SameBelow
<1>3. PICK dead : dead = DeadIn(disk, cur)
  OBVIOUS
<1>4. Database(disk', MetasIn(disk', cur, dead)) = Database(disk, MetasIn(disk, cur, dead))
  BY <1>1, SameBelow
<1>5. Load(cur) = Database(disk, MetasIn(disk, cur, dead))
  BY <1>3, LoadIs DEF Dead
<1>6. Load(cur)' = Database(disk', MetasIn(disk', cur, dead))
  BY <1>2, <1>3, LoadIsNext DEF Dead
<1> QED
  BY <1>4, <1>5, <1>6

\* Recovery removes only what a load ignores.
LEMMA RecoverLoad ==
  ASSUME RecoveryInv, NEW s \in Seqs, RecoverRemove(s), NEW cur \in Nat, cur = CURRENT
  PROVE  Load(cur)' = Load(cur)
<1>0. /\ proc = "recover" /\ s \in todo /\ disk' = [disk EXCEPT ![s] = NoFile]
      /\ disk = [x \in Seqs |-> disk[x]] /\ TodoOK /\ FilesOK(disk, cur) /\ ListsLower(disk)
  BY ListsAreLower DEF RecoverRemove, RecoveryInv, Inv, Typed, Recovering, Shape, Top
<1>1. disk'[s].kind = "none" /\ \A x \in Seqs : x # s => disk'[x] = disk[x]
  BY <1>0 DEF NoFile
<1>2. PICK dead, dead2 : dead = DeadIn(disk, cur) /\ dead2 = DeadIn(disk', cur)
  OBVIOUS
<1>3. s > cur \/ s \in dead \/ (disk[s].kind = "del" /\ disk[s].dead \cap Present = {})
  BY <1>0, <1>2 DEF TodoOK, Dead
<1>4. \A x \in dead2 : x \in dead
  BY <1>1, <1>2 DEF DeadIn
<1>5. ASSUME NEW x \in Seqs, x # s, disk[x].kind # "none", x \in dead PROVE x \in dead2
  <2>1. PICK y \in Seqs : y <= cur /\ disk[y].kind = "del" /\ x \in disk[y].dead
    BY <1>2, <1>5 DEF DeadIn
  <2>2. y # s
    <3>1. SUFFICES ASSUME y = s PROVE FALSE
      OBVIOUS
    <3>2. s \notin dead
      BY <1>0, <1>2, <2>1, <3>1, DeadIsTyped
    <3>3. x \in Present
      BY <1>5 DEF Present, Exists
    <3> QED
      BY <1>3, <2>1, <3>1, <3>2, <3>3
  <2> QED
    BY <1>1, <1>2, <1>5, <2>1, <2>2 DEF DeadIn
<1>6. /\ \A x \in Seqs : x <= cur /\ disk[x].kind \in {"sst", "meta"} /\ x \notin dead => disk'[x] = disk[x] /\ x \notin dead2
      /\ \A x \in Seqs : x <= cur /\ disk'[x].kind \in {"sst", "meta"} /\ x \notin dead2 => disk'[x] = disk[x] /\ x \notin dead
  <2>1. ASSUME NEW x \in Seqs, x <= cur, disk[x].kind \in {"sst", "meta"}, x \notin dead
        PROVE  disk'[x] = disk[x] /\ x \notin dead2
    BY <1>1, <1>3, <1>4, <2>1
  <2>2. ASSUME NEW x \in Seqs, x <= cur, disk'[x].kind \in {"sst", "meta"}, x \notin dead2
        PROVE  disk'[x] = disk[x] /\ x \notin dead
    BY <1>1, <1>5, <2>2
  <2> QED
    BY <2>1, <2>2
<1>7. Database(disk', MetasIn(disk', cur, dead2)) = Database(disk, MetasIn(disk, cur, dead))
  BY <1>0, <1>6, SoundKept
<1> QED
  BY <1>2, <1>7, LoadIs, LoadIsNext DEF Dead

\* A crash loses nothing that the surviving CURRENT counts.
LEMMA CrashLoad ==
  ASSUME RecoveryInv, Crash, NEW cur \in Nat, cur \in {CURRENT, stable}
  PROVE  Load(cur)' = Load(cur)
<1>1. PICK lost : /\ lost \subseteq Present \ synced
                  /\ disk' = [s \in Seqs |-> IF s \in lost THEN NoFile ELSE disk[s]]
  BY DEF Crash
<1>2. \A s \in Present : s <= cur => s \in synced
  BY SyncedInv DEF RecoveryInv, CurrentFilesSynced
<1> QED
  BY <1>1, <1>2, LoadBelow

LEMMA RemoveLoad ==
  ASSUME RecoveryInv, RecoveryInv', NEW s \in Seqs, RemoveFile(s), NEW cur \in Nat, cur = CURRENT
  PROVE  Load(cur)' = Load(cur)
<1>1. stage = "remove" /\ UNCHANGED <<stage, CURRENT, meta_files>>
  BY DEF RemoveFile, db_vars
<1>2. (RecoveryInv /\ stage \in {"sync_current", "remove"} => CURRENT \in Nat /\ meta_files = Load(CURRENT))'
  BY PublishedIsLoaded, PTL
<1>3. meta_files = Load(cur) /\ meta_files' = Load(cur)'
  BY <1>1, <1>2, PublishedIsLoaded
<1> QED
  BY <1>1, <1>3

LEMMA LoadKept ==
  ASSUME RecoveryInv, RecoveryInv', Next, UNCHANGED stable, NEW cur \in Nat, cur = stable
  PROVE  Load(cur)' = Load(cur)
<1>1. CASE UNCHANGED disk
  BY <1>1, LoadSame
<1>2. ASSUME NEW s \in Seqs, RecoverRemove(s) PROVE Load(cur)' = Load(cur)
  <2>1. CURRENT = stable
    BY <1>2 DEF RecoverRemove, RecoveryInv, Inv, Control
  <2> QED
    BY <1>2, <2>1, RecoverLoad
<1>3. ASSUME stage \in {"batch", "metas"}, NEW content, NEW room \in Nat, CreateFile(content, room)
      PROVE  Load(cur)' = Load(cur)
  <2>1. \A s \in Seqs : s <= cur => disk'[s] = disk[s]
    BY <1>3, CreateFileFacts
  <2> QED
    BY <2>1, LoadBelow
<1>4. ASSUME NEW f \in Families, NEW j, NEW first \in SUBSET Keys, MergeSsts(f, j, first) PROVE Load(cur)' = Load(cur)
  <2>1. PICK rows : rows = Merged(jobs[f][j])
    OBVIOUS
  <2>2. PICK files : /\ \A s \in Seqs : s \notin files => disk'[s] = disk[s]
                     /\ \A n \in files : n > current_sequence_number
    BY <1>4, <2>1, MergeSstsFacts
  <2>3. stable = current_sequence_number
    BY <1>4 DEF MergeSsts, RecoveryInv, Inv, Control
  <2>4. \A s \in Seqs : s <= cur => disk'[s] = disk[s]
    BY <2>2, <2>3
  <2> QED
    BY <2>4, LoadBelow
<1>5. CASE WriteDel
  <2>1. PICK n : n = current_sequence_number
    OBVIOUS
  <2>2. stable < n /\ disk' = [disk EXCEPT ![n] = [kind |-> "del", dead |-> to_delete]] /\ n \in Nat
    BY <1>5, <2>1 DEF WriteDel, RecoveryInv, Deleting, Inv, Typed
  <2>3. \A s \in Seqs : s <= cur => disk'[s] = disk[s]
    <3>1. disk = [s \in Seqs |-> disk[s]]
      BY DEF RecoveryInv, TypeOK
    <3> QED
      BY <2>2, <3>1
  <2> QED
    BY <2>3, LoadBelow
<1>6. ASSUME NEW s \in Seqs, RemoveFile(s) PROVE Load(cur)' = Load(cur)
  <2>1. CURRENT = stable
    BY <1>6 DEF RemoveFile, RecoveryInv, Inv, Control
  <2> QED
    BY <1>6, <2>1, RemoveLoad
<1>7. CASE Crash
  BY <1>7, CrashLoad
<1>8. CASE Opening
  BY <1>1, <1>2, <1>8 DEF Opening, InitCreate, InitWrite, OpenStart, OpenFinish, disk_vars
<1>9. CASE Batching
  <2>1. ASSUME NEW v \in LargeValues, CreateBlob(v) PROVE Load(cur)' = Load(cur)
    BY <1>3, <2>1 DEF CreateBlob
  <2>2. ASSUME NEW f, NEW rows, WriteSst(f, rows) PROVE Load(cur)' = Load(cur)
    BY <1>3, <2>2 DEF WriteSst
  <2>3. CASE BeginBatch \/ FinishBatch
    BY <1>1, <2>3 DEF BeginBatch, FinishBatch, disk_vars
  <2> QED
    BY <1>9, <2>1, <2>2, <2>3 DEF Batching
<1>10. CASE Compacting
  <2>1. ASSUME NEW plan, BeginCompact(plan) PROVE Load(cur)' = Load(cur)
    BY <1>1, <2>1 DEF BeginCompact, disk_vars
  <2>2. ASSUME NEW f, NEW j, NEW s, MoveSst(f, j, s) PROVE Load(cur)' = Load(cur)
    BY <1>1, <2>2 DEF MoveSst, disk_vars
  <2> QED
    BY <1>4, <1>10, <2>1, <2>2 DEF Compacting
<1>11. CASE Committing
  <2>1. ASSUME NEW f, WriteMeta(f) PROVE Load(cur)' = Load(cur)
    BY <1>3, <2>1 DEF WriteMeta
  <2>2. CASE SyncFiles \/ Publish \/ WriteCurrent \/ SyncCurrent \/ CommitDone
    BY <1>1, <2>2 DEF SyncFiles, Publish, WriteCurrent, SyncCurrent, CommitDone, disk_vars
  <2> QED
    BY <1>5, <1>6, <1>11, <2>1, <2>2 DEF Committing
<1>12. CASE Fail
  BY <1>1, <1>12 DEF Fail, disk_vars
<1> QED
  BY <1>7, <1>8, <1>9, <1>10, <1>11, <1>12 DEF Next

\* A directory CURRENT may name reads the same after a step that leaves its meta files alone.
LEMMA LoadedView ==
  ASSUME RecoveryInv, RecoveryInv', Next, NEW cur \in Nat, cur \in {CURRENT, stable}, cur \in {CURRENT', stable'},
         Load(cur)' = Load(cur)
  PROVE  View(Load(cur))' = View(Load(cur))
<1>1. PICK X : X = Load(cur)
  OBVIOUS
<1>2. Intact(X)
  BY <1>1, RecoveryImpliesRestart DEF RestartFindsFiles
<1>3. Intact(X)'
  BY <1>1, RestartNext DEF RestartFindsFiles
<1>4. TypeOK /\ FilesKept
  BY StepKeepsFiles DEF RecoveryInv
<1>5. ViewIn(disk', X) = ViewIn(disk, X)
  BY <1>2, <1>3, <1>4, IntactView
<1> QED
  BY <1>1, <1>5, ViewIs, ViewIsNext

LEMMA NothingToRead == \A d : ViewIn(d, {}) = [f \in Families |-> [k \in Keys |-> Absent]]
<1>1. \A d, f, k : SlotsIn(d, {}, f, k) = {}
  BY DEF SlotsIn
<1>2. \A d, f, k : GetIn(d, {}, f, k) = Absent
  BY <1>1 DEF GetIn
<1> QED
  BY <1>2 DEF ViewIn

LEMMA DurableKept ==
  ASSUME RecoveryInv, RecoveryInv', Next, UNCHANGED stable
  PROVE  Durable' = Durable
<1>1. CASE stable \in Nat
  <2>1. PICK cur \in Nat : cur = stable
    BY <1>1
  <2>2. View(Load(cur))' = View(Load(cur))
    BY <2>1, LoadKept, LoadedView
  <2> QED
    BY <1>1, <2>1, <2>2 DEF Durable
<1>2. CASE stable \notin Nat
  <2>1. View({}) = ViewIn(disk, {}) /\ View({})' = ViewIn(disk', {})
    BY ViewIs, ViewIsNext
  <2> QED
    BY <1>2, <2>1, NothingToRead DEF Durable
<1> QED
  BY <1>1, <1>2

LEMMA VisibleKept ==
  ASSUME RecoveryInv, RecoveryInv', Next, UNCHANGED meta_files
  PROVE  /\ View(meta_files)' = View(meta_files)
         /\ \A f, k : GetIn(disk', meta_files, f, k) = GetIn(disk, meta_files, f, k)
<1>1. PICK X : X = meta_files
  OBVIOUS
<1>2. Intact(X) /\ Intact(X)'
  BY <1>1, RecoveryImpliesReaders, ReadersNext DEF ReadersFindFiles
<1>4. TypeOK /\ FilesKept
  BY StepKeepsFiles DEF RecoveryInv
<1>5. ViewIn(disk', X) = ViewIn(disk, X) /\ \A f, k : GetIn(disk', X, f, k) = GetIn(disk, X, f, k)
  BY <1>2, <1>4, IntactView
<1> QED
  BY <1>1, <1>5, ViewIs, ViewIsNext


-----------------------------------------------------------------------------
(* Publishing *)

\* What Publish leaves of the meta files M it finds and adds: it reads the same as M.
LEMMA PublishedSet ==
  ASSUME RecoveryInv, RecoveryInv', Publish, NEW M, M = Metas \cup NewMetas,
         NEW rest, rest = M \ Superfluous(disk, M)
  PROVE  /\ disk' = disk /\ meta_files' = Database(disk, rest) /\ Readable(disk, rest)
         /\ \A m \in Metas : m \in Nat /\ \A a \in NewMetas : a \in Nat /\ m < a
         /\ \A f, k, m, s : Holds(disk, rest, f, k, m, s) <=> Holds(disk, M, f, k, m, s)
<1>1. PICK doomed : doomed = Superfluous(disk, Metas \cup NewMetas) \cup UNION {obsolete[f] : f \in Families}
  OBVIOUS
<1>2. /\ meta_files' = Database(disk, rest)
      /\ stage' \in {"del", "current"}
      /\ Metas \in SUBSET Nat /\ NewMetas \in SUBSET Nat /\ \A m \in Metas, a \in NewMetas : m < a
      /\ \A m \in M : m \in Present /\ m <= next_seq
  <2>1. PICK metas : metas = Metas
    OBVIOUS
  <2>2. metas = MetasIn(disk, current_sequence_number, DeadNow)
        /\ doomed = Superfluous(disk, metas \cup NewMetas) \cup UNION {obsolete[f] : f \in Families}
    BY <1>1, <2>1 DEF Metas
  <2> QED
    BY <2>1, <2>2, PublishIs
<1>3. disk' = disk /\ proc' = "open"
  BY DEF Publish, disk_vars, RecoveryInv, Inv, Control
<1>4. \A A, B : Database(disk, A) = Database(disk, B) => A = B
  <2>1. \A A, m : Entry(disk, A, m).seq = m
    BY DEF Entry, Offering
  <2>2. ASSUME NEW A, NEW B, Database(disk, A) = Database(disk, B), NEW m \in A PROVE m \in B
    <3>1. Entry(disk, A, m) \in Database(disk, B)
      BY <2>2 DEF Database
    <3>2. PICK b \in B : Entry(disk, A, m) = Entry(disk, B, b)
      BY <3>1 DEF Database
    <3> QED
      BY <2>1, <3>2
  <2> QED
    BY <2>2
<1>5. Readable(disk, rest)
  BY <1>2, <1>3, <1>4, NextReadable
<1>6. \A m \in M : \A s \in DOMAIN disk[m].ssts : Hidden(disk, M, m, s) <=> Hidden(disk, rest, m, s)
  <2>1. M \in SUBSET Nat /\ next_seq \in Nat /\ \A n \in M : n <= next_seq
    BY <1>2 DEF RecoveryInv, Inv, Typed
  <2> QED
    BY <2>1, SuperfluousGone
<1>7. ASSUME NEW f, NEW k, NEW m, NEW s PROVE Holds(disk, rest, f, k, m, s) <=> Holds(disk, M, f, k, m, s)
  <2>1. ASSUME Holds(disk, M, f, k, m, s) PROVE m \in rest
    <3>1. s \in Entry(disk, M, m).live
      BY <2>1 DEF Holds, Entry, Offering
    <3>2. m \notin Superfluous(disk, M)
      BY <3>1 DEF Superfluous, Removable
    <3> QED
      BY <2>1, <3>2 DEF Holds
  <2> QED
    BY <1>6, <2>1 DEF Holds
<1> QED
  BY <1>2, <1>3, <1>5, <1>7

\* The new meta files, as the writer has left them: one for a family, which speaks of SST files of its family.
LEMMA NewMetasSpeak ==
  ASSUME RecoveryInv, Meaning, stage = "publish"
  PROVE  /\ \A a, b \in NewMetas : disk[a].family = disk[b].family => a = b
         /\ \A a \in NewMetas : /\ disk[a].family \in Families /\ disk[a].obsolete = obsolete[disk[a].family]
                                /\ \A s \in DOMAIN disk[a].ssts : s \in Seqs /\ disk[s].kind = "sst" /\ disk[s].family = disk[a].family
                                /\ \A s : Mentions(disk, a, s) => disk[s].family = disk[a].family
<1>1. /\ Work /\ proc = "open" /\ new_files \subseteq Present
      /\ \A f \in Families : OneMeta(f) /\ obsolete[f] \subseteq Live(f)
  BY WorkIsThere DEF Meaning
<1>2. \A a \in NewMetas : /\ a \in Seqs /\ disk[a].kind = "meta" /\ disk[a].family \in Families /\ NewMetaOK(a)
  <2>1. \A a \in NewMetas : a \in Seqs /\ disk[a].kind = "meta" /\ NewMetaOK(a)
    BY <1>1 DEF NewMetas, Work, Present
  <2> QED
    BY <2>1 DEF RecoveryInv, TypeOK, NoFile, MetaFile
<1>3. ASSUME NEW a \in NewMetas, NEW b \in NewMetas, disk[a].family = disk[b].family PROVE a = b
  BY <1>1, <1>2, <1>3 DEF OneMeta
<1>4. ASSUME NEW a \in NewMetas
      PROVE  /\ disk[a].obsolete = obsolete[disk[a].family]
             /\ \A s \in DOMAIN disk[a].ssts : s \in Seqs /\ disk[s].kind = "sst" /\ disk[s].family = disk[a].family
  BY <1>2 DEF NewMetaOK, Collectable
<1>5. ASSUME NEW a \in NewMetas, NEW s, Mentions(disk, a, s) PROVE disk[s].family = disk[a].family
  <2>1. CASE s \in DOMAIN disk[a].ssts
    BY <1>4, <2>1
  <2>2. CASE s \in disk[a].obsolete
    <3>1. s \in Live(disk[a].family)
      BY <1>1, <1>2, <1>4, <2>2
    <3> QED
      BY <1>1, <3>1, LiveFacts DEF Unpublished
  <2> QED
    BY <1>5, <2>1, <2>2 DEF Mentions
<1> QED
  BY <1>2, <1>3, <1>4, <1>5

\* Who holds a key afterwards: what the family's new meta file lists, and before it the holders it does not mention.
LEMMA HoldersAfter ==
  ASSUME RecoveryInv, RecoveryInv', Meaning, Publish, NEW rest,
         rest = (Metas \cup NewMetas) \ Superfluous(disk, Metas \cup NewMetas), NEW f, NEW k, NEW m, NEW s
  PROVE  Holds(disk, rest, f, k, m, s) <=>
           \/ m \in NewMetas /\ disk[m].family = f /\ s \in DOMAIN disk[m].ssts /\ k \in DOMAIN SstRows(disk, s)
           \/ Holds(disk, Metas, f, k, m, s) /\ \A a \in NewMetas : disk[a].family = f => ~Mentions(disk, a, s)
<1>1. PICK M : M = Metas \cup NewMetas
  OBVIOUS
<1>2. stage = "publish" /\ proc = "open"
  BY DEF Publish, RecoveryInv, Inv, Control
<1>3. /\ \A x \in Metas : x \in Nat /\ \A a \in NewMetas : a \in Nat /\ x < a
      /\ Holds(disk, rest, f, k, m, s) <=> Holds(disk, M, f, k, m, s)
  <2>1. rest = M \ Superfluous(disk, M)
    BY <1>1
  <2> QED
    BY <1>1, <2>1, PublishedSet
<1>4. /\ \A a, b \in NewMetas : disk[a].family = disk[b].family => a = b
      /\ \A a \in NewMetas : /\ \A t \in DOMAIN disk[a].ssts : t \in Seqs /\ disk[t].family = disk[a].family
                             /\ \A t : Mentions(disk, a, t) => disk[t].family = disk[a].family
  BY <1>2, NewMetasSpeak
<1>5. CASE m \in NewMetas
  <2>1. m \notin Metas
    BY <1>3, <1>5
  <2>2. ASSUME s \in DOMAIN disk[m].ssts PROVE ~Hidden(disk, M, m, s)
    <3>1. SUFFICES ASSUME NEW n \in M, n > m, Mentions(disk, n, s) PROVE FALSE
      BY DEF Hidden
    <3>2. m \in Nat /\ n \in Nat
      <4>1. NewMetas \subseteq Nat
        <5>1. new_files \subseteq Present
          BY <1>2, WorkIsThere
        <5>2. \A x \in new_files : x \in Nat
          BY <5>1 DEF Present
        <5> QED
          BY <5>2 DEF NewMetas
      <4> QED
        BY <1>1, <1>3, <1>5, <4>1
    <3>3. n \in NewMetas
      BY <1>1, <1>3, <1>5, <3>1, <3>2
    <3>4. n = m
      BY <1>4, <1>5, <2>2, <3>1, <3>3
    <3> QED
      BY <3>1, <3>2, <3>4
  <2> QED
    BY <1>1, <1>3, <1>4, <1>5, <2>1, <2>2 DEF Holds
<1>6. CASE m \in Metas
  <2>1. m \notin NewMetas
    BY <1>3, <1>6
  <2>2. Hidden(disk, M, m, s) <=> Hidden(disk, Metas, m, s) \/ \E a \in NewMetas : Mentions(disk, a, s)
    BY <1>1, <1>3, <1>6 DEF Hidden
  <2>3. Holds(disk, Metas, f, k, m, s) => disk[s].family = f
    <3>1. Sound(disk, current_sequence_number, DeadNow)
      BY <1>2 DEF RecoveryInv, Running
    <3> QED
      BY <3>1 DEF Sound, Offers, Holds, Metas
  <2> QED
    BY <1>1, <1>3, <1>4, <1>6, <2>1, <2>2, <2>3 DEF Holds
<1>7. CASE m \notin NewMetas /\ m \notin Metas
  BY <1>1, <1>3, <1>7 DEF Holds
<1> QED
  BY <1>5, <1>6, <1>7

\* A batch's new SST files that hold key k of family f.
NewHolders(f, k) == {s \in new_files : IsKind(s, "sst") /\ disk[s].family = f /\ k \in DOMAIN Rows(s)}

LEMMA BatchPublishes ==
  ASSUME RecoveryInv, RecoveryInv', Meaning, Publish, ~Reorganizing, NEW f \in Families, NEW k
  PROVE  /\ NewHolders(f, k) = {} => GetIn(disk, meta_files', f, k) = GetIn(disk, meta_files, f, k)
         /\ \A h \in NewHolders(f, k) : (\A t \in NewHolders(f, k) : t <= h) =>
              GetIn(disk, meta_files', f, k) = Resolved(disk, Rows(h)[k])
<1>1. PICK M, rest : M = Metas \cup NewMetas /\ rest = M \ Superfluous(disk, M)
  OBVIOUS
<1>2. stage = "publish" /\ proc = "open"
  BY DEF Publish, RecoveryInv, Inv, Control
<1>3. /\ meta_files' = Database(disk, rest) /\ Readable(disk, rest)
      /\ \A m \in Metas : m \in Nat /\ \A a \in NewMetas : a \in Nat /\ m < a
  BY <1>1, PublishedSet
<1>4. meta_files = Database(disk, Metas) /\ Readable(disk, Metas)
  BY <1>2, RunningReadable
<1>5. \A a, b \in NewMetas : disk[a].family = disk[b].family => a = b
  BY <1>2, NewMetasSpeak
<1>6. ASSUME NEW a \in NewMetas, disk[a].family = f
      PROVE  /\ disk[a].obsolete = {}
             /\ \A s \in DOMAIN disk[a].ssts : /\ disk[a].ssts[s] = s /\ s \in new_files /\ s \in Seqs
                                               /\ disk[s].kind = "sst" /\ disk[s].family = f
  <2>1. Fresh(f)
    BY <1>2 DEF Meaning
  <2>2. \A s \in DOMAIN disk[a].ssts : Listed(f, s, disk[a].ssts[s])
    BY <1>6 DEF Listed
  <2>3. \A s \in DOMAIN disk[a].ssts : disk[a].ssts[s] = s /\ s \in new_files
    BY <2>1, <2>2 DEF Fresh
  <2> QED
    BY <1>2, <1>6, <2>3, NewMetasSpeak DEF Reorganizing
<1>7. \A s : (\E a \in NewMetas : disk[a].family = f /\ s \in DOMAIN disk[a].ssts) /\ k \in DOMAIN SstRows(disk, s)
               => s \in NewHolders(f, k)
  BY <1>6 DEF NewHolders, IsKind, Rows, SstRows
<1>8. \A n, t : Holds(disk, rest, f, k, n, t) <=>
           \/ n \in NewMetas /\ disk[n].family = f /\ t \in DOMAIN disk[n].ssts /\ k \in DOMAIN SstRows(disk, t)
           \/ Holds(disk, Metas, f, k, n, t) /\ \A a \in NewMetas : disk[a].family = f => ~Mentions(disk, a, t)
  <2>1. rest = (Metas \cup NewMetas) \ Superfluous(disk, Metas \cup NewMetas)
    BY <1>1
  <2> QED
    BY <2>1, HoldersAfter
<1>9. ASSUME NEW n, NEW t, Holds(disk, Metas, f, k, n, t), NEW a \in NewMetas, disk[a].family = f
      PROVE  ~Mentions(disk, a, t)
  <2>1. /\ Work /\ new_files = {s \in Present : s > current_sequence_number}
        /\ t \in Live(f)
    BY <1>2, <1>9, LiveHolds, WorkIsThere DEF Work, Unpublished
  <2>2. t < current_sequence_number /\ t \in Nat /\ current_sequence_number \in Nat
    <3>1. t < current_sequence_number /\ t \in Seqs
      BY <1>2, <2>1, LiveFacts DEF Unpublished
    <3> QED
      BY <3>1 DEF RecoveryInv, Inv, Typed
  <2>3. t \notin new_files
    BY <2>1, <2>2
  <2> QED
    BY <1>6, <1>9, <2>3 DEF Mentions
<1>10. ASSUME NewHolders(f, k) = {}
       PROVE  GetIn(disk, meta_files', f, k) = GetIn(disk, meta_files, f, k)
  <2>1. \A n, t : Holds(disk, rest, f, k, n, t) <=> Holds(disk, Metas, f, k, n, t)
    BY <1>7, <1>8, <1>9, <1>10
  <2> QED
    BY <1>3, <1>4, <2>1, SameHolders
<1>11. ASSUME NEW h \in NewHolders(f, k), \A t \in NewHolders(f, k) : t <= h
       PROVE  GetIn(disk, meta_files', f, k) = Resolved(disk, Rows(h)[k])
  <2>1. /\ h \in new_files /\ h \in Seqs /\ disk[h].kind = "sst" /\ disk[h].family = f
        /\ Rows(h) = disk[h].rows /\ k \in DOMAIN SstRows(disk, h)
    BY <1>11 DEF NewHolders, IsKind, Rows, SstRows
  <2>2. PICK a \in NewMetas : h \in DOMAIN disk[a].ssts
    <3>1. DOMAIN new_ssts[f] = {} /\ Work
      BY <1>2, WorkIsThere DEF Work, EmptyFunction
    <3> QED
      BY <2>1, <3>1 DEF Work
  <2>3. disk[a].family = f
    BY <1>2, <2>1, <2>2, NewMetasSpeak
  <2>4. Holds(disk, rest, f, k, a, h)
    BY <1>8, <2>1, <2>2, <2>3
  <2>5. ASSUME NEW n, NEW t, Holds(disk, rest, f, k, n, t)
        PROVE  a > n \/ (a = n /\ disk[a].ssts[h] >= disk[n].ssts[t])
    <3>1. CASE n \in NewMetas
      <4>1. disk[n].family = f /\ t \in DOMAIN disk[n].ssts /\ k \in DOMAIN SstRows(disk, t)
        BY <2>5 DEF Holds
      <4>2. n = a /\ t \in NewHolders(f, k)
        BY <1>5, <1>7, <2>2, <2>3, <3>1, <4>1
      <4>3. disk[a].ssts[h] = h /\ disk[n].ssts[t] = t /\ t <= h /\ h \in Nat /\ t \in Nat
        BY <1>6, <1>11, <2>1, <2>2, <2>3, <4>1, <4>2
      <4> QED
        BY <4>2, <4>3
    <3>2. CASE n \notin NewMetas
      <4>1. n \in Metas
        BY <1>8, <2>5, <3>2 DEF Holds
      <4> QED
        BY <1>3, <2>2, <4>1
    <3> QED
      BY <3>1, <3>2
  <2>6. Newest(disk, rest, f, k, a, h)
    BY <2>4, <2>5 DEF Newest
  <2> QED
    BY <1>3, <2>1, <2>6, GetNewest
<1> QED
  BY <1>10, <1>11

LEMMA CompactionPublishes ==
  ASSUME RecoveryInv, RecoveryInv', Meaning, Publish, Reorganizing, NEW f \in Families, NEW k
  PROVE  GetIn(disk, meta_files', f, k) = GetIn(disk, meta_files, f, k)
<1>1. PICK M, rest : M = Metas \cup NewMetas /\ rest = M \ Superfluous(disk, M)
  OBVIOUS
<1>2. stage = "publish" /\ proc = "open"
  BY DEF Publish, RecoveryInv, Inv, Control
<1>3. /\ meta_files' = Database(disk, rest) /\ Readable(disk, rest)
      /\ \A m \in Metas : m \in Nat /\ \A a \in NewMetas : a \in Nat /\ m < a
  BY <1>1, PublishedSet
<1>4. meta_files = Database(disk, Metas) /\ Readable(disk, Metas)
  BY <1>2, RunningReadable
<1>5. /\ \A a, b \in NewMetas : disk[a].family = disk[b].family => a = b
      /\ \A a \in NewMetas : disk[a].obsolete = obsolete[disk[a].family]
      /\ \A a \in NewMetas : \A s \in DOMAIN disk[a].ssts : s \in Seqs /\ disk[s].kind = "sst"
  BY <1>2, NewMetasSpeak
<1>6. KeepsKey(f, k)
  BY <1>2 DEF Meaning
<1>7. \A j, e : At(f, k, j, e) <=>
        \E a \in NewMetas : /\ disk[a].family = f
                            /\ \E s \in DOMAIN disk[a].ssts : disk[a].ssts[s] = j /\ k \in DOMAIN Rows(s) /\ e = Rows(s)[k]
  <2>1. jobs[f] = EmptyFunction /\ new_ssts[f] = EmptyFunction
    BY <1>2, WorkIsThere DEF Work
  <2> QED
    BY <2>1 DEF At, Listed, EmptyFunction
<1>8. \A n, t : Holds(disk, rest, f, k, n, t) <=>
           \/ n \in NewMetas /\ disk[n].family = f /\ t \in DOMAIN disk[n].ssts /\ k \in DOMAIN SstRows(disk, t)
           \/ Holds(disk, Metas, f, k, n, t) /\ \A a \in NewMetas : disk[a].family = f => ~Mentions(disk, a, t)
  <2>1. rest = (Metas \cup NewMetas) \ Superfluous(disk, Metas \cup NewMetas)
    BY <1>1
  <2> QED
    BY <2>1, HoldersAfter
<1>9. \A s : Rows(s) = SstRows(disk, s)
  BY DEF Rows, SstRows, IsKind
<1>10. ASSUME NEW j0, NEW e0, At(f, k, j0, e0)
       PROVE  GetIn(disk, meta_files', f, k) = GetIn(disk, meta_files, f, k)
  <2>1. PICK a \in NewMetas : /\ disk[a].family = f
                              /\ \E s \in DOMAIN disk[a].ssts : k \in DOMAIN Rows(s)
    BY <1>7, <1>10
  <2>2. PICK s0 \in DOMAIN disk[a].ssts : k \in DOMAIN Rows(s0)
    BY <2>1
  <2>3. Holds(disk, rest, f, k, a, s0)
    BY <1>8, <1>9, <2>1, <2>2
  <2>4. PICK n, h : Newest(disk, rest, f, k, n, h)
    BY <1>3, <2>3, NewestExists
  <2>5. n \in NewMetas
    <3>1. n > a \/ n = a
      BY <2>3, <2>4 DEF Newest
    <3>2. n \in NewMetas \/ n \in Metas
      BY <1>8, <2>4 DEF Newest, Holds
    <3>3. n \in Metas => n < a /\ n \in Nat /\ a \in Nat
      BY <1>3
    <3> QED
      BY <3>1, <3>2, <3>3
  <2>6. disk[n].family = f /\ h \in DOMAIN disk[n].ssts /\ k \in DOMAIN SstRows(disk, h) /\ n = a
    BY <1>5, <2>1, <2>4, <2>5 DEF Newest, Holds
  <2>7. PICK j, e : j = disk[n].ssts[h] /\ e = Rows(h)[k]
    OBVIOUS
  <2>8. At(f, k, j, e)
    BY <1>7, <1>9, <2>5, <2>6, <2>7
  <2>9. ASSUME NEW i, NEW d, At(f, k, i, d) PROVE i <= j
    <3>1. PICK b \in NewMetas : /\ disk[b].family = f
                                /\ \E s \in DOMAIN disk[b].ssts : disk[b].ssts[s] = i /\ k \in DOMAIN Rows(s)
      BY <1>7, <2>9
    <3>2. PICK s \in DOMAIN disk[b].ssts : disk[b].ssts[s] = i /\ k \in DOMAIN Rows(s)
      BY <3>1
    <3>3. Holds(disk, rest, f, k, b, s) /\ b = n
      BY <1>5, <1>8, <1>9, <2>1, <2>5, <2>6, <3>1, <3>2
    <3>4. n > b \/ (n = b /\ disk[n].ssts[h] >= disk[b].ssts[s])
      BY <2>4, <3>3 DEF Newest
    <3>5. b \in Seqs /\ disk[b].ssts[s] \in Nat /\ disk[n].ssts[h] \in Nat
      BY <1>3, <2>4, <3>3, HoldsIs DEF Newest
    <3> QED
      BY <2>7, <3>2, <3>3, <3>4, <3>5
  <2>10. NewestOf(Live(f), k, e)
    BY <1>6, <2>8, <2>9 DEF KeepsKey
  <2>11. GetIn(disk, meta_files, f, k) = Resolved(disk, e)
    BY <1>2, <2>10, CurrentIsRead DEF Unpublished
  <2>12. GetIn(disk, meta_files', f, k) = Resolved(disk, disk[h].rows[k]) /\ e = disk[h].rows[k]
    <3>1. Rows(h) = disk[h].rows
      BY <1>5, <1>9, <2>5, <2>6 DEF SstRows
    <3> QED
      BY <1>3, <2>4, <2>7, <3>1, GetNewest
  <2> QED
    BY <2>11, <2>12
<1>11. ASSUME \A j, e : ~At(f, k, j, e)
       PROVE  GetIn(disk, meta_files', f, k) = GetIn(disk, meta_files, f, k)
  <2>1. \A s \in obsolete[f] : k \notin DOMAIN Rows(s)
    BY <1>6, <1>11 DEF KeepsKey
  <2>2. \A a \in NewMetas : disk[a].family = f => \A s \in DOMAIN disk[a].ssts : k \notin DOMAIN Rows(s)
    BY <1>7, <1>11
  <2>3. \A n, t : Holds(disk, rest, f, k, n, t) <=> Holds(disk, Metas, f, k, n, t)
    <3>1. ASSUME NEW n, NEW t, Holds(disk, Metas, f, k, n, t), NEW a \in NewMetas, disk[a].family = f
          PROVE  ~Mentions(disk, a, t)
      BY <1>5, <1>9, <2>1, <2>2, <3>1 DEF Mentions, Holds
    <3> QED
      BY <1>8, <1>9, <2>2, <3>1
  <2> QED
    BY <1>3, <1>4, <2>3, SameHolders
<1> QED
  BY <1>10, <1>11


-----------------------------------------------------------------------------
(* Steps as steps of KVStore *)

Phase == IF proc # "open" THEN "closed"
         ELSE IF stage = "idle" THEN "idle"
         ELSE IF stage = "failed" THEN "broken"
         ELSE IF stage = "batch" THEN "writing"
         ELSE IF Writing THEN "sealed" ELSE "published"
Pending == IF Writing THEN PendingView ELSE View(meta_files)
Empty == [f \in Families |-> [k \in Keys |-> Absent]]

LEMMA KVStutters ==
  ASSUME Phase' = Phase, Durable' = Durable, View(meta_files)' = View(meta_files), Pending' = Pending
  PROVE  UNCHANGED KV!kvVars
BY DEF KV!kvVars, Phase, Pending

LEMMA KVOpens ==
  ASSUME Phase = "closed", Phase' = "idle", Durable' = Durable, View(meta_files)' = Durable, Pending' = Durable
  PROVE  KV!KVNext
BY DEF KV!KVNext, KV!Open, Phase, Pending

LEMMA KVBegins ==
  ASSUME Phase = "idle", Phase' \in {"writing", "sealed"},
         Durable' = Durable, View(meta_files)' = View(meta_files), Pending' = Pending
  PROVE  KV!KVNext
BY DEF KV!KVNext, KV!Begin, KV!Reorganize, Phase, Pending

LEMMA KVWrites ==
  ASSUME NEW f \in Families, Phase = "writing", Phase' = "writing",
         Durable' = Durable, View(meta_files)' = View(meta_files),
         NEW content \in [Keys -> Values \cup {Absent}], Pending' = [Pending EXCEPT ![f] = content]
  PROVE  KV!KVNext
BY DEF KV!KVNext, KV!Write, Phase, Pending

LEMMA KVSeals ==
  ASSUME Phase = "writing", Phase' = "sealed",
         Durable' = Durable, View(meta_files)' = View(meta_files), Pending' = Pending
  PROVE  KV!KVNext
BY DEF KV!KVNext, KV!Seal, Phase, Pending

LEMMA KVPublishes ==
  ASSUME Phase = "sealed", Phase' = "published",
         Durable' = Durable, View(meta_files)' = Pending, Pending' = Pending
  PROVE  KV!KVNext
BY DEF KV!KVNext, KV!Publish, Phase, Pending

LEMMA KVPersists ==
  ASSUME Phase = "published", Phase' = "published",
         Durable' = View(meta_files), View(meta_files)' = View(meta_files), Pending' = Pending
  PROVE  KV!KVNext \/ UNCHANGED KV!kvVars
<1>1. CASE Durable = View(meta_files)
  BY <1>1 DEF KV!kvVars, Phase, Pending
<1>2. CASE Durable # View(meta_files)
  BY <1>2 DEF KV!KVNext, KV!Persist, Phase, Pending
<1> QED
  BY <1>1, <1>2

LEMMA KVAcknowledges ==
  ASSUME Phase = "published", Phase' = "idle", Durable = View(meta_files),
         Durable' = Durable, View(meta_files)' = View(meta_files), Pending' = Pending
  PROVE  KV!KVNext
BY DEF KV!KVNext, KV!Acknowledge, Phase, Pending

LEMMA KVBreaks ==
  ASSUME Phase \in {"writing", "sealed", "published"}, Phase' = "broken",
         Durable' = Durable, View(meta_files)' = View(meta_files), Pending' = View(meta_files)
  PROVE  KV!KVNext
BY DEF KV!KVNext, KV!Break, Phase, Pending

LEMMA KVCrashes ==
  ASSUME Phase # "closed", Phase' = "closed", View(meta_files)' = Empty, Pending' = Empty,
         Durable' = Durable \/ (Phase \in {"published", "broken"} /\ Durable' = View(meta_files))
  PROVE  KV!KVNext
BY DEF KV!KVNext, KV!Crash, KV!EmptyStore, Phase, Pending, Empty

-----------------------------------------------------------------------------
(* What a write operation is about to make visible *)

\* The SST file that decides key k of family f in a batch, and what the key becomes.
Latest(f, k) == CHOOSE s \in NewHolders(f, k) : \A t \in NewHolders(f, k) : t <= s
Pend(f, k) ==
  IF NewHolders(f, k) = {} \/ Reorganizing THEN Get(meta_files, f, k) ELSE Resolve(Rows(Latest(f, k))[k])

LEMMA PendingIs == PendingView = [f \in Families |-> [k \in Keys |-> Pend(f, k)]]
BY DEF PendingView, Pend, Latest, NewHolders, Reorganizing

LEMMA PendingIsNext == (PendingView = [f \in Families |-> [k \in Keys |-> Pend(f, k)]])'
BY PendingIs, PTL

LEMMA ResolveIs == \A e : Resolve(e) = Resolved(disk, e)
BY DEF Resolve, Resolved, BlobValue, Blob, IsKind

LEMMA ResolveIsNext == (\A e : Resolve(e) = Resolved(disk, e))'
BY ResolveIs, PTL

LEMMA GetIsNext == (\A X, f, k : Get(X, f, k) = GetIn(disk, X, f, k))'
BY GetIs, PTL

LEMMA LatestIs ==
  ASSUME NEW f, NEW k, RecoveryInv, Writing, NewHolders(f, k) # {}
  PROVE  /\ Latest(f, k) \in NewHolders(f, k) /\ \A t \in NewHolders(f, k) : t <= Latest(f, k)
         /\ \A h \in NewHolders(f, k) : h \in Seqs /\ disk[h].kind = "sst" /\ k \in DOMAIN disk[h].rows /\ Rows(h) = disk[h].rows
<1>1. \A h \in NewHolders(f, k) :
        h \in Seqs /\ disk[h].kind = "sst" /\ k \in DOMAIN disk[h].rows /\ Rows(h) = disk[h].rows
  BY DEF NewHolders, IsKind, Rows
<1>2. \E s \in NewHolders(f, k) : \A t \in NewHolders(f, k) : t <= s
  <2>1. NewHolders(f, k) \subseteq Nat /\ \A x \in NewHolders(f, k) : x <= MaxSeq
    BY <1>1
  <2> QED
    BY <2>1, Maximum
<1> QED
  BY <1>1, <1>2 DEF Latest

LEMMA PendTyped ==
  ASSUME RecoveryInv, Writing, NEW f \in Families, NEW k
  PROVE  Pend(f, k) \in Values \cup {Absent}
<1>1. proc = "open" /\ stage # "failed" /\ TypeOK
  BY DEF Writing, RecoveryInv, Inv, Control
<1>2. Get(meta_files, f, k) \in Values \cup {Absent}
  <2>1. meta_files = Database(disk, Metas) /\ Readable(disk, Metas)
    BY <1>1, RunningReadable
  <2>2. GetIn(disk, Database(disk, Metas), f, k) \in Values \cup {Absent}
    BY <2>1, GetTyped
  <2> QED
    BY <2>1, <2>2, GetIs
<1>3. NewHolders(f, k) # {} => Resolve(Rows(Latest(f, k))[k]) \in Values \cup {Absent}
  <2>1. SUFFICES ASSUME NewHolders(f, k) # {} PROVE Resolve(Rows(Latest(f, k))[k]) \in Values \cup {Absent}
    OBVIOUS
  <2>2. PICK h \in NewHolders(f, k) : h = Latest(f, k)
    BY <2>1, LatestIs
  <2>3. h \in Seqs /\ disk[h].kind = "sst" /\ k \in DOMAIN disk[h].rows /\ Rows(h) = disk[h].rows
    BY <2>1, LatestIs
  <2>4. disk[h].rows[k] \in Entries
    BY <1>1, <2>3, SstsAreTyped DEF IsPartialFunction
  <2>5. Resolved(disk, disk[h].rows[k]) \in Values \cup {Absent}
    BY <1>1, <2>4, EntriesResolve
  <2> QED
    BY <2>2, <2>3, <2>5, ResolveIs
<1> QED
  BY <1>2, <1>3 DEF Pend

LEMMA PendTypedNext ==
  RecoveryInv' /\ Writing' => \A f \in Families : \A k : Pend(f, k)' \in Values \cup {Absent}
<1>1. RecoveryInv /\ Writing => \A f \in Families : \A k : Pend(f, k) \in Values \cup {Absent}
  BY PendTyped
<1>2. (RecoveryInv /\ Writing => \A f \in Families : \A k : Pend(f, k) \in Values \cup {Absent})'
  BY <1>1, PTL
<1> QED
  BY <1>2

\* While the database is open, the blobs that an SST file names are there.
LEMMA BlobsAreThere ==
  RecoveryInv /\ proc = "open" => \A s : IsKind(s, "sst") => \A b \in BlobsOf(Rows(s)) : IsKind(b, "blob")
BY DEF RecoveryInv, Shape, Top, FilesOK, FileOK, IsKind, BlobsOf, Rows

LEMMA BlobsAreThereNext ==
  (RecoveryInv /\ proc = "open" => \A s : IsKind(s, "sst") => \A b \in BlobsOf(Rows(s)) : IsKind(b, "blob"))'
BY BlobsAreThere, PTL

\* A key keeps what it is about to become when no new SST file holds it.
LEMMA PendKept ==
  ASSUME RecoveryInv, RecoveryInv', Next, UNCHANGED meta_files, Writing, Writing', NEW f, NEW k,
         Reorganizing' <=> Reorganizing, Reorganizing \/ NewHolders(f, k)' = NewHolders(f, k)
  PROVE  Pend(f, k)' = Pend(f, k)
<1>1. Get(meta_files, f, k)' = Get(meta_files, f, k)
  BY VisibleKept, GetIs, GetIsNext
<1>2. CASE NewHolders(f, k) = {} \/ Reorganizing
  BY <1>1, <1>2 DEF Pend
<1>3. CASE NewHolders(f, k) # {} /\ ~Reorganizing
  <2>0. NewHolders(f, k)' = NewHolders(f, k)
    BY <1>3
  <2>1. PICK h \in NewHolders(f, k) : h = Latest(f, k)
    BY <1>3, LatestIs
  <2>2. Latest(f, k)' = h
    BY <2>0, <2>1 DEF Latest
  <2>3. IsKind(h, "sst") /\ IsKind(h, "sst")' /\ k \in DOMAIN Rows(h) /\ k \in DOMAIN Rows(h)' /\ h \in Seqs
    <3>1. h \in NewHolders(f, k)'
      BY <2>0
    <3> QED
      BY <3>1 DEF NewHolders, IsKind
  <2>4. proc = "open" /\ proc' = "open" /\ TypeOK /\ FilesKept
    BY StepKeepsFiles DEF Writing, RecoveryInv, Inv, Control
  <2>5. SameRead(disk, disk', h)
    BY <2>3, <2>4, SstReads, BlobsAreThere, BlobsAreThereNext
  <2>6. Rows(h) = SstRows(disk, h) /\ Rows(h)' = SstRows(disk', h)
    BY DEF Rows, SstRows, IsKind
  <2>7. Resolved(disk', Rows(h)'[k]) = Resolved(disk, Rows(h)[k])
    BY <2>3, <2>5, <2>6 DEF SameRead
  <2>8. Pend(f, k) = Resolved(disk, Rows(h)[k])
    BY <1>3, <2>1, ResolveIs DEF Pend
  <2>9. Pend(f, k)' = Resolved(disk', Rows(h)'[k])
    BY <1>3, <2>0, <2>2, ResolveIsNext DEF Pend
  <2> QED
    BY <2>7, <2>8, <2>9
<1> QED
  BY <1>2, <1>3


LEMMA PendingKept ==
  ASSUME RecoveryInv, RecoveryInv', Next, UNCHANGED meta_files, Writing, Writing', Reorganizing' <=> Reorganizing,
         Reorganizing \/ \A f \in Families : \A k : NewHolders(f, k)' = NewHolders(f, k)
  PROVE  Pending' = Pending
<1>1. \A f \in Families : \A k : Pend(f, k)' = Pend(f, k)
  BY PendKept
<1> QED
  BY <1>1, PendingIs, PendingIsNext DEF Pending

\* At the start of a write operation, nothing.
LEMMA NothingPending == (\A f \in Families : \A k : NewHolders(f, k) = {}) => PendingView = View(meta_files)
BY PendingIs DEF Pend, View

LEMMA NothingPendingNext == ((\A f \in Families : \A k : NewHolders(f, k) = {}) => PendingView = View(meta_files))'
BY NothingPending, PTL

\* A file that is no SST file holds no key.
LEMMA HoldersKept ==
  ASSUME new_files \subseteq Present, NEW new \in SUBSET Seqs, \A s \in Seqs : s \notin new => disk'[s] = disk[s],
         \A n \in new : disk[n].kind = "none" /\ disk'[n].kind # "sst", new_files' = new_files \cup new
  PROVE  \A f, k : NewHolders(f, k)' = NewHolders(f, k)
<1>1. \A s \in new_files : s \in Seqs /\ s \notin new
  BY DEF Present, Exists
<1>2. \A s \in Seqs : s \notin new => Rows(s)' = Rows(s) /\ (IsKind(s, "sst")' <=> IsKind(s, "sst"))
  BY DEF Rows, IsKind
<1>3. \A n \in new : ~IsKind(n, "sst")'
  BY DEF IsKind
<1> QED
  BY <1>1, <1>2, <1>3 DEF NewHolders

\* What Publish makes visible is what was pending.
LEMMA PublishView ==
  ASSUME RecoveryInv, RecoveryInv', Meaning, Publish
  PROVE  View(meta_files)' = PendingView
<1>0. disk' = disk /\ stage = "publish"
  BY DEF Publish, disk_vars
<1>1. PICK X : X = meta_files'
  OBVIOUS
<1>2. ASSUME NEW f \in Families, NEW k PROVE GetIn(disk, X, f, k) = Pend(f, k)
  <2>1. CASE Reorganizing
    BY <1>1, <2>1, CompactionPublishes, GetIs DEF Pend
  <2>2. CASE ~Reorganizing /\ NewHolders(f, k) = {}
    BY <1>1, <2>2, BatchPublishes, GetIs DEF Pend
  <2>3. CASE ~Reorganizing /\ NewHolders(f, k) # {}
    <3>1. PICK h \in NewHolders(f, k) : h = Latest(f, k) /\ \A t \in NewHolders(f, k) : t <= h
      BY <1>0, <2>3, LatestIs DEF Writing
    <3>2. GetIn(disk, X, f, k) = Resolved(disk, Rows(h)[k])
      BY <1>1, <2>3, <3>1, BatchPublishes
    <3> QED
      BY <2>3, <3>1, <3>2, ResolveIs DEF Pend
  <2> QED
    BY <2>1, <2>2, <2>3
<1>3. View(meta_files)' = ViewIn(disk, X)
  BY <1>0, <1>1, ViewIsNext
<1> QED
  BY <1>2, <1>3, PendingIs DEF ViewIn

-----------------------------------------------------------------------------
(* Each step is a step of KVStore, or changes nothing there *)

KVStep == KV!KVNext \/ UNCHANGED KV!kvVars

LEMMA QuietStep ==
  ASSUME RecoveryInv, RecoveryInv', Next, UNCHANGED <<meta_files, stable>>, Phase' = Phase, ~Writing, ~Writing'
  PROVE  KVStep
<1>1. Durable' = Durable /\ View(meta_files)' = View(meta_files)
  BY DurableKept, VisibleKept
<1>2. Pending' = Pending
  BY <1>1 DEF Pending
<1> QED
  BY <1>1, <1>2, KVStutters DEF KVStep

LEMMA QuietWriterStep ==
  ASSUME RecoveryInv, RecoveryInv', Next, UNCHANGED <<meta_files, stable, proc, stage, obsolete>>, Writing,
         Reorganizing \/ \A f \in Families : \A k : NewHolders(f, k)' = NewHolders(f, k)
  PROVE  KVStep
<1>1. Durable' = Durable /\ View(meta_files)' = View(meta_files)
  BY DurableKept, VisibleKept
<1>2. Writing /\ Writing' /\ Phase' = Phase
  BY DEF Writing, Phase
<1>3. Reorganizing' <=> Reorganizing
  BY DEF Reorganizing
<1>4. Pending' = Pending
  BY <1>2, <1>3, PendingKept
<1> QED
  BY <1>1, <1>2, <1>4, KVStutters DEF KVStep

\* A directory without files holds nothing.
LEMMA EmptyLoads ==
  ASSUME Present = {}
  PROVE  Durable = Empty
<1>1. \A s \in Seqs : disk[s].kind = "none"
  BY DEF Present, Exists
<1>2. \A cur : Load(cur) = {}
  BY <1>1, LoadIs, EmptyDirectory
<1>3. View({}) = Empty
  BY ViewIs, NothingToRead DEF Empty
<1> QED
  BY <1>2, <1>3 DEF Durable

LEMMA EmptyLoadsNext == (Present = {} => Durable = Empty)'
<1>1. Present = {} => Durable = Empty
  BY EmptyLoads
<1> QED
  BY <1>1, PTL

LEMMA EmptyView == View({}) = Empty /\ View({})' = Empty /\ (meta_files' = {} => View(meta_files)' = Empty)
BY ViewIs, ViewIsNext, NothingToRead DEF Empty

LEMMA OpeningMaps ==
  ASSUME RecoveryInv, RecoveryInv', Next, Opening
  PROVE  KVStep
<1>0. stage = "idle" /\ stage' = "idle" /\ ~Writing /\ ~Writing'
  BY OpeningIsIdle DEF Writing, writer_vars
<1>1. ASSUME NEW ro \in BOOLEAN, InitCreate(ro) PROVE KVStep
  <2>1. /\ proc = "down" /\ proc' = "init" /\ UNCHANGED meta_files
        /\ stable = NoCurrent /\ stable' = Torn
    BY <1>1 DEF InitCreate, RecoveryInv, Inv, Control
  <2>2. stable \notin Nat /\ stable' \notin Nat
    BY <2>1, CurrentAssumption
  <2>3. Durable' = Durable
    BY <2>2, EmptyView DEF Durable
  <2>4. View(meta_files)' = View(meta_files)
    BY <2>1, VisibleKept
  <2>5. Phase' = Phase /\ Pending' = Pending
    BY <1>0, <2>1, <2>4 DEF Phase, Pending
  <2> QED
    BY <2>3, <2>4, <2>5, KVStutters DEF KVStep
<1>2. ASSUME NEW ro \in BOOLEAN, OpenStart(ro) PROVE KVStep
  <2>1. proc = "down" /\ proc' = "recover" /\ UNCHANGED <<meta_files, stable>>
    BY <1>2 DEF OpenStart, disk_vars
  <2> QED
    BY <1>0, <2>1, QuietStep DEF Phase
<1>3. CASE InitWrite
  <2>1. /\ proc = "init" /\ proc' = "open" /\ UNCHANGED <<disk, meta_files>> /\ meta_files = {} /\ Present = {}
    BY <1>3 DEF InitWrite, db_vars, RecoveryInv, Recovering, Inv, Numbered
  <2>2. Present' = {}
    BY <2>1 DEF Present, Exists
  <2>3. Durable = Empty /\ Durable' = Empty
    BY <2>1, <2>2, EmptyLoads, EmptyLoadsNext
  <2>4. View(meta_files)' = Empty
    BY <2>1, EmptyView
  <2>5. Phase = "closed" /\ Phase' = "idle" /\ Pending' = View(meta_files)'
    BY <1>0, <2>1 DEF Phase, Pending
  <2> QED
    BY <2>3, <2>4, <2>5, KVOpens DEF KVStep
<1>4. ASSUME NEW s \in Seqs, RecoverRemove(s) PROVE KVStep
  <2>1. proc = "recover" /\ proc' = "recover" /\ UNCHANGED <<meta_files, stable>>
    BY <1>4 DEF RecoverRemove, db_vars
  <2> QED
    BY <1>0, <2>1, QuietStep DEF Phase
<1>5. CASE OpenFinish
  <2>1. /\ proc = "recover" /\ proc' = "open" /\ UNCHANGED <<disk, stable>>
        /\ CURRENT = stable /\ stable \in Nat /\ meta_files' = Load(CURRENT)
    BY <1>5 DEF OpenFinish, disk_vars, RecoveryInv, Inv, Control
  <2>2. Durable' = Durable
    BY <2>1, DurableKept
  <2>3. PICK X : X = Load(stable)
    OBVIOUS
  <2>4. View(meta_files)' = ViewIn(disk, X) /\ Durable = ViewIn(disk, X)
    BY <2>1, <2>3, ViewIs, ViewIsNext DEF Durable
  <2>5. Phase = "closed" /\ Phase' = "idle" /\ Pending' = View(meta_files)'
    BY <1>0, <2>1 DEF Phase, Pending
  <2> QED
    BY <2>2, <2>4, <2>5, KVOpens DEF KVStep
<1> QED
  BY <1>1, <1>2, <1>3, <1>4, <1>5 DEF Opening


LEMMA BeginMaps ==
  ASSUME RecoveryInv, RecoveryInv', Next, AcquireWrite, UNCHANGED <<meta_files, stable, proc, new_files>>,
         stage' \in {"batch", "metas"}
  PROVE  KVStep
<1>1. proc = "open" /\ stage = "idle" /\ new_files = {}
  BY BeginStep DEF NoWork
<1>2. Durable' = Durable /\ View(meta_files)' = View(meta_files)
  BY DurableKept, VisibleKept
<1>3. \A f, k : NewHolders(f, k)' = {}
  BY <1>1 DEF NewHolders
<1>4. ~Writing /\ Writing'
  BY <1>1 DEF Writing
<1>5. Pending' = Pending
  BY <1>2, <1>3, <1>4, NothingPendingNext DEF Pending
<1>6. Phase = "idle" /\ Phase' \in {"writing", "sealed"}
  BY <1>1, <1>4 DEF Phase
<1> QED
  BY <1>2, <1>5, <1>6, KVBegins DEF KVStep

LEMMA CreateMaps ==
  ASSUME RecoveryInv, RecoveryInv', Next, stage \in {"batch", "metas"}, NEW content, content.kind # "sst",
         NEW room \in Nat, CreateFile(content, room), UNCHANGED <<meta_files, stable, proc, stage, obsolete>>
  PROVE  KVStep
<1>1. PICK n : n = next_seq + 1
  OBVIOUS
<1>2. /\ n \in Seqs /\ disk'[n].kind # "sst" /\ new_files' = new_files \cup {n}
      /\ \A s \in Seqs : s \notin {n} => disk'[s] = disk[s]
      /\ disk[n].kind = "none"
  <2>1. /\ n \in Seqs /\ disk'[n] = content /\ new_files' = new_files \cup {n}
        /\ \A s \in Seqs : s \notin {n} => disk'[s] = disk[s]
        /\ \A s \in Seqs : disk[s].kind # "none" => s < n
    BY <1>1, CreateFileFacts
  <2> QED
    BY <2>1
<1>3. new_files \subseteq Present
  BY WorkIsThere
<1>4. PICK new \in SUBSET Seqs : new = {n}
  BY <1>2
<1>5. \A f, k : NewHolders(f, k)' = NewHolders(f, k)
  <2>1. /\ \A s \in Seqs : s \notin new => disk'[s] = disk[s]
        /\ \A x \in new : disk[x].kind = "none" /\ disk'[x].kind # "sst"
        /\ new_files' = new_files \cup new
    BY <1>2, <1>4
  <2> QED
    BY <1>3, <2>1, HoldersKept
<1> QED
  BY <1>5, QuietWriterStep DEF Writing

LEMMA WriteSstMaps ==
  ASSUME RecoveryInv, RecoveryInv', Next, NEW f \in Families, NEW rows \in BatchRows, WriteSst(f, rows)
  PROVE  KVStep
<1>1. PICK n : n = next_seq + 1
  OBVIOUS
<1>2. /\ stage = "batch" /\ stage' = "batch" /\ UNCHANGED <<jobs, obsolete, meta_files, proc>>
      /\ n \in Seqs /\ new_files' = new_files \cup {n}
      /\ disk'[n].kind = "sst" /\ disk'[n].family = f
      /\ \A s \in Seqs : s \notin {n} => disk'[s] = disk[s]
      /\ \A s \in Seqs : disk[s].kind # "none" => s < n
  <2>1. /\ stage = "batch" /\ stage' = "batch" /\ UNCHANGED <<jobs, obsolete>>
        /\ n \in Seqs /\ new_files' = new_files \cup {n} /\ disk'[n].kind = "sst"
        /\ \A s \in Seqs : s \notin {n} => disk'[s] = disk[s]
        /\ \A s \in Seqs : disk[s].kind # "none" => s < n
        /\ new_ssts'[f] = [s \in DOMAIN new_ssts[f] \cup {n} |-> IF s \in DOMAIN new_ssts[f] THEN new_ssts[f][s] ELSE s]
        /\ \A g \in Families : g # f => new_ssts'[g] = new_ssts[g]
    BY <1>1, WriteSstFacts
  <2>2. disk'[n].family = f
    BY <1>1, WriteSstFacts
  <2>3. UNCHANGED <<meta_files, proc>>
    BY <1>1, WriteSstFacts
  <2> QED
    BY <2>1, <2>2, <2>3
<1>3. UNCHANGED stable /\ proc = "open" /\ new_files \subseteq Present /\ disk[n].kind = "none"
  BY <1>2, WorkIsThere DEF WriteSst
<1>4. Durable' = Durable /\ View(meta_files)' = View(meta_files)
  BY <1>2, <1>3, DurableKept, VisibleKept
<1>5. Writing /\ Writing' /\ (Reorganizing' <=> Reorganizing) /\ Phase = "writing" /\ Phase' = "writing"
  BY <1>2, <1>3 DEF Writing, Reorganizing, Phase
<1>6. ASSUME NEW g \in Families, g # f, NEW k PROVE Pend(g, k)' = Pend(g, k)
  <2>1. \A s \in new_files : s \in Seqs /\ s \notin {n}
    BY <1>3 DEF Present, Exists
  <2>2. \A s \in Seqs : s \notin {n} => Rows(s)' = Rows(s) /\ (IsKind(s, "sst")' <=> IsKind(s, "sst"))
    BY <1>2 DEF Rows, IsKind
  <2>3. NewHolders(g, k)' = NewHolders(g, k)
    BY <1>2, <1>6, <2>1, <2>2 DEF NewHolders
  <2> QED
    BY <1>2, <1>5, <2>3, PendKept
<1>7. PICK content : content = [k \in Keys |-> Pend(f, k)']
  OBVIOUS
<1>8. content \in [Keys -> Values \cup {Absent}]
  BY <1>5, <1>7, PendTypedNext
<1>9. Pending' = [Pending EXCEPT ![f] = content]
  BY <1>5, <1>6, <1>7, PendingIs, PendingIsNext DEF Pending
<1> QED
  BY <1>4, <1>5, <1>8, <1>9, KVWrites DEF KVStep

LEMMA BatchingMaps ==
  ASSUME RecoveryInv, RecoveryInv', Next, Batching
  PROVE  KVStep
<1>1. CASE BeginBatch
  BY <1>1, BeginMaps DEF BeginBatch, disk_vars
<1>2. ASSUME NEW v \in LargeValues, CreateBlob(v) PROVE KVStep
  BY <1>2, CreateMaps DEF CreateBlob, db_vars
<1>3. ASSUME NEW f \in Families, NEW rows \in BatchRows, WriteSst(f, rows) PROVE KVStep
  BY <1>3, WriteSstMaps
<1>4. CASE FinishBatch
  <2>1. /\ stage = "batch" /\ stage' = "metas" /\ UNCHANGED <<disk, stable, meta_files, proc, new_files, obsolete>>
    BY <1>4 DEF FinishBatch, disk_vars, db_vars
  <2>2. proc = "open"
    BY <2>1, WorkIsThere
  <2>3. Durable' = Durable /\ View(meta_files)' = View(meta_files)
    BY <2>1, DurableKept, VisibleKept
  <2>4. /\ Writing /\ Writing' /\ (Reorganizing' <=> Reorganizing) /\ Phase = "writing" /\ Phase' = "sealed"
        /\ \A f, k : NewHolders(f, k)' = NewHolders(f, k)
    BY <2>1, <2>2 DEF Writing, Reorganizing, Phase, NewHolders, IsKind, Rows
  <2>5. Pending' = Pending
    BY <2>1, <2>4, PendingKept
  <2> QED
    BY <2>3, <2>4, <2>5, KVSeals DEF KVStep
<1> QED
  BY <1>1, <1>2, <1>3, <1>4 DEF Batching

LEMMA CompactingMaps ==
  ASSUME RecoveryInv, RecoveryInv', Meaning, Next, Compacting
  PROVE  KVStep
<1>1. ASSUME NEW plan \in [AllLive -> 0..MaxJobs], BeginCompact(plan) PROVE KVStep
  BY <1>1, BeginMaps DEF BeginCompact, disk_vars
<1>2. ASSUME NEW f \in Families, NEW j, NEW s, MoveSst(f, j, s) PROVE KVStep
  <2>1. /\ stage = "metas" /\ UNCHANGED <<disk, stable, meta_files, proc, stage, new_files, obsolete>>
    BY <1>2 DEF MoveSst, disk_vars, db_vars
  <2>2. Writing /\ \A g, k : NewHolders(g, k)' = NewHolders(g, k)
    BY <2>1 DEF Writing, NewHolders, IsKind, Rows
  <2> QED
    BY <2>1, <2>2, QuietWriterStep
<1>3. ASSUME NEW f \in Families, NEW j, NEW first \in SUBSET Keys, MergeSsts(f, j, first) PROVE KVStep
  <2>1. /\ stage = "metas" /\ j \in DOMAIN jobs[f] /\ UNCHANGED <<stable, meta_files, proc, stage, obsolete>>
    BY <1>3 DEF MergeSsts, db_vars
  <2>2. Writing /\ Reorganizing
    BY <2>1 DEF Writing, Meaning, Fresh, EmptyFunction
  <2> QED
    BY <2>1, <2>2, QuietWriterStep
<1> QED
  BY <1>1, <1>2, <1>3 DEF Compacting

LEMMA SyncedIsPublished == RecoveryInv /\ stage = "remove" => Durable = View(meta_files)
<1>1. RecoveryInv /\ stage = "remove" => stable = CURRENT
  BY DEF RecoveryInv, Inv, Control
<1> QED
  BY <1>1, PublishedIsLoaded DEF Durable

LEMMA SyncedIsPublishedNext == (RecoveryInv /\ stage = "remove" => Durable = View(meta_files))'
BY SyncedIsPublished, PTL

LEMMA CommittingMaps ==
  ASSUME RecoveryInv, RecoveryInv', Meaning, Next, Committing
  PROVE  KVStep
<1>0. stage # "idle" => proc = "open"
  BY DEF RecoveryInv, Inv, Control
<1>1. ASSUME NEW f \in Families, WriteMeta(f) PROVE KVStep
  BY <1>1, CreateMaps DEF WriteMeta, db_vars
<1>2. CASE SyncFiles
  <2>1. /\ stage = "metas" /\ stage' = "publish" /\ UNCHANGED <<disk, stable, meta_files, proc, new_files, obsolete>>
    BY <1>2 DEF SyncFiles, db_vars
  <2>2. Durable' = Durable /\ View(meta_files)' = View(meta_files)
    BY <2>1, DurableKept, VisibleKept
  <2>3. /\ Writing /\ Writing' /\ (Reorganizing' <=> Reorganizing) /\ Phase' = Phase
        /\ \A f, k : NewHolders(f, k)' = NewHolders(f, k)
    BY <2>1 DEF Writing, Reorganizing, Phase, NewHolders, IsKind, Rows
  <2>4. Pending' = Pending
    BY <2>1, <2>3, PendingKept
  <2> QED
    BY <2>2, <2>3, <2>4, KVStutters DEF KVStep
<1>3. CASE Publish
  <2>1. stage = "publish" /\ stage' \in {"del", "current"} /\ UNCHANGED <<disk, stable, proc>>
    BY <1>3 DEF Publish, disk_vars
  <2>2. /\ Writing /\ ~Writing' /\ Phase = "sealed" /\ Phase' = "published"
    BY <1>0, <2>1 DEF Writing, Phase
  <2>3. View(meta_files)' = Pending /\ Pending' = Pending
    BY <1>3, <2>2, PublishView DEF Pending
  <2>4. Durable' = Durable
    BY <2>1, DurableKept
  <2> QED
    BY <2>2, <2>3, <2>4, KVPublishes DEF KVStep
<1>4. CASE WriteDel \/ WriteCurrent
  <2>1. stage \in {"del", "current"} /\ stage' \in {"current", "sync_current"} /\ UNCHANGED <<stable, meta_files, proc>>
    BY <1>4 DEF WriteDel, WriteCurrent, db_vars
  <2> QED
    BY <2>1, QuietStep DEF Writing, Phase
<1>5. CASE SyncCurrent
  <2>1. stage = "sync_current" /\ stage' = "remove" /\ UNCHANGED <<disk, meta_files, proc>>
    BY <1>5 DEF SyncCurrent, db_vars
  <2>2. View(meta_files)' = View(meta_files)
    BY <2>1, VisibleKept
  <2>3. Phase = "published" /\ Phase' = "published" /\ ~Writing /\ ~Writing'
    BY <1>0, <2>1 DEF Writing, Phase
  <2>4. Durable' = View(meta_files)'
    BY <2>1, SyncedIsPublishedNext
  <2>5. Pending' = Pending
    BY <2>2, <2>3 DEF Pending
  <2> QED
    BY <2>2, <2>3, <2>4, <2>5, KVPersists DEF KVStep
<1>6. ASSUME NEW s \in Seqs, RemoveFile(s) PROVE KVStep
  <2>1. stage = "remove" /\ UNCHANGED <<stable, meta_files, proc, stage>>
    BY <1>6 DEF RemoveFile, db_vars
  <2> QED
    BY <2>1, QuietStep DEF Writing, Phase
<1>7. CASE CommitDone
  <2>1. stage = "remove" /\ stage' = "idle" /\ UNCHANGED <<stable, meta_files, proc>>
    BY <1>7 DEF CommitDone, NoWriter, disk_vars
  <2>2. Durable' = Durable /\ View(meta_files)' = View(meta_files) /\ Durable = View(meta_files)
    BY <2>1, DurableKept, VisibleKept, SyncedIsPublished
  <2>3. Phase = "published" /\ Phase' = "idle" /\ ~Writing /\ ~Writing'
    BY <1>0, <2>1 DEF Writing, Phase
  <2>4. Pending' = Pending
    BY <2>2, <2>3 DEF Pending
  <2> QED
    BY <2>2, <2>3, <2>4, KVAcknowledges DEF KVStep
<1> QED
  BY <1>1, <1>2, <1>3, <1>4, <1>5, <1>6, <1>7 DEF Committing

LEMMA FailMaps ==
  ASSUME RecoveryInv, RecoveryInv', Next, Fail
  PROVE  KVStep
<1>1. /\ stage \in {"batch", "metas", "del", "current", "sync_current", "remove"} /\ stage' = "failed" /\ proc = "open"
      /\ UNCHANGED <<stable, meta_files, proc>>
  BY DEF Fail, disk_vars, db_vars, RecoveryInv, Inv, Typed, Control, Stages
<1>2. Durable' = Durable /\ View(meta_files)' = View(meta_files)
  BY <1>1, DurableKept, VisibleKept
<1>3. Phase \in {"writing", "sealed", "published"} /\ Phase' = "broken" /\ ~Writing'
  BY <1>1 DEF Phase, Writing
<1>4. Pending' = View(meta_files)
  BY <1>2, <1>3 DEF Pending
<1> QED
  BY <1>2, <1>3, <1>4, KVBreaks DEF KVStep

LEMMA CrashMaps ==
  ASSUME RecoveryInv, RecoveryInv', Settled, Next, Crash
  PROVE  KVStep
<1>1. /\ proc # "down" /\ proc' = "down" /\ stage' = "idle" /\ meta_files' = {}
      /\ stable' = CURRENT' /\ CURRENT' \in {CURRENT, stable}
  BY DEF Crash, NoWriter
<1>2. View(meta_files)' = Empty /\ Pending' = Empty /\ Phase' = "closed"
  BY <1>1, EmptyView DEF Pending, Writing, Phase
<1>3. CASE proc = "open"
  <2>1. Phase # "closed"
    BY <1>3 DEF Phase
  <2>2. CASE stable' = stable
    BY <1>2, <2>1, <2>2, DurableKept, KVCrashes DEF KVStep
  <2>3. CASE stable' # stable
    <3>1. PICK cur : cur = CURRENT
      OBVIOUS
    <3>2. /\ cur \in Nat /\ stable' = cur /\ CURRENT' = cur /\ CURRENT # stable
          /\ stage \in {"sync_current", "failed"}
      BY <1>1, <1>3, <2>3, <3>1 DEF RecoveryInv, Inv, Typed, Control, Settled, Stages
    <3>3. meta_files = Load(cur)
      BY <3>1, <3>2, PublishedIsLoaded DEF Settled
    <3>4. View(Load(cur))' = View(Load(cur))
      BY <3>1, <3>2, CrashLoad, LoadedView
    <3>5. Durable' = View(meta_files)
      BY <3>2, <3>3, <3>4 DEF Durable
    <3>6. Phase \in {"published", "broken"}
      BY <1>3, <3>2 DEF Phase, Writing
    <3> QED
      BY <1>2, <2>1, <3>5, <3>6, KVCrashes DEF KVStep
  <2> QED
    BY <2>2, <2>3
<1>4. CASE proc # "open"
  <2>1. meta_files = {} /\ stage = "idle" /\ stable' = stable
    BY <1>1, <1>4 DEF RecoveryInv, Recovering, Inv, Control
  <2>2. View(meta_files) = Empty /\ Pending = Empty /\ Phase = "closed"
    BY <1>4, <2>1, EmptyView DEF Pending, Writing, Phase
  <2>3. Durable' = Durable
    BY <2>1, DurableKept
  <2> QED
    BY <1>2, <2>2, <2>3, KVStutters DEF KVStep
<1> QED
  BY <1>3, <1>4

LEMMA StutterMaps ==
  ASSUME UNCHANGED vars
  PROVE  UNCHANGED KV!kvVars
<1>1. UNCHANGED <<disk, stable, meta_files, proc, stage, new_files, obsolete>>
  BY DEF vars, disk_vars, db_vars, writer_vars
<1>2. \A X : View(X)' = View(X)
  BY <1>1, ViewIs, ViewIsNext
<1>3. PICK cur, X : cur = stable /\ X = meta_files
  OBVIOUS
<1>4. \A c : Load(c)' = Load(c)
  BY <1>1, LoadSame
<1>5. Durable' = Durable
  BY <1>1, <1>2, <1>3, <1>4 DEF Durable
<1>6. \A Y, f, k : Get(Y, f, k)' = Get(Y, f, k)
  BY <1>1, GetIs, GetIsNext
<1>7. \A f, k : NewHolders(f, k)' = NewHolders(f, k)
  BY <1>1 DEF NewHolders, IsKind, Rows
<1>8. \A f, k : Pend(f, k)' = Pend(f, k)
  <2>1. \A f, k : Latest(f, k)' = Latest(f, k)
    BY <1>7 DEF Latest
  <2>2. \A s : Rows(s)' = Rows(s)
    BY <1>1 DEF Rows, IsKind
  <2>3. \A e : Resolve(e)' = Resolve(e)
    BY <1>1, ResolveIs, ResolveIsNext
  <2>4. (Reorganizing' <=> Reorganizing) /\ \A f, k : Get(meta_files, f, k)' = Get(meta_files, f, k)
    BY <1>1, <1>3, <1>6 DEF Reorganizing
  <2> QED
    BY <1>7, <2>1, <2>2, <2>3, <2>4 DEF Pend
<1>9. Pending' = Pending
  BY <1>1, <1>2, <1>3, <1>8, PendingIs, PendingIsNext DEF Pending, Writing
<1> QED
  BY <1>1, <1>2, <1>3, <1>5, <1>9, KVStutters DEF Phase, Writing

LEMMA StepMaps == RefinementInv /\ RefinementInv' /\ [Next]_vars => [KV!KVNext]_(KV!kvVars)
<1> SUFFICES ASSUME RefinementInv, RefinementInv', [Next]_vars PROVE KVStep
  BY DEF KVStep
<1>1. RecoveryInv /\ RecoveryInv' /\ Meaning /\ Settled
  BY DEF RefinementInv
<1>2. CASE Next
  BY <1>1, <1>2, OpeningMaps, BatchingMaps, CompactingMaps, CommittingMaps, FailMaps, CrashMaps DEF Next
<1>3. CASE UNCHANGED vars
  BY <1>3, StutterMaps DEF KVStep
<1> QED
  BY <1>2, <1>3

LEMMA InitMaps == Init => KV!KVInit
<1> SUFFICES ASSUME Init PROVE KV!KVInit
  OBVIOUS
<1>1. proc = "down" /\ stage = "idle" /\ meta_files = {} /\ stable \notin Nat
  BY CurrentAssumption DEF Init
<1>2. Durable = Empty /\ View(meta_files) = Empty /\ Pending = Empty /\ Phase = "closed"
  BY <1>1, EmptyView DEF Durable, Pending, Phase, Writing
<1> QED
  BY <1>2 DEF KV!KVInit, KV!EmptyStore, Empty, Phase, Pending

\* Commits are atomic, reads see the last committed state, and a crash at any step of a batch, a compaction, a commit
\* or a recovery loses and invents nothing: turbo-persistence is the store of KVStore.
THEOREM Refinement == Spec => ImplementsKVStore
<1>1. Spec => KV!KVInit /\ [][KV!KVNext]_(KV!kvVars)
  BY RefinementIsInvariant, StepMaps, InitMaps, PTL DEF Spec
<1> QED
  BY <1>1 DEF ImplementsKVStore, KV!KVSpec


\* From its last file to its publication, a writer that is not stopped does nothing but publish.
LEMMA OnlyPublish == RecoveryInv /\ stage = "publish" /\ Next /\ proc' = "open" => Publish
<1> SUFFICES ASSUME RecoveryInv, stage = "publish", Next, proc' = "open" PROVE Publish
  OBVIOUS
<1>1. ~Opening /\ ~AcquireWrite
  BY OpeningIsIdle, BeginStep
<1>2. ~Batching
  BY <1>1 DEF Batching, BeginBatch, CreateBlob, WriteSst, FinishBatch
<1>3. ~Compacting
  BY <1>1 DEF Compacting, BeginCompact, MoveSst, MergeSsts
<1>4. ~Fail /\ ~Crash
  BY DEF Fail, Crash
<1>5. Committing => Publish
  BY DEF Committing, WriteMeta, SyncFiles, WriteDel, WriteCurrent, SyncCurrent, RemoveFile, CommitDone
<1> QED
  BY <1>1, <1>2, <1>3, <1>4, <1>5 DEF Next

\* A compaction changes no read: what it publishes offers, for each key, the entry the key had, whichever SST files it
\* merged, moved and left alone.
THEOREM CompactionsKeepReads == Spec => CompactionKeepsReads
<1> DEFINE Keeps == stage = "publish" /\ proc' = "open" /\ (\E f \in Families : obsolete[f] # {})
                      => View(meta_files') = View(meta_files)
<1>1. RefinementInv /\ RefinementInv' /\ Next => Keeps
  <2> SUFFICES ASSUME RecoveryInv, RecoveryInv', Meaning, Next, stage = "publish", proc' = "open", Reorganizing
               PROVE  View(meta_files') = View(meta_files)
    BY DEF RefinementInv, Reorganizing
  <2>1. Publish
    BY OnlyPublish
  <2>2. PICK X, Y : X = meta_files' /\ Y = meta_files
    OBVIOUS
  <2>3. \A f \in Families, k \in Keys : GetIn(disk, X, f, k) = GetIn(disk, Y, f, k)
    BY <2>1, <2>2, CompactionPublishes
  <2>4. ViewIn(disk, X) = ViewIn(disk, Y)
    BY <2>3 DEF ViewIn
  <2> QED
    BY <2>2, <2>4, ViewIs
<1>2. RefinementInv /\ RefinementInv' /\ [Next]_vars => [Keeps]_vars
  BY <1>1
<1> HIDE DEF Keeps
<1>3. Spec => [][Keeps]_vars
  BY <1>2, RefinementIsInvariant, PTL DEF Spec
<1> QED
  BY <1>3 DEF CompactionKeepsReads, Keeps

=============================================================================

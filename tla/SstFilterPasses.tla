-------------------------- MODULE SstFilterPasses --------------------------
(***************************************************************************)
(* The two passes of turbo-persistence's SstFilter as sst_filter.rs makes  *)
(* them, over long sequences of commits. Only what decides the fate of     *)
(* meta files is kept of the database: a batch adds SST files, a           *)
(* compaction merges some and moves others, and every commit filters the   *)
(* meta files of Inner and drops those it can. The promise is that         *)
(* reloading the meta files that are left always finds each SST file that  *)
(* was not merged away, once, and no other -- although a reload filters    *)
(* from nothing and the running database filtered commit by commit.        *)
(***************************************************************************)
EXTENDS Naturals, FiniteSets, Sequences

Spec0 == INSTANCE SstFilter

CONSTANTS MaxSeq,   \* bound on sequence numbers
          MaxBatch, \* bound on the SST files of one batch
          MaxLive   \* bound on the SST files on offer

ASSUME BoundsAssumption == {MaxSeq, MaxBatch, MaxLive} \subseteq Nat

VARIABLES meta_files, \* Inner::meta_files, oldest first
          seq,        \* Inner::current_sequence_number
          alive       \* the SST files written and not merged away

vars == <<meta_files, seq, alive>>

Nothing == [x \in {} |-> x]

\* entries and obsolete_entries of a MetaFile; its obsolete_sst_files.
NewMeta(number, listed, obsoleted) ==
  [seq |-> number, entries |-> listed, obsolete_entries |-> {}, obsolete |-> obsoleted]

Used(state, touched) ==
  [s \in DOMAIN state |-> IF s \in touched /\ state[s] = "UnusedObsolete" THEN "Obsolete" ELSE state[s]]
Insert(state, ssts, value) ==
  [s \in DOMAIN state \cup ssts |-> IF s \in DOMAIN state THEN state[s] ELSE value]

\* Mutant: entries filtered out earlier are forgotten.
ApplyFilterForgets(meta, acc) ==
  LET drop == meta.entries \cap DOMAIN acc.state
      offered == Insert(Used(acc.state, meta.entries), meta.entries, "Active")
  IN [state |-> Insert(offered, meta.obsolete, "UnusedObsolete"),
      metas |-> <<[meta EXCEPT !.entries = @ \ drop, !.obsolete_entries = @ \cup drop]>> \o acc.metas]

\* Mutant: an entry goes only when a newer meta file offers the same SST file.
ApplyFilterOffersObsolete(meta, acc) ==
  LET drop == {s \in meta.entries \cap DOMAIN acc.state : acc.state[s] = "Active"}
      offered == Insert(Used(acc.state, meta.entries \cup meta.obsolete_entries), meta.entries, "Active")
  IN [state |-> Insert(offered, meta.obsolete, "UnusedObsolete"),
      metas |-> <<[meta EXCEPT !.entries = @ \ drop, !.obsolete_entries = @ \cup drop]>> \o acc.metas]

\* apply_filter: the states of the SST files of one meta file, and what the meta file keeps.
ApplyFilter(meta, acc) ==
  LET seen == Used(acc.state, meta.obsolete_entries)
      drop == meta.entries \cap DOMAIN seen
      offered == Insert(Used(seen, meta.entries), meta.entries, "Active")
  IN [state |-> Insert(offered, meta.obsolete, "UnusedObsolete"),
      metas |-> <<[meta EXCEPT !.entries = @ \ drop, !.obsolete_entries = @ \cup drop]>> \o acc.metas]

\* apply_and_get_remove: only the newest declaration of an obsolete SST file is looked at.
ApplyAndGetRemove(meta, acc) ==
  LET used == \E s \in meta.obsolete \cap DOMAIN acc.state : acc.state[s] = "Obsolete"
      remove == ~used /\ meta.entries = {}
  IN [state |-> [s \in DOMAIN acc.state \ meta.obsolete |-> acc.state[s]],
      metas |-> IF remove THEN acc.metas ELSE <<meta>> \o acc.metas]

\* for meta_file in meta_files.iter().rev()
Pass(Op(_, _), metas, state) ==
  LET from[i \in 1..(Len(metas) + 1)] ==
        IF i > Len(metas) THEN [state |-> state, metas |-> <<>>] ELSE Op(metas[i], from[i + 1])
  IN from[1]

\* load_directory filters; commit filters and then retains.
Loaded(metas) == Pass(ApplyFilter, metas, Nothing).metas
Filtered(metas) == Pass(ApplyFilter, metas, Nothing)
\* Mutant: the meta files of Inner are not filtered before the second pass.
RetainedUnfiltered(metas) ==
  Pass(ApplyAndGetRemove, metas, Filtered(metas).state).metas
Retained(metas) == LET f == Filtered(metas) IN Pass(ApplyAndGetRemove, f.metas, f.state).metas

Init == meta_files = <<>> /\ seq = 0 /\ alive = {}

\* A commit: one new meta file, and one more number when meta or SST files are deleted.
Commit(meta, obsoleted) ==
  LET metas == Retained(Append(meta_files, meta))
      deletes == obsoleted # {} \/ Len(metas) <= Len(meta_files)
  IN /\ meta_files' = metas
     /\ seq' = meta.seq + (IF deletes THEN 1 ELSE 0)

\* A batch of n SST files. An empty batch has no meta file, but it filters and retains like any commit.
Batch(n) ==
  LET ssts == (seq + 1)..(seq + n) IN
  /\ seq + n + 2 <= MaxSeq /\ Cardinality(alive) + n <= MaxLive
  /\ Commit(NewMeta(seq + n + 1, ssts, {}), {})
  /\ alive' = alive \cup ssts
EmptyBatch ==
  /\ meta_files' = Retained(meta_files)
  /\ seq < MaxSeq
  /\ seq' = seq + (IF meta_files' = meta_files THEN 0 ELSE 1)
  /\ UNCHANGED alive

\* A compaction merges some SST files into n and moves some others.
Compact(merged, moved, n) ==
  LET ssts == (seq + 1)..(seq + n) IN
  /\ seq + n + 2 <= MaxSeq
  /\ Cardinality(merged) > 1
  /\ Commit(NewMeta(seq + n + 1, ssts \cup moved, merged), merged)
  /\ alive' = (alive \ merged) \cup ssts

\* The process restarts and loads the meta files from disk, where they list all they ever did.
OnDisk(meta) == NewMeta(meta.seq, meta.entries \cup meta.obsolete_entries, meta.obsolete)
Files == [i \in DOMAIN meta_files |-> OnDisk(meta_files[i])]
Restart == meta_files' = Loaded(Files) /\ UNCHANGED <<seq, alive>>

Next ==
  \/ \E n \in 1..MaxBatch : Batch(n)
  \/ EmptyBatch
  \/ \E merged \in SUBSET alive : \E moved \in SUBSET (alive \ merged), n \in 1..2 : Compact(merged, moved, n)
  \/ Restart

Spec == Init /\ [][Next]_vars

-----------------------------------------------------------------------------

Offers(metas, ssts) ==
  /\ \A s \in ssts : Cardinality({i \in DOMAIN metas : s \in metas[i].entries}) = 1
  /\ \A i \in DOMAIN metas : metas[i].entries \subseteq ssts

\* A restart at any time offers every SST file that was not merged away, once, and no SST file that was:
\* no meta file is dropped whose obsolete list still keeps an older meta file quiet.
ReloadOffersAlive == Offers(Loaded(Files), alive)

\* The running database offers the same, in the same meta files.
RunningMatchesReload ==
  /\ Offers(meta_files, alive)
  /\ \A i \in DOMAIN meta_files : meta_files[i].entries = Loaded(Files)[i].entries

\* The passes compute what module SstFilter says.
AsRecord(meta) == [seq |-> meta.seq, ssts |-> [s \in meta.entries \cup meta.obsolete_entries |-> 0],
                   live |-> meta.entries, obsolete |-> meta.obsolete]
AsSet(metas) == {AsRecord(metas[i]) : i \in DOMAIN metas}
PassesMatchFilter ==
  \A metas \in {meta_files, Files} :
    LET filtered == Spec0!Filter(AsSet(metas)) IN
    /\ AsSet(Loaded(metas)) = filtered
    /\ AsSet(Retained(metas)) = {m \in filtered : ~Spec0!Removable(filtered, m)}

=============================================================================

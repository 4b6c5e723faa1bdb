--------------------------- MODULE MergeSegments ---------------------------
(***************************************************************************)
(* get_merge_segments of turbo-persistence (compaction/selector.rs), which *)
(* decides what a compaction merges and moves. Its loops are kept, with    *)
(* their indices; what the byte and duplication limits answer is left open *)
(* (every answer is tried), so the result holds for every CompactConfig    *)
(* and every distribution of sizes.                                        *)
(*                                                                         *)
(* Compactables are numbered from 1, oldest first.                         *)
(***************************************************************************)
EXTENDS Naturals, Sequences, FiniteSets, SequencesExt, MergePlan

CONSTANTS Hashes,          \* key hashes
          Count,           \* how many compactables there are
          MinMergeCount,   \* min_merge_count; optimal_merge_count is left open above it
          MaxMergeCount,   \* max_merge_count
          MaxSegmentCount  \* max_merge_segment_count

ASSUME HashesAssumption == Hashes \subseteq Nat
ASSUME CountsAssumption == /\ Count \in Nat /\ MaxSegmentCount \in Nat
                           /\ MinMergeCount \in Nat \ {0, 1} /\ MaxMergeCount \in Nat \ {0}

VARIABLES ranges,   \* the input: the hash range of each compactable
          unused,   \* unused_compactables is the prefix 1..unused
          used,     \* used_compactables
          segments, \* merge_segments
          real,     \* real_merge_segments
          pc,       \* "outer", "grow", "trim", "retain" or "done"
          start,    \* start_index
          range,    \* current_range
          set,      \* current_set
          below,    \* the search goes on below this index (current_skip)
          kept      \* how many segments retain has kept

vars == <<ranges, unused, used, segments, real, pc, start, range, set, below, kept>>

Ranges == {r \in Hashes \X Hashes : r[1] <= r[2]}
IsOverlapping(a, b) == a[1] <= b[2] /\ b[1] <= a[2]
LowerOf(a, b) == IF a <= b THEN a ELSE b
UpperOf(a, b) == IF a >= b THEN a ELSE b

\* extend_range
Extended(a, b) == <<LowerOf(a[1], b[1]), UpperOf(a[2], b[2])>>

Init ==
  /\ ranges \in [1..Count -> Ranges]
  /\ unused = Count
  /\ used = {}
  /\ segments = <<>>
  /\ real = 0
  /\ pc = "outer"
  /\ start = 0 /\ range = <<0, 0>> /\ set = <<>> /\ below = 0 /\ kept = 0

\* 'outer: pop the newest unused compactable; skip it if a newer set took it.
Skip ==
  /\ pc = "outer" /\ unused > 0 /\ unused \in used
  /\ unused' = unused - 1
  /\ UNCHANGED <<ranges, used, segments, real, pc, start, range, set, below, kept>>

Start ==
  /\ pc = "outer" /\ unused > 0 /\ unused \notin used
  /\ real < MaxSegmentCount
  /\ start' = unused
  /\ unused' = unused - 1
  /\ range' = ranges[unused]
  /\ set' = <<unused>>
  /\ below' = unused
  /\ pc' = "grow"
  /\ UNCHANGED <<ranges, used, segments, real, kept>>

\* Mutant: the members of a job stay on offer for older sets.
EmitShared ==
  /\ segments' = Append(segments, Reverse(set))
  /\ real' = real + 1
  /\ pc' = "outer"
  /\ UNCHANGED <<ranges, unused, used, start, range, set, below, kept>>

\* A merge job is emitted (oldest member first): the set is optimal, or is as large as it may get and good enough.
Emit ==
  /\ segments' = Append(segments, Reverse(set))
  /\ used' = used \cup ToSet(set)
  /\ real' = real + 1
  /\ pc' = "outer"
  /\ UNCHANGED <<ranges, unused, start, range, set, below, kept>>

Optimal == pc = "grow" /\ Len(set) >= MinMergeCount /\ Emit

\* The next compactable to look at: the newest one below the last one that overlaps the current range.
Candidates == {i \in 1..(below - 1) : i \notin used /\ IsOverlapping(range, ranges[i])}
Next_index == CHOOSE i \in Candidates : \A j \in Candidates : j <= i

\* end_job: the count limit, the size limit (left open), or no candidate. A set that is too small or too
\* little duplicated leaves its first compactable as a segment of its own.
EndJob ==
  /\ pc = "grow"
  /\ \/ Len(set) >= MinMergeCount /\ Emit
     \/ /\ segments' = Append(segments, <<start>>)
        /\ pc' = "outer"
        /\ UNCHANGED <<ranges, unused, used, real, start, range, set, below, kept>>

\* Mutant: the search goes on from where it was.
ExtendOnward ==
  /\ pc = "grow" /\ Len(set) < MaxMergeCount /\ Candidates # {}
  /\ Extended(range, ranges[Next_index]) # range
  /\ range' = Extended(range, ranges[Next_index])
  /\ set' = Append(set, Next_index)
  /\ below' = Next_index
  /\ UNCHANGED <<ranges, unused, used, segments, real, pc, start, kept>>

\* Mutant: the range is not extended.
ExtendNothing ==
  /\ pc = "grow" /\ Len(set) < MaxMergeCount /\ Candidates # {}
  /\ Extended(range, ranges[Next_index]) # range
  /\ set' = <<start>>
  /\ below' = unused + 1
  /\ UNCHANGED <<ranges, range, unused, used, segments, real, pc, start, kept>>

\* The candidate sticks out of the current range: restart the search with the larger range, as it may now
\* overlap compactables that were passed over.
Extend ==
  /\ pc = "grow" /\ Len(set) < MaxMergeCount /\ Candidates # {}
  /\ Extended(range, ranges[Next_index]) # range
  /\ range' = Extended(range, ranges[Next_index])
  /\ set' = <<start>>
  /\ below' = unused + 1
  /\ UNCHANGED <<ranges, unused, used, segments, real, pc, start, kept>>

Grow ==
  /\ pc = "grow" /\ Len(set) < MaxMergeCount /\ Candidates # {}
  /\ Extended(range, ranges[Next_index]) = range
  /\ set' = Append(set, Next_index)
  /\ below' = Next_index
  /\ UNCHANGED <<ranges, unused, used, segments, real, pc, start, range, kept>>

\* The loops are over: all compactables have been looked at, or there are as many jobs as there may be.
Stop ==
  /\ pc = "outer"
  /\ unused = 0 \/ (unused \notin used /\ real >= MaxSegmentCount)
  /\ pc' = "trim"
  /\ UNCHANGED <<ranges, unused, used, segments, real, start, range, set, below, kept>>

\* The oldest segments go while they are single compactables.
LastIsAlone == segments # <<>> /\ Len(Last(segments)) = 1
Trim ==
  /\ pc = "trim" /\ LastIsAlone
  /\ segments' = Front(segments)
  /\ UNCHANGED <<ranges, unused, used, real, pc, start, range, set, below, kept>>

\* The rest is put in order, oldest first.
TurnRound ==
  /\ pc = "trim" /\ ~LastIsAlone
  /\ segments' = Reverse(segments)
  /\ pc' = "retain"
  /\ UNCHANGED <<ranges, unused, used, real, start, range, set, below, kept>>

\* retain: a single compactable stays only if it overlaps what the segments kept before it hold.
Stays(i) ==
  Len(segments[i]) = 1 =>
    \E j \in 1..(i - 1) : \E k \in ToSet(segments[j]) : IsOverlapping(ranges[segments[i][1]], ranges[k])
Retain ==
  /\ pc = "retain" /\ kept < Len(segments)
  /\ Stays(kept + 1)
  /\ kept' = kept + 1
  /\ UNCHANGED <<ranges, unused, used, segments, real, pc, start, range, set, below>>
Discard ==
  /\ pc = "retain" /\ kept < Len(segments)
  /\ ~Stays(kept + 1)
  /\ segments' = RemoveAt(segments, kept + 1)
  /\ UNCHANGED <<ranges, unused, used, real, pc, start, range, set, below, kept>>

Finish ==
  /\ pc = "retain" /\ kept = Len(segments)
  /\ pc' = "done"
  /\ UNCHANGED <<ranges, unused, used, segments, real, start, range, set, below, kept>>

Next == \/ Skip \/ Start \/ Optimal \/ EndJob \/ Extend \/ Grow
        \/ Stop \/ Trim \/ TurnRound \/ Retain \/ Discard \/ Finish

Spec == Init /\ [][Next]_vars /\ WF_vars(Next)

-----------------------------------------------------------------------------

\* The job a compactable is in; 0 if it is left alone.
JobOf(i) == IF \E j \in DOMAIN segments : i \in ToSet(segments[j])
            THEN CHOOSE j \in DOMAIN segments : i \in ToSet(segments[j]) ELSE 0
Pairs == (1..Count) \X (1..Count)
OlderIndex == {p \in Pairs : p[1] < p[2]}
OverlapIndex == {p \in Pairs : IsOverlapping(ranges[p[1]], ranges[p[2]])}

\* No compactable is in two jobs, and the members of a job come oldest first, which MergeIter relies on.
SegmentsDisjoint ==
  pc = "done" =>
    /\ \A j \in DOMAIN segments : \A a, b \in DOMAIN segments[j] : a < b => segments[j][a] < segments[j][b]
    /\ \A i, j \in DOMAIN segments : i # j => ToSet(segments[i]) \cap ToSet(segments[j]) = {}

\* The segments are a legal plan: merging and moving by them never lets an older entry hide a newer one.
SegmentsLegal ==
  pc = "done" => LegalPlan([i \in 1..Count |-> JobOf(i)], 1..Count, OlderIndex, OverlapIndex)

\* The restarts of the search come to an end.
Terminates == <>(pc = "done")

=============================================================================

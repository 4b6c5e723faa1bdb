----------------------------- MODULE MergePlan -----------------------------
(***************************************************************************)
(* What compaction may do with the SST files of a family, whatever the     *)
(* size and duplication limits say. A plan gives each SST file the number  *)
(* of its job, or 0 to leave it alone. The new meta file lists the outputs *)
(* job by job and is read before everything left alone, so a job must not  *)
(* lift an SST file above a newer one with keys of the same range.         *)
(* TurboPersistence compacts by such plans; MergeSegments shows that       *)
(* get_merge_segments only makes such plans.                               *)
(***************************************************************************)
EXTENDS Naturals

\* Mutant: jobs may come in any order.
LegalPlanUnordered(plan, ssts, older, overlapping) ==
  LET job(j) == {s \in ssts : plan[s] = j} IN
  \A s \in ssts : plan[s] > 0 =>
     /\ plan[s] > 1 => job(plan[s] - 1) # {}
     /\ job(plan[s]) = {s} => \E t \in ssts : 0 < plan[t] /\ plan[t] < plan[s] /\ <<s, t>> \in overlapping

\* older and overlapping are sets of pairs of SST files. No SST file lies in a later job than a newer one it
\* overlaps; the jobs are numbered without gaps; a job of one SST file only moves it above an earlier job that
\* it overlaps, so the first job merges.
LegalPlan(plan, ssts, older, overlapping) ==
  LET job(j) == {s \in ssts : plan[s] = j} IN
  /\ \A s, t \in ssts : plan[s] > plan[t] => <<s, t>> \notin older \cap overlapping
  /\ \A s \in ssts : plan[s] > 0 =>
       /\ plan[s] > 1 => job(plan[s] - 1) # {}
       /\ job(plan[s]) = {s} => \E t \in ssts : 0 < plan[t] /\ plan[t] < plan[s] /\ <<s, t>> \in overlapping

=============================================================================

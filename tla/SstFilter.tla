----------------------------- MODULE SstFilter -----------------------------
(***************************************************************************)
(* turbopack/crates/turbo-persistence/src/sst_filter.rs, as what it        *)
(* computes: which entries of a set of open meta files are still on offer  *)
(* and which meta files can go. The code computes it with one mutable map  *)
(* in passes from the newest meta file to the oldest; SstFilterPasses      *)
(* checks that the two agree.                                              *)
(*                                                                         *)
(* An open meta file is a record with its number seq, the function ssts    *)
(* whose domain is the SST files it lists, the set live of those it still  *)
(* offers, and the set obsolete of SST files it declares merged away.      *)
(***************************************************************************)
EXTENDS Naturals

\* Mutant: obsolete lists are ignored.
FilterIgnoresObsolete(metas) ==
  {[m EXCEPT !.live = {s \in m.live : \A n \in all : n.seq > m.seq => s \notin n.live}] :
     m \in metas, all \in {metas}}

\* Phase 1 (apply_filter): an entry goes when a newer meta file offers the same SST file or declares it
\* obsolete.
Filter(metas) ==
  {[m EXCEPT !.live = {s \in m.live : \A n \in all : n.seq > m.seq => s \notin n.live \cup n.obsolete}]
     : m \in metas, all \in {metas}}

\* m's declaration that s is obsolete is the newest one, nothing as new offers s, and an older meta file
\* still lists s: without m a reload would bring s back.
Needed(metas, m, s) ==
  /\ \A n \in metas : n.seq > m.seq => s \notin n.obsolete
  /\ \A n \in metas : n.seq >= m.seq => s \notin n.live
  /\ \E h \in metas : h.seq < m.seq /\ s \in DOMAIN h.ssts

\* Phase 2 (apply_and_get_remove), on filtered meta files.
Removable(metas, m) == m.live = {} /\ \A s \in m.obsolete : ~Needed(metas, m, s)

=============================================================================

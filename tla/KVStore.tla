------------------------------ MODULE KVStore ------------------------------
(***************************************************************************)
(* What a persistent key-value store with a single writer promises, as     *)
(* turbopack/crates/turbo-persistence documents it: reads see the last     *)
(* committed state, a write operation becomes durable in one step, and a   *)
(* crash leaves the committed state or, if the crash falls inside the      *)
(* commit, the state being committed -- never a mixture and never less.    *)
(* TurboPersistence is shown to implement this module.                     *)
(***************************************************************************)
CONSTANTS Families,   \* key families ("column families") of the store
          Keys,       \* the keys
          Values,     \* the values
          Absent      \* what a read of a missing or deleted key returns

VARIABLES stage,      \* "closed", "idle", "writing", "sealed", "published" or "broken"
          durable,    \* what the store holds if it is reopened now
          visible,    \* what a read returns now
          pending     \* what the write operation in progress will make visible

kvVars == <<stage, durable, visible, pending>>

Store == [Families -> [Keys -> Values \cup {Absent}]]
EmptyStore == [f \in Families |-> [k \in Keys |-> Absent]]

KVInit ==
  /\ stage = "closed"
  /\ durable = EmptyStore
  /\ visible = EmptyStore
  /\ pending = EmptyStore

\* Opening the store: reads see what is durable.
Open ==
  /\ stage = "closed" /\ stage' = "idle"
  /\ UNCHANGED durable
  /\ visible' = durable
  /\ pending' = durable

\* A write batch begins; only one write operation may be in progress.
Begin ==
  /\ stage = "idle" /\ stage' = "writing"
  /\ UNCHANGED <<durable, visible, pending>>

\* The batch records changes to one family, which nobody can read yet.
Write(f) ==
  /\ stage = "writing" /\ stage' = "writing"
  /\ UNCHANGED <<durable, visible>>
  /\ pending' \in {[pending EXCEPT ![f] = content] : content \in [Keys -> Values \cup {Absent}]}

\* The batch takes no more changes.
Seal ==
  /\ stage = "writing" /\ stage' = "sealed"
  /\ UNCHANGED <<durable, visible, pending>>

\* A reorganisation of the store (a compaction) changes nothing a reader could tell.
Reorganize ==
  /\ stage = "idle" /\ stage' = "sealed"
  /\ UNCHANGED <<durable, visible, pending>>

\* All changes become visible in one step ...
Publish ==
  /\ stage = "sealed" /\ stage' = "published"
  /\ UNCHANGED <<durable, pending>>
  /\ visible' = pending

\* ... then durable in one step ...
Persist ==
  /\ stage = "published" /\ stage' = "published"
  /\ durable # visible
  /\ durable' = visible
  /\ UNCHANGED <<visible, pending>>

\* ... and the caller is told only of what is durable.
Acknowledge ==
  /\ stage = "published" /\ stage' = "idle"
  /\ durable = visible
  /\ UNCHANGED <<durable, visible, pending>>

\* An I/O error ends the write operation; the store takes no other one.
Break ==
  /\ stage \in {"writing", "sealed", "published"} /\ stage' = "broken"
  /\ UNCHANGED <<durable, visible>>
  /\ pending' = visible

\* The process ends. A commit in progress may or may not have become durable.
Crash ==
  /\ stage # "closed" /\ stage' = "closed"
  /\ durable' \in {durable} \cup (IF stage \in {"published", "broken"} THEN {visible} ELSE {})
  /\ visible' = EmptyStore
  /\ pending' = EmptyStore

KVNext ==
  \/ Open \/ Begin \/ Seal \/ Reorganize \/ Publish \/ Persist \/ Acknowledge \/ Break \/ Crash
  \/ \E f \in Families : Write(f)

KVSpec == KVInit /\ [][KVNext]_kvVars

=============================================================================

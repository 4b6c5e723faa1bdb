----------------------------- MODULE TaskStorage -----------------------------
(***************************************************************************)
(* turbo-tasks-backend/src/backend/storage.rs: the tasks in memory and     *)
(* what a snapshot persists of them. Operations go on while a snapshot is  *)
(* written: what they change then is copied first when the snapshot needs  *)
(* it. Two maps are shared, each with its own locks: map has the tasks     *)
(* with their flags, modified says how a task takes part in a snapshot.    *)
(*                                                                         *)
(* An operation changes one category of a task under the task's guard; it  *)
(* reads snapshot_mode and enters what follows in a later step. Content is *)
(* a version that every change increments. Whether save_snapshot then      *)
(* succeeds does not matter to the storage: saved is what it was given.    *)
(***************************************************************************)
EXTENDS Naturals

CONSTANTS Tasks, Categories, \* the categories: meta and data
          MaxVersion,        \* bound on the changes of a category
          NoGuard

ASSUME VersionAssumption == MaxVersion \in Nat

VARIABLES content,      \* the version of each category of a task
          modifiedBits, \* the categories with the bit meta_modified, data_modified
          snapshotBits, \* those with the bit meta_snapshot, data_snapshot
          modified,     \* the entry: "absent", "modified", or Snapshot: "some" or "none"
          copy,         \* the InnerStorageSnapshot of an entry "some": its modified categories
          snapshot_mode,
          guard,        \* who holds a task, for which category, and the snapshot_mode it read
          phase,        \* what the snapshot does
          todo,         \* the tasks it does this for
          listed,       \* SnapshotShard::modified
          saved,        \* the versions that were given to save_snapshot
          cut           \* the versions when snapshot mode was entered

flags == <<modifiedBits, snapshotBits>>
entries == <<modified, copy>>
storage == <<content, flags, entries, snapshot_mode, guard, phase, todo, listed, saved, cut>>

Versions == [Tasks -> [Categories -> 0..MaxVersion]]
NoCopy == [c \in {} |-> 0]

StorageTypeOK(Holders) ==
  /\ content \in Versions /\ saved \in Versions /\ cut \in Versions
  /\ modifiedBits \in [Tasks -> SUBSET Categories] /\ snapshotBits \in [Tasks -> SUBSET Categories]
  /\ modified \in [Tasks -> {"absent", "modified", "some", "none"}]
  /\ DOMAIN copy = Tasks
  /\ \A t \in Tasks : /\ \A c \in DOMAIN copy[t] : c \in Categories /\ copy[t][c] \in 0..MaxVersion
                      /\ modified[t] # "some" => DOMAIN copy[t] = {}
  /\ guard \in [Tasks -> [holder : Holders, category : Categories, mode : BOOLEAN] \cup {NoGuard}]
  /\ snapshot_mode \in BOOLEAN
  /\ phase \in {"off", "take", "clear", "turn", "flags"}
  /\ todo \in SUBSET Tasks /\ listed \in SUBSET Tasks

StorageInit ==
  /\ content = [t \in Tasks |-> [c \in Categories |-> 0]] /\ saved = content /\ cut = content
  /\ modifiedBits = [t \in Tasks |-> {}] /\ snapshotBits = [t \in Tasks |-> {}]
  /\ modified = [t \in Tasks |-> "absent"] /\ copy = [t \in Tasks |-> NoCopy]
  /\ snapshot_mode = FALSE
  /\ guard = [t \in Tasks |-> NoGuard]
  /\ phase = "off" /\ todo = {} /\ listed = {}

-----------------------------------------------------------------------------
(* Changes *)

\* access_mut, and track_modification as far as its reading of snapshot_mode.
Access(o, t, c) ==
  /\ guard[t] = NoGuard
  /\ content[t][c] < MaxVersion
  /\ guard' = [guard EXCEPT ![t] = [holder |-> o, category |-> c, mode |-> snapshot_mode]]
  /\ UNCHANGED <<content, flags, entries, snapshot_mode, phase, todo, listed, saved, cut>>

\* Mutant: what the snapshot still has to read is not copied.
TrackModificationNoCopy(t, c, mode) ==
  /\ modified' = [modified EXCEPT ![t] = IF @ = "absent" THEN "modified" ELSE @]
  /\ modifiedBits' = [modifiedBits EXCEPT ![t] = @ \cup {c}]
  /\ UNCHANGED <<copy, snapshotBits>>

\* In snapshot mode the first change of a task replaces its entry, by a copy if the category that changes
\* was modified before.
TrackModification(t, c, mode) ==
  \/ c \in snapshotBits[t] /\ UNCHANGED <<flags, entries>>
  \/ /\ c \notin snapshotBits[t] /\ ~mode
     /\ modifiedBits' = [modifiedBits EXCEPT ![t] = @ \cup {c}]
     /\ modified' = [modified EXCEPT ![t] = IF snapshotBits[t] \cup modifiedBits[t] = {} THEN "modified" ELSE @]
     /\ copy' = [copy EXCEPT ![t] = IF snapshotBits[t] \cup modifiedBits[t] = {} THEN NoCopy ELSE @]
     /\ UNCHANGED snapshotBits
  \/ /\ c \notin snapshotBits[t] /\ mode
     /\ snapshotBits' = [snapshotBits EXCEPT ![t] = @ \cup {c}]
     /\ IF snapshotBits[t] # {} THEN UNCHANGED entries
        ELSE LET before == IF c \in modifiedBits[t] THEN "some" ELSE "none" IN
             /\ modified' = [modified EXCEPT ![t] = before]
             /\ copy' = [copy EXCEPT ![t] =
                  IF before = "some" THEN [d \in modifiedBits[t] |-> content[t][d]] ELSE NoCopy]
     /\ UNCHANGED modifiedBits

\* The rest of track_modification, the change itself, and the guard is dropped.
Change(t) ==
  /\ guard[t] # NoGuard
  /\ TrackModification(t, guard[t].category, guard[t].mode)
  /\ content' = [content EXCEPT ![t][guard[t].category] = @ + 1]
  /\ guard' = [guard EXCEPT ![t] = NoGuard]
  /\ UNCHANGED <<snapshot_mode, phase, todo, listed, saved, cut>>

-----------------------------------------------------------------------------
(* A snapshot *)

StartSnapshot ==
  /\ phase = "off" /\ phase' = "take"
  /\ snapshot_mode' = TRUE
  /\ cut' = content
  /\ todo' = Tasks
  /\ UNCHANGED <<content, flags, entries, guard, listed, saved>>

\* What process or process_snapshot makes of a task becomes part of the snapshot.
Save(t, versions) ==
  saved' = [saved EXCEPT ![t] = [c \in Categories |-> IF c \in DOMAIN versions THEN versions[c] ELSE @[c]]]

TakeCopy(t) ==
  /\ Save(t, copy[t])
  /\ modified' = [modified EXCEPT ![t] = IF @ = "some" THEN "none" ELSE @]
  /\ copy' = [copy EXCEPT ![t] = NoCopy]

\* take_snapshot looks at the entry of a task.
Take(t) ==
  /\ phase = "take" /\ t \in todo
  /\ todo' = todo \ {t}
  /\ listed' = IF modified[t] = "modified" THEN listed \cup {t} ELSE listed
  /\ TakeCopy(t)
  /\ UNCHANGED <<content, flags, snapshot_mode, guard, phase, cut>>

\* SnapshotShard::next, when all entries have been looked at: the content of a task that has not been
\* changed since, else the copy.
Visit(t) ==
  /\ phase = "take" /\ todo = {} /\ t \in listed /\ guard[t] = NoGuard
  /\ listed' = listed \ {t}
  /\ IF snapshotBits[t] = {} THEN Save(t, content[t]) /\ UNCHANGED entries ELSE TakeCopy(t)
  /\ UNCHANGED <<content, flags, snapshot_mode, guard, phase, todo, cut>>

\* end_snapshot: the entries of tasks that have not been changed are removed,
EndSnapshot ==
  /\ phase = "take" /\ todo = {} /\ listed = {}
  /\ phase' = "clear"
  /\ todo' = {t \in Tasks : modified[t] = "modified"}
  /\ modified' = [t \in Tasks |-> IF modified[t] = "modified" THEN "absent" ELSE modified[t]]
  /\ UNCHANGED <<content, flags, copy, snapshot_mode, guard, listed, saved, cut>>

\* Mutant: all the flags of a task are cleared.
ClearBitsAll(t) ==
  /\ phase = "clear" /\ t \in todo /\ guard[t] = NoGuard
  /\ todo' = todo \ {t}
  /\ modifiedBits' = [modifiedBits EXCEPT ![t] = {}]
  /\ snapshotBits' = [snapshotBits EXCEPT ![t] = {}]
  /\ UNCHANGED <<content, entries, snapshot_mode, guard, phase, listed, saved, cut>>

\* then their bits are cleared,
ClearBits(t) ==
  /\ phase = "clear" /\ t \in todo /\ guard[t] = NoGuard
  /\ todo' = todo \ {t}
  /\ modifiedBits' = [modifiedBits EXCEPT ![t] = {}]
  /\ UNCHANGED <<content, snapshotBits, entries, snapshot_mode, guard, phase, listed, saved, cut>>

LeaveSnapshotMode ==
  /\ phase = "clear" /\ todo = {}
  /\ phase' = "turn"
  /\ snapshot_mode' = FALSE
  /\ UNCHANGED <<content, flags, entries, guard, todo, listed, saved, cut>>

\* Mutant: entries without a copy are left as they are.
TurnSnapshotsSome ==
  /\ phase = "turn" /\ phase' = "flags"
  /\ todo' = {t \in Tasks : modified[t] \in {"some", "none"}}
  /\ modified' = [t \in Tasks |-> IF modified[t] = "some" THEN "modified" ELSE modified[t]]
  /\ copy' = [t \in Tasks |-> NoCopy]
  /\ UNCHANGED <<content, flags, snapshot_mode, guard, listed, saved, cut>>

\* every other task was changed during snapshot mode: it is modified for the next snapshot,
TurnSnapshots ==
  /\ phase = "turn" /\ phase' = "flags"
  /\ todo' = {t \in Tasks : modified[t] \in {"some", "none"}}
  /\ modified' = [t \in Tasks |-> IF t \in todo' THEN "modified" ELSE modified[t]]
  /\ copy' = [t \in Tasks |-> NoCopy]
  /\ UNCHANGED <<content, flags, snapshot_mode, guard, listed, saved, cut>>

\* Mutant: the snapshot bits stay.
TurnBitsKeep(t) ==
  /\ phase = "flags" /\ t \in todo /\ guard[t] = NoGuard
  /\ todo' = todo \ {t}
  /\ modifiedBits' = [modifiedBits EXCEPT ![t] = @ \cup snapshotBits[t]]
  /\ UNCHANGED <<content, snapshotBits, entries, snapshot_mode, guard, phase, listed, saved, cut>>

\* and so are its bits.
TurnBits(t) ==
  /\ phase = "flags" /\ t \in todo /\ guard[t] = NoGuard
  /\ todo' = todo \ {t}
  /\ modifiedBits' = [modifiedBits EXCEPT ![t] = @ \cup snapshotBits[t]]
  /\ snapshotBits' = [snapshotBits EXCEPT ![t] = {}]
  /\ UNCHANGED <<content, entries, snapshot_mode, guard, phase, listed, saved, cut>>

SnapshotEnds ==
  /\ phase = "flags" /\ todo = {}
  /\ phase' = "off"
  /\ UNCHANGED <<content, flags, entries, snapshot_mode, guard, todo, listed, saved, cut>>

-----------------------------------------------------------------------------
(* Properties *)

\* A change that no snapshot was given yet is marked, at its task and in the map that snapshots start from:
\* it is not forgotten, whatever the snapshot does to the marks at the same time.
ChangesTracked ==
  \A t \in Tasks : \A c \in Categories :
    content[t][c] # saved[t][c] => c \in modifiedBits[t] \cup snapshotBits[t] /\ modified[t] # "absent"

\* A listed task with a snapshot bit has a snapshot ("unreachable!" in SnapshotShard::next).
SnapshotBitsMeanSnapshot ==
  \A t \in listed : guard[t] = NoGuard /\ snapshotBits[t] # {} => modified[t] \in {"some", "none"}

\* What take_snapshot says: it processes every item that was modified when snapshot mode was entered.
EveryModifiedItemSaved ==
  phase = "clear" => \A t \in Tasks : \A c \in Categories : saved[t][c] >= cut[t][c]
=============================================================================

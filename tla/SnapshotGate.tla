---------------------------- MODULE SnapshotGate ----------------------------
(***************************************************************************)
(* turbo-tasks-backend/src/backend/mod.rs: how a snapshot stops the        *)
(* operations. A snapshot requests that operations pause and waits until   *)
(* none is in progress; an operation that starts meanwhile is held back,   *)
(* one that reaches a suspend point suspends itself, the others end. The   *)
(* operations that are suspended are saved with the snapshot, so that a    *)
(* restart can continue them.                                              *)
(*                                                                         *)
(* in_progress_operations is counted without the mutex of snapshot_request *)
(* and under it. Whoever takes the mutex keeps it for one step of the      *)
(* model, except the snapshot, which evaluates the condition it waits for  *)
(* and is parked in separate steps. SNAPSHOT_REQUESTED_BIT and             *)
(* snapshot_requested change together under the mutex: both are requested. *)
(***************************************************************************)
CONSTANT Operations

VARIABLES op,                     \* what an operation does
          in_progress_operations, \* the operations that the counter counts
          requested,              \* snapshot_requested
          suspended_operations,   \* those of snapshot_request
          snapshot,               \* where snapshot_and_persist is
          saved_operations        \* its local suspended_operations

gate == <<op, in_progress_operations, requested, suspended_operations, snapshot, saved_operations>>

GateTypeOK ==
  /\ op \in [Operations -> {"none", "starting", "held", "running", "suspended"}]
  /\ in_progress_operations = {o \in Operations : op[o] \in {"starting", "running"}}
  /\ requested \in BOOLEAN
  /\ suspended_operations \in SUBSET Operations /\ saved_operations \in SUBSET Operations
  /\ snapshot \in {"idle", "checking", "parking", "parked", "woken", "cut", "saving"}

GateInit ==
  /\ op = [o \in Operations |-> "none"]
  /\ in_progress_operations = {} /\ suspended_operations = {} /\ saved_operations = {}
  /\ requested = FALSE
  /\ snapshot = "idle"

MutexFree == snapshot \notin {"checking", "parking"}

\* fetch_sub, and operations_suspended.notify_all if it was the last one. Only who is parked is woken.
Leave(o) ==
  /\ in_progress_operations' = in_progress_operations \ {o}
  /\ snapshot' = IF snapshot = "parked" /\ in_progress_operations = {o} THEN "woken" ELSE snapshot

-----------------------------------------------------------------------------
(* Operations *)

StartOperation(o) ==
  /\ op[o] = "none"
  /\ in_progress_operations' = in_progress_operations \cup {o}
  /\ op' = [op EXCEPT ![o] = IF requested THEN "starting" ELSE "running"]
  /\ UNCHANGED <<requested, suspended_operations, snapshot, saved_operations>>

\* Mutant: an operation that was counted before the snapshot got the mutex goes on.
EnterOperationCounted(o) ==
  /\ op[o] = "starting" /\ MutexFree
  /\ op' = [op EXCEPT ![o] = "running"]
  /\ UNCHANGED <<in_progress_operations, requested, suspended_operations, snapshot, saved_operations>>

\* start_operation saw the bit and has taken the mutex.
EnterOperation(o) ==
  /\ op[o] = "starting" /\ MutexFree
  /\ IF requested THEN Leave(o) /\ op' = [op EXCEPT ![o] = "held"]
                  ELSE op' = [op EXCEPT ![o] = "running"] /\ UNCHANGED <<in_progress_operations, snapshot>>
  /\ UNCHANGED <<requested, suspended_operations, saved_operations>>

\* A suspend point that sees the bit. (One that does not see it yet changes nothing.)
Suspend(o) ==
  /\ op[o] = "running" /\ requested /\ MutexFree
  /\ suspended_operations' = suspended_operations \cup {o}
  /\ Leave(o)
  /\ op' = [op EXCEPT ![o] = "suspended"]
  /\ UNCHANGED <<requested, saved_operations>>

\* snapshot_completed: who waits for it finds no request under the mutex.
Resume(o) ==
  /\ op[o] \in {"held", "suspended"} /\ ~requested /\ MutexFree
  /\ in_progress_operations' = in_progress_operations \cup {o}
  /\ suspended_operations' = suspended_operations \ {o}
  /\ op' = [op EXCEPT ![o] = "running"]
  /\ UNCHANGED <<requested, snapshot, saved_operations>>

\* The guard of the operation is dropped, without the mutex.
EndOperation(o) ==
  /\ op[o] = "running"
  /\ Leave(o)
  /\ op' = [op EXCEPT ![o] = "none"]
  /\ UNCHANGED <<requested, suspended_operations, saved_operations>>

-----------------------------------------------------------------------------
(* snapshot_and_persist *)

\* Nothing is in progress: the operations that are suspended are noted, the mutex is released.
Cut == snapshot' = "cut" /\ saved_operations' = suspended_operations

RequestSnapshot ==
  /\ snapshot = "idle"
  /\ requested' = TRUE
  /\ IF in_progress_operations = {} THEN Cut ELSE snapshot' = "checking" /\ UNCHANGED saved_operations
  /\ UNCHANGED <<op, in_progress_operations, suspended_operations>>

\* wait_while evaluates its condition.
CheckOperations ==
  /\ snapshot = "checking"
  /\ IF in_progress_operations = {} THEN Cut ELSE snapshot' = "parking" /\ UNCHANGED saved_operations
  /\ UNCHANGED <<op, in_progress_operations, requested, suspended_operations>>

Park ==
  /\ snapshot = "parking" /\ snapshot' = "parked"
  /\ UNCHANGED <<op, in_progress_operations, requested, suspended_operations, saved_operations>>

Wake ==
  /\ snapshot = "woken" /\ snapshot' = "checking"
  /\ UNCHANGED <<op, in_progress_operations, requested, suspended_operations, saved_operations>>

CompleteSnapshot ==
  /\ snapshot = "cut" /\ snapshot' = "saving"
  /\ requested' = FALSE
  /\ UNCHANGED <<op, in_progress_operations, suspended_operations, saved_operations>>

\* save_snapshot has returned.
PersistEnds ==
  /\ snapshot = "saving" /\ snapshot' = "idle"
  /\ UNCHANGED <<op, in_progress_operations, requested, suspended_operations, saved_operations>>

-----------------------------------------------------------------------------
(* Properties *)

\* While the snapshot is cut no operation is in the middle of its changes, except where it suspended itself,
\* and those are saved with the snapshot: what is persisted can be continued after a restart.
NothingRunsAtCut ==
  snapshot = "cut" => \A o \in Operations : op[o] \in {"none", "starting", "held"} \/ o \in saved_operations

\* What operations_suspended is for (mod.rs: "triggered when in_progress_operations reaches zero while
\* snapshot is requested"): a snapshot does not sleep while nothing is in progress.
SnapshotIsWoken == snapshot = "parked" => in_progress_operations # {}
=============================================================================

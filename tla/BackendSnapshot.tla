--------------------------- MODULE BackendSnapshot ---------------------------
(***************************************************************************)
(* Operations change the TaskStorage while snapshots are taken behind the  *)
(* SnapshotGate (snapshot_and_persist). An operation makes its changes one *)
(* after the other and may be suspended between two of them.               *)
(***************************************************************************)
EXTENDS SnapshotGate, TaskStorage

ASSUME NoGuardAssumption == NoGuard \notin [holder : Operations, category : Categories, mode : BOOLEAN]

vars == <<gate, storage>>

Accessing(o) == \E t \in Tasks : guard[t] # NoGuard /\ guard[t].holder = o

Modify(o) ==
  /\ UNCHANGED gate
  /\ \E t \in Tasks : \/ op[o] = "running" /\ ~Accessing(o) /\ \E c \in Categories : Access(o, t, c)
                      \/ guard[t] # NoGuard /\ guard[t].holder = o /\ Change(t)

Operate(o) ==
  /\ ~Accessing(o)
  /\ StartOperation(o) \/ EnterOperation(o) \/ Suspend(o) \/ Resume(o) \/ EndOperation(o)
  /\ UNCHANGED storage

\* Snapshot mode is entered before the operations go on, and is left before save_snapshot returns.
Persist ==
  \/ (RequestSnapshot \/ CheckOperations \/ Park \/ Wake) /\ UNCHANGED storage
  \/ snapshot = "cut" /\ StartSnapshot /\ UNCHANGED gate
  \/ phase = "take" /\ CompleteSnapshot /\ UNCHANGED storage
  \/ /\ snapshot = "saving" /\ UNCHANGED gate
     /\ \/ \E t \in Tasks : Take(t) \/ Visit(t) \/ ClearBits(t) \/ TurnBits(t)
        \/ EndSnapshot \/ LeaveSnapshotMode \/ TurnSnapshots \/ SnapshotEnds
  \/ phase = "off" /\ PersistEnds /\ UNCHANGED storage

Init == GateInit /\ StorageInit
Next == Persist \/ \E o \in Operations : Modify(o) \/ Operate(o)

\* Snapshots are taken again and again, operations that have started go on and end.
Fairness ==
  /\ WF_vars(Persist)
  /\ \A o \in Operations :
       /\ WF_vars(Modify(o) /\ Accessing(o))
       /\ WF_vars((EnterOperation(o) \/ Resume(o)) /\ UNCHANGED storage)
       /\ WF_vars(EndOperation(o) /\ ~Accessing(o) /\ UNCHANGED storage)

Spec == Init /\ [][Next]_vars /\ Fairness

-----------------------------------------------------------------------------
(* Properties *)

\* Every variable has its type; the counter counts the operations that start or run.
TypeOK == GateTypeOK /\ StorageTypeOK(Operations)

\* What a snapshot is given of a task is the content at the moment of its cut, though the task changes while
\* the snapshot is taken: operations that go on do not leak into it.
SnapshotIsOfTheCut ==
  [][\A t \in Tasks : \A c \in Categories : saved'[t][c] # saved[t][c] => saved'[t][c] = cut[t][c]]_vars

\* Every change is given to some snapshot, unless the snapshot sleeps for ever (SnapshotIsWoken).
ChangesSaved ==
  []<>(snapshot = "idle") =>
    \A t \in Tasks : \A c \in Categories : \A v \in 1..MaxVersion : content[t][c] = v ~> saved[t][c] >= v
=============================================================================

------------------------ MODULE BackendSnapshot_proof ------------------------
(***************************************************************************)
(* Proofs about BackendSnapshot, for every set of operations, tasks and    *)
(* categories. Inv is inductive: GateInv ties the gate to the phases of    *)
(* the storage, TaskInv relates the bits, the entry, the guard and the     *)
(* copy of a task in every phase.                                          *)
(***************************************************************************)
EXTENDS BackendSnapshot, TLAPS

Guarded(t) == guard[t] # NoGuard

GateInv ==
  /\ requested <=> snapshot \notin {"idle", "saving"}
  /\ suspended_operations = {o \in Operations : op[o] = "suspended"}
  /\ snapshot = "cut" => /\ saved_operations = suspended_operations
                         /\ \A o \in Operations : op[o] # "running"
  /\ phase # "off" => snapshot \in {"cut", "saving"}
  /\ phase \notin {"off", "take"} => snapshot = "saving"
  /\ snapshot_mode <=> phase \in {"take", "clear"}
  /\ listed # {} => phase = "take"
  /\ \A t \in Tasks : Guarded(t) => op[guard[t].holder] = "running"

Turning(t) == phase = "flags" /\ t \in todo
Clearing(t) == phase = "clear" /\ t \in todo

TaskInv(t) ==
  /\ snapshotBits[t] # {} <=> modified[t] \in {"some", "none"} \/ Turning(t)
  /\ Turning(t) => modified[t] = "modified"
  /\ modifiedBits[t] # {} => modified[t] # "absent" \/ Clearing(t)
  /\ modified[t] = "some" => phase \in {"take", "clear", "turn"}
  /\ Guarded(t) => /\ content[t][guard[t].category] < MaxVersion
                   /\ snapshot_mode => guard[t].mode
                   /\ guard[t].mode /\ ~snapshot_mode => snapshotBits[t] # {} \/ modifiedBits[t] = {}
  /\ phase = "clear" /\ t \notin todo => snapshotBits[t] # {} \/ modifiedBits[t] = {}
  /\ \A c \in Categories :
       /\ content[t][c] # saved[t][c] =>
            /\ c \in modifiedBits[t] \cup snapshotBits[t] /\ modified[t] # "absent"
            /\ Clearing(t) => c \in snapshotBits[t]
            /\ phase = "take" /\ modified[t] = "modified" => t \in todo \cup listed
       /\ phase = "take" => /\ content[t][c] # cut[t][c] => c \in snapshotBits[t]
                            /\ c \in DOMAIN copy[t] => copy[t][c] = cut[t][c]

Inv == TypeOK /\ GateInv /\ \A t \in Tasks : TaskInv(t)

-----------------------------------------------------------------------------
(* A step is a step of the gate, of the storage, or none at all. *)

GateStep ==
  /\ UNCHANGED storage
  /\ \/ RequestSnapshot \/ CheckOperations \/ Park \/ Wake
     \/ phase = "take" /\ CompleteSnapshot
     \/ phase = "off" /\ PersistEnds
     \/ \E o \in Operations :
          /\ ~Accessing(o)
          /\ StartOperation(o) \/ EnterOperation(o) \/ Suspend(o) \/ Resume(o) \/ EndOperation(o)

TaskStep(t) == Take(t) \/ Visit(t) \/ ClearBits(t) \/ TurnBits(t)

StorageStep ==
  /\ UNCHANGED gate
  /\ \/ \E o \in Operations, t \in Tasks, c \in Categories : op[o] = "running" /\ Access(o, t, c)
     \/ \E t \in Tasks : Guarded(t) /\ Change(t)
     \/ snapshot = "cut" /\ StartSnapshot
     \/ /\ snapshot = "saving"
        /\ (\E t \in Tasks : TaskStep(t)) \/ EndSnapshot \/ LeaveSnapshotMode \/ TurnSnapshots \/ SnapshotEnds

LEMMA Steps == [Next]_vars => GateStep \/ StorageStep \/ UNCHANGED vars
<1> SUFFICES ASSUME Next PROVE GateStep \/ StorageStep
  OBVIOUS
<1>1. CASE Persist
  BY <1>1 DEF Persist, GateStep, StorageStep, TaskStep
<1>2. ASSUME NEW o \in Operations, Modify(o) PROVE StorageStep
  BY <1>2 DEF Modify, StorageStep, Guarded
<1>3. ASSUME NEW o \in Operations, Operate(o) PROVE GateStep
  BY <1>3 DEF Operate, GateStep
<1> QED
  BY <1>1, <1>2, <1>3 DEF Next

-----------------------------------------------------------------------------
(* The gate *)

LEMMA GateStepKeepsTypes ==
  ASSUME GateTypeOK, GateStep
  PROVE  GateTypeOK'
<1> USE DEF GateTypeOK, Cut
<1>1. CASE RequestSnapshot
  BY <1>1 DEF RequestSnapshot
<1>2. CASE CheckOperations
  BY <1>2 DEF CheckOperations
<1>3. CASE Park \/ Wake \/ CompleteSnapshot \/ PersistEnds
  BY <1>3 DEF Park, Wake, CompleteSnapshot, PersistEnds
<1>4. ASSUME NEW o \in Operations, StartOperation(o) PROVE GateTypeOK'
  BY <1>4 DEF StartOperation
<1>5. ASSUME NEW o \in Operations, EnterOperation(o) PROVE GateTypeOK'
  BY <1>5 DEF EnterOperation, Leave
<1>6. ASSUME NEW o \in Operations, Suspend(o) PROVE GateTypeOK'
  BY <1>6 DEF Suspend, Leave
<1>7. ASSUME NEW o \in Operations, Resume(o) PROVE GateTypeOK'
  BY <1>7 DEF Resume
<1>8. ASSUME NEW o \in Operations, EndOperation(o) PROVE GateTypeOK'
  BY <1>8 DEF EndOperation, Leave
<1> QED
  BY <1>1, <1>2, <1>3, <1>4, <1>5, <1>6, <1>7, <1>8 DEF GateStep

LEMMA GateStepKeepsGateInv ==
  ASSUME TypeOK, GateInv, GateStep
  PROVE  GateInv'
<1> USE DEF TypeOK, GateTypeOK, StorageTypeOK, GateInv, Cut, Guarded, storage, flags, entries
<1>0. UNCHANGED <<phase, snapshot_mode, listed, guard>>
  BY DEF GateStep
<1>1. CASE RequestSnapshot
  BY <1>0, <1>1 DEF RequestSnapshot
<1>2. CASE CheckOperations
  BY <1>0, <1>2 DEF CheckOperations
<1>3. CASE Park \/ Wake
  BY <1>0, <1>3 DEF Park, Wake
<1>4. CASE phase = "take" /\ CompleteSnapshot
  BY <1>0, <1>4 DEF CompleteSnapshot
<1>5. CASE phase = "off" /\ PersistEnds
  BY <1>0, <1>5 DEF PersistEnds
<1>6. ASSUME NEW o \in Operations, StartOperation(o) PROVE GateInv'
  BY <1>0, <1>6 DEF StartOperation
<1>7. ASSUME NEW o \in Operations, EnterOperation(o) PROVE GateInv'
  BY <1>0, <1>7 DEF EnterOperation, Leave, MutexFree
<1>8. ASSUME NEW o \in Operations, ~Accessing(o), Suspend(o) PROVE GateInv'
  BY <1>0, <1>8 DEF Suspend, Leave, MutexFree, Accessing
<1>9. ASSUME NEW o \in Operations, Resume(o) PROVE GateInv'
  BY <1>0, <1>9 DEF Resume, MutexFree
<1>10. ASSUME NEW o \in Operations, ~Accessing(o), EndOperation(o) PROVE GateInv'
  BY <1>0, <1>10 DEF EndOperation, Leave, Accessing
<1> QED
  BY <1>1, <1>2, <1>3, <1>4, <1>5, <1>6, <1>7, <1>8, <1>9, <1>10 DEF GateStep

LEMMA GateStepKeepsInv == Inv /\ GateStep => Inv'
<1> SUFFICES ASSUME Inv, GateStep PROVE Inv'
  OBVIOUS
<1>1. UNCHANGED storage
  BY DEF GateStep
<1>2. TypeOK'
  BY <1>1, GateStepKeepsTypes DEF Inv, TypeOK, StorageTypeOK, storage, flags, entries
<1>3. GateInv'
  BY GateStepKeepsGateInv DEF Inv
<1>4. ASSUME NEW t \in Tasks PROVE TaskInv(t)'
  BY <1>1 DEF Inv, TaskInv, Turning, Clearing, Guarded, storage, flags, entries
<1> QED
  BY <1>2, <1>3, <1>4 DEF Inv

-----------------------------------------------------------------------------
(* The storage *)

LEMMA AccessKeepsInv ==
  ASSUME Inv, UNCHANGED gate, NEW o \in Operations, NEW a \in Tasks, NEW d \in Categories,
         op[o] = "running", Access(o, a, d)
  PROVE  Inv'
<1> USE DEF Access, flags, entries, gate
<1>1. TypeOK'
  BY DEF Inv, TypeOK, GateTypeOK, StorageTypeOK
<1>2. GateInv'
  BY NoGuardAssumption DEF Inv, TypeOK, StorageTypeOK, GateInv, Guarded
<1>3. ASSUME NEW t \in Tasks PROVE TaskInv(t)'
  BY NoGuardAssumption DEF Inv, TypeOK, StorageTypeOK, GateInv, TaskInv, Turning, Clearing, Guarded
<1> QED
  BY <1>1, <1>2, <1>3 DEF Inv

\* What a change does to the bits and to the entry of its task.
LEMMA TrackedOthers ==
  ASSUME TypeOK, NEW a \in Tasks, NEW d \in Categories, NEW mode \in BOOLEAN, TrackModification(a, d, mode)
  PROVE  /\ modifiedBits' \in [Tasks -> SUBSET Categories] /\ snapshotBits' \in [Tasks -> SUBSET Categories]
         /\ modified' \in [Tasks -> {"absent", "modified", "some", "none"}]
         /\ DOMAIN copy' = Tasks
         /\ \A t \in Tasks \ {a} : /\ modifiedBits'[t] = modifiedBits[t] /\ snapshotBits'[t] = snapshotBits[t]
                                   /\ modified'[t] = modified[t] /\ copy'[t] = copy[t]
  BY DEF TrackModification, TypeOK, StorageTypeOK, flags, entries

LEMMA TrackedBefore ==
  ASSUME TypeOK, NEW a \in Tasks, NEW d \in Categories, NEW mode \in BOOLEAN, TrackModification(a, d, mode),
         d \in snapshotBits[a]
  PROVE  /\ modifiedBits'[a] = modifiedBits[a] /\ snapshotBits'[a] = snapshotBits[a]
         /\ modified'[a] = modified[a] /\ copy'[a] = copy[a]
  BY DEF TrackModification, flags, entries

LEMMA TrackedOutside ==
  ASSUME TypeOK, NEW a \in Tasks, NEW d \in Categories, NEW mode \in BOOLEAN, TrackModification(a, d, mode),
         d \notin snapshotBits[a], mode = FALSE
  PROVE  /\ modifiedBits'[a] = modifiedBits[a] \cup {d} /\ snapshotBits'[a] = snapshotBits[a]
         /\ IF snapshotBits[a] \cup modifiedBits[a] = {} THEN modified'[a] = "modified" /\ copy'[a] = NoCopy
            ELSE modified'[a] = modified[a] /\ copy'[a] = copy[a]
  BY DEF TrackModification, TypeOK, StorageTypeOK, flags, entries

LEMMA TrackedInside ==
  ASSUME TypeOK, NEW a \in Tasks, NEW d \in Categories, NEW mode \in BOOLEAN, TrackModification(a, d, mode),
         d \notin snapshotBits[a], mode = TRUE
  PROVE  /\ modifiedBits'[a] = modifiedBits[a] /\ snapshotBits'[a] = snapshotBits[a] \cup {d}
         /\ snapshotBits[a] # {} => modified'[a] = modified[a] /\ copy'[a] = copy[a]
         /\ snapshotBits[a] = {} /\ d \notin modifiedBits[a] => modified'[a] = "none" /\ copy'[a] = NoCopy
         /\ snapshotBits[a] = {} /\ d \in modifiedBits[a] =>
              modified'[a] = "some" /\ copy'[a] = [c \in modifiedBits[a] |-> content[a][c]]
  BY DEF TrackModification, TypeOK, StorageTypeOK, flags, entries

LEMMA ChangeKeepsInv ==
  ASSUME Inv, UNCHANGED gate, NEW a \in Tasks, Guarded(a), Change(a)
  PROVE  Inv'
<1>0. PICK d \in Categories, mode \in BOOLEAN : d = guard[a].category /\ mode = guard[a].mode
  BY DEF Inv, TypeOK, StorageTypeOK, Guarded
<1>1. /\ guard[a].holder \in Operations
      /\ content[a][d] < MaxVersion
      /\ snapshot_mode => mode = TRUE
      /\ mode = TRUE /\ ~snapshot_mode => snapshotBits[a] # {} \/ modifiedBits[a] = {}
  BY <1>0 DEF Inv, TypeOK, StorageTypeOK, TaskInv, Guarded
<1>2. TrackModification(a, d, mode)
  BY <1>0 DEF Change
<1>3. /\ content' = [content EXCEPT ![a][d] = @ + 1]
      /\ guard' = [guard EXCEPT ![a] = NoGuard]
      /\ UNCHANGED <<snapshot_mode, phase, todo, listed, saved, cut>>
  BY <1>0 DEF Change
<1>4. TypeOK'
  <2>1. content' \in Versions
    BY <1>1, <1>3, VersionAssumption DEF Inv, TypeOK, StorageTypeOK, Versions
  <2>2. guard' \in [Tasks -> [holder : Operations, category : Categories, mode : BOOLEAN] \cup {NoGuard}]
    BY <1>3 DEF Inv, TypeOK, StorageTypeOK
  <2>3. ASSUME NEW t \in Tasks
        PROVE  /\ \A c \in DOMAIN copy'[t] : c \in Categories /\ copy'[t][c] \in 0..MaxVersion
               /\ modified'[t] # "some" => DOMAIN copy'[t] = {}
    <3>1. CASE t # a
      BY <1>1, <1>2, <3>1, TrackedOthers DEF Inv, TypeOK, StorageTypeOK
    <3>2. CASE t = a
      <4>1. TypeOK
        BY DEF Inv
      <4>2. CASE d \in snapshotBits[a]
        BY <1>1, <1>2, <3>2, <4>1, <4>2, TrackedBefore DEF TypeOK, StorageTypeOK
      <4>3. CASE d \notin snapshotBits[a] /\ mode = FALSE
        <5>1. \/ modified'[a] = modified[a] /\ copy'[a] = copy[a]
              \/ copy'[a] = NoCopy
          BY <1>2, <4>1, <4>3, TrackedOutside
        <5> QED
          BY <3>2, <4>1, <5>1 DEF TypeOK, StorageTypeOK, NoCopy
      <4>4. CASE d \notin snapshotBits[a] /\ mode = TRUE
        <5>1. \/ modified'[a] = modified[a] /\ copy'[a] = copy[a]
              \/ copy'[a] = NoCopy
              \/ modified'[a] = "some" /\ copy'[a] = [c \in modifiedBits[a] |-> content[a][c]]
          BY <1>2, <4>1, <4>4, TrackedInside
        <5> QED
          BY <3>2, <4>1, <5>1 DEF TypeOK, StorageTypeOK, Versions, NoCopy
      <4> QED
        BY <4>2, <4>3, <4>4
    <3> QED
      BY <3>1, <3>2
  <2>4. StorageTypeOK(Operations)'
    BY <1>1, <1>2, <1>3, <2>1, <2>2, <2>3, TrackedOthers DEF Inv, TypeOK, StorageTypeOK
  <2> QED
    BY <2>4 DEF Inv, TypeOK, GateTypeOK, gate
<1>5. GateInv'
  BY <1>3 DEF Inv, TypeOK, StorageTypeOK, GateInv, Guarded, gate
<1>6. ASSUME NEW t \in Tasks PROVE TaskInv(t)'
  <2> DEFINE same == /\ modifiedBits'[t] = modifiedBits[t] /\ snapshotBits'[t] = snapshotBits[t]
                     /\ modified'[t] = modified[t] /\ copy'[t] = copy[t]
  <2>1. CASE t # a
    <3>1. same /\ content'[t] = content[t] /\ guard'[t] = guard[t]
      BY <1>1, <1>2, <1>3, <2>1, TrackedOthers DEF Inv, TypeOK, StorageTypeOK, Versions
    <3> QED
      BY <1>3, <3>1 DEF Inv, TaskInv, Turning, Clearing, Guarded
  <2>2. CASE t = a
    <3>1. /\ ~Guarded(t)'
          /\ content'[t][d] = content[t][d] + 1
          /\ \A c \in Categories \ {d} : content'[t][c] = content[t][c]
      BY <1>1, <1>3, <2>2 DEF Inv, TypeOK, StorageTypeOK, Versions, Guarded
    <3>2. TaskInv(t) /\ GateInv
      BY DEF Inv
    <3>3. CASE d \in snapshotBits[t]
      <4>1. same
        BY <1>1, <1>2, <2>2, <3>3, TrackedBefore DEF Inv
      <4> QED
        BY <1>3, <3>1, <3>2, <3>3, <4>1 DEF TaskInv, GateInv, Turning, Clearing
    <3>4. CASE d \notin snapshotBits[t] /\ mode = FALSE
      <4>1. /\ modifiedBits'[t] = modifiedBits[t] \cup {d} /\ snapshotBits'[t] = snapshotBits[t]
            /\ IF snapshotBits[t] \cup modifiedBits[t] = {} THEN modified'[t] = "modified"
               ELSE modified'[t] = modified[t]
            /\ phase \notin {"take", "clear"}
        BY <1>1, <1>2, <2>2, <3>2, <3>4, TrackedOutside DEF Inv, GateInv
      <4> QED
        BY <1>3, <3>1, <3>2, <3>4, <4>1 DEF TaskInv, Turning, Clearing
    <3>5. CASE d \notin snapshotBits[t] /\ mode = TRUE
      <4>0. TypeOK /\ t = a /\ d \notin snapshotBits[a] /\ mode = TRUE
        BY <2>2, <3>5 DEF Inv
      <4>1. modifiedBits'[t] = modifiedBits[t] /\ snapshotBits'[t] = snapshotBits[t] \cup {d}
        BY <1>1, <1>2, <4>0, TrackedInside
      <4>2. CASE snapshotBits[t] # {}
        <5>1. modified'[t] = modified[t] /\ copy'[t] = copy[t]
          BY <1>1, <1>2, <2>2, <3>5, <4>2, TrackedInside DEF Inv
        <5> QED
          BY <1>3, <3>1, <3>2, <3>5, <4>1, <4>2, <5>1 DEF TaskInv, Turning, Clearing
      <4>3. CASE snapshotBits[t] = {}
        <5>1. \/ d \notin modifiedBits[t] /\ modified'[t] = "none" /\ copy'[t] = NoCopy
              \/ /\ d \in modifiedBits[t]
                 /\ modified'[t] = "some" /\ copy'[t] = [c \in modifiedBits[t] |-> content[t][c]]
          BY <1>1, <1>2, <2>2, <3>5, <4>3, TrackedInside DEF Inv
        <5>2. ASSUME NEW c \in Categories, c \in DOMAIN copy'[t], phase = "take" PROVE copy'[t][c] = cut[t][c]
          <6>1. content[t][c] = cut[t][c]
            BY <3>2, <4>3, <5>2 DEF TaskInv
          <6> QED
            BY <5>1, <5>2, <6>1 DEF NoCopy
        <5>3. modified'[t] = "some" => phase \in {"take", "clear", "turn"}
          BY <1>1, <2>2, <3>2, <3>5, <4>3, <5>1 DEF GateInv
        <5>4. modifiedBits[t] # {} => modified'[t] # "absent"
          BY <5>1
        <5> QED
          BY <1>3, <3>1, <3>2, <3>5, <4>1, <4>3, <5>1, <5>2, <5>3 DEF TaskInv, Turning, Clearing
      <4> QED
        BY <4>2, <4>3
    <3> QED
      BY <3>3, <3>4, <3>5
  <2> QED
    BY <2>1, <2>2
<1> QED
  BY <1>4, <1>5, <1>6 DEF Inv

LEMMA StartSnapshotKeepsInv ==
  ASSUME Inv, UNCHANGED gate, snapshot = "cut", StartSnapshot
  PROVE  Inv'
<1> USE DEF StartSnapshot, flags, entries
<1>1. TypeOK'
  BY DEF Inv, TypeOK, GateTypeOK, StorageTypeOK, gate, Versions
<1>2. GateInv'
  BY DEF Inv, TypeOK, StorageTypeOK, GateInv, Guarded, gate
<1>3. ASSUME NEW t \in Tasks PROVE TaskInv(t)'
  BY DEF Inv, TypeOK, StorageTypeOK, GateInv, TaskInv, Turning, Clearing, Guarded, Versions
<1> QED
  BY <1>1, <1>2, <1>3 DEF Inv

LEMMA CopyTaken ==
  ASSUME TypeOK, NEW a \in Tasks, TakeCopy(a)
  PROVE  /\ saved' \in Versions
         /\ modified' \in [Tasks -> {"absent", "modified", "some", "none"}]
         /\ DOMAIN copy' = Tasks /\ DOMAIN copy'[a] = {}
         /\ \A t \in Tasks \ {a} : saved'[t] = saved[t] /\ modified'[t] = modified[t] /\ copy'[t] = copy[t]
         /\ \A c \in Categories : saved'[a][c] = IF c \in DOMAIN copy[a] THEN copy[a][c] ELSE saved[a][c]
         /\ modified'[a] = IF modified[a] = "some" THEN "none" ELSE modified[a]
  BY DEF TakeCopy, Save, NoCopy, TypeOK, StorageTypeOK, Versions

LEMMA TakeKeepsInv ==
  ASSUME Inv, UNCHANGED gate, snapshot = "saving", NEW a \in Tasks, Take(a)
  PROVE  Inv'
<1>1. TypeOK /\ TakeCopy(a)
  BY DEF Inv, Take
<1>2. TypeOK'
  BY <1>1, CopyTaken DEF Take, TypeOK, GateTypeOK, StorageTypeOK, gate, flags
<1>3. GateInv'
  BY DEF Take, Inv, TypeOK, StorageTypeOK, GateInv, Guarded, gate
<1>4. ASSUME NEW t \in Tasks PROVE TaskInv(t)'
  <2>1. CASE t # a
    BY <1>1, <2>1, CopyTaken DEF Take, Inv, TaskInv, Turning, Clearing, Guarded, flags
  <2>2. CASE t = a
    BY <1>1, <2>2, CopyTaken DEF Take, Inv, TaskInv, Turning, Clearing, Guarded, flags
  <2> QED
    BY <2>1, <2>2
<1> QED
  BY <1>2, <1>3, <1>4 DEF Inv

LEMMA VisitKeepsInv ==
  ASSUME Inv, UNCHANGED gate, snapshot = "saving", NEW a \in Tasks, Visit(a)
  PROVE  Inv'
<1>1. CASE snapshotBits[a] = {}
  <2>0. UNCHANGED entries /\ Save(a, content[a])
    BY <1>1 DEF Visit
  <2>1. saved' \in Versions /\ UNCHANGED entries
    BY <2>0 DEF Inv, Save, TypeOK, StorageTypeOK, Versions
  <2>2. \A t \in Tasks, c \in Categories : saved'[t][c] = IF t = a THEN content[t][c] ELSE saved[t][c]
    BY <1>1 DEF Inv, Visit, Save, TypeOK, StorageTypeOK, Versions
  <2>3. TypeOK'
    BY <2>1 DEF Inv, Visit, TypeOK, GateTypeOK, StorageTypeOK, gate, flags, entries
  <2>4. GateInv'
    BY DEF Inv, Visit, TypeOK, StorageTypeOK, GateInv, Guarded, gate
  <2>5. ASSUME NEW t \in Tasks PROVE TaskInv(t)'
    BY <2>1, <2>2 DEF Inv, Visit, TaskInv, Turning, Clearing, Guarded, flags, entries
  <2> QED
    BY <2>3, <2>4, <2>5 DEF Inv
<1>2. CASE snapshotBits[a] # {}
  <2>1. TypeOK /\ TakeCopy(a)
    BY <1>2 DEF Inv, Visit
  <2>2. TypeOK'
    BY <2>1, CopyTaken DEF Visit, TypeOK, GateTypeOK, StorageTypeOK, gate, flags
  <2>3. GateInv'
    BY DEF Visit, Inv, TypeOK, StorageTypeOK, GateInv, Guarded, gate
  <2>4. ASSUME NEW t \in Tasks PROVE TaskInv(t)'
    <3>1. CASE t # a
      BY <2>1, <3>1, CopyTaken DEF Visit, Inv, TaskInv, Turning, Clearing, Guarded, flags
    <3>2. CASE t = a
      BY <1>2, <2>1, <3>2, CopyTaken DEF Visit, Inv, TaskInv, Turning, Clearing, Guarded, flags
    <3> QED
      BY <3>1, <3>2
  <2> QED
    BY <2>2, <2>3, <2>4 DEF Inv
<1> QED
  BY <1>1, <1>2

LEMMA EndSnapshotKeepsInv ==
  ASSUME Inv, UNCHANGED gate, snapshot = "saving", EndSnapshot
  PROVE  Inv'
<1> USE DEF EndSnapshot, flags, entries
<1>1. TypeOK'
  BY DEF Inv, TypeOK, GateTypeOK, StorageTypeOK, gate
<1>2. GateInv'
  BY DEF Inv, TypeOK, StorageTypeOK, GateInv, Guarded, gate
<1>3. ASSUME NEW t \in Tasks PROVE TaskInv(t)'
  BY DEF Inv, TypeOK, StorageTypeOK, GateInv, TaskInv, Turning, Clearing, Guarded
<1> QED
  BY <1>1, <1>2, <1>3 DEF Inv

LEMMA ClearBitsKeepsInv ==
  ASSUME Inv, UNCHANGED gate, snapshot = "saving", NEW a \in Tasks, ClearBits(a)
  PROVE  Inv'
<1> USE DEF ClearBits, flags, entries
<1>1. TypeOK'
  BY DEF Inv, TypeOK, GateTypeOK, StorageTypeOK, gate
<1>2. GateInv'
  BY DEF Inv, TypeOK, StorageTypeOK, GateInv, Guarded, gate
<1>3. ASSUME NEW t \in Tasks PROVE TaskInv(t)'
  BY DEF Inv, TypeOK, StorageTypeOK, GateInv, TaskInv, Turning, Clearing, Guarded
<1> QED
  BY <1>1, <1>2, <1>3 DEF Inv

LEMMA LeaveSnapshotModeKeepsInv ==
  ASSUME Inv, UNCHANGED gate, snapshot = "saving", LeaveSnapshotMode
  PROVE  Inv'
<1> USE DEF LeaveSnapshotMode, flags, entries
<1>1. TypeOK'
  BY DEF Inv, TypeOK, GateTypeOK, StorageTypeOK, gate
<1>2. GateInv'
  BY DEF Inv, GateInv, Guarded, gate
<1>3. ASSUME NEW t \in Tasks PROVE TaskInv(t)'
  BY DEF Inv, TypeOK, StorageTypeOK, GateInv, TaskInv, Turning, Clearing, Guarded
<1> QED
  BY <1>1, <1>2, <1>3 DEF Inv

LEMMA TurnSnapshotsKeepsInv ==
  ASSUME Inv, UNCHANGED gate, snapshot = "saving", TurnSnapshots
  PROVE  Inv'
<1> USE DEF TurnSnapshots, flags, entries
<1>1. TypeOK'
  BY DEF Inv, TypeOK, GateTypeOK, StorageTypeOK, gate, NoCopy
<1>2. GateInv'
  BY DEF Inv, GateInv, Guarded, gate
<1>3. ASSUME NEW t \in Tasks PROVE TaskInv(t)'
  BY DEF Inv, TypeOK, StorageTypeOK, GateInv, TaskInv, Turning, Clearing, Guarded, NoCopy
<1> QED
  BY <1>1, <1>2, <1>3 DEF Inv

LEMMA TurnBitsKeepsInv ==
  ASSUME Inv, UNCHANGED gate, snapshot = "saving", NEW a \in Tasks, TurnBits(a)
  PROVE  Inv'
<1> USE DEF TurnBits, flags, entries
<1>1. TypeOK'
  BY DEF Inv, TypeOK, GateTypeOK, StorageTypeOK, gate
<1>2. GateInv'
  BY DEF Inv, GateInv, Guarded, gate
<1>3. ASSUME NEW t \in Tasks PROVE TaskInv(t)'
  BY DEF Inv, TypeOK, StorageTypeOK, GateInv, TaskInv, Turning, Clearing, Guarded
<1> QED
  BY <1>1, <1>2, <1>3 DEF Inv

LEMMA SnapshotEndsKeepsInv ==
  ASSUME Inv, UNCHANGED gate, snapshot = "saving", SnapshotEnds
  PROVE  Inv'
<1> USE DEF SnapshotEnds, flags, entries
<1>1. TypeOK'
  BY DEF Inv, TypeOK, GateTypeOK, StorageTypeOK, gate
<1>2. GateInv'
  BY DEF Inv, TypeOK, StorageTypeOK, GateInv, Guarded, gate
<1>3. ASSUME NEW t \in Tasks PROVE TaskInv(t)'
  BY DEF Inv, TypeOK, StorageTypeOK, GateInv, TaskInv, Turning, Clearing, Guarded
<1> QED
  BY <1>1, <1>2, <1>3 DEF Inv

LEMMA StorageStepKeepsInv == Inv /\ StorageStep => Inv'
  BY AccessKeepsInv, ChangeKeepsInv, StartSnapshotKeepsInv, TakeKeepsInv, VisitKeepsInv, EndSnapshotKeepsInv,
     ClearBitsKeepsInv, LeaveSnapshotModeKeepsInv, TurnSnapshotsKeepsInv, TurnBitsKeepsInv, SnapshotEndsKeepsInv
     DEF StorageStep, TaskStep

-----------------------------------------------------------------------------
(* The theorems *)

THEOREM Invariance == Spec => []Inv
<1>1. Init => Inv
  <2> SUFFICES ASSUME Init PROVE Inv
    OBVIOUS
  <2>1. TypeOK
    <3>1. GateTypeOK
      BY DEF Init, GateInit, GateTypeOK
    <3>2. content \in Versions /\ saved \in Versions /\ cut \in Versions
      BY VersionAssumption DEF Init, StorageInit, Versions
    <3>3. StorageTypeOK(Operations)
      BY <3>2 DEF Init, StorageInit, StorageTypeOK, NoCopy
    <3> QED
      BY <3>1, <3>3 DEF TypeOK
  <2>2. GateInv
    <3>1. \A t \in Tasks : ~Guarded(t)
      BY DEF Init, StorageInit, Guarded
    <3>2. suspended_operations = {o \in Operations : op[o] = "suspended"}
      BY DEF Init, GateInit
    <3>3. requested = FALSE /\ snapshot = "idle" /\ phase = "off" /\ snapshot_mode = FALSE /\ listed = {}
      BY DEF Init, GateInit, StorageInit
    <3> QED
      BY <3>1, <3>2, <3>3 DEF GateInv
  <2>3. ASSUME NEW t \in Tasks PROVE TaskInv(t)
    BY DEF Init, StorageInit, TaskInv, Turning, Clearing, Guarded
  <2> QED
    BY <2>1, <2>2, <2>3 DEF Inv
<1>2. Inv /\ UNCHANGED vars => Inv'
  BY DEF Inv, TypeOK, GateTypeOK, StorageTypeOK, GateInv, TaskInv, Turning, Clearing, Guarded, vars, gate,
         storage, flags, entries
<1>3. Inv /\ [Next]_vars => Inv'
  BY <1>2, Steps, GateStepKeepsInv, StorageStepKeepsInv
<1> QED
  BY <1>1, <1>3, PTL DEF Spec

\* Every variable has its type, and the counter counts the operations that start or run.
THEOREM TypeCorrect == Spec => []TypeOK
  BY Invariance, PTL DEF Inv

\* No operation is in the middle of its changes when a snapshot is cut, unless it is suspended and saved
\* with the snapshot (start_operation, operation_suspend_point, snapshot_and_persist).
THEOREM CutIsQuiet == Spec => []NothingRunsAtCut
<1>1. Inv => NothingRunsAtCut
  BY DEF Inv, TypeOK, GateTypeOK, GateInv, NothingRunsAtCut
<1> QED
  BY <1>1, Invariance, PTL

\* No change is forgotten by the marks that snapshots start from (track_modification, end_snapshot).
THEOREM Tracked == Spec => []ChangesTracked
<1>1. Inv => ChangesTracked
  BY DEF Inv, TaskInv, ChangesTracked
<1> QED
  BY <1>1, Invariance, PTL

\* SnapshotShard::next never reaches its unreachable!.
THEOREM NeverUnreachable == Spec => []SnapshotBitsMeanSnapshot
<1>1. Inv => SnapshotBitsMeanSnapshot
  BY DEF Inv, TypeOK, StorageTypeOK, GateInv, TaskInv, Turning, SnapshotBitsMeanSnapshot
<1> QED
  BY <1>1, Invariance, PTL

\* What a snapshot is given of a task is its content at the cut (track_modification, take_snapshot).
THEOREM SavesTheCut == Spec => SnapshotIsOfTheCut
<1> DEFINE P == \A t \in Tasks : \A c \in Categories : saved'[t][c] # saved[t][c] => saved'[t][c] = cut[t][c]
<1>1. ASSUME Inv, NEW a \in Tasks, TakeCopy(a), phase = "take" PROVE P
  <2>1. TypeOK /\ TaskInv(a)
    BY <1>1 DEF Inv
  <2> QED
    BY <1>1, <2>1, CopyTaken DEF TaskInv
<1>2. ASSUME Inv, NEW a \in Tasks, Visit(a), snapshotBits[a] = {} PROVE P
  <2>1. \A t \in Tasks, c \in Categories : saved'[t][c] = IF t = a THEN content[t][c] ELSE saved[t][c]
    BY <1>2 DEF Inv, Visit, Save, TypeOK, StorageTypeOK, Versions
  <2> QED
    BY <1>2, <2>1 DEF Inv, Visit, TaskInv
<1>3. Inv /\ GateStep => P
  BY DEF GateStep, storage
<1>4. Inv /\ StorageStep => P
  <2> SUFFICES ASSUME Inv, StorageStep PROVE P
    OBVIOUS
  <2>1. ASSUME NEW a \in Tasks, TaskStep(a) PROVE P
    BY <1>1, <1>2, <2>1 DEF TaskStep, Take, Visit, ClearBits, TurnBits
  <2>2. CASE ~ \E t \in Tasks : TaskStep(t)
    BY <2>2 DEF StorageStep, Access, Change, StartSnapshot, EndSnapshot, LeaveSnapshotMode, TurnSnapshots, SnapshotEnds
  <2> QED
    BY <2>1, <2>2
<1>5. Inv /\ [Next]_vars => [P]_vars
  BY <1>3, <1>4, Steps DEF vars
<1> QED
  BY <1>5, Invariance, PTL DEF Spec, SnapshotIsOfTheCut
=============================================================================

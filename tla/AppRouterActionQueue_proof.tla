---------------------- MODULE AppRouterActionQueue_proof ----------------------
(***************************************************************************)
(* Proofs about AppRouterActionQueue, for every number of actions.         *)
(***************************************************************************)
EXTENDS AppRouterActionQueue, TLAPS

\* The pending action runs. Nobody points to a node that was not created, and nodes that were not created point
\* to nobody. Behind the pending action and behind every waiting one there is a waiting one, if any, and no two
\* of them have the same one behind them.
QueueShape ==
  /\ pending # None => phase[pending] = "running"
  /\ last # None => phase[last] # "new"
  /\ \A a \in Ids : phase[a] = "new" => next[a] = None
  /\ \A a \in Ids : next[a] # None => phase[next[a]] # "new"
  /\ \A a \in Ids : (phase[a] = "queued" \/ a = pending) /\ next[a] # None => phase[next[a]] = "queued"
  /\ \A a, b \in Ids : /\ phase[a] = "queued" \/ a = pending
                       /\ phase[b] = "queued" \/ b = pending
                       /\ next[a] # None /\ next[a] = next[b]
                       => a = b

\* What the router state and the states given to running actions are made of: actions that have ended and
\* were not discarded.
Kept == {a \in Ids : phase[a] \in {"done", "failed"} /\ a \notin discarded}
Provenance == state \subseteq Kept /\ \A a \in Ids : prev[a] \subseteq Kept

Inv == TypeOK /\ QueueShape /\ NavigationsNeverWait /\ Provenance

USE NoneAssumption, MaxActionsAssumption

LEMMA InitInv == Init => Inv
BY DEF Init, Inv, TypeOK, QueueShape, NavigationsNeverWait, Provenance, Ids, Kinds

LEMMA DispatchOnEmptyInv ==
  ASSUME Inv, NEW a \in Ids, NEW k \in Kinds, IsFresh(a), DispatchOnEmpty(a, k)
  PROVE  Inv'
<1>1. TypeOK'
  BY DEF Inv, TypeOK, Provenance, Kept, IsFresh, DispatchOnEmpty, Ids
<1>2. QueueShape'
  BY DEF Inv, TypeOK, QueueShape, IsFresh, DispatchOnEmpty, Ids
<1>3. NavigationsNeverWait'
  BY DEF Inv, TypeOK, QueueShape, NavigationsNeverWait, IsFresh, DispatchOnEmpty, Ids
<1>4. Provenance'
  BY DEF Inv, TypeOK, Provenance, Kept, IsFresh, DispatchOnEmpty, Ids
<1> QED
  BY <1>1, <1>2, <1>3, <1>4 DEF Inv

LEMMA NavigateInv ==
  ASSUME Inv, NEW a \in Ids, IsFresh(a), Navigate(a)
  PROVE  Inv'
<1>1. TypeOK'
  BY DEF Inv, TypeOK, QueueShape, IsFresh, Navigate, Ids, Kinds
<1>2. QueueShape'
  BY DEF Inv, TypeOK, QueueShape, IsFresh, Navigate, Ids
<1>3. NavigationsNeverWait'
  BY DEF Inv, TypeOK, QueueShape, NavigationsNeverWait, IsFresh, Navigate, Ids
<1>4. Provenance'
  <2>1. pending \in Ids /\ phase[pending] = "running" /\ phase[a] = "new"
    BY DEF Inv, TypeOK, QueueShape, IsFresh, Navigate
  <2>2. \A b \in Ids : phase'[b] = IF b = a THEN "running" ELSE phase[b]
    BY DEF Inv, TypeOK, Navigate
  <2>3. Kept \subseteq Kept'
    BY <2>1, <2>2 DEF Kept, Navigate
  <2>4. \A b \in Ids : prev'[b] = IF b = a THEN state ELSE prev[b]
    BY DEF Inv, TypeOK, Navigate
  <2> QED BY <2>3, <2>4 DEF Inv, Provenance, Navigate
<1> QED
  BY <1>1, <1>2, <1>3, <1>4 DEF Inv

LEMMA EnqueueInv ==
  ASSUME Inv, NEW a \in Ids, NEW k \in Kinds \ {"navigate"}, IsFresh(a), Enqueue(a, k)
  PROVE  Inv'
<1>1. TypeOK'
  BY DEF Inv, TypeOK, QueueShape, IsFresh, Enqueue, Ids
<1>2. QueueShape'
  BY DEF Inv, TypeOK, QueueShape, IsFresh, Enqueue, Ids
<1>3. NavigationsNeverWait'
  BY DEF Inv, TypeOK, QueueShape, NavigationsNeverWait, IsFresh, Enqueue, Ids
<1>4. Provenance'
  BY DEF Inv, TypeOK, QueueShape, Provenance, Kept, IsFresh, Enqueue, Ids
<1> QED
  BY <1>1, <1>2, <1>3, <1>4 DEF Inv

\* The state after a has ended is the old one or, if a was not discarded, one that includes a.
LEMMA RunRemainingInv ==
  ASSUME Inv, NEW a \in Ids, phase[a] = "running", NEW outcome \in {"done", "failed"}, NEW wanted \in BOOLEAN,
         state' \subseteq Kept \cup ({a} \ discarded), RunRemaining(a, outcome, wanted, state')
  PROVE  Inv'
<1>1. CASE pending # None
  <2> DEFINE head == next[pending]
  <2>1. /\ None \notin Ids
        /\ head # None => head \in Ids /\ phase[head] = "queued" /\ head # a
    BY <1>1 DEF Inv, TypeOK, QueueShape, Ids
  <2>2. /\ pending' = head
        /\ phase' = [b \in Ids |-> IF b = a THEN outcome ELSE IF b = head THEN "running" ELSE phase[b]]
        /\ prev' = [b \in Ids |-> IF b = head THEN state' ELSE prev[b]]
        /\ needsRefresh' = wanted
        /\ UNCHANGED <<kind, next, discarded, last>>
    BY <1>1 DEF RunRemaining
  <2>3. TypeOK'
    BY <1>1, <2>1, <2>2 DEF Inv, TypeOK, Kept
  <2>4. QueueShape'
    <3>1. /\ pending' # None => phase'[pending'] = "running"
          /\ last' # None => phase'[last'] # "new"
          /\ \A b \in Ids : phase'[b] = "new" => next'[b] = None
          /\ \A b \in Ids : next'[b] # None => phase'[next'[b]] # "new"
      BY <2>1, <2>2 DEF Inv, TypeOK, QueueShape
    <3>2. ASSUME NEW b \in Ids, phase'[b] = "queued" \/ b = pending', next'[b] # None
          PROVE  phase'[next'[b]] = "queued"
      <4>1. (phase[b] = "queued" \/ b = pending) /\ b # pending /\ next[b] # head
        BY <1>1, <2>1, <2>2, <3>2 DEF Inv, TypeOK, QueueShape
      <4> QED
        BY <2>1, <2>2, <3>2, <4>1 DEF Inv, TypeOK, QueueShape
    <3>3. ASSUME NEW b \in Ids, NEW c \in Ids, phase'[b] = "queued" \/ b = pending',
                 phase'[c] = "queued" \/ c = pending', next'[b] # None, next'[b] = next'[c]
          PROVE  b = c
      BY <2>1, <2>2, <3>3 DEF Inv, TypeOK, QueueShape
    <3> QED
      BY <3>1, <3>2, <3>3 DEF QueueShape
  <2>5. NavigationsNeverWait'
    BY <2>2 DEF Inv, NavigationsNeverWait
  <2>6. Provenance'
    BY <2>1, <2>2 DEF Inv, TypeOK, Provenance, Kept
  <2> QED
    BY <2>3, <2>4, <2>5, <2>6 DEF Inv
<1>2. CASE pending = None /\ ~wanted
  <2>1. TypeOK'
    BY <1>2 DEF RunRemaining, Inv, TypeOK, Kept
  <2>2. QueueShape'
    BY <1>2 DEF RunRemaining, Inv, TypeOK, QueueShape
  <2>3. NavigationsNeverWait'
    BY <1>2 DEF RunRemaining, Inv, NavigationsNeverWait
  <2>4. Provenance'
    BY <1>2 DEF RunRemaining, Inv, TypeOK, Provenance, Kept
  <2> QED
    BY <2>1, <2>2, <2>3, <2>4 DEF Inv
<1>3. CASE pending = None /\ wanted
  <2>1. PICK r \in Ids : /\ IsFresh(r)
                         /\ kind' = [kind EXCEPT ![r] = "refresh"]
                         /\ phase' = [phase EXCEPT ![a] = outcome, ![r] = "running"]
                         /\ prev' = [prev EXCEPT ![r] = state']
                         /\ pending' = r
                         /\ last' = r
    BY <1>3 DEF RunRemaining
  <2>2. needsRefresh' = FALSE /\ UNCHANGED <<next, discarded>>
    BY <1>3 DEF RunRemaining
  <2>3. phase[r] = "new" /\ r # a
    BY <2>1 DEF IsFresh
  <2>4. TypeOK'
    BY <2>1, <2>2, <2>3 DEF Inv, TypeOK, Kept, Kinds
  <2>5. QueueShape'
    BY <1>3, <2>1, <2>2, <2>3 DEF Inv, TypeOK, QueueShape
  <2>6. NavigationsNeverWait'
    BY <2>1, <2>2, <2>3 DEF Inv, TypeOK, QueueShape, NavigationsNeverWait
  <2>7. Provenance'
    BY <2>1, <2>2, <2>3 DEF Inv, TypeOK, Provenance, Kept
  <2> QED
    BY <2>4, <2>5, <2>6, <2>7 DEF Inv
<1> QED
  BY <1>1, <1>2, <1>3

LEMMA StepInv == Inv /\ [Next]_vars => Inv'
<1> SUFFICES ASSUME Inv, [Next]_vars PROVE Inv'
  OBVIOUS
<1>1. ASSUME NEW a \in 1..MaxActions, NEW k \in Kinds, IsFresh(a), Dispatch(a, k) PROVE Inv'
  <2>1. a \in Ids
    BY <1>1 DEF Ids
  <2> QED
    BY <1>1, <2>1, DispatchOnEmptyInv, NavigateInv, EnqueueInv DEF Dispatch
<1>2. ASSUME NEW a \in Ids, HandleError(a) PROVE Inv'
  <2>1. state' \subseteq Kept \cup ({a} \ discarded) /\ needsRefresh \in BOOLEAN
    BY <1>2 DEF HandleError, Inv, Provenance, TypeOK
  <2>2. phase[a] = "running" /\ RunRemaining(a, "failed", needsRefresh, state')
    BY <1>2 DEF HandleError
  <2> QED
    BY <2>1, <2>2, RunRemainingInv
<1>3. ASSUME NEW a \in Ids, NEW revalidated \in BOOLEAN, HandleResult(a, revalidated) PROVE Inv'
  <2> DEFINE wanted == needsRefresh \/ (a \in discarded /\ revalidated)
  <2>1. state' \subseteq Kept \cup ({a} \ discarded) /\ wanted \in BOOLEAN
    BY <1>3 DEF HandleResult, Inv, Provenance, TypeOK
  <2>2. phase[a] = "running" /\ RunRemaining(a, "done", wanted, state')
    BY <1>3 DEF HandleResult
  <2> QED
    BY <2>1, <2>2, RunRemainingInv
<1>4. ASSUME UNCHANGED vars PROVE Inv'
  BY <1>4 DEF vars, Inv, TypeOK, QueueShape, NavigationsNeverWait, Provenance, Kept
<1> QED
  BY <1>1, <1>2, <1>3, <1>4 DEF Next, Settle

THEOREM Invariance == Spec => []Inv
BY InitInv, StepInv, PTL DEF Spec

\* The types hold for every number of actions, and only actions that have run are discarded.
THEOREM TypeCorrect == Spec => []TypeOK
BY Invariance, PTL DEF Inv

\* A displaced action never shows in the router state, nor in anything computed on top of it.
THEOREM DiscardedStaysOut == Spec => []DiscardedNeverApplied
<1>1. Inv => DiscardedNeverApplied
  BY DEF Inv, Provenance, Kept, DiscardedNeverApplied
<1> QED
  BY <1>1, Invariance, PTL

\* What the comment in dispatchAction relies on: there is no navigation in the queue.
THEOREM QueueHasNoNavigation == Spec => []NavigationsNeverWait
BY Invariance, PTL DEF Inv

\* No action runs twice.
THEOREM ActionsRunOnce == Spec => RunsOnce
<1> DEFINE Once == pending' \notin {pending, None} => phase[pending'] \in {"new", "queued"}
<1>1. Inv /\ [Next]_vars => [Once]_vars
  <2> SUFFICES ASSUME Inv, Next PROVE Once
    BY DEF vars
  <2>1. ASSUME NEW a \in 1..MaxActions, NEW k \in Kinds, IsFresh(a), Dispatch(a, k) PROVE Once
    BY <2>1 DEF IsFresh, Dispatch, DispatchOnEmpty, Navigate, Enqueue
  <2>2. ASSUME NEW a \in Ids, NEW outcome, NEW wanted, NEW now, RunRemaining(a, outcome, wanted, now) PROVE Once
    BY <2>2 DEF RunRemaining, IsFresh, Inv, TypeOK, QueueShape
  <2> QED
    BY <2>1, <2>2 DEF Next, Settle, HandleError, HandleResult
<1> QED
  BY <1>1, Invariance, PTL DEF Spec, RunsOnce

-----------------------------------------------------------------------------
(* The order of the waiting actions *)

\* Nodes are created in the order of their numbers, and behind a waiting node there is a later one.
Numbering ==
  /\ \A a, b \in Ids : a < b /\ phase[b] # "new" => phase[a] # "new"
  /\ \A a \in Ids : phase[a] = "queued" /\ next[a] # None => next[a] > a

\* Of the actions that wait in line, none that came after the head of the line has run. This is about the nodes
\* behind the pending one; a node that was linked to a displaced one waits for ever, while later ones run.
HeadIsFirst ==
  pending # None /\ next[pending] # None =>
    \A b \in Ids : b > next[pending] /\ kind[b] # "navigate" => phase[b] \in {"new", "queued"}

OrderInv == Inv /\ Numbering /\ HeadIsFirst

LEMMA InitOrder == Init => OrderInv
BY InitInv DEF Init, OrderInv, Numbering, HeadIsFirst, Ids

LEMMA DispatchOrder ==
  ASSUME OrderInv, NEW a \in Ids, NEW k \in Kinds, IsFresh(a), Dispatch(a, k)
  PROVE  Numbering' /\ HeadIsFirst'
<1>1. /\ phase[a] = "new" /\ next[a] = None
      /\ \A b \in Ids : b < a => phase[b] # "new"
      /\ \A b \in Ids : b > a => phase[b] = "new"
      /\ Ids \subseteq Nat
  BY DEF IsFresh, OrderInv, Inv, QueueShape, Numbering, Ids
<1>2. CASE DispatchOnEmpty(a, k)
  BY <1>1, <1>2 DEF DispatchOnEmpty, OrderInv, Inv, TypeOK, QueueShape, Numbering, HeadIsFirst
<1>3. CASE Navigate(a)
  BY <1>1, <1>3 DEF Navigate, OrderInv, Inv, TypeOK, QueueShape, Numbering, HeadIsFirst
<1>4. CASE Enqueue(a, k)
  BY <1>1, <1>4 DEF Enqueue, OrderInv, Inv, TypeOK, QueueShape, Numbering, HeadIsFirst
<1> QED
  BY <1>2, <1>3, <1>4 DEF Dispatch

LEMMA RunRemainingOrder ==
  ASSUME OrderInv, NEW a \in Ids, phase[a] = "running", NEW outcome \in {"done", "failed"}, NEW wanted, NEW now,
         RunRemaining(a, outcome, wanted, now)
  PROVE  Numbering' /\ HeadIsFirst'
<1>1. CASE pending # None
  <2> DEFINE head == next[pending]
  <2>1. /\ None \notin Ids
        /\ head # None => /\ head \in Ids /\ phase[head] = "queued" /\ kind[head] # "navigate"
                          /\ next[head] # None => next[head] \in Ids /\ next[head] > head
    BY <1>1 DEF OrderInv, Inv, TypeOK, QueueShape, NavigationsNeverWait, Numbering, Ids
  <2>2. /\ pending' = head
        /\ phase' = [b \in Ids |-> IF b = a THEN outcome ELSE IF b = head THEN "running" ELSE phase[b]]
        /\ UNCHANGED <<kind, next>>
    BY <1>1 DEF RunRemaining
  <2>3. Numbering'
    BY <2>1, <2>2 DEF OrderInv, Numbering
  <2>4. HeadIsFirst'
    <3> SUFFICES ASSUME head # None, next[head] # None, NEW b \in Ids, b > next[head], kind[b] # "navigate"
                 PROVE  phase'[b] \in {"new", "queued"}
      BY <2>2 DEF HeadIsFirst
    <3>1. b > head
      BY <2>1 DEF Ids
    <3>2. phase[b] \in {"new", "queued"}
      BY <1>1, <3>1 DEF OrderInv, HeadIsFirst
    <3> QED
      BY <2>2, <3>1, <3>2 DEF Ids
  <2> QED
    BY <2>3, <2>4
<1>2. CASE pending = None /\ ~wanted
  BY <1>2 DEF RunRemaining, OrderInv, Inv, TypeOK, Numbering, HeadIsFirst
<1>3. CASE pending = None /\ wanted
  <2>1. PICK r \in Ids : /\ IsFresh(r)
                         /\ phase' = [phase EXCEPT ![a] = outcome, ![r] = "running"]
                         /\ pending' = r
    BY <1>3 DEF RunRemaining
  <2>2. next' = next /\ next[r] = None /\ phase[r] = "new"
    BY <1>3, <2>1 DEF RunRemaining, IsFresh, OrderInv, Inv, QueueShape
  <2> QED
    BY <2>1, <2>2 DEF IsFresh, OrderInv, Inv, TypeOK, Numbering, HeadIsFirst, Ids
<1> QED
  BY <1>1, <1>2, <1>3

LEMMA StepOrder == OrderInv /\ [Next]_vars => OrderInv'
<1> SUFFICES ASSUME OrderInv, [Next]_vars PROVE OrderInv'
  OBVIOUS
<1>1. Inv'
  BY StepInv DEF OrderInv
<1>2. Numbering' /\ HeadIsFirst'
  <2>1. ASSUME NEW a \in 1..MaxActions, NEW k \in Kinds, IsFresh(a), Dispatch(a, k)
        PROVE  Numbering' /\ HeadIsFirst'
    BY <2>1, DispatchOrder DEF Ids
  <2>2. ASSUME NEW a \in Ids, Settle(a) PROVE Numbering' /\ HeadIsFirst'
    BY <2>2, RunRemainingOrder DEF Settle, HandleError, HandleResult
  <2>3. ASSUME UNCHANGED vars PROVE Numbering' /\ HeadIsFirst'
    BY <2>3 DEF vars, OrderInv, Numbering, HeadIsFirst
  <2> QED
    BY <2>1, <2>2, <2>3 DEF Next
<1> QED
  BY <1>1, <1>2 DEF OrderInv

\* Actions that wait in line start in the order of their dispatch, whatever navigations get ahead of them and however
\* many displaced actions end meanwhile: when one starts, no later action but a navigation has been run.
THEOREM WaitingStartInOrder == Spec => InOrder
<1> DEFINE Order == \A a \in Ids : phase[a] = "queued" /\ phase'[a] = "running" =>
                      \A b \in Ids : b > a /\ kind[b] # "navigate" => phase[b] \in {"new", "queued"}
<1>1. OrderInv /\ [Next]_vars => [Order]_vars
  <2> SUFFICES ASSUME OrderInv, Next, NEW a \in Ids, phase[a] = "queued", phase'[a] = "running"
               PROVE  pending # None /\ next[pending] = a
    BY DEF OrderInv, HeadIsFirst, Inv, TypeOK, Ids
  <2>1. ASSUME NEW c \in 1..MaxActions, NEW k \in Kinds, IsFresh(c), Dispatch(c, k) PROVE FALSE
    BY <2>1 DEF IsFresh, Dispatch, DispatchOnEmpty, Navigate, Enqueue, OrderInv, Inv, TypeOK, Ids
  <2>2. ASSUME NEW c \in Ids, NEW outcome \in {"done", "failed"}, NEW wanted, NEW now,
               RunRemaining(c, outcome, wanted, now)
        PROVE  pending # None /\ next[pending] = a
    BY <2>2 DEF RunRemaining, IsFresh, OrderInv, Inv, TypeOK
  <2> QED
    BY <2>1, <2>2 DEF Next, Settle, HandleError, HandleResult
<1>2. Spec => []OrderInv
  BY InitOrder, StepOrder, PTL DEF Spec
<1> QED
  BY <1>1, <1>2, PTL DEF Spec, InOrder

=============================================================================

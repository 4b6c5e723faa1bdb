-------------------------- MODULE CacheSignal_proof --------------------------
(***************************************************************************)
(* Proofs about CacheSignal, for every set of renders and any number of    *)
(* calls. Inv is inductive. Work that a read left behind is queued while   *)
(* the render's signal has no timer or an immediate that was set with it   *)
(* or later, so the timeout finds it done.                                 *)
(***************************************************************************)
EXTENDS CacheSignal, TLAPS

\* Reads that count keep a signal from calling its listeners.
CountStopsTimer == \A s \in Signals : count[s] > 0 => timer[s] = "none"

SubscribersWait ==
  /\ count[Modules] = reads[Modules]
  /\ subscribed \subseteq tracked /\ \A r \in subscribed : listeners[r]

WorkBeforeTimeout ==
  \A r \in Renders : /\ timer[r] \in {"due", "timeout"} => "queued" \notin work[r]
                     /\ loop = "tasks" => timer[r] # "due" /\ "due" \notin work[r]

Inv == TypeOK /\ CountsAgree /\ NobodyForgotten /\ CountStopsTimer /\ SubscribersWait /\ WorkBeforeTimeout

\* What counts a read cannot be at zero while that read is in flight.
LEMMA ReadsCounted ==
  ASSUME Inv, NEW s \in Signals, reads[s] > 0, NEW x \in Notified(s)
  PROVE  x \in Signals /\ count[x] \in Nat /\ count[x] > 0
  BY SignalsAssumption DEF Inv, TypeOK, CountsAgree, SubscribersWait, Notified, Signals

-----------------------------------------------------------------------------
LEMMA BeginReadKeepsInv ==
  ASSUME Inv, NEW s \in Signals, BeginRead(s)
  PROVE  Inv'
<1> USE DEF BeginRead, Inv, TypeOK, Signals, signals, Counted, Notified
<1>1. TypeOK'
  BY SignalsAssumption, BoundAssumption
<1>2. CountsAgree'
  BY SignalsAssumption DEF CountsAgree, SubscribersWait
<1>3. NobodyForgotten'
  BY DEF NobodyForgotten, CountStopsTimer
<1>4. CountStopsTimer'
  BY DEF CountStopsTimer
<1>5. SubscribersWait'
  BY SignalsAssumption DEF SubscribersWait
<1>6. WorkBeforeTimeout'
  BY SignalsAssumption DEF WorkBeforeTimeout, CountStopsTimer
<1> QED
  BY <1>1, <1>2, <1>3, <1>4, <1>5, <1>6

LEMMA InputReadyKeepsInv ==
  ASSUME Inv, NEW r \in Renders, InputReady(r)
  PROVE  Inv'
<1> USE DEF InputReady, Inv, TypeOK, Signals, signals, Counted, NoMorePendingCaches
<1>1. TypeOK'
  BY SignalsAssumption, BoundAssumption
<1>2. CountsAgree'
  BY SignalsAssumption DEF CountsAgree, SubscribersWait
<1>3. NobodyForgotten'
  BY DEF NobodyForgotten, CountStopsTimer
<1>4. CountStopsTimer'
  BY DEF CountStopsTimer
<1>5. SubscribersWait'
  BY SignalsAssumption DEF SubscribersWait
<1>6. WorkBeforeTimeout'
  BY SignalsAssumption DEF WorkBeforeTimeout, CountStopsTimer
<1> QED
  BY <1>1, <1>2, <1>3, <1>4, <1>5, <1>6

LEMMA CacheReadyKeepsInv ==
  ASSUME Inv, NEW r \in Renders, CacheReady(r)
  PROVE  Inv'
<1> USE DEF CacheReady, Inv, TypeOK, Signals, signals, Counted, NoMorePendingCaches
<1>1. TypeOK'
  BY SignalsAssumption, BoundAssumption
<1>2. CountsAgree'
  BY SignalsAssumption DEF CountsAgree, SubscribersWait
<1>3. NobodyForgotten'
  BY DEF NobodyForgotten, CountStopsTimer
<1>4. CountStopsTimer'
  BY DEF CountStopsTimer
<1>5. SubscribersWait'
  BY SignalsAssumption DEF SubscribersWait
<1>6. WorkBeforeTimeout'
  BY SignalsAssumption DEF WorkBeforeTimeout, CountStopsTimer
<1> QED
  BY <1>1, <1>2, <1>3, <1>4, <1>5, <1>6

LEMMA TrackPendingModulesKeepsInv ==
  ASSUME Inv, NEW r \in Renders, TrackPendingModules(r)
  PROVE  Inv'
<1> USE DEF TrackPendingModules, Inv, TypeOK, Signals, signals, Counted, NoMorePendingCaches
<1>0. r \notin subscribed /\ count[r] \in Nat /\ count[Modules] \in Nat /\ count'[r] = count[r] + count[Modules]
  BY SignalsAssumption DEF SubscribersWait
<1>1. TypeOK'
  <2>1. count' \in [Signals -> Nat] /\ timer' \in [Signals -> {"none", "immediate", "due", "timeout"}]
    BY <1>0
  <2>2. tickPending' \in [Signals -> BOOLEAN]
    <3>1. CASE count'[r] = 0
      BY <3>1
    <3>2. CASE count'[r] # 0
      BY <3>2
    <3> QED
      BY <3>1, <3>2
  <2> QED
    BY <2>1, <2>2, BoundAssumption
<1>2. CountsAgree'
  <2>1. \A x \in Renders : x # r => count'[x] = count[x]
    BY SignalsAssumption
  <2>2. count'[r] = reads[r] + reads[Modules]
    BY <1>0 DEF CountsAgree, SubscribersWait
  <2> QED
    BY <2>1, <2>2 DEF CountsAgree
<1>3. NobodyForgotten'
  BY DEF NobodyForgotten, CountStopsTimer
<1>4. CountStopsTimer'
  BY DEF CountStopsTimer
<1>5. SubscribersWait'
  BY SignalsAssumption DEF SubscribersWait
<1>6. WorkBeforeTimeout'
  BY SignalsAssumption DEF WorkBeforeTimeout, CountStopsTimer
<1> QED
  BY <1>1, <1>2, <1>3, <1>4, <1>5, <1>6

LEMMA TickKeepsInv ==
  ASSUME Inv, NEW s \in Signals, Tick(s)
  PROVE  Inv'
<1> USE DEF Tick, Inv, TypeOK, Signals, signals
<1>1. TypeOK'
  BY SignalsAssumption
<1>2. CountsAgree'
  BY SignalsAssumption DEF CountsAgree, SubscribersWait
<1>3. NobodyForgotten'
  <2> SUFFICES ASSUME NEW x \in Signals, count'[x] = 0
               PROVE  (listeners'[x] => timer'[x] # "none") /\ (early'[x] => tickPending'[x])
    BY DEF NobodyForgotten
  <2>1. CASE x = s
    <3>1. count[s] = 0 /\ ~ (count[s] > 0) /\ early'[s] = (early[s] /\ count[s] > 0)
      BY <2>1
    <3>2. ~ early'[s]
      BY <3>1, Zenon
    <3>3. listeners[s] => timer[s] # "none"
      BY <3>1 DEF NobodyForgotten
    <3> QED
      BY <2>1, <3>2, <3>3
  <2>2. CASE x # s
    BY <2>2 DEF NobodyForgotten
  <2> QED
    BY <2>1, <2>2
<1>4. CountStopsTimer'
  BY DEF CountStopsTimer
<1>5. SubscribersWait'
  BY SignalsAssumption DEF SubscribersWait
<1>6. WorkBeforeTimeout'
  BY SignalsAssumption DEF WorkBeforeTimeout, CountStopsTimer
<1> QED
  BY <1>1, <1>2, <1>3, <1>4, <1>5, <1>6

LEMMA EnterCheckKeepsInv ==
  ASSUME Inv, EnterCheck
  PROVE  Inv'
<1> USE DEF EnterCheck, Inv, TypeOK, Signals, signals
<1>1. TypeOK'
  BY SignalsAssumption
<1>2. CountsAgree'
  BY SignalsAssumption DEF CountsAgree, SubscribersWait
<1>3. NobodyForgotten'
  BY DEF NobodyForgotten, CountStopsTimer
<1>4. CountStopsTimer'
  BY DEF CountStopsTimer
<1>5. SubscribersWait'
  BY SignalsAssumption DEF SubscribersWait
<1>6. WorkBeforeTimeout'
  BY SignalsAssumption DEF WorkBeforeTimeout, CountStopsTimer
<1> QED
  BY <1>1, <1>2, <1>3, <1>4, <1>5, <1>6

LEMMA RunImmediateKeepsInv ==
  ASSUME Inv, NEW s \in Signals, RunImmediate(s)
  PROVE  Inv'
<1> USE DEF RunImmediate, Inv, TypeOK, Signals, signals
<1>1. TypeOK'
  BY SignalsAssumption
<1>2. CountsAgree'
  BY SignalsAssumption DEF CountsAgree, SubscribersWait
<1>3. NobodyForgotten'
  BY DEF NobodyForgotten, CountStopsTimer
<1>4. CountStopsTimer'
  BY DEF CountStopsTimer
<1>5. SubscribersWait'
  BY SignalsAssumption DEF SubscribersWait
<1>6. WorkBeforeTimeout'
  BY SignalsAssumption DEF WorkBeforeTimeout, CountStopsTimer
<1> QED
  BY <1>1, <1>2, <1>3, <1>4, <1>5, <1>6

LEMMA RunWorkKeepsInv ==
  ASSUME Inv, NEW r \in Renders, RunWork(r)
  PROVE  Inv'
  BY DEF RunWork, Inv, TypeOK, CountsAgree, NobodyForgotten, CountStopsTimer, SubscribersWait, WorkBeforeTimeout,
     Due, Signals, signals

LEMMA LeaveCheckKeepsInv ==
  ASSUME Inv, LeaveCheck
  PROVE  Inv'
  BY DEF LeaveCheck, Inv, TypeOK, CountsAgree, NobodyForgotten, CountStopsTimer, SubscribersWait, WorkBeforeTimeout,
     Due, Signals, signals

LEMMA InvokeListenersKeepsInv ==
  ASSUME Inv, NEW s \in Signals, InvokeListeners(s)
  PROVE  Inv'
<1> USE DEF InvokeListeners, Inv, TypeOK, Signals, signals
<1>1. TypeOK'
  BY SignalsAssumption
<1>2. CountsAgree'
  BY SignalsAssumption DEF CountsAgree, SubscribersWait
<1>3. NobodyForgotten'
  BY DEF NobodyForgotten, CountStopsTimer
<1>4. CountStopsTimer'
  BY DEF CountStopsTimer
<1>5. SubscribersWait'
  BY SignalsAssumption DEF SubscribersWait
<1>6. WorkBeforeTimeout'
  BY SignalsAssumption DEF WorkBeforeTimeout, CountStopsTimer
<1> QED
  BY <1>1, <1>2, <1>3, <1>4, <1>5, <1>6

LEMMA EndReadKeepsInv ==
  ASSUME Inv, NEW s \in Signals, EndRead(s)
  PROVE  Inv'
<1>0. \A x \in Notified(s) : x \in Signals /\ count[x] \in Nat /\ count[x] > 0
  BY ReadsCounted DEF EndRead
<1> USE DEF EndRead, Inv, TypeOK, Signals, signals, NoMorePendingCaches, Notified
<1>1. TypeOK'
  BY <1>0, SignalsAssumption
<1>2. CountsAgree'
  BY <1>0, SignalsAssumption DEF CountsAgree, SubscribersWait
<1>3. NobodyForgotten'
  BY <1>0 DEF NobodyForgotten, CountStopsTimer
<1>4. CountStopsTimer'
  BY <1>0 DEF CountStopsTimer
<1>5. SubscribersWait'
  BY <1>0, SignalsAssumption DEF SubscribersWait
<1>6. WorkBeforeTimeout'
  <2> SUFFICES ASSUME NEW r \in Renders
               PROVE  /\ timer'[r] \in {"due", "timeout"} => "queued" \notin work'[r]
                      /\ loop' = "tasks" => timer'[r] # "due" /\ "due" \notin work'[r]
    BY DEF WorkBeforeTimeout
  <2>1. CASE r \in {x \in Notified(s) : count[x] = 1}
    <3>1. timer'[r] = "immediate"
      BY <2>1
    <3>2. "due" \in work'[r] => "due" \in work[r]
      OBVIOUS
    <3> QED
      BY <3>1, <3>2 DEF WorkBeforeTimeout
  <2>2. CASE r \notin {x \in Notified(s) : count[x] = 1}
    <3>1. timer'[r] = timer[r] /\ (r \in Notified(s) => timer[r] = "none")
      BY <2>2, <1>0 DEF CountStopsTimer
    <3>2. r \notin Notified(s) => work'[r] = work[r]
      OBVIOUS
    <3>3. "due" \in work'[r] => "due" \in work[r]
      OBVIOUS
    <3> QED
      BY <3>1, <3>2, <3>3 DEF WorkBeforeTimeout
  <2> QED
    BY <2>1, <2>2
<1> QED
  BY <1>1, <1>2, <1>3, <1>4, <1>5, <1>6

-----------------------------------------------------------------------------
(* The theorems *)

THEOREM Invariance == Spec => []Inv
<1>1. Init => Inv
  BY SignalsAssumption, BoundAssumption DEF Init, Inv, TypeOK, CountsAgree, NobodyForgotten, CountStopsTimer,
     SubscribersWait, WorkBeforeTimeout, Signals
<1>2. Inv /\ UNCHANGED vars => Inv'
  BY DEF Inv, TypeOK, CountsAgree, NobodyForgotten, CountStopsTimer, SubscribersWait, WorkBeforeTimeout, vars, signals
<1>3. Inv /\ [Next]_vars => Inv'
  BY <1>2, BeginReadKeepsInv, InputReadyKeepsInv, CacheReadyKeepsInv, TrackPendingModulesKeepsInv, TickKeepsInv,
     EnterCheckKeepsInv, RunImmediateKeepsInv, RunWorkKeepsInv, LeaveCheckKeepsInv, InvokeListenersKeepsInv,
     EndReadKeepsInv DEF Next, Loop
<1> QED
  BY <1>1, <1>3, PTL DEF Spec

\* Every variable has its type; a count never falls below zero.
THEOREM TypeCorrect == Spec => []TypeOK
  BY Invariance, PTL DEF Inv

\* A render's signal counts its own reads and, exactly as long as it is subscribed, those of Modules
\* (beginRead, endRead, subscribeToReads, unsubscribeFromReads).
THEOREM CountsCorrect == Spec => []CountsAgree
  BY Invariance, PTL DEF Inv

\* Whoever waits on a signal without reads has a callback pending (noMorePendingCaches).
THEOREM NoneForgotten == Spec => []NobodyForgotten
  BY Invariance, PTL DEF Inv

\* cacheReady resolves only when React's work is done and no read is in flight (cacheReady, trackPendingModules).
THEOREM ReadyMeansDone == Spec => ReadyAfterWork
<1> DEFINE P == \A r \in Renders : listeners[r] /\ ~listeners'[r] =>
                  work[r] = {} /\ reads[r] = 0 /\ (r \in subscribed => reads[Modules] = 0)
<1>1. Inv /\ [Next]_vars => [P]_vars
  <2> SUFFICES ASSUME Inv, Next PROVE P
    BY DEF vars
  <2>1. ASSUME NEW s \in Signals, InvokeListeners(s) PROVE P
    <3> SUFFICES ASSUME NEW r \in Renders, listeners[r], ~listeners'[r]
                 PROVE  work[r] = {} /\ reads[r] = 0 /\ (r \in subscribed => reads[Modules] = 0)
      OBVIOUS
    <3>1. s = r /\ count[r] = 0 /\ timer[r] = "timeout" /\ loop = "tasks"
      BY <2>1 DEF InvokeListeners, Inv, TypeOK, Signals
    <3>2. work[r] = {}
      BY <3>1 DEF Inv, TypeOK, WorkBeforeTimeout
    <3>3. reads[r] = 0 /\ (r \in subscribed => reads[Modules] = 0)
      BY <3>1 DEF Inv, TypeOK, CountsAgree, Signals
    <3> QED
      BY <3>2, <3>3
  <2>2. CASE ~ \E s \in Signals : InvokeListeners(s)
    BY <2>2 DEF Next, Loop, BeginRead, EndRead, InputReady, CacheReady, TrackPendingModules, Tick, EnterCheck,
       RunImmediate, RunWork, LeaveCheck, signals, Inv, TypeOK, Signals
  <2> QED
    BY <2>1, <2>2
<1> QED
  BY <1>1, Invariance, PTL DEF Spec, ReadyAfterWork
=============================================================================

----------------------------- MODULE CacheSignal -----------------------------
(***************************************************************************)
(* server/app-render/cache-signal.ts: a prerender learns from its          *)
(* CacheSignal when all cache reads have settled. Chunk loads and imports  *)
(* are counted by a signal of their own, Modules, to which every render    *)
(* subscribes (module-loading/track-module-loading.instance.ts).           *)
(*                                                                         *)
(* The event loop is part of the model: a macrotask runs when no nextTick  *)
(* callback is left, immediates run in a phase of their own, and one that  *)
(* is set in that phase waits for the next. React schedules work with      *)
(* setImmediate when a read resolves. Reads begin and end in macrotasks    *)
(* and in microtasks, so at any time. Listeners of a signal are called     *)
(* together: whether there are any is all that is kept.                    *)
(***************************************************************************)
EXTENDS Naturals

CONSTANTS Renders,  \* renders, each with its signal
          Modules,  \* moduleLoadingSignal
          MaxCalls  \* bound on the reads and on the calls of inputReady, cacheReady and trackPendingModules

ASSUME SignalsAssumption == Modules \notin Renders
ASSUME BoundAssumption == MaxCalls \in Nat

Signals == Renders \cup {Modules}

VARIABLES count,       \* CacheSignal::count
          early,       \* whether it has earlyListeners
          listeners,   \* whether it has listeners
          tickPending, \* CacheSignal::tickPending
          timer,       \* what pendingTimeoutCleanup would cancel: an immediate, then a timeout
          subscribed,  \* moduleLoadingSignal.subscribedSignals
          tracked,     \* the renders that have called trackPendingModules
          reads,       \* the reads that were begun on a signal itself and have not ended
          work,        \* React's immediates of a render: "queued", or "due" in the phase that runs
          loop,        \* "check" while immediates run, else "tasks"
          calls        \* number of calls so far

signals == <<count, early, listeners, tickPending, timer, subscribed>>
vars == <<signals, tracked, reads, work, loop, calls>>

Counted == calls < MaxCalls /\ calls' = calls + 1

-----------------------------------------------------------------------------
(* The signal *)

\* Mutant: nothing is scheduled while a nextTick callback is pending.
NoMoreOnce(S) ==
  /\ tickPending' = [s \in Signals |-> tickPending[s] \/ s \in S]
  /\ timer' = [s \in Signals |-> IF s \in S /\ ~tickPending[s] THEN "immediate" ELSE timer[s]]

\* Mutant: the timeout is set at once.
NoMoreTimeout(S) ==
  /\ tickPending' = [s \in Signals |-> tickPending[s] \/ s \in S]
  /\ timer' = [s \in Signals |-> IF s \in S THEN "timeout" ELSE timer[s]]

\* noMorePendingCaches, for the signals of S: a nextTick callback for the early listeners, and a new
\* immediate for the others in place of what was pending.
NoMorePendingCaches(S) ==
  /\ tickPending' = [s \in Signals |-> tickPending[s] \/ s \in S]
  /\ timer' = [s \in Signals |-> IF s \in S THEN "immediate" ELSE timer[s]]

\* A read of a signal also counts for the signals that have subscribed to it.
Notified(s) == IF s = Modules THEN {Modules} \cup subscribed ELSE {s}

BeginRead(s) ==
  /\ Counted
  /\ reads' = [reads EXCEPT ![s] = @ + 1]
  /\ count' = [x \in Signals |-> IF x \in Notified(s) THEN count[x] + 1 ELSE count[x]]
  /\ timer' = [x \in Signals |-> IF x \in Notified(s) THEN "none" ELSE timer[x]]
  /\ UNCHANGED <<early, listeners, tickPending, subscribed, tracked, work, loop>>

\* What a read yields has React schedule work for the renders that were waiting for it.
EndRead(s) ==
  /\ reads[s] > 0
  /\ reads' = [reads EXCEPT ![s] = @ - 1]
  /\ count' = [x \in Signals |-> IF x \in Notified(s) THEN count[x] - 1 ELSE count[x]]
  /\ NoMorePendingCaches({x \in Notified(s) : count[x] = 1})
  /\ work' = [r \in Renders |-> IF r \in Notified(s) THEN work[r] \cup {"queued"} ELSE work[r]]
  /\ UNCHANGED <<early, listeners, subscribed, tracked, loop, calls>>

InputReady(r) ==
  /\ Counted
  /\ early' = [early EXCEPT ![r] = TRUE]
  /\ NoMorePendingCaches({s \in {r} : count[s] = 0})
  /\ UNCHANGED <<count, listeners, subscribed, tracked, reads, work, loop>>

CacheReady(r) ==
  /\ Counted
  /\ listeners' = [listeners EXCEPT ![r] = TRUE]
  /\ NoMorePendingCaches({s \in {r} : count[s] = 0})
  /\ UNCHANGED <<count, early, subscribed, tracked, reads, work, loop>>

\* Mutant: the reads in flight are not passed on to a new subscriber.
TrackPendingModulesLate(r) ==
  /\ Counted
  /\ r \notin tracked
  /\ tracked' = tracked \cup {r}
  /\ subscribed' = subscribed \cup {r}
  /\ listeners' = [listeners EXCEPT ![r] = TRUE]
  /\ NoMorePendingCaches({s \in {r} : count[s] = 0})
  /\ UNCHANGED <<count, early, reads, work, loop>>

\* trackPendingModules: subscribeToReads begins a read for each one in flight, then a listener is added
\* that will unsubscribe.
TrackPendingModules(r) ==
  /\ Counted
  /\ r \notin tracked
  /\ tracked' = tracked \cup {r}
  /\ subscribed' = subscribed \cup {r}
  /\ count' = [count EXCEPT ![r] = @ + count[Modules]]
  /\ listeners' = [listeners EXCEPT ![r] = TRUE]
  /\ IF count'[r] = 0 THEN NoMorePendingCaches({r})
     ELSE /\ timer' = [timer EXCEPT ![r] = IF count[Modules] > 0 THEN "none" ELSE @]
          /\ UNCHANGED tickPending
  /\ UNCHANGED <<early, reads, work, loop>>

-----------------------------------------------------------------------------
(* The event loop *)

NoTick == \A s \in Signals : ~tickPending[s]
Due == \E s \in Signals : timer[s] = "due" \/ (s \in Renders /\ "due" \in work[s])

Tick(s) ==
  /\ tickPending[s]
  /\ tickPending' = [tickPending EXCEPT ![s] = FALSE]
  /\ early' = [early EXCEPT ![s] = @ /\ count[s] > 0]
  /\ UNCHANGED <<count, listeners, timer, subscribed, tracked, reads, work, loop, calls>>

\* The phase of immediates begins: those that are queued now will run in it.
EnterCheck ==
  /\ loop = "tasks" /\ NoTick
  /\ \E s \in Signals : timer[s] = "immediate" \/ (s \in Renders /\ "queued" \in work[s])
  /\ loop' = "check"
  /\ timer' = [s \in Signals |-> IF timer[s] = "immediate" THEN "due" ELSE timer[s]]
  /\ work' = [r \in Renders |-> IF "queued" \in work[r] THEN {"due"} ELSE {}]
  /\ UNCHANGED <<count, early, listeners, tickPending, subscribed, tracked, reads, calls>>

\* scheduleImmediateAndTimeoutWithCleanup: the immediate sets the timeout.
RunImmediate(s) ==
  /\ loop = "check" /\ NoTick /\ timer[s] = "due"
  /\ timer' = [timer EXCEPT ![s] = "timeout"]
  /\ UNCHANGED <<count, early, listeners, tickPending, subscribed, tracked, reads, work, loop, calls>>

\* React renders on; the reads this begins are steps of their own.
RunWork(r) ==
  /\ loop = "check" /\ NoTick /\ "due" \in work[r]
  /\ work' = [work EXCEPT ![r] = @ \ {"due"}]
  /\ UNCHANGED <<signals, tracked, reads, loop, calls>>

LeaveCheck ==
  /\ loop = "check" /\ NoTick /\ ~Due
  /\ loop' = "tasks"
  /\ UNCHANGED <<signals, tracked, reads, work, calls>>

\* The timeout: invokeListenersIfNoPendingReads. The first listener of a render that has called
\* trackPendingModules unsubscribes it, before any other that was waiting continues.
InvokeListeners(s) ==
  /\ loop = "tasks" /\ NoTick /\ timer[s] = "timeout"
  /\ timer' = [timer EXCEPT ![s] = "none"]
  /\ listeners' = [listeners EXCEPT ![s] = @ /\ count[s] > 0]
  /\ subscribed' = IF count[s] = 0 THEN subscribed \ {s} ELSE subscribed
  /\ UNCHANGED <<count, early, tickPending, tracked, reads, work, loop, calls>>

-----------------------------------------------------------------------------

Init ==
  /\ count = [s \in Signals |-> 0] /\ reads = [s \in Signals |-> 0]
  /\ early = [s \in Signals |-> FALSE] /\ listeners = [s \in Signals |-> FALSE]
  /\ tickPending = [s \in Signals |-> FALSE] /\ timer = [s \in Signals |-> "none"]
  /\ subscribed = {} /\ tracked = {}
  /\ work = [r \in Renders |-> {}]
  /\ loop = "tasks"
  /\ calls = 0

Loop == \/ \E s \in Signals : Tick(s) \/ RunImmediate(s) \/ InvokeListeners(s)
        \/ \E r \in Renders : RunWork(r)
        \/ EnterCheck \/ LeaveCheck
Next == \/ Loop
        \/ \E s \in Signals : BeginRead(s) \/ EndRead(s)
        \/ \E r \in Renders : InputReady(r) \/ CacheReady(r) \/ TrackPendingModules(r)

\* The event loop goes on, and reads end.
Fairness == WF_vars(Loop) /\ WF_vars(\E s \in Signals : EndRead(s))

Spec == Init /\ [][Next]_vars /\ Fairness

-----------------------------------------------------------------------------
(* Properties *)

\* Every variable has its type; a count never falls below zero.
TypeOK ==
  /\ count \in [Signals -> Nat] /\ reads \in [Signals -> Nat]
  /\ early \in [Signals -> BOOLEAN] /\ listeners \in [Signals -> BOOLEAN]
  /\ tickPending \in [Signals -> BOOLEAN]
  /\ timer \in [Signals -> {"none", "immediate", "due", "timeout"}]
  /\ subscribed \in SUBSET Renders /\ tracked \in SUBSET Renders
  /\ work \in [Renders -> SUBSET {"queued", "due"}]
  /\ loop \in {"tasks", "check"}
  /\ calls \in 0..MaxCalls

\* A render's signal counts its own reads and, exactly as long as it is subscribed, those of Modules:
\* subscribing and unsubscribing between the begin and the end of reads loses and leaks none.
CountsAgree ==
  \A r \in Renders : count[r] = reads[r] + (IF r \in subscribed THEN reads[Modules] ELSE 0)

\* Whoever waits on a signal that has no reads will be called: a callback is pending.
NobodyForgotten ==
  \A s \in Signals : count[s] = 0 => /\ listeners[s] => timer[s] # "none"
                                     /\ early[s] => tickPending[s]

\* cacheReady resolves only after React has done all the work it scheduled for reads that ended, and
\* when neither the render nor a module it is subscribed to has a read in flight.
ReadyAfterWork ==
  [][\A r \in Renders : listeners[r] /\ ~listeners'[r] =>
       work[r] = {} /\ reads[r] = 0 /\ (r \in subscribed => reads[Modules] = 0)]_vars

\* Whoever waits is called, early listeners included, however reads begin and end in the meantime.
ReadyResolves == \A r \in Renders : (listeners[r] ~> ~listeners[r]) /\ (early[r] ~> ~early[r])
=============================================================================

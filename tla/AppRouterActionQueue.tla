------------------------ MODULE AppRouterActionQueue ------------------------
(***************************************************************************)
(* The action queue of the client router                                   *)
(* (packages/next/src/client/components/app-router-instance.ts). Actions   *)
(* run one after the other, each on the state its predecessor left; a      *)
(* navigation does not wait: it takes the place of the action that runs,   *)
(* whose result is then discarded.                                         *)
(*                                                                         *)
(* Every reducer call is asynchronous (createMutableActionQueue wraps it   *)
(* in an async function), so an action is dispatched in one step and its   *)
(* promise settles in a later one. Nodes of the linked list are numbered   *)
(* in the order they are dispatched. What a reducer computes is abstracted *)
(* to the set of the actions that its result includes.                     *)
(***************************************************************************)
EXTENDS Naturals

CONSTANTS MaxActions, \* bound on the actions the application dispatches
          None        \* null

ASSUME MaxActionsAssumption == MaxActions \in Nat
ASSUME NoneAssumption == None \notin Nat

\* The queue itself dispatches at most one refresh per server action.
Ids == 1..(2 * MaxActions)

\* "navigate" stands for ACTION_NAVIGATE and ACTION_RESTORE, "refresh" for the types that wait in line and
\* that the queue does not look at any further.
Kinds == {"navigate", "server-action", "refresh"}

VARIABLES kind,      \* payload.type of a node
          next,      \* ActionQueueNode::next
          discarded, \* the nodes with discarded = true
          phase,     \* "new", "queued", "running", "done" or "failed": its promise
          prev,      \* prevState of a running action: the state its reducer was given
          pending,   \* AppRouterActionQueue::pending
          last,      \* AppRouterActionQueue::last
          needsRefresh, \* AppRouterActionQueue::needsRefresh
          state      \* AppRouterActionQueue::state: the actions it includes

vars == <<kind, next, discarded, phase, prev, pending, last, needsRefresh, state>>

Init ==
  /\ kind = [a \in Ids |-> "refresh"]
  /\ next = [a \in Ids |-> None]
  /\ discarded = {}
  /\ phase = [a \in Ids |-> "new"]
  /\ prev = [a \in Ids |-> {}]
  /\ pending = None
  /\ last = None
  /\ needsRefresh = FALSE
  /\ state = {}

\* a is the next node to be created.
IsFresh(a) == phase[a] = "new" /\ \A b \in Ids : b < a => phase[b] # "new"

\* A node of type k for which the queue is empty: it is the last one and runs at once.
DispatchOnEmpty(a, k) ==
  /\ pending = None
  /\ kind' = [kind EXCEPT ![a] = k]
  /\ phase' = [phase EXCEPT ![a] = "running"]
  /\ prev' = [prev EXCEPT ![a] = state]
  /\ pending' = a
  /\ last' = a
  /\ UNCHANGED <<next, discarded, needsRefresh, state>>

\* Mutant: the navigation forgets the queue behind the action it discards.
NavigateAlone(a) ==
  /\ pending # None
  /\ kind' = [kind EXCEPT ![a] = "navigate"]
  /\ discarded' = discarded \cup {pending}
  /\ phase' = [phase EXCEPT ![a] = "running"]
  /\ prev' = [prev EXCEPT ![a] = state]
  /\ pending' = a
  /\ UNCHANGED <<next, last, needsRefresh, state>>

\* Mutant: the queue behind the navigation starts with the discarded action.
NavigateKeepPending(a) ==
  /\ pending # None
  /\ kind' = [kind EXCEPT ![a] = "navigate"]
  /\ discarded' = discarded \cup {pending}
  /\ next' = [next EXCEPT ![a] = pending]
  /\ phase' = [phase EXCEPT ![a] = "running"]
  /\ prev' = [prev EXCEPT ![a] = state]
  /\ pending' = a
  /\ UNCHANGED <<last, needsRefresh, state>>

\* A navigation discards the pending action, takes over the queue behind it and runs at once.
Navigate(a) ==
  /\ pending # None
  /\ kind' = [kind EXCEPT ![a] = "navigate"]
  /\ discarded' = discarded \cup {pending}
  /\ next' = [next EXCEPT ![a] = next[pending]]
  /\ phase' = [phase EXCEPT ![a] = "running"]
  /\ prev' = [prev EXCEPT ![a] = state]
  /\ pending' = a
  /\ UNCHANGED <<last, needsRefresh, state>>

\* Mutant: the new node becomes the head of the waiting ones.
EnqueueFirst(a, k) ==
  /\ pending # None
  /\ kind' = [kind EXCEPT ![a] = k]
  /\ next' = [next EXCEPT ![pending] = a, ![a] = next[pending]]
  /\ phase' = [phase EXCEPT ![a] = "queued"]
  /\ last' = a
  /\ UNCHANGED <<discarded, prev, pending, needsRefresh, state>>

\* Any other action goes behind the last node.
Enqueue(a, k) ==
  /\ pending # None
  /\ kind' = [kind EXCEPT ![a] = k]
  /\ next' = IF last = None THEN next ELSE [next EXCEPT ![last] = a]
  /\ phase' = [phase EXCEPT ![a] = "queued"]
  /\ last' = a
  /\ UNCHANGED <<discarded, prev, pending, needsRefresh, state>>

\* dispatchAction, called by the application.
DispatchQueueingAll(a, k) == DispatchOnEmpty(a, k) \/ Enqueue(a, k)     \* Mutant
Dispatch(a, k) ==
  \/ DispatchOnEmpty(a, k)
  \/ k = "navigate" /\ Navigate(a)
  \/ k # "navigate" /\ Enqueue(a, k)

\* Mutant: the refresh is looked for only when an action was pending.
RunRemainingOnly(a, outcome, wanted, now) ==
  /\ pending' = IF pending = None THEN None ELSE next[pending]
  /\ phase' = [b \in Ids |-> IF b = a THEN outcome ELSE IF b = pending' THEN "running" ELSE phase[b]]
  /\ prev' = [b \in Ids |-> IF b = pending' THEN now ELSE prev[b]]
  /\ needsRefresh' = wanted
  /\ UNCHANGED <<kind, next, discarded, last>>

\* runRemainingActions when action a has ended, the router state being now: the node behind the pending one,
\* if any, becomes the pending one and runs; with nothing pending, a refresh that is wanted is dispatched.
RunRemaining(a, outcome, wanted, now) ==
  \/ /\ pending # None
     /\ pending' = next[pending]
     /\ phase' = [b \in Ids |-> IF b = a THEN outcome ELSE IF b = next[pending] THEN "running" ELSE phase[b]]
     /\ prev' = [b \in Ids |-> IF b = next[pending] THEN now ELSE prev[b]]
     /\ needsRefresh' = wanted
     /\ UNCHANGED <<kind, next, discarded, last>>
  \/ /\ pending = None /\ ~wanted
     /\ phase' = [phase EXCEPT ![a] = outcome]
     /\ UNCHANGED <<kind, next, discarded, prev, pending, last, needsRefresh>>
  \/ /\ pending = None /\ wanted
     /\ \E r \in Ids :
          /\ IsFresh(r)
          /\ kind' = [kind EXCEPT ![r] = "refresh"]
          /\ phase' = [phase EXCEPT ![a] = outcome, ![r] = "running"]
          /\ prev' = [prev EXCEPT ![r] = now]
          /\ pending' = r
          /\ last' = r
     /\ needsRefresh' = FALSE
     /\ UNCHANGED <<next, discarded>>

\* Mutant: the result of a discarded action is applied.
HandleResultApplied(a, revalidated) ==
  /\ phase[a] = "running"
  /\ revalidated => kind[a] = "server-action"
  /\ state' = prev[a] \cup {a}
  /\ RunRemaining(a, "done", needsRefresh \/ (a \in discarded /\ revalidated), state')

\* handleResult: the result of a discarded action is dropped, but if it was a server action that revalidated
\* data a refresh is wanted.
HandleResult(a, revalidated) ==
  /\ phase[a] = "running"
  /\ revalidated => kind[a] = "server-action"
  /\ state' = IF a \in discarded THEN state ELSE prev[a] \cup {a}
  /\ RunRemaining(a, "done", needsRefresh \/ (a \in discarded /\ revalidated), state')

\* The reducer's promise is rejected.
HandleError(a) ==
  /\ phase[a] = "running"
  /\ UNCHANGED state
  /\ RunRemaining(a, "failed", needsRefresh, state)

Settle(a) == HandleError(a) \/ \E revalidated \in BOOLEAN : HandleResult(a, revalidated)

Next ==
  \/ \E a \in 1..MaxActions, k \in Kinds : IsFresh(a) /\ Dispatch(a, k)
  \/ \E a \in Ids : Settle(a)

\* Every reducer's promise settles: its requests end or fail. Nothing makes the application dispatch.
Spec == Init /\ [][Next]_vars /\ \A a \in Ids : WF_vars(Settle(a))

-----------------------------------------------------------------------------

\* Every variable has its type; only actions that have run are discarded.
TypeOK ==
  /\ kind \in [Ids -> Kinds]
  /\ next \in [Ids -> Ids \cup {None}]
  /\ discarded \subseteq {a \in Ids : phase[a] \in {"running", "done", "failed"}}
  /\ phase \in [Ids -> {"new", "queued", "running", "done", "failed"}]
  /\ prev \in [Ids -> SUBSET Ids]
  /\ pending \in Ids \cup {None}
  /\ last \in Ids \cup {None}
  /\ needsRefresh \in BOOLEAN
  /\ state \subseteq Ids

\* The result of an action that a navigation displaced is never part of the router state, neither by itself
\* nor through an action that ran on top of it.
DiscardedNeverApplied == discarded \cap state = {}

\* app-router-instance.ts: the rest of the queue "can't contain any earlier navigations, because we always
\* put those into actionQueue.pending" -- which is why a navigation discards at most one navigation.
NavigationsNeverWait == \A a \in Ids : next[a] # None => kind[next[a]] # "navigate"

\* pending only ever moves to an action that has not run yet, however many discarded actions end while others
\* run: no action runs twice.
RunsOnce == [][pending' \notin {pending, None} => phase[pending'] \in {"new", "queued"}]_vars

\* Actions that wait in line start in the order they were dispatched.
InOrder ==
  [][\A a \in Ids : phase[a] = "queued" /\ phase'[a] = "running" =>
       \A b \in Ids : b > a /\ kind[b] # "navigate" => phase[b] \in {"new", "queued"}]_vars

\* The nodes behind the pending one.
Within[n \in Nat] ==
  IF n = 0 THEN {pending} ELSE Within[n - 1] \cup {next[a] : a \in Within[n - 1] \ {None}}
Waiting == Within[2 * MaxActions] \ {pending, None}

\* An action behind the pending one eventually runs, whatever navigations get ahead of it and whichever
\* actions fail.
WaitingActionRuns == \A a \in Ids : a \in Waiting ~> phase[a] # "queued"

\* When a discarded server action revalidated data, the refresh it asks for is dispatched (which is what clears
\* the flag), whatever else is pending or ends in between.
RevalidationRefreshes == needsRefresh ~> ~needsRefresh

\* app-router-instance.ts of an action added to the end of the queue: "It will be started by
\* runRemainingActions after the previous action finishes".
QueuedActionRuns == \A a \in Ids : phase[a] = "queued" ~> phase[a] # "queued"

=============================================================================

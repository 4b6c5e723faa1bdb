---------------------------- MODULE ResponseCache ----------------------------
(***************************************************************************)
(* The response cache of the server (packages/next/src/server/             *)
(* response-cache/index.ts) with the two Batchers it is made of            *)
(* (packages/next/src/lib/batcher.ts): getBatcher lets the requests of a   *)
(* key that arrive together share one lookup, revalidateBatcher lets the   *)
(* lookups of a key share one render. A lookup that finds an entry answers *)
(* with it at once and renders in the background if the entry is stale.    *)
(*                                                                         *)
(* Every action is what the event loop runs between two awaits. A call of  *)
(* a Batcher is named by the request that started it. What a render        *)
(* produces is abstracted to the version of the content it has read.       *)
(***************************************************************************)
EXTENDS Naturals

CONSTANTS Requests,   \* the calls of get and revalidate
          OnDemand, Prefetches, Background, \* the requests that may be on-demand revalidations, whose calls of
                                            \* get are prefetches, and that may be calls of revalidate alone
          Keys,       \* cache keys
          MaxVersion, \* bound on how often the content of a key changes
          Null,       \* null and undefined
          Failed,     \* a rejected promise
          Pending     \* a promise that is not settled

ASSUME VersionAssumption == MaxVersion \in Nat
ASSUME RequestsAssumption == OnDemand \cup Prefetches \cup Background \subseteq Requests
ASSUME KeysAssumption == Keys # {}
ASSUME ValuesAssumption ==
  /\ Null # Failed /\ Null # Pending /\ Failed # Pending
  /\ Null \notin Requests

\* isStale is false or undefined, true, or -1.
Staleness == {"fresh", "stale", "-1"}
\* IncrementalResponseCacheEntry: the key it was rendered for, the version of the content, and isStale as
\* incrementalCache.get gives it.
Entries == [key : Keys, version : 0..MaxVersion, isStale : Staleness]

ASSUME EntriesAssumption == {Null, Failed, Pending} \cap Entries = {}

VARIABLES minimal_mode,      \* ResponseCache::minimal_mode
          previousCacheItem, \* its entry, Null when unset or past expiresAt
          cache,             \* the incremental cache: what get returns for a key
          content,           \* the version of what a render of a key reads
          request,           \* what get was called with
          caller,            \* a request: how far it is, the call it has joined, its answer
          lookup,            \* the calls of getBatcher, by the request that made them
          render,            \* the calls of revalidateBatcher
          getPending,        \* getBatcher.pending
          revalidatePending  \* revalidateBatcher.pending

shared == <<minimal_mode, previousCacheItem, cache, content>>
vars == <<minimal_mode, previousCacheItem, cache, content, request, caller, lookup, render,
          getPending, revalidatePending>>

\* The arguments of get that matter, and the version of the content when it was called.
Arguments == [key : Keys, isOnDemandRevalidate : BOOLEAN, revalidateOnlyGenerated : BOOLEAN,
              isPrefetch : BOOLEAN, since : 0..MaxVersion]

NoCaller == [phase |-> "idle", joined |-> Null, answer |-> Pending]
\* result is what handleGet returns, promise what the callers wait for: resolve may settle it earlier.
NoLookup == [phase |-> "none", previous |-> Null, joined |-> Null, result |-> Null, promise |-> Pending]
\* from is the version when the render began.
NoRender == [phase |-> "none", previous |-> Null, from |-> 0, result |-> Null, promise |-> Pending]

Init ==
  /\ minimal_mode \in BOOLEAN
  /\ previousCacheItem = Null
  /\ \E prerendered \in SUBSET Keys : \* by the build
       cache = [k \in Keys |-> IF k \in prerendered THEN [key |-> k, version |-> 0, isStale |-> "fresh"] ELSE Null]
  /\ content = [k \in Keys |-> 0]
  /\ request = [r \in Requests |-> CHOOSE q \in Arguments : TRUE] \* arbitrary until r is called
  /\ caller = [r \in Requests |-> NoCaller]
  /\ lookup = [r \in Requests |-> NoLookup]
  /\ render = [r \in Requests |-> NoRender]
  /\ getPending = [g \in Keys \X BOOLEAN |-> Null]
  /\ revalidatePending = [k \in Keys |-> Null]

-----------------------------------------------------------------------------
(* get and getBatcher *)

Ask(r, k, onDemand, onlyGenerated, prefetch) ==
  request' = [request EXCEPT ![r] =
    [key |-> k, isOnDemandRevalidate |-> onDemand, revalidateOnlyGenerated |-> onlyGenerated,
     isPrefetch |-> prefetch, since |-> content[k]]]

ItemFor(k) == IF minimal_mode /\ previousCacheItem # Null /\ previousCacheItem.key = k
                THEN previousCacheItem ELSE Null

\* get, up to the await of cacheKeyFn. Without a key it only calls the response generator.
Get(r, k, onDemand, onlyGenerated, prefetch) ==
  /\ caller[r].phase = "idle"
  /\ (onlyGenerated => onDemand) /\ (onDemand => r \in OnDemand) /\ (prefetch <=> r \in Prefetches)
  /\ Ask(r, k, onDemand, onlyGenerated, prefetch)
  /\ caller' = [caller EXCEPT ![r] =
       IF ItemFor(k) # Null THEN [@ EXCEPT !.phase = "answered", !.answer = ItemFor(k)]
                            ELSE [@ EXCEPT !.phase = "keying"]]
  /\ UNCHANGED <<shared, lookup, render, getPending, revalidatePending>>

\* Of a request: the key of getBatcher.
GetKey(r) == <<request[r].key, request[r].isOnDemandRevalidate>>

\* batch after the await: join the call that is pending, or start one.
JoinGet(r) ==
  /\ caller[r].phase = "keying"
  /\ \/ /\ getPending[GetKey(r)] # Null
        /\ caller' = [caller EXCEPT ![r].phase = "waiting", ![r].joined = getPending[GetKey(r)]]
        /\ UNCHANGED <<lookup, getPending>>
     \/ /\ getPending[GetKey(r)] = Null
        /\ caller' = [caller EXCEPT ![r].phase = "waiting", ![r].joined = r]
        /\ lookup' = [lookup EXCEPT ![r].phase = "scheduled"]
        /\ getPending' = [getPending EXCEPT ![GetKey(r)] = r]
  /\ UNCHANGED <<shared, request, render, revalidatePending>>

Answer(r) ==
  /\ caller[r].phase = "waiting"
  /\ lookup[caller[r].joined].promise # Pending
  /\ caller' = [caller EXCEPT ![r].phase = "answered", ![r].answer = lookup[caller[r].joined].promise]
  /\ UNCHANGED <<shared, request, lookup, render, getPending, revalidatePending>>

-----------------------------------------------------------------------------
(* handleGet, called by the scheduled function of getBatcher *)

\* Mutant: every lookup renders for itself.
RevalidateAlone(l, looked) ==
  /\ lookup' = [lookup EXCEPT ![l] = [looked EXCEPT !.phase = "revalidating", !.joined = l]]
  /\ render' = [render EXCEPT ![l].phase = "scheduled", ![l].previous = looked.previous]
  /\ revalidatePending' = [revalidatePending EXCEPT ![request[l].key] = l]

\* revalidateBatcher.batch(key, ...) for the lookup l: it has no cacheKeyFn, so nothing is awaited. looked
\* is the lookup as it is by now.
Revalidate(l, looked) ==
  LET k == request[l].key
      pending == revalidatePending[k]
  IN  /\ lookup' = [lookup EXCEPT ![l] = [looked EXCEPT !.phase = "revalidating",
                                           !.joined = IF pending # Null THEN pending ELSE l]]
      /\ IF pending # Null
           THEN UNCHANGED <<render, revalidatePending>>
           ELSE /\ render' = [render EXCEPT ![l].phase = "scheduled", ![l].previous = looked.previous]
                /\ revalidatePending' = [revalidatePending EXCEPT ![k] = l]

\* The next tick: in minimal mode there is no entry to look for.
StartLookup(l) ==
  /\ lookup[l].phase = "scheduled"
  /\ IF minimal_mode
       THEN Revalidate(l, lookup[l])
       ELSE /\ lookup' = [lookup EXCEPT ![l].phase = "reading"]
            /\ UNCHANGED <<render, revalidatePending>>
  /\ UNCHANGED <<shared, request, caller, getPending>>

\* The incremental cache is read; handleGet goes on later.
ReadCache(l) ==
  /\ lookup[l].phase = "reading"
  /\ lookup' = [lookup EXCEPT ![l].phase = "read", ![l].previous = cache[request[l].key]]
  /\ UNCHANGED <<shared, request, caller, render, getPending, revalidatePending>>

IsHit(l) == lookup[l].previous # Null /\ ~request[l].isOnDemandRevalidate

\* Mutant: an on-demand revalidation is answered from the cache, too.
HandleEntryAnyway(l) ==
  LET entry == lookup[l].previous
      looked == [lookup[l] EXCEPT !.promise = IF entry # Null THEN entry ELSE Pending]
  IN  /\ lookup[l].phase = "read"
      /\ IF entry # Null /\ (entry.isStale = "fresh" \/ request[l].isPrefetch)
           THEN /\ lookup' = [lookup EXCEPT ![l] = [looked EXCEPT !.phase = "returning", !.result = entry]]
                /\ UNCHANGED <<render, revalidatePending>>
           ELSE Revalidate(l, looked)
      /\ UNCHANGED <<shared, request, caller, getPending>>

\* Mutant: an entry is handed out only after it was looked at, so a stale one waits for its render.
HandleEntryBlocking(l) ==
  LET entry == lookup[l].previous
  IN  /\ lookup[l].phase = "read"
      /\ IF IsHit(l) /\ (entry.isStale = "fresh" \/ request[l].isPrefetch)
           THEN /\ lookup' = [lookup EXCEPT ![l].phase = "returning", ![l].result = entry, ![l].promise = entry]
                /\ UNCHANGED <<render, revalidatePending>>
           ELSE Revalidate(l, lookup[l])
      /\ UNCHANGED <<shared, request, caller, getPending>>

\* An entry answers every caller that has joined, now or while the background render runs, whatever isStale
\* says. If it is true or -1 and this is no prefetch, the entry is rendered anew: handleGet makes no
\* difference between the two, though types.ts:141 wants a blocking revalidate for -1.
HandleEntry(l) ==
  LET entry == lookup[l].previous
      looked == [lookup[l] EXCEPT !.promise = IF IsHit(l) THEN entry ELSE Pending]
  IN  /\ lookup[l].phase = "read"
      /\ IF IsHit(l) /\ (entry.isStale = "fresh" \/ request[l].isPrefetch)
           THEN /\ lookup' = [lookup EXCEPT ![l] = [looked EXCEPT !.phase = "returning", !.result = entry]]
                /\ UNCHANGED <<render, revalidatePending>>
           ELSE Revalidate(l, looked)
      /\ UNCHANGED <<shared, request, caller, getPending>>

\* handleGet goes on with the outcome of the render it has joined. An error is dropped (logged) if an
\* entry has been handed out.
EndRevalidate(l) ==
  LET outcome == render[lookup[l].joined].promise
  IN  /\ lookup[l].phase = "revalidating"
      /\ outcome # Pending
      /\ lookup' = [lookup EXCEPT ![l].phase = "returning",
                      ![l].result = IF outcome = Failed /\ IsHit(l) THEN Null ELSE outcome]
      /\ previousCacheItem' = IF minimal_mode /\ outcome = Null THEN Null ELSE previousCacheItem
      /\ UNCHANGED <<minimal_mode, cache, content, request, caller, render, getPending, revalidatePending>>

\* Mutant: a call that fails is forgotten and its promise is left alone.
EndGetNoReject(l) ==
  /\ lookup[l].phase = "returning"
  /\ lookup' = [lookup EXCEPT ![l].phase = "ended",
                  ![l].promise = IF @ = Pending /\ lookup[l].result # Failed THEN lookup[l].result ELSE @]
  /\ getPending' = [getPending EXCEPT ![GetKey(l)] = Null]
  /\ UNCHANGED <<shared, request, caller, render, revalidatePending>>

\* batch settles the promise, which does nothing if it is settled, and forgets the call.
EndGet(l) ==
  /\ lookup[l].phase = "returning"
  /\ lookup' = [lookup EXCEPT ![l].phase = "ended",
                  ![l].promise = IF @ = Pending THEN lookup[l].result ELSE @]
  /\ getPending' = [getPending EXCEPT ![GetKey(l)] = Null]
  /\ UNCHANGED <<shared, request, caller, render, revalidatePending>>

-----------------------------------------------------------------------------
(* handleRevalidate, called by the scheduled function of revalidateBatcher *)

\* The response generator is called.
StartRender(l) ==
  /\ render[l].phase = "scheduled"
  /\ render' = [render EXCEPT ![l].phase = "rendering", ![l].from = content[request[l].key]]
  /\ UNCHANGED <<shared, request, caller, lookup, getPending, revalidatePending>>

\* handleRevalidate has its result; what it still awaits changes nothing.
Produce(l, result) == render' = [render EXCEPT ![l].phase = "settling", ![l].result = result]

\* An on-demand revalidation with revalidateOnlyGenerated renders nothing that was not there before.
SkipsRender(l) ==
  /\ request[l].revalidateOnlyGenerated
  /\ render[l].previous = Null
  /\ ~minimal_mode

\* The generator returns null.
RenderSkipped(l) ==
  /\ render[l].phase = "rendering"
  /\ SkipsRender(l)
  /\ Produce(l, Null)
  /\ UNCHANGED <<shared, request, caller, lookup, getPending, revalidatePending>>

\* The generator returns a response, which has read the content some time during the render. It is kept if
\* it has a cacheControl; the memory layer of the incremental cache stores it at once.
Rendered(l) ==
  /\ render[l].phase = "rendering"
  /\ ~SkipsRender(l)
  /\ \E version \in render[l].from..content[request[l].key], cacheControl \in BOOLEAN :
       LET entry == [key |-> request[l].key, version |-> version, isStale |-> "fresh"]
       IN  /\ Produce(l, entry)
           /\ previousCacheItem' = IF cacheControl /\ minimal_mode THEN entry ELSE previousCacheItem
           /\ cache' = IF cacheControl /\ ~minimal_mode THEN [cache EXCEPT ![entry.key] = entry] ELSE cache
  /\ UNCHANGED <<minimal_mode, content, request, caller, lookup, getPending, revalidatePending>>

\* The render fails. The previous entry is stored again with a new revalidate time if its own
\* cacheControl is known (it need not be after a restart).
RenderFailed(l) ==
  /\ render[l].phase = "rendering"
  /\ ~SkipsRender(l)
  /\ Produce(l, Failed)
  /\ \E cacheControl \in BOOLEAN :
       cache' = IF cacheControl /\ render[l].previous # Null
                  THEN [cache EXCEPT ![request[l].key] = [render[l].previous EXCEPT !.isStale = "fresh"]]
                  ELSE cache
  /\ UNCHANGED <<minimal_mode, previousCacheItem, content, request, caller, lookup, getPending, revalidatePending>>

\* Mutant: a render that fails is forgotten and its promise is left alone.
EndRenderNoReject(l) ==
  /\ render[l].phase = "settling"
  /\ render' = [render EXCEPT ![l].phase = "ended",
                  ![l].promise = IF render[l].result = Failed THEN Pending ELSE render[l].result]
  /\ revalidatePending' = [revalidatePending EXCEPT ![request[l].key] = Null]
  /\ UNCHANGED <<shared, request, caller, lookup, getPending>>

\* batch settles the promise and forgets the call.
EndRender(l) ==
  /\ render[l].phase = "settling"
  /\ render' = [render EXCEPT ![l].phase = "ended", ![l].promise = render[l].result]
  /\ revalidatePending' = [revalidatePending EXCEPT ![request[l].key] = Null]
  /\ UNCHANGED <<shared, request, caller, lookup, getPending>>

\* revalidate, called directly for a dynamic request that has met a stale entry; only its errors are looked at.
BackgroundRevalidate(r, k) ==
  /\ caller[r].phase = "idle"
  /\ ~minimal_mode
  /\ Ask(r, k, FALSE, FALSE, FALSE)
  /\ caller' = [caller EXCEPT ![r].phase = "detached"]
  /\ IF revalidatePending[k] # Null
       THEN UNCHANGED <<render, revalidatePending>>
       ELSE /\ render' = [render EXCEPT ![r].phase = "scheduled"]
            /\ revalidatePending' = [revalidatePending EXCEPT ![k] = r]
  /\ UNCHANGED <<shared, lookup, getPending>>

-----------------------------------------------------------------------------
(* The world around: the revalidate time of an entry passes, it is evicted, its tags are updated *)

\* The revalidate time has passed, which is looked at before the tags are, or a tag is stale.
BecomeStale(k) ==
  /\ cache[k] # Null
  /\ cache[k].isStale # "stale"
  /\ cache' = [cache EXCEPT ![k].isStale = "stale"]
  /\ UNCHANGED <<minimal_mode, previousCacheItem, content, request, caller, lookup, render,
                 getPending, revalidatePending>>

\* updateTag has expired a tag of the entry, or it was evicted, and the content may have changed. The file
\* system cache returns no entry any more; of other cache handlers get returns the entry with isStale -1, or
\* true if its revalidate time has passed.
Expire(k) ==
  /\ \E outcome \in {Null} \cup (IF cache[k] = Null THEN {} ELSE {[cache[k] EXCEPT !.isStale = "-1"]})
                 \cup {e \in {cache[k]} : e # Null /\ e.isStale = "stale"} :
       cache' = [cache EXCEPT ![k] = outcome]
  /\ \E version \in {content[k], content[k] + 1} \cap 0..MaxVersion :
       content' = [content EXCEPT ![k] = version]
  /\ UNCHANGED <<minimal_mode, previousCacheItem, request, caller, lookup, render, getPending, revalidatePending>>

\* expiresAt of the previous item has passed.
ItemExpires ==
  /\ previousCacheItem # Null
  /\ previousCacheItem' = Null
  /\ UNCHANGED <<minimal_mode, cache, content, request, caller, lookup, render, getPending, revalidatePending>>

-----------------------------------------------------------------------------
EventLoop ==
  \E r \in Requests :
    \/ JoinGet(r) \/ StartLookup(r) \/ ReadCache(r) \/ HandleEntry(r) \/ EndRevalidate(r) \/ EndGet(r)
    \/ StartRender(r) \/ RenderSkipped(r) \/ Rendered(r) \/ RenderFailed(r) \/ EndRender(r)
    \/ Answer(r)

Next ==
  \/ EventLoop
  \/ \E r \in Requests, k \in Keys, onDemand, onlyGenerated, prefetch \in BOOLEAN :
       Get(r, k, onDemand, onlyGenerated, prefetch)
  \/ \E r \in Background, k \in Keys : BackgroundRevalidate(r, k)
  \/ \E k \in Keys : BecomeStale(k) \/ Expire(k)
  \/ ItemExpires

\* What is scheduled runs, and a response generator and the cache handler settle.
Spec == Init /\ [][Next]_vars /\ WF_vars(EventLoop)

-----------------------------------------------------------------------------
Phases == {"idle", "keying", "waiting", "answered", "detached"}
LookupPhases == {"none", "scheduled", "reading", "read", "revalidating", "returning", "ended"}
RenderPhases == {"none", "scheduled", "rendering", "settling", "ended"}

CallerType == [phase : Phases, joined : Requests \cup {Null}, answer : Entries \cup {Null, Failed, Pending}]
LookupType == [phase : LookupPhases, previous : Entries \cup {Null}, joined : Requests \cup {Null},
               result : Entries \cup {Null, Failed}, promise : Entries \cup {Null, Failed, Pending}]
RenderType == [phase : RenderPhases, previous : Entries \cup {Null}, from : 0..MaxVersion,
               result : Entries \cup {Null, Failed}, promise : Entries \cup {Null, Failed, Pending}]

\* The types of the state: an entry, null, an error and a promise that is not settled are told apart, and
\* nothing goes on with a promise that is not settled.
TypeOK ==
  /\ minimal_mode \in BOOLEAN
  /\ previousCacheItem \in Entries \cup {Null}
  /\ cache \in [Keys -> Entries \cup {Null}]
  /\ content \in [Keys -> 0..MaxVersion]
  /\ request \in [Requests -> Arguments]
  /\ caller \in [Requests -> CallerType]
  /\ lookup \in [Requests -> LookupType]
  /\ render \in [Requests -> RenderType]
  /\ getPending \in [Keys \X BOOLEAN -> Requests \cup {Null}]
  /\ revalidatePending \in [Keys -> Requests \cup {Null}]

LookupRuns(l) == lookup[l].phase \notin {"none", "ended"}
RenderRuns(l) == render[l].phase \notin {"none", "ended"}

\* "It will only allow one call to the function to execute at a time" (batcher.ts:22-23), for the lookups: what
\* pending holds is the one lookup that runs for its key, from the tick it was asked for until the
\* background render it may have started is over.
OneLookupPerKey ==
  /\ \A l \in Requests : LookupRuns(l) => getPending[GetKey(l)] = l
  /\ \A g \in Keys \X BOOLEAN : getPending[g] # Null => LookupRuns(getPending[g]) /\ GetKey(getPending[g]) = g

\* The same for renders: whatever requests, on-demand revalidations and background revalidations come
\* together, a key is rendered once at a time, and what has ended is not joined any more.
OneRenderPerKey ==
  /\ \A l \in Requests : RenderRuns(l) => revalidatePending[request[l].key] = l
  /\ \A k \in Keys : revalidatePending[k] # Null =>
       RenderRuns(revalidatePending[k]) /\ request[revalidatePending[k]].key = k

\* Whatever comes together, each batcher runs one call of a key at a time, and joins no call that has ended.
OneCallPerKey == OneLookupPerKey /\ OneRenderPerKey

\* Nobody waits for a promise that nothing will settle, however calls fail or end early (batcher.ts:78-90):
\* it is settled or what settles it still runs.
NobodyForgotten ==
  \A r \in Requests :
    /\ caller[r].phase = "waiting" =>
         LET l == lookup[caller[r].joined] IN l.promise # Pending \/ LookupRuns(caller[r].joined)
    /\ lookup[r].phase = "revalidating" =>
         LET p == render[lookup[r].joined] IN p.promise # Pending \/ RenderRuns(lookup[r].joined)

\* A request whose lookup found an entry that is fresh or may be used while it is revalidated is answered by
\* that entry and by nothing else, whether the background render fails, produces nothing or joins the render
\* of another caller, and whenever the request came in between (index.ts:173-176 and 207-213). Nothing is said
\* of an entry with isStale -1, for which types.ts:141 wants a blocking revalidate that the code does not do.
HitIsServed ==
  \A r \in Requests :
    LET found == lookup[caller[r].joined].previous
    IN  /\ caller[r].phase = "answered" /\ caller[r].joined # Null
        /\ ~request[r].isOnDemandRevalidate
        /\ found # Null /\ found.isStale # "-1"
        => caller[r].answer = found

\* An on-demand revalidation that waits for a lookup is answered by the outcome of a render, never from the
\* cache and never by the lookup of an ordinary request, whose promise settles early (index.ts:26-27).
OnDemandIsRendered ==
  \A r \in Requests :
    caller[r].phase = "answered" /\ caller[r].joined # Null /\ request[r].isOnDemandRevalidate =>
      LET l == lookup[caller[r].joined]
      IN  l.joined # Null /\ caller[r].answer = render[l.joined].promise

\* Every call of get is answered, whatever it joins and whatever fails meanwhile: again and again nobody waits
\* (a request is made once, so one that waited for ever would make this false).
EveryCallAnswered == []<>(\A r \in Requests : caller[r].phase \notin {"keying", "waiting"})

\* A request that finds nothing and renders for itself is answered by content no older than the last update
\* made before it was called (index.ts:281-340), whatever an earlier render stores meanwhile. One that joins
\* the render of another request may be answered by older content.
OwnRenderIsFresh ==
  \A r \in Requests :
    /\ caller[r].phase = "answered" /\ caller[r].answer \in Entries
    /\ caller[r].joined = r /\ lookup[r].joined = r
    /\ ~IsHit(r)
    => caller[r].answer.version >= request[r].since
=============================================================================

------------------------- MODULE ResponseCache_proof -------------------------
(***************************************************************************)
(* Safety of the response cache, for any requests and keys: calls are      *)
(* shared as the batchers promise, nobody waits for a promise that nothing *)
(* settles, and who settles it decides what a request is answered.         *)
(***************************************************************************)
EXTENDS ResponseCache, TLAPS

\* A request has calls of its own only after it was made, and waits for a lookup of its own kind.
Calls ==
  \A r \in Requests :
    /\ caller[r].phase \in {"idle", "keying"} =>
         caller[r].joined = Null /\ lookup[r] = NoLookup /\ render[r] = NoRender
    /\ caller[r].phase = "detached" => caller[r].joined = Null /\ lookup[r] = NoLookup
    /\ caller[r].phase = "waiting" => caller[r].joined # Null
    /\ caller[r].joined # Null =>
         lookup[caller[r].joined].phase # "none" /\ GetKey(caller[r].joined) = GetKey(r)
    /\ caller[r].phase = "answered" /\ caller[r].joined # Null =>
         caller[r].answer = lookup[caller[r].joined].promise /\ caller[r].answer # Pending

\* Until a lookup has an entry or a render nothing is settled; then a hit has settled it, or the render does.
LookupFits(l) ==
  /\ lookup[l].phase \in {"none", "scheduled", "reading"} => lookup[l].previous = Null
  /\ lookup[l].phase \in {"none", "scheduled", "reading", "read"} =>
       lookup[l].joined = Null /\ lookup[l].promise = Pending
  /\ lookup[l].phase \in {"scheduled", "reading", "read"} => render[l] = NoRender
  /\ lookup[l].phase \in {"revalidating", "returning", "ended"} /\ IsHit(l) =>
       lookup[l].promise = lookup[l].previous
  /\ lookup[l].phase \in {"revalidating", "returning"} /\ ~IsHit(l) => lookup[l].promise = Pending
  /\ lookup[l].phase \in {"returning", "ended"} /\ ~IsHit(l) =>
       lookup[l].joined # Null /\ lookup[l].result = render[lookup[l].joined].promise
  /\ lookup[l].phase = "ended" /\ ~IsHit(l) => lookup[l].promise = lookup[l].result
  /\ lookup[l].phase = "revalidating" => lookup[l].joined # Null
  /\ lookup[l].joined # Null => render[lookup[l].joined].phase # "none"
  /\ lookup[l].joined # Null /\ lookup[l].phase # "revalidating" => render[lookup[l].joined].phase = "ended"

Lookups == \A l \in Requests : LookupFits(l)

\* The promise of a render is settled when it ends, and not before.
Renders == \A l \in Requests : render[l].promise = Pending <=> render[l].phase # "ended"

Inv == TypeOK /\ Calls /\ Lookups /\ Renders /\ OneLookupPerKey /\ OneRenderPerKey

USE ValuesAssumption, EntriesAssumption, RequestsAssumption, VersionAssumption, KeysAssumption

\* The empty records of the initial state have their types.
LEMMA EmptyTypes ==
  /\ NoCaller \in CallerType /\ NoLookup \in LookupType /\ NoRender \in RenderType
  /\ Arguments # {}
<1>1. NoCaller \in CallerType /\ NoLookup \in LookupType /\ NoRender \in RenderType
  BY DEF NoCaller, NoLookup, NoRender, CallerType, LookupType, RenderType, Phases, LookupPhases, RenderPhases
<1>2. PICK k \in Keys : TRUE
  OBVIOUS
<1>3. [key |-> k, isOnDemandRevalidate |-> FALSE, revalidateOnlyGenerated |-> FALSE, isPrefetch |-> FALSE,
       since |-> 0] \in Arguments
  BY DEF Arguments
<1> QED BY <1>1, <1>3

LEMMA InitInv == Init => Inv
<1> SUFFICES ASSUME Init PROVE Inv
  OBVIOUS
<1>1. TypeOK
  <2>1. request \in [Requests -> Arguments]
    BY EmptyTypes DEF Init
  <2>2. cache \in [Keys -> Entries \cup {Null}]
    BY DEF Init, Entries, Staleness
  <2>3. content \in [Keys -> 0..MaxVersion]
    BY DEF Init
  <2>4. getPending \in [Keys \X BOOLEAN -> Requests \cup {Null}]
    BY DEF Init
  <2> QED BY <2>1, <2>2, <2>3, <2>4, EmptyTypes DEF Init, TypeOK
<1>2. Calls /\ Lookups /\ Renders
  BY DEF Init, Calls, Lookups, LookupFits, Renders, NoCaller, NoLookup, NoRender
<1>3. OneLookupPerKey
  <2>1. \A g \in Keys \X BOOLEAN : getPending[g] = Null
    BY DEF Init
  <2> QED BY <2>1 DEF Init, OneLookupPerKey, LookupRuns, NoLookup
<1>4. OneRenderPerKey
  BY DEF Init, OneRenderPerKey, RenderRuns, NoRender
<1> QED BY <1>1, <1>2, <1>3, <1>4 DEF Inv

\* What TypeOK says of one request.
LEMMA Types ==
  ASSUME TypeOK, NEW r \in Requests
  PROVE  /\ request[r] \in Arguments /\ request[r].key \in Keys /\ GetKey(r) \in Keys \X BOOLEAN
         /\ caller[r] \in CallerType /\ caller[r].joined \in Requests \cup {Null}
         /\ lookup[r] \in LookupType /\ lookup[r].joined \in Requests \cup {Null}
         /\ lookup[r].previous \in Entries \cup {Null} /\ lookup[r].result \in Entries \cup {Null, Failed}
         /\ lookup[r].promise \in Entries \cup {Null, Failed, Pending}
         /\ render[r] \in RenderType /\ render[r].previous \in Entries \cup {Null}
         /\ render[r].result \in Entries \cup {Null, Failed}
         /\ render[r].promise \in Entries \cup {Null, Failed, Pending}
         /\ render[r].from \in 0..MaxVersion
         /\ cache[request[r].key] \in Entries \cup {Null}
         /\ content[request[r].key] \in 0..MaxVersion
         /\ getPending[GetKey(r)] \in Requests \cup {Null}
         /\ revalidatePending[request[r].key] \in Requests \cup {Null}
<1>1. request[r] \in Arguments /\ caller[r] \in CallerType /\ lookup[r] \in LookupType /\ render[r] \in RenderType
  BY DEF TypeOK
<1>2. request[r].key \in Keys /\ GetKey(r) \in Keys \X BOOLEAN
  BY <1>1 DEF Arguments, GetKey
<1>3. caller[r].joined \in Requests \cup {Null}
  BY <1>1 DEF CallerType
<1>4. /\ lookup[r].joined \in Requests \cup {Null} /\ lookup[r].previous \in Entries \cup {Null}
      /\ lookup[r].result \in Entries \cup {Null, Failed}
      /\ lookup[r].promise \in Entries \cup {Null, Failed, Pending}
  BY <1>1 DEF LookupType
<1>5. /\ render[r].previous \in Entries \cup {Null} /\ render[r].result \in Entries \cup {Null, Failed}
      /\ render[r].promise \in Entries \cup {Null, Failed, Pending} /\ render[r].from \in 0..MaxVersion
  BY <1>1 DEF RenderType
<1> QED BY <1>1, <1>2, <1>3, <1>4, <1>5 DEF TypeOK

\* A call stays of its type when its phase and one more field change.
LEMMA LookupUpdates ==
  ASSUME NEW x \in LookupType, NEW p \in LookupPhases
  PROVE  /\ [x EXCEPT !.phase = p] \in LookupType
         /\ \A e \in Entries \cup {Null} : [x EXCEPT !.phase = p, !.previous = e] \in LookupType
         /\ \A v \in Entries \cup {Null, Failed} : [x EXCEPT !.phase = p, !.result = v] \in LookupType
         /\ \A v \in Entries \cup {Null, Failed, Pending} : [x EXCEPT !.phase = p, !.promise = v] \in LookupType
BY DEF LookupType

LEMMA RenderUpdates ==
  ASSUME NEW x \in RenderType, NEW p \in RenderPhases
  PROVE  /\ [x EXCEPT !.phase = p] \in RenderType
         /\ \A e \in Entries \cup {Null} : [x EXCEPT !.phase = p, !.previous = e] \in RenderType
         /\ \A version \in 0..MaxVersion : [x EXCEPT !.phase = p, !.from = version] \in RenderType
         /\ \A v \in Entries \cup {Null, Failed} :
              /\ [x EXCEPT !.phase = p, !.result = v] \in RenderType
              /\ [x EXCEPT !.phase = p, !.promise = v] \in RenderType
BY DEF RenderType

LEMMA CallerUpdates ==
  ASSUME NEW x \in CallerType, NEW p \in Phases
  PROVE  /\ [x EXCEPT !.phase = p] \in CallerType
         /\ \A l \in Requests : [x EXCEPT !.phase = p, !.joined = l] \in CallerType
         /\ \A v \in Entries \cup {Null, Failed, Pending} : [x EXCEPT !.phase = p, !.answer = v] \in CallerType
BY DEF CallerType

LEMMA JoinGetInv == ASSUME Inv, NEW r \in Requests, JoinGet(r) PROVE Inv'
<1> USE DEF Inv
<1>1. TypeOK'
  <2>1. [caller[r] EXCEPT !.phase = "waiting", !.joined = r] \in CallerType
    BY Types, CallerUpdates DEF Phases
  <2>2. getPending[GetKey(r)] # Null =>
        [caller[r] EXCEPT !.phase = "waiting", !.joined = getPending[GetKey(r)]] \in CallerType
    BY Types, CallerUpdates DEF Phases
  <2>3. [lookup[r] EXCEPT !.phase = "scheduled"] \in LookupType
    BY Types, LookupUpdates DEF LookupPhases
  <2>4. GetKey(r) \in Keys \X BOOLEAN
    BY Types
  <2>5. caller' \in [Requests -> CallerType]
    <3>1. CASE getPending[GetKey(r)] = Null
      <4>1. caller' = [caller EXCEPT ![r] = [caller[r] EXCEPT !.phase = "waiting", !.joined = r]]
        BY <3>1 DEF JoinGet
      <4> QED BY <2>1, <4>1 DEF TypeOK
    <3>2. CASE getPending[GetKey(r)] # Null
      <4>1. caller' = [caller EXCEPT ![r] =
              [caller[r] EXCEPT !.phase = "waiting", !.joined = getPending[GetKey(r)]]]
        BY <3>2 DEF JoinGet
      <4> QED BY <2>2, <3>2, <4>1 DEF TypeOK
    <3> QED BY <3>1, <3>2
  <2>6. lookup' \in [Requests -> LookupType]
    BY <2>3 DEF TypeOK, JoinGet
  <2>7. getPending' \in [Keys \X BOOLEAN -> Requests \cup {Null}]
    BY <2>4 DEF TypeOK, JoinGet
  <2> QED BY <2>5, <2>6, <2>7 DEF TypeOK, JoinGet, shared
<1>2. Calls'
  BY DEF Calls, TypeOK, CallerType, LookupType, RenderType, Phases, LookupPhases, RenderPhases, JoinGet, GetKey,
     shared, Arguments, NoLookup, NoRender, Lookups, LookupFits, IsHit
<1>3. Lookups'
  BY DEF Lookups, LookupFits, Calls, Renders, TypeOK, CallerType, LookupType, RenderType, Phases, LookupPhases,
     RenderPhases, JoinGet, GetKey, IsHit, shared, Arguments, NoLookup, NoRender
<1>4. Renders'
  BY DEF Renders, JoinGet
<1>5. OneLookupPerKey'
  BY DEF OneLookupPerKey, Calls, TypeOK, CallerType, LookupType, RenderType, Phases, LookupPhases, RenderPhases,
     JoinGet, GetKey, LookupRuns, shared, Arguments
<1>6. OneRenderPerKey'
  BY DEF OneRenderPerKey, RenderRuns, JoinGet
<1> QED BY <1>1, <1>2, <1>3, <1>4, <1>5, <1>6

LEMMA AnswerInv == ASSUME Inv, NEW r \in Requests, Answer(r) PROVE Inv'
<1> USE DEF Inv
<1>1. TypeOK'
  <2>1. caller[r].joined \in Requests
    BY Types DEF Calls, Answer
  <2>2. lookup[caller[r].joined].promise \in Entries \cup {Null, Failed, Pending}
    BY <2>1, Types
  <2>3. [caller[r] EXCEPT !.phase = "answered", !.answer = lookup[caller[r].joined].promise] \in CallerType
    BY <2>2, Types, CallerUpdates DEF Phases
  <2> QED BY <2>1, <2>2, <2>3 DEF TypeOK, Answer, shared
<1>2. Calls'
  BY DEF Calls, TypeOK, CallerType, LookupType, RenderType, Phases, LookupPhases, RenderPhases, Answer, GetKey,
     shared, Arguments, NoLookup, NoRender, Lookups, LookupFits, IsHit
<1>3. Lookups'
  BY DEF Lookups, LookupFits, Calls, Renders, TypeOK, CallerType, LookupType, RenderType, Phases, LookupPhases,
     RenderPhases, Answer, IsHit, shared, Arguments, NoLookup, NoRender
<1>4. Renders'
  BY DEF Renders, Answer
<1>5. OneLookupPerKey'
  BY DEF OneLookupPerKey, LookupRuns, GetKey, Answer
<1>6. OneRenderPerKey'
  BY DEF OneRenderPerKey, RenderRuns, Answer
<1> QED BY <1>1, <1>2, <1>3, <1>4, <1>5, <1>6

LEMMA ReadCacheInv == ASSUME Inv, NEW r \in Requests, ReadCache(r) PROVE Inv'
<1> USE DEF Inv
<1>1. TypeOK'
  <2>1. [lookup[r] EXCEPT !.phase = "read", !.previous = cache[request[r].key]] \in LookupType
    BY Types, LookupUpdates DEF LookupPhases
  <2> QED BY <2>1 DEF TypeOK, ReadCache, shared
<1>2. Calls'
  BY DEF Calls, TypeOK, CallerType, LookupType, RenderType, Phases, LookupPhases, RenderPhases, ReadCache, GetKey,
     shared, Arguments, NoLookup, NoRender, Lookups, LookupFits, IsHit
<1>3. Lookups'
  BY DEF Lookups, LookupFits, Calls, Renders, TypeOK, CallerType, LookupType, RenderType, Phases, LookupPhases,
     RenderPhases, ReadCache, IsHit, shared, Arguments, NoLookup, NoRender
<1>4. Renders'
  BY DEF Renders, ReadCache
<1>5. OneLookupPerKey'
  <2>1. \A l \in Requests : LookupRuns(l)' = LookupRuns(l) /\ GetKey(l)' = GetKey(l)
    BY DEF TypeOK, LookupType, LookupRuns, GetKey, ReadCache, shared
  <2> QED BY <2>1 DEF OneLookupPerKey, TypeOK, ReadCache
<1>6. OneRenderPerKey'
  BY DEF OneRenderPerKey, RenderRuns, ReadCache
<1> QED BY <1>1, <1>2, <1>3, <1>4, <1>5, <1>6

LEMMA EndRevalidateInv == ASSUME Inv, NEW r \in Requests, EndRevalidate(r) PROVE Inv'
<1> USE DEF Inv
<1>1. TypeOK'
  <2>1. lookup[r].joined \in Requests
    BY Types DEF Lookups, LookupFits, EndRevalidate
  <2>2. render[lookup[r].joined].promise \in Entries \cup {Null, Failed}
    BY <2>1, Types DEF EndRevalidate
  <2>3. PICK result \in Entries \cup {Null, Failed} :
        lookup' = [lookup EXCEPT ![r].phase = "returning", ![r].result = result]
    BY <2>2 DEF EndRevalidate
  <2>4. [lookup[r] EXCEPT !.phase = "returning", !.result = result] \in LookupType
    BY Types, LookupUpdates DEF LookupPhases
  <2>5. lookup' \in [Requests -> LookupType]
    BY <2>3, <2>4 DEF TypeOK
  <2>6. previousCacheItem' \in Entries \cup {Null}
    BY DEF TypeOK, EndRevalidate
  <2> QED BY <2>5, <2>6 DEF TypeOK, EndRevalidate
<1>2. Calls'
  BY DEF Calls, TypeOK, CallerType, LookupType, RenderType, Phases, LookupPhases, RenderPhases, EndRevalidate,
     IsHit, GetKey, shared, Arguments, NoLookup, NoRender, Lookups, LookupFits
<1>3. Lookups'
  <2>1. PICK result \in Entries \cup {Null, Failed} :
        /\ lookup' = [lookup EXCEPT ![r].phase = "returning", ![r].result = result]
        /\ ~IsHit(r) => result = render[lookup[r].joined].promise
    BY <1>1, Types DEF EndRevalidate, IsHit, TypeOK, Lookups, LookupFits, LookupType
  <2>2. /\ lookup'[r].phase = "returning" /\ lookup'[r].result = result
        /\ \A l \in Requests :
             /\ l # r => lookup'[l] = lookup[l]
             /\ lookup'[l].previous = lookup[l].previous /\ lookup'[l].joined = lookup[l].joined
             /\ lookup'[l].promise = lookup[l].promise
    BY <2>1 DEF TypeOK, LookupType
  <2>3. /\ lookup[r].phase = "revalidating" /\ render[lookup[r].joined].promise # Pending
        /\ UNCHANGED <<request, render>>
    BY DEF EndRevalidate
  <2>4. lookup[r].joined \in Requests
    BY <2>3, Types DEF Lookups, LookupFits
  <2>5. render[lookup[r].joined].phase = "ended"
    BY <2>3, <2>4 DEF Renders
  <2>6. \A l \in Requests : IsHit(l)' = IsHit(l)
    BY <2>2, <2>3 DEF IsHit
  <2>7. ASSUME NEW l \in Requests, l # r PROVE LookupFits(l)'
    BY <2>2, <2>3, <2>6, <2>7 DEF Lookups, LookupFits
  <2>8. LookupFits(r)'
    <3>1. LookupFits(r) /\ IsHit(r)' = IsHit(r)
      BY <2>6 DEF Lookups
    <3>2. /\ lookup'[r].previous = lookup[r].previous /\ lookup'[r].joined = lookup[r].joined
          /\ lookup'[r].promise = lookup[r].promise
      BY <2>2
    <3>3. lookup'[r].phase = "returning" /\ (~IsHit(r) => lookup'[r].result = render[lookup[r].joined].promise)
      BY <2>1, <2>2
    <3>4. lookup[r].joined # Null
      BY <2>4
    <3> QED BY <2>3, <2>5, <3>1, <3>2, <3>3, <3>4 DEF LookupFits
  <2> QED BY <2>7, <2>8 DEF Lookups
<1>4. Renders'
  BY DEF Renders, EndRevalidate
<1>5. OneLookupPerKey'
  <2>1. \A l \in Requests : LookupRuns(l)' = LookupRuns(l) /\ GetKey(l)' = GetKey(l)
    BY DEF TypeOK, LookupType, LookupRuns, GetKey, EndRevalidate
  <2> QED BY <2>1 DEF OneLookupPerKey, TypeOK, EndRevalidate
<1>6. OneRenderPerKey'
  BY DEF OneRenderPerKey, RenderRuns, EndRevalidate
<1> QED BY <1>1, <1>2, <1>3, <1>4, <1>5, <1>6

LEMMA EndGetInv == ASSUME Inv, NEW r \in Requests, EndGet(r) PROVE Inv'
<1> USE DEF Inv
<1>1. TypeOK'
  <2>1. PICK promise \in Entries \cup {Null, Failed, Pending} :
        lookup' = [lookup EXCEPT ![r].phase = "ended", ![r].promise = promise]
    BY Types DEF EndGet
  <2>2. [lookup[r] EXCEPT !.phase = "ended", !.promise = promise] \in LookupType
    BY Types, LookupUpdates DEF LookupPhases
  <2>3. GetKey(r) \in Keys \X BOOLEAN
    BY Types
  <2>4. lookup' \in [Requests -> LookupType]
    BY <2>1, <2>2 DEF TypeOK
  <2>5. getPending' \in [Keys \X BOOLEAN -> Requests \cup {Null}]
    BY <2>3 DEF TypeOK, EndGet
  <2> QED BY <2>4, <2>5 DEF TypeOK, EndGet, shared
<1>2. Calls'
  BY DEF Calls, TypeOK, CallerType, LookupType, RenderType, Phases, LookupPhases, RenderPhases, EndGet, GetKey,
     shared, Arguments, NoLookup, NoRender, Lookups, LookupFits, IsHit
<1>3. Lookups'
  BY DEF Lookups, LookupFits, Calls, Renders, TypeOK, CallerType, LookupType, RenderType, Phases, LookupPhases,
     RenderPhases, EndGet, GetKey, IsHit, shared, Arguments, NoLookup, NoRender
<1>4. Renders'
  BY DEF Renders, EndGet
<1>5. OneLookupPerKey'
  BY DEF OneLookupPerKey, Calls, TypeOK, CallerType, LookupType, RenderType, Phases, LookupPhases, RenderPhases,
     EndGet, GetKey, LookupRuns, shared, Arguments
<1>6. OneRenderPerKey'
  BY DEF OneRenderPerKey, RenderRuns, EndGet
<1> QED BY <1>1, <1>2, <1>3, <1>4, <1>5, <1>6

\* The rest of the state only depends on which renders have begun, which have ended, and their promises.
LEMMA RenderKept ==
  ASSUME Inv, UNCHANGED <<request, caller, lookup, getPending, revalidatePending>>, TypeOK',
         \A l \in Requests : render'[l].promise = render[l].promise,
         \A l \in Requests :
           /\ (render'[l].phase = "none") = (render[l].phase = "none")
           /\ (render'[l].phase = "ended") = (render[l].phase = "ended")
           /\ render[l] = NoRender => render'[l] = NoRender
  PROVE  Inv'
<1> USE DEF Inv
<1>1. Calls'
  BY DEF Calls, GetKey
<1>2. Lookups'
  <2> SUFFICES ASSUME NEW l \in Requests PROVE LookupFits(l)'
    BY DEF Lookups
  <2>1. LookupFits(l) /\ IsHit(l)' = IsHit(l)
    BY DEF Lookups, IsHit
  <2>2. lookup[l].joined \in Requests \cup {Null}
    BY Types
  <2>3. lookup[l].joined # Null =>
          /\ render'[lookup[l].joined].promise = render[lookup[l].joined].promise
          /\ (render'[lookup[l].joined].phase = "none") = (render[lookup[l].joined].phase = "none")
          /\ (render'[lookup[l].joined].phase = "ended") = (render[lookup[l].joined].phase = "ended")
    BY <2>2
  <2>4. render[l] = NoRender => render'[l] = NoRender
    OBVIOUS
  <2> QED BY <2>1, <2>3, <2>4 DEF LookupFits
<1>3. Renders'
  BY DEF Renders
<1>4. OneLookupPerKey'
  BY DEF OneLookupPerKey, LookupRuns, GetKey
<1>5. OneRenderPerKey'
  <2>1. \A l \in Requests : RenderRuns(l)' = RenderRuns(l)
    BY DEF RenderRuns
  <2> QED BY <2>1 DEF OneRenderPerKey, TypeOK
<1> QED BY <1>1, <1>2, <1>3, <1>4, <1>5

LEMMA StartRenderInv == ASSUME Inv, NEW r \in Requests, StartRender(r) PROVE Inv'
<1> USE DEF Inv
<1>1. TypeOK'
  <2>1. [render[r] EXCEPT !.phase = "rendering", !.from = content[request[r].key]] \in RenderType
    BY Types, RenderUpdates DEF RenderPhases
  <2> QED BY <2>1 DEF TypeOK, StartRender, shared
<1>2. /\ \A l \in Requests : render'[l].promise = render[l].promise
      /\ \A l \in Requests :
           /\ (render'[l].phase = "none") = (render[l].phase = "none")
           /\ (render'[l].phase = "ended") = (render[l].phase = "ended")
           /\ render[l] = NoRender => render'[l] = NoRender
  BY DEF TypeOK, RenderType, NoRender, StartRender
<1>3. UNCHANGED <<request, caller, lookup, getPending, revalidatePending>>
  BY DEF StartRender
<1> QED BY <1>1, <1>2, <1>3, RenderKept

LEMMA RenderSkippedInv == ASSUME Inv, NEW r \in Requests, RenderSkipped(r) PROVE Inv'
<1> USE DEF Inv
<1>1. TypeOK'
  <2>1. [render[r] EXCEPT !.phase = "settling", !.result = Null] \in RenderType
    BY Types, RenderUpdates DEF RenderPhases
  <2> QED BY <2>1 DEF TypeOK, RenderSkipped, Produce, shared
<1>2. /\ \A l \in Requests : render'[l].promise = render[l].promise
      /\ \A l \in Requests :
           /\ (render'[l].phase = "none") = (render[l].phase = "none")
           /\ (render'[l].phase = "ended") = (render[l].phase = "ended")
           /\ render[l] = NoRender => render'[l] = NoRender
  BY DEF TypeOK, RenderType, NoRender, RenderSkipped, Produce
<1>3. UNCHANGED <<request, caller, lookup, getPending, revalidatePending>>
  BY DEF RenderSkipped
<1> QED BY <1>1, <1>2, <1>3, RenderKept

LEMMA RenderFailedInv == ASSUME Inv, NEW r \in Requests, RenderFailed(r) PROVE Inv'
<1> USE DEF Inv
<1>1. TypeOK'
  <2>1. [render[r] EXCEPT !.phase = "settling", !.result = Failed] \in RenderType
    BY Types, RenderUpdates DEF RenderPhases
  <2>2. render[r].previous # Null => [render[r].previous EXCEPT !.isStale = "fresh"] \in Entries
    BY Types DEF Entries, Staleness
  <2>3. cache' \in [Keys -> Entries \cup {Null}]
    BY <2>2, Types DEF RenderFailed, TypeOK
  <2> QED BY <2>1, <2>2, <2>3 DEF TypeOK, RenderFailed, Produce, shared
<1>2. /\ \A l \in Requests : render'[l].promise = render[l].promise
      /\ \A l \in Requests :
           /\ (render'[l].phase = "none") = (render[l].phase = "none")
           /\ (render'[l].phase = "ended") = (render[l].phase = "ended")
           /\ render[l] = NoRender => render'[l] = NoRender
  BY DEF TypeOK, RenderType, NoRender, RenderFailed, Produce
<1>3. UNCHANGED <<request, caller, lookup, getPending, revalidatePending>>
  BY DEF RenderFailed
<1> QED BY <1>1, <1>2, <1>3, RenderKept

LEMMA RenderedInv == ASSUME Inv, NEW r \in Requests, Rendered(r) PROVE Inv'
<1> USE DEF Inv
<1>1. TypeOK'
  <2>1. PICK version \in render[r].from..content[request[r].key], cacheControl \in BOOLEAN :
          LET entry == [key |-> request[r].key, version |-> version, isStale |-> "fresh"]
          IN  /\ Produce(r, entry)
              /\ previousCacheItem' = IF cacheControl /\ minimal_mode THEN entry ELSE previousCacheItem
              /\ cache' = IF cacheControl /\ ~minimal_mode THEN [cache EXCEPT ![entry.key] = entry] ELSE cache
    BY DEF Rendered
  <2> DEFINE entry == [key |-> request[r].key, version |-> version, isStale |-> "fresh"]
  <2>2. entry \in Entries
    BY Types DEF Entries, Staleness
  <2>3. [render[r] EXCEPT !.phase = "settling", !.result = entry] \in RenderType
    BY <2>2, Types, RenderUpdates DEF RenderPhases
  <2>4. render' \in [Requests -> RenderType]
    BY <2>1, <2>3 DEF Produce, TypeOK
  <2>5. previousCacheItem' \in Entries \cup {Null} /\ cache' \in [Keys -> Entries \cup {Null}]
    BY <2>1, <2>2, Types DEF TypeOK
  <2> QED BY <2>4, <2>5 DEF TypeOK, Rendered
<1>2. /\ \A l \in Requests : render'[l].promise = render[l].promise
      /\ \A l \in Requests :
           /\ (render'[l].phase = "none") = (render[l].phase = "none")
           /\ (render'[l].phase = "ended") = (render[l].phase = "ended")
           /\ render[l] = NoRender => render'[l] = NoRender
  BY DEF TypeOK, RenderType, NoRender, Rendered, Produce
<1>3. UNCHANGED <<request, caller, lookup, getPending, revalidatePending>>
  BY DEF Rendered
<1> QED BY <1>1, <1>2, <1>3, RenderKept

LEMMA EndRenderInv == ASSUME Inv, NEW r \in Requests, EndRender(r) PROVE Inv'
<1> USE DEF Inv
<1>1. TypeOK'
  <2>1. [render[r] EXCEPT !.phase = "ended", !.promise = render[r].result] \in RenderType
    BY Types, RenderUpdates DEF RenderPhases
  <2> QED BY <2>1 DEF TypeOK, EndRender, shared
<1>2. Calls'
  BY DEF Calls, TypeOK, CallerType, LookupType, RenderType, Phases, LookupPhases, RenderPhases, EndRender, GetKey,
     shared, Arguments, NoLookup, NoRender, Lookups, LookupFits, IsHit
<1>3. Lookups'
  BY DEF Lookups, LookupFits, Calls, Renders, TypeOK, CallerType, LookupType, RenderType, Phases, LookupPhases,
     RenderPhases, EndRender, IsHit, shared, Arguments, NoLookup, NoRender
<1>4. Renders'
  BY DEF Renders, TypeOK, CallerType, LookupType, RenderType, Phases, LookupPhases, RenderPhases, EndRender, shared
<1>5. OneLookupPerKey'
  BY DEF OneLookupPerKey, LookupRuns, GetKey, EndRender
<1>6. OneRenderPerKey'
  <2>1. \A l \in Requests : RenderRuns(l)' <=> l # r /\ RenderRuns(l)
    BY DEF TypeOK, RenderType, RenderRuns, EndRender
  <2>2. \A k \in Keys : revalidatePending'[k] = IF k = request[r].key THEN Null ELSE revalidatePending[k]
    BY DEF TypeOK, EndRender
  <2>3. revalidatePending[request[r].key] = r
    BY DEF OneRenderPerKey, RenderRuns, EndRender
  <2>4. \A l \in Requests : request[l].key \in Keys
    BY Types
  <2>5. ASSUME NEW l \in Requests, RenderRuns(l)'
        PROVE  revalidatePending'[request[l].key] = l
    BY <2>1, <2>2, <2>3, <2>4, <2>5 DEF OneRenderPerKey
  <2>6. ASSUME NEW k \in Keys, revalidatePending'[k] # Null
        PROVE  /\ render'[revalidatePending'[k]].phase \notin {"none", "ended"}
               /\ request[revalidatePending'[k]].key = k
    <3>1. k # request[r].key /\ revalidatePending'[k] = revalidatePending[k]
      BY <2>2, <2>6
    <3>2. RenderRuns(revalidatePending[k]) /\ request[revalidatePending[k]].key = k
      BY <3>1, <2>6 DEF OneRenderPerKey
    <3>3. revalidatePending[k] \in Requests /\ revalidatePending[k] # r
      BY <3>1, <3>2, <2>6 DEF TypeOK
    <3>4. render'[revalidatePending[k]] = render[revalidatePending[k]]
      BY <3>3 DEF EndRender, TypeOK
    <3> QED BY <3>1, <3>2, <3>4 DEF RenderRuns
  <2>7. request' = request
    BY DEF EndRender
  <2> QED BY <2>5, <2>6, <2>7 DEF OneRenderPerKey, RenderRuns
<1> QED BY <1>1, <1>2, <1>3, <1>4, <1>5, <1>6

\* A lookup that goes on to revalidate, with or without having settled its promise.
LEMMA RevalidateInv ==
  ASSUME Inv, NEW l \in Requests, NEW looked \in LookupType,
         lookup[l].phase \in {"scheduled", "read"},
         looked.joined = Null, looked.previous = lookup[l].previous,
         looked.promise = IF IsHit(l) THEN looked.previous ELSE Pending,
         Revalidate(l, looked), UNCHANGED <<shared, request, caller, getPending>>
  PROVE  Inv'
<1> USE DEF Inv
<1> DEFINE k == request[l].key
           leader == IF revalidatePending[k] # Null THEN revalidatePending[k] ELSE l
           now == [looked EXCEPT !.phase = "revalidating", !.joined = leader]
<1>1. k \in Keys /\ leader \in Requests /\ render[l] = NoRender /\ lookup[l].joined = Null
  BY Types DEF Lookups, LookupFits
<1>2. lookup' = [lookup EXCEPT ![l] = now]
  BY DEF Revalidate
<1>3. now \in LookupType
  BY <1>1 DEF LookupType, LookupPhases
<1>4. lookup' \in [Requests -> LookupType] /\ \A x \in Requests : lookup'[x] = IF x = l THEN now ELSE lookup[x]
  BY <1>2, <1>3 DEF TypeOK
<1>5. now.phase = "revalidating" /\ now.joined = leader /\ now.previous = lookup[l].previous
      /\ now.promise = looked.promise
  BY DEF LookupType
<1>6. \A x \in Requests : IsHit(x)' = IsHit(x)
  BY <1>4, <1>5 DEF IsHit
<1>7. \/ leader # l /\ leader = revalidatePending[k] /\ RenderRuns(leader) /\ UNCHANGED <<render, revalidatePending>>
      \/ /\ leader = l
         /\ revalidatePending[k] = Null
         /\ render' = [render EXCEPT ![l].phase = "scheduled", ![l].previous = looked.previous]
         /\ revalidatePending' = [revalidatePending EXCEPT ![k] = l]
  <2>1. CASE revalidatePending[k] # Null
    <3>1. RenderRuns(leader) /\ ~RenderRuns(l)
      BY <1>1, <2>1 DEF OneRenderPerKey, RenderRuns, NoRender
    <3> QED BY <2>1, <3>1, <1>1 DEF Revalidate
  <2>2. CASE revalidatePending[k] = Null
    BY <2>2 DEF Revalidate
  <2> QED BY <2>1, <2>2
<1>8. /\ render' \in [Requests -> RenderType]
      /\ \A x \in Requests : x # l => render'[x] = render[x]
      /\ \A x \in Requests : render'[x].promise = render[x].promise
      /\ render'[leader].phase \notin {"none", "ended"}
      /\ leader # l => render'[l] = render[l]
  <2>1. CASE leader # l
    BY <1>7, <2>1 DEF TypeOK, RenderRuns
  <2>2. CASE leader = l
    <3>1. render' = [render EXCEPT ![l].phase = "scheduled", ![l].previous = looked.previous]
      BY <1>7, <2>2
    <3>2. looked.previous \in Entries \cup {Null} /\ render[l] \in RenderType
      BY Types
    <3>3. [render[l] EXCEPT !.phase = "scheduled", !.previous = looked.previous] \in RenderType
      BY <3>2, RenderUpdates DEF RenderPhases
    <3>4. render' \in [Requests -> RenderType] /\ \A x \in Requests : x # l => render'[x] = render[x]
      BY <3>1, <3>3 DEF TypeOK
    <3>5. render'[l].phase = "scheduled" /\ render'[l].promise = render[l].promise
      BY <3>1, <3>2 DEF TypeOK, RenderType
    <3> QED BY <2>2, <3>4, <3>5 DEF RenderRuns
  <2> QED BY <2>1, <2>2
<1>9. TypeOK'
  BY <1>1, <1>4, <1>7, <1>8 DEF TypeOK, shared
<1>10. Calls'
  <2>1. lookup[l] # NoLookup /\ lookup[l].phase # "none"
    BY DEF NoLookup
  <2>2. caller[l].phase \notin {"idle", "keying", "detached"}
    BY <2>1, Types DEF Calls, CallerType, Phases
  <2>3. \A x \in Requests : GetKey(x)' = GetKey(x)
    BY DEF GetKey
  <2>4. \A x \in Requests : lookup[x].phase # "none" => lookup'[x].phase # "none"
    BY <1>4, <1>5
  <2>5. \A x \in Requests : lookup[x].promise # Pending => lookup'[x].promise = lookup[x].promise
    BY <1>4, <1>5 DEF Lookups, LookupFits
  <2> QED BY <1>4, <1>8, <2>2, <2>3, <2>4, <2>5, Types DEF Calls
<1>11. Lookups'
  <2>1. \A x \in Requests : render[x].phase # "none" => render'[x] = render[x]
    BY <1>1, <1>8 DEF NoRender
  <2>2. \A x \in Requests : lookup[x].phase \in {"scheduled", "reading", "read"} /\ x # l => render'[x] = NoRender
    BY <1>8 DEF Lookups, LookupFits
  <2>3. render'[leader].phase # "none"
    BY <1>8 DEF RenderRuns
  <2>4. ASSUME NEW x \in Requests, x # l PROVE lookup'[x] = lookup[x] /\ IsHit(x)' = IsHit(x)
    BY <1>4, <1>6, <2>4
  <2>5. ASSUME NEW x \in Requests, lookup[x].joined # Null
        PROVE  render'[lookup[x].joined] = render[lookup[x].joined]
    BY <2>1, <2>5, Types DEF Lookups, LookupFits
  <2>6. now.promise = IF IsHit(l) THEN now.previous ELSE Pending
    BY <1>5
  <2>7. lookup'[l] = now /\ now.joined # Null
    BY <1>1, <1>4, <1>5
  <2>8. ASSUME NEW x \in Requests PROVE LookupFits(x)'
    <3>1. CASE x = l
      BY <1>5, <1>6, <2>3, <2>6, <2>7, <3>1 DEF LookupFits
    <3>2. CASE x # l
      <4>1. LookupFits(x)
        BY DEF Lookups
      <4> QED BY <2>2, <2>4, <2>5, <3>2, <4>1 DEF LookupFits
    <3> QED BY <3>1, <3>2
  <2> QED BY <2>8 DEF Lookups, LookupFits
<1>12. Renders'
  <2>1. render'[l].phase # "ended" /\ render[l].promise = Pending
    BY <1>1, <1>8, <1>7 DEF NoRender, RenderRuns
  <2> QED BY <1>8, <2>1 DEF Renders
<1>13. OneLookupPerKey'
  <2>1. \A x \in Requests : LookupRuns(x)' = LookupRuns(x) /\ GetKey(x)' = GetKey(x)
    BY <1>4, <1>5 DEF LookupRuns, GetKey
  <2> QED BY <2>1 DEF OneLookupPerKey, TypeOK
<1>14. OneRenderPerKey'
  <2>1. CASE leader # l
    <3>1. UNCHANGED <<render, revalidatePending, request>>
      BY <1>7, <2>1
    <3> QED BY <3>1 DEF OneRenderPerKey, RenderRuns
  <2>2. CASE leader = l
    <3>1. revalidatePending[k] = Null /\ revalidatePending' = [revalidatePending EXCEPT ![k] = l]
      BY <1>7, <2>2
    <3>2. \A x \in Requests : x # l => RenderRuns(x)' = RenderRuns(x)
      BY <1>8 DEF RenderRuns
    <3>3. \A x \in Requests : x # l /\ RenderRuns(x) => request[x].key # k /\ request[x].key \in Keys
      BY <3>1, Types DEF OneRenderPerKey
    <3>4. \A j \in Keys : revalidatePending'[j] = IF j = k THEN l ELSE revalidatePending[j]
      BY <3>1 DEF TypeOK
    <3>5. ASSUME NEW x \in Requests, RenderRuns(x)' PROVE revalidatePending'[request[x].key] = x
      BY <1>1, <3>2, <3>3, <3>4, <3>5 DEF OneRenderPerKey
    <3>6. ASSUME NEW j \in Keys, revalidatePending'[j] # Null
          PROVE  /\ render'[revalidatePending'[j]].phase \notin {"none", "ended"}
                 /\ request[revalidatePending'[j]].key = j
      <4>1. CASE j = k
        BY <1>8, <2>2, <3>4, <4>1
      <4>2. CASE j # k
        <5>1. RenderRuns(revalidatePending[j]) /\ request[revalidatePending[j]].key = j
          BY <3>4, <3>6, <4>2 DEF OneRenderPerKey
        <5>2. revalidatePending[j] \in Requests /\ revalidatePending[j] # l
          BY <3>4, <3>6, <4>2, <5>1 DEF TypeOK
        <5> QED BY <1>8, <3>4, <4>2, <5>1, <5>2 DEF RenderRuns
      <4> QED BY <4>1, <4>2
    <3>7. request' = request
      OBVIOUS
    <3> QED BY <3>5, <3>6, <3>7 DEF OneRenderPerKey, RenderRuns
  <2> QED BY <2>1, <2>2
<1> QED BY <1>9, <1>10, <1>11, <1>12, <1>13, <1>14

LEMMA StartLookupInv == ASSUME Inv, NEW r \in Requests, StartLookup(r) PROVE Inv'
<1> USE DEF Inv
<1>1. CASE minimal_mode
  <2>1. /\ lookup[r] \in LookupType /\ lookup[r].joined = Null
        /\ lookup[r].previous = Null /\ lookup[r].promise = Pending
    BY Types DEF StartLookup, Lookups, LookupFits
  <2>2. lookup[r].promise = IF IsHit(r) THEN lookup[r].previous ELSE Pending
    BY <2>1 DEF IsHit
  <2> QED BY <1>1, <2>1, <2>2, RevalidateInv DEF StartLookup
<1>2. CASE ~minimal_mode
  <2>1. /\ lookup' = [lookup EXCEPT ![r].phase = "reading"]
        /\ UNCHANGED <<shared, request, caller, render, getPending, revalidatePending>>
    BY <1>2 DEF StartLookup
  <2>2. [lookup[r] EXCEPT !.phase = "reading"] \in LookupType
    BY Types, LookupUpdates DEF LookupPhases
  <2>3. TypeOK'
    BY <2>1, <2>2 DEF TypeOK, shared
  <2>4. \A l \in Requests : LookupRuns(l)' = LookupRuns(l) /\ GetKey(l)' = GetKey(l)
    BY <2>1 DEF TypeOK, LookupType, LookupRuns, GetKey, StartLookup
  <2>5. Calls'
    BY <2>1 DEF Calls, TypeOK, LookupType, StartLookup, GetKey, NoLookup
  <2>6. Lookups'
    BY <2>1 DEF Lookups, LookupFits, TypeOK, LookupType, StartLookup, IsHit
  <2>7. Renders' /\ OneRenderPerKey'
    BY <2>1 DEF Renders, OneRenderPerKey, RenderRuns
  <2>8. OneLookupPerKey'
    BY <2>1, <2>4 DEF OneLookupPerKey, TypeOK
  <2> QED BY <2>3, <2>5, <2>6, <2>7, <2>8
<1> QED BY <1>1, <1>2

LEMMA HandleEntryInv == ASSUME Inv, NEW r \in Requests, HandleEntry(r) PROVE Inv'
<1> USE DEF Inv
<1> DEFINE entry == lookup[r].previous
           looked == [lookup[r] EXCEPT !.promise = IF IsHit(r) THEN entry ELSE Pending]
           served == IsHit(r) /\ (entry.isStale = "fresh" \/ request[r].isPrefetch)
<1>1. /\ looked \in LookupType /\ looked.previous = entry /\ looked.joined = Null
      /\ looked.promise = IF IsHit(r) THEN entry ELSE Pending
  <2>1. lookup[r] \in LookupType /\ lookup[r].joined = Null /\ entry \in Entries \cup {Null}
    BY Types DEF HandleEntry, Lookups, LookupFits
  <2> QED BY <2>1 DEF LookupType
<1>2. lookup[r].phase = "read" /\ UNCHANGED <<shared, request, caller, getPending>>
  BY DEF HandleEntry
<1>3. CASE ~served
  <2>1. Revalidate(r, looked)
    BY <1>3 DEF HandleEntry
  <2> QED BY <1>1, <1>2, <2>1, RevalidateInv
<1>4. CASE served
  <2> DEFINE now == [looked EXCEPT !.phase = "returning", !.result = entry]
  <2>1. lookup' = [lookup EXCEPT ![r] = now] /\ UNCHANGED <<render, revalidatePending>>
    BY <1>4 DEF HandleEntry
  <2>2. /\ now \in LookupType /\ now.phase = "returning" /\ now.previous = entry
        /\ now.joined = Null /\ now.promise = entry
    <3>1. entry \in Entries
      BY <1>4, Types DEF IsHit
    <3>2. looked \in LookupType /\ looked.previous = entry /\ looked.joined = Null /\ looked.promise = entry
      BY <1>1, <1>4
    <3> HIDE DEF looked, entry
    <3> QED BY <3>1, <3>2 DEF LookupType, LookupPhases
  <2>3. lookup' \in [Requests -> LookupType] /\ \A x \in Requests : lookup'[x] = IF x = r THEN now ELSE lookup[x]
    BY <2>1, <2>2 DEF TypeOK
  <2>4. \A x \in Requests : IsHit(x)' = IsHit(x) /\ LookupRuns(x)' = LookupRuns(x) /\ GetKey(x)' = GetKey(x)
    BY <1>2, <2>2, <2>3 DEF IsHit, LookupRuns, GetKey
  <2>5. TypeOK'
    BY <1>2, <2>1, <2>3 DEF TypeOK, shared
  <2>6. Calls'
    <3>1. lookup[r] # NoLookup
      BY <1>2 DEF NoLookup
    <3>2. caller[r].phase \notin {"idle", "keying", "detached"}
      BY <3>1, Types DEF Calls, CallerType, Phases
    <3>3. \A x \in Requests : lookup[x].promise # Pending => lookup'[x].promise = lookup[x].promise
      BY <1>2, <2>2, <2>3 DEF Lookups, LookupFits
    <3>4. \A x \in Requests : lookup[x].phase # "none" => lookup'[x].phase # "none"
      BY <2>2, <2>3
    <3> QED BY <1>2, <2>1, <2>3, <2>4, <3>2, <3>3, <3>4, Types DEF Calls
  <2>7. Lookups'
    BY <1>2, <1>4, <2>1, <2>2, <2>3, <2>4 DEF Lookups, LookupFits
  <2>8. Renders' /\ OneRenderPerKey'
    BY <1>2, <2>1 DEF Renders, OneRenderPerKey, RenderRuns
  <2>9. OneLookupPerKey'
    BY <1>2, <2>4 DEF OneLookupPerKey, TypeOK
  <2> QED BY <2>5, <2>6, <2>7, <2>8, <2>9
<1> QED BY <1>3, <1>4

\* A request that is made: nothing refers to it yet.
LEMMA AskKeeps ==
  ASSUME Inv, NEW r \in Requests, caller[r].phase = "idle", NEW k \in Keys, NEW onDemand \in BOOLEAN,
         NEW onlyGenerated \in BOOLEAN, NEW prefetch \in BOOLEAN, Ask(r, k, onDemand, onlyGenerated, prefetch)
  PROVE  /\ request' \in [Requests -> Arguments]
         /\ \A l \in Requests : l # r => request'[l] = request[l] /\ GetKey(l)' = GetKey(l)
         /\ lookup[r] = NoLookup /\ render[r] = NoRender /\ caller[r].joined = Null
         /\ \A l \in Requests : caller[l].joined # r
         /\ \A g \in Keys \X BOOLEAN : getPending[g] # r
         /\ \A j \in Keys : revalidatePending[j] # r
         /\ request'[r].key = k
<1> USE DEF Inv
<1> DEFINE asked == [key |-> k, isOnDemandRevalidate |-> onDemand, revalidateOnlyGenerated |-> onlyGenerated,
                     isPrefetch |-> prefetch, since |-> content[k]]
<1>0. asked \in Arguments
  BY DEF TypeOK, Arguments
<1>1. /\ request' \in [Requests -> Arguments] /\ \A l \in Requests : l # r => request'[l] = request[l]
      /\ request'[r].key = k
  BY <1>0 DEF TypeOK, Ask
<1>2. lookup[r] = NoLookup /\ render[r] = NoRender /\ caller[r].joined = Null
  BY DEF Calls
<1>3. lookup[r].phase = "none" /\ render[r].phase = "none"
  BY <1>2 DEF NoLookup, NoRender
<1>4. \A l \in Requests : caller[l].joined # r
  BY <1>3, ValuesAssumption DEF Calls
<1>5. \A g \in Keys \X BOOLEAN : getPending[g] # r
  BY <1>3 DEF OneLookupPerKey, LookupRuns
<1>6. \A j \in Keys : revalidatePending[j] # r
  BY <1>3 DEF OneRenderPerKey, RenderRuns
<1> QED BY <1>1, <1>2, <1>4, <1>5, <1>6 DEF GetKey

LEMMA GetInv ==
  ASSUME Inv, NEW r \in Requests, NEW k \in Keys, NEW onDemand \in BOOLEAN, NEW onlyGenerated \in BOOLEAN,
         NEW prefetch \in BOOLEAN, Get(r, k, onDemand, onlyGenerated, prefetch)
  PROVE  Inv'
<1> USE DEF Inv
<1>2. /\ caller[r].phase = "idle" /\ Ask(r, k, onDemand, onlyGenerated, prefetch)
      /\ UNCHANGED <<shared, lookup, render, getPending, revalidatePending>>
  BY DEF Get
<1>3. /\ request' \in [Requests -> Arguments]
      /\ \A l \in Requests : l # r => GetKey(l)' = GetKey(l) /\ request'[l] = request[l]
      /\ lookup[r] = NoLookup /\ render[r] = NoRender /\ caller[r].joined = Null
      /\ \A l \in Requests : caller[l].joined # r
      /\ \A g \in Keys \X BOOLEAN : getPending[g] # r
      /\ \A j \in Keys : revalidatePending[j] # r
  BY <1>2, AskKeeps
<1>4. PICK now \in CallerType :
        /\ caller' = [caller EXCEPT ![r] = now] /\ now.joined = Null
        /\ now.phase = "answered" \/ now.phase = "keying"
  <2>1. ItemFor(k) \in Entries \cup {Null}
    BY DEF ItemFor, TypeOK
  <2>2. caller[r] \in CallerType
    BY DEF TypeOK
  <2> DEFINE now == IF ItemFor(k) # Null THEN [caller[r] EXCEPT !.phase = "answered", !.answer = ItemFor(k)]
                                         ELSE [caller[r] EXCEPT !.phase = "keying"]
  <2>3. now \in CallerType
    BY <2>1, <2>2, CallerUpdates DEF Phases
  <2>4. now.joined = Null /\ (now.phase = "answered" \/ now.phase = "keying")
    BY <1>3, <2>2 DEF CallerType
  <2>5. caller' = [caller EXCEPT ![r] = now]
    BY DEF Get
  <2> QED BY <2>3, <2>4, <2>5
<1>5. caller' \in [Requests -> CallerType] /\ \A l \in Requests : caller'[l] = IF l = r THEN now ELSE caller[l]
  BY <1>4 DEF TypeOK
<1>6. TypeOK'
  BY <1>2, <1>3, <1>5 DEF TypeOK, shared
<1>7. Calls'
  BY <1>2, <1>3, <1>4, <1>5, Types DEF Calls
<1>8. Lookups'
  BY <1>2, <1>3 DEF Lookups, LookupFits, NoLookup, IsHit
<1>9. Renders'
  BY <1>2 DEF Renders
<1>10. OneLookupPerKey'
  <2>1. ~LookupRuns(r)
    BY <1>3 DEF LookupRuns, NoLookup
  <2> QED BY <1>2, <1>3, <2>1, Types DEF OneLookupPerKey, LookupRuns, TypeOK
<1>11. OneRenderPerKey'
  <2>1. ~RenderRuns(r)
    BY <1>3 DEF RenderRuns, NoRender
  <2>2. \A l \in Requests : RenderRuns(l)' = RenderRuns(l)
    BY <1>2 DEF RenderRuns
  <2>3. ASSUME NEW l \in Requests, RenderRuns(l)' PROVE revalidatePending'[request'[l].key] = l
    BY <1>2, <1>3, <2>1, <2>2, <2>3 DEF OneRenderPerKey
  <2>4. ASSUME NEW j \in Keys, revalidatePending'[j] # Null
        PROVE  /\ render'[revalidatePending'[j]].phase \notin {"none", "ended"}
               /\ request'[revalidatePending'[j]].key = j
    <3>1. revalidatePending[j] \in Requests /\ revalidatePending[j] # r
      BY <1>2, <1>3, <2>4 DEF TypeOK
    <3> QED BY <1>2, <1>3, <2>4, <3>1 DEF OneRenderPerKey, RenderRuns
  <2> QED BY <2>3, <2>4 DEF OneRenderPerKey, RenderRuns
<1> QED BY <1>6, <1>7, <1>8, <1>9, <1>10, <1>11

LEMMA BackgroundRevalidateInv ==
  ASSUME Inv, NEW r \in Requests, NEW k \in Keys, BackgroundRevalidate(r, k)
  PROVE  Inv'
<1> USE DEF Inv
<1>2. /\ caller[r].phase = "idle" /\ Ask(r, k, FALSE, FALSE, FALSE)
      /\ caller' = [caller EXCEPT ![r].phase = "detached"]
      /\ UNCHANGED <<shared, lookup, getPending>>
  BY DEF BackgroundRevalidate
<1>3. /\ request' \in [Requests -> Arguments]
      /\ \A l \in Requests : l # r => GetKey(l)' = GetKey(l) /\ request'[l] = request[l]
      /\ lookup[r] = NoLookup /\ render[r] = NoRender /\ caller[r].joined = Null
      /\ \A l \in Requests : caller[l].joined # r
      /\ \A j \in Keys : revalidatePending[j] # r
      /\ request'[r].key = k
  <2> DEFINE no == FALSE
  <2>1. no \in BOOLEAN /\ Ask(r, k, no, no, no)
    BY <1>2
  <2> HIDE DEF no
  <2> QED BY <1>2, <2>1, AskKeeps
<1>4. /\ caller' \in [Requests -> CallerType] /\ \A l \in Requests : l # r => caller'[l] = caller[l]
      /\ caller'[r].phase = "detached" /\ caller'[r].joined = Null
  <2>1. caller[r] \in CallerType /\ [caller[r] EXCEPT !.phase = "detached"] \in CallerType
    BY Types, CallerUpdates DEF Phases
  <2> QED BY <1>2, <1>3, <2>1 DEF TypeOK, CallerType
<1>5. /\ render' \in [Requests -> RenderType] /\ revalidatePending' \in [Keys -> Requests \cup {Null}]
      /\ \A l \in Requests : l # r => render'[l] = render[l]
      /\ render'[r].promise = Pending /\ render'[r].phase \in {"none", "scheduled"}
  <2>1. render[r] \in RenderType /\ [render[r] EXCEPT !.phase = "scheduled"] \in RenderType
    BY Types, RenderUpdates DEF RenderPhases
  <2>2. render[r].promise = Pending /\ render[r].phase = "none"
    BY <1>3 DEF NoRender
  <2>3. CASE revalidatePending[k] # Null
    BY <1>3, <2>2, <2>3 DEF BackgroundRevalidate, TypeOK
  <2>4. CASE revalidatePending[k] = Null
    <3>1. /\ render' = [render EXCEPT ![r].phase = "scheduled"]
          /\ revalidatePending' = [revalidatePending EXCEPT ![k] = r]
      BY <2>4 DEF BackgroundRevalidate
    <3>2. render' \in [Requests -> RenderType] /\ \A l \in Requests : l # r => render'[l] = render[l]
      BY <2>1, <3>1 DEF TypeOK
    <3>3. render'[r].promise = Pending /\ render'[r].phase = "scheduled"
      BY <2>1, <2>2, <3>1 DEF TypeOK, RenderType
    <3>4. revalidatePending' \in [Keys -> Requests \cup {Null}]
      BY <3>1 DEF TypeOK
    <3> QED BY <3>2, <3>3, <3>4
  <2> QED BY <2>3, <2>4
<1>6. TypeOK'
  BY <1>2, <1>3, <1>4, <1>5 DEF TypeOK, shared
<1>7. Calls'
  BY <1>2, <1>3, <1>4, <1>5, Types DEF Calls
<1>8. Lookups'
  <2>1. \A l \in Requests : lookup[l].joined # r
    BY <1>3 DEF Lookups, LookupFits, NoRender
  <2>2. \A l \in Requests : lookup[l].joined # Null => render'[lookup[l].joined] = render[lookup[l].joined]
    BY <1>5, <2>1, Types
  <2> QED BY <1>2, <1>3, <1>5, <2>2 DEF Lookups, LookupFits, NoLookup, IsHit
<1>9. Renders'
  BY <1>5 DEF Renders
<1>10. OneLookupPerKey'
  <2>1. ~LookupRuns(r)
    BY <1>3 DEF LookupRuns, NoLookup
  <2>2. \A g \in Keys \X BOOLEAN : getPending[g] # r
    BY <1>2, AskKeeps
  <2> QED BY <1>2, <1>3, <2>1, <2>2, Types DEF OneLookupPerKey, LookupRuns, TypeOK
<1>11. OneRenderPerKey'
  <2>1. ~RenderRuns(r)
    BY <1>3 DEF RenderRuns, NoRender
  <2>2. CASE revalidatePending[k] # Null
    <3>1. UNCHANGED <<render, revalidatePending>>
      BY <2>2 DEF BackgroundRevalidate
    <3> QED BY <1>3, <2>1, <3>1, Types DEF OneRenderPerKey, RenderRuns, TypeOK
  <2>3. CASE revalidatePending[k] = Null
    <3>1. revalidatePending' = [revalidatePending EXCEPT ![k] = r] /\ render'[r].phase = "scheduled"
      BY <1>5, <2>3, Types DEF BackgroundRevalidate, RenderType, TypeOK
    <3>2. \A j \in Keys : revalidatePending'[j] = IF j = k THEN r ELSE revalidatePending[j]
      BY <3>1 DEF TypeOK
    <3>3. \A l \in Requests : l # r /\ RenderRuns(l) => request[l].key # k /\ request[l].key \in Keys
      BY <2>3, Types DEF OneRenderPerKey
    <3>4. ASSUME NEW l \in Requests, RenderRuns(l)' PROVE revalidatePending'[request'[l].key] = l
      BY <1>3, <1>5, <2>1, <3>2, <3>3, <3>4 DEF OneRenderPerKey, RenderRuns
    <3>5. ASSUME NEW j \in Keys, revalidatePending'[j] # Null
          PROVE  /\ render'[revalidatePending'[j]].phase \notin {"none", "ended"}
                 /\ request'[revalidatePending'[j]].key = j
      BY <1>3, <1>5, <2>1, <3>1, <3>2, <3>5 DEF OneRenderPerKey, RenderRuns, TypeOK
    <3> QED BY <3>4, <3>5 DEF OneRenderPerKey, RenderRuns
  <2> QED BY <2>2, <2>3
<1> QED BY <1>6, <1>7, <1>8, <1>9, <1>10, <1>11

\* Expiry and staleness only touch the caches.
LEMMA WorldInv ==
  ASSUME Inv, \/ \E k \in Keys : BecomeStale(k) \/ Expire(k)
              \/ ItemExpires
  PROVE  Inv'
<1> USE DEF Inv
<1>1. UNCHANGED <<minimal_mode, request, caller, lookup, render, getPending, revalidatePending>>
  BY DEF BecomeStale, Expire, ItemExpires
<1>2. cache' \in [Keys -> Entries \cup {Null}]
  <2>1. CASE \E k \in Keys : BecomeStale(k)
    <3>1. PICK k \in Keys : BecomeStale(k)
      BY <2>1
    <3>2. cache[k] \in Entries
      BY <3>1 DEF BecomeStale, TypeOK
    <3>3. [cache[k] EXCEPT !.isStale = "stale"] \in Entries
      BY <3>2 DEF Entries, Staleness
    <3> QED BY <3>1, <3>3 DEF BecomeStale, TypeOK
  <2>2. CASE \E k \in Keys : Expire(k)
    <3>1. PICK k \in Keys : Expire(k)
      BY <2>2
    <3>2. cache[k] \in Entries => [cache[k] EXCEPT !.isStale = "-1"] \in Entries
      BY DEF Entries, Staleness
    <3>3. cache[k] \in Entries \cup {Null} /\ cache \in [Keys -> Entries \cup {Null}]
      BY <3>1 DEF TypeOK
    <3>4. PICK outcome \in Entries \cup {Null} : cache' = [cache EXCEPT ![k] = outcome]
      BY <3>1, <3>2, <3>3 DEF Expire
    <3> QED BY <3>3, <3>4
  <2>3. CASE ItemExpires
    BY <2>3 DEF ItemExpires, TypeOK
  <2> QED BY <2>1, <2>2, <2>3
<1>3. content' \in [Keys -> 0..MaxVersion] /\ previousCacheItem' \in Entries \cup {Null}
  BY DEF BecomeStale, Expire, ItemExpires, TypeOK
<1>4. TypeOK'
  BY <1>1, <1>2, <1>3 DEF TypeOK
<1>5. Calls' /\ Lookups' /\ Renders'
  BY <1>1 DEF Calls, Lookups, LookupFits, Renders, GetKey, IsHit
<1>6. OneLookupPerKey' /\ OneRenderPerKey'
  BY <1>1 DEF OneLookupPerKey, OneRenderPerKey, LookupRuns, RenderRuns, GetKey
<1> QED BY <1>4, <1>5, <1>6

LEMMA NextInv == Inv /\ [Next]_vars => Inv'
<1> SUFFICES ASSUME Inv, [Next]_vars PROVE Inv'
  OBVIOUS
<1>1. CASE EventLoop
  BY <1>1, JoinGetInv, AnswerInv, StartLookupInv, ReadCacheInv, HandleEntryInv, EndRevalidateInv, EndGetInv,
     StartRenderInv, RenderSkippedInv, RenderedInv, RenderFailedInv, EndRenderInv DEF EventLoop
<1>2. CASE \E r \in Requests, k \in Keys, onDemand, onlyGenerated, prefetch \in BOOLEAN :
             Get(r, k, onDemand, onlyGenerated, prefetch)
  BY <1>2, GetInv
<1>3. CASE \E r \in Background, k \in Keys : BackgroundRevalidate(r, k)
  BY <1>3, BackgroundRevalidateInv, RequestsAssumption
<1>4. CASE (\E k \in Keys : BecomeStale(k) \/ Expire(k)) \/ ItemExpires
  BY <1>4, WorldInv
<1>5. CASE UNCHANGED vars
  BY <1>5 DEF vars, Inv, TypeOK, Calls, Lookups, LookupFits, Renders, OneLookupPerKey, OneRenderPerKey,
     LookupRuns, RenderRuns, GetKey, IsHit
<1> QED BY <1>1, <1>2, <1>3, <1>4, <1>5 DEF Next

\* The inductive invariant holds in every behaviour.
LEMMA Invariance == Spec => []Inv
BY InitInv, NextInv, PTL DEF Spec

\* The type invariant of the response cache, for any requests and keys.
THEOREM TypeCorrect == Spec => []TypeOK
<1>1. Inv => TypeOK
  BY DEF Inv
<1> QED BY <1>1, Invariance, PTL

\* For any requests and keys, neither getBatcher nor revalidateBatcher lets two calls of a key run at a time
\* (batcher.ts:65-93), and pending holds exactly the ones that run.
THEOREM CallsShared == Spec => []OneCallPerKey
<1>1. Inv => OneCallPerKey
  BY DEF Inv, OneCallPerKey
<1> QED BY <1>1, Invariance, PTL

\* For any requests and keys, nobody waits for a promise that nothing settles.
THEOREM WaitersAreServed == Spec => []NobodyForgotten
<1>1. ASSUME Inv PROVE NobodyForgotten
  <2> USE <1>1 DEF Inv
  <2>1. ASSUME NEW r \in Requests, caller[r].phase = "waiting"
        PROVE  lookup[caller[r].joined].promise # Pending \/ LookupRuns(caller[r].joined)
    <3>1. caller[r].joined \in Requests /\ lookup[caller[r].joined].phase # "none"
      BY <2>1, Types DEF Calls
    <3>2. lookup[caller[r].joined].phase = "ended" => lookup[caller[r].joined].promise # Pending
      BY <3>1, Types DEF Lookups, LookupFits, IsHit
    <3> QED BY <3>1, <3>2 DEF LookupRuns
  <2>2. ASSUME NEW r \in Requests, lookup[r].phase = "revalidating"
        PROVE  render[lookup[r].joined].promise # Pending \/ RenderRuns(lookup[r].joined)
    BY <2>2, Types DEF Lookups, LookupFits, Renders, RenderRuns
  <2> QED BY <2>1, <2>2 DEF NobodyForgotten
<1> QED BY <1>1, Invariance, PTL

\* For any requests and keys, a request whose lookup found an entry is answered by that entry, whatever becomes
\* of the background render and whenever the request joined (handleGet, index.ts:173-176 and 207-213); the code
\* treats isStale -1 alike, so the proof needs no case for it.
THEOREM HitsAreServed == Spec => []HitIsServed
<1>1. ASSUME Inv PROVE HitIsServed
  <2> USE <1>1 DEF Inv
  <2> SUFFICES ASSUME NEW r \in Requests, caller[r].phase = "answered", caller[r].joined # Null,
                      ~request[r].isOnDemandRevalidate, lookup[caller[r].joined].previous # Null
               PROVE  caller[r].answer = lookup[caller[r].joined].previous
    BY DEF HitIsServed
  <2>1. caller[r].joined \in Requests
    BY Types
  <2>2. IsHit(caller[r].joined)
    BY DEF Calls, GetKey, IsHit
  <2> QED BY <2>1, <2>2, Types DEF Calls, Lookups, LookupFits, LookupType, LookupPhases
<1> QED BY <1>1, Invariance, PTL

\* For any requests and keys, an on-demand revalidation that waits is answered by a render.
THEOREM OnDemandGetsRender == Spec => []OnDemandIsRendered
<1>1. ASSUME Inv PROVE OnDemandIsRendered
  <2> USE <1>1 DEF Inv
  <2> SUFFICES ASSUME NEW r \in Requests, caller[r].phase = "answered", caller[r].joined # Null,
                      request[r].isOnDemandRevalidate
               PROVE  /\ lookup[caller[r].joined].joined # Null
                      /\ caller[r].answer = render[lookup[caller[r].joined].joined].promise
    BY DEF OnDemandIsRendered
  <2>1. caller[r].joined \in Requests /\ ~IsHit(caller[r].joined)
    BY Types DEF Calls, GetKey, IsHit
  <2>2. lookup[caller[r].joined].promise # Pending /\ lookup[caller[r].joined].phase # "none"
    BY DEF Calls
  <2>3. lookup[caller[r].joined].phase = "ended"
    BY <2>1, <2>2, Types DEF Lookups, LookupFits, LookupType, LookupPhases
  <2> QED BY <2>1, <2>3 DEF Calls, Lookups, LookupFits
<1> QED BY <1>1, Invariance, PTL

-----------------------------------------------------------------------------
(* Freshness *)

\* No render gets older content than there was when it was asked for.
Fresh ==
  \A r \in Requests :
    /\ caller[r].phase # "idle" => request[r].since <= content[request[r].key]
    /\ render[r].phase \in {"rendering", "settling", "ended"} => request[r].since <= render[r].from
    /\ render[r].result \in Entries => request[r].since <= render[r].result.version
    /\ render[r].promise \in Entries => request[r].since <= render[r].promise.version

\* A step that does not touch what a render has read or produced.
LEMMA FreshKept ==
  ASSUME Inv, Fresh, UNCHANGED <<request, content>>,
         \A q \in Requests :
           /\ caller'[q].phase # "idle" => caller[q].phase # "idle"
           /\ render'[q].phase \in {"rendering", "settling", "ended"} =>
                render[q].phase \in {"rendering", "settling", "ended"} /\ render'[q].from = render[q].from
           /\ render'[q].result = render[q].result /\ render'[q].promise = render[q].promise
  PROVE  Fresh'
BY DEF Fresh

\* revalidateBatcher schedules a render and does nothing else to the renders.
LEMMA FreshRevalidate ==
  ASSUME Inv, Fresh, NEW l \in Requests, NEW looked, Revalidate(l, looked), UNCHANGED <<request, content, caller>>
  PROVE  Fresh'
<1>1. \A q \in Requests : /\ render'[q].result = render[q].result /\ render'[q].promise = render[q].promise
                          /\ render'[q].from = render[q].from
                          /\ render'[q].phase \in {render[q].phase, "scheduled"}
  <2>1. CASE UNCHANGED render
    BY <2>1
  <2>2. CASE render' = [render EXCEPT ![l].phase = "scheduled", ![l].previous = looked.previous]
    <3>1. render'[l] = [render[l] EXCEPT !.phase = "scheduled", !.previous = looked.previous]
      BY <2>2 DEF Inv, TypeOK
    <3>2. \A q \in Requests \ {l} : render'[q] = render[q]
      BY <2>2 DEF Inv, TypeOK
    <3>3. render[l] \in RenderType
      BY Types DEF Inv
    <3>4. /\ render'[l].result = render[l].result /\ render'[l].promise = render[l].promise
          /\ render'[l].from = render[l].from /\ render'[l].phase = "scheduled"
      BY <3>1, <3>3 DEF RenderType
    <3> QED BY <3>2, <3>4
  <2> QED BY <2>1, <2>2 DEF Revalidate
<1> QED
  BY <1>1, FreshKept

LEMMA FreshNext == ASSUME Inv, Inv', Fresh, [Next]_vars PROVE Fresh'
<1> USE DEF Inv
<1>1. ASSUME NEW r \in Requests, JoinGet(r) \/ Answer(r) \/ ReadCache(r) \/ EndRevalidate(r) \/ EndGet(r) PROVE Fresh'
  <2>1. UNCHANGED <<request, content, render>>
    BY <1>1 DEF JoinGet, Answer, ReadCache, EndRevalidate, EndGet, shared
  <2>2. \A q \in Requests : caller'[q].phase # "idle" => caller[q].phase # "idle"
    <3>1. CASE ReadCache(r) \/ EndRevalidate(r) \/ EndGet(r)
      BY <3>1 DEF ReadCache, EndRevalidate, EndGet
    <3>2. CASE JoinGet(r) \/ Answer(r)
      <4>1. DOMAIN caller = Requests
        BY DEF TypeOK
      <4>2. caller[r].phase # "idle"
        BY <3>2 DEF JoinGet, Answer
      <4>3. \A q \in Requests : q # r => caller'[q] = caller[q]
        BY <3>2, <4>1 DEF JoinGet, Answer
      <4> QED BY <4>2, <4>3
    <3> QED BY <1>1, <3>1, <3>2
  <2> QED BY <2>1, <2>2, FreshKept
<1>2. ASSUME NEW r \in Requests, StartLookup(r) \/ HandleEntry(r) PROVE Fresh'
  <2>1. UNCHANGED <<request, content, caller>>
    BY <1>2 DEF StartLookup, HandleEntry, shared
  <2>2. CASE \E looked : Revalidate(r, looked)
    BY <2>1, <2>2, FreshRevalidate
  <2>3. CASE UNCHANGED render
    BY <2>1, <2>3, FreshKept
  <2> QED BY <1>2, <2>2, <2>3 DEF StartLookup, HandleEntry
<1>3. ASSUME NEW r \in Requests, StartRender(r) PROVE Fresh'
  <2>1. caller[r].phase # "idle" /\ UNCHANGED <<request, content, caller>>
    BY <1>3 DEF StartRender, shared, Calls, NoRender
  <2>2. render'[r] = [render[r] EXCEPT !.phase = "rendering", !.from = content[request[r].key]]
    BY <1>3 DEF StartRender, TypeOK
  <2>3. /\ render'[r].from = content[request[r].key]
        /\ render'[r].result = render[r].result /\ render'[r].promise = render[r].promise
    BY <2>2, Types DEF RenderType
  <2>4. \A q \in Requests \ {r} : render'[q] = render[q]
    BY <1>3 DEF StartRender, TypeOK
  <2> QED BY <2>1, <2>3, <2>4 DEF Fresh
<1>4. ASSUME NEW r \in Requests, RenderSkipped(r) \/ Rendered(r) \/ RenderFailed(r) PROVE Fresh'
  <2>1. PICK result \in Entries \cup {Null, Failed} :
          /\ render' = [render EXCEPT ![r].phase = "settling", ![r].result = result]
          /\ result \in Entries => result.version >= render[r].from
    <3>1. CASE Rendered(r)
      <4>1. PICK version \in render[r].from..content[request[r].key], cacheControl \in BOOLEAN :
              render' = [render EXCEPT ![r].phase = "settling",
                           ![r].result = [key |-> request[r].key, version |-> version, isStale |-> "fresh"]]
        BY <3>1 DEF Rendered, Produce
      <4>2. version \in 0..MaxVersion /\ version >= render[r].from
        BY Types
      <4>3. [key |-> request[r].key, version |-> version, isStale |-> "fresh"] \in Entries
        BY <4>2, Types DEF Entries, Staleness
      <4> DEFINE entry == [key |-> request[r].key, version |-> version, isStale |-> "fresh"]
      <4>4. entry.version >= render[r].from
        BY <4>2
      <4>5. entry \in Entries /\ render' = [render EXCEPT ![r].phase = "settling", ![r].result = entry]
        BY <4>1, <4>3
      <4> HIDE DEF entry
      <4> QED BY <4>4, <4>5
    <3>2. CASE RenderSkipped(r) \/ RenderFailed(r)
      BY <3>2 DEF RenderSkipped, RenderFailed, Produce
    <3> QED BY <1>4, <3>1, <3>2
  <2>2. render[r].phase = "rendering" /\ UNCHANGED <<request, content, caller>>
    BY <1>4 DEF RenderSkipped, Rendered, RenderFailed, shared
  <2>3. render'[r].result = result /\ render'[r].from = render[r].from /\ render'[r].promise = render[r].promise
    BY <2>1, Types DEF TypeOK, RenderType
  <2>4. \A q \in Requests \ {r} : render'[q] = render[q]
    BY <2>1 DEF TypeOK
  <2>5. result \in Entries => request[r].since <= result.version
    <3>1. request[r].since <= render[r].from
      BY <2>2 DEF Fresh
    <3>2. result \in Entries => result.version \in Nat
      BY DEF Entries
    <3>3. request[r].since \in Nat
      BY Types DEF Arguments
    <3> QED BY <2>1, <3>1, <3>2, <3>3, Types
  <2> QED BY <2>2, <2>3, <2>4, <2>5 DEF Fresh
<1>5. ASSUME NEW r \in Requests, EndRender(r) PROVE Fresh'
  <2>1. render[r].phase = "settling" /\ UNCHANGED <<request, content, caller>>
    BY <1>5 DEF EndRender, shared
  <2>2. /\ render'[r].promise = render[r].result /\ render'[r].result = render[r].result
        /\ render'[r].from = render[r].from
    BY <1>5, Types DEF EndRender, TypeOK, RenderType
  <2>3. \A q \in Requests \ {r} : render'[q] = render[q]
    BY <1>5 DEF EndRender, TypeOK
  <2> QED BY <2>1, <2>2, <2>3 DEF Fresh
<1>6. ASSUME NEW r \in Requests, NEW k \in Keys, NEW onDemand \in BOOLEAN, NEW onlyGenerated \in BOOLEAN,
             NEW prefetch \in BOOLEAN, Ask(r, k, onDemand, onlyGenerated, prefetch), UNCHANGED content,
             caller[r].phase = "idle",
             \A q \in Requests : /\ q # r => caller'[q] = caller[q]
                                 /\ render'[q].result = render[q].result /\ render'[q].promise = render[q].promise
                                 /\ render'[q].from = render[q].from
                                 /\ render'[q].phase \in {render[q].phase, "scheduled"}
      PROVE Fresh'
  <2>1. request'[r].since = content[k] /\ request'[r].key = k /\ \A q \in Requests \ {r} : request'[q] = request[q]
    BY <1>6 DEF Ask, TypeOK
  <2>2. render[r] = NoRender
    BY <1>6 DEF Calls
  <2>3. content[k] <= content[k]
    BY DEF TypeOK
  <2> QED BY <1>6, <2>1, <2>2, <2>3 DEF Fresh, NoRender
<1>7. ASSUME NEW r \in Requests, NEW k \in Keys, NEW onDemand \in BOOLEAN, NEW onlyGenerated \in BOOLEAN,
             NEW prefetch \in BOOLEAN, Get(r, k, onDemand, onlyGenerated, prefetch)
      PROVE Fresh'
  BY <1>6, <1>7 DEF Get, shared, TypeOK
<1>8. ASSUME NEW r \in Background, NEW k \in Keys, BackgroundRevalidate(r, k) PROVE Fresh'
  <2>1. \A q \in Requests : /\ q # r => caller'[q] = caller[q]
                            /\ render'[q].result = render[q].result /\ render'[q].promise = render[q].promise
                            /\ render'[q].from = render[q].from
                            /\ render'[q].phase \in {render[q].phase, "scheduled"}
    <3>1. r \in Requests /\ \A q \in Requests \ {r} : caller'[q] = caller[q] /\ render'[q] = render[q]
      BY <1>8 DEF BackgroundRevalidate, TypeOK
    <3>2. render'[r] = render[r] \/ render'[r] = [render[r] EXCEPT !.phase = "scheduled"]
      BY <1>8, <3>1 DEF BackgroundRevalidate, TypeOK
    <3>3. render[r] \in RenderType
      BY <3>1, Types
    <3>4. /\ render'[r].result = render[r].result /\ render'[r].promise = render[r].promise
          /\ render'[r].from = render[r].from /\ render'[r].phase \in {render[r].phase, "scheduled"}
      BY <3>2, <3>3 DEF RenderType
    <3> QED BY <3>1, <3>4
  <2> QED BY <1>6, <1>8, <2>1 DEF BackgroundRevalidate, shared
<1>9. ASSUME NEW k \in Keys, Expire(k) PROVE Fresh'
  <2>1. UNCHANGED <<request, caller, render>>
    BY <1>9 DEF Expire
  <2>2. \A j \in Keys : content[j] \in Nat /\ content'[j] \in Nat /\ content[j] <= content'[j]
    BY <1>9 DEF Expire, TypeOK
  <2>3. \A q \in Requests : request[q].since \in Nat /\ request[q].key \in Keys
    BY Types DEF Arguments
  <2> QED BY <2>1, <2>2, <2>3 DEF Fresh
<1>10. CASE (\E k \in Keys : BecomeStale(k)) \/ ItemExpires \/ UNCHANGED vars
  BY <1>10, FreshKept DEF BecomeStale, ItemExpires, vars
<1> QED
  BY <1>1, <1>2, <1>3, <1>4, <1>5, <1>7, <1>8, <1>9, <1>10 DEF Next, EventLoop

\* For any requests, keys and changes of the content: who finds nothing and renders for itself is answered by
\* content no older than its call (index.ts:281-340).
THEOREM OwnRendersAreFresh == Spec => []OwnRenderIsFresh
<1>1. Init => Fresh
  <2> SUFFICES ASSUME Init, NEW r \in Requests
               PROVE  /\ caller[r].phase = "idle" /\ render[r].phase = "none"
                      /\ render[r].result \notin Entries /\ render[r].promise \notin Entries
    BY DEF Fresh
  <2>1. caller[r] = NoCaller /\ render[r] = NoRender
    BY DEF Init
  <2> QED BY <2>1 DEF NoCaller, NoRender
<1>2. Inv /\ Fresh => OwnRenderIsFresh
  <2> SUFFICES ASSUME Inv, Fresh, NEW r \in Requests, caller[r].phase = "answered", caller[r].answer \in Entries,
                      caller[r].joined = r, lookup[r].joined = r, ~IsHit(r)
               PROVE  caller[r].answer.version >= request[r].since
    BY DEF OwnRenderIsFresh
  <2>1. caller[r].answer = lookup[r].promise /\ lookup[r].promise # Pending
    BY DEF Inv, Calls
  <2>2. lookup[r].phase = "ended"
    BY <2>1, Types DEF Inv, Calls, Lookups, LookupFits, LookupType, LookupPhases
  <2>3. caller[r].answer = render[r].promise
    BY <2>1, <2>2 DEF Inv, Lookups, LookupFits
  <2>4. request[r].since <= render[r].promise.version
    BY <2>3 DEF Fresh
  <2>5. request[r].since \in Nat /\ render[r].promise.version \in Nat
    BY <2>3, Types DEF Inv, Arguments, Entries
  <2> QED BY <2>3, <2>4, <2>5
<1>3. Inv /\ Inv' /\ Fresh /\ [Next]_vars => Fresh'
  BY FreshNext
<1> QED BY <1>1, <1>2, <1>3, Invariance, PTL DEF Spec
=============================================================================

--------------------------- MODULE UseCacheHandler ---------------------------
(***************************************************************************)
(* server/lib/cache-handlers/default.ts: the in-memory handler of "use     *)
(* cache", with its LRU cache (server/lib/lru-cache.ts), the tags manifest *)
(* it shares with the incremental cache, and the requests that call it     *)
(* (server/use-cache/use-cache-wrapper.ts). A request looks its key up;    *)
(* when it finds nothing, or an entry with a stale tag, it generates an    *)
(* entry and calls set with the promise of it. set registers itself in     *)
(* pendingSets so that a get of the key waits for it.                      *)
(*                                                                         *)
(* A request calls set at most once, so it also stands for its set call    *)
(* and for the entry it generates. Content is left out: an entry is the    *)
(* time, tags and size it was generated with.                              *)
(*                                                                         *)
(* Time is that of performance.timeOrigin + performance.now(), counted in  *)
(* fractions of a millisecond: entries are stamped with it, updateTags     *)
(* rounds it to milliseconds, and areTagsExpired compares the outcome with *)
(* Date.now(), the system clock in whole milliseconds, which need not      *)
(* agree with it.                                                          *)
(***************************************************************************)
EXTENDS Integers, SequencesExt

CONSTANTS Requests, Keys, Tags,
          KeyOf,       \* the cache key of a request
          Sizes,       \* the sizes that the entry of a request may have
          MaxSize,     \* maxSize of the LRU cache
          Revalidate,  \* how long an entry may be used, entry.revalidate
          Expires,     \* the values of durations.expire
          EntryTags,   \* the sets of tags entries have
          Times,       \* the points in time at which something happens (a bound)
          Resolution,  \* how many units of time a millisecond has
          Skew,        \* how far Date.now() is from the clock, before it is truncated (a bound)
          None

ASSUME RequestsAssumption == None \notin Requests /\ KeyOf \in [Requests -> Keys]
ASSUME NumbersAssumption == /\ MaxSize \in Nat /\ Revalidate \in Nat
                            /\ Times \subseteq Nat /\ Resolution \in Nat \ {0} /\ Skew \in Nat
                            /\ Sizes \in [Requests -> SUBSET Nat] /\ Expires \subseteq Nat /\ EntryTags \subseteq SUBSET Tags

VARIABLES now,         \* performance.timeOrigin + performance.now()
          expired,     \* tagsManifest: TagManifestEntry.expired per tag, 0 when there is none
          stale,       \* tagsManifest: TagManifestEntry.stale per tag, 0 when there is none
          memoryCache, \* the LRU cache: whose entries it holds, most recently used first
          totalSize,   \* LRUCache::totalSize, what it counts its items to take
          pendingSets, \* per key: the request whose set is registered
          phase,       \* what a request is doing
          waitsFor,    \* the set whose promise its get awaits
          entry,       \* the entry it generated
          served,      \* whose entry its get returned
          fresh,       \* FALSE when that entry was returned with revalidate -1
          updated,     \* history: the time of the last updateTags of a tag
          lastFit      \* history: per key, the last entry stored that is not larger than the cache

manifest == <<expired, stale, updated>>
lru == <<memoryCache, totalSize>>
cache == <<lru, pendingSets, lastFit>>
vars == <<now, manifest, cache, phase, waitsFor, entry, served, fresh>>

Phases == {"idle", "wait", "generate", "set", "stored", "failed", "rejected", "done"}
Entries == [timestamp : Times, tags : EntryTags, size : Nat]
NoEntry == [timestamp |-> 0, tags |-> {}, size |-> 0]

-----------------------------------------------------------------------------
(* The clocks *)

\* Math.round: to the nearest millisecond, halves up.
Rounded(t) == Resolution * ((2 * t + Resolution) \div (2 * Resolution))
Truncated(t) == Resolution * (t \div Resolution)
\* What Date.now() may say.
DateNow == {Truncated(t) : t \in (now - Skew)..(now + Skew)}

-----------------------------------------------------------------------------
(* The LRU cache *)

\* What the first n items of q take.
TotalSize(q, e, n) == LET sum[m \in Nat] == IF m = 0 THEN 0 ELSE sum[m - 1] + e[q[m]].size IN sum[n]

Cached(k) == {s \in Requests : Contains(memoryCache, s) /\ KeyOf[s] = k}
\* removeNode of the item the key has, if it has one.
Without(k) == IF Cached(k) = {} THEN memoryCache
              ELSE RemoveAt(memoryCache, CHOOSE i \in DOMAIN memoryCache : KeyOf[memoryCache[i]] = k)
TooLarge(r) == entry[r].size > MaxSize

\* The counter when all but the first n of the items q that it counts as c have been evicted.
Left(q, c, n) == c - (TotalSize(q, entry, Len(q)) - TotalSize(q, entry, n))
\* Items are removed from the tail until the counter is within the limit or nothing is left.
Kept(q, c) == LET Fits(n) == n = 0 \/ Left(q, c, n) <= MaxSize
              IN CHOOSE n \in 0..Len(q) : Fits(n) /\ \A m \in n+1..Len(q) : ~Fits(m)
Evict(q, c) == memoryCache' = SubSeq(q, 1, Kept(q, c)) /\ totalSize' = Left(q, c, Kept(q, c))

\* Mutant: an item takes the place of another without giving back its size.
CountedOnTop(r) == totalSize + entry[r].size

\* The counter with the entry of r in place of what its key has.
Counted(r) == IF Cached(KeyOf[r]) = {} THEN totalSize + entry[r].size
              ELSE totalSize - entry[CHOOSE s \in Cached(KeyOf[r]) : TRUE].size + entry[r].size

\* Mutant: an item that is already cached moves to the head with the data it has.
LruSetKeeps(r) ==
  IF TooLarge(r) THEN UNCHANGED lru
  ELSE IF Cached(KeyOf[r]) = {} THEN Evict(<<r>> \o memoryCache, Counted(r))
  ELSE memoryCache' = SetToSeq(Cached(KeyOf[r])) \o Without(KeyOf[r]) /\ UNCHANGED totalSize

\* LRUCache.set: an item above maxSize is not stored, and what the key had stays.
LruSet(r) == IF TooLarge(r) THEN UNCHANGED lru ELSE Evict(<<r>> \o Without(KeyOf[r]), Counted(r))

-----------------------------------------------------------------------------
(* get *)

\* date is what Date.now() says.
TagsExpired(s, date) == \E t \in entry[s].tags : expired[t] <= date /\ expired[t] > entry[s].timestamp
TagsStale(s) == \E t \in entry[s].tags : stale[t] > entry[s].timestamp
Usable(s, date) == now <= entry[s].timestamp + Revalidate /\ ~TagsExpired(s, date)

\* get once no promise is left to await, and what the request makes of it: when nothing may be used it
\* generates an entry; one with a stale tag is returned with revalidate -1, and replaced by a new one.
Lookup(r) ==
  \E s \in IF Cached(KeyOf[r]) = {} THEN {None} ELSE Cached(KeyOf[r]), date \in DateNow :
    LET usable == s # None /\ Usable(s, date)
        good == usable /\ ~TagsStale(s)
    IN /\ memoryCache' = IF s = None THEN memoryCache ELSE <<s>> \o Without(KeyOf[r])
       /\ served' = [served EXCEPT ![r] = IF usable THEN s ELSE None]
       /\ fresh' = [fresh EXCEPT ![r] = good]
       /\ phase' = [phase EXCEPT ![r] = IF good THEN "done" ELSE "generate"]

\* A request calls get: it awaits the set that is registered for its key, if there is one.
Get(r) ==
  /\ phase[r] = "idle"
  /\ IF pendingSets[KeyOf[r]] = None
     THEN Lookup(r) /\ UNCHANGED waitsFor
     ELSE /\ waitsFor' = [waitsFor EXCEPT ![r] = pendingSets[KeyOf[r]]]
          /\ phase' = [phase EXCEPT ![r] = "wait"]
          /\ UNCHANGED <<memoryCache, served, fresh>>
  /\ UNCHANGED <<now, manifest, totalSize, pendingSets, lastFit, entry>>

\* The promise get awaits has been resolved: by the finally block of its set.
Continue(r) ==
  /\ phase[r] = "wait" /\ phase[waitsFor[r]] \in {"stored", "failed"}
  /\ Lookup(r)
  /\ UNCHANGED <<now, manifest, totalSize, pendingSets, lastFit, waitsFor, entry>>

-----------------------------------------------------------------------------
(* set *)

\* The request generates an entry and calls set with its promise.
Set(r) ==
  /\ phase[r] = "generate"
  /\ \E tags \in EntryTags, size \in Sizes[r] :
       entry' = [entry EXCEPT ![r] = [timestamp |-> now, tags |-> tags, size |-> size]]
  /\ pendingSets' = [pendingSets EXCEPT ![KeyOf[r]] = r]
  /\ phase' = [phase EXCEPT ![r] = "set"]
  /\ UNCHANGED <<now, manifest, lru, lastFit, waitsFor, served, fresh>>

\* The finally block: it removes whichever set is registered for the key.
Unregister(r) == pendingSets' = [pendingSets EXCEPT ![KeyOf[r]] = None]

\* The stream of the entry has been read to its end.
Store(r) ==
  /\ phase[r] = "set"
  /\ LruSet(r)
  /\ lastFit' = IF TooLarge(r) THEN lastFit ELSE [lastFit EXCEPT ![KeyOf[r]] = r]
  /\ phase' = [phase EXCEPT ![r] = "stored"]
  /\ Unregister(r)
  /\ UNCHANGED <<now, manifest, waitsFor, entry, served, fresh>>

\* Mutant: a stream that breaks off leaves its set registered and its promise pending.
FailUnsettled(r) ==
  /\ phase[r] = "set"
  /\ phase' = [phase EXCEPT ![r] = "done"]
  /\ UNCHANGED <<now, manifest, cache, waitsFor, entry, served, fresh>>

\* The stream of the entry breaks off.
Fail(r) ==
  /\ phase[r] = "set"
  /\ phase' = [phase EXCEPT ![r] = "failed"]
  /\ Unregister(r)
  /\ UNCHANGED <<now, manifest, lru, lastFit, waitsFor, entry, served, fresh>>

\* The promise of the entry rejects. It is awaited before the try block: nothing is cleaned up.
Reject(r) ==
  /\ phase[r] = "set"
  /\ phase' = [phase EXCEPT ![r] = "rejected"]
  /\ UNCHANGED <<now, manifest, cache, waitsFor, entry, served, fresh>>

-----------------------------------------------------------------------------
(* updateTags *)

\* Without durations the tag expires now.
ExpireTag(t) ==
  /\ expired' = [expired EXCEPT ![t] = Rounded(now)]
  /\ updated' = [updated EXCEPT ![t] = now]
  /\ UNCHANGED <<now, cache, stale, phase, waitsFor, entry, served, fresh>>

\* Mutant: stale is only set when there is no durations.expire.
MarkTagUnlessExpires(t) ==
  /\ updated' = [updated EXCEPT ![t] = now]
  /\ \/ stale' = [stale EXCEPT ![t] = Rounded(now)] /\ UNCHANGED expired
     \/ \E d \in Expires : expired' = [expired EXCEPT ![t] = Rounded(now) + d] /\ UNCHANGED stale
  /\ UNCHANGED <<now, cache, phase, waitsFor, entry, served, fresh>>

\* Mutant: it becomes stale when it expires.
MarkTagLater(t) ==
  /\ updated' = [updated EXCEPT ![t] = now]
  /\ \E d \in Expires : stale' = [stale EXCEPT ![t] = Rounded(now) + d] /\ expired' = [expired EXCEPT ![t] = Rounded(now) + d]
  /\ UNCHANGED <<now, cache, phase, waitsFor, entry, served, fresh>>

\* With durations it becomes stale now, and expires later if durations.expire is given.
MarkTag(t) ==
  /\ stale' = [stale EXCEPT ![t] = Rounded(now)]
  /\ updated' = [updated EXCEPT ![t] = now]
  /\ \/ UNCHANGED expired
     \/ \E d \in Expires : expired' = [expired EXCEPT ![t] = Rounded(now) + d]
  /\ UNCHANGED <<now, cache, phase, waitsFor, entry, served, fresh>>

\* Time passes.
Tick ==
  /\ \E t \in Times : t > now /\ now' = t
  /\ UNCHANGED <<manifest, cache, phase, waitsFor, entry, served, fresh>>

-----------------------------------------------------------------------------

Init ==
  /\ now \in Times
  /\ expired = [t \in Tags |-> 0] /\ stale = [t \in Tags |-> 0] /\ updated = [t \in Tags |-> 0]
  /\ memoryCache = <<>> /\ totalSize = 0
  /\ pendingSets = [k \in Keys |-> None] /\ lastFit = [k \in Keys |-> None]
  /\ phase = [r \in Requests |-> "idle"]
  /\ waitsFor = [r \in Requests |-> None] /\ served = [r \in Requests |-> None]
  /\ entry = [r \in Requests |-> NoEntry]
  /\ fresh = [r \in Requests |-> FALSE]

Settle(r) == Store(r) \/ Fail(r) \/ Reject(r)
Request(r) == Get(r) \/ Continue(r) \/ Set(r) \/ Settle(r)
Next == (\E r \in Requests : Request(r)) \/ (\E t \in Tags : ExpireTag(t) \/ MarkTag(t)) \/ Tick

\* As long as a set can settle or a get continue, one of them does: promises of entries settle, their
\* streams end, and what a settled promise wakes is run.
Fairness == WF_vars(\E r \in Requests : Settle(r) \/ Continue(r))

Spec == Init /\ [][Next]_vars /\ Fairness

-----------------------------------------------------------------------------
(* Properties *)

\* Every variable has its type.
TypeOK ==
  /\ now \in Times
  /\ expired \in [Tags -> Int] /\ updated \in [Tags -> Times \cup {0}]
  /\ stale \in [Tags -> {Rounded(t) : t \in Times} \cup {0}]
  /\ memoryCache \in Seq(Requests) /\ totalSize \in Nat
  /\ pendingSets \in [Keys -> Requests \cup {None}] /\ lastFit \in [Keys -> Requests \cup {None}]
  /\ phase \in [Requests -> Phases]
  /\ waitsFor \in [Requests -> Requests \cup {None}] /\ served \in [Requests -> Requests \cup {None}]
  /\ entry \in [Requests -> Entries \cup {NoEntry}]
  /\ fresh \in [Requests -> BOOLEAN]

\* The counter of the LRU cache says what its items take, and never more than maxSize, whatever was stored,
\* replaced by something larger or smaller, refused, read and evicted (lru-cache.ts:131-147).
CapacityKept == totalSize = TotalSize(memoryCache, entry, Len(memoryCache)) /\ totalSize <= MaxSize

\* What the cache holds for a key is what was stored for it last, however sets overlap and whatever was
\* evicted in between: no older entry comes back (but one too large to be stored replaces nothing).
HoldsLast == \A i, j \in DOMAIN memoryCache : /\ memoryCache[i] = lastFit[KeyOf[memoryCache[i]]]
                                              /\ KeyOf[memoryCache[i]] = KeyOf[memoryCache[j]] => i = j

\* An entry that get returns as fresh was not generated before the last update of one of its tags, whichever
\* updates, with and without durations, preceded it: only updates less than half a millisecond after the entry, or
\* so shortly before the get that Date.now() may not have reached their rounded time, may be missed.
FreshIsNewer ==
  [][\A r \in Requests : fresh'[r] /\ ~fresh[r]
       => \A t \in entry[served'[r]].tags :
            \/ 2 * (updated[t] - entry[served'[r]].timestamp) < Resolution
            \/ 2 * (now - updated[t]) < Resolution + 2 * Skew]_vars

\* A get that waits for a set returns, whether that set stores its entry or its stream breaks off. (After
\* a promise that rejects it waits for ever.) Again and again nobody else waits: a request waits once, so one
\* that waited for ever would make this false.
GetReturns == []<>(\A r \in Requests : phase[r] = "wait" => phase[waitsFor[r]] = "rejected")
=============================================================================

------------------------ MODULE UseCacheHandler_proof ------------------------
(***************************************************************************)
(* Proofs about UseCacheHandler, for all requests, keys, tags, sizes and   *)
(* durations and an LRU cache of any size: no update of a tag, whatever    *)
(* its durations, lets get return an entry as fresh that is older; the     *)
(* cache stays within its limit; it holds what was stored for a key last.  *)
(***************************************************************************)
EXTENDS UseCacheHandler, TLAPS, SequenceTheorems, WellFoundedInduction

-----------------------------------------------------------------------------
(* Rounding *)

LEMMA DivisionBounds ==
  ASSUME NEW x \in Int, NEW d \in Nat, d > 0
  PROVE  x \div d \in Int /\ d * (x \div d) <= x /\ x < d * (x \div d) + d
OBVIOUS

\* Math.round goes up by half a millisecond at most, and down by less.
LEMMA RoundedIsNear ==
  ASSUME NEW u \in Nat
  PROVE  /\ Rounded(u) \in Int
         /\ 2 * Rounded(u) <= 2 * u + Resolution
         /\ 2 * u - Resolution < 2 * Rounded(u)
<1> DEFINE d == 2 * Resolution
           x == 2 * u + Resolution
           q == x \div d
<1>1. d \in Nat /\ d > 0 /\ x \in Int /\ Resolution \in Int
  BY NumbersAssumption
<1> HIDE DEF d, x
<1>2. q \in Int /\ d * q <= x /\ x < d * q + d
  BY <1>1, DivisionBounds
<1> HIDE DEF q
<1>3. Rounded(u) = Resolution * q
  BY DEF Rounded, d, x, q
<1>4. (2 * Resolution) * q = 2 * (Resolution * q) /\ Resolution * q \in Int
  BY <1>1, <1>2
<1> QED
  BY <1>1, <1>2, <1>3, <1>4 DEF d, x

\* What comes before a millisecond when truncated comes before it.
LEMMA TruncatedBefore ==
  ASSUME NEW t \in Int, NEW u \in Nat, Truncated(t) < Rounded(u)
  PROVE  t < Rounded(u)
<1> DEFINE p == t \div Resolution
           q == (2 * u + Resolution) \div (2 * Resolution)
<1>1. Resolution \in Nat /\ Resolution > 0 /\ 2 * Resolution \in Nat /\ 2 * Resolution > 0 /\ 2 * u + Resolution \in Int
  BY NumbersAssumption
<1>2. p \in Int /\ t < Resolution * p + Resolution /\ q \in Int
  BY <1>1, DivisionBounds
<1>3. Truncated(t) = Resolution * p /\ Rounded(u) = Resolution * q
  BY DEF Truncated, Rounded
<1> HIDE DEF p, q
<1>4. CASE p + 1 <= q
  <2>1. Resolution * (p + 1) <= Resolution * q
    BY <1>1, <1>2, <1>4
  <2>2. Resolution * (p + 1) = Resolution * p + Resolution /\ Resolution * p \in Int /\ Resolution * q \in Int
    BY <1>1, <1>2
  <2> QED
    BY <1>1, <1>2, <1>3, <2>1, <2>2
<1>5. CASE q <= p
  <2>1. Resolution * q <= Resolution * p /\ Resolution * p \in Int /\ Resolution * q \in Int
    BY <1>1, <1>2, <1>5
  <2> QED
    BY <1>3, <2>1
<1> QED
  BY <1>2, <1>4, <1>5

-----------------------------------------------------------------------------
(* Updates *)

\* The part of TypeOK that the proof of FreshAfterUpdates needs.
TimesOK ==
  /\ now \in Nat
  /\ expired \in [Tags -> Int] /\ stale \in [Tags -> Int] /\ updated \in [Tags -> Nat]
  /\ \A r \in Requests : entry[r].timestamp \in Nat /\ entry[r].tags \subseteq Tags
  /\ DOMAIN entry = Requests /\ DOMAIN served = Requests /\ DOMAIN fresh = Requests

\* The last update of a tag is recorded in full milliseconds, as the time it became stale or as a time it has
\* expired: a later one with a duration that moves `expired` on has set `stale`.
UpdateRecorded == \A t \in Tags :
  updated[t] = 0 \/ stale[t] = Rounded(updated[t]) \/ expired[t] = Rounded(updated[t])

Inv == TimesOK /\ UpdateRecorded

LEMMA InitInv == Init => Inv
  BY NumbersAssumption DEF Init, Inv, TimesOK, UpdateRecorded, NoEntry

LEMMA LookupKeepsInv ==
  ASSUME Inv, NEW r \in Requests, Lookup(r), UNCHANGED <<now, manifest, entry>>
  PROVE  Inv'
  BY DEF Lookup, Inv, TimesOK, UpdateRecorded, manifest

LEMMA NextKeepsInv ==
  ASSUME Inv, [Next]_vars
  PROVE  Inv'
<1> USE NumbersAssumption DEF Inv, TimesOK, UpdateRecorded
<1>1. ASSUME NEW r \in Requests, Get(r) PROVE Inv'
  <2>1. CASE Lookup(r)
    BY <1>1, <2>1, LookupKeepsInv DEF Get
  <2>2. CASE ~Lookup(r)
    BY <1>1, <2>2 DEF Get, manifest
  <2> QED
    BY <2>1, <2>2
<1>2. ASSUME NEW r \in Requests, Continue(r) PROVE Inv'
  BY <1>2, LookupKeepsInv DEF Continue
<1>3. ASSUME NEW r \in Requests, Set(r) PROVE Inv'
  BY <1>3 DEF Set, manifest
<1>4. ASSUME NEW r \in Requests, Settle(r) PROVE Inv'
  BY <1>4 DEF Settle, Store, Fail, Reject, manifest
<1> DEFINE mark == Rounded(now)
<1>0. mark \in Int
  BY RoundedIsNear
<1>5. ASSUME NEW t \in Tags, ExpireTag(t) PROVE Inv'
  <2>1. /\ expired' = [expired EXCEPT ![t] = mark] /\ updated' = [updated EXCEPT ![t] = now]
        /\ UNCHANGED <<now, stale, entry, served, fresh>>
    BY <1>5 DEF ExpireTag
  <2>2. TimesOK'
    <3> HIDE DEF mark
    <3> QED
      BY <1>0, <2>1
  <2>3. ASSUME NEW u \in Tags
        PROVE  updated'[u] = 0 \/ stale'[u] = Rounded(updated'[u]) \/ expired'[u] = Rounded(updated'[u])
    BY <2>1
  <2> QED
    BY <2>2, <2>3 DEF Rounded
<1>6. ASSUME NEW t \in Tags, MarkTag(t) PROVE Inv'
  <2>1. /\ stale' = [stale EXCEPT ![t] = mark] /\ updated' = [updated EXCEPT ![t] = now]
        /\ UNCHANGED <<now, entry, served, fresh>>
        /\ expired' = expired \/ \E d \in Expires : expired' = [expired EXCEPT ![t] = mark + d]
    BY <1>6 DEF MarkTag
  <2>2. TimesOK'
    <3>1. \A d \in Expires : mark + d \in Int
      BY <1>0
    <3> HIDE DEF mark
    <3> QED
      BY <1>0, <2>1, <3>1
  <2>3. \A u \in Tags : u # t => expired'[u] = expired[u]
    BY <2>1
  <2>4. ASSUME NEW u \in Tags
        PROVE  updated'[u] = 0 \/ stale'[u] = Rounded(updated'[u]) \/ expired'[u] = Rounded(updated'[u])
    BY <2>1, <2>3
  <2> QED
    BY <2>2, <2>4 DEF Rounded
<1>7. CASE Tick
  BY <1>7 DEF Tick, manifest
<1>8. CASE UNCHANGED vars
  BY <1>8 DEF vars, manifest
<1> QED
  BY <1>1, <1>2, <1>3, <1>4, <1>5, <1>6, <1>7, <1>8 DEF Next, Request

LEMMA Invariance == Spec => []Inv
  BY InitInv, NextKeepsInv, PTL DEF Spec

-----------------------------------------------------------------------------

\* An update of t that get may miss when it returns the entry of s: it followed the entry, or precedes the get, by
\* too little.
Misses(s, t) ==
  \/ 2 * (updated[t] - entry[s].timestamp) < Resolution
  \/ 2 * (now - updated[t]) < Resolution + 2 * Skew

\* What a lookup returns as fresh is no older than the last update of each of its tags, but for such updates.
LEMMA LookupFresh ==
  ASSUME Inv, NEW r \in Requests, Lookup(r), NEW q \in Requests, fresh'[q], ~fresh[q], NEW t \in Tags,
         t \in entry[served'[q]].tags
  PROVE  Misses(served'[q], t)
<1>1. q = r
  BY DEF Lookup, Inv, TimesOK
<1>2. PICK s \in IF Cached(KeyOf[r]) = {} THEN {None} ELSE Cached(KeyOf[r]), date \in DateNow :
        /\ served' = [served EXCEPT ![r] = IF s # None /\ Usable(s, date) THEN s ELSE None]
        /\ fresh' = [fresh EXCEPT ![r] = (s # None /\ Usable(s, date)) /\ ~TagsStale(s)]
  BY DEF Lookup
<1>3. s # None /\ Usable(s, date) /\ ~TagsStale(s) /\ served'[q] = s
  BY <1>1, <1>2 DEF Inv, TimesOK
<1>4. s \in Requests
  BY <1>2, <1>3 DEF Cached
<1>5. ~ (expired[t] <= date /\ expired[t] > entry[s].timestamp) /\ ~ (stale[t] > entry[s].timestamp)
  BY <1>3 DEF Usable, TagsExpired, TagsStale
<1> DEFINE u == updated[t]
           time == entry[s].timestamp
<1>6. u \in Nat /\ time \in Nat /\ now \in Nat /\ Resolution \in Nat /\ Resolution > 0 /\ Skew \in Nat
  BY <1>4, NumbersAssumption DEF Inv, TimesOK
<1>7. expired[t] \in Int /\ stale[t] \in Int
  BY DEF Inv, TimesOK
<1>8. PICK x \in (now - Skew)..(now + Skew) : date = Truncated(x)
  BY <1>2 DEF DateNow
<1>9. x \in Int /\ now - Skew <= x /\ date \in Int
  <2>1. x \in Int /\ now - Skew <= x
    BY <1>6, <1>8
  <2>2. x \div Resolution \in Int
    BY <1>6, <2>1, DivisionBounds
  <2> QED
    BY <1>6, <1>8, <2>1, <2>2 DEF Truncated
<1>10. Rounded(u) \in Int /\ 2 * Rounded(u) <= 2 * u + Resolution /\ 2 * u - Resolution < 2 * Rounded(u)
  BY <1>6, RoundedIsNear
<1>11. u = 0 \/ stale[t] = Rounded(u) \/ expired[t] = Rounded(u)
  BY DEF Inv, UpdateRecorded
<1> HIDE DEF u, time
<1>12. CASE u = 0 \/ Rounded(u) <= time
  <2>1. 2 * (u - time) < Resolution
    BY <1>6, <1>10, <1>12
  <2> QED
    BY <1>3, <2>1 DEF Misses, u, time
<1>13. CASE ~(Rounded(u) <= date)
  <2>1. x < Rounded(u)
    BY <1>6, <1>8, <1>9, <1>10, <1>13, TruncatedBefore
  <2>2. 2 * (now - u) < Resolution + 2 * Skew
    BY <1>6, <1>9, <1>10, <2>1
  <2> QED
    BY <2>2 DEF Misses, u
<1>14. (u = 0 \/ Rounded(u) <= time) \/ ~(Rounded(u) <= date)
  BY <1>5, <1>6, <1>7, <1>9, <1>10, <1>11 DEF time
<1> QED
  BY <1>12, <1>13, <1>14

\* An update of a tag that follows an entry by half a millisecond or more, whatever its durations and whichever
\* updates surround it, keeps get from returning the entry as fresh, from half a millisecond later on, or as much
\* more as Date.now() may be behind (get, updateTags, areTagsExpired and areTagsStale).
THEOREM FreshAfterUpdates == Spec => FreshIsNewer
<1> DEFINE P == \A r \in Requests : fresh'[r] /\ ~fresh[r]
                  => \A t \in entry[served'[r]].tags :
                       \/ 2 * (updated[t] - entry[served'[r]].timestamp) < Resolution
                       \/ 2 * (now - updated[t]) < Resolution + 2 * Skew
<1>1. Inv /\ [Next]_vars => [P]_vars
  <2> SUFFICES ASSUME Inv, Next, NEW q \in Requests, fresh'[q], ~fresh[q],
                      NEW t \in entry[served'[q]].tags
               PROVE  Misses(served'[q], t)
    BY DEF vars, Misses
  <2>1. PICK r \in Requests : Lookup(r)
    <3>1. fresh' # fresh
      OBVIOUS
    <3> QED
      BY <3>1 DEF Next, Request, Get, Continue, Set, Settle, Store, Fail, Reject, ExpireTag, MarkTag, Tick
  <2>2. t \in Tags
    <3>1. served'[q] \in Requests
      BY <2>1 DEF Lookup, Cached, Inv, TimesOK
    <3> QED
      BY <3>1 DEF Inv, TimesOK
  <2> QED
    BY <2>1, <2>2, LookupFresh
<1> QED
  BY <1>1, Invariance, PTL DEF Spec, FreshIsNewer

-----------------------------------------------------------------------------
(* Numbers and sums *)

NatLess == {p \in Nat \X Nat : p[1] < p[2]}

LEMMA Minimum ==
  ASSUME NEW T, T \subseteq Nat, T # {}
  PROVE  \E x \in T : \A y \in T : x <= y
<1>1. IsWellFoundedOn(NatLess, Nat)
  BY NatLessThanWellFounded DEF NatLess, OpToRel
<1>2. PICK x \in T : \A y \in T : ~(<<y, x>> \in NatLess)
  BY <1>1, WFMin
<1>3. ASSUME NEW y \in T, ~(x <= y) PROVE FALSE
  <2>1. <<y, x>> \in NatLess
    BY <1>3 DEF NatLess
  <2> QED
    BY <1>2, <2>1
<1> QED
  BY <1>3

LEMMA Maximum ==
  ASSUME NEW N \in Nat, NEW T, T \subseteq 0..N, T # {}
  PROVE  \E x \in T : \A y \in T : y <= x
<1> DEFINE U == {N - x : x \in T}
<1>1. U \subseteq Nat /\ U # {}
  <2>1. PICK x : x \in T
    OBVIOUS
  <2>2. N - x \in U
    BY <2>1
  <2>3. \A y \in 0..N : N - y \in Nat
    OBVIOUS
  <2> QED
    BY <2>2, <2>3
<1> HIDE DEF U
<1>2. PICK u \in U : \A y \in U : u <= y
  BY <1>1, Minimum
<1>3. PICK x \in T : u = N - x
  BY <1>2 DEF U
<1>4. ASSUME NEW y \in T PROVE y <= x
  <2>1. N - y \in U
    BY DEF U
  <2>2. N - x <= N - y
    BY <1>2, <1>3, <2>1
  <2>3. x \in 0..N /\ y \in 0..N
    OBVIOUS
  <2> QED
    BY <2>2, <2>3
<1> QED
  BY <1>4

\* Induction for a set of numbers.
LEMMA Induct ==
  ASSUME NEW T, 0 \in T, \A n \in Nat : n \in T => n + 1 \in T
  PROVE  \A n \in Nat : n \in T
<1> SUFFICES ASSUME NEW m \in Nat, m \notin T PROVE FALSE
  OBVIOUS
<1>1. PICK x \in Nat \ T : \A y \in Nat \ T : x <= y
  BY Minimum
<1>2. x # 0
  BY <1>1
<1>3. x - 1 \in Nat /\ (x - 1) + 1 = x /\ ~(x <= x - 1)
  BY <1>1, <1>2
<1>4. x - 1 \in T
  BY <1>1, <1>3
<1> QED
  BY <1>1, <1>3, <1>4

\* The sums of the first numbers of w.
SumsUpTo(f, w, n) == f = [m \in 0..n |-> IF m = 0 THEN 0 ELSE f[m - 1] + w[m]]
Sums(w) == CHOOSE f : f = [m \in Nat |-> IF m = 0 THEN 0 ELSE f[m - 1] + w[m]]

LEMMA SumsUpToExist ==
  ASSUME NEW w
  PROVE  \A n \in Nat : \E f : SumsUpTo(f, w, n)
<1> DEFINE T == {n \in Nat : \E f : SumsUpTo(f, w, n)}
<1>1. 0 \in T
  <2> DEFINE f == [m \in 0..0 |-> 0]
  <2>1. SumsUpTo(f, w, 0)
    BY DEF SumsUpTo
  <2> QED
    BY <2>1
<1>2. ASSUME NEW n \in Nat, n \in T PROVE n + 1 \in T
  <2>1. PICK f : SumsUpTo(f, w, n)
    BY <1>2
  <2> DEFINE g == [m \in 0..(n + 1) |-> IF m = n + 1 THEN f[n] + w[n + 1] ELSE f[m]]
  <2>2. ASSUME NEW m \in 0..(n + 1) PROVE g[m] = IF m = 0 THEN 0 ELSE g[m - 1] + w[m]
    <3>1. CASE m = n + 1
      <4>1. m - 1 = n /\ n \in 0..(n + 1) /\ n # n + 1 /\ m # 0
        BY <3>1
      <4> QED
        BY <3>1, <4>1
    <3>2. CASE m # n + 1
      <4>1. m \in 0..n
        BY <3>2
      <4>2. f[m] = IF m = 0 THEN 0 ELSE f[m - 1] + w[m]
        BY <2>1, <4>1 DEF SumsUpTo
      <4>3. m # 0 => m - 1 \in 0..(n + 1) /\ m - 1 # n + 1
        BY <4>1
      <4> QED
        BY <3>2, <4>2, <4>3
    <3> QED
      BY <3>1, <3>2
  <2>3. SumsUpTo(g, w, n + 1)
    BY <2>2 DEF SumsUpTo
  <2> QED
    BY <2>3
<1> HIDE DEF T
<1>3. \A n \in Nat : n \in T
  BY <1>1, <1>2, Induct
<1> QED
  BY <1>3 DEF T

LEMMA SumsUpToAgree ==
  ASSUME NEW w, NEW f, NEW g, NEW n \in Nat, NEW k \in Nat, SumsUpTo(f, w, n), SumsUpTo(g, w, k)
  PROVE  \A m \in Nat : m <= n /\ m <= k => f[m] = g[m]
<1> DEFINE T == {m \in Nat : m <= n /\ m <= k => f[m] = g[m]}
<1>0. /\ \A m \in 0..n : f[m] = IF m = 0 THEN 0 ELSE f[m - 1] + w[m]
      /\ \A m \in 0..k : g[m] = IF m = 0 THEN 0 ELSE g[m - 1] + w[m]
  BY DEF SumsUpTo
<1>1. 0 \in T
  BY <1>0
<1>2. ASSUME NEW m \in Nat, m \in T PROVE m + 1 \in T
  <2> SUFFICES ASSUME m + 1 <= n, m + 1 <= k PROVE f[m + 1] = g[m + 1]
    OBVIOUS
  <2>1. m + 1 \in 0..n /\ m + 1 \in 0..k /\ (m + 1) - 1 = m /\ m + 1 # 0
    OBVIOUS
  <2>2. f[m] = g[m]
    BY <1>2
  <2>3. f[m + 1] = f[m] + w[m + 1] /\ g[m + 1] = g[m] + w[m + 1]
    BY <1>0, <2>1
  <2> QED
    BY <2>2, <2>3
<1> HIDE DEF T
<1>3. \A m \in Nat : m \in T
  BY <1>1, <1>2, Induct
<1> QED
  BY <1>3 DEF T

LEMMA SumsExist ==
  ASSUME NEW w
  PROVE  Sums(w) = [m \in Nat |-> IF m = 0 THEN 0 ELSE Sums(w)[m - 1] + w[m]]
<1> DEFINE part(n) == CHOOSE f : SumsUpTo(f, w, n)
           F == [n \in Nat |-> part(n)[n]]
<1>1. ASSUME NEW n \in Nat PROVE SumsUpTo(part(n), w, n)
  <2>1. \E f : SumsUpTo(f, w, n)
    BY SumsUpToExist
  <2> QED
    BY <2>1
<1> HIDE DEF part
<1>2. ASSUME NEW m \in Nat PROVE F[m] = IF m = 0 THEN 0 ELSE F[m - 1] + w[m]
  <2>1. part(m)[m] = IF m = 0 THEN 0 ELSE part(m)[m - 1] + w[m]
    <3>1. m \in 0..m
      OBVIOUS
    <3> QED
      BY <1>1, <3>1 DEF SumsUpTo
  <2>2. CASE m = 0
    BY <2>1, <2>2
  <2>3. CASE m # 0
    <3>1. m - 1 \in Nat /\ m - 1 <= m - 1 /\ m - 1 <= m
      BY <2>3
    <3>2. SumsUpTo(part(m), w, m) /\ SumsUpTo(part(m - 1), w, m - 1)
      BY <1>1, <3>1
    <3>3. \A i \in Nat : i <= m /\ i <= m - 1 => part(m)[i] = part(m - 1)[i]
      BY <3>1, <3>2, SumsUpToAgree
    <3>4. part(m)[m - 1] = F[m - 1]
      BY <3>1, <3>3
    <3> QED
      BY <2>1, <2>3, <3>4
  <2> QED
    BY <2>2, <2>3
<1>3. F = [m \in Nat |-> IF m = 0 THEN 0 ELSE F[m - 1] + w[m]]
  BY <1>2
<1> HIDE DEF F
<1> QED
  BY <1>3 DEF Sums

LEMMA SumsStep ==
  ASSUME NEW w
  PROVE  Sums(w)[0] = 0 /\ \A n \in Nat : Sums(w)[n + 1] = Sums(w)[n] + w[n + 1]
<1> DEFINE S == Sums(w)
<1>1. S = [m \in Nat |-> IF m = 0 THEN 0 ELSE S[m - 1] + w[m]]
  BY SumsExist
<1> HIDE DEF S
<1>2. \A m \in Nat : S[m] = IF m = 0 THEN 0 ELSE S[m - 1] + w[m]
  BY <1>1
<1>3. ASSUME NEW n \in Nat PROVE S[n + 1] = S[n] + w[n + 1]
  <2>1. n + 1 \in Nat /\ n + 1 # 0 /\ (n + 1) - 1 = n
    OBVIOUS
  <2> QED
    BY <1>2, <2>1
<1>4. S[0] = 0
  BY <1>2
<1> QED
  BY <1>3, <1>4 DEF S

\* Sums of numbers are numbers.
LEMMA SumsAreNat ==
  ASSUME NEW w, NEW k \in Nat, \A i \in 1..k : w[i] \in Nat
  PROVE  \A n \in 0..k : Sums(w)[n] \in Nat
<1> DEFINE T == {n \in Nat : n <= k => Sums(w)[n] \in Nat}
<1>1. 0 \in T
  BY SumsStep
<1>2. ASSUME NEW n \in Nat, n \in T PROVE n + 1 \in T
  <2> SUFFICES ASSUME n + 1 <= k PROVE Sums(w)[n + 1] \in Nat
    OBVIOUS
  <2>1. Sums(w)[n] \in Nat /\ w[n + 1] \in Nat
    BY <1>2
  <2> QED
    BY <2>1, SumsStep
<1> HIDE DEF T
<1>3. \A n \in Nat : n \in T
  BY <1>1, <1>2, Induct
<1> QED
  BY <1>3 DEF T

\* Equal numbers have equal sums.
LEMMA SumsOfEquals ==
  ASSUME NEW w, NEW v, NEW k \in Nat, \A i \in 1..k : w[i] = v[i]
  PROVE  \A n \in 0..k : Sums(w)[n] = Sums(v)[n]
<1> DEFINE T == {n \in Nat : n <= k => Sums(w)[n] = Sums(v)[n]}
<1>1. 0 \in T
  BY SumsStep
<1>2. ASSUME NEW n \in Nat, n \in T PROVE n + 1 \in T
  <2> SUFFICES ASSUME n + 1 <= k PROVE Sums(w)[n + 1] = Sums(v)[n + 1]
    OBVIOUS
  <2>1. Sums(w)[n] = Sums(v)[n] /\ w[n + 1] = v[n + 1]
    BY <1>2
  <2> QED
    BY <2>1, SumsStep
<1> HIDE DEF T
<1>3. \A n \in Nat : n \in T
  BY <1>1, <1>2, Induct
<1> QED
  BY <1>3 DEF T

\* The k numbers of v are those of w with another one in front in place of the j-th.
Replaces(v, w, k, j) == /\ k \in Nat /\ j \in 1..k
                        /\ v[1] \in Nat /\ \A i \in 1..k : w[i] \in Nat
                        /\ \A i \in 2..j : v[i] = w[i - 1]
                        /\ \A i \in (j + 1)..k : v[i] = w[i]

LEMMA SumsOfReplaced ==
  ASSUME NEW w, NEW v, NEW k, NEW j, Replaces(v, w, k, j)
  PROVE  Sums(v)[k] = Sums(w)[k] - w[j] + v[1]
<1> USE DEF Replaces
<1> DEFINE R == Sums(w)
           S == Sums(v)
<1>0. /\ R[0] = 0 /\ \A n \in Nat : R[n + 1] = R[n] + w[n + 1]
      /\ S[0] = 0 /\ \A n \in Nat : S[n + 1] = S[n] + v[n + 1]
      /\ \A n \in 0..k : R[n] \in Nat
  BY SumsStep, SumsAreNat
<1> HIDE DEF R, S
<1> DEFINE T == {n \in Nat : n + 1 <= k => S[n + 1] = IF n + 1 <= j THEN R[n] + v[1] ELSE R[n + 1] - w[j] + v[1]}
<1>1. 0 \in T
  <2>1. S[0 + 1] = S[0] + v[0 + 1]
    BY <1>0
  <2> QED
    BY <1>0, <2>1
<1>2. ASSUME NEW n \in Nat, n \in T PROVE n + 1 \in T
  <2> SUFFICES ASSUME (n + 1) + 1 <= k
               PROVE  S[(n + 1) + 1] = IF (n + 1) + 1 <= j THEN R[n + 1] + v[1] ELSE R[(n + 1) + 1] - w[j] + v[1]
    OBVIOUS
  <2>1. S[n + 1] = IF n + 1 <= j THEN R[n] + v[1] ELSE R[n + 1] - w[j] + v[1]
    BY <1>2
  <2>2. /\ S[(n + 1) + 1] = S[n + 1] + v[(n + 1) + 1]
        /\ R[n + 1] = R[n] + w[n + 1]
        /\ R[(n + 1) + 1] = R[n + 1] + w[(n + 1) + 1]
    BY <1>0
  <2>3. R[n] \in Nat /\ w[n + 1] \in Nat /\ w[(n + 1) + 1] \in Nat /\ w[j] \in Nat
    BY <1>0
  <2>4. CASE (n + 1) + 1 <= j
    <3>1. v[(n + 1) + 1] = w[n + 1]
      <4>1. (n + 1) + 1 \in 2..j /\ ((n + 1) + 1) - 1 = n + 1
        BY <2>4
      <4> QED
        BY <4>1
    <3> QED
      BY <2>1, <2>2, <2>3, <2>4, <3>1
  <2>5. CASE n + 1 = j
    <3>1. v[(n + 1) + 1] = w[(n + 1) + 1]
      BY <2>5
    <3> QED
      BY <2>1, <2>2, <2>3, <2>5, <3>1
  <2>6. CASE n + 1 > j
    <3>1. v[(n + 1) + 1] = w[(n + 1) + 1]
      BY <2>6
    <3> QED
      BY <2>1, <2>2, <2>3, <2>6, <3>1
  <2> QED
    BY <2>4, <2>5, <2>6
<1> HIDE DEF T
<1>3. \A n \in Nat : n \in T
  BY <1>1, <1>2, Induct
<1>4. k - 1 \in Nat /\ (k - 1) + 1 = k
  OBVIOUS
<1>5. S[k] = IF k <= j THEN R[k - 1] + v[1] ELSE R[k] - w[j] + v[1]
  BY <1>3, <1>4 DEF T
<1>6. R[k] = R[k - 1] + w[k] /\ R[k - 1] \in Nat /\ R[k] \in Nat /\ w[k] \in Nat /\ w[j] \in Nat
  BY <1>0, <1>4
<1>7. CASE k <= j
  <2>1. k = j
    BY <1>7
  <2> QED
    BY <1>5, <1>6, <2>1 DEF R, S
<1>8. CASE ~(k <= j)
  BY <1>5, <1>8 DEF R, S
<1> QED
  BY <1>7, <1>8

\* The sum with a number in front of the others.
LEMMA SumsOfAdded ==
  ASSUME NEW w, NEW v, NEW k \in Nat, \A i \in 1..k : w[i] \in Nat, v[1] \in Nat,
         \A i \in 2..(k + 1) : v[i] = w[i - 1]
  PROVE  Sums(v)[k + 1] = Sums(w)[k] + v[1]
<1> DEFINE R == Sums(w)
           S == Sums(v)
<1>0. /\ R[0] = 0 /\ \A n \in Nat : R[n + 1] = R[n] + w[n + 1]
      /\ S[0] = 0 /\ \A n \in Nat : S[n + 1] = S[n] + v[n + 1]
      /\ \A n \in 0..k : R[n] \in Nat
  BY SumsStep, SumsAreNat
<1> HIDE DEF R, S
<1> DEFINE T == {n \in Nat : n <= k => S[n + 1] = R[n] + v[1]}
<1>1. 0 \in T
  <2>1. S[0 + 1] = S[0] + v[0 + 1]
    BY <1>0
  <2> QED
    BY <1>0, <2>1
<1>2. ASSUME NEW n \in Nat, n \in T PROVE n + 1 \in T
  <2> SUFFICES ASSUME n + 1 <= k PROVE S[(n + 1) + 1] = R[n + 1] + v[1]
    OBVIOUS
  <2>1. S[n + 1] = R[n] + v[1]
    BY <1>2
  <2>2. S[(n + 1) + 1] = S[n + 1] + v[(n + 1) + 1] /\ R[n + 1] = R[n] + w[n + 1]
    BY <1>0
  <2>3. R[n] \in Nat /\ w[n + 1] \in Nat
    BY <1>0
  <2>4. v[(n + 1) + 1] = w[n + 1]
    <3>1. (n + 1) + 1 \in 2..(k + 1) /\ ((n + 1) + 1) - 1 = n + 1
      OBVIOUS
    <3> QED
      BY <3>1
  <2> QED
    BY <2>1, <2>2, <2>3, <2>4
<1> HIDE DEF T
<1>3. \A n \in Nat : n \in T
  BY <1>1, <1>2, Induct
<1> QED
  BY <1>3 DEF T, R, S

-----------------------------------------------------------------------------
(* The LRU list *)

\* The sizes of the items of q, as numbers to sum up.
Weights(q, e) == [i \in Nat |-> e[q[i]].size]
Sized(q, e) == \A i \in 1..Len(q) : e[q[i]].size \in Nat

\* Each item is the last one of its key, and no key has two.
Lasts(q, last) == \A i, j \in DOMAIN q : /\ q[i] = last[KeyOf[q[i]]]
                                         /\ KeyOf[q[i]] = KeyOf[q[j]] => i = j

LEMMA TotalIsSum ==
  ASSUME NEW q, NEW e
  PROVE  \A n \in Nat : TotalSize(q, e, n) = Sums(Weights(q, e))[n]
<1> DEFINE w == Weights(q, e)
<1>1. \A f : [m \in Nat |-> IF m = 0 THEN 0 ELSE f[m - 1] + w[m]]
             = [m \in Nat |-> IF m = 0 THEN 0 ELSE f[m - 1] + e[q[m]].size]
  BY DEF Weights
<1>2. Sums(w) = CHOOSE f : f = [m \in Nat |-> IF m = 0 THEN 0 ELSE f[m - 1] + e[q[m]].size]
  BY <1>1 DEF Sums
<1> QED
  BY <1>2 DEF TotalSize

\* A list that agrees with q up to n takes as much up to n.
LEMMA TotalOfEquals ==
  ASSUME NEW q, NEW e, NEW p, NEW f, NEW n \in Nat, \A i \in 1..n : e[q[i]].size = f[p[i]].size
  PROVE  TotalSize(q, e, n) = TotalSize(p, f, n)
<1>1. \A i \in 1..n : Weights(q, e)[i] = Weights(p, f)[i]
  BY DEF Weights
<1>2. Sums(Weights(q, e))[n] = Sums(Weights(p, f))[n]
  BY <1>1, SumsOfEquals
<1> QED
  BY <1>2, TotalIsSum

LEMMA TotalOfNone ==
  ASSUME NEW q, NEW e
  PROVE  TotalSize(q, e, 0) = 0
BY TotalIsSum, SumsStep

\* What the items of a list take is a number.
LEMMA TotalsAreNat ==
  ASSUME NEW q \in Seq(Requests), NEW e, Sized(q, e)
  PROVE  Len(q) \in Nat /\ \A n \in 0..Len(q) : TotalSize(q, e, n) \in Nat
<1>1. Len(q) \in Nat
  OBVIOUS
<1>2. \A i \in 1..Len(q) : Weights(q, e)[i] \in Nat
  BY <1>1 DEF Sized, Weights
<1>3. \A n \in 0..Len(q) : Sums(Weights(q, e))[n] \in Nat
  BY <1>1, <1>2, SumsAreNat
<1> QED
  BY <1>1, <1>3, TotalIsSum

\* When the counter is right, eviction keeps a head of the list, which is empty or fits, and its size.
LEMMA EvictKeepsHead ==
  ASSUME NEW q \in Seq(Requests), Sized(q, entry), NEW c, c = TotalSize(q, entry, Len(q)), Evict(q, c)
  PROVE  \E n \in 0..Len(q) : /\ memoryCache' = SubSeq(q, 1, n)
                              /\ totalSize' = TotalSize(q, entry, n)
                              /\ n = 0 \/ TotalSize(q, entry, n) <= MaxSize
<1> DEFINE fits(n) == n = 0 \/ Left(q, c, n) <= MaxSize
           T == {n \in 0..Len(q) : fits(n)}
           kept == CHOOSE n \in 0..Len(q) : fits(n) /\ \A m \in n+1..Len(q) : ~fits(m)
<1>1. memoryCache' = SubSeq(q, 1, kept) /\ totalSize' = Left(q, c, kept)
  BY DEF Evict, Kept
<1>2. Len(q) \in Nat
  OBVIOUS
<1>3. \E n \in 0..Len(q) : fits(n) /\ \A m \in n+1..Len(q) : ~fits(m)
  <2>1. 0 \in T /\ T \subseteq 0..Len(q)
    BY <1>2
  <2> HIDE DEF T
  <2>2. PICK n \in T : \A m \in T : m <= n
    BY <1>2, <2>1, Maximum
  <2>3. n \in 0..Len(q) /\ fits(n)
    BY <2>2 DEF T
  <2>4. ASSUME NEW m \in n+1..Len(q), fits(m) PROVE FALSE
    <3>1. m \in 0..Len(q) /\ ~(m <= n)
      BY <1>2, <2>3
    <3>2. m \in T
      BY <2>4, <3>1 DEF T
    <3> QED
      BY <2>2, <3>1, <3>2
  <2> QED
    BY <2>3, <2>4
<1>4. kept \in 0..Len(q) /\ fits(kept)
  BY <1>3
<1> HIDE DEF kept
<1>5. Left(q, c, kept) = TotalSize(q, entry, kept)
  <2>1. c \in Nat /\ TotalSize(q, entry, kept) \in Nat
    BY <1>2, <1>4, TotalsAreNat
  <2> QED
    BY <2>1 DEF Left
<1> QED
  BY <1>1, <1>4, <1>5

LEMMA HeadOfList ==
  ASSUME NEW q \in Seq(Requests), NEW n \in 0..Len(q)
  PROVE  /\ SubSeq(q, 1, n) \in Seq(Requests)
         /\ Len(SubSeq(q, 1, n)) = n
         /\ \A i \in 1..n : SubSeq(q, 1, n)[i] = q[i]
<1>1. n \in Int /\ \A i \in 1..n : q[i] \in Requests
  BY LenProperties
<1>2. /\ SubSeq(q, 1, n) \in Seq(Requests)
      /\ Len(SubSeq(q, 1, n)) = IF 1 <= n THEN n - 1 + 1 ELSE 0
      /\ \A i \in 1..n - 1 + 1 : SubSeq(q, 1, n)[i] = q[1 + i - 1]
  BY <1>1, SubSeqProperties
<1> QED
  BY <1>2

\* Where the item of a key is, if there is one, and behind the list otherwise.
IsPlace(j, k) == /\ j \in 1..(Len(memoryCache) + 1)
                 /\ \A i \in 1..Len(memoryCache) : KeyOf[memoryCache[i]] = k <=> i = j

LEMMA WithoutRemoves ==
  ASSUME NEW k, memoryCache \in Seq(Requests), HoldsLast
  PROVE  \E j : /\ IsPlace(j, k)
                /\ Without(k) \in Seq(Requests)
                /\ Len(Without(k)) = IF j <= Len(memoryCache) THEN Len(memoryCache) - 1 ELSE Len(memoryCache)
                /\ \A i \in 1..Len(Without(k)) :
                     Without(k)[i] = IF i < j THEN memoryCache[i] ELSE memoryCache[i + 1]
<1> DEFINE n == Len(memoryCache)
<1>0. /\ n \in Nat /\ DOMAIN memoryCache = 1..n
      /\ \A i \in 1..n : memoryCache[i] \in Requests
  BY LenProperties
<1>1. CASE Cached(k) = {}
  <2>1. \A i \in 1..n : KeyOf[memoryCache[i]] # k
    BY <1>0, <1>1 DEF Cached, Contains
  <2>2. IsPlace(n + 1, k)
    BY <1>0, <2>1 DEF IsPlace
  <2>3. Without(k) = memoryCache
    BY <1>1 DEF Without
  <2>4. \A i \in 1..n : i < n + 1
    BY <1>0
  <2>5. Len(Without(k)) = n
    BY <2>3
  <2> HIDE DEF n
  <2>6. /\ n = IF n + 1 <= n THEN n - 1 ELSE n
        /\ \A i \in 1..n : Without(k)[i] = IF i < n + 1 THEN memoryCache[i] ELSE memoryCache[i + 1]
    BY <1>0, <2>3, <2>4
  <2> QED
    BY <2>2, <2>3, <2>5, <2>6 DEF n
<1>2. CASE Cached(k) # {}
  <2> DEFINE j == CHOOSE i \in DOMAIN memoryCache : KeyOf[memoryCache[i]] = k
             front == SubSeq(memoryCache, 1, j - 1)
             back == SubSeq(memoryCache, j + 1, n)
  <2>1. \E i \in DOMAIN memoryCache : KeyOf[memoryCache[i]] = k
    BY <1>0, <1>2 DEF Cached, Contains
  <2>2. j \in 1..n /\ KeyOf[memoryCache[j]] = k
    BY <1>0, <2>1
  <2>3. Without(k) = front \o back
    BY <1>2 DEF Without, RemoveAt
  <2> HIDE DEF j
  <2>4. \A i \in 1..n : KeyOf[memoryCache[i]] = k <=> i = j
    BY <1>0, <2>2 DEF HoldsLast
  <2>5. IsPlace(j, k)
    BY <1>0, <2>2, <2>4 DEF IsPlace
  <2>6. front \in Seq(Requests) /\ Len(front) = j - 1 /\ \A i \in 1..(j - 1) : front[i] = memoryCache[i]
    BY <1>0, <2>2, HeadOfList
  <2>7. /\ back \in Seq(Requests) /\ Len(back) = n - j
        /\ \A i \in 1..(n - j) : back[i] = memoryCache[j + i]
    <3> HIDE DEF n
    <3>1. j + 1 \in Int /\ n \in Int /\ \A i \in (j + 1)..n : memoryCache[i] \in Requests
      BY <1>0, <2>2
    <3>2. /\ back \in Seq(Requests)
          /\ Len(back) = IF j + 1 <= n THEN n - (j + 1) + 1 ELSE 0
          /\ \A i \in 1..n - (j + 1) + 1 : back[i] = memoryCache[(j + 1) + i - 1]
      BY <3>1, SubSeqProperties
    <3> QED
      BY <1>0, <2>2, <3>2
  <2> HIDE DEF front, back
  <2>8. /\ Without(k) \in Seq(Requests) /\ Len(Without(k)) = Len(front) + Len(back)
        /\ \A i \in 1..(Len(front) + Len(back)) :
             Without(k)[i] = IF i <= Len(front) THEN front[i] ELSE back[i - Len(front)]
    <3>1. /\ front \o back \in Seq(Requests) /\ Len(front \o back) = Len(front) + Len(back)
          /\ \A i \in 1..(Len(front) + Len(back)) :
               (front \o back)[i] = IF i <= Len(front) THEN front[i] ELSE back[i - Len(front)]
      BY <2>6, <2>7, ConcatProperties
    <3> QED
      BY <2>3, <3>1
  <2>9. Len(Without(k)) = n - 1
    BY <1>0, <2>2, <2>6, <2>7, <2>8
  <2>10. ASSUME NEW i \in 1..(n - 1)
         PROVE  Without(k)[i] = IF i < j THEN memoryCache[i] ELSE memoryCache[i + 1]
    <3>1. Without(k)[i] = IF i <= j - 1 THEN front[i] ELSE back[i - (j - 1)]
      BY <1>0, <2>2, <2>6, <2>7, <2>8
    <3>2. CASE i < j
      <4>1. i \in 1..(j - 1) /\ i <= j - 1
        BY <1>0, <2>2, <3>2
      <4> QED
        BY <2>6, <3>1, <3>2, <4>1
    <3>3. CASE ~(i < j)
      <4>1. i - (j - 1) \in 1..(n - j) /\ ~(i <= j - 1) /\ j + (i - (j - 1)) = i + 1
        BY <1>0, <2>2, <3>3
      <4> QED
        BY <2>7, <3>1, <3>3, <4>1
    <3> QED
      BY <3>2, <3>3
  <2>11. Len(Without(k)) = IF j <= n THEN n - 1 ELSE n
    BY <2>2, <2>9
  <2>12. \A i \in 1..Len(Without(k)) : Without(k)[i] = IF i < j THEN memoryCache[i] ELSE memoryCache[i + 1]
    BY <2>9, <2>10
  <2> QED
    BY <2>5, <2>8, <2>11, <2>12
<1> QED
  BY <1>1, <1>2

\* q is the list with s at its head in place of what its key had at j.
IsMoved(q, j, s) == /\ IsPlace(j, KeyOf[s])
                    /\ q \in Seq(Requests)
                    /\ Len(q) = IF j <= Len(memoryCache) THEN Len(memoryCache) ELSE Len(memoryCache) + 1
                    /\ q[1] = s
                    /\ \A i \in 2..Len(q) : q[i] = IF i <= j THEN memoryCache[i - 1] ELSE memoryCache[i]

LEMMA ToHead ==
  ASSUME NEW s \in Requests, memoryCache \in Seq(Requests), HoldsLast
  PROVE  \E j : IsMoved(<<s>> \o Without(KeyOf[s]), j, s)
<1> DEFINE k == KeyOf[s]
           n == Len(memoryCache)
           rest == Without(k)
           q == <<s>> \o rest
<1>1. PICK j : /\ IsPlace(j, k) /\ rest \in Seq(Requests)
               /\ Len(rest) = IF j <= n THEN n - 1 ELSE n
               /\ \A i \in 1..Len(rest) : rest[i] = IF i < j THEN memoryCache[i] ELSE memoryCache[i + 1]
  BY WithoutRemoves
<1>2. n \in Nat /\ j \in 1..(n + 1)
  BY <1>1, LenProperties DEF IsPlace
<1>3. <<s>> \in Seq(Requests) /\ Len(<<s>>) = 1 /\ <<s>>[1] = s
  OBVIOUS
<1> HIDE DEF n, rest
<1>4. /\ q \in Seq(Requests) /\ Len(q) = 1 + Len(rest)
      /\ \A i \in 1..(1 + Len(rest)) : q[i] = IF i <= 1 THEN s ELSE rest[i - 1]
  <2>1. /\ q \in Seq(Requests) /\ Len(q) = Len(<<s>>) + Len(rest)
        /\ \A i \in 1..(Len(<<s>>) + Len(rest)) :
             q[i] = IF i <= Len(<<s>>) THEN <<s>>[i] ELSE rest[i - Len(<<s>>)]
    BY <1>1, <1>3, ConcatProperties
  <2>2. Len(rest) \in Nat
    BY <1>1, <1>2
  <2>3. ASSUME NEW i \in 1..(1 + Len(rest)) PROVE q[i] = IF i <= 1 THEN s ELSE rest[i - 1]
    <3>1. q[i] = IF i <= 1 THEN <<s>>[i] ELSE rest[i - 1]
      BY <1>3, <2>1
    <3>2. i <= 1 => i = 1
      BY <2>2
    <3> QED
      BY <1>3, <3>1, <3>2
  <2> QED
    BY <1>3, <2>1, <2>3
<1> HIDE DEF q
<1>5. Len(rest) \in Nat /\ Len(q) = IF j <= n THEN n ELSE n + 1
  BY <1>1, <1>2, <1>4
<1>6. q[1] = s
  BY <1>4, <1>5
<1>7. ASSUME NEW i \in 2..Len(q) PROVE q[i] = IF i <= j THEN memoryCache[i - 1] ELSE memoryCache[i]
  <2>1. i - 1 \in 1..Len(rest) /\ i \in 1..(1 + Len(rest)) /\ ~(i <= 1) /\ (i - 1) + 1 = i
    BY <1>4, <1>5
  <2>2. q[i] = rest[i - 1]
    BY <1>4, <2>1
  <2>3. rest[i - 1] = IF i - 1 < j THEN memoryCache[i - 1] ELSE memoryCache[(i - 1) + 1]
    BY <1>1, <2>1
  <2>4. i - 1 < j <=> i <= j
    BY <1>2, <2>1
  <2> QED
    BY <2>1, <2>2, <2>3, <2>4
<1> QED
  BY <1>1, <1>4, <1>5, <1>6, <1>7 DEF n, q, rest, IsMoved

LEMMA MovedLasts ==
  ASSUME NEW s \in Requests, memoryCache \in Seq(Requests), HoldsLast, NEW q, NEW j, IsMoved(q, j, s), NEW last,
         last[KeyOf[s]] = s, \A k \in Keys : k # KeyOf[s] => last[k] = lastFit[k]
  PROVE  /\ Lasts(q, last)
         /\ \A i \in DOMAIN q : q[i] = s \/ \E h \in DOMAIN memoryCache : q[i] = memoryCache[h]
<1> DEFINE n == Len(memoryCache)
           from(i) == IF i <= j THEN i - 1 ELSE i
<1>1. /\ n \in Nat /\ DOMAIN memoryCache = 1..n /\ DOMAIN q = 1..Len(q)
      /\ j \in 1..(n + 1) /\ Len(q) = IF j <= n THEN n ELSE n + 1
      /\ q[1] = s
      /\ \A i \in 1..n : memoryCache[i] \in Requests
  BY LenProperties DEF IsMoved, IsPlace
<1>2. ASSUME NEW i \in 2..Len(q)
      PROVE  /\ from(i) \in 1..n
             /\ q[i] = memoryCache[from(i)]
             /\ KeyOf[q[i]] # KeyOf[s] /\ KeyOf[q[i]] \in Keys
             /\ q[i] = last[KeyOf[q[i]]]
  <2>1. from(i) \in 1..n /\ from(i) # j
    BY <1>1
  <2>2. q[i] = memoryCache[from(i)]
    BY DEF IsMoved
  <2>3. KeyOf[q[i]] # KeyOf[s]
    BY <2>1, <2>2 DEF IsMoved, IsPlace
  <2>4. KeyOf[q[i]] \in Keys
    BY <1>1, <2>1, <2>2, RequestsAssumption
  <2>5. q[i] = lastFit[KeyOf[q[i]]]
    BY <1>1, <2>1, <2>2 DEF HoldsLast
  <2> QED
    BY <2>1, <2>2, <2>3, <2>4, <2>5
<1>3. ASSUME NEW i \in 2..Len(q), NEW h \in 2..Len(q), KeyOf[q[i]] = KeyOf[q[h]] PROVE i = h
  <2>1. from(i) = from(h)
    <3> HIDE DEF from
    <3> QED
      BY <1>1, <1>2, <1>3 DEF HoldsLast
  <2> QED
    BY <1>1, <2>1
<1>4. \A i \in 1..Len(q) : i = 1 \/ i \in 2..Len(q)
  BY <1>1
<1>5. ASSUME NEW i \in 1..Len(q) PROVE q[i] = last[KeyOf[q[i]]]
  BY <1>1, <1>2, <1>4
<1>6. ASSUME NEW i \in 1..Len(q), NEW h \in 1..Len(q), KeyOf[q[i]] = KeyOf[q[h]] PROVE i = h
  BY <1>1, <1>2, <1>3, <1>4, <1>6
<1>7. Lasts(q, last)
  BY <1>1, <1>5, <1>6 DEF Lasts
<1>8. ASSUME NEW i \in 1..Len(q) PROVE q[i] = s \/ \E h \in 1..n : q[i] = memoryCache[h]
  BY <1>1, <1>2, <1>4
<1> QED
  BY <1>1, <1>7, <1>8

\* An item at the head takes the place of the one its key had.
LEMMA MovedTotal ==
  ASSUME NEW s \in Requests, memoryCache \in Seq(Requests), NEW q, NEW j, IsMoved(q, j, s),
         j <= Len(memoryCache), Sized(memoryCache, entry), entry[s].size \in Nat
  PROVE  TotalSize(q, entry, Len(q))
           = TotalSize(memoryCache, entry, Len(memoryCache)) - entry[memoryCache[j]].size + entry[s].size
<1> DEFINE n == Len(memoryCache)
           w == Weights(memoryCache, entry)
           v == Weights(q, entry)
           x == entry[s].size
<1>1. n \in Nat /\ j \in 1..n /\ Len(q) = n /\ q[1] = s
  BY LenProperties DEF IsMoved, IsPlace
<1>2. /\ \A i \in 1..n : w[i] \in Nat
      /\ w[j] = entry[memoryCache[j]].size
  BY <1>1 DEF Weights, Sized
<1>3. v[1] = x /\ x \in Nat
  BY <1>1 DEF Weights
<1>4. ASSUME NEW i \in 2..j PROVE v[i] = w[i - 1]
  <2>1. i \in 2..Len(q) /\ i <= j /\ i \in Nat /\ i - 1 \in Nat
    BY <1>1
  <2>2. q[i] = memoryCache[i - 1]
    BY <2>1 DEF IsMoved
  <2> QED
    BY <2>1, <2>2 DEF Weights
<1>5. ASSUME NEW i \in (j + 1)..n PROVE v[i] = w[i]
  <2>1. i \in 2..Len(q) /\ ~(i <= j) /\ i \in Nat
    BY <1>1
  <2>2. q[i] = memoryCache[i]
    BY <2>1 DEF IsMoved
  <2> QED
    BY <2>1, <2>2 DEF Weights
<1> HIDE DEF w, v, n, x
<1>6. Sums(v)[n] = Sums(w)[n] - w[j] + v[1]
  <2>1. Replaces(v, w, n, j)
    BY <1>1, <1>2, <1>3, <1>4, <1>5 DEF Replaces
  <2> QED
    BY <2>1, SumsOfReplaced
<1> QED
  BY <1>1, <1>2, <1>3, <1>6, TotalIsSum DEF n, w, v, x

\* An item whose key has none adds what it takes.
LEMMA AddedTotal ==
  ASSUME NEW s \in Requests, memoryCache \in Seq(Requests), NEW q, NEW j, IsMoved(q, j, s),
         j = Len(memoryCache) + 1, Sized(memoryCache, entry), entry[s].size \in Nat
  PROVE  TotalSize(q, entry, Len(q)) = TotalSize(memoryCache, entry, Len(memoryCache)) + entry[s].size
<1> DEFINE n == Len(memoryCache)
           w == Weights(memoryCache, entry)
           v == Weights(q, entry)
           x == entry[s].size
<1>1. n \in Nat /\ Len(q) = n + 1 /\ q[1] = s /\ j = n + 1
  BY LenProperties DEF IsMoved
<1>2. \A i \in 1..n : w[i] \in Nat
  BY <1>1 DEF Weights, Sized
<1>3. v[1] = x /\ x \in Nat
  BY <1>1 DEF Weights
<1>4. ASSUME NEW i \in 2..(n + 1) PROVE v[i] = w[i - 1]
  <2>1. i \in 2..Len(q) /\ i <= j /\ i \in Nat /\ i - 1 \in Nat
    BY <1>1
  <2>2. q[i] = memoryCache[i - 1]
    BY <2>1 DEF IsMoved
  <2> QED
    BY <2>1, <2>2 DEF Weights
<1> HIDE DEF w, v, n, x
<1>5. Sums(v)[n + 1] = Sums(w)[n] + v[1]
  BY <1>1, <1>2, <1>3, <1>4, SumsOfAdded
<1> QED
  BY <1>1, <1>3, <1>5, TotalIsSum DEF n, w, v, x

\* The counter follows the list: it gives back the size of the item that the new one replaces.
LEMMA CountedIsTotal ==
  ASSUME NEW r \in Requests, memoryCache \in Seq(Requests), NEW q, NEW j, IsMoved(q, j, r),
         Sized(memoryCache, entry), entry[r].size \in Nat,
         totalSize = TotalSize(memoryCache, entry, Len(memoryCache))
  PROVE  Counted(r) = TotalSize(q, entry, Len(q))
<1>1. /\ Len(memoryCache) \in Nat /\ j \in 1..(Len(memoryCache) + 1)
      /\ \A i \in 1..Len(memoryCache) : memoryCache[i] \in Requests /\ (KeyOf[memoryCache[i]] = KeyOf[r] <=> i = j)
  BY LenProperties DEF IsMoved, IsPlace
<1>2. CASE Cached(KeyOf[r]) = {}
  <2>1. ASSUME NEW i \in 1..Len(memoryCache) PROVE i # j
    <3>1. Contains(memoryCache, memoryCache[i])
      BY DEF Contains
    <3>2. KeyOf[memoryCache[i]] # KeyOf[r]
      BY <1>1, <1>2, <3>1 DEF Cached
    <3> QED
      BY <1>1, <3>2
  <2>2. j = Len(memoryCache) + 1
    BY <1>1, <2>1
  <2> QED
    BY <1>2, <2>2, AddedTotal DEF Counted
<1>3. CASE Cached(KeyOf[r]) # {}
  <2> DEFINE s == CHOOSE t \in Cached(KeyOf[r]) : TRUE
  <2>1. s \in Cached(KeyOf[r])
    BY <1>3
  <2>2. Counted(r) = totalSize - entry[s].size + entry[r].size
    BY <1>3 DEF Counted
  <2> HIDE DEF s
  <2>3. PICK h \in 1..Len(memoryCache) : memoryCache[h] = s /\ KeyOf[s] = KeyOf[r]
    BY <2>1 DEF Cached, Contains
  <2>4. h = j /\ j <= Len(memoryCache)
    BY <1>1, <2>3
  <2> QED
    BY <2>2, <2>3, <2>4, MovedTotal
<1> QED
  BY <1>2, <1>3

-----------------------------------------------------------------------------
(* The invariant of the cache *)

\* What the cache holds was stored, so the entry it points to does not change any more.
OnlyStored == \A i \in DOMAIN memoryCache : phase[memoryCache[i]] = "stored"

CacheInv == TypeOK /\ HoldsLast /\ OnlyStored /\ CapacityKept

LEMMA EntriesAreSized ==
  ASSUME TypeOK
  PROVE  \A r \in Requests : entry[r].size \in Nat
<1> SUFFICES ASSUME NEW r \in Requests PROVE entry[r].size \in Nat
  OBVIOUS
<1>1. entry[r] \in Entries \/ entry[r] = NoEntry
  BY DEF TypeOK
<1>2. ASSUME NEW e \in Entries PROVE e.size \in Nat
  BY NumbersAssumption DEF Entries
<1>3. NoEntry.size \in Nat
  BY DEF NoEntry
<1> QED
  BY <1>1, <1>2, <1>3

LEMMA InitCache == Init => CacheInv
<1> SUFFICES ASSUME Init PROVE CacheInv
  OBVIOUS
<1>1. TypeOK
  BY NumbersAssumption DEF Init, TypeOK, Phases
<1>2. Len(memoryCache) = 0 /\ DOMAIN memoryCache = {} /\ totalSize = 0
  BY DEF Init
<1>3. CapacityKept
  BY <1>2, TotalOfNone, NumbersAssumption DEF CapacityKept
<1> QED
  BY <1>1, <1>2, <1>3 DEF CacheInv, HoldsLast, OnlyStored

\* A lookup moves the item to the head.
LEMMA LookupKeepsCache ==
  ASSUME CacheInv, NEW r \in Requests, phase[r] # "stored", Lookup(r), UNCHANGED <<totalSize, lastFit, entry>>
  PROVE  /\ memoryCache' \in Seq(Requests)
         /\ served' \in [Requests -> Requests \cup {None}]
         /\ phase' \in [Requests -> Phases]
         /\ fresh' \in [Requests -> BOOLEAN]
         /\ HoldsLast' /\ OnlyStored' /\ CapacityKept'
<1>1. PICK s \in IF Cached(KeyOf[r]) = {} THEN {None} ELSE Cached(KeyOf[r]), date \in DateNow :
        /\ memoryCache' = IF s = None THEN memoryCache ELSE <<s>> \o Without(KeyOf[r])
        /\ served' = [served EXCEPT ![r] = IF s # None /\ Usable(s, date) THEN s ELSE None]
        /\ fresh' = [fresh EXCEPT ![r] = (s # None /\ Usable(s, date)) /\ ~TagsStale(s)]
        /\ phase' = [phase EXCEPT ![r] = IF (s # None /\ Usable(s, date)) /\ ~TagsStale(s) THEN "done" ELSE "generate"]
  BY DEF Lookup
<1>2. s = None \/ s \in Requests
  BY <1>1 DEF Cached
<1>3. /\ served' \in [Requests -> Requests \cup {None}]
      /\ phase' \in [Requests -> Phases]
      /\ fresh' \in [Requests -> BOOLEAN]
  <2> DEFINE found == (s # None /\ Usable(s, date)) /\ ~TagsStale(s)
  <2>1. found \in BOOLEAN
    OBVIOUS
  <2>2. fresh' = [fresh EXCEPT ![r] = found]
    BY <1>1
  <2> HIDE DEF found
  <2>3. fresh' \in [Requests -> BOOLEAN]
    BY <2>1, <2>2 DEF CacheInv, TypeOK
  <2> QED
    BY <1>1, <1>2, <2>3 DEF CacheInv, TypeOK, Phases
<1>4. \A q \in Requests : phase[q] = "stored" => phase'[q] = "stored"
  BY <1>1 DEF CacheInv, TypeOK
<1>5. memoryCache \in Seq(Requests) /\ Len(memoryCache) \in Nat /\ DOMAIN memoryCache = 1..Len(memoryCache)
      /\ \A i \in DOMAIN memoryCache : memoryCache[i] \in Requests
  BY LenProperties DEF CacheInv, TypeOK
<1>6. CASE s = None
  <2>1. UNCHANGED <<memoryCache, totalSize, lastFit, entry>>
    BY <1>1, <1>6
  <2> QED
    BY <1>3, <1>4, <1>5, <2>1 DEF CacheInv, HoldsLast, OnlyStored, CapacityKept, TotalSize
<1>7. CASE s # None
  <2>1. PICK h \in 1..Len(memoryCache) : memoryCache[h] = s
    BY <1>1, <1>7 DEF Cached, Contains
  <2>2. s \in Requests /\ KeyOf[s] = KeyOf[r] /\ memoryCache' = <<s>> \o Without(KeyOf[s])
    BY <1>1, <1>7 DEF Cached
  <2>3. PICK j : IsMoved(memoryCache', j, s)
    BY <1>5, <2>2, ToHead DEF CacheInv
  <2>4. lastFit[KeyOf[s]] = s
    BY <1>5, <2>1 DEF CacheInv, HoldsLast
  <2>5. /\ Lasts(memoryCache', lastFit)
        /\ \A i \in DOMAIN memoryCache' : memoryCache'[i] = s
             \/ \E g \in DOMAIN memoryCache : memoryCache'[i] = memoryCache[g]
    <3>1. PICK q : q = memoryCache'
      OBVIOUS
    <3>2. IsMoved(q, j, s) /\ HoldsLast
      BY <2>3, <3>1 DEF CacheInv
    <3>3. /\ Lasts(q, lastFit)
          /\ \A i \in DOMAIN q : q[i] = s \/ \E g \in DOMAIN memoryCache : q[i] = memoryCache[g]
      BY <1>5, <2>2, <2>4, <3>2, MovedLasts
    <3> QED
      BY <3>1, <3>3
  <2>6. HoldsLast'
    BY <2>5 DEF Lasts, HoldsLast
  <2>7. OnlyStored'
    BY <1>4, <1>5, <2>1, <2>5 DEF CacheInv, OnlyStored
  <2>8. CapacityKept'
    <3>1. Sized(memoryCache, entry) /\ entry[s].size \in Nat
      BY <1>5, <2>2, EntriesAreSized DEF Sized, CacheInv
    <3>2. j = h /\ j <= Len(memoryCache)
      BY <1>5, <2>1, <2>3 DEF IsMoved, IsPlace
    <3>3. TotalSize(memoryCache', entry, Len(memoryCache'))
            = TotalSize(memoryCache, entry, Len(memoryCache)) - entry[s].size + entry[s].size
      BY <1>5, <2>1, <2>2, <2>3, <3>1, <3>2, MovedTotal
    <3>4. TotalSize(memoryCache, entry, Len(memoryCache)) \in Nat
      BY <1>5, <3>1, TotalsAreNat
    <3>5. TotalSize(memoryCache', entry, Len(memoryCache')) = totalSize
      BY <3>1, <3>3, <3>4 DEF CacheInv, CapacityKept
    <3> QED
      BY <3>5 DEF CacheInv, CapacityKept
  <2> QED
    BY <1>3, <2>3, <2>6, <2>7, <2>8 DEF IsMoved
<1> QED
  BY <1>6, <1>7

\* LRUCache.set puts the new entry at the head in place of what its key had, and evicts.
LEMMA StoreKeepsCache ==
  ASSUME CacheInv, NEW r \in Requests, Store(r)
  PROVE  memoryCache' \in Seq(Requests) /\ totalSize' \in Nat /\ HoldsLast' /\ OnlyStored' /\ CapacityKept'
<1>1. memoryCache \in Seq(Requests) /\ DOMAIN memoryCache = 1..Len(memoryCache)
      /\ \A i \in DOMAIN memoryCache : memoryCache[i] \in Requests
  BY LenProperties DEF CacheInv, TypeOK
<1>2. phase'[r] = "stored" /\ \A q \in Requests : phase[q] = "stored" => phase'[q] = "stored"
  BY DEF Store, CacheInv, TypeOK
<1>3. CASE TooLarge(r)
  <2>1. UNCHANGED <<memoryCache, totalSize, lastFit, entry>>
    BY <1>3 DEF Store, LruSet, lru
  <2> QED
    BY <1>1, <1>2, <2>1 DEF CacheInv, TypeOK, HoldsLast, OnlyStored, CapacityKept
<1>4. CASE ~TooLarge(r)
  <2> DEFINE q == <<r>> \o Without(KeyOf[r])
             last == [lastFit EXCEPT ![KeyOf[r]] = r]
  <2>1. Evict(q, Counted(r)) /\ lastFit' = last /\ entry' = entry
    BY <1>4 DEF Store, LruSet
  <2>2. PICK j : IsMoved(q, j, r)
    BY <1>1, ToHead DEF CacheInv
  <2>3. last[KeyOf[r]] = r /\ \A k \in Keys : k # KeyOf[r] => last[k] = lastFit[k]
    BY RequestsAssumption DEF CacheInv, TypeOK
  <2>4. q \in Seq(Requests)
    BY <2>2 DEF IsMoved
  <2> HIDE DEF q, last
  <2>5. Lasts(q, last) /\ \A i \in DOMAIN q : q[i] = r \/ \E h \in DOMAIN memoryCache : q[i] = memoryCache[h]
    BY <1>1, <2>2, <2>3, MovedLasts DEF CacheInv
  <2>6. /\ Sized(memoryCache, entry) /\ Sized(q, entry) /\ entry[r].size \in Nat
        /\ \A i \in DOMAIN q : q[i] \in Requests
    BY <1>1, <2>4, LenProperties, EntriesAreSized DEF Sized, CacheInv
  <2>7. Counted(r) = TotalSize(q, entry, Len(q))
    BY <1>1, <2>2, <2>6, CountedIsTotal DEF CacheInv, CapacityKept
  <2>8. PICK n \in 0..Len(q) : /\ memoryCache' = SubSeq(q, 1, n)
                               /\ totalSize' = TotalSize(q, entry, n)
                               /\ n = 0 \/ TotalSize(q, entry, n) <= MaxSize
    BY <2>1, <2>4, <2>6, <2>7, EvictKeepsHead
  <2>9. /\ memoryCache' \in Seq(Requests) /\ Len(memoryCache') = n /\ DOMAIN memoryCache' = 1..n
        /\ \A i \in 1..n : memoryCache'[i] = q[i]
        /\ 1..n \subseteq DOMAIN q
    <3>1. PICK p : p = memoryCache'
      OBVIOUS
    <3>2. p = SubSeq(q, 1, n)
      BY <2>8, <3>1
    <3>3. p \in Seq(Requests) /\ Len(p) = n /\ \A i \in 1..n : p[i] = q[i]
      BY <2>4, <3>2, HeadOfList
    <3>4. DOMAIN p = 1..n /\ DOMAIN q = 1..Len(q) /\ Len(q) \in Nat
      BY <2>4, <3>3, LenProperties
    <3>5. 1..n \subseteq DOMAIN q
      BY <3>4
    <3> QED
      BY <3>1, <3>3, <3>4, <3>5
  <2>10. HoldsLast'
    BY <2>1, <2>5, <2>9 DEF Lasts, HoldsLast
  <2>11. OnlyStored'
    <3>1. \A i \in DOMAIN memoryCache' :
            memoryCache'[i] = r \/ \E h \in DOMAIN memoryCache : memoryCache'[i] = memoryCache[h]
      BY <2>5, <2>9
    <3> QED
      BY <1>1, <1>2, <3>1 DEF CacheInv, OnlyStored
  <2>12. CapacityKept'
    <3>1. TotalSize(q, entry, n) <= MaxSize /\ totalSize' = TotalSize(q, entry, n)
      BY <2>8, TotalOfNone, NumbersAssumption
    <3>2. PICK p : p = memoryCache'
      OBVIOUS
    <3>3. TotalSize(p, entry, n) = TotalSize(q, entry, n)
      BY <2>9, <3>2, TotalOfEquals
    <3> QED
      BY <2>1, <2>9, <3>1, <3>2, <3>3 DEF CapacityKept
  <2>13. totalSize' \in Nat
    <3>1. TotalSize(q, entry, n) \in Nat
      BY <2>4, <2>6, TotalsAreNat
    <3> QED
      BY <2>8, <3>1
  <2> QED
    BY <2>9, <2>10, <2>11, <2>12, <2>13
<1> QED
  BY <1>3, <1>4

\* A request that generates an entry has none in the cache, so no size in it changes.
LEMMA SetKeepsCache ==
  ASSUME CacheInv, NEW r \in Requests, Set(r)
  PROVE  HoldsLast' /\ OnlyStored' /\ CapacityKept'
<1>1. memoryCache \in Seq(Requests) /\ Len(memoryCache) \in Nat /\ DOMAIN memoryCache = 1..Len(memoryCache)
      /\ \A i \in DOMAIN memoryCache : memoryCache[i] \in Requests /\ memoryCache[i] # r
  BY LenProperties DEF CacheInv, TypeOK, OnlyStored, Set
<1>2. /\ UNCHANGED <<memoryCache, totalSize, lastFit>>
      /\ \A q \in Requests : q # r => entry'[q] = entry[q] /\ phase'[q] = phase[q]
  BY DEF Set, CacheInv, TypeOK, lru
<1>3. HoldsLast' /\ OnlyStored'
  BY <1>1, <1>2 DEF CacheInv, HoldsLast, OnlyStored
<1>4. PICK e : e = entry'
  OBVIOUS
<1>5. \A i \in 1..Len(memoryCache) : entry[memoryCache[i]].size = e[memoryCache[i]].size
  BY <1>1, <1>2, <1>4
<1>6. TotalSize(memoryCache, entry, Len(memoryCache)) = TotalSize(memoryCache, e, Len(memoryCache))
  BY <1>1, <1>5, TotalOfEquals
<1>7. CapacityKept'
  BY <1>2, <1>4, <1>6 DEF CacheInv, CapacityKept
<1> QED
  BY <1>3, <1>7

\* Steps that leave the cache and its entries alone and take back no store.
LEMMA OthersKeepCache ==
  ASSUME CacheInv, UNCHANGED <<lru, lastFit, entry>>,
         \A r \in Requests : phase[r] = "stored" => phase'[r] = "stored"
  PROVE  HoldsLast' /\ OnlyStored' /\ CapacityKept'
<1>1. \A i \in DOMAIN memoryCache : memoryCache[i] \in Requests
  BY LenProperties DEF CacheInv, TypeOK
<1> QED
  BY <1>1 DEF CacheInv, HoldsLast, OnlyStored, CapacityKept, lru

LEMMA StepCache ==
  ASSUME CacheInv, [Next]_vars
  PROVE  CacheInv'
<1> USE RequestsAssumption, NumbersAssumption
<1>1. ASSUME NEW r \in Requests, Get(r) PROVE CacheInv'
  <2>1. CASE pendingSets[KeyOf[r]] = None
    <3>1. Lookup(r) /\ UNCHANGED <<now, manifest, totalSize, pendingSets, lastFit, waitsFor, entry>> /\ phase[r] # "stored"
      BY <1>1, <2>1 DEF Get
    <3> QED
      BY <3>1, LookupKeepsCache DEF CacheInv, TypeOK, manifest
  <2>2. CASE pendingSets[KeyOf[r]] # None
    <3>1. /\ waitsFor' = [waitsFor EXCEPT ![r] = pendingSets[KeyOf[r]]]
          /\ phase' = [phase EXCEPT ![r] = "wait"] /\ phase[r] = "idle"
          /\ UNCHANGED <<memoryCache, totalSize, served, fresh, now, manifest, pendingSets, lastFit, entry>>
      BY <1>1, <2>2 DEF Get
    <3>2. TypeOK'
      BY <3>1 DEF CacheInv, TypeOK, manifest, Phases
    <3>3. HoldsLast' /\ OnlyStored' /\ CapacityKept'
      BY <3>1, OthersKeepCache DEF CacheInv, TypeOK, lru
    <3> QED
      BY <3>2, <3>3 DEF CacheInv
  <2> QED
    BY <2>1, <2>2
<1>2. ASSUME NEW r \in Requests, Continue(r) PROVE CacheInv'
  <2>1. Lookup(r) /\ UNCHANGED <<now, manifest, totalSize, pendingSets, lastFit, waitsFor, entry>> /\ phase[r] # "stored"
    BY <1>2 DEF Continue
  <2> QED
    BY <2>1, LookupKeepsCache DEF CacheInv, TypeOK, manifest
<1>3. ASSUME NEW r \in Requests, Set(r) PROVE CacheInv'
  <2>1. PICK tags \in EntryTags, size \in Sizes[r] :
          entry' = [entry EXCEPT ![r] = [timestamp |-> now, tags |-> tags, size |-> size]]
    BY <1>3 DEF Set
  <2>2. [timestamp |-> now, tags |-> tags, size |-> size] \in Entries
    BY DEF CacheInv, TypeOK, Entries
  <2>3. entry' \in [Requests -> Entries \cup {NoEntry}]
    BY <2>1, <2>2 DEF CacheInv, TypeOK
  <2>4. TypeOK'
    BY <1>3, <2>3 DEF Set, CacheInv, TypeOK, manifest, lru, Phases
  <2> QED
    BY <1>3, <2>4, SetKeepsCache DEF CacheInv
<1>4. ASSUME NEW r \in Requests, Store(r) PROVE CacheInv'
  <2>1. memoryCache' \in Seq(Requests) /\ totalSize' \in Nat /\ HoldsLast' /\ OnlyStored' /\ CapacityKept'
    BY <1>4, StoreKeepsCache
  <2>2. TypeOK'
    BY <1>4, <2>1 DEF Store, Unregister, CacheInv, TypeOK, manifest, Phases
  <2> QED
    BY <2>1, <2>2 DEF CacheInv
<1>5. ASSUME NEW r \in Requests, Fail(r) \/ Reject(r) PROVE CacheInv'
  <2>1. TypeOK'
    BY <1>5 DEF Fail, Reject, Unregister, CacheInv, TypeOK, manifest, cache, lru, Phases
  <2>2. HoldsLast' /\ OnlyStored' /\ CapacityKept'
    BY <1>5, OthersKeepCache DEF Fail, Reject, CacheInv, TypeOK, cache
  <2> QED
    BY <2>1, <2>2 DEF CacheInv
<1>6. ASSUME NEW t \in Tags, ExpireTag(t) \/ MarkTag(t) PROVE CacheInv'
  <2>1. TypeOK'
    <3>1. Rounded(now) \in Int /\ now \in Times /\ \A d \in Expires : Rounded(now) + d \in Int
      <4>1. now \in Times /\ now \in Nat
        BY DEF CacheInv, TypeOK
      <4>2. Rounded(now) \in Int
        BY <4>1, RoundedIsNear
      <4> QED
        BY <4>1, <4>2
    <3>2. stale' \in [Tags -> {Rounded(u) : u \in Times} \cup {0}] /\ updated' \in [Tags -> Times \cup {0}]
      <4>1. stale \in [Tags -> {Rounded(u) : u \in Times} \cup {0}] /\ updated \in [Tags -> Times \cup {0}]
        BY DEF CacheInv, TypeOK
      <4>2. /\ stale' = stale \/ stale' = [stale EXCEPT ![t] = Rounded(now)]
            /\ updated' = [updated EXCEPT ![t] = now]
        BY <1>6 DEF ExpireTag, MarkTag
      <4> QED
        BY <3>1, <4>1, <4>2
    <3>3. expired' \in [Tags -> Int]
      <4>1. expired \in [Tags -> Int]
        BY DEF CacheInv, TypeOK
      <4>2. \A d \in Int : [expired EXCEPT ![t] = d] \in [Tags -> Int]
        BY <4>1
      <4> QED
        BY <1>6, <3>1, <4>1, <4>2 DEF ExpireTag, MarkTag
    <3>4. UNCHANGED <<now, cache, phase, waitsFor, entry, served, fresh>>
      BY <1>6 DEF ExpireTag, MarkTag
    <3> QED
      BY <3>2, <3>3, <3>4 DEF CacheInv, TypeOK, cache, lru
  <2>2. HoldsLast' /\ OnlyStored' /\ CapacityKept'
    BY <1>6, OthersKeepCache DEF ExpireTag, MarkTag, cache
  <2> QED
    BY <2>1, <2>2 DEF CacheInv
<1>7. ASSUME Tick \/ UNCHANGED vars PROVE CacheInv'
  <2>1. TypeOK'
    BY <1>7 DEF Tick, vars, CacheInv, TypeOK, manifest, cache, lru
  <2>2. HoldsLast' /\ OnlyStored' /\ CapacityKept'
    BY <1>7, OthersKeepCache DEF Tick, vars, cache
  <2> QED
    BY <2>1, <2>2 DEF CacheInv
<1> QED
  BY <1>1, <1>2, <1>3, <1>4, <1>5, <1>6, <1>7 DEF Next, Request, Settle

LEMMA CacheInvariance == Spec => []CacheInv
BY InitCache, StepCache, PTL DEF Spec

\* Every variable has its type, for any requests, keys, tags and numbers.
THEOREM TypeCorrect == Spec => []TypeOK
BY CacheInvariance, PTL DEF CacheInv

\* The LRU cache never holds more than maxSize, whatever was stored, replaced and evicted.
THEOREM LimitKept == Spec => []CapacityKept
BY CacheInvariance, PTL DEF CacheInv

\* What the cache holds for a key is what was stored for it last and fitted, once, however sets overlap and whatever
\* was evicted in between.
THEOREM LastEntryHeld == Spec => []HoldsLast
BY CacheInvariance, PTL DEF CacheInv

=============================================================================

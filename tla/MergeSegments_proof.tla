------------------------- MODULE MergeSegments_proof -------------------------
(***************************************************************************)
(* Proofs about MergeSegments, for any number of compactables, any ranges  *)
(* and every answer of the limits: get_merge_segments puts no compactable  *)
(* into two jobs, and what it returns is a legal plan.                     *)
(***************************************************************************)
EXTENDS MergeSegments, TLAPS, SequenceTheorems, WellFoundedInduction

Index == 1..Count

\* The segments of q are not empty, each lists its members oldest first, and no two share one.
ShapeOf(q) ==
  /\ q \in Seq(Seq(Index))
  /\ \A j \in 1..Len(q) :
       Len(q[j]) > 0 /\ \A a, b \in 1..Len(q[j]) : a < b => q[j][a] < q[j][b]
  /\ \A i, j \in 1..Len(q) : i # j => ToSet(q[i]) \cap ToSet(q[j]) = {}

HeldBy(q) == UNION {ToSet(q[j]) : j \in 1..Len(q)}
Held == HeldBy(segments)

\* What is newer than a member of a segment and overlaps it is in this segment or in one emitted before.
NewestFirst(q) ==
  \A j \in 1..Len(q) : \A s \in ToSet(q[j]), t \in Index :
    s < t /\ IsOverlapping(ranges[s], ranges[t]) => \E i \in 1..j : t \in ToSet(q[i])

\* The same when the segments are in order.
OldestFirst(q) ==
  \A j \in 1..Len(q) : \A s \in ToSet(q[j]), t \in Index :
    s < t /\ IsOverlapping(ranges[s], ranges[t]) => \E i \in j..Len(q) : t \in ToSet(q[i])

Typed ==
  /\ ranges \in [Index -> Ranges]
  /\ unused \in 0..Count
  /\ used \subseteq Index
  /\ pc \in {"outer", "grow", "trim", "retain", "done"}
  /\ kept \in Nat

\* While the loops run: every compactable that was popped is in a segment, and of the others those that are used.
Looping ==
  /\ used \subseteq Held
  /\ Held \cap 1..unused \subseteq used
  /\ \A t \in Index : t > unused => t \in Held \/ (pc = "grow" /\ t = start)

\* The set that grows: its members lie in the range, and nothing that overlaps the range was passed over.
Growing ==
  /\ start = unused + 1 /\ start \in Index /\ start \notin Held
  /\ set \in Seq(Index) /\ Len(set) > 0
  /\ set[1] = start /\ set[Len(set)] = below
  /\ \A a, b \in 1..Len(set) : a < b => set[a] > set[b]
  /\ range \in Nat \X Nat
  /\ \A i \in ToSet(set) : /\ i \notin Held
                           /\ range[1] <= ranges[i][1] /\ ranges[i][2] <= range[2]
  /\ \A i \in Index : below <= i /\ i < start /\ i \notin used /\ IsOverlapping(range, ranges[i]) => i \in ToSet(set)

Retaining == kept <= Len(segments) /\ \A i \in 1..kept : Stays(i)

Inv ==
  /\ Typed
  /\ ShapeOf(segments)
  /\ pc \in {"outer", "grow"} => Looping
  /\ pc = "grow" => Growing
  /\ pc \in {"outer", "grow", "trim"} => NewestFirst(segments) /\ kept = 0
  /\ pc \in {"retain", "done"} => OldestFirst(segments) /\ Retaining
  /\ pc = "done" => kept = Len(segments)

-----------------------------------------------------------------------------
(* Numbers and sequences *)

NatLess == {p \in Nat \X Nat : p[1] < p[2]}

LEMMA Minimum ==
  ASSUME NEW T, T \subseteq Nat, T # {}
  PROVE  \E x \in T : \A y \in T : x <= y
<1>1. IsWellFoundedOn(NatLess, Nat)
  BY NatLessThanWellFounded DEF NatLess, OpToRel
<1>2. PICK x \in T : \A y \in T : ~(<<y, x>> \in NatLess)
  BY <1>1, WFMin
<1>3. ASSUME NEW y \in T, ~(x <= y) PROVE FALSE
  <2>1. <<y, x>> \in NatLess
    BY <1>3 DEF NatLess
  <2> QED
    BY <1>2, <2>1
<1> QED
  BY <1>3

LEMMA Maximum ==
  ASSUME NEW N \in Nat, NEW T, T \subseteq 0..N, T # {}
  PROVE  \E x \in T : \A y \in T : y <= x
<1> DEFINE U == {N - x : x \in T}
<1>1. U \subseteq Nat /\ U # {}
  <2>1. PICK x : x \in T
    OBVIOUS
  <2>2. N - x \in U
    BY <2>1
  <2>3. \A y \in 0..N : N - y \in Nat
    OBVIOUS
  <2> QED
    BY <2>2, <2>3
<1> HIDE DEF U
<1>2. PICK u \in U : \A y \in U : u <= y
  BY <1>1, Minimum
<1>3. PICK x \in T : u = N - x
  BY <1>2 DEF U
<1>4. ASSUME NEW y \in T PROVE y <= x
  <2>1. N - y \in U
    BY DEF U
  <2>2. N - x <= N - y
    BY <1>2, <1>3, <2>1
  <2>3. x \in 0..N /\ y \in 0..N
    OBVIOUS
  <2> QED
    BY <2>2, <2>3
<1> QED
  BY <1>4

LEMMA Members ==
  ASSUME NEW S, NEW q \in Seq(S)
  PROVE  /\ Len(q) \in Nat
         /\ \A i \in 1..Len(q) : q[i] \in S /\ q[i] \in ToSet(q)
         /\ \A x \in ToSet(q) : x \in S /\ \E i \in 1..Len(q) : x = q[i]
BY LenProperties DEF ToSet

LEMMA Appended ==
  ASSUME NEW S, NEW q \in Seq(S), NEW x \in S, NEW p, p = Append(q, x)
  PROVE  /\ p \in Seq(S)
         /\ Len(p) = Len(q) + 1
         /\ \A i \in 1..Len(q) : p[i] = q[i]
         /\ p[Len(q) + 1] = x
OBVIOUS

LEMMA Reversed ==
  ASSUME NEW S, NEW q \in Seq(S), NEW p, p = Reverse(q)
  PROVE  /\ p \in Seq(S)
         /\ Len(p) = Len(q)
         /\ \A i \in 1..Len(q) : p[i] = q[Len(q) - i + 1]
         /\ ToSet(p) = ToSet(q)
<1> DEFINE n == Len(q)
<1>1. n \in Nat /\ DOMAIN q = 1..n /\ \A i \in 1..n : q[i] \in S
  BY LenProperties
<1>2. p = [i \in 1..n |-> q[(n - i) + 1]]
  BY DEF Reverse
<1> HIDE DEF n
<1>3. \A i \in 1..n : (n - i) + 1 \in 1..n /\ (n - ((n - i) + 1)) + 1 = i
  BY <1>1
<1>4. p \in [1..n -> S]
  BY <1>1, <1>2, <1>3
<1>5. p \in Seq(S) /\ Len(p) = n
  BY <1>1, <1>4
<1>6. \A i \in 1..n : p[i] = q[(n - i) + 1] /\ q[i] = p[(n - i) + 1]
  BY <1>2, <1>3
<1>7. ToSet(p) = {p[i] : i \in 1..n} /\ ToSet(q) = {q[i] : i \in 1..n}
  BY <1>1, <1>4 DEF ToSet
<1>8. ToSet(p) = ToSet(q)
  BY <1>3, <1>6, <1>7
<1> QED
  BY <1>5, <1>6, <1>8 DEF n

LEMMA WithoutLast ==
  ASSUME NEW S, NEW q \in Seq(S), Len(q) > 0, NEW p, p = Front(q)
  PROVE  p \in Seq(S) /\ Len(p) = Len(q) - 1 /\ \A i \in 1..Len(p) : p[i] = q[i]
<1>1. Len(q) \in Nat /\ \A i \in 1..Len(q) - 1 : q[i] \in S
  BY LenProperties
<1>2. /\ SubSeq(q, 1, Len(q) - 1) \in Seq(S)
      /\ Len(SubSeq(q, 1, Len(q) - 1)) = IF 1 <= Len(q) - 1 THEN Len(q) - 1 - 1 + 1 ELSE 0
      /\ \A i \in 1..Len(q) - 1 - 1 + 1 : SubSeq(q, 1, Len(q) - 1)[i] = q[1 + i - 1]
  BY <1>1, SubSeqProperties
<1>3. p = SubSeq(q, 1, Len(q) - 1)
  BY DEF Front
<1>4. Len(p) = Len(q) - 1
  <2>1. Len(p) = IF 1 <= Len(q) - 1 THEN Len(q) - 1 - 1 + 1 ELSE 0
    BY <1>2, <1>3
  <2>2. \A n \in Nat : n > 0 => (IF 1 <= n - 1 THEN n - 1 - 1 + 1 ELSE 0) = n - 1
    OBVIOUS
  <2> QED
    BY <1>1, <2>1, <2>2
<1>5. ASSUME NEW i \in 1..Len(p) PROVE p[i] = q[i]
  <2>1. i \in 1..Len(q) - 1 - 1 + 1 /\ 1 + i - 1 = i
    BY <1>1, <1>4
  <2> QED
    BY <1>2, <1>3, <2>1
<1> QED
  BY <1>2, <1>3, <1>4, <1>5

LEMMA WithoutOne ==
  ASSUME NEW S, NEW q \in Seq(S), NEW j \in 1..Len(q), NEW p, p = RemoveAt(q, j)
  PROVE  /\ p \in Seq(S) /\ Len(p) = Len(q) - 1
         /\ \A i \in 1..Len(p) : p[i] = q[IF i < j THEN i ELSE i + 1]
<1> DEFINE n == Len(q)
           front == SubSeq(q, 1, j - 1)
           back == SubSeq(q, j + 1, n)
<1>0. n \in Nat /\ \A i \in 1..n : q[i] \in S
  BY LenProperties
<1>1. p = front \o back
  BY DEF RemoveAt
<1> HIDE DEF n
<1>j. j \in 1..n
  BY DEF n
<1>2. front \in Seq(S) /\ Len(front) = j - 1 /\ \A i \in 1..(j - 1) : front[i] = q[i]
  <2>1. j - 1 \in Int /\ \A i \in 1..j - 1 : q[i] \in S
    BY <1>0, <1>j
  <2>2. /\ front \in Seq(S)
        /\ Len(front) = IF 1 <= j - 1 THEN (j - 1) - 1 + 1 ELSE 0
        /\ \A i \in 1..(j - 1) - 1 + 1 : front[i] = q[1 + i - 1]
    BY <2>1, SubSeqProperties
  <2> QED
    BY <1>0, <1>j, <2>2
<1>3. back \in Seq(S) /\ Len(back) = n - j /\ \A i \in 1..(n - j) : back[i] = q[j + i]
  <2>1. j + 1 \in Int /\ n \in Int /\ \A i \in (j + 1)..n : q[i] \in S
    BY <1>0, <1>j
  <2>2. /\ back \in Seq(S)
        /\ Len(back) = IF j + 1 <= n THEN n - (j + 1) + 1 ELSE 0
        /\ \A i \in 1..n - (j + 1) + 1 : back[i] = q[(j + 1) + i - 1]
    BY <2>1, SubSeqProperties
  <2> QED
    BY <1>0, <1>j, <2>2
<1> HIDE DEF front, back
<1>4. /\ front \o back \in Seq(S) /\ Len(front \o back) = Len(front) + Len(back)
      /\ \A i \in 1..(Len(front) + Len(back)) :
           (front \o back)[i] = IF i <= Len(front) THEN front[i] ELSE back[i - Len(front)]
  BY <1>2, <1>3, ConcatProperties
<1>5. Len(p) = n - 1
  BY <1>0, <1>j, <1>1, <1>2, <1>3, <1>4
<1>6. ASSUME NEW i \in 1..(n - 1) PROVE p[i] = q[IF i < j THEN i ELSE i + 1]
  <2>0. Len(front) + Len(back) = n - 1 /\ Len(front) = j - 1
    BY <1>0, <1>j, <1>2, <1>3
  <2>1. p[i] = IF i <= j - 1 THEN front[i] ELSE back[i - (j - 1)]
    BY <1>1, <1>4, <2>0
  <2>2. CASE i < j
    <3>1. i \in 1..(j - 1) /\ i <= j - 1
      BY <1>0, <1>j, <2>2
    <3> QED
      BY <1>2, <2>1, <2>2, <3>1
  <2>3. CASE ~(i < j)
    <3>1. i - (j - 1) \in 1..(n - j) /\ ~(i <= j - 1) /\ j + (i - (j - 1)) = i + 1
      BY <1>0, <1>j, <2>3
    <3> QED
      BY <1>3, <2>1, <2>3, <3>1
  <2> QED
    BY <2>2, <2>3
<1> QED
  BY <1>1, <1>4, <1>5, <1>6 DEF n

-----------------------------------------------------------------------------
(* Changes of the list of segments *)

LEMMA ShapeOfAppended ==
  ASSUME NEW q, ShapeOf(q), NEW x \in Seq(Index), Len(x) > 0,
         \A a, b \in 1..Len(x) : a < b => x[a] < x[b],
         ToSet(x) \cap HeldBy(q) = {}, NEW p, p = Append(q, x)
  PROVE  ShapeOf(p) /\ HeldBy(p) = HeldBy(q) \cup ToSet(x)
<1>1. /\ p \in Seq(Seq(Index)) /\ Len(p) = Len(q) + 1 /\ Len(q) \in Nat
      /\ \A i \in 1..Len(q) : p[i] = q[i]
      /\ p[Len(q) + 1] = x
  BY Appended, Members DEF ShapeOf
<1>2. \A i \in 1..Len(p) : i \in 1..Len(q) \/ i = Len(q) + 1
  BY <1>1
<1>3. \A j \in 1..Len(p) : Len(p[j]) > 0 /\ \A a, b \in 1..Len(p[j]) : a < b => p[j][a] < p[j][b]
  BY <1>1, <1>2 DEF ShapeOf
<1>4. \A i \in 1..Len(q) : ToSet(q[i]) \cap ToSet(x) = {}
  BY DEF HeldBy
<1>5. ASSUME NEW i \in 1..Len(p), NEW j \in 1..Len(p), i # j PROVE ToSet(p[i]) \cap ToSet(p[j]) = {}
  BY <1>1, <1>2, <1>4, <1>5 DEF ShapeOf
<1>6. HeldBy(p) = HeldBy(q) \cup ToSet(x)
  <2>1. 1..Len(p) = 1..Len(q) \cup {Len(q) + 1}
    BY <1>1
  <2>2. \A y : y \in HeldBy(p) <=> \E j \in 1..Len(p) : y \in ToSet(p[j])
    BY DEF HeldBy
  <2>3. \A y : y \in HeldBy(q) <=> \E j \in 1..Len(q) : y \in ToSet(q[j])
    BY DEF HeldBy
  <2>4. \A y : y \in HeldBy(p) <=> y \in HeldBy(q) \/ y \in ToSet(x)
    BY <1>1, <2>1, <2>2, <2>3
  <2> QED
    BY <2>4
<1> QED
  BY <1>1, <1>3, <1>5, <1>6 DEF ShapeOf

LEMMA NewestOfAppended ==
  ASSUME NEW q, ShapeOf(q), NewestFirst(q), NEW x \in Seq(Index),
         \A s \in ToSet(x), t \in Index :
           s < t /\ IsOverlapping(ranges[s], ranges[t]) => t \in HeldBy(q) \cup ToSet(x),
         NEW p, p = Append(q, x)
  PROVE  NewestFirst(p)
<1>1. /\ Len(p) = Len(q) + 1 /\ Len(q) \in Nat
      /\ \A i \in 1..Len(q) : p[i] = q[i]
      /\ p[Len(q) + 1] = x
  BY Appended, Members DEF ShapeOf
<1> SUFFICES ASSUME NEW j \in 1..Len(p), NEW s \in ToSet(p[j]), NEW t \in Index,
                    s < t, IsOverlapping(ranges[s], ranges[t])
             PROVE  \E i \in 1..j : t \in ToSet(p[i])
  BY DEF NewestFirst
<1>2. CASE j \in 1..Len(q)
  <2>1. \E i \in 1..j : t \in ToSet(q[i])
    BY <1>1, <1>2 DEF NewestFirst
  <2> QED
    BY <1>1, <1>2, <2>1
<1>3. CASE j = Len(q) + 1
  <2>1. t \in HeldBy(q) \cup ToSet(x)
    BY <1>1, <1>3
  <2>2. t \in HeldBy(q) => \E i \in 1..Len(q) : t \in ToSet(q[i])
    BY DEF HeldBy
  <2> QED
    BY <1>1, <1>3, <2>1, <2>2
<1> QED
  BY <1>1, <1>2, <1>3

\* p lists some of the segments of q, each where `from` says.
IsPart(p, q, from) ==
  /\ p \in Seq(Seq(Index))
  /\ \A i \in 1..Len(p) : from[i] \in 1..Len(q) /\ p[i] = q[from[i]]
  /\ \A i, j \in 1..Len(p) : from[i] = from[j] => i = j

LEMMA ShapeOfPart ==
  ASSUME NEW q, ShapeOf(q), NEW p, NEW from, IsPart(p, q, from)
  PROVE  ShapeOf(p)
<1>1. \A j \in 1..Len(p) : Len(p[j]) > 0 /\ \A a, b \in 1..Len(p[j]) : a < b => p[j][a] < p[j][b]
  BY DEF ShapeOf, IsPart
<1>2. ASSUME NEW i \in 1..Len(p), NEW j \in 1..Len(p), i # j PROVE ToSet(p[i]) \cap ToSet(p[j]) = {}
  <2>1. from[i] # from[j] /\ from[i] \in 1..Len(q) /\ from[j] \in 1..Len(q)
    BY <1>2 DEF IsPart
  <2>2. ToSet(q[from[i]]) \cap ToSet(q[from[j]]) = {}
    BY <2>1 DEF ShapeOf
  <2> QED
    BY <2>2 DEF IsPart
<1> QED
  BY <1>1, <1>2 DEF ShapeOf, IsPart

\* The last segment goes, if it is a single compactable: nothing before it depended on it.
LEMMA TrimKeeps ==
  ASSUME NEW q, ShapeOf(q), NewestFirst(q), Len(q) > 0, NEW p, p = Front(q)
  PROVE  ShapeOf(p) /\ NewestFirst(p)
<1>1. /\ p \in Seq(Seq(Index)) /\ Len(p) = Len(q) - 1 /\ Len(q) \in Nat
      /\ \A i \in 1..Len(p) : p[i] = q[i]
  <2> DEFINE S == Seq(Index)
  <2>1. q \in Seq(S)
    BY DEF ShapeOf
  <2> HIDE DEF S
  <2>2. p \in Seq(S) /\ Len(p) = Len(q) - 1 /\ \A i \in 1..Len(p) : p[i] = q[i]
    BY <2>1, WithoutLast
  <2>3. Len(q) \in Nat
    BY <2>1, Members
  <2> QED
    BY <2>2, <2>3 DEF S
<1>2. \A i \in 1..Len(p) : i \in 1..Len(q)
  BY <1>1
<1>3. ShapeOf(p)
  <2> DEFINE from == [i \in 1..Len(p) |-> i]
  <2>1. IsPart(p, q, from)
    BY <1>1, <1>2 DEF IsPart
  <2> QED
    BY <2>1, ShapeOfPart
<1>4. NewestFirst(p)
  <2> SUFFICES ASSUME NEW j \in 1..Len(p), NEW s \in ToSet(p[j]), NEW t \in Index,
                      s < t, IsOverlapping(ranges[s], ranges[t])
               PROVE  \E i \in 1..j : t \in ToSet(p[i])
    BY DEF NewestFirst
  <2>1. \E i \in 1..j : t \in ToSet(q[i])
    BY <1>1, <1>2 DEF NewestFirst
  <2>2. \A i \in 1..j : i \in 1..Len(p)
    BY <1>1
  <2> QED
    BY <1>1, <2>1, <2>2
<1> QED
  BY <1>3, <1>4

LEMMA TurnKeeps ==
  ASSUME NEW q, ShapeOf(q), NewestFirst(q), NEW p, p = Reverse(q)
  PROVE  ShapeOf(p) /\ OldestFirst(p) /\ Len(p) = Len(q)
<1> DEFINE n == Len(q)
           from == [i \in 1..n |-> n - i + 1]
<1>1. p \in Seq(Seq(Index)) /\ Len(p) = n /\ n \in Nat /\ \A i \in 1..n : p[i] = q[n - i + 1]
  BY Reversed, Members DEF ShapeOf
<1> HIDE DEF n
<1>2. /\ \A i \in 1..n : from[i] \in 1..n /\ p[i] = q[from[i]]
      /\ \A i, j \in 1..n : from[i] = from[j] => i = j
  BY <1>1
<1>3. ShapeOf(p)
  <2>1. IsPart(p, q, from)
    BY <1>1, <1>2 DEF IsPart, n
  <2> QED
    BY <2>1, ShapeOfPart
<1>4. OldestFirst(p)
  <2> SUFFICES ASSUME NEW j \in 1..n, NEW s \in ToSet(p[j]), NEW t \in Index,
                      s < t, IsOverlapping(ranges[s], ranges[t])
               PROVE  \E i \in j..n : t \in ToSet(p[i])
    BY <1>1 DEF OldestFirst
  <2>1. n - j + 1 \in 1..n /\ p[j] = q[n - j + 1]
    BY <1>1
  <2>2. PICK h \in 1..(n - j + 1) : t \in ToSet(q[h])
    BY <2>1 DEF NewestFirst, n
  <2>3. n - h + 1 \in j..n /\ n - h + 1 \in 1..n /\ n - (n - h + 1) + 1 = h
    BY <1>1, <2>1
  <2>4. p[n - h + 1] = q[h]
    BY <1>1, <2>3
  <2> QED
    BY <2>2, <2>3, <2>4
<1> QED
  BY <1>1, <1>3, <1>4 DEF n

\* A single compactable that overlaps nothing before it goes: nothing before it depended on it.
LEMMA DiscardKeeps ==
  ASSUME NEW q, ShapeOf(q), OldestFirst(q), NEW k \in 1..Len(q), Len(q[k]) = 1,
         \A j \in 1..(k - 1) : \A s \in ToSet(q[j]) : ~IsOverlapping(ranges[q[k][1]], ranges[s]),
         NEW p, p = RemoveAt(q, k)
  PROVE  ShapeOf(p) /\ OldestFirst(p) /\ Len(p) = Len(q) - 1 /\ \A i \in 1..(k - 1) : p[i] = q[i]
<1> DEFINE n == Len(q)
           from == [i \in 1..Len(p) |-> IF i < k THEN i ELSE i + 1]
<1>1. /\ p \in Seq(Seq(Index)) /\ Len(p) = n - 1 /\ n \in Nat /\ k \in 1..n
      /\ \A i \in 1..Len(p) : p[i] = q[IF i < k THEN i ELSE i + 1]
  <2> DEFINE S == Seq(Index)
  <2>1. q \in Seq(S) /\ n \in Nat
    BY Members DEF ShapeOf
  <2> HIDE DEF S
  <2>2. /\ p \in Seq(S) /\ Len(p) = Len(q) - 1
        /\ \A i \in 1..Len(p) : p[i] = q[IF i < k THEN i ELSE i + 1]
    BY <2>1, WithoutOne
  <2> QED
    BY <2>1, <2>2 DEF S
<1>2. /\ \A i \in 1..Len(p) : from[i] \in 1..n /\ from[i] # k /\ p[i] = q[from[i]]
      /\ \A i, j \in 1..Len(p) : from[i] = from[j] => i = j
  BY <1>1
<1>3. ShapeOf(p)
  <2>1. IsPart(p, q, from)
    BY <1>1, <1>2 DEF IsPart
  <2> QED
    BY <2>1, ShapeOfPart
<1>4. ASSUME NEW i \in 1..(k - 1) PROVE p[i] = q[i]
  <2>1. i \in 1..Len(p) /\ i < k
    BY <1>1
  <2> QED
    BY <1>1, <2>1
<1>5. OldestFirst(p)
  <2> SUFFICES ASSUME NEW j \in 1..Len(p), NEW s \in ToSet(p[j]), NEW t \in Index,
                      s < t, IsOverlapping(ranges[s], ranges[t])
               PROVE  \E i \in j..Len(p) : t \in ToSet(p[i])
    BY DEF OldestFirst
  <2>1. PICK h \in from[j]..n : t \in ToSet(q[h])
    BY <1>2 DEF OldestFirst
  <2>2. h \in 1..n /\ from[j] \in 1..n
    BY <1>1, <1>2, <2>1
  <2>3. h # k
    <3> SUFFICES ASSUME h = k PROVE FALSE
      OBVIOUS
    <3>1. t = q[k][1]
      <4>1. q[k] \in Seq(Index)
        BY Members DEF ShapeOf
      <4>2. PICK a \in 1..Len(q[k]) : t = q[k][a]
        BY <2>1, <4>1, Members
      <4> QED
        BY <4>2
    <3>2. from[j] < k
      BY <1>2, <2>1, <2>2
    <3>3. from[j] \in 1..(k - 1) /\ s \in ToSet(q[from[j]])
      BY <1>1, <1>2, <2>2, <3>2
    <3>4. ~IsOverlapping(ranges[t], ranges[s])
      BY <3>1, <3>3
    <3> QED
      BY <3>4 DEF IsOverlapping
  <2> DEFINE i == IF h < k THEN h ELSE h - 1
  <2>4. i \in j..Len(p) /\ i \in 1..Len(p) /\ from[i] = h
    BY <1>1, <2>1, <2>2, <2>3
  <2>5. p[i] = q[h]
    BY <1>2, <2>4
  <2> QED
    BY <2>1, <2>4, <2>5
<1> QED
  BY <1>1, <1>3, <1>4, <1>5

-----------------------------------------------------------------------------
(* The set that grows *)

LEMMA SetMembers ==
  ASSUME Typed, Growing
  PROVE  /\ \A i \in ToSet(set) : i \in Index /\ below <= i /\ i <= start
         /\ start \in ToSet(set) /\ below \in ToSet(set)
         /\ below \in Index /\ below <= start
<1> DEFINE n == Len(set)
<1>1. /\ n \in Nat /\ n > 0
      /\ \A i \in 1..n : set[i] \in Index /\ set[i] \in ToSet(set)
      /\ \A x \in ToSet(set) : \E i \in 1..n : x = set[i]
  BY Members DEF Growing
<1>2. set[1] = start /\ set[n] = below /\ \A a, b \in 1..n : a < b => set[a] > set[b]
  BY DEF Growing
<1> HIDE DEF n
<1>3. 1 \in 1..n /\ n \in 1..n
  BY <1>1
<1>4. ASSUME NEW a \in 1..n PROVE below <= set[a] /\ set[a] <= start
  <2>1. set[a] \in Int /\ start \in Int /\ below \in Int
    BY <1>1, <1>2, <1>3, CountsAssumption DEF Index
  <2>2. a = n \/ a < n
    BY <1>1
  <2>3. a = 1 \/ 1 < a
    BY <1>1
  <2>4. below <= set[a]
    BY <1>2, <1>3, <2>1, <2>2
  <2>5. set[a] <= start
    BY <1>2, <1>3, <2>1, <2>3
  <2> QED
    BY <2>4, <2>5
<1>5. \A i \in ToSet(set) : i \in Index /\ below <= i /\ i <= start
  BY <1>1, <1>4
<1>6. start \in ToSet(set) /\ below \in ToSet(set) /\ below \in Index
  BY <1>1, <1>2, <1>3
<1> QED
  BY <1>5, <1>6

\* What a member of the set could hide or be hidden by is in the set, or was emitted before.
LEMMA SetIsClosed ==
  ASSUME Typed, Looping, Growing, pc = "grow",
         NEW s \in ToSet(set), NEW t \in Index, s < t, IsOverlapping(ranges[s], ranges[t])
  PROVE  t \in Held \cup ToSet(set)
<1>1. s \in Index /\ below <= s /\ start \in ToSet(set) /\ below \in Int
  BY SetMembers, CountsAssumption DEF Index
<1>2. start = unused + 1 /\ unused \in Nat /\ t \in Nat /\ s \in Nat
  BY <1>1, CountsAssumption DEF Growing, Typed, Index
<1>3. CASE t >= start
  BY <1>1, <1>2, <1>3 DEF Looping
<1>4. CASE t < start
  <2>1. below <= t
    BY <1>1, <1>2
  <2>2. IsOverlapping(range, ranges[t])
    <3>1. ranges[s] \in Nat \X Nat /\ ranges[t] \in Nat \X Nat /\ range \in Nat \X Nat
      BY <1>1, HashesAssumption DEF Typed, Growing, Ranges
    <3>2. range[1] <= ranges[s][1] /\ ranges[s][2] <= range[2]
      BY DEF Growing
    <3> QED
      BY <3>1, <3>2 DEF IsOverlapping
  <2> QED
    BY <1>4, <2>1, <2>2 DEF Growing, Looping
<1> QED
  BY <1>2, <1>3, <1>4

\* The two ways in which the job ends: with the set, or with its first compactable alone.
LEMMA EmitKeeps ==
  ASSUME Inv, pc = "grow", NEW x, x = Reverse(set) \/ x = <<start>>, NEW p, p = Append(segments, x)
  PROVE  /\ ShapeOf(p) /\ NewestFirst(p)
         /\ HeldBy(p) = Held \cup ToSet(x)
         /\ start \in ToSet(x)
         /\ x = <<start>> => ToSet(x) = {start}
         /\ x = Reverse(set) => ToSet(x) = ToSet(set)
<1>1. Typed /\ ShapeOf(segments) /\ Looping /\ Growing /\ NewestFirst(segments)
  BY DEF Inv
<1>2. /\ start \in ToSet(set)
      /\ \A i \in ToSet(set) : i \notin Held
      /\ start = unused + 1 /\ unused \in Nat /\ start \in Index /\ set \in Seq(Index)
  BY <1>1, SetMembers, CountsAssumption DEF Growing, Typed
<1>3. CASE x = <<start>>
  <2>1. /\ x \in Seq(Index) /\ Len(x) = 1 /\ Len(x) > 0 /\ DOMAIN x = {1} /\ x[1] = start
    BY <1>2, <1>3
  <2>2. ToSet(x) = {start}
    BY <2>1 DEF ToSet
  <2>3. \A a, b \in 1..Len(x) : a < b => x[a] < x[b]
    BY <2>1
  <2>4. ASSUME NEW s \in ToSet(x), NEW t \in Index, s < t, IsOverlapping(ranges[s], ranges[t])
        PROVE  t \in HeldBy(segments) \cup ToSet(x)
    <3>1. t > start /\ t > unused
      BY <1>2, <2>2, <2>4, CountsAssumption DEF Index
    <3> QED
      BY <1>1, <1>2, <3>1, CountsAssumption DEF Looping, Held, Index
  <2>5. ToSet(x) \cap HeldBy(segments) = {}
    BY <1>2, <2>2 DEF Held
  <2>6. ShapeOf(p) /\ HeldBy(p) = HeldBy(segments) \cup ToSet(x)
    BY <1>1, <2>1, <2>3, <2>5, ShapeOfAppended
  <2>7. NewestFirst(p)
    BY <1>1, <2>1, <2>4, NewestOfAppended
  <2>8. x = Reverse(set) => ToSet(x) = ToSet(set)
    BY <1>2, Reversed
  <2> QED
    BY <2>2, <2>6, <2>7, <2>8 DEF Held
<1>4. CASE x = Reverse(set)
  <2> DEFINE n == Len(set)
  <2>1. /\ x \in Seq(Index) /\ Len(x) = n /\ n \in Nat /\ n > 0 /\ ToSet(x) = ToSet(set)
        /\ \A i \in 1..n : x[i] = set[n - i + 1]
    BY <1>1, <1>2, <1>4, Reversed, Members DEF Growing
  <2>2. \A a, b \in 1..n : a < b => set[a] > set[b]
    BY <1>1 DEF Growing
  <2>3. \A i \in 1..n : set[i] \in Int
    BY <1>2, Members, CountsAssumption DEF Index
  <2> HIDE DEF n
  <2>4. ASSUME NEW a \in 1..n, NEW b \in 1..n, a < b PROVE x[a] < x[b]
    <3>1. n - a + 1 \in 1..n /\ n - b + 1 \in 1..n /\ n - b + 1 < n - a + 1
      BY <2>1, <2>4
    <3> DEFINE c == n - a + 1
               d == n - b + 1
    <3>2. x[a] = set[c] /\ x[b] = set[d] /\ c \in 1..n /\ d \in 1..n /\ d < c
      BY <2>1, <3>1
    <3> HIDE DEF c, d
    <3> QED
      BY <2>2, <2>3, <3>2
  <2>5. \A s \in ToSet(x), t \in Index :
          s < t /\ IsOverlapping(ranges[s], ranges[t]) => t \in HeldBy(segments) \cup ToSet(x)
    BY <1>1, <2>1, SetIsClosed DEF Held
  <2>6. ToSet(x) \cap HeldBy(segments) = {}
    BY <1>2, <2>1 DEF Held
  <2>7. ShapeOf(p) /\ HeldBy(p) = HeldBy(segments) \cup ToSet(x)
    BY <1>1, <2>1, <2>4, <2>6, ShapeOfAppended
  <2>8. NewestFirst(p)
    BY <1>1, <2>1, <2>5, NewestOfAppended
  <2>9. x = <<start>> => ToSet(x) = {start}
    <3>1. \A y : ToSet(<<y>>) = {y}
      BY DEF ToSet
    <3> QED
      BY <3>1
  <2> QED
    BY <1>2, <2>1, <2>7, <2>8, <2>9 DEF Held
<1> QED
  BY <1>3, <1>4

-----------------------------------------------------------------------------
(* The steps *)

LEMMA InitInv == Init => Inv
<1> SUFFICES ASSUME Init PROVE Inv
  OBVIOUS
<1>1. Typed
  BY CountsAssumption DEF Init, Typed, Index
<1>2. segments = <<>> /\ Len(segments) = 0 /\ 1..Len(segments) = {} /\ segments \in Seq(Seq(Index))
  BY DEF Init
<1>3. ShapeOf(segments) /\ NewestFirst(segments) /\ Held = {}
  BY <1>2 DEF ShapeOf, NewestFirst, Held, HeldBy
<1>4. Looping
  BY <1>3, CountsAssumption DEF Init, Looping, Index
<1> QED
  BY <1>1, <1>3, <1>4 DEF Init, Inv

LEMMA SkipStep == Inv /\ Skip => Inv'
<1> SUFFICES ASSUME Inv, Skip PROVE Inv'
  OBVIOUS
<1>1. Typed /\ ShapeOf(segments) /\ Looping /\ NewestFirst(segments) /\ kept = 0
  BY DEF Inv, Skip
<1>2. /\ pc = "outer" /\ pc' = "outer" /\ unused > 0 /\ unused \in used /\ unused' = unused - 1
      /\ ranges' = ranges /\ used' = used /\ segments' = segments /\ kept' = kept
  BY DEF Skip
<1>3. unused \in Nat /\ unused \in 1..Count /\ unused - 1 \in 0..Count
  BY <1>1, <1>2, CountsAssumption DEF Typed
<1>4. Typed'
  BY <1>1, <1>2, <1>3 DEF Typed
<1>5. Held' = Held
  BY <1>2 DEF Held, HeldBy
<1>6. Looping'
  <2>1. \A t \in Index : t > unused - 1 => t > unused \/ t = unused
    BY <1>3 DEF Index
  <2>2. \A t \in 1..(unused - 1) : t \in 1..unused
    BY <1>3
  <2>3. used \subseteq Held
    BY <1>1 DEF Looping
  <2>4. \A t \in Index : t > unused => t \in Held
    BY <1>1, <1>2 DEF Looping
  <2>5. Held \cap 1..(unused - 1) \subseteq used
    BY <1>1, <2>2 DEF Looping
  <2> QED
    BY <1>2, <1>5, <2>1, <2>3, <2>4, <2>5 DEF Looping
<1>7. NewestFirst(segments)'
  BY <1>1, <1>2 DEF NewestFirst
<1> QED
  BY <1>1, <1>2, <1>4, <1>6, <1>7 DEF Inv

LEMMA StartStep == Inv /\ Start => Inv'
<1> SUFFICES ASSUME Inv, Start PROVE Inv'
  OBVIOUS
<1>1. Typed /\ ShapeOf(segments) /\ Looping /\ NewestFirst(segments) /\ kept = 0
  BY DEF Inv, Start
<1>2. /\ pc = "outer" /\ pc' = "grow" /\ unused > 0 /\ unused \notin used /\ unused' = unused - 1
      /\ start' = unused /\ range' = ranges[unused] /\ set' = <<unused>> /\ below' = unused
      /\ ranges' = ranges /\ used' = used /\ segments' = segments /\ kept' = kept
  BY DEF Start
<1>3. unused \in Nat /\ unused \in Index /\ unused - 1 \in 0..Count /\ unused = unused - 1 + 1
  BY <1>1, <1>2, CountsAssumption DEF Typed, Index
<1>4. Typed'
  BY <1>1, <1>2, <1>3 DEF Typed
<1>5. Held' = Held
  BY <1>2 DEF Held, HeldBy
<1>6. Looping'
  <2>1. \A t \in Index : t > unused - 1 => t > unused \/ t = unused
    BY <1>3 DEF Index
  <2>2. \A t \in 1..(unused - 1) : t \in 1..unused
    BY <1>3
  <2>3. used \subseteq Held
    BY <1>1 DEF Looping
  <2>4. \A t \in Index : t > unused => t \in Held
    BY <1>1, <1>2 DEF Looping
  <2>5. Held \cap 1..(unused - 1) \subseteq used
    BY <1>1, <2>2 DEF Looping
  <2> QED
    BY <1>2, <1>5, <2>1, <2>3, <2>4, <2>5 DEF Looping
<1>7. Growing'
  <2>1. unused \notin Held
    BY <1>1, <1>2, <1>3 DEF Looping
  <2> DEFINE s == <<unused>>
  <2>2. s \in Seq(Index) /\ Len(s) = 1 /\ DOMAIN s = {1} /\ s[1] = unused
    BY <1>3
  <2>9. set' = s
    BY <1>2
  <2> HIDE DEF s
  <2>3. ToSet(s) = {unused}
    BY <2>2 DEF ToSet
  <2>4. \A a, b \in 1..Len(s) : ~(a < b)
    BY <2>2
  <2>5. ranges[unused] \in Nat \X Nat
    BY <1>1, <1>3, HashesAssumption DEF Typed, Ranges
  <2>6. set' = s /\ Len(s) > 0
    BY <2>9, <2>2
  <2>7. \A i \in Index : ~(unused <= i /\ i < unused)
    BY <1>3 DEF Index
  <2>8. \A r \in Nat \X Nat : r[1] <= r[1] /\ r[2] <= r[2]
    OBVIOUS
  <2> QED
    BY <1>2, <1>3, <1>5, <2>1, <2>2, <2>3, <2>4, <2>5, <2>6, <2>7, <2>8 DEF Growing
<1>8. NewestFirst(segments)'
  BY <1>1, <1>2 DEF NewestFirst
<1> QED
  BY <1>1, <1>2, <1>4, <1>6, <1>7, <1>8 DEF Inv

\* A job ends: with the set, whose members are then used, or with its first compactable alone.
LEMMA EmittedInv ==
  ASSUME Inv, pc = "grow", pc' = "outer", UNCHANGED <<ranges, unused, kept>>,
         NEW x, segments' = Append(segments, x),
         \/ x = Reverse(set) /\ used' = used \cup ToSet(set)
         \/ x = <<start>> /\ used' = used
  PROVE  Inv'
<1>1. Typed /\ Looping /\ Growing /\ kept = 0
  BY DEF Inv
<1> DEFINE p == Append(segments, x)
<1>2. /\ ShapeOf(p) /\ NewestFirst(p)
      /\ HeldBy(p) = Held \cup ToSet(x)
      /\ start \in ToSet(x)
      /\ x = <<start>> => ToSet(x) = {start}
      /\ x = Reverse(set) => ToSet(x) = ToSet(set)
  BY EmitKeeps
<1>3. segments' = p
  OBVIOUS
<1> HIDE DEF p
<1>4. ToSet(set) \subseteq Index /\ start = unused + 1 /\ unused \in Nat
  BY <1>1, SetMembers, CountsAssumption DEF Typed, Growing
<1>5. Typed'
  BY <1>1, <1>4 DEF Typed
<1>6. Held' = Held \cup ToSet(x)
  BY <1>2, <1>3 DEF Held
<1>7. Looping'
  <2>1. used' \subseteq Held \cup ToSet(x)
    BY <1>1, <1>2 DEF Looping
  <2>2. (Held \cup ToSet(x)) \cap 1..unused \subseteq used'
    <3>1. start \notin 1..unused
      BY <1>4
    <3>2. CASE x = Reverse(set) /\ used' = used \cup ToSet(set)
      BY <1>1, <1>2, <3>2 DEF Looping
    <3>3. CASE x = <<start>> /\ used' = used
      BY <1>1, <1>2, <3>1, <3>3 DEF Looping
    <3> QED
      BY <3>2, <3>3
  <2>3. \A t \in Index : t > unused => t \in Held \cup ToSet(x)
    BY <1>1, <1>2 DEF Looping
  <2> QED
    BY <1>6, <2>1, <2>2, <2>3 DEF Looping
<1>8. NewestFirst(segments)'
  BY <1>2, <1>3 DEF NewestFirst
<1>9. ShapeOf(segments)'
  BY <1>2, <1>3
<1> QED
  BY <1>1, <1>5, <1>7, <1>8, <1>9 DEF Inv

LEMMA OptimalStep == Inv /\ Optimal => Inv'
<1> SUFFICES ASSUME Inv, Optimal PROVE Inv'
  OBVIOUS
<1>1. /\ pc = "grow" /\ pc' = "outer" /\ UNCHANGED <<ranges, unused, kept>>
      /\ segments' = Append(segments, Reverse(set)) /\ used' = used \cup ToSet(set)
  BY DEF Optimal, Emit
<1> QED
  BY <1>1, EmittedInv

LEMMA EndJobStep == Inv /\ EndJob => Inv'
<1> SUFFICES ASSUME Inv, EndJob PROVE Inv'
  OBVIOUS
<1>1. /\ pc = "grow" /\ pc' = "outer" /\ UNCHANGED <<ranges, unused, kept>>
      /\ \/ segments' = Append(segments, Reverse(set)) /\ used' = used \cup ToSet(set)
         \/ segments' = Append(segments, <<start>>) /\ used' = used
  BY DEF EndJob, Emit
<1>2. CASE segments' = Append(segments, Reverse(set)) /\ used' = used \cup ToSet(set)
  BY <1>1, <1>2, EmittedInv
<1>3. CASE segments' = Append(segments, <<start>>) /\ used' = used
  BY <1>1, <1>3, EmittedInv
<1> QED
  BY <1>1, <1>2, <1>3

\* The next compactable is the newest of the candidates; it was not emitted before.
LEMMA NextIndex ==
  ASSUME Typed, Looping, Growing, Candidates # {}
  PROVE  /\ Next_index \in Index /\ Next_index < below /\ Next_index \notin used /\ Next_index \notin Held
         /\ \A j \in Index : j < below /\ j \notin used /\ IsOverlapping(range, ranges[j]) => j <= Next_index
<1>1. below \in Nat /\ below <= Count /\ below <= unused + 1 /\ unused \in Nat
  BY SetMembers, CountsAssumption DEF Index, Typed, Growing
<1>2. Candidates \subseteq 0..Count
  BY <1>1, CountsAssumption DEF Candidates
<1>3. \E i \in Candidates : \A j \in Candidates : j <= i
  BY <1>2, Maximum, CountsAssumption
<1>4. Next_index \in Candidates /\ \A j \in Candidates : j <= Next_index
  BY <1>3 DEF Next_index
<1>5. Next_index \in 1..(below - 1) /\ Next_index \notin used
  BY <1>4 DEF Candidates
<1>6. Next_index \in Index /\ Next_index < below /\ Next_index \in 1..unused
  BY <1>1, <1>5, CountsAssumption DEF Index
<1>7. \A j \in Index : j < below => j \in 1..(below - 1)
  BY <1>1 DEF Index
<1>8. \A j \in Index : j < below /\ j \notin used /\ IsOverlapping(range, ranges[j]) => j <= Next_index
  BY <1>4, <1>7 DEF Candidates
<1> QED
  BY <1>5, <1>6, <1>8 DEF Looping

LEMMA ExtendStep == Inv /\ Extend => Inv'
<1> SUFFICES ASSUME Inv, Extend PROVE Inv'
  OBVIOUS
<1>1. Typed /\ ShapeOf(segments) /\ Looping /\ Growing /\ NewestFirst(segments) /\ kept = 0
  BY DEF Inv, Extend
<1> DEFINE c == Next_index
<1>2. /\ pc = "grow" /\ pc' = "grow" /\ Candidates # {}
      /\ range' = Extended(range, ranges[c]) /\ set' = <<start>> /\ below' = unused + 1
      /\ ranges' = ranges /\ unused' = unused /\ used' = used /\ segments' = segments /\ start' = start /\ kept' = kept
  BY DEF Extend
<1>3. c \in Index
  BY <1>1, <1>2, NextIndex
<1> HIDE DEF c
<1>4. Typed'
  BY <1>1, <1>2 DEF Typed
<1>5. Held' = Held
  BY <1>2 DEF Held, HeldBy
<1>6. Looping'
  BY <1>1, <1>2, <1>5 DEF Looping
<1>7. Growing'
  <2>1. start = unused + 1 /\ start \in Index /\ start \notin Held /\ start \in Int
    BY <1>1, CountsAssumption DEF Growing, Index
  <2> DEFINE s == <<start>>
             r == Extended(range, ranges[c])
  <2>2. s \in Seq(Index) /\ Len(s) = 1 /\ Len(s) > 0 /\ DOMAIN s = {1} /\ s[1] = start
    BY <2>1
  <2>3. ToSet(s) = {start}
    BY <2>2 DEF ToSet
  <2>4. \A a, b \in 1..Len(s) : ~(a < b)
    BY <2>2
  <2>5. r \in Nat \X Nat /\ r[1] <= ranges[start][1] /\ ranges[start][2] <= r[2]
    <3>1. ranges[start] \in Nat \X Nat /\ ranges[c] \in Nat \X Nat /\ range \in Nat \X Nat
      BY <1>1, <1>3, <2>1, HashesAssumption DEF Typed, Growing, Ranges
    <3>2. range[1] <= ranges[start][1] /\ ranges[start][2] <= range[2]
      BY <1>1, SetMembers DEF Growing
    <3> QED
      BY <3>1, <3>2 DEF Extended, LowerOf, UpperOf
  <2>6. set' = s /\ range' = r
    BY <1>2
  <2> HIDE DEF s, r
  <2>7. \A i \in Index : ~(start <= i /\ i < start)
    BY <2>1, CountsAssumption DEF Index
  <2> QED
    BY <1>2, <1>5, <2>1, <2>2, <2>3, <2>4, <2>5, <2>6, <2>7 DEF Growing
<1>8. NewestFirst(segments)'
  BY <1>1, <1>2 DEF NewestFirst
<1> QED
  BY <1>1, <1>2, <1>4, <1>6, <1>7, <1>8 DEF Inv

LEMMA GrowStep == Inv /\ Grow => Inv'
<1> SUFFICES ASSUME Inv, Grow PROVE Inv'
  OBVIOUS
<1>1. Typed /\ ShapeOf(segments) /\ Looping /\ Growing /\ NewestFirst(segments) /\ kept = 0
  BY DEF Inv, Grow
<1> DEFINE c == Next_index
<1>2. /\ pc = "grow" /\ pc' = "grow" /\ Candidates # {}
      /\ Extended(range, ranges[c]) = range /\ set' = Append(set, c) /\ below' = c /\ range' = range
      /\ ranges' = ranges /\ unused' = unused /\ used' = used /\ segments' = segments /\ start' = start /\ kept' = kept
  BY DEF Grow
<1>3. /\ c \in Index /\ c < below /\ c \notin used /\ c \notin Held
      /\ \A j \in Index : j < below /\ j \notin used /\ IsOverlapping(range, ranges[j]) => j <= c
  BY <1>1, <1>2, NextIndex
<1> HIDE DEF c
<1>4. Typed'
  BY <1>1, <1>2 DEF Typed
<1>5. Held' = Held
  BY <1>2 DEF Held, HeldBy
<1>6. Looping'
  BY <1>1, <1>2, <1>5 DEF Looping
<1>7. Growing'
  <2> DEFINE n == Len(set)
             s == Append(set, c)
  <2>1. /\ set \in Seq(Index) /\ n \in Nat /\ n > 0 /\ set[1] = start /\ set[n] = below
        /\ \A a, b \in 1..n : a < b => set[a] > set[b]
        /\ \A i \in 1..n : set[i] \in ToSet(set)
    BY <1>1, Members DEF Growing
  <2>2. s \in Seq(Index) /\ Len(s) = n + 1 /\ (\A i \in 1..n : s[i] = set[i]) /\ s[n + 1] = c
    BY <1>3, <2>1, Appended
  <2>3. \A i \in ToSet(set) : i \in Index /\ below <= i
    BY <1>1, SetMembers
  <2>4. set' = s
    BY <1>2
  <2>5. ToSet(s) = ToSet(set) \cup {c}
    <3> HIDE DEF s
    <3>1. \A y \in ToSet(set) : \E i \in 1..n : y = set[i]
      BY <2>1, Members
    <3>2. \A y \in ToSet(s) : \E i \in 1..(n + 1) : y = s[i]
      BY <2>2, Members
    <3>3. \A i \in 1..(n + 1) : s[i] \in ToSet(s)
      BY <2>2, Members
    <3>4. \A i \in 1..(n + 1) : i \in 1..n \/ i = n + 1
      BY <2>1
    <3>5. 1..n \subseteq 1..(n + 1) /\ n + 1 \in 1..(n + 1)
      BY <2>1
    <3> HIDE DEF n
    <3>6. \A y \in ToSet(s) : y \in ToSet(set) \/ y = c
      BY <2>1, <2>2, <3>2, <3>4
    <3>7. \A y \in ToSet(set) : y \in ToSet(s)
      BY <2>2, <3>1, <3>3, <3>5
    <3>8. c \in ToSet(s)
      BY <2>2, <3>3, <3>5
    <3> QED
      BY <3>6, <3>7, <3>8
  <2> HIDE DEF n, s
  <2>6. Len(s) > 0 /\ s[1] = start /\ s[Len(s)] = c
    BY <2>1, <2>2
  <2>7. ASSUME NEW a \in 1..Len(s), NEW b \in 1..Len(s), a < b PROVE s[a] > s[b]
    <3>1. a \in 1..n /\ (b \in 1..n \/ b = n + 1)
      BY <2>1, <2>2, <2>7
    <3>2. below \in Int /\ c \in Int /\ set[a] \in Int /\ below <= set[a]
      BY <1>1, <1>3, <2>1, <2>3, <3>1, SetMembers, CountsAssumption DEF Index
    <3> QED
      BY <1>3, <2>1, <2>2, <2>7, <3>1, <3>2
  <2>8. range \in Nat \X Nat /\ range[1] <= ranges[c][1] /\ ranges[c][2] <= range[2]
    <3>1. ranges[c] \in Nat \X Nat /\ range \in Nat \X Nat
      BY <1>1, <1>3, HashesAssumption DEF Typed, Growing, Ranges
    <3>2. LowerOf(range[1], ranges[c][1]) = range[1] /\ UpperOf(range[2], ranges[c][2]) = range[2]
      BY <1>2 DEF Extended
    <3> QED
      BY <3>1, <3>2 DEF LowerOf, UpperOf
  <2>9. \A i \in ToSet(s) : i \notin Held /\ range[1] <= ranges[i][1] /\ ranges[i][2] <= range[2]
    BY <1>1, <1>3, <2>5, <2>8 DEF Growing
  <2>10. ASSUME NEW i \in Index, c <= i, i < start, i \notin used, IsOverlapping(range, ranges[i])
         PROVE  i \in ToSet(s)
    <3>1. i \in Int /\ c \in Int /\ below \in Int
      BY <1>1, <1>3, SetMembers, CountsAssumption DEF Index
    <3>2. CASE below <= i
      BY <1>1, <2>5, <2>10, <3>2 DEF Growing
    <3>3. CASE i < below
      BY <1>3, <2>5, <2>10, <3>1, <3>3
    <3> QED
      BY <3>1, <3>2, <3>3
  <2>11. start = unused + 1 /\ start \in Index /\ start \notin Held
    BY <1>1 DEF Growing
  <2> QED
    BY <1>2, <1>5, <2>2, <2>4, <2>6, <2>7, <2>8, <2>9, <2>10, <2>11 DEF Growing
<1>8. NewestFirst(segments)'
  BY <1>1, <1>2 DEF NewestFirst
<1> QED
  BY <1>1, <1>2, <1>4, <1>6, <1>7, <1>8 DEF Inv

LEMMA StopStep == Inv /\ Stop => Inv'
<1> SUFFICES ASSUME Inv, Stop PROVE Inv'
  OBVIOUS
<1>1. Typed /\ ShapeOf(segments) /\ NewestFirst(segments) /\ kept = 0
  BY DEF Inv, Stop
<1>2. pc' = "trim" /\ UNCHANGED <<ranges, unused, used, segments, kept>>
  BY DEF Stop
<1>3. Typed' /\ NewestFirst(segments)'
  BY <1>1, <1>2 DEF Typed, NewestFirst
<1> QED
  BY <1>1, <1>2, <1>3 DEF Inv

LEMMA TrimStep == Inv /\ Trim => Inv'
<1> SUFFICES ASSUME Inv, Trim PROVE Inv'
  OBVIOUS
<1>1. Typed /\ ShapeOf(segments) /\ NewestFirst(segments) /\ kept = 0
  BY DEF Inv, Trim
<1> DEFINE p == Front(segments)
<1>2. segments # <<>> /\ segments' = p /\ pc = "trim" /\ pc' = "trim" /\ UNCHANGED <<ranges, unused, used, kept>>
  BY DEF Trim, LastIsAlone
<1>3. Len(segments) > 0
  BY <1>1, <1>2, EmptySeq, Members DEF ShapeOf
<1>4. ShapeOf(p) /\ NewestFirst(p)
  BY <1>1, <1>3, TrimKeeps
<1> HIDE DEF p
<1>5. Typed' /\ NewestFirst(segments)' /\ ShapeOf(segments)'
  BY <1>1, <1>2, <1>4 DEF Typed, NewestFirst
<1> QED
  BY <1>1, <1>2, <1>5 DEF Inv

LEMMA TurnRoundStep == Inv /\ TurnRound => Inv'
<1> SUFFICES ASSUME Inv, TurnRound PROVE Inv'
  OBVIOUS
<1>1. Typed /\ ShapeOf(segments) /\ NewestFirst(segments) /\ kept = 0
  BY DEF Inv, TurnRound
<1> DEFINE p == Reverse(segments)
<1>2. segments' = p /\ pc' = "retain" /\ UNCHANGED <<ranges, unused, used, kept>>
  BY DEF TurnRound
<1>3. ShapeOf(p) /\ OldestFirst(p) /\ Len(p) \in Nat
  BY <1>1, TurnKeeps, Members DEF ShapeOf
<1> HIDE DEF p
<1>4. Typed' /\ OldestFirst(segments)' /\ ShapeOf(segments)' /\ Retaining'
  BY <1>1, <1>2, <1>3 DEF Typed, OldestFirst, Retaining
<1> QED
  BY <1>1, <1>2, <1>4 DEF Inv

\* Whether a segment stays depends on it and on those before it.
LEMMA StaysSame ==
  ASSUME NEW i \in Nat, ranges' = ranges, \A j \in 1..i : segments'[j] = segments[j], Stays(i), i > 0
  PROVE  Stays(i)'
<1>1. i \in 1..i /\ \A j \in 1..(i - 1) : j \in 1..i
  OBVIOUS
<1> QED
  BY <1>1 DEF Stays

LEMMA RetainStep == Inv /\ Retain => Inv'
<1> SUFFICES ASSUME Inv, Retain PROVE Inv'
  OBVIOUS
<1>1. Typed /\ ShapeOf(segments) /\ OldestFirst(segments) /\ Retaining
  BY DEF Inv, Retain
<1>2. /\ kept < Len(segments) /\ Stays(kept + 1) /\ kept' = kept + 1 /\ pc' = "retain"
      /\ UNCHANGED <<ranges, unused, used, segments>>
  BY DEF Retain
<1>3. Typed' /\ OldestFirst(segments)'
  BY <1>1, <1>2 DEF Typed, OldestFirst
<1>4. Retaining'
  <2>1. kept \in Nat /\ Len(segments) \in Nat
    BY <1>1, Members DEF Typed, ShapeOf
  <2>2. \A i \in 1..(kept + 1) : Stays(i)
    BY <1>1, <1>2, <2>1 DEF Retaining
  <2>3. ASSUME NEW i \in 1..(kept + 1) PROVE Stays(i)'
    BY <1>2, <2>2, StaysSame
  <2> QED
    BY <1>2, <2>1, <2>3 DEF Retaining
<1> QED
  BY <1>1, <1>2, <1>3, <1>4 DEF Inv

LEMMA DiscardStep == Inv /\ Discard => Inv'
<1> SUFFICES ASSUME Inv, Discard PROVE Inv'
  OBVIOUS
<1>1. Typed /\ ShapeOf(segments) /\ OldestFirst(segments) /\ Retaining
  BY DEF Inv, Discard
<1> DEFINE k == kept + 1
           p == RemoveAt(segments, k)
<1>2. kept < Len(segments) /\ ~Stays(k) /\ segments' = p /\ pc' = "retain" /\ UNCHANGED <<ranges, unused, used, kept>>
  BY DEF Discard
<1>3. kept \in Nat /\ Len(segments) \in Nat /\ k \in 1..Len(segments)
  BY <1>1, <1>2, Members DEF Typed, ShapeOf
<1>4. /\ Len(segments[k]) = 1
      /\ \A j \in 1..(k - 1) : \A s \in ToSet(segments[j]) : ~IsOverlapping(ranges[segments[k][1]], ranges[s])
  BY <1>2 DEF Stays
<1>5. ShapeOf(p) /\ OldestFirst(p) /\ Len(p) = Len(segments) - 1 /\ \A i \in 1..(k - 1) : p[i] = segments[i]
  BY <1>1, <1>3, <1>4, DiscardKeeps
<1> HIDE DEF p
<1>6. Typed' /\ OldestFirst(segments)' /\ ShapeOf(segments)'
  BY <1>1, <1>2, <1>5 DEF Typed, OldestFirst
<1>7. Retaining'
  <2>1. kept <= Len(p)
    BY <1>2, <1>3, <1>5
  <2>2. ASSUME NEW i \in 1..kept PROVE Stays(i)'
    <3>1. \A j \in 1..i : segments'[j] = segments[j]
      BY <1>2, <1>3, <1>5
    <3>2. Stays(i) /\ i \in Nat /\ i > 0
      BY <1>1 DEF Retaining
    <3> QED
      BY <1>2, <3>1, <3>2, StaysSame
  <2> QED
    BY <1>2, <2>1, <2>2 DEF Retaining
<1> QED
  BY <1>1, <1>2, <1>6, <1>7 DEF Inv

LEMMA FinishStep == Inv /\ Finish => Inv'
<1> SUFFICES ASSUME Inv, Finish PROVE Inv'
  OBVIOUS
<1>1. Typed /\ ShapeOf(segments) /\ OldestFirst(segments) /\ Retaining
  BY DEF Inv, Finish
<1>2. kept = Len(segments) /\ pc' = "done" /\ UNCHANGED <<ranges, unused, used, segments, kept>>
  BY DEF Finish
<1>3. Typed' /\ OldestFirst(segments)' /\ Retaining'
  BY <1>1, <1>2 DEF Typed, OldestFirst, Retaining, Stays
<1> QED
  BY <1>1, <1>2, <1>3 DEF Inv

LEMMA StutterStep == Inv /\ UNCHANGED vars => Inv'
<1> SUFFICES ASSUME Inv, UNCHANGED vars PROVE Inv'
  OBVIOUS
<1>1. /\ ranges' = ranges /\ unused' = unused /\ used' = used /\ segments' = segments /\ pc' = pc
      /\ start' = start /\ range' = range /\ set' = set /\ below' = below /\ kept' = kept
  BY DEF vars
<1>2. Typed' = Typed /\ NewestFirst(segments)' = NewestFirst(segments) /\ OldestFirst(segments)' = OldestFirst(segments)
  BY <1>1 DEF Typed, NewestFirst, OldestFirst
<1>3. Held' = Held
  BY <1>1 DEF Held, HeldBy
<1>4. Looping' = Looping /\ Growing' = Growing /\ Retaining' = Retaining
  BY <1>1, <1>3 DEF Looping, Growing, Retaining, Stays
<1> QED
  BY <1>1, <1>2, <1>4 DEF Inv

-----------------------------------------------------------------------------

\* Whatever the limits answer, the search and the tidying up keep Inv: the set that grows is closed under what
\* overlaps it, so what is emitted never has anything newer and overlapping outside of it and of what was emitted.
THEOREM SegmentsInvariant == Spec => []Inv
<1>1. Inv /\ [Next]_vars => Inv'
  BY SkipStep, StartStep, OptimalStep, EndJobStep, ExtendStep, GrowStep, StopStep, TrimStep, TurnRoundStep,
     RetainStep, DiscardStep, FinishStep, StutterStep DEF Next
<1> QED
  BY InitInv, <1>1, PTL DEF Spec

LEMMA JobIs ==
  ASSUME ShapeOf(segments), NEW i \in Index
  PROVE  /\ \A j \in 1..Len(segments) : i \in ToSet(segments[j]) => JobOf(i) = j
         /\ JobOf(i) # 0 => JobOf(i) \in 1..Len(segments) /\ i \in ToSet(segments[JobOf(i)])
         /\ JobOf(i) \in Nat
<1>1. DOMAIN segments = 1..Len(segments) /\ Len(segments) \in Nat
  BY Members DEF ShapeOf
<1> DEFINE P(j) == j \in 1..Len(segments) /\ i \in ToSet(segments[j])
<1>2. CASE \E j \in 1..Len(segments) : i \in ToSet(segments[j])
  <2> DEFINE h == CHOOSE j \in 1..Len(segments) : i \in ToSet(segments[j])
  <2>1. JobOf(i) = h
    BY <1>1, <1>2 DEF JobOf
  <2>2. h \in 1..Len(segments) /\ i \in ToSet(segments[h])
    BY <1>2
  <2> HIDE DEF h
  <2>3. \A j \in 1..Len(segments) : i \in ToSet(segments[j]) => j = h
    BY <2>2 DEF ShapeOf
  <2> QED
    BY <1>1, <2>1, <2>2, <2>3
<1>3. CASE ~\E j \in 1..Len(segments) : i \in ToSet(segments[j])
  BY <1>1, <1>3 DEF JobOf
<1> QED
  BY <1>2, <1>3

\* get_merge_segments never puts a compactable into two jobs, or twice into one, and lists the members of a job
\* oldest first: merging them reads each SST file once, and the merge iterator prefers the newer entry.
THEOREM JobsShareNothing == Spec => []SegmentsDisjoint
<1>1. Inv => SegmentsDisjoint
  <2> SUFFICES ASSUME Inv PROVE SegmentsDisjoint
    OBVIOUS
  <2>1. ShapeOf(segments)
    BY DEF Inv
  <2>2. DOMAIN segments = 1..Len(segments) /\ \A j \in 1..Len(segments) : DOMAIN segments[j] = 1..Len(segments[j])
    BY <2>1 DEF ShapeOf
  <2> QED
    BY <2>1, <2>2 DEF ShapeOf, SegmentsDisjoint
<1> QED
  BY SegmentsInvariant, <1>1, PTL

\* What get_merge_segments returns is a plan under which merging and moving never lets an older entry hide a newer
\* one, for every CompactConfig, however the hash ranges lie and whatever the sizes are.
THEOREM PlansAreLegal == Spec => []SegmentsLegal
<1>1. Inv => SegmentsLegal
  <2> SUFFICES ASSUME Inv, pc = "done"
               PROVE  LegalPlan([i \in 1..Count |-> JobOf(i)], 1..Count, OlderIndex, OverlapIndex)
    BY DEF SegmentsLegal
  <2>1. /\ ShapeOf(segments) /\ OldestFirst(segments) /\ Len(segments) \in Nat
        /\ \A i \in 1..Len(segments) : Stays(i)
    BY Members DEF Inv, Retaining, ShapeOf
  <2> DEFINE plan == [i \in 1..Count |-> JobOf(i)]
             job(j) == {s \in 1..Count : plan[s] = j}
  <2>2. \A i \in Index : /\ plan[i] = JobOf(i)
                         /\ \A j \in 1..Len(segments) : i \in ToSet(segments[j]) => plan[i] = j
                         /\ plan[i] # 0 => plan[i] \in 1..Len(segments) /\ i \in ToSet(segments[plan[i]])
                         /\ plan[i] \in Nat
    BY <2>1, JobIs DEF Index
  <2> HIDE DEF plan
  <2>3. ASSUME NEW s \in Index, NEW t \in Index, plan[s] > plan[t], <<s, t>> \in OlderIndex \cap OverlapIndex
        PROVE  FALSE
    <3>1. s < t /\ IsOverlapping(ranges[s], ranges[t])
      BY <2>3 DEF OlderIndex, OverlapIndex
    <3>2. plan[s] \in 1..Len(segments) /\ s \in ToSet(segments[plan[s]])
      BY <2>2, <2>3
    <3>3. PICK i \in plan[s]..Len(segments) : t \in ToSet(segments[i])
      BY <2>1, <3>1, <3>2 DEF OldestFirst
    <3>4. i \in 1..Len(segments) /\ i >= plan[s]
      BY <2>1, <3>2
    <3>5. plan[t] = i
      BY <2>2, <3>3, <3>4
    <3> QED
      BY <2>3, <3>2, <3>4, <3>5
  <2>4. ASSUME NEW s \in Index, plan[s] > 1 PROVE job(plan[s] - 1) # {}
    <3>1. plan[s] \in 1..Len(segments) /\ plan[s] - 1 \in 1..Len(segments)
      BY <2>1, <2>2, <2>4
    <3> DEFINE j == plan[s] - 1
               x == segments[j][1]
    <3> HIDE DEF j
    <3>2. j \in 1..Len(segments)
      BY <3>1 DEF j
    <3>3. segments[j] \in Seq(Index) /\ Len(segments[j]) > 0
      BY <2>1, <3>2, Members DEF ShapeOf
    <3>4. Len(segments[j]) \in Nat
      BY <3>3, Members
    <3>5. x \in Index /\ x \in ToSet(segments[j])
      BY <3>3, <3>4, Members
    <3>6. plan[x] = j
      BY <2>2, <3>2, <3>5
    <3> QED
      BY <3>5, <3>6 DEF j, Index
  <2>5. ASSUME NEW s \in Index, plan[s] > 0, job(plan[s]) = {s}
        PROVE  \E t \in 1..Count : 0 < plan[t] /\ plan[t] < plan[s] /\ <<s, t>> \in OverlapIndex
    <3> DEFINE j == plan[s]
    <3>1. j \in 1..Len(segments) /\ s \in ToSet(segments[j])
      BY <2>2, <2>5
    <3> HIDE DEF j
    <3>2. /\ segments[j] \in Seq(Index) /\ Len(segments[j]) > 0
          /\ \A a, b \in 1..Len(segments[j]) : a < b => segments[j][a] < segments[j][b]
      BY <2>1, <3>1, Members DEF ShapeOf
    <3>3. Len(segments[j]) \in Nat /\ \A a \in 1..Len(segments[j]) : segments[j][a] \in Index /\ segments[j][a] \in ToSet(segments[j])
      BY <3>2, Members
    <3>4. \A a \in 1..Len(segments[j]) : segments[j][a] = s
      <4>1. \A a \in 1..Len(segments[j]) : plan[segments[j][a]] = j
        BY <2>2, <3>1, <3>3
      <4>2. \A x \in Index : plan[x] = j => x = s
        BY <2>5 DEF j, Index
      <4> QED
        BY <3>3, <4>1, <4>2
    <3>5. Len(segments[j]) = 1
      <4>1. CASE Len(segments[j]) > 1
        <5>1. 1 \in 1..Len(segments[j]) /\ 2 \in 1..Len(segments[j])
          BY <3>3, <4>1
        <5>2. s < s
          BY <3>2, <3>4, <5>1
        <5>3. s \in Nat
          BY CountsAssumption DEF Index
        <5> QED
          BY <5>2, <5>3
      <4>2. \A n \in Nat : n > 0 /\ ~(n > 1) => n = 1
        OBVIOUS
      <4> QED
        BY <3>2, <3>3, <4>1, <4>2
    <3>6. segments[j][1] = s
      BY <3>4, <3>5
    <3>7. PICK i \in 1..(j - 1) : \E k \in ToSet(segments[i]) : IsOverlapping(ranges[s], ranges[k])
      BY <2>1, <3>1, <3>5, <3>6 DEF Stays
    <3>8. PICK k \in ToSet(segments[i]) : IsOverlapping(ranges[s], ranges[k])
      BY <3>7
    <3>9. i \in 1..Len(segments) /\ 0 < i /\ i < j
      BY <2>1, <3>1
    <3>10. segments[i] \in Seq(Index)
      BY <2>1, <3>9, Members DEF ShapeOf
    <3>11. k \in Index
      BY <3>10, Members
    <3>12. plan[k] = i
      BY <2>2, <3>9, <3>11
    <3>13. <<s, k>> \in OverlapIndex
      BY <3>8, <3>11 DEF OverlapIndex, Pairs, Index
    <3> QED
      BY <3>9, <3>11, <3>12, <3>13 DEF j, Index
  <2>6. LegalPlan(plan, 1..Count, OlderIndex, OverlapIndex)
    BY <2>3, <2>4, <2>5 DEF LegalPlan, Index
  <2> QED
    BY <2>6 DEF plan
<1> QED
  BY SegmentsInvariant, <1>1, PTL

=============================================================================

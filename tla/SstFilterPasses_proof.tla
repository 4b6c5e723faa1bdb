------------------------ MODULE SstFilterPasses_proof ------------------------
(***************************************************************************)
(* Proofs about SstFilterPasses, for any number of commits, of files and   *)
(* of sequence numbers: the two passes compute what SstFilter says, and    *)
(* although the running database filters its meta files commit by commit   *)
(* and drops those it can, a reload from the ones that are left offers the *)
(* same SST files, each once: those that were not merged away.             *)
(*                                                                         *)
(* The first part says what the loops have done when they come to a meta   *)
(* file, by induction over the meta files from the newest; the second is   *)
(* the invariant of the running database.                                  *)
(***************************************************************************)
EXTENDS SstFilterPasses, TLAPS, SequenceTheorems, FiniteSetTheorems, WellFoundedInduction

Metas == [seq : Nat, entries : SUBSET Nat, obsolete_entries : SUBSET Nat, obsolete : SUBSET Nat]

-----------------------------------------------------------------------------
(* Numbers *)

NatLess == {p \in Nat \X Nat : p[1] < p[2]}

LEMMA Minimum ==
  ASSUME NEW T, T \subseteq Nat, T # {}
  PROVE  \E x \in T : \A y \in T : x <= y
<1>1. IsWellFoundedOn(NatLess, Nat)
  BY NatLessThanWellFounded DEF NatLess, OpToRel
<1>2. PICK x \in T : \A y \in T : ~(<<y, x>> \in NatLess)
  BY <1>1, WFMin
<1>3. ASSUME NEW y \in T, ~(x <= y) PROVE FALSE
  <2>1. <<y, x>> \in NatLess
    BY <1>3 DEF NatLess
  <2> QED
    BY <1>2, <2>1
<1> QED
  BY <1>3

LEMMA Maximum ==
  ASSUME NEW N \in Nat, NEW T, T \subseteq 0..N, T # {}
  PROVE  \E x \in T : \A y \in T : y <= x
<1> DEFINE U == {N - x : x \in T}
<1>1. U \subseteq Nat /\ U # {}
  <2>1. PICK x : x \in T
    OBVIOUS
  <2>2. N - x \in U
    BY <2>1
  <2>3. \A y \in 0..N : N - y \in Nat
    OBVIOUS
  <2> QED
    BY <2>2, <2>3
<1> HIDE DEF U
<1>2. PICK u \in U : \A y \in U : u <= y
  BY <1>1, Minimum
<1>3. PICK x \in T : u = N - x
  BY <1>2 DEF U
<1>4. ASSUME NEW y \in T PROVE y <= x
  <2>1. N - y \in U
    BY DEF U
  <2>2. N - x <= N - y
    BY <1>2, <1>3, <2>1
  <2>3. x \in 0..N /\ y \in 0..N
    OBVIOUS
  <2> QED
    BY <2>2, <2>3
<1> QED
  BY <1>4

\* Induction from n + 1 down to 1, for a set of numbers.
LEMMA Downwards ==
  ASSUME NEW n \in Nat, NEW T, n + 1 \in T, \A i \in 1..n : i + 1 \in T => i \in T
  PROVE  \A i \in 1..(n + 1) : i \in T
<1> SUFFICES ASSUME NEW m \in 1..(n + 1), m \notin T PROVE FALSE
  OBVIOUS
<1> DEFINE U == {i \in 1..(n + 1) : i \notin T}
<1>1. U \subseteq 0..(n + 1) /\ U # {} /\ n + 1 \in Nat
  OBVIOUS
<1> HIDE DEF U
<1>2. PICK x \in U : \A y \in U : y <= x
  BY <1>1, Maximum
<1>3. x \in 1..n /\ x \notin T
  BY <1>2 DEF U
<1>4. x + 1 \in 1..(n + 1) /\ ~(x + 1 <= x)
  BY <1>3
<1>5. x + 1 \in T
  BY <1>2, <1>4 DEF U
<1> QED
  BY <1>3, <1>5

-----------------------------------------------------------------------------
(* A pass, from the newest meta file to the oldest *)

Step(op, meta, acc) == IF op = "filter" THEN ApplyFilter(meta, acc) ELSE ApplyAndGetRemove(meta, acc)
\* f tells what pass op has computed when it has seen all meta files from the i-th on, for i from b.
Ran(op, metas, state, b, f) ==
  f = [i \in b..(Len(metas) + 1) |->
         IF i > Len(metas) THEN [state |-> state, metas |-> <<>>] ELSE Step(op, metas[i], f[i + 1])]
From(op, metas, state) == CHOOSE f : Ran(op, metas, state, 1, f)

LEMMA RanExists ==
  ASSUME NEW op, NEW metas, Len(metas) \in Nat, NEW state
  PROVE  \A b \in 1..(Len(metas) + 1) : \E f : Ran(op, metas, state, b, f)
<1> DEFINE n == Len(metas)
           T == {b \in 1..(n + 1) : \E f : Ran(op, metas, state, b, f)}
<1>1. n + 1 \in T
  <2> DEFINE f == [i \in (n + 1)..(n + 1) |-> [state |-> state, metas |-> <<>>]]
  <2>1. Ran(op, metas, state, n + 1, f)
    BY DEF Ran
  <2> QED
    BY <2>1
<1>2. ASSUME NEW b \in 1..n, b + 1 \in T PROVE b \in T
  <2>1. PICK f : Ran(op, metas, state, b + 1, f)
    BY <1>2
  <2> DEFINE g == [i \in b..(n + 1) |-> IF i = b THEN Step(op, metas[b], f[b + 1]) ELSE f[i]]
  <2>2. ASSUME NEW i \in b..(n + 1)
        PROVE  g[i] = IF i > n THEN [state |-> state, metas |-> <<>>] ELSE Step(op, metas[i], g[i + 1])
    <3>1. CASE i = b
      <4>1. ~(i > n) /\ i + 1 \in b..(n + 1) /\ i + 1 # b
        BY <3>1
      <4>2. g[i + 1] = f[b + 1]
        BY <3>1, <4>1
      <4>3. g[i] = Step(op, metas[b], f[b + 1])
        BY <3>1
      <4> HIDE DEF g
      <4> QED
        BY <3>1, <4>1, <4>2, <4>3
    <3>2. CASE i # b
      <4>1. i \in (b + 1)..(n + 1) /\ (~(i > n) => i + 1 \in b..(n + 1) /\ i + 1 # b)
        BY <3>2
      <4>2. f[i] = IF i > n THEN [state |-> state, metas |-> <<>>] ELSE Step(op, metas[i], f[i + 1])
        BY <2>1, <4>1 DEF Ran
      <4>3. g[i] = f[i] /\ (~(i > n) => g[i + 1] = f[i + 1])
        BY <3>2, <4>1
      <4> HIDE DEF g
      <4> QED
        BY <4>2, <4>3
    <3> QED
      BY <3>1, <3>2
  <2>3. Ran(op, metas, state, b, g)
    BY <2>2 DEF Ran
  <2> QED
    BY <2>3
<1> HIDE DEF T
<1>3. \A b \in 1..(n + 1) : b \in T
  BY <1>1, <1>2, Downwards
<1> QED
  BY <1>3 DEF T

LEMMA FromStarts ==
  ASSUME NEW op, NEW metas, Len(metas) \in Nat, NEW state
  PROVE  /\ From(op, metas, state)[Len(metas) + 1] = [state |-> state, metas |-> <<>>]
         /\ \A i \in 1..Len(metas) :
              From(op, metas, state)[i] = Step(op, metas[i], From(op, metas, state)[i + 1])
<1> DEFINE F == From(op, metas, state)
<1>1. Ran(op, metas, state, 1, F)
  <2>1. 1 \in 1..(Len(metas) + 1)
    OBVIOUS
  <2>2. \E f : Ran(op, metas, state, 1, f)
    BY <2>1, RanExists
  <2> QED
    BY <2>2 DEF From
<1> HIDE DEF F
<1>2. ASSUME NEW i \in 1..(Len(metas) + 1)
      PROVE  F[i] = IF i > Len(metas) THEN [state |-> state, metas |-> <<>>] ELSE Step(op, metas[i], F[i + 1])
  BY <1>1 DEF Ran
<1>3. F[Len(metas) + 1] = [state |-> state, metas |-> <<>>]
  <2>1. Len(metas) + 1 \in 1..(Len(metas) + 1) /\ Len(metas) + 1 > Len(metas)
    OBVIOUS
  <2> QED
    BY <1>2, <2>1
<1>4. ASSUME NEW i \in 1..Len(metas) PROVE F[i] = Step(op, metas[i], F[i + 1])
  <2>1. i \in 1..(Len(metas) + 1) /\ ~(i > Len(metas))
    OBVIOUS
  <2> QED
    BY <1>2, <2>1
<1> QED
  BY <1>3, <1>4 DEF F

LEMMA PassIsFrom ==
  ASSUME NEW metas, NEW state
  PROVE  /\ Pass(ApplyFilter, metas, state) = From("filter", metas, state)[1]
         /\ Pass(ApplyAndGetRemove, metas, state) = From("remove", metas, state)[1]
<1>1. \A f : /\ Ran("filter", metas, state, 1, f) <=>
                f = [i \in 1..(Len(metas) + 1) |->
                       IF i > Len(metas) THEN [state |-> state, metas |-> <<>>] ELSE ApplyFilter(metas[i], f[i + 1])]
             /\ Ran("remove", metas, state, 1, f) <=>
                f = [i \in 1..(Len(metas) + 1) |->
                       IF i > Len(metas) THEN [state |-> state, metas |-> <<>>]
                       ELSE ApplyAndGetRemove(metas[i], f[i + 1])]
  BY DEF Ran, Step
<1>2. Pass(ApplyFilter, metas, state) = From("filter", metas, state)[1]
  BY <1>1, Zenon DEF Pass, From
<1>3. Pass(ApplyAndGetRemove, metas, state) = From("remove", metas, state)[1]
  BY <1>1, Zenon DEF Pass, From
<1> QED
  BY <1>2, <1>3


-----------------------------------------------------------------------------
(* The first pass: what a meta file lists and what it hides of older ones *)

Lists(meta) == meta.entries \cup meta.obsolete_entries
Hides(meta) == meta.entries \cup meta.obsolete
HiddenAt(metas, i) == UNION {Hides(metas[j]) : j \in (i + 1)..Len(metas)}
FilterAt(metas, i) ==
  [metas[i] EXCEPT !.entries = @ \ HiddenAt(metas, i),
                   !.obsolete_entries = @ \cup (metas[i].entries \cap HiddenAt(metas, i))]
\* The j-th meta file is the newest one that says something of s.
Latest(metas, s, j) == j \in 1..Len(metas) /\ s \in Hides(metas[j]) /\ s \notin HiddenAt(metas, j)
\* state is the filter after the meta files from the i-th on.
StateFrom(metas, i, state) ==
  /\ DOMAIN state = HiddenAt(metas, i - 1)
  /\ \A s \in DOMAIN state :
       /\ state[s] \in {"Active", "Obsolete", "UnusedObsolete"}
       /\ state[s] = "Active" <=> \E j : Latest(metas, s, j) /\ s \in metas[j].entries
       /\ state[s] = "Obsolete" <=> \E j : /\ Latest(metas, s, j) /\ s \notin metas[j].entries
                                           /\ \E h \in i..(j - 1) : s \in Lists(metas[h])

LEMMA HiddenGrows ==
  ASSUME NEW metas, Len(metas) \in Nat, NEW i \in 1..Len(metas)
  PROVE  HiddenAt(metas, i - 1) = HiddenAt(metas, i) \cup Hides(metas[i])
<1>1. \A j : j \in ((i - 1) + 1)..Len(metas) <=> j = i \/ j \in (i + 1)..Len(metas)
  OBVIOUS
<1> QED
  BY <1>1 DEF HiddenAt

LEMMA LatestExists ==
  ASSUME NEW metas, Len(metas) \in Nat, NEW i \in 0..Len(metas), NEW s \in HiddenAt(metas, i)
  PROVE  \E j \in (i + 1)..Len(metas) : Latest(metas, s, j)
<1> DEFINE T == {j \in (i + 1)..Len(metas) : s \in Hides(metas[j])}
<1>1. T # {} /\ T \subseteq 0..Len(metas)
  BY DEF HiddenAt
<1>2. PICK j \in T : \A k \in T : k <= j
  BY <1>1, Maximum
<1>3. s \notin HiddenAt(metas, j)
  <2> SUFFICES ASSUME NEW k \in (j + 1)..Len(metas), s \in Hides(metas[k]) PROVE FALSE
    BY DEF HiddenAt
  <2>1. k \in (i + 1)..Len(metas) /\ ~(k <= j)
    BY <1>2
  <2> QED
    BY <1>2, <2>1
<1> QED
  BY <1>2, <1>3 DEF Latest

LEMMA LatestUnique ==
  ASSUME NEW metas, Len(metas) \in Nat, NEW s, NEW j, NEW k, Latest(metas, s, j), Latest(metas, s, k)
  PROVE  j = k
<1>1. j \in 1..Len(metas) /\ k \in 1..Len(metas)
  BY DEF Latest
<1>2. CASE j < k
  <2>1. k \in (j + 1)..Len(metas)
    BY <1>1, <1>2
  <2> QED
    BY <2>1 DEF Latest, HiddenAt
<1>3. CASE k < j
  <2>1. j \in (k + 1)..Len(metas)
    BY <1>1, <1>3
  <2> QED
    BY <2>1 DEF Latest, HiddenAt
<1> QED
  BY <1>1, <1>2, <1>3

\* What one meta file makes of the state of an SST file.
LEMMA FilterStates ==
  ASSUME NEW meta, NEW acc
  PROVE  LET after == ApplyFilter(meta, acc).state
         IN  /\ DOMAIN after = DOMAIN acc.state \cup Hides(meta)
             /\ \A s \in DOMAIN acc.state :
                  after[s] = IF s \in Lists(meta) /\ acc.state[s] = "UnusedObsolete" THEN "Obsolete" ELSE acc.state[s]
             /\ \A s \in Hides(meta) \ DOMAIN acc.state :
                  after[s] = IF s \in meta.entries THEN "Active" ELSE "UnusedObsolete"
<1> DEFINE seen == Used(acc.state, meta.obsolete_entries)
           used == Used(seen, meta.entries)
           offered == Insert(used, meta.entries, "Active")
           after == Insert(offered, meta.obsolete, "UnusedObsolete")
<1>1. DOMAIN seen = DOMAIN acc.state /\ DOMAIN used = DOMAIN acc.state
  BY DEF Used
<1>2. ASSUME NEW s \in DOMAIN acc.state
      PROVE  used[s] = IF s \in Lists(meta) /\ acc.state[s] = "UnusedObsolete" THEN "Obsolete" ELSE acc.state[s]
  <2>1. seen[s] = IF s \in meta.obsolete_entries /\ acc.state[s] = "UnusedObsolete" THEN "Obsolete" ELSE acc.state[s]
    BY DEF Used
  <2>2. used[s] = IF s \in meta.entries /\ seen[s] = "UnusedObsolete" THEN "Obsolete" ELSE seen[s]
    BY <1>1 DEF Used
  <2> QED
    BY <2>1, <2>2 DEF Lists
<1> HIDE DEF seen, used
<1>3. /\ DOMAIN offered = DOMAIN used \cup meta.entries
      /\ \A s \in DOMAIN offered : offered[s] = IF s \in DOMAIN used THEN used[s] ELSE "Active"
  BY DEF Insert
<1> HIDE DEF offered
<1>4. /\ DOMAIN after = DOMAIN offered \cup meta.obsolete
      /\ \A s \in DOMAIN after : after[s] = IF s \in DOMAIN offered THEN offered[s] ELSE "UnusedObsolete"
  BY DEF Insert
<1>5. ApplyFilter(meta, acc).state = after
  BY DEF ApplyFilter, after, offered, used, seen
<1> HIDE DEF after
<1> QED
  BY <1>1, <1>2, <1>3, <1>4, <1>5 DEF Hides


LEMMA StateStep ==
  ASSUME NEW metas \in Seq(Metas), NEW i \in 1..Len(metas), NEW acc, StateFrom(metas, i + 1, acc.state)
  PROVE  StateFrom(metas, i, ApplyFilter(metas[i], acc).state)
<1> DEFINE state == acc.state
           after == ApplyFilter(metas[i], acc).state
<1>0. Len(metas) \in Nat /\ (i + 1) - 1 = i /\ i \in 0..Len(metas)
  OBVIOUS
<1>1. /\ DOMAIN after = DOMAIN state \cup Hides(metas[i])
      /\ \A s \in DOMAIN state :
           after[s] = IF s \in Lists(metas[i]) /\ state[s] = "UnusedObsolete" THEN "Obsolete" ELSE state[s]
      /\ \A s \in Hides(metas[i]) \ DOMAIN state :
           after[s] = IF s \in metas[i].entries THEN "Active" ELSE "UnusedObsolete"
  BY FilterStates
<1> HIDE DEF after
<1>2. DOMAIN state = HiddenAt(metas, i)
  BY <1>0 DEF StateFrom
<1>3. DOMAIN after = HiddenAt(metas, i - 1)
  BY <1>0, <1>1, <1>2, HiddenGrows
<1>4. ASSUME NEW s \in DOMAIN state
      PROVE  /\ after[s] \in {"Active", "Obsolete", "UnusedObsolete"}
             /\ after[s] = "Active" <=> \E j : Latest(metas, s, j) /\ s \in metas[j].entries
             /\ after[s] = "Obsolete" <=> \E j : /\ Latest(metas, s, j) /\ s \notin metas[j].entries
                                                 /\ \E h \in i..(j - 1) : s \in Lists(metas[h])
  <2>1. PICK j \in (i + 1)..Len(metas) : Latest(metas, s, j)
    BY <1>0, <1>2, LatestExists
  <2>2. \A k : Latest(metas, s, k) <=> k = j
    BY <1>0, <2>1, LatestUnique
  <2>3. /\ state[s] \in {"Active", "Obsolete", "UnusedObsolete"}
        /\ state[s] = "Active" <=> s \in metas[j].entries
        /\ state[s] = "Obsolete" <=> s \notin metas[j].entries /\ \E h \in (i + 1)..(j - 1) : s \in Lists(metas[h])
    BY <2>2 DEF StateFrom
  <2>4. \A h : h \in i..(j - 1) <=> h = i \/ h \in (i + 1)..(j - 1)
    BY <2>1
  <2>5. after[s] = IF s \in Lists(metas[i]) /\ state[s] = "UnusedObsolete" THEN "Obsolete" ELSE state[s]
    BY <1>1
  <2> HIDE DEF state
  <2>6. /\ after[s] \in {"Active", "Obsolete", "UnusedObsolete"}
        /\ after[s] = "Active" <=> s \in metas[j].entries
    BY <2>3, <2>5
  <2>7. after[s] = "Obsolete" <=> s \notin metas[j].entries /\ \E h \in i..(j - 1) : s \in Lists(metas[h])
    BY <2>3, <2>4, <2>5
  <2> QED
    BY <2>2, <2>6, <2>7
<1>5. ASSUME NEW s \in Hides(metas[i]) \ DOMAIN state
      PROVE  /\ after[s] \in {"Active", "Obsolete", "UnusedObsolete"}
             /\ after[s] = "Active" <=> \E j : Latest(metas, s, j) /\ s \in metas[j].entries
             /\ after[s] = "Obsolete" <=> \E j : /\ Latest(metas, s, j) /\ s \notin metas[j].entries
                                                 /\ \E h \in i..(j - 1) : s \in Lists(metas[h])
  <2>1. Latest(metas, s, i)
    BY <1>2 DEF Latest
  <2>2. \A k : Latest(metas, s, k) <=> k = i
    BY <1>0, <2>1, LatestUnique
  <2>3. ~\E h \in i..(i - 1) : TRUE
    OBVIOUS
  <2>4. after[s] = IF s \in metas[i].entries THEN "Active" ELSE "UnusedObsolete"
    BY <1>1
  <2> QED
    BY <2>2, <2>3, <2>4
<1>6. \A s \in DOMAIN after : s \in DOMAIN state \/ s \in Hides(metas[i]) \ DOMAIN state
  BY <1>1
<1>7. \A s \in DOMAIN after :
        /\ after[s] \in {"Active", "Obsolete", "UnusedObsolete"}
        /\ after[s] = "Active" <=> \E j : Latest(metas, s, j) /\ s \in metas[j].entries
        /\ after[s] = "Obsolete" <=> \E j : /\ Latest(metas, s, j) /\ s \notin metas[j].entries
                                            /\ \E h \in i..(j - 1) : s \in Lists(metas[h])
  BY <1>4, <1>5, <1>6
<1>8. StateFrom(metas, i, after)
  BY <1>3, <1>7 DEF StateFrom
<1> QED
  BY <1>8 DEF after

\* Taking a meta file through the filter gives a meta file that lists the same.
LEMMA FilterAtType ==
  ASSUME NEW metas \in Seq(Metas), NEW i \in 1..Len(metas)
  PROVE  /\ FilterAt(metas, i) \in Metas
         /\ FilterAt(metas, i).entries = metas[i].entries \ HiddenAt(metas, i)
         /\ Lists(FilterAt(metas, i)) = Lists(metas[i])
         /\ FilterAt(metas, i).obsolete = metas[i].obsolete
         /\ FilterAt(metas, i).seq = metas[i].seq
<1>1. metas[i] \in Metas
  OBVIOUS
<1> QED
  BY <1>1 DEF Metas, FilterAt, Lists

LEMMA Prepended ==
  ASSUME NEW S, NEW x \in S, NEW q \in Seq(S)
  PROVE  /\ <<x>> \o q \in Seq(S)
         /\ Len(<<x>> \o q) = Len(q) + 1
         /\ (<<x>> \o q)[1] = x
         /\ \A k \in 1..Len(q) : (<<x>> \o q)[k + 1] = q[k]
<1>1. <<x>> \in Seq(S) /\ Len(<<x>>) = 1 /\ <<x>>[1] = x
  OBVIOUS
<1>2. /\ <<x>> \o q \in Seq(S)
      /\ Len(<<x>> \o q) = Len(<<x>>) + Len(q)
      /\ \A k \in 1..(Len(<<x>>) + Len(q)) :
           (<<x>> \o q)[k] = IF k <= Len(<<x>>) THEN <<x>>[k] ELSE q[k - Len(<<x>>)]
  BY <1>1, ConcatProperties
<1>3. Len(q) \in Nat
  OBVIOUS
<1>4. 1 \in 1..(1 + Len(q)) /\ 1 <= 1
  BY <1>3
<1>5. ASSUME NEW k \in 1..Len(q) PROVE k + 1 \in 1..(1 + Len(q)) /\ ~(k + 1 <= 1) /\ (k + 1) - 1 = k
  BY <1>3
<1> QED
  BY <1>1, <1>2, <1>3, <1>4, <1>5


LEMMA FilterStep ==
  ASSUME NEW metas \in Seq(Metas), NEW i \in 1..Len(metas), NEW acc, StateFrom(metas, i + 1, acc.state)
  PROVE  ApplyFilter(metas[i], acc).metas = <<FilterAt(metas, i)>> \o acc.metas
<1>1. DOMAIN Used(acc.state, metas[i].obsolete_entries) = HiddenAt(metas, i)
  <2>1. (i + 1) - 1 = i
    OBVIOUS
  <2>2. DOMAIN acc.state = HiddenAt(metas, i)
    BY <2>1 DEF StateFrom
  <2> QED
    BY <2>2 DEF Used
<1>2. metas[i].entries \cap HiddenAt(metas, i) = metas[i].entries \cap HiddenAt(metas, i)
  OBVIOUS
<1>3. metas[i].entries \ (metas[i].entries \cap HiddenAt(metas, i)) = metas[i].entries \ HiddenAt(metas, i)
  OBVIOUS
<1>4. ApplyFilter(metas[i], acc).metas =
        <<[metas[i] EXCEPT !.entries = @ \ (metas[i].entries \cap HiddenAt(metas, i)),
                           !.obsolete_entries = @ \cup (metas[i].entries \cap HiddenAt(metas, i))]>> \o acc.metas
  BY <1>1 DEF ApplyFilter
<1> QED
  BY <1>3, <1>4 DEF FilterAt

LEMMA FilterPass ==
  ASSUME NEW metas \in Seq(Metas)
  PROVE  /\ StateFrom(metas, 1, Filtered(metas).state)
         /\ Filtered(metas).metas \in Seq(Metas)
         /\ Len(Filtered(metas).metas) = Len(metas)
         /\ \A i \in 1..Len(metas) : Filtered(metas).metas[i] = FilterAt(metas, i)
<1> DEFINE n == Len(metas)
           F == From("filter", metas, Nothing)
           right(i, acc) == /\ StateFrom(metas, i, acc.state)
                            /\ acc.metas \in Seq(Metas)
                            /\ Len(acc.metas) = n + 1 - i
                            /\ \A k \in 1..(n + 1 - i) : acc.metas[k] = FilterAt(metas, i - 1 + k)
           T == {i \in 1..(n + 1) : right(i, F[i])}
<1>0. n \in Nat
  OBVIOUS
<1>1. F[n + 1] = [state |-> Nothing, metas |-> <<>>] /\ \A i \in 1..n : F[i] = ApplyFilter(metas[i], F[i + 1])
  BY <1>0, FromStarts DEF Step
<1> HIDE DEF F
<1>2. n + 1 \in T
  <2>1. StateFrom(metas, n + 1, Nothing)
    <3>1. HiddenAt(metas, (n + 1) - 1) = {}
      BY <1>0 DEF HiddenAt
    <3>2. DOMAIN Nothing = {}
      BY DEF Nothing
    <3> QED
      BY <3>1, <3>2 DEF StateFrom
  <2>2. <<>> \in Seq(Metas) /\ Len(<<>>) = n + 1 - (n + 1) /\ ~\E k \in 1..(n + 1 - (n + 1)) : TRUE
    BY <1>0
  <2>3. right(n + 1, [state |-> Nothing, metas |-> <<>>])
    BY <2>1, <2>2
  <2>4. right(n + 1, F[n + 1]) /\ n + 1 \in 1..(n + 1)
    BY <1>0, <1>1, <2>3
  <2> HIDE DEF right
  <2> QED
    BY <2>4
<1>3. ASSUME NEW i \in 1..n, i + 1 \in T PROVE i \in T
  <2> DEFINE acc == F[i + 1]
  <2>1. right(i + 1, acc)
    BY <1>3
  <2> HIDE DEF acc
  <2>2. F[i] = ApplyFilter(metas[i], acc)
    BY <1>1 DEF acc
  <2>3. StateFrom(metas, i, F[i].state)
    BY <2>1, <2>2, StateStep
  <2>4. F[i].metas = <<FilterAt(metas, i)>> \o acc.metas
    BY <2>1, <2>2, FilterStep
  <2>5. FilterAt(metas, i) \in Metas
    BY FilterAtType
  <2>6. /\ F[i].metas \in Seq(Metas)
        /\ Len(F[i].metas) = Len(acc.metas) + 1
        /\ F[i].metas[1] = FilterAt(metas, i)
        /\ \A k \in 1..Len(acc.metas) : F[i].metas[k + 1] = acc.metas[k]
    BY <2>1, <2>4, <2>5, Prepended
  <2>7. Len(acc.metas) = n - i /\ Len(F[i].metas) = n + 1 - i
    BY <1>0, <2>1, <2>6
  <2>8. ASSUME NEW k \in 1..(n + 1 - i) PROVE F[i].metas[k] = FilterAt(metas, i - 1 + k)
    <3>1. CASE k = 1
      <4>1. i - 1 + k = i
        BY <3>1
      <4> QED
        BY <2>6, <3>1, <4>1
    <3>2. CASE k # 1
      <4>1. k - 1 \in 1..(n - i) /\ (k - 1) + 1 = k /\ (i + 1) - 1 + (k - 1) = i - 1 + k /\ n + 1 - (i + 1) = n - i
        BY <1>0, <3>2
      <4>2. F[i].metas[k] = acc.metas[k - 1]
        BY <2>6, <2>7, <4>1
      <4>3. acc.metas[k - 1] = FilterAt(metas, (i + 1) - 1 + (k - 1))
        BY <2>1, <4>1
      <4> QED
        BY <4>1, <4>2, <4>3
    <3> QED
      BY <3>1, <3>2
  <2>9. right(i, F[i])
    BY <2>3, <2>6, <2>7, <2>8
  <2>10. i \in 1..(n + 1)
    BY <1>0
  <2> HIDE DEF right
  <2> QED
    BY <2>9, <2>10
<1> HIDE DEF T
<1>4. 1 \in T
  <2>1. \A i \in 1..(n + 1) : i \in T
    BY <1>0, <1>2, <1>3, Downwards
  <2> QED
    BY <1>0, <2>1
<1>5. Filtered(metas) = F[1]
  BY PassIsFrom DEF Filtered, F
<1>6. right(1, F[1])
  BY <1>4 DEF T
<1>7. n + 1 - 1 = n /\ \A k : k \in 1..n => 1 - 1 + k = k
  BY <1>0
<1> QED
  BY <1>5, <1>6, <1>7


-----------------------------------------------------------------------------
(* The second pass: which meta files are kept *)

\* The i-th meta file keeps s out of a reload: it is the newest to declare s obsolete, none as new offers s after the
\* first pass, and an older one lists s.
NeededAt(metas, i, s) ==
  /\ s \in metas[i].obsolete
  /\ \A n \in (i + 1)..Len(metas) : s \notin metas[n].obsolete
  /\ \A n \in i..Len(metas) : s \notin FilterAt(metas, n).entries
  /\ \E h \in 1..(i - 1) : s \in Lists(metas[h])
Kept(metas) == {i \in 1..Len(metas) : FilterAt(metas, i).entries # {} \/ \E s : NeededAt(metas, i, s)}
ObsoleteFrom(metas, i) == UNION {metas[j].obsolete : j \in i..Len(metas)}
\* Sequence r picks from f what stands at the indices K, in order: its a-th member stood at g[a].
Picks(r, f, K, g) ==
  /\ r \in Seq(Metas)
  /\ g \in [1..Len(r) -> K]
  /\ \A a, b \in 1..Len(r) : a < b => g[a] < g[b]
  /\ \A i \in K : \E a \in 1..Len(r) : g[a] = i
  /\ \A a \in 1..Len(r) : r[a] = f[g[a]]

LEMMA OffersLatest ==
  ASSUME NEW metas \in Seq(Metas), NEW i \in 1..Len(metas), NEW s
  PROVE  s \in FilterAt(metas, i).entries <=> s \in metas[i].entries /\ Latest(metas, s, i)
BY FilterAtType DEF Latest, Hides

\* What the state "Obsolete" means when the second pass comes to the i-th meta file.
LEMMA ObsoleteMeans ==
  ASSUME NEW metas \in Seq(Metas), NEW state, StateFrom(metas, 1, state), NEW i \in 1..Len(metas), NEW s,
         s \in metas[i].obsolete, \A n \in (i + 1)..Len(metas) : s \notin metas[n].obsolete
  PROVE  s \in DOMAIN state /\ state[s] = "Obsolete" <=> NeededAt(metas, i, s)
<1>0. Len(metas) \in Nat
  OBVIOUS
<1>1. s \in DOMAIN state
  <2>1. s \in Hides(metas[i]) /\ i \in ((1 - 1) + 1)..Len(metas)
    BY DEF Hides
  <2> QED
    BY <2>1 DEF StateFrom, HiddenAt
<1>2. state[s] = "Obsolete" <=> \E j : /\ Latest(metas, s, j) /\ s \notin metas[j].entries
                                       /\ \E h \in 1..(j - 1) : s \in Lists(metas[h])
  BY <1>1 DEF StateFrom
<1>3. ASSUME NEW j, Latest(metas, s, j), s \notin metas[j].entries PROVE j = i
  <2>1. j \in 1..Len(metas) /\ s \in metas[j].obsolete
    BY <1>3 DEF Latest, Hides
  <2>2. ~(j > i)
    BY <1>0, <2>1
  <2>3. ~(i > j)
    <3>1. i > j => i \in (j + 1)..Len(metas)
      BY <1>0, <2>1
    <3> QED
      BY <1>3, <3>1 DEF Latest, HiddenAt, Hides
  <2> QED
    BY <2>1, <2>2, <2>3
<1>4. ASSUME state[s] = "Obsolete" PROVE NeededAt(metas, i, s)
  <2>1. Latest(metas, s, i) /\ s \notin metas[i].entries /\ \E h \in 1..(i - 1) : s \in Lists(metas[h])
    BY <1>2, <1>3, <1>4
  <2>2. ASSUME NEW n \in i..Len(metas) PROVE s \notin FilterAt(metas, n).entries
    <3>1. n \in 1..Len(metas)
      BY <1>0
    <3>2. s \in FilterAt(metas, n).entries => s \in metas[n].entries /\ n = i
      BY <1>0, <2>1, <3>1, OffersLatest, LatestUnique
    <3> QED
      BY <2>1, <3>2
  <2> QED
    BY <2>1, <2>2 DEF NeededAt
<1>5. ASSUME NeededAt(metas, i, s) PROVE state[s] = "Obsolete"
  <2>1. s \notin HiddenAt(metas, i)
    <3> SUFFICES ASSUME s \in HiddenAt(metas, i) PROVE FALSE
      OBVIOUS
    <3>1. i \in 0..Len(metas)
      BY <1>0
    <3>2. PICK j \in (i + 1)..Len(metas) : Latest(metas, s, j)
      BY <1>0, <3>1, LatestExists
    <3>3. j \in i..Len(metas) /\ j \in 1..Len(metas)
      BY <1>0, <3>2
    <3>4. s \in metas[j].entries
      BY <3>2 DEF Latest, Hides
    <3>5. s \in FilterAt(metas, j).entries
      BY <3>2, <3>3, <3>4, OffersLatest
    <3> QED
      BY <1>5, <3>3, <3>5 DEF NeededAt
  <2>2. Latest(metas, s, i)
    BY <2>1 DEF Latest, Hides
  <2>3. i \in i..Len(metas)
    BY <1>0
  <2>4. s \notin metas[i].entries
    BY <1>5, <2>2, <2>3, OffersLatest DEF NeededAt
  <2> QED
    BY <1>2, <1>5, <2>2, <2>4 DEF NeededAt
<1> QED
  BY <1>1, <1>4, <1>5

LEMMA PickFirst ==
  ASSUME NEW n \in Nat, NEW f \in Seq(Metas), Len(f) = n, NEW K, K \subseteq 1..n, NEW i \in K,
         \A k \in K : i <= k, NEW r, NEW g, Picks(r, f, K \ {i}, g)
  PROVE  \E h : Picks(<<f[i]>> \o r, f, K, h)
<1> DEFINE q == <<f[i]>> \o r
           h == [a \in 1..(Len(r) + 1) |-> IF a = 1 THEN i ELSE g[a - 1]]
<1> HIDE DEF q, h
<1>0. /\ Len(r) \in Nat /\ r \in Seq(Metas) /\ f[i] \in Metas /\ K \subseteq Nat
      /\ g \in [1..Len(r) -> K \ {i}]
  <2>1. r \in Seq(Metas) /\ g \in [1..Len(r) -> K \ {i}]
    BY DEF Picks
  <2>2. i \in 1..Len(f)
    OBVIOUS
  <2>3. f[i] \in Metas
    BY <2>2
  <2>4. Len(r) \in Nat
    BY <2>1
  <2> QED
    BY <2>1, <2>3, <2>4
<1>1. /\ q \in Seq(Metas) /\ Len(q) = Len(r) + 1 /\ q[1] = f[i]
      /\ \A a \in 1..Len(r) : q[a + 1] = r[a]
  BY <1>0, Prepended DEF q
<1>2. /\ h[1] = i
      /\ \A a \in 2..(Len(r) + 1) : a - 1 \in 1..Len(r) /\ (a - 1) + 1 = a /\ h[a] = g[a - 1]
      /\ h \in [1..Len(q) -> K]
  BY <1>0, <1>1 DEF h
<1>3. ASSUME NEW a \in 1..Len(q), NEW b \in 1..Len(q), a < b PROVE h[a] < h[b]
  <2>1. b \in 2..(Len(r) + 1)
    BY <1>0, <1>1, <1>3
  <2>2. h[b] = g[b - 1] /\ b - 1 \in 1..Len(r) /\ h[b] \in K \ {i}
    BY <1>0, <1>2, <2>1
  <2>3. CASE a = 1
    <3>1. h[a] = i /\ i <= h[b] /\ h[b] # i /\ i \in Nat /\ h[b] \in Nat
      BY <1>0, <1>2, <2>2, <2>3
    <3> QED
      BY <3>1
  <2>4. CASE a # 1
    <3>1. a \in 2..(Len(r) + 1) /\ a - 1 < b - 1
      BY <1>0, <1>1, <1>3, <2>4
    <3>2. h[a] = g[a - 1] /\ a - 1 \in 1..Len(r)
      BY <1>2, <3>1
    <3>3. \A c, d \in 1..Len(r) : c < d => g[c] < g[d]
      BY DEF Picks
    <3> QED
      BY <2>2, <3>1, <3>2, <3>3
  <2> QED
    BY <2>3, <2>4
<1>4. ASSUME NEW k \in K PROVE \E a \in 1..Len(q) : h[a] = k
  <2>1. CASE k = i
    <3>1. 1 \in 1..Len(q)
      BY <1>0, <1>1
    <3> QED
      BY <1>2, <2>1, <3>1
  <2>2. CASE k # i
    <3>1. PICK a \in 1..Len(r) : g[a] = k
      BY <2>2 DEF Picks
    <3>2. a + 1 \in 2..(Len(r) + 1) /\ (a + 1) - 1 = a /\ a + 1 \in 1..Len(q)
      BY <1>0, <1>1
    <3> QED
      BY <1>2, <3>1, <3>2
  <2> QED
    BY <2>1, <2>2
<1>5. ASSUME NEW a \in 1..Len(q) PROVE q[a] = f[h[a]]
  <2>1. CASE a = 1
    BY <1>1, <1>2, <2>1
  <2>2. CASE a # 1
    <3>1. a \in 2..(Len(r) + 1)
      BY <1>0, <1>1, <2>2
    <3>2. h[a] = g[a - 1] /\ a - 1 \in 1..Len(r) /\ (a - 1) + 1 = a
      BY <1>2, <3>1
    <3>3. q[a] = r[a - 1] /\ r[a - 1] = f[g[a - 1]]
      BY <1>1, <3>2 DEF Picks
    <3> QED
      BY <3>2, <3>3
  <2> QED
    BY <2>1, <2>2
<1>6. Picks(q, f, K, h)
  BY <1>1, <1>2, <1>3, <1>4, <1>5 DEF Picks
<1> QED
  BY <1>6 DEF q


LEMMA RemoveStep ==
  ASSUME NEW metas \in Seq(Metas), NEW state, StateFrom(metas, 1, state), NEW i \in 1..Len(metas), NEW acc,
         DOMAIN acc.state = DOMAIN state \ ObsoleteFrom(metas, i + 1),
         \A s \in DOMAIN acc.state : acc.state[s] = state[s],
         NEW meta, meta = FilterAt(metas, i)
  PROVE  LET after == ApplyAndGetRemove(meta, acc)
         IN  /\ DOMAIN after.state = DOMAIN state \ ObsoleteFrom(metas, i)
             /\ \A s \in DOMAIN after.state : after.state[s] = state[s]
             /\ after.metas = IF i \in Kept(metas) THEN <<meta>> \o acc.metas ELSE acc.metas
<1> DEFINE after == ApplyAndGetRemove(meta, acc)
           used == \E s \in meta.obsolete \cap DOMAIN acc.state : acc.state[s] = "Obsolete"
<1>1. meta.obsolete = metas[i].obsolete /\ meta.entries = FilterAt(metas, i).entries
  BY FilterAtType
<1>2. ObsoleteFrom(metas, i) = ObsoleteFrom(metas, i + 1) \cup metas[i].obsolete
  <2>1. \A j : j \in i..Len(metas) <=> j = i \/ j \in (i + 1)..Len(metas)
    OBVIOUS
  <2> QED
    BY <2>1 DEF ObsoleteFrom
<1>3. /\ after.state = [s \in DOMAIN acc.state \ meta.obsolete |-> acc.state[s]]
      /\ after.metas = IF ~used /\ meta.entries = {} THEN acc.metas ELSE <<meta>> \o acc.metas
  BY DEF ApplyAndGetRemove
<1>4. \A s : s \in ObsoleteFrom(metas, i + 1) <=> \E n \in (i + 1)..Len(metas) : s \in metas[n].obsolete
  BY DEF ObsoleteFrom
<1>5. used <=> \E s : NeededAt(metas, i, s)
  <2>1. ASSUME NEW s, s \in metas[i].obsolete, s \notin ObsoleteFrom(metas, i + 1)
        PROVE  s \in DOMAIN state /\ state[s] = "Obsolete" <=> NeededAt(metas, i, s)
    BY <1>4, <2>1, ObsoleteMeans
  <2>2. ASSUME NEW s, NeededAt(metas, i, s) PROVE s \in metas[i].obsolete /\ s \notin ObsoleteFrom(metas, i + 1)
    BY <1>4, <2>2 DEF NeededAt
  <2>3. ASSUME used PROVE \E s : NeededAt(metas, i, s)
    <3>1. PICK s \in meta.obsolete \cap DOMAIN acc.state : acc.state[s] = "Obsolete"
      BY <2>3
    <3>2. s \in metas[i].obsolete /\ s \notin ObsoleteFrom(metas, i + 1) /\ s \in DOMAIN state /\ state[s] = "Obsolete"
      BY <1>1, <3>1
    <3> QED
      BY <2>1, <3>2
  <2>4. ASSUME NEW s, NeededAt(metas, i, s) PROVE used
    <3>1. s \in metas[i].obsolete /\ s \notin ObsoleteFrom(metas, i + 1)
      BY <2>2, <2>4
    <3>2. s \in DOMAIN state /\ state[s] = "Obsolete"
      BY <2>1, <2>4, <3>1
    <3>3. s \in meta.obsolete \cap DOMAIN acc.state /\ acc.state[s] = "Obsolete"
      BY <1>1, <3>1, <3>2
    <3> QED
      BY <3>3
  <2> QED
    BY <2>3, <2>4
<1> HIDE DEF after, used
<1>6. i \in Kept(metas) <=> ~(~used /\ meta.entries = {})
  BY <1>1, <1>5 DEF Kept
<1>7. DOMAIN after.state = DOMAIN state \ ObsoleteFrom(metas, i)
  BY <1>1, <1>2, <1>3
<1>8. \A s \in DOMAIN after.state : after.state[s] = state[s]
  BY <1>3
<1>9. after.metas = IF i \in Kept(metas) THEN <<meta>> \o acc.metas ELSE acc.metas
  BY <1>3, <1>6
<1> QED
  BY <1>7, <1>8, <1>9 DEF after

LEMMA RetainPass ==
  ASSUME NEW metas \in Seq(Metas)
  PROVE  \E g : Picks(Retained(metas), Filtered(metas).metas, Kept(metas), g)
<1> DEFINE n == Len(metas)
           f == Filtered(metas).metas
           state == Filtered(metas).state
           F == From("remove", f, state)
           keep(i) == Kept(metas) \cap (i..n)
           right(i, acc) == /\ DOMAIN acc.state = DOMAIN state \ ObsoleteFrom(metas, i)
                            /\ \A s \in DOMAIN acc.state : acc.state[s] = state[s]
                            /\ \E g : Picks(acc.metas, f, keep(i), g)
           T == {i \in 1..(n + 1) : right(i, F[i])}
<1>0. /\ n \in Nat /\ f \in Seq(Metas) /\ Len(f) = n
      /\ StateFrom(metas, 1, state)
      /\ \A i \in 1..n : f[i] = FilterAt(metas, i)
  BY FilterPass
<1>1. Retained(metas) = F[1].metas
  BY PassIsFrom DEF Retained
<1> HIDE DEF f, state, n
<1>2. F[n + 1] = [state |-> state, metas |-> <<>>] /\ \A i \in 1..n : F[i] = ApplyAndGetRemove(f[i], F[i + 1])
  BY <1>0, FromStarts DEF Step
<1> HIDE DEF F
<1>3. n + 1 \in T
  <2>1. ObsoleteFrom(metas, n + 1) = {} /\ keep(n + 1) = {}
    BY <1>0 DEF ObsoleteFrom, n
  <2>2. <<>> \in Seq(Metas) /\ Len(<<>>) = 0 /\ 1..0 = {}
    OBVIOUS
  <2>3. Picks(<<>>, f, {}, [a \in {} |-> a])
    BY <2>2 DEF Picks
  <2>4. F[n + 1].state = state /\ F[n + 1].metas = <<>> /\ n + 1 \in 1..(n + 1)
    BY <1>0, <1>2
  <2>5. \E g : Picks(F[n + 1].metas, f, keep(n + 1), g)
    BY <2>1, <2>3, <2>4
  <2> HIDE DEF keep
  <2>6. right(n + 1, F[n + 1])
    BY <2>1, <2>4, <2>5
  <2> HIDE DEF right
  <2> QED
    BY <2>4, <2>6
<1>4. ASSUME NEW i \in 1..n, i + 1 \in T PROVE i \in T
  <2> DEFINE acc == F[i + 1]
  <2>1. right(i + 1, acc)
    BY <1>4
  <2> HIDE DEF acc
  <2>2. F[i] = ApplyAndGetRemove(f[i], acc) /\ f[i] = FilterAt(metas, i) /\ i \in 1..Len(metas)
    BY <1>0, <1>2 DEF acc, n
  <2>3. /\ DOMAIN F[i].state = DOMAIN state \ ObsoleteFrom(metas, i)
        /\ \A s \in DOMAIN F[i].state : F[i].state[s] = state[s]
        /\ F[i].metas = IF i \in Kept(metas) THEN <<f[i]>> \o acc.metas ELSE acc.metas
    BY <1>0, <2>1, <2>2, RemoveStep
  <2>4. PICK g : Picks(acc.metas, f, keep(i + 1), g)
    BY <2>1
  <2>5. \A k : k \in i..n <=> k = i \/ k \in (i + 1)..n
    BY <1>0
  <2>6. ASSUME i \in Kept(metas) PROVE \E h : Picks(F[i].metas, f, keep(i), h)
    <3>1. keep(i) \ {i} = keep(i + 1) /\ i \in keep(i)
      <4>1. i \notin (i + 1)..n
        BY <1>0
      <4> QED
        BY <2>5, <2>6, <4>1
    <3>2. keep(i) \subseteq 1..n /\ \A k \in keep(i) : i <= k
      BY <1>0
    <3> HIDE DEF keep
    <3>3. Picks(acc.metas, f, keep(i) \ {i}, g) /\ i \in keep(i)
      BY <2>4, <3>1
    <3>4. \E h : Picks(<<f[i]>> \o acc.metas, f, keep(i), h)
      BY <1>0, <3>2, <3>3, PickFirst
    <3> QED
      BY <2>3, <2>6, <3>4
  <2>7. ASSUME i \notin Kept(metas) PROVE \E h : Picks(F[i].metas, f, keep(i), h)
    <3>1. keep(i) = keep(i + 1)
      BY <2>5, <2>7
    <3> HIDE DEF keep
    <3> QED
      BY <2>3, <2>4, <2>7, <3>1
  <2> HIDE DEF keep
  <2>8. right(i, F[i])
    BY <2>3, <2>6, <2>7
  <2>9. i \in 1..(n + 1)
    BY <1>0
  <2> HIDE DEF right
  <2> QED
    BY <2>8, <2>9
<1> HIDE DEF T
<1>5. 1 \in T
  <2>1. \A i \in 1..(n + 1) : i \in T
    BY <1>0, <1>3, <1>4, Downwards
  <2> QED
    BY <1>0, <2>1
<1>6. PICK g : Picks(F[1].metas, f, keep(1), g)
  BY <1>5 DEF T
<1>7. keep(1) = Kept(metas)
  BY DEF Kept, n
<1> HIDE DEF keep
<1> QED
  BY <1>1, <1>6, <1>7 DEF f


-----------------------------------------------------------------------------
(* The passes compute what SstFilter says *)

Increasing(metas) == \A i, j \in 1..Len(metas) : i < j => metas[i].seq < metas[j].seq

LEMMA SeqOrder ==
  ASSUME NEW metas \in Seq(Metas), Increasing(metas), NEW i \in 1..Len(metas), NEW j \in 1..Len(metas)
  PROVE  /\ metas[i].seq < metas[j].seq <=> i < j
         /\ metas[i].seq \in Nat /\ metas[j].seq \in Nat /\ Len(metas) \in Nat
<1>0. metas[i] \in Metas /\ metas[j] \in Metas
  OBVIOUS
<1>1. Len(metas) \in Nat /\ metas[i].seq \in Nat /\ metas[j].seq \in Nat
  BY <1>0 DEF Metas
<1>2. (i < j => metas[i].seq < metas[j].seq) /\ (j < i => metas[j].seq < metas[i].seq)
  BY DEF Increasing
<1>3. i < j \/ j < i \/ i = j
  BY <1>1
<1> QED
  BY <1>1, <1>2, <1>3

LEMMA FilterIsFilter ==
  ASSUME NEW metas \in Seq(Metas), Increasing(metas)
  PROVE  {AsRecord(FilterAt(metas, i)) : i \in 1..Len(metas)} = Spec0!Filter(AsSet(metas))
<1> DEFINE R == AsSet(metas)
           kept(m) == [m EXCEPT !.live = {s \in m.live : \A n \in R : n.seq > m.seq => s \notin n.live \cup n.obsolete}]
<1>1. R = {AsRecord(metas[i]) : i \in 1..Len(metas)}
  BY DEF AsSet
<1>2. Spec0!Filter(R) = {kept(m) : m \in R}
  BY DEF Spec0!Filter
<1> HIDE DEF R
<1>3. ASSUME NEW i \in 1..Len(metas) PROVE kept(AsRecord(metas[i])) = AsRecord(FilterAt(metas, i))
  <2> DEFINE m == AsRecord(metas[i])
             live == {s \in m.live : \A n \in R : n.seq > m.seq => s \notin n.live \cup n.obsolete}
  <2>1. ASSUME NEW s \in metas[i].entries
        PROVE  (\A n \in R : n.seq > m.seq => s \notin n.live \cup n.obsolete) <=> s \notin HiddenAt(metas, i)
    <3>1. \A j \in 1..Len(metas) : metas[j].seq > metas[i].seq <=> j \in (i + 1)..Len(metas)
      <4> SUFFICES ASSUME NEW j \in 1..Len(metas)
                   PROVE  metas[j].seq > metas[i].seq <=> j \in (i + 1)..Len(metas)
        OBVIOUS
      <4>1. metas[i].seq < metas[j].seq <=> i < j
        BY SeqOrder
      <4>2. metas[i].seq \in Nat /\ metas[j].seq \in Nat /\ Len(metas) \in Nat
        BY SeqOrder
      <4> QED
        BY <4>1, <4>2
    <3>2. \A j \in 1..Len(metas) : /\ AsRecord(metas[j]).seq = metas[j].seq
                                   /\ AsRecord(metas[j]).live \cup AsRecord(metas[j]).obsolete = Hides(metas[j])
      BY DEF AsRecord, Hides
    <3>3. (\A n \in R : n.seq > m.seq => s \notin n.live \cup n.obsolete)
            <=> \A j \in 1..Len(metas) : metas[j].seq > metas[i].seq => s \notin Hides(metas[j])
      BY <1>1, <3>2
    <3>4. \A j \in (i + 1)..Len(metas) : j \in 1..Len(metas)
      OBVIOUS
    <3> QED
      BY <3>1, <3>3, <3>4 DEF HiddenAt
  <2>2. m.live = metas[i].entries
    BY DEF AsRecord
  <2>3. live = metas[i].entries \ HiddenAt(metas, i)
    BY <2>1, <2>2
  <2>4. kept(m) = [m EXCEPT !.live = live]
    OBVIOUS
  <2> HIDE DEF live
  <2>5. [m EXCEPT !.live = live] = [seq |-> metas[i].seq, ssts |-> [s \in Lists(metas[i]) |-> 0],
                                    live |-> live, obsolete |-> metas[i].obsolete]
    BY DEF AsRecord, Lists
  <2>6. AsRecord(FilterAt(metas, i)) = [seq |-> metas[i].seq, ssts |-> [s \in Lists(metas[i]) |-> 0],
                                        live |-> metas[i].entries \ HiddenAt(metas, i),
                                        obsolete |-> metas[i].obsolete]
    BY FilterAtType DEF AsRecord, Lists
  <2> HIDE DEF m, kept
  <2>7. kept(m) = AsRecord(FilterAt(metas, i))
    BY <2>3, <2>4, <2>5, <2>6
  <2> QED
    BY <2>7 DEF m
<1> HIDE DEF kept
<1>4. {kept(m) : m \in R} = {AsRecord(FilterAt(metas, i)) : i \in 1..Len(metas)}
  BY <1>1, <1>3
<1> QED
  BY <1>2, <1>4 DEF R

LEMMA KeptIsNotRemovable ==
  ASSUME NEW metas \in Seq(Metas), Increasing(metas), NEW i \in 1..Len(metas)
  PROVE  i \in Kept(metas) <=> ~Spec0!Removable(Spec0!Filter(AsSet(metas)), AsRecord(FilterAt(metas, i)))
<1> DEFINE R == Spec0!Filter(AsSet(metas))
           f(j) == FilterAt(metas, j)
           m == AsRecord(f(i))
<1>1. R = {AsRecord(f(j)) : j \in 1..Len(metas)}
  BY FilterIsFilter
<1> HIDE DEF R
<1>2. \A j \in 1..Len(metas) :
        /\ AsRecord(f(j)).seq = metas[j].seq /\ AsRecord(f(j)).live = f(j).entries
        /\ AsRecord(f(j)).obsolete = metas[j].obsolete /\ DOMAIN AsRecord(f(j)).ssts = Lists(metas[j])
  BY FilterAtType DEF AsRecord, Lists
<1>3. ASSUME NEW j \in 1..Len(metas)
      PROVE  /\ metas[j].seq > metas[i].seq <=> j \in (i + 1)..Len(metas)
             /\ metas[j].seq >= metas[i].seq <=> j \in i..Len(metas)
             /\ metas[j].seq < metas[i].seq <=> j \in 1..(i - 1)
  <2>1. (metas[i].seq < metas[j].seq <=> i < j) /\ (metas[j].seq < metas[i].seq <=> j < i)
    BY SeqOrder
  <2>2. metas[i].seq \in Nat /\ metas[j].seq \in Nat /\ Len(metas) \in Nat
    BY SeqOrder
  <2> QED
    BY <2>1, <2>2
<1>4. \A j : j \in i..Len(metas) \/ j \in 1..(i - 1) => j \in 1..Len(metas)
  OBVIOUS
<1> HIDE DEF m, f
<1>5. ASSUME NEW s \in metas[i].obsolete PROVE Spec0!Needed(R, m, s) <=> NeededAt(metas, i, s)
  <2>1. (\A n \in R : n.seq > m.seq => s \notin n.obsolete) <=> \A j \in (i + 1)..Len(metas) : s \notin metas[j].obsolete
    <3>1. (\A n \in R : n.seq > m.seq => s \notin n.obsolete)
            <=> \A j \in 1..Len(metas) : metas[j].seq > metas[i].seq => s \notin metas[j].obsolete
      BY <1>1, <1>2 DEF m
    <3>2. \A j \in (i + 1)..Len(metas) : j \in 1..Len(metas)
      OBVIOUS
    <3> QED
      BY <1>3, <3>1, <3>2
  <2>2. (\A n \in R : n.seq >= m.seq => s \notin n.live) <=> \A j \in i..Len(metas) : s \notin FilterAt(metas, j).entries
    <3>1. (\A n \in R : n.seq >= m.seq => s \notin n.live)
            <=> \A j \in 1..Len(metas) : metas[j].seq >= metas[i].seq => s \notin f(j).entries
      BY <1>1, <1>2 DEF m
    <3> QED
      BY <1>3, <1>4, <3>1 DEF f
  <2>3. (\E h \in R : h.seq < m.seq /\ s \in DOMAIN h.ssts) <=> \E j \in 1..(i - 1) : s \in Lists(metas[j])
    <3>1. (\E h \in R : h.seq < m.seq /\ s \in DOMAIN h.ssts)
            <=> \E j \in 1..Len(metas) : metas[j].seq < metas[i].seq /\ s \in Lists(metas[j])
      BY <1>1, <1>2 DEF m
    <3> QED
      BY <1>3, <1>4, <3>1
  <2> QED
    BY <2>1, <2>2, <2>3 DEF Spec0!Needed, NeededAt
<1>6. m.live = f(i).entries /\ m.obsolete = metas[i].obsolete
  BY <1>2 DEF m
<1>7. \A s : NeededAt(metas, i, s) => s \in metas[i].obsolete
  BY DEF NeededAt
<1>8. i \in Kept(metas) <=> ~Spec0!Removable(R, m)
  BY <1>5, <1>6, <1>7 DEF Kept, Spec0!Removable, f
<1> QED
  BY <1>8 DEF R, m, f

LEMMA PassesAreFilter ==
  ASSUME NEW metas \in Seq(Metas), Increasing(metas)
  PROVE  LET filtered == Spec0!Filter(AsSet(metas))
         IN  /\ AsSet(Loaded(metas)) = filtered
             /\ AsSet(Retained(metas)) = {m \in filtered : ~Spec0!Removable(filtered, m)}
<1> DEFINE R == Spec0!Filter(AsSet(metas))
           f == Filtered(metas).metas
           r == Retained(metas)
<1>1. R = {AsRecord(FilterAt(metas, i)) : i \in 1..Len(metas)}
  BY FilterIsFilter
<1>2. f \in Seq(Metas) /\ Len(f) = Len(metas) /\ \A i \in 1..Len(metas) : f[i] = FilterAt(metas, i)
  BY FilterPass
<1>3. PICK g : Picks(r, f, Kept(metas), g)
  BY RetainPass
<1>4. Loaded(metas) = f
  BY DEF Loaded, Filtered
<1> HIDE DEF f, r
<1>5. AsSet(f) = R
  <2>1. DOMAIN f = 1..Len(metas)
    BY <1>2
  <2> QED
    BY <1>1, <1>2, <2>1 DEF AsSet
<1>6. DOMAIN r = 1..Len(r) /\ Kept(metas) \subseteq 1..Len(metas)
  BY <1>3 DEF Picks, Kept
<1>7. \A a \in 1..Len(r) : g[a] \in Kept(metas) /\ r[a] = FilterAt(metas, g[a])
  BY <1>2, <1>3, <1>6 DEF Picks
<1>8. AsSet(r) = {AsRecord(FilterAt(metas, i)) : i \in Kept(metas)}
  <2>1. \A i \in Kept(metas) : \E a \in 1..Len(r) : g[a] = i
    BY <1>3 DEF Picks
  <2> QED
    BY <1>6, <1>7, <2>1 DEF AsSet
<1>9. \A i \in 1..Len(metas) : i \in Kept(metas) <=> ~Spec0!Removable(R, AsRecord(FilterAt(metas, i)))
  BY KeptIsNotRemovable
<1>10. {AsRecord(FilterAt(metas, i)) : i \in Kept(metas)} = {m \in R : ~Spec0!Removable(R, m)}
  <2> HIDE DEF R
  <2> QED
    BY <1>1, <1>6, <1>9
<1> QED
  BY <1>4, <1>5, <1>8, <1>10 DEF r


-----------------------------------------------------------------------------
(* The invariant: filtered commit by commit, the meta files offer what a reload would offer *)

\* Sequence metas as the files on disk list it.
DiskOf(metas) == [i \in DOMAIN metas |-> OnDisk(metas[i])]
Entries(metas) == UNION {metas[i].entries : i \in 1..Len(metas)}
\* What is on offer is what no newer file lists or declares obsolete.
Tight(metas) == \A i \in 1..Len(metas) : metas[i].entries = Lists(metas[i]) \ HiddenAt(DiskOf(metas), i)
FilterInv ==
  /\ seq \in Nat
  /\ meta_files \in Seq(Metas)
  /\ Increasing(meta_files)
  /\ \A i \in 1..Len(meta_files) : meta_files[i].seq <= seq
  /\ Tight(meta_files)
  /\ alive = Entries(meta_files)

\* The first pass will make metas Tight.
Ready(metas) ==
  \A i \in 1..Len(metas) : LET hidden == HiddenAt(DiskOf(metas), i)
                           IN  /\ Lists(metas[i]) \ hidden \subseteq metas[i].entries
                               /\ metas[i].entries \cap hidden \subseteq HiddenAt(metas, i)

LEMMA DiskType ==
  ASSUME NEW metas \in Seq(Metas)
  PROVE  /\ DiskOf(metas) \in Seq(Metas) /\ Len(DiskOf(metas)) = Len(metas)
         /\ \A i \in 1..Len(metas) :
              LET file == DiskOf(metas)[i]
              IN  /\ file.seq = metas[i].seq /\ file.obsolete = metas[i].obsolete /\ file.entries = Lists(metas[i])
                  /\ Lists(file) = Lists(metas[i])
                  /\ Hides(file) = Lists(metas[i]) \cup metas[i].obsolete
                  /\ Hides(metas[i]) \subseteq Hides(file)
<1>0. Len(metas) \in Nat /\ DOMAIN metas = 1..Len(metas)
  OBVIOUS
<1>1. \A i \in 1..Len(metas) : metas[i] \in Metas
  OBVIOUS
<1>2. ASSUME NEW i \in 1..Len(metas)
      PROVE  /\ OnDisk(metas[i]) \in Metas
             /\ OnDisk(metas[i]) = [seq |-> metas[i].seq, entries |-> Lists(metas[i]), obsolete_entries |-> {},
                                    obsolete |-> metas[i].obsolete]
  BY <1>1 DEF OnDisk, NewMeta, Metas, Lists
<1>3. DiskOf(metas) = [i \in 1..Len(metas) |-> OnDisk(metas[i])]
  BY <1>0 DEF DiskOf
<1>4. DiskOf(metas) \in [1..Len(metas) -> Metas]
  BY <1>2, <1>3
<1>5. DiskOf(metas) \in Seq(Metas) /\ Len(DiskOf(metas)) = Len(metas)
  BY <1>0, <1>4
<1>6. ASSUME NEW i \in 1..Len(metas)
      PROVE  LET file == DiskOf(metas)[i]
             IN  /\ file.seq = metas[i].seq /\ file.obsolete = metas[i].obsolete /\ file.entries = Lists(metas[i])
                 /\ Lists(file) = Lists(metas[i])
                 /\ Hides(file) = Lists(metas[i]) \cup metas[i].obsolete
                 /\ Hides(metas[i]) \subseteq Hides(file)
  <2>1. DiskOf(metas)[i] = OnDisk(metas[i])
    BY <1>3
  <2> DEFINE file == OnDisk(metas[i])
  <2>2. /\ file.seq = metas[i].seq /\ file.obsolete = metas[i].obsolete /\ file.entries = Lists(metas[i])
        /\ file.obsolete_entries = {}
    <3>1. file = [seq |-> metas[i].seq, entries |-> Lists(metas[i]), obsolete_entries |-> {},
                  obsolete |-> metas[i].obsolete]
      BY <1>2
    <3> HIDE DEF file
    <3> QED
      BY <3>1
  <2> HIDE DEF file
  <2>3. Lists(file) = file.entries /\ Hides(file) = file.entries \cup file.obsolete
    BY <2>2 DEF Lists, Hides
  <2>4. Hides(metas[i]) \subseteq Lists(metas[i]) \cup metas[i].obsolete
    BY DEF Lists, Hides
  <2> QED
    BY <2>1, <2>2, <2>3, <2>4 DEF file
<1> QED
  BY <1>5, <1>6

LEMMA HiddenOnDisk ==
  ASSUME NEW metas \in Seq(Metas), NEW i
  PROVE  HiddenAt(DiskOf(metas), i) = UNION {Hides(DiskOf(metas)[j]) : j \in (i + 1)..Len(metas)}
BY DiskType DEF HiddenAt

LEMMA HiddenLess ==
  ASSUME NEW metas \in Seq(Metas), NEW i \in 1..Len(metas)
  PROVE  HiddenAt(metas, i) \subseteq HiddenAt(DiskOf(metas), i)
<1>1. \A j \in (i + 1)..Len(metas) : j \in 1..Len(metas)
  OBVIOUS
<1>2. \A j \in (i + 1)..Len(metas) : Hides(metas[j]) \subseteq Hides(DiskOf(metas)[j])
  BY <1>1, DiskType
<1>3. HiddenAt(DiskOf(metas), i) = UNION {Hides(DiskOf(metas)[j]) : j \in (i + 1)..Len(metas)}
  BY HiddenOnDisk
<1> QED
  BY <1>2, <1>3 DEF HiddenAt

\* The first pass makes a sequence Tight.
LEMMA FilterTightens ==
  ASSUME NEW metas \in Seq(Metas), Ready(metas), NEW i \in 1..Len(metas)
  PROVE  FilterAt(metas, i).entries = Lists(metas[i]) \ HiddenAt(DiskOf(metas), i)
<1>1. FilterAt(metas, i).entries = metas[i].entries \ HiddenAt(metas, i)
  BY FilterAtType
<1>2. HiddenAt(metas, i) \subseteq HiddenAt(DiskOf(metas), i)
  BY HiddenLess
<1>3. metas[i].entries \subseteq Lists(metas[i])
  BY DEF Lists
<1> QED
  BY <1>1, <1>2, <1>3 DEF Ready

\* What hides an SST file of an older meta file is kept, or something kept does it too.
LEMMA KeptHides ==
  ASSUME NEW metas \in Seq(Metas), Ready(metas), NEW i \in 1..Len(metas), NEW s \in Lists(metas[i]),
         s \in HiddenAt(DiskOf(metas), i)
  PROVE  \E k \in Kept(metas) : k > i /\ s \in Hides(DiskOf(metas)[k])
<1> DEFINE D == DiskOf(metas)
<1>0. /\ Len(metas) \in Nat /\ D \in Seq(Metas) /\ Len(D) = Len(metas) /\ i \in 0..Len(D)
      /\ \A j \in 1..Len(metas) : Hides(D[j]) = Lists(metas[j]) \cup metas[j].obsolete
  BY DiskType
<1> HIDE DEF D
<1>1. PICK k \in (i + 1)..Len(D) : Latest(D, s, k)
  BY <1>0, LatestExists DEF D
<1>2. k \in 1..Len(metas) /\ k > i /\ s \in Hides(D[k]) /\ s \notin HiddenAt(D, k)
  BY <1>0, <1>1 DEF Latest
<1>3. \A n \in (k + 1)..Len(metas) : s \notin Hides(D[n]) /\ n \in 1..Len(metas)
  BY <1>0, <1>2 DEF HiddenAt
<1>4. \A n \in 1..Len(metas) : s \in FilterAt(metas, n).entries <=> s \in Lists(metas[n]) /\ s \notin HiddenAt(D, n)
  BY FilterTightens DEF D
<1>5. CASE s \in Lists(metas[k])
  <2>1. s \in FilterAt(metas, k).entries
    BY <1>2, <1>4, <1>5
  <2> QED
    BY <1>2, <2>1 DEF Kept, D
<1>6. CASE s \notin Lists(metas[k])
  <2>1. s \in metas[k].obsolete
    BY <1>0, <1>2, <1>6
  <2>2. \A n \in (k + 1)..Len(metas) : s \notin metas[n].obsolete /\ s \notin Lists(metas[n])
    BY <1>0, <1>3
  <2>3. \A n \in k..Len(metas) : s \notin FilterAt(metas, n).entries
    <3> SUFFICES ASSUME NEW n \in k..Len(metas), s \in Lists(metas[n]), n \in 1..Len(metas) PROVE FALSE
      BY <1>0, <1>2, <1>4
    <3>1. n = k \/ n \in (k + 1)..Len(metas)
      BY <1>0, <1>2
    <3> QED
      BY <1>6, <2>2, <3>1
  <2>4. i \in 1..(k - 1)
    BY <1>0, <1>2
  <2>5. NeededAt(metas, k, s)
    BY <2>1, <2>2, <2>3, <2>4 DEF NeededAt
  <2> QED
    BY <1>2, <2>5 DEF Kept, D
<1> QED
  BY <1>5, <1>6


LEMMA RetainKeeps ==
  ASSUME NEW metas \in Seq(Metas), Increasing(metas), Ready(metas)
  PROVE  LET r == Retained(metas)
         IN  /\ r \in Seq(Metas) /\ Increasing(r) /\ Tight(r)
             /\ \A a \in 1..Len(r) : \E i \in 1..Len(metas) : r[a].seq = metas[i].seq
             /\ Entries(r) = UNION {metas[i].entries \ HiddenAt(metas, i) : i \in 1..Len(metas)}
<1> DEFINE r == Retained(metas)
           D == DiskOf(metas)
           K == Kept(metas)
<1>1. PICK g : Picks(r, Filtered(metas).metas, K, g)
  BY RetainPass
<1> HIDE DEF r
<1>2. /\ r \in Seq(Metas) /\ Len(r) \in Nat /\ DOMAIN r = 1..Len(r) /\ K \subseteq 1..Len(metas)
      /\ \A a \in 1..Len(r) : g[a] \in K
      /\ \A a, b \in 1..Len(r) : a < b => g[a] < g[b]
      /\ \A i \in K : \E a \in 1..Len(r) : g[a] = i
  <2>1. K \subseteq 1..Len(metas)
    BY DEF Kept
  <2> HIDE DEF K
  <2>2. /\ r \in Seq(Metas) /\ g \in [1..Len(r) -> K]
        /\ \A a, b \in 1..Len(r) : a < b => g[a] < g[b]
        /\ \A i \in K : \E a \in 1..Len(r) : g[a] = i
    BY <1>1 DEF Picks
  <2>3. Len(r) \in Nat /\ DOMAIN r = 1..Len(r)
    BY <2>2
  <2>4. \A a \in 1..Len(r) : g[a] \in K
    BY <2>2
  <2> QED
    BY <2>1, <2>2, <2>3, <2>4
<1>3. \A a \in 1..Len(r) : r[a] = FilterAt(metas, g[a])
  BY <1>1, <1>2, FilterPass DEF Picks
<1> HIDE DEF K
<1>4. \A a \in 1..Len(r) :
        /\ r[a].seq = metas[g[a]].seq /\ r[a].obsolete = metas[g[a]].obsolete
        /\ Lists(r[a]) = Lists(metas[g[a]])
        /\ r[a].entries = metas[g[a]].entries \ HiddenAt(metas, g[a])
        /\ r[a].entries = Lists(metas[g[a]]) \ HiddenAt(D, g[a])
  <2> SUFFICES ASSUME NEW i \in 1..Len(metas)
               PROVE  LET m == FilterAt(metas, i)
                      IN  /\ m.seq = metas[i].seq /\ m.obsolete = metas[i].obsolete /\ Lists(m) = Lists(metas[i])
                          /\ m.entries = metas[i].entries \ HiddenAt(metas, i)
                          /\ m.entries = Lists(metas[i]) \ HiddenAt(D, i)
    BY <1>2, <1>3
  <2> QED
    BY FilterAtType, FilterTightens
<1>5. Increasing(r)
  <2> SUFFICES ASSUME NEW a \in 1..Len(r), NEW b \in 1..Len(r), a < b PROVE r[a].seq < r[b].seq
    BY DEF Increasing
  <2>1. g[a] \in 1..Len(metas) /\ g[b] \in 1..Len(metas) /\ g[a] < g[b]
    BY <1>2
  <2> QED
    BY <1>4, <2>1 DEF Increasing
<1>6. \A b \in 1..Len(r) : Hides(DiskOf(r)[b]) = Hides(D[g[b]])
  <2>1. \A b \in 1..Len(r) : Hides(DiskOf(r)[b]) = Lists(r[b]) \cup r[b].obsolete
    BY <1>2, DiskType
  <2>2. \A b \in 1..Len(r) : Hides(D[g[b]]) = Lists(metas[g[b]]) \cup metas[g[b]].obsolete
    BY <1>2, DiskType
  <2> QED
    BY <1>4, <2>1, <2>2
<1>7. ASSUME NEW a \in 1..Len(r), NEW s \in Lists(metas[g[a]])
      PROVE  s \in HiddenAt(DiskOf(r), a) <=> s \in HiddenAt(D, g[a])
  <2>1. /\ s \in HiddenAt(DiskOf(r), a) <=> \E b \in (a + 1)..Len(r) : s \in Hides(DiskOf(r)[b])
        /\ s \in HiddenAt(D, g[a]) <=> \E k \in (g[a] + 1)..Len(metas) : s \in Hides(D[k])
    BY <1>2, HiddenOnDisk
  <2>2. ASSUME NEW b \in (a + 1)..Len(r), s \in Hides(DiskOf(r)[b]) PROVE s \in HiddenAt(D, g[a])
    <3>1. b \in 1..Len(r) /\ a < b
      BY <1>2
    <3>2. g[a] < g[b] /\ g[a] \in 1..Len(metas) /\ g[b] \in 1..Len(metas)
      BY <1>2, <3>1
    <3>3. g[b] \in (g[a] + 1)..Len(metas)
      BY <3>2
    <3> QED
      BY <1>6, <2>1, <2>2, <3>1, <3>3
  <2>3. ASSUME s \in HiddenAt(D, g[a]) PROVE s \in HiddenAt(DiskOf(r), a)
    <3>1. PICK k \in K : k > g[a] /\ s \in Hides(D[k])
      BY <1>2, <2>3, KeptHides DEF K
    <3>2. PICK b \in 1..Len(r) : g[b] = k
      BY <1>2
    <3>3. b > a
      <4>1. g[a] \in 1..Len(metas) /\ g[b] \in 1..Len(metas)
        BY <1>2
      <4>2. b < a => g[b] < g[a]
        BY <1>2
      <4> QED
        BY <3>1, <3>2, <4>1, <4>2
    <3>4. b \in (a + 1)..Len(r)
      BY <1>2, <3>3
    <3> QED
      BY <1>6, <2>1, <3>1, <3>2, <3>4
  <2> QED
    BY <2>1, <2>2, <2>3
<1>8. Tight(r)
  <2> SUFFICES ASSUME NEW a \in 1..Len(r) PROVE r[a].entries = Lists(r[a]) \ HiddenAt(DiskOf(r), a)
    BY DEF Tight
  <2> QED
    BY <1>4, <1>7
<1>9. ASSUME NEW a \in 1..Len(r) PROVE \E i \in 1..Len(metas) : r[a].seq = metas[i].seq
  BY <1>2, <1>4
<1>10. Entries(r) = UNION {metas[i].entries \ HiddenAt(metas, i) : i \in 1..Len(metas)}
  <2>1. ASSUME NEW a \in 1..Len(r) PROVE r[a].entries = metas[g[a]].entries \ HiddenAt(metas, g[a])
    BY <1>4
  <2>2. ASSUME NEW i \in 1..Len(metas), NEW s \in metas[i].entries \ HiddenAt(metas, i) PROVE i \in K
    BY FilterAtType DEF K, Kept
  <2>3. ASSUME NEW s, s \in Entries(r) PROVE \E i \in 1..Len(metas) : s \in metas[i].entries \ HiddenAt(metas, i)
    <3>1. PICK a \in 1..Len(r) : s \in r[a].entries
      BY <2>3 DEF Entries
    <3>2. g[a] \in 1..Len(metas)
      BY <1>2
    <3> QED
      BY <2>1, <3>1, <3>2
  <2>4. ASSUME NEW i \in 1..Len(metas), NEW s \in metas[i].entries \ HiddenAt(metas, i) PROVE s \in Entries(r)
    <3>1. PICK a \in 1..Len(r) : g[a] = i
      BY <1>2, <2>2
    <3> QED
      BY <2>1, <3>1 DEF Entries
  <2> QED
    BY <2>3, <2>4
<1> QED
  BY <1>2, <1>5, <1>8, <1>9, <1>10 DEF r

\* What a filtered sequence offers, it offers once.
LEMMA TightOffers ==
  ASSUME NEW metas \in Seq(Metas), Tight(metas), NEW others, DOMAIN others = 1..Len(metas),
         \A i \in 1..Len(metas) : others[i].entries = metas[i].entries
  PROVE  Offers(others, Entries(metas))
<1>1. ASSUME NEW s \in Entries(metas) PROVE Cardinality({i \in DOMAIN others : s \in others[i].entries}) = 1
  <2>1. PICK i \in 1..Len(metas) : s \in metas[i].entries
    BY DEF Entries
  <2>2. ASSUME NEW j \in 1..Len(metas), NEW k \in (j + 1)..Len(metas), s \in metas[j].entries, s \in metas[k].entries
        PROVE  FALSE
    <3>1. k \in 1..Len(metas)
      OBVIOUS
    <3>2. s \in Hides(DiskOf(metas)[k])
      BY <2>2, <3>1, DiskType DEF Hides
    <3>3. s \in HiddenAt(DiskOf(metas), j)
      BY <3>2, HiddenOnDisk
    <3> QED
      BY <2>2, <3>3 DEF Tight
  <2>3. ASSUME NEW j \in 1..Len(metas), s \in metas[j].entries PROVE j = i
    <3>1. Len(metas) \in Nat
      OBVIOUS
    <3>2. j < i => i \in (j + 1)..Len(metas)
      BY <3>1
    <3>3. i < j => j \in (i + 1)..Len(metas)
      BY <3>1
    <3>4. ~(j < i) /\ ~(i < j)
      BY <2>1, <2>2, <2>3, <3>2, <3>3
    <3> QED
      BY <3>4
  <2>4. {j \in DOMAIN others : s \in others[j].entries} = {i}
    BY <2>1, <2>3
  <2> QED
    BY <2>4, FS_Singleton
<1>2. \A i \in DOMAIN others : others[i].entries \subseteq Entries(metas)
  BY DEF Entries
<1> QED
  BY <1>1, <1>2 DEF Offers


-----------------------------------------------------------------------------
(* The steps *)

LEMMA TightIsReady ==
  ASSUME NEW metas \in Seq(Metas), Tight(metas)
  PROVE  Ready(metas) /\ \A i \in 1..Len(metas) : metas[i].entries \cap HiddenAt(metas, i) = {}
BY HiddenLess DEF Tight, Ready

LEMMA Appended ==
  ASSUME NEW metas \in Seq(Metas), Tight(metas), NEW meta \in Metas, meta.obsolete_entries = {},
         Increasing(metas), \A i \in 1..Len(metas) : metas[i].seq < meta.seq
  PROVE  LET all == Append(metas, meta)
         IN  /\ all \in Seq(Metas) /\ Len(all) = Len(metas) + 1
             /\ Increasing(all) /\ Ready(all)
             /\ \A i \in 1..Len(all) : all[i].seq <= meta.seq
             /\ UNION {all[i].entries \ HiddenAt(all, i) : i \in 1..Len(all)}
                  = (Entries(metas) \ Hides(meta)) \cup meta.entries
<1> DEFINE n == Len(metas)
           all == Append(metas, meta)
<1>0. n \in Nat /\ meta.seq \in Nat
  BY DEF Metas
<1>1. /\ all \in Seq(Metas) /\ Len(all) = n + 1 /\ all[n + 1] = meta
      /\ \A i \in 1..n : all[i] = metas[i]
  OBVIOUS
<1> HIDE DEF all, n
<1>2. \A i \in 1..(n + 1) : i = n + 1 \/ i \in 1..n
  BY <1>0
<1>3. /\ \A i \in 1..n : \A j : j \in (i + 1)..(n + 1) <=> j = n + 1 \/ j \in (i + 1)..n
      /\ ~\E j : j \in ((n + 1) + 1)..(n + 1)
      /\ \A i \in 1..n : \A j \in (i + 1)..n : j \in 1..n
      /\ n + 1 \in 1..(n + 1) /\ \A i \in 1..n : i \in 1..(n + 1)
  BY <1>0
<1>4. /\ \A i \in 1..n : HiddenAt(all, i) = HiddenAt(metas, i) \cup Hides(meta)
      /\ HiddenAt(all, n + 1) = {}
  BY <1>1, <1>3 DEF HiddenAt, n
<1>5. Lists(meta) = meta.entries
  BY DEF Lists
<1>6. /\ \A j \in 1..n : Hides(DiskOf(all)[j]) = Hides(DiskOf(metas)[j])
      /\ Hides(DiskOf(all)[n + 1]) = Hides(meta)
  <2>1. \A j \in 1..(n + 1) : Hides(DiskOf(all)[j]) = Lists(all[j]) \cup all[j].obsolete
    BY <1>1, DiskType
  <2>2. \A j \in 1..n : Hides(DiskOf(metas)[j]) = Lists(metas[j]) \cup metas[j].obsolete
    BY DiskType DEF n
  <2> QED
    BY <1>1, <1>3, <1>5, <2>1, <2>2 DEF Hides
<1>7. /\ \A i \in 1..n : HiddenAt(DiskOf(all), i) = HiddenAt(DiskOf(metas), i) \cup Hides(meta)
      /\ HiddenAt(DiskOf(all), n + 1) = {}
  <2>1. \A i : HiddenAt(DiskOf(all), i) = UNION {Hides(DiskOf(all)[j]) : j \in (i + 1)..(n + 1)}
    BY <1>1, HiddenOnDisk
  <2>2. \A i : HiddenAt(DiskOf(metas), i) = UNION {Hides(DiskOf(metas)[j]) : j \in (i + 1)..n}
    BY HiddenOnDisk DEF n
  <2>3. HiddenAt(DiskOf(all), n + 1) = {}
    BY <1>3, <2>1
  <2>4. ASSUME NEW i \in 1..n PROVE HiddenAt(DiskOf(all), i) = HiddenAt(DiskOf(metas), i) \cup Hides(meta)
    <3>1. UNION {Hides(DiskOf(all)[j]) : j \in (i + 1)..(n + 1)}
            = (UNION {Hides(DiskOf(all)[j]) : j \in (i + 1)..n}) \cup Hides(DiskOf(all)[n + 1])
      BY <1>3
    <3>2. UNION {Hides(DiskOf(all)[j]) : j \in (i + 1)..n} = UNION {Hides(DiskOf(metas)[j]) : j \in (i + 1)..n}
      BY <1>3, <1>6
    <3> QED
      BY <1>6, <2>1, <2>2, <3>1, <3>2
  <2> QED
    BY <2>3, <2>4
<1>8. /\ \A i \in 1..n : metas[i].entries = Lists(metas[i]) \ HiddenAt(DiskOf(metas), i)
      /\ \A i \in 1..n : metas[i].entries \cap HiddenAt(metas, i) = {}
  BY TightIsReady DEF Tight, n
<1>9. Ready(all)
  <2>1. ASSUME NEW i \in 1..n
        PROVE  LET hidden == HiddenAt(DiskOf(all), i)
               IN  /\ Lists(all[i]) \ hidden \subseteq all[i].entries
                   /\ all[i].entries \cap hidden \subseteq HiddenAt(all, i)
    BY <1>1, <1>4, <1>7, <1>8
  <2>2. LET hidden == HiddenAt(DiskOf(all), n + 1)
        IN  /\ Lists(all[n + 1]) \ hidden \subseteq all[n + 1].entries
            /\ all[n + 1].entries \cap hidden \subseteq HiddenAt(all, n + 1)
    BY <1>1, <1>5, <1>7
  <2> QED
    BY <1>1, <1>2, <2>1, <2>2 DEF Ready
<1>10. Increasing(all) /\ \A i \in 1..Len(all) : all[i].seq <= meta.seq
  <2>1. \A i \in 1..n : all[i].seq = metas[i].seq /\ metas[i].seq < meta.seq /\ metas[i].seq \in Nat
    <3>1. \A i \in 1..n : metas[i] \in Metas
      BY DEF n
    <3> QED
      BY <1>1, <3>1 DEF Metas, n
  <2>2. \A i \in 1..Len(all) : all[i].seq <= meta.seq
    BY <1>0, <1>1, <1>2, <2>1
  <2>3. ASSUME NEW i \in 1..(n + 1), NEW j \in 1..(n + 1), i < j PROVE all[i].seq < all[j].seq
    <3>1. i \in 1..n
      BY <1>0, <2>3
    <3>2. CASE j = n + 1
      BY <1>1, <2>1, <3>1, <3>2
    <3>3. CASE j \in 1..n
      BY <2>1, <2>3, <3>1, <3>3 DEF Increasing, n
    <3> QED
      BY <1>2, <3>2, <3>3
  <2> QED
    BY <1>1, <2>2, <2>3 DEF Increasing
<1>11. UNION {all[i].entries \ HiddenAt(all, i) : i \in 1..Len(all)} = (Entries(metas) \ Hides(meta)) \cup meta.entries
  <2>1. \A i \in 1..n : all[i].entries \ HiddenAt(all, i) = metas[i].entries \ Hides(meta)
    BY <1>1, <1>4, <1>8
  <2>2. all[n + 1].entries \ HiddenAt(all, n + 1) = meta.entries
    BY <1>1, <1>4
  <2>3. UNION {all[i].entries \ HiddenAt(all, i) : i \in 1..Len(all)}
          = (UNION {all[i].entries \ HiddenAt(all, i) : i \in 1..n}) \cup (all[n + 1].entries \ HiddenAt(all, n + 1))
    BY <1>1, <1>2, <1>3
  <2>4. UNION {all[i].entries \ HiddenAt(all, i) : i \in 1..n} = UNION {metas[i].entries \ Hides(meta) : i \in 1..n}
    BY <2>1
  <2>5. UNION {metas[i].entries \ Hides(meta) : i \in 1..n} = Entries(metas) \ Hides(meta)
    BY DEF Entries, n
  <2> QED
    BY <2>2, <2>3, <2>4, <2>5
<1> QED
  BY <1>1, <1>9, <1>10, <1>11 DEF all, n


\* A commit of a meta file that lists the SST files listed and declares those in obsoleted merged away.
LEMMA CommitKeeps ==
  ASSUME FilterInv, NEW number \in Nat, number > seq, NEW listed \in SUBSET Nat, NEW obsoleted \in SUBSET Nat,
         Commit(NewMeta(number, listed, obsoleted), obsoleted),
         alive' = (alive \ (listed \cup obsoleted)) \cup listed
  PROVE  FilterInv'
<1> DEFINE meta == NewMeta(number, listed, obsoleted)
           all == Append(meta_files, meta)
           r == Retained(all)
<1>1. /\ meta \in Metas /\ meta.obsolete_entries = {} /\ meta.seq = number /\ meta.entries = listed
      /\ Hides(meta) = listed \cup obsoleted
  BY DEF NewMeta, Metas, Hides
<1>2. meta_files' = r /\ seq' \in {number, number + 1}
  BY <1>1 DEF Commit
<1> HIDE DEF meta
<1>3. \A i \in 1..Len(meta_files) : meta_files[i].seq < meta.seq
  <2> SUFFICES ASSUME NEW i \in 1..Len(meta_files) PROVE meta_files[i].seq < meta.seq
    OBVIOUS
  <2>1. meta_files[i] \in Metas
    BY DEF FilterInv
  <2>2. meta_files[i].seq \in Nat /\ meta_files[i].seq <= seq /\ seq \in Nat
    BY <2>1 DEF FilterInv, Metas
  <2> QED
    BY <1>1, <2>2
<1>4. /\ all \in Seq(Metas) /\ Increasing(all) /\ Ready(all)
      /\ \A i \in 1..Len(all) : all[i].seq <= number
      /\ UNION {all[i].entries \ HiddenAt(all, i) : i \in 1..Len(all)} = (alive \ (listed \cup obsoleted)) \cup listed
  BY <1>1, <1>3, Appended DEF FilterInv
<1> HIDE DEF all
<1>5. /\ r \in Seq(Metas) /\ Increasing(r) /\ Tight(r)
      /\ \A a \in 1..Len(r) : \E i \in 1..Len(all) : r[a].seq = all[i].seq
      /\ Entries(r) = UNION {all[i].entries \ HiddenAt(all, i) : i \in 1..Len(all)}
  BY <1>4, RetainKeeps
<1> HIDE DEF r
<1>6. \A a \in 1..Len(r) : r[a].seq <= seq'
  <2> SUFFICES ASSUME NEW a \in 1..Len(r) PROVE r[a].seq <= seq'
    OBVIOUS
  <2>1. r[a].seq <= number
    BY <1>4, <1>5
  <2>2. r[a] \in Metas
    BY <1>5
  <2>3. r[a].seq \in Nat
    BY <2>2 DEF Metas
  <2> QED
    BY <1>2, <2>1, <2>3
<1>7. seq' \in Nat
  BY <1>2
<1>8. meta_files' \in Seq(Metas) /\ Increasing(meta_files') /\ Tight(meta_files') /\ alive' = Entries(meta_files')
  BY <1>2, <1>4, <1>5
<1>9. \A i \in 1..Len(meta_files') : meta_files'[i].seq <= seq'
  BY <1>2, <1>6
<1> QED
  BY <1>7, <1>8, <1>9 DEF FilterInv, Increasing, Tight, Entries

LEMMA AliveType == FilterInv => alive \in SUBSET Nat
<1> SUFFICES ASSUME FilterInv PROVE alive \in SUBSET Nat
  OBVIOUS
<1>1. \A i \in 1..Len(meta_files) : meta_files[i] \in Metas
  BY DEF FilterInv
<1>2. \A i \in 1..Len(meta_files) : meta_files[i].entries \in SUBSET Nat
  BY <1>1 DEF Metas
<1> QED
  BY <1>2 DEF FilterInv, Entries

LEMMA BatchStep ==
  ASSUME FilterInv, NEW n \in 1..MaxBatch, Batch(n)
  PROVE  FilterInv'
<1> DEFINE ssts == (seq + 1)..(seq + n)
<1>1. seq \in Nat /\ n \in Nat
  BY BoundsAssumption DEF FilterInv
<1>2. seq + n + 1 \in Nat /\ seq + n + 1 > seq /\ ssts \in SUBSET Nat
  BY <1>1
<1>3. Commit(NewMeta(seq + n + 1, ssts, {}), {}) /\ alive' = alive \cup ssts
  BY DEF Batch
<1> HIDE DEF ssts
<1>4. alive' = (alive \ (ssts \cup {})) \cup ssts
  BY <1>3
<1> QED
  BY <1>2, <1>3, <1>4, CommitKeeps

LEMMA CompactStep ==
  ASSUME FilterInv, NEW merged \in SUBSET alive, NEW moved \in SUBSET (alive \ merged), NEW n \in 1..2,
         Compact(merged, moved, n)
  PROVE  FilterInv'
<1> DEFINE ssts == (seq + 1)..(seq + n)
<1>1. seq \in Nat /\ n \in Nat /\ alive \in SUBSET Nat
  BY AliveType DEF FilterInv
<1>2. seq + n + 1 \in Nat /\ seq + n + 1 > seq /\ ssts \in SUBSET Nat
  BY <1>1
<1>3. Commit(NewMeta(seq + n + 1, ssts \cup moved, merged), merged) /\ alive' = (alive \ merged) \cup ssts
  BY DEF Compact
<1> HIDE DEF ssts
<1>4. alive' = (alive \ ((ssts \cup moved) \cup merged)) \cup (ssts \cup moved)
  BY <1>3
<1>5. ssts \cup moved \in SUBSET Nat /\ merged \in SUBSET Nat
  BY <1>1, <1>2
<1> QED
  BY <1>2, <1>3, <1>4, <1>5, CommitKeeps

LEMMA EmptyBatchStep ==
  ASSUME FilterInv, EmptyBatch
  PROVE  FilterInv'
<1> DEFINE r == Retained(meta_files)
<1>1. Ready(meta_files) /\ \A i \in 1..Len(meta_files) : meta_files[i].entries \cap HiddenAt(meta_files, i) = {}
  BY TightIsReady DEF FilterInv
<1>2. /\ meta_files' = r /\ alive' = alive
      /\ seq \in Nat /\ seq' \in Nat /\ seq <= seq'
  BY DEF EmptyBatch, FilterInv
<1>3. /\ r \in Seq(Metas) /\ Increasing(r) /\ Tight(r)
      /\ \A a \in 1..Len(r) : \E i \in 1..Len(meta_files) : r[a].seq = meta_files[i].seq
      /\ Entries(r) = UNION {meta_files[i].entries \ HiddenAt(meta_files, i) : i \in 1..Len(meta_files)}
  BY <1>1, RetainKeeps DEF FilterInv
<1> HIDE DEF r
<1>4. Entries(r) = alive
  <2>1. \A i \in 1..Len(meta_files) : meta_files[i].entries \ HiddenAt(meta_files, i) = meta_files[i].entries
    BY <1>1
  <2>2. UNION {meta_files[i].entries \ HiddenAt(meta_files, i) : i \in 1..Len(meta_files)} = Entries(meta_files)
    BY <2>1 DEF Entries
  <2> QED
    BY <1>3, <2>2 DEF FilterInv
<1>5. \A a \in 1..Len(r) : r[a].seq <= seq'
  <2> SUFFICES ASSUME NEW a \in 1..Len(r) PROVE r[a].seq <= seq'
    OBVIOUS
  <2>1. r[a].seq <= seq /\ r[a] \in Metas
    BY <1>3 DEF FilterInv
  <2>2. r[a].seq \in Nat
    BY <2>1 DEF Metas
  <2> QED
    BY <1>2, <2>1, <2>2
<1>6. meta_files' \in Seq(Metas) /\ Increasing(meta_files') /\ Tight(meta_files') /\ alive' = Entries(meta_files')
  BY <1>2, <1>3, <1>4
<1>7. \A a \in 1..Len(meta_files') : meta_files'[a].seq <= seq'
  BY <1>2, <1>5
<1> QED
  BY <1>2, <1>6, <1>7 DEF FilterInv, Increasing, Tight, Entries

\* A reload offers what the running database offers, in the same meta files.
LEMMA Reloaded ==
  ASSUME FilterInv
  PROVE  LET loaded == Loaded(Files)
         IN  /\ loaded \in Seq(Metas) /\ Len(loaded) = Len(meta_files)
             /\ \A i \in 1..Len(meta_files) :
                  /\ loaded[i].seq = meta_files[i].seq /\ loaded[i].obsolete = meta_files[i].obsolete
                  /\ Lists(loaded[i]) = Lists(meta_files[i]) /\ loaded[i].entries = meta_files[i].entries
<1> DEFINE D == DiskOf(meta_files)
           loaded == Loaded(Files)
<1>1. D \in Seq(Metas) /\ Len(D) = Len(meta_files)
  BY DiskType DEF FilterInv
<1>2. ASSUME NEW i \in 1..Len(meta_files)
      PROVE  /\ D[i].seq = meta_files[i].seq /\ D[i].obsolete = meta_files[i].obsolete
             /\ D[i].entries = Lists(meta_files[i]) /\ Lists(D[i]) = Lists(meta_files[i])
             /\ meta_files[i].entries = Lists(meta_files[i]) \ HiddenAt(D, i)
  BY DiskType DEF FilterInv, Tight
<1>3. Files = D
  BY DEF Files, DiskOf
<1>4. loaded = Filtered(D).metas
  BY <1>3 DEF Loaded, Filtered
<1> HIDE DEF D, loaded
<1>5. loaded \in Seq(Metas) /\ Len(loaded) = Len(meta_files) /\ \A i \in 1..Len(meta_files) : loaded[i] = FilterAt(D, i)
  BY <1>1, <1>4, FilterPass
<1>6. ASSUME NEW i \in 1..Len(meta_files)
      PROVE  /\ loaded[i].seq = meta_files[i].seq /\ loaded[i].obsolete = meta_files[i].obsolete
             /\ Lists(loaded[i]) = Lists(meta_files[i]) /\ loaded[i].entries = meta_files[i].entries
  BY <1>1, <1>2, <1>5, FilterAtType
<1> QED
  BY <1>5, <1>6 DEF loaded

LEMMA RestartStep ==
  ASSUME FilterInv, Restart
  PROVE  FilterInv'
<1> DEFINE r == Loaded(Files)
<1>1. meta_files' = r /\ seq' = seq /\ alive' = alive
  BY DEF Restart
<1>2. /\ r \in Seq(Metas) /\ Len(r) = Len(meta_files)
      /\ \A i \in 1..Len(meta_files) :
           /\ r[i].seq = meta_files[i].seq /\ r[i].obsolete = meta_files[i].obsolete
           /\ Lists(r[i]) = Lists(meta_files[i]) /\ r[i].entries = meta_files[i].entries
  BY Reloaded
<1> HIDE DEF r
<1>3. Increasing(r) /\ \A i \in 1..Len(r) : r[i].seq <= seq
  BY <1>2 DEF FilterInv, Increasing
<1>4. \A i \in 1..Len(meta_files) : HiddenAt(DiskOf(r), i) = HiddenAt(DiskOf(meta_files), i)
  <2> SUFFICES ASSUME NEW i \in 1..Len(meta_files) PROVE HiddenAt(DiskOf(r), i) = HiddenAt(DiskOf(meta_files), i)
    OBVIOUS
  <2>1. \A j \in (i + 1)..Len(meta_files) : j \in 1..Len(meta_files)
    OBVIOUS
  <2>2. ASSUME NEW j \in 1..Len(meta_files) PROVE Hides(DiskOf(r)[j]) = Hides(DiskOf(meta_files)[j])
    <3>1. Hides(DiskOf(r)[j]) = Lists(r[j]) \cup r[j].obsolete
      BY <1>2, DiskType
    <3>2. Hides(DiskOf(meta_files)[j]) = Lists(meta_files[j]) \cup meta_files[j].obsolete
      BY DiskType DEF FilterInv
    <3> QED
      BY <1>2, <3>1, <3>2
  <2>3. /\ HiddenAt(DiskOf(r), i) = UNION {Hides(DiskOf(r)[j]) : j \in (i + 1)..Len(meta_files)}
        /\ HiddenAt(DiskOf(meta_files), i) = UNION {Hides(DiskOf(meta_files)[j]) : j \in (i + 1)..Len(meta_files)}
    BY <1>2, HiddenOnDisk DEF FilterInv
  <2> QED
    BY <2>1, <2>2, <2>3
<1>5. Tight(r)
  BY <1>2, <1>4 DEF FilterInv, Tight
<1>6. Entries(r) = alive
  BY <1>2 DEF FilterInv, Entries
<1>7. seq \in Nat
  BY DEF FilterInv
<1> QED
  BY <1>1, <1>2, <1>3, <1>5, <1>6, <1>7 DEF FilterInv, Increasing, Tight, Entries


LEMMA FilterInvHolds == Spec => []FilterInv
<1>1. ASSUME Init PROVE FilterInv
  <2>1. <<>> \in Seq(Metas) /\ Len(<<>>) = 0 /\ 1..0 = {}
    OBVIOUS
  <2>2. meta_files = <<>> /\ seq = 0 /\ alive = {}
    BY <1>1 DEF Init
  <2> QED
    BY <2>1, <2>2 DEF FilterInv, Increasing, Tight, Entries
<1>2. ASSUME FilterInv, [Next]_vars PROVE FilterInv'
  <2>1. CASE UNCHANGED vars
    BY <1>2, <2>1 DEF FilterInv, Increasing, Tight, Entries, vars
  <2> QED
    BY <1>2, <2>1, BatchStep, CompactStep, EmptyBatchStep, RestartStep DEF Next
<1> QED
  BY <1>1, <1>2, PTL DEF Spec

-----------------------------------------------------------------------------
(* The theorems *)

\* A restart at any time offers every SST file that was not merged away, once, and no other (apply_filter,
\* apply_and_get_remove: no meta file is dropped that a reload needs).
THEOREM ReloadsOfferAlive == Spec => []ReloadOffersAlive
<1>1. ASSUME FilterInv PROVE ReloadOffersAlive
  <2>1. /\ Loaded(Files) \in Seq(Metas) /\ Len(Loaded(Files)) = Len(meta_files)
        /\ \A i \in 1..Len(meta_files) : Loaded(Files)[i].entries = meta_files[i].entries
    BY <1>1, Reloaded
  <2>2. DOMAIN Loaded(Files) = 1..Len(meta_files)
    BY <2>1
  <2> QED
    BY <1>1, <2>1, <2>2, TightOffers DEF ReloadOffersAlive, FilterInv
<1> QED
  BY <1>1, FilterInvHolds, PTL

\* The running database, which filters commit by commit, offers what a reload would, in the same meta files.
THEOREM RunningMatchesReloads == Spec => []RunningMatchesReload
<1>1. ASSUME FilterInv PROVE RunningMatchesReload
  <2>1. DOMAIN meta_files = 1..Len(meta_files)
    BY <1>1 DEF FilterInv
  <2>2. Offers(meta_files, alive)
    BY <1>1, <2>1, TightOffers DEF FilterInv
  <2>3. \A i \in DOMAIN meta_files : meta_files[i].entries = Loaded(Files)[i].entries
    BY <1>1, <2>1, Reloaded
  <2> QED
    BY <2>2, <2>3 DEF RunningMatchesReload
<1> QED
  BY <1>1, FilterInvHolds, PTL

\* The two passes over the map of states compute what module SstFilter says, for the meta files of the running
\* database and for those on disk.
THEOREM PassesComputeFilter == Spec => []PassesMatchFilter
<1>1. ASSUME FilterInv PROVE PassesMatchFilter
  <2>1. meta_files \in Seq(Metas) /\ Increasing(meta_files)
    BY <1>1 DEF FilterInv
  <2>2. Files = DiskOf(meta_files)
    BY DEF Files, DiskOf
  <2>3. Files \in Seq(Metas) /\ Increasing(Files)
    BY <2>1, <2>2, DiskType DEF Increasing
  <2>4. ASSUME NEW metas \in {meta_files, Files}
        PROVE  LET filtered == Spec0!Filter(AsSet(metas))
               IN  /\ AsSet(Loaded(metas)) = filtered
                   /\ AsSet(Retained(metas)) = {m \in filtered : ~Spec0!Removable(filtered, m)}
    <3>1. metas \in Seq(Metas) /\ Increasing(metas)
      BY <2>1, <2>3
    <3> QED
      BY <3>1, PassesAreFilter
  <2> QED
    BY <2>4 DEF PassesMatchFilter
<1> QED
  BY <1>1, FilterInvHolds, PTL

=============================================================================

-------------------------- MODULE CrdtStateProofs --------------------------
(***************************************************************************)
(* What the operators of CrdtState preserve, for any ids, members, values  *)
(* and documents of any length.                                            *)
(***************************************************************************)
EXTENDS CrdtState, SequenceTheorems, FunctionTheorems, FiniteSetTheorems,
        WellFoundedInduction, TLAPS

----------------------------------------------------------------------------
(* Least members *)

Upto(S, m) == {x \in S : x <= m}

\* A segment of a finite set of numbers is finite, and shrinks with its bound.
LEMMA UptoProperties ==
    ASSUME NEW S \in SUBSET Nat, NEW m \in S
    PROVE  /\ Upto(S, m) \in FiniteSubsetsOf(Nat)
           /\ m \in Upto(S, m)
           /\ \A y \in S : y < m => Upto(S, y) \subseteq Upto(S, m) /\ m \notin Upto(S, y)
<1>1. m \in Nat /\ \A x \in S : x \in Nat OBVIOUS
<1>2. m \in Upto(S, m) BY <1>1 DEF Upto
<1>3. \A x \in Upto(S, m) : x \in 0 .. m BY <1>1 DEF Upto
<1>4. IsFiniteSet(0 .. m) BY <1>1, FS_Interval
<1>5. Upto(S, m) \in FiniteSubsetsOf(Nat)
    <2>1. Upto(S, m) \in SUBSET (0 .. m) /\ Upto(S, m) \in SUBSET Nat
        BY <1>3 DEF Upto
    <2> QED BY <1>4, <2>1, FS_Subset DEF FiniteSubsetsOf
<1>6. ASSUME NEW y \in S, y < m
      PROVE  Upto(S, y) \subseteq Upto(S, m) /\ m \notin Upto(S, y)
    <2>1. m \in Nat /\ y \in Nat BY <1>1
    <2>2. ASSUME NEW x \in Nat, x <= y PROVE x <= m BY ONLY <1>6, <2>1, <2>2
    <2>3. Upto(S, y) \subseteq Upto(S, m) BY <1>1, <2>2 DEF Upto
    <2>4. ~ (m <= y) BY ONLY <1>6, <2>1
    <2> QED BY <2>3, <2>4 DEF Upto
<1> QED BY <1>2, <1>5, <1>6

\* The first match of a loop exists.
LEMMA MinIsLeast ==
    ASSUME NEW S \in SUBSET Nat, S # {}
    PROVE  Min(S) \in S /\ \A x \in S : Min(S) <= x
<1> DEFINE T == {Upto(S, m) : m \in S}
           R == StrictSubsetOrdering(Nat)
<1>1. T \subseteq FiniteSubsetsOf(Nat) BY UptoProperties
<1>2. PICK X \in T : \A Y \in T : ~ (<<Y, X>> \in R)
    <2> HIDE DEF T, R
    <2>1. IsWellFoundedOn(R, FiniteSubsetsOf(Nat))
        BY FS_StrictSubsetOrderingWellFounded DEF R
    <2>2. T # {} BY DEF T
    <2> QED BY <1>1, <2>1, <2>2, WFMin
<1>3. PICK m \in S : X = Upto(S, m) OBVIOUS
<1>4. ASSUME NEW y \in S, y < m PROVE FALSE
    <2>1. Upto(S, y) \in T OBVIOUS
    <2>2. Upto(S, y) \in SUBSET Nat /\ X \in SUBSET Nat BY <1>3 DEF Upto
    <2>3. Upto(S, y) \subseteq X /\ Upto(S, y) # X BY <1>3, <1>4, UptoProperties
    <2>4. <<Upto(S, y), X>> \in R BY <2>2, <2>3 DEF StrictSubsetOrdering
    <2> QED BY <1>2, <2>1, <2>4
<1>5. \A x \in S : m <= x
    <2> HIDE DEF T
    <2> QED BY <1>4
<1> QED BY <1>5 DEF Min

----------------------------------------------------------------------------
(* Loops: a recursive function exists, and what holds from turn to turn    *)
(* holds at the end.                                                       *)

\* A set of turns that holds the first, and with each the next, holds all.
LEMMA EveryTurn ==
    ASSUME NEW N \in Nat, NEW S, 0 \in S, \A n \in 0 .. N - 1 : n \in S => n + 1 \in S
    PROVE  0 .. N \subseteq S
<1> DEFINE T == (0 .. N) \ S
<1>1. SUFFICES ASSUME T # {} PROVE FALSE
    OBVIOUS
<1>2. T \in SUBSET Nat OBVIOUS
<1>3. PICK m \in T : \A n \in T : m <= n
    <2> HIDE DEF T
    <2> QED BY <1>1, <1>2, MinIsLeast
<1>4. m # 0 /\ m - 1 \in 0 .. N - 1 /\ m - 1 \notin T BY <1>3
<1>5. m - 1 \in S /\ (m - 1) + 1 = m BY <1>4
<1> QED BY <1>3, <1>4, <1>5

\* f is what a loop holds after each of its N turns.
IsLoop(f, b, N, step) == f[0] = b /\ \A n \in 1 .. N : f[n] = step[n][f[n - 1]]

\* A loop of N turns over values of A computes a value at each.
LEMMA LoopExists ==
    ASSUME NEW A, NEW b \in A, NEW N \in Nat, NEW step \in [1 .. N -> [A -> A]]
    PROVE  \E f \in [0 .. N -> A] : IsLoop(f, b, N, step)
<1> DEFINE Runs(k, f) == IsLoop(f, b, k, step)
           S == {k \in 0 .. N : \E f \in [0 .. k -> A] : Runs(k, f)}
<1>1. 0 \in S
    <2> DEFINE f == [n \in 0 .. 0 |-> b]
    <2>1. f \in [0 .. 0 -> A] /\ Runs(0, f) BY DEF IsLoop
    <2> HIDE DEF f, Runs
    <2> QED BY <2>1
<1>2. ASSUME NEW k \in 0 .. N - 1, k \in S PROVE k + 1 \in S
    <2>1. PICK f \in [0 .. k -> A] : Runs(k, f) BY <1>2
    <2>2. k \in Nat /\ k + 1 \in 1 .. N /\ k \in 0 .. k BY <1>2
    <2> DEFINE v == step[k + 1][f[k]]
               g == [n \in 0 .. k + 1 |-> IF n = k + 1 THEN v ELSE f[n]]
    <2>3. f[k] \in A /\ v \in A BY <2>1, <2>2
    <2>4. g \in [0 .. k + 1 -> A]
        <3> HIDE DEF v
        <3> QED BY <2>1, <2>2, <2>3
    <2>5. g[k + 1] = v /\ \A n \in 0 .. k : g[n] = f[n]
        <3> HIDE DEF v
        <3> QED BY <2>2
    <2>6. g[0] = b BY <2>1, <2>2, <2>5 DEF IsLoop
    <2>7. ASSUME NEW n \in 1 .. k + 1 PROVE g[n] = step[n][g[n - 1]]
        <3> HIDE DEF g
        <3>1. CASE n = k + 1
            <4>1. n - 1 = k BY <2>2, <3>1
            <4> QED BY <2>2, <2>5, <3>1, <4>1
        <3>2. CASE n # k + 1
            <4>1. n \in 1 .. k /\ n \in 0 .. k /\ n - 1 \in 0 .. k BY <2>2, <3>2
            <4> QED BY <2>1, <2>5, <4>1 DEF IsLoop
        <3> QED BY <3>1, <3>2
    <2> HIDE DEF g
    <2>8. Runs(k + 1, g) BY <2>6, <2>7 DEF IsLoop
    <2> HIDE DEF Runs
    <2> QED BY <2>2, <2>4, <2>8
<1>3. N \in S
    <2> HIDE DEF S
    <2>1. 0 .. N \subseteq S BY <1>1, <1>2, EveryTurn
    <2> QED BY <2>1
<1> QED BY <1>3

\* Two loops that start alike, and turn alike while they are alike, end alike.
LEMMA LoopsAgree ==
    ASSUME NEW N \in Nat, NEW f, NEW g, f[0] = g[0],
           \A n \in 0 .. N - 1 : f[n] = g[n] => f[n + 1] = g[n + 1]
    PROVE  f[N] = g[N]
<1> DEFINE S == {n \in 0 .. N : f[n] = g[n]}
<1>1. 0 \in S OBVIOUS
<1>2. ASSUME NEW n \in 0 .. N - 1, n \in S PROVE n + 1 \in S BY <1>2
<1>3. 0 .. N \subseteq S
    <2> HIDE DEF S
    <2> QED BY <1>1, <1>2, EveryTurn
<1> QED BY <1>3

\* The last match of a loop exists.
LEMMA MaxIsGreatest ==
    ASSUME NEW N \in Nat, NEW S \in SUBSET (0 .. N), S # {}
    PROVE  Max(S) \in S /\ \A x \in S : x <= Max(S)
<1> DEFINE T == {N - x : x \in S}
<1>1. T \in SUBSET Nat /\ T # {}
    <2>1. \A x \in S : x \in 0 .. N OBVIOUS
    <2>2. \A x \in 0 .. N : N - x \in Nat OBVIOUS
    <2> QED BY <2>1, <2>2
<1>2. PICK y \in T : \A z \in T : y <= z
    <2> HIDE DEF T
    <2> QED BY <1>1, MinIsLeast
<1>3. PICK m \in S : y = N - m BY <1>2
<1>4. ASSUME NEW x \in S PROVE x <= m
    <2>1. N - x \in T OBVIOUS
    <2>2. N - m <= N - x BY <1>2, <1>3, <2>1
    <2>3. x \in Nat /\ m \in Nat OBVIOUS
    <2> QED BY ONLY <2>2, <2>3, N \in Nat
<1> QED BY <1>4 DEF Max

----------------------------------------------------------------------------
(* Reordering *)

\* A reorder keeps finitely many elements, all of them the document's.
LEMMA KeptIsFinite ==
    ASSUME NEW els \in Seq(Element), NEW ids \in Seq(ElemId)
    PROVE  /\ Kept(els, ids) \subseteq DOMAIN els
           /\ DOMAIN els \subseteq Nat \ {0}
           /\ IsFiniteSet(Kept(els, ids))
<1>1. DOMAIN els = 1 .. Len(els) /\ Len(els) \in Nat BY LenProperties
<1>2. Kept(els, ids) \subseteq DOMAIN els BY DEF Kept
<1>3. IsFiniteSet(1 .. Len(els)) BY <1>1, FS_Interval
<1> QED BY <1>1, <1>2, <1>3, FS_Subset

\* The slot of a listed element is a place of its id in the list.
LEMMA ListedSlot ==
    ASSUME NEW els \in Seq(Element), NEW ids \in Seq(ElemId),
           NEW i \in DOMAIN els, Listed(ids, els[i].id)
    PROVE  /\ Slot(els, ids, i) \in 1 .. Len(ids)
           /\ ids[Slot(els, ids, i)] = els[i].id
<1> DEFINE At == {n \in DOMAIN ids : ids[n] = els[i].id}
<1>1. DOMAIN ids = 1 .. Len(ids) /\ Len(ids) \in Nat BY LenProperties
<1>2. At \in SUBSET Nat /\ At # {} BY <1>1 DEF Listed
<1>3. Min(At) \in At BY <1>2, MinIsLeast
<1>4. Slot(els, ids, i) = Min(At) BY DEF Slot
<1> QED BY <1>1, <1>3, <1>4

\* A slot is a number, for the listed elements and the trailing ones.
LEMMA SlotIsNatural ==
    ASSUME NEW els \in Seq(Element), NEW ids \in Seq(ElemId), NEW i \in DOMAIN els
    PROVE  Slot(els, ids, i) \in Nat
<1>1. i \in Nat /\ Len(ids) \in Nat BY KeptIsFinite, LenProperties
<1>2. CASE Listed(ids, els[i].id) BY <1>2, ListedSlot
<1>3. CASE ~Listed(ids, els[i].id) BY <1>1, <1>3 DEF Slot
<1> QED BY <1>2, <1>3

\* No two elements that a reorder keeps go to the same slot.
LEMMA SlotInjective ==
    ASSUME NEW els \in Seq(Element), NEW ids \in Seq(ElemId),
           NEW i \in Kept(els, ids), NEW j \in Kept(els, ids),
           Slot(els, ids, i) = Slot(els, ids, j)
    PROVE  i = j
<1>1. i \in DOMAIN els /\ j \in DOMAIN els BY KeptIsFinite
<1>2. i \in Nat \ {0} /\ j \in Nat \ {0} /\ Len(ids) \in Nat
    BY <1>1, KeptIsFinite, LenProperties
<1>3. CASE Listed(ids, els[i].id) /\ Listed(ids, els[j].id)
    <2>1. els[i].id = els[j].id BY <1>1, <1>3, ListedSlot
    <2>2. i = Max(Places(els, els[i].id)) /\ j = Max(Places(els, els[j].id))
        BY <1>3 DEF Kept
    <2> QED BY <2>1, <2>2
<1>4. CASE Listed(ids, els[i].id) /\ ~Listed(ids, els[j].id)
    <2>1. Slot(els, ids, i) \in 1 .. Len(ids) BY <1>1, <1>4, ListedSlot
    <2>2. Slot(els, ids, j) = Len(ids) + j BY <1>4 DEF Slot
    <2> QED BY <1>2, <2>1, <2>2
<1>5. CASE ~Listed(ids, els[i].id) /\ Listed(ids, els[j].id)
    <2>1. Slot(els, ids, j) \in 1 .. Len(ids) BY <1>1, <1>5, ListedSlot
    <2>2. Slot(els, ids, i) = Len(ids) + i BY <1>5 DEF Slot
    <2> QED BY <1>2, <2>1, <2>2
<1>6. CASE ~Listed(ids, els[i].id) /\ ~Listed(ids, els[j].id)
    <2>1. Slot(els, ids, i) = Len(ids) + i /\ Slot(els, ids, j) = Len(ids) + j
        BY <1>6 DEF Slot
    <2>2. Len(ids) + i = Len(ids) + j BY <2>1
    <2> QED BY ONLY <1>2, <2>2
<1> QED BY <1>3, <1>4, <1>5, <1>6

Below(els, ids, i) == {j \in Kept(els, ids) : Slot(els, ids, j) < Slot(els, ids, i)}

\* The rank of a kept element is a place among the kept elements.
LEMMA RankInRange ==
    ASSUME NEW els \in Seq(Element), NEW ids \in Seq(ElemId), NEW i \in Kept(els, ids)
    PROVE  /\ Rank(els, ids, i) \in 0 .. Cardinality(Kept(els, ids)) - 1
           /\ Rank(els, ids, i) = Cardinality(Below(els, ids, i))
           /\ IsFiniteSet(Below(els, ids, i))
<1> DEFINE K == Kept(els, ids)
           B == Below(els, ids, i)
<1>1. IsFiniteSet(K) /\ i \in DOMAIN els BY KeptIsFinite
<1>2. Slot(els, ids, i) \in Nat BY <1>1, SlotIsNatural
<1>3. B \subseteq K \ {i} BY <1>2 DEF Below
<1>4. Rank(els, ids, i) = Cardinality(B) BY DEF Rank, Below
<1> HIDE DEF K, B
<1>5. IsFiniteSet(K \ {i}) /\ Cardinality(K \ {i}) = Cardinality(K) - 1
    BY <1>1, FS_RemoveElement DEF K
<1>6. IsFiniteSet(B) /\ Cardinality(B) <= Cardinality(K \ {i})
    BY <1>3, <1>5, FS_Subset
<1>7. Cardinality(K) \in Nat /\ Cardinality(B) \in Nat
    BY <1>1, <1>6, FS_CardinalityType
<1>8. Cardinality(B) \in 0 .. Cardinality(K) - 1 BY <1>5, <1>6, <1>7
<1> QED BY <1>4, <1>6, <1>8 DEF K, B

\* A smaller slot has a smaller rank.
LEMMA RankMonotonic ==
    ASSUME NEW els \in Seq(Element), NEW ids \in Seq(ElemId),
           NEW i \in Kept(els, ids), NEW j \in Kept(els, ids),
           Slot(els, ids, i) < Slot(els, ids, j)
    PROVE  Rank(els, ids, i) # Rank(els, ids, j)
<1>1. \A k \in Kept(els, ids) : Slot(els, ids, k) \in Nat
    BY KeptIsFinite, SlotIsNatural
<1>2. Below(els, ids, i) \subseteq Below(els, ids, j)
    <2> SUFFICES ASSUME NEW k \in Kept(els, ids),
                        Slot(els, ids, k) < Slot(els, ids, i)
                 PROVE  Slot(els, ids, k) < Slot(els, ids, j)
        BY DEF Below
    <2> QED BY <1>1
<1>3. i \in Below(els, ids, j) /\ i \notin Below(els, ids, i) BY <1>1 DEF Below
<1>4. Cardinality(Below(els, ids, i)) # Cardinality(Below(els, ids, j))
    BY <1>2, <1>3, RankInRange, FS_Subset
<1> QED BY <1>4, RankInRange

\* Every place is the rank of exactly one kept element.
LEMMA RankBijective ==
    ASSUME NEW els \in Seq(Element), NEW ids \in Seq(ElemId)
    PROVE  /\ \A i, j \in Kept(els, ids) :
                Rank(els, ids, i) = Rank(els, ids, j) => i = j
           /\ \A n \in 0 .. Cardinality(Kept(els, ids)) - 1 :
                \E i \in Kept(els, ids) : Rank(els, ids, i) = n
<1> DEFINE K == Kept(els, ids)
           T == 0 .. Cardinality(K) - 1
           f == [i \in K |-> Rank(els, ids, i)]
<1>1. ASSUME NEW i \in K, NEW j \in K, Rank(els, ids, i) = Rank(els, ids, j)
      PROVE  i = j
    <2>1. Slot(els, ids, i) \in Nat /\ Slot(els, ids, j) \in Nat
        BY KeptIsFinite, SlotIsNatural
    <2>2. ~ (Slot(els, ids, i) < Slot(els, ids, j)) BY <1>1, RankMonotonic
    <2>3. ~ (Slot(els, ids, j) < Slot(els, ids, i)) BY <1>1, RankMonotonic
    <2>4. Slot(els, ids, i) = Slot(els, ids, j) BY ONLY <2>1, <2>2, <2>3
    <2> QED BY <2>4, SlotInjective
<1>2. f \in [K -> T] BY RankInRange
<1>3. f \in Injection(K, T) BY <1>1, <1>2, Fun_IsInj
<1>4. IsFiniteSet(K) /\ Cardinality(K) \in Nat BY KeptIsFinite, FS_CardinalityType
<1>5. IsFiniteSet(T) /\ Cardinality(T) = Cardinality(K)
    <2> DEFINE n == Cardinality(K)
    <2>1. n \in Nat BY <1>4
    <2> HIDE DEF n, K
    <2>2. 0 \in Int /\ n - 1 \in Int BY <2>1
    <2>3. /\ IsFiniteSet(0 .. n - 1)
          /\ Cardinality(0 .. n - 1) = IF 0 > n - 1 THEN 0 ELSE n - 1 - 0 + 1
        BY ONLY <2>2, FS_Interval
    <2>4. Cardinality(0 .. n - 1) = n BY ONLY <2>1, <2>3
    <2> QED BY <2>3, <2>4 DEF n
<1>6. f \in Surjection(K, T)
    <2> HIDE DEF K, T, f
    <2> QED BY <1>3, <1>5, FS_Injection
<1>7. \A n \in T : \E i \in K : f[i] = n
    <2> HIDE DEF K, T, f
    <2> QED BY <1>6, Fun_SurjectionProperties
<1> QED BY <1>1, <1>7

\* A reorder loses no id and invents none, and keeps ids distinct.
LEMMA ReorderedProperties ==
    ASSUME NEW els \in Seq(Element), NEW ids \in Seq(ElemId)
    PROVE  /\ Reordered(els, ids) \in Seq(Element)
           /\ DistinctIds(els) => DistinctIds(Reordered(els, ids))
           /\ Ids(Reordered(els, ids)) \subseteq Ids(els)
<1> DEFINE K == Kept(els, ids)
           N == Cardinality(K)
           pick(n) == CHOOSE i \in K : Rank(els, ids, i) = n - 1
<1>1. N \in Nat BY KeptIsFinite, FS_CardinalityType
<1>2. \A n \in 1 .. N : pick(n) \in K /\ Rank(els, ids, pick(n)) = n - 1
    <2> SUFFICES ASSUME NEW n \in 1 .. N
                 PROVE  \E i \in K : Rank(els, ids, i) = n - 1
        OBVIOUS
    <2>1. n - 1 \in 0 .. N - 1 BY <1>1
    <2> QED BY <2>1, RankBijective
<1>3. Reordered(els, ids) = [n \in 1 .. N |-> els[pick(n)]] BY DEF Reordered
<1>4. \A i \in K : i \in DOMAIN els BY KeptIsFinite
<1> HIDE DEF K, N, pick
<1>5. \A n \in 1 .. N : els[pick(n)] \in Element
    BY <1>2, <1>4, ElementOfSeq, LenProperties
<1>6. Reordered(els, ids) \in Seq(Element) BY <1>1, <1>3, <1>5, IsASeq
<1>7. ASSUME DistinctIds(els) PROVE DistinctIds(Reordered(els, ids))
    <2> SUFFICES ASSUME NEW n \in 1 .. N, NEW m \in 1 .. N,
                        els[pick(n)].id = els[pick(m)].id
                 PROVE  n = m
        BY <1>3 DEF DistinctIds
    <2>1. pick(n) = pick(m) BY <1>2, <1>4, <1>7 DEF DistinctIds
    <2>2. n - 1 = m - 1 BY <1>2, <2>1
    <2> QED BY <1>1, <2>2
<1>8. Ids(Reordered(els, ids)) \subseteq Ids(els) BY <1>2, <1>3, <1>4 DEF Ids
<1> QED BY <1>6, <1>7, <1>8

----------------------------------------------------------------------------
(* The loops of a reorder *)

\* The places of the kept elements with slots up to b, in the order of slots.
Sorted(els, ids, q, b) ==
    /\ q \in Seq(Kept(els, ids))
    /\ \A i \in Kept(els, ids) : Slot(els, ids, i) <= b => \E n \in 1 .. Len(q) : q[n] = i
    /\ \A n \in 1 .. Len(q) : Slot(els, ids, q[n]) <= b
    /\ \A m, n \in 1 .. Len(q) : m < n => Slot(els, ids, q[m]) < Slot(els, ids, q[n])

Picked(els, q) == [n \in 1 .. Len(q) |-> els[q[n]]]

\* What a reorder keeps is at least the last element of every id.
LEMMA LastIsKept ==
    ASSUME NEW els \in Seq(Element), NEW ids \in Seq(ElemId), NEW id \in Ids(els)
    PROVE  /\ Max(Places(els, id)) \in Kept(els, ids)
           /\ els[Max(Places(els, id))].id = id
<1>1. DOMAIN els = 1 .. Len(els) /\ Len(els) \in Nat BY LenProperties
<1>2. Places(els, id) \in SUBSET (0 .. Len(els)) /\ Places(els, id) # {} BY <1>1 DEF Places, Ids
<1>3. Max(Places(els, id)) \in Places(els, id) BY <1>1, <1>2, MaxIsGreatest
<1> QED BY <1>3 DEF Places, Kept

\* Before the first turn nothing is appended, and slots start at 1.
LEMMA SortedStart ==
    ASSUME NEW els \in Seq(Element), NEW ids \in Seq(ElemId)
    PROVE  Sorted(els, ids, <<>>, 0) /\ Picked(els, <<>>) = <<>>
<1>1. ASSUME NEW i \in Kept(els, ids) PROVE ~(Slot(els, ids, i) <= 0)
    <2>1. i \in DOMAIN els /\ i \in Nat \ {0} /\ Len(ids) \in Nat BY KeptIsFinite, LenProperties
    <2>2. CASE Listed(ids, els[i].id) BY <2>1, <2>2, ListedSlot
    <2>3. CASE ~Listed(ids, els[i].id) BY <2>1, <2>3 DEF Slot
    <2> QED BY <2>2, <2>3
<1>2. <<>> \in Seq(Kept(els, ids)) /\ Len(<<>>) = 0 BY EmptySeq
<1>3. Picked(els, <<>>) = <<>> BY DEF Picked
<1> QED BY <1>1, <1>2, <1>3 DEF Sorted

\* A turn that appends the element of the next slot.
LEMMA SortedGrows ==
    ASSUME NEW els \in Seq(Element), NEW ids \in Seq(ElemId), NEW q, NEW b \in Nat,
           Sorted(els, ids, q, b), NEW i \in Kept(els, ids), Slot(els, ids, i) = b + 1
    PROVE  /\ Sorted(els, ids, Append(q, i), b + 1)
           /\ Picked(els, Append(q, i)) = Append(Picked(els, q), els[i])
<1> DEFINE K == Kept(els, ids)
           s(j) == Slot(els, ids, j)
           p == Append(q, i)
           L == Len(q)
<1>1. \A j \in K : s(j) \in Nat BY KeptIsFinite, SlotIsNatural
<1>2. \A j \in K : s(j) = b + 1 => j = i BY SlotInjective
<1>3. /\ q \in Seq(K)
      /\ \A j \in K : s(j) <= b => \E n \in 1 .. L : q[n] = j
      /\ \A n \in 1 .. L : s(q[n]) <= b
      /\ \A m, n \in 1 .. L : m < n => s(q[m]) < s(q[n])
    BY DEF Sorted
<1>4. i \in K /\ s(i) = b + 1 OBVIOUS
<1>5. /\ p \in Seq(K) /\ L \in Nat /\ Len(p) = L + 1 /\ p[L + 1] = i
      /\ \A n \in 1 .. L : p[n] = q[n] /\ q[n] \in K
    <2> HIDE DEF K, s
    <2> QED BY <1>3, <1>4, AppendProperties, LenProperties, ElementOfSeq
<1> HIDE DEF K, s, p, L
<1>6. ASSUME NEW j \in K, s(j) <= b + 1 PROVE \E n \in 1 .. L + 1 : p[n] = j
    <2>1. CASE s(j) <= b
        <3>1. PICK n \in 1 .. L : q[n] = j BY <1>3, <2>1
        <3>2. n \in 1 .. L + 1 /\ p[n] = j BY <1>5, <3>1
        <3> QED BY <3>2
    <2>2. CASE ~(s(j) <= b)
        <3>1. j = i BY <1>1, <1>2, <1>6, <2>2
        <3> QED BY <1>5, <3>1
    <2> QED BY <2>1, <2>2
<1>7. ASSUME NEW n \in 1 .. L + 1 PROVE s(p[n]) <= b + 1
    <2>1. CASE n = L + 1 BY <1>5, <1>4, <2>1
    <2>2. CASE n # L + 1
        <3>1. n \in 1 .. L BY <1>5, <2>2
        <3> QED BY <1>1, <1>3, <1>5, <3>1
    <2> QED BY <2>1, <2>2
<1>8. ASSUME NEW m \in 1 .. L + 1, NEW n \in 1 .. L + 1, m < n PROVE s(p[m]) < s(p[n])
    <2>1. m \in 1 .. L BY <1>5, <1>8
    <2>2. CASE n = L + 1
        <3>1. s(p[m]) <= b /\ s(p[m]) \in Nat BY <1>1, <1>3, <1>5, <2>1
        <3> QED BY <1>5, <1>4, <2>2, <3>1
    <2>3. CASE n # L + 1
        <3>1. n \in 1 .. L BY <1>5, <2>3
        <3> QED BY <1>3, <1>5, <1>8, <2>1, <3>1
    <2> QED BY <2>2, <2>3
<1>9. Sorted(els, ids, p, b + 1) BY <1>5, <1>6, <1>7, <1>8 DEF Sorted, K, s
<1>10. Picked(els, p) = Append(Picked(els, q), els[i])
    <2>1. \A n \in 1 .. L : q[n] \in DOMAIN els BY <1>5, KeptIsFinite DEF K
    <2>2. Picked(els, q) \in Seq(Element)
        <3>1. \A n \in 1 .. L : els[q[n]] \in Element BY <2>1, ElementOfSeq, LenProperties
        <3>2. Picked(els, q) = [n \in 1 .. L |-> els[q[n]]] BY DEF Picked, L
        <3> QED BY <1>5, <3>1, <3>2, IsASeq
    <2>3. Len(Picked(els, q)) = L BY <1>5 DEF Picked, L
    <2>4. els[i] \in Element BY <1>4, KeptIsFinite, ElementOfSeq, LenProperties DEF K
    <2> DEFINE u == Append(Picked(els, q), els[i])
    <2>5. /\ Len(u) = L + 1 /\ u \in Seq(Element) /\ u[L + 1] = els[i]
          /\ \A n \in 1 .. L : u[n] = Picked(els, q)[n]
        BY <2>2, <2>3, <2>4, AppendProperties
    <2> HIDE DEF u
    <2>6. u = [n \in 1 .. L + 1 |-> u[n]] BY <1>5, <2>5, LenProperties
    <2>7. \A n \in 1 .. L : u[n] = els[q[n]] BY <2>5 DEF Picked, L
    <2>8. \A n \in 1 .. L + 1 : u[n] = els[p[n]] BY <1>5, <2>5, <2>7
    <2>9. Picked(els, p) = [n \in 1 .. L + 1 |-> els[p[n]]] BY <1>5 DEF Picked
    <2>10. Picked(els, p) = u BY <2>6, <2>8, <2>9
    <2> QED BY <2>10 DEF u
<1> QED BY <1>9, <1>10 DEF p

\* A turn that appends nothing, because no element has the next slot.
LEMMA SortedStays ==
    ASSUME NEW els \in Seq(Element), NEW ids \in Seq(ElemId), NEW q, NEW b \in Nat,
           Sorted(els, ids, q, b), \A i \in Kept(els, ids) : Slot(els, ids, i) # b + 1
    PROVE  Sorted(els, ids, q, b + 1)
<1>1. \A i \in Kept(els, ids) : Slot(els, ids, i) \in Nat BY KeptIsFinite, SlotIsNatural
<1>2. \A i \in Kept(els, ids) : Slot(els, ids, i) <= b + 1 => Slot(els, ids, i) <= b BY <1>1
<1>3. q \in Seq(Kept(els, ids)) BY DEF Sorted
<1>4. \A n \in 1 .. Len(q) : q[n] \in Kept(els, ids) BY <1>3, ElementOfSeq
<1>5. \A n \in 1 .. Len(q) : Slot(els, ids, q[n]) <= b + 1 BY <1>1, <1>4 DEF Sorted
<1> QED BY <1>2, <1>3, <1>5 DEF Sorted

\* What is appended once all slots were looked at is the closed form.
LEMMA SortedIsReordered ==
    ASSUME NEW els \in Seq(Element), NEW ids \in Seq(ElemId), NEW q, NEW b,
           Sorted(els, ids, q, b), \A i \in Kept(els, ids) : Slot(els, ids, i) <= b
    PROVE  Picked(els, q) = Reordered(els, ids)
<1> DEFINE K == Kept(els, ids)
           s(j) == Slot(els, ids, j)
           L == Len(q)
<1>1. /\ q \in Seq(K)
      /\ \A j \in K : \E n \in 1 .. L : q[n] = j
      /\ \A m, n \in 1 .. L : m < n => s(q[m]) < s(q[n])
    BY DEF Sorted
<1>2. \A j \in K : s(j) \in Nat BY KeptIsFinite, SlotIsNatural
<1>3. L \in Nat /\ \A n \in 1 .. L : q[n] \in K
    <2> HIDE DEF K
    <2> QED BY <1>1, LenProperties, ElementOfSeq
<1> HIDE DEF K, s, L
<1>4. ASSUME NEW m \in 1 .. L, NEW n \in 1 .. L PROVE s(q[m]) < s(q[n]) <=> m < n
    <2>1. m \in Nat /\ n \in Nat /\ s(q[m]) \in Nat /\ s(q[n]) \in Nat BY <1>2, <1>3
    <2>2. CASE m < n BY <1>1, <2>2
    <2>3. CASE n < m BY <1>1, <2>1, <2>3
    <2>4. CASE m = n BY <2>1, <2>4
    <2> QED BY <2>1, <2>2, <2>3, <2>4
<1>5. ASSUME NEW k \in 0 .. L, NEW T, T = {q[m] : m \in 1 .. k}
      PROVE  IsFiniteSet(T) /\ Cardinality(T) = k
    <2>1. k \in Nat /\ \A m \in 1 .. k : m \in 1 .. L BY <1>3
    <2> DEFINE f == [m \in 1 .. k |-> q[m]]
    <2>2. f \in [1 .. k -> T] BY <1>5
    <2>3. ASSUME NEW m \in 1 .. k, NEW n \in 1 .. k, q[m] = q[n] PROVE m = n
        <3>1. ~(s(q[m]) < s(q[n])) /\ ~(s(q[n]) < s(q[m])) BY <1>2, <1>3, <2>1, <2>3
        <3> QED BY <1>4, <2>1, <3>1
    <2>4. f \in Bijection(1 .. k, T)
        <3>1. f \in Injection(1 .. k, T) BY <2>2, <2>3, Fun_IsInj
        <3>2. \A t \in T : \E m \in 1 .. k : f[m] = t BY <1>5
        <3>3. f \in Surjection(1 .. k, T)
            <4> HIDE DEF f
            <4> QED BY <2>2, <3>2, Fun_IsSurj
        <3> QED BY <3>1, <3>3 DEF Bijection
    <2>5. ExistsBijection(1 .. k, T)
        <3> HIDE DEF f
        <3> QED BY <2>4 DEF ExistsBijection
    <2> QED BY <2>1, <2>5, FS_CountingElements, FS_NatBijection
<1>6. Cardinality(K) = L
    <2>1. K = {q[m] : m \in 1 .. L} BY <1>1, <1>3
    <2>2. L \in 0 .. L BY <1>3
    <2> QED BY <1>5, <2>1, <2>2
<1>7. ASSUME NEW n \in 1 .. L PROVE Rank(els, ids, q[n]) = n - 1
    <2> DEFINE T == {j \in K : s(j) < s(q[n])}
    <2>1. n - 1 \in 0 .. L /\ n \in Nat BY <1>3
    <2>2. ASSUME NEW j \in K, s(j) < s(q[n]) PROVE \E m \in 1 .. n - 1 : q[m] = j
        <3>1. PICK m \in 1 .. L : q[m] = j BY <1>1
        <3>2. m < n BY <1>4, <2>2, <3>1
        <3> QED BY <1>3, <3>1, <3>2
    <2>3. ASSUME NEW m \in 1 .. n - 1 PROVE q[m] \in K /\ s(q[m]) < s(q[n])
        <3>1. m \in 1 .. L /\ m < n BY <1>3, <2>1
        <3> QED BY <1>3, <1>4, <3>1
    <2>4. T = {q[m] : m \in 1 .. n - 1} BY <2>2, <2>3
    <2>5. Cardinality(T) = n - 1
        <3> HIDE DEF T
        <3> QED BY <1>5, <2>1, <2>4
    <2> QED BY <2>5 DEF Rank, K, s
<1>8. ASSUME NEW n \in 1 .. L PROVE (CHOOSE i \in K : Rank(els, ids, i) = n - 1) = q[n]
    <2>1. q[n] \in K /\ Rank(els, ids, q[n]) = n - 1 BY <1>3, <1>7
    <2>2. \A i \in K : Rank(els, ids, i) = n - 1 => i = q[n] BY <2>1, RankBijective DEF K
    <2> QED BY <2>1, <2>2
<1>9. Reordered(els, ids) = [n \in 1 .. L |-> els[CHOOSE i \in K : Rank(els, ids, i) = n - 1]]
    BY <1>6 DEF Reordered, K
<1> QED BY <1>8, <1>9 DEF Picked, L

\* What the first loop holds after a turn: some of the document's ids, and
\* elements.
Turns(els) == [left : SUBSET Ids(els), out : Seq(Element)]

\* The first loop has a value after each of its turns.
LEMMA TakeListedRuns ==
    ASSUME NEW els \in Seq(Element), NEW ids \in Seq(ElemId)
    PROVE  \E f \in [0 .. Len(ids) -> Turns(els)] :
              /\ f[0] = [left |-> Ids(els), out |-> <<>>]
              /\ \A n \in 1 .. Len(ids) : f[n] = TakeOne(els, ids[n], f[n - 1])
              /\ TakeListed(els, ids) = f[Len(ids)]
<1> DEFINE N == Len(ids)
           A == Turns(els)
           b == [left |-> Ids(els), out |-> <<>>]
           step == [n \in 1 .. N |-> [acc \in A |-> TakeOne(els, ids[n], acc)]]
<1>1. N \in Nat BY LenProperties
<1>2. \A i \in DOMAIN els : els[i] \in Element BY ElementOfSeq, LenProperties
<1>3. b \in A BY EmptySeq DEF Turns
<1>4. ASSUME NEW n \in 1 .. N, NEW acc \in A PROVE TakeOne(els, ids[n], acc) \in A
    <2>1. CASE ids[n] \in acc.left
        <3>1. ids[n] \in Ids(els) /\ acc.out \in Seq(Element) BY <2>1 DEF Turns
        <3>2. els[Max(Places(els, ids[n]))] \in Element BY <1>2, <3>1, LastIsKept, KeptIsFinite
        <3>3. Append(acc.out, els[Max(Places(els, ids[n]))]) \in Seq(Element)
            BY <3>1, <3>2, AppendProperties
        <3> QED BY <2>1, <3>3 DEF TakeOne, Turns
    <2>2. CASE ids[n] \notin acc.left BY <2>2 DEF TakeOne
    <2> QED BY <2>1, <2>2
<1>5. step \in [1 .. N -> [A -> A]]
    <2> HIDE DEF A
    <2> QED BY <1>4
<1>6. PICK f \in [0 .. N -> A] : IsLoop(f, b, N, step)
    <2> HIDE DEF A, b, step, N
    <2> QED BY <1>1, <1>3, <1>5, LoopExists
<1>7. \A n \in 1 .. N : n - 1 \in 0 .. N /\ f[n - 1] \in A
    <2> HIDE DEF A, b, step, N
    <2>1. f \in [0 .. N -> A] BY <1>6
    <2> QED BY <1>1, <2>1
<1>8. \A n \in 1 .. N : step[n][f[n - 1]] = TakeOne(els, ids[n], f[n - 1])
    <2> HIDE DEF A
    <2> QED BY <1>7
<1> DEFINE Def(g) == [n \in 0 .. N |-> IF n = 0 THEN b ELSE TakeOne(els, ids[n], g[n - 1])]
<1> HIDE DEF step
<1>9. f[0] = b /\ \A n \in 1 .. N : f[n] = TakeOne(els, ids[n], f[n - 1])
    BY <1>6, <1>8 DEF IsLoop
<1>10. f = Def(f)
    <2> HIDE DEF A, b, N
    <2>1. \A n \in 0 .. N : f[n] = Def(f)[n] BY <1>1, <1>9
    <2> QED BY <1>6, <2>1
<1> DEFINE g == CHOOSE h : h = Def(h)
<1>11. g = Def(g)
    <2> HIDE DEF Def
    <2> QED BY <1>10
<1>12. TakeListed(els, ids) = g[N] BY DEF TakeListed
<1> HIDE DEF g
<1>13. g[0] = b /\ \A n \in 1 .. N : g[n] = TakeOne(els, ids[n], g[n - 1])
    <2> HIDE DEF N, b
    <2> QED BY <1>1, <1>11
<1>14. g[N] = f[N]
    <2>1. ASSUME NEW n \in 0 .. N - 1, f[n] = g[n] PROVE f[n + 1] = g[n + 1]
        <3>1. n + 1 \in 1 .. N /\ (n + 1) - 1 = n BY <1>1
        <3> QED BY <1>9, <1>13, <2>1, <3>1
    <2>2. f[0] = g[0] BY <1>9, <1>13
    <2> HIDE DEF N
    <2> QED BY <1>1, <2>1, <2>2, LoopsAgree
<1> QED BY <1>6, <1>9, <1>12, <1>14

\* So has the second.
LEMMA AppendRestRuns ==
    ASSUME NEW els \in Seq(Element), NEW first \in Turns(els)
    PROVE  \E f \in [0 .. Len(els) -> Seq(Element)] :
              /\ f[0] = first.out
              /\ \A n \in 1 .. Len(els) :
                    f[n] = IF els[n].id \in first.left THEN Append(f[n - 1], els[n]) ELSE f[n - 1]
              /\ AppendRest(els, first) = f[Len(els)]
<1> DEFINE N == Len(els)
           A == Seq(Element)
           b == first.out
           turn(n, out) == IF els[n].id \in first.left THEN Append(out, els[n]) ELSE out
           step == [n \in 1 .. N |-> [out \in A |-> turn(n, out)]]
           Def(g) == [n \in 0 .. N |-> IF n = 0 THEN b ELSE turn(n, g[n - 1])]
<1>1. N \in Nat BY LenProperties
<1>2. b \in A BY DEF Turns
<1>3. step \in [1 .. N -> [A -> A]]
    <2>1. ASSUME NEW n \in 1 .. N, NEW out \in A PROVE turn(n, out) \in A
        BY ElementOfSeq, AppendProperties
    <2> HIDE DEF A, turn
    <2> QED BY <2>1
<1>4. PICK f \in [0 .. N -> A] : IsLoop(f, b, N, step)
    <2> HIDE DEF A, b, step, N
    <2> QED BY <1>1, <1>2, <1>3, LoopExists
<1>5. f[0] = b /\ \A n \in 1 .. N : f[n] = turn(n, f[n - 1])
    <2>1. \A n \in 1 .. N : f[n - 1] \in A
        <3> HIDE DEF A
        <3> QED BY <1>1, <1>4
    <2>2. \A n \in 1 .. N : step[n][f[n - 1]] = turn(n, f[n - 1])
        <3> HIDE DEF A, turn
        <3> QED BY <2>1
    <2> HIDE DEF step, turn
    <2> QED BY <1>4, <2>2 DEF IsLoop
<1>6. f = Def(f)
    <2> HIDE DEF A, b, N, step, turn
    <2>1. \A n \in 0 .. N : f[n] = Def(f)[n] BY <1>1, <1>5
    <2> QED BY <1>4, <2>1
<1> DEFINE g == CHOOSE h : h = Def(h)
<1>7. g = Def(g)
    <2> HIDE DEF Def
    <2> QED BY <1>6
<1>8. AppendRest(els, first) = g[N] BY DEF AppendRest
<1> HIDE DEF g, step
<1>9. g[0] = b /\ \A n \in 1 .. N : g[n] = turn(n, g[n - 1])
    <2> HIDE DEF N, b, turn
    <2> QED BY <1>1, <1>7
<1>10. g[N] = f[N]
    <2>1. ASSUME NEW n \in 0 .. N - 1, f[n] = g[n] PROVE f[n + 1] = g[n + 1]
        <3>1. n + 1 \in 1 .. N /\ (n + 1) - 1 = n BY <1>1
        <3> HIDE DEF turn
        <3> QED BY <1>5, <1>9, <2>1, <3>1
    <2>2. f[0] = g[0] BY <1>5, <1>9
    <2> HIDE DEF N
    <2> QED BY <1>1, <2>1, <2>2, LoopsAgree
<1> QED BY <1>4, <1>5, <1>8, <1>10

\* The slot of a listed element is the first place of its id.
LEMMA SlotIsFirst ==
    ASSUME NEW els \in Seq(Element), NEW ids \in Seq(ElemId), NEW i \in DOMAIN els,
           NEW m \in 1 .. Len(ids), ids[m] = els[i].id
    PROVE  Listed(ids, els[i].id) /\ Slot(els, ids, i) <= m
<1> DEFINE At == {n \in DOMAIN ids : ids[n] = els[i].id}
<1>1. DOMAIN ids = 1 .. Len(ids) /\ Len(ids) \in Nat BY LenProperties
<1>2. m \in At /\ At \in SUBSET Nat BY <1>1
<1>3. Min(At) <= m
    <2> HIDE DEF At
    <2> QED BY <1>2, MinIsLeast
<1> QED BY <1>1, <1>3 DEF Listed, Slot

\* The ids that byID holds after n turns of the first loop.
Left(els, ids, n) == Ids(els) \ {ids[m] : m \in 1 .. n}

\* out holds the kept elements with slots up to b.
Appended(els, ids, out, b) == \E q : Sorted(els, ids, q, b) /\ out = Picked(els, q)

\* A turn of the first loop fills the next slot.
LEMMA TakeTurn ==
    ASSUME NEW els \in Seq(Element), NEW ids \in Seq(ElemId), NEW n \in 0 .. Len(ids) - 1,
           NEW acc \in Turns(els), acc.left = Left(els, ids, n),
           Appended(els, ids, acc.out, n)
    PROVE  /\ TakeOne(els, ids[n + 1], acc).left = Left(els, ids, n + 1)
           /\ Appended(els, ids, TakeOne(els, ids[n + 1], acc).out, n + 1)
<1> DEFINE id == ids[n + 1]
           next == TakeOne(els, id, acc)
<1>0. PICK q : Sorted(els, ids, q, n) /\ acc.out = Picked(els, q) BY DEF Appended
<1>1. n \in Nat /\ n + 1 \in 1 .. Len(ids) /\ Len(ids) \in Nat BY LenProperties
<1>2. Left(els, ids, n + 1) = Left(els, ids, n) \ {id}
    <2>1. 1 .. n + 1 = (1 .. n) \cup {n + 1} BY <1>1
    <2> QED BY <2>1 DEF Left
<1>3. CASE id \in acc.left
    <2> DEFINE i == Max(Places(els, id))
    <2>1. id \in Ids(els) /\ \A m \in 1 .. n : ids[m] # id BY <1>3 DEF Left
    <2>2. i \in Kept(els, ids) /\ i \in DOMAIN els /\ els[i].id = id BY <2>1, LastIsKept, KeptIsFinite
    <2> HIDE DEF i
    <2>3. Listed(ids, els[i].id) /\ Slot(els, ids, i) <= n + 1 BY <1>1, <2>2, SlotIsFirst
    <2>4. Slot(els, ids, i) \in 1 .. Len(ids) /\ ids[Slot(els, ids, i)] = id BY <2>2, <2>3, ListedSlot
    <2>5. Slot(els, ids, i) = n + 1
        <3>1. ~(Slot(els, ids, i) \in 1 .. n) BY <2>1, <2>4
        <3> QED BY <1>1, <2>3, <2>4, <3>1
    <2>6. next.left = acc.left \ {id} /\ next.out = Append(acc.out, els[i])
        BY <1>3 DEF TakeOne, i
    <2>7. Sorted(els, ids, Append(q, i), n + 1) /\ next.out = Picked(els, Append(q, i))
        BY <1>0, <1>1, <2>2, <2>5, <2>6, SortedGrows
    <2> QED BY <1>2, <2>6, <2>7 DEF Appended
<1>4. CASE id \notin acc.left
    <2>1. next = acc BY <1>4 DEF TakeOne
    <2>2. ASSUME NEW i \in Kept(els, ids), Slot(els, ids, i) = n + 1 PROVE FALSE
        <3>1. i \in DOMAIN els /\ i \in Nat \ {0} BY KeptIsFinite
        <3>2. Listed(ids, els[i].id) BY <1>1, <2>2, <3>1 DEF Slot
        <3>3. els[i].id = id /\ id \in Ids(els) BY <2>2, <3>1, <3>2, ListedSlot DEF Ids
        <3>4. PICK m \in 1 .. n : ids[m] = id BY <1>4, <3>3 DEF Left
        <3>5. m \in 1 .. Len(ids) /\ m <= n BY <1>1
        <3>6. Slot(els, ids, i) <= m BY <3>1, <3>3, <3>4, <3>5, SlotIsFirst
        <3> QED BY <1>1, <2>2, <3>5, <3>6
    <2>3. Sorted(els, ids, q, n + 1) BY <1>0, <1>1, <2>2, SortedStays
    <2> QED BY <1>0, <1>2, <1>4, <2>1, <2>3 DEF Appended
<1> QED BY <1>3, <1>4

\* A turn of the second loop too.
LEMMA RestTurn ==
    ASSUME NEW els \in Seq(Element), NEW ids \in Seq(ElemId), NEW n \in 0 .. Len(els) - 1,
           NEW out, Appended(els, ids, out, Len(ids) + n),
           NEW next, next = IF els[n + 1].id \in Left(els, ids, Len(ids))
                            THEN Append(out, els[n + 1]) ELSE out
    PROVE  Appended(els, ids, next, Len(ids) + n + 1)
<1> DEFINE N == Len(ids)
           i == n + 1
<1>0. PICK q : Sorted(els, ids, q, N + n) /\ out = Picked(els, q) BY DEF Appended
<1>1. /\ DOMAIN ids = 1 .. N /\ N \in Nat /\ n \in Nat /\ N + n \in Nat
      /\ DOMAIN els = 1 .. Len(els) /\ i \in DOMAIN els
    BY LenProperties
<1>2. els[i].id \in Left(els, ids, N) <=> ~Listed(ids, els[i].id)
    BY <1>1 DEF Left, Ids, Listed
<1>3. CASE Listed(ids, els[i].id)
    <2>1. ASSUME NEW j \in Kept(els, ids), Slot(els, ids, j) = N + n + 1 PROVE FALSE
        <3>1. j \in DOMAIN els /\ j \in Nat \ {0} BY KeptIsFinite
        <3>2. ~Listed(ids, els[j].id) BY <1>1, <2>1, <3>1, ListedSlot
        <3>3. N + j = N + n + 1 BY <2>1, <3>2 DEF Slot
        <3>4. j = i BY <1>1, <3>1, <3>3
        <3> QED BY <1>3, <3>2, <3>4
    <2>2. Sorted(els, ids, q, N + n + 1) BY <1>0, <1>1, <2>1, SortedStays
    <2> QED BY <1>0, <1>2, <1>3, <2>2 DEF Appended
<1>4. CASE ~Listed(ids, els[i].id)
    <2>1. i \in Kept(els, ids) BY <1>1, <1>4 DEF Kept
    <2>2. Slot(els, ids, i) = N + n + 1 BY <1>1, <1>4 DEF Slot
    <2>3. /\ Sorted(els, ids, Append(q, i), N + n + 1)
          /\ Picked(els, Append(q, i)) = Append(Picked(els, q), els[i])
        BY <1>0, <1>1, <2>1, <2>2, SortedGrows
    <2> QED BY <1>0, <1>2, <1>4, <2>3 DEF Appended
<1> QED BY <1>3, <1>4

\* applyElementsReorder, as its two loops over a map compute it, does what
\* its closed form says, on every document and every list of ids.
THEOREM ReorderIsLoop ==
    ASSUME NEW els \in Seq(Element), NEW ids \in Seq(ElemId)
    PROVE  Reordered(els, ids) = ReorderLoop(els, ids)
<1> DEFINE N == Len(ids)
           L == Len(els)
<1>1. N \in Nat /\ L \in Nat /\ DOMAIN els = 1 .. L BY LenProperties
<1>2. PICK f \in [0 .. N -> Turns(els)] :
          /\ f[0] = [left |-> Ids(els), out |-> <<>>]
          /\ \A n \in 1 .. N : f[n] = TakeOne(els, ids[n], f[n - 1])
          /\ TakeListed(els, ids) = f[N]
    BY TakeListedRuns
<1> DEFINE first == f[N]
           Took(n) == f[n].left = Left(els, ids, n) /\ Appended(els, ids, f[n].out, n)
<1>3. Took(N)
    <2> DEFINE S == {n \in 0 .. N : Took(n)}
    <2>1. 0 \in S
        <3>1. Left(els, ids, 0) = Ids(els) BY DEF Left
        <3>2. Appended(els, ids, <<>>, 0) BY SortedStart DEF Appended
        <3> QED BY <1>1, <1>2, <3>1, <3>2
    <2>2. ASSUME NEW n \in 0 .. N - 1, n \in S PROVE n + 1 \in S
        <3>1. n + 1 \in 1 .. N /\ (n + 1) - 1 = n /\ n \in 0 .. N /\ n + 1 \in 0 .. N BY <1>1
        <3>2. f[n + 1] = TakeOne(els, ids[n + 1], f[n]) /\ f[n] \in Turns(els) BY <1>2, <3>1
        <3>3. f[n].left = Left(els, ids, n) /\ Appended(els, ids, f[n].out, n) BY <2>2
        <3>4. Took(n + 1) BY <3>2, <3>3, TakeTurn
        <3> HIDE DEF Took
        <3> QED BY <3>1, <3>4
    <2>3. 0 .. N \subseteq S
        <3> HIDE DEF S, N
        <3> QED BY <1>1, <2>1, <2>2, EveryTurn
    <2>4. N \in S
        <3> HIDE DEF S, N
        <3> QED BY <1>1, <2>3
    <2> QED BY <2>4
<1>4. first \in Turns(els) BY <1>1, <1>2
<1>5. first.left = Left(els, ids, N) /\ Appended(els, ids, first.out, N) BY <1>3
<1> HIDE DEF first, Took
<1>6. PICK h \in [0 .. L -> Seq(Element)] :
          /\ h[0] = first.out
          /\ \A n \in 1 .. L :
                h[n] = IF els[n].id \in first.left THEN Append(h[n - 1], els[n]) ELSE h[n - 1]
          /\ AppendRest(els, first) = h[L]
    BY <1>4, AppendRestRuns
<1> DEFINE Done(n) == Appended(els, ids, h[n], N + n)
<1>7. Done(L)
    <2> DEFINE S == {n \in 0 .. L : Done(n)}
    <2>1. 0 \in S
        <3>1. N + 0 = N BY <1>1
        <3> QED BY <1>1, <1>5, <1>6, <3>1
    <2>2. ASSUME NEW n \in 0 .. L - 1, n \in S PROVE n + 1 \in S
        <3>1. /\ n + 1 \in 1 .. L /\ (n + 1) - 1 = n /\ n + 1 \in 0 .. L
              /\ N + (n + 1) = N + n + 1
            BY <1>1
        <3>2. h[n + 1] = IF els[n + 1].id \in Left(els, ids, N)
                         THEN Append(h[n], els[n + 1]) ELSE h[n]
            <4>1. \A m \in 1 .. L : h[m] = IF els[m].id \in Left(els, ids, N)
                                         THEN Append(h[m - 1], els[m]) ELSE h[m - 1]
                BY <1>5, <1>6
            <4> QED BY <3>1, <4>1
        <3>3. Appended(els, ids, h[n], N + n) BY <2>2
        <3>4. Appended(els, ids, h[n + 1], N + n + 1) BY <3>2, <3>3, RestTurn
        <3>5. Done(n + 1) BY <3>1, <3>4
        <3> HIDE DEF Done
        <3> QED BY <3>1, <3>5
    <2>3. 0 .. L \subseteq S
        <3> HIDE DEF S, L
        <3> QED BY <1>1, <2>1, <2>2, EveryTurn
    <2>4. L \in S
        <3> HIDE DEF S, L
        <3> QED BY <1>1, <2>3
    <2> QED BY <2>4
<1>8. PICK q : Sorted(els, ids, q, N + L) /\ h[L] = Picked(els, q) BY <1>7 DEF Appended
<1>9. ASSUME NEW i \in Kept(els, ids) PROVE Slot(els, ids, i) <= N + L
    <2>1. i \in 1 .. L BY <1>1, KeptIsFinite
    <2>2. CASE Listed(ids, els[i].id) BY <1>1, <2>1, <2>2, ListedSlot
    <2>3. CASE ~Listed(ids, els[i].id) BY <1>1, <2>1, <2>3 DEF Slot
    <2> QED BY <2>2, <2>3
<1>10. Picked(els, q) = Reordered(els, ids) BY <1>8, <1>9, SortedIsReordered
<1> QED BY <1>2, <1>6, <1>8, <1>10 DEF ReorderLoop, first

----------------------------------------------------------------------------
(* JSON *)

\* A merge of two values is a value.
LEMMA MergeType ==
    ASSUME NEW base \in Json, NEW patch \in Json
    PROVE  MergeJSON(base, patch) \in Json
<1> DEFINE f == patch.fields
           g == base.fields
<1>1. PICK K \in SUBSET Key : f \in [K -> Val] BY DEF Json, Fields
<1>2. PICK L \in SUBSET Key : g \in [L -> Val] BY DEF Json, Fields
<1>3. Over(f, g) \in [K \cup L -> Val] BY <1>1, <1>2 DEF Over
<1>4. Over(f, g) \in Fields BY <1>3 DEF Fields
<1>5. Object(Over(f, g)) \in Json BY <1>4 DEF Object, Json
<1> QED BY <1>5 DEF MergeJSON

\* What an accepted add or update stores is a value.
LEMMA EncodedType ==
    ASSUME NEW json \in Json
    PROVE  Encoded(json) \in Json
<1>1. EmptyObject \in [{} -> Val] BY DEF EmptyObject
<1>2. EmptyObject \in Fields BY <1>1 DEF Fields
<1> QED BY <1>2 DEF Encoded, Null, Json

----------------------------------------------------------------------------
(* One element more, one less, one changed *)

\* The first match is a match.
LEMMA FirstPlace ==
    ASSUME NEW els \in Seq(Element), NEW id \in Ids(els)
    PROVE  /\ Min(Places(els, id)) \in DOMAIN els
           /\ els[Min(Places(els, id))].id = id
           /\ DOMAIN els = 1 .. Len(els) /\ Len(els) \in Nat
<1>1. DOMAIN els = 1 .. Len(els) /\ Len(els) \in Nat BY LenProperties
<1>2. Places(els, id) \in SUBSET Nat /\ Places(els, id) # {}
    BY <1>1 DEF Places, Ids
<1>3. Min(Places(els, id)) \in Places(els, id) BY <1>2, MinIsLeast
<1> QED BY <1>1, <1>3 DEF Places

\* Appending an element whose id is new keeps ids distinct.
LEMMA AppendElement ==
    ASSUME NEW els \in Seq(Element), NEW e \in Element, e.id \notin Ids(els),
           DistinctIds(els)
    PROVE  Append(els, e) \in Seq(Element) /\ DistinctIds(Append(els, e))
<1> DEFINE n == Len(els)
<1>1. n \in Nat /\ DOMAIN els = 1 .. n BY LenProperties
<1>2. /\ Append(els, e) \in Seq(Element) /\ DOMAIN Append(els, e) = 1 .. n + 1
      /\ \A i \in 1 .. n : Append(els, e)[i] = els[i]
      /\ Append(els, e)[n + 1] = e
    BY <1>1, AppendProperties, LenProperties
<1>3. \A i \in 1 .. n : els[i].id # e.id BY <1>1 DEF Ids
<1>4. \A i \in 1 .. n + 1 : i \in 1 .. n \/ i = n + 1 BY <1>1
<1> HIDE DEF n
<1>5. DistinctIds(Append(els, e))
    <2> SUFFICES ASSUME NEW i \in 1 .. n + 1, NEW j \in 1 .. n + 1,
                        Append(els, e)[i].id = Append(els, e)[j].id
                 PROVE  i = j
        BY <1>2 DEF DistinctIds
    <2>1. CASE i \in 1 .. n /\ j \in 1 .. n BY <1>1, <1>2, <2>1 DEF DistinctIds
    <2>2. CASE i = n + 1 \/ j = n + 1 BY <1>2, <1>3, <1>4, <2>2
    <2> QED BY <1>4, <2>1, <2>2
<1> QED BY <1>2, <1>5

\* Cutting one element out of the list keeps ids distinct.
LEMMA WithoutElement ==
    ASSUME NEW els \in Seq(Element), NEW i \in DOMAIN els, DistinctIds(els)
    PROVE  Without(els, i) \in Seq(Element) /\ DistinctIds(Without(els, i))
<1> DEFINE n == Len(els)
           from(j) == IF j < i THEN j ELSE j + 1
<1>1. n \in Nat /\ DOMAIN els = 1 .. n /\ i \in 1 .. n BY LenProperties
<1>2. \A j \in 1 .. n - 1 : from(j) \in 1 .. n BY <1>1
<1>3. \A j, k \in 1 .. n - 1 : from(j) = from(k) => j = k BY <1>1
<1>4. Without(els, i) = [j \in 1 .. n - 1 |-> els[from(j)]] BY <1>1 DEF Without
<1>5. n - 1 \in Nat BY <1>1
<1> HIDE DEF n, from
<1>6. \A j \in 1 .. n - 1 : els[from(j)] \in Element BY <1>1, <1>2, ElementOfSeq
<1>7. Without(els, i) \in Seq(Element) BY <1>4, <1>5, <1>6, IsASeq
<1>8. DistinctIds(Without(els, i))
    <2> SUFFICES ASSUME NEW j \in 1 .. n - 1, NEW k \in 1 .. n - 1,
                        els[from(j)].id = els[from(k)].id
                 PROVE  j = k
        BY <1>4 DEF DistinctIds
    <2>1. from(j) = from(k) BY <1>1, <1>2 DEF DistinctIds
    <2> QED BY <1>3, <2>1
<1> QED BY <1>7, <1>8

\* Changing an element's version and data in place leaves the ids alone.
LEMMA SameIds ==
    ASSUME NEW els \in Seq(Element), NEW new \in Seq(Element), Len(new) = Len(els),
           \A i \in 1 .. Len(els) : new[i].id = els[i].id, DistinctIds(els)
    PROVE  DistinctIds(new)
<1>1. DOMAIN els = 1 .. Len(els) /\ DOMAIN new = 1 .. Len(els) BY LenProperties
<1> QED BY <1>1 DEF DistinctIds

----------------------------------------------------------------------------
(* The operations *)

GoodState(s) == s \in CanvasState /\ DistinctIds(s.elements)

\* The empty state is a good one.
LEMMA FreshGood == GoodState(FreshState)
<1>1. EmptyObject \in [{} -> Val] BY DEF EmptyObject
<1>2. EmptyObject \in Fields BY <1>1 DEF Fields
<1>3. Absent \in Json BY <1>2 DEF Absent, Json
<1>4. <<>> \in Seq(Element) /\ DOMAIN <<>> = {} BY EmptySeq
<1>5. DistinctIds(<<>>) BY <1>4 DEF DistinctIds
<1> QED BY <1>3, <1>4, <1>5 DEF GoodState, FreshState, CanvasState

\* An accepted operation answers with a good state when its list is good.
LEMMA AcceptedGood ==
    ASSUME NEW s, GoodState(s)
    PROVE  GoodState(Accepted(s).state)
BY DEF GoodState, Accepted, CanvasState

\* applyElementAdd keeps a good state good, and so does the insertion branch
\* of applyElementUpdate.
LEMMA AddGood ==
    ASSUME NEW s, GoodState(s), NEW op,
           op.elemId \in ElemId, op.version \in Int, op.props \in Json
    PROVE  /\ GoodState(ApplyElementAdd(s, op).state)
           /\ op.elemId \notin Ids(s.elements) => GoodState(ApplyElementUpdate(s, op).state)
<1>1. NewElement(op) \in Element /\ NewElement(op).id = op.elemId
    BY DEF NewElement, Element
<1>2. CASE op.elemId \in Ids(s.elements) BY <1>2 DEF ApplyElementAdd, Rejected
<1>3. CASE op.elemId \notin Ids(s.elements)
    <2> DEFINE t == [s EXCEPT !.elements = Append(@, NewElement(op))]
    <2>1. GoodState(t) BY <1>1, <1>3, AppendElement DEF GoodState, CanvasState
    <2>2. /\ ApplyElementAdd(s, op) = Accepted(t)
          /\ ApplyElementUpdate(s, op) = Accepted(t)
        BY <1>3 DEF ApplyElementAdd, ApplyElementUpdate
    <2> HIDE DEF t
    <2> QED BY <2>1, <2>2, AcceptedGood
<1> QED BY <1>2, <1>3

\* applyElementUpdate keeps a good state good.
LEMMA UpdateGood ==
    ASSUME NEW s, GoodState(s), NEW op,
           op.elemId \in ElemId, op.version \in Int, op.props \in Json
    PROVE  GoodState(ApplyElementUpdate(s, op).state)
<1> DEFINE els == s.elements
           i == Min(Places(els, op.elemId))
           new == [els EXCEPT ![i].data = MergeJSON(@, op.props),
                              ![i].version = op.version]
           t == [s EXCEPT !.elements[i].data = MergeJSON(@, op.props),
                          !.elements[i].version = op.version]
<1>1. CASE op.elemId \notin Ids(els) BY <1>1, AddGood
<1>2. CASE op.elemId \in Ids(els) /\ op.version <= els[i].version
    BY <1>2 DEF ApplyElementUpdate, Rejected
<1>3. CASE op.elemId \in Ids(els) /\ ~ (op.version <= els[i].version)
    <2>1. els \in Seq(Element) /\ s \in CanvasState BY DEF GoodState, CanvasState
    <2>2. i \in DOMAIN els /\ DOMAIN els = 1 .. Len(els) BY <1>3, <2>1, FirstPlace
    <2>3. els[i] \in Element BY <2>1, <2>2, ElementOfSeq
    <2>4. MergeJSON(els[i].data, op.props) \in Json BY <2>3, MergeType DEF Element
    <2> DEFINE e == [els[i] EXCEPT !.data = MergeJSON(@, op.props), !.version = op.version]
    <2>5. e \in Element /\ e.id = els[i].id BY <2>3, <2>4 DEF Element
    <2>6. new = [els EXCEPT ![i] = e] /\ t = [s EXCEPT !.elements = new]
        BY <2>1, <2>2, <2>3 DEF CanvasState, Element
    <2> HIDE DEF e, new
    <2>7. new \in Seq(Element) /\ Len(new) = Len(els)
        /\ \A j \in 1 .. Len(els) : new[j] = IF j = i THEN e ELSE els[j]
        BY <2>1, <2>2, <2>5, <2>6, ExceptSeq
    <2>8. DistinctIds(new) BY <2>1, <2>5, <2>7, SameIds DEF GoodState
    <2>9. GoodState(t) BY <2>1, <2>6, <2>7, <2>8 DEF GoodState, CanvasState
    <2>10. ApplyElementUpdate(s, op) = Accepted(t) BY <1>3 DEF ApplyElementUpdate
    <2> HIDE DEF t
    <2> QED BY <2>9, <2>10, AcceptedGood
<1> QED BY <1>1, <1>2, <1>3

\* applyElementDelete keeps a good state good.
LEMMA DeleteGood ==
    ASSUME NEW s, GoodState(s), NEW op
    PROVE  GoodState(ApplyElementDelete(s, op).state)
<1>1. CASE op.elemId \notin Ids(s.elements) BY <1>1 DEF ApplyElementDelete, Rejected
<1>2. CASE op.elemId \in Ids(s.elements)
    <2> DEFINE new == Without(s.elements, Min(Places(s.elements, op.elemId)))
               t == [s EXCEPT !.elements = new]
    <2>1. s.elements \in Seq(Element) BY DEF GoodState, CanvasState
    <2>2. new \in Seq(Element) /\ DistinctIds(new)
        BY <1>2, <2>1, FirstPlace, WithoutElement DEF GoodState
    <2>3. GoodState(t)
        <3> HIDE DEF new
        <3> QED BY <2>2 DEF GoodState, CanvasState
    <2>4. ApplyElementDelete(s, op) = Accepted(t) BY <1>2 DEF ApplyElementDelete
    <2> HIDE DEF t
    <2> QED BY <2>3, <2>4, AcceptedGood
<1> QED BY <1>1, <1>2

\* applyElementsReorder keeps a good state good.
LEMMA ReorderGood ==
    ASSUME NEW s, GoodState(s), NEW op, op.elemIds \in Seq(ElemId)
    PROVE  GoodState(ApplyElementsReorder(s, op).state)
<1> DEFINE new == Reordered(s.elements, op.elemIds)
           t == [s EXCEPT !.elements = new]
<1>1. new \in Seq(Element) /\ DistinctIds(new)
    BY ReorderedProperties DEF GoodState, CanvasState
<1>2. GoodState(t)
    <2> HIDE DEF new
    <2> QED BY <1>1 DEF GoodState, CanvasState
<1>3. ApplyElementsReorder(s, op) \in {Rejected(s), Accepted(t)}
    BY DEF ApplyElementsReorder
<1> HIDE DEF t
<1> QED BY <1>2, <1>3, AcceptedGood DEF Rejected

\* applyCanvasUpdate keeps a good state good.
LEMMA CanvasGood ==
    ASSUME NEW s, GoodState(s), NEW op, op.props \in Json
    PROVE  GoodState(ApplyCanvasUpdate(s, op).state)
<1> DEFINE t == [s EXCEPT !.props = MergeJSON(@, op.props)]
<1>1. MergeJSON(s.props, op.props) \in Json BY MergeType DEF GoodState, CanvasState
<1>2. GoodState(t) BY <1>1 DEF GoodState, CanvasState
<1> HIDE DEF t
<1> QED BY <1>2, AcceptedGood DEF ApplyCanvasUpdate, t

\* The text of a good state is the text of a good state.
LEMMA SerializeGood ==
    ASSUME NEW s, GoodState(s)
    PROVE  Serialize(s) \in Document /\ GoodState(Serialize(s).state)
<1> DEFINE els == s.elements
           new == [i \in DOMAIN els |-> [els[i] EXCEPT !.data = Encoded(@)]]
<1>1. s \in CanvasState /\ els \in Seq(Element) BY DEF GoodState, CanvasState
<1>2. DOMAIN els = 1 .. Len(els) /\ Len(els) \in Nat BY <1>1, LenProperties
<1>3. \A i \in 1 .. Len(els) : els[i] \in Element BY <1>1, ElementOfSeq
<1>4. \A i \in 1 .. Len(els) : [els[i] EXCEPT !.data = Encoded(@)] \in Element
    BY <1>3, EncodedType DEF Element
<1>5. new \in Seq(Element) BY <1>2, <1>4, IsASeq
<1>6. Len(new) = Len(els) BY <1>2, <1>5, LenProperties
<1>7. \A i \in 1 .. Len(els) : new[i].id = els[i].id BY <1>2, <1>3 DEF Element
<1>8. DistinctIds(new) BY <1>1, <1>5, <1>6, <1>7, SameIds DEF GoodState
<1>9. Encoded(s.props) \in Json BY <1>1, EncodedType DEF CanvasState
<1>10. Serialize(s) = [kind |-> "state",
                       state |-> [s EXCEPT !.elements = new, !.props = Encoded(@)]]
    BY DEF Serialize
<1> HIDE DEF new
<1>11. GoodState([s EXCEPT !.elements = new, !.props = Encoded(@)])
    BY <1>1, <1>5, <1>8, <1>9 DEF GoodState, CanvasState
<1> DEFINE t == [s EXCEPT !.elements = new, !.props = Encoded(@)]
<1>12. Serialize(s) = [kind |-> "state", state |-> t] /\ GoodState(t) BY <1>10, <1>11
<1> HIDE DEF t
<1>13. t \in CanvasState BY <1>12 DEF GoodState
<1> QED BY <1>12, <1>13 DEF Document

----------------------------------------------------------------------------
(* Operations sent again *)

\* There is an element of that id and of at least that version.
Known(s, op) ==
    \E i \in DOMAIN s.elements :
        s.elements[i].id = op.elemId /\ op.version <= s.elements[i].version

\* Then an add and an update of it are rejected.
LEMMA KnownIsRejected ==
    ASSUME NEW s, GoodState(s), NEW op, Known(s, op)
    PROVE  /\ ApplyElementAdd(s, op) = Rejected(s)
           /\ ApplyElementUpdate(s, op) = Rejected(s)
<1> PICK i \in DOMAIN s.elements :
        s.elements[i].id = op.elemId /\ op.version <= s.elements[i].version
    BY DEF Known
<1>1. op.elemId \in Ids(s.elements) /\ s.elements \in Seq(Element)
    BY DEF Ids, GoodState, CanvasState
<1>2. Min(Places(s.elements, op.elemId)) = i BY <1>1, FirstPlace DEF GoodState, DistinctIds
<1> QED BY <1>1, <1>2 DEF ApplyElementAdd, ApplyElementUpdate

\* An add or an update leaves an element of its id and of at least its
\* version behind, whether it is applied or not.
LEMMA UpdateIsKnown ==
    ASSUME NEW s, GoodState(s), NEW op \in Operation
    PROVE  /\ Known(ApplyElementUpdate(s, op).state, op)
           /\ op.elemId \notin Ids(s.elements) => Known(ApplyElementAdd(s, op).state, op)
<1> DEFINE els == s.elements
           i == Min(Places(els, op.elemId))
<1>1. s \in CanvasState /\ els \in Seq(Element) /\ op.version \in Int
    BY DEF GoodState, CanvasState, Operation
<1>2. CASE op.elemId \notin Ids(els)
    <2> DEFINE new == Append(els, NewElement(op))
    <2>1. /\ ApplyElementUpdate(s, op).state.elements = new
          /\ ApplyElementAdd(s, op).state.elements = new
        BY <1>1, <1>2 DEF ApplyElementAdd, ApplyElementUpdate, Accepted, CanvasState
    <2>2. NewElement(op) \in Element BY DEF NewElement, Element, Operation
    <2>3. Len(els) + 1 \in DOMAIN new /\ new[Len(els) + 1] = NewElement(op)
        BY <1>1, <2>2, AppendProperties, LenProperties
    <2> HIDE DEF new
    <2> QED BY <1>1, <2>1, <2>3 DEF NewElement, Known
<1>3. CASE op.elemId \in Ids(els) /\ op.version <= els[i].version
    <2>1. ApplyElementUpdate(s, op).state = s BY <1>3 DEF ApplyElementUpdate, Rejected
    <2> QED BY <1>1, <1>3, <2>1, FirstPlace DEF Known
<1>4. CASE op.elemId \in Ids(els) /\ ~ (op.version <= els[i].version)
    <2>1. i \in DOMAIN els /\ els[i].id = op.elemId BY <1>1, <1>4, FirstPlace
    <2>2. els[i] \in Element BY <1>1, <2>1, ElementOfSeq, LenProperties
    <2> DEFINE new == ApplyElementUpdate(s, op).state.elements
    <2>3. DOMAIN new = DOMAIN els /\ new[i].id = els[i].id /\ new[i].version = op.version
        BY <1>1, <1>4, <2>1, <2>2 DEF ApplyElementUpdate, Accepted, CanvasState, Element
    <2> QED BY <1>1, <1>4, <2>1, <2>3 DEF Known
<1> QED BY <1>2, <1>3, <1>4

\* A delete leaves no element of its id behind.
LEMMA DeleteIsGone ==
    ASSUME NEW s, GoodState(s), NEW op
    PROVE  op.elemId \notin Ids(ApplyElementDelete(s, op).state.elements)
<1> DEFINE els == s.elements
           i == Min(Places(els, op.elemId))
<1>1. s \in CanvasState /\ els \in Seq(Element) /\ DistinctIds(els) BY DEF GoodState, CanvasState
<1>2. CASE op.elemId \notin Ids(els) BY <1>2 DEF ApplyElementDelete, Rejected
<1>3. CASE op.elemId \in Ids(els)
    <2>1. i \in DOMAIN els /\ els[i].id = op.elemId /\ DOMAIN els = 1 .. Len(els) /\ Len(els) \in Nat
        BY <1>1, <1>3, FirstPlace
    <2>2. ApplyElementDelete(s, op).state.elements = Without(els, i)
        BY <1>1, <1>3 DEF ApplyElementDelete, Accepted, CanvasState
    <2> HIDE DEF i, els
    <2>3. ASSUME NEW j \in 1 .. Len(els) - 1 PROVE Without(els, i)[j].id # op.elemId
        <3> DEFINE k == IF j < i THEN j ELSE j + 1
        <3>1. k \in DOMAIN els /\ k # i BY <2>1
        <3>2. Without(els, i)[j] = els[k] BY <2>1 DEF Without
        <3> HIDE DEF k
        <3> QED BY <1>1, <2>1, <3>1, <3>2 DEF DistinctIds
    <2> QED BY <2>1, <2>2, <2>3 DEF Ids, Without
<1> QED BY <1>2, <1>3

\* "Stale/duplicate detection" (API.md:1130): an add, an update or a delete
\* that is sent a second time is not applied, whatever it did the first time.
THEOREM RepeatsAreRejected ==
    ASSUME NEW s, GoodState(s), NEW op \in Operation,
           op.type \in {"element_add", "element_update", "element_delete"}
    PROVE  LET t == Apply(s, op).state IN Apply(t, op) = Rejected(t)
<1>1. op.elemId \in ElemId /\ op.version \in Int /\ op.props \in Json BY DEF Operation
<1>2. CASE op.type = "element_update"
    <2> DEFINE t == ApplyElementUpdate(s, op).state
    <2>1. GoodState(t) BY <1>1, UpdateGood
    <2>2. ApplyElementUpdate(t, op) = Rejected(t)
        <3>1. Known(t, op) BY UpdateIsKnown
        <3> HIDE DEF t
        <3> QED BY <2>1, <3>1, KnownIsRejected
    <2> QED BY <1>2, <2>2 DEF Apply
<1>3. CASE op.type = "element_add" /\ op.elemId \notin Ids(s.elements)
    <2> DEFINE t == ApplyElementAdd(s, op).state
    <2>1. GoodState(t) BY <1>1, AddGood
    <2>2. ApplyElementAdd(t, op) = Rejected(t)
        <3>1. Known(t, op) BY <1>3, UpdateIsKnown
        <3> HIDE DEF t
        <3> QED BY <2>1, <3>1, KnownIsRejected
    <2> QED BY <1>3, <2>2 DEF Apply
<1>4. CASE op.type = "element_add" /\ op.elemId \in Ids(s.elements)
    BY <1>4 DEF Apply, ApplyElementAdd, Rejected
<1>5. CASE op.type = "element_delete"
    <2>1. op.elemId \notin Ids(Apply(s, op).state.elements) BY <1>5, DeleteIsGone DEF Apply
    <2> QED BY <1>5, <2>1 DEF Apply, ApplyElementDelete
<1> QED BY <1>2, <1>3, <1>4, <1>5
=============================================================================

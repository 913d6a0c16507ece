------------------------ MODULE AssignorRoundsProofs ------------------------
(***************************************************************************)
(* Proofs about a group over many rebalances.                              *)
(***************************************************************************)
EXTENDS AssignorRounds, AssignorProofs

-----------------------------------------------------------------------------
(* Fair shares, when everybody wants every topic. *)
EverybodyWants(members, sizes) ==
  \A t \in DOMAIN sizes : Subscribers(members, t) = MemberIds(members)

(* Everybody has had its turn as often as the others, or once more: c is   *)
(* how often it was the turn of the r-th of n within the first k turns.    *)
Turns(n, r, k, c) == n * (c - 1) + r < k /\ k <= n * c + r

(* A turn more: the member whose turn it is has had one more, and the      *)
(* others as many as before.                                               *)
LEMMA TurnTaken ==
  ASSUME NEW n \in Nat \ {0}, NEW r \in 0 .. n - 1, NEW k \in Nat, NEW c \in Nat, Turns(n, r, k, c)
  PROVE  Turns(n, r, k + 1, IF k % n = r THEN c + 1 ELSE c)
<1> DEFINE q == k \div n
<1>1. q \in Nat /\ k % n \in 0 .. n - 1 /\ k = n * q + (k % n)
  OBVIOUS
<1> HIDE DEF q
<1>2. n * (c - 1) = n * c - n /\ n * (c + 1) = n * c + n /\ n * c \in Int /\ n * q \in Int
  BY <1>1
<1>3. CASE k % n = r
  <2>1. n * c - n < n * q /\ n * q <= n * c
    BY <1>1, <1>2, <1>3 DEF Turns
  <2>2. c - 1 < q /\ q <= c
    BY <1>1, <1>2, <2>1
  <2>3. q = c
    BY <1>1, <2>2
  <2>4. n * ((c + 1) - 1) + r < k + 1 /\ k + 1 <= n * (c + 1) + r
    BY <1>1, <1>2, <1>3, <2>3
  <2> QED
    BY <1>3, <2>4, Zenon DEF Turns
<1>4. CASE k % n # r
  <2>1. k # n * c + r
    BY <1>4, ModOf, SMTT(20)
  <2>2. n * (c - 1) + r < k + 1 /\ k + 1 <= n * c + r
    BY <1>1, <1>2, <2>1 DEF Turns
  <2> QED
    BY <1>4, <2>2, Zenon DEF Turns
<1> QED
  BY <1>3, <1>4, Zenon

(* No member has had two turns more than another. *)
LEMMA TurnsEven ==
  ASSUME NEW n \in Nat \ {0}, NEW r \in 0 .. n - 1, NEW s \in 0 .. n - 1, NEW k \in Nat,
         NEW c \in Nat, NEW d \in Nat, Turns(n, r, k, c), Turns(n, s, k, d)
  PROVE  c - d \in {-1, 0, 1}
<1>1. /\ n * (c - 1) + r < n * d + s /\ n * (d - 1) + s < n * c + r
  <2>1. n * (c - 1) \in Int /\ n * d \in Int /\ n * (d - 1) \in Int /\ n * c \in Int
    OBVIOUS
  <2> QED
    BY <2>1 DEF Turns
<1>2. n * (c - 1) - n * d = n * (c - 1 - d) /\ n * (d - 1) - n * c = n * (d - 1 - c)
  OBVIOUS
<1>3. n * (c - 1 - d) < n /\ n * (d - 1 - c) < n
  BY <1>1, <1>2
<1>4. c - 1 - d < 1 /\ d - 1 - c < 1
  BY <1>3
<1> QED
  BY <1>4

(* When everybody wants tp the member whose turn it is gets it. *)
LEMMA DealTurn ==
  ASSUME NEW members, IsMembers(members), MemberIds(members) # {}, NEW sizes,
         NEW d \in Dealings(members, sizes), NEW tp \in AllPartitions(sizes),
         Subscribers(members, tp[1]) = MemberIds(members)
  PROVE  \E m \in MemberIds(members) :
           /\ Rank(MemberIds(members), m) = d.next % Cardinality(MemberIds(members))
           /\ Deal(members, d, tp).next = d.next + 1
           /\ Deal(members, d, tp).assignment = Given(d.assignment, m, tp)
<1> DEFINE ids == MemberIds(members)
           size == Cardinality(ids)
           at(k) == Ranked(ids, k % size)
           wants == {k \in d.next .. d.next + size - 1 : at(k) \in Subscribers(members, tp[1])}
           chosen == CHOOSE k \in wants : \A j \in wants : k <= j
           b == Deal(members, d, tp)
<1>1. ids \in SUBSET Nat /\ IsFiniteSet(ids)
  BY MembersFacts, Zenon
<1>2. size \in Nat \ {0}
  BY <1>1, RankOrder, Zenon
<1>3. d.next \in Nat
  BY Zenon DEF Dealings
<1>4. PICK m \in ids : Rank(ids, m) = d.next % size
  <2>1. d.next % size \in 0 .. size - 1
    BY <1>2, <1>3
  <2> QED
    BY <1>1, <1>2, <2>1, RankOnto, Zenon
<1>5. at(d.next) = m
  BY <1>1, <1>4, RankedRank, Zenon
<1>6. d.next \in wants /\ \A j \in wants : j \in Nat /\ d.next <= j
  BY <1>2, <1>3, <1>5
<1>7. chosen = d.next
  <2> HIDE DEF wants
  <2>1. chosen \in wants /\ \A j \in wants : chosen <= j
    BY <1>3, <1>6, Zenon
  <2> HIDE DEF chosen
  <2>2. chosen <= d.next /\ d.next <= chosen /\ chosen \in Nat
    BY <1>6, <2>1, Zenon
  <2> QED
    BY <1>3, <2>2
<1>8. b = [next |-> chosen + 1, assignment |-> Given(d.assignment, at(chosen), tp)]
  BY <1>6, Zenon DEF Deal, Given
<1> HIDE DEF chosen, at, b
<1>9. b.next = d.next + 1 /\ b.assignment = Given(d.assignment, m, tp)
  BY <1>5, <1>7, <1>8, Zenon
<1> QED
  BY <1>4, <1>9, Zenon DEF b

(* roundrobin gives two members that want the same the same number of      *)
(* partitions, to within one.                                              *)
LEMMA RoundRobinFair ==
  ASSUME NEW members, IsMembers(members), NEW sizes, IsCounts(sizes),
         EverybodyWants(members, sizes)
  PROVE  \A m, n \in MemberIds(members) :
           Cardinality(RoundRobinAssignor(members, sizes)[m])
             - Cardinality(RoundRobinAssignor(members, sizes)[n]) \in {-1, 0, 1}
<1> DEFINE ids == MemberIds(members)
           all == AllPartitions(sizes)
           size == Cardinality(ids)
<1> SUFFICES ASSUME ids # {}
             PROVE  \A m, n \in ids :
                      Cardinality(RoundRobinAssignor(members, sizes)[m])
                        - Cardinality(RoundRobinAssignor(members, sizes)[n]) \in {-1, 0, 1}
  BY Zenon
<1>1. RoundRobinAssignor(members, sizes) = DealAll(members, all)
  <2>1. members # <<>>
    BY DEF MemberIds
  <2> QED
    BY <2>1, Zenon DEF RoundRobinAssignor
<1>a. \E g : DealtOut(g, members, sizes, all)
  <2>1. all \in SUBSET AllPartitions(sizes)
    BY Zenon
  <2> HIDE DEF all
  <2> QED
    BY <2>1, DealAllIs, Zenon
<1>2. PICK g : DealtOut(g, members, sizes, all)
  BY <1>a, Zenon
<1>3. IsFiniteSet(all) /\ all \in SUBSET (Nat \X Nat)
  BY AllPartitionsFacts, Zenon
<1>4. ids \in SUBSET Nat /\ IsFiniteSet(ids)
  BY MembersFacts, Zenon
<1>5. size \in Nat \ {0} /\ \A m \in ids : Rank(ids, m) \in 0 .. size - 1
  BY <1>4, RankOrder, Zenon
<1> DEFINE Even(d, S) == \A m \in ids :
             /\ d.assignment[m] \subseteq S
             /\ Turns(size, Rank(ids, m), d.next, Cardinality(d.assignment[m]))
           Good == {S \in SUBSET all : Even(g[S], S)}
<1>6. ASSUME NEW S \in SUBSET all, \A U \in SUBSET S : U # S => U \in Good
      PROVE  S \in Good
  <2>1. CASE S = {}
    <3>1. g[S] = [next |-> 0, assignment |-> Nothing(members)]
      BY <1>2, <2>1, Zenon DEF Dealt, DealtOut
    <3>2. g[S].next = 0 /\ \A m \in ids : g[S].assignment[m] = {}
      BY <3>1 DEF Nothing
    <3>3. \A m \in ids : Turns(size, Rank(ids, m), 0, 0)
      <4> TAKE m \in ids
      <4>1. Rank(ids, m) \in Int /\ 0 <= Rank(ids, m) /\ Rank(ids, m) < size
        BY <1>5
      <4>2. size * (0 - 1) = -size /\ size * 0 = 0
        BY <1>5
      <4> QED
        BY <1>5, <4>1, <4>2 DEF Turns
    <3> HIDE DEF size
    <3> QED
      BY <2>1, <3>2, <3>3, FS_EmptySet, Zenon
  <2>2. CASE S # {}
    <3> DEFINE tp == LastOf(S)
               U == S \ {tp}
               d == g[U]
               e == g[S]
    <3>1. tp \in S
      <4>1. IsFiniteSet(S) /\ S \in SUBSET (Nat \X Nat)
        BY <1>3, FS_Subset, Zenon
      <4> QED
        BY <2>2, <4>1, LastOfIn, Zenon
    <3>2. U \in Good
      <4>1. U \in SUBSET S /\ U # S
        BY <3>1, Zenon
      <4> QED
        BY <1>6, <4>1, Zenon
    <3>3. e = Deal(members, d, tp)
      BY <1>2, <2>2, Zenon DEF Dealt, DealtOut
    <3>4. d \in Dealings(members, sizes) /\ e \in Dealings(members, sizes) /\ tp \in all
      BY <1>2, <3>1, Zenon DEF DealtOut
    <3>5. Subscribers(members, tp[1]) = ids
      BY <3>4, AllPartitionsFacts DEF EverybodyWants
    <3>6. Even(d, U)
      BY <3>2, Zenon
    <3> HIDE DEF tp, d, e
    <3>7. PICK m \in ids : /\ Rank(ids, m) = d.next % size
                           /\ e.next = d.next + 1 /\ e.assignment = Given(d.assignment, m, tp)
      BY <3>3, <3>4, <3>5, DealTurn
    <3>8. d.assignment \in [ids -> SUBSET all] /\ d.next \in Nat
      BY <3>4, Zenon DEF Dealings
    <3>9. /\ e.assignment[m] = d.assignment[m] \cup {tp}
          /\ \A n \in ids : n # m => e.assignment[n] = d.assignment[n]
      BY <3>7, <3>8, Zenon DEF Given
    <3>10. \A n \in ids : IsFiniteSet(d.assignment[n]) /\ Cardinality(d.assignment[n]) \in Nat
      BY <1>3, <3>8, FS_Subset, FS_CardinalityType, Zenon
    <3>11. tp \notin d.assignment[m]
      BY <3>6, Zenon
    <3>12. Cardinality(e.assignment[m]) = Cardinality(d.assignment[m]) + 1
      <4> DEFINE had == d.assignment[m]
      <4>1. IsFiniteSet(had) /\ tp \notin had
        BY <3>10, <3>11, Zenon
      <4> HIDE DEF had
      <4>2. Cardinality(had \cup {tp}) = Cardinality(had) + 1
        BY <4>1, FS_AddElement, Zenon
      <4> QED
        BY <3>9, <4>2, Zenon DEF had
    <3>13. \A n \in ids : n # m => Rank(ids, n) # d.next % size
      BY <1>4, <3>7, RankedRank, Zenon
    <3>14. ASSUME NEW n \in ids
           PROVE  Turns(size, Rank(ids, n), d.next + 1, Cardinality(e.assignment[n]))
      <4> DEFINE r == Rank(ids, n)
                 c == Cardinality(d.assignment[n])
                 k == d.next
      <4>1. r \in 0 .. size - 1 /\ c \in Nat /\ k \in Nat /\ Turns(size, r, k, c)
        BY <1>5, <3>6, <3>8, <3>10, Zenon
      <4>2. Cardinality(e.assignment[n]) = IF k % size = r THEN c + 1 ELSE c
        BY <3>7, <3>9, <3>12, <3>13, Zenon
      <4> HIDE DEF r, c, k, size
      <4>3. Turns(size, r, k + 1, IF k % size = r THEN c + 1 ELSE c)
        BY <1>5, <4>1, TurnTaken, Zenon
      <4> QED
        BY <4>2, <4>3, Zenon DEF r, k
    <3>15. \A n \in ids : e.assignment[n] \subseteq S
      BY <3>1, <3>6, <3>9, Zenon
    <3>16. Even(e, S)
      BY <3>7, <3>14, <3>15, Zenon
    <3> QED
      BY <3>16, Zenon DEF e
  <2> QED
    BY <2>1, <2>2, Zenon
<1> HIDE DEF Good
<1>7. \A S \in SUBSET all : S \in Good
  BY <1>3, <1>6, SubsetInduction, SMTT(20)
<1>8. all \in Good
  BY <1>7, Zenon
<1>9. Even(g[all], all)
  BY <1>8, Zenon DEF Good
<1>10. DealAll(members, all) = g[all].assignment /\ g[all].next \in Nat
       /\ g[all].assignment \in [ids -> SUBSET all]
  BY <1>2, Zenon DEF DealtOut, Dealings
<1> DEFINE a == g[all].assignment
           k == g[all].next
<1>11. \A m \in ids : Cardinality(a[m]) \in Nat /\ Turns(size, Rank(ids, m), k, Cardinality(a[m]))
  BY <1>3, <1>9, <1>10, FS_Subset, FS_CardinalityType, Zenon
<1>12. k \in Nat
  BY <1>10, Zenon
<1> HIDE DEF a, k, size
<1>13. \A m, n \in ids : Cardinality(a[m]) - Cardinality(a[n]) \in {-1, 0, 1}
  <2> TAKE m, n \in ids
  <2> QED
    BY <1>5, <1>11, <1>12, TurnsEven, Zenon
<1> QED
  BY <1>1, <1>10, <1>13, Zenon DEF a

(* If each of some disjoint sets has h elements there are h of each in     *)
(* their union.                                                            *)
LEMMA ShareBound ==
  ASSUME NEW ids, IsFiniteSet(ids), NEW U, IsFiniteSet(U), NEW a \in [ids -> SUBSET U],
         \A m, n \in ids : m # n => a[m] \cap a[n] = {},
         NEW h \in Nat, \A m \in ids : h <= Cardinality(a[m])
  PROVE  h * Cardinality(ids) <= Cardinality(U)
<1> DEFINE all(S) == UNION {a[m] : m \in S}
           Good == {S \in SUBSET ids : h * Cardinality(S) <= Cardinality(all(S))}
<1>1. \A S \in SUBSET ids : IsFiniteSet(all(S)) /\ Cardinality(all(S)) \in Nat
  <2> TAKE S \in SUBSET ids
  <2>1. all(S) \in SUBSET U
    BY Zenon
  <2> QED
    BY <2>1, FS_Subset, FS_CardinalityType, Zenon
<1>2. ASSUME NEW S \in SUBSET ids, \A T \in SUBSET S : T # S => T \in Good
      PROVE  S \in Good
  <2>1. CASE S = {}
    <3>1. Cardinality(S) = 0 /\ h * 0 = 0
      BY <2>1, FS_EmptySet
    <3>2. Cardinality(all(S)) \in Nat
      BY <1>1, Zenon
    <3> HIDE DEF all
    <3>3. h * Cardinality(S) <= Cardinality(all(S))
      BY <3>1, <3>2
    <3> QED
      BY <3>3, Zenon
  <2>2. CASE S # {}
    <3> DEFINE m == CHOOSE x \in S : TRUE
               T == S \ {m}
    <3>1. m \in S
      BY <2>2, Zenon
    <3> HIDE DEF m
    <3>2. T \in Good
      <4>1. T \in SUBSET S /\ T # S
        BY <3>1, Zenon
      <4> QED
        BY <1>2, <4>1, Zenon
    <3>3. IsFiniteSet(S) /\ Cardinality(S) \in Nat
      BY FS_Subset, FS_CardinalityType, Zenon
    <3>4. Cardinality(T) = Cardinality(S) - 1 /\ T \in SUBSET ids
      BY <3>1, <3>3, FS_RemoveElement, Zenon
    <3>5. all(S) = all(T) \cup a[m] /\ all(T) \cap a[m] = {}
      <4>1. all(S) = all(T) \cup a[m]
        BY <3>1, Zenon
      <4>2. \A n \in T : n # m /\ n \in ids
        BY Zenon
      <4> QED
        BY <3>1, <4>1, <4>2
    <3>6. a[m] \in SUBSET U /\ IsFiniteSet(a[m]) /\ Cardinality(a[m]) \in Nat
      <4>1. a[m] \in SUBSET U
        BY <3>1, Zenon
      <4> QED
        BY <4>1, FS_Subset, FS_CardinalityType, Zenon
    <3> DEFINE x == Cardinality(all(T))
               y == Cardinality(a[m])
               z == Cardinality(all(S))
               c == Cardinality(S)
    <3>7. z = x + y
      <4> HIDE DEF all
      <4>1. Cardinality(all(T) \cup a[m]) = x + y - Cardinality(all(T) \cap a[m])
        BY <1>1, <3>4, <3>6, FS_Union, Zenon
      <4>2. Cardinality(all(T) \cap a[m]) = 0
        BY <3>5, FS_EmptySet, Zenon
      <4>3. x \in Nat
        BY <1>1, <3>4, Zenon
      <4> QED
        BY <3>5, <3>6, <4>1, <4>2, <4>3
    <3>8. h * (c - 1) <= x
      BY <3>2, <3>4, Zenon
    <3>9. h <= y /\ x \in Nat /\ y \in Nat /\ c \in Nat
      BY <1>1, <3>1, <3>3, <3>4, <3>6, Zenon
    <3> HIDE DEF x, y, z, c
    <3>10. h * c = h * (c - 1) + h /\ h * c \in Int /\ h * (c - 1) \in Int
      BY <3>9
    <3>11. h * c <= z
      BY <3>7, <3>8, <3>9, <3>10
    <3> QED
      BY <3>11, Zenon DEF c, z
  <2> QED
    BY <2>1, <2>2, Zenon
<1> HIDE DEF Good
<1>3. \A S \in SUBSET ids : S \in Good
  BY <1>2, SubsetInduction, Zenon
<1>4. ids \in Good
  BY <1>3, Zenon
<1>5. all(ids) \in SUBSET U
  BY Zenon
<1>6. Cardinality(all(ids)) <= Cardinality(U) /\ Cardinality(U) \in Nat
  BY <1>5, FS_Subset, FS_CardinalityType, Zenon
<1>7. Cardinality(all(ids)) \in Nat /\ Cardinality(ids) \in Nat
  BY <1>1, FS_CardinalityType, Zenon
<1>8. h * Cardinality(ids) <= Cardinality(all(ids)) /\ h * Cardinality(ids) \in Int
  BY <1>4, <1>7 DEF Good
<1> HIDE DEF all
<1> QED
  BY <1>6, <1>7, <1>8

(* The first n of some partitions are no more than n. *)
LEMMA FirstOfBound ==
  ASSUME NEW tps \in SUBSET (Nat \X Nat), IsFiniteSet(tps), NEW n \in Nat
  PROVE  Cardinality(FirstOf(tps, n)) <= n /\ Cardinality(FirstOf(tps, n)) \in Nat
<1> DEFINE lower(tp) == {u \in tps : Before(u, tp)}
           f == [tp \in FirstOf(tps, n) |-> Cardinality(lower(tp))]
<1>1. \A tp \in tps : IsFiniteSet(lower(tp)) /\ Cardinality(lower(tp)) \in Nat
  BY FS_Subset, FS_CardinalityType, Zenon
<1>2. \A x, y \in tps : x # y => Before(x, y) \/ Before(y, x)
  BY DEF Before
<1>3. \A x, y, z \in tps : Before(x, y) /\ Before(y, z) => Before(x, z)
  BY DEF Before
<1>4. \A x \in tps : ~Before(x, x)
  BY DEF Before
<1>5. ASSUME NEW x \in tps, NEW y \in tps, Before(x, y)
      PROVE  Cardinality(lower(x)) < Cardinality(lower(y))
  <2>1. lower(x) \cup {x} \in SUBSET lower(y) /\ x \notin lower(x)
    BY <1>3, <1>4, <1>5, Zenon
  <2>2. Cardinality(lower(x) \cup {x}) = Cardinality(lower(x)) + 1
    BY <1>1, <2>1, FS_AddElement, Zenon
  <2>3. Cardinality(lower(x) \cup {x}) <= Cardinality(lower(y))
    BY <1>1, <2>1, FS_Subset, Zenon
  <2>4. Cardinality(lower(x)) \in Nat /\ Cardinality(lower(y)) \in Nat
    BY <1>1, Zenon
  <2> HIDE DEF lower
  <2> QED
    BY <2>2, <2>3, <2>4
<1>6. FirstOf(tps, n) \subseteq tps /\ \A tp \in FirstOf(tps, n) : Cardinality(lower(tp)) < n
  BY Zenon DEF FirstOf
<1>7. f \in [FirstOf(tps, n) -> 0 .. n - 1]
  <2>1. \A tp \in FirstOf(tps, n) : Cardinality(lower(tp)) \in 0 .. n - 1
    <3> TAKE tp \in FirstOf(tps, n)
    <3> DEFINE c == Cardinality(lower(tp))
    <3>1. c \in Nat /\ c < n
      BY <1>1, <1>6, Zenon
    <3> HIDE DEF c
    <3>2. c \in 0 .. n - 1
      BY <3>1
    <3> QED
      BY <3>2, Zenon DEF c
  <2> HIDE DEF lower
  <2> QED
    BY <2>1, Zenon
<1>8. \A x, y \in FirstOf(tps, n) : f[x] = f[y] => x = y
  <2> SUFFICES ASSUME NEW x \in FirstOf(tps, n), NEW y \in FirstOf(tps, n), f[x] = f[y], x # y
               PROVE  FALSE
    BY Zenon
  <2>1. x \in tps /\ y \in tps /\ Cardinality(lower(x)) = Cardinality(lower(y))
    BY <1>6, Zenon
  <2>2. Cardinality(lower(x)) \in Nat /\ Cardinality(lower(y)) \in Nat
    BY <1>1, <2>1, Zenon
  <2> HIDE DEF lower
  <2>3. ~Before(x, y) /\ ~Before(y, x)
    BY <1>5, <2>1, <2>2
  <2> QED
    BY <1>2, <2>1, <2>3, Zenon
<1> HIDE DEF f
<1>9. f \in Injection(FirstOf(tps, n), 0 .. n - 1)
  BY <1>7, <1>8, Zenon DEF Injection, IsInjective
<1> DEFINE last == n - 1
<1>10. last \in Int /\ f \in Injection(FirstOf(tps, n), 0 .. last)
  BY <1>9
<1> HIDE DEF last
<1>11. IsFiniteSet(0 .. last) /\ Cardinality(0 .. last) = IF 0 > last THEN 0 ELSE last - 0 + 1
  BY <1>10, FS_Interval
<1>12. IsFiniteSet(FirstOf(tps, n)) /\ Cardinality(FirstOf(tps, n)) <= Cardinality(0 .. last)
  BY <1>10, <1>11, FS_Injection, Zenon
<1>13. Cardinality(FirstOf(tps, n)) \in Nat
  BY <1>12, FS_CardinalityType, Zenon
<1>14. Cardinality(0 .. last) = n
  BY <1>11 DEF last
<1> QED
  BY <1>12, <1>13, <1>14, Zenon

(* No more than its fair share of all, rounded up. *)
Fair(members, sizes, a) ==
  \A m \in MemberIds(members) :
    Cardinality(MemberIds(members)) * (Cardinality(a[m]) - 1) < Cardinality(AllPartitions(sizes))

(* The quota is a fair share. *)
LEMMA QuotaFair ==
  ASSUME NEW members, IsMembers(members), NEW sizes, IsCounts(sizes),
         EverybodyWants(members, sizes), AllPartitions(sizes) # {},
         NEW m \in MemberIds(members)
  PROVE  /\ quota_of(members, sizes, m) \in Nat
         /\ Cardinality(MemberIds(members)) * (quota_of(members, sizes, m) - 1)
              < Cardinality(AllPartitions(sizes))
<1> DEFINE ids == MemberIds(members)
           all == AllPartitions(sizes)
           mine == SubscriptionOf(members, m).topics
           size == Cardinality(ids)
           total == Cardinality(all)
<1>1. IsFiniteSet(ids) /\ IsFiniteSet(all)
  BY MembersFacts, AllPartitionsFacts, Zenon
<1>2. size \in Nat \ {0} /\ total \in Nat
  BY <1>1, FS_EmptySet, FS_CardinalityType, Zenon
<1>3. \A tp \in all : tp[1] \in DOMAIN sizes
  BY AllPartitionsFacts
<1>4. \A n \in ids : \A t \in DOMAIN sizes : t \in SubscriptionOf(members, n).topics
  BY Zenon DEF EverybodyWants, Subscribers
<1>5. {tp \in all : tp[1] \in mine} = all
  BY <1>3, <1>4, Zenon
<1>6. {n \in ids : SubscriptionOf(members, n).topics \cap mine # {}} = ids
  BY <1>3, <1>4, Zenon
<1>7. quota_of(members, sizes, m) = (total + size - 1) \div size
  BY <1>2, <1>5, <1>6, Zenon DEF quota_of
<1> HIDE DEF total, size
<1> DEFINE w == total + size - 1
           q == w \div size
<1>8. w \in Nat
  BY <1>2
<1> HIDE DEF w
<1>9. q \in Nat /\ size * q <= w
  <2>1. q \in Nat /\ w % size \in 0 .. size - 1 /\ w = size * q + (w % size)
    BY <1>2, <1>8
  <2>2. size * q \in Int
    BY <1>2, <2>1
  <2> QED
    BY <1>2, <1>8, <2>1, <2>2
<1>10. quota_of(members, sizes, m) = q
  BY <1>7, Zenon DEF w
<1> HIDE DEF q
<1>11. size * (q - 1) = size * q - size /\ size * q \in Int
  BY <1>2, <1>9
<1>12. size * (q - 1) < total
  BY <1>2, <1>9, <1>11 DEF w
<1> QED
  BY <1>9, <1>10, <1>12, Zenon DEF size, total

(* Keeping and handing out give nobody more than that. *)
LEMMA KeepFair ==
  ASSUME NEW members, IsMembers(members), NEW sizes, IsCounts(sizes),
         EverybodyWants(members, sizes), AllPartitions(sizes) # {},
         NEW a, Valid(members, sizes, a), Fair(members, sizes, a), NEW m \in MemberIds(members)
  PROVE  Fair(members, sizes, Keep(members, sizes, a, m))
<1> DEFINE ids == MemberIds(members)
           all == AllPartitions(sizes)
           size == Cardinality(ids)
           taken == UNION {a[n] : n \in DOMAIN a}
           keepable == {tp \in live_claims(members)[m] \cap all :
                          tp \notin taken /\ m \in Subscribers(members, tp[1])}
           quota == quota_of(members, sizes, m)
           mine == FirstOf(keepable, quota)
           b == Keep(members, sizes, a, m)
           total == Cardinality(all)
<1>1. b = [a EXCEPT ![m] = mine]
  BY Zenon DEF Keep
<1>2. a \in [ids -> SUBSET all]
  BY Zenon DEF Valid
<1>3. b[m] = mine /\ \A n \in ids : n # m => b[n] = a[n]
  BY <1>1, <1>2, Zenon
<1>4. IsFiniteSet(all) /\ all \in SUBSET (Nat \X Nat) /\ IsFiniteSet(ids)
  BY AllPartitionsFacts, MembersFacts, Zenon
<1>5. keepable \in SUBSET (Nat \X Nat) /\ IsFiniteSet(keepable)
  <2>1. keepable \in SUBSET all
    BY Zenon
  <2> HIDE DEF keepable
  <2> QED
    BY <1>4, <2>1, FS_Subset, Zenon
<1> HIDE DEF keepable
<1>6. quota \in Nat /\ size * (quota - 1) < total
  BY QuotaFair, Zenon
<1> HIDE DEF quota
<1>7. Cardinality(mine) <= quota /\ Cardinality(mine) \in Nat
  BY <1>5, <1>6, FirstOfBound, Zenon
<1>8. size \in Nat /\ total \in Nat
  BY <1>4, FS_CardinalityType, Zenon
<1> DEFINE c == Cardinality(mine)
<1> HIDE DEF size, total, mine, b, c
<1>9. size * (c - 1) < total
  <2>1. c \in Nat /\ c <= quota
    BY <1>7, Zenon DEF c
  <2>2. size * (c - 1) <= size * (quota - 1)
    BY <1>6, <1>8, <2>1
  <2>3. size * (c - 1) \in Int /\ size * (quota - 1) \in Int
    BY <1>6, <1>8, <2>1
  <2> QED
    BY <1>6, <1>8, <2>2, <2>3
<1>10. \A n \in ids : size * (Cardinality(b[n]) - 1) < total
  BY <1>3, <1>9, Zenon DEF c, size, total, Fair
<1> QED
  BY <1>10, Zenon DEF Fair, size, total, b

(* Handing a partition to whoever holds fewest keeps every share fair. *)
LEMMA HandFair ==
  ASSUME NEW members, IsMembers(members), NEW sizes, IsCounts(sizes),
         EverybodyWants(members, sizes),
         NEW a, Valid(members, sizes, a), Fair(members, sizes, a),
         NEW tp \in AllPartitions(sizes), \A n \in MemberIds(members) : tp \notin a[n]
  PROVE  Fair(members, sizes, Hand(members, a, tp))
<1> DEFINE ids == MemberIds(members)
           all == AllPartitions(sizes)
           size == Cardinality(ids)
           total == Cardinality(all)
           b == Hand(members, a, tp)
<1>1. IsFiniteSet(all) /\ IsFiniteSet(ids) /\ tp[1] \in DOMAIN sizes
  BY AllPartitionsFacts, MembersFacts
<1>2. Subscribers(members, tp[1]) = ids
  BY <1>1, Zenon DEF EverybodyWants
<1>3. a \in [ids -> SUBSET all]
  BY Zenon DEF Valid
<1>4. CASE ids = {}
  BY <1>4, Zenon DEF Fair
<1>5. CASE ids # {}
  <2>1. PICK m \in ids : b = Given(a, m, tp) /\ Lightest(a, m, ids)
    BY <1>2, <1>3, <1>5, HandStep
  <2>2. b[m] = a[m] \cup {tp} /\ \A n \in ids : n # m => b[n] = a[n]
    BY <1>3, <2>1, Zenon DEF Given
  <2>3. IsFiniteSet(a[m]) /\ Cardinality(a[m]) \in Nat
    <3>1. a[m] \in SUBSET all
      BY <1>3, Zenon
    <3> QED
      BY <1>1, <3>1, FS_Subset, FS_CardinalityType, Zenon
  <2>4. Cardinality(b[m]) = Cardinality(a[m]) + 1
    <3> DEFINE had == a[m]
    <3>1. IsFiniteSet(had) /\ tp \notin had /\ b[m] = had \cup {tp}
      BY <2>2, <2>3, Zenon
    <3> HIDE DEF had, b
    <3> QED
      BY <3>1, FS_AddElement, Zenon DEF had
  <2> DEFINE rest == all \ {tp}
             h == Cardinality(a[m])
  <2>5. IsFiniteSet(rest) /\ Cardinality(rest) = total - 1
    BY <1>1, FS_RemoveElement, Zenon
  <2>6. a \in [ids -> SUBSET rest] /\ (\A k, n \in ids : k # n => a[k] \cap a[n] = {})
        /\ h \in Nat /\ \A n \in ids : h <= Cardinality(a[n])
    BY <1>3, <2>1, <2>3, Zenon DEF Valid, Lightest
  <2> HIDE DEF rest, h
  <2>7. h * size <= Cardinality(rest)
    BY <1>1, <2>5, <2>6, ShareBound, Zenon
  <2>8. size \in Nat /\ total \in Nat
    BY <1>1, FS_CardinalityType, Zenon
  <2> HIDE DEF size, total, b
  <2>9. size * ((h + 1) - 1) < total
    <3>1. size * ((h + 1) - 1) = h * size /\ h * size \in Int
      BY <2>6, <2>8
    <3> QED
      BY <2>5, <2>7, <2>8, <3>1, SMTT(20)
  <2>10. \A n \in ids : size * (Cardinality(b[n]) - 1) < total
    BY <2>2, <2>4, <2>9, Zenon DEF h, size, total, Fair
  <2> QED
    BY <2>10, Zenon DEF Fair, size, total, b
<1> QED
  BY <1>4, <1>5, Zenon

(* The sticky assignors give nobody more than a fair share rounded up,     *)
(* when everybody wants the same.                                          *)
LEMMA StickyFair ==
  ASSUME NEW members, IsMembers(members), NEW sizes, IsCounts(sizes),
         EverybodyWants(members, sizes), AllPartitions(sizes) # {}
  PROVE  Fair(members, sizes, StickyAssignor(members, sizes))
<1> DEFINE ids == MemberIds(members)
           all == AllPartitions(sizes)
<1>1. CASE ids = {}
  BY <1>1, Zenon DEF Fair
<1>2. CASE ids # {}
  <2> DEFINE kept == KeepAll(members, sizes)
             taken == UNION {kept[m] : m \in DOMAIN kept}
             tps == all \ taken
  <2>1. StickyAssignor(members, sizes) = HandAll(members, kept, tps)
    <3>1. members # <<>>
      BY <1>2 DEF MemberIds
    <3> QED
      BY <3>1, Zenon DEF StickyAssignor
  <2>2. IsFiniteSet(ids) /\ ids \in SUBSET Nat /\ IsFiniteSet(all) /\ all \in SUBSET (Nat \X Nat)
    BY MembersFacts, AllPartitionsFacts, Zenon
  <2>3. Valid(members, sizes, kept) /\ Fair(members, sizes, kept)
    <3>1. PICK g : Kept(g, members, sizes) /\ KeepAll(members, sizes) = g[ids]
      BY KeepAllIs, Zenon
    <3> DEFINE Good == {S \in SUBSET ids : Valid(members, sizes, g[S]) /\ Fair(members, sizes, g[S])}
    <3>2. Fair(members, sizes, Nothing(members))
      <4> SUFFICES ASSUME NEW m \in ids
                   PROVE  Cardinality(ids) * (Cardinality(Nothing(members)[m]) - 1) < Cardinality(all)
        BY Zenon DEF Fair
      <4>1. Cardinality(Nothing(members)[m]) = 0
        BY FS_EmptySet, Zenon DEF Nothing
      <4>2. Cardinality(ids) \in Nat /\ Cardinality(all) \in Nat \ {0}
        BY <2>2, FS_EmptySet, FS_CardinalityType, Zenon
      <4> HIDE DEF ids, all
      <4>3. Cardinality(ids) * (0 - 1) = -Cardinality(ids)
        BY <4>2
      <4> QED
        BY <4>1, <4>2, <4>3
    <3>3. ASSUME NEW S \in SUBSET ids, \A U \in SUBSET S : U # S => U \in Good
          PROVE  S \in Good
      <4>1. CASE S = {}
        BY <3>1, <3>2, <4>1, NothingValid, Zenon DEF Kept
      <4>2. CASE S # {}
        <5> DEFINE m == LastId(S)
                   U == S \ {m}
        <5>1. m \in S
          <6>1. IsFiniteSet(S) /\ S \in SUBSET Nat
            BY <2>2, FS_Subset, Zenon
          <6> QED
            BY <4>2, <6>1, LastIdIn, Zenon
        <5>2. U \in Good
          <6>1. U \in SUBSET S /\ U # S
            BY <5>1, Zenon
          <6> QED
            BY <3>3, <6>1, Zenon
        <5>3. g[S] = Keep(members, sizes, g[U], m)
          BY <3>1, <4>2, Zenon DEF Kept
        <5> HIDE DEF m
        <5> QED
          BY <5>1, <5>2, <5>3, KeepValid, KeepFair
      <4> QED
        BY <4>1, <4>2, Zenon
    <3> HIDE DEF Good
    <3>4. \A S \in SUBSET ids : S \in Good
      <4>1. IsFiniteSet(ids)
        BY <2>2
      <4> HIDE DEF ids
      <4> QED
        BY <3>3, <4>1, SubsetInduction, Zenon
    <3>5. ids \in Good
      BY <3>4, Zenon
    <3> QED
      BY <3>1, <3>5, Zenon DEF Good
  <2> HIDE DEF kept
  <2>4. kept \in [ids -> SUBSET all] /\ DOMAIN kept = ids
    BY <2>3, Zenon DEF Valid
  <2>5. tps \in SUBSET all /\ \A m \in ids : kept[m] \cap tps = {}
    BY <2>4, Zenon
  <2> HIDE DEF tps
  <2>6. PICK g : Handed(g, members, kept, tps) /\ HandAll(members, kept, tps) = g[tps]
    BY <2>4, <2>5, HandAllIs, Zenon
  <2>7. IsFiniteSet(tps) /\ tps \in SUBSET (Nat \X Nat)
    BY <2>2, <2>5, FS_Subset, Zenon
  <2> DEFINE Has(a, S) == \A m \in ids : a[m] \subseteq kept[m] \cup S
             Good == {S \in SUBSET tps : /\ Valid(members, sizes, g[S]) /\ Has(g[S], S)
                                         /\ Fair(members, sizes, g[S])}
  <2>8. ASSUME NEW S \in SUBSET tps, \A U \in SUBSET S : U # S => U \in Good
        PROVE  S \in Good
    <3>1. CASE S = {}
      BY <2>3, <2>6, <3>1, Zenon DEF Handed
    <3>2. CASE S # {}
      <4> DEFINE tp == LastOf(S)
                 U == S \ {tp}
                 a == g[U]
                 b == g[S]
      <4>1. tp \in S
        <5>1. IsFiniteSet(S) /\ S \in SUBSET (Nat \X Nat)
          BY <2>7, FS_Subset, Zenon
        <5> QED
          BY <3>2, <5>1, LastOfIn, Zenon
      <4>2. U \in Good
        <5>1. U \in SUBSET S /\ U # S
          BY <4>1, Zenon
        <5> QED
          BY <2>8, <5>1, Zenon
      <4>3. b = Hand(members, a, tp)
        BY <2>6, <3>2, Zenon DEF Handed
      <4> HIDE DEF tp, a, b
      <4>4. Valid(members, sizes, a) /\ Has(a, U) /\ Fair(members, sizes, a)
        BY <4>2, Zenon DEF a
      <4>5. tp \in all /\ \A m \in ids : tp \notin a[m]
        BY <2>5, <4>1, <4>4, Zenon
      <4>6. Fair(members, sizes, b)
        BY <4>3, <4>4, <4>5, HandFair, Zenon
      <4>7. Valid(members, sizes, b) /\ Has(b, S)
        <5>1. tp[1] \in DOMAIN sizes /\ a \in [ids -> SUBSET all]
          BY <4>4, <4>5, AllPartitionsFacts DEF Valid
        <5>2. Subscribers(members, tp[1]) = ids
          BY <5>1, Zenon DEF EverybodyWants
        <5>3. PICK m \in ids : b = Given(a, m, tp)
          BY <1>2, <4>3, <4>5, <5>1, <5>2, HandStep, SMTT(20)
        <5>4. /\ b \in [ids -> SUBSET all] /\ b[m] = a[m] \cup {tp}
              /\ \A n \in ids : n # m => b[n] = a[n]
          BY <4>5, <5>1, <5>3, Zenon DEF Given
        <5> HIDE DEF ids, all
        <5>5. Valid(members, sizes, b)
          BY <4>4, <4>5, <5>2, <5>4 DEF Valid, ids, all
        <5>6. Has(b, S)
          BY <4>1, <4>4, <5>4, Zenon
        <5> QED
          BY <5>5, <5>6, Zenon
      <4> QED
        BY <4>6, <4>7, Zenon DEF b
    <3> QED
      BY <3>1, <3>2, Zenon
  <2> HIDE DEF Good
  <2>9. \A S \in SUBSET tps : S \in Good
    BY <2>7, <2>8, SubsetInduction, Zenon
  <2>10. tps \in Good
    BY <2>9, Zenon
  <2> QED
    BY <2>1, <2>6, <2>10, Zenon DEF Good
<1> QED
  BY <1>1, <1>2, Zenon

(* The cooperative assignor gives nobody more than the sticky target it    *)
(* starts from, so its shares are fair too.                                *)
LEMMA CooperativeFair ==
  ASSUME NEW members, IsMembers(members), NEW sizes, IsCounts(sizes),
         EverybodyWants(members, sizes), AllPartitions(sizes) # {}
  PROVE  Fair(members, sizes, CooperativeStickyAssignor(members, sizes))
<1> DEFINE ids == MemberIds(members)
           all == AllPartitions(sizes)
           target == StickyAssignor(members, sizes)
           a == CooperativeStickyAssignor(members, sizes)
           size == Cardinality(ids)
<1>1. Fair(members, sizes, target) /\ Valid(members, sizes, target)
  BY StickyAssigns, StickyFair, Zenon
<1>2. DOMAIN target = ids /\ target \in [ids -> SUBSET all]
  BY <1>1, Zenon DEF Valid
<1>3. \A m \in ids : a[m] \subseteq target[m]
  BY <1>2, Zenon DEF CooperativeStickyAssignor
<1> HIDE DEF target, a
<1>4. IsFiniteSet(ids) /\ IsFiniteSet(all)
  BY MembersFacts, AllPartitionsFacts, Zenon
<1>5. size \in Nat /\ Cardinality(all) \in Nat
  BY <1>4, FS_CardinalityType, Zenon
<1> SUFFICES ASSUME NEW m \in ids PROVE size * (Cardinality(a[m]) - 1) < Cardinality(all)
  BY Zenon DEF Fair, a
<1> DEFINE c == Cardinality(a[m])
           d == Cardinality(target[m])
<1>6. IsFiniteSet(target[m])
  <2>1. target[m] \in SUBSET all
    BY <1>2, Zenon
  <2> QED
    BY <1>4, <2>1, FS_Subset, Zenon
<1>7. a[m] \in SUBSET target[m]
  BY <1>3, Zenon
<1>8. c \in Nat /\ d \in Nat /\ c <= d
  BY <1>6, <1>7, FS_Subset, FS_CardinalityType, Zenon
<1>9. size * (d - 1) < Cardinality(all)
  BY <1>1, Zenon DEF Fair
<1> HIDE DEF c, d, size
<1>10. size * (c - 1) <= size * (d - 1) /\ size * (c - 1) \in Int /\ size * (d - 1) \in Int
  BY <1>5, <1>8
<1>11. size * (c - 1) < Cardinality(all)
  BY <1>5, <1>9, <1>10
<1> QED
  BY <1>11, Zenon DEF c
-----------------------------------------------------------------------------
(* The second round of a handover. *)

(* No more partitions than n: all of them are among the first n. *)
LEMMA FirstOfAll ==
  ASSUME NEW tps \in SUBSET (Nat \X Nat), IsFiniteSet(tps), NEW n \in Nat, Cardinality(tps) <= n
  PROVE  FirstOf(tps, n) = tps
<1> SUFFICES ASSUME NEW tp \in tps PROVE Cardinality({u \in tps : Before(u, tp)}) < n
  BY Zenon DEF FirstOf
<1> DEFINE lower == {u \in tps : Before(u, tp)}
<1>1. lower \in SUBSET (tps \ {tp})
  BY DEF Before
<1>2. IsFiniteSet(tps \ {tp}) /\ Cardinality(tps \ {tp}) = Cardinality(tps) - 1
  BY FS_RemoveElement, Zenon
<1>3. Cardinality(lower) <= Cardinality(tps \ {tp}) /\ IsFiniteSet(lower)
  BY <1>1, <1>2, FS_Subset, Zenon
<1>4. Cardinality(lower) \in Nat /\ Cardinality(tps) \in Nat
  BY <1>3, FS_CardinalityType, Zenon
<1> HIDE DEF lower
<1>5. Cardinality(lower) < n
  BY <1>2, <1>3, <1>4
<1> QED
  BY <1>5, Zenon DEF lower

(* A fair share is within the quota. *)
LEMMA FairQuota ==
  ASSUME NEW members, IsMembers(members), NEW sizes, IsCounts(sizes),
         EverybodyWants(members, sizes), AllPartitions(sizes) # {},
         NEW m \in MemberIds(members), NEW c \in Nat,
         Cardinality(MemberIds(members)) * (c - 1) < Cardinality(AllPartitions(sizes))
  PROVE  quota_of(members, sizes, m) \in Nat /\ c <= quota_of(members, sizes, m)
<1> DEFINE ids == MemberIds(members)
           all == AllPartitions(sizes)
           size == Cardinality(ids)
           total == Cardinality(all)
           w == total + size - 1
           q == w \div size
<1>1. IsFiniteSet(ids) /\ IsFiniteSet(all)
  BY MembersFacts, AllPartitionsFacts, Zenon
<1>2. size \in Nat \ {0} /\ total \in Nat
  BY <1>1, FS_EmptySet, FS_CardinalityType, Zenon
<1>3. quota_of(members, sizes, m) = q
  <2> DEFINE mine == SubscriptionOf(members, m).topics
  <2>1. \A tp \in all : tp[1] \in DOMAIN sizes
    BY AllPartitionsFacts
  <2>2. \A n \in ids : \A t \in DOMAIN sizes : t \in SubscriptionOf(members, n).topics
    BY Zenon DEF EverybodyWants, Subscribers
  <2>3. {tp \in all : tp[1] \in mine} = all
    BY <2>1, <2>2, Zenon
  <2>4. {n \in ids : SubscriptionOf(members, n).topics \cap mine # {}} = ids
    BY <2>1, <2>2, Zenon
  <2> QED
    BY <1>2, <2>3, <2>4, Zenon DEF quota_of
<1>4. size * (c - 1) < total
  BY Zenon
<1> HIDE DEF size, total
<1>5. w \in Nat
  BY <1>2
<1>6. size * (c - 1) = size * c - size /\ size * c \in Int
  BY <1>2
<1>7. size * c <= w
  BY <1>2, <1>4, <1>6
<1> HIDE DEF w
<1>8. q \in Nat /\ w % size \in 0 .. size - 1 /\ w = size * q + (w % size)
  BY <1>2, <1>5
<1>9. c <= q
  <2> SUFFICES ASSUME c > q PROVE FALSE
    BY <1>8
  <2> HIDE DEF q
  <2>1. q + 1 <= c
    BY <1>8
  <2>2. size * (q + 1) <= size * c
    BY <1>2, <1>8, <2>1
  <2>3. size * (q + 1) = size * q + size /\ size * q \in Int
    BY <1>2, <1>8
  <2> QED
    BY <1>2, <1>6, <1>7, <1>8, <2>2, <2>3, SMTT(20)
<1> QED
  BY <1>3, <1>8, <1>9, Zenon

(* Claims as a round leaves them: of one date, of partitions there are,    *)
(* disjoint and fair.                                                      *)
Handover(members, sizes) ==
  /\ \E g \in Nat : \A i \in DOMAIN members : members[i].generation = g
  /\ \A i \in DOMAIN members : members[i].owned \subseteq AllPartitions(sizes)
  /\ \A i, j \in DOMAIN members : i # j => members[i].owned \cap members[j].owned = {}
  /\ \A i \in DOMAIN members :
       Cardinality(MemberIds(members)) * (Cardinality(members[i].owned) - 1)
         < Cardinality(AllPartitions(sizes))

(* Such claims are live, and no two members share one. *)
LEMMA HandoverClaims ==
  ASSUME NEW members, IsMembers(members), NEW sizes, Handover(members, sizes),
         NEW m \in MemberIds(members)
  PROVE  /\ live_claims(members)[m] = SubscriptionOf(members, m).owned
         /\ SubscriptionOf(members, m).owned \subseteq AllPartitions(sizes)
         /\ Cardinality(MemberIds(members)) * (Cardinality(SubscriptionOf(members, m).owned) - 1)
              < Cardinality(AllPartitions(sizes))
         /\ \A n \in MemberIds(members) : n # m =>
              SubscriptionOf(members, n).owned \cap SubscriptionOf(members, m).owned = {}
<1>1. PICK g \in Nat : \A i \in DOMAIN members : members[i].generation = g
  BY Zenon DEF Handover
<1>2. \A n \in MemberIds(members) :
        \E i \in DOMAIN members : members[i].member_id = n /\ SubscriptionOf(members, n) = members[i]
  BY MembersFacts, Zenon DEF MemberIds
<1>3. PICK i \in DOMAIN members : members[i].member_id = m /\ SubscriptionOf(members, m) = members[i]
  BY <1>2, Zenon
<1> DEFINE dates == {members[j].generation : j \in DOMAIN members}
           highest == CHOOSE h \in dates : \A j \in DOMAIN members : members[j].generation <= h
<1>4. dates = {g}
  BY <1>1, <1>3, Zenon
<1>5. g \in dates /\ \A j \in DOMAIN members : members[j].generation <= g
  BY <1>1, <1>4
<1>6. highest = g
  <2>1. highest \in dates
    BY <1>5, Zenon
  <2> QED
    BY <1>4, <2>1, Zenon
<1>7. live_claims(members)[m] = IF SubscriptionOf(members, m).generation >= highest /\ highest >= 0
                                THEN SubscriptionOf(members, m).owned ELSE {}
  BY Zenon DEF live_claims
<1> HIDE DEF highest
<1>8. live_claims(members)[m] = SubscriptionOf(members, m).owned
  BY <1>1, <1>3, <1>6, <1>7
<1>9. ASSUME NEW n \in MemberIds(members), n # m
      PROVE  SubscriptionOf(members, n).owned \cap SubscriptionOf(members, m).owned = {}
  <2>1. PICK j \in DOMAIN members : members[j].member_id = n /\ SubscriptionOf(members, n) = members[j]
    BY <1>2, Zenon
  <2>2. j # i
    BY <1>3, <1>9, <2>1, Zenon
  <2> QED
    BY <1>3, <2>1, <2>2, Zenon DEF Handover
<1> QED
  BY <1>3, <1>8, <1>9, Zenon DEF Handover

(* A member whose turn it is keeps all it claims. *)
LEMMA KeepWhole ==
  ASSUME NEW members, IsMembers(members), NEW sizes, IsCounts(sizes),
         EverybodyWants(members, sizes), AllPartitions(sizes) # {},
         Handover(members, sizes), NEW a, Valid(members, sizes, a), NEW m \in MemberIds(members),
         \A n \in MemberIds(members) : a[n] \cap SubscriptionOf(members, m).owned = {}
  PROVE  /\ Keep(members, sizes, a, m)[m] = SubscriptionOf(members, m).owned
         /\ \A n \in MemberIds(members) : n # m => Keep(members, sizes, a, m)[n] = a[n]
<1> DEFINE ids == MemberIds(members)
           all == AllPartitions(sizes)
           claim == SubscriptionOf(members, m).owned
           taken == UNION {a[n] : n \in DOMAIN a}
           keepable == {tp \in live_claims(members)[m] \cap all :
                          tp \notin taken /\ m \in Subscribers(members, tp[1])}
           quota == quota_of(members, sizes, m)
<1>1. Keep(members, sizes, a, m) = [a EXCEPT ![m] = FirstOf(keepable, quota)]
  BY Zenon DEF Keep
<1>2. a \in [ids -> SUBSET all] /\ DOMAIN a = ids
  BY Zenon DEF Valid
<1>3. live_claims(members)[m] = claim /\ claim \subseteq all
  BY HandoverClaims, Zenon
<1>4. \A tp \in all : m \in Subscribers(members, tp[1])
  <2>1. \A tp \in all : tp[1] \in DOMAIN sizes
    BY AllPartitionsFacts
  <2> QED
    BY <2>1, Zenon DEF EverybodyWants
<1>5. \A tp \in claim : tp \notin taken
  BY <1>2, Zenon
<1> HIDE DEF claim, taken
<1>6. keepable = claim
  BY <1>3, <1>4, <1>5, Zenon
<1>7. IsFiniteSet(claim) /\ claim \in SUBSET (Nat \X Nat)
  BY <1>3, AllPartitionsFacts, FS_Subset, Zenon
<1>8. Cardinality(claim) \in Nat
  BY <1>7, FS_CardinalityType, Zenon
<1>9. Cardinality(ids) * (Cardinality(claim) - 1) < Cardinality(all)
  BY HandoverClaims, Zenon DEF claim
<1>10. quota \in Nat /\ Cardinality(claim) <= quota
  BY <1>8, <1>9, FairQuota, Zenon
<1> HIDE DEF quota, keepable
<1>11. FirstOf(keepable, quota) = claim
  BY <1>6, <1>7, <1>10, FirstOfAll, Zenon
<1> QED
  BY <1>1, <1>2, <1>11, Zenon DEF claim

(* Everybody keeps what such claims say. *)
LEMMA KeepAllWhole ==
  ASSUME NEW members, IsMembers(members), NEW sizes, IsCounts(sizes),
         EverybodyWants(members, sizes), AllPartitions(sizes) # {}, Handover(members, sizes),
         NEW n \in MemberIds(members)
  PROVE  KeepAll(members, sizes)[n] = SubscriptionOf(members, n).owned
<1> DEFINE ids == MemberIds(members)
           claim(m) == SubscriptionOf(members, m).owned
           Holds(a, S) == /\ \A m \in S : a[m] = claim(m)
                          /\ \A m \in ids \ S : a[m] = {}
<1>1. PICK g : Kept(g, members, sizes) /\ KeepAll(members, sizes) = g[ids]
  BY KeepAllIs, Zenon
<1>2. IsFiniteSet(ids) /\ ids \in SUBSET Nat
  BY MembersFacts, Zenon
<1> DEFINE Good == {S \in SUBSET ids : Valid(members, sizes, g[S]) /\ Holds(g[S], S)}
<1>3. ASSUME NEW S \in SUBSET ids, \A U \in SUBSET S : U # S => U \in Good
      PROVE  S \in Good
  <2>1. CASE S = {}
    <3>1. g[S] = Nothing(members)
      BY <1>1, <2>1, Zenon DEF Kept
    <3> QED
      BY <2>1, <3>1, NothingValid DEF Nothing
  <2>2. CASE S # {}
    <3> DEFINE m == LastId(S)
               U == S \ {m}
    <3>1. m \in S
      <4>1. IsFiniteSet(S) /\ S \in SUBSET Nat
        BY <1>2, FS_Subset, Zenon
      <4> QED
        BY <2>2, <4>1, LastIdIn, Zenon
    <3>2. U \in Good
      <4>1. U \in SUBSET S /\ U # S
        BY <3>1, Zenon
      <4> QED
        BY <1>3, <4>1, Zenon
    <3>3. g[S] = Keep(members, sizes, g[U], m)
      BY <1>1, <2>2, Zenon DEF Kept
    <3> HIDE DEF m
    <3>4. Valid(members, sizes, g[U]) /\ Holds(g[U], U) /\ m \in ids
      BY <3>1, <3>2, Zenon
    <3>5. \A k \in ids : k # m => claim(k) \cap claim(m) = {}
      BY <3>4, HandoverClaims, Zenon
    <3> HIDE DEF claim
    <3>6. \A k \in ids : g[U][k] \cap claim(m) = {}
      <4> TAKE k \in ids
      <4>1. CASE k \in U
        BY <3>4, <3>5, <4>1, Zenon
      <4>2. CASE k \notin U
        BY <3>4, <4>2, Zenon
      <4> QED
        BY <4>1, <4>2, Zenon
    <3>7. /\ Keep(members, sizes, g[U], m)[m] = claim(m)
          /\ \A k \in ids : k # m => Keep(members, sizes, g[U], m)[k] = g[U][k]
      <4> DEFINE a == g[U]
      <4>1. /\ m \in MemberIds(members) /\ Valid(members, sizes, a)
            /\ \A k \in MemberIds(members) : a[k] \cap SubscriptionOf(members, m).owned = {}
        BY <3>4, <3>6, Zenon DEF claim
      <4> HIDE DEF a
      <4>2. /\ Keep(members, sizes, a, m)[m] = SubscriptionOf(members, m).owned
            /\ \A k \in MemberIds(members) : k # m => Keep(members, sizes, a, m)[k] = a[k]
        BY <4>1, KeepWhole
      <4> QED
        BY <4>2, Zenon DEF a, claim
    <3>8. Valid(members, sizes, g[S])
      BY <3>3, <3>4, KeepValid
    <3>9. Holds(g[S], S)
      BY <3>1, <3>3, <3>4, <3>7, Zenon
    <3> QED
      BY <3>8, <3>9, Zenon
  <2> QED
    BY <2>1, <2>2, Zenon
<1> HIDE DEF Good
<1>4. \A S \in SUBSET ids : S \in Good
  BY <1>2, <1>3, SubsetInduction
<1>5. ids \in Good
  BY <1>4, Zenon
<1> QED
  BY <1>1, <1>5, Zenon DEF Good

(* What was kept is not taken away when the rest is handed out. *)
LEMMA StickyKeeps ==
  ASSUME NEW members, IsMembers(members), NEW sizes, IsCounts(sizes), NEW n \in MemberIds(members)
  PROVE  KeepAll(members, sizes)[n] \subseteq StickyAssignor(members, sizes)[n]
<1> DEFINE ids == MemberIds(members)
           kept == KeepAll(members, sizes)
           taken == UNION {kept[m] : m \in DOMAIN kept}
           tps == AllPartitions(sizes) \ taken
<1>1. members # <<>>
  BY DEF MemberIds
<1>2. StickyAssignor(members, sizes) = HandAll(members, kept, tps)
  BY <1>1, Zenon DEF StickyAssignor
<1>3. Valid(members, sizes, kept)
  BY KeepAllValid, Zenon
<1> HIDE DEF kept
<1>4. /\ kept \in [ids -> SUBSET AllPartitions(sizes)]
      /\ tps \in SUBSET AllPartitions(sizes) /\ \A m \in ids : kept[m] \cap tps = {}
      /\ AllPartitions(sizes) \subseteq tps \cup UNION {kept[m] : m \in ids}
  BY <1>3, Zenon DEF Valid
<1> HIDE DEF tps
<1>5. \A m \in ids : kept[m] \subseteq HandAll(members, kept, tps)[m]
  BY <1>3, <1>4, HandAllAssigns, Zenon
<1> QED
  BY <1>2, <1>5, Zenon DEF kept

(* So the cooperative assignor leaves every member all it claims, once the *)
(* claims are what an earlier round left: nobody has to rejoin after that. *)
LEMMA CooperativeKeeps ==
  ASSUME NEW members, IsMembers(members), NEW sizes, IsCounts(sizes),
         EverybodyWants(members, sizes), Handover(members, sizes), NEW i \in DOMAIN members
  PROVE  members[i].owned
           \subseteq CooperativeStickyAssignor(members, sizes)[members[i].member_id]
<1> DEFINE n == members[i].member_id
           target == StickyAssignor(members, sizes)
<1>1. n \in MemberIds(members) /\ SubscriptionOf(members, n) = members[i]
  BY MembersFacts, Zenon DEF MemberIds
<1>2. CASE AllPartitions(sizes) = {}
  BY <1>2, Zenon DEF Handover
<1>3. CASE AllPartitions(sizes) # {}
  <2>1. members[i].owned \subseteq target[n]
    BY <1>1, <1>3, KeepAllWhole, StickyKeeps
  <2>2. DOMAIN target = MemberIds(members)
    BY StickyAssigns, Zenon DEF Valid
  <2>3. ASSUME NEW tp \in members[i].owned
        PROVE  OwnerOf(members, tp) \subseteq {n}
    <3>1. PICK j \in DOMAIN members : /\ tp \in members[j].owned
                                      /\ OwnerOf(members, tp) = {members[j].member_id}
      BY <2>3, OwnerClaims, Zenon
    <3>2. j = i
      BY <2>3, <3>1, Zenon DEF Handover
    <3> QED
      BY <3>1, <3>2, Zenon
  <2> HIDE DEF target
  <2>4. CooperativeStickyAssignor(members, sizes)[n]
          = {tp \in target[n] : OwnerOf(members, tp) \subseteq {n}}
    BY <1>1, <2>2, Zenon DEF CooperativeStickyAssignor, target
  <2> QED
    BY <2>1, <2>3, <2>4, Zenon
<1> QED
  BY <1>2, <1>3, Zenon

-----------------------------------------------------------------------------
(* A group over many rebalances. *)

(* What the leader is sent is one subscription per member of the group. *)
SentBy(members, s, i) ==
  /\ members[i].member_id = s.member_id /\ members[i].topics = s.topics
  /\ Cooperative => members[i] = s

(* What the coordinator lists for the leader is what the members of the    *)
(* group sent, each once.                                                  *)
LEMMA ClaimsSent ==
  ASSUME RoundsInv, NEW members \in Listings(Claims)
  PROVE  /\ IsMembers(members)
         /\ \A s \in group : \E i \in DOMAIN members : SentBy(members, s, i)
         /\ \A i \in DOMAIN members : \E s \in group : SentBy(members, s, i)
<1> DEFINE size == Cardinality(Claims)
           sent(s) == IF Cooperative THEN s ELSE [s EXCEPT !.owned = {}]
<1>1. TypeOK /\ IsFiniteSet(group)
  BY Zenon DEF RoundsInv
<1>2. /\ Claims = {sent(s) : s \in group}
      /\ \A s \in group : sent(s).member_id = s.member_id /\ sent(s).topics = s.topics
  BY <1>1, Zenon DEF Claims, TypeOK, Subscription
<1>3. IsFiniteSet(Claims)
  <2> DEFINE f == [s \in group |-> sent(s)]
  <2>1. f \in Surjection(group, Claims)
    BY <1>2, Zenon DEF Surjection
  <2> QED
    BY <1>1, <2>1, FS_Surjection, Zenon
<1>4. size \in Nat
  BY <1>3, FS_CardinalityType, Zenon
<1>5. /\ members \in [1 .. size -> Claims]
      /\ \A i, j \in 1 .. size : i # j => members[i] # members[j]
  BY Zenon DEF Listings, Bijection, Injection, IsInjective
<1>7. members \in Surjection(1 .. size, Claims)
  BY Zenon DEF Listings, Bijection
<1> HIDE DEF size, sent
<1>8. \A i \in 1 .. size : \E s \in group : members[i] = sent(s)
  BY <1>2, <1>5, Zenon
<1>9. \A s \in group : \E i \in 1 .. size : members[i] = sent(s)
  BY <1>2, <1>7, Zenon DEF Surjection
<1>10. IsMembers(members)
  <2>1. IsFiniteSet(1 .. size)
    BY <1>4, FS_Interval
  <2>2. \A i \in 1 .. size : members[i].member_id \in Nat
    <3>1. \A s \in group : s.member_id \in Nat
      BY <1>1, RoundsAssumption, Zenon DEF TypeOK, Subscription
    <3> QED
      BY <1>2, <1>8, <3>1
  <2>3. ASSUME NEW i \in 1 .. size, NEW j \in 1 .. size,
               members[i].member_id = members[j].member_id
        PROVE  i = j
    <3>1. PICK s \in group : members[i] = sent(s)
      BY <1>8, Zenon
    <3>2. PICK t \in group : members[j] = sent(t)
      BY <1>8, Zenon
    <3>3. s.member_id = t.member_id
      BY <1>2, <2>3, <3>1, <3>2, Zenon
    <3>4. s = t
      BY <1>1, <3>3, Zenon DEF TypeOK
    <3> QED
      BY <1>5, <3>1, <3>2, <3>4, Zenon
  <2> QED
    BY <1>5, <2>1, <2>2, <2>3 DEF IsMembers
<1>11. \A s \in group : \A i \in 1 .. size : members[i] = sent(s) => SentBy(members, s, i)
  BY <1>2, Zenon DEF SentBy, sent
<1> QED
  BY <1>5, <1>8, <1>9, <1>10, <1>11, Zenon

(* The subscribers of a topic are the members that want it. *)
LEMMA SubscribersAre ==
  ASSUME RoundsInv, NEW members \in Listings(Claims)
  PROVE  \A s \in group : \A t : s.member_id \in Subscribers(members, t) <=> t \in s.topics
<1> SUFFICES ASSUME NEW s \in group, NEW t
             PROVE  s.member_id \in Subscribers(members, t) <=> t \in s.topics
  BY Zenon
<1>1. IsMembers(members)
  BY ClaimsSent, Zenon
<1>2. PICK i \in DOMAIN members : SentBy(members, s, i)
  BY ClaimsSent, Zenon
<1>3. SubscriptionOf(members, s.member_id) = members[i]
  BY <1>1, <1>2, MembersFacts, Zenon DEF SentBy
<1>4. s.member_id \in MemberIds(members)
  BY <1>2, Zenon DEF MemberIds, SentBy
<1> QED
  BY <1>2, <1>3, <1>4, Zenon DEF Subscribers, SentBy

(* The leader looks up the counts of finitely many topics. *)
LEMMA WantedCounts ==
  ASSUME RoundsInv
  PROVE  /\ IsCounts(Wanted(group)) /\ AllPartitions(Wanted(group)) = Subscribed
         /\ Subscribed \subseteq Topics \X (0 .. MaxCount - 1)
<1> DEFINE topics == UNION {s.topics : s \in group}
<1>1. TypeOK
  BY Zenon DEF RoundsInv
<1>2. topics \subseteq Topics
  BY <1>1 DEF TypeOK, Subscription
<1>3. IsFiniteSet(topics)
  BY <1>2, RoundsAssumption, FS_Subset, Zenon
<1>4. \A t \in topics : counts[t] \in 0 .. MaxCount
  BY <1>1, <1>2, Zenon DEF TypeOK
<1>5. Wanted(group) = [t \in topics |-> counts[t]]
  BY Zenon DEF Wanted
<1>6. Subscribed = UNION {{t} \X (0 .. counts[t] - 1) : t \in topics}
  BY Zenon DEF Subscribed
<1> HIDE DEF topics
<1>7. IsCounts(Wanted(group))
  <2>1. DOMAIN Wanted(group) = topics /\ \A t \in topics : Wanted(group)[t] = counts[t]
    BY <1>5, Zenon
  <2>2. \A t \in topics : counts[t] \in Nat
    BY <1>4, RoundsAssumption
  <2>3. topics \subseteq Nat
    BY <1>2, RoundsAssumption, Zenon
  <2> QED
    BY <1>3, <2>1, <2>2, <2>3, Zenon DEF IsCounts
<1>8. AllPartitions(Wanted(group)) = Subscribed
  <2>1. DOMAIN Wanted(group) = topics /\ \A t \in topics : Wanted(group)[t] = counts[t]
    BY <1>5, Zenon
  <2>2. \A tp : tp \in AllPartitions(Wanted(group)) <=>
          \E t \in topics : tp \in {t} \X (0 .. Wanted(group)[t] - 1)
    BY <2>1, Zenon DEF AllPartitions
  <2>3. \A tp : tp \in Subscribed <=> \E t \in topics : tp \in {t} \X (0 .. counts[t] - 1)
    BY <1>6, Zenon
  <2>4. \A tp : tp \in AllPartitions(Wanted(group)) <=> tp \in Subscribed
    BY <2>1, <2>2, <2>3, Zenon
  <2> QED
    BY <2>4, Zenon
<1>9. Subscribed \subseteq Topics \X (0 .. MaxCount - 1)
  <2>1. ASSUME NEW t \in topics, NEW p \in 0 .. counts[t] - 1
        PROVE  t \in Topics /\ p \in 0 .. MaxCount - 1
    <3>1. counts[t] \in Nat /\ counts[t] <= MaxCount /\ MaxCount \in Nat
      BY <1>4, RoundsAssumption
    <3> QED
      BY <1>2, <3>1
  <2> SUFFICES ASSUME NEW tp \in Subscribed PROVE tp \in Topics \X (0 .. MaxCount - 1)
    BY Zenon
  <2>2. PICK t \in topics : tp \in {t} \X (0 .. counts[t] - 1)
    BY <1>6, Zenon
  <2>3. PICK p \in 0 .. counts[t] - 1 : tp = << t, p >>
    BY <2>2
  <2> QED
    BY <2>1, <2>3, Zenon
<1> QED
  BY <1>7, <1>8, <1>9, Zenon

(* What a round gives the members of the group. *)
Outcome(a) ==
  /\ \A s \in group : a[s.member_id] \subseteq Subscribed
  /\ \A s \in group : \A tp \in a[s.member_id] : tp[1] \in s.topics
  /\ \A s, t \in group : s # t => a[s.member_id] \cap a[t.member_id] = {}
  /\ (Cooperative => \A s \in group : s.owned \subseteq a[s.member_id])
       => \A tp \in Subscribed : \E s \in group : tp \in a[s.member_id]
  /\ Cooperative =>
       \A s, t \in group : s # t => (a[s.member_id] \ s.owned) \cap t.owned = {}

(* Every assignor gives a group that rebalances partitions of topics they  *)
(* want, none twice; all of them once nobody has to give anything up; and, *)
(* cooperatively, none that another member still reads.                    *)
LEMMA RoundOutcome ==
  ASSUME RoundsInv, NEW members \in Listings(Claims),
         NEW a, a = Assign(members, Wanted(group))
  PROVE  Outcome(a)
<1> DEFINE cs == Wanted(group)
           ids == MemberIds(members)
<1>1. TypeOK
  BY Zenon DEF RoundsInv
<1>2. /\ IsMembers(members)
      /\ \A s \in group : \E i \in DOMAIN members : SentBy(members, s, i)
      /\ \A i \in DOMAIN members : \E s \in group : SentBy(members, s, i)
  BY ClaimsSent, Zenon
<1>3. IsCounts(cs) /\ AllPartitions(cs) = Subscribed
  BY WantedCounts, Zenon
<1> HIDE DEF cs
<1>4. /\ Valid(members, cs, a)
      /\ (Cooperative => \A i \in DOMAIN members : members[i].owned \subseteq a[members[i].member_id])
           => Complete(members, cs, a)
      /\ Cooperative => \A i, j \in DOMAIN members : i # j =>
           (a[members[i].member_id] \ members[i].owned) \cap members[j].owned = {}
  <2>1. CASE strategy = "range"
    BY <1>2, <1>3, <2>1, RangeAssigns, Zenon DEF Assign, Cooperative, cs
  <2>2. CASE strategy = "roundrobin"
    BY <1>2, <1>3, <2>2, RoundRobinAssigns, Zenon DEF Assign, Cooperative, cs
  <2>3. CASE strategy = "sticky"
    BY <1>2, <1>3, <2>3, StickyAssigns, Zenon DEF Assign, Cooperative, cs
  <2>4. CASE strategy = "cooperative-sticky"
    <3>1. a = CooperativeStickyAssignor(members, cs)
      BY <2>4, Zenon DEF Assign, cs
    <3> QED
      BY <1>2, <1>3, <2>4, <3>1, CooperativeAssigns, Zenon DEF Cooperative
  <2> QED
    BY <1>1, <2>1, <2>2, <2>3, <2>4, Zenon DEF TypeOK, Strategy
<1>5. \A s \in group : s.member_id \in ids
  BY <1>2, Zenon DEF MemberIds, SentBy
<1>6. \A m \in ids : \E s \in group : s.member_id = m
  BY <1>2 DEF MemberIds, SentBy
<1>7. \A s \in group : \A t : s.member_id \in Subscribers(members, t) <=> t \in s.topics
  BY SubscribersAre, Zenon
<1>8. \A s, t \in group : s # t => s.member_id # t.member_id
  BY <1>1, Zenon DEF TypeOK
<1> HIDE DEF ids
<1>9. \A s \in group : a[s.member_id] \subseteq Subscribed
  BY <1>3, <1>4, <1>5, Zenon DEF Valid, ids
<1>10. \A s \in group : \A tp \in a[s.member_id] : tp[1] \in s.topics
  BY <1>4, <1>5, <1>7, Zenon DEF Valid, ids
<1>11. \A s, t \in group : s # t => a[s.member_id] \cap a[t.member_id] = {}
  BY <1>4, <1>5, <1>8, Zenon DEF Valid, ids
<1>12. ASSUME Cooperative => \A s \in group : s.owned \subseteq a[s.member_id], NEW tp \in Subscribed
       PROVE  \E s \in group : tp \in a[s.member_id]
  <2>1. Complete(members, cs, a)
    <3> SUFFICES ASSUME Cooperative, NEW i \in DOMAIN members
                 PROVE  members[i].owned \subseteq a[members[i].member_id]
      BY <1>4, Zenon
    <3>1. PICK s \in group : SentBy(members, s, i)
      BY <1>2, Zenon
    <3> QED
      BY <1>12, <3>1, Zenon DEF SentBy
  <2>2. PICK s \in group : tp[1] \in s.topics
    BY DEF Subscribed
  <2>3. \E m \in ids : tp \in a[m]
    BY <1>3, <1>7, <2>1, <2>2, Zenon DEF Complete, ids
  <2> QED
    BY <1>6, <2>3, Zenon
<1>13. ASSUME Cooperative, NEW s \in group, NEW t \in group, s # t
       PROVE  (a[s.member_id] \ s.owned) \cap t.owned = {}
  <2>1. PICK i \in DOMAIN members : SentBy(members, s, i)
    BY <1>2, Zenon
  <2>2. PICK j \in DOMAIN members : SentBy(members, t, j)
    BY <1>2, Zenon
  <2>3. members[i] = s /\ members[j] = t /\ i # j
    BY <1>13, <2>1, <2>2, Zenon DEF SentBy
  <2> QED
    BY <1>4, <1>13, <2>3, Zenon
<1> QED
  BY <1>9, <1>10, <1>11, <1>12, <1>13, Zenon DEF Outcome

(* Under range the blocks of a topic follow each other in the order of the *)
(* members, an earlier one as long as or one longer than a later one.      *)
LEMMA RangeOutcome ==
  ASSUME RoundsInv, strategy = "range", NEW members \in Listings(Claims),
         NEW a, a = Assign(members, Wanted(group)),
         NEW s \in group, NEW u \in group, NEW t \in s.topics \cap u.topics,
         s.member_id < u.member_id
  PROVE  /\ \A i \in Of(a[s.member_id], t), j \in Of(a[u.member_id], t) : i < j
         /\ Cardinality(Of(a[s.member_id], t)) - Cardinality(Of(a[u.member_id], t)) \in {0, 1}
<1> DEFINE cs == Wanted(group)
<1>1. IsMembers(members) /\ IsCounts(cs)
  BY ClaimsSent, WantedCounts, Zenon
<1>2. a = RangeAssignor(members, cs)
  BY Zenon DEF Assign
<1>3. t \in DOMAIN cs
  BY Zenon DEF Wanted
<1>4. s.member_id \in Subscribers(members, t) /\ u.member_id \in Subscribers(members, t)
  BY SubscribersAre, Zenon
<1> HIDE DEF cs
<1> QED
  BY <1>1, <1>2, <1>3, <1>4, RangeContiguous, Zenon

(* What the leader works on when everyone wants the same topics. *)
LEMMA SameWants ==
  ASSUME RoundsInv, NEW members \in Listings(Claims), SameTopics
  PROVE  /\ IsMembers(members) /\ IsCounts(Wanted(group))
         /\ AllPartitions(Wanted(group)) = Subscribed
         /\ EverybodyWants(members, Wanted(group))
         /\ Cardinality(MemberIds(members)) = Cardinality(group)
         /\ \A s \in group : s.member_id \in MemberIds(members)
<1> DEFINE cs == Wanted(group)
           ids == MemberIds(members)
<1>0. TypeOK /\ IsFiniteSet(group)
  BY Zenon DEF RoundsInv
<1>1. /\ IsMembers(members)
      /\ \A u \in group : \E i \in DOMAIN members : SentBy(members, u, i)
      /\ \A i \in DOMAIN members : \E u \in group : SentBy(members, u, i)
  BY ClaimsSent, Zenon
<1>2. IsCounts(cs) /\ AllPartitions(cs) = Subscribed
  BY WantedCounts, Zenon
<1>3. DOMAIN cs = UNION {u.topics : u \in group}
  BY Zenon DEF Wanted
<1>4. ids = {u.member_id : u \in group}
  <2>1. \A u \in group : u.member_id \in ids
    BY <1>1, Zenon DEF MemberIds, SentBy
  <2>2. \A m \in ids : \E u \in group : u.member_id = m
    BY <1>1 DEF MemberIds, SentBy
  <2> QED
    BY <2>1, <2>2, Zenon
<1>5. EverybodyWants(members, cs)
  <2> SUFFICES ASSUME NEW u \in DOMAIN cs PROVE Subscribers(members, u) = ids
    BY Zenon DEF EverybodyWants
  <2>1. \A v \in group : u \in v.topics
    BY <1>3, Zenon DEF SameTopics
  <2>2. \A m \in ids : m \in Subscribers(members, u)
    BY <1>4, <2>1, SubscribersAre, Zenon
  <2> QED
    BY <2>2, Zenon DEF Subscribers
<1>6. Cardinality(ids) = Cardinality(group)
  <2> DEFINE f == [u \in group |-> u.member_id]
  <2>1. f \in Surjection(group, ids) /\ f \in Injection(group, ids)
    BY <1>0, <1>4, Zenon DEF TypeOK, Surjection, Injection, IsInjective
  <2> QED
    BY <1>0, <2>1, FS_Surjection, Zenon
<1>7. \A s \in group : s.member_id \in ids
  BY <1>4, Zenon
<1> QED
  BY <1>1, <1>2, <1>5, <1>6, <1>7, Zenon

(* Shares are fair when everyone wants the same topics. *)
FairOutcome(a) ==
  SameTopics =>
    \A s, t \in group :
      /\ strategy = "roundrobin" =>
           Cardinality(a[s.member_id]) - Cardinality(a[t.member_id]) \in {-1, 0, 1}
      /\ strategy \in {"sticky", "cooperative-sticky"} =>
           Cardinality(group) * (Cardinality(a[s.member_id]) - 1) < Cardinality(Subscribed)

(* Every round deals fair shares to members that want the same topics, by  *)
(* the assignor in use.                                                    *)
LEMMA SharesFair ==
  ASSUME RoundsInv, NEW members \in Listings(Claims),
         NEW a, a = Assign(members, Wanted(group))
  PROVE  FairOutcome(a)
<1> DEFINE cs == Wanted(group)
           ids == MemberIds(members)
<1> SUFFICES ASSUME SameTopics, NEW s \in group, NEW t \in group
             PROVE  /\ strategy = "roundrobin" =>
                         Cardinality(a[s.member_id]) - Cardinality(a[t.member_id]) \in {-1, 0, 1}
                    /\ strategy \in {"sticky", "cooperative-sticky"} =>
                         Cardinality(group) * (Cardinality(a[s.member_id]) - 1)
                           < Cardinality(Subscribed)
  BY Zenon DEF FairOutcome
<1>0. IsFiniteSet(group)
  BY Zenon DEF RoundsInv
<1>1. /\ IsMembers(members) /\ IsCounts(cs) /\ AllPartitions(cs) = Subscribed
      /\ EverybodyWants(members, cs) /\ Cardinality(ids) = Cardinality(group)
      /\ s.member_id \in ids /\ t.member_id \in ids
  BY SameWants, Zenon
<1> HIDE DEF cs
<1>2. ASSUME strategy = "roundrobin"
      PROVE  Cardinality(a[s.member_id]) - Cardinality(a[t.member_id]) \in {-1, 0, 1}
  <2>1. a = RoundRobinAssignor(members, cs)
    BY <1>2, Zenon DEF Assign, cs
  <2> QED
    BY <1>1, <2>1, RoundRobinFair, Zenon
<1>3. ASSUME strategy \in {"sticky", "cooperative-sticky"}
      PROVE  Cardinality(group) * (Cardinality(a[s.member_id]) - 1) < Cardinality(Subscribed)
  <2>1. CASE Subscribed = {}
    <3>1. a[s.member_id] = {}
      BY <2>1, RoundOutcome, Zenon DEF Outcome
    <3>2. Cardinality(a[s.member_id]) = 0 /\ Cardinality(Subscribed) = 0
      BY <2>1, <3>1, FS_EmptySet, Zenon
    <3>3. Cardinality(group) \in Nat \ {0}
      BY <1>0, FS_EmptySet, FS_CardinalityType, Zenon
    <3> DEFINE n == Cardinality(group)
    <3> HIDE DEF n
    <3>4. n * (0 - 1) < 0
      BY <3>3 DEF n
    <3> QED
      BY <3>2, <3>4, Zenon DEF n
  <2>2. CASE Subscribed # {}
    <3>1. Fair(members, cs, a)
      <4>1. CASE strategy = "sticky"
        <5>1. a = StickyAssignor(members, cs)
          BY <4>1, Zenon DEF Assign, cs
        <5> QED
          BY <1>1, <2>2, <5>1, StickyFair, Zenon
      <4>2. CASE strategy = "cooperative-sticky"
        <5>1. a = CooperativeStickyAssignor(members, cs)
          BY <4>2, Zenon DEF Assign, cs
        <5> QED
          BY <1>1, <2>2, <5>1, CooperativeFair, Zenon
      <4> QED
        BY <1>3, <4>1, <4>2, Zenon
    <3> QED
      BY <1>1, <3>1, Zenon DEF Fair
  <2> QED
    BY <2>1, <2>2, Zenon
<1> QED
  BY <1>2, <1>3, Zenon

(* A round that follows another takes nothing from a member that wants     *)
(* what the others want.                                                   *)
LEMMA SecondRound ==
  ASSUME RoundsInv, Cooperative, SameTopics, rounds > 0, NEW members \in Listings(Claims),
         NEW s \in group
  PROVE  s.owned \subseteq Assign(members, Wanted(group))[s.member_id]
<1> DEFINE cs == Wanted(group)
<1>1. /\ IsMembers(members) /\ IsCounts(cs) /\ AllPartitions(cs) = Subscribed
      /\ EverybodyWants(members, cs) /\ Cardinality(MemberIds(members)) = Cardinality(group)
  BY SameWants, Zenon
<1>2. Assign(members, cs) = CooperativeStickyAssignor(members, cs)
  BY Zenon DEF Assign, Cooperative
<1> HIDE DEF cs
<1>3. /\ \A u \in group : \E i \in DOMAIN members : members[i] = u
      /\ \A i \in DOMAIN members : members[i] \in group
  BY ClaimsSent, Zenon DEF SentBy
<1>4. \A u \in group :
        /\ u.generation = generation /\ u.owned \subseteq Subscribed
        /\ Cardinality(group) * (Cardinality(u.owned) - 1) < Cardinality(Subscribed)
  BY Zenon DEF RoundsInv, TwoRounds
<1>5. \A u, v \in group : u # v => u.owned \cap v.owned = {}
  BY <1>4, Zenon DEF RoundsInv
<1>6. \A i, j \in DOMAIN members : i # j => members[i] # members[j]
  BY <1>1, Zenon DEF IsMembers
<1>7. Handover(members, cs)
  <2>1. generation \in Nat
    BY Zenon DEF RoundsInv, TypeOK
  <2> QED
    BY <1>1, <1>3, <1>4, <1>5, <1>6, <2>1, Zenon DEF Handover
<1>8. PICK i \in DOMAIN members : members[i] = s
  BY <1>3, Zenon
<1>9. members[i].owned \subseteq CooperativeStickyAssignor(members, cs)[members[i].member_id]
  BY <1>1, <1>7, CooperativeKeeps, Zenon
<1> QED
  BY <1>2, <1>8, <1>9, Zenon DEF cs

(* The group after a round. *)
After(a) ==
  {[s EXCEPT !.owned = a[s.member_id], !.generation = generation + 1] : s \in group}

(* What member s of the group has become. *)
Became(s, s2, a) ==
  /\ s2.member_id = s.member_id /\ s2.topics = s.topics
  /\ s2.owned = a[s.member_id] /\ s2.generation = generation + 1
  /\ s2 \in Subscription
  /\ s2 = [s EXCEPT !.owned = a[s.member_id], !.generation = generation + 1]

(* A round keeps what a member is and wants. *)
LEMMA AfterIs ==
  ASSUME RoundsInv, NEW a, Outcome(a), NEW s2 \in After(a)
  PROVE  \E s \in group : Became(s, s2, a)
<1>1. TypeOK
  BY Zenon DEF RoundsInv
<1>2. PICK s \in group :
        s2 = [s EXCEPT !.owned = a[s.member_id], !.generation = generation + 1]
  BY Zenon DEF After
<1>3. s \in Subscription /\ generation + 1 \in Nat
  BY <1>1 DEF TypeOK
<1>4. a[s.member_id] \subseteq Topics \X (0 .. MaxCount - 1)
  BY WantedCounts, Zenon DEF Outcome
<1> QED
  BY <1>2, <1>3, <1>4, Zenon DEF Subscription, Became

(* A rebalance is a round, with its outcome. *)
LEMMA RebalanceStep ==
  ASSUME RoundsInv, Rebalance
  PROVE  RoundsInv'
<1>0. TypeOK /\ IsFiniteSet(group)
  BY Zenon DEF RoundsInv
<1>1. PICK members \in Listings(Claims) :
        group' = {[s EXCEPT !.owned = Assign(members, Wanted(group))[s.member_id],
                            !.generation = generation + 1] : s \in group}
  BY Zenon DEF Rebalance
<1> DEFINE a == Assign(members, Wanted(group))
<1>2. group' = After(a)
  BY <1>1, Zenon DEF After
<1>3. Outcome(a)
  BY RoundOutcome, Zenon
<1>4. \A s, u \in group : \A t \in s.topics \cap u.topics :
        strategy = "range" /\ s.member_id < u.member_id =>
          /\ \A i \in Of(a[s.member_id], t), j \in Of(a[u.member_id], t) : i < j
          /\ Cardinality(Of(a[s.member_id], t)) - Cardinality(Of(a[u.member_id], t)) \in {0, 1}
  BY RangeOutcome, Zenon
<1>a. FairOutcome(a)
  BY SharesFair, Zenon
<1>b. Cooperative /\ SameTopics /\ rounds > 0 => \A s \in group : s.owned \subseteq a[s.member_id]
  BY SecondRound, Zenon
<1> HIDE DEF a
<1>5. \A s2 \in group' : \E s \in group :
         /\ s2.member_id = s.member_id /\ s2.topics = s.topics
         /\ s2.owned = a[s.member_id] /\ s2.generation = generation + 1
         /\ s2 \in Subscription
         /\ s2 = [s EXCEPT !.owned = a[s.member_id], !.generation = generation + 1]
  BY <1>2, <1>3, AfterIs, Zenon DEF Became
<1>6. \A s \in group : \E s2 \in group' :
         /\ s2.member_id = s.member_id /\ s2.topics = s.topics /\ s2.owned = a[s.member_id]
  <2> SUFFICES ASSUME NEW s \in group
               PROVE  \E s2 \in group' :
                        /\ s2.member_id = s.member_id /\ s2.topics = s.topics
                        /\ s2.owned = a[s.member_id]
    BY Zenon
  <2>1. s \in Subscription
    BY <1>0, Zenon DEF TypeOK
  <2> DEFINE s2 == [s EXCEPT !.owned = a[s.member_id], !.generation = generation + 1]
  <2>2. s2 \in group'
    BY <1>2, Zenon DEF After
  <2>3. s2.member_id = s.member_id /\ s2.topics = s.topics /\ s2.owned = a[s.member_id]
    BY <2>1, Zenon DEF Subscription
  <2> QED
    BY <2>2, <2>3, Zenon
<1>7. /\ generation' = generation + 1 /\ rounds' = rounds + 1
      /\ rejoin' = (Cooperative /\ \E s \in group, s2 \in group' :
                       s.member_id = s2.member_id /\ ~(s.owned \subseteq s2.owned))
      /\ UNCHANGED << strategy, counts, away, changes >>
  BY Zenon DEF Rebalance
<1>c. \A s2 \in group' : \E s \in group :
         /\ s2.member_id = s.member_id
         /\ s2 = [s EXCEPT !.owned = a[s.member_id], !.generation = generation + 1]
  BY <1>5, ZenonT(30)
<1>8. \A s2, u2 \in group' : s2.member_id = u2.member_id => s2 = u2
  <2> SUFFICES ASSUME NEW s2 \in group', NEW u2 \in group', s2.member_id = u2.member_id
               PROVE  s2 = u2
    BY Zenon
  <2>1. PICK s \in group :
          /\ s2.member_id = s.member_id
          /\ s2 = [s EXCEPT !.owned = a[s.member_id], !.generation = generation + 1]
    BY <1>c, Zenon
  <2>2. PICK u \in group :
          /\ u2.member_id = u.member_id
          /\ u2 = [u EXCEPT !.owned = a[u.member_id], !.generation = generation + 1]
    BY <1>c, Zenon
  <2>3. s.member_id = u.member_id
    BY <2>1, <2>2, Zenon
  <2>4. s = u
    BY <1>0, <2>3, Zenon DEF TypeOK
  <2> QED
    BY <2>1, <2>2, <2>4, Zenon
<1>9. TypeOK'
  <2>1. group' \subseteq Subscription
    BY <1>5, Zenon
  <2>2. rejoin' \in BOOLEAN
    BY <1>7, Zenon
  <2> QED
    BY <1>0, <1>7, <1>8, <2>1, <2>2, SMTT(20) DEF TypeOK
<1>10. IsFiniteSet(group')
  <2> DEFINE f == [s \in group |-> [s EXCEPT !.owned = a[s.member_id], !.generation = generation + 1]]
  <2>1. f \in Surjection(group, After(a))
    BY Zenon DEF Surjection, After
  <2> QED
    BY <1>0, <1>2, <2>1, FS_Surjection, Zenon
<1>11. \A s2 \in group' : s2.generation = generation'
  BY <1>5, <1>7, Zenon
<1>12. \A s \in away : s.generation < generation' /\ (s.generation = -1 => s.owned = {})
  <2>1. \A s \in away : s.generation \in Int /\ s.generation <= generation
                         /\ (s.generation = -1 => s.owned = {})
    BY <1>0 DEF RoundsInv, TypeOK, Subscription
  <2> QED
    BY <1>0, <1>7, <2>1, SMTT(20) DEF TypeOK
<1>13. \A s2, u2 \in group' : s2 # u2 => s2.owned \cap u2.owned = {}
  <2> SUFFICES ASSUME NEW s2 \in group', NEW u2 \in group', s2 # u2
               PROVE  s2.owned \cap u2.owned = {}
    BY Zenon
  <2>1. PICK s \in group : /\ s2.member_id = s.member_id /\ s2.owned = a[s.member_id]
    BY <1>5, Zenon
  <2>2. PICK u \in group : /\ u2.member_id = u.member_id /\ u2.owned = a[u.member_id]
    BY <1>5, Zenon
  <2>3. s # u
    BY <1>8, <2>1, <2>2, Zenon
  <2> QED
    BY <1>3, <2>1, <2>2, <2>3, Zenon DEF Outcome
<1>14. \A s2 \in group', s \in away : s2.generation # s.generation
  BY <1>0, <1>11, <1>12, SMTT(20) DEF TypeOK, Subscription
<1>15. \A s \in (group \cup away)' :
         s.generation <= generation' /\ (s.generation = -1 => s.owned = {})
  <2>1. generation' \in Nat
    BY <1>9, Zenon DEF TypeOK
  <2>2. \A s \in away : s.generation \in Int
    BY <1>0 DEF TypeOK, Subscription
  <2> QED
    BY <1>7, <1>11, <1>12, <2>1, <2>2, SMTT(20)
<1>16. \A s, t \in (group \cup away)' :
         s # t /\ s.generation = t.generation => s.owned \cap t.owned = {}
  <2>1. \A s, t \in away : s # t /\ s.generation = t.generation => s.owned \cap t.owned = {}
    BY Zenon DEF RoundsInv
  <2> QED
    BY <1>7, <1>13, <1>14, <2>1, Zenon
<1>17. \A s \in (group \cap away)' : s.owned = {}
  BY <1>7, <1>14, Zenon
<1>18. Subscribed' = Subscribed
  <2>1. UNION {s.topics : s \in group'} = UNION {s.topics : s \in group}
    <3>1. \A t : (\E s \in group' : t \in s.topics) <=> (\E s \in group : t \in s.topics)
      BY <1>5, <1>6, Zenon
    <3> QED
      BY <3>1, Zenon
  <2> QED
    BY <1>7, <2>1, Zenon DEF Subscribed
<1>19. EverythingAssignedOnce'
  <2> SUFFICES ASSUME rounds' > 0, ~rejoin', NEW tp \in Subscribed
               PROVE  /\ Cardinality({s2 \in group' : tp \in s2.owned}) = 1
                      /\ \A s2 \in group' : tp \in s2.owned => tp[1] \in s2.topics
    BY <1>18, Zenon DEF EverythingAssignedOnce, Settled
  <2>1. Cooperative => \A s \in group : s.owned \subseteq a[s.member_id]
    BY <1>6, <1>7, Zenon
  <2>2. PICK s \in group : tp \in a[s.member_id]
    BY <1>3, <2>1, Zenon DEF Outcome
  <2>3. PICK s2 \in group' : tp \in s2.owned
    BY <1>6, <2>2, Zenon
  <2>4. {u2 \in group' : tp \in u2.owned} = {s2}
    BY <1>13, <2>3, Zenon
  <2>5. Cardinality({s2}) = 1
    BY FS_Singleton, Zenon
  <2>6. \A u2 \in group' : tp \in u2.owned => tp[1] \in u2.topics
    <3>1. \A u2 \in group' : \E u \in group : u2.topics = u.topics /\ u2.owned = a[u.member_id]
      BY <1>5, Zenon
    <3>2. \A u \in group : tp \in a[u.member_id] => tp[1] \in u.topics
      BY <1>3, Zenon DEF Outcome
    <3> QED
      BY <3>1, <3>2, Zenon
  <2> QED
    BY <2>4, <2>5, <2>6, Zenon
<1>20. RangeIsContiguous'
  <2> SUFFICES ASSUME strategy = "range", NEW s2 \in group', NEW u2 \in group',
                      NEW t \in s2.topics \cap u2.topics, s2.member_id < u2.member_id
               PROVE  /\ \A i \in Of(s2.owned, t), j \in Of(u2.owned, t) : i < j
                      /\ Cardinality(Of(s2.owned, t)) - Cardinality(Of(u2.owned, t)) \in {0, 1}
    BY <1>7, Zenon DEF RangeIsContiguous, Of
  <2>1. PICK s \in group : /\ s2.member_id = s.member_id /\ s2.topics = s.topics
                           /\ s2.owned = a[s.member_id]
    BY <1>5, Zenon
  <2>2. PICK u \in group : /\ u2.member_id = u.member_id /\ u2.topics = u.topics
                           /\ u2.owned = a[u.member_id]
    BY <1>5, Zenon
  <2> QED
    BY <1>4, <2>1, <2>2, Zenon
<1>21. Cardinality(group') = Cardinality(group)
  <2> DEFINE f == [x \in group |-> [x EXCEPT !.owned = a[x.member_id], !.generation = generation + 1]]
  <2>1. f \in Surjection(group, group')
    BY <1>2, Zenon DEF Surjection, After
  <2>2. f \in Injection(group, group')
    <3>1. f \in [group -> group']
      BY <1>2, Zenon DEF After
    <3>2. ASSUME NEW x \in group, NEW y \in group, f[x] = f[y] PROVE x = y
      <4>1. f[x].member_id = x.member_id /\ f[y].member_id = y.member_id
        BY <1>0, Zenon DEF TypeOK, Subscription
      <4>2. x.member_id = y.member_id
        BY <3>2, <4>1, Zenon
      <4> QED
        BY <1>0, <4>2, Zenon DEF TypeOK
    <3> QED
      BY <3>1, <3>2, Zenon DEF Injection, IsInjective
  <2> QED
    BY <1>0, <2>1, <2>2, FS_Surjection, Zenon
<1>22. SameTopics' => SameTopics
  <2> SUFFICES ASSUME SameTopics', NEW s \in group, NEW u \in group PROVE s.topics = u.topics
    BY Zenon DEF SameTopics
  <2>1. PICK x \in group' : x.topics = s.topics
    BY <1>6, Zenon
  <2>2. PICK y \in group' : y.topics = u.topics
    BY <1>6, Zenon
  <2> QED
    BY <2>1, <2>2, Zenon DEF SameTopics
<1>23. FairShare'
  <2> SUFFICES ASSUME strategy # "range", SameTopics, NEW s2 \in group', NEW u2 \in group'
               PROVE  IF strategy = "roundrobin"
                      THEN Cardinality(s2.owned) - Cardinality(u2.owned) \in {-1, 0, 1}
                      ELSE Cardinality(group') * (Cardinality(s2.owned) - 1)
                             < Cardinality(Subscribed)
    BY <1>7, <1>18, <1>22, Zenon DEF FairShare
  <2>1. PICK s \in group : s2.owned = a[s.member_id]
    BY <1>5, Zenon
  <2>2. PICK u \in group : u2.owned = a[u.member_id]
    BY <1>5, Zenon
  <2>3. strategy \in Strategy
    BY <1>0, Zenon DEF TypeOK
  <2>4. CASE strategy = "roundrobin"
    BY <1>a, <2>1, <2>2, <2>4, Zenon DEF FairOutcome
  <2>5. CASE strategy \in {"sticky", "cooperative-sticky"}
    BY <1>a, <1>21, <2>1, <2>2, <2>5, Zenon DEF FairOutcome
  <2> QED
    BY <2>3, <2>4, <2>5, Zenon DEF Strategy
<1>24. TwoRounds'
  <2> SUFFICES ASSUME Cooperative, SameTopics
               PROVE  /\ \A s2 \in group' :
                           /\ s2.generation = generation' /\ s2.owned \subseteq Subscribed
                           /\ Cardinality(group') * (Cardinality(s2.owned) - 1)
                                < Cardinality(Subscribed)
                      /\ rejoin' => rounds' = 1
    BY <1>7, <1>18, <1>22, Zenon DEF TwoRounds, Cooperative
  <2>1. ASSUME NEW s2 \in group'
        PROVE  /\ s2.generation = generation' /\ s2.owned \subseteq Subscribed
               /\ Cardinality(group') * (Cardinality(s2.owned) - 1) < Cardinality(Subscribed)
    <3>1. PICK s \in group : s2.owned = a[s.member_id]
      BY <1>5, Zenon
    <3> QED
      BY <1>3, <1>a, <1>11, <1>21, <3>1, Zenon DEF FairOutcome, Outcome, Cooperative
  <2>2. rounds > 0 => ~rejoin'
    <3> SUFFICES ASSUME rounds > 0, NEW s \in group, NEW s2 \in group', s.member_id = s2.member_id
                 PROVE  s.owned \subseteq s2.owned
      BY <1>7, Zenon
    <3>1. PICK u \in group : s2.member_id = u.member_id /\ s2.owned = a[u.member_id]
      BY <1>5, Zenon
    <3> QED
      BY <1>b, <3>1, Zenon
  <2>3. rounds \in Nat
    BY <1>0, Zenon DEF TypeOK
  <2> QED
    BY <1>7, <2>1, <2>2, <2>3, SMTT(20)
<1> QED
  BY <1>7, <1>9, <1>10, <1>15, <1>16, <1>17, <1>19, <1>20, <1>23, <1>24, Zenon DEF RoundsInv, Cooperative

(* Members come, go, drop out and come back, and topics grow, without a    *)
(* partition coming to be claimed twice under one date.                    *)
LEMMA ChangeStep ==
  ASSUME RoundsInv,
         \/ \E m \in Ids, topics \in SUBSET Topics \ {{}} : Join(m, topics)
         \/ \E s \in group : Leave(s) \/ DropOut(s)
         \/ Disturb
         \/ \E s \in away, m \in Ids : ComeBack(s, m)
         \/ \E t \in Topics : Grow(t)
  PROVE  RoundsInv'
<1>0. TypeOK /\ IsFiniteSet(group)
  BY Zenon DEF RoundsInv
<1>1. /\ \A s \in group \cup away :
           s.generation <= generation /\ (s.generation = -1 => s.owned = {})
      /\ \A s, t \in group \cup away :
           s # t /\ s.generation = t.generation => s.owned \cap t.owned = {}
      /\ \A s \in group \cap away : s.owned = {}
  BY Zenon DEF RoundsInv
<1>2. Change
  BY Zenon DEF Join, Leave, DropOut, Disturb, ComeBack, Grow
<1>3. /\ changes' \in Nat /\ rounds' = 0 /\ UNCHANGED << strategy, generation, rejoin >>
  BY <1>0, <1>2, SMTT(20) DEF Change, TypeOK
<1>4. /\ EverythingAssignedOnce' /\ RangeIsContiguous' /\ FairShare' /\ TwoRounds'
      /\ rejoin' => Cooperative'
  BY <1>3 DEF EverythingAssignedOnce, RangeIsContiguous, FairShare, Settled, TwoRounds, RoundsInv,
              Cooperative
<1>5. ASSUME /\ group' \subseteq Subscription /\ away' \subseteq Subscription
             /\ \A s, t \in group' : s.member_id = t.member_id => s = t
             /\ IsFiniteSet(group') /\ counts' \in [Topics -> 0 .. MaxCount]
             /\ \A s \in (group \cup away)' :
                  s.generation <= generation /\ (s.generation = -1 => s.owned = {})
             /\ \A s, t \in (group \cup away)' :
                  s # t /\ s.generation = t.generation => s.owned \cap t.owned = {}
             /\ \A s \in (group \cap away)' : s.owned = {}
      PROVE  RoundsInv'
  BY <1>0, <1>3, <1>4, <1>5, Zenon DEF RoundsInv, TypeOK
<1>6. ASSUME NEW m \in Ids, NEW topics \in SUBSET Topics \ {{}}, Join(m, topics) PROVE RoundsInv'
  <2> DEFINE s == [member_id |-> m, topics |-> topics, owned |-> {}, generation |-> -1]
  <2>1. /\ group' = group \cup {s} /\ UNCHANGED << counts, away >>
        /\ \A u \in group : u.member_id # m
    BY <1>6, Zenon DEF Join, Taken
  <2>2. s \in Subscription /\ s.owned = {} /\ s.generation = -1 /\ s.member_id = m
    BY Zenon DEF Subscription
  <2> HIDE DEF s
  <2>3. IsFiniteSet(group')
    BY <1>0, <2>1, FS_AddElement, ZenonT(30)
  <2>4. s.generation <= generation
    BY <1>0, <2>2 DEF TypeOK
  <2>5. \A u, t \in group' : u.member_id = t.member_id => u = t
    BY <1>0, <2>1, <2>2, Zenon DEF TypeOK
  <2>6. group' \subseteq Subscription /\ away' \subseteq Subscription /\ counts' \in [Topics -> 0 .. MaxCount]
    BY <1>0, <2>1, <2>2, Zenon DEF TypeOK
  <2>7. \A u \in (group \cup away)' :
          u.generation <= generation /\ (u.generation = -1 => u.owned = {})
    BY <1>1, <2>1, <2>2, <2>4, ZenonT(30)
  <2>8. \A u, t \in (group \cup away)' :
          u # t /\ u.generation = t.generation => u.owned \cap t.owned = {}
    BY <1>1, <2>1, <2>2, SMTT(20)
  <2>9. \A u \in (group \cap away)' : u.owned = {}
    BY <1>1, <2>1, <2>2, Zenon
  <2> QED
    BY <1>5, <2>3, <2>5, <2>6, <2>7, <2>8, <2>9, Zenon
<1>7. ASSUME NEW s \in group, Leave(s) \/ DropOut(s) PROVE RoundsInv'
  <2>1. /\ group' = group \ {s} /\ away' \in {away, away \cup {s}} /\ UNCHANGED counts
    BY <1>7, Zenon DEF Leave, DropOut
  <2>2. IsFiniteSet(group')
    BY <1>0, <2>1, FS_RemoveElement, Zenon
  <2>3. (group \cup away)' \subseteq group \cup away
    BY <2>1, Zenon
  <2>4. \A u \in (group \cap away)' : u.owned = {}
    BY <1>1, <2>1, Zenon
  <2>5. /\ group' \subseteq Subscription /\ away' \subseteq Subscription
        /\ \A u, t \in group' : u.member_id = t.member_id => u = t
        /\ counts' \in [Topics -> 0 .. MaxCount]
    BY <1>0, <2>1, Zenon DEF TypeOK
  <2>6. /\ \A u \in (group \cup away)' :
             u.generation <= generation /\ (u.generation = -1 => u.owned = {})
        /\ \A u, t \in (group \cup away)' :
             u # t /\ u.generation = t.generation => u.owned \cap t.owned = {}
    BY <1>1, <2>3, Zenon
  <2> QED
    BY <1>5, <2>2, <2>4, <2>5, <2>6, Zenon
<1>8. ASSUME Disturb PROVE RoundsInv'
  <2>1. UNCHANGED << counts, group, away >>
    BY <1>8, Zenon DEF Disturb
  <2> QED
    BY <1>0, <1>1, <1>5, <2>1, Zenon DEF TypeOK
<1>9. ASSUME NEW s \in away, NEW m \in Ids, ComeBack(s, m) PROVE RoundsInv'
  <2> DEFINE s2 == [s EXCEPT !.member_id = m]
  <2>1. /\ group' = group \cup {s2} /\ away' = away \ {s} /\ UNCHANGED counts
        /\ \A u \in group : u.member_id # m
    BY <1>9, Zenon DEF ComeBack, Taken
  <2>2. s \in Subscription
    BY <1>0, Zenon DEF TypeOK
  <2>3. /\ s2 \in Subscription /\ s2.owned = s.owned /\ s2.generation = s.generation
        /\ s2.member_id = m
    BY <2>2, Zenon DEF Subscription
  <2> HIDE DEF s2
  <2>4. IsFiniteSet(group')
    BY <1>0, <2>1, FS_AddElement, Zenon
  <2>5. \A u, t \in group' : u.member_id = t.member_id => u = t
    BY <1>0, <2>1, <2>3, Zenon DEF TypeOK
  <2>6. group' \subseteq Subscription /\ away' \subseteq Subscription /\ counts' \in [Topics -> 0 .. MaxCount]
    BY <1>0, <2>1, <2>3, Zenon DEF TypeOK
  <2>7. \A u \in (group \cup away)' :
          u.generation <= generation /\ (u.generation = -1 => u.owned = {})
    BY <1>1, <2>1, <2>3, Zenon
  <2>8. \A u \in group \cup (away \ {s}) :
          u.generation = s2.generation => u.owned \cap s2.owned = {}
    BY <1>1, <2>3, Zenon
  <2>9. \A u, t \in (group \cup away)' :
          u # t /\ u.generation = t.generation => u.owned \cap t.owned = {}
    BY <1>1, <2>1, <2>8, SMTT(20)
  <2>10. \A u \in (group \cap away)' : u.owned = {}
    BY <1>1, <2>1, <2>8, Zenon
  <2> QED
    BY <1>5, <2>4, <2>5, <2>6, <2>7, <2>9, <2>10, Zenon
<1>10. ASSUME NEW t \in Topics, Grow(t) PROVE RoundsInv'
  <2>1. /\ counts[t] < MaxCount /\ counts' = [counts EXCEPT ![t] = @ + 1]
        /\ UNCHANGED << group, away >>
    BY <1>10, Zenon DEF Grow
  <2>2. counts' \in [Topics -> 0 .. MaxCount]
    <3>1. counts \in [Topics -> 0 .. MaxCount] /\ MaxCount \in Nat
      BY <1>0, RoundsAssumption, Zenon DEF TypeOK
    <3>2. counts[t] + 1 \in 0 .. MaxCount
      BY <2>1, <3>1
    <3> QED
      BY <2>1, <3>1, <3>2, Zenon
  <2> QED
    BY <1>0, <1>1, <1>5, <2>1, <2>2, Zenon DEF TypeOK
<1> QED
  BY <1>6, <1>7, <1>8, <1>9, <1>10, Zenon

(* Claims of one date stay disjoint over all rebalances, and every round   *)
(* of the assignors in group.rs is complete, fair and within quota.        *)
THEOREM RoundsInvariant == Spec => []RoundsInv
<1>1. Init => RoundsInv
  <2> SUFFICES ASSUME Init PROVE RoundsInv
    BY Zenon
  <2>1. TypeOK
    BY Zenon DEF Init, TypeOK
  <2>2. EverythingAssignedOnce /\ RangeIsContiguous /\ FairShare /\ TwoRounds /\ ~rejoin
    BY DEF Init, EverythingAssignedOnce, RangeIsContiguous, FairShare, Settled, TwoRounds
  <2>3. IsFiniteSet(group)
    BY FS_EmptySet, Zenon DEF Init
  <2>4. group = {} /\ away = {}
    BY Zenon DEF Init
  <2> QED
    BY <2>1, <2>2, <2>3, <2>4, Zenon DEF RoundsInv
<1>2. RoundsInv /\ [Next]_vars => RoundsInv'
  <2> SUFFICES ASSUME RoundsInv, [Next]_vars PROVE RoundsInv'
    BY Zenon
  <2>1. CASE Rebalance
    BY <2>1, RebalanceStep, Zenon
  <2>2. CASE Next /\ ~Rebalance
    BY <2>2, ChangeStep, Zenon DEF Next
  <2>3. CASE UNCHANGED vars
    <3>1. TypeOK'
      BY <2>3, Zenon DEF vars, RoundsInv, TypeOK
    <3>2. EverythingAssignedOnce'
      BY <2>3 DEF vars, RoundsInv, EverythingAssignedOnce, Settled, Subscribed
    <3>3. RangeIsContiguous'
      BY <2>3, Zenon DEF vars, RoundsInv, RangeIsContiguous, Settled
    <3>0. /\ group' = group /\ strategy' = strategy /\ generation' = generation
          /\ rejoin' = rejoin /\ rounds' = rounds /\ Subscribed' = Subscribed
          /\ (SameTopics' <=> SameTopics) /\ (Cooperative' <=> Cooperative)
          /\ (Settled' <=> Settled)
      BY <2>3, Zenon DEF vars, Subscribed, SameTopics, Cooperative, Settled
    <3>4. FairShare'
      BY <3>0, Zenon DEF RoundsInv, FairShare
    <3>5. TwoRounds'
      BY <3>0, Zenon DEF RoundsInv, TwoRounds
    <3> QED
      BY <2>3, <3>1, <3>2, <3>3, <3>4, <3>5, Zenon DEF vars, RoundsInv, Cooperative
  <2> QED
    BY <2>1, <2>2, <2>3, Zenon
<1> QED
  BY <1>1, <1>2, PTL DEF Spec

(* Members of one generation never hold the same partition (assign, with   *)
(* the claims on_sync leaves them): OneHolder.                             *)
THEOREM NeverTwoHolders == Spec => []OneHolder
<1>1. RoundsInv => OneHolder
  BY Zenon DEF RoundsInv, OneHolder
<1> QED
  BY <1>1, RoundsInvariant, PTL

(* Once the group has settled every partition has one holder, whichever    *)
(* assignor it agreed on and whatever was claimed: EverythingAssignedOnce. *)
THEOREM SettledGroupCovers == Spec => []EverythingAssignedOnce
<1>1. RoundsInv => EverythingAssignedOnce
  BY Zenon DEF RoundsInv
<1> QED
  BY <1>1, RoundsInvariant, PTL

(* range deals contiguous blocks, the longer ones first:                   *)
(* RangeIsContiguous.                                                      *)
THEOREM RangeDealsBlocks == Spec => []RangeIsContiguous
<1>1. RoundsInv => RangeIsContiguous
  BY Zenon DEF RoundsInv
<1> QED
  BY <1>1, RoundsInvariant, PTL

(* When everyone wants the same topics roundrobin is even to within one    *)
(* partition, and the sticky assignors keep to a fair share rounded up:    *)
(* FairShare.                                                              *)
THEOREM SharesStayFair == Spec => []FairShare
<1>1. RoundsInv => FairShare
  BY Zenon DEF RoundsInv
<1> QED
  BY <1>1, RoundsInvariant, PTL

(* Members that want the same topics are done with their second round:     *)
(* TwoRoundsSuffice.                                                       *)
THEOREM SecondRoundSettles == Spec => []TwoRoundsSuffice
<1>1. RoundsInv => TwoRoundsSuffice
  BY DEF RoundsInv, TwoRounds, TwoRoundsSuffice, TypeOK
<1> QED
  BY <1>1, RoundsInvariant, PTL

(* A cooperative round gives nobody what another member comes to it        *)
(* holding: HandedOverInTwoRounds.                                         *)
THEOREM NothingTakenInOneRound == Spec => HandedOverInTwoRounds
<1> DEFINE Act == Cooperative =>
             \A s, t \in group : \A s2 \in group' :
               (s # t /\ s2.member_id = s.member_id /\ generation' > generation) =>
                 (s2.owned \ s.owned) \cap t.owned = {}
<1>1. RoundsInv /\ [Next]_vars => [Act]_vars
  <2> SUFFICES ASSUME RoundsInv, [Next]_vars, Cooperative, NEW s \in group, NEW t \in group,
                      NEW s2 \in group', s # t, s2.member_id = s.member_id,
                      generation' > generation
               PROVE  (s2.owned \ s.owned) \cap t.owned = {}
    BY Zenon
  <2>0. generation \in Nat /\ TypeOK
    BY Zenon DEF RoundsInv, TypeOK
  <2>1. generation' # generation
    BY <2>0
  <2>2. Rebalance
    <3>1. ~Change /\ ~UNCHANGED vars
      BY <2>1, Zenon DEF Change, vars
    <3> QED
      BY <3>1, Zenon DEF Next, Join, Leave, DropOut, Disturb, ComeBack, Grow
  <2>3. PICK members \in Listings(Claims) :
          group' = {[u EXCEPT !.owned = Assign(members, Wanted(group))[u.member_id],
                              !.generation = generation + 1] : u \in group}
    BY <2>2, Zenon DEF Rebalance
  <2> DEFINE a == Assign(members, Wanted(group))
  <2>4. Outcome(a) /\ s2 \in After(a)
    BY <2>3, RoundOutcome, Zenon DEF After
  <2> HIDE DEF a
  <2>5. PICK u \in group : s2.member_id = u.member_id /\ s2.owned = a[u.member_id]
    <3>1. PICK u \in group : Became(u, s2, a)
      BY <2>4, AfterIs, Zenon
    <3> QED
      BY <3>1, Zenon DEF Became
  <2>6. u = s
    BY <2>0, <2>5, Zenon DEF TypeOK
  <2> QED
    BY <2>4, <2>5, <2>6, Zenon DEF Outcome
<1> QED
  BY <1>1, RoundsInvariant, PTL DEF Spec, HandedOverInTwoRounds
=============================================================================

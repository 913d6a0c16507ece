--------------------------- MODULE AssignorProofs ---------------------------
(***************************************************************************)
(* Proofs about the assignors, for all members, topics and counts.         *)
(***************************************************************************)
EXTENDS Assignors, FiniteSetTheorems, WellFoundedInduction, TLAPS

-----------------------------------------------------------------------------
(* Finite sets, and recursion over their subsets. *)

(* Induction over the natural numbers. *)
LEMMA Induction ==
  ASSUME NEW S, 0 \in S, \A n \in Nat : n \in S => n + 1 \in S
  PROVE  Nat \subseteq S
<1> SUFFICES ASSUME Nat \ S # {} PROVE FALSE
  BY Zenon
<1> DEFINE T == Nat \ S   R == OpToRel(<, Nat)
<1>1. IsWellFoundedOn(R, Nat)
  BY NatLessThanWellFounded, Zenon
<1>2. T \subseteq Nat /\ T # {}
  BY Zenon
<1> HIDE DEF T, R
<1>3. PICK x \in T : \A y \in T : ~(<< y, x >> \in R)
  BY <1>1, <1>2, WFMin, Zenon
<1>4. \A y \in T : ~(y < x)
  BY <1>2, <1>3, Zenon DEF R, OpToRel
<1>5. x # 0
  BY Zenon DEF T
<1>6. x - 1 \in Nat /\ x - 1 \notin T
  BY <1>2, <1>4, <1>5
<1> QED
  BY <1>2, <1>6 DEF T

(* Induction over the subsets of a finite set. *)
LEMMA SubsetInduction ==
  ASSUME NEW S, IsFiniteSet(S), NEW Good,
         \A T \in SUBSET S : (\A U \in SUBSET T : U # T => U \in Good) => T \in Good
  PROVE  \A T \in SUBSET S : T \in Good
<1> DEFINE bad == {T \in SUBSET S : T \notin Good}
<1> SUFFICES ASSUME bad # {} PROVE FALSE
  BY Zenon
<1>1. bad \subseteq FiniteSubsetsOf(S)
  <2> SUFFICES ASSUME NEW T \in bad PROVE T \in FiniteSubsetsOf(S)
    BY Zenon
  <2>1. IsFiniteSet(T)
    BY FS_Subset, Zenon
  <2> QED
    BY <2>1, Zenon DEF FiniteSubsetsOf
<1>2. IsWellFoundedOn(StrictSubsetOrdering(S), FiniteSubsetsOf(S))
  BY FS_StrictSubsetOrderingWellFounded, Zenon
<1> HIDE DEF bad
<1>3. PICK T \in bad : \A U \in bad : ~(<< U, T >> \in StrictSubsetOrdering(S))
  BY <1>1, <1>2, WFMin
<1>4. ASSUME NEW U \in SUBSET T, U # T PROVE U \in Good
  <2>1. << U, T >> \in StrictSubsetOrdering(S)
    BY <1>4, Zenon DEF bad, StrictSubsetOrdering
  <2> QED
    BY <1>3, <1>4, <2>1, Zenon DEF bad
<1> QED
  BY <1>4, Zenon DEF bad

(* R puts the elements of S in a line. *)
Linear(S, R) ==
  /\ \A x, y \in S : x = y \/ << x, y >> \in R \/ << y, x >> \in R
  /\ \A x, y, z \in S : << x, y >> \in R /\ << y, z >> \in R => << x, z >> \in R

(* A finite set with a total order has a least element. *)
LEMMA Least ==
  ASSUME NEW S, IsFiniteSet(S), S # {}, NEW R, Linear(S, R)
  PROVE  \E x \in S : \A y \in S : y = x \/ << x, y >> \in R
<1> USE DEF Linear
<1> DEFINE Good == {T \in SUBSET S : T = {} \/ \E x \in T : \A y \in T : y = x \/ << x, y >> \in R}
<1>1. ASSUME NEW T \in SUBSET S, \A U \in SUBSET T : U # T => U \in Good
      PROVE  T \in Good
  <2>1. CASE T = {}
    BY <2>1, Zenon
  <2>2. CASE T # {}
    <3>1. PICK x \in T : TRUE
      BY <2>2, Zenon
    <3>2. T \ {x} \in Good
      <4>1. T \ {x} \in SUBSET T /\ T \ {x} # T
        BY <3>1, Zenon
      <4> HIDE DEF Good
      <4> QED
        BY <1>1, <4>1, Zenon
    <3>3. CASE T \ {x} = {}
      BY <3>1, <3>3, Zenon
    <3>4. CASE T \ {x} # {}
      <4>1. PICK z \in T \ {x} : \A y \in T \ {x} : y = z \/ << z, y >> \in R
        BY <3>2, <3>4, Zenon
      <4>2. x \in S /\ z \in S
        BY Zenon
      <4>3. CASE << z, x >> \in R
        BY <4>1, <4>3, Zenon
      <4>4. CASE << x, z >> \in R
        <5>1. \A y \in T : y = x \/ << x, y >> \in R
          BY <4>1, <4>2, <4>4, Zenon
        <5> QED
          BY <3>1, <5>1, Zenon
      <4> QED
        BY <4>1, <4>2, <4>3, <4>4, Zenon
    <3> QED
      BY <3>3, <3>4, Zenon
  <2> QED
    BY <2>1, <2>2, Zenon
<1> HIDE DEF Good
<1>2. S \in Good
  <2>1. \A T \in SUBSET S : T \in Good
    BY <1>1, SubsetInduction, Zenon
  <2> QED
    BY <2>1, Zenon
<1> QED
  BY <1>2, Zenon DEF Good

(* A fold over a finite set S that takes away one element at a time: what  *)
(* it needs, and what it is.                                               *)
Foldable(S, A, base, pick, step) ==
  /\ IsFiniteSet(S) /\ base \in A /\ step \in [S -> [A -> A]]
  /\ \A T \in SUBSET S : T # {} => pick[T] \in T

FoldOf(g, S, A, base, pick, step) ==
  /\ g \in [SUBSET S -> A]
  /\ \A T \in SUBSET S :
       g[T] = IF T = {} THEN base ELSE step[pick[T]][g[T \ {pick[T]}]]

(* There is one: the recursion is well defined and stays within A. *)
LEMMA FoldExists ==
  ASSUME NEW S, NEW A, NEW base, NEW pick, NEW step, Foldable(S, A, base, pick, step)
  PROVE  \E g : FoldOf(g, S, A, base, pick, step)
<1> USE DEF Foldable
<1> DEFINE L(n) == {T \in SUBSET S : Cardinality(T) <= n}
           Next(g, T) == IF T = {} THEN base ELSE step[pick[T]][g[T \ {pick[T]}]]
           Good == {n \in Nat : \E g \in [L(n) -> A] : \A T \in L(n) : g[T] = Next(g, T)}
<1>0. \A T \in SUBSET S : IsFiniteSet(T) /\ Cardinality(T) \in Nat
  BY FS_Subset, FS_CardinalityType, Zenon
<1>00. \A T \in SUBSET S : T # {} => /\ pick[T] \in T /\ T \ {pick[T]} \in SUBSET S
                                     /\ Cardinality(T \ {pick[T]}) = Cardinality(T) - 1
  BY <1>0, FS_RemoveElement, Zenon
<1>1. 0 \in Good
  <2> DEFINE g == [T \in L(0) |-> base]
  <2>1. \A T \in L(0) : T = {}
    BY <1>0, FS_EmptySet
  <2>2. g \in [L(0) -> A] /\ \A T \in L(0) : g[T] = Next(g, T)
    BY <2>1, Zenon
  <2> HIDE DEF g
  <2> QED
    BY <2>2, Zenon
<1>2. ASSUME NEW n \in Nat, n \in Good PROVE n + 1 \in Good
  <2>1. PICK g \in [L(n) -> A] : \A T \in L(n) : g[T] = Next(g, T)
    BY <1>2, Zenon
  <2> DEFINE h == [T \in L(n + 1) |-> Next(g, T)]
  <2>2. \A T \in L(n + 1) : T # {} => T \ {pick[T]} \in L(n) /\ pick[T] \in S
    BY <1>0, <1>00
  <2>3. \A T \in L(n + 1) : Next(g, T) \in A
    <3> TAKE T \in L(n + 1)
    <3>1. CASE T = {}
      BY <3>1, Zenon
    <3>2. CASE T # {}
      <4>1. g[T \ {pick[T]}] \in A /\ step[pick[T]] \in [A -> A]
        BY <2>1, <2>2, <3>2, Zenon
      <4> QED
        BY <3>2, <4>1, Zenon
    <3> QED
      BY <3>1, <3>2, Zenon
  <2>4. \A T \in L(n) : T \in L(n + 1)
    BY <1>0
  <2> HIDE DEF L
  <2>5. h \in [L(n + 1) -> A]
    BY <2>3, Zenon
  <2>6. \A T \in L(n) : h[T] = g[T]
    BY <2>1, <2>4, Zenon
  <2>7. \A T \in L(n + 1) : h[T] = Next(h, T)
    <3> TAKE T \in L(n + 1)
    <3>1. h[T] = Next(g, T)
      BY Zenon
    <3> HIDE DEF h
    <3>2. T # {} => h[T \ {pick[T]}] = g[T \ {pick[T]}]
      BY <2>2, <2>6, Zenon
    <3> QED
      BY <3>1, <3>2, Zenon
  <2>8. n + 1 \in Nat
    OBVIOUS
  <2> HIDE DEF h, Next
  <2> QED
    BY <2>5, <2>7, <2>8, Zenon
<1> HIDE DEF Good
<1>3. Nat \subseteq Good
  BY <1>1, <1>2, Induction, Zenon
<1>4. Cardinality(S) \in Nat /\ SUBSET S = L(Cardinality(S))
  BY <1>0, FS_Subset, Zenon
<1>5. Cardinality(S) \in Good
  BY <1>3, <1>4, Zenon
<1>6. PICK g \in [L(Cardinality(S)) -> A] : \A T \in L(Cardinality(S)) : g[T] = Next(g, T)
  BY <1>5, Zenon DEF Good
<1> QED
  BY <1>4, <1>6, Zenon DEF FoldOf

-----------------------------------------------------------------------------
(* Orders and ranks. *)

(* The last of some partitions is one of them. *)
LEMMA LastOfIn ==
  ASSUME NEW S \in SUBSET (Nat \X Nat), IsFiniteSet(S), S # {}
  PROVE  LastOf(S) \in S
<1> DEFINE R == {r \in S \X S : Before(r[2], r[1])}
<1>1. \A x, y \in S : x = y \/ << x, y >> \in R \/ << y, x >> \in R
  BY DEF Before
<1>2. \A x, y, z \in S : << x, y >> \in R /\ << y, z >> \in R => << x, z >> \in R
  BY DEF Before
<1>3. \A x, y \in S : << x, y >> \in R => Before(y, x)
  BY Zenon
<1> HIDE DEF R
<1>4. \E x \in S : \A y \in S : y = x \/ << x, y >> \in R
  <2>1. Linear(S, R)
    BY <1>1, <1>2, Zenon DEF Linear
  <2> QED
    BY <2>1, Least
<1>5. \E x \in S : \A y \in S : y = x \/ Before(y, x)
  BY <1>3, <1>4, Zenon
<1> QED
  BY <1>5, Zenon DEF LastOf

(* The last of some members is one of them. *)
LEMMA LastIdIn ==
  ASSUME NEW S \in SUBSET Nat, IsFiniteSet(S), S # {}
  PROVE  LastId(S) \in S
<1> DEFINE R == {r \in S \X S : r[2] < r[1]}
<1>1. \A x, y \in S : x = y \/ << x, y >> \in R \/ << y, x >> \in R
  OBVIOUS
<1>2. \A x, y, z \in S : << x, y >> \in R /\ << y, z >> \in R => << x, z >> \in R
  OBVIOUS
<1>3. \A x, y \in S : (y = x \/ << x, y >> \in R) => y <= x
  OBVIOUS
<1> HIDE DEF R
<1>4. \E x \in S : \A y \in S : y = x \/ << x, y >> \in R
  <2>1. Linear(S, R)
    BY <1>1, <1>2, Zenon DEF Linear
  <2> QED
    BY <2>1, Least, Zenon
<1>5. \E x \in S : \A y \in S : y <= x
  BY <1>3, <1>4, Zenon
<1> QED
  BY <1>5, Zenon DEF LastId

(* There is a smallest of some naturals. *)
LEMMA Smallest ==
  ASSUME NEW S \in SUBSET Nat, S # {}
  PROVE  (CHOOSE x \in S : \A y \in S : x <= y) \in S
<1> DEFINE R == OpToRel(<, Nat)
<1>1. IsWellFoundedOn(R, Nat)
  BY NatLessThanWellFounded, Zenon
<1> HIDE DEF R
<1>2. PICK x \in S : \A y \in S : ~(<< y, x >> \in R)
  BY <1>1, WFMin, Zenon
<1>3. \A y \in S : ~(y < x)
  BY <1>2, Zenon DEF R, OpToRel
<1>4. \A y \in S : x <= y
  BY <1>3
<1> QED
  BY <1>4, Zenon

(* Ranks are places, in the order of the ids. *)
LEMMA RankOrder ==
  ASSUME NEW ids \in SUBSET Nat, IsFiniteSet(ids), NEW m \in ids
  PROVE  /\ Cardinality(ids) \in Nat \ {0}
         /\ Rank(ids, m) \in 0 .. Cardinality(ids) - 1
         /\ \A n \in ids : m < n => Rank(ids, m) < Rank(ids, n)
<1> DEFINE lower(n) == {k \in ids : k < n}
<1>1. \A n \in ids : IsFiniteSet(lower(n)) /\ Cardinality(lower(n)) \in Nat
  BY FS_Subset, FS_CardinalityType, Zenon
<1>2. Cardinality(ids) \in Nat
  BY FS_CardinalityType, Zenon
<1>3. Cardinality(lower(m)) + 1 <= Cardinality(ids)
  <2>1. lower(m) \cup {m} \in SUBSET ids /\ m \notin lower(m)
    OBVIOUS
  <2>2. Cardinality(lower(m) \cup {m}) = Cardinality(lower(m)) + 1
    BY <1>1, <2>1, FS_AddElement, Zenon
  <2>3. Cardinality(lower(m) \cup {m}) <= Cardinality(ids)
    BY <2>1, FS_Subset, Zenon
  <2> QED
    BY <2>2, <2>3, Zenon
<1>4. ASSUME NEW n \in ids, m < n PROVE Cardinality(lower(m)) < Cardinality(lower(n))
  <2>0. \A k \in ids : k < m => k < n
    BY <1>4
  <2>1. lower(m) \cup {m} \in SUBSET lower(n) /\ m \notin lower(m)
    <3>1. ~(m < m) /\ m \in lower(n)
      BY <1>4
    <3>2. lower(m) \subseteq lower(n)
      BY <2>0, Zenon
    <3> QED
      BY <3>1, <3>2, Zenon
  <2>2. Cardinality(lower(m) \cup {m}) = Cardinality(lower(m)) + 1
    BY <1>1, <2>1, FS_AddElement, Zenon
  <2>3. Cardinality(lower(m) \cup {m}) <= Cardinality(lower(n))
    BY <1>1, <2>1, FS_Subset, Zenon
  <2> QED
    BY <1>1, <2>2, <2>3
<1> QED
  BY <1>1, <1>2, <1>3, <1>4 DEF Rank

(* The member at a member's place is that member. *)
LEMMA RankedRank ==
  ASSUME NEW ids \in SUBSET Nat, IsFiniteSet(ids), NEW m \in ids
  PROVE  Ranked(ids, Rank(ids, m)) = m
<1>1. \A n \in ids : Rank(ids, n) = Rank(ids, m) => n = m
  <2> SUFFICES ASSUME NEW n \in ids, Rank(ids, n) = Rank(ids, m), n # m PROVE FALSE
    BY Zenon
  <2>1. m \in Nat /\ n \in Nat /\ (m < n \/ n < m)
    OBVIOUS
  <2>2. Rank(ids, m) \in Int /\ Rank(ids, n) \in Int
    BY RankOrder
  <2>3. m < n => Rank(ids, m) < Rank(ids, n)
    BY RankOrder, Zenon
  <2>4. n < m => Rank(ids, n) < Rank(ids, m)
    BY RankOrder, Zenon
  <2> QED
    BY <2>1, <2>2, <2>3, <2>4
<1> QED
  BY <1>1, Zenon DEF Ranked

-----------------------------------------------------------------------------
(* range: where the block of the i-th of some members starts, each has per *)
(* partitions and the first extra members one more.                        *)
Start(per, extra, i) == per * i + IF i < extra THEN i ELSE extra

(* The blocks follow each other, and they cover the topic. *)
LEMMA StartStep ==
  ASSUME NEW per \in Nat, NEW extra \in Nat, NEW i \in Nat
  PROVE  /\ Start(per, extra, i) \in Nat
         /\ Start(per, extra, i + 1) = Start(per, extra, i) + per + IF i < extra THEN 1 ELSE 0
<1>1. per * (i + 1) = per * i + per
  OBVIOUS
<1>2. per * i \in Nat
  OBVIOUS
<1> QED
  BY <1>1, <1>2 DEF Start

(* A later member's block starts no earlier. *)
LEMMA StartMonotone ==
  ASSUME NEW per \in Nat, NEW extra \in Nat, NEW i \in Nat, NEW j \in Nat, i <= j
  PROVE  Start(per, extra, i) <= Start(per, extra, j)
<1>1. per * i <= per * j
  OBVIOUS
<1>2. per * i \in Nat /\ per * j \in Nat
  OBVIOUS
<1> QED
  BY <1>1, <1>2 DEF Start

(* The first block starts at 0 and the last ends with the topic. *)
LEMMA StartEnd ==
  ASSUME NEW count \in Nat, NEW n \in Nat \ {0}
  PROVE  /\ count \div n \in Nat /\ count % n \in Nat
         /\ Start(count \div n, count % n, 0) = 0
         /\ Start(count \div n, count % n, n) = count
<1>1. count \div n \in Nat /\ count % n \in 0 .. n - 1
  OBVIOUS
<1>2. count = n * (count \div n) + (count % n)
  OBVIOUS
<1>3. n * (count \div n) = (count \div n) * n
  BY <1>1
<1> QED
  BY <1>1, <1>2, <1>3 DEF Start

(* Every partition is in a block. *)
LEMMA StartCovers ==
  ASSUME NEW per \in Nat, NEW extra \in Nat, NEW p \in Nat, NEW n \in Nat, p < Start(per, extra, n)
  PROVE  \E i \in 0 .. n - 1 : Start(per, extra, i) <= p /\ p < Start(per, extra, i + 1)
<1> DEFINE at(i) == Start(per, extra, i)
           Good == {k \in Nat : p < at(k) => \E i \in 0 .. k - 1 : at(i) <= p /\ p < at(i + 1)}
<1>1. 0 \in Good
  BY DEF Start
<1>2. \A k \in Nat : at(k) \in Nat
  BY StartStep, Zenon
<1> HIDE DEF at
<1>3. ASSUME NEW k \in Nat, k \in Good PROVE k + 1 \in Good
  <2>1. CASE p < at(k)
    <3>1. PICK i \in 0 .. k - 1 : at(i) <= p /\ p < at(i + 1)
      BY <1>3, <2>1, Zenon
    <3> QED
      BY <3>1
  <2>2. CASE ~(p < at(k))
    <3>1. at(k) <= p /\ k \in 0 .. (k + 1) - 1
      BY <1>2, <2>2
    <3> QED
      BY <3>1
  <2> QED
    BY <2>1, <2>2, Zenon
<1> HIDE DEF Good
<1>4. n \in Good
  BY <1>1, <1>3, Induction, Zenon
<1> QED
  BY <1>4, Zenon DEF Good, at

(* Every place is some member's. *)
LEMMA RankOnto ==
  ASSUME NEW ids \in SUBSET Nat, IsFiniteSet(ids), NEW i \in 0 .. Cardinality(ids) - 1
  PROVE  \E m \in ids : Rank(ids, m) = i
<1> DEFINE n == Cardinality(ids)
           f == [m \in ids |-> Rank(ids, m)]
<1>1. n \in Nat
  BY FS_CardinalityType, Zenon
<1>2. f \in [ids -> 0 .. n - 1]
  BY RankOrder, Zenon
<1>3. \A k, m \in ids : f[k] = f[m] => k = m
  BY RankedRank
<1>4. f \in Injection(ids, 0 .. n - 1)
  BY <1>2, <1>3, Zenon DEF Injection, IsInjective
<1>5. IsFiniteSet(0 .. n - 1) /\ Cardinality(0 .. n - 1) = n
  <2>1. 0 \in Int /\ n - 1 \in Int
    BY <1>1
  <2>2. IsFiniteSet(0 .. n - 1) /\ Cardinality(0 .. n - 1) = IF 0 > n - 1 THEN 0 ELSE (n - 1) - 0 + 1
    BY <2>1, FS_Interval, Zenon
  <2> HIDE DEF n
  <2> QED
    BY <1>1, <2>2
<1> HIDE DEF f
<1>6. f \in Surjection(ids, 0 .. n - 1)
  BY <1>4, <1>5, FS_Injection, Zenon
<1> QED
  BY <1>6, Zenon DEF Surjection, f

(* The block of a member, between its start and the next one's. *)
BlockStart(ids, count, i) == Start(count \div Cardinality(ids), count % Cardinality(ids), i)

(* The block range gives a member reaches from its own start to the start  *)
(* of the next member.                                                     *)
LEMMA RangeBlockIs ==
  ASSUME NEW ids \in SUBSET Nat, IsFiniteSet(ids), NEW m \in ids, NEW count \in Nat, NEW t
  PROVE  RangeBlock(m, t, ids, count)
           = {t} \X (BlockStart(ids, count, Rank(ids, m))
                       .. BlockStart(ids, count, Rank(ids, m) + 1) - 1)
<1> DEFINE n == Cardinality(ids)
           i == Rank(ids, m)
           per == count \div n
           extra == count % n
<1>1. n \in Nat \ {0} /\ i \in Nat
  BY RankOrder
<1>2. RangeBlock(m, t, ids, count)
        = {t} \X (Start(per, extra, i) .. Start(per, extra, i) + (per + IF i < extra THEN 1 ELSE 0) - 1)
  BY Zenon DEF RangeBlock, Start
<1> HIDE DEF n, i
<1>3. per \in Nat /\ extra \in Nat
  BY <1>1, StartEnd, Zenon
<1> HIDE DEF per, extra
<1>4. Start(per, extra, i + 1) = Start(per, extra, i) + per + IF i < extra THEN 1 ELSE 0
  BY <1>1, <1>3, StartStep, Zenon
<1>5. Start(per, extra, i) \in Nat
  BY <1>1, <1>3, StartStep, Zenon
<1>6. Start(per, extra, i) + (per + IF i < extra THEN 1 ELSE 0) - 1 = Start(per, extra, i + 1) - 1
  BY <1>1, <1>3, <1>4, <1>5
<1> QED
  BY <1>2, <1>6, Zenon DEF BlockStart, per, extra, n, i

(* The blocks are within the topic, they follow each other in the order of *)
(* the ids, and together they are the topic.                               *)
LEMMA RangeBlocks ==
  ASSUME NEW ids \in SUBSET Nat, IsFiniteSet(ids), NEW count \in Nat, NEW t
  PROVE  /\ \A m \in ids : RangeBlock(m, t, ids, count) \subseteq {t} \X (0 .. count - 1)
         /\ \A m, n \in ids : m < n =>
              \A x \in RangeBlock(m, t, ids, count), y \in RangeBlock(n, t, ids, count) : x[2] < y[2]
         /\ \A p \in 0 .. count - 1 : ids # {} =>
              \E m \in ids : << t, p >> \in RangeBlock(m, t, ids, count)
<1> DEFINE size == Cardinality(ids)
           at(i) == BlockStart(ids, count, i)
           rank(m) == Rank(ids, m)
<1>1. \A m \in ids : /\ size \in Nat \ {0} /\ rank(m) \in 0 .. size - 1
                     /\ \A n \in ids : m < n => rank(m) < rank(n)
  BY RankOrder, Zenon
<1>2. \A m \in ids : RangeBlock(m, t, ids, count) = {t} \X (at(rank(m)) .. at(rank(m) + 1) - 1)
  BY RangeBlockIs, Zenon
<1>3. ASSUME size \in Nat \ {0}
      PROVE  /\ at(0) = 0 /\ at(size) = count
             /\ \A i \in Nat : at(i) \in Nat
             /\ \A i, j \in Nat : i <= j => at(i) <= at(j)
             /\ \A n \in Nat, p \in Nat : p < at(n) =>
                  \E i \in 0 .. n - 1 : at(i) <= p /\ p < at(i + 1)
  <2> DEFINE per == count \div size
             extra == count % size
  <2>1. /\ per \in Nat /\ extra \in Nat
        /\ Start(per, extra, 0) = 0 /\ Start(per, extra, size) = count
    BY <1>3, StartEnd, Zenon
  <2>2. \A i : at(i) = Start(per, extra, i)
    BY Zenon DEF BlockStart
  <2> HIDE DEF per, extra, at
  <2> QED
    BY <2>1, <2>2, StartStep, StartMonotone, StartCovers, Zenon
<1>5. size \in Nat \ {0} => \A i \in 0 .. size - 1 : \E m \in ids : rank(m) = i
  BY RankOnto, Zenon
<1> HIDE DEF size, at, rank
<1>6. ASSUME NEW m \in ids
      PROVE  RangeBlock(m, t, ids, count) \subseteq {t} \X (0 .. count - 1)
  <2>1. /\ at(rank(m)) \in Nat /\ at(rank(m) + 1) \in Nat /\ at(rank(m) + 1) <= count
    <3>1. rank(m) \in Nat /\ rank(m) + 1 \in Nat /\ size \in Nat /\ rank(m) + 1 <= size
      BY <1>1
    <3> QED
      BY <1>1, <1>3, <3>1, Zenon
  <2> QED
    BY <1>2, <2>1
<1>7. ASSUME NEW m \in ids, NEW n \in ids, m < n,
             NEW x \in RangeBlock(m, t, ids, count), NEW y \in RangeBlock(n, t, ids, count)
      PROVE  x[2] < y[2]
  <2>1. rank(m) \in Nat /\ rank(n) \in Nat /\ rank(m) + 1 \in Nat /\ rank(m) + 1 <= rank(n)
    BY <1>1, <1>7
  <2>2. at(rank(m) + 1) <= at(rank(n)) /\ at(rank(m) + 1) \in Nat /\ at(rank(n)) \in Nat
        /\ at(rank(m)) \in Nat /\ at(rank(n) + 1) \in Nat
    BY <1>1, <1>3, <2>1
  <2>3. x[2] \in at(rank(m)) .. at(rank(m) + 1) - 1 /\ y[2] \in at(rank(n)) .. at(rank(n) + 1) - 1
    BY <1>2, <1>7
  <2> QED
    BY <2>2, <2>3
<1>8. ASSUME NEW p \in 0 .. count - 1, ids # {}
      PROVE  \E m \in ids : << t, p >> \in RangeBlock(m, t, ids, count)
  <2>1. size \in Nat \ {0}
    BY <1>1, <1>8, Zenon
  <2>0. size \in Nat /\ p \in Nat /\ p < at(size)
    BY <1>3, <2>1
  <2>2. PICK i \in 0 .. size - 1 : at(i) <= p /\ p < at(i + 1)
    BY <1>3, <2>0, <2>1, Zenon
  <2>3. PICK m \in ids : rank(m) = i
    BY <1>5, <2>1, Zenon
  <2>4. at(i) \in Nat /\ at(i + 1) \in Nat /\ p \in at(i) .. at(i + 1) - 1
    BY <1>3, <2>1, <2>2
  <2> QED
    BY <1>2, <2>3, <2>4, Zenon
<1> QED
  BY <1>6, <1>7, <1>8, Zenon

-----------------------------------------------------------------------------
(* What assign is given, and what it promises. *)

(* Subscriptions of different members. *)
IsMembers(members) ==
  /\ IsFiniteSet(DOMAIN members) /\ DOMAIN members \subseteq Nat
  /\ \A i \in DOMAIN members : members[i].member_id \in Nat
  /\ \A i, j \in DOMAIN members : members[i].member_id = members[j].member_id => i = j

(* Counts of a few topics. *)
IsCounts(counts) ==
  /\ IsFiniteSet(DOMAIN counts) /\ DOMAIN counts \subseteq Nat
  /\ \A t \in DOMAIN counts : counts[t] \in Nat

(* Every member gets partitions there are, of topics it wants, and nobody  *)
(* else gets them.                                                         *)
Valid(members, counts, a) ==
  /\ a \in [MemberIds(members) -> SUBSET AllPartitions(counts)]
  /\ \A m \in MemberIds(members) : \A tp \in a[m] : m \in Subscribers(members, tp[1])
  /\ \A m, n \in MemberIds(members) : m # n => a[m] \cap a[n] = {}

(* Every partition that somebody wants is given to somebody. *)
Complete(members, counts, a) ==
  \A tp \in AllPartitions(counts) :
    Subscribers(members, tp[1]) # {} => \E m \in MemberIds(members) : tp \in a[m]

(* The members a leader is told of: finitely many ids, each with the       *)
(* subscription it sent.                                                   *)
LEMMA MembersFacts ==
  ASSUME NEW members, IsMembers(members)
  PROVE  /\ MemberIds(members) \in SUBSET Nat /\ IsFiniteSet(MemberIds(members))
         /\ \A i \in DOMAIN members : SubscriptionOf(members, members[i].member_id) = members[i]
         /\ \A t : Subscribers(members, t) \in SUBSET Nat /\ IsFiniteSet(Subscribers(members, t))
                 /\ Subscribers(members, t) \subseteq MemberIds(members)
<1>1. MemberIds(members) \in SUBSET Nat
  BY Zenon DEF IsMembers, MemberIds
<1>2. IsFiniteSet(MemberIds(members))
  <2> DEFINE f == [i \in DOMAIN members |-> members[i].member_id]
  <2>1. f \in Surjection(DOMAIN members, MemberIds(members))
    BY Zenon DEF Surjection, MemberIds
  <2> HIDE DEF f
  <2> QED
    BY <2>1, FS_Surjection, Zenon DEF IsMembers
<1>3. \A i \in DOMAIN members : SubscriptionOf(members, members[i].member_id) = members[i]
  BY Zenon DEF IsMembers, SubscriptionOf
<1>4. ASSUME NEW t
      PROVE  /\ Subscribers(members, t) \in SUBSET Nat /\ IsFiniteSet(Subscribers(members, t))
             /\ Subscribers(members, t) \subseteq MemberIds(members)
  <2>1. Subscribers(members, t) \subseteq MemberIds(members)
    BY Zenon DEF Subscribers
  <2> QED
    BY <1>1, <1>2, <2>1, FS_Subset, Zenon
<1> QED
  BY <1>1, <1>2, <1>3, <1>4, Zenon

(* The partitions of the counted topics are finitely many pairs of         *)
(* naturals.                                                               *)
LEMMA AllPartitionsFacts ==
  ASSUME NEW counts, IsCounts(counts)
  PROVE  /\ AllPartitions(counts) \in SUBSET (Nat \X Nat) /\ IsFiniteSet(AllPartitions(counts))
         /\ \A tp : tp \in AllPartitions(counts) <=>
              \E t \in DOMAIN counts : tp \in {t} \X (0 .. counts[t] - 1)
<1>1. \A tp : tp \in AllPartitions(counts) <=>
        \E t \in DOMAIN counts : tp \in {t} \X (0 .. counts[t] - 1)
  BY Zenon DEF AllPartitions
<1>2. AllPartitions(counts) \in SUBSET (Nat \X Nat)
  BY <1>1 DEF IsCounts
<1>3. IsFiniteSet(AllPartitions(counts))
  <2> DEFINE of(t) == {t} \X (0 .. counts[t] - 1)
             all == {of(t) : t \in DOMAIN counts}
  <2>1. \A t \in DOMAIN counts : IsFiniteSet(of(t))
    <3> TAKE t \in DOMAIN counts
    <3>1. IsFiniteSet({t})
      BY FS_Singleton, Zenon
    <3>2. IsFiniteSet(0 .. counts[t] - 1)
      <4>1. 0 \in Int /\ counts[t] - 1 \in Int
        BY DEF IsCounts
      <4> QED
        BY <4>1, FS_Interval, Zenon
    <3> QED
      BY <3>1, <3>2, FS_Product, Zenon
  <2> HIDE DEF of
  <2>2. IsFiniteSet(all)
    <3> DEFINE f == [t \in DOMAIN counts |-> of(t)]
    <3>1. f \in Surjection(DOMAIN counts, all)
      BY Zenon DEF Surjection
    <3> HIDE DEF f, all
    <3> QED
      BY <3>1, FS_Surjection, Zenon DEF IsCounts
  <2>3. \A T \in all : IsFiniteSet(T)
    BY <2>1, Zenon
  <2> HIDE DEF all
  <2>4. IsFiniteSet(UNION all)
    BY <2>2, <2>3, FS_UNION, Zenon
  <2> QED
    BY <2>4, Zenon DEF AllPartitions, all, of
<1> QED
  BY <1>1, <1>2, <1>3, Zenon

-----------------------------------------------------------------------------
(* range assigns every partition that somebody wants to one member that    *)
(* does.                                                                   *)
LEMMA RangeAssigns ==
  ASSUME NEW members, IsMembers(members), NEW counts, IsCounts(counts)
  PROVE  /\ Valid(members, counts, RangeAssignor(members, counts))
         /\ Complete(members, counts, RangeAssignor(members, counts))
<1> DEFINE ids == MemberIds(members)
           subs(t) == Subscribers(members, t)
           block(m, t) == RangeBlock(m, t, subs(t), counts[t])
           a == RangeAssignor(members, counts)
<1>1. DOMAIN a = ids /\ a = [m \in ids |-> a[m]]
  BY Zenon DEF RangeAssignor
<1>2. \A m \in ids : \A tp : tp \in a[m] <=>
        \E t \in DOMAIN counts : m \in subs(t) /\ tp \in block(m, t)
  BY Zenon DEF RangeAssignor
<1>3. ASSUME NEW t \in DOMAIN counts
      PROVE  /\ \A m \in subs(t) : block(m, t) \subseteq {t} \X (0 .. counts[t] - 1)
             /\ \A m, n \in subs(t) : m < n =>
                  \A x \in block(m, t), y \in block(n, t) : x[2] < y[2]
             /\ \A p \in 0 .. counts[t] - 1 : subs(t) # {} =>
                  \E m \in subs(t) : << t, p >> \in block(m, t)
  BY MembersFacts, RangeBlocks, Zenon DEF IsCounts
<1>4. \A t : subs(t) \subseteq ids /\ subs(t) \in SUBSET Nat
  BY MembersFacts, Zenon
<1> HIDE DEF ids, subs, block, a
<1>5. \A m \in ids : \A tp \in a[m] :
        /\ tp \in AllPartitions(counts) /\ m \in subs(tp[1]) /\ tp[1] \in DOMAIN counts
        /\ tp[2] \in Nat /\ tp \in block(m, tp[1])
  <2> SUFFICES ASSUME NEW m \in ids, NEW tp \in a[m]
               PROVE  /\ tp \in AllPartitions(counts) /\ m \in subs(tp[1]) /\ tp[1] \in DOMAIN counts
                      /\ tp[2] \in Nat /\ tp \in block(m, tp[1])
    BY Zenon
  <2>1. PICK t \in DOMAIN counts : m \in subs(t) /\ tp \in block(m, t)
    BY <1>2, Zenon
  <2>2. tp \in {t} \X (0 .. counts[t] - 1)
    BY <1>3, <2>1, Zenon
  <2> QED
    BY <2>1, <2>2, AllPartitionsFacts
<1>6. ASSUME NEW m \in ids, NEW n \in ids, m # n, NEW tp \in a[m] \cap a[n] PROVE FALSE
  <2>1. /\ tp[1] \in DOMAIN counts /\ tp[2] \in Nat /\ m \in subs(tp[1]) /\ n \in subs(tp[1])
        /\ tp \in block(m, tp[1]) /\ tp \in block(n, tp[1])
    BY <1>5, Zenon
  <2>2. m < n \/ n < m
    BY <1>4, <1>6, <2>1
  <2> QED
    BY <1>3, <2>1, <2>2
<1>7. ASSUME NEW tp \in AllPartitions(counts), subs(tp[1]) # {} PROVE \E m \in ids : tp \in a[m]
  <2>1. PICK t \in DOMAIN counts : tp \in {t} \X (0 .. counts[t] - 1)
    BY AllPartitionsFacts, Zenon
  <2>2. PICK m \in subs(t) : tp \in block(m, t)
    BY <1>3, <1>7, <2>1
  <2> QED
    BY <1>2, <1>4, <2>1, <2>2, Zenon
<1> QED
  BY <1>1, <1>5, <1>6, <1>7, Zenon DEF Valid, Complete, ids, subs, a

(* The partitions of topic t among some. *)
Of(tps, t) == {tp[2] : tp \in {x \in tps : x[1] = t}}

(* Of two members that want a topic the one with the lower id has the      *)
(* lower block of it, as long as the other's or one longer.                *)
LEMMA RangeContiguous ==
  ASSUME NEW members, IsMembers(members), NEW counts, IsCounts(counts),
         NEW a, a = RangeAssignor(members, counts), NEW t \in DOMAIN counts,
         NEW m \in Subscribers(members, t), NEW n \in Subscribers(members, t), m < n
  PROVE  /\ \A i \in Of(a[m], t), j \in Of(a[n], t) : i < j
         /\ Cardinality(Of(a[m], t)) - Cardinality(Of(a[n], t)) \in {0, 1}
<1> DEFINE subs(u) == Subscribers(members, u)
           size == Cardinality(subs(t))
           per == counts[t] \div size
           extra == counts[t] % size
           at(i) == Start(per, extra, i)
           rank(k) == Rank(subs(t), k)
           longer(i) == IF i < extra THEN 1 ELSE 0
<1>1. /\ \A u \in DOMAIN counts : subs(u) \in SUBSET Nat /\ IsFiniteSet(subs(u)) /\ counts[u] \in Nat
      /\ subs(t) \subseteq MemberIds(members) /\ m \in Nat /\ n \in Nat
  BY MembersFacts, Zenon DEF IsCounts
<1>2. /\ size \in Nat \ {0} /\ rank(m) \in Nat /\ rank(n) \in Nat /\ rank(m) < rank(n)
  BY <1>1, RankOrder
<1>3. per \in Nat /\ extra \in Nat
  BY <1>1, <1>2, StartEnd, Zenon
<1>4. ASSUME NEW k \in subs(t)
      PROVE  Of(a[k], t) = at(rank(k)) .. at(rank(k) + 1) - 1
  <2>1. k \in MemberIds(members)
    BY <1>1, Zenon
  <2>2. a[k] = UNION { RangeBlock(k, u, subs(u), counts[u]) : u \in {v \in DOMAIN counts : k \in subs(v)} }
    BY <2>1, Zenon DEF RangeAssignor
  <2>3. \A u \in DOMAIN counts : k \in subs(u) => \A x \in RangeBlock(k, u, subs(u), counts[u]) : x[1] = u
    BY Zenon DEF RangeBlock
  <2>4. Of(a[k], t) = {tp[2] : tp \in RangeBlock(k, t, subs(t), counts[t])}
    BY <2>2, <2>3 DEF Of
  <2>5. RangeBlock(k, t, subs(t), counts[t]) = {t} \X (at(rank(k)) .. at(rank(k) + 1) - 1)
    BY <1>1, RangeBlockIs, Zenon DEF BlockStart
  <2> DEFINE block == at(rank(k)) .. at(rank(k) + 1) - 1
  <2>6. RangeBlock(k, t, subs(t), counts[t]) = {t} \X block
    BY <2>5, Zenon
  <2> HIDE DEF block
  <2>7. {tp[2] : tp \in {t} \X block} = block
    <3>1. \A p \in block : << t, p >> \in {t} \X block /\ << t, p >>[2] = p
      BY Zenon
    <3> QED
      BY <3>1, Zenon
  <2>8. Of(a[k], t) = block
    BY <2>4, <2>6, <2>7, Zenon
  <2> QED
    BY <2>8, Zenon DEF block
<1> HIDE DEF per, extra, rank
<1>5. /\ at(rank(m)) \in Nat /\ at(rank(m) + 1) = at(rank(m)) + per + longer(rank(m))
      /\ at(rank(n)) \in Nat /\ at(rank(n) + 1) = at(rank(n)) + per + longer(rank(n))
  <2>1. \A i \in Nat : at(i) \in Nat /\ at(i + 1) = at(i) + per + longer(i)
    BY <1>3, StartStep, Zenon
  <2> HIDE DEF at, longer
  <2> QED
    BY <1>2, <2>1, Zenon
<1>6. at(rank(m) + 1) <= at(rank(n))
  BY <1>2, <1>3, StartMonotone
<1>7. /\ longer(rank(m)) \in {0, 1} /\ longer(rank(n)) \in {0, 1}
      /\ longer(rank(m)) - longer(rank(n)) \in {0, 1}
  BY <1>2, <1>3
<1> HIDE DEF at, longer
<1> DEFINE x == at(rank(m))
           y == at(rank(n))
           x2 == at(rank(m) + 1)
           y2 == at(rank(n) + 1)
           lm == longer(rank(m))
           ln == longer(rank(n))
<1>8. /\ Of(a[m], t) = x .. x2 - 1 /\ Of(a[n], t) = y .. y2 - 1
      /\ x \in Nat /\ x2 = x + per + lm /\ y \in Nat /\ y2 = y + per + ln
      /\ x2 <= y /\ lm \in {0, 1} /\ ln \in {0, 1} /\ lm - ln \in {0, 1}
  <2>1. Of(a[m], t) = x .. x2 - 1 /\ Of(a[n], t) = y .. y2 - 1
    BY <1>4, Zenon
  <2> QED
    BY <1>5, <1>6, <1>7, <2>1, Zenon
<1> HIDE DEF x, y, x2, y2, lm, ln
<1>9. x2 \in Nat /\ y2 \in Nat /\ x <= x2 /\ y <= y2
  BY <1>3, <1>8
<1>10. Cardinality(x .. x2 - 1) = x2 - x /\ Cardinality(y .. y2 - 1) = y2 - y
  <2>1. \A p, q \in Nat : p <= q => Cardinality(p .. q - 1) = q - p
    <3> TAKE p, q \in Nat
    <3> DEFINE last == q - 1
    <3>1. last \in Int /\ p \in Int
      OBVIOUS
    <3> HIDE DEF last
    <3>2. Cardinality(p .. last) = IF p > last THEN 0 ELSE last - p + 1
      BY <3>1, FS_Interval, Zenon
    <3> QED
      BY <3>2 DEF last
  <2> QED
    BY <1>8, <1>9, <2>1, Zenon
<1>11. ASSUME NEW i \in Of(a[m], t), NEW j \in Of(a[n], t) PROVE i < j
  BY <1>8, <1>9, <1>11
<1>12. (x2 - x) - (y2 - y) = lm - ln
  BY <1>3, <1>8
<1> QED
  BY <1>8, <1>10, <1>11, <1>12, Zenon

-----------------------------------------------------------------------------
(* Member m is given tp as well. *)
Given(a, m, tp) == [a EXCEPT ![m] = @ \cup {tp}]

(* Nobody of S has less than m. *)
Lightest(a, m, S) == \A n \in S : Cardinality(a[m]) <= Cardinality(a[n])

(* A partition is handed to a member that wants it, if there is one, and   *)
(* to one that has least.                                                  *)
LEMMA HandStep ==
  ASSUME NEW members, IsMembers(members), NEW counts, IsCounts(counts),
         NEW a \in [MemberIds(members) -> SUBSET AllPartitions(counts)],
         NEW tp \in AllPartitions(counts)
  PROVE  /\ Subscribers(members, tp[1]) = {} => Hand(members, a, tp) = a
         /\ Subscribers(members, tp[1]) # {} =>
              \E m \in Subscribers(members, tp[1]) :
                Hand(members, a, tp) = Given(a, m, tp) /\ Lightest(a, m, Subscribers(members, tp[1]))
<1> DEFINE candidates == Subscribers(members, tp[1])
           held(m) == Cardinality(a[m])
           first(m) == \A n \in candidates : held(m) < held(n) \/ (held(m) = held(n) /\ m <= n)
<1>1. candidates \in SUBSET Nat /\ IsFiniteSet(candidates) /\ candidates \subseteq MemberIds(members)
  BY MembersFacts, Zenon
<1>2. \A m \in candidates : held(m) \in Nat
  <2> TAKE m \in candidates
  <2>1. a[m] \in SUBSET AllPartitions(counts)
    BY <1>1, Zenon
  <2>2. IsFiniteSet(AllPartitions(counts))
    BY AllPartitionsFacts, Zenon
  <2> QED
    BY <2>1, <2>2, FS_Subset, FS_CardinalityType, Zenon
<1>3. CASE candidates = {}
  BY <1>3, Zenon DEF Hand
<1>4. CASE candidates # {}
  <2> DEFINE R == {r \in candidates \X candidates :
                     held(r[1]) < held(r[2]) \/ (held(r[1]) = held(r[2]) /\ r[1] < r[2])}
  <2>1. \A x, y \in candidates : << x, y >> \in R <=> held(x) < held(y) \/ (held(x) = held(y) /\ x < y)
    BY Zenon
  <2> HIDE DEF R, held, candidates
  <2>2. \A x, y \in candidates : x = y \/ << x, y >> \in R \/ << y, x >> \in R
    <3> TAKE x, y \in candidates
    <3>1. x \in Nat /\ y \in Nat /\ held(x) \in Nat /\ held(y) \in Nat
      BY <1>1, <1>2, Zenon
    <3> QED
      BY <2>1, <3>1
  <2>3. \A x, y, z \in candidates : << x, y >> \in R /\ << y, z >> \in R => << x, z >> \in R
    BY <1>1, <1>2, <2>1
  <2>4. \E x \in candidates : \A y \in candidates : y = x \/ << x, y >> \in R
    <3>1. Linear(candidates, R)
      BY <2>2, <2>3, Zenon DEF Linear
    <3> QED
      BY <1>1, <1>4, <3>1, Least, Zenon
  <2>5. \E x \in candidates : first(x)
    <3>1. PICK x \in candidates : \A y \in candidates : y = x \/ << x, y >> \in R
      BY <2>4, Zenon
    <3>2. first(x)
      <4> TAKE y \in candidates
      <4>1. x \in Nat /\ y \in Nat /\ held(x) \in Nat /\ held(y) \in Nat
        BY <1>1, <1>2, Zenon
      <4>2. CASE y = x
        BY <4>1, <4>2
      <4>3. CASE << x, y >> \in R
        BY <2>1, <4>1, <4>3
      <4> QED
        BY <3>1, <4>2, <4>3, Zenon
    <3> QED
      BY <3>2, Zenon
  <2> DEFINE chosen == CHOOSE m \in candidates : first(m)
  <2>6. chosen \in candidates /\ first(chosen)
    BY <2>5, Zenon
  <2>7. Hand(members, a, tp) = Given(a, chosen, tp)
    BY <1>4, Zenon DEF Hand, Given, candidates, held
  <2> HIDE DEF chosen
  <2>8. Lightest(a, chosen, candidates)
    <3> SUFFICES ASSUME NEW n \in candidates PROVE held(chosen) <= held(n)
      BY Zenon DEF Lightest, held
    <3> QED
      BY <1>2, <2>6
  <2> HIDE DEF first
  <2> QED
    BY <1>4, <2>6, <2>7, <2>8, Zenon DEF candidates
<1> QED
  BY <1>3, <1>4, Zenon

(* HandAll's recursion, which is well defined. *)
Handed(g, members, kept, tps) ==
  g = [S \in SUBSET tps |->
         IF S = {} THEN kept ELSE Hand(members, g[S \ {LastOf(S)}], LastOf(S))]

(* What is left over is handed out one partition after the other, in       *)
(* order.                                                                  *)
LEMMA HandAllIs ==
  ASSUME NEW members, IsMembers(members), NEW counts, IsCounts(counts),
         NEW kept \in [MemberIds(members) -> SUBSET AllPartitions(counts)],
         NEW tps \in SUBSET AllPartitions(counts)
  PROVE  \E g : Handed(g, members, kept, tps) /\ HandAll(members, kept, tps) = g[tps]
<1> DEFINE A == [MemberIds(members) -> SUBSET AllPartitions(counts)]
           pick == [S \in SUBSET tps |-> LastOf(S)]
           step == [tp \in tps |-> [a \in A |-> Hand(members, a, tp)]]
<1>1. IsFiniteSet(tps) /\ tps \in SUBSET (Nat \X Nat)
  BY AllPartitionsFacts, FS_Subset, Zenon
<1>2. \A S \in SUBSET tps : S # {} => LastOf(S) \in S
  <2> SUFFICES ASSUME NEW S \in SUBSET tps, S # {} PROVE LastOf(S) \in S
    BY Zenon
  <2>1. IsFiniteSet(S) /\ S \in SUBSET (Nat \X Nat)
    BY <1>1, FS_Subset, Zenon
  <2> QED
    BY <2>1, LastOfIn, Zenon
<1>3. \A a \in A, tp \in tps : Hand(members, a, tp) \in A
  <2> TAKE a \in A, tp \in tps
  <2>1. /\ tp \in AllPartitions(counts)
        /\ a \in [MemberIds(members) -> SUBSET AllPartitions(counts)]
    BY Zenon
  <2> HIDE DEF A
  <2>2. \/ Hand(members, a, tp) = a
        \/ \E m \in Subscribers(members, tp[1]) : Hand(members, a, tp) = Given(a, m, tp)
    BY <2>1, HandStep
  <2> QED
    BY <2>1, <2>2, Zenon DEF A, Given
<1> HIDE DEF A
<1>4. kept \in A /\ step \in [tps -> [A -> A]]
  BY <1>3, Zenon DEF A
<1>5. \A S \in SUBSET tps : S # {} => pick[S] \in S
  BY <1>2, Zenon
<1> HIDE DEF step, pick
<1>6. PICK g : FoldOf(g, tps, A, kept, pick, step)
  <2>1. Foldable(tps, A, kept, pick, step)
    BY <1>1, <1>4, <1>5, Zenon DEF Foldable
  <2> QED
    BY <2>1, FoldExists, Zenon
<1>7. \A S \in SUBSET tps :
        g[S] = IF S = {} THEN kept ELSE Hand(members, g[S \ {LastOf(S)}], LastOf(S))
  <2> TAKE S \in SUBSET tps
  <2>1. CASE S = {}
    BY <1>6, <2>1, Zenon DEF FoldOf
  <2>2. CASE S # {}
    <3>1. pick[S] = LastOf(S) /\ LastOf(S) \in tps /\ S \ {LastOf(S)} \in SUBSET tps
      BY <1>2, <2>2, Zenon DEF pick
    <3>2. g[S \ {LastOf(S)}] \in A
      BY <1>6, <3>1, Zenon DEF FoldOf
    <3> QED
      BY <1>6, <2>2, <3>1, <3>2, Zenon DEF step, FoldOf
  <2> QED
    BY <2>1, <2>2, Zenon
<1>8. Handed(g, members, kept, tps)
  BY <1>6, <1>7, Zenon DEF FoldOf, Handed
<1>9. Handed(CHOOSE f : Handed(f, members, kept, tps), members, kept, tps)
  BY <1>8, Zenon
<1>10. HandAll(members, kept, tps) = (CHOOSE f : Handed(f, members, kept, tps))[tps]
  BY Zenon DEF HandAll, Handed
<1> QED
  BY <1>9, <1>10, Zenon

(* Everything that somebody wants and nobody has is handed out, once, and  *)
(* nothing is taken back.                                                  *)
LEMMA HandAllAssigns ==
  ASSUME NEW members, IsMembers(members), NEW counts, IsCounts(counts),
         NEW kept, Valid(members, counts, kept),
         NEW tps \in SUBSET AllPartitions(counts),
         \A m \in MemberIds(members) : kept[m] \cap tps = {},
         AllPartitions(counts) \subseteq tps \cup UNION {kept[m] : m \in MemberIds(members)}
  PROVE  /\ Valid(members, counts, HandAll(members, kept, tps))
         /\ Complete(members, counts, HandAll(members, kept, tps))
         /\ \A m \in MemberIds(members) : kept[m] \subseteq HandAll(members, kept, tps)[m]
<1> DEFINE ids == MemberIds(members)
           all == AllPartitions(counts)
           subs(t) == Subscribers(members, t)
           Has(a, S) == \A m \in ids : /\ kept[m] \subseteq a[m]
                                       /\ a[m] \subseteq kept[m] \cup S
           Out(a, S) == \A tp \in S : subs(tp[1]) # {} => \E m \in ids : tp \in a[m]
<1>1. PICK g : Handed(g, members, kept, tps) /\ HandAll(members, kept, tps) = g[tps]
  <2>1. kept \in [MemberIds(members) -> SUBSET AllPartitions(counts)]
    BY Zenon DEF Valid
  <2> QED
    BY <2>1, HandAllIs
<1>2. IsFiniteSet(tps) /\ tps \in SUBSET (Nat \X Nat)
  BY AllPartitionsFacts, FS_Subset, Zenon
<1> DEFINE Good == {S \in SUBSET tps : Valid(members, counts, g[S]) /\ Has(g[S], S) /\ Out(g[S], S)}
<1>3. ASSUME NEW S \in SUBSET tps, \A U \in SUBSET S : U # S => U \in Good
      PROVE  S \in Good
  <2>1. CASE S = {}
    BY <1>1, <2>1, Zenon DEF Handed
  <2>2. CASE S # {}
    <3> DEFINE tp == LastOf(S)
               U == S \ {tp}
               a == g[U]
               b == g[S]
    <3>1. tp \in S
      <4>1. IsFiniteSet(S) /\ S \in SUBSET (Nat \X Nat)
        BY <1>2, FS_Subset, Zenon
      <4> QED
        BY <2>2, <4>1, LastOfIn, Zenon
    <3>2. U \in Good
      <4>1. U \in SUBSET S /\ U # S
        BY <3>1, Zenon
      <4> QED
        BY <1>3, <4>1, Zenon
    <3>3. b = Hand(members, a, tp)
      BY <1>1, <2>2, Zenon DEF Handed
    <3> HIDE DEF tp, a, b
    <3>4. Valid(members, counts, a) /\ Has(a, U) /\ Out(a, U)
      BY <3>2, Zenon DEF a
    <3>5. a \in [ids -> SUBSET all] /\ tp \in all
      BY <3>1, <3>4, Zenon DEF Valid
    <3>6. \A m \in ids : tp \notin a[m]
      BY <3>1, <3>4, Zenon
    <3>7. CASE subs(tp[1]) = {}
      <4>1. b = a
        BY <3>3, <3>5, <3>7, HandStep, Zenon
      <4> QED
        BY <3>1, <3>4, <3>7, <4>1, Zenon DEF b
    <3>8. CASE subs(tp[1]) # {}
      <4>1. PICK m \in subs(tp[1]) : b = Given(a, m, tp)
        BY <3>3, <3>5, <3>8, HandStep
      <4>2. m \in ids
        BY MembersFacts, Zenon
      <4>3. /\ b \in [ids -> SUBSET all] /\ b[m] = a[m] \cup {tp}
            /\ \A n \in ids : n # m => b[n] = a[n]
        BY <3>5, <4>1, <4>2, Zenon DEF Given
      <4> HIDE DEF ids, all, subs
      <4>4. Valid(members, counts, b)
        BY <3>4, <3>6, <4>1, <4>2, <4>3 DEF Valid, ids, all, subs
      <4>5. Has(b, S) /\ Out(b, S)
        BY <3>1, <3>4, <4>1, <4>2, <4>3, Zenon
      <4> QED
        BY <4>4, <4>5, Zenon DEF b, ids, subs
    <3> QED
      BY <3>7, <3>8, Zenon
  <2> QED
    BY <2>1, <2>2, Zenon
<1> HIDE DEF Good
<1>4. \A S \in SUBSET tps : S \in Good
  BY <1>2, <1>3, SubsetInduction, Zenon
<1>5. tps \in Good
  BY <1>4, Zenon
<1>6. Valid(members, counts, g[tps]) /\ Has(g[tps], tps) /\ Out(g[tps], tps)
  BY <1>5, Zenon DEF Good
<1>7. Complete(members, counts, g[tps])
  BY <1>6 DEF Complete
<1> QED
  BY <1>1, <1>6, <1>7, Zenon

-----------------------------------------------------------------------------
(* With nothing given out yet nothing is given out twice. *)
LEMMA NothingValid ==
  ASSUME NEW members, NEW counts
  PROVE  Valid(members, counts, Nothing(members))
BY Zenon DEF Valid, Nothing

(* A member keeps partitions there are, that it wants and nobody has. *)
LEMMA KeepValid ==
  ASSUME NEW members, NEW counts, NEW a, Valid(members, counts, a), NEW m \in MemberIds(members)
  PROVE  Valid(members, counts, Keep(members, counts, a, m))
<1> DEFINE ids == MemberIds(members)
           all == AllPartitions(counts)
           taken == UNION {a[n] : n \in DOMAIN a}
           keepable == {tp \in live_claims(members)[m] \cap all :
                          tp \notin taken /\ m \in Subscribers(members, tp[1])}
           mine == FirstOf(keepable, quota_of(members, counts, m))
           b == Keep(members, counts, a, m)
<1>1. b = [a EXCEPT ![m] = mine]
  BY Zenon DEF Keep
<1>2. mine \subseteq keepable
  BY Zenon DEF FirstOf
<1>3. a \in [ids -> SUBSET all]
  BY Zenon DEF Valid
<1> HIDE DEF mine, b
<1>4. /\ mine \subseteq all
      /\ \A tp \in mine : m \in Subscribers(members, tp[1]) /\ \A n \in ids : tp \notin a[n]
  BY <1>2, <1>3
<1>5. b \in [ids -> SUBSET all] /\ b[m] = mine /\ \A n \in ids : n # m => b[n] = a[n]
  BY <1>1, <1>3, <1>4, Zenon
<1> HIDE DEF ids, all
<1>6. Valid(members, counts, b)
  BY <1>4, <1>5 DEF Valid, ids, all
<1> QED
  BY <1>6, Zenon DEF b

(* KeepAll's recursion, which is well defined. *)
Kept(g, members, counts) ==
  g = [S \in SUBSET MemberIds(members) |->
         IF S = {} THEN Nothing(members)
         ELSE Keep(members, counts, g[S \ {LastId(S)}], LastId(S))]

(* Members keep their claims one after the other, in the order of their    *)
(* ids.                                                                    *)
LEMMA KeepAllIs ==
  ASSUME NEW members, IsMembers(members), NEW counts
  PROVE  \E g : Kept(g, members, counts) /\ KeepAll(members, counts) = g[MemberIds(members)]
<1> DEFINE ids == MemberIds(members)
           A == {a \in [ids -> SUBSET AllPartitions(counts)] : Valid(members, counts, a)}
           pick == [S \in SUBSET ids |-> LastId(S)]
           step == [m \in ids |-> [a \in A |-> Keep(members, counts, a, m)]]
           base == Nothing(members)
<1>1. IsFiniteSet(ids) /\ ids \in SUBSET Nat
  BY MembersFacts, Zenon
<1>2. \A S \in SUBSET ids : S # {} => LastId(S) \in S
  <2> SUFFICES ASSUME NEW S \in SUBSET ids, S # {} PROVE LastId(S) \in S
    BY Zenon
  <2>1. IsFiniteSet(S) /\ S \in SUBSET Nat
    BY <1>1, FS_Subset, Zenon
  <2> QED
    BY <2>1, LastIdIn, Zenon
<1>3. \A a : a \in A <=> Valid(members, counts, a)
  BY Zenon DEF Valid
<1> HIDE DEF A
<1>4. \A a \in A, m \in ids : Keep(members, counts, a, m) \in A
  BY <1>3, KeepValid, Zenon
<1>5. base \in A /\ step \in [ids -> [A -> A]]
  BY <1>3, <1>4, NothingValid, Zenon
<1>6. \A S \in SUBSET ids : S # {} => pick[S] \in S
  BY <1>2, Zenon
<1> HIDE DEF step, pick, base
<1>7. PICK g : FoldOf(g, ids, A, base, pick, step)
  <2>1. Foldable(ids, A, base, pick, step)
    BY <1>1, <1>5, <1>6, Zenon DEF Foldable
  <2> QED
    BY <2>1, FoldExists, Zenon
<1>8. \A S \in SUBSET ids :
        g[S] = IF S = {} THEN base ELSE Keep(members, counts, g[S \ {LastId(S)}], LastId(S))
  <2> TAKE S \in SUBSET ids
  <2>1. CASE S = {}
    BY <1>7, <2>1, Zenon DEF FoldOf
  <2>2. CASE S # {}
    <3>1. pick[S] = LastId(S) /\ LastId(S) \in ids /\ S \ {LastId(S)} \in SUBSET ids
      BY <1>2, <2>2, Zenon DEF pick
    <3>2. g[S \ {LastId(S)}] \in A
      BY <1>7, <3>1, Zenon DEF FoldOf
    <3> QED
      BY <1>7, <2>2, <3>1, <3>2, Zenon DEF step, FoldOf
  <2> QED
    BY <2>1, <2>2, Zenon
<1>9. Kept(g, members, counts)
  BY <1>7, <1>8, Zenon DEF FoldOf, Kept, base
<1>10. Kept(CHOOSE f : Kept(f, members, counts), members, counts)
  BY <1>9, Zenon
<1>11. KeepAll(members, counts) = (CHOOSE f : Kept(f, members, counts))[ids]
  BY Zenon DEF KeepAll, Kept
<1> QED
  BY <1>10, <1>11, Zenon

(* What is kept is kept by one member. *)
LEMMA KeepAllValid ==
  ASSUME NEW members, IsMembers(members), NEW counts
  PROVE  Valid(members, counts, KeepAll(members, counts))
<1> DEFINE ids == MemberIds(members)
<1>1. PICK g : Kept(g, members, counts) /\ KeepAll(members, counts) = g[ids]
  BY KeepAllIs, Zenon
<1>2. IsFiniteSet(ids) /\ ids \in SUBSET Nat
  BY MembersFacts, Zenon
<1> DEFINE Good == {S \in SUBSET ids : Valid(members, counts, g[S])}
<1>3. ASSUME NEW S \in SUBSET ids, \A U \in SUBSET S : U # S => U \in Good
      PROVE  S \in Good
  <2>1. CASE S = {}
    BY <1>1, <2>1, NothingValid, Zenon DEF Kept
  <2>2. CASE S # {}
    <3> DEFINE m == LastId(S)
               U == S \ {m}
    <3>1. m \in S
      <4>1. IsFiniteSet(S) /\ S \in SUBSET Nat
        BY <1>2, FS_Subset, Zenon
      <4> QED
        BY <2>2, <4>1, LastIdIn, Zenon
    <3>2. U \in Good
      <4>1. U \in SUBSET S /\ U # S
        BY <3>1, Zenon
      <4> QED
        BY <1>3, <4>1, Zenon
    <3>3. g[S] = Keep(members, counts, g[U], m)
      BY <1>1, <2>2, Zenon DEF Kept
    <3> HIDE DEF m
    <3> QED
      BY <3>1, <3>2, <3>3, KeepValid
  <2> QED
    BY <2>1, <2>2, Zenon
<1> HIDE DEF Good
<1>4. \A S \in SUBSET ids : S \in Good
  BY <1>2, <1>3, SubsetInduction, SMTT(20)
<1>5. ids \in Good
  BY <1>4, Zenon
<1> QED
  BY <1>1, <1>5, Zenon DEF Good

(* sticky assigns every partition that somebody wants to one member that   *)
(* does, whatever the members claim.                                       *)
LEMMA StickyAssigns ==
  ASSUME NEW members, IsMembers(members), NEW counts, IsCounts(counts)
  PROVE  /\ Valid(members, counts, StickyAssignor(members, counts))
         /\ Complete(members, counts, StickyAssignor(members, counts))
<1>1. CASE members = <<>>
  <2>1. MemberIds(members) = {}
    BY <1>1 DEF MemberIds
  <2>2. \A t : Subscribers(members, t) = {}
    BY <2>1, Zenon DEF Subscribers
  <2>3. StickyAssignor(members, counts) = Nothing(members)
    BY <1>1, Zenon DEF StickyAssignor
  <2> QED
    BY <2>2, <2>3, NothingValid, Zenon DEF Complete
<1>2. CASE members # <<>>
  <2> DEFINE kept == KeepAll(members, counts)
             taken == UNION {kept[m] : m \in DOMAIN kept}
             tps == AllPartitions(counts) \ taken
  <2>1. StickyAssignor(members, counts) = HandAll(members, kept, tps)
    BY <1>2, Zenon DEF StickyAssignor
  <2>2. Valid(members, counts, kept)
    BY KeepAllValid, Zenon
  <2> HIDE DEF kept
  <2>3. DOMAIN kept = MemberIds(members)
    BY <2>2, Zenon DEF Valid
  <2>4. /\ tps \in SUBSET AllPartitions(counts)
        /\ \A m \in MemberIds(members) : kept[m] \cap tps = {}
        /\ AllPartitions(counts) \subseteq tps \cup UNION {kept[m] : m \in MemberIds(members)}
    BY <2>3, Zenon
  <2> HIDE DEF tps
  <2> QED
    BY <2>1, <2>2, <2>4, HandAllAssigns
<1> QED
  BY <1>1, <1>2, Zenon

-----------------------------------------------------------------------------
(* What cooperative-sticky remembers of a partition is a claim, if there   *)
(* is any.                                                                 *)
LEMMA OwnerClaims ==
  ASSUME NEW members, IsMembers(members), NEW tp
  PROVE  /\ \A i \in DOMAIN members : tp \in members[i].owned =>
              \E j \in DOMAIN members : /\ tp \in members[j].owned
                                       /\ OwnerOf(members, tp) = {members[j].member_id}
         /\ (\A i \in DOMAIN members : tp \notin members[i].owned) => OwnerOf(members, tp) = {}
<1> DEFINE claims == {i \in DOMAIN members : tp \in members[i].owned}
<1>1. CASE claims = {}
  BY <1>1, Zenon DEF OwnerOf
<1>2. CASE claims # {}
  <2>1. IsFiniteSet(claims) /\ claims \in SUBSET Nat
    BY FS_Subset, Zenon DEF IsMembers
  <2>2. LastId(claims) \in claims
    BY <1>2, <2>1, LastIdIn, Zenon
  <2>3. OwnerOf(members, tp) = {members[LastId(claims)].member_id}
    BY <1>2, Zenon DEF OwnerOf, LastId
  <2> QED
    BY <2>2, <2>3, Zenon
<1> QED
  BY <1>1, <1>2, Zenon

(* cooperative-sticky gives no partition to two members; it gives a member *)
(* nothing new that another claims; and if every member is left all it     *)
(* claims, it has assigned every partition that somebody wants.            *)
LEMMA CooperativeAssigns ==
  ASSUME NEW members, IsMembers(members), NEW counts, IsCounts(counts),
         NEW a, a = CooperativeStickyAssignor(members, counts)
  PROVE  /\ Valid(members, counts, a)
         /\ \A i, j \in DOMAIN members : i # j =>
              (a[members[i].member_id] \ members[i].owned) \cap members[j].owned = {}
         /\ (\A i \in DOMAIN members : members[i].owned \subseteq a[members[i].member_id])
              => Complete(members, counts, a)
<1> DEFINE ids == MemberIds(members)
           target == StickyAssignor(members, counts)
<1>1. Valid(members, counts, target) /\ Complete(members, counts, target)
  BY StickyAssigns, Zenon
<1>2. a = [m \in DOMAIN target |-> {tp \in target[m] : OwnerOf(members, tp) \subseteq {m}}]
  BY Zenon DEF CooperativeStickyAssignor
<1> HIDE DEF target
<1>3. DOMAIN target = ids /\ target \in [ids -> SUBSET AllPartitions(counts)]
  BY <1>1, Zenon DEF Valid
<1>4. /\ a \in [ids -> SUBSET AllPartitions(counts)]
      /\ \A m \in ids : \A tp : tp \in a[m] <=> tp \in target[m] /\ OwnerOf(members, tp) \subseteq {m}
  BY <1>2, <1>3, Zenon
<1>5. Valid(members, counts, a)
  BY <1>1, <1>4, Zenon DEF Valid
<1>6. \A i \in DOMAIN members : members[i].member_id \in ids
  BY Zenon DEF MemberIds
<1>7. ASSUME NEW i \in DOMAIN members, NEW j \in DOMAIN members, i # j,
             NEW tp, tp \in a[members[i].member_id], tp \notin members[i].owned,
             tp \in members[j].owned
      PROVE  FALSE
  <2>1. PICK k \in DOMAIN members : /\ tp \in members[k].owned
                                    /\ OwnerOf(members, tp) = {members[k].member_id}
    BY <1>7, OwnerClaims, Zenon
  <2>2. members[k].member_id = members[i].member_id
    BY <1>4, <1>6, <1>7, <2>1
  <2>3. k = i
    BY <2>2, Zenon DEF IsMembers
  <2> QED
    BY <1>7, <2>1, <2>3, Zenon
<1>8. ASSUME \A i \in DOMAIN members : members[i].owned \subseteq a[members[i].member_id],
             NEW tp \in AllPartitions(counts), Subscribers(members, tp[1]) # {}
      PROVE  \E m \in ids : tp \in a[m]
  <2>1. PICK m \in ids : tp \in target[m]
    BY <1>1, <1>8, Zenon DEF Complete
  <2>2. CASE \A i \in DOMAIN members : tp \notin members[i].owned
    <3>1. OwnerOf(members, tp) = {}
      BY <2>2, OwnerClaims, Zenon
    <3> QED
      BY <1>4, <2>1, <3>1, Zenon
  <2>3. CASE \E i \in DOMAIN members : tp \in members[i].owned
    BY <1>6, <1>8, <2>3, Zenon
  <2> QED
    BY <2>2, <2>3, Zenon
<1> QED
  BY <1>5, <1>7, <1>8, Zenon DEF Complete

-----------------------------------------------------------------------------
(* roundrobin. *)

(* A remainder. *)
LEMMA ModOf ==
  ASSUME NEW n \in Nat \ {0}, NEW q \in Int, NEW r \in 0 .. n - 1
  PROVE  (n * q + r) % n = r
<1> DEFINE a == n * q + r
           d == a \div n
<1>1. a \in Int /\ d \in Int /\ a % n \in 0 .. n - 1
  OBVIOUS
<1>2. a = n * d + (a % n)
  OBVIOUS
<1>3. n * (q - d) = (a % n) - r
  BY <1>1, <1>2
<1>4. q - d = 0
  BY <1>1, <1>3
<1> QED
  BY <1>1, <1>2, <1>4

(* Within a turn everybody's place comes up. *)
LEMMA TurnComes ==
  ASSUME NEW n \in Nat \ {0}, NEW next \in Nat, NEW r \in 0 .. n - 1
  PROVE  \E k \in next .. next + n - 1 : k % n = r
<1> DEFINE q == next \div n
           e == next % n
<1>1. q \in Nat /\ e \in 0 .. n - 1 /\ next = n * q + e
  OBVIOUS
<1> HIDE DEF q, e
<1>2. CASE r >= e
  <2> DEFINE k == n * q + r
  <2>1. k % n = r
    BY <1>1, ModOf
  <2>2. n * q \in Int
    BY <1>1
  <2>3. k \in next .. next + n - 1
    BY <1>1, <1>2, <2>2
  <2> QED
    BY <2>1, <2>3, Zenon
<1>3. CASE r < e
  <2> DEFINE k == n * (q + 1) + r
  <2>1. k % n = r
    <3>1. q + 1 \in Int
      BY <1>1
    <3> QED
      BY <3>1, ModOf, Zenon
  <2>2. n * q \in Int /\ n * (q + 1) = n * q + n
    BY <1>1
  <2>3. k \in next .. next + n - 1
    BY <1>1, <1>3, <2>2
  <2> QED
    BY <2>1, <2>3, Zenon
<1> QED
  BY <1>1, <1>2, <1>3

(* The state of the deal. *)
Dealings(members, counts) ==
  [next : Nat, assignment : [MemberIds(members) -> SUBSET AllPartitions(counts)]]

(* The next one to be dealt a partition is the first who wants it, if      *)
(* anybody does.                                                           *)
LEMMA DealStep ==
  ASSUME NEW members, IsMembers(members), MemberIds(members) # {}, NEW counts, IsCounts(counts),
         NEW d \in Dealings(members, counts), NEW tp \in AllPartitions(counts)
  PROVE  /\ Deal(members, d, tp) \in Dealings(members, counts)
         /\ Subscribers(members, tp[1]) = {} => Deal(members, d, tp).assignment = d.assignment
         /\ Subscribers(members, tp[1]) # {} =>
              \E m \in Subscribers(members, tp[1]) :
                Deal(members, d, tp).assignment = Given(d.assignment, m, tp)
<1> DEFINE ids == MemberIds(members)
           size == Cardinality(ids)
           at(k) == Ranked(ids, k % size)
           wants == {k \in d.next .. d.next + size - 1 : at(k) \in Subscribers(members, tp[1])}
           chosen == CHOOSE k \in wants : \A j \in wants : k <= j
           b == Deal(members, d, tp)
<1>1. ids \in SUBSET Nat /\ IsFiniteSet(ids) /\ Subscribers(members, tp[1]) \subseteq ids
  BY MembersFacts, Zenon
<1>2. size \in Nat \ {0}
  BY <1>1, RankOrder, Zenon
<1>3. d.next \in Nat /\ d.assignment \in [ids -> SUBSET AllPartitions(counts)]
  BY Zenon DEF Dealings
<1>4. CASE wants = {}
  <2>1. b = [d EXCEPT !.next = @ + size]
    BY <1>4, Zenon DEF Deal
  <2>2. Subscribers(members, tp[1]) = {}
    <3> SUFFICES ASSUME NEW m \in Subscribers(members, tp[1]) PROVE FALSE
      BY Zenon
    <3>1. m \in ids /\ Rank(ids, m) \in 0 .. size - 1 /\ Ranked(ids, Rank(ids, m)) = m
      BY <1>1, RankOrder, RankedRank, Zenon
    <3>2. PICK k \in d.next .. d.next + size - 1 : k % size = Rank(ids, m)
      BY <1>2, <1>3, <3>1, TurnComes, Zenon
    <3>3. k \in wants
      BY <3>1, <3>2, Zenon
    <3> QED
      BY <1>4, <3>3, Zenon
  <2>3. b.assignment = d.assignment /\ b \in Dealings(members, counts)
    <3>1. d.next + size \in Nat
      BY <1>2, <1>3
    <3> HIDE DEF size, b
    <3> QED
      BY <1>3, <2>1, <3>1, Zenon DEF Dealings
  <2> QED
    BY <2>2, <2>3, Zenon
<1>5. CASE wants # {}
  <2>1. wants \in SUBSET Nat /\ \A k \in wants : at(k) \in Subscribers(members, tp[1])
    BY <1>2, <1>3
  <2>2. chosen \in wants
    <3> HIDE DEF wants
    <3> QED
      BY <1>5, <2>1, Smallest, Zenon
  <2>3. b = [next |-> chosen + 1, assignment |-> Given(d.assignment, at(chosen), tp)]
    BY <1>5, Zenon DEF Deal, Given
  <2>4. chosen \in Nat /\ at(chosen) \in Subscribers(members, tp[1]) /\ at(chosen) \in ids
    BY <1>1, <2>1, <2>2, Zenon
  <2> HIDE DEF at, chosen, b
  <2>5. b.assignment = Given(d.assignment, at(chosen), tp)
    BY <2>3, Zenon
  <2>6. Given(d.assignment, at(chosen), tp) \in [ids -> SUBSET AllPartitions(counts)]
    BY <1>3, <2>4, Zenon DEF Given
  <2>7. b \in Dealings(members, counts)
    BY <2>3, <2>4, <2>6 DEF Dealings
  <2> QED
    BY <2>4, <2>5, <2>7, Zenon DEF b
<1> QED
  BY <1>4, <1>5, Zenon

(* DealAll's recursion, which is well defined. *)
Dealt(g, members, tps) ==
  g = [S \in SUBSET tps |->
         IF S = {} THEN [next |-> 0, assignment |-> Nothing(members)]
         ELSE Deal(members, g[S \ {LastOf(S)}], LastOf(S))]

DealtOut(g, members, counts, tps) ==
  /\ Dealt(g, members, tps)
  /\ g \in [SUBSET tps -> Dealings(members, counts)]
  /\ DealAll(members, tps) = g[tps].assignment

(* DealAll is what its recursion makes of the last partition. *)
LEMMA DealAllIs ==
  ASSUME NEW members, IsMembers(members), MemberIds(members) # {}, NEW counts, IsCounts(counts),
         NEW tps \in SUBSET AllPartitions(counts)
  PROVE  \E g : DealtOut(g, members, counts, tps)
<1> DEFINE A == Dealings(members, counts)
           base == [next |-> 0, assignment |-> Nothing(members)]
           pick == [S \in SUBSET tps |-> LastOf(S)]
           step == [tp \in tps |-> [d \in A |-> Deal(members, d, tp)]]
<1>1. IsFiniteSet(tps) /\ tps \in SUBSET (Nat \X Nat)
  BY AllPartitionsFacts, FS_Subset, Zenon
<1>2. \A S \in SUBSET tps : S # {} => LastOf(S) \in S
  <2> SUFFICES ASSUME NEW S \in SUBSET tps, S # {} PROVE LastOf(S) \in S
    BY Zenon
  <2>1. IsFiniteSet(S) /\ S \in SUBSET (Nat \X Nat)
    BY <1>1, FS_Subset, Zenon
  <2> QED
    BY <2>1, LastOfIn, Zenon
<1>3. \A d \in A, tp \in tps : Deal(members, d, tp) \in A
  BY DealStep, Zenon
<1>4. base \in A
  BY Zenon DEF Dealings, Nothing
<1> HIDE DEF A
<1>5. step \in [tps -> [A -> A]]
  BY <1>3, Zenon
<1>6. \A S \in SUBSET tps : S # {} => pick[S] \in S
  BY <1>2, Zenon
<1> HIDE DEF step, pick, base
<1>7. PICK g : FoldOf(g, tps, A, base, pick, step)
  <2>1. Foldable(tps, A, base, pick, step)
    BY <1>1, <1>4, <1>5, <1>6, Zenon DEF Foldable
  <2> QED
    BY <2>1, FoldExists, Zenon
<1>8. \A S \in SUBSET tps :
        g[S] = IF S = {} THEN base ELSE Deal(members, g[S \ {LastOf(S)}], LastOf(S))
  <2> TAKE S \in SUBSET tps
  <2>1. CASE S = {}
    BY <1>7, <2>1, Zenon DEF FoldOf
  <2>2. CASE S # {}
    <3>1. pick[S] = LastOf(S) /\ LastOf(S) \in tps /\ S \ {LastOf(S)} \in SUBSET tps
      BY <1>2, <2>2, Zenon DEF pick
    <3>2. g[S \ {LastOf(S)}] \in A
      BY <1>7, <3>1, Zenon DEF FoldOf
    <3> QED
      BY <1>7, <2>2, <3>1, <3>2, Zenon DEF step, FoldOf
  <2> QED
    BY <2>1, <2>2, Zenon
<1>9. Dealt(g, members, tps)
  BY <1>7, <1>8, Zenon DEF FoldOf, Dealt, base
<1> DEFINE h == CHOOSE f : Dealt(f, members, tps)
<1>10. Dealt(h, members, tps)
  BY <1>9, Zenon
<1>11. DealAll(members, tps) = h[tps].assignment
  BY Zenon DEF DealAll, Dealt
<1> HIDE DEF h
<1> DEFINE Good == {S \in SUBSET tps : h[S] \in A}
<1>12. ASSUME NEW S \in SUBSET tps, \A U \in SUBSET S : U # S => U \in Good
       PROVE  S \in Good
  <2>1. CASE S = {}
    BY <1>4, <1>10, <2>1, Zenon DEF Dealt, base
  <2>2. CASE S # {}
    <3> DEFINE tp == LastOf(S)
               U == S \ {tp}
    <3>1. tp \in S
      BY <1>2, <2>2, Zenon
    <3>2. U \in Good
      <4>1. U \in SUBSET S /\ U # S
        BY <3>1, Zenon
      <4> QED
        BY <1>12, <4>1, Zenon
    <3>3. h[S] = Deal(members, h[U], tp)
      BY <1>10, <2>2, Zenon DEF Dealt
    <3> HIDE DEF tp
    <3> QED
      BY <1>3, <3>1, <3>2, <3>3, Zenon
  <2> QED
    BY <2>1, <2>2, Zenon
<1> HIDE DEF Good
<1>13. \A S \in SUBSET tps : S \in Good
  BY <1>1, <1>12, SubsetInduction, Zenon
<1>14. h \in [SUBSET tps -> A]
  <2>1. \A S \in SUBSET tps : h[S] \in A
    BY <1>13, Zenon DEF Good
  <2>2. h = [S \in SUBSET tps |-> h[S]]
    BY <1>10, Zenon DEF Dealt
  <2> QED
    BY <2>1, <2>2, Zenon
<1> QED
  BY <1>10, <1>11, <1>14, Zenon DEF A, DealtOut

(* roundrobin assigns every partition that somebody wants to one member    *)
(* that does.                                                              *)
LEMMA RoundRobinAssigns ==
  ASSUME NEW members, IsMembers(members), NEW counts, IsCounts(counts)
  PROVE  /\ Valid(members, counts, RoundRobinAssignor(members, counts))
         /\ Complete(members, counts, RoundRobinAssignor(members, counts))
<1> DEFINE ids == MemberIds(members)
           all == AllPartitions(counts)
           subs(t) == Subscribers(members, t)
<1>0. CASE ids = {}
  <2>1. DOMAIN members = {} /\ \A t : subs(t) = {}
    BY <1>0, Zenon DEF MemberIds, Subscribers
  <2>2. RoundRobinAssignor(members, counts) = Nothing(members)
    BY <2>1 DEF RoundRobinAssignor
  <2> QED
    BY <2>1, <2>2, NothingValid, Zenon DEF Complete
<1>1. CASE ids # {}
  <2>1. members # <<>>
    BY <1>1 DEF MemberIds
  <2>2. RoundRobinAssignor(members, counts) = DealAll(members, all)
    BY <2>1, Zenon DEF RoundRobinAssignor
  <2>a. \E g : DealtOut(g, members, counts, all)
    <3>1. all \in SUBSET AllPartitions(counts)
      BY Zenon
    <3> HIDE DEF all
    <3> QED
      BY <1>1, <3>1, DealAllIs, Zenon
  <2>3. PICK g : /\ Dealt(g, members, all) /\ g \in [SUBSET all -> Dealings(members, counts)]
                 /\ DealAll(members, all) = g[all].assignment
    BY <2>a, Zenon DEF DealtOut
  <2>4. IsFiniteSet(all) /\ all \in SUBSET (Nat \X Nat)
    BY AllPartitionsFacts, Zenon
  <2> DEFINE has(S) == g[S].assignment
             Out(a, S) == /\ \A m \in ids : a[m] \subseteq S
                          /\ \A tp \in S : subs(tp[1]) # {} => \E m \in ids : tp \in a[m]
             Good == {S \in SUBSET all : Valid(members, counts, has(S)) /\ Out(has(S), S)}
  <2>5. ASSUME NEW S \in SUBSET all, \A U \in SUBSET S : U # S => U \in Good
        PROVE  S \in Good
    <3>1. CASE S = {}
      <4>1. has(S) = Nothing(members)
        BY <2>3, <3>1 DEF Dealt
      <4> QED
        BY <3>1, <4>1, NothingValid DEF Nothing
    <3>2. CASE S # {}
      <4> DEFINE tp == LastOf(S)
                 U == S \ {tp}
                 a == has(U)
                 b == has(S)
      <4>1. tp \in S
        <5>1. IsFiniteSet(S) /\ S \in SUBSET (Nat \X Nat)
          BY <2>4, FS_Subset, Zenon
        <5> QED
          BY <3>2, <5>1, LastOfIn, Zenon
      <4>2. U \in Good
        <5>1. U \in SUBSET S /\ U # S
          BY <4>1, Zenon
        <5> QED
          BY <2>5, <5>1, Zenon
      <4>3. g[S] = Deal(members, g[U], tp)
        BY <2>3, <3>2, Zenon DEF Dealt
      <4>4. g[U] \in Dealings(members, counts) /\ tp \in all
        BY <2>3, <4>1, Zenon
      <4>5. a \in [ids -> SUBSET all]
        BY <4>4, Zenon DEF Dealings
      <4>6. /\ subs(tp[1]) = {} => b = a
            /\ subs(tp[1]) # {} => \E m \in subs(tp[1]) : b = Given(a, m, tp)
        <5> DEFINE d == g[U]
                   e == g[S]
        <5>1. e = Deal(members, d, tp) /\ d \in Dealings(members, counts)
          BY <4>3, <4>4, Zenon
        <5>2. a = d.assignment /\ b = e.assignment
          BY Zenon
        <5> HIDE DEF tp, U, a, b, d, e
        <5>3. /\ subs(tp[1]) = {} => e.assignment = d.assignment
              /\ subs(tp[1]) # {} => \E m \in subs(tp[1]) : e.assignment = Given(d.assignment, m, tp)
          BY <1>1, <4>4, <5>1, DealStep, Zenon
        <5> QED
          BY <5>2, <5>3, Zenon
      <4> HIDE DEF tp, a, b
      <4>7. Valid(members, counts, a) /\ Out(a, U)
        BY <4>2, Zenon DEF a
      <4>8. \A m \in ids : tp \notin a[m]
        BY <4>1, <4>7, Zenon
      <4>9. CASE subs(tp[1]) = {}
        <5>1. b = a
          BY <4>6, <4>9, Zenon
        <5> QED
          BY <4>1, <4>7, <4>9, <5>1, Zenon DEF b
      <4>10. CASE subs(tp[1]) # {}
        <5>1. PICK m \in subs(tp[1]) : b = Given(a, m, tp)
          BY <4>6, <4>10, Zenon
        <5>2. m \in ids
          BY MembersFacts, Zenon
        <5>3. /\ b \in [ids -> SUBSET all] /\ b[m] = a[m] \cup {tp}
              /\ \A n \in ids : n # m => b[n] = a[n]
          BY <4>4, <4>5, <5>1, <5>2, Zenon DEF Given
        <5> HIDE DEF ids, all, subs
        <5>4. Valid(members, counts, b)
          BY <4>7, <4>8, <5>1, <5>2, <5>3 DEF Valid, ids, all, subs
        <5>5. Out(b, S)
          BY <4>1, <4>7, <5>1, <5>2, <5>3, Zenon
        <5> QED
          BY <5>4, <5>5, Zenon DEF b, ids, subs
      <4> QED
        BY <4>9, <4>10, Zenon
    <3> QED
      BY <3>1, <3>2, Zenon
  <2> HIDE DEF Good
  <2>6. \A S \in SUBSET all : S \in Good
    BY <2>4, <2>5, SubsetInduction, SMTT(20)
  <2>7. all \in Good
    BY <2>6, Zenon
  <2>8. Valid(members, counts, has(all)) /\ Out(has(all), all)
    BY <2>7, Zenon DEF Good
  <2> QED
    BY <2>2, <2>3, <2>8, Zenon DEF Complete
<1> QED
  BY <1>0, <1>1, Zenon
=============================================================================

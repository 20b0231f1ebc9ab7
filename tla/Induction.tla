----------------------------- MODULE Induction ------------------------------
(***************************************************************************)
(* Induction on the natural numbers, stated of a set of numbers in place   *)
(* of a predicate: the proofs of this project define the set of those n    *)
(* for which what they are after holds and cite InductionOnSet.  It comes  *)
(* from the well-founded order of the library, by way of least elements.   *)
(***************************************************************************)
EXTENDS Positions, SequencesExt, FiniteSetTheorems, WellFoundedInduction, TLAPS

\* Every non-empty set of natural numbers has a least element.
LEMMA LeastNumber ==
  ASSUME NEW T \in SUBSET Nat, T # {}
  PROVE  \E m \in T : \A k \in T : m <= k
<1> DEFINE R == {ss \in Nat \X Nat : ss[1] < ss[2]}
<1>1. IsWellFoundedOn(R, Nat)
  BY NatLessThanWellFounded DEF OpToRel
<1>2. \A k, m \in Nat : k < m => <<k, m>> \in R
  OBVIOUS
<1> HIDE DEF R
<1>3. PICK m \in T : \A k \in T : <<k, m>> \notin R
  BY <1>1, WFMin
<1>4. ASSUME NEW k \in T
      PROVE  m <= k
  <2>1. m \in Nat /\ k \in Nat
    OBVIOUS
  <2>2. ~(k < m)
    BY <1>2, <1>3, <2>1
  <2> QED BY <2>1, <2>2
<1> QED BY <1>4

\* A set with 0 that has the successor of each of its numbers has all of them.
LEMMA InductionOnSet ==
  ASSUME NEW T, 0 \in T, \A n \in Nat : n \in T => n + 1 \in T
  PROVE  \A n \in Nat : n \in T
<1> DEFINE Missing == {n \in Nat : n \notin T}
<1>1. CASE Missing # {}
  <2>1. Missing \in SUBSET Nat
    OBVIOUS
  <2>2. PICK m \in Missing : \A k \in Missing : m <= k
    BY <1>1, <2>1, LeastNumber
  <2>3. m \in Nat /\ m \notin T /\ m # 0
    BY <2>2
  <2>4. m - 1 \in Nat /\ m - 1 \notin Missing
    BY <2>2, <2>3
  <2>5. m - 1 \in T
    BY <2>4
  <2> QED BY <2>3, <2>4, <2>5
<1> QED BY <1>1

\* The same between 0 and a bound.
LEMMA InductionUpTo ==
  ASSUME NEW N \in Nat, NEW T, 0 \in T, \A n \in 0..(N - 1) : n \in T => n + 1 \in T
  PROVE  \A n \in 0..N : n \in T
<1> DEFINE U == {n \in Nat : n \in T \/ n > N}
<1>1. 0 \in U
  OBVIOUS
<1>2. \A n \in Nat : n \in U => n + 1 \in U
  <2> SUFFICES ASSUME NEW n \in Nat, n \in U
               PROVE  n + 1 \in U
    OBVIOUS
  <2>1. CASE n < N
    <3>1. n \in 0..(N - 1) /\ n \in T
      BY <2>1
    <3> QED BY <3>1
  <2>2. CASE ~(n < N)
    BY <2>2
  <2> QED BY <2>1, <2>2
<1> HIDE DEF U
<1>3. \A n \in Nat : n \in U
  BY <1>1, <1>2, InductionOnSet
<1> QED BY <1>3 DEF U

-----------------------------------------------------------------------------
(* Folds: FoldLeft of the community modules is a recursive function on the *)
(* sets of positions, which takes the largest position off first.  That    *)
(* there is such a function has to be proved.                              *)

LEMMA MaxFacts ==
  ASSUME NEW N \in Nat, NEW S \in SUBSET (1..N), S # {}
  PROVE  Max(S) \in S /\ \A y \in S : Max(S) >= y
<1> DEFINE Below == {N - k : k \in S}
<1>1. Below \in SUBSET Nat /\ Below # {}
  <2>1. \A k \in S : N - k \in Nat
    OBVIOUS
  <2>2. PICK k \in S : TRUE
    OBVIOUS
  <2>3. N - k \in Below
    OBVIOUS
  <2> QED BY <2>1, <2>3
<1>2. PICK m \in Below : \A k \in Below : m <= k
  BY <1>1, LeastNumber
<1>3. PICK x \in S : m = N - x
  BY <1>2
<1>4. \A y \in S : x >= y
  <2> TAKE y \in S
  <2>1. m <= N - y /\ y \in Nat /\ x \in Nat
    BY <1>2
  <2> QED BY <1>3, <2>1
<1> QED BY <1>4 DEF Max

LEMMA MaxOfInterval ==
  ASSUME NEW n \in Nat \ {0}
  PROVE  Max(1..n) = n /\ (1..n) \ {n} = 1..(n - 1)
<1>1. 1..n \in SUBSET (1..n) /\ 1..n # {} /\ n \in 1..n
  OBVIOUS
<1>2. Max(1..n) \in 1..n /\ Max(1..n) >= n
  BY <1>1, MaxFacts
<1> QED BY <1>2

\* A step of a fold over positions 1..N takes a position and the value of those
\* before it to a value.
IsStep(F, N, D) == F \in [(1..N) \X D -> D]

\* The fold on every set of positions.
IsFold(iter, F, N, D, base) ==
  /\ iter \in [SUBSET (1..N) -> D]
  /\ \A s \in SUBSET (1..N) :
       iter[s] = IF s = {} THEN base ELSE F[<<Max(s), iter[s \ {Max(s)}]>>]

LEMMA FoldExists ==
  ASSUME NEW N \in Nat, NEW D, NEW base \in D, NEW F, IsStep(F, N, D)
  PROVE  \E iter : IsFold(iter, F, N, D, base)
<1> DEFINE FoldTo(f, n) ==
             \A s \in SUBSET (1..n) :
                f[s] = IF s = {} THEN base ELSE F[<<Max(s), f[s \ {Max(s)}]>>]
           T == {n \in Nat : \E f \in [SUBSET (1..n) -> D] : FoldTo(f, n)}
<1>1. 0 \in T
  <2> DEFINE f == [s \in SUBSET (1..0) |-> base]
  <2>1. f \in [SUBSET (1..0) -> D]
    OBVIOUS
  <2>2. \A s \in SUBSET (1..0) : s = {}
    OBVIOUS
  <2>3. FoldTo(f, 0)
    BY <2>2
  <2> QED BY <2>1, <2>3
<1>0. F \in [(1..N) \X D -> D]
  BY DEF IsStep
<1>2. ASSUME NEW n \in 0..(N - 1), n \in T
      PROVE  n + 1 \in T
  <2>1. PICK f \in [SUBSET (1..n) -> D] : FoldTo(f, n)
    BY <1>2
  <2> DEFINE g == [s \in SUBSET (1..(n + 1)) |->
                     IF n + 1 \in s THEN F[<<n + 1, f[s \ {n + 1}]>>] ELSE f[s]]
  <2>2. \A s \in SUBSET (1..(n + 1)) : s \ {n + 1} \in SUBSET (1..n)
    OBVIOUS
  <2>3. \A s \in SUBSET (1..(n + 1)) : n + 1 \notin s => s \in SUBSET (1..n)
    OBVIOUS
  <2>4. g \in [SUBSET (1..(n + 1)) -> D]
    <3>1. \A s \in SUBSET (1..(n + 1)) : <<n + 1, f[s \ {n + 1}]>> \in (1..N) \X D
      BY <2>2
    <3> QED BY <1>0, <2>3, <3>1
  <2>5. ASSUME NEW s \in SUBSET (1..(n + 1))
        PROVE  g[s] = IF s = {} THEN base ELSE F[<<Max(s), g[s \ {Max(s)}]>>]
    <3>1. CASE n + 1 \in s
      <4>1. Max(s) = n + 1
        <5>1. n + 1 \in Nat /\ s # {}
          BY <3>1
        <5>2. Max(s) \in s /\ Max(s) >= n + 1
          BY <3>1, <5>1, MaxFacts
        <5>3. Max(s) \in 1..(n + 1)
          BY <5>2
        <5> HIDE DEF g
        <5> QED BY ONLY <5>2, <5>3, n \in 0..(N - 1), N \in Nat
      <4>2. g[s \ {n + 1}] = f[s \ {n + 1}]
        BY <2>2
      <4> QED BY <3>1, <4>1, <4>2
    <3>2. CASE n + 1 \notin s
      <4>1. s \in SUBSET (1..n) /\ s \ {Max(s)} \in SUBSET (1..n)
        BY <2>3, <3>2
      <4>2. g[s] = f[s]
        BY <3>2
      <4>3. n + 1 \notin s \ {Max(s)} /\ s \ {Max(s)} \in SUBSET (1..(n + 1))
        BY <3>2
      <4>4. g[s \ {Max(s)}] = f[s \ {Max(s)}]
        BY <4>3
      <4> HIDE DEF g
      <4> QED BY <2>1, <4>1, <4>2, <4>4
    <3> QED BY <3>1, <3>2
  <2> HIDE DEF g
  <2>6. FoldTo(g, n + 1)
    BY <2>5
  <2>7. n + 1 \in Nat
    OBVIOUS
  <2> HIDE DEF FoldTo
  <2> QED BY <2>4, <2>6, <2>7
<1> HIDE DEF T
<1>3. \A n \in 0..N : n \in T
  BY <1>1, <1>2, InductionUpTo
<1>4. N \in T
  BY <1>3
<1> QED BY <1>4 DEF T, IsFold

-----------------------------------------------------------------------------
(* Lists of which some positions are kept (module Positions).              *)

\* Erasing every position leaves the empty list.
LEMMA KeepNone ==
  ASSUME NEW list
  PROVE  KeepPositions(list, {}) = <<>>
<1>1. Cardinality({}) = 0
  BY FS_EmptySet
<1>2. 1..0 = {}
  OBVIOUS
<1> QED BY <1>1, <1>2 DEF KeepPositions

\* How many of some positions are not behind position i.
RankIn(keep, i) == Cardinality({j \in keep : j <= i})

\* Every number up to that of the positions is the rank of one of them.
LEMMA RankIsPosition ==
  ASSUME NEW keep \in SUBSET Nat, IsFiniteSet(keep)
  PROVE  /\ Cardinality(keep) \in Nat
         /\ \A k \in 1..Cardinality(keep) : \E i \in keep : RankIn(keep, i) = k
         /\ \A i, l \in keep : RankIn(keep, i) = RankIn(keep, l) => i = l
<1> DEFINE n == Cardinality(keep)
           Upto(i) == {j \in keep : j <= i}
           rank == [i \in keep |-> Cardinality(Upto(i))]
<1>1. n \in Nat /\ \A i \in keep : i \in Nat
  BY FS_CardinalityType
<1>2. \A i \in keep : IsFiniteSet(Upto(i)) /\ Upto(i) # {} /\ Cardinality(Upto(i)) \in 1..n
  <2> TAKE i \in keep
  <2>1. Upto(i) \subseteq keep /\ i \in Upto(i)
    BY <1>1
  <2> HIDE DEF Upto, n
  <2>2. IsFiniteSet(Upto(i)) /\ Cardinality(Upto(i)) <= n
    BY <1>1, <2>1, FS_Subset DEF n
  <2>3. Cardinality(Upto(i)) \in Nat /\ Cardinality(Upto(i)) # 0
    BY <2>1, <2>2, FS_EmptySet, FS_CardinalityType
  <2> QED BY <1>1, <2>1, <2>2, <2>3
<1>3. ASSUME NEW a \in keep, NEW b \in keep, a < b, Cardinality(Upto(a)) = Cardinality(Upto(b))
      PROVE  FALSE
  <2>1. a \in Nat /\ b \in Nat /\ \A x \in keep : x \in Nat /\ (x <= a => x <= b)
    BY ONLY <1>1, a \in keep, b \in keep, a < b
  <2>2. \A x : x \in Upto(a) => x \in Upto(b)
    BY <2>1
  <2>3. b \in Upto(b) /\ b \notin Upto(a)
    BY <1>3, <2>1
  <2> HIDE DEF Upto
  <2> QED BY <1>2, <1>3, <2>2, <2>3, FS_Subset
<1> HIDE DEF Upto, n
<1>4. \A i, j \in keep : rank[i] = rank[j] => i = j
  <2>1. \A i, j \in keep : i < j \/ j < i \/ i = j
    BY <1>1
  <2>2. \A i, j \in keep : i < j => rank[i] # rank[j]
    BY <1>3
  <2> QED BY <2>1, <2>2
<1>5. rank \in Injection(keep, 1..n)
  <2>1. rank \in [keep -> 1..n]
    BY <1>2
  <2> HIDE DEF rank
  <2> QED BY <1>4, <2>1 DEF Injection, IsInjective
<1>6. rank \in Surjection(keep, 1..n)
  <2>1. IsFiniteSet(1..n) /\ Cardinality(1..n) = n
    BY <1>1, FS_Interval
  <2> HIDE DEF rank
  <2> QED BY <1>5, <2>1, FS_Injection DEF n
<1>7. \A i \in keep : rank[i] = RankIn(keep, i)
  BY DEF RankIn, Upto
<1>8. \A k \in 1..n : \E i \in keep : rank[i] = k
  <2> HIDE DEF rank
  <2> QED BY <1>6 DEF Surjection
<1> HIDE DEF rank
<1> QED BY <1>1, <1>4, <1>7, <1>8 DEF n

\* The positions that the elements of the result come from, by rank.
ComeFrom(at, list, keep) ==
  /\ at \in [1..Cardinality(keep) -> keep]
  /\ KeepPositions(list, keep) = [k \in 1..Cardinality(keep) |-> list[at[k]]]
  /\ \A k \in 1..Cardinality(keep) : RankIn(keep, at[k]) = k
  /\ \A k, l \in 1..Cardinality(keep) : at[k] = at[l] => k = l

LEMMA KeptElements ==
  ASSUME NEW list, NEW keep \in SUBSET Nat, IsFiniteSet(keep)
  PROVE  \E at : ComeFrom(at, list, keep)
<1> DEFINE n == Cardinality(keep)
           at == [k \in 1..n |-> CHOOSE i \in keep : RankIn(keep, i) = k]
<1>1. n \in Nat /\ \A k \in 1..n : \E i \in keep : RankIn(keep, i) = k
  BY RankIsPosition
<1>2. KeepPositions(list, keep) = [k \in 1..n |-> list[at[k]]]
  BY DEF KeepPositions, RankIn
<1> HIDE DEF n
<1>3. \A k \in 1..n : at[k] \in keep /\ RankIn(keep, at[k]) = k
  BY <1>1
<1>4. at \in [1..n -> keep]
  BY <1>3 DEF at
<1> HIDE DEF at
<1>5. \A k, l \in 1..n : at[k] = at[l] => k = l
  BY <1>3
<1> QED BY <1>2, <1>3, <1>4, <1>5 DEF n, ComeFrom

\* The same for a sequence of a type.
LEMMA KeepPositionsFacts ==
  ASSUME NEW S, NEW q \in Seq(S), NEW keep \in SUBSET DOMAIN q
  PROVE  /\ KeepPositions(q, keep) \in Seq(S)
         /\ \E at \in [DOMAIN KeepPositions(q, keep) -> keep] :
              /\ \A k \in DOMAIN KeepPositions(q, keep) : KeepPositions(q, keep)[k] = q[at[k]]
              /\ \A k, l \in DOMAIN KeepPositions(q, keep) : at[k] = at[l] => k = l
<1> DEFINE n == Cardinality(keep)
           kept == KeepPositions(q, keep)
<1>1. keep \in SUBSET Nat /\ IsFiniteSet(keep)
  <2>1. DOMAIN q = 1..Len(q) /\ Len(q) \in Nat
    OBVIOUS
  <2>2. IsFiniteSet(1..Len(q))
    BY <2>1, FS_Interval
  <2> QED BY <2>1, <2>2, FS_Subset
<1>2. n \in Nat
  BY <1>1, FS_CardinalityType
<1>3. PICK at : ComeFrom(at, q, keep)
  BY <1>1, KeptElements
<1>4. /\ at \in [1..n -> keep]
      /\ kept = [k \in 1..n |-> q[at[k]]]
      /\ \A k, l \in 1..n : at[k] = at[l] => k = l
  BY <1>3 DEF ComeFrom
<1> HIDE DEF kept, n
<1>5. \A k \in 1..n : at[k] \in DOMAIN q /\ q[at[k]] \in S
  BY <1>4
<1>6. kept \in [1..n -> S] /\ DOMAIN kept = 1..n
  BY <1>4, <1>5
<1>7. kept \in Seq(S)
  BY <1>2, <1>6
<1>8. \A k \in 1..n : kept[k] = q[at[k]]
  BY <1>4
<1>9. /\ at \in [DOMAIN kept -> keep]
      /\ \A k \in DOMAIN kept : kept[k] = q[at[k]]
      /\ \A k, l \in DOMAIN kept : at[k] = at[l] => k = l
  BY <1>4, <1>6, <1>8
<1> QED BY <1>7, <1>9 DEF kept

\* Keeping a position behind the others appends its element.
LEMMA KeepLast ==
  ASSUME NEW list, NEW n \in Nat, NEW keep \in SUBSET (1..n), NEW S,
         \A i \in keep \cup {n + 1} : list[i] \in S
  PROVE  /\ KeepPositions(list, keep) \in Seq(S)
         /\ KeepPositions(list, keep \cup {n + 1}) = Append(KeepPositions(list, keep), list[n + 1])
<1> DEFINE more == keep \cup {n + 1}
           m == Cardinality(keep)
<1>1. keep \in SUBSET Nat /\ IsFiniteSet(keep)
  <2>1. IsFiniteSet(1..n) /\ keep \subseteq 1..n
    BY FS_Interval
  <2>2. IsFiniteSet(keep)
    BY <2>1, FS_Subset
  <2> QED BY <2>2
<1>2. more \in SUBSET Nat /\ IsFiniteSet(more) /\ m \in Nat /\ Cardinality(more) = m + 1
  BY <1>1, FS_AddElement, FS_CardinalityType
<1>3. PICK at : ComeFrom(at, list, keep)
  BY <1>1, KeptElements
<1>4. PICK to : ComeFrom(to, list, more)
  BY <1>2, KeptElements
<1>5. /\ at \in [1..m -> keep]
      /\ KeepPositions(list, keep) = [k \in 1..m |-> list[at[k]]]
      /\ \A k \in 1..m : RankIn(keep, at[k]) = k
  BY <1>3 DEF ComeFrom
<1>6. /\ to \in [1..(m + 1) -> more]
      /\ KeepPositions(list, more) = [k \in 1..(m + 1) |-> list[to[k]]]
      /\ \A k \in 1..(m + 1) : RankIn(more, to[k]) = k
  BY <1>2, <1>4 DEF ComeFrom
<1>7. ASSUME NEW i \in keep
      PROVE  RankIn(more, i) = RankIn(keep, i) /\ RankIn(keep, i) \in Nat /\ RankIn(keep, i) <= m
  <2>1. \A j \in more : j <= i => j \in keep
    OBVIOUS
  <2>2. {j \in more : j <= i} = {j \in keep : j <= i}
    BY <2>1
  <2>3. {j \in keep : j <= i} \subseteq keep
    OBVIOUS
  <2> QED BY <1>1, <2>2, <2>3, FS_Subset, FS_CardinalityType DEF RankIn
<1>8. RankIn(more, n + 1) = m + 1
  <2>1. \A j \in more : j <= n + 1
    OBVIOUS
  <2>2. {j \in more : j <= n + 1} = more
    BY <2>1
  <2> QED BY <1>2, <2>2 DEF RankIn
<1>9. \A i \in more : i \in keep \/ i = n + 1
  OBVIOUS
<1> HIDE DEF m, more
<1>10. \A k \in 1..(m + 1) : to[k] \in more
  BY <1>6
<1>11. ASSUME NEW k \in 1..m
       PROVE  to[k] = at[k]
  <2>1. k \in 1..(m + 1) /\ k # m + 1
    BY <1>2
  <2>2. to[k] \in more /\ RankIn(more, to[k]) = k
    BY <1>6, <1>10, <2>1
  <2>3. to[k] \in keep
    BY <1>8, <1>9, <2>1, <2>2
  <2>4. RankIn(keep, to[k]) = k
    BY <1>7, <2>2, <2>3
  <2>5. at[k] \in keep /\ RankIn(keep, at[k]) = k
    BY <1>5
  <2>6. \A i, l \in keep : RankIn(keep, i) = RankIn(keep, l) => i = l
    BY <1>1, RankIsPosition
  <2> QED BY <2>3, <2>4, <2>5, <2>6
<1>12. to[m + 1] = n + 1
  <2>1. m + 1 \in 1..(m + 1)
    BY <1>2
  <2>2. to[m + 1] \in more /\ RankIn(more, to[m + 1]) = m + 1
    BY <1>6, <1>10, <2>1
  <2>3. ASSUME to[m + 1] \in keep
        PROVE  FALSE
    <3>1. m + 1 <= m
      BY <1>7, <2>2, <2>3
    <3> QED BY <1>2, <3>1
  <2> QED BY <1>9, <2>2, <2>3
<1>13. KeepPositions(list, keep) \in [1..m -> S]
  BY <1>5
<1>14. KeepPositions(list, keep) \in Seq(S) /\ Len(KeepPositions(list, keep)) = m
  BY <1>2, <1>13
<1>15. Append(KeepPositions(list, keep), list[n + 1])
         = [k \in 1..(m + 1) |-> IF k = m + 1 THEN list[n + 1] ELSE KeepPositions(list, keep)[k]]
  BY <1>2, <1>14
<1>16. \A k \in 1..(m + 1) :
         list[to[k]] = IF k = m + 1 THEN list[n + 1] ELSE KeepPositions(list, keep)[k]
  BY <1>2, <1>5, <1>11, <1>12
<1> QED BY <1>6, <1>14, <1>15, <1>16 DEF more

-----------------------------------------------------------------------------
(* Lists of lists: FlattenSeq appends one after the other.                 *)

\* Concatenation under a name, which keeps it in one piece for the provers.
Joined(first, second) == first \o second

\* The recursive function in FlattenSeq.
Flattens(f, n, seqs) ==
  f = [i \in 1..n |-> IF i = 1 THEN seqs[i] ELSE Joined(f[i - 1], seqs[i])]

\* h[k] is the first k of the lists, one after the other.
Sums(h, n, seqs) == h[0] = <<>> /\ \A k \in 1..n : h[k] = Joined(h[k - 1], seqs[k])

LEMMA SumsExist ==
  ASSUME NEW D, NEW N \in Nat, NEW s \in [1..N -> Seq(D)]
  PROVE  \E h \in [0..N -> Seq(D)] : Sums(h, N, s)
<1> DEFINE T == {n \in 0..N : \E h \in [0..n -> Seq(D)] : Sums(h, n, s)}
<1>1. 0 \in T
  <2> DEFINE h == [k \in 0..0 |-> <<>>]
  <2>1. h \in [0..0 -> Seq(D)] /\ h[0] = <<>> /\ 1..0 = {}
    OBVIOUS
  <2>2. Sums(h, 0, s)
    BY <2>1 DEF Sums
  <2> HIDE DEF h
  <2> QED BY <2>1, <2>2
<1>2. ASSUME NEW n \in 0..(N - 1), n \in T
      PROVE  n + 1 \in T
  <2>1. PICK h \in [0..n -> Seq(D)] : Sums(h, n, s)
    BY <1>2
  <2> DEFINE last == Joined(h[n], s[n + 1])
             g == [k \in 0..(n + 1) |-> IF k = n + 1 THEN last ELSE h[k]]
  <2>2. n \in 0..n /\ n + 1 \in 1..N /\ h[n] \in Seq(D) /\ s[n + 1] \in Seq(D)
    OBVIOUS
  <2>3. last \in Seq(D)
    BY <2>2 DEF Joined
  <2> HIDE DEF last
  <2>4. \A k \in 0..(n + 1) : k = n + 1 \/ k \in 0..n
    OBVIOUS
  <2>5. g \in [0..(n + 1) -> Seq(D)]
    BY <2>3, <2>4
  <2>6. g[n + 1] = last /\ \A k \in 0..n : g[k] = h[k]
    OBVIOUS
  <2> HIDE DEF g
  <2>7. ASSUME NEW k \in 1..(n + 1)
        PROVE  g[k] = Joined(g[k - 1], s[k])
    <3>1. CASE k = n + 1
      <4>1. k - 1 = n /\ g[k - 1] = h[n]
        BY <2>2, <2>6, <3>1
      <4> QED BY <2>6, <3>1, <4>1 DEF last
    <3>2. CASE k # n + 1
      <4>1. k \in 1..n /\ k \in 0..n /\ k - 1 \in 0..n
        BY <3>2
      <4>2. h[k] = Joined(h[k - 1], s[k])
        BY <2>1, <4>1 DEF Sums
      <4> QED BY <2>6, <4>1, <4>2
    <3> QED BY <3>1, <3>2
  <2>8. g[0] = <<>>
    <3>1. 0 \in 0..n
      OBVIOUS
    <3> QED BY <2>1, <2>6, <3>1 DEF Sums
  <2>9. Sums(g, n + 1, s)
    BY <2>7, <2>8 DEF Sums
  <2>10. n + 1 \in 0..N
    OBVIOUS
  <2> QED BY <2>5, <2>9, <2>10
<1> HIDE DEF T
<1>3. \A n \in 0..N : n \in T
  BY <1>1, <1>2, InductionUpTo
<1>4. N \in T
  BY <1>3
<1> QED BY <1>4 DEF T

\* What the first n of the lists amount to.
LEMMA FlattenFacts ==
  ASSUME NEW D, NEW N \in Nat, NEW s \in [1..N -> Seq(D)],
         NEW h \in [0..N -> Seq(D)], Sums(h, N, s), NEW n \in 0..N
  PROVE  FlattenSeq([k \in 1..n |-> s[k]]) = h[n]
<1> DEFINE seqs == [k \in 1..n |-> s[k]]
<1>1. n \in Nat /\ seqs \in [1..n -> Seq(D)]
  OBVIOUS
<1>2. seqs \in Seq(Seq(D)) /\ Len(seqs) = n
  BY <1>1
<1>3. \A k \in 1..n : seqs[k] = s[k]
  OBVIOUS
<1>4. FlattenSeq(seqs) = IF n = 0 THEN seqs ELSE (CHOOSE f : Flattens(f, n, seqs))[n]
  BY <1>2 DEF FlattenSeq, Flattens, Joined
<1> HIDE DEF seqs
<1>5. h[0] = <<>> /\ \A k \in 1..n : k \in 1..N /\ h[k] = Joined(h[k - 1], seqs[k])
  BY <1>3 DEF Sums
<1>6. \A k \in 1..n : seqs[k] \in Seq(D)
  BY <1>1
<1>7. CASE n = 0
  <2>1. seqs = <<>>
    BY <1>2, <1>7
  <2> QED BY <1>4, <1>5, <1>7, <2>1 DEF seqs
<1>8. CASE n # 0
  <2>1. ASSUME NEW k \in 1..n, k = 1
        PROVE  h[k] = seqs[k]
    <3>1. h[1] = Joined(h[0], seqs[1]) /\ seqs[1] \in Seq(D)
      BY <1>5, <1>6, <2>1
    <3>2. Joined(<<>>, seqs[1]) = seqs[1]
      BY <3>1 DEF Joined
    <3> QED BY <1>5, <2>1, <3>1, <3>2
  <2> DEFINE e == [k \in 1..n |-> h[k]]
             f == CHOOSE f : Flattens(f, n, seqs)
  <2>2. Flattens(e, n, seqs)
    <3>1. ASSUME NEW k \in 1..n
          PROVE  h[k] = IF k = 1 THEN seqs[k] ELSE Joined(e[k - 1], seqs[k])
      <4>1. CASE k = 1
        BY <2>1, <4>1
      <4>2. CASE k # 1
        <5>1. k - 1 \in 1..n
          BY <4>2
        <5>2. e[k - 1] = h[k - 1]
          BY <5>1
        <5> HIDE DEF e
        <5> QED BY <1>5, <4>2, <5>2
      <4> QED BY <4>1, <4>2
    <3>2. e = [k \in 1..n |-> IF k = 1 THEN seqs[k] ELSE Joined(e[k - 1], seqs[k])]
      BY <3>1
    <3> QED BY <3>2 DEF Flattens
  <2>3. Flattens(f, n, seqs)
    BY <2>2
  <2> HIDE DEF e, f
  <2>4. \A k \in 1..n : f[k] = IF k = 1 THEN seqs[k] ELSE Joined(f[k - 1], seqs[k])
    BY <2>3 DEF Flattens
  <2> DEFINE U == {k \in 0..n : k # 0 => f[k] = h[k]}
  <2>5. 0 \in U
    OBVIOUS
  <2>6. ASSUME NEW k \in 0..(n - 1), k \in U
        PROVE  k + 1 \in U
    <3>1. k + 1 \in 1..n /\ k + 1 \in 0..n /\ (k + 1) - 1 = k
      BY <1>1
    <3>2. f[k + 1] = IF k + 1 = 1 THEN seqs[k + 1] ELSE Joined(f[k], seqs[k + 1])
      BY <2>4, <3>1
    <3>3. h[k + 1] = Joined(h[k], seqs[k + 1])
      BY <1>5, <3>1
    <3>4. CASE k = 0
      <4>1. h[k + 1] = seqs[k + 1]
        BY <2>1, <3>1, <3>4
      <4>2. f[k + 1] = h[k + 1]
        BY <3>2, <3>4, <4>1
      <4> QED BY <3>1, <4>2
    <3>5. CASE k # 0
      <4>1. f[k] = h[k]
        BY <2>6, <3>5
      <4>2. f[k + 1] = h[k + 1]
        BY <3>1, <3>2, <3>3, <3>5, <4>1
      <4> QED BY <3>1, <4>2
    <3> QED BY <3>4, <3>5
  <2> HIDE DEF U
  <2>7. \A k \in 0..n : k \in U
    BY <1>1, <2>5, <2>6, InductionUpTo
  <2>8. f[n] = h[n]
    BY <1>1, <1>8, <2>7 DEF U
  <2> QED BY <1>4, <1>8, <2>8 DEF seqs, f
<1> QED BY <1>7, <1>8

-----------------------------------------------------------------------------
(* Lists kept in two parts.                                                *)

\* Lists that agree on the positions that are kept leave the same.
LEMMA KeepSame ==
  ASSUME NEW keep \in SUBSET Nat, IsFiniteSet(keep), NEW a, NEW b, \A i \in keep : a[i] = b[i]
  PROVE  KeepPositions(a, keep) = KeepPositions(b, keep)
<1> DEFINE n == Cardinality(keep)
           at == [k \in 1..n |-> CHOOSE i \in keep : RankIn(keep, i) = k]
<1>1. \A k \in 1..n : \E i \in keep : RankIn(keep, i) = k
  BY RankIsPosition
<1>2. /\ KeepPositions(a, keep) = [k \in 1..n |-> a[at[k]]]
      /\ KeepPositions(b, keep) = [k \in 1..n |-> b[at[k]]]
  BY DEF KeepPositions, RankIn
<1> HIDE DEF n
<1>3. \A k \in 1..n : at[k] \in keep
  BY <1>1
<1> HIDE DEF at
<1> QED BY <1>2, <1>3

\* Appending to the second of two joined lists appends to both.
LEMMA JoinedAppend ==
  ASSUME NEW S, NEW a \in Seq(S), NEW b \in Seq(S), NEW x \in S
  PROVE  Append(Joined(a, b), x) = Joined(a, Append(b, x))
BY DEF Joined

\* What is kept of elements of S is a sequence of them.
LEMMA KeepTyped ==
  ASSUME NEW list, NEW keep \in SUBSET Nat, IsFiniteSet(keep), NEW S, \A i \in keep : list[i] \in S
  PROVE  KeepPositions(list, keep) \in Seq(S)
<1> DEFINE n == Cardinality(keep)
           kept == KeepPositions(list, keep)
<1>1. n \in Nat
  BY FS_CardinalityType
<1>2. PICK at : ComeFrom(at, list, keep)
  BY KeptElements
<1>3. at \in [1..n -> keep] /\ kept = [k \in 1..n |-> list[at[k]]]
  BY <1>2 DEF ComeFrom
<1> HIDE DEF n, kept
<1>4. \A k \in 1..n : list[at[k]] \in S
  BY <1>3
<1>5. kept \in [1..n -> S]
  BY <1>3, <1>4
<1>6. kept \in Seq(S)
  BY <1>1, <1>5
<1> QED BY <1>6 DEF kept

\* A list from behind position n on, and positions in it.
Behind(list, n, m) == [j \in 1..m |-> list[n + j]]

PlacesBehind(n, more) == {n + j : j \in more}

\* What is kept of a list is what is kept of its head and of the rest.
LEMMA KeepJoined ==
  ASSUME NEW list, NEW n \in Nat, NEW keep \in SUBSET (1..n), NEW m \in Nat, NEW more \in SUBSET (1..m), NEW S,
         \A i \in keep : list[i] \in S,
         \A j \in more : list[n + j] \in S
  PROVE  /\ KeepPositions(list, keep) \in Seq(S)
         /\ KeepPositions(Behind(list, n, m), more) \in Seq(S)
         /\ KeepPositions(list, keep \cup PlacesBehind(n, more))
              = Joined(KeepPositions(list, keep), KeepPositions(Behind(list, n, m), more))
<1> DEFINE head == KeepPositions(list, keep)
           tail == Behind(list, n, m)
           Upto(k) == more \cap (1..k)
           all(k) == keep \cup PlacesBehind(n, Upto(k))
           T == {k \in 0..m : /\ KeepPositions(tail, Upto(k)) \in Seq(S)
                              /\ KeepPositions(list, all(k)) = Joined(head, KeepPositions(tail, Upto(k)))}
<1>1. head \in Seq(S)
  <2>1. IsFiniteSet(1..n) /\ keep \subseteq 1..n
    BY FS_Interval
  <2>2. IsFiniteSet(keep)
    BY <2>1, FS_Subset
  <2>3. keep \in SUBSET Nat
    OBVIOUS
  <2> QED BY <2>2, <2>3, KeepTyped
<1>2. \A j \in more : tail[j] = list[n + j] /\ tail[j] \in S
  BY DEF Behind
<1> HIDE DEF head, tail
<1>3. 0 \in T
  <2>1. Upto(0) = {} /\ all(0) = keep
    BY DEF PlacesBehind
  <2>2. KeepPositions(tail, Upto(0)) = <<>> /\ KeepPositions(list, all(0)) = head
    BY <2>1, KeepNone DEF head
  <2>3. Joined(head, <<>>) = head
    BY <1>1 DEF Joined
  <2>4. 0 \in 0..m /\ head \in Seq(S) /\ <<>> \in Seq(S)
    BY <1>1
  <2> HIDE DEF Upto, all
  <2> QED BY <2>2, <2>3, <2>4
<1>4. ASSUME NEW k \in 0..(m - 1), k \in T
      PROVE  k + 1 \in T
  <2>1. k + 1 \in 1..m /\ k + 1 \in 0..m /\ k \in Nat /\ n + k \in Nat
    OBVIOUS
  <2>2. CASE k + 1 \notin more
    <3>1. Upto(k + 1) = Upto(k)
      BY <2>1, <2>2
    <3> HIDE DEF Upto
    <3> QED BY <1>4, <2>1, <3>1
  <2>3. CASE k + 1 \in more
    <3>1. Upto(k) \in SUBSET (1..k) /\ Upto(k + 1) = Upto(k) \cup {k + 1} /\ Upto(k + 1) \subseteq more
      BY <2>1, <2>3
    <3>2. \A i \in PlacesBehind(n, Upto(k)) : i \in 1..(n + k) /\ list[i] \in S
      BY <2>1, <3>1 DEF PlacesBehind
    <3>3. all(k) \in SUBSET (1..(n + k))
      <4>1. \A i \in keep : i \in 1..(n + k)
        BY <2>1
      <4> HIDE DEF Upto
      <4> QED BY <3>2, <4>1
    <3>4. all(k + 1) = all(k) \cup {(n + k) + 1}
      <4>1. PlacesBehind(n, Upto(k + 1)) = PlacesBehind(n, Upto(k)) \cup {n + (k + 1)}
        <5> HIDE DEF Upto
        <5> QED BY <3>1 DEF PlacesBehind
      <4>2. n + (k + 1) = (n + k) + 1
        BY <2>1
      <4> QED BY <4>1, <4>2
    <3>5. list[n + (k + 1)] \in S /\ n + (k + 1) = (n + k) + 1 /\ tail[k + 1] = list[(n + k) + 1]
      BY <1>2, <2>1, <2>3
    <3>6. \A i \in all(k) \cup {(n + k) + 1} : list[i] \in S
      <4> HIDE DEF Upto
      <4> QED BY <3>2, <3>5
    <3>7. \A j \in Upto(k) \cup {k + 1} : tail[j] \in S
      BY <1>2, <3>1
    <3> HIDE DEF Upto, all
    <3>8. /\ KeepPositions(tail, Upto(k)) \in Seq(S)
          /\ KeepPositions(tail, Upto(k + 1)) = Append(KeepPositions(tail, Upto(k)), tail[k + 1])
      BY <2>1, <3>1, <3>7, KeepLast
    <3>9. KeepPositions(list, all(k + 1)) = Append(KeepPositions(list, all(k)), list[(n + k) + 1])
      BY <2>1, <3>3, <3>4, <3>6, KeepLast
    <3>10. KeepPositions(tail, Upto(k + 1)) \in Seq(S)
      BY <3>5, <3>8
    <3>11. Append(Joined(head, KeepPositions(tail, Upto(k))), tail[k + 1])
             = Joined(head, Append(KeepPositions(tail, Upto(k)), tail[k + 1]))
      BY <1>1, <3>5, <3>8, JoinedAppend
    <3>12. KeepPositions(list, all(k)) = Joined(head, KeepPositions(tail, Upto(k)))
      BY <1>4
    <3> QED BY <2>1, <3>5, <3>8, <3>9, <3>10, <3>11, <3>12
  <2> QED BY <2>2, <2>3
<1>5. \A k \in 0..m : k \in T
  <2> HIDE DEF T
  <2> QED BY <1>3, <1>4, InductionUpTo
<1>6. m \in 0..m
  OBVIOUS
<1>8. Upto(m) = more
  OBVIOUS
<1>7. KeepPositions(tail, more) \in Seq(S) /\ KeepPositions(list, all(m)) = Joined(head, KeepPositions(tail, more))
  <2> HIDE DEF Upto, all
  <2> QED BY <1>5, <1>6, <1>8
<1> QED BY <1>1, <1>7, <1>8 DEF head, tail
=============================================================================

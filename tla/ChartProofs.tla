---------------------------- MODULE ChartProofs ----------------------------
(***************************************************************************)
(* Proofs about ChartHistory: the types, and what its invariants say of the  *)
(* history, of the bytes it accounts for and of the charts drawn from it, for *)
(* any number of sessions, any sizes and any segments.                       *)
(*                                                                          *)
(* First come the lists the code makes by comprehension and by sorted(),     *)
(* which need induction over numbers, then the sampling of a chart, then the *)
(* two halves of the inductive invariant IInv: HistoryInv ties the history to *)
(* the log of all points while a writer is half done, AccountInv the points   *)
(* to the bytes that passed.                                                *)
(***************************************************************************)
EXTENDS ChartHistory, TLAPS, FiniteSetTheorems, SequenceTheorems

(* Induction over the numbers, with a set for the predicate: the library's      *)
(* theorem takes an operator, which the provers cannot instantiate.           *)
LEMMA Least ==
    ASSUME NEW S, S \subseteq Nat, S # {}
    PROVE  \E m \in S : \A n \in S : m <= n
<1> DEFINE R == StrictSubsetOrdering(Nat)
           T == {0..n : n \in S}
<1>1. IsWellFoundedOn(R, FiniteSubsetsOf(Nat))
  BY FS_StrictSubsetOrderingWellFounded
<1>2. ASSUME NEW n \in S PROVE 0..n \in FiniteSubsetsOf(Nat)
  <2>1. n \in Nat /\ 0 \in Int /\ n \in Int
    OBVIOUS
  <2>2. IsFiniteSet(0..n)
    BY <2>1, FS_Interval
  <2>3. 0..n \subseteq Nat
    BY <2>1
  <2> QED BY <2>2, <2>3 DEF FiniteSubsetsOf
<1>3. T \subseteq FiniteSubsetsOf(Nat) /\ T # {}
  BY <1>2
<1>4. PICK X \in T : \A Y \in T : <<Y, X>> \notin R
  <2> HIDE DEF R, T
  <2> QED BY <1>1, <1>3, WFMin
<1>5. PICK m \in S : X = 0..m
  OBVIOUS
<1>6. ASSUME NEW n \in S, n < m PROVE FALSE
  <2>1. 0..n \subseteq 0..m /\ m \in 0..m /\ m \notin 0..n
    BY <1>6
  <2>2. <<0..n, 0..m>> \in R
    BY <2>1 DEF StrictSubsetOrdering
  <2> QED BY <2>2, <1>4, <1>5
<1> QED BY <1>6

LEMMA Induction ==
    ASSUME NEW S, 0 \in S, \A n \in S \cap Nat : n + 1 \in S
    PROVE  Nat \subseteq S
<1> SUFFICES ASSUME Nat \ S # {} PROVE FALSE
  OBVIOUS
<1>1. PICK m \in Nat \ S : \A n \in Nat \ S : m <= n
  BY Least
<1>2. m # 0 /\ m - 1 \in Nat /\ m - 1 \in S /\ (m - 1) + 1 = m
  BY <1>1
<1> QED BY <1>2

LEMMA IntervalSize ==
    ASSUME NEW a \in Int, NEW b \in Int, a <= b + 1
    PROVE  IsFiniteSet(a..b) /\ Cardinality(a..b) = b - a + 1
<1>1. IsFiniteSet(a..b) /\ Cardinality(a..b) = IF a > b THEN 0 ELSE b - a + 1
  BY FS_Interval
<1> QED BY <1>1

LEMMA Division ==
    ASSUME NEW a \in Nat, NEW b \in Nat, NEW q \in Nat \ {0}, a < q * b
    PROVE  a \div q \in Nat /\ a \div q < b
  OBVIOUS

LEMMA MaxOfTwo ==
    ASSUME NEW a \in Int, NEW b \in Int
    PROVE  Max({a, b}) = IF a >= b THEN a ELSE b
<1>1. \E x \in {a, b} : \A y \in {a, b} : x >= y
  OBVIOUS
<1> DEFINE M == Max({a, b})
<1>2. M \in {a, b} /\ \A y \in {a, b} : M >= y
  BY <1>1 DEF Max
<1> QED BY <1>2

LEMMA ShareType == \A k \in 1..Len(Segments) : Share(k) \in Nat \ {0}
<1> SUFFICES ASSUME NEW k \in 1..Len(Segments) PROVE Share(k) \in Nat \ {0}
  OBVIOUS
<1> DEFINE T == [len : Nat, weight : Nat]
<1>0. Segments[k] \in T
  <2>1. Segments \in Seq(T)
    BY SegmentsAssumption
  <2> HIDE DEF T
  <2> QED BY <2>1, ElementOfSeq
<1>1. Segments[k].weight \in Nat
  BY <1>0
<1>2. DisplayMax * Segments[k].weight \in Nat
  BY <1>1, SizesAssumption
<1> DEFINE a == DisplayMax * Segments[k].weight
<1>3. Rounded(a, TotalWeight) \in Int
  <2>1. a \in Nat /\ TotalWeight \in Nat \ {0}
    BY <1>2, SegmentsAssumption
  <2> HIDE DEF a
  <2>2. a \div TotalWeight \in Nat
    BY <2>1
  <2> QED BY <2>2 DEF Rounded
<1> QED BY <1>3, MaxOfTwo DEF Share

(* The budget after each segment, from the one before: Budget is what its        *)
(* recursive definition says, because such a function exists.                 *)
LEMMA BudgetDef ==
    ASSUME NEW P
    PROVE  /\ Budget(P) \in [0..Len(Segments) -> Int]
           /\ Budget(P)[0] = DisplayMax
           /\ \A k \in 1..Len(Segments) :
                 Budget(P)[k] = IF k \in P THEN Budget(P)[k - 1] - Share(k) ELSE Budget(P)[k - 1]
<1> DEFINE N == Len(Segments)
           Next1(f, k) == IF k = 0 THEN DisplayMax
                          ELSE IF k \in P THEN f[k - 1] - Share(k) ELSE f[k - 1]
           F(f) == [k \in 0..N |-> Next1(f, k)]
           Upto(g, n) == g \in [0..n -> Int] /\ \A k \in 0..n : g[k] = Next1(g, k)
           S == {n \in Nat : n <= N => \E g : Upto(g, n)}
<1>1. N \in Nat /\ DisplayMax \in Int
  BY SegmentsAssumption, SizesAssumption, LenProperties
<1>2. 0 \in S
  <2>1. Upto([k \in 0..0 |-> DisplayMax], 0)
    BY <1>1
  <2> QED BY <2>1
<1>3. ASSUME NEW n \in S \cap Nat PROVE n + 1 \in S
  <2> SUFFICES ASSUME n + 1 <= N PROVE \E g : Upto(g, n + 1)
    <3> HIDE DEF Upto
    <3> QED OBVIOUS
  <2>1. PICK g : Upto(g, n)
    <3> HIDE DEF Upto
    <3> QED BY <1>1
  <2> DEFINE h == [k \in 0..(n + 1) |-> IF k = n + 1 THEN Next1(g, n + 1) ELSE g[k]]
  <2>2. g[n] \in Int /\ Share(n + 1) \in Int /\ (n + 1) - 1 = n /\ n + 1 # 0
    BY <1>1, <2>1, ShareType
  <2>3. Next1(g, n + 1) \in Int
    BY <2>2
  <2>4. h \in [0..(n + 1) -> Int]
    <3>1. \A k \in 0..(n + 1) : k # n + 1 => k \in 0..n
      OBVIOUS
    <3> HIDE DEF Next1
    <3> QED BY <2>1, <2>3, <3>1
  <2>5. ASSUME NEW k \in 0..(n + 1) PROVE h[k] = Next1(h, k)
    <3>1. CASE k = n + 1
      BY <3>1, <2>2
    <3>2. CASE k # n + 1
      <4>1. k \in 0..n /\ h[k] = g[k] /\ (k # 0 => h[k - 1] = g[k - 1])
        BY <3>2
      <4> QED BY <4>1, <2>1
    <3> QED BY <3>1, <3>2
  <2>6. Upto(h, n + 1)
    BY <2>4, <2>5
  <2> HIDE DEF Upto
  <2> QED BY <2>6
<1>4. N \in S
  <2> HIDE DEF S
  <2> QED BY <1>1, <1>2, <1>3, Induction
<1>5. PICK g : Upto(g, N)
  <2> HIDE DEF Upto
  <2> QED BY <1>1, <1>4
<1>6. g = F(g)
  BY <1>5
<1>7. Budget(P) = CHOOSE f : f = F(f)
  BY DEF Budget
<1>8. Budget(P) = F(Budget(P))
  <2> HIDE DEF F
  <2> QED BY <1>6, <1>7
<1> DEFINE B == Budget(P)
<1>9. B \in [0..N -> Int]
  <2> DEFINE T == {n \in Nat : n <= N => B[n] \in Int}
  <2>1. 0 \in T
    BY <1>1, <1>8
  <2>2. ASSUME NEW n \in T \cap Nat PROVE n + 1 \in T
    <3> SUFFICES ASSUME n + 1 <= N PROVE B[n + 1] \in Int
      OBVIOUS
    <3>1. n + 1 \in 0..N /\ B[n] \in Int /\ Share(n + 1) \in Int /\ (n + 1) - 1 = n
      BY <1>1, ShareType
    <3>2. B[n + 1] = Next1(B, n + 1)
      <4> HIDE DEF B, Next1
      <4> QED BY <1>8, <3>1 DEF B
    <3> QED BY <3>1, <3>2
  <2>3. Nat \subseteq T
    <3> HIDE DEF T
    <3> QED BY <2>1, <2>2, Induction
  <2>4. \A n \in 0..N : B[n] \in Int
    BY <2>3, <1>1
  <2> QED BY <2>4, <1>8
<1> QED BY <1>8, <1>9
-----------------------------------------------------------------------------
(* Listed: the members of a finite set in a strict total order                *)

Orders(R, D) ==
    /\ \A a \in D : <<a, a>> \notin R
    /\ \A a, b, c \in D : <<a, b>> \in R /\ <<b, c>> \in R => <<a, c>> \in R
    /\ \A a, b \in D : a # b => <<a, b>> \in R \/ <<b, a>> \in R

LEMMA RankType ==
    ASSUME NEW D, NEW R, IsFiniteSet(D), Orders(R, D), NEW d \in D
    PROVE  /\ Cardinality(D) \in Nat
           /\ Rank(D, R, d) \in 0..(Cardinality(D) - 1)
<1> DEFINE B == {c \in D : <<c, d>> \in R}
<1>1. B \in SUBSET D /\ B # D
  BY DEF Orders
<1>2. IsFiniteSet(B) /\ Cardinality(B) <= Cardinality(D) /\ Cardinality(B) # Cardinality(D)
  <2> HIDE DEF B
  <2> QED BY <1>1, FS_Subset
<1>3. Cardinality(D) \in Nat /\ Cardinality(B) \in Nat
  <2> HIDE DEF B
  <2> QED BY <1>2, FS_CardinalityType
<1> QED BY <1>2, <1>3 DEF Rank

(* The rank grows along the order. *)
LEMMA RankGrows ==
    ASSUME NEW D, NEW R, IsFiniteSet(D), Orders(R, D), NEW a \in D, NEW b \in D, <<a, b>> \in R
    PROVE  Rank(D, R, a) < Rank(D, R, b)
<1> DEFINE A == {c \in D : <<c, a>> \in R}
           B == {c \in D : <<c, b>> \in R}
<1>1. A \in SUBSET B /\ A # B
  BY DEF Orders
<1>2. IsFiniteSet(B)
  <2>1. B \in SUBSET D
    OBVIOUS
  <2> HIDE DEF B
  <2> QED BY <2>1, FS_Subset
<1>3. Cardinality(A) <= Cardinality(B) /\ Cardinality(A) # Cardinality(B) /\ IsFiniteSet(A)
  <2> HIDE DEF A, B
  <2> QED BY <1>1, <1>2, FS_Subset
<1>4. Cardinality(A) \in Nat /\ Cardinality(B) \in Nat
  <2> HIDE DEF A, B
  <2> QED BY <1>2, <1>3, FS_CardinalityType
<1> QED BY <1>3, <1>4 DEF Rank

(* Every rank is taken: there are as many as members. *)
LEMMA RankTaken ==
    ASSUME NEW D, NEW R, IsFiniteSet(D), Orders(R, D), NEW k \in 1..Cardinality(D)
    PROVE  \E d \in D : Rank(D, R, d) = k - 1
<1> DEFINE n == Cardinality(D)
           T == 0..(n - 1)
           f == [d \in D |-> Rank(D, R, d)]
<1>1. n \in Nat
  BY FS_CardinalityType
<1>2. IsFiniteSet(T) /\ Cardinality(T) = n
  <2>1. 0 \in Int /\ n - 1 \in Int
    BY <1>1
  <2> HIDE DEF n
  <2> QED BY <1>1, <2>1, FS_Interval
<1>3. f \in [D -> T]
  BY RankType
<1>4. \A a, b \in D : a # b => f[a] # f[b]
  <2> SUFFICES ASSUME NEW a \in D, NEW b \in D, a # b PROVE Rank(D, R, a) # Rank(D, R, b)
    OBVIOUS
  <2>1. Rank(D, R, a) \in Int /\ Rank(D, R, b) \in Int
    BY RankType
  <2>2. CASE <<a, b>> \in R
    BY <2>1, <2>2, RankGrows
  <2>3. CASE <<b, a>> \in R
    BY <2>1, <2>3, RankGrows
  <2> QED BY <2>2, <2>3 DEF Orders
<1>5. f \in Injection(D, T)
  <2> HIDE DEF f, T
  <2> QED BY <1>3, <1>4 DEF Injection, IsInjective
<1>6. f \in Surjection(D, T)
  <2> HIDE DEF f, T
  <2> QED BY <1>2, <1>5, FS_Injection
<1>7. k - 1 \in T
  BY <1>1
<1>8. \E d \in D : f[d] = k - 1
  <2> HIDE DEF f, T
  <2> QED BY <1>6, <1>7 DEF Surjection
<1> QED BY <1>8

LEMMA ListedProperties ==
    ASSUME NEW D, NEW R, IsFiniteSet(D), Orders(R, D)
    PROVE  /\ Cardinality(D) \in Nat
           /\ Listed(D, R) \in [1..Cardinality(D) -> D]
           /\ \A k \in 1..Cardinality(D) : Rank(D, R, Listed(D, R)[k]) = k - 1
           /\ \A k, l \in 1..Cardinality(D) : k < l => <<Listed(D, R)[k], Listed(D, R)[l]>> \in R
<1> DEFINE n == Cardinality(D)
           L == Listed(D, R)
<1>1. n \in Nat
  BY FS_CardinalityType
<1>2. ASSUME NEW k \in 1..n PROVE L[k] \in D /\ Rank(D, R, L[k]) = k - 1
  <2>1. \E d \in D : Rank(D, R, d) = k - 1
    BY RankTaken
  <2>2. L[k] = CHOOSE d \in D : Rank(D, R, d) = k - 1
    BY DEF Listed
  <2> HIDE DEF L
  <2> QED BY <2>1, <2>2
<1>3. L \in [1..n -> D]
  <2>1. L = [k \in 1..n |-> L[k]]
    BY DEF Listed
  <2> HIDE DEF L
  <2> QED BY <1>2, <2>1
<1>4. ASSUME NEW k \in 1..n, NEW l \in 1..n, k < l PROVE <<L[k], L[l]>> \in R
  <2> HIDE DEF L, n
  <2>1. L[k] \in D /\ L[l] \in D /\ Rank(D, R, L[k]) < Rank(D, R, L[l])
    BY <1>1, <1>2, <1>4 DEF n
  <2>2. L[k] # L[l] /\ Rank(D, R, L[k]) \in Int /\ Rank(D, R, L[l]) \in Int
    BY <2>1, RankType
  <2>3. <<L[l], L[k]>> \notin R
    BY <2>1, <2>2, RankGrows
  <2> QED BY <2>1, <2>2, <2>3 DEF Orders
<1> HIDE DEF L, n
<1>5. /\ n \in Nat
      /\ L \in [1..n -> D]
      /\ \A k \in 1..n : Rank(D, R, L[k]) = k - 1
      /\ \A k, l \in 1..n : k < l => <<L[k], L[l]>> \in R
  BY <1>1, <1>2, <1>3, <1>4
<1> QED BY <1>5 DEF L, n
-----------------------------------------------------------------------------
(* Selecting the points from a time on                                      *)

LEMMA PointAt ==
    ASSUME NEW s \in Seq(Point), NEW i \in 1..Len(s)
    PROVE  s[i] \in Point /\ s[i].at \in Nat /\ s[i].bytes \in Nat
<1>1. s[i] \in Point
  BY ElementOfSeq
<1> QED BY <1>1 DEF Point

LEMMA FromListed ==
    ASSUME NEW s \in Seq(Point), NEW t \in Int
    PROVE  LET D == From(s, t)
               L == Listed(D, Ascend(D))
           IN  /\ Cardinality(D) \in Nat /\ Cardinality(D) <= Len(s)
               /\ L \in [1..Cardinality(D) -> D]
               /\ \A k \in 1..Cardinality(D) : Rank(D, Ascend(D), L[k]) = k - 1
               /\ \A k, l \in 1..Cardinality(D) : k < l => L[k] < L[l]
<1> DEFINE D == From(s, t)
           L == Listed(D, Ascend(D))
<1>1. Len(s) \in Nat /\ D \in SUBSET (1..Len(s)) /\ 1 \in Int /\ Len(s) \in Int
  BY LenProperties DEF From
<1>2. IsFiniteSet(1..Len(s)) /\ Cardinality(1..Len(s)) = Len(s)
  BY <1>1, IntervalSize
<1>3. IsFiniteSet(D) /\ Cardinality(D) <= Len(s)
  <2> HIDE DEF D
  <2> QED BY <1>1, <1>2, FS_Subset
<1>4. Orders(Ascend(D), D)
  <2> HIDE DEF D
  <2> QED BY <1>1 DEF Orders, Ascend
<1>5. /\ Cardinality(D) \in Nat
      /\ L \in [1..Cardinality(D) -> D]
      /\ \A k \in 1..Cardinality(D) : Rank(D, Ascend(D), L[k]) = k - 1
      /\ \A k, l \in 1..Cardinality(D) : k < l => <<L[k], L[l]>> \in Ascend(D)
  <2> HIDE DEF D
  <2> QED BY <1>3, <1>4, ListedProperties
<1>6. \A k, l \in 1..Cardinality(D) : k < l => L[k] < L[l]
  <2> HIDE DEF L
  <2> QED BY <1>5 DEF Ascend
<1> QED BY <1>3, <1>5, <1>6

LEMMA PointsFromProperties ==
    ASSUME NEW s \in Seq(Point), NEW t \in Int
    PROVE  LET r == PointsFrom(s, t)
           IN  /\ r \in Seq(Point) /\ Len(r) <= Len(s)
               /\ \A k \in 1..Len(r) : r[k].at >= t
               /\ Ascending(s) => Ascending(r)
               /\ r = <<>> <=> \A i \in 1..Len(s) : s[i].at < t
<1> DEFINE D == From(s, t)
           n == Cardinality(D)
           L == Listed(D, Ascend(D))
           r == PointsFrom(s, t)
<1>1. /\ n \in Nat /\ n <= Len(s)
      /\ L \in [1..n -> D]
      /\ \A k, l \in 1..n : k < l => L[k] < L[l]
      /\ \A k \in 1..n : Rank(D, Ascend(D), L[k]) = k - 1
  BY FromListed
<1>2. r = [k \in 1..n |-> s[L[k]]]
  BY DEF PointsFrom
<1>3. \A i \in D : i \in 1..Len(s) /\ s[i] \in Point /\ s[i].at >= t
  BY PointAt DEF From
<1>4. D = {} <=> \A i \in 1..Len(s) : s[i].at < t
  BY PointAt DEF From
<1>5. D = {} <=> n = 0
  <2>1. Len(s) \in Nat /\ D \in SUBSET (1..Len(s)) /\ 1 \in Int /\ Len(s) \in Int
    BY LenProperties DEF From
  <2>2. IsFiniteSet(D)
    <3> HIDE DEF D
    <3> QED BY <2>1, FS_Interval, FS_Subset
  <2> HIDE DEF D
  <2> QED BY <2>2, FS_EmptySet DEF n
<1> HIDE DEF D, L, n, r
<1>6. r \in [1..n -> Point]
  BY <1>1, <1>2, <1>3
<1>7. r \in Seq(Point) /\ Len(r) = n
  BY <1>1, <1>6
<1>8. \A k \in 1..n : r[k].at >= t
  BY <1>1, <1>2, <1>3
<1>9. ASSUME Ascending(s) PROVE Ascending(r)
  BY <1>1, <1>2, <1>3, <1>7, <1>9 DEF Ascending
<1>10. r = <<>> <=> n = 0
  BY <1>7, EmptySeq
<1> QED BY <1>1, <1>4, <1>5, <1>7, <1>8, <1>9, <1>10 DEF r

(* Of a list in order, the points from a time on are its end. *)
LEMMA FromIsEnd ==
    ASSUME NEW s \in Seq(Point), NEW t \in Int, Ascending(s)
    PROVE  \E m \in 1..(Len(s) + 1) : From(s, t) = m..Len(s)
<1>1. Len(s) \in Nat
  BY LenProperties
<1>2. CASE From(s, t) = {}
  BY <1>1, <1>2
<1>3. CASE From(s, t) # {}
  <2>1. From(s, t) \subseteq Nat
    BY <1>1 DEF From
  <2>2. PICK m \in From(s, t) : \A n \in From(s, t) : m <= n
    BY <1>3, <2>1, Least
  <2>3. m \in 1..Len(s) /\ s[m].at >= t
    BY DEF From
  <2>4. ASSUME NEW n \in m..Len(s) PROVE n \in From(s, t)
    <3>1. n \in 1..Len(s) /\ s[n].at \in Int /\ s[m].at \in Int /\ (m = n \/ m < n)
      BY <1>1, <2>3, PointAt
    <3>2. s[n].at >= s[m].at
      BY <3>1, <2>3 DEF Ascending
    <3> QED BY <3>1, <3>2, <2>3 DEF From
  <2>5. From(s, t) = m..Len(s)
    BY <1>1, <2>1, <2>2, <2>4 DEF From
  <2> QED BY <1>1, <2>3, <2>5
<1> QED BY <1>2, <1>3

LEMMA PointsFromEnd ==
    ASSUME NEW s \in Seq(Point), NEW t \in Int, NEW m \in 1..(Len(s) + 1), From(s, t) = m..Len(s)
    PROVE  PointsFrom(s, t) = SubSeq(s, m, Len(s))
<1> DEFINE D == m..Len(s)
           n == Len(s) - m + 1
           L == Listed(D, Ascend(D))
<1>1. Len(s) \in Nat /\ m \in Int /\ n \in Nat /\ Len(s) \in Int
  BY LenProperties
<1>2. Cardinality(D) = n
  BY <1>1, IntervalSize
<1>3. ASSUME NEW d \in D PROVE Rank(D, Ascend(D), d) = d - m
  <2>1. {c \in D : <<c, d>> \in Ascend(D)} = m..(d - 1)
    BY <1>1 DEF Ascend
  <2>2. Cardinality(m..(d - 1)) = d - m
    <3>1. d - 1 \in Int /\ d >= m
      BY <1>1
    <3> QED BY <1>1, <3>1, IntervalSize
  <2> QED BY <2>1, <2>2 DEF Rank
<1>4. ASSUME NEW k \in 1..n PROVE L[k] = m + k - 1
  <2>1. L[k] \in D /\ Rank(D, Ascend(D), L[k]) = k - 1
    BY <1>2, FromListed
  <2>2. L[k] - m = k - 1
    <3> HIDE DEF L, D
    <3> QED BY <1>3, <2>1
  <2> QED BY <2>1, <2>2, <1>1
<1>5. PointsFrom(s, t) = [k \in 1..n |-> s[L[k]]]
  BY <1>2 DEF PointsFrom
<1> DEFINE r == [k \in 1..n |-> s[m + k - 1]]
<1>6. PointsFrom(s, t) = r
  <2> HIDE DEF L
  <2> QED BY <1>4, <1>5
<1>7. \A i \in m..Len(s) : s[i] \in Point
  BY <1>1, PointAt
<1>8. /\ SubSeq(s, m, Len(s)) \in Seq(Point)
      /\ Len(SubSeq(s, m, Len(s))) = IF m <= Len(s) THEN Len(s) - m + 1 ELSE 0
      /\ \A i \in 1..(Len(s) - m + 1) : SubSeq(s, m, Len(s))[i] = s[m + i - 1]
  BY <1>1, <1>7, SubSeqProperties
<1>9. r \in Seq(Point) /\ Len(r) = n
  <2>1. r \in [1..n -> Point]
    BY <1>1, <1>7
  <2> HIDE DEF r
  <2> QED BY <1>1, <2>1
<1>10. Len(r) = Len(SubSeq(s, m, Len(s))) /\ \A i \in 1..Len(r) : r[i] = SubSeq(s, m, Len(s))[i]
  BY <1>1, <1>8, <1>9
<1>11. r = SubSeq(s, m, Len(s))
  <2> HIDE DEF r
  <2> QED BY <1>8, <1>9, <1>10, SeqEqual
<1> QED BY <1>6, <1>11
LEMMA LastPointsProperties ==
    ASSUME NEW s \in Seq(Point), NEW n \in Nat \ {0}
    PROVE  LET r == LastPoints(s, n)
           IN  /\ r \in Seq(Point)
               /\ Len(r) = IF Len(s) <= n THEN Len(s) ELSE n
               /\ \A i \in 1..Len(r) : r[i] = s[Len(s) - Len(r) + i]
<1> DEFINE m == Max({1, Len(s) - n + 1})
           r == LastPoints(s, n)
<1>1. Len(s) \in Nat /\ Len(s) \in Int
  BY LenProperties
<1>2. m = IF Len(s) <= n THEN 1 ELSE Len(s) - n + 1
  BY <1>1, MaxOfTwo
<1> HIDE DEF m
<1>3. m \in Int /\ \A i \in m..Len(s) : s[i] \in Point
  BY <1>1, <1>2, PointAt
<1>4. /\ SubSeq(s, m, Len(s)) \in Seq(Point)
      /\ Len(SubSeq(s, m, Len(s))) = IF m <= Len(s) THEN Len(s) - m + 1 ELSE 0
      /\ \A i \in 1..(Len(s) - m + 1) : SubSeq(s, m, Len(s))[i] = s[m + i - 1]
  BY <1>1, <1>3, SubSeqProperties
<1>5. r = SubSeq(s, m, Len(s))
  BY DEF LastPoints, m
<1> DEFINE l == Len(r)
<1>6. /\ r \in Seq(Point)
      /\ l = IF m <= Len(s) THEN Len(s) - m + 1 ELSE 0
      /\ \A i \in 1..(Len(s) - m + 1) : r[i] = s[m + i - 1]
  <2> HIDE DEF r
  <2> QED BY <1>4, <1>5
<1> HIDE DEF r, l
<1>7. l = IF Len(s) <= n THEN Len(s) ELSE n
  BY <1>1, <1>2, <1>6
<1>8. ASSUME NEW i \in 1..l PROVE r[i] = s[Len(s) - l + i]
  <2>1. CASE Len(s) <= n
    <3>1. m = 1 /\ l = Len(s) /\ i \in 1..l /\ i \in Int
      BY <1>1, <1>2, <1>7, <2>1
    <3>2. i \in 1..(Len(s) - m + 1) /\ m + i - 1 = Len(s) - l + i
      BY <1>1, <3>1
    <3> QED BY <1>6, <3>2
  <2>2. CASE ~(Len(s) <= n)
    <3>1. m = Len(s) - n + 1 /\ l = n /\ i \in 1..n /\ i \in Int /\ m \in Int
      BY <1>1, <1>2, <1>7, <2>2
    <3>2. i \in 1..(Len(s) - m + 1) /\ m + i - 1 = Len(s) - l + i
      BY <1>1, <3>1
    <3> QED BY <1>6, <3>2
  <2> QED BY <2>1, <2>2
<1> QED BY <1>6, <1>7, <1>8 DEF r, l

LEMMA TrimmedProperties ==
    ASSUME NEW s \in Seq(Point), NEW t \in Int
    PROVE  LET r == Trimmed(s, t)
           IN  /\ r \in Seq(Point) /\ Len(r) <= Len(s)
               /\ s # <<>> => r # <<>>
               /\ Ascending(s) => Ascending(r)
<1> DEFINE kept == PointsFrom(s, t - WindowSeconds)
           last == LastPoints(s, 1)
           r == Trimmed(s, t)
<1>1. Len(s) \in Nat /\ t - WindowSeconds \in Int
  BY LenProperties, SizesAssumption
<1>2. kept \in Seq(Point) /\ Len(kept) <= Len(s) /\ (Ascending(s) => Ascending(kept))
  BY <1>1, PointsFromProperties
<1>3. last \in Seq(Point) /\ Len(last) = IF Len(s) <= 1 THEN Len(s) ELSE 1
  <2>1. 1 \in Nat \ {0}
    OBVIOUS
  <2> QED BY <2>1, LastPointsProperties
<1>4. r = IF kept # <<>> THEN kept ELSE last
  BY DEF Trimmed
<1> HIDE DEF kept, last, r
<1>5. Ascending(last)
  BY <1>1, <1>3 DEF Ascending
<1>6. s # <<>> => last # <<>>
  <2>1. (s # <<>> => Len(s) \in Nat \ {0}) /\ Len(<<>>) = 0
    BY EmptySeq
  <2> SUFFICES ASSUME s # <<>>, Len(last) = 0 PROVE FALSE
    BY <2>1
  <2> QED BY <1>1, <1>3, <2>1
<1>7. r \in Seq(Point) /\ Len(r) <= Len(s) /\ (s # <<>> => r # <<>>) /\ (Ascending(s) => Ascending(r))
  BY <1>1, <1>2, <1>3, <1>4, <1>5, <1>6
<1> QED BY <1>7 DEF r

-----------------------------------------------------------------------------
(* Sampling: no segment takes more than its quota                           *)

LEMMA SpreadProperties ==
    ASSUME NEW s \in Seq(Point), NEW q \in Nat \ {0}
    PROVE  Spread(s, q) \in Seq(Point) /\ Len(Spread(s, q)) <= q /\ (s = <<>> => Len(Spread(s, q)) = 0)
<1>1. Len(s) \in Nat
  BY LenProperties
<1>2. CASE Len(s) <= q
  BY <1>1, <1>2, EmptySeq DEF Spread
<1>3. CASE ~(Len(s) <= q)
  <2> DEFINE r == [i \in 1..q |-> s[((i - 1) * Len(s)) \div q + 1]]
  <2>1. ASSUME NEW i \in 1..q PROVE s[((i - 1) * Len(s)) \div q + 1] \in Point
    <3> DEFINE a == (i - 1) * Len(s)
    <3>1. a \in Nat /\ a < q * Len(s)
      <4>1. i - 1 \in Nat /\ i - 1 < q /\ Len(s) > 0
        BY <1>1, <1>3
      <4> QED BY <1>1, <4>1
    <3>2. a \div q \in Nat /\ a \div q < Len(s)
      <4> HIDE DEF a
      <4> QED BY <1>1, <3>1, Division
    <3>3. a \div q + 1 \in 1..Len(s)
      <4> HIDE DEF a
      <4> QED BY <1>1, <3>2
    <3> QED BY <3>3, PointAt
  <2>2. r \in [1..q -> Point]
    BY <2>1
  <2>3. r \in Seq(Point) /\ Len(r) = q
    <3> HIDE DEF r
    <3> QED BY <2>2
  <2>4. Spread(s, q) = r
    BY <1>3 DEF Spread
  <2>5. s # <<>>
    BY <1>1, <1>3, EmptySeq
  <2> QED BY <2>3, <2>4, <2>5
<1> QED BY <1>2, <1>3

LEMMA BudgetMonotonic ==
    ASSUME NEW P \in SUBSET (1..Len(Segments)), NEW k \in 0..Len(Segments)
    PROVE  Budget(1..Len(Segments))[k] <= Budget(P)[k]
<1> DEFINE N == Len(Segments)
           A == Budget(1..N)
           B == Budget(P)
           S == {n \in Nat : n <= N => A[n] <= B[n]}
<1>1. N \in Nat
  BY SegmentsAssumption, LenProperties
<1>2. /\ A \in [0..N -> Int] /\ A[0] = DisplayMax
      /\ \A n \in 1..N : A[n] = A[n - 1] - Share(n)
  BY BudgetDef
<1>3. /\ B \in [0..N -> Int] /\ B[0] = DisplayMax
      /\ \A n \in 1..N : B[n] = IF n \in P THEN B[n - 1] - Share(n) ELSE B[n - 1]
  BY BudgetDef
<1> HIDE DEF A, B
<1>4. 0 \in S
  BY <1>2, <1>3, SizesAssumption
<1>5. ASSUME NEW n \in S \cap Nat PROVE n + 1 \in S
  <2> SUFFICES ASSUME n + 1 <= N PROVE A[n + 1] <= B[n + 1]
    OBVIOUS
  <2>1. n + 1 \in 1..N /\ n \in 0..N /\ A[n] <= B[n] /\ (n + 1) - 1 = n
    BY <1>1
  <2>2. A[n] \in Int /\ B[n] \in Int /\ Share(n + 1) \in Nat
    BY <1>2, <1>3, <2>1, ShareType
  <2>3. A[n + 1] = A[n] - Share(n + 1) /\ (B[n + 1] = B[n] - Share(n + 1) \/ B[n + 1] = B[n])
    BY <1>2, <1>3, <2>1
  <2> QED BY <2>1, <2>2, <2>3
<1>6. Nat \subseteq S
  <2> HIDE DEF S
  <2> QED BY <1>4, <1>5, Induction
<1>7. A[k] <= B[k]
  BY <1>1, <1>6
<1> QED BY <1>7 DEF A, B

LEMMA PartsProperties ==
    ASSUME NEW s \in Seq(Point), NEW t \in Int
    PROVE  LET N == Len(Segments)
               P == WithPoints(s, t)
               B == Budget(P)
               parts == Parts(s, t)
           IN  /\ N \in Nat \ {0}
               /\ parts \in [1..N -> Seq(Point)]
               /\ B \in [0..N -> Int] /\ B[0] = DisplayMax
               /\ \A k \in 1..(N - 1) : Len(parts[k]) <= B[k - 1] - B[k]
               /\ Len(parts[N]) <= B[N - 1]
<1> DEFINE N == Len(Segments)
           P == WithPoints(s, t)
           B == Budget(P)
           parts == Parts(s, t)
           T == [len : Nat, weight : Nat]
<1>1. N \in Nat \ {0} /\ Segments \in Seq(T)
  <2>1. Segments \in Seq(T) /\ Segments # <<>>
    BY SegmentsAssumption
  <2> HIDE DEF T
  <2> QED BY <2>1, EmptySeq
<1>2. ASSUME NEW k \in 1..N
      PROVE  /\ t - Segments[k].len \in Int
             /\ SegmentPoints(s, t, k) \in Seq(Point)
  <2>1. Segments[k] \in T
    <3> HIDE DEF T
    <3> QED BY <1>1, ElementOfSeq
  <2>2. t - Segments[k].len \in Int
    BY <2>1
  <2> QED BY <2>2, PointsFromProperties DEF SegmentPoints
<1>3. /\ B \in [0..N -> Int] /\ B[0] = DisplayMax
      /\ \A k \in 1..N : B[k] = IF k \in P THEN B[k - 1] - Share(k) ELSE B[k - 1]
  BY BudgetDef
<1>4. B[N - 1] \in Int /\ B[N - 1] > 0
  <2>1. N - 1 \in 0..N /\ P \in SUBSET (1..N)
    BY <1>1 DEF WithPoints
  <2>2. Budget(1..N)[N - 1] <= B[N - 1]
    <3> HIDE DEF P
    <3> QED BY <2>1, BudgetMonotonic
  <2>3. Budget(1..N)[N - 1] \in Int /\ Budget(1..N)[N - 1] > 0
    <3>1. Budget(1..N) \in [0..N -> Int]
      BY BudgetDef
    <3> QED BY <2>1, <3>1, BudgetAssumption
  <2> HIDE DEF B
  <2> QED BY <1>3, <2>1, <2>2, <2>3
<1>5. ASSUME NEW k \in 1..N PROVE Quota(s, t, k) \in Nat \ {0}
  <2>1. Share(k) \in Nat \ {0}
    BY ShareType
  <2> HIDE DEF B
  <2> QED BY <1>4, <2>1 DEF Quota, Rest, B
<1>6. ASSUME NEW k \in 1..N
      PROVE  /\ parts[k] = Spread(SegmentPoints(s, t, k), Quota(s, t, k))
             /\ parts[k] \in Seq(Point) /\ Len(parts[k]) <= Quota(s, t, k)
             /\ k \notin P => Len(parts[k]) = 0
  <2>1. parts[k] = Spread(SegmentPoints(s, t, k), Quota(s, t, k))
    BY DEF Parts
  <2> HIDE DEF parts
  <2> QED BY <1>2, <1>5, <2>1, SpreadProperties DEF WithPoints
<1>7. parts \in [1..N -> Seq(Point)]
  <2>1. parts = [k \in 1..N |-> parts[k]]
    BY DEF Parts
  <2> HIDE DEF parts
  <2> QED BY <1>6, <2>1
<1> HIDE DEF parts, P, B
<1>8. ASSUME NEW k \in 1..(N - 1) PROVE Len(parts[k]) <= B[k - 1] - B[k]
  <2>1. k \in 1..N /\ k \in 0..N /\ k # N /\ k - 1 \in 0..N /\ Quota(s, t, k) = Share(k)
    BY <1>1 DEF Quota
  <2>2. B[k - 1] \in Int /\ B[k] \in Int /\ Share(k) \in Nat
    BY <1>3, <2>1, ShareType
  <2>3. B[k] = IF k \in P THEN B[k - 1] - Share(k) ELSE B[k - 1]
    BY <1>3, <2>1
  <2>4. Len(parts[k]) <= Share(k) /\ (k \notin P => Len(parts[k]) = 0)
    BY <1>6, <2>1
  <2> QED BY <2>2, <2>3, <2>4
<1>9. Len(parts[N]) <= B[N - 1]
  <2>1. N \in 1..N
    BY <1>1
  <2> QED BY <1>6, <2>1 DEF Quota, Rest, B, P
<1> QED BY <1>1, <1>3, <1>7, <1>8, <1>9 DEF parts, P, B
(* How many points all parts have: the budget goes down by no less than what    *)
(* each part takes.                                                         *)
LEMMA PlacesBounded ==
    ASSUME NEW s \in Seq(Point), NEW t \in Int
    PROVE  /\ IsFiniteSet(Places(Parts(s, t)))
           /\ Cardinality(Places(Parts(s, t))) \in Nat
           /\ Cardinality(Places(Parts(s, t))) <= DisplayMax
<1> DEFINE N == Len(Segments)
           B == Budget(WithPoints(s, t))
           parts == Parts(s, t)
           Row(k) == {k} \X (1..Len(parts[k]))
           Upto(n) == UNION {Row(k) : k \in 1..n}
           S == {n \in Nat : n <= N - 1 =>
                    /\ IsFiniteSet(Upto(n))
                    /\ Cardinality(Upto(n)) <= DisplayMax - B[n]}
<1>1. /\ N \in Nat \ {0}
      /\ parts \in [1..N -> Seq(Point)]
      /\ B \in [0..N -> Int] /\ B[0] = DisplayMax
      /\ \A k \in 1..(N - 1) : Len(parts[k]) <= B[k - 1] - B[k]
      /\ Len(parts[N]) <= B[N - 1]
  BY PartsProperties
<1>2. Places(parts) = Upto(N)
  BY <1>1 DEF Places
<1> HIDE DEF N, B, parts
<1>3. ASSUME NEW k \in 1..N
      PROVE  IsFiniteSet(Row(k)) /\ Cardinality(Row(k)) = Len(parts[k]) /\ Len(parts[k]) \in Nat
  <2> DEFINE m == Len(parts[k])
  <2>1. m \in Nat /\ m \in Int /\ 1 \in Int /\ 1 <= m + 1 /\ m - 1 + 1 = m
    <3>1. m \in Nat
      BY <1>1, LenProperties
    <3> HIDE DEF m
    <3> QED BY <3>1
  <2>2. IsFiniteSet(1..Len(parts[k])) /\ Cardinality(1..Len(parts[k])) = Len(parts[k])
    <3> HIDE DEF m
    <3> QED BY <2>1, IntervalSize DEF m
  <2>3. IsFiniteSet({k}) /\ Cardinality({k}) = 1
    BY FS_Singleton
  <2>4. IsFiniteSet(Row(k)) /\ Cardinality(Row(k)) = Cardinality({k}) * Cardinality(1..Len(parts[k]))
    BY <2>2, <2>3, FS_Product
  <2> QED BY <2>1, <2>2, <2>3, <2>4
<1>4. ASSUME NEW n \in Nat, n + 1 <= N, IsFiniteSet(Upto(n))
      PROVE  /\ IsFiniteSet(Upto(n + 1)) /\ Cardinality(Upto(n)) \in Int
             /\ Cardinality(Upto(n + 1)) \in Nat
             /\ Cardinality(Upto(n + 1)) <= Cardinality(Upto(n)) + Len(parts[n + 1])
  <2> DEFINE X == Upto(n)
             Y == Row(n + 1)
  <2>1. Upto(n + 1) = X \cup Y
    <3>1. 1..(n + 1) = (1..n) \cup {n + 1}
      BY <1>1
    <3> HIDE DEF Row
    <3> QED BY <3>1
  <2>2. n + 1 \in 1..N
    BY <1>1, <1>4
  <2>3. IsFiniteSet(Y) /\ Cardinality(Y) = Len(parts[n + 1]) /\ Len(parts[n + 1]) \in Nat
    BY <1>3, <2>2
  <2> HIDE DEF X, Y
  <2>4. /\ IsFiniteSet(X \cup Y)
        /\ Cardinality(X \cup Y) = Cardinality(X) + Cardinality(Y) - Cardinality(X \cap Y)
    BY <1>4, <2>3, FS_Union DEF X
  <2>5. IsFiniteSet(X \cap Y)
    BY <1>4, FS_Intersection DEF X
  <2>6. /\ Cardinality(X) \in Nat /\ Cardinality(X \cap Y) \in Nat
        /\ Cardinality(X \cup Y) \in Nat
    BY <1>4, <2>4, <2>5, FS_CardinalityType DEF X
  <2>7. /\ IsFiniteSet(X \cup Y) /\ Cardinality(X) \in Int /\ Cardinality(X \cup Y) \in Nat
        /\ Cardinality(X \cup Y) <= Cardinality(X) + Len(parts[n + 1])
    BY <2>3, <2>4, <2>6
  <2> QED BY <2>1, <2>7 DEF X
<1> HIDE DEF Row
<1>5. 0 \in S
  <2>1. Upto(0) = {}
    OBVIOUS
  <2> HIDE DEF Upto
  <2>2. IsFiniteSet(Upto(0)) /\ Cardinality(Upto(0)) = 0
    BY <2>1, FS_EmptySet
  <2> QED BY <1>1, <2>2, SizesAssumption
<1> HIDE DEF Upto
<1>6. ASSUME NEW n \in S \cap Nat PROVE n + 1 \in S
  <2> SUFFICES ASSUME n + 1 <= N - 1
               PROVE  IsFiniteSet(Upto(n + 1)) /\ Cardinality(Upto(n + 1)) <= DisplayMax - B[n + 1]
    OBVIOUS
  <2>1. /\ n + 1 <= N /\ n <= N - 1 /\ n + 1 \in 1..(N - 1) /\ (n + 1) - 1 = n
        /\ n \in 0..N /\ n + 1 \in 0..N /\ n + 1 \in 1..N
    BY <1>1
  <2>2. IsFiniteSet(Upto(n)) /\ Cardinality(Upto(n)) <= DisplayMax - B[n]
    BY <2>1
  <2>3. /\ IsFiniteSet(Upto(n + 1)) /\ Cardinality(Upto(n)) \in Int
        /\ Cardinality(Upto(n + 1)) \in Nat
        /\ Cardinality(Upto(n + 1)) <= Cardinality(Upto(n)) + Len(parts[n + 1])
    BY <1>4, <2>1, <2>2
  <2>4. /\ B[n] \in Int /\ B[n + 1] \in Int /\ Len(parts[n + 1]) \in Int
        /\ Len(parts[n + 1]) <= B[n] - B[n + 1]
    BY <1>1, <1>3, <2>1
  <2> QED BY <2>2, <2>3, <2>4, SizesAssumption
<1>7. N - 1 \in S
  <2>1. Nat \subseteq S
    <3> HIDE DEF S
    <3> QED BY <1>5, <1>6, Induction
  <2> QED BY <1>1, <2>1
<1>8. IsFiniteSet(Upto(N - 1)) /\ Cardinality(Upto(N - 1)) <= DisplayMax - B[N - 1]
  BY <1>1, <1>7
<1>9. /\ IsFiniteSet(Upto(N)) /\ Cardinality(Upto(N - 1)) \in Int
      /\ Cardinality(Upto(N)) \in Nat
      /\ Cardinality(Upto(N)) <= Cardinality(Upto(N - 1)) + Len(parts[N])
  <2>1. N - 1 \in Nat /\ (N - 1) + 1 = N /\ (N - 1) + 1 <= N
    BY <1>1
  <2> QED BY <1>4, <1>8, <2>1
<1>10. B[N - 1] \in Int /\ Len(parts[N]) \in Int
  BY <1>1, <1>3
<1>11. IsFiniteSet(Upto(N)) /\ Cardinality(Upto(N)) \in Nat /\ Cardinality(Upto(N)) <= DisplayMax
  BY <1>1, <1>8, <1>9, <1>10, SizesAssumption
<1> QED BY <1>2, <1>11 DEF parts

LEMMA InOrderProperties ==
    ASSUME NEW s \in Seq(Point), NEW t \in Int
    PROVE  LET r == InOrder(Parts(s, t))
           IN  r \in Seq(Point) /\ Len(r) <= DisplayMax /\ Ascending(r)
<1> DEFINE parts == Parts(s, t)
           D == Places(parts)
           R == ByTime(parts)
           n == Cardinality(D)
           L == Listed(D, R)
           r == InOrder(parts)
           at(c) == parts[c[1]][c[2]].at
<1>1. IsFiniteSet(D) /\ n \in Nat /\ n <= DisplayMax
  BY PlacesBounded
<1>2. parts \in [1..Len(Segments) -> Seq(Point)] /\ Len(Segments) \in Nat
  BY PartsProperties
<1>3. ASSUME NEW c \in D
      PROVE  /\ parts[c[1]][c[2]] \in Point /\ at(c) \in Int
             /\ c[1] \in Int /\ c[2] \in Int /\ c = <<c[1], c[2]>>
  <2> HIDE DEF parts
  <2>1. PICK k \in 1..Len(Segments) : c \in {k} \X (1..Len(parts[k]))
    BY <1>2 DEF Places
  <2>2. c[1] = k /\ c[2] \in 1..Len(parts[k]) /\ c = <<c[1], c[2]>>
    BY <2>1
  <2>3. parts[k] \in Seq(Point)
    BY <1>2
  <2>4. parts[k][c[2]] \in Point /\ parts[k][c[2]].at \in Nat
    BY <2>2, <2>3, PointAt
  <2> QED BY <2>2, <2>4
<1>4. \A a, b \in D : <<a, b>> \in R <=>
          at(a) < at(b) \/ (at(a) = at(b) /\ (a[1] < b[1] \/ (a[1] = b[1] /\ a[2] < b[2])))
  BY DEF ByTime, Extended
<1> HIDE DEF parts, D, R, at
<1>5. Orders(R, D)
  <2>1. \A a \in D : <<a, a>> \notin R
    BY <1>3, <1>4
  <2>2. \A a, b, c \in D : <<a, b>> \in R /\ <<b, c>> \in R => <<a, c>> \in R
    <3> SUFFICES ASSUME NEW a \in D, NEW b \in D, NEW c \in D, <<a, b>> \in R, <<b, c>> \in R
                 PROVE  <<a, c>> \in R
      OBVIOUS
    <3>1. /\ at(a) \in Int /\ at(b) \in Int /\ at(c) \in Int
          /\ a[1] \in Int /\ b[1] \in Int /\ c[1] \in Int
          /\ a[2] \in Int /\ b[2] \in Int /\ c[2] \in Int
      BY <1>3
    <3> QED BY <1>4, <3>1
  <2>3. \A a, b \in D : a # b => <<a, b>> \in R \/ <<b, a>> \in R
    <3> SUFFICES ASSUME NEW a \in D, NEW b \in D, a # b PROVE <<a, b>> \in R \/ <<b, a>> \in R
      OBVIOUS
    <3>1. /\ at(a) \in Int /\ at(b) \in Int /\ a[1] \in Int /\ b[1] \in Int
          /\ a[2] \in Int /\ b[2] \in Int /\ a = <<a[1], a[2]>> /\ b = <<b[1], b[2]>>
      BY <1>3
    <3>2. a[1] # b[1] \/ a[2] # b[2]
      BY <3>1
    <3> QED BY <1>4, <3>1, <3>2
  <2> QED BY <2>1, <2>2, <2>3 DEF Orders
<1>6. /\ L \in [1..n -> D]
      /\ \A k, l \in 1..n : k < l => <<L[k], L[l]>> \in R
  BY <1>1, <1>5, ListedProperties
<1>7. r = [k \in 1..n |-> parts[L[k][1]][L[k][2]]]
  BY DEF InOrder, D, R
<1> HIDE DEF L, n, r
<1>8. r \in [1..n -> Point]
  BY <1>3, <1>6, <1>7
<1>9. r \in Seq(Point) /\ Len(r) = n
  BY <1>1, <1>8
<1>10. ASSUME NEW i \in 1..n, NEW j \in 1..n, i < j PROVE r[i].at <= r[j].at
  <2>1. L[i] \in D /\ L[j] \in D /\ <<L[i], L[j]>> \in R
    BY <1>6, <1>10
  <2>2. r[i].at = at(L[i]) /\ r[j].at = at(L[j])
    BY <1>7 DEF at
  <2>3. at(L[i]) \in Int /\ at(L[j]) \in Int
    BY <1>3, <2>1
  <2> QED BY <1>4, <2>1, <2>2, <2>3
<1> QED BY <1>1, <1>9, <1>10 DEF Ascending, r, parts
-----------------------------------------------------------------------------
(* Types                                                                    *)

LEMMA RestedType ==
    ASSUME TypeOK, NEW t \in Nat
    PROVE  Rested(t) \in Locals /\ [Rested(t) EXCEPT !.pc = "over"] \in Locals
<1>1. <<>> \in Seq(Point) /\ 0 \in 0..now /\ 0 \in 0..passed
  BY EmptySeq DEF TypeOK
<1> QED BY <1>1 DEF Rested, Locals

LEMMA InitType == Init => TypeOK
<1> SUFFICES ASSUME Init PROVE TypeOK
  OBVIOUS
<1>1. /\ now \in 1..MaxTime /\ counter \in 0..passed /\ passed \in Nat
      /\ cached \in {None} \cup 0..passed /\ recorded \in Nat
      /\ prev \in [at : 0..now, bytes : 0..passed]
  BY SizesAssumption DEF Init
<1>0. misread \in BOOLEAN /\ overlapped \in BOOLEAN
  BY Zenon DEF Init
<1>2. hist \in Seq(Point) /\ log \in Seq(Point)
  BY EmptySeq DEF Init
<1>3. Rested(1) \in Locals
  <2>1. <<>> \in Seq(Point) /\ 0 \in 0..now /\ 0 \in 0..passed
    BY <1>1, EmptySeq
  <2> QED BY <2>1 DEF Rested, Locals
<1>4. w \in [Writers -> Locals]
  <2>1. w = [x \in Writers |-> Rested(1)]
    BY DEF Init
  <2> QED BY <1>3, <2>1
<1> QED BY <1>0, <1>1, <1>2, <1>4 DEF TypeOK

(* What a writer does to its own locals does not disturb the others' types. *)
LEMMA OneWriter ==
    ASSUME TypeOK, NEW x \in Writers, NEW r, r \in Locals', now <= now', passed <= passed',
           now' \in Nat, passed' \in Nat, w' = [w EXCEPT ![x] = r]
    PROVE  w' \in [Writers -> Locals']
<1>1. Locals \subseteq Locals'
  <2>1. 0..now \subseteq 0..now' /\ 0..passed \subseteq 0..passed'
    BY DEF TypeOK
  <2> QED BY <2>1 DEF Locals
<1> QED BY <1>1 DEF TypeOK

(* A writer begins: it takes GOST's counter, the cached totals, or 0 for metrics  *)
(* that cannot be read.                                                     *)
Takes(x, b) ==
    /\ w[x].pc = "rest"
    /\ w' = [w EXCEPT ![x] = [w[x] EXCEPT !.pc = "stamp", !.total = b]]
    /\ cached' = b
    /\ misread' \/ b = counter \/ (b = cached /\ cached # None)
    /\ misread' \in BOOLEAN /\ (misread => misread')
    /\ Begin
    /\ UNCHANGED <<now, counter, prev, hist, log, recorded, passed>>

Reads == \E x \in Writers : \E b \in 0..passed : Takes(x, b)

LEMMA ReadTakes ==
    ASSUME TypeOK, Collect \/ \E x \in Sessions : OpenSession(x)
    PROVE  Reads
<1>0. misread \in BOOLEAN /\ 0 \in 0..passed /\ counter \in 0..passed
  BY DEF TypeOK
<1>1. CASE Collect
  <2>1. PICK b \in {0, counter} :
            /\ Totals(b) /\ cached' = b
            /\ w' = [w EXCEPT ![Collector].pc = "stamp", ![Collector].total = b]
    BY <1>1 DEF Collect
  <2>2. Collector \in Writers /\ b \in 0..passed
    BY <1>0 DEF Writers
  <2>3. w' = [w EXCEPT ![Collector] = [w[Collector] EXCEPT !.pc = "stamp", !.total = b]]
    BY <2>1, <2>2 DEF TypeOK
  <2>4. misread' \/ b = counter
    BY <2>1, Zenon DEF Totals
  <2>5. misread' \in BOOLEAN /\ (misread => misread')
    BY <1>0, <2>1, Zenon DEF Totals
  <2>6. /\ w[Collector].pc = "rest" /\ Begin
        /\ UNCHANGED <<now, counter, prev, hist, log, recorded, passed>>
    BY <1>1, Zenon DEF Collect
  <2>7. Takes(Collector, b)
    BY <2>1, <2>3, <2>4, <2>5, <2>6, Zenon DEF Takes
  <2> QED BY <2>2, <2>7, Zenon DEF Reads
<1>2. CASE \E x \in Sessions : OpenSession(x)
  <2>0. PICK x \in Sessions : OpenSession(x)
    BY <1>2
  <2>1. PICK b \in {0, counter, cached} \ {None} :
            /\ Totals(b) \/ (b = cached /\ misread' = misread)
            /\ cached' = b
            /\ w' = [w EXCEPT ![x].pc = "stamp", ![x].total = b]
    BY <2>0 DEF OpenSession
  <2>2. x \in Writers /\ b \in 0..passed /\ b # None
    BY <1>0 DEF Writers, TypeOK
  <2>3. w' = [w EXCEPT ![x] = [w[x] EXCEPT !.pc = "stamp", !.total = b]]
    BY <2>1, <2>2 DEF TypeOK
  <2>4. misread' \/ b = counter \/ (b = cached /\ cached # None)
    BY <2>1, <2>2, Zenon DEF Totals
  <2>5. misread' \in BOOLEAN /\ (misread => misread')
    BY <1>0, <2>1, Zenon DEF Totals
  <2>6. /\ w[x].pc = "rest" /\ Begin
        /\ UNCHANGED <<now, counter, prev, hist, log, recorded, passed>>
    BY <2>0, Zenon DEF OpenSession
  <2>7. Takes(x, b)
    BY <2>1, <2>3, <2>4, <2>5, <2>6, Zenon DEF Takes
  <2> QED BY <2>2, <2>7, Zenon DEF Reads
<1> QED BY <1>1, <1>2

LEMMA ReadsType ==
    ASSUME TypeOK, Reads
    PROVE  TypeOK'
<1>1. PICK x \in Writers : \E b \in 0..passed : Takes(x, b)
  BY DEF Reads
<1>2. PICK b \in 0..passed : Takes(x, b)
  BY <1>1
<1> DEFINE r == [w[x] EXCEPT !.pc = "stamp", !.total = b]
<1>3. Locals' = Locals /\ now <= now' /\ passed <= passed' /\ now' \in Nat /\ passed' \in Nat
  BY <1>2 DEF Locals, Takes, TypeOK
<1>4. r \in Locals
  <2>1. w[x] \in Locals
    BY DEF TypeOK
  <2> QED BY <2>1 DEF Locals
<1>5. w' \in [Writers -> Locals']
  <2>1. w' = [w EXCEPT ![x] = r]
    BY <1>2 DEF Takes
  <2> HIDE DEF r
  <2> QED BY <1>3, <1>4, <2>1, OneWriter
<1>6. overlapped' \in BOOLEAN
  BY <1>2, Zenon DEF Takes, Begin
<1>7. misread' \in BOOLEAN
  BY <1>2, Zenon DEF Takes
<1>8. /\ cached' \in {None} \cup 0..passed'
      /\ UNCHANGED <<now, counter, prev, hist, log, recorded, passed>>
  BY <1>2 DEF Takes
<1> QED BY <1>5, <1>6, <1>7, <1>8 DEF TypeOK

LEMMA LocalsOf ==
    ASSUME TypeOK, NEW x \in Writers
    PROVE  /\ w[x] \in Locals
           /\ w[x].due \in Nat /\ w[x].at \in 0..now /\ w[x].at \in Nat
           /\ w[x].total \in 0..passed /\ w[x].bytes \in Nat /\ w[x].kept \in Seq(Point)
           /\ now \in Nat /\ passed \in Nat
<1>1. w[x] \in Locals /\ now \in Nat /\ passed \in Nat
  BY DEF TypeOK
<1> QED BY <1>1 DEF Locals

LEMMA SinceType ==
    ASSUME TypeOK, NEW x \in Writers
    PROVE  /\ Since(x) \in Nat
           /\ Since(x) = 0 \/ (Since(x) > 0 /\ Since(x) = w[x].total - prev.bytes)
<1>1. w[x].total \in Nat /\ prev.bytes \in Nat
  BY LocalsOf DEF TypeOK
<1> DEFINE d == w[x].total - prev.bytes
<1>2. d \in Int
  BY <1>1
<1>3. Max({0, d}) = IF 0 >= d THEN 0 ELSE d
  <2> HIDE DEF d
  <2> QED BY <1>2, MaxOfTwo
<1> QED BY <1>2, <1>3 DEF Since

LEMMA WriteType ==
    ASSUME TypeOK, NEW x \in Writers, Write(x)
    PROVE  TypeOK'
<1>0. /\ w[x] \in Locals
      /\ w[x].due \in Nat /\ w[x].at \in 0..now /\ w[x].at \in Nat
      /\ w[x].total \in 0..passed /\ w[x].bytes \in Nat /\ w[x].kept \in Seq(Point)
      /\ now \in Nat /\ passed \in Nat
  BY LocalsOf
<1>a. /\ hist \in Seq(Point) /\ log \in Seq(Point) /\ recorded \in Nat
      /\ prev \in [at : 0..now, bytes : 0..passed]
  BY DEF TypeOK
<1>b. ASSUME NEW r, r \in Locals, w' = [w EXCEPT ![x] = r],
             UNCHANGED <<now, counter, cached, passed, misread, overlapped>>,
             hist' \in Seq(Point), log' \in Seq(Point), recorded' \in Nat,
             prev' \in [at : 0..now, bytes : 0..passed]
      PROVE  TypeOK'
  <2>1. Locals' = Locals /\ now <= now' /\ passed <= passed' /\ now' \in Nat /\ passed' \in Nat
    BY <1>0, <1>b DEF Locals
  <2>2. w' \in [Writers -> Locals']
    BY <1>b, <2>1, OneWriter
  <2> QED BY <1>b, <2>2 DEF TypeOK
<1>1. CASE Stamp(x)
  <2> DEFINE r == [w[x] EXCEPT !.pc = "diff", !.at = now]
  <2>1. r \in Locals
    <3>1. now \in 0..now
      BY <1>0
    <3> QED BY <1>0, <3>1 DEF Locals
  <2>2. w' = [w EXCEPT ![x] = r]
    BY <1>1 DEF Stamp, TypeOK
  <2> HIDE DEF r
  <2> QED BY <1>a, <1>b, <1>1, <2>1, <2>2 DEF Stamp
<1>2. CASE Diff(x)
  <2> DEFINE r == [w[x] EXCEPT !.pc = "keep", !.bytes = Since(x)]
  <2>1. r \in Locals
    BY <1>0, SinceType DEF Locals
  <2>2. w' = [w EXCEPT ![x] = r]
    BY <1>2 DEF Diff, TypeOK
  <2> HIDE DEF r
  <2> QED BY <1>a, <1>b, <1>2, <2>1, <2>2 DEF Diff
<1>3. CASE Keep(x)
  <2> DEFINE r == [w[x] EXCEPT !.pc = "append"]
  <2>1. r \in Locals
    BY <1>0 DEF Locals
  <2>2. w' = [w EXCEPT ![x] = r]
    BY <1>3 DEF Keep, TypeOK
  <2>3. prev' \in [at : 0..now, bytes : 0..passed]
    BY <1>0, <1>3 DEF Keep
  <2> HIDE DEF r
  <2> QED BY <1>a, <1>b, <1>3, <2>1, <2>2, <2>3 DEF Keep
<1>4. CASE AppendPoint(x)
  <2> DEFINE r == [w[x] EXCEPT !.pc = "cap"]
             p == [at |-> w[x].at, bytes |-> w[x].bytes]
  <2>1. r \in Locals
    BY <1>0 DEF Locals
  <2>2. w' = [w EXCEPT ![x] = r]
    BY <1>4 DEF AppendPoint, TypeOK
  <2>3. p \in Point
    BY <1>0 DEF Point
  <2>4. hist' = Append(hist, p) /\ log' = Append(log, p)
    BY <1>4 DEF AppendPoint
  <2> HIDE DEF p
  <2>5. hist' \in Seq(Point) /\ log' \in Seq(Point)
    BY <1>a, <2>3, <2>4, AppendProperties
  <2>6. recorded' \in Nat
    <3>1. recorded' = recorded + w[x].bytes
      BY <1>4 DEF AppendPoint
    <3>2. recorded \in Nat /\ w[x].bytes \in Nat
      BY <1>0, <1>a
    <3> QED BY <3>1, <3>2
  <2> HIDE DEF r
  <2> QED BY <1>a, <1>b, <1>4, <2>1, <2>2, <2>5, <2>6 DEF AppendPoint
<1>5. CASE Cap(x)
  <2>0. UNCHANGED <<now, counter, cached, prev, hist, log, recorded, passed, misread, overlapped>>
    BY <1>5 DEF Cap
  <2>1. CASE Len(hist) > MaxHistory
    <3> DEFINE r == [w[x] EXCEPT !.pc = "capped", !.kept = Newest(hist)]
    <3>1. Newest(hist) \in Seq(Point)
      BY <1>a, SizesAssumption, LastPointsProperties DEF Newest
    <3>2. r \in Locals
      BY <1>0, <3>1 DEF Locals
    <3>3. w' = [w EXCEPT ![x] = r]
      BY <1>5, <2>1 DEF Cap, TypeOK
    <3> HIDE DEF r
    <3> QED BY <1>a, <1>b, <2>0, <3>2, <3>3
  <2>2. CASE ~(Len(hist) > MaxHistory)
    <3> DEFINE r == [w[x] EXCEPT !.pc = "trim"]
    <3>2. r \in Locals
      BY <1>0 DEF Locals
    <3>3. w' = [w EXCEPT ![x] = r]
      BY <1>5, <2>2 DEF Cap, TypeOK
    <3> HIDE DEF r
    <3> QED BY <1>a, <1>b, <2>0, <3>2, <3>3
  <2> QED BY <2>1, <2>2
<1>6. CASE Trim(x)
  <2> DEFINE r == [w[x] EXCEPT !.pc = "trimmed", !.kept = Trimmed(hist, w[x].at)]
  <2>1. Trimmed(hist, w[x].at) \in Seq(Point)
    <3>1. w[x].at \in Int
      BY <1>0
    <3> QED BY <1>a, <3>1, TrimmedProperties
  <2>2. r \in Locals
    BY <1>0, <2>1 DEF Locals
  <2>3. w' = [w EXCEPT ![x] = r]
    BY <1>6 DEF Trim, TypeOK
  <2> HIDE DEF r
  <2> QED BY <1>a, <1>b, <1>6, <2>2, <2>3 DEF Trim
<1>7. CASE Assign(x)
  <2>0. /\ UNCHANGED <<now, counter, cached, prev, log, recorded, passed, misread, overlapped>>
        /\ hist' \in Seq(Point)
    BY <1>0, <1>7 DEF Assign
  <2>1. CASE w[x].pc = "capped"
    <3> DEFINE r == [w[x] EXCEPT !.pc = "trim", !.kept = <<>>]
    <3>1. r \in Locals
      <4>1. <<>> \in Seq(Point)
        BY EmptySeq
      <4> QED BY <1>0, <4>1 DEF Locals
    <3>2. w' = [w EXCEPT ![x] = r]
      BY <1>7, <2>1 DEF Assign, TypeOK
    <3> HIDE DEF r
    <3> QED BY <1>a, <1>b, <2>0, <3>1, <3>2
  <2>2. CASE w[x].pc # "capped"
    <3> DEFINE r == IF x = Collector THEN Rested(now + Interval) ELSE [Rested(now) EXCEPT !.pc = "over"]
    <3>1. r \in Locals
      <4>1. now + Interval \in Nat
        BY <1>0, SizesAssumption
      <4> QED BY <1>0, <4>1, RestedType
    <3>2. w' = [w EXCEPT ![x] = r]
      BY <1>7, <2>2 DEF Assign
    <3> HIDE DEF r
    <3> QED BY <1>a, <1>b, <2>0, <3>1, <3>2
  <2> QED BY <2>1, <2>2
<1> QED BY <1>1, <1>2, <1>3, <1>4, <1>5, <1>6, <1>7 DEF Write

LEMMA OthersType ==
    ASSUME TypeOK, Tick \/ GostRestart \/ UNCHANGED vars
    PROVE  TypeOK'
<1>1. CASE Tick
  <2>1. PICK b \in Traffic : counter' = counter + b /\ passed' = passed + b
    BY <1>1 DEF Tick
  <2>2. b \in Nat /\ now < MaxTime /\ now' = now + 1
    BY <1>1, SizesAssumption DEF Tick
  <2>3. /\ now' \in 1..MaxTime /\ counter' \in 0..passed' /\ passed' \in Nat
        /\ 0..now \subseteq 0..now' /\ 0..passed \subseteq 0..passed'
    BY <2>1, <2>2, SizesAssumption DEF TypeOK
  <2>4. Locals \subseteq Locals'
    BY <2>3 DEF Locals
  <2>5. w' \in [Writers -> Locals']
    BY <1>1, <2>4 DEF TypeOK, Tick
  <2>6. UNCHANGED <<cached, prev, hist, log, recorded, misread, overlapped>>
    BY <1>1 DEF Tick
  <2>7. prev' \in [at : 0..now', bytes : 0..passed'] /\ cached' \in {None} \cup 0..passed'
    BY <2>3, <2>6 DEF TypeOK
  <2> QED BY <2>3, <2>5, <2>6, <2>7 DEF TypeOK
<1>2. CASE GostRestart
  <2>1. Locals' = Locals
    BY <1>2 DEF GostRestart, Locals
  <2> QED BY <1>2, <2>1 DEF GostRestart, TypeOK
<1>3. CASE UNCHANGED vars
  <2>1. Locals' = Locals
    BY <1>3 DEF vars, Locals
  <2> QED BY <1>3, <2>1 DEF vars, TypeOK
<1> QED BY <1>1, <1>2, <1>3

LEMMA NextType == TypeOK /\ [Next]_vars => TypeOK'
  BY ReadTakes, ReadsType, WriteType, OthersType DEF Next

(* The locals of writers, the histories and the counters are what their uses     *)
(* expect: the bytes of a point are never negative, no time lies ahead, and    *)
(* what is cut from a list is again a list of points, for any sizes.          *)
THEOREM TypeCorrect == Spec => []TypeOK
<1> QED BY InitType, NextType, PTL DEF Spec
-----------------------------------------------------------------------------
(* What a chart shows                                                       *)

LEMMA LastProperties ==
    ASSUME NEW s \in Seq(Point), s # <<>>
    PROVE  Last(s) = s[Len(s)] /\ Last(s) \in Point /\ Last(s).at \in Nat /\ Len(s) \in 1..Len(s)
<1>1. Len(s) \in 1..Len(s)
  <2>1. Len(s) \in Nat \ {0}
    BY EmptySeq
  <2> QED BY <2>1
<1>2. Last(s) = s[Len(s)]
  BY DEF Last
<1> QED BY <1>1, <1>2, PointAt

LEMMA ShownProperties ==
    ASSUME TypeOK
    PROVE  Shown \in Seq(Point) /\ Len(Shown) <= DisplayMax /\ (Ascending(hist) => Ascending(Shown))
<1>0. hist \in Seq(Point) /\ now \in Int /\ DisplayMax \in Nat
  BY SizesAssumption DEF TypeOK
<1>1. CASE hist = <<>>
  <2>1. Shown = <<>>
    BY <1>1 DEF Shown
  <2>2. Shown \in Seq(Point) /\ Len(Shown) = 0
    BY <2>1, EmptySeq
  <2>3. Ascending(Shown)
    BY <2>2 DEF Ascending
  <2> QED BY <1>0, <2>2, <2>3
<1>2. CASE hist # <<>>
  <2> DEFINE r == Trimmed(hist, now)
             s == Trimmed(r, Last(r).at)
             t == Last(s).at
  <2>1. r \in Seq(Point) /\ r # <<>> /\ (Ascending(hist) => Ascending(r))
    BY <1>0, <1>2, TrimmedProperties
  <2>2. Last(r).at \in Int
    <3> HIDE DEF r
    <3> QED BY <2>1, LastProperties
  <2>3. s \in Seq(Point) /\ s # <<>> /\ (Ascending(r) => Ascending(s))
    <3> HIDE DEF r
    <3> QED BY <2>1, <2>2, TrimmedProperties
  <2>4. t \in Int /\ Len(s) \in Nat
    <3> HIDE DEF s
    <3> QED BY <2>3, LastProperties, LenProperties
  <2>5. Shown = Decayed(s, t)
    BY <1>2 DEF Shown
  <2> HIDE DEF r, s, t
  <2>6. CASE Len(s) <= DisplayMax
    <3>1. Shown = s
      BY <2>5, <2>6 DEF Decayed
    <3> QED BY <2>1, <2>3, <2>6, <3>1
  <2>7. CASE ~(Len(s) <= DisplayMax)
    <3>1. Shown = InOrder(Parts(s, t))
      BY <2>5, <2>7 DEF Decayed
    <3> QED BY <2>3, <2>4, <3>1, InOrderProperties
  <2> QED BY <2>6, <2>7
<1> QED BY <1>1, <1>2

(* The quotas add up: no chart has more points than its maximum, whatever the    *)
(* segments and their weights, and whichever of them have points.             *)
THEOREM BoundedChart == Spec => []ShownBounded
<1>1. TypeOK => ShownBounded
  BY ShownProperties DEF ShownBounded
<1> QED BY <1>1, TypeCorrect, PTL
-----------------------------------------------------------------------------
(* The history is the end of the log                                        *)

LEMMA CoversAppend ==
    ASSUME NEW s \in Seq(Point), NEW l \in Seq(Point), NEW p \in Point,
           Exact(s, l), Ascending(l), \A i \in 1..Len(l) : l[i].at <= p.at
    PROVE  /\ Covers(Append(s, p), Append(l, p))
           /\ Ascending(Append(l, p))
           /\ Len(Append(l, p)) > 0 /\ Append(l, p)[Len(Append(l, p))] = p
<1> DEFINE S == Append(s, p)
           L == Append(l, p)
           m == Len(s)
           n == Len(l)
<1>1. /\ m \in Nat /\ n \in Nat /\ p.at \in Nat
      /\ \A i \in 1..n : l[i].at \in Nat
  BY LenProperties, PointAt DEF Point
<1>2. Len(S) = m + 1 /\ (\A i \in 1..m : S[i] = s[i]) /\ S[m + 1] = p
  BY AppendProperties
<1>3. Len(L) = n + 1 /\ (\A i \in 1..n : L[i] = l[i]) /\ L[n + 1] = p
  BY AppendProperties
<1>4. /\ m <= n
      /\ \A i \in 1..m : s[i] = l[n - m + i]
      /\ \A j \in 1..(n - m) : j <= n - MaxHistory \/ l[j].at < l[n].at - WindowSeconds
  BY DEF Exact, Covers
<1> HIDE DEF S, L, m, n
<1>5. ASSUME NEW i \in 1..(m + 1) PROVE S[i] = L[(n + 1) - (m + 1) + i]
  <2>1. CASE i = m + 1
    <3>1. (n + 1) - (m + 1) + i = n + 1
      BY <1>1, <2>1
    <3> QED BY <1>2, <1>3, <2>1, <3>1
  <2>2. CASE i # m + 1
    <3>1. i \in 1..m /\ (n + 1) - (m + 1) + i = n - m + i /\ n - m + i \in 1..n
      BY <1>1, <1>4, <2>2
    <3> QED BY <1>2, <1>3, <1>4, <3>1
  <2> QED BY <2>1, <2>2
<1>6. ASSUME NEW j \in 1..((n + 1) - (m + 1))
      PROVE  j <= (n + 1) - MaxHistory \/ L[j].at < L[n + 1].at - WindowSeconds
  <2>1. j \in 1..(n - m) /\ j \in 1..n /\ n \in 1..n
    BY <1>1, <1>4
  <2>2. j <= n - MaxHistory \/ l[j].at < l[n].at - WindowSeconds
    BY <1>4, <2>1
  <2>3. /\ l[n].at <= p.at /\ L[j].at = l[j].at /\ L[n + 1].at = p.at
        /\ l[j].at \in Nat /\ l[n].at \in Nat /\ j \in Nat
    BY <1>1, <1>3, <2>1 DEF n
  <2> QED BY <1>1, <2>2, <2>3, SizesAssumption
<1>7. Covers(S, L)
  <2>1. m + 1 <= n + 1
    BY <1>1, <1>4
  <2> QED BY <1>2, <1>3, <1>5, <1>6, <2>1 DEF Covers
<1>8. ASSUME NEW i \in 1..(n + 1), NEW j \in 1..(n + 1), i < j PROVE L[i].at <= L[j].at
  <2>1. i \in 1..n /\ L[i].at = l[i].at
    BY <1>1, <1>3, <1>8
  <2>2. CASE j = n + 1
    BY <1>3, <2>1, <2>2 DEF n
  <2>3. CASE j # n + 1
    <3>1. j \in 1..n /\ L[j].at = l[j].at
      BY <1>1, <1>3, <2>3
    <3> QED BY <1>8, <2>1, <3>1 DEF Ascending, n
  <2> QED BY <2>2, <2>3
<1>9. Ascending(L)
  BY <1>3, <1>8 DEF Ascending
<1>10. n + 1 > 0
  BY <1>1
<1> QED BY <1>3, <1>7, <1>9, <1>10 DEF S, L

LEMMA CoversCap ==
    ASSUME NEW s \in Seq(Point), NEW l \in Seq(Point), Covers(s, l), Len(s) > MaxHistory
    PROVE  Covers(Newest(s), l) /\ Len(Newest(s)) <= MaxHistory
<1> DEFINE r == Newest(s)
           m == Len(s)
           n == Len(l)
           M == MaxHistory
<1>1. m \in Nat /\ n \in Nat /\ M \in Nat \ {0} /\ m > M
  BY LenProperties, SizesAssumption
<1>2. r \in Seq(Point) /\ Len(r) = M /\ \A i \in 1..M : r[i] = s[m - M + i]
  <2>1. /\ r \in Seq(Point) /\ Len(r) = IF m <= M THEN m ELSE M
        /\ \A i \in 1..Len(r) : r[i] = s[m - Len(r) + i]
    BY <1>1, LastPointsProperties DEF Newest
  <2>2. Len(r) = M
    BY <1>1, <2>1
  <2> QED BY <2>1, <2>2
<1>3. m <= n /\ \A i \in 1..m : s[i] = l[n - m + i]
  BY DEF Covers
<1> HIDE DEF r, m, n
<1>4. ASSUME NEW i \in 1..M PROVE r[i] = l[n - M + i]
  <2>1. m - M + i \in 1..m /\ n - m + (m - M + i) = n - M + i
    BY <1>1
  <2> QED BY <1>2, <1>3, <2>1
<1>5. M <= n /\ \A j \in 1..(n - M) : j <= n - M
  BY <1>1, <1>3
<1> QED BY <1>2, <1>4, <1>5, <1>1 DEF Covers, n, r

LEMMA CoversLast ==
    ASSUME NEW s \in Seq(Point), NEW l \in Seq(Point), Covers(s, l), Len(l) > 0
    PROVE  Len(s) > 0 /\ s[Len(s)] = l[Len(l)]
<1>1. Len(s) \in Nat /\ Len(l) \in Nat /\ Len(l) \in 1..Len(l)
  BY LenProperties
<1>2. l[Len(l)].at \in Nat
  BY <1>1, PointAt
<1>3. Len(s) > 0
  <2> SUFFICES ASSUME Len(s) = 0 PROVE FALSE
    BY <1>1
  <2>1. Len(l) \in 1..(Len(l) - Len(s))
    BY <1>1
  <2>2. Len(l) <= Len(l) - MaxHistory \/ l[Len(l)].at < l[Len(l)].at - WindowSeconds
    BY <2>1 DEF Covers
  <2> QED BY <1>1, <1>2, <2>2, SizesAssumption
<1>4. Len(s) \in 1..Len(s) /\ Len(l) - Len(s) + Len(s) = Len(l)
  BY <1>1, <1>3
<1> QED BY <1>3, <1>4 DEF Covers

LEMMA CoversTrim ==
    ASSUME NEW s \in Seq(Point), NEW l \in Seq(Point), Covers(s, l), Len(l) > 0, Ascending(s),
           Len(s) <= MaxHistory
    PROVE  Exact(Trimmed(s, l[Len(l)].at), l)
<1> DEFINE m == Len(s)
           n == Len(l)
           t == l[n].at - WindowSeconds
           r == Trimmed(s, l[n].at)
<1>1. m \in Nat /\ n \in Nat /\ m > 0 /\ s[m] = l[n]
  BY LenProperties, CoversLast
<1>2. l[n].at \in Nat /\ t \in Int /\ l[n].at >= t
  <2>1. n \in 1..n
    BY <1>1
  <2>2. l[n].at \in Nat
    BY <2>1, PointAt
  <2> QED BY <2>2, SizesAssumption
<1>3. \A i \in 1..m : s[i] \in Point /\ s[i].at \in Nat
  BY PointAt
<1>4. /\ m <= n
      /\ \A i \in 1..m : s[i] = l[n - m + i]
      /\ \A j \in 1..(n - m) : j <= n - MaxHistory \/ l[j].at < t
  BY DEF Covers
<1>5. PICK k \in 1..(m + 1) : From(s, t) = k..m
  <2> HIDE DEF t
  <2> QED BY <1>2, FromIsEnd
<1>6. k \in 1..m
  <2>1. m \in From(s, t)
    BY <1>1, <1>2 DEF From
  <2> HIDE DEF t, m
  <2> QED BY <1>1, <1>5, <2>1
<1>7. PointsFrom(s, t) = SubSeq(s, k, m)
  <2> HIDE DEF t
  <2> QED BY <1>2, <1>5, PointsFromEnd
<1>8. /\ SubSeq(s, k, m) \in Seq(Point)
      /\ Len(SubSeq(s, k, m)) = m - k + 1
      /\ \A i \in 1..(m - k + 1) : SubSeq(s, k, m)[i] = s[k + i - 1]
  <2>1. k \in Int /\ m \in Int /\ (\A i \in k..m : s[i] \in Point) /\ k <= m
    BY <1>1, <1>3, <1>6
  <2> HIDE DEF m
  <2>2. /\ SubSeq(s, k, m) \in Seq(Point)
        /\ Len(SubSeq(s, k, m)) = IF k <= m THEN m - k + 1 ELSE 0
        /\ \A i \in 1..(m - k + 1) : SubSeq(s, k, m)[i] = s[k + i - 1]
    BY <2>1, SubSeqProperties
  <2> QED BY <2>1, <2>2
<1>9. r = SubSeq(s, k, m)
  <2>1. SubSeq(s, k, m) # <<>>
    <3>1. m - k + 1 # 0 /\ Len(<<>>) = 0
      BY <1>1, <1>6, EmptySeq
    <3> QED BY <1>8, <3>1
  <2> QED BY <1>7, <2>1 DEF Trimmed
<1> HIDE DEF r, m, n, t
<1>10. Len(r) = m - k + 1 /\ \A i \in 1..(m - k + 1) : r[i] = s[k + i - 1]
  BY <1>8, <1>9
<1> DEFINE h == m - k + 1
<1>11. h \in Nat /\ h <= n /\ h <= m
  BY <1>1, <1>4, <1>6
<1>12. ASSUME NEW i \in 1..h PROVE r[i] = l[n - h + i] /\ r[i].at >= t
  <2>1. k + i - 1 \in 1..m /\ k + i - 1 \in k..m /\ n - m + (k + i - 1) = n - h + i
    BY <1>1, <1>4, <1>6
  <2>2. r[i] = s[k + i - 1] /\ s[k + i - 1] = l[n - m + (k + i - 1)]
    BY <1>4, <1>10, <2>1
  <2>3. s[k + i - 1].at >= t
    BY <1>5, <2>1 DEF From
  <2> QED BY <2>1, <2>2, <2>3
<1>13. ASSUME NEW j \in 1..(n - h) PROVE j <= n - MaxHistory \/ l[j].at < t
  <2>1. CASE j <= n - m
    <3>1. j \in 1..(n - m)
      BY <1>1, <1>4, <2>1
    <3> QED BY <1>4, <3>1
  <2>2. CASE ~(j <= n - m)
    <3> DEFINE i == j - (n - m)
    <3>1. i \in 1..m /\ i \notin k..m /\ n - m + i = j
      BY <1>1, <1>4, <1>6, <2>2
    <3> HIDE DEF i
    <3>2. s[i] = l[j] /\ s[i].at \in Nat
      BY <1>3, <1>4, <3>1
    <3>3. i \notin From(s, t)
      BY <1>5, <3>1
    <3>4. ~(s[i].at >= t)
      BY <3>1, <3>3 DEF From, m
    <3> QED BY <1>2, <3>2, <3>4
  <2> QED BY <2>1, <2>2
<1>14. Covers(r, l)
  BY <1>10, <1>11, <1>12, <1>13 DEF Covers, n, t
<1>15. h <= MaxHistory
  BY <1>1, <1>11, SizesAssumption DEF m
<1>16. Exact(r, l)
  BY <1>10, <1>12, <1>14, <1>15 DEF Exact, n, t
<1> QED BY <1>16 DEF r, n

(* Exact says the same as the selection of HistoryKept. *)
LEMMA ExactIsKept ==
    ASSUME NEW s \in Seq(Point), NEW l \in Seq(Point), Exact(s, l), Len(l) > 0
    PROVE  s = PointsFrom(LastPoints(l, MaxHistory), l[Len(l)].at - WindowSeconds)
<1> DEFINE m == Len(s)
           n == Len(l)
           t == l[n].at - WindowSeconds
           q == LastPoints(l, MaxHistory)
           c == Len(q)
           d == c - m
<1>1. m \in Nat /\ n \in Nat /\ n > 0 /\ MaxHistory \in Nat \ {0}
  BY LenProperties, SizesAssumption
<1>2. t \in Int /\ \A j \in 1..n : l[j].at \in Nat
  <2>1. \A j \in 1..n : l[j].at \in Nat
    BY PointAt
  <2>2. n \in 1..n
    BY <1>1
  <2> QED BY <2>1, <2>2, SizesAssumption
<1>3. /\ m <= n /\ m <= MaxHistory
      /\ \A i \in 1..m : s[i] = l[n - m + i] /\ s[i].at >= t
      /\ \A j \in 1..(n - m) : j <= n - MaxHistory \/ l[j].at < t
  BY DEF Exact, Covers
<1>4. /\ q \in Seq(Point)
      /\ c = IF n <= MaxHistory THEN n ELSE MaxHistory
      /\ \A i \in 1..c : q[i] = l[n - c + i]
  BY <1>1, LastPointsProperties
<1> HIDE DEF m, n, t, q, c
<1>5. c \in Nat /\ c <= n /\ d \in Nat /\ (c = n \/ c = MaxHistory) /\ c <= MaxHistory
  BY <1>1, <1>3, <1>4
<1>6. ASSUME NEW i \in 1..c PROVE q[i].at >= t <=> i > d
  <2>1. CASE i > d
    <3>1. i - d \in 1..m /\ n - m + (i - d) = n - c + i
      BY <1>1, <1>5, <2>1
    <3>2. q[i] = s[i - d]
      BY <1>3, <1>4, <3>1
    <3> QED BY <1>3, <2>1, <3>1, <3>2
  <2>2. CASE ~(i > d)
    <3> DEFINE j == n - c + i
    <3>1. j \in 1..(n - m) /\ j \in 1..n /\ ~(j <= n - MaxHistory)
      BY <1>1, <1>3, <1>5, <2>2
    <3>2. q[i] = l[j]
      BY <1>4
    <3> HIDE DEF j
    <3>3. l[j].at < t /\ l[j].at \in Nat
      BY <1>2, <1>3, <3>1
    <3> QED BY <1>2, <2>2, <3>2, <3>3
  <2> QED BY <2>1, <2>2
<1>7. From(q, t) = (d + 1)..c
  <2>1. From(q, t) = {i \in 1..c : q[i].at >= t}
    BY DEF From, c
  <2> QED BY <1>5, <1>6, <2>1
<1>8. d + 1 \in 1..(c + 1) /\ d + 1 \in Int /\ c \in Int
  BY <1>1, <1>5
<1>9. PointsFrom(q, t) = SubSeq(q, d + 1, c)
  <2> HIDE DEF d
  <2> QED BY <1>2, <1>4, <1>7, <1>8, PointsFromEnd DEF c
<1>10. \A i \in (d + 1)..c : q[i] \in Point
  <2>1. \A i \in (d + 1)..c : i \in 1..c
    BY <1>5
  <2> QED BY <1>4, <2>1, ElementOfSeq DEF c
<1> DEFINE u == SubSeq(q, d + 1, c)
<1>11. /\ u \in Seq(Point)
       /\ Len(u) = IF d + 1 <= c THEN c - (d + 1) + 1 ELSE 0
       /\ \A i \in 1..(c - (d + 1) + 1) : u[i] = q[(d + 1) + i - 1]
  BY <1>8, <1>10, SubSeqProperties
<1> HIDE DEF u
<1>12. Len(u) = m
  BY <1>1, <1>5, <1>11
<1>13. ASSUME NEW i \in 1..m PROVE u[i] = s[i]
  <2>1. /\ i \in 1..(c - (d + 1) + 1) /\ (d + 1) + i - 1 \in 1..c
        /\ n - c + ((d + 1) + i - 1) = n - m + i
    BY <1>1, <1>5
  <2> QED BY <1>3, <1>4, <1>11, <2>1
<1>14. u = s
  BY <1>11, <1>12, <1>13, SeqEqual DEF m
<1> QED BY <1>9, <1>14 DEF u, q, t, n
-----------------------------------------------------------------------------
(* The steps keep the history exact                                         *)

LEMMA CoversAscending ==
    ASSUME NEW s \in Seq(Point), NEW l \in Seq(Point), Covers(s, l), Ascending(l)
    PROVE  Ascending(s)
<1>1. Len(s) \in Nat /\ Len(l) \in Nat /\ Len(s) <= Len(l)
  BY LenProperties DEF Covers
<1>2. ASSUME NEW i \in 1..Len(s), NEW j \in 1..Len(s), i < j PROVE s[i].at <= s[j].at
  <2>1. s[i] = l[Len(l) - Len(s) + i] /\ s[j] = l[Len(l) - Len(s) + j]
    BY DEF Covers
  <2>2. /\ Len(l) - Len(s) + i \in 1..Len(l) /\ Len(l) - Len(s) + j \in 1..Len(l)
        /\ Len(l) - Len(s) + i < Len(l) - Len(s) + j
    BY <1>1, <1>2
  <2> QED BY <2>1, <2>2 DEF Ascending
<1> QED BY <1>2 DEF Ascending

LEMMA TrueAtStart == Init => HistoryInv
<1> SUFFICES ASSUME Init PROVE HistoryInv
  OBVIOUS
<1>1. \A x \in Writers : w[x].pc = "rest"
  BY DEF Init, Rested
<1>2. hist = <<>> /\ log = <<>> /\ Len(<<>>) = 0 /\ <<>> \in Seq(Point)
  BY EmptySeq DEF Init
<1>3. Exact(hist, log) /\ LogInv
  BY <1>2, SizesAssumption DEF Exact, Covers, LogInv, Ascending
<1> QED BY <1>1, <1>3 DEF HistoryInv, Serial, WriterInv, Busy

(* While one writer is busy no other is, and what it does leaves them at rest. *)
LEMMA OnlyWriter ==
    ASSUME TypeOK, Serial, NEW x \in Writers, Busy(x), NEW r, w' = [w EXCEPT ![x] = r]
    PROVE  /\ w'[x] = r
           /\ \A y \in Writers \ {x} : w'[y].pc \in {"rest", "over"}
           /\ Serial'
           /\ Quiet' <=> r.pc \in {"rest", "over"}
<1>1. w'[x] = r
  BY DEF TypeOK
<1>2. \A y \in Writers \ {x} : w'[y] = w[y] /\ ~Busy(y)
  BY DEF TypeOK, Serial
<1>3. \A y \in Writers \ {x} : w'[y].pc \in {"rest", "over"}
  BY <1>2 DEF Busy
<1> QED BY <1>1, <1>3 DEF Serial, Quiet, Busy

LEMMA WriterStep ==
    ASSUME TypeOK, HistoryInv, ~overlapped, NEW x \in Writers, Busy(x),
           NEW r, w' = [w EXCEPT ![x] = r],
           LogInv', WriterInv(x)', r.pc \in {"rest", "over"} => Exact(hist, log)'
    PROVE  HistoryInv'
<1>1. Serial
  BY DEF HistoryInv
<1>2. /\ \A y \in Writers \ {x} : w'[y].pc \in {"rest", "over"}
      /\ Serial' /\ (Quiet' <=> r.pc \in {"rest", "over"})
  BY <1>1, OnlyWriter
<1>3. \A y \in Writers : WriterInv(y)'
  BY <1>2 DEF WriterInv
<1>4. Quiet' => Exact(hist, log)'
  BY <1>2
<1> QED BY <1>2, <1>3, <1>4 DEF HistoryInv

LEMMA ReadsHistory ==
    ASSUME TypeOK, HistoryInv, Reads
    PROVE  HistoryInv'
<1> SUFFICES ASSUME ~overlapped' PROVE HistoryInv'
  BY DEF HistoryInv
<1>1. PICK x \in Writers : \E b \in 0..passed : Takes(x, b)
  BY DEF Reads
<1>2. PICK b \in 0..passed : Takes(x, b)
  BY <1>1
<1>3. ~overlapped /\ Quiet
  BY <1>2, Zenon DEF Takes, Begin, Quiet
<1>4. Exact(hist, log) /\ LogInv
  BY <1>3 DEF HistoryInv
<1>5. UNCHANGED <<now, hist, log>>
  BY <1>2 DEF Takes
<1>6. Exact(hist, log)' /\ LogInv'
  BY <1>4, <1>5 DEF Exact, Covers, LogInv, Ascending
<1>7. w'[x].pc = "stamp" /\ \A y \in Writers \ {x} : w'[y] = w[y]
  <2>1. w' = [w EXCEPT ![x] = [w[x] EXCEPT !.pc = "stamp", !.total = b]]
    BY <1>2 DEF Takes
  <2>2. w[x] \in Locals
    BY DEF TypeOK
  <2>3. w'[x] = [w[x] EXCEPT !.pc = "stamp", !.total = b]
    BY <2>1 DEF TypeOK
  <2> QED BY <2>1, <2>2, <2>3 DEF TypeOK, Locals
<1>8. \A y \in Writers \ {x} : w'[y].pc \in {"rest", "over"}
  BY <1>3, <1>7 DEF Quiet, Busy
<1>9. Serial' /\ ~Quiet'
  BY <1>7, <1>8 DEF Serial, Quiet, Busy
<1>10. \A y \in Writers : WriterInv(y)'
  BY <1>6, <1>7, <1>8 DEF WriterInv
<1> QED BY <1>6, <1>9, <1>10 DEF HistoryInv

LEMMA WriteHistory ==
    ASSUME TypeOK, HistoryInv, NEW x \in Writers, Write(x)
    PROVE  HistoryInv'
<1>0. overlapped' = overlapped
  BY Zenon DEF Write, Stamp, Diff, Keep, AppendPoint, Cap, Trim, Assign
<1> SUFFICES ASSUME ~overlapped PROVE HistoryInv'
  BY <1>0, Zenon DEF HistoryInv
<1>a. /\ hist \in Seq(Point) /\ log \in Seq(Point)
      /\ w[x] \in Locals /\ w[x].at \in 0..now /\ w[x].at \in Nat /\ w[x].bytes \in Nat
      /\ w[x].kept \in Seq(Point) /\ now \in Nat
  BY LocalsOf DEF TypeOK
<1>b. LogInv /\ WriterInv(x)
  BY DEF HistoryInv
<1>c. Busy(x)
  BY DEF Write, Stamp, Diff, Keep, AppendPoint, Cap, Trim, Assign, Busy
<1>d. UNCHANGED <<now, log>> => LogInv'
  BY <1>b DEF LogInv, Ascending
<1>e. \A y \in Writers : WriterInv(y) <=>
        /\ w[y].pc \in {"stamp", "diff", "keep", "append"} => Exact(hist, log)
        /\ w[y].pc \in {"diff", "keep", "append"} => \A i \in 1..Len(log) : log[i].at <= w[y].at
        /\ w[y].pc \in {"cap", "capped", "trim", "trimmed"} =>
              Covers(hist, log) /\ Len(log) > 0 /\ log[Len(log)].at = w[y].at
        /\ w[y].pc = "capped" => Covers(w[y].kept, log) /\ Len(w[y].kept) <= MaxHistory
        /\ w[y].pc \in {"trim", "trimmed"} => Len(hist) <= MaxHistory
        /\ w[y].pc = "trimmed" => Exact(w[y].kept, log)
  BY DEF WriterInv
<1>1. CASE Stamp(x)
  <2> DEFINE r == [w[x] EXCEPT !.pc = "diff", !.at = now]
  <2>1. w' = [w EXCEPT ![x] = r] /\ w'[x] = r
    BY <1>1 DEF Stamp, TypeOK
  <2>2. r.pc = "diff" /\ r.at = now
    BY <1>a DEF Locals
  <2> HIDE DEF r
  <2>3. UNCHANGED <<now, hist, log>> /\ w[x].pc = "stamp"
    BY <1>1 DEF Stamp
  <2>4. WriterInv(x)'
    BY <1>b, <2>1, <2>2, <2>3 DEF WriterInv, LogInv, Exact, Covers
  <2> QED BY <1>c, <1>d, <2>1, <2>2, <2>3, <2>4, WriterStep
<1>2. CASE Diff(x)
  <2> DEFINE r == [w[x] EXCEPT !.pc = "keep", !.bytes = Since(x)]
  <2>1. w' = [w EXCEPT ![x] = r] /\ w'[x] = r
    BY <1>2 DEF Diff, TypeOK
  <2>2. r.pc = "keep" /\ r.at = w[x].at
    BY <1>a DEF Locals
  <2> HIDE DEF r
  <2>3. UNCHANGED <<now, hist, log>> /\ w[x].pc = "diff"
    BY <1>2 DEF Diff
  <2>4. WriterInv(x)'
    BY <1>b, <2>1, <2>2, <2>3 DEF WriterInv, Exact, Covers
  <2> QED BY <1>c, <1>d, <2>1, <2>2, <2>3, <2>4, WriterStep
<1>3. CASE Keep(x)
  <2> DEFINE r == [w[x] EXCEPT !.pc = "append"]
  <2>1. w' = [w EXCEPT ![x] = r] /\ w'[x] = r
    BY <1>3 DEF Keep, TypeOK
  <2>2. r.pc = "append" /\ r.at = w[x].at
    BY <1>a DEF Locals
  <2> HIDE DEF r
  <2>3. UNCHANGED <<now, hist, log>> /\ w[x].pc = "keep"
    BY <1>3 DEF Keep
  <2>4. WriterInv(x)'
    BY <1>b, <2>1, <2>2, <2>3 DEF WriterInv, Exact, Covers
  <2> QED BY <1>c, <1>d, <2>1, <2>2, <2>3, <2>4, WriterStep
<1>4. CASE AppendPoint(x)
  <2> DEFINE r == [w[x] EXCEPT !.pc = "cap"]
             p == [at |-> w[x].at, bytes |-> w[x].bytes]
  <2>1. w' = [w EXCEPT ![x] = r] /\ w'[x] = r
    BY <1>4 DEF AppendPoint, TypeOK
  <2>2. r.pc = "cap" /\ r.at = w[x].at
    BY <1>a DEF Locals
  <2>3. p \in Point /\ p.at = w[x].at
    BY <1>a DEF Point
  <2>4. hist' = Append(hist, p) /\ log' = Append(log, p) /\ now' = now /\ w[x].pc = "append"
    BY <1>4 DEF AppendPoint
  <2> HIDE DEF r, p
  <2>5. Exact(hist, log) /\ Ascending(log) /\ \A i \in 1..Len(log) : log[i].at <= p.at
    BY <1>b, <2>3, <2>4 DEF WriterInv, LogInv
  <2>6. /\ Covers(Append(hist, p), Append(log, p))
        /\ Ascending(Append(log, p))
        /\ Len(Append(log, p)) > 0 /\ Append(log, p)[Len(Append(log, p))] = p
    BY <1>a, <2>3, <2>5, CoversAppend
  <2>7. /\ Covers(hist, log)' /\ Ascending(log') /\ Len(log') > 0
        /\ log'[Len(log')].at = w[x].at
    BY <2>3, <2>4, <2>6 DEF Covers
  <2>8. \A i \in 1..Len(log') : log'[i].at <= now'
    <3>1. Len(log') = Len(log) + 1 /\ Len(log) \in Nat
      BY <1>a, <2>3, <2>4, AppendProperties, LenProperties
    <3>2. \A i \in 1..Len(log) : log'[i] = log[i]
      BY <1>a, <2>3, <2>4, AppendProperties
    <3>3. \A i \in 1..Len(log') : i \in 1..Len(log) \/ i = Len(log')
      BY <3>1
    <3> QED BY <1>a, <1>b, <2>4, <2>7, <3>2, <3>3 DEF LogInv
  <2>9. WriterInv(x)'
    BY <2>1, <2>2, <2>7 DEF WriterInv
  <2>10. LogInv'
    BY <2>7, <2>8 DEF LogInv, Ascending
  <2> QED BY <1>c, <2>1, <2>2, <2>9, <2>10, WriterStep
<1>5. CASE Cap(x)
  <2>0. UNCHANGED <<now, hist, log>> /\ w[x].pc = "cap"
    BY <1>5 DEF Cap
  <2>a. Covers(hist, log) /\ Covers(hist, log)' /\ Len(log) > 0 /\ log[Len(log)].at = w[x].at
    BY <1>b, <2>0 DEF WriterInv, Covers
  <2>1. CASE Len(hist) > MaxHistory
    <3> DEFINE r == [w[x] EXCEPT !.pc = "capped", !.kept = Newest(hist)]
    <3>1. w' = [w EXCEPT ![x] = r] /\ w'[x] = r
      BY <1>5, <2>1 DEF Cap, TypeOK
    <3>2. r.pc = "capped" /\ r.at = w[x].at /\ r.kept = Newest(hist)
      BY <1>a DEF Locals
    <3> HIDE DEF r
    <3>3. Covers(Newest(hist), log) /\ Len(Newest(hist)) <= MaxHistory
      BY <1>a, <2>a, <2>1, CoversCap
    <3>4. Covers(w[x].kept, log)' /\ Len(w'[x].kept) <= MaxHistory
      BY <2>0, <3>1, <3>2, <3>3 DEF Covers
    <3>5. WriterInv(x)'
      BY <2>0, <2>a, <3>1, <3>2, <3>4 DEF WriterInv
    <3> QED BY <1>c, <1>d, <2>0, <3>1, <3>2, <3>5, WriterStep
  <2>2. CASE ~(Len(hist) > MaxHistory)
    <3> DEFINE r == [w[x] EXCEPT !.pc = "trim"]
    <3>1. w' = [w EXCEPT ![x] = r] /\ w'[x] = r
      BY <1>5, <2>2 DEF Cap, TypeOK
    <3>2. r.pc = "trim" /\ r.at = w[x].at
      BY <1>a DEF Locals
    <3> HIDE DEF r
    <3>3. Len(hist') <= MaxHistory
      BY <1>a, <2>0, <2>2, LenProperties, SizesAssumption
    <3>4. WriterInv(x)'
      BY <2>0, <2>a, <3>1, <3>2, <3>3 DEF WriterInv
    <3> QED BY <1>c, <1>d, <2>0, <3>1, <3>2, <3>4, WriterStep
  <2> QED BY <2>1, <2>2
<1>6. CASE Trim(x)
  <2> DEFINE r == [w[x] EXCEPT !.pc = "trimmed", !.kept = Trimmed(hist, w[x].at)]
  <2>0. UNCHANGED <<now, hist, log>> /\ w[x].pc = "trim"
    BY <1>6 DEF Trim
  <2>a. /\ Covers(hist, log) /\ Covers(hist, log)' /\ Len(log) > 0
        /\ log[Len(log)].at = w[x].at /\ Len(hist) <= MaxHistory
    BY <1>b, <2>0 DEF WriterInv, Covers
  <2>1. w' = [w EXCEPT ![x] = r] /\ w'[x] = r
    BY <1>6 DEF Trim, TypeOK
  <2>2. r.pc = "trimmed" /\ r.at = w[x].at /\ r.kept = Trimmed(hist, w[x].at)
    BY <1>a DEF Locals
  <2> HIDE DEF r
  <2>3. Ascending(hist)
    BY <1>a, <1>b, <2>a, CoversAscending DEF LogInv
  <2>4. Exact(Trimmed(hist, w[x].at), log)
    <3>1. Exact(Trimmed(hist, log[Len(log)].at), log)
      BY <1>a, <2>a, <2>3, CoversTrim
    <3> QED BY <2>a, <3>1
  <2>5. Exact(w[x].kept, log)'
    BY <2>0, <2>1, <2>2, <2>4 DEF Exact, Covers
  <2>6. WriterInv(x)'
    BY <2>0, <2>a, <2>1, <2>2, <2>5 DEF WriterInv
  <2> QED BY <1>c, <1>d, <2>0, <2>1, <2>2, <2>6, WriterStep
<1>7. CASE Assign(x)
  <2>0. UNCHANGED <<now, log>> /\ hist' = w[x].kept
    BY <1>7 DEF Assign
  <2>1. CASE w[x].pc = "capped"
    <3> DEFINE r == [w[x] EXCEPT !.pc = "trim", !.kept = <<>>]
    <3>1. w' = [w EXCEPT ![x] = r] /\ w'[x] = r
      BY <1>7, <2>1 DEF Assign, TypeOK
    <3>2. r.pc = "trim" /\ r.at = w[x].at
      BY <1>a DEF Locals
    <3> HIDE DEF r
    <3>3. /\ Covers(hist, log)' /\ Len(hist') <= MaxHistory
          /\ Len(log') > 0 /\ log'[Len(log')].at = w[x].at
      BY <1>b, <2>0, <2>1 DEF WriterInv, Covers
    <3>4. WriterInv(x)'
      BY <3>1, <3>2, <3>3 DEF WriterInv
    <3> QED BY <1>c, <1>d, <2>0, <3>1, <3>2, <3>4, WriterStep
  <2>2. CASE w[x].pc = "trimmed"
    <3> DEFINE r == IF x = Collector THEN Rested(now + Interval)
                    ELSE [Rested(now) EXCEPT !.pc = "over"]
    <3>1. w' = [w EXCEPT ![x] = r] /\ w'[x] = r
      BY <1>7, <2>2 DEF Assign, TypeOK
    <3>2. r.pc \in {"rest", "over"}
      BY DEF Rested
    <3> HIDE DEF r
    <3>3. Exact(hist, log)'
      BY <1>b, <2>0, <2>2 DEF WriterInv, Exact, Covers
    <3>4. WriterInv(x)'
      BY <3>1, <3>2 DEF WriterInv
    <3> QED BY <1>c, <1>d, <2>0, <3>1, <3>2, <3>3, <3>4, WriterStep
  <2> QED BY <1>7, <2>1, <2>2 DEF Assign
<1> QED BY <1>1, <1>2, <1>3, <1>4, <1>5, <1>6, <1>7 DEF Write

LEMMA OthersHistory ==
    ASSUME TypeOK, HistoryInv, Tick \/ GostRestart \/ UNCHANGED vars
    PROVE  HistoryInv'
<1>1. UNCHANGED <<hist, w, log, overlapped>>
  BY DEF Tick, GostRestart, vars
<1>2. now <= now' /\ now \in Nat /\ now' \in Nat
  BY DEF Tick, GostRestart, vars, TypeOK
<1> SUFFICES ASSUME ~overlapped PROVE HistoryInv'
  BY <1>1 DEF HistoryInv
<1>3. LogInv'
  <2>1. LogInv /\ \A i \in 1..Len(log) : log[i].at \in Nat
    BY PointAt DEF HistoryInv, TypeOK
  <2> QED BY <1>1, <1>2, <2>1 DEF LogInv, Ascending
<1>4. Serial' /\ (Quiet' => Exact(hist, log)')
  BY <1>1 DEF HistoryInv, Serial, Quiet, Busy, Exact, Covers
<1>5. \A x \in Writers : WriterInv(x)'
  BY <1>1 DEF HistoryInv, WriterInv, Exact, Covers
<1> QED BY <1>3, <1>4, <1>5 DEF HistoryInv

LEMMA NextHistory == TypeOK /\ HistoryInv /\ [Next]_vars => HistoryInv'
  BY ReadTakes, ReadsHistory, WriteHistory, OthersHistory DEF Next

LEMMA HistoryInvariant == Spec => [](TypeOK /\ HistoryInv)
  BY InitType, TrueAtStart, NextType, NextHistory, PTL DEF Spec

(* Whoever recorded, the collector or sessions, the history is the window of     *)
(* what was recorded, up to its maximum, if no two recorded at the same time.  *)
THEOREM HistoryCorrect == Spec => []HistoryKept
<1>1. TypeOK /\ HistoryInv => HistoryKept
  <2> SUFFICES ASSUME TypeOK, HistoryInv, ~overlapped, log # <<>>, Quiet
               PROVE  hist = PointsFrom(LastPoints(log, MaxHistory), Last(log).at - WindowSeconds)
    BY DEF HistoryKept, Quiet
  <2>1. Exact(hist, log) /\ hist \in Seq(Point) /\ log \in Seq(Point)
    BY DEF HistoryInv, TypeOK
  <2>2. Last(log) = log[Len(log)] /\ Len(log) > 0
    BY <2>1, LastProperties
  <2> QED BY <2>1, <2>2, ExactIsKept
<1> QED BY <1>1, HistoryInvariant, PTL

(* Nor does a chart's axis of time ever go back, also while the history is cut. *)
THEOREM AscendingChart == Spec => []ShownAscending
<1>1. TypeOK /\ HistoryInv => ShownAscending
  <2> SUFFICES ASSUME TypeOK, HistoryInv, ~overlapped, NEW i \in 1..(Len(Shown) - 1)
               PROVE  Shown[i].at <= Shown[i + 1].at
    BY DEF ShownAscending
  <2>1. Covers(hist, log)
    <3>1. CASE Quiet
      BY <3>1 DEF HistoryInv, Exact
    <3>2. CASE ~Quiet
      <4>1. PICK x \in Writers : Busy(x)
        BY <3>2 DEF Quiet
      <4>2. WriterInv(x) /\ w[x] \in Locals
        BY DEF HistoryInv, TypeOK
      <4> QED BY <4>1, <4>2 DEF WriterInv, Busy, Locals, Exact
    <3> QED BY <3>1, <3>2
  <2>2. Ascending(hist)
    <3>1. hist \in Seq(Point) /\ log \in Seq(Point) /\ Ascending(log)
      BY DEF HistoryInv, LogInv, TypeOK
    <3> QED BY <2>1, <3>1, CoversAscending
  <2>3. Ascending(Shown) /\ Len(Shown) \in Nat
    BY <2>2, ShownProperties, LenProperties
  <2>4. i \in 1..Len(Shown) /\ i + 1 \in 1..Len(Shown) /\ i < i + 1
    BY <2>3
  <2> QED BY <2>3, <2>4 DEF Ascending
<1> QED BY <1>1, HistoryInvariant, PTL
-----------------------------------------------------------------------------
(* What the points account for                                              *)

LEMMA CountersType ==
    ASSUME TypeOK
    PROVE  /\ counter \in Nat /\ passed \in Nat /\ recorded \in Nat /\ prev.bytes \in Nat
           /\ counter <= passed
  BY DEF TypeOK

LEMMA BalancedAtStart == Init => AccountInv
<1> SUFFICES ASSUME Init PROVE AccountInv
  OBVIOUS
<1>1. \A x \in Writers : w[x].pc = "rest"
  BY DEF Init, Rested
<1>2. Balance
  BY DEF Init, Balance, Pos
<1> QED BY <1>1, <1>2 DEF AccountInv, Serial, Account, Busy

LEMMA AccountStep ==
    ASSUME TypeOK, AccountInv, ~overlapped, ~misread, NEW x \in Writers, Busy(x),
           NEW r, w' = [w EXCEPT ![x] = r],
           Account(x)', r.pc \in {"rest", "over"} => Balance'
    PROVE  AccountInv'
<1>1. Serial
  BY DEF AccountInv
<1>2. /\ \A y \in Writers \ {x} : w'[y].pc \in {"rest", "over"}
      /\ Serial' /\ (Quiet' <=> r.pc \in {"rest", "over"})
  BY <1>1, OnlyWriter
<1>3. \A y \in Writers : Account(y)'
  BY <1>2 DEF Account
<1>4. Quiet' => Balance'
  BY <1>2
<1> QED BY <1>2, <1>3, <1>4 DEF AccountInv

LEMMA ReadsAccount ==
    ASSUME TypeOK, AccountInv, Reads
    PROVE  AccountInv'
<1> SUFFICES ASSUME ~overlapped', ~misread' PROVE AccountInv'
  BY DEF AccountInv
<1>1. PICK x \in Writers : \E b \in 0..passed : Takes(x, b)
  BY DEF Reads
<1>2. PICK b \in 0..passed : Takes(x, b)
  BY <1>1
<1>3. ~overlapped /\ ~misread /\ Quiet
  BY <1>2, Zenon DEF Takes, Begin, Quiet
<1>4. Balance
  BY <1>3 DEF AccountInv
<1>5. UNCHANGED <<counter, prev, recorded, passed>> /\ cached' = b
  BY <1>2 DEF Takes
<1>6. b = counter \/ (b = cached /\ cached # None)
  BY <1>2, Zenon DEF Takes
<1>7. /\ w'[x].pc = "stamp" /\ w'[x].total = b
      /\ \A y \in Writers \ {x} : w'[y] = w[y]
  <2>1. w' = [w EXCEPT ![x] = [w[x] EXCEPT !.pc = "stamp", !.total = b]]
    BY <1>2 DEF Takes
  <2>2. w[x] \in Locals
    BY DEF TypeOK
  <2>3. w'[x] = [w[x] EXCEPT !.pc = "stamp", !.total = b]
    BY <2>1 DEF TypeOK
  <2> QED BY <2>1, <2>2, <2>3 DEF TypeOK, Locals
<1>8. \A y \in Writers \ {x} : w'[y].pc \in {"rest", "over"}
  BY <1>3, <1>7 DEF Quiet, Busy
<1>9. Serial' /\ ~Quiet'
  BY <1>7, <1>8 DEF Serial, Quiet, Busy
<1>10. recorded + Pos(b - prev.bytes) + Pos(counter - b) <= passed
  <2>1. recorded + Pos(counter - prev.bytes) <= passed /\ (b = counter \/ b = prev.bytes)
    BY <1>4, <1>6 DEF Balance
  <2> QED BY <2>1, CountersType DEF Pos
<1>11. Account(x)'
  BY <1>5, <1>7, <1>10 DEF Account
<1>12. \A y \in Writers : Account(y)'
  BY <1>8, <1>11 DEF Account
<1> QED BY <1>9, <1>12 DEF AccountInv

LEMMA WriteAccount ==
    ASSUME TypeOK, AccountInv, NEW x \in Writers, Write(x)
    PROVE  AccountInv'
<1>0. overlapped' = overlapped /\ misread' = misread
  BY Zenon DEF Write, Stamp, Diff, Keep, AppendPoint, Cap, Trim, Assign
<1> SUFFICES ASSUME ~overlapped, ~misread PROVE AccountInv'
  BY <1>0, Zenon DEF AccountInv
<1>a. /\ counter \in Nat /\ passed \in Nat /\ recorded \in Nat /\ prev.bytes \in Nat
      /\ w[x].total \in Nat /\ w[x].bytes \in Nat
  BY LocalsOf, CountersType
<1>b. w[x] \in Locals
  BY LocalsOf
<1>c. Busy(x)
  BY DEF Write, Stamp, Diff, Keep, AppendPoint, Cap, Trim, Assign, Busy
<1>d. Account(x)
  BY DEF AccountInv
<1>1. CASE Stamp(x)
  <2> DEFINE r == [w[x] EXCEPT !.pc = "diff", !.at = now]
  <2>1. w' = [w EXCEPT ![x] = r] /\ w'[x] = r
    BY <1>1 DEF Stamp, TypeOK
  <2>2. r.pc = "diff" /\ r.total = w[x].total
    BY <1>b DEF Locals
  <2> HIDE DEF r
  <2>3. UNCHANGED <<counter, cached, prev, recorded, passed>> /\ w[x].pc = "stamp"
    BY <1>1 DEF Stamp
  <2>4. Account(x)'
    BY <1>d, <2>1, <2>2, <2>3 DEF Account
  <2> QED BY <1>c, <2>1, <2>2, <2>4, AccountStep
<1>2. CASE Diff(x)
  <2> DEFINE r == [w[x] EXCEPT !.pc = "keep", !.bytes = Since(x)]
  <2>1. w' = [w EXCEPT ![x] = r] /\ w'[x] = r
    BY <1>2 DEF Diff, TypeOK
  <2>2. r.pc = "keep" /\ r.total = w[x].total /\ r.bytes = Since(x)
    BY <1>b DEF Locals
  <2> HIDE DEF r
  <2>3. UNCHANGED <<counter, cached, prev, recorded, passed>> /\ w[x].pc = "diff"
    BY <1>2 DEF Diff
  <2>4. /\ recorded + Pos(w[x].total - prev.bytes) + Pos(counter - w[x].total) <= passed
        /\ cached = w[x].total
    BY <1>d, <2>3 DEF Account
  <2>5. recorded + Since(x) + Pos(counter - w[x].total) <= passed
    <3>1. Since(x) \in Nat /\ (Since(x) = 0 \/ (Since(x) > 0 /\ Since(x) = w[x].total - prev.bytes))
      BY SinceType
    <3>2. Since(x) <= Pos(w[x].total - prev.bytes)
      BY <1>a, <3>1 DEF Pos
    <3>3. Pos(w[x].total - prev.bytes) \in Nat /\ Pos(counter - w[x].total) \in Nat
      BY <1>a DEF Pos
    <3> QED BY <1>a, <2>4, <3>1, <3>2, <3>3
  <2>6. Account(x)'
    BY <2>1, <2>2, <2>3, <2>4, <2>5 DEF Account
  <2> QED BY <1>c, <2>1, <2>2, <2>6, AccountStep
<1>3. CASE Keep(x)
  <2> DEFINE r == [w[x] EXCEPT !.pc = "append"]
  <2>1. w' = [w EXCEPT ![x] = r] /\ w'[x] = r
    BY <1>3 DEF Keep, TypeOK
  <2>2. r.pc = "append" /\ r.bytes = w[x].bytes
    BY <1>b DEF Locals
  <2> HIDE DEF r
  <2>3. UNCHANGED <<counter, cached, recorded, passed>> /\ w[x].pc = "keep"
    BY <1>3 DEF Keep
  <2>4. prev'.bytes = w[x].total
    BY <1>3 DEF Keep
  <2>5. Account(x)'
    BY <1>d, <2>1, <2>2, <2>3, <2>4 DEF Account
  <2> QED BY <1>c, <2>1, <2>2, <2>5, AccountStep
<1>4. CASE AppendPoint(x)
  <2> DEFINE r == [w[x] EXCEPT !.pc = "cap"]
  <2>1. w' = [w EXCEPT ![x] = r] /\ w'[x] = r
    BY <1>4 DEF AppendPoint, TypeOK
  <2>2. r.pc = "cap"
    BY <1>b DEF Locals
  <2> HIDE DEF r
  <2>3. /\ UNCHANGED <<counter, cached, prev, passed>> /\ w[x].pc = "append"
        /\ recorded' = recorded + w[x].bytes
    BY <1>4 DEF AppendPoint
  <2>4. Account(x)'
    BY <1>d, <2>1, <2>2, <2>3 DEF Account
  <2> QED BY <1>c, <2>1, <2>2, <2>4, AccountStep
<1>5. CASE Cap(x) \/ Trim(x) \/ Assign(x)
  <2>1. /\ UNCHANGED <<counter, cached, prev, recorded, passed>>
        /\ w[x].pc \in {"cap", "capped", "trim", "trimmed"}
    BY <1>5 DEF Cap, Trim, Assign
  <2>2. recorded + Pos(counter - prev.bytes) <= passed /\ cached = prev.bytes
    BY <1>d, <2>1 DEF Account
  <2>3. Balance'
    BY <2>1, <2>2 DEF Balance
  <2>4. PICK r : /\ w' = [w EXCEPT ![x] = r] /\ w'[x] = r
                 /\ r.pc \in {"capped", "trim", "trimmed", "rest", "over"}
    <3>1. CASE Cap(x)
      <4> DEFINE r == IF Len(hist) > MaxHistory
                      THEN [w[x] EXCEPT !.pc = "capped", !.kept = Newest(hist)]
                      ELSE [w[x] EXCEPT !.pc = "trim"]
      <4>1. w' = [w EXCEPT ![x] = r] /\ w'[x] = r
        BY <3>1 DEF Cap, TypeOK
      <4>2. r.pc \in {"capped", "trim"}
        BY <1>b DEF Locals
      <4> HIDE DEF r
      <4> QED BY <4>1, <4>2
    <3>2. CASE Trim(x)
      <4> DEFINE r == [w[x] EXCEPT !.pc = "trimmed", !.kept = Trimmed(hist, w[x].at)]
      <4>1. w' = [w EXCEPT ![x] = r] /\ w'[x] = r
        BY <3>2 DEF Trim, TypeOK
      <4>2. r.pc = "trimmed"
        BY <1>b DEF Locals
      <4> HIDE DEF r
      <4> QED BY <4>1, <4>2
    <3>3. CASE Assign(x)
      <4> DEFINE r == IF w[x].pc = "capped" THEN [w[x] EXCEPT !.pc = "trim", !.kept = <<>>]
                      ELSE IF x = Collector THEN Rested(now + Interval)
                      ELSE [Rested(now) EXCEPT !.pc = "over"]
      <4>1. w' = [w EXCEPT ![x] = r] /\ w'[x] = r
        BY <3>3 DEF Assign, TypeOK
      <4>2. r.pc \in {"trim", "rest", "over"}
        BY <1>b DEF Locals, Rested
      <4> HIDE DEF r
      <4> QED BY <4>1, <4>2
    <3> QED BY <1>5, <3>1, <3>2, <3>3
  <2>5. Account(x)'
    BY <2>1, <2>2, <2>4 DEF Account
  <2> QED BY <1>c, <2>3, <2>4, <2>5, AccountStep
<1> QED BY <1>1, <1>2, <1>3, <1>4, <1>5 DEF Write

LEMMA OthersAccount ==
    ASSUME TypeOK, AccountInv, Tick \/ GostRestart \/ UNCHANGED vars
    PROVE  AccountInv'
<1>1. UNCHANGED <<w, cached, prev, recorded, overlapped, misread>>
  BY DEF Tick, GostRestart, vars
<1> SUFFICES ASSUME ~overlapped, ~misread PROVE AccountInv'
  BY <1>1 DEF AccountInv
<1>2. ASSUME NEW n \in Nat, NEW a \in Nat, a + Pos(counter - n) <= passed
      PROVE  a + Pos(counter' - n) <= passed'
  <2>0. counter \in Nat /\ passed \in Nat
    BY CountersType
  <2>1. CASE Tick
    <3>1. PICK b \in Nat : counter' = counter + b /\ passed' = passed + b
      BY <2>1, SizesAssumption DEF Tick
    <3> QED BY <1>2, <2>0, <3>1 DEF Pos
  <2>2. CASE GostRestart
    <3>1. counter' = 0 /\ passed' = passed
      BY <2>2 DEF GostRestart
    <3> QED BY <1>2, <2>0, <3>1 DEF Pos
  <2>3. CASE UNCHANGED vars
    <3>1. counter' = counter /\ passed' = passed
      BY <2>3 DEF vars
    <3> QED BY <1>2, <3>1
  <2> QED BY <2>1, <2>2, <2>3
<1>3. Serial' /\ (Quiet' <=> Quiet)
  BY <1>1 DEF AccountInv, Serial, Quiet, Busy
<1>4. recorded \in Nat /\ prev.bytes \in Nat
  BY CountersType
<1>5. Quiet => Balance'
  <2> SUFFICES ASSUME Quiet PROVE Balance'
    OBVIOUS
  <2>1. Balance
    BY DEF AccountInv
  <2>2. recorded + Pos(counter' - prev.bytes) <= passed'
    BY <1>2, <1>4, <2>1 DEF Balance
  <2> QED BY <1>1, <2>1, <2>2 DEF Balance
<1>6. ASSUME NEW x \in Writers PROVE Account(x)'
  <2>1. Account(x) /\ w[x].total \in Nat /\ w[x].bytes \in Nat
    BY LocalsOf DEF AccountInv
  <2>2. w[x].pc \in {"stamp", "diff"} =>
          recorded + Pos(w[x].total - prev.bytes) + Pos(counter' - w[x].total) <= passed'
    <3> DEFINE a == recorded + Pos(w[x].total - prev.bytes)
    <3>1. a \in Nat
      BY <1>4, <2>1 DEF Pos
    <3>2. w[x].pc \in {"stamp", "diff"} => a + Pos(counter - w[x].total) <= passed
      BY <2>1 DEF Account
    <3> HIDE DEF a
    <3>3. w[x].pc \in {"stamp", "diff"} => a + Pos(counter' - w[x].total) <= passed'
      BY <1>2, <2>1, <3>1, <3>2
    <3> QED BY <3>3 DEF a
  <2>3. w[x].pc = "keep" => recorded + w[x].bytes + Pos(counter' - w[x].total) <= passed'
    <3>1. recorded + w[x].bytes \in Nat
      BY <1>4, <2>1
    <3> QED BY <1>2, <2>1, <3>1 DEF Account
  <2>4. w[x].pc = "append" => recorded + w[x].bytes + Pos(counter' - prev.bytes) <= passed'
    <3>1. recorded + w[x].bytes \in Nat
      BY <1>4, <2>1
    <3> QED BY <1>2, <1>4, <2>1, <3>1 DEF Account
  <2>5. w[x].pc \in {"cap", "capped", "trim", "trimmed"} =>
          recorded + Pos(counter' - prev.bytes) <= passed'
    BY <1>2, <1>4, <2>1 DEF Account
  <2> QED BY <1>1, <2>1, <2>2, <2>3, <2>4, <2>5 DEF Account
<1> QED BY <1>3, <1>5, <1>6 DEF AccountInv

LEMMA NextAccount == TypeOK /\ AccountInv /\ [Next]_vars => AccountInv'
  BY ReadTakes, ReadsAccount, WriteAccount, OthersAccount DEF Next

(* The inductive invariant: what the history and the counters are at every step   *)
(* of _record_data_points, while no two writers record at the same time.       *)
THEOREM Inductive == Spec => []IInv
<1>1. Init => TypeOK /\ IInv
  BY InitType, TrueAtStart, BalancedAtStart DEF IInv
<1>2. TypeOK /\ IInv /\ [Next]_vars => TypeOK' /\ IInv'
  BY NextType, NextHistory, NextAccount DEF IInv
<1> QED BY <1>1, <1>2, PTL DEF Spec

(* No byte is counted twice, whichever of the collector and the sessions records *)
(* it and however often GOST's counters start anew, as long as no two record at *)
(* the same time and the metrics can be read.                                  *)
THEOREM TrafficConserved == Spec => []Conserved
<1>1. TypeOK /\ AccountInv => Conserved
  <2> SUFFICES ASSUME TypeOK, AccountInv, ~overlapped, ~misread PROVE recorded <= passed
    BY DEF Conserved
  <2>0. counter \in Nat /\ passed \in Nat /\ recorded \in Nat /\ prev.bytes \in Nat
    BY CountersType
  <2>1. CASE Quiet
    BY <2>0, <2>1 DEF AccountInv, Balance, Pos
  <2>2. CASE ~Quiet
    <3>1. PICK x \in Writers : Busy(x)
      BY <2>2 DEF Quiet
    <3>2. Account(x) /\ w[x] \in Locals /\ w[x].total \in Nat /\ w[x].bytes \in Nat
      BY LocalsOf DEF AccountInv
    <3>3. CASE w[x].pc \in {"stamp", "diff"}
      BY <2>0, <3>2, <3>3 DEF Account, Pos
    <3>4. CASE w[x].pc \in {"keep", "append"}
      BY <2>0, <3>2, <3>4 DEF Account, Pos
    <3>5. CASE w[x].pc \in {"cap", "capped", "trim", "trimmed"}
      BY <2>0, <3>2, <3>5 DEF Account, Pos
    <3> QED BY <3>1, <3>2, <3>3, <3>4, <3>5 DEF Locals, Busy
  <2> QED BY <2>1, <2>2
<1>2. IInv => AccountInv
  BY DEF IInv
<1> QED BY <1>1, <1>2, TypeCorrect, Inductive, PTL
=============================================================================

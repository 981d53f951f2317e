----------------------------- MODULE EngineProofs -----------------------------
(***************************************************************************)
(* Theorems about Engine, for any requests, zones, hours and weights.      *)
(***************************************************************************)
EXTENDS Engine, FiniteSetTheorems, SequenceTheorems, NaturalsInduction, WellFoundedInduction, TLAPS

-----------------------------------------------------------------------------
(* Induction: a set of numbers that has the first and every next has all.  *)

Below == {w \in Nat \X Nat : w[1] < w[2]}

\* No number has infinitely many below it.
LEMMA BelowIsWellFounded == IsWellFoundedOn(Below, Nat)
<1>1. OpToRel(<, Nat) = Below
  BY Zenon DEF OpToRel, Below
<1> QED
  BY <1>1, NatLessThanWellFounded, Zenon

\* A set of numbers has a least.
LEMMA Least ==
  ASSUME NEW S \in SUBSET Nat, S # {}
  PROVE  \E n \in S : \A m \in S : n <= m
<1>1. PICK n \in S : \A y \in S : ~(<<y, n>> \in Below)
  BY BelowIsWellFounded, WFMin
<1>2. ASSUME NEW m \in S PROVE n <= m
  <2>1. ~(m < n)
    BY <1>1 DEF Below
  <2> QED
    BY <2>1
<1> QED
  BY <1>2

\* Induction, for what can be said of a number by a set.
LEMMA Induction ==
  ASSUME NEW S, 0 \in S, \A n \in Nat : n \in S => n + 1 \in S
  PROVE  \A n \in Nat : n \in S
<1>1. SUFFICES ASSUME NEW k \in Nat, k \notin S PROVE FALSE
  OBVIOUS
<1>2. PICK n \in Nat \ S : \A m \in Nat \ S : n <= m
  BY <1>1, Least
<1>3. n # 0 /\ n - 1 \in Nat
  BY <1>2
<1> QED
  BY <1>2, <1>3

-----------------------------------------------------------------------------
(* Folds: FoldLeft takes the last element of a prefix first, recursively.  *)

\* The recursion of a fold, over the sets of positions.
Folds(h, n, base, step) ==
  h = [s \in SUBSET (1..n) |-> IF s = {} THEN base ELSE step[<<h[s \ {Max(s)}], Max(s)>>]]

\* The last position of a set.
LEMMA MaxOf ==
  ASSUME NEW n \in Nat, NEW s \in SUBSET (1..n), s # {}
  PROVE  Max(s) \in s /\ \A i \in s : i <= Max(s)
<1> DEFINE T == {n - i : i \in s}
<1>1. T \in SUBSET Nat /\ T # {}
  <2>1. \A i \in s : i \in 1..n /\ n - i \in Nat
    OBVIOUS
  <2> QED
    BY <2>1
<1>2. PICK d \in T : \A e \in T : d <= e
  BY <1>1, Least
<1>3. PICK x \in s : d = n - x
  OBVIOUS
<1>4. \A y \in s : x >= y
  <2> TAKE y \in s
  <2>1. n - x <= n - y
    BY <1>2, <1>3
  <2> QED
    BY <2>1
<1> QED
  BY <1>4 DEF Max

\* There is such a recursion, whatever the step.
LEMMA FoldExists ==
  ASSUME NEW T, NEW n \in Nat, NEW base \in T, NEW step \in [T \X (1..n) -> T]
  PROVE  \E h \in [SUBSET (1..n) -> T] : Folds(h, n, base, step)
<1> DEFINE S == {m \in Nat : m <= n => \E h \in [SUBSET (1..m) -> T] : Folds(h, m, base, step)}
<1>1. 0 \in S
  <2> DEFINE h == [s \in SUBSET (1..0) |-> base]
  <2>1. \A s \in SUBSET (1..0) : s = {}
    OBVIOUS
  <2>2. h = [s \in SUBSET (1..0) |-> IF s = {} THEN base ELSE step[<<h[s \ {Max(s)}], Max(s)>>]]
    BY <2>1
  <2>3. h \in [SUBSET (1..0) -> T]
    BY <2>1
  <2> HIDE DEF h
  <2> QED
    BY <2>2, <2>3 DEF Folds
<1>2. ASSUME NEW m \in Nat, m \in S PROVE m + 1 \in S
  <2>1. ASSUME m + 1 <= n PROVE \E h \in [SUBSET (1..(m + 1)) -> T] : Folds(h, m + 1, base, step)
    <3>1. PICK f \in [SUBSET (1..m) -> T] : Folds(f, m, base, step)
      <4>1. m <= n
        BY <2>1
      <4> QED
        BY <1>2, <4>1
    <3> DEFINE h == [s \in SUBSET (1..(m + 1)) |->
                       IF m + 1 \in s THEN step[<<f[s \ {m + 1}], m + 1>>] ELSE f[s]]
    <3>2. \A s \in SUBSET (1..(m + 1)) : s \ {m + 1} \in SUBSET (1..m) /\ (m + 1 \notin s => s \in SUBSET (1..m))
      OBVIOUS
    <3>3. ASSUME NEW s \in SUBSET (1..(m + 1)) PROVE h[s] \in T
      <4>1. CASE m + 1 \in s
        <5>1. f[s \ {m + 1}] \in T /\ m + 1 \in 1..n
          BY <2>1, <3>2
        <5> QED
          BY <4>1, <5>1
      <4>2. CASE m + 1 \notin s
        BY <3>2, <4>2
      <4> QED
        BY <4>1, <4>2
    <3>4. h \in [SUBSET (1..(m + 1)) -> T]
      BY <3>3
    <3>5. ASSUME NEW s \in SUBSET (1..(m + 1))
          PROVE  h[s] = IF s = {} THEN base ELSE step[<<h[s \ {Max(s)}], Max(s)>>]
      <4>1. CASE m + 1 \in s
        <5>1. Max(s) = m + 1
          <6>1. Max(s) \in s /\ \A i \in s : i <= Max(s)
            <7>1. m + 1 \in Nat /\ s # {}
              BY <4>1
            <7> QED
              BY <7>1, MaxOf
          <6>2. Max(s) \in 1..(m + 1) /\ m + 1 <= Max(s)
            BY <4>1, <6>1
          <6> QED
            BY <6>2
        <5>2. h[s \ {m + 1}] = f[s \ {m + 1}]
          BY <3>2
        <5> QED
          BY <4>1, <5>1, <5>2
      <4>2. CASE m + 1 \notin s
        <5>1. s \in SUBSET (1..m) /\ h[s] = f[s]
          BY <3>2, <4>2
        <5>2. f[s] = IF s = {} THEN base ELSE step[<<f[s \ {Max(s)}], Max(s)>>]
          BY <3>1, <5>1 DEF Folds
        <5>3. h[s \ {Max(s)}] = f[s \ {Max(s)}]
          <6>1. s \ {Max(s)} \in SUBSET (1..m)
            BY <5>1
          <6>2. s \ {Max(s)} \in SUBSET (1..(m + 1)) /\ m + 1 \notin s \ {Max(s)}
            BY <4>2
          <6> QED
            BY <6>1, <6>2
        <5> QED
          BY <5>1, <5>2, <5>3
      <4> QED
        BY <4>1, <4>2
    <3>6. Folds(h, m + 1, base, step)
      <4> HIDE DEF h
      <4>1. h = [s \in SUBSET (1..(m + 1)) |-> h[s]]
        BY <3>4
      <4> QED
        BY <3>5, <4>1 DEF Folds
    <3> QED
      BY <3>4, <3>6
  <2>2. m + 1 \in Nat
    OBVIOUS
  <2> QED
    BY <2>1, <2>2, Zenon
<1> HIDE DEF S
<1>3. n \in S
  BY <1>1, <1>2, Induction
<1>4. n \in Nat /\ n <= n
  OBVIOUS
<1> QED
  BY <1>3, <1>4 DEF S

\* Up to a bound.
LEMMA UpTo ==
  ASSUME NEW n \in Nat, NEW S, 0 \in S, \A k \in 1..n : k - 1 \in S => k \in S
  PROVE  \A k \in 0..n : k \in S
<1> DEFINE U == {k \in Nat : k <= n => k \in S}
<1>1. 0 \in U
  OBVIOUS
<1>2. ASSUME NEW k \in Nat, k \in U PROVE k + 1 \in U
  <2>1. k + 1 <= n => k + 1 \in 1..n /\ (k + 1) - 1 = k /\ k <= n
    OBVIOUS
  <2> QED
    BY <1>2, <2>1
<1> HIDE DEF U
<1>3. \A k \in Nat : k \in U
  BY <1>1, <1>2, Induction
<1> QED
  BY <1>3 DEF U

\* The last of the first k positions, and those before it.
LEMMA Prefix ==
  ASSUME NEW n \in Nat, NEW k \in 1..n
  PROVE  1..k \in SUBSET (1..n) /\ 1..k # {} /\ Max(1..k) = k /\ (1..k) \ {k} = 1..(k - 1)
<1>1. 1..k \in SUBSET (1..n) /\ k \in 1..k
  OBVIOUS
<1>2. Max(1..k) \in 1..k /\ \A i \in 1..k : i <= Max(1..k)
  BY <1>1, MaxOf
<1>3. Max(1..k) = k
  BY <1>1, <1>2
<1> QED
  BY <1>1, <1>3

-----------------------------------------------------------------------------
(* Merging: the sorted intervals are absorbed one by one.                  *)

\* Whatever is absorbed, what is merged is intervals.
LEMMA AbsorbTyped ==
  ASSUME NEW m \in Seq(Intervals), NEW cur \in Intervals
  PROVE  Absorb(m, cur) \in Seq(Intervals)
<1>1. CASE m # <<>> /\ cur.start <= Last(m).end
  <2>1. Len(m) \in 1..Len(m) /\ m[Len(m)] \in Intervals
    BY <1>1
  <2>2. Interval(m[Len(m)].start, Greater(m[Len(m)].end, cur.end)) \in Intervals
    BY <2>1 DEF Intervals, Interval, Greater
  <2> QED
    BY <1>1, <2>1, <2>2 DEF Absorb
<1>2. CASE ~(m # <<>> /\ cur.start <= Last(m).end)
  BY <1>2 DEF Absorb
<1> QED
  BY <1>1, <1>2

\* Merging goes through the sorted intervals one by one.
LEMMA MergeRuns ==
  ASSUME NEW s \in Seq(Intervals)
  PROVE  \E g \in [0..Len(s) -> Seq(Intervals)] :
           /\ g[0] = <<>> /\ g[Len(s)] = FoldLeft(Absorb, <<>>, s)
           /\ \A k \in 1..Len(s) : g[k] = Absorb(g[k - 1], s[k])
<1> DEFINE n == Len(s)
           T == Seq(Intervals)
           step == [x \in T \X (1..n) |-> Absorb(x[1], s[x[2]])]
<1>1. n \in Nat /\ DOMAIN s = 1..n /\ <<>> \in T
  OBVIOUS
<1>2. ASSUME NEW m \in T, NEW i \in 1..n PROVE Absorb(m, s[i]) \in T
  BY AbsorbTyped
<1>3. step \in [T \X (1..n) -> T]
  BY <1>2
<1> HIDE DEF step
<1>4. PICK h \in [SUBSET (1..n) -> T] : Folds(h, n, <<>>, step)
  BY <1>1, <1>3, FoldExists
<1>5. h = [r \in SUBSET (1..n) |-> IF r = {} THEN <<>> ELSE Absorb(h[r \ {Max(r)}], s[Max(r)])]
  <2>1. ASSUME NEW r \in SUBSET (1..n), r # {} PROVE step[<<h[r \ {Max(r)}], Max(r)>>] = Absorb(h[r \ {Max(r)}], s[Max(r)])
    <3>1. h[r \ {Max(r)}] \in T /\ Max(r) \in 1..n
      BY <1>1, <2>1, MaxOf
    <3> QED
      BY <3>1 DEF step
  <2> QED
    BY <1>4, <2>1 DEF Folds
<1> DEFINE f == CHOOSE f : f = [r \in SUBSET (1..n) |-> IF r = {} THEN <<>> ELSE Absorb(f[r \ {Max(r)}], s[Max(r)])]
<1>6. f = [r \in SUBSET (1..n) |-> IF r = {} THEN <<>> ELSE Absorb(f[r \ {Max(r)}], s[Max(r)])]
  BY <1>5
<1>7. FoldLeft(Absorb, <<>>, s) = f[1..n]
  BY <1>1 DEF FoldLeft, MapThenFoldSet
<1> DEFINE g == [k \in 0..n |-> f[1..k]]
<1> HIDE DEF f
<1>8. g[0] = <<>>
  BY <1>6
<1>9. ASSUME NEW k \in 1..n PROVE g[k] = Absorb(g[k - 1], s[k])
  <2>1. 1..k \in SUBSET (1..n) /\ 1..k # {} /\ Max(1..k) = k /\ (1..k) \ {k} = 1..(k - 1)
    BY <1>1, Prefix
  <2>2. f[1..k] = Absorb(f[1..(k - 1)], s[k])
    BY <1>6, <2>1
  <2>3. k \in 0..n /\ k - 1 \in 0..n
    BY <1>1
  <2> QED
    BY <2>2, <2>3
<1> HIDE DEF g
<1> DEFINE S == {k \in 0..n : g[k] \in T}
<1>10. \A k \in 0..n : k \in S
  <2>1. 0 \in S
    <3>1. g[0] \in T /\ 0 \in 0..n
      BY <1>1, <1>8
    <3> QED
      BY <3>1
  <2>2. ASSUME NEW k \in 1..n, k - 1 \in S PROVE k \in S
    <3>1. g[k] \in T
      BY <1>2, <1>9, <2>2
    <3> QED
      BY <3>1
  <2> HIDE DEF S
  <2> QED
    BY <1>1, <2>1, <2>2, UpTo
<1>11. g \in [0..n -> T] /\ g[n] = f[1..n]
  BY <1>1, <1>10 DEF g
<1> QED
  BY <1>1, <1>7, <1>8, <1>9, <1>11

-----------------------------------------------------------------------------
(* Ranks, for sorting: in a finite strict total order everybody has a place *)
(* of their own, and every place is taken.                                  *)

\* R orders S strictly, and leaves no two unordered.
TotalOrder(S, R) ==
  /\ R \subseteq S \X S
  /\ \A x \in S : <<x, x>> \notin R
  /\ \A x, y, z \in S : <<x, y>> \in R /\ <<y, z>> \in R => <<x, z>> \in R
  /\ \A x, y \in S : x = y \/ <<x, y>> \in R \/ <<y, x>> \in R

Ahead(S, R, x) == {y \in S : <<y, x>> \in R}

RankOf(S, R, x) == 1 + Cardinality(Ahead(S, R, x))

\* Whoever is behind has a greater rank, and no rank exceeds the number of those ranked.
LEMMA RankBounds ==
  ASSUME NEW S, IsFiniteSet(S), NEW R, TotalOrder(S, R)
  PROVE  /\ \A x \in S : RankOf(S, R, x) \in 1..Cardinality(S)
         /\ \A x, y \in S : <<x, y>> \in R => RankOf(S, R, x) < RankOf(S, R, y)
<1>1. Cardinality(S) \in Nat
  BY FS_CardinalityType
<1>2. ASSUME NEW x \in S PROVE RankOf(S, R, x) \in 1..Cardinality(S)
  <2>1. Ahead(S, R, x) \subseteq S \ {x}
    BY DEF Ahead, TotalOrder
  <2>2. IsFiniteSet(S \ {x}) /\ Cardinality(S \ {x}) = Cardinality(S) - 1
    BY FS_RemoveElement
  <2>3. IsFiniteSet(Ahead(S, R, x)) /\ Cardinality(Ahead(S, R, x)) <= Cardinality(S) - 1
    BY <2>1, <2>2, FS_Subset
  <2>4. Cardinality(Ahead(S, R, x)) \in Nat
    BY <2>3, FS_CardinalityType
  <2> QED
    BY <1>1, <2>3, <2>4 DEF RankOf
<1>3. ASSUME NEW x \in S, NEW y \in S, <<x, y>> \in R PROVE RankOf(S, R, x) < RankOf(S, R, y)
  <2>1. x \notin Ahead(S, R, x) /\ Ahead(S, R, x) \cup {x} \subseteq Ahead(S, R, y)
    BY <1>3 DEF Ahead, TotalOrder
  <2>2. IsFiniteSet(Ahead(S, R, x)) /\ IsFiniteSet(Ahead(S, R, y))
    BY FS_Subset DEF Ahead
  <2>3. Cardinality(Ahead(S, R, x) \cup {x}) = Cardinality(Ahead(S, R, x)) + 1
    BY <2>1, <2>2, FS_AddElement
  <2>4. Cardinality(Ahead(S, R, x) \cup {x}) <= Cardinality(Ahead(S, R, y))
    BY <2>1, <2>2, FS_Subset
  <2>5. Cardinality(Ahead(S, R, x)) \in Nat /\ Cardinality(Ahead(S, R, y)) \in Nat
    BY <2>2, FS_CardinalityType
  <2> QED
    BY <2>3, <2>4, <2>5 DEF RankOf
<1> QED
  BY <1>2, <1>3

\* One place each, and each place is somebody's.
LEMMA Ranks ==
  ASSUME NEW S, IsFiniteSet(S), NEW R, TotalOrder(S, R)
  PROVE  /\ \A x, y \in S : RankOf(S, R, x) = RankOf(S, R, y) => x = y
         /\ \A m \in 1..Cardinality(S) : \E x \in S : RankOf(S, R, x) = m
<1>1. Cardinality(S) \in Nat
  BY FS_CardinalityType
<1>2. /\ \A x \in S : RankOf(S, R, x) \in 1..Cardinality(S)
      /\ \A x, y \in S : <<x, y>> \in R => RankOf(S, R, x) < RankOf(S, R, y)
  BY RankBounds
<1>3. ASSUME NEW x \in S, NEW y \in S, RankOf(S, R, x) = RankOf(S, R, y) PROVE x = y
  <2>1. RankOf(S, R, x) \in Nat /\ RankOf(S, R, y) \in Nat
    BY <1>1, <1>2
  <2>2. <<x, y>> \notin R /\ <<y, x>> \notin R
    BY <1>2, <1>3, <2>1
  <2> QED
    BY <2>2 DEF TotalOrder
<1> DEFINE f == [x \in S |-> RankOf(S, R, x)]
           N == 1..Cardinality(S)
<1>4. f \in Injection(S, N)
  BY <1>2, <1>3 DEF Injection, IsInjective
<1>5. IsFiniteSet(N) /\ Cardinality(N) = Cardinality(S)
  BY <1>1, FS_Interval
<1> HIDE DEF f, N
<1>6. f \in Surjection(S, N)
  BY <1>4, <1>5, FS_Injection
<1> QED
  BY <1>3, <1>6 DEF f, N, Surjection

\* Sorting is stable and complete: the starts do not go back, and the intervals are the same.
LEMMA Sorted ==
  ASSUME NEW s \in Seq(Intervals)
  PROVE  /\ ByStart(s) \in Seq(Intervals) /\ Len(ByStart(s)) = Len(s)
         /\ \A n \in 1..Len(s) : \E i \in 1..Len(s) : ByStart(s)[n] = s[i]
         /\ \A i \in 1..Len(s) : \E n \in 1..Len(s) : ByStart(s)[n] = s[i]
         /\ \A m, n \in 1..Len(s) : m < n => ByStart(s)[m].start <= ByStart(s)[n].start
<1> DEFINE D == 1..Len(s)
           R == {w \in D \X D : s[w[1]].start < s[w[2]].start \/ (s[w[1]].start = s[w[2]].start /\ w[1] < w[2])}
<1>1. Len(s) \in Nat /\ DOMAIN s = D
  OBVIOUS
<1>2. IsFiniteSet(D) /\ Cardinality(D) = Len(s)
  BY <1>1, FS_Interval
<1>3. \A i \in D : s[i].start \in Int /\ i \in Int
  <2>1. \A i \in D : s[i] \in Intervals
    BY <1>1
  <2> QED
    BY <2>1 DEF Intervals
<1>4. TotalOrder(D, R)
  <2>1. R \subseteq D \X D /\ \A x \in D : <<x, x>> \notin R
    BY <1>3
  <2>2. ASSUME NEW x \in D, NEW y \in D, NEW z \in D, <<x, y>> \in R, <<y, z>> \in R PROVE <<x, z>> \in R
    BY <1>3, <2>2
  <2>3. ASSUME NEW x \in D, NEW y \in D PROVE x = y \/ <<x, y>> \in R \/ <<y, x>> \in R
    BY <1>3
  <2> HIDE DEF R, D
  <2> QED
    BY <2>1, <2>2, <2>3 DEF TotalOrder
<1>5. ASSUME NEW i \in D PROVE Place(s, i) = RankOf(D, R, i)
  <2>1. Ahead(D, R, i) = {j \in DOMAIN s : s[j].start < s[i].start \/ (s[j].start = s[i].start /\ j < i)}
    BY <1>1 DEF Ahead
  <2> QED
    BY <2>1 DEF Place, RankOf
<1> HIDE DEF R
<1>6. /\ \A x, y \in D : Place(s, x) = Place(s, y) => x = y
      /\ \A m \in 1..Len(s) : \E x \in D : Place(s, x) = m
  BY <1>2, <1>4, <1>5, Ranks
<1>7. /\ \A x \in D : Place(s, x) \in D
      /\ \A x, y \in D : <<x, y>> \in R => Place(s, x) < Place(s, y)
  BY <1>2, <1>4, <1>5, RankBounds
<1> DEFINE At(n) == CHOOSE i \in D : Place(s, i) = n
<1>8. ASSUME NEW n \in D PROVE At(n) \in D /\ Place(s, At(n)) = n /\ ByStart(s)[n] = s[At(n)]
  BY <1>1, <1>6 DEF ByStart
<1>9. ASSUME NEW i \in D PROVE At(Place(s, i)) = i
  BY <1>6, <1>7, <1>8
<1> HIDE DEF At
<1>10. ByStart(s) \in [D -> Intervals]
  <2>1. ByStart(s) = [n \in D |-> ByStart(s)[n]]
    BY <1>1 DEF ByStart
  <2>2. \A n \in D : ByStart(s)[n] \in Intervals
    BY <1>8
  <2> QED
    BY <2>1, <2>2
<1>11. ByStart(s) \in Seq(Intervals) /\ Len(ByStart(s)) = Len(s)
  BY <1>1, <1>10
<1>12. ASSUME NEW m \in D, NEW n \in D, m < n PROVE ByStart(s)[m].start <= ByStart(s)[n].start
  <2>1. At(m) \in D /\ At(n) \in D /\ Place(s, At(m)) < Place(s, At(n))
    BY <1>8, <1>12
  <2>2. <<At(n), At(m)>> \notin R
    <3>1. ~(Place(s, At(n)) < Place(s, At(m)))
      BY <1>7, <2>1
    <3> QED
      BY <1>7, <2>1, <3>1
  <2>3. ~(s[At(n)].start < s[At(m)].start)
    BY <2>1, <2>2 DEF R
  <2> QED
    BY <1>3, <1>8, <2>1, <2>3
<1>13. \A i \in D : \E n \in D : ByStart(s)[n] = s[i]
  BY <1>7, <1>8, <1>9
<1> QED
  BY <1>8, <1>11, <1>12, <1>13

\* A function on the first numbers is a sequence.
LEMMA OnFirst ==
  ASSUME NEW S, NEW l \in Nat, NEW a \in [1..l -> S]
  PROVE  a \in Seq(S) /\ Len(a) = l /\ DOMAIN a = 1..l
<1>1. a \in Seq(S) /\ DOMAIN a = 1..l
  BY SeqDef
<1>2. Len(a) = l
  BY <1>1
<1> QED
  BY <1>1, <1>2

\* The positions of a sequence and its last element.
LEMMA Positions ==
  ASSUME NEW S, NEW m \in Seq(S)
  PROVE  /\ Len(m) \in Nat /\ DOMAIN m = 1..Len(m) /\ \A i \in 1..Len(m) : m[i] \in S
         /\ m # <<>> => Len(m) \in 1..Len(m) /\ Last(m) = m[Len(m)] /\ Last(m) \in S
         /\ \A i \in 1..Len(m) : m # <<>>
<1>1. Len(m) \in Nat /\ DOMAIN m = 1..Len(m) /\ \A i \in 1..Len(m) : m[i] \in S
  OBVIOUS
<1>2. ASSUME m # <<>> PROVE Len(m) \in 1..Len(m)
  BY <1>2
<1> QED
  BY <1>1, <1>2 DEF Last

\* A sequence with another last interval.
Ending(m, x) == [m EXCEPT ![Len(m)] = x]

\* Only the last changes.
LEMMA Replaced ==
  ASSUME NEW m \in Seq(Intervals), m # <<>>, NEW x \in Intervals
  PROVE  /\ Ending(m, x) \in Seq(Intervals) /\ Len(Ending(m, x)) = Len(m)
         /\ Ending(m, x) # <<>> /\ Last(Ending(m, x)) = x
         /\ \A i \in 1..Len(m) : i # Len(m) => Ending(m, x)[i] = m[i]
<1> DEFINE a == Ending(m, x)
<1>1. Len(m) \in 1..Len(m)
  BY Positions
<1>2. a \in Seq(Intervals) /\ Len(a) = Len(m) /\ \A j \in 1..Len(m) : a[j] = IF j = Len(m) THEN x ELSE m[j]
  BY <1>1, ExceptSeq DEF Ending
<1> HIDE DEF a
<1>3. a # <<>> /\ Last(a) = a[Len(m)]
  BY <1>1, <1>2, Positions DEF Last
<1> QED
  BY <1>1, <1>2, <1>3 DEF a

\* An interval absorbed into those that start no later adds its instants and takes none away.
LEMMA AbsorbCovers ==
  ASSUME NEW m \in Seq(Intervals), NEW cur \in Intervals, m # <<>> => Last(m).start <= cur.start
  PROVE  /\ Absorb(m, cur) # <<>> /\ Last(Absorb(m, cur)).start <= cur.start
         /\ \A t \in Int : In(Absorb(m, cur), t) <=> In(m, t) \/ (cur.start <= t /\ t < cur.end)
<1> DEFINE a == Absorb(m, cur)
           l == Len(m)
<1>0. l \in Nat /\ l = Len(m)
  OBVIOUS
<1>1. l \in Nat /\ DOMAIN m = 1..l /\ \A i \in 1..l : m[i] \in Intervals
  OBVIOUS
<1>2. cur.start \in Int /\ cur.end \in Int /\ \A i \in 1..l : m[i].start \in Int /\ m[i].end \in Int
  BY <1>1 DEF Intervals
<1> HIDE DEF l
<1>3. CASE m # <<>> /\ cur.start <= Last(m).end
  <2> DEFINE grown == Interval(m[Len(m)].start, Greater(m[Len(m)].end, cur.end))
  <2>1. l \in 1..l /\ Last(m) = m[l]
    BY <1>0, <1>3, Positions
  <2>2. /\ grown \in Intervals /\ grown.start = m[l].start /\ grown.end \in {m[l].end, cur.end}
        /\ grown.end >= m[l].end /\ grown.end >= cur.end
    BY <1>0, <1>2, <2>1 DEF Interval, Intervals, Greater
  <2>3. a = Ending(m, grown)
    BY <1>3 DEF Absorb, Ending
  <2> HIDE DEF grown, a
  <2>4. /\ a \in Seq(Intervals) /\ Len(a) = l /\ a # <<>> /\ Last(a) = grown
        /\ \A i \in 1..l : i # l => a[i] = m[i]
    BY <1>0, <1>3, <2>2, <2>3, Replaced
  <2>5. DOMAIN a = 1..l /\ a[l] = grown
    BY <1>0, <2>4, Positions
  <2>6. m[l].start <= cur.start /\ cur.start <= m[l].end
    BY <1>3, <2>1
  <2>7. ASSUME NEW t \in Int PROVE In(a, t) <=> In(m, t) \/ (cur.start <= t /\ t < cur.end)
    <3>1. grown.start <= t /\ t < grown.end <=> (m[l].start <= t /\ t < m[l].end) \/ (cur.start <= t /\ t < cur.end)
      BY <1>2, <2>1, <2>2, <2>6
    <3>2. In(a, t) <=> (grown.start <= t /\ t < grown.end)
                         \/ \E i \in 1..l : i # l /\ m[i].start <= t /\ t < m[i].end
      BY <2>1, <2>4, <2>5 DEF In
    <3>3. In(m, t) <=> (m[l].start <= t /\ t < m[l].end)
                         \/ \E i \in 1..l : i # l /\ m[i].start <= t /\ t < m[i].end
      BY <1>1, <2>1 DEF In
    <3> QED
      BY <3>1, <3>2, <3>3
  <2> QED
    BY <2>2, <2>4, <2>6, <2>7 DEF a
<1>4. CASE ~(m # <<>> /\ cur.start <= Last(m).end)
  <2>1. a = Append(m, cur)
    BY <1>4 DEF Absorb
  <2>2. DOMAIN a = 1..(l + 1) /\ Len(a) = l + 1 /\ a[l + 1] = cur /\ \A i \in 1..l : a[i] = m[i]
    BY <1>0, <1>1, <2>1
  <2> HIDE DEF a
  <2>3. a # <<>> /\ Last(a) = cur
    BY <1>1, <2>2 DEF Last
  <2>4. ASSUME NEW t \in Int PROVE In(a, t) <=> In(m, t) \/ (cur.start <= t /\ t < cur.end)
    <3>1. \A i : i \in 1..(l + 1) <=> i \in 1..l \/ i = l + 1
      BY <1>1
    <3>2. In(a, t) <=> (\E i \in 1..l : m[i].start <= t /\ t < m[i].end) \/ (cur.start <= t /\ t < cur.end)
      BY <1>1, <2>2, <3>1 DEF In
    <3> QED
      BY <1>1, <3>2 DEF In
  <2> QED
    BY <1>2, <2>3, <2>4 DEF a
<1> QED
  BY <1>3, <1>4

\* Intervals in order and apart, and none that ends before it starts.
Apart(s)   == \A m, n \in DOMAIN s : m < n => s[m].end < s[n].start
Ordered(s) == \A n \in DOMAIN s : s[n].start <= s[n].end

\* They stay so.
LEMMA AbsorbSpreads ==
  ASSUME NEW m \in Seq(Intervals), NEW cur \in Intervals, m # <<>> => Last(m).start <= cur.start,
         Apart(m), Ordered(m), cur.start <= cur.end
  PROVE  Apart(Absorb(m, cur)) /\ Ordered(Absorb(m, cur))
<1> DEFINE a == Absorb(m, cur)
           l == Len(m)
<1>0. l \in Nat /\ l = Len(m)
  OBVIOUS
<1>1. l \in Nat /\ DOMAIN m = 1..l /\ \A i \in 1..l : m[i] \in Intervals
  OBVIOUS
<1>2. cur.start \in Int /\ cur.end \in Int /\ \A i \in 1..l : m[i].start \in Int /\ m[i].end \in Int
  BY <1>1 DEF Intervals
<1> HIDE DEF l
<1>3. CASE m # <<>> /\ cur.start <= Last(m).end
  <2> DEFINE grown == Interval(m[Len(m)].start, Greater(m[Len(m)].end, cur.end))
  <2>1. l \in 1..l /\ Last(m) = m[l]
    BY <1>0, <1>3, Positions
  <2>2. /\ grown \in Intervals /\ grown.start = m[l].start /\ grown.start <= grown.end
    <3>1. m[l].start <= m[l].end
      BY <1>1, <2>1 DEF Ordered
    <3> QED
      BY <1>0, <1>2, <2>1, <3>1 DEF Interval, Intervals, Greater
  <2>3. a = Ending(m, grown)
    BY <1>3 DEF Absorb, Ending
  <2> HIDE DEF grown, a
  <2>4. /\ a \in Seq(Intervals) /\ Len(a) = l /\ a # <<>> /\ Last(a) = grown
        /\ \A i \in 1..l : i # l => a[i] = m[i]
    BY <1>0, <1>3, <2>2, <2>3, Replaced
  <2>5. DOMAIN a = 1..l /\ a[l] = grown
    BY <1>0, <2>4, Positions
  <2>6. \A n \in 1..l : a[n].start = m[n].start /\ a[n].start <= a[n].end
    BY <1>1, <2>2, <2>4, <2>5 DEF Ordered
  <2>7. ASSUME NEW i \in 1..l, NEW j \in 1..l, i < j PROVE a[i].end < a[j].start
    <3>0. i # l
      BY <1>0, <2>7
    <3>1. m[i].end < m[j].start
      BY <1>1, <2>7 DEF Apart
    <3> QED
      BY <2>4, <2>6, <3>0, <3>1
  <2> QED
    BY <2>5, <2>6, <2>7 DEF a, Apart, Ordered
<1>4. CASE ~(m # <<>> /\ cur.start <= Last(m).end)
  <2>1. a = Append(m, cur)
    BY <1>4 DEF Absorb
  <2>2. DOMAIN a = 1..(l + 1) /\ Len(a) = l + 1 /\ a[l + 1] = cur /\ \A i \in 1..l : a[i] = m[i]
    BY <1>0, <1>1, <2>1
  <2> HIDE DEF a
  <2>3. \A i : i \in 1..(l + 1) <=> i \in 1..l \/ i = l + 1
    BY <1>1
  <2>4. Ordered(a)
    BY <1>1, <2>2, <2>3 DEF Ordered
  <2>5. ASSUME NEW i \in 1..(l + 1), NEW j \in 1..(l + 1), i < j PROVE a[i].end < a[j].start
    <3>1. i \in 1..l /\ a[i] = m[i]
      BY <1>1, <2>2, <2>5
    <3>2. CASE j \in 1..l
      BY <1>1, <2>2, <2>5, <3>1, <3>2 DEF Apart
    <3>3. CASE j = l + 1
      <4>1. l \in 1..l /\ m # <<>> /\ Last(m) = m[l]
        BY <1>0, <1>1, <3>1, Positions
      <4>2. m[l].end < cur.start
        BY <1>2, <1>4, <4>1
      <4>3. m[l].start <= m[l].end
        BY <1>1, <4>1 DEF Ordered
      <4>4. i = l \/ m[i].end < m[l].start
        <5>1. i = l \/ i < l
          BY <1>0, <3>1
        <5> QED
          BY <1>1, <3>1, <4>1, <5>1 DEF Apart
      <4> QED
        BY <1>2, <2>2, <3>1, <3>3, <4>1, <4>2, <4>3, <4>4
    <3> QED
      BY <2>3, <3>2, <3>3
  <2> QED
    BY <2>2, <2>4, <2>5 DEF a, Apart
<1> QED
  BY <1>3, <1>4

\* Merging keeps the instants covered, and leaves gaps between the intervals (_merge).
LEMMA MergeCovers ==
  ASSUME NEW ivs \in Seq(Intervals)
  PROVE  /\ Merge(ivs) \in Seq(Intervals)
         /\ \A t \in Int : In(Merge(ivs), t) <=> In(ivs, t)
         /\ Ordered(ivs) => Apart(Merge(ivs)) /\ Ordered(Merge(ivs))
<1> DEFINE s == ByStart(ivs)
           n == Len(ivs)
<1>1. /\ s \in Seq(Intervals) /\ Len(s) = n /\ n \in Nat
      /\ \A m \in 1..n : \E i \in 1..n : s[m] = ivs[i]
      /\ \A i \in 1..n : \E m \in 1..n : s[m] = ivs[i]
      /\ \A m, k \in 1..n : m < k => s[m].start <= s[k].start
  BY Sorted
<1>a. Merge(ivs) = FoldLeft(Absorb, <<>>, s)
  BY DEF Merge
<1> HIDE DEF s
<1>b. \E g \in [0..Len(s) -> Seq(Intervals)] :
        /\ g[0] = <<>> /\ g[Len(s)] = FoldLeft(Absorb, <<>>, s)
        /\ \A k \in 1..Len(s) : g[k] = Absorb(g[k - 1], s[k])
  BY <1>1, MergeRuns
<1>2. PICK g \in [0..n -> Seq(Intervals)] :
        /\ g[0] = <<>> /\ g[n] = FoldLeft(Absorb, <<>>, s)
        /\ \A k \in 1..n : g[k] = Absorb(g[k - 1], s[k])
  BY <1>1, <1>b
<1>3. \A k \in 1..n : s[k] \in Intervals /\ s[k].start \in Int
  <2>1. \A k \in 1..n : s[k] \in Intervals
    BY <1>1
  <2> QED
    BY <2>1 DEF Intervals
<1>f. Ordered(ivs) => \A k \in 1..n : s[k].start <= s[k].end
  <2>1. DOMAIN ivs = 1..n
    OBVIOUS
  <2> QED
    BY <1>1, <2>1 DEF Ordered
<1> DEFINE Good(k) == /\ k > 0 => g[k] # <<>> /\ Last(g[k]).start <= s[k].start
                      /\ k = 0 => g[k] = <<>>
                      /\ \A t \in Int : In(g[k], t) <=> \E i \in 1..k : s[i].start <= t /\ t < s[i].end
                      /\ Ordered(ivs) => Apart(g[k]) /\ Ordered(g[k])
           S == {k \in 0..n : Good(k)}
<1>4. Good(0)
  BY <1>2 DEF In, Apart, Ordered
<1>5. ASSUME NEW k \in 1..n, Good(k - 1) PROVE Good(k)
  <2>a. k - 1 \in 0..n
    BY <1>1
  <2>b. g[k - 1] \in Seq(Intervals) /\ g[k] = Absorb(g[k - 1], s[k])
    BY <1>2, <2>a
  <2>1. k - 1 \in 0..n /\ g[k - 1] \in Seq(Intervals) /\ g[k] = Absorb(g[k - 1], s[k])
    BY <2>a, <2>b
  <2>2. g[k - 1] # <<>> => Last(g[k - 1]).start <= s[k].start
    <3>1. CASE k = 1
      BY <1>5, <3>1
    <3>2. CASE k > 1
      <4>1. k - 1 \in 1..n /\ k - 1 < k /\ k - 1 > 0
        BY <1>1, <3>2
      <4>2. s[k - 1].start <= s[k].start
        BY <1>1, <4>1
      <4>3. g[k - 1] # <<>> /\ Last(g[k - 1]).start <= s[k - 1].start
        BY <1>5, <4>1
      <4>4. Last(g[k - 1]).start \in Int
        <5>1. Last(g[k - 1]) \in Intervals
          BY <2>1, <4>3 DEF Last
        <5> QED
          BY <5>1 DEF Intervals
      <4> QED
        BY <1>3, <4>1, <4>2, <4>3, <4>4
    <3> QED
      BY <1>1, <3>1, <3>2
  <2>3. s[k] \in Intervals
    BY <1>3
  <2> DEFINE m == g[k - 1]
             cur == s[k]
  <2>m. m \in Seq(Intervals) /\ cur \in Intervals /\ (m # <<>> => Last(m).start <= cur.start)
    BY <2>1, <2>2, <2>3
  <2> HIDE DEF m, cur
  <2>4. /\ Absorb(m, cur) # <<>> /\ Last(Absorb(m, cur)).start <= cur.start
        /\ \A t \in Int : In(Absorb(m, cur), t) <=> In(m, t) \/ (cur.start <= t /\ t < cur.end)
    BY <2>m, AbsorbCovers
  <2>5. Apart(m) /\ Ordered(m) /\ cur.start <= cur.end => Apart(Absorb(m, cur)) /\ Ordered(Absorb(m, cur))
    BY <2>m, AbsorbSpreads
  <2> USE DEF m, cur
  <2>6. \A i : i \in 1..k <=> i \in 1..(k - 1) \/ i = k
    <3>1. k \in Nat /\ k >= 1
      BY <1>1
    <3> QED
      BY <3>1
  <2>7. ASSUME NEW t \in Int PROVE In(g[k], t) <=> \E i \in 1..k : s[i].start <= t /\ t < s[i].end
    <3>1. In(g[k], t) <=> In(g[k - 1], t) \/ (s[k].start <= t /\ t < s[k].end)
      BY <2>1, <2>4
    <3>2. In(g[k - 1], t) <=> \E i \in 1..(k - 1) : s[i].start <= t /\ t < s[i].end
      BY <1>5
    <3> QED
      BY <2>6, <3>1, <3>2
  <2>8. k # 0 /\ g[k] # <<>> /\ Last(g[k]).start <= s[k].start
    BY <1>1, <2>1, <2>4
  <2>9. Ordered(ivs) => Apart(g[k]) /\ Ordered(g[k])
    BY <1>5, <1>f, <2>1, <2>5
  <2> QED
    BY <2>7, <2>8, <2>9
<1> HIDE DEF Good
<1>6. \A k \in 0..n : k \in S
  <2>1. 0 \in S
    BY <1>1, <1>4
  <2>2. ASSUME NEW k \in 1..n, k - 1 \in S PROVE k \in S
    BY <1>1, <1>5, <2>2
  <2> HIDE DEF S
  <2> QED
    BY <1>1, <2>1, <2>2, UpTo
<1>7. Good(n)
  <2>1. n \in 0..n
    BY <1>1
  <2> QED
    BY <1>6, <2>1
<1>8. Merge(ivs) = g[n] /\ g[n] \in Seq(Intervals)
  <2>1. n \in 0..n
    BY <1>1
  <2> QED
    BY <1>a, <1>2, <2>1
<1>10. ASSUME NEW t \in Int PROVE In(Merge(ivs), t) <=> In(ivs, t)
  <2>1. In(Merge(ivs), t) <=> \E i \in 1..n : s[i].start <= t /\ t < s[i].end
    BY <1>7, <1>8 DEF Good
  <2>2. In(ivs, t) <=> \E i \in 1..n : ivs[i].start <= t /\ t < ivs[i].end
    <3>1. DOMAIN ivs = 1..n
      OBVIOUS
    <3> QED
      BY <3>1 DEF In
  <2> QED
    BY <1>1, <2>1, <2>2
<1>11. Ordered(ivs) => Apart(Merge(ivs)) /\ Ordered(Merge(ivs))
  BY <1>7, <1>8 DEF Good
<1> QED
  BY <1>8, <1>10, <1>11

-----------------------------------------------------------------------------
(* Flattening, and the operators that flatten.                             *)

\* Flattening goes through the sequences one by one.
LEMMA FlattenRuns ==
  ASSUME NEW S, NEW ss \in Seq(Seq(S)), ss # <<>>
  PROVE  \E f \in [1..Len(ss) -> Seq(S)] :
           /\ f[Len(ss)] = FlattenSeq(ss)
           /\ \A i \in 1..Len(ss) : f[i] = IF i = 1 THEN ss[i] ELSE f[i - 1] \o ss[i]
<1> DEFINE n == Len(ss)
           T == Seq(S)
           step == [x \in T \X (1..n) |-> IF x[2] = 1 THEN ss[x[2]] ELSE x[1] \o ss[x[2]]]
<1>1. n \in Nat /\ n > 0 /\ n = Len(ss) /\ <<>> \in T /\ \A i \in 1..n : ss[i] \in T
  BY Positions
<1>2. step \in [T \X (1..n) -> T]
  <2>1. ASSUME NEW x \in T, NEW i \in 1..n PROVE x \o ss[i] \in T
    BY <1>1, ConcatProperties
  <2> QED
    BY <1>1, <2>1
<1> HIDE DEF step, n, T
<1>3. PICK h \in [SUBSET (1..n) -> T] : Folds(h, n, <<>>, step)
  BY <1>1, <1>2, FoldExists
<1> DEFINE e == [i \in 1..n |-> h[1..i]]
<1>4. ASSUME NEW i \in 1..n PROVE e[i] = IF i = 1 THEN ss[i] ELSE e[i - 1] \o ss[i]
  <2>1. 1..i \in SUBSET (1..n) /\ 1..i # {} /\ Max(1..i) = i /\ (1..i) \ {i} = 1..(i - 1)
    BY <1>1, Prefix
  <2>2. h[1..i] = step[<<h[1..(i - 1)], i>>]
    BY <1>3, <2>1 DEF Folds
  <2>3. 1..(i - 1) \in SUBSET (1..n)
    BY <2>1
  <2>4. h[1..i] = IF i = 1 THEN ss[i] ELSE h[1..(i - 1)] \o ss[i]
    BY <2>2, <2>3 DEF step
  <2>5. i # 1 => i - 1 \in 1..n
    BY <1>1
  <2> QED
    BY <2>4, <2>5
<1>5. e = [i \in 1..n |-> IF i = 1 THEN ss[i] ELSE e[i - 1] \o ss[i]]
  <2>1. e = [i \in 1..n |-> e[i]]
    OBVIOUS
  <2> HIDE DEF e
  <2> QED
    BY <1>4, <2>1
<1> HIDE DEF e
<1> DEFINE f == CHOOSE f : f = [i \in 1..n |-> IF i = 1 THEN ss[i] ELSE f[i - 1] \o ss[i]]
<1>6. f = [i \in 1..n |-> IF i = 1 THEN ss[i] ELSE f[i - 1] \o ss[i]]
  BY <1>5
<1>7. FlattenSeq(ss) = f[n]
  BY <1>1 DEF FlattenSeq
<1> HIDE DEF f
<1>8. \A i \in 1..n : f[i] = IF i = 1 THEN ss[i] ELSE f[i - 1] \o ss[i]
  BY <1>6
<1> DEFINE U == {k \in 0..n : k > 0 => f[k] \in T}
<1>9. \A k \in 0..n : k \in U
  <2>1. 0 \in U
    BY <1>1
  <2>2. ASSUME NEW k \in 1..n, k - 1 \in U PROVE k \in U
    <3>1. CASE k = 1
      BY <1>1, <1>8, <3>1
    <3>2. CASE k # 1
      <4>1. f[k - 1] \in T /\ ss[k] \in T /\ k \in 0..n
        <5>1. k - 1 > 0 /\ k \in 0..n
          BY <1>1, <3>2
        <5> QED
          BY <1>1, <2>2, <5>1
      <4>2. f[k - 1] \o ss[k] \in T
        BY <4>1, ConcatProperties DEF T
      <4> QED
        BY <1>8, <3>2, <4>1, <4>2
    <3> QED
      BY <3>1, <3>2
  <2> HIDE DEF U
  <2> QED
    BY <1>1, <2>1, <2>2, UpTo
<1>10. f \in [1..n -> T]
  <2>1. f = [i \in 1..n |-> f[i]]
    BY <1>6
  <2>2. \A i \in 1..n : f[i] \in T
    <3>1. \A i \in 1..n : i \in 0..n /\ i > 0
      BY <1>1
    <3> QED
      BY <1>9, <3>1
  <2> QED
    BY <2>1, <2>2
<1> QED
  BY <1>1, <1>7, <1>8, <1>10 DEF n, T

Has(s, e) == \E j \in 1..Len(s) : s[j] = e

\* What is in a concatenation.
LEMMA InConcat ==
  ASSUME NEW S, NEW x \in Seq(S), NEW y \in Seq(S), NEW e
  PROVE  x \o y \in Seq(S) /\ (Has(x \o y, e) <=> Has(x, e) \/ Has(y, e))
<1>1. Len(x) \in Nat /\ Len(y) \in Nat
  OBVIOUS
<1> DEFINE l == Len(x)
           m == Len(y)
           z == x \o y
<1>2. z \in Seq(S) /\ Len(z) = l + m /\ \A i \in 1..(l + m) : z[i] = IF i <= l THEN x[i] ELSE y[i - l]
  BY ConcatProperties
<1> HIDE DEF l, m, z
<1>3. l \in Nat /\ m \in Nat
  BY <1>1 DEF l, m
<1>4. ASSUME NEW k \in 1..(l + m), z[k] = e PROVE (\E i \in 1..l : x[i] = e) \/ (\E i \in 1..m : y[i] = e)
  <2>1. CASE k <= l
    <3>1. k \in 1..l
      BY <1>3, <2>1
    <3> QED
      BY <1>2, <1>4, <2>1, <3>1
  <2>2. CASE ~(k <= l)
    <3>1. k - l \in 1..m
      BY <1>3, <2>2
    <3> QED
      BY <1>2, <1>4, <2>2, <3>1
  <2> QED
    BY <2>1, <2>2
<1>5. ASSUME NEW i \in 1..l, x[i] = e PROVE \E k \in 1..(l + m) : z[k] = e
  <2>1. i \in 1..(l + m) /\ i <= l
    BY <1>3
  <2> QED
    BY <1>2, <1>5, <2>1
<1>6. ASSUME NEW i \in 1..m, y[i] = e PROVE \E k \in 1..(l + m) : z[k] = e
  <2>1. l + i \in 1..(l + m) /\ ~(l + i <= l) /\ (l + i) - l = i
    BY <1>3
  <2> QED
    BY <1>2, <1>6, <2>1
<1> QED
  BY <1>2, <1>4, <1>5, <1>6 DEF l, m, z, Has

\* Flattening keeps what is in the sequences and adds nothing.
LEMMA Flattened ==
  ASSUME NEW S, NEW ss \in Seq(Seq(S))
  PROVE  /\ FlattenSeq(ss) \in Seq(S)
         /\ \A e : Has(FlattenSeq(ss), e) <=> \E i \in 1..Len(ss) : Has(ss[i], e)
<1>1. CASE ss = <<>>
  <2>1. Len(ss) = 0 /\ FlattenSeq(ss) = <<>>
    BY <1>1 DEF FlattenSeq
  <2> QED
    BY <2>1 DEF Has
<1>2. CASE ss # <<>>
  <2> DEFINE n == Len(ss)
  <2>1. n \in Nat /\ n > 0 /\ \A i \in 1..n : ss[i] \in Seq(S)
    BY <1>2, Positions
  <2>2. PICK f \in [1..n -> Seq(S)] :
          /\ f[n] = FlattenSeq(ss)
          /\ \A i \in 1..n : f[i] = IF i = 1 THEN ss[i] ELSE f[i - 1] \o ss[i]
    BY <1>2, FlattenRuns
  <2> HIDE DEF n
  <2>3. ASSUME NEW e PROVE Has(f[n], e) <=> \E i \in 1..n : Has(ss[i], e)
    <3> DEFINE OK(k) == Has(f[k], e) <=> \E i \in 1..k : Has(ss[i], e)
               U == {k \in 0..n : k > 0 => OK(k)}
    <3>1. ASSUME NEW k \in 1..n, k > 1 => OK(k - 1) PROVE OK(k)
      <4>1. CASE k = 1
        <5>1. \A i : i \in 1..k <=> i = k
          BY <4>1
        <5>2. f[k] = ss[k]
          BY <2>2, <4>1
        <5>3. (\E i \in 1..k : Has(ss[i], e)) <=> Has(ss[k], e)
          BY <5>1, Zenon
        <5>4. Has(f[k], e) <=> Has(ss[k], e)
          BY <5>2, Zenon
        <5> QED
          BY <5>3, <5>4, Zenon
      <4>2. CASE k # 1
        <5>1. k - 1 > 0 /\ k - 1 \in 1..n /\ k > 1
          BY <2>1, <4>2
        <5>2. f[k] = f[k - 1] \o ss[k] /\ f[k - 1] \in Seq(S) /\ ss[k] \in Seq(S)
          BY <2>1, <2>2, <4>2, <5>1
        <5>3. Has(f[k], e) <=> Has(f[k - 1], e) \/ Has(ss[k], e)
          <6>1. Has(f[k - 1] \o ss[k], e) <=> Has(f[k - 1], e) \/ Has(ss[k], e)
            BY <5>2, InConcat
          <6> QED
            BY <5>2, <6>1, Zenon
        <5>4. Has(f[k - 1], e) <=> \E i \in 1..(k - 1) : Has(ss[i], e)
          BY <3>1, <5>1
        <5>5. \A i : i \in 1..k <=> i \in 1..(k - 1) \/ i = k
          BY <5>1
        <5> QED
          BY <5>3, <5>4, <5>5, Zenon
      <4> QED
        BY <4>1, <4>2
    <3> HIDE DEF OK
    <3>2. 0 \in U
      BY <2>1
    <3>3. ASSUME NEW k \in 1..n, k - 1 \in U PROVE k \in U
      <4>1. k \in 0..n /\ (k > 1 => k - 1 > 0)
        BY <2>1
      <4>2. OK(k)
        BY <3>1, <3>3, <4>1
      <4> QED
        BY <4>1, <4>2
    <3> HIDE DEF U
    <3>4. \A k \in 0..n : k \in U
      BY <2>1, <3>2, <3>3, UpTo
    <3>5. n \in 0..n
      BY <2>1
    <3>6. OK(n)
      BY <2>1, <3>4, <3>5 DEF U
    <3> QED
      BY <3>6 DEF OK
  <2>4. f[n] = FlattenSeq(ss) /\ n \in 1..n
    BY <2>1, <2>2
  <2> QED
    BY <2>2, <2>3, <2>4 DEF n
<1> QED
  BY <1>1, <1>2

\* Instants of flattened intervals.
LEMMA InFlattened ==
  ASSUME NEW ss \in Seq(Seq(Intervals))
  PROVE  /\ FlattenSeq(ss) \in Seq(Intervals)
         /\ \A t \in Int : In(FlattenSeq(ss), t) <=> \E i \in 1..Len(ss) : In(ss[i], t)
<1> DEFINE z == FlattenSeq(ss)
<1>1. /\ z \in Seq(Intervals)
      /\ \A e : Has(z, e) <=> \E i \in 1..Len(ss) : Has(ss[i], e)
  BY Flattened
<1> HIDE DEF z
<1>2. DOMAIN z = 1..Len(z) /\ \A i \in 1..Len(ss) : DOMAIN ss[i] = 1..Len(ss[i])
  <2>1. \A i \in 1..Len(ss) : ss[i] \in Seq(Intervals)
    OBVIOUS
  <2> QED
    BY <1>1, <2>1
<1>3. ASSUME NEW t \in Int, In(z, t) PROVE \E i \in 1..Len(ss) : In(ss[i], t)
  <2>1. PICK k \in 1..Len(z) : z[k].start <= t /\ t < z[k].end
    BY <1>2, <1>3 DEF In
  <2>2. PICK i \in 1..Len(ss) : \E j \in 1..Len(ss[i]) : ss[i][j] = z[k]
    BY <1>1 DEF Has
  <2> QED
    BY <1>2, <2>1, <2>2 DEF In
<1>4. ASSUME NEW t \in Int, NEW i \in 1..Len(ss), In(ss[i], t) PROVE In(z, t)
  <2>1. PICK j \in 1..Len(ss[i]) : ss[i][j].start <= t /\ t < ss[i][j].end
    BY <1>2, <1>4 DEF In
  <2>2. PICK k \in 1..Len(z) : z[k] = ss[i][j]
    BY <1>1 DEF Has
  <2> QED
    BY <1>2, <2>1, <2>2 DEF In
<1> QED
  BY <1>1, <1>3, <1>4 DEF z

\* What holds of every sequence holds of their flattening: here, that starts come first.
LEMMA FlattenedOrdered ==
  ASSUME NEW ss \in Seq(Seq(Intervals)), \A i \in 1..Len(ss) : Ordered(ss[i])
  PROVE  Ordered(FlattenSeq(ss))
<1> DEFINE z == FlattenSeq(ss)
<1>1. /\ z \in Seq(Intervals)
      /\ \A e : Has(z, e) <=> \E i \in 1..Len(ss) : Has(ss[i], e)
  BY Flattened
<1> HIDE DEF z
<1>2. DOMAIN z = 1..Len(z) /\ \A i \in 1..Len(ss) : DOMAIN ss[i] = 1..Len(ss[i])
  <2>1. \A i \in 1..Len(ss) : ss[i] \in Seq(Intervals)
    OBVIOUS
  <2> QED
    BY <1>1, <2>1
<1>3. ASSUME NEW k \in 1..Len(z) PROVE z[k].start <= z[k].end
  <2>1. PICK i \in 1..Len(ss) : \E j \in 1..Len(ss[i]) : ss[i][j] = z[k]
    BY <1>1 DEF Has
  <2> QED
    BY <1>2, <2>1 DEF Ordered
<1> QED
  BY <1>2, <1>3 DEF z, Ordered

\* The instants of an interval that may be empty.
LEMMA ProperIn ==
  ASSUME NEW lo \in Int, NEW hi \in Int
  PROVE  /\ Proper(lo, hi) \in Seq(Intervals) /\ Ordered(Proper(lo, hi))
         /\ \A t \in Int : In(Proper(lo, hi), t) <=> lo <= t /\ t < hi
<1>1. CASE lo < hi
  <2>1. Proper(lo, hi) = <<Interval(lo, hi)>>
    BY <1>1 DEF Proper
  <2>2. Interval(lo, hi) \in Intervals /\ Interval(lo, hi).start = lo /\ Interval(lo, hi).end = hi
    BY DEF Interval, Intervals
  <2> DEFINE s == <<Interval(lo, hi)>>
  <2>3. s \in Seq(Intervals) /\ DOMAIN s = {1} /\ s[1].start = lo /\ s[1].end = hi
    BY <2>2
  <2> HIDE DEF s
  <2>4. Ordered(s) /\ \A t \in Int : In(s, t) <=> lo <= t /\ t < hi
    BY <1>1, <2>3 DEF In, Ordered
  <2> QED
    BY <2>1, <2>3, <2>4 DEF s
<1>2. CASE ~(lo < hi)
  <2>1. Proper(lo, hi) = <<>>
    BY <1>2 DEF Proper
  <2>2. ~\E t \in Int : lo <= t /\ t < hi
    BY <1>2
  <2> QED
    BY <2>1, <2>2 DEF In, Ordered
<1> QED
  BY <1>1, <1>2

\* The instants of one interval.
LEMMA OneIn ==
  ASSUME NEW iv \in Intervals
  PROVE  <<iv>> \in Seq(Intervals) /\ \A t \in Int : In(<<iv>>, t) <=> iv.start <= t /\ t < iv.end
<1>1. <<iv>> \in Seq(Intervals) /\ DOMAIN <<iv>> = {1} /\ <<iv>>[1] = iv
  OBVIOUS
<1> QED
  BY <1>1 DEF In

\* The instants of two sequences together.
LEMMA ConcatIn ==
  ASSUME NEW x \in Seq(Intervals), NEW y \in Seq(Intervals)
  PROVE  x \o y \in Seq(Intervals) /\ \A t \in Int : In(x \o y, t) <=> In(x, t) \/ In(y, t)
<1> DEFINE z == x \o y
<1>1. z \in Seq(Intervals) /\ \A e : Has(z, e) <=> Has(x, e) \/ Has(y, e)
  BY InConcat
<1> HIDE DEF z
<1>2. DOMAIN z = 1..Len(z) /\ DOMAIN x = 1..Len(x) /\ DOMAIN y = 1..Len(y)
  BY <1>1
<1>3. ASSUME NEW s, DOMAIN s = 1..Len(s), NEW t PROVE In(s, t) <=> \E e : Has(s, e) /\ e.start <= t /\ t < e.end
  BY <1>3 DEF In, Has
<1>4. ASSUME NEW t \in Int PROVE In(z, t) <=> In(x, t) \/ In(y, t)
  <2>1. /\ In(z, t) <=> \E e : Has(z, e) /\ e.start <= t /\ t < e.end
        /\ In(x, t) <=> \E e : Has(x, e) /\ e.start <= t /\ t < e.end
        /\ In(y, t) <=> \E e : Has(y, e) /\ e.start <= t /\ t < e.end
    BY <1>2, <1>3
  <2> QED
    BY <1>1, <2>1
<1> QED
  BY <1>1, <1>4 DEF z

\* What is left of an interval is what it has outside the cut.
LEMMA PiecesIn ==
  ASSUME NEW iv \in Intervals, NEW cut \in Intervals
  PROVE  /\ Pieces(iv, cut) \in Seq(Intervals)
         /\ \A t \in Int : In(Pieces(iv, cut), t) <=>
              (iv.start <= t /\ t < iv.end) /\ ~(cut.start <= t /\ t < cut.end)
<1>1. iv.start \in Int /\ iv.end \in Int /\ cut.start \in Int /\ cut.end \in Int
  BY DEF Intervals
<1>2. CASE cut.end <= iv.start \/ cut.start >= iv.end
  <2>1. Pieces(iv, cut) = <<iv>>
    BY <1>2 DEF Pieces
  <2> QED
    BY <1>1, <1>2, <2>1, OneIn
<1>3. CASE ~(cut.end <= iv.start \/ cut.start >= iv.end)
  <2> DEFINE x == Proper(iv.start, cut.start)
             y == Proper(cut.end, iv.end)
  <2>1. Pieces(iv, cut) = x \o y
    BY <1>3 DEF Pieces
  <2>2. /\ x \in Seq(Intervals) /\ y \in Seq(Intervals)
        /\ \A t \in Int : In(x, t) <=> iv.start <= t /\ t < cut.start
        /\ \A t \in Int : In(y, t) <=> cut.end <= t /\ t < iv.end
    BY <1>1, ProperIn
  <2> HIDE DEF x, y
  <2>3. x \o y \in Seq(Intervals) /\ \A t \in Int : In(x \o y, t) <=> In(x, t) \/ In(y, t)
    BY <2>2, ConcatIn
  <2>4. ASSUME NEW t \in Int
        PROVE  (iv.start <= t /\ t < cut.start) \/ (cut.end <= t /\ t < iv.end) <=>
                 (iv.start <= t /\ t < iv.end) /\ ~(cut.start <= t /\ t < cut.end)
    BY <1>1, <1>3
  <2> QED
    BY <2>1, <2>2, <2>3, <2>4
<1> QED
  BY <1>2, <1>3

\* A cut takes its instants from every interval.
LEMMA CutAllIn ==
  ASSUME NEW left \in Seq(Intervals), NEW cut \in Intervals
  PROVE  /\ CutAll(left, cut) \in Seq(Intervals)
         /\ \A t \in Int : In(CutAll(left, cut), t) <=> In(left, t) /\ ~(cut.start <= t /\ t < cut.end)
<1> DEFINE ss == [i \in DOMAIN left |-> Pieces(left[i], cut)]
           l == Len(left)
<1>1. l \in Nat /\ DOMAIN left = 1..l /\ \A i \in 1..l : left[i] \in Intervals
  BY Positions
<1>2. \A i \in 1..l : /\ Pieces(left[i], cut) \in Seq(Intervals)
                      /\ \A t \in Int : In(Pieces(left[i], cut), t) <=>
                           (left[i].start <= t /\ t < left[i].end) /\ ~(cut.start <= t /\ t < cut.end)
  BY <1>1, PiecesIn
<1> HIDE DEF l
<1>3. ss \in [1..l -> Seq(Intervals)] /\ \A i \in 1..l : ss[i] = Pieces(left[i], cut)
  BY <1>1, <1>2
<1>4. CutAll(left, cut) = FlattenSeq(ss)
  BY DEF CutAll
<1> HIDE DEF ss
<1>5. ss \in Seq(Seq(Intervals)) /\ Len(ss) = l
  BY <1>1, <1>3, OnFirst
<1>6. /\ FlattenSeq(ss) \in Seq(Intervals)
      /\ \A t \in Int : In(FlattenSeq(ss), t) <=> \E i \in 1..l : In(ss[i], t)
  BY <1>5, InFlattened
<1>7. ASSUME NEW t \in Int PROVE In(FlattenSeq(ss), t) <=> In(left, t) /\ ~(cut.start <= t /\ t < cut.end)
  <2>1. \A i \in 1..l : In(ss[i], t) <=> (left[i].start <= t /\ t < left[i].end) /\ ~(cut.start <= t /\ t < cut.end)
    BY <1>2, <1>3
  <2>2. In(left, t) <=> \E i \in 1..l : left[i].start <= t /\ t < left[i].end
    BY <1>1 DEF In
  <2> QED
    BY <1>6, <2>1, <2>2
<1> QED
  BY <1>4, <1>6, <1>7

\* Clipping keeps the instants between the bounds, in intervals that are not empty (_clip).
LEMMA ClipIn ==
  ASSUME NEW ivs \in Seq(Intervals), NEW lo \in Int, NEW hi \in Int
  PROVE  /\ Clip(ivs, lo, hi) \in Seq(Intervals) /\ Ordered(Clip(ivs, lo, hi))
         /\ \A t \in Int : In(Clip(ivs, lo, hi), t) <=> In(ivs, t) /\ lo <= t /\ t < hi
<1> DEFINE l == Len(ivs)
           left(i)  == Greater(ivs[i].start, lo)
           right(i) == Lesser(ivs[i].end, hi)
           ss == [i \in DOMAIN ivs |-> Proper(left(i), right(i))]
<1>1. l \in Nat /\ DOMAIN ivs = 1..l /\ \A i \in 1..l : ivs[i] \in Intervals
  BY Positions
<1>2. \A i \in 1..l : ivs[i].start \in Int /\ ivs[i].end \in Int
  BY <1>1 DEF Intervals
<1>3. \A i \in 1..l : /\ left(i) \in Int /\ right(i) \in Int
                      /\ \A t \in Int : left(i) <= t /\ t < right(i) <=>
                           (ivs[i].start <= t /\ t < ivs[i].end) /\ lo <= t /\ t < hi
  BY <1>2 DEF Greater, Lesser
<1>4. Clip(ivs, lo, hi) = FlattenSeq(ss)
  BY DEF Clip
<1> HIDE DEF l, left, right
<1>5. \A i \in 1..l : /\ Proper(left(i), right(i)) \in Seq(Intervals) /\ Ordered(Proper(left(i), right(i)))
                      /\ \A t \in Int : In(Proper(left(i), right(i)), t) <=> left(i) <= t /\ t < right(i)
  BY <1>3, ProperIn
<1>6. ss \in [1..l -> Seq(Intervals)] /\ \A i \in 1..l : ss[i] = Proper(left(i), right(i))
  BY <1>1, <1>5
<1> HIDE DEF ss
<1>7. ss \in Seq(Seq(Intervals)) /\ Len(ss) = l
  BY <1>1, <1>6, OnFirst
<1>8. /\ FlattenSeq(ss) \in Seq(Intervals)
      /\ \A t \in Int : In(FlattenSeq(ss), t) <=> \E i \in 1..l : In(ss[i], t)
  BY <1>7, InFlattened
<1>9. Ordered(FlattenSeq(ss))
  BY <1>5, <1>6, <1>7, FlattenedOrdered
<1>10. ASSUME NEW t \in Int PROVE In(FlattenSeq(ss), t) <=> In(ivs, t) /\ lo <= t /\ t < hi
  <2>1. \A i \in 1..l : In(ss[i], t) <=> (ivs[i].start <= t /\ t < ivs[i].end) /\ lo <= t /\ t < hi
    BY <1>3, <1>5, <1>6
  <2>2. In(ivs, t) <=> \E i \in 1..l : ivs[i].start <= t /\ t < ivs[i].end
    BY <1>1 DEF In
  <2> QED
    BY <1>8, <2>1, <2>2
<1> QED
  BY <1>4, <1>8, <1>9, <1>10

-----------------------------------------------------------------------------
(* Subtracting and preparing.                                              *)

\* Subtracting goes through the cuts one by one.
LEMMA SubtractRuns ==
  ASSUME NEW base \in Seq(Intervals), NEW s \in Seq(Intervals)
  PROVE  \E g \in [0..Len(s) -> Seq(Intervals)] :
           /\ g[0] = base /\ g[Len(s)] = FoldLeft(CutAll, base, s)
           /\ \A k \in 1..Len(s) : g[k] = CutAll(g[k - 1], s[k])
<1> DEFINE n == Len(s)
           T == Seq(Intervals)
           step == [x \in T \X (1..n) |-> CutAll(x[1], s[x[2]])]
<1>1. n \in Nat /\ DOMAIN s = 1..n /\ base \in T
  OBVIOUS
<1>2. ASSUME NEW m \in T, NEW i \in 1..n PROVE CutAll(m, s[i]) \in T
  BY CutAllIn
<1>3. step \in [T \X (1..n) -> T]
  BY <1>2
<1> HIDE DEF step
<1>4. PICK h \in [SUBSET (1..n) -> T] : Folds(h, n, base, step)
  BY <1>1, <1>3, FoldExists
<1>5. h = [r \in SUBSET (1..n) |-> IF r = {} THEN base ELSE CutAll(h[r \ {Max(r)}], s[Max(r)])]
  <2>1. ASSUME NEW r \in SUBSET (1..n), r # {} PROVE step[<<h[r \ {Max(r)}], Max(r)>>] = CutAll(h[r \ {Max(r)}], s[Max(r)])
    <3>1. h[r \ {Max(r)}] \in T /\ Max(r) \in 1..n
      BY <1>1, <2>1, MaxOf
    <3> QED
      BY <3>1 DEF step
  <2> QED
    BY <1>4, <2>1 DEF Folds
<1> DEFINE f == CHOOSE f : f = [r \in SUBSET (1..n) |-> IF r = {} THEN base ELSE CutAll(f[r \ {Max(r)}], s[Max(r)])]
<1>6. f = [r \in SUBSET (1..n) |-> IF r = {} THEN base ELSE CutAll(f[r \ {Max(r)}], s[Max(r)])]
  BY <1>5
<1>7. FoldLeft(CutAll, base, s) = f[1..n]
  BY <1>1 DEF FoldLeft, MapThenFoldSet
<1> DEFINE g == [k \in 0..n |-> f[1..k]]
<1> HIDE DEF f
<1>8. g[0] = base
  BY <1>6
<1>9. ASSUME NEW k \in 1..n PROVE g[k] = CutAll(g[k - 1], s[k])
  <2>1. 1..k \in SUBSET (1..n) /\ 1..k # {} /\ Max(1..k) = k /\ (1..k) \ {k} = 1..(k - 1)
    BY <1>1, Prefix
  <2>2. f[1..k] = CutAll(f[1..(k - 1)], s[k])
    BY <1>6, <2>1
  <2>3. k \in 0..n /\ k - 1 \in 0..n
    BY <1>1
  <2> QED
    BY <2>2, <2>3
<1> HIDE DEF g
<1> DEFINE S == {k \in 0..n : g[k] \in T}
<1>10. \A k \in 0..n : k \in S
  <2>1. 0 \in S
    <3>1. g[0] \in T /\ 0 \in 0..n
      BY <1>1, <1>8
    <3> QED
      BY <3>1
  <2>2. ASSUME NEW k \in 1..n, k - 1 \in S PROVE k \in S
    <3>1. g[k] \in T
      BY <1>2, <1>9, <2>2
    <3> QED
      BY <3>1
  <2> HIDE DEF S
  <2> QED
    BY <1>1, <2>1, <2>2, UpTo
<1>11. g \in [0..n -> T] /\ g[n] = f[1..n]
  BY <1>1, <1>10 DEF g
<1> QED
  BY <1>1, <1>7, <1>8, <1>9, <1>11

\* Subtracting takes away the instants of the cuts and no other (_subtract).
LEMMA SubtractIn ==
  ASSUME NEW base \in Seq(Intervals), NEW cuts \in Seq(Intervals)
  PROVE  /\ Subtract(base, cuts) \in Seq(Intervals)
         /\ \A t \in Int : In(Subtract(base, cuts), t) <=> In(base, t) /\ ~In(cuts, t)
<1> DEFINE s == Merge(cuts)
           n == Len(s)
<1>1. s \in Seq(Intervals) /\ \A t \in Int : In(s, t) <=> In(cuts, t)
  BY MergeCovers
<1>2. Subtract(base, cuts) = FoldLeft(CutAll, base, s)
  BY DEF Subtract
<1> HIDE DEF s
<1>3. n \in Nat /\ DOMAIN s = 1..n /\ \A i \in 1..n : s[i] \in Intervals
  BY <1>1, Positions
<1>4. PICK g \in [0..n -> Seq(Intervals)] :
        /\ g[0] = base /\ g[n] = FoldLeft(CutAll, base, s)
        /\ \A k \in 1..n : g[k] = CutAll(g[k - 1], s[k])
  BY <1>1, SubtractRuns
<1> HIDE DEF n
<1> DEFINE Cut(k, t) == \E i \in 1..k : s[i].start <= t /\ t < s[i].end
           Good(k) == \A t \in Int : In(g[k], t) <=> In(base, t) /\ ~Cut(k, t)
           S == {k \in 0..n : Good(k)}
<1>5. Good(0)
  BY <1>4
<1>6. ASSUME NEW k \in 1..n, Good(k - 1) PROVE Good(k)
  <2>1. k - 1 \in 0..n /\ k \in Nat /\ k >= 1
    BY <1>3
  <2>2. g[k - 1] \in Seq(Intervals) /\ g[k] = CutAll(g[k - 1], s[k]) /\ s[k] \in Intervals
    BY <1>3, <1>4, <2>1
  <2>3. \A t \in Int : In(CutAll(g[k - 1], s[k]), t) <=> In(g[k - 1], t) /\ ~(s[k].start <= t /\ t < s[k].end)
    BY <2>2, CutAllIn
  <2>4. \A i : i \in 1..k <=> i \in 1..(k - 1) \/ i = k
    BY <2>1
  <2>5. ASSUME NEW t \in Int PROVE Cut(k, t) <=> Cut(k - 1, t) \/ (s[k].start <= t /\ t < s[k].end)
    BY <2>4
  <2> HIDE DEF Cut
  <2>6. ASSUME NEW t \in Int PROVE In(g[k], t) <=> In(base, t) /\ ~Cut(k, t)
    <3>1. In(g[k], t) <=> In(g[k - 1], t) /\ ~(s[k].start <= t /\ t < s[k].end)
      BY <2>2, <2>3, Zenon
    <3>2. In(g[k - 1], t) <=> In(base, t) /\ ~Cut(k - 1, t)
      BY <1>6
    <3> QED
      BY <2>5, <3>1, <3>2, Zenon
  <2> QED
    BY <2>6
<1> HIDE DEF Good
<1>7. \A k \in 0..n : k \in S
  <2>1. 0 \in S
    BY <1>3, <1>5
  <2>2. ASSUME NEW k \in 1..n, k - 1 \in S PROVE k \in S
    BY <1>3, <1>6, <2>2
  <2> HIDE DEF S
  <2> QED
    BY <1>3, <2>1, <2>2, UpTo
<1>8. n \in 0..n
  BY <1>3
<1>9. Good(n) /\ Subtract(base, cuts) = g[n] /\ g[n] \in Seq(Intervals)
  BY <1>2, <1>4, <1>7, <1>8
<1>10. ASSUME NEW t \in Int PROVE In(g[n], t) <=> In(base, t) /\ ~In(cuts, t)
  <2>1. In(g[n], t) <=> In(base, t) /\ ~Cut(n, t)
    BY <1>9 DEF Good
  <2>2. Cut(n, t) <=> In(cuts, t)
    BY <1>1, <1>3 DEF In
  <2> HIDE DEF Cut
  <2> QED
    BY <2>1, <2>2, Zenon
<1> QED
  BY <1>9, <1>10

\* What can still be of use of the windows: no instant of the past (_generate_locked).
LEMMA PreparedIn ==
  ASSUME NEW r, r.stored \in Seq(Intervals), r.now \in Int
  PROVE  /\ Prepared(r) \in Seq(Intervals)
         /\ \A t \in Int : In(Prepared(r), t) <=> In(r.stored, t) /\ r.now <= t
         /\ \A k \in 1..Len(Prepared(r)) : \E i \in 1..Len(r.stored) :
              /\ r.stored[i].end > r.now
              /\ Prepared(r)[k] = Interval(Greater(r.stored[i].start, r.now), r.stored[i].end)
<1> DEFINE stored == r.stored
           now == r.now
           l == Len(stored)
           iv(i) == Interval(Greater(stored[i].start, now), stored[i].end)
           piece(i) == IF stored[i].end > now THEN <<iv(i)>> ELSE <<>>
           ss == [i \in DOMAIN stored |-> piece(i)]
<1>1. l \in Nat /\ DOMAIN stored = 1..l /\ \A i \in 1..l : stored[i] \in Intervals
  BY Positions
<1>2. \A i \in 1..l : stored[i].start \in Int /\ stored[i].end \in Int
  BY <1>1 DEF Intervals
<1>3. \A i \in 1..l : /\ iv(i) \in Intervals
                      /\ \A t \in Int : iv(i).start <= t /\ t < iv(i).end <=>
                           (stored[i].start <= t /\ t < stored[i].end) /\ now <= t
  BY <1>2 DEF Interval, Intervals, Greater
<1>4. Prepared(r) = FlattenSeq(ss)
  BY DEF Prepared
<1>a. now \in Int
  OBVIOUS
<1> HIDE DEF l, stored, now, iv
<1>5. ASSUME NEW i \in 1..l
      PROVE  /\ piece(i) \in Seq(Intervals)
             /\ \A t \in Int : In(piece(i), t) <=> (stored[i].start <= t /\ t < stored[i].end) /\ now <= t
             /\ \A e : Has(piece(i), e) => stored[i].end > now /\ e = iv(i)
  <2>1. CASE stored[i].end > now
    <3>1. piece(i) = <<iv(i)>> /\ iv(i) \in Intervals
      BY <1>3, <2>1
    <3>2. <<iv(i)>> \in Seq(Intervals) /\ \A t \in Int : In(<<iv(i)>>, t) <=> iv(i).start <= t /\ t < iv(i).end
      BY <3>1, OneIn
    <3>3. \A e : Has(<<iv(i)>>, e) => e = iv(i)
      BY DEF Has
    <3> HIDE DEF piece
    <3> QED
      BY <1>3, <2>1, <3>1, <3>2, <3>3
  <2>2. CASE ~(stored[i].end > now)
    <3>1. piece(i) = <<>> /\ ~\E t \in Int : now <= t /\ t < stored[i].end
      BY <1>2, <1>a, <2>2
    <3> HIDE DEF piece
    <3> QED
      BY <3>1 DEF In, Has
  <2> QED
    BY <2>1, <2>2
<1> HIDE DEF piece
<1>6. ss \in [1..l -> Seq(Intervals)] /\ \A i \in 1..l : ss[i] = piece(i)
  BY <1>1, <1>5
<1> HIDE DEF ss
<1>7. ss \in Seq(Seq(Intervals)) /\ Len(ss) = l
  BY <1>1, <1>6, OnFirst
<1>8. /\ FlattenSeq(ss) \in Seq(Intervals)
      /\ \A t \in Int : In(FlattenSeq(ss), t) <=> \E i \in 1..l : In(ss[i], t)
  BY <1>7, InFlattened
<1>9. \A e : Has(FlattenSeq(ss), e) <=> \E i \in 1..l : Has(ss[i], e)
  BY <1>7, Flattened
<1>10. ASSUME NEW t \in Int PROVE In(FlattenSeq(ss), t) <=> In(stored, t) /\ now <= t
  <2>1. \A i \in 1..l : In(ss[i], t) <=> (stored[i].start <= t /\ t < stored[i].end) /\ now <= t
    BY <1>5, <1>6
  <2>2. In(stored, t) <=> \E i \in 1..l : stored[i].start <= t /\ t < stored[i].end
    BY <1>1 DEF In
  <2> QED
    BY <1>8, <2>1, <2>2
<1>11. ASSUME NEW k \in 1..Len(FlattenSeq(ss))
       PROVE  \E i \in 1..l : stored[i].end > now /\ FlattenSeq(ss)[k] = iv(i)
  <2>1. PICK i \in 1..l : Has(ss[i], FlattenSeq(ss)[k])
    BY <1>9 DEF Has
  <2> QED
    BY <1>5, <1>6, <2>1
<1> QED
  BY <1>4, <1>8, <1>10, <1>11 DEF l, stored, now, iv

-----------------------------------------------------------------------------
(* Intersecting: the two pointers lose nothing.                            *)

Within(iv, t) == iv.start <= t /\ t < iv.end

Sweeps == [i : Nat \ {0}, j : Nat \ {0}, out : Seq(Intervals)]

\* What the pointers have not passed.
Rest(p, q, s, t) == \E i \in s.i .. Len(p), j \in s.j .. Len(q) : Within(p[i], t) /\ Within(q[j], t)

\* Nothing is lost and nothing added, and what is out lies apart and before what is to come.
SweepInv(p, q, s) ==
  /\ \A t \in Int : In(s.out, t) \/ Rest(p, q, s, t) <=> In(p, t) /\ In(q, t)
  /\ Apart(s.out) /\ Ordered(s.out)
  /\ s.i <= Len(p) /\ s.j <= Len(q) =>
       \A n \in DOMAIN s.out : s.out[n].end < p[s.i].start \/ s.out[n].end < q[s.j].start

\* One more interval at the end, beyond all the others.
LEMMA AppendApart ==
  ASSUME NEW out \in Seq(Intervals), NEW lo \in Int, NEW hi \in Int, Apart(out), Ordered(out),
         lo < hi => \A n \in DOMAIN out : out[n].end < lo
  PROVE  /\ out \o Proper(lo, hi) \in Seq(Intervals)
         /\ Apart(out \o Proper(lo, hi)) /\ Ordered(out \o Proper(lo, hi))
         /\ \A n \in DOMAIN (out \o Proper(lo, hi)) :
              (out \o Proper(lo, hi))[n].end = hi \/ \E m \in DOMAIN out : (out \o Proper(lo, hi))[n] = out[m]
<1> DEFINE z == out \o Proper(lo, hi)
           l == Len(out)
<1>1. l \in Nat /\ DOMAIN out = 1..l
  OBVIOUS
<1>2. CASE lo < hi
  <2>1. Proper(lo, hi) = <<Interval(lo, hi)>> /\ Interval(lo, hi) \in Intervals
    BY <1>2 DEF Proper, Interval, Intervals
  <2>2. z \in Seq(Intervals) /\ DOMAIN z = 1..(l + 1) /\ z[l + 1] = Interval(lo, hi) /\ \A i \in 1..l : z[i] = out[i]
    BY <2>1
  <2> HIDE DEF z, l
  <2>3. z[l + 1].start = lo /\ z[l + 1].end = hi
    BY <2>2 DEF Interval
  <2>4. \A i \in 1..(l + 1) : i \in 1..l \/ i = l + 1
    BY <1>1
  <2>5. Ordered(z)
    BY <1>1, <1>2, <2>2, <2>3, <2>4 DEF Ordered
  <2>6. ASSUME NEW i \in 1..(l + 1), NEW j \in 1..(l + 1), i < j PROVE z[i].end < z[j].start
    <3>1. i \in 1..l
      BY <1>1, <2>6
    <3>2. CASE j \in 1..l
      BY <1>1, <2>2, <2>6, <3>1, <3>2 DEF Apart
    <3>3. CASE j = l + 1
      BY <1>1, <1>2, <2>2, <2>3, <3>1, <3>3
    <3> QED
      BY <2>4, <3>2, <3>3
  <2>7. Apart(z)
    BY <2>2, <2>6 DEF Apart
  <2>8. \A n \in DOMAIN z : z[n].end = hi \/ \E m \in DOMAIN out : z[n] = out[m]
    BY <1>1, <2>2, <2>3, <2>4
  <2> QED
    BY <2>2, <2>5, <2>7, <2>8 DEF z
<1>3. CASE ~(lo < hi)
  <2>1. Proper(lo, hi) = <<>>
    BY <1>3 DEF Proper
  <2>2. z = out
    BY <2>1
  <2> QED
    BY <2>2
<1> QED
  BY <1>2, <1>3

\* A round keeps the pointers and the result what they are.
LEMMA SweepTyped ==
  ASSUME NEW p \in Seq(Intervals), NEW q \in Seq(Intervals), NEW s \in Sweeps
  PROVE  Sweep(p, q, s) \in Sweeps
<1>1. CASE s.i > Len(p) \/ s.j > Len(q)
  BY <1>1 DEF Sweep
<1>2. CASE ~(s.i > Len(p) \/ s.j > Len(q))
  <2> DEFINE lo == Greater(p[s.i].start, q[s.j].start)
             hi == Lesser(p[s.i].end, q[s.j].end)
  <2>1. s.i \in Nat \ {0} /\ s.j \in Nat \ {0} /\ s.out \in Seq(Intervals)
    BY DEF Sweeps
  <2>2. s.i \in 1..Len(p) /\ s.j \in 1..Len(q)
    BY <1>2, <2>1
  <2>3. p[s.i] \in Intervals /\ q[s.j] \in Intervals
    BY <2>2, Positions
  <2>4. lo \in Int /\ hi \in Int
    BY <2>3 DEF Intervals, Greater, Lesser
  <2> HIDE DEF lo, hi
  <2>5. Proper(lo, hi) \in Seq(Intervals)
    BY <2>4, ProperIn
  <2>6. s.out \o Proper(lo, hi) \in Seq(Intervals)
    BY <2>1, <2>5, ConcatProperties
  <2> QED
    BY <1>2, <2>1, <2>6 DEF Sweep, Sweeps, lo, hi
<1> QED
  BY <1>1, <1>2

\* What the current two have in common is out, and the one that ends first has no more to give.
LEMMA SweepStep ==
  ASSUME NEW p \in Seq(Intervals), NEW q \in Seq(Intervals), NEW s \in Sweeps,
         Apart(p), Ordered(p), Apart(q), Ordered(q), SweepInv(p, q, s)
  PROVE  Sweep(p, q, s) \in Sweeps /\ SweepInv(p, q, Sweep(p, q, s))
<1>1. CASE s.i > Len(p) \/ s.j > Len(q)
  BY <1>1 DEF Sweep
<1>2. CASE ~(s.i > Len(p) \/ s.j > Len(q))
  <2> DEFINE i == s.i
             j == s.j
             m == Len(p)
             n == Len(q)
             lo == Greater(p[i].start, q[j].start)
             hi == Lesser(p[i].end, q[j].end)
             first == p[i].end < q[j].end
             x == IF first THEN i + 1 ELSE i
             y == IF first THEN j ELSE j + 1
             out == s.out \o Proper(lo, hi)
             u == [i |-> x, j |-> y, out |-> out]
  <2>1. i \in Nat \ {0} /\ j \in Nat \ {0} /\ s.out \in Seq(Intervals)
    BY DEF Sweeps
  <2>2. m \in Nat /\ n \in Nat /\ DOMAIN p = 1..m /\ DOMAIN q = 1..n
    OBVIOUS
  <2>3. i \in 1..m /\ j \in 1..n
    BY <1>2, <2>1, <2>2
  <2>4. (\A k \in 1..m : p[k] \in Intervals) /\ (\A k \in 1..n : q[k] \in Intervals)
    BY Positions
  <2>5. /\ \A k \in 1..m : p[k].start \in Int /\ p[k].end \in Int
        /\ \A k \in 1..n : q[k].start \in Int /\ q[k].end \in Int
    BY <2>4 DEF Intervals
  <2>6. /\ lo \in Int /\ hi \in Int /\ lo >= p[i].start /\ lo >= q[j].start
        /\ lo \in {p[i].start, q[j].start}
        /\ hi = IF first THEN p[i].end ELSE q[j].end
    BY <2>3, <2>5 DEF Greater, Lesser
  <2>7. ASSUME NEW t \in Int PROVE lo <= t /\ t < hi <=> Within(p[i], t) /\ Within(q[j], t)
    BY <2>3, <2>5 DEF Greater, Lesser, Within
  <2>8. Sweep(p, q, s) = u
    BY <1>2 DEF Sweep
  <2> HIDE DEF lo, hi
  <2>9. /\ out \in Seq(Intervals) /\ Apart(out) /\ Ordered(out)
        /\ \A k \in DOMAIN out : out[k].end = hi \/ \E l \in DOMAIN s.out : out[k] = s.out[l]
    <3>1. DOMAIN s.out = 1..Len(s.out) /\ \A l \in DOMAIN s.out : s.out[l] \in Intervals
      BY <2>1
    <3>2. \A l \in DOMAIN s.out : s.out[l].end \in Int
      BY <3>1 DEF Intervals
    <3>3. \A l \in DOMAIN s.out : s.out[l].end < lo
      <4>1. i <= m /\ j <= n
        BY <2>2, <2>3
      <4>2. \A l \in DOMAIN s.out : s.out[l].end < p[i].start \/ s.out[l].end < q[j].start
        BY <4>1 DEF SweepInv
      <4>3. p[i].start \in Int /\ q[j].start \in Int
        BY <2>3, <2>5
      <4> HIDE DEF i, j
      <4> QED
        BY <2>6, <3>2, <4>2, <4>3
    <3>4. Apart(s.out) /\ Ordered(s.out)
      BY DEF SweepInv
    <3> QED
      BY <2>1, <2>6, <3>3, <3>4, AppendApart
  <2>10. \A t \in Int : In(out, t) <=> In(s.out, t) \/ (lo <= t /\ t < hi)
    <3>1. /\ Proper(lo, hi) \in Seq(Intervals)
          /\ \A t \in Int : In(Proper(lo, hi), t) <=> lo <= t /\ t < hi
      BY <2>6, ProperIn
    <3> HIDE DEF lo, hi
    <3>2. \A t \in Int : In(out, t) <=> In(s.out, t) \/ In(Proper(lo, hi), t)
      BY <2>1, <3>1, ConcatIn
    <3> QED
      BY <3>1, <3>2
  <2>11. u \in Sweeps
    BY <2>1, <2>9 DEF Sweeps
  <2>12. u.i = x /\ u.j = y /\ u.out = out
    OBVIOUS
  <2> HIDE DEF out, u
  <2>13. x \in Nat /\ y \in Nat /\ (first => x = i + 1 /\ y = j) /\ (~first => x = i /\ y = j + 1)
    BY <2>1
  <2>14. ASSUME x <= m, y <= n, NEW k \in DOMAIN out PROVE out[k].end < p[x].start \/ out[k].end < q[y].start
    <3>1. x \in 1..m /\ y \in 1..n
      BY <2>1, <2>13, <2>14
    <3>2. (first => p[i].end < p[x].start) /\ (~first => q[j].end < q[y].start)
      BY <2>1, <2>2, <2>3, <2>13, <3>1 DEF Apart
    <3>3. p[i].start <= p[i].end /\ q[j].start <= q[j].end
      BY <2>2, <2>3 DEF Ordered
    <3>4. CASE out[k].end = hi
      BY <2>6, <3>2, <3>4
    <3>5. ASSUME NEW l \in DOMAIN s.out, out[k] = s.out[l] PROVE out[k].end < p[x].start \/ out[k].end < q[y].start
      <4>1. s.out[l].end < p[i].start \/ s.out[l].end < q[j].start
        BY <1>2, <2>1, <2>2 DEF SweepInv
      <4>2. s.out[l].end \in Int
        <5>1. s.out[l] \in Intervals
          BY <2>1, <3>5
        <5> QED
          BY <5>1 DEF Intervals
      <4>3. CASE first
        BY <2>3, <2>5, <2>13, <3>1, <3>2, <3>3, <3>5, <4>1, <4>2, <4>3
      <4>4. CASE ~first
        BY <2>3, <2>5, <2>13, <3>1, <3>2, <3>3, <3>5, <4>1, <4>2, <4>4
      <4> QED
        BY <4>3, <4>4
    <3> QED
      BY <2>9, <3>4, <3>5
  <2>15. ASSUME NEW t \in Int PROVE In(out, t) \/ Rest(p, q, u, t) <=> In(p, t) /\ In(q, t)
    <3>1. In(s.out, t) \/ Rest(p, q, s, t) <=> In(p, t) /\ In(q, t)
      BY DEF SweepInv
    <3>2. ASSUME NEW k \in i..m, NEW l \in j..n, Within(p[k], t), Within(q[l], t)
          PROVE  (lo <= t /\ t < hi) \/ (k \in x..m /\ l \in y..n)
      <4>1. k \in 1..m /\ l \in 1..n /\ k >= i /\ l >= j
        BY <2>1, <2>2, <3>2
      <4>2. CASE first
        <5>1. k = i => l = j
          <6>1. SUFFICES ASSUME k = i, l # j PROVE FALSE
            OBVIOUS
          <6>2. q[j].end < q[l].start
            BY <2>1, <2>2, <2>3, <4>1, <6>1 DEF Apart
          <6> QED
            BY <2>3, <2>5, <3>2, <4>1, <4>2, <6>1, <6>2 DEF Within
        <5>2. k # i => k \in x..m /\ l \in y..n
          BY <2>1, <2>2, <2>13, <4>1, <4>2
        <5> QED
          BY <2>7, <3>2, <5>1, <5>2
      <4>3. CASE ~first
        <5>1. l = j => k = i
          <6>1. SUFFICES ASSUME l = j, k # i PROVE FALSE
            OBVIOUS
          <6>2. p[i].end < p[k].start
            BY <2>1, <2>2, <2>3, <4>1, <6>1 DEF Apart
          <6> QED
            BY <2>3, <2>5, <3>2, <4>1, <4>3, <6>1, <6>2 DEF Within
        <5>2. l # j => k \in x..m /\ l \in y..n
          BY <2>1, <2>2, <2>13, <4>1, <4>3
        <5> QED
          BY <2>7, <3>2, <5>1, <5>2
      <4> QED
        BY <4>2, <4>3
    <3>3. Rest(p, q, s, t) => (lo <= t /\ t < hi) \/ Rest(p, q, u, t)
      BY <2>12, <3>2 DEF Rest
    <3>4. Rest(p, q, u, t) => Rest(p, q, s, t)
      <4>1. \A k \in x..m : k \in i..m
        BY <2>1, <2>2, <2>13
      <4>2. \A k \in y..n : k \in j..n
        BY <2>1, <2>2, <2>13
      <4> QED
        BY <2>12, <4>1, <4>2 DEF Rest
    <3>5. (lo <= t /\ t < hi) => Rest(p, q, s, t)
      <4>1. i \in i..m /\ j \in j..n
        BY <2>2, <2>3
      <4> QED
        BY <2>7, <4>1 DEF Rest
    <3>6. In(out, t) <=> In(s.out, t) \/ (lo <= t /\ t < hi)
      BY <2>10
    <3> QED
      BY <3>1, <3>3, <3>4, <3>5, <3>6, Zenon
  <2>16. SweepInv(p, q, u)
    BY <2>9, <2>12, <2>14, <2>15 DEF SweepInv
  <2> QED
    BY <2>8, <2>11, <2>16
<1> QED
  BY <1>1, <1>2

\* The pointers move in rounds, and after as many rounds as there are intervals one is at its end.
LEMMA IntersectRuns ==
  ASSUME NEW p \in Seq(Intervals), NEW q \in Seq(Intervals), NEW n \in Nat
  PROVE  \E g \in [0..n -> Sweeps] :
           /\ g[0] = [i |-> 1, j |-> 1, out |-> <<>>]
           /\ g[n] = FoldLeft(LAMBDA s, round : Sweep(p, q, s), [i |-> 1, j |-> 1, out |-> <<>>],
                              [k \in 1..n |-> k])
           /\ \A k \in 1..n : g[k] = Sweep(p, q, g[k - 1])
<1> DEFINE T == Sweeps
           base == [i |-> 1, j |-> 1, out |-> <<>>]
           step == [x \in T \X (1..n) |-> Sweep(p, q, x[1])]
<1>1. base \in T
  BY DEF Sweeps
<1>2. ASSUME NEW s \in T PROVE Sweep(p, q, s) \in T
  BY SweepTyped
<1>3. step \in [T \X (1..n) -> T]
  BY <1>2
<1> HIDE DEF step, base, T
<1>4. PICK h \in [SUBSET (1..n) -> T] : Folds(h, n, base, step)
  BY <1>1, <1>3, FoldExists
<1>5. h = [r \in SUBSET (1..n) |-> IF r = {} THEN base ELSE Sweep(p, q, h[r \ {Max(r)}])]
  <2>1. ASSUME NEW r \in SUBSET (1..n), r # {} PROVE step[<<h[r \ {Max(r)}], Max(r)>>] = Sweep(p, q, h[r \ {Max(r)}])
    <3>1. h[r \ {Max(r)}] \in T /\ Max(r) \in 1..n
      BY <1>1, <2>1, MaxOf
    <3> QED
      BY <3>1 DEF step
  <2> QED
    BY <1>4, <2>1 DEF Folds
<1> DEFINE f == CHOOSE f : f = [r \in SUBSET (1..n) |-> IF r = {} THEN base ELSE Sweep(p, q, f[r \ {Max(r)}])]
<1>6. f = [r \in SUBSET (1..n) |-> IF r = {} THEN base ELSE Sweep(p, q, f[r \ {Max(r)}])]
  BY <1>5
<1>7. FoldLeft(LAMBDA s, round : Sweep(p, q, s), base, [k \in 1..n |-> k]) = f[1..n]
  BY DEF FoldLeft, MapThenFoldSet
<1> DEFINE g == [k \in 0..n |-> f[1..k]]
<1> HIDE DEF f
<1>8. g[0] = base
  BY <1>6
<1>9. ASSUME NEW k \in 1..n PROVE g[k] = Sweep(p, q, g[k - 1])
  <2>1. 1..k \in SUBSET (1..n) /\ 1..k # {} /\ Max(1..k) = k /\ (1..k) \ {k} = 1..(k - 1)
    BY Prefix
  <2>2. f[1..k] = Sweep(p, q, f[1..(k - 1)])
    BY <1>6, <2>1
  <2>3. k \in 0..n /\ k - 1 \in 0..n
    OBVIOUS
  <2> QED
    BY <2>2, <2>3
<1> HIDE DEF g
<1> DEFINE S == {k \in 0..n : g[k] \in T}
<1>10. \A k \in 0..n : k \in S
  <2>1. 0 \in S
    <3>1. g[0] \in T /\ 0 \in 0..n
      BY <1>1, <1>8
    <3> QED
      BY <3>1
  <2>2. ASSUME NEW k \in 1..n, k - 1 \in S PROVE k \in S
    <3>1. g[k] \in T
      BY <1>2, <1>9, <2>2
    <3> QED
      BY <3>1
  <2> HIDE DEF S
  <2> QED
    BY <2>1, <2>2, UpTo
<1>11. g \in [0..n -> T] /\ g[n] = f[1..n]
  BY <1>10 DEF g
<1> QED
  BY <1>7, <1>8, <1>9, <1>11 DEF T, base

\* A round moves one pointer by one, unless one has arrived.
LEMMA SweepMoves ==
  ASSUME NEW p, NEW q, NEW s \in Sweeps, ~(s.i > Len(p) \/ s.j > Len(q))
  PROVE  Sweep(p, q, s).i + Sweep(p, q, s).j = s.i + s.j + 1
<1>1. s.i \in Nat /\ s.j \in Nat
  BY DEF Sweeps
<1> QED
  BY <1>1 DEF Sweep

\* Intersecting keeps the instants in both and no other (_intersect).
LEMMA IntersectIn ==
  ASSUME NEW a \in Seq(Intervals), NEW b \in Seq(Intervals), Ordered(a), Ordered(b)
  PROVE  /\ Intersect(a, b) \in Seq(Intervals) /\ Apart(Intersect(a, b)) /\ Ordered(Intersect(a, b))
         /\ \A t \in Int : In(Intersect(a, b), t) <=> In(a, t) /\ In(b, t)
<1> DEFINE p == Merge(a)
           q == Merge(b)
           n == Len(p) + Len(q)
           base == [i |-> 1, j |-> 1, out |-> <<>>]
<1>1. /\ p \in Seq(Intervals) /\ Apart(p) /\ Ordered(p) /\ \A t \in Int : In(p, t) <=> In(a, t)
      /\ q \in Seq(Intervals) /\ Apart(q) /\ Ordered(q) /\ \A t \in Int : In(q, t) <=> In(b, t)
  BY MergeCovers
<1>2. Intersect(a, b) = FoldLeft(LAMBDA s, round : Sweep(p, q, s), base, [k \in 1..n |-> k]).out
  BY DEF Intersect
<1> HIDE DEF p, q
<1>3. Len(p) \in Nat /\ Len(q) \in Nat /\ n \in Nat /\ DOMAIN p = 1..Len(p) /\ DOMAIN q = 1..Len(q)
  BY <1>1
<1>4. PICK g \in [0..n -> Sweeps] :
        /\ g[0] = base
        /\ g[n] = FoldLeft(LAMBDA s, round : Sweep(p, q, s), base, [k \in 1..n |-> k])
        /\ \A k \in 1..n : g[k] = Sweep(p, q, g[k - 1])
  BY <1>1, <1>3, IntersectRuns
<1>5. base.i = 1 /\ base.j = 1 /\ base.out = <<>>
  OBVIOUS
<1> HIDE DEF base
<1> DEFINE Done(s) == s.i > Len(p) \/ s.j > Len(q)
           Good(k) == SweepInv(p, q, g[k]) /\ (Done(g[k]) \/ g[k].i + g[k].j = k + 2)
           S == {k \in 0..n : Good(k)}
<1>6. Good(0)
  <2>1. ASSUME NEW t \in Int PROVE In(base.out, t) \/ Rest(p, q, base, t) <=> In(p, t) /\ In(q, t)
    <3>1. ~In(base.out, t)
      BY <1>5 DEF In
    <3>2. Rest(p, q, base, t) <=> \E i \in 1..Len(p), j \in 1..Len(q) : Within(p[i], t) /\ Within(q[j], t)
      BY <1>5 DEF Rest
    <3>3. /\ In(p, t) <=> \E i \in 1..Len(p) : Within(p[i], t)
          /\ In(q, t) <=> \E j \in 1..Len(q) : Within(q[j], t)
      BY <1>3 DEF In, Within
    <3> QED
      BY <3>1, <3>2, <3>3
  <2>2. SweepInv(p, q, base)
    BY <1>5, <2>1 DEF SweepInv, Apart, Ordered
  <2>3. g[0] = base
    BY <1>4
  <2>4. SweepInv(p, q, g[0])
    BY <2>2, <2>3
  <2>5. g[0].i + g[0].j = 0 + 2
    BY <1>5, <2>3
  <2> QED
    BY <2>4, <2>5
<1>7. ASSUME NEW k \in 1..n, Good(k - 1) PROVE Good(k)
  <2>1. k - 1 \in 0..n /\ k \in Int
    BY <1>3
  <2>2. g[k - 1] \in Sweeps /\ g[k] = Sweep(p, q, g[k - 1])
    BY <1>4, <2>1
  <2>3. SweepInv(p, q, g[k])
    BY <1>1, <1>7, <2>2, SweepStep
  <2>4. Done(g[k]) \/ g[k].i + g[k].j = k + 2
    <3>1. CASE Done(g[k - 1])
      BY <2>2, <3>1 DEF Sweep
    <3>2. CASE ~Done(g[k - 1])
      <4>1. g[k].i + g[k].j = g[k - 1].i + g[k - 1].j + 1
        BY <2>2, <3>2, SweepMoves
      <4>2. g[k - 1].i + g[k - 1].j = (k - 1) + 2
        BY <1>7, <3>2
      <4> QED
        BY <2>1, <4>1, <4>2
    <3> QED
      BY <3>1, <3>2
  <2> QED
    BY <2>3, <2>4
<1> HIDE DEF Good
<1>8. \A k \in 0..n : k \in S
  <2>1. 0 \in S
    BY <1>3, <1>6
  <2>2. ASSUME NEW k \in 1..n, k - 1 \in S PROVE k \in S
    BY <1>3, <1>7, <2>2
  <2> HIDE DEF S, n
  <2> QED
    BY <1>3, <2>1, <2>2, UpTo
<1> DEFINE s == g[n]
<1>9. Good(n) /\ s \in Sweeps /\ Intersect(a, b) = s.out
  <2>1. n \in 0..n
    BY <1>3
  <2> QED
    BY <1>2, <1>4, <1>8, <2>1
<1>10. Done(s)
  <2>1. Done(s) \/ s.i + s.j = n + 2
    BY <1>9 DEF Good
  <2>2. s.i \in Nat /\ s.j \in Nat
    BY <1>9 DEF Sweeps
  <2> QED
    BY <1>3, <2>1, <2>2
<1>11. s.out \in Seq(Intervals) /\ SweepInv(p, q, s)
  BY <1>9 DEF Good, Sweeps
<1> HIDE DEF s
<1>12. ASSUME NEW t \in Int PROVE In(s.out, t) <=> In(a, t) /\ In(b, t)
  <2>1. ~Rest(p, q, s, t)
    <3>1. s.i \in Nat /\ s.j \in Nat
      BY <1>9 DEF s, Sweeps
    <3> QED
      BY <1>3, <1>10, <3>1 DEF Rest
  <2>2. In(s.out, t) \/ Rest(p, q, s, t) <=> In(p, t) /\ In(q, t)
    BY <1>11 DEF SweepInv
  <2>3. (In(p, t) <=> In(a, t)) /\ (In(q, t) <=> In(b, t))
    BY <1>1
  <2> QED
    BY <2>1, <2>2, <2>3, Zenon
<1> QED
  BY <1>9, <1>11, <1>12 DEF SweepInv

-----------------------------------------------------------------------------
(* Days: division, and the hours of work.                                  *)

\* A number is its quotient times the divisor and the remainder.
LEMMA Division ==
  ASSUME NEW D \in Nat \ {0}, NEW x \in Int
  PROVE  /\ x \div D \in Int /\ x % D \in 0..(D - 1)
         /\ x = (x \div D) * D + (x % D)
OBVIOUS

\* Multiples are a divisor apart.
LEMMA Multiples ==
  ASSUME NEW D \in Nat, NEW a \in Int, NEW b \in Int, a < b
  PROVE  a * D + D <= b * D
<1>1. (b - a - 1) * D >= 0
  <2>1. b - a - 1 \in Nat
    OBVIOUS
  <2> QED
    BY <2>1
<1>2. (b - a - 1) * D = b * D - a * D - D
  OBVIOUS
<1>3. a * D \in Int /\ b * D \in Int
  OBVIOUS
<1> QED
  BY <1>1, <1>2, <1>3

\* What is left of a multiple and less than the divisor is that much.
LEMMA Quotient ==
  ASSUME NEW D \in Nat \ {0}, NEW k \in Int, NEW r \in 0..(D - 1)
  PROVE  (k * D + r) \div D = k /\ (k * D + r) % D = r
<1> DEFINE x == k * D + r
           q == x \div D
<1>1. x \in Int /\ k * D \in Int
  OBVIOUS
<1>2. q \in Int /\ x % D \in 0..(D - 1) /\ x = q * D + (x % D)
  BY <1>1, Division
<1>3. q * D \in Int
  BY <1>2
<1>. HIDE DEF q
<1>4. ~(q < k)
  <2>1. q < k => q * D + D <= k * D
    BY <1>2, Multiples
  <2> QED
    BY <1>1, <1>2, <1>3, <2>1
<1>5. ~(k < q)
  <2>1. k < q => k * D + D <= q * D
    BY <1>2, Multiples
  <2> QED
    BY <1>1, <1>2, <1>3, <2>1
<1>6. q = k
  BY <1>2, <1>4, <1>5
<1> QED
  BY <1>1, <1>2, <1>6 DEF q

\* The working hours lie within the day (engine.py, its constants).
LEMMA DayFacts ==
  /\ Day \in Nat \ {0} /\ DayStart \in 0..(Day - 1) /\ DayEnd \in 1..Day /\ DayStart < DayEnd
BY HoursAssumption

\* The day of a time.
LEMMA DayOf ==
  ASSUME NEW x \in Int
  PROVE  /\ x \div Day \in Int /\ (x \div Day) * Day \in Int
         /\ (x \div Day) * Day <= x /\ x < (x \div Day) * Day + Day
<1> DEFINE q == x \div Day
           w == q * Day
           r == x % Day
<1>1. q \in Int /\ r \in 0..(Day - 1) /\ x = w + r
  BY DayFacts, Division
<1>2. w \in Int
  BY <1>1, DayFacts
<1> HIDE DEF w, r
<1>3. w <= x /\ x < w + Day
  BY <1>1, <1>2, DayFacts
<1> QED
  BY <1>1, <1>2, <1>3 DEF w

\* A time that is neither skipped nor repeated has come exactly when the clock says so.
LEMMA UtcLocal ==
  ASSUME NEW z \in Clocks, NEW b \in Int,
         b <= Lesser(z.at + z.before, z.at + z.after) \/ Greater(z.at + z.before, z.at + z.after) <= b
  PROVE  Utc(z, b) \in Int /\ \A t \in Int : Utc(z, b) <= t <=> b <= Local(z, t)
<1>1. z.at \in Int /\ z.before \in Int /\ z.after \in Int
  BY DEF Clocks
<1> QED
  BY <1>1 DEF Utc, Local, Lesser, Greater

\* The beginning and the end of every working day are such times.
LEMMA PlainBounds ==
  ASSUME NEW z \in Clocks, PlainHours(z), NEW k \in Int, NEW b \in {k * Day + DayStart, k * Day + DayEnd}
  PROVE  b \in Int /\ Utc(z, b) \in Int /\ \A t \in Int : Utc(z, b) <= t <=> b <= Local(z, t)
<1>1. z.at + z.before \in Int /\ z.at + z.after \in Int
  BY DEF Clocks
<1> DEFINE x == z.at + z.before
           y == z.at + z.after
           lo == Lesser(x, y)
           hi == Greater(x, y)
<1>2. lo \in Int /\ hi \in Int
  BY <1>1 DEF Lesser, Greater
<1>3. k * Day \in Int /\ b \in Int
  BY DayFacts
<1>4. b % Day \in {DayStart, DayEnd % Day}
  <2>1. CASE b = k * Day + DayStart
    BY <2>1, DayFacts, Quotient
  <2>2. CASE b = k * Day + DayEnd /\ DayEnd < Day
    <3>1. DayEnd \in 0..(Day - 1) /\ DayEnd = 0 * Day + DayEnd
      BY <2>2, DayFacts
    <3>2. (k * Day + DayEnd) % Day = DayEnd /\ (0 * Day + DayEnd) % Day = DayEnd
      BY <3>1, DayFacts, Quotient
    <3> QED
      BY <2>2, <3>1, <3>2
  <2>3. CASE b = k * Day + DayEnd /\ DayEnd = Day
    <3>1. b = (k + 1) * Day + 0 /\ Day = 1 * Day + 0 /\ 0 \in 0..(Day - 1) /\ k + 1 \in Int
      BY <2>3, DayFacts
    <3>2. ((k + 1) * Day + 0) % Day = 0 /\ (1 * Day + 0) % Day = 0
      BY <3>1, DayFacts, Quotient
    <3> QED
      BY <2>3, <3>1, <3>2
  <2> QED
    BY <2>1, <2>2, <2>3, DayFacts
<1>5. \A l \in lo + 1 .. hi - 1 : l % Day \notin {DayStart, DayEnd % Day}
  BY DEF PlainHours
<1> HIDE DEF lo, hi, x, y
<1>6. b <= lo \/ hi <= b
  <2>1. b \notin lo + 1 .. hi - 1
    BY <1>4, <1>5
  <2> QED
    BY <1>2, <1>3, <2>1
<1> QED
  BY <1>3, <1>6, UtcLocal DEF lo, hi, x, y

\* Being at work is being inside the hours of some day.
LEMMA AtWorkDay ==
  ASSUME NEW z \in Clocks, NEW t \in Int
  PROVE  /\ Local(z, t) \in Int
         /\ AtWork(z, t) => /\ Local(z, t) \div Day \in Int
                            /\ (Local(z, t) \div Day) * Day + DayStart <= Local(z, t)
                            /\ Local(z, t) < (Local(z, t) \div Day) * Day + DayEnd
         /\ \A k \in Int : k * Day + DayStart <= Local(z, t) /\ Local(z, t) < k * Day + DayEnd => AtWork(z, t)
<1> DEFINE l == Local(z, t)
<1>1. l \in Int
  BY DEF Local, Clocks
<1> HIDE DEF l
<1>2. l \div Day \in Int /\ l % Day \in 0..(Day - 1) /\ l = (l \div Day) * Day + (l % Day)
  BY <1>1, DayFacts, Division
<1>3. ASSUME DayStart <= l % Day, l % Day < DayEnd
      PROVE  (l \div Day) * Day + DayStart <= l /\ l < (l \div Day) * Day + DayEnd
  <2> DEFINE w == (l \div Day) * Day
             r == l % Day
  <2>1. w \in Int /\ r \in 0..(Day - 1) /\ l = w + r /\ DayStart <= r /\ r < DayEnd
    BY <1>2, <1>3, DayFacts
  <2> HIDE DEF w, r
  <2>2. w + DayStart <= l /\ l < w + DayEnd
    BY <2>1, DayFacts
  <2> QED
    BY <2>2 DEF w
<1>4. ASSUME NEW k \in Int, k * Day + DayStart <= l, l < k * Day + DayEnd
      PROVE  DayStart <= l % Day /\ l % Day < DayEnd
  <2>1. k * Day \in Int
    BY DayFacts
  <2> DEFINE r == l - k * Day
  <2>2. r \in 0..(Day - 1) /\ l = k * Day + r /\ DayStart <= r /\ r < DayEnd
    BY <1>1, <1>4, <2>1, DayFacts
  <2> HIDE DEF r
  <2>3. (k * Day + r) % Day = r
    BY <2>2, DayFacts, Quotient
  <2> QED
    BY <2>2, <2>3
<1> QED
  BY <1>1, <1>2, <1>3, <1>4 DEF l, AtWork

\* The working hours of the days of a span: nobody is at work outside them, and inside
\* them everybody is (_working_intervals).
LEMMA WorkingIn ==
  ASSUME NEW z \in Clocks, PlainHours(z), NEW span \in Intervals
  PROVE  /\ WorkingIntervals(z, span) \in Seq(Intervals) /\ Ordered(WorkingIntervals(z, span))
         /\ \A t \in Int : In(WorkingIntervals(z, span), t) => AtWork(z, t)
         /\ \A t \in Int : span.start <= t /\ t < span.end /\ AtWork(z, t) => In(WorkingIntervals(z, span), t)
<1> DEFINE first == Local(z, span.start) \div Day
           last  == Local(z, span.end) \div Day
           m     == last - first + 1
           l     == IF m < 0 THEN 0 ELSE m
           day(n) == first + n - 1
           hours(n) == Interval(Utc(z, day(n) * Day + DayStart), Utc(z, day(n) * Day + DayEnd))
           days  == [n \in 1..m |-> hours(n)]
<1>1. WorkingIntervals(z, span) = Merge(days)
  BY DEF WorkingIntervals
<1>2. span.start \in Int /\ span.end \in Int /\ Local(z, span.start) \in Int /\ Local(z, span.end) \in Int
  BY DEF Intervals, Local, Clocks
<1>3. first \in Int /\ last \in Int
  BY <1>2, DayFacts, Division
<1>4. first * Day <= Local(z, span.start) /\ Local(z, span.end) < last * Day + Day
  BY <1>2, DayOf
<1> HIDE DEF first, last
<1>5. m \in Int /\ l \in Nat /\ 1..m = 1..l
  BY <1>3
<1>6. \A n \in 1..l : day(n) \in Int
  BY <1>3
<1>7. ASSUME NEW n \in 1..l
      PROVE  /\ hours(n) \in Intervals /\ hours(n).start <= hours(n).end
             /\ \A t \in Int : hours(n).start <= t /\ t < hours(n).end <=>
                  day(n) * Day + DayStart <= Local(z, t) /\ Local(z, t) < day(n) * Day + DayEnd
  <2> DEFINE s == day(n) * Day + DayStart
             e == day(n) * Day + DayEnd
  <2>1. day(n) \in Int
    BY <1>6
  <2>2. s \in Int /\ Utc(z, s) \in Int /\ \A t \in Int : Utc(z, s) <= t <=> s <= Local(z, t)
    BY <2>1, PlainBounds
  <2>3. e \in Int /\ Utc(z, e) \in Int /\ \A t \in Int : Utc(z, e) <= t <=> e <= Local(z, t)
    BY <2>1, PlainBounds
  <2>4. s < e
    <3>1. day(n) * Day \in Int
      BY <2>1, DayFacts
    <3> QED
      BY <3>1, DayFacts
  <2>5. \A t \in Int : Local(z, t) \in Int
    BY DEF Local, Clocks
  <2>6. hours(n).start = Utc(z, s) /\ hours(n).end = Utc(z, e) /\ hours(n) \in Intervals
    BY <2>2, <2>3 DEF Interval, Intervals
  <2> HIDE DEF s, e, day, hours
  <2>7. Utc(z, s) <= Utc(z, e)
    <3>1. e <= Local(z, Utc(z, e))
      BY <2>3
    <3>2. s <= Local(z, Utc(z, e))
      BY <2>2, <2>3, <2>4, <2>5, <3>1
    <3> QED
      BY <2>2, <2>3, <3>2
  <2>8. ASSUME NEW t \in Int PROVE hours(n).start <= t /\ t < hours(n).end <=> s <= Local(z, t) /\ Local(z, t) < e
    <3>1. Local(z, t) \in Int
      BY <2>5
    <3>2. (hours(n).start <= t <=> s <= Local(z, t)) /\ (hours(n).end <= t <=> e <= Local(z, t))
      BY <2>2, <2>3, <2>6
    <3> QED
      BY <2>2, <2>3, <2>6, <3>1, <3>2
  <2> QED
    BY <2>6, <2>7, <2>8 DEF s, e
<1> HIDE DEF hours, l
<1>8. days \in [1..l -> Intervals] /\ \A n \in 1..l : days[n] = hours(n)
  BY <1>5, <1>7
<1> HIDE DEF days
<1>9. days \in Seq(Intervals) /\ Len(days) = l /\ DOMAIN days = 1..l
  BY <1>5, <1>8, OnFirst
<1>10. Ordered(days)
  BY <1>7, <1>8, <1>9 DEF Ordered
<1>11. /\ Merge(days) \in Seq(Intervals) /\ Ordered(Merge(days))
       /\ \A t \in Int : In(Merge(days), t) <=> In(days, t)
  BY <1>9, <1>10, MergeCovers
<1>12. ASSUME NEW t \in Int, In(days, t) PROVE AtWork(z, t)
  <2>1. PICK n \in 1..l : hours(n).start <= t /\ t < hours(n).end
    BY <1>8, <1>9, <1>12 DEF In
  <2>2. day(n) * Day + DayStart <= Local(z, t) /\ Local(z, t) < day(n) * Day + DayEnd /\ day(n) \in Int
    BY <1>6, <1>7, <2>1
  <2> HIDE DEF day
  <2> QED
    BY <2>2, AtWorkDay
<1>13. ASSUME NEW t \in Int, span.start <= t, t < span.end, AtWork(z, t) PROVE In(days, t)
  <2> DEFINE k == Local(z, t) \div Day
             s == k * Day + DayStart
             e == k * Day + DayEnd
  <2>1. k \in Int /\ s <= Local(z, t) /\ Local(z, t) < e /\ Local(z, t) \in Int
    BY <1>13, AtWorkDay
  <2> HIDE DEF k
  <2>2. s \in Int /\ Utc(z, s) \in Int /\ \A u \in Int : Utc(z, s) <= u <=> s <= Local(z, u)
    BY <2>1, PlainBounds
  <2>3. e \in Int /\ Utc(z, e) \in Int /\ \A u \in Int : Utc(z, e) <= u <=> e <= Local(z, u)
    BY <2>1, PlainBounds
  <2>4. k * Day \in Int /\ first * Day \in Int /\ last * Day \in Int
    BY <1>3, <2>1, DayFacts
  <2>5. first <= k
    <3>1. SUFFICES ASSUME k < first PROVE FALSE
      BY <1>3, <2>1
    <3>2. k * Day + Day <= first * Day
      BY <1>3, <2>1, <3>1, DayFacts, Multiples
    <3>3. e <= Local(z, span.start)
      BY <1>2, <1>4, <2>3, <2>4, <3>2, DayFacts
    <3> HIDE DEF e
    <3>4. Utc(z, e) <= t
      BY <1>2, <1>13, <2>3, <3>3
    <3> QED
      BY <2>1, <2>3, <3>4
  <2>6. k <= last
    <3>1. SUFFICES ASSUME last < k PROVE FALSE
      BY <1>3, <2>1
    <3>2. last * Day + Day <= k * Day
      BY <1>3, <2>1, <3>1, DayFacts, Multiples
    <3>3. Local(z, span.end) < s
      BY <1>2, <1>4, <2>2, <2>4, <3>2, DayFacts
    <3> HIDE DEF s
    <3>4. Utc(z, s) <= span.end
      BY <1>2, <1>13, <2>1, <2>2
    <3> QED
      BY <1>2, <2>2, <3>3, <3>4
  <2> DEFINE n == k - first + 1
  <2>7. n \in 1..l /\ day(n) = k
    BY <1>3, <2>1, <2>5, <2>6 DEF l
  <2>8. hours(n).start <= t /\ t < hours(n).end
    BY <1>7, <2>1, <2>7
  <2> QED
    BY <1>8, <1>9, <2>7, <2>8 DEF In
<1> QED
  BY <1>1, <1>11, <1>12, <1>13

-----------------------------------------------------------------------------
(* Free time: the pipeline finds the instants at which everybody is free.  *)

\* A set of numbers with a lower bound has a least, and one with an upper bound a greatest.
LEMMA LeastAbove ==
  ASSUME NEW S \in SUBSET Int, S # {}, NEW b \in Int, \A x \in S : b <= x
  PROVE  \E n \in S : \A m \in S : n <= m
<1> DEFINE T == {x - b : x \in S}
<1>1. T \in SUBSET Nat /\ T # {}
  <2>1. \A x \in S : x \in Int /\ x - b \in Nat
    OBVIOUS
  <2> QED
    BY <2>1
<1>2. PICK d \in T : \A e \in T : d <= e
  BY <1>1, Least
<1>3. PICK n \in S : d = n - b
  OBVIOUS
<1>4. \A m \in S : n <= m
  <2> TAKE m \in S
  <2>1. n - b <= m - b
    BY <1>2, <1>3
  <2> QED
    BY <2>1
<1> QED
  BY <1>4

\* The same from above.
LEMMA GreatestBelow ==
  ASSUME NEW S \in SUBSET Int, S # {}, NEW b \in Int, \A x \in S : x <= b
  PROVE  \E n \in S : \A m \in S : m <= n
<1> DEFINE T == {b - x : x \in S}
<1>1. T \in SUBSET Nat /\ T # {}
  <2>1. \A x \in S : x \in Int /\ b - x \in Nat
    OBVIOUS
  <2> QED
    BY <2>1
<1>2. PICK d \in T : \A e \in T : d <= e
  BY <1>1, Least
<1>3. PICK n \in S : d = b - n
  OBVIOUS
<1>4. \A m \in S : m <= n
  <2> TAKE m \in S
  <2>1. b - n <= b - m
    BY <1>2, <1>3
  <2> QED
    BY <2>1
<1> QED
  BY <1>4

\* The span holds every window (_free_intervals).
LEMMA SpanHolds ==
  ASSUME NEW ws \in Seq(Intervals), ws # <<>>, NEW lo \in Int, NEW hi \in Int,
         \A i \in DOMAIN ws : lo <= ws[i].start /\ ws[i].end <= hi
  PROVE  /\ Span(ws) \in Intervals
         /\ \A t \in Int : In(ws, t) => Span(ws).start <= t /\ t < Span(ws).end
<1> DEFINE starts == {ws[i].start : i \in DOMAIN ws}
           ends   == {ws[i].end : i \in DOMAIN ws}
           s == CHOOSE s \in starts : \A x \in starts : s <= x
           e == CHOOSE e \in ends : \A x \in ends : x <= e
<1>1. \A i \in DOMAIN ws : ws[i] \in Intervals
  OBVIOUS
<1>2. \A i \in DOMAIN ws : ws[i].start \in Int /\ ws[i].end \in Int
  BY <1>1 DEF Intervals
<1>3. DOMAIN ws # {}
  BY Positions
<1>4. starts \in SUBSET Int /\ starts # {} /\ ends \in SUBSET Int /\ ends # {}
  BY <1>2, <1>3
<1>5. (\A x \in starts : lo <= x) /\ (\A x \in ends : x <= hi)
  OBVIOUS
<1>6. Span(ws) = Interval(s, e)
  BY DEF Span
<1>a. /\ \A i \in DOMAIN ws : ws[i].start \in starts
      /\ \A i \in DOMAIN ws : ws[i].end \in ends
  OBVIOUS
<1> HIDE DEF starts, ends
<1>7. s \in starts /\ \A x \in starts : s <= x
  BY <1>4, <1>5, LeastAbove
<1>8. e \in ends /\ \A x \in ends : x <= e
  BY <1>4, <1>5, GreatestBelow
<1> HIDE DEF s, e
<1>9. Span(ws).start = s /\ Span(ws).end = e /\ Span(ws) \in Intervals /\ s \in Int /\ e \in Int
  BY <1>4, <1>6, <1>7, <1>8 DEF Interval, Intervals
<1>10. ASSUME NEW t \in Int, In(ws, t) PROVE s <= t /\ t < e
  <2>1. PICK i \in DOMAIN ws : ws[i].start <= t /\ t < ws[i].end
    BY <1>10 DEF In
  <2>2. s <= ws[i].start /\ ws[i].end <= e
    BY <1>7, <1>8, <1>a
  <2> QED
    BY <1>2, <1>9, <2>1, <2>2
<1> QED
  BY <1>9, <1>10

\* Intervals whose ends do not come before their starts.
Stretches == {c \in Seq(Intervals) : Ordered(c)}

\* Whatever the clocks do, the pipeline passes on intervals.
LEMMA IntersectTyped ==
  ASSUME NEW a \in Seq(Intervals), NEW b \in Seq(Intervals)
  PROVE  Intersect(a, b) \in Seq(Intervals)
<1> DEFINE p == Merge(a)
           q == Merge(b)
           n == Len(p) + Len(q)
           base == [i |-> 1, j |-> 1, out |-> <<>>]
<1>1. p \in Seq(Intervals) /\ q \in Seq(Intervals)
  BY MergeCovers
<1>2. Intersect(a, b) = FoldLeft(LAMBDA s, round : Sweep(p, q, s), base, [k \in 1..n |-> k]).out
  BY DEF Intersect
<1> HIDE DEF p, q
<1>3. n \in Nat
  BY <1>1
<1> HIDE DEF n
<1>4. PICK g \in [0..n -> Sweeps] :
        /\ g[0] = base
        /\ g[n] = FoldLeft(LAMBDA s, round : Sweep(p, q, s), base, [k \in 1..n |-> k])
        /\ \A k \in 1..n : g[k] = Sweep(p, q, g[k - 1])
  BY <1>1, <1>3, IntersectRuns
<1>5. g[n] \in Sweeps
  BY <1>3
<1> QED
  BY <1>2, <1>4, <1>5 DEF Sweeps

\* So do the working hours, even those that a change of the clock turns around.
LEMMA WorkingTyped ==
  ASSUME NEW z \in Clocks, NEW span \in Intervals
  PROVE  WorkingIntervals(z, span) \in Seq(Intervals)
<1> DEFINE first == Local(z, span.start) \div Day
           last  == Local(z, span.end) \div Day
           m     == last - first + 1
           l     == IF m < 0 THEN 0 ELSE m
           from(n) == (first + n - 1) * Day + DayStart
           to(n)   == (first + n - 1) * Day + DayEnd
           hours(n) == Interval(Utc(z, from(n)), Utc(z, to(n)))
           days  == [n \in 1..m |-> hours(n)]
<1>1. WorkingIntervals(z, span) = Merge(days)
  BY DEF WorkingIntervals
<1>2. Local(z, span.start) \in Int /\ Local(z, span.end) \in Int
  BY DEF Intervals, Local, Clocks
<1>3. first \in Int /\ last \in Int
  BY <1>2, DayOf
<1> HIDE DEF first, last
<1>4. m \in Int /\ l \in Nat /\ 1..m = 1..l
  BY <1>3
<1>5. ASSUME NEW n \in 1..l PROVE hours(n) \in Intervals
  <2>1. from(n) \in Int /\ to(n) \in Int
    BY <1>3, <1>4, DayFacts
  <2> HIDE DEF from, to
  <2>2. Utc(z, from(n)) \in Int /\ Utc(z, to(n)) \in Int
    BY <2>1 DEF Utc, Clocks
  <2> QED
    BY <2>2 DEF Interval, Intervals
<1> HIDE DEF hours, l
<1>6. days \in [1..l -> Intervals]
  BY <1>4, <1>5
<1> HIDE DEF days
<1>7. days \in Seq(Intervals)
  BY <1>4, <1>6, OnFirst
<1> QED
  BY <1>1, <1>7, MergeCovers

\* Clipping leaves no interval that ends before it starts.
LEMMA PanelistFreeTyped ==
  ASSUME NEW p \in Panelists, NEW span \in Intervals
  PROVE  PanelistFree(p, span) \in Stretches
<1>1. p.zone \in Clocks /\ p.busy \in Seq(Intervals)
  BY DEF Panelists
<1>2. span.start \in Int /\ span.end \in Int
  BY DEF Intervals
<1>3. WorkingIntervals(p.zone, span) \in Seq(Intervals)
  BY <1>1, WorkingTyped
<1>4. Subtract(WorkingIntervals(p.zone, span), p.busy) \in Seq(Intervals)
  BY <1>1, <1>3, SubtractIn
<1> QED
  BY <1>2, <1>4, ClipIn DEF PanelistFree, Stretches

\* The same for the candidate.
LEMMA CandidateFreeTyped ==
  ASSUME NEW r, r.candidate \in Clocks, NEW ws \in Seq(Intervals), NEW span \in Intervals
  PROVE  CandidateFree(r, ws, span) \in Stretches
<1>1. span.start \in Int /\ span.end \in Int
  BY DEF Intervals
<1>2. WorkingIntervals(r.candidate, span) \in Seq(Intervals) /\ Merge(ws) \in Seq(Intervals)
  BY WorkingTyped, MergeCovers
<1>3. Intersect(WorkingIntervals(r.candidate, span), Merge(ws)) \in Seq(Intervals)
  BY <1>2, IntersectTyped
<1> QED
  BY <1>1, <1>3, ClipIn DEF CandidateFree, Stretches

\* The panelists' free time comes in one by one.
LEMMA CommonRuns ==
  ASSUME NEW base \in Stretches, NEW panel \in Seq(Panelists), NEW span \in Intervals
  PROVE  \E g \in [0..Len(panel) -> Stretches] :
           /\ g[0] = base
           /\ g[Len(panel)] = FoldLeft(LAMBDA common, p : Intersect(common, PanelistFree(p, span)), base, panel)
           /\ \A k \in 1..Len(panel) : g[k] = Intersect(g[k - 1], PanelistFree(panel[k], span))
<1> DEFINE T == Stretches
           n == Len(panel)
           step == [x \in T \X (1..n) |-> Intersect(x[1], PanelistFree(panel[x[2]], span))]
<1>1. base \in T /\ n \in Nat /\ DOMAIN panel = 1..n
  OBVIOUS
<1>2. ASSUME NEW s \in T, NEW i \in 1..n PROVE Intersect(s, PanelistFree(panel[i], span)) \in T
  <2>1. panel[i] \in Panelists
    BY <1>1
  <2>2. PanelistFree(panel[i], span) \in Stretches
    BY <2>1, PanelistFreeTyped
  <2> QED
    BY <2>2, IntersectIn DEF Stretches
<1>3. step \in [T \X (1..n) -> T]
  BY <1>2
<1> HIDE DEF step, T, n
<1>4. PICK h \in [SUBSET (1..n) -> T] : Folds(h, n, base, step)
  BY <1>1, <1>3, FoldExists
<1>5. h = [r \in SUBSET (1..n) |-> IF r = {} THEN base ELSE Intersect(h[r \ {Max(r)}], PanelistFree(panel[Max(r)], span))]
  <2>1. ASSUME NEW r \in SUBSET (1..n), r # {}
        PROVE  step[<<h[r \ {Max(r)}], Max(r)>>] = Intersect(h[r \ {Max(r)}], PanelistFree(panel[Max(r)], span))
    <3>1. h[r \ {Max(r)}] \in T /\ Max(r) \in 1..n
      BY <1>1, <2>1, MaxOf
    <3> QED
      BY <3>1 DEF step
  <2> QED
    BY <1>4, <2>1 DEF Folds
<1> DEFINE f == CHOOSE f : f = [r \in SUBSET (1..n) |->
                                  IF r = {} THEN base ELSE Intersect(f[r \ {Max(r)}], PanelistFree(panel[Max(r)], span))]
<1>6. f = [r \in SUBSET (1..n) |-> IF r = {} THEN base ELSE Intersect(f[r \ {Max(r)}], PanelistFree(panel[Max(r)], span))]
  BY <1>5
<1>7. FoldLeft(LAMBDA common, p : Intersect(common, PanelistFree(p, span)), base, panel) = f[1..n]
  BY <1>1 DEF FoldLeft, MapThenFoldSet
<1> DEFINE g == [k \in 0..n |-> f[1..k]]
<1> HIDE DEF f
<1>8. g[0] = base
  BY <1>1, <1>6
<1>9. ASSUME NEW k \in 1..n PROVE g[k] = Intersect(g[k - 1], PanelistFree(panel[k], span))
  <2>1. 1..k \in SUBSET (1..n) /\ 1..k # {} /\ Max(1..k) = k /\ (1..k) \ {k} = 1..(k - 1)
    BY <1>1, Prefix
  <2>2. f[1..k] = Intersect(f[1..(k - 1)], PanelistFree(panel[k], span))
    BY <1>6, <2>1
  <2>3. k \in 0..n /\ k - 1 \in 0..n
    BY <1>1
  <2> QED
    BY <2>2, <2>3
<1> HIDE DEF g
<1> DEFINE S == {k \in 0..n : g[k] \in T}
<1>10. \A k \in 0..n : k \in S
  <2>1. 0 \in S
    <3>1. g[0] \in T /\ 0 \in 0..n
      BY <1>1, <1>8
    <3> QED
      BY <3>1
  <2>2. ASSUME NEW k \in 1..n, k - 1 \in S PROVE k \in S
    <3>1. g[k] \in T
      BY <1>2, <1>9, <2>2
    <3> QED
      BY <3>1
  <2> HIDE DEF S
  <2> QED
    BY <1>1, <2>1, <2>2, UpTo
<1>11. g \in [0..n -> T] /\ g[n] = f[1..n]
  BY <1>1, <1>10 DEF g
<1> QED
  BY <1>7, <1>8, <1>9, <1>11 DEF T, n

\* The time on offer lies in intervals apart from each other.
LEMMA CommonFreeTyped ==
  ASSUME NEW r, r.candidate \in Clocks, r.panel \in Seq(Panelists), r.panel # <<>>,
         NEW ws \in Seq(Intervals), ws # <<>>, NEW lo \in Int, NEW hi \in Int,
         \A i \in DOMAIN ws : lo <= ws[i].start /\ ws[i].end <= hi
  PROVE  CommonFree(r, ws) \in Stretches /\ Apart(CommonFree(r, ws))
<1> DEFINE span == Span(ws)
           base == CandidateFree(r, ws, span)
           panel == r.panel
           n == Len(panel)
<1>1. span \in Intervals
  BY SpanHolds
<1>2. CommonFree(r, ws) = FoldLeft(LAMBDA common, p : Intersect(common, PanelistFree(p, span)), base, panel)
  BY DEF CommonFree
<1> HIDE DEF span
<1>3. base \in Stretches
  BY <1>1, CandidateFreeTyped
<1>4. panel \in Seq(Panelists) /\ n \in Nat /\ n > 0 /\ n \in 1..n /\ panel[n] \in Panelists
  BY Positions
<1> HIDE DEF base, panel
<1>5. PICK g \in [0..n -> Stretches] :
        /\ g[0] = base
        /\ g[n] = FoldLeft(LAMBDA common, p : Intersect(common, PanelistFree(p, span)), base, panel)
        /\ \A k \in 1..n : g[k] = Intersect(g[k - 1], PanelistFree(panel[k], span))
  BY <1>1, <1>3, <1>4, CommonRuns
<1> HIDE DEF n
<1>6. g[n - 1] \in Stretches /\ g[n] \in Stretches /\ PanelistFree(panel[n], span) \in Stretches
  BY <1>1, <1>4, PanelistFreeTyped
<1>7. g[n] = Intersect(g[n - 1], PanelistFree(panel[n], span))
  BY <1>4, <1>5
<1>8. Apart(g[n])
  BY <1>6, <1>7, IntersectIn DEF Stretches
<1> QED
  BY <1>2, <1>5, <1>6, <1>8

\* Requests as they can be.
IsRequest(r) ==
  /\ r.now \in Nat /\ r.stored \in Seq(Intervals) /\ r.candidate \in Clocks
  /\ r.panel \in Seq(Panelists) /\ r.panel # <<>>
  /\ r.duration \in Nat \ {0} /\ r.buffer \in Nat
  /\ \A i \in DOMAIN r.stored : r.stored[i].start < r.stored[i].end /\ r.stored[i].end <= Horizon
  /\ \A i \in DOMAIN r.panel : \A j \in DOMAIN r.panel[i].busy :
       r.panel[i].busy[j].start < r.panel[i].busy[j].end

IsPlain(r) == PlainHours(r.candidate) /\ \A i \in DOMAIN r.panel : PlainHours(r.panel[i].zone)

\* The candidate is free where a window and the working hours meet.
LEMMA CandidateFreeIn ==
  ASSUME NEW r, r.candidate \in Clocks, PlainHours(r.candidate), NEW ws \in Seq(Intervals), Ordered(ws),
         NEW span \in Intervals, \A t \in Int : In(ws, t) => span.start <= t /\ t < span.end
  PROVE  /\ CandidateFree(r, ws, span) \in Stretches
         /\ \A t \in Int : In(CandidateFree(r, ws, span), t) <=> AtWork(r.candidate, t) /\ In(ws, t)
<1> DEFINE w == WorkingIntervals(r.candidate, span)
           m == Merge(ws)
           x == Intersect(w, m)
           c == Clip(x, span.start, span.end)
<1>1. /\ w \in Seq(Intervals) /\ Ordered(w)
      /\ \A t \in Int : In(w, t) => AtWork(r.candidate, t)
      /\ \A t \in Int : span.start <= t /\ t < span.end /\ AtWork(r.candidate, t) => In(w, t)
  BY WorkingIn
<1>2. m \in Seq(Intervals) /\ Ordered(m) /\ \A t \in Int : In(m, t) <=> In(ws, t)
  BY MergeCovers
<1>3. span.start \in Int /\ span.end \in Int
  BY DEF Intervals
<1>4. CandidateFree(r, ws, span) = c
  BY DEF CandidateFree
<1> HIDE DEF w, m
<1>5. x \in Seq(Intervals) /\ \A t \in Int : In(x, t) <=> In(w, t) /\ In(m, t)
  BY <1>1, <1>2, IntersectIn
<1> HIDE DEF x
<1>6. /\ c \in Seq(Intervals) /\ Ordered(c)
      /\ \A t \in Int : In(c, t) <=> In(x, t) /\ span.start <= t /\ t < span.end
  BY <1>3, <1>5, ClipIn
<1> HIDE DEF c
<1> QED
  BY <1>1, <1>2, <1>4, <1>5, <1>6 DEF Stretches

\* A panelist is free in the working hours outside the busy times.
LEMMA PanelistFreeIn ==
  ASSUME NEW p \in Panelists, PlainHours(p.zone), NEW span \in Intervals
  PROVE  /\ PanelistFree(p, span) \in Stretches
         /\ \A t \in Int : In(PanelistFree(p, span), t) <=>
              AtWork(p.zone, t) /\ ~In(p.busy, t) /\ span.start <= t /\ t < span.end
<1> DEFINE w == WorkingIntervals(p.zone, span)
           x == Subtract(w, p.busy)
           c == Clip(x, span.start, span.end)
<1>1. p.zone \in Clocks /\ p.busy \in Seq(Intervals)
  BY DEF Panelists
<1>2. /\ w \in Seq(Intervals)
      /\ \A t \in Int : In(w, t) => AtWork(p.zone, t)
      /\ \A t \in Int : span.start <= t /\ t < span.end /\ AtWork(p.zone, t) => In(w, t)
  BY <1>1, WorkingIn
<1>3. span.start \in Int /\ span.end \in Int
  BY DEF Intervals
<1>4. PanelistFree(p, span) = c
  BY DEF PanelistFree
<1> HIDE DEF w
<1>5. x \in Seq(Intervals) /\ \A t \in Int : In(x, t) <=> In(w, t) /\ ~In(p.busy, t)
  BY <1>1, <1>2, SubtractIn
<1> HIDE DEF x
<1>6. /\ c \in Seq(Intervals) /\ Ordered(c)
      /\ \A t \in Int : In(c, t) <=> In(x, t) /\ span.start <= t /\ t < span.end
  BY <1>3, <1>5, ClipIn
<1> HIDE DEF c
<1> QED
  BY <1>2, <1>4, <1>5, <1>6 DEF Stretches

\* The time on offer is what everybody has in common, in intervals that lie apart
\* (_free_intervals).
LEMMA CommonFreeIn ==
  ASSUME NEW r, r.candidate \in Clocks, PlainHours(r.candidate),
         r.panel \in Seq(Panelists), r.panel # <<>>, \A i \in DOMAIN r.panel : PlainHours(r.panel[i].zone),
         NEW ws \in Seq(Intervals), ws # <<>>, Ordered(ws), NEW lo \in Int, NEW hi \in Int,
         \A i \in DOMAIN ws : lo <= ws[i].start /\ ws[i].end <= hi
  PROVE  /\ CommonFree(r, ws) \in Stretches /\ Apart(CommonFree(r, ws))
         /\ \A t \in Int : In(CommonFree(r, ws), t) <=>
              /\ AtWork(r.candidate, t) /\ In(ws, t)
              /\ \A i \in DOMAIN r.panel : AtWork(r.panel[i].zone, t) /\ ~In(r.panel[i].busy, t)
<1> DEFINE span == Span(ws)
           base == CandidateFree(r, ws, span)
           panel == r.panel
           n == Len(panel)
<1>1. span \in Intervals /\ \A t \in Int : In(ws, t) => span.start <= t /\ t < span.end
  BY SpanHolds
<1>2. CommonFree(r, ws) = FoldLeft(LAMBDA common, p : Intersect(common, PanelistFree(p, span)), base, panel)
  BY DEF CommonFree
<1> HIDE DEF span
<1>3. base \in Stretches /\ \A t \in Int : In(base, t) <=> AtWork(r.candidate, t) /\ In(ws, t)
  BY <1>1, CandidateFreeIn
<1>4. /\ panel \in Seq(Panelists) /\ n \in Nat /\ n > 0 /\ DOMAIN panel = 1..n
      /\ \A i \in 1..n : panel[i] \in Panelists
  BY Positions
<1>5. \A i \in 1..n : PlainHours(panel[i].zone)
  BY <1>4
<1> HIDE DEF base, panel
<1>6. PICK g \in [0..n -> Stretches] :
        /\ g[0] = base
        /\ g[n] = FoldLeft(LAMBDA common, p : Intersect(common, PanelistFree(p, span)), base, panel)
        /\ \A k \in 1..n : g[k] = Intersect(g[k - 1], PanelistFree(panel[k], span))
  BY <1>1, <1>3, <1>4, CommonRuns DEF Stretches
<1> HIDE DEF n
<1> DEFINE Free(i, t) == AtWork(panel[i].zone, t) /\ ~In(panel[i].busy, t)
           Good(k) == \A t \in Int : In(g[k], t) <=> In(base, t) /\ \A i \in 1..k : Free(i, t)
           S == {k \in 0..n : Good(k)}
<1>7. Good(0)
  <2>0. g[0] = base
    BY <1>6
  <2>1. g[0] = base /\ 1..0 = {}
    BY <2>0
  <2>2. ASSUME NEW t \in Int PROVE In(g[0], t) <=> In(base, t) /\ \A i \in 1..0 : Free(i, t)
    <3>1. \A i \in 1..0 : Free(i, t)
      BY <2>1
    <3>2. In(g[0], t) <=> In(base, t)
      BY <2>1
    <3> QED
      BY <3>1, <3>2
  <2> QED
    BY <2>2
<1>8. ASSUME NEW k \in 1..n, Good(k - 1) PROVE Good(k)
  <2> DEFINE c == g[k - 1]
             f == PanelistFree(panel[k], span)
  <2>1. k - 1 \in 0..n /\ k \in Nat /\ k >= 1
    BY <1>4
  <2>2. g[k] = Intersect(c, f) /\ c \in Stretches
    BY <1>6, <2>1
  <2>3. /\ f \in Stretches
        /\ \A t \in Int : In(f, t) <=>
             AtWork(panel[k].zone, t) /\ ~In(panel[k].busy, t) /\ span.start <= t /\ t < span.end
    BY <1>1, <1>4, <1>5, PanelistFreeIn
  <2> HIDE DEF c, f
  <2>4. \A t \in Int : In(g[k], t) <=> In(c, t) /\ In(f, t)
    BY <2>2, <2>3, IntersectIn DEF Stretches
  <2>5. \A i : i \in 1..k <=> i \in 1..(k - 1) \/ i = k
    BY <2>1
  <2>6. ASSUME NEW t \in Int PROVE In(g[k], t) <=> In(base, t) /\ \A i \in 1..k : Free(i, t)
    <3>1. In(c, t) <=> In(base, t) /\ \A i \in 1..(k - 1) : Free(i, t)
      BY <1>8 DEF c
    <3>2. In(f, t) <=> Free(k, t) /\ span.start <= t /\ t < span.end
      BY <2>3
    <3>3. In(base, t) => span.start <= t /\ t < span.end
      BY <1>1, <1>3
    <3>4. In(g[k], t) <=> In(c, t) /\ In(f, t)
      BY <2>4
    <3> HIDE DEF Free
    <3>5. (\A i \in 1..k : Free(i, t)) <=> (\A i \in 1..(k - 1) : Free(i, t)) /\ Free(k, t)
      BY <2>5, Zenon
    <3> QED
      BY <3>1, <3>2, <3>3, <3>4, <3>5, Zenon
  <2> QED
    BY <2>6
<1> HIDE DEF Good
<1>9. \A k \in 0..n : k \in S
  <2>1. 0 \in S
    BY <1>4, <1>7
  <2>2. ASSUME NEW k \in 1..n, k - 1 \in S PROVE k \in S
    BY <1>4, <1>8, <2>2
  <2> HIDE DEF S
  <2> QED
    BY <1>4, <2>1, <2>2, UpTo
<1>10. Good(n) /\ CommonFree(r, ws) = g[n]
  <2>1. n \in 0..n
    BY <1>4
  <2> QED
    BY <1>2, <1>6, <1>9, <2>1
<1>11. CommonFree(r, ws) \in Stretches /\ Apart(CommonFree(r, ws))
  BY CommonFreeTyped
<1>12. ASSUME NEW t \in Int
       PROVE  In(g[n], t) <=> /\ AtWork(r.candidate, t) /\ In(ws, t)
                              /\ \A i \in DOMAIN r.panel : AtWork(r.panel[i].zone, t) /\ ~In(r.panel[i].busy, t)
  <2>1. In(g[n], t) <=> In(base, t) /\ \A i \in 1..n : Free(i, t)
    BY <1>10 DEF Good
  <2>2. In(base, t) <=> AtWork(r.candidate, t) /\ In(ws, t)
    BY <1>3
  <2>3. DOMAIN r.panel = 1..n
    BY <1>4 DEF panel
  <2> QED
    BY <2>1, <2>2, <2>3 DEF panel
<1> QED
  BY <1>10, <1>11, <1>12

-----------------------------------------------------------------------------
(* Scores: a factor is in 0..Scale, a total in 0..(100 * Scale).           *)

\* Requests that the scores can be computed for.
IsScored(r) ==
  /\ r.now \in Int /\ r.duration \in Int /\ r.buffer \in Nat
  /\ r.candidate \in Clocks /\ r.panel \in Seq(Panelists)

\* A factor never leaves its range (_clamp).
LEMMA Clamped ==
  ASSUME NEW x \in Int
  PROVE  Clamp(x) \in 0..Scale
BY HoursAssumption DEF Clamp

\* Quotients and remainders are numbers.
LEMMA Divided ==
  ASSUME NEW x \in Int, NEW d \in Nat \ {0}
  PROVE  x \div d \in Int /\ x % d \in Int
BY Division

\* The worst-off of some factors is one of them.
LEMMA WorstOf ==
  ASSUME NEW S \in SUBSET (0..Scale), S # {}
  PROVE  (CHOOSE x \in S : \A y \in S : x <= y) \in 0..Scale
<1>1. S \in SUBSET Int /\ \A x \in S : 0 <= x
  BY HoursAssumption
<1>2. \E x \in S : \A y \in S : x <= y
  BY <1>1, LeastAbove
<1> QED
  BY <1>2

\* Somebody takes part, and everybody has a clock.
LEMMA ZonesOf ==
  ASSUME NEW r, IsScored(r)
  PROVE  Zones(r) \subseteq Clocks /\ Zones(r) # {}
<1>1. \A i \in DOMAIN r.panel : r.panel[i] \in Panelists
  BY DEF IsScored
<1> QED
  BY <1>1 DEF Zones, IsScored, Panelists

\* The time of day in the middle of a slot.
LEMMA MidOf ==
  ASSUME NEW r, IsScored(r), NEW start \in Int, NEW z \in Clocks
  PROVE  LocalMid(z, start, r) \in Int
<1> DEFINE mid == 2 * start + r.duration
           x == mid + (IF mid < 2 * z.at THEN 2 * z.before ELSE 2 * z.after)
<1>1. x \in Int
  BY DEF IsScored, Clocks
<1>2. LocalMid(z, start, r) = x % (2 * Day)
  BY DEF LocalMid
<1> HIDE DEF x
<1>3. 2 * Day \in Nat \ {0}
  BY DayFacts
<1> QED
  BY <1>1, <1>2, <1>3, Divided

\* The worst time zone decides (timezone_fairness).
LEMMA FairnessIn ==
  ASSUME NEW r, IsScored(r), NEW start \in Int
  PROVE  TimezoneFairness(start, r) \in 0..Scale
<1> DEFINE one(z) == Clamp(Scale - (Scale * Distance(LocalMid(z, start, r), DayStart + DayEnd))
                                \div (DayEnd - DayStart))
           S == {one(z) : z \in Zones(r)}
<1>1. ASSUME NEW z \in Clocks PROVE one(z) \in 0..Scale
  <2> DEFINE x == Scale * Distance(LocalMid(z, start, r), DayStart + DayEnd)
  <2>1. LocalMid(z, start, r) \in Int
    BY MidOf
  <2>2. x \in Int
    BY <2>1, DayFacts, HoursAssumption DEF Distance
  <2> HIDE DEF x
  <2>3. DayEnd - DayStart \in Nat \ {0}
    BY DayFacts
  <2>4. x \div (DayEnd - DayStart) \in Int
    BY <2>2, <2>3, Divided
  <2>5. Scale - x \div (DayEnd - DayStart) \in Int
    BY <2>4, HoursAssumption
  <2>6. one(z) = Clamp(Scale - x \div (DayEnd - DayStart))
    BY DEF x
  <2> HIDE DEF one
  <2> QED
    BY <2>5, <2>6, Clamped
<1>2. TimezoneFairness(start, r) = CHOOSE x \in S : \A y \in S : x <= y
  BY DEF TimezoneFairness, Worst
<1> HIDE DEF one
<1>3. S \in SUBSET (0..Scale) /\ S # {}
  BY <1>1, ZonesOf
<1> HIDE DEF S
<1> QED
  BY <1>2, <1>3, WorstOf

\* The comfort of the core hours, and of the slopes to them (working_hours_comfort).
LEMMA ComfortIn ==
  ASSUME NEW r, IsScored(r), NEW start \in Int
  PROVE  WorkingHoursComfort(start, r) \in 0..Scale
<1> DEFINE up(mid) == (Scale * (mid - 2 * DayStart)) \div (2 * (CoreStart - DayStart))
           down(mid) == (Scale * (2 * DayEnd - mid)) \div (2 * (DayEnd - CoreEnd))
           of(mid) == IF 2 * CoreStart <= mid /\ mid <= 2 * CoreEnd THEN Scale
            ELSE IF 2 * DayStart <= mid /\ mid < 2 * CoreStart
            THEN Clamp((Scale * (mid - 2 * DayStart)) \div (2 * (CoreStart - DayStart)))
            ELSE IF 2 * CoreEnd < mid /\ mid <= 2 * DayEnd
            THEN Clamp((Scale * (2 * DayEnd - mid)) \div (2 * (DayEnd - CoreEnd)))
            ELSE 0
           S == {of(LocalMid(z, start, r)) : z \in Zones(r)}
<1>1. ASSUME NEW mid \in Int PROVE of(mid) \in 0..Scale
  <2>1. 2 * (CoreStart - DayStart) \in Nat \ {0} /\ 2 * (DayEnd - CoreEnd) \in Nat \ {0}
    BY HoursAssumption
  <2>2. Scale * (mid - 2 * DayStart) \in Int /\ Scale * (2 * DayEnd - mid) \in Int
    BY HoursAssumption
  <2>3. up(mid) \in Int
    BY <2>1, <2>2, Divided
  <2>4. down(mid) \in Int
    BY <2>1, <2>2, Divided
  <2>5. of(mid) \in {Scale, Clamp(up(mid)), Clamp(down(mid)), 0}
    OBVIOUS
  <2> HIDE DEF of, up, down
  <2>6. Clamp(up(mid)) \in 0..Scale /\ Clamp(down(mid)) \in 0..Scale
    BY <2>3, <2>4, Clamped
  <2>7. Scale \in 0..Scale /\ 0 \in 0..Scale
    BY HoursAssumption
  <2> QED
    BY <2>5, <2>6, <2>7
<1>2. WorkingHoursComfort(start, r) = CHOOSE x \in S : \A y \in S : x <= y
  BY DEF WorkingHoursComfort, Worst
<1> HIDE DEF of
<1>3. \A z \in Zones(r) : LocalMid(z, start, r) \in Int
  BY ZonesOf, MidOf
<1>4. S \in SUBSET (0..Scale) /\ S # {}
  BY <1>1, <1>3, ZonesOf
<1> HIDE DEF S
<1> QED
  BY <1>2, <1>4, WorstOf

\* The sooner the better (scheduling_proximity).
LEMMA ProximityIn ==
  ASSUME NEW r, IsScored(r), NEW start \in Int
  PROVE  SchedulingProximity(start, r) \in 0..Scale
<1> DEFINE d == start - r.now
           x == Scale * d
<1>a. r.now \in Int
  BY DEF IsScored
<1>b. Scale \in Int
  BY HoursAssumption
<1>0. d \in Int /\ Scale \in Int
  BY <1>a, <1>b
<1> HIDE DEF d
<1>1. x \in Int
  BY <1>0
<1>2. SchedulingProximity(start, r) = Clamp(Scale - x \div ProximityHorizon)
  BY DEF SchedulingProximity, d
<1> HIDE DEF x
<1>3. x \div ProximityHorizon \in Int
  BY <1>1, HoursAssumption, Divided
<1>4. Scale - x \div ProximityHorizon \in Int
  BY <1>3, HoursAssumption
<1> QED
  BY <1>2, <1>4, Clamped

\* The room around the slot (buffer_quality).
LEMMA BufferIn ==
  ASSUME NEW r, IsScored(r), NEW start \in Int, NEW iv \in Intervals
  PROVE  BufferQuality(start, iv, r) \in 0..Scale
<1> DEFINE gap == Lesser(start - iv.start, iv.end - (start + r.duration))
           d == gap - r.buffer
           x == Scale * d
<1>a. r.duration \in Int /\ r.buffer \in Nat /\ iv.start \in Int /\ iv.end \in Int
  BY DEF IsScored, Intervals
<1>b. Scale \in Int
  BY HoursAssumption
<1>c. gap \in Int
  BY <1>a DEF Lesser
<1> HIDE DEF gap
<1>0. d \in Int /\ Scale \in Int /\ r.buffer \in Nat
  BY <1>a, <1>b, <1>c
<1> HIDE DEF d
<1>1. x \in Int /\ r.buffer \in Nat
  BY <1>0
<1>2. BufferQuality(start, iv, r) = IF r.buffer = 0 THEN Scale ELSE Clamp(x \div r.buffer)
  BY DEF BufferQuality, d, gap
<1> HIDE DEF x
<1>3. CASE r.buffer = 0
  BY <1>2, <1>3, HoursAssumption
<1>4. CASE r.buffer # 0
  <2>1. x \div r.buffer \in Int
    BY <1>1, <1>4, Divided
  <2> QED
    BY <1>2, <1>4, <2>1, Clamped
<1> QED
  BY <1>3, <1>4

\* A weighted factor is at most its weight.
LEMMA Weighted ==
  ASSUME NEW w \in Nat, NEW f \in 0..Scale
  PROVE  w * f \in Nat /\ w * f <= w * Scale
<1>1. Scale \in Nat /\ f \in Nat /\ Scale - f \in Nat
  BY HoursAssumption
<1>2. w * (Scale - f) \in Nat /\ w * f \in Nat
  BY <1>1
<1>3. w * Scale = w * f + w * (Scale - f)
  BY <1>1
<1> QED
  BY <1>1, <1>2, <1>3

\* The weights make up a hundred (types.py, ScoringWeights).
LEMMA TotalIn ==
  ASSUME NEW r, IsScored(r), NEW start \in Int, NEW iv \in Intervals
  PROVE  Total(start, iv, r) \in 0..(100 * Scale)
<1> DEFINE w(k) == Weights[k]
           f1 == TimezoneFairness(start, r)
           f2 == WorkingHoursComfort(start, r)
           f3 == SchedulingProximity(start, r)
           f4 == WorkloadBalance
           f5 == BufferQuality(start, iv, r)
<1>1. f1 \in 0..Scale /\ f2 \in 0..Scale /\ f3 \in 0..Scale /\ f4 \in 0..Scale /\ f5 \in 0..Scale
  <2>1. f4 \in 0..Scale
    BY HoursAssumption DEF WorkloadBalance
  <2> QED
    BY <2>1, FairnessIn, ComfortIn, ProximityIn, BufferIn
<1>2. /\ w("fairness") \in Nat /\ w("comfort") \in Nat /\ w("proximity") \in Nat
      /\ w("workload") \in Nat /\ w("buffer") \in Nat
      /\ w("fairness") + w("comfort") + w("proximity") + w("workload") + w("buffer") = 100
  BY HoursAssumption DEF Factors
<1>3. Total(start, iv, r) = w("fairness") * f1 + w("comfort") * f2 + w("proximity") * f3
                              + w("workload") * f4 + w("buffer") * f5
  BY DEF Total
<1> HIDE DEF w, f1, f2, f3, f4, f5
<1> DEFINE a1 == w("fairness") * f1
           a2 == w("comfort") * f2
           a3 == w("proximity") * f3
           a4 == w("workload") * f4
           a5 == w("buffer") * f5
<1>4. a1 \in Nat /\ a2 \in Nat /\ a3 \in Nat /\ a4 \in Nat /\ a5 \in Nat
  BY <1>1, <1>2, Weighted
<1>5. /\ a1 <= w("fairness") * Scale /\ a2 <= w("comfort") * Scale /\ a3 <= w("proximity") * Scale
      /\ a4 <= w("workload") * Scale /\ a5 <= w("buffer") * Scale
  BY <1>1, <1>2, Weighted
<1>6. Total(start, iv, r) = a1 + a2 + a3 + a4 + a5
  BY <1>3
<1> HIDE DEF a1, a2, a3, a4, a5
<1>7. /\ Scale \in Nat
      /\ (w("fairness") + w("comfort") + w("proximity") + w("workload") + w("buffer")) * Scale
           = w("fairness") * Scale + w("comfort") * Scale + w("proximity") * Scale
             + w("workload") * Scale + w("buffer") * Scale
  BY <1>2, HoursAssumption
<1>8. a1 + a2 + a3 + a4 + a5 <= 100 * Scale
  <2> DEFINE b1 == w("fairness") * Scale
             b2 == w("comfort") * Scale
             b3 == w("proximity") * Scale
             b4 == w("workload") * Scale
             b5 == w("buffer") * Scale
  <2>1. b1 \in Nat /\ b2 \in Nat /\ b3 \in Nat /\ b4 \in Nat /\ b5 \in Nat
    BY <1>2, <1>7
  <2>2. b1 + b2 + b3 + b4 + b5 = 100 * Scale
    BY <1>2, <1>7
  <2>3. a1 <= b1 /\ a2 <= b2 /\ a3 <= b3 /\ a4 <= b4 /\ a5 <= b5
    BY <1>5
  <2> HIDE DEF b1, b2, b3, b4, b5
  <2> QED
    BY <1>4, <2>1, <2>2, <2>3, <1>7
<1> QED
  BY <1>4, <1>6, <1>7, <1>8

-----------------------------------------------------------------------------
(* Slots: what is on offer is the first of an order of the whole grid.     *)

\* The starts that an interval offers, and what is offered there.
Grid(iv, r) == {t \in iv.start + r.buffer .. iv.end - r.duration - r.buffer :
                  (t - iv.start - r.buffer) % Step = 0}

SlotOf(t, iv, r) == [start |-> t, end |-> t + r.duration, total |-> Total(t, iv, r)]

Slots == [start : Int, end : Int, total : 0..(100 * Scale)]

\* A function on a finite set takes finitely many values.
LEMMA FiniteRange ==
  ASSUME NEW S, IsFiniteSet(S), NEW f, DOMAIN f = S
  PROVE  IsFiniteSet({f[x] : x \in S})
<1> DEFINE T == {f[x] : x \in S}
           g == [x \in S |-> f[x]]
<1>1. g \in Surjection(S, T)
  BY DEF Surjection
<1> HIDE DEF g, T
<1>2. IsFiniteSet(T)
  BY <1>1, FS_Surjection
<1> QED
  BY <1>2 DEF T

\* A slot of the grid lies in its interval, and has a total.
LEMMA GridIn ==
  ASSUME NEW r, IsScored(r), r.duration > 0, NEW iv \in Intervals, NEW t \in Grid(iv, r)
  PROVE  /\ t \in Int /\ iv.start + r.buffer <= t /\ t + r.duration + r.buffer <= iv.end
         /\ iv.start <= t /\ t < iv.end
         /\ SlotOf(t, iv, r) \in Slots
<1>1. r.duration \in Int /\ r.buffer \in Nat /\ iv.start \in Int /\ iv.end \in Int
  BY DEF IsScored, Intervals
<1>2. t \in iv.start + r.buffer .. iv.end - r.duration - r.buffer
  BY DEF Grid
<1>3. t \in Int /\ iv.start + r.buffer <= t /\ t + r.duration + r.buffer <= iv.end
  BY <1>1, <1>2
<1>4. Total(t, iv, r) \in 0..(100 * Scale)
  BY <1>3, TotalIn
<1>5. SlotOf(t, iv, r) \in Slots
  BY <1>1, <1>3, <1>4 DEF SlotOf, Slots
<1> QED
  BY <1>1, <1>3, <1>5

\* Where the grid is not empty.
LEMMA GridStarts ==
  ASSUME NEW r, IsScored(r), NEW iv \in Intervals, iv.start + r.duration + 2 * r.buffer <= iv.end
  PROVE  iv.start + r.buffer \in Grid(iv, r)
<1>1. r.duration \in Int /\ r.buffer \in Nat /\ iv.start \in Int /\ iv.end \in Int /\ Step \in Nat \ {0}
  BY HoursAssumption DEF IsScored, Intervals
<1>2. iv.start + r.buffer \in iv.start + r.buffer .. iv.end - r.duration - r.buffer
  BY <1>1
<1>3. (iv.start + r.buffer) - iv.start - r.buffer = 0
  BY <1>1
<1>4. 0 % Step = 0
  BY <1>1
<1> QED
  BY <1>2, <1>3, <1>4 DEF Grid

\* The slots of every interval together.
LEMMA RawIs ==
  ASSUME NEW r, NEW ws
  PROVE  /\ Raw(r, ws) = UNION {{SlotOf(t, CommonFree(r, ws)[i], r) : t \in Grid(CommonFree(r, ws)[i], r)} :
                                  i \in DOMAIN CommonFree(r, ws)}
         /\ \A s : s \in Raw(r, ws) <=> \E i \in DOMAIN CommonFree(r, ws) : \E t \in Grid(CommonFree(r, ws)[i], r) :
                                           s = SlotOf(t, CommonFree(r, ws)[i], r)
<1>1. Raw(r, ws) = UNION {{SlotOf(t, CommonFree(r, ws)[i], r) : t \in Grid(CommonFree(r, ws)[i], r)} :
                                  i \in DOMAIN CommonFree(r, ws)}
  BY DEF Raw, SlotOf, Grid
<1> QED
  BY <1>1

\* The grid is finite.
LEMMA RawFinite ==
  ASSUME NEW r, IsScored(r), NEW ws, CommonFree(r, ws) \in Seq(Intervals)
  PROVE  IsFiniteSet(Raw(r, ws))
<1> DEFINE c == CommonFree(r, ws)
           of(i) == {SlotOf(t, c[i], r) : t \in Grid(c[i], r)}
           f == [i \in DOMAIN c |-> of(i)]
           P == {f[i] : i \in DOMAIN c}
<1>1. DOMAIN c = 1..Len(c) /\ Len(c) \in Nat /\ \A i \in 1..Len(c) : c[i] \in Intervals
  OBVIOUS
<1>2. Raw(r, ws) = UNION P
  BY RawIs
<1> HIDE DEF c
<1>3. ASSUME NEW i \in 1..Len(c) PROVE IsFiniteSet(of(i))
  <2> DEFINE G == Grid(c[i], r)
             g == [t \in G |-> SlotOf(t, c[i], r)]
             lo == c[i].start + r.buffer
             hi == c[i].end - r.duration - r.buffer
  <2>1. lo \in Int /\ hi \in Int
    <3>1. c[i].start \in Int /\ c[i].end \in Int /\ r.duration \in Int /\ r.buffer \in Int
      BY <1>1 DEF Intervals, IsScored
    <3> QED
      BY <3>1
  <2>2. IsFiniteSet(lo..hi) /\ G \in SUBSET (lo..hi)
    BY <2>1, FS_Interval DEF Grid
  <2>3. IsFiniteSet(G)
    BY <2>2, FS_Subset
  <2> HIDE DEF G
  <2>4. IsFiniteSet({g[t] : t \in G})
    BY <2>3, FiniteRange
  <2>5. {g[t] : t \in G} = of(i)
    BY DEF G
  <2> QED
    BY <2>4, <2>5
<1> HIDE DEF of
<1>4. IsFiniteSet(DOMAIN c)
  BY <1>1, FS_Interval
<1>5. IsFiniteSet(P)
  <2>1. DOMAIN f = DOMAIN c
    OBVIOUS
  <2> HIDE DEF f
  <2> QED
    BY <1>4, <2>1, FiniteRange
<1>6. \A S \in P : IsFiniteSet(S)
  BY <1>1, <1>3
<1> HIDE DEF P
<1> QED
  BY <1>2, <1>5, <1>6, FS_UNION

\* Best first, the earlier first among equals.
Ranking(S) == {w \in S \X S : Better(w[1], w[2])}

\* Two slots of the grid that start together are the same: each interval is apart from
\* the others, so the order is strict and total.
LEMMA RawRanked ==
  ASSUME NEW r, IsScored(r), r.duration > 0, NEW ws, CommonFree(r, ws) \in Seq(Intervals), Apart(CommonFree(r, ws))
  PROVE  Raw(r, ws) \subseteq Slots /\ TotalOrder(Raw(r, ws), Ranking(Raw(r, ws)))
<1> DEFINE c == CommonFree(r, ws)
           S == Raw(r, ws)
<1>1. DOMAIN c = 1..Len(c) /\ Len(c) \in Nat /\ \A i \in 1..Len(c) : c[i] \in Intervals
  OBVIOUS
<1>2. \A s : s \in S <=> \E i \in 1..Len(c) : \E t \in Grid(c[i], r) : s = SlotOf(t, c[i], r)
  <2>1. \A s : s \in S <=> \E i \in DOMAIN c : \E t \in Grid(c[i], r) : s = SlotOf(t, c[i], r)
    BY RawIs
  <2> QED
    BY <1>1, <2>1
<1>a. Apart(c)
  OBVIOUS
<1> HIDE DEF c, S
<1>3. S \subseteq Slots
  BY <1>1, <1>2, GridIn
<1>4. \A s \in S : s.start \in Int /\ s.total \in Int
  <2>0. Scale \in Nat
    BY HoursAssumption
  <2>1. 100 * Scale \in Nat
    BY <2>0
  <2>2. \A s \in Slots : s.start \in Int /\ s.total \in 0..(100 * Scale)
    BY DEF Slots
  <2> QED
    BY <1>3, <2>1, <2>2
<1>5. ASSUME NEW x \in S, NEW y \in S, x.start = y.start PROVE x = y
  <2>1. PICK i \in 1..Len(c) : \E t \in Grid(c[i], r) : x = SlotOf(t, c[i], r)
    BY <1>2
  <2>2. PICK j \in 1..Len(c) : \E u \in Grid(c[j], r) : y = SlotOf(u, c[j], r)
    BY <1>2
  <2>a. PICK t \in Grid(c[i], r) : x = SlotOf(t, c[i], r)
    BY <2>1
  <2>b. PICK u \in Grid(c[j], r) : y = SlotOf(u, c[j], r)
    BY <2>2
  <2>3. t = u
    BY <1>5, <2>a, <2>b DEF SlotOf
  <2>4. t \in Int /\ c[i].start <= t /\ t < c[i].end /\ c[j].start <= t /\ t < c[j].end
    BY <1>1, <2>3, GridIn
  <2>5. c[i].start \in Int /\ c[i].end \in Int /\ c[j].start \in Int /\ c[j].end \in Int
    BY <1>1 DEF Intervals
  <2>6. i < j => c[i].end < c[j].start
    BY <1>1, <1>a DEF Apart
  <2>7. j < i => c[j].end < c[i].start
    BY <1>1, <1>a DEF Apart
  <2>8. i = j
    BY <2>4, <2>5, <2>6, <2>7
  <2> QED
    BY <2>a, <2>b, <2>3, <2>8
<1> DEFINE R == Ranking(S)
<1>6. \A x, y \in S : <<x, y>> \in R <=> Better(x, y)
  BY DEF Ranking
<1>7. R \subseteq S \X S
  BY DEF Ranking
<1> HIDE DEF R
<1>8. \A x \in S : <<x, x>> \notin R
  BY <1>4, <1>6 DEF Better
<1>9. \A x, y, z \in S : <<x, y>> \in R /\ <<y, z>> \in R => <<x, z>> \in R
  BY <1>4, <1>6 DEF Better
<1>10. ASSUME NEW x \in S, NEW y \in S PROVE x = y \/ <<x, y>> \in R \/ <<y, x>> \in R
  <2>1. x.total \in Int /\ y.total \in Int /\ x.start \in Int /\ y.start \in Int
    BY <1>4
  <2>2. x.start = y.start \/ Better(x, y) \/ Better(y, x)
    BY <2>1 DEF Better
  <2> QED
    BY <1>5, <1>6, <2>2
<1>11. TotalOrder(S, R)
  BY <1>7, <1>8, <1>9, <1>10 DEF TotalOrder
<1> QED
  BY <1>3, <1>11 DEF R, S

\* The slots on offer are the first of the ranking (generate_recommendations, steps 9 and 10).
LEMMA RecommendedIs ==
  ASSUME NEW r, IsScored(r), r.duration > 0, NEW ws, CommonFree(r, ws) \in Seq(Intervals), Apart(CommonFree(r, ws))
  PROVE  LET S == Raw(r, ws)
             l == Lesser(TopN, Cardinality(S))
             rec == Recommended(r, ws)
         IN  /\ S \subseteq Slots /\ Cardinality(S) \in Nat /\ (S = {} <=> Cardinality(S) = 0)
             /\ rec \in Seq(S) /\ Len(rec) = l
             /\ \A m, n \in 1..l : m < n => Better(rec[m], rec[n])
             /\ \A s \in S : \/ \E n \in 1..l : rec[n] = s
                             \/ l = TopN /\ Better(rec[TopN], s)
<1> DEFINE S == Raw(r, ws)
           l == Lesser(TopN, Cardinality(S))
           rec == Recommended(r, ws)
           R == Ranking(S)
           rank(s) == RankOf(S, R, s)
<1>1. IsFiniteSet(S) /\ S \subseteq Slots /\ TotalOrder(S, R)
  BY RawFinite, RawRanked
<1>2. rec = [n \in 1 .. Lesser(TopN, Cardinality(S)) |->
               CHOOSE s \in S : 1 + Cardinality({x \in S : Better(x, s)}) = n]
  BY DEF Recommended
<1> HIDE DEF S, rec
<1>3. ASSUME NEW s \in S PROVE 1 + Cardinality({x \in S : Better(x, s)}) = rank(s)
  <2>1. {x \in S : Better(x, s)} = Ahead(S, R, s)
    BY DEF Ahead, Ranking
  <2> QED
    BY <2>1 DEF RankOf
<1>4. TopN \in Nat \ {0}
  BY HoursAssumption
<1>5. Cardinality(S) \in Nat /\ (S = {} <=> Cardinality(S) = 0)
  BY <1>1, FS_CardinalityType, FS_EmptySet
<1>6. l \in Nat /\ l <= TopN /\ l <= Cardinality(S) /\ (l = TopN \/ l = Cardinality(S))
  BY <1>4, <1>5 DEF Lesser
<1>7. /\ \A x \in S : rank(x) \in 1..Cardinality(S)
      /\ \A x, y \in S : <<x, y>> \in R => rank(x) < rank(y)
      /\ \A x, y \in S : rank(x) = rank(y) => x = y
      /\ \A m \in 1..Cardinality(S) : \E x \in S : rank(x) = m
  BY <1>1, RankBounds, Ranks
<1>b. \A x, y \in S : <<x, y>> \in R <=> Better(x, y)
  BY DEF Ranking
<1>c. \A x, y \in S : x = y \/ <<x, y>> \in R \/ <<y, x>> \in R
  BY <1>1 DEF TotalOrder
<1> HIDE DEF rank, R
<1> DEFINE at(n) == CHOOSE s \in S : 1 + Cardinality({x \in S : Better(x, s)}) = n
<1>8. ASSUME NEW n \in 1..Cardinality(S) PROVE at(n) \in S /\ rank(at(n)) = n
  BY <1>3, <1>7
<1>9. rec = [n \in 1..l |-> at(n)]
  BY <1>2
<1> HIDE DEF at, l
<1>10. \A n \in 1..l : n \in 1..Cardinality(S)
  BY <1>5, <1>6
<1>11. rec \in [1..l -> S]
  BY <1>8, <1>9, <1>10
<1>12. rec \in Seq(S) /\ Len(rec) = l
  BY <1>6, <1>11, OnFirst
<1>13. \A n \in 1..l : rec[n] = at(n) /\ at(n) \in S /\ rank(at(n)) = n
  BY <1>8, <1>9, <1>10
<1>14. ASSUME NEW m \in 1..l, NEW n \in 1..l, m < n PROVE Better(rec[m], rec[n])
  <2>1. at(m) \in S /\ at(n) \in S /\ rank(at(m)) = m /\ rank(at(n)) = n
    BY <1>13
  <2>2. at(m) # at(n) /\ <<at(n), at(m)>> \notin R
    <3>1. m # n /\ ~(n < m)
      BY <1>14
    <3> QED
      BY <1>7, <2>1, <3>1
  <2> QED
    BY <1>13, <1>b, <1>c, <2>1, <2>2
<1>15. ASSUME NEW s \in S PROVE (\E n \in 1..l : rec[n] = s) \/ (l = TopN /\ Better(rec[TopN], s))
  <2>1. rank(s) \in 1..Cardinality(S)
    BY <1>7
  <2>2. CASE rank(s) \in 1..l
    <3>1. at(rank(s)) \in S /\ rank(at(rank(s))) = rank(s)
      BY <1>8, <2>1
    <3>2. at(rank(s)) = s
      BY <1>7, <3>1
    <3> QED
      BY <1>13, <2>2, <3>2
  <2>3. CASE rank(s) \notin 1..l
    <3>1. l = TopN /\ TopN < rank(s) /\ TopN \in 1..l
      BY <1>4, <1>5, <1>6, <2>1, <2>3
    <3>2. at(TopN) \in S /\ rank(at(TopN)) = TopN /\ rec[TopN] = at(TopN)
      BY <1>13, <3>1
    <3>3. at(TopN) # s /\ <<s, at(TopN)>> \notin R
      <4>1. TopN # rank(s) /\ ~(rank(s) < TopN)
        BY <1>4, <2>1, <3>1
      <4> QED
        BY <1>7, <3>2, <4>1
    <3> QED
      BY <1>b, <1>c, <3>1, <3>2, <3>3
  <2> QED
    BY <2>2, <2>3
<1>16. /\ S \subseteq Slots /\ Cardinality(S) \in Nat /\ (S = {} <=> Cardinality(S) = 0)
       /\ rec \in Seq(S) /\ Len(rec) = l
       /\ \A m, n \in 1..l : m < n => Better(rec[m], rec[n])
       /\ \A s \in S : \/ \E n \in 1..l : rec[n] = s
                       \/ l = TopN /\ Better(rec[TopN], s)
  BY <1>1, <1>5, <1>12, <1>14, <1>15
<1> QED
  BY <1>16 DEF S, l, rec

-----------------------------------------------------------------------------
(* Requests: what the states are that the engine is asked in.              *)

\* What the engine has answered follows from what it was asked.
Answered ==
  LET windows == Prepared(asked) IN
  \/ outcome = "none" /\ slots = <<>>
  \/ outcome = "expired" /\ slots = <<>> /\ windows = <<>>
  \/ /\ windows # <<>> /\ slots = Recommended(asked, windows)
     /\ outcome = IF slots = <<>> THEN "empty" ELSE "slots"

\* What holds in every state.
EngineInv ==
  /\ IsRequest(asked)
  /\ PlainZones => IsPlain(asked)
  /\ Answered

\* A stale window is dropped or cut to what lies ahead, and the engine accepts what is left
\* (_generate_locked, _validate).
LEMMA WindowsAccepted ==
  ASSUME NEW r, IsRequest(r)
  PROVE  /\ Prepared(r) \in Seq(Intervals) /\ Ordered(Prepared(r))
         /\ \A i \in DOMAIN Prepared(r) : r.now <= Prepared(r)[i].start /\ Prepared(r)[i].end <= Horizon
         /\ Prepared(r) # <<>> => Valid(r, Prepared(r))
<1> DEFINE ws == Prepared(r)
<1>1. r.now \in Nat /\ r.stored \in Seq(Intervals) /\ Horizon \in Nat
  BY HoursAssumption DEF IsRequest
<1>2. /\ ws \in Seq(Intervals)
      /\ \A k \in 1..Len(ws) : \E i \in 1..Len(r.stored) :
           /\ r.stored[i].end > r.now
           /\ ws[k] = Interval(Greater(r.stored[i].start, r.now), r.stored[i].end)
  BY <1>1, PreparedIn
<1> HIDE DEF ws
<1>3. DOMAIN ws = 1..Len(ws) /\ DOMAIN r.stored = 1..Len(r.stored) /\ \A i \in 1..Len(r.stored) : r.stored[i] \in Intervals
  BY <1>1, <1>2
<1>4. ASSUME NEW k \in DOMAIN ws
      PROVE  ws[k].start < ws[k].end /\ r.now <= ws[k].start /\ ws[k].end <= Horizon
  <2>1. PICK i \in 1..Len(r.stored) :
          /\ r.stored[i].end > r.now
          /\ ws[k] = Interval(Greater(r.stored[i].start, r.now), r.stored[i].end)
    BY <1>2, <1>3
  <2>2. r.stored[i].start < r.stored[i].end /\ r.stored[i].end <= Horizon
    BY <1>3 DEF IsRequest
  <2>3. r.stored[i].start \in Int /\ r.stored[i].end \in Int
    BY <1>3 DEF Intervals
  <2>4. ws[k].start = Greater(r.stored[i].start, r.now) /\ ws[k].end = r.stored[i].end
    BY <2>1 DEF Interval
  <2> QED
    BY <1>1, <2>1, <2>2, <2>3, <2>4 DEF Greater
<1>5. \A k \in DOMAIN ws : ws[k].start \in Int /\ ws[k].end \in Int
  <2>1. \A k \in DOMAIN ws : ws[k] \in Intervals
    BY <1>2
  <2> QED
    BY <2>1 DEF Intervals
<1>6. Ordered(ws)
  BY <1>4, <1>5 DEF Ordered
<1>7. ASSUME ws # <<>> PROVE Valid(r, ws)
  <2>1. \A k \in DOMAIN ws : ws[k].start < ws[k].end /\ ws[k].start >= r.now /\ ws[k].end <= r.now + Horizon
    BY <1>1, <1>4, <1>5
  <2>2. r.duration > 0 /\ r.buffer >= 0
    BY DEF IsRequest
  <2>3. r.panel # <<>> /\ \A i \in DOMAIN r.panel : \A j \in DOMAIN r.panel[i].busy :
          r.panel[i].busy[j].start < r.panel[i].busy[j].end
    BY DEF IsRequest
  <2> QED
    BY <1>7, <2>1, <2>2, <2>3 DEF Valid
<1> QED
  BY <1>2, <1>4, <1>6, <1>7 DEF ws

\* The requests of the initial states are such requests (WindowIn, CreateInterviewRequest).
LEMMA InitAsks ==
  Init => EngineInv
<1> SUFFICES ASSUME Init PROVE EngineInv
  OBVIOUS
<1>1. PICK now \in Times, stored \in WindowLists, zone \in CandidateZones, panel \in Panels, length \in Lengths :
        asked = [now |-> now, stored |-> stored, candidate |-> zone, panel |-> panel,
                 duration |-> length[1], buffer |-> length[2]]
  BY DEF Init
<1>2. /\ asked.now = now /\ asked.stored = stored /\ asked.candidate = zone /\ asked.panel = panel
      /\ asked.duration = length[1] /\ asked.buffer = length[2]
  BY <1>1
<1>3. now \in Nat /\ zone \in Clocks
  BY RequestsAssumption
<1>4. stored \in Seq(Intervals) /\ \A i \in DOMAIN stored : stored[i].start < stored[i].end /\ stored[i].end <= Horizon
  BY RequestsAssumption
<1>5. /\ panel \in Seq(Panelists) /\ panel # <<>>
      /\ \A i \in DOMAIN panel : \A j \in DOMAIN panel[i].busy : panel[i].busy[j].start < panel[i].busy[j].end
  BY RequestsAssumption
<1>6. length \in (Nat \ {0}) \X Nat
  BY RequestsAssumption
<1>7. length[1] \in Nat \ {0} /\ length[2] \in Nat
  BY <1>6
<1>8. IsRequest(asked)
  BY <1>2, <1>3, <1>4, <1>5, <1>7 DEF IsRequest
<1>9. PlainZones => IsPlain(asked)
  BY <1>2 DEF PlainZones, IsPlain
<1>10. Answered
  BY DEF Init, Answered
<1> QED
  BY <1>8, <1>9, <1>10 DEF EngineInv

\* Every step answers what was asked.
LEMMA StepAnswers ==
  EngineInv /\ [Next]_vars => EngineInv'
<1> SUFFICES ASSUME EngineInv, [Next]_vars PROVE EngineInv'
  OBVIOUS
<1>1. CASE Generate
  <2>1. asked' = asked
    BY <1>1 DEF Generate
  <2>2. IsRequest(asked) /\ (PlainZones => IsPlain(asked))
    BY DEF EngineInv
  <2>3. IsRequest(asked)' /\ (PlainZones => IsPlain(asked))'
    BY <2>1, <2>2
  <2>4. Prepared(asked) # <<>> => Valid(asked, Prepared(asked))
    BY <2>2, WindowsAccepted
  <2>5. Prepared(asked)' = Prepared(asked) /\ Recommended(asked, Prepared(asked))' = Recommended(asked, Prepared(asked))
    BY <2>1
  <2>6. Answered'
    <3>1. CASE Prepared(asked) = <<>>
      <4>1. slots' = <<>> /\ outcome' = "expired"
        BY <1>1, <3>1 DEF Generate
      <4> QED
        BY <2>5, <3>1, <4>1 DEF Answered
    <3>2. CASE Prepared(asked) # <<>>
      <4>1. Valid(asked, Prepared(asked))
        BY <2>4, <3>2
      <4>2. slots' = Recommended(asked, Prepared(asked)) /\ outcome' = IF slots' = <<>> THEN "empty" ELSE "slots"
        BY <1>1, <3>2, <4>1 DEF Generate
      <4> QED
        BY <2>5, <3>2, <4>2 DEF Answered
    <3> QED
      BY <3>1, <3>2
  <2> QED
    BY <2>3, <2>6 DEF EngineInv
<1>2. CASE UNCHANGED vars
  BY <1>2 DEF vars, EngineInv, Answered
<1> QED
  BY <1>1, <1>2 DEF Next

\* What was asked is a request the API lets in, and what was answered is what the engine
\* makes of it.
THEOREM EngineInvariant == Spec => []EngineInv
<1> QED
  BY InitAsks, StepAnswers, PTL DEF Spec

\* The answer there is, if any, comes from time that lies in intervals apart.
LEMMA AnswerIs ==
  ASSUME EngineInv, outcome \in {"empty", "slots"}
  PROVE  LET ws == Prepared(asked)
             c == CommonFree(asked, ws)
             S == Raw(asked, ws)
         IN  /\ ws # <<>> /\ c \in Seq(Intervals) /\ Apart(c)
             /\ S \subseteq Slots /\ (slots = <<>> <=> S = {})
             /\ slots \in Seq(S) /\ Len(slots) <= TopN
             /\ \A m, n \in DOMAIN slots : m < n => Better(slots[m], slots[n])
             /\ \A s \in S : \/ \E n \in DOMAIN slots : slots[n] = s
                             \/ Len(slots) = TopN /\ Better(slots[TopN], s)
             /\ slots = <<>> <=> outcome = "empty"
<1> DEFINE ws == Prepared(asked)
           c == CommonFree(asked, ws)
           S == Raw(asked, ws)
           l == Lesser(TopN, Cardinality(S))
<1>1. IsRequest(asked) /\ Answered
  BY DEF EngineInv
<1>2. ws # <<>> /\ slots = Recommended(asked, ws) /\ (slots = <<>> <=> outcome = "empty")
  BY <1>1 DEF Answered
<1>3. ws \in Seq(Intervals) /\ \A i \in DOMAIN ws : asked.now <= ws[i].start /\ ws[i].end <= Horizon
  BY <1>1, WindowsAccepted
<1>4. /\ asked.now \in Int /\ Horizon \in Int /\ asked.candidate \in Clocks
      /\ asked.panel \in Seq(Panelists) /\ asked.panel # <<>>
  <2>1. asked.now \in Nat /\ asked.candidate \in Clocks /\ asked.panel \in Seq(Panelists) /\ asked.panel # <<>>
    BY <1>1 DEF IsRequest
  <2>2. Horizon \in Int
    BY HoursAssumption
  <2> QED
    BY <2>1, <2>2
<1>5. IsScored(asked) /\ asked.duration > 0
  BY <1>1 DEF IsScored, IsRequest
<1> HIDE DEF ws
<1>6. c \in Seq(Intervals) /\ Apart(c)
  BY <1>2, <1>3, <1>4, CommonFreeTyped DEF Stretches
<1>7. /\ S \subseteq Slots /\ Cardinality(S) \in Nat /\ (S = {} <=> Cardinality(S) = 0)
      /\ slots \in Seq(S) /\ Len(slots) = l
      /\ \A m, n \in 1..l : m < n => Better(slots[m], slots[n])
      /\ \A s \in S : \/ \E n \in 1..l : slots[n] = s
                      \/ l = TopN /\ Better(slots[TopN], s)
  BY <1>2, <1>5, <1>6, RecommendedIs
<1>8. TopN \in Nat \ {0}
  BY HoursAssumption
<1> HIDE DEF c, S
<1>9. l \in Nat /\ l <= TopN /\ (l = 0 <=> Cardinality(S) = 0)
  BY <1>7, <1>8 DEF Lesser
<1> HIDE DEF l
<1>10. DOMAIN slots = 1..l /\ (slots = <<>> <=> l = 0)
  BY <1>7, <1>9
<1>11. /\ ws # <<>> /\ c \in Seq(Intervals) /\ Apart(c)
       /\ S \subseteq Slots /\ (slots = <<>> <=> S = {})
       /\ slots \in Seq(S) /\ Len(slots) <= TopN
       /\ slots = <<>> <=> outcome = "empty"
  BY <1>2, <1>6, <1>7, <1>9, <1>10
<1>12. /\ \A m, n \in DOMAIN slots : m < n => Better(slots[m], slots[n])
       /\ \A s \in S : \/ \E n \in DOMAIN slots : slots[n] = s
                       \/ Len(slots) = TopN /\ Better(slots[TopN], s)
  BY <1>7, <1>10
<1> QED
  BY <1>11, <1>12 DEF ws, c, S

-----------------------------------------------------------------------------
(* Promises: every run keeps the properties of Engine.                     *)

\* The outcome goes with the slots, and no more than TopN are offered.
THEOREM TypeCorrect == Spec => []TypeOK
<1>1. EngineInv => TypeOK
  <2> SUFFICES ASSUME EngineInv PROVE TypeOK
    OBVIOUS
  <2>1. Answered /\ TopN \in Nat
    BY HoursAssumption DEF EngineInv
  <2>2. CASE outcome \in {"none", "expired"}
    <3>1. slots = <<>> /\ Len(slots) = 0
      BY <2>1, <2>2 DEF Answered
    <3> QED
      BY <2>1, <2>2, <3>1 DEF TypeOK
  <2>3. CASE outcome \in {"empty", "slots"}
    <3>1. Len(slots) <= TopN /\ (slots = <<>> <=> outcome = "empty")
      BY <2>3, AnswerIs
    <3> QED
      BY <2>3, <3>1 DEF TypeOK
  <2>4. outcome \in {"none", "expired", "empty", "slots"}
    BY <2>1 DEF Answered
  <2> QED
    BY <2>2, <2>3, <2>4
<1> QED
  BY <1>1, EngineInvariant, PTL

\* Windows that were accepted when they were submitted are never refused when the
\* recommendations are generated (availability/schemas.py against _validate).
THEOREM WindowsStayValid == Spec => []NeverRejected
<1>1. EngineInv => NeverRejected
  BY DEF EngineInv, Answered, NeverRejected
<1> QED
  BY <1>1, EngineInvariant, PTL

\* Slots are offered with the outcome "slots" only.
LEMMA OfferedSlots ==
  ASSUME EngineInv, NEW n \in DOMAIN slots
  PROVE  outcome \in {"empty", "slots"} /\ slots[n] \in Raw(asked, Prepared(asked))
<1>1. slots # <<>>
  OBVIOUS
<1>2. outcome \in {"empty", "slots"}
  BY <1>1 DEF EngineInv, Answered
<1>3. slots \in Seq(Raw(asked, Prepared(asked)))
  BY <1>2, AnswerIs
<1> QED
  BY <1>2, <1>3

\* A total is between 0.0 and 1.0 (types.py: the weights sum to 1; every _clamp).
THEOREM TotalsInRange == Spec => []TotalInRange
<1>1. EngineInv => TotalInRange
  <2> SUFFICES ASSUME EngineInv, NEW n \in DOMAIN slots PROVE 0 <= slots[n].total /\ slots[n].total <= 100 * Scale
    BY DEF TotalInRange
  <2>1. slots[n] \in Slots
    BY OfferedSlots, AnswerIs
  <2>2. slots[n].total \in 0..(100 * Scale)
    BY <2>1 DEF Slots
  <2>3. Scale \in Nat
    BY HoursAssumption
  <2> QED
    BY <2>2, <2>3
<1> QED
  BY <1>1, EngineInvariant, PTL

\* A run of instants in intervals that lie apart is in one of them.
LEMMA OneStretch ==
  ASSUME NEW c \in Seq(Intervals), Apart(c), NEW a \in Int, NEW b \in Int, a <= b, \A u \in a..b : In(c, u)
  PROVE  \E i \in DOMAIN c : c[i].start <= a /\ b < c[i].end
<1>1. \A i \in DOMAIN c : c[i].start \in Int /\ c[i].end \in Int
  <2>1. \A i \in DOMAIN c : c[i] \in Intervals
    OBVIOUS
  <2> QED
    BY <2>1 DEF Intervals
<1>2. PICK i \in DOMAIN c : c[i].start <= a /\ a < c[i].end
  <2>1. In(c, a)
    OBVIOUS
  <2> QED
    BY <2>1 DEF In
<1>3. SUFFICES ASSUME c[i].end <= b PROVE FALSE
  BY <1>1, <1>2
<1> DEFINE e == c[i].end
<1>4. e \in a..b
  BY <1>1, <1>2, <1>3
<1>5. PICK j \in DOMAIN c : c[j].start <= e /\ e < c[j].end
  <2>1. In(c, e)
    BY <1>4
  <2> QED
    BY <2>1 DEF In
<1>6. i \in Int /\ j \in Int
  OBVIOUS
<1>7. CASE i < j
  <2>1. c[i].end < c[j].start
    BY <1>7 DEF Apart
  <2> QED
    BY <1>1, <1>5, <2>1
<1>8. CASE j < i
  <2>1. c[j].end < c[i].start
    BY <1>8 DEF Apart
  <2> QED
    BY <1>1, <1>2, <1>5, <2>1
<1>9. CASE i = j
  BY <1>1, <1>5, <1>9
<1> QED
  BY <1>6, <1>7, <1>8, <1>9

\* The time on offer is when everybody is free, where no change of a clock falls on the
\* begin or the end of a working day.
LEMMA FreeIs ==
  ASSUME EngineInv, PlainZones, Prepared(asked) # <<>>
  PROVE  \A t \in Int : EverybodyFree(t) <=> In(CommonFree(asked, Prepared(asked)), t)
<1> DEFINE ws == Prepared(asked)
<1>1. IsRequest(asked) /\ IsPlain(asked)
  BY DEF EngineInv
<1>2. /\ ws \in Seq(Intervals) /\ Ordered(ws) /\ ws # <<>>
      /\ \A i \in DOMAIN ws : asked.now <= ws[i].start /\ ws[i].end <= Horizon
  BY <1>1, WindowsAccepted
<1>3. /\ asked.now \in Int /\ asked.candidate \in Clocks /\ asked.panel \in Seq(Panelists) /\ asked.panel # <<>>
      /\ asked.stored \in Seq(Intervals)
  BY <1>1 DEF IsRequest
<1>4. Horizon \in Int
  BY HoursAssumption
<1>5. PlainHours(asked.candidate) /\ \A i \in DOMAIN asked.panel : PlainHours(asked.panel[i].zone)
  BY <1>1 DEF IsPlain
<1>6. \A t \in Int : In(ws, t) <=> In(asked.stored, t) /\ asked.now <= t
  BY <1>3, PreparedIn
<1> HIDE DEF ws
<1>7. \A t \in Int : In(CommonFree(asked, ws), t) <=>
              /\ AtWork(asked.candidate, t) /\ In(ws, t)
              /\ \A i \in DOMAIN asked.panel : AtWork(asked.panel[i].zone, t) /\ ~In(asked.panel[i].busy, t)
  BY <1>2, <1>3, <1>4, <1>5, CommonFreeIn
<1>8. ASSUME NEW t \in Int PROVE EverybodyFree(t) <=> In(CommonFree(asked, ws), t)
  <2>1. t >= asked.now <=> asked.now <= t
    BY <1>3
  <2> QED
    BY <1>6, <1>7, <1>8, <2>1, Zenon DEF EverybodyFree
<1> QED
  BY <1>8 DEF ws

\* Everybody is at work and free for the whole of a slot on offer and for its buffers, if
\* no change of a clock skips or repeats the begin or the end of a working day
\* (_free_intervals; the buffers of generate_recommendations).
THEOREM SlotsFit == ASSUME PlainZones PROVE Spec => []FitsEverybody
<1>1. EngineInv => FitsEverybody
  <2> SUFFICES ASSUME EngineInv, NEW n \in DOMAIN slots
      PROVE  /\ slots[n].end = slots[n].start + asked.duration
             /\ \A t \in Room(slots[n].start) : EverybodyFree(t)
    BY DEF FitsEverybody
  <2> DEFINE c == CommonFree(asked, Prepared(asked))
  <2>1. outcome \in {"empty", "slots"} /\ slots[n] \in Raw(asked, Prepared(asked))
    BY OfferedSlots
  <2>2. Prepared(asked) # <<>> /\ c \in Seq(Intervals)
    BY <2>1, AnswerIs
  <2>3. PICK i \in DOMAIN c : \E t \in Grid(c[i], asked) : slots[n] = SlotOf(t, c[i], asked)
    BY <2>1, RawIs
  <2>4. PICK t \in Grid(c[i], asked) : slots[n] = SlotOf(t, c[i], asked)
    BY <2>3
  <2>5. \A u \in Int : EverybodyFree(u) <=> In(c, u)
    BY <2>2, FreeIs
  <2> HIDE DEF c
  <2>6. IsRequest(asked)
    BY DEF EngineInv
  <2>7. IsScored(asked) /\ asked.duration > 0 /\ asked.duration \in Int /\ asked.buffer \in Nat
    BY <2>6 DEF IsRequest, IsScored
  <2>8. c[i] \in Intervals
    BY <2>2
  <2>9. t \in Int /\ c[i].start + asked.buffer <= t /\ t + asked.duration + asked.buffer <= c[i].end
    BY <2>7, <2>8, GridIn
  <2>10. c[i].start \in Int /\ c[i].end \in Int
    BY <2>8 DEF Intervals
  <2>11. slots[n].start = t /\ slots[n].end = t + asked.duration
    BY <2>4 DEF SlotOf
  <2>12. ASSUME NEW u \in Room(t) PROVE EverybodyFree(u)
    <3>1. u \in Int /\ t - asked.buffer <= u /\ u <= t + asked.duration + asked.buffer - 1
      BY <2>7, <2>9 DEF Room
    <3>2. c[i].start <= u /\ u < c[i].end
      BY <2>7, <2>9, <2>10, <3>1
    <3>3. In(c, u)
      BY <3>2 DEF In
    <3> QED
      BY <2>5, <3>1, <3>3
  <2> QED
    BY <2>11, <2>12
<1> QED
  BY <1>1, EngineInvariant, PTL

\* A request fails for want of a common time only if there is none (_merge, _intersect, and
\* the clipping of stale windows).
THEOREM NoRoomMissed == ASSUME PlainZones PROVE Spec => []FailsOnlyWithoutRoom
<1>1. EngineInv => FailsOnlyWithoutRoom
  <2> SUFFICES ASSUME EngineInv, outcome \in {"empty", "expired"}, NEW t \in asked.now .. Horizon,
                      \A u \in Room(t) : EverybodyFree(u)
      PROVE  FALSE
    BY DEF FailsOnlyWithoutRoom
  <2> DEFINE c == CommonFree(asked, Prepared(asked))
             a == t - asked.buffer
             b == t + asked.duration + asked.buffer - 1
  <2>1. IsRequest(asked)
    BY DEF EngineInv
  <2>2. IsScored(asked) /\ asked.duration > 0 /\ asked.duration \in Int /\ asked.buffer \in Nat /\ asked.now \in Int
    BY <2>1 DEF IsRequest, IsScored
  <2>a. Horizon \in Int
    BY HoursAssumption
  <2>3. t \in Int /\ a \in Int /\ b \in Int /\ a <= t /\ t <= b
    BY <2>2, <2>a
  <2>4. \A u \in a..b : EverybodyFree(u)
    BY DEF Room
  <2> HIDE DEF a, b
  <2>5. CASE outcome = "expired"
    <3>1. Prepared(asked) = <<>>
      BY <2>5 DEF EngineInv, Answered
    <3>2. EverybodyFree(t)
      BY <2>3, <2>4
    <3>3. In(asked.stored, t) /\ asked.now <= t
      BY <2>2, <2>3, <3>2 DEF EverybodyFree
    <3>4. asked.stored \in Seq(Intervals)
      BY <2>1 DEF IsRequest
    <3>5. In(Prepared(asked), t)
      BY <2>2, <2>3, <3>3, <3>4, PreparedIn
    <3> QED
      BY <3>1, <3>5 DEF In
  <2>6. CASE outcome = "empty"
    <3>1. /\ Prepared(asked) # <<>> /\ c \in Seq(Intervals) /\ Apart(c)
          /\ Raw(asked, Prepared(asked)) = {}
      BY <2>6, AnswerIs
    <3>2. \A u \in Int : EverybodyFree(u) <=> In(c, u)
      BY <3>1, FreeIs
    <3>r. \A s : s \in Raw(asked, Prepared(asked)) <=>
                   \E i \in DOMAIN c : \E x \in Grid(c[i], asked) : s = SlotOf(x, c[i], asked)
      BY RawIs
    <3> HIDE DEF c
    <3>3. a <= b /\ \A u \in a..b : In(c, u)
      BY <2>3, <2>4, <3>2
    <3>4. PICK i \in DOMAIN c : c[i].start <= a /\ b < c[i].end
      BY <2>3, <3>1, <3>3, OneStretch
    <3>5. c[i] \in Intervals
      BY <3>1
    <3>6. c[i].start \in Int /\ c[i].end \in Int
      BY <3>5 DEF Intervals
    <3>7. c[i].start + asked.duration + 2 * asked.buffer <= c[i].end
      BY <2>2, <2>3, <3>4, <3>6 DEF a, b
    <3>8. c[i].start + asked.buffer \in Grid(c[i], asked)
      BY <2>2, <3>5, <3>7, GridStarts
    <3> QED
      BY <3>1, <3>8, <3>r
  <2> QED
    BY <2>5, <2>6
<1> QED
  BY <1>1, EngineInvariant, PTL

\* A free stretch is one interval of the time on offer, from end to end.
LEMMA StretchIs ==
  ASSUME NEW c \in Seq(Intervals), Apart(c), NEW lo \in Int, In(c, lo), ~In(c, lo - 1)
  PROVE  \E i \in DOMAIN c :
           /\ c[i].start = lo /\ lo < c[i].end /\ c[i] = Interval(lo, c[i].end)
           /\ ~In(c, c[i].end)
           /\ \A u \in lo .. c[i].end - 1 : In(c, u)
<1>1. \A i \in DOMAIN c : c[i].start \in Int /\ c[i].end \in Int /\ c[i] = Interval(c[i].start, c[i].end)
  <2>1. \A i \in DOMAIN c : c[i] \in Intervals
    OBVIOUS
  <2> QED
    BY <2>1 DEF Intervals, Interval
<1>2. PICK i \in DOMAIN c : c[i].start <= lo /\ lo < c[i].end
  BY DEF In
<1>3. c[i].start = lo
  <2>1. ~(c[i].start <= lo - 1 /\ lo - 1 < c[i].end)
    BY DEF In
  <2> QED
    BY <1>1, <1>2, <2>1
<1>4. \A u \in lo .. c[i].end - 1 : In(c, u)
  <2> TAKE u \in lo .. c[i].end - 1
  <2>1. c[i].start <= u /\ u < c[i].end
    BY <1>1, <1>3
  <2> QED
    BY <2>1 DEF In
<1>5. ~In(c, c[i].end)
  <2>1. SUFFICES ASSUME In(c, c[i].end) PROVE FALSE
    OBVIOUS
  <2>2. \A u \in lo .. c[i].end : In(c, u)
    BY <1>1, <1>4, <2>1
  <2> DEFINE e == c[i].end
  <2>a. e \in Int /\ lo <= e
    BY <1>1, <1>2
  <2>b. \A u \in lo .. e : In(c, u)
    BY <2>2
  <2> HIDE DEF e
  <2>c. PICK j \in DOMAIN c : c[j].start <= lo /\ e < c[j].end
    BY <2>a, <2>b, OneStretch
  <2>3. c[j].start <= lo /\ c[i].end < c[j].end
    BY <2>c DEF e
  <2>4. i < j => c[i].end < c[j].start
    BY DEF Apart
  <2>5. j < i => c[j].end < c[i].start
    BY DEF Apart
  <2>6. i \in Int /\ j \in Int
    OBVIOUS
  <2>7. i # j
    BY <1>1, <2>3
  <2> QED
    BY <1>1, <1>2, <2>3, <2>4, <2>5, <2>6, <2>7
<1> QED
  BY <1>1, <1>2, <1>3, <1>4, <1>5

\* What is on offer is best first, and no slot of the grid in a free stretch is better than
\* what is on offer, under the same hypothesis (generate_recommendations, steps 6 to 10).
THEOREM BestOffered == ASSUME PlainZones PROVE Spec => []OffersTheBest
<1> DEFINE before(x, y) == x.total > y.total \/ (x.total = y.total /\ x.start < y.start)
           Ends(lo) == {t \in lo .. Horizon + 1 : Closes(t) /\ \A u \in lo .. t - 1 : EverybodyFree(u)}
           Hi(lo) == CHOOSE t \in lo .. Horizon + 1 : Closes(t) /\ \A u \in lo .. t - 1 : EverybodyFree(u)
           Points(lo, hi) == {t \in lo + asked.buffer .. hi - asked.duration - asked.buffer :
                                (t - lo - asked.buffer) % Step = 0}
           Slot(t, lo, hi) == [start |-> t, end |-> t + asked.duration, total |-> Total(t, Interval(lo, hi), asked)]
<1>1. EngineInv => OffersTheBest
  <2> SUFFICES ASSUME EngineInv, outcome \in {"empty", "slots"}
      PROVE  /\ \A m, n \in DOMAIN slots : m < n => before(slots[m], slots[n])
             /\ \A lo \in {t \in 0 .. Horizon : Opens(t)} : \A t \in Points(lo, Hi(lo)) :
                  \/ \E n \in DOMAIN slots : slots[n] = Slot(t, lo, Hi(lo))
                  \/ Len(slots) = TopN /\ before(slots[TopN], Slot(t, lo, Hi(lo)))
    BY DEF OffersTheBest
  <2> DEFINE ws == Prepared(asked)
             c == CommonFree(asked, ws)
             S == Raw(asked, ws)
  <2>1. /\ ws # <<>> /\ c \in Seq(Intervals) /\ Apart(c)
        /\ \A m, n \in DOMAIN slots : m < n => Better(slots[m], slots[n])
        /\ \A s \in S : \/ \E n \in DOMAIN slots : slots[n] = s
                        \/ Len(slots) = TopN /\ Better(slots[TopN], s)
    BY AnswerIs
  <2>2. \A u \in Int : EverybodyFree(u) <=> In(c, u)
    BY <2>1, FreeIs
  <2>3. \A s : s \in S <=> \E i \in DOMAIN c : \E t \in Grid(c[i], asked) : s = SlotOf(t, c[i], asked)
    BY RawIs
  <2>4. \A m, n \in DOMAIN slots : m < n => before(slots[m], slots[n])
    BY <2>1 DEF Better
  <2>5. Horizon \in Nat
    BY HoursAssumption
  <2> HIDE DEF c, S
  <2>6. ASSUME NEW lo \in 0 .. Horizon, Opens(lo), NEW t \in Points(lo, Hi(lo))
        PROVE  \/ \E n \in DOMAIN slots : slots[n] = Slot(t, lo, Hi(lo))
               \/ Len(slots) = TopN /\ before(slots[TopN], Slot(t, lo, Hi(lo)))
    <3>1. lo \in Int /\ lo - 1 \in Int
      BY <2>5
    <3>2. In(c, lo) /\ ~In(c, lo - 1)
      BY <2>2, <2>6, <3>1 DEF Opens
    <3>3. PICK i \in DOMAIN c :
           /\ c[i].start = lo /\ lo < c[i].end /\ c[i] = Interval(lo, c[i].end)
           /\ ~In(c, c[i].end)
           /\ \A u \in lo .. c[i].end - 1 : In(c, u)
      BY <2>1, <3>1, <3>2, StretchIs
    <3> DEFINE e == c[i].end
    <3>4. c[i] \in Intervals
      BY <2>1
    <3>5. e \in Int /\ lo < e
      BY <3>3, <3>4 DEF Intervals
    <3>6. ~EverybodyFree(e) /\ \A u \in lo .. e - 1 : EverybodyFree(u)
      BY <2>2, <3>1, <3>3, <3>5
    <3> HIDE DEF e
    <3>7. e \in Ends(lo)
      <4>1. e - 1 \in lo .. e - 1 /\ EverybodyFree(e - 1)
        BY <3>1, <3>5, <3>6
      <4>2. Closes(e)
        BY <3>6, <4>1 DEF Closes
      <4>3. e - 1 < Horizon
        <5>1. In(asked.stored, e - 1) /\ IsRequest(asked)
          BY <4>1 DEF EverybodyFree, EngineInv
        <5>2. PICK k \in DOMAIN asked.stored : e - 1 < asked.stored[k].end
          BY <5>1 DEF In
        <5>3. asked.stored[k] \in Intervals /\ asked.stored[k].end <= Horizon
          BY <5>1 DEF IsRequest
        <5>4. asked.stored[k].end \in Int
          BY <5>3 DEF Intervals
        <5> QED
          BY <2>5, <3>5, <5>2, <5>3, <5>4
      <4>4. e \in lo .. Horizon + 1
        BY <2>5, <3>1, <3>5, <4>3
      <4> QED
        BY <3>6, <4>2, <4>4
    <3>8. ASSUME NEW x \in Ends(lo) PROVE x = e
      <4>1. x \in Int /\ lo <= x /\ ~EverybodyFree(x) /\ \A u \in lo .. x - 1 : EverybodyFree(u)
        BY <2>5, <3>1 DEF Closes
      <4>2. CASE x < e
        <5>1. x \in lo .. e - 1
          BY <3>1, <3>5, <4>1, <4>2
        <5> QED
          BY <3>6, <4>1, <5>1
      <4>3. CASE e < x
        <5>1. e \in lo .. x - 1
          BY <3>1, <3>5, <4>1, <4>3
        <5> QED
          BY <3>6, <4>1, <5>1
      <4> QED
        BY <3>5, <4>1, <4>2, <4>3
    <3>9. Hi(lo) = e
      BY <3>7, <3>8
    <3>10. c[i] = Interval(lo, e) /\ c[i].start = lo /\ c[i].end = e
      BY <3>3 DEF e
    <3> HIDE DEF Hi
    <3>11. t \in Grid(c[i], asked)
      BY <2>6, <3>9, <3>10 DEF Grid
    <3>12. Slot(t, lo, Hi(lo)) = SlotOf(t, c[i], asked)
      BY <3>9, <3>10 DEF SlotOf
    <3>13. Slot(t, lo, Hi(lo)) \in S
      BY <2>3, <3>11, <3>12
    <3> HIDE DEF Slot
    <3> QED
      BY <2>1, <3>13 DEF Better
  <2> QED
    BY <2>4, <2>6
<1> QED
  BY <1>1, EngineInvariant, PTL
===============================================================================

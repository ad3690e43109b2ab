---------------------------- MODULE StampLemmas -----------------------------
(***************************************************************************)
(* What holds of stamps, of extreme elements, and of cutting a list at     *)
(* either end, and of ranks in finite sets.  The proofs about the kernel,  *)
(* the directory and single LPs rest on these lemmas.                      *)
(***************************************************************************)
EXTENDS Stamps, Sequences, FiniteSetsExt, TLAPS, FiniteSetTheorems,
        WellFoundedInduction

\* operator< of TimeStamp is a strict total order.
LEMMA StampOrder ==
    /\ \A a \in Stamp : ~ Lt(a, a)
    /\ \A a, b, c \in Stamp : Lt(a, b) /\ Lt(b, c) => Lt(a, c)
    /\ \A a, b \in Stamp : Lt(a, b) \/ a = b \/ Lt(b, a)
  BY StampBounds DEF Lt, Stamp

\* Le, "not greater", composes with itself and with Lt.
LEMMA LeOrder ==
    /\ \A a \in Stamp : Le(a, a)
    /\ \A a, b, c \in Stamp : Le(a, b) /\ Le(b, c) => Le(a, c)
    /\ \A a, b, c \in Stamp : Le(a, b) /\ Lt(b, c) => Lt(a, c)
    /\ \A a, b, c \in Stamp : Lt(a, b) /\ Le(b, c) => Lt(a, c)
    /\ \A a, b \in Stamp : Lt(a, b) => Le(a, b)
  BY StampBounds DEF Lt, Le, Stamp

\* The extreme stamps are stamps, and bound all others.
LEMMA StampConstants ==
    /\ ZeroStamp \in Stamp /\ MaxStamp \in Stamp
    /\ \A a \in Stamp : Le(ZeroStamp, a) /\ Le(a, MaxStamp)
  BY StampBounds DEF Stamp, ZeroStamp, MaxStamp, Le, Lt

\* prev_stamp skips nothing: a stamp below ts is at or below prev_stamp(ts).
LEMMA PrevStamp ==
    ASSUME NEW ts \in Stamp
    PROVE  /\ prev_stamp(ts) \in Stamp
           /\ Le(prev_stamp(ts), ts)
           /\ \A a \in Stamp : Lt(a, ts) => Le(a, prev_stamp(ts))
  BY StampBounds DEF Stamp, prev_stamp, ZeroStamp, Le, Lt

\* A nonempty set of numbers has a least element.
LEMMA LeastNat ==
    ASSUME NEW T \in SUBSET Nat, T # {}
    PROVE  Min(T) \in T /\ \A y \in T : Min(T) <= y
  <1>1. PICK x \in T : \A y \in T : ~ (<<y, x>> \in OpToRel(<, Nat))
    BY WFMin, NatLessThanWellFounded, Zenon
  <1>2. \A y \in T : ~ (y < x)
    BY <1>1, Zenon DEF OpToRel
  <1>3. \A y \in T : x =< y
    BY <1>2
  <1> QED
    BY <1>3 DEF Min

\* A nonempty set of numbers below a bound has a greatest element.
LEMMA GreatestNat ==
    ASSUME NEW n \in Nat, NEW T \in SUBSET (0..n), T # {}
    PROVE  Max(T) \in T /\ \A y \in T : y <= Max(T)
  <1> DEFINE U == {n - x : x \in T}
  <1>1. U \in SUBSET Nat
    OBVIOUS
  <1>2. U # {}
    OBVIOUS
  <1>3. Min(U) \in U /\ \A y \in U : Min(U) <= y
    BY <1>1, <1>2, LeastNat
  <1>4. PICK x \in T : Min(U) = n - x
    BY <1>3
  <1>5. \A y \in T : x >= y
    <2> TAKE y \in T
    <2>1. n - y \in U
      OBVIOUS
    <2>2. n - x <= n - y
      BY <2>1, <1>3, <1>4
    <2>3. x \in 0..n /\ y \in 0..n
      OBVIOUS
    <2> QED
      BY ONLY <2>2, <2>3, n \in Nat
  <1> QED
    BY <1>5 DEF Max

\* min_stamp_ over a set of stamps gives a stamp that bounds them all.
LEMMA MinStampBounds ==
    ASSUME NEW S \in SUBSET Stamp
    PROVE  MinStamp(S) \in Stamp /\ \A b \in S : Le(MinStamp(S), b)
  <1>1. CASE S = {}
    BY <1>1, StampConstants DEF MinStamp
  <1>2. CASE S # {}
    <2> DEFINE T == {a.time : a \in S}
    <2>1. T \in SUBSET Nat
      BY DEF Stamp
    <2>2. T # {}
      BY <1>2
    <2>3. Min(T) \in T /\ \A y \in T : Min(T) <= y
      BY <2>1, <2>2, LeastNat
    <2> DEFINE U == {a.sequence : a \in {b \in S : b.time = Min(T)}}
    <2>4. U \in SUBSET Nat
      <3>1. \A a \in S : a.sequence \in Nat
        BY DEF Stamp
      <3> HIDE DEF T
      <3> QED
        BY <3>1
    <2>5. U # {}
      BY <2>3
    <2>6. Min(U) \in U /\ \A y \in U : Min(U) <= y
      BY <2>4, <2>5, LeastNat
    <2>7. PICK a \in S : a.time = Min(T) /\ a.sequence = Min(U)
      BY <2>6
    <2>8. \A b \in S : Le(a, b)
      <3> TAKE b \in S
      <3>1. a.time <= b.time
        BY <2>3, <2>7
      <3>2. b.time = a.time => a.sequence <= b.sequence
        <4> HAVE b.time = a.time
        <4>1. b.sequence \in U
          BY <2>7
        <4> QED
          BY <4>1, <2>6, <2>7
      <3>3. a \in Stamp /\ b \in Stamp
        OBVIOUS
      <3> QED
        BY ONLY <3>1, <3>2, <3>3 DEF Le, Lt, Stamp
    <2> QED
      BY <1>2, <2>8 DEF MinStamp
  <1> QED
    BY <1>1, <1>2

\* A nonempty set of stamps has exactly one latest element.
LEMMA LatestStamp ==
    ASSUME NEW S \in SUBSET Stamp, S # {}
    PROVE  \E a \in S : /\ \A b \in S : Le(b, a)
                        /\ \A c \in S : (\A b \in S : Le(b, c)) => c = a
  <1> DEFINE T == {a.time : a \in S}
  <1>1. T \in SUBSET (0..MaxTime) /\ MaxTime \in Nat
    BY StampBounds DEF Stamp
  <1>2. T # {}
    OBVIOUS
  <1>3. Max(T) \in T /\ \A y \in T : y <= Max(T)
    BY <1>1, <1>2, GreatestNat
  <1> DEFINE U == {a.sequence : a \in {b \in S : b.time = Max(T)}}
  <1>4. U \in SUBSET (0..MaxSeq) /\ MaxSeq \in Nat
    <2>1. \A a \in S : a.sequence \in 0..MaxSeq
      BY DEF Stamp
    <2> HIDE DEF T
    <2> QED
      BY <2>1, StampBounds
  <1>5. U # {}
    BY <1>3
  <1>6. Max(U) \in U /\ \A y \in U : y <= Max(U)
    BY <1>4, <1>5, GreatestNat
  <1>7. PICK a \in S : a.time = Max(T) /\ a.sequence = Max(U)
    BY <1>6
  <1>8. \A b \in S : Le(b, a)
    <2> TAKE b \in S
    <2>1. b.time <= a.time
      BY <1>3, <1>7
    <2>2. b.time = a.time => b.sequence <= a.sequence
      <3> HAVE b.time = a.time
      <3>1. b.sequence \in U
        BY <1>7
      <3> QED
        BY <3>1, <1>6, <1>7
    <2>3. a \in Stamp /\ b \in Stamp
      OBVIOUS
    <2> QED
      BY ONLY <2>1, <2>2, <2>3, StampBounds DEF Le, Lt, Stamp
  <1>9. \A c \in S : (\A b \in S : Le(b, c)) => c = a
    BY <1>8, StampOrder DEF Le
  <1> QED
    BY <1>8, <1>9

-----------------------------------------------------------------------------
\* Popping off the back while the last index is in B.
LEMMA BackCut ==
    ASSUME NEW N \in Nat, NEW B \in SUBSET (1..N),
           NEW k, k = Min({n \in 0..N : \A i \in (n+1)..N : i \in B})
    PROVE  k \in 0..N /\ (\A i \in (k+1)..N : i \in B) /\ (k > 0 => k \notin B)
  <1> DEFINE T == {n \in 0..N : \A i \in (n+1)..N : i \in B}
  <1>1. T \in SUBSET Nat
    OBVIOUS
  <1>2. N \in T
    OBVIOUS
  <1>3. k \in T /\ \A y \in T : k <= y
    BY <1>1, <1>2, LeastNat
  <1>4. ASSUME k > 0, k \in B
        PROVE  FALSE
    <2>1. k \in 0..N /\ \A i \in (k+1)..N : i \in B
      BY <1>3
    <2>2. k - 1 \in 0..N
      BY <2>1, <1>4
    <2>3. \A i \in ((k-1)+1)..N : i \in B
      BY <2>1, <1>4
    <2>4. k - 1 \in T
      BY <2>2, <2>3
    <2> QED
      BY <2>1, <2>4, <1>3
  <1> QED
    BY <1>3, <1>4

\* Popping off the front while the first index is in B.
LEMMA FrontCut ==
    ASSUME NEW N \in Nat, NEW B \in SUBSET (1..N),
           NEW k, k = Max({n \in 0..N : \A i \in 1..n : i \in B})
    PROVE  k \in 0..N /\ (\A i \in 1..k : i \in B) /\ (k < N => k + 1 \notin B)
  <1> DEFINE T == {n \in 0..N : \A i \in 1..n : i \in B}
  <1>1. T \in SUBSET (0..N)
    OBVIOUS
  <1>2. 0 \in T
    OBVIOUS
  <1>3. k \in T /\ \A y \in T : y <= k
    BY <1>1, <1>2, GreatestNat
  <1>4. ASSUME k < N, k + 1 \in B
        PROVE  FALSE
    <2>1. k \in 0..N /\ \A i \in 1..k : i \in B
      BY <1>3
    <2>2. k + 1 \in 0..N
      BY <2>1, <1>4
    <2>3. \A i \in 1..(k+1) : i \in B
      BY <2>1, <1>4
    <2>4. k + 1 \in T
      BY <2>2, <2>3
    <2> QED
      BY <2>1, <2>4, <1>3
  <1> QED
    BY <1>3, <1>4

-----------------------------------------------------------------------------
(***************************************************************************)
(* Counting, and the ranks of the elements of a finite set.                *)
(***************************************************************************)
\* What holds at 0 and carries over from n to n + 1 holds for every number.
LEMMA Counting ==
    ASSUME NEW T \in SUBSET Nat, 0 \in T, \A n \in T : n + 1 \in T
    PROVE  T = Nat
  <1> SUFFICES ASSUME NEW k \in Nat, k \notin T
               PROVE  FALSE
    OBVIOUS
  <1> DEFINE U == {n \in Nat : n \notin T}
             m == Min(U)
  <1>1. m \in U /\ \A y \in U : m <= y
    BY LeastNat
  <1> HIDE DEF m
  <1>2. m # 0 /\ m - 1 \in Nat
    BY <1>1
  <1>3. m - 1 \notin U
    BY <1>1, <1>2
  <1>4. (m - 1) + 1 \in T
    BY <1>2, <1>3
  <1> QED
    BY <1>1, <1>4

\* How many elements of S come before x.
Rank(S, R, x) == Cardinality({y \in S : <<y, x>> \in R})

\* A strict total order on S.
IsStrictOrder(S, R) ==
    /\ \A x \in S : <<x, x>> \notin R
    /\ \A x, y, z \in S : <<x, y>> \in R /\ <<y, z>> \in R => <<x, z>> \in R
    /\ \A x, y \in S : x = y \/ <<x, y>> \in R \/ <<y, x>> \in R

\* Ranks in a finite set are numbers below its size; what comes first has the
\* lower one.
LEMMA RankLess ==
    ASSUME NEW S, IsFiniteSet(S), NEW R, IsStrictOrder(S, R)
    PROVE  /\ \A x \in S : Rank(S, R, x) \in 0..(Cardinality(S) - 1)
           /\ \A x, y \in S : <<x, y>> \in R => Rank(S, R, x) < Rank(S, R, y)
  <1> DEFINE Below(x) == {y \in S : <<y, x>> \in R}
  <1>1. Cardinality(S) \in Nat
    BY FS_CardinalityType
  <1>2. ASSUME NEW x \in S
        PROVE  IsFiniteSet(Below(x)) /\ Cardinality(Below(x)) \in Nat
    BY FS_Subset, FS_CardinalityType
  <1>3. ASSUME NEW x \in S
        PROVE  Cardinality(Below(x)) < Cardinality(S)
    <2>1. x \notin Below(x) /\ Below(x) \in SUBSET S
      BY DEF IsStrictOrder
    <2>2. Cardinality(Below(x)) <= Cardinality(S)
          /\ Cardinality(Below(x)) # Cardinality(S)
      BY <2>1, FS_Subset
    <2> QED
      BY <1>1, <1>2, <1>3, <2>2
  <1>4. ASSUME NEW x \in S, NEW y \in S, <<x, y>> \in R
        PROVE  Cardinality(Below(x)) < Cardinality(Below(y))
    <2>1. Below(x) \in SUBSET Below(y)
      BY <1>4 DEF IsStrictOrder
    <2>2. x \in Below(y) /\ x \notin Below(x)
      BY <1>4 DEF IsStrictOrder
    <2> HIDE DEF Below
    <2>3. Cardinality(Below(x)) <= Cardinality(Below(y))
          /\ Cardinality(Below(x)) # Cardinality(Below(y))
      BY <1>2, <2>1, <2>2, FS_Subset
    <2> QED
      BY <1>2, <2>3
  <1>5. \A x : Rank(S, R, x) = Cardinality(Below(x))
    BY DEF Rank
  <1> HIDE DEF Below
  <1> QED
    BY <1>1, <1>2, <1>3, <1>4, <1>5

\* Each rank below the size of a finite set is that of an element.
LEMMA RankTaken ==
    ASSUME NEW S, IsFiniteSet(S), NEW R, IsStrictOrder(S, R)
    PROVE  /\ Cardinality(S) \in Nat
           /\ \A x, y \in S : Rank(S, R, x) = Rank(S, R, y) => x = y
           /\ \A i \in 1..Cardinality(S) : \E x \in S : Rank(S, R, x) = i - 1
  <1> DEFINE n == Cardinality(S)
             f == [x \in S |-> Rank(S, R, x)]
  <1>1. n \in Nat
    BY FS_CardinalityType
  <1>2. /\ \A x \in S : Rank(S, R, x) \in 0..(n-1)
        /\ \A x, y \in S : <<x, y>> \in R => Rank(S, R, x) < Rank(S, R, y)
    BY RankLess
  <1>3. \A x, y \in S : Rank(S, R, x) = Rank(S, R, y) => x = y
    <2> SUFFICES ASSUME NEW x \in S, NEW y \in S, Rank(S, R, x) = Rank(S, R, y)
                 PROVE  x = y
      OBVIOUS
    <2>1. ~ (<<x, y>> \in R) /\ ~ (<<y, x>> \in R)
      BY <1>1, <1>2
    <2> QED
      BY <2>1 DEF IsStrictOrder
  <1>4. f \in Injection(S, 0..(n-1))
    BY <1>2, <1>3 DEF Injection, IsInjective
  <1>5. IsFiniteSet(0..(n-1)) /\ Cardinality(0..(n-1)) = n
    BY <1>1, FS_Interval, SMTT(30)
  <1>6. f \in Surjection(S, 0..(n-1))
    BY <1>4, <1>5, FS_Injection
  <1>7. \A i \in 1..n : \E x \in S : Rank(S, R, x) = i - 1
    <2> TAKE i \in 1..n
    <2>1. i - 1 \in 0..(n-1)
      BY <1>1
    <2> QED
      BY <1>6, <2>1 DEF Surjection
  <1> QED
    BY <1>1, <1>3, <1>7

\* The elements of a finite set in the order of their ranks: each occurs once,
\* and none comes after one that it is before.
LEMMA Ranked ==
    ASSUME NEW S, IsFiniteSet(S), NEW R, IsStrictOrder(S, R),
           NEW s \in [1..Cardinality(S) -> S],
           \A i \in 1..Cardinality(S) : Rank(S, R, s[i]) = i - 1
    PROVE  /\ s \in Seq(S) /\ Len(s) = Cardinality(S)
           /\ \A x \in S : \E i \in 1..Cardinality(S) : s[i] = x
           /\ \A i, j \in 1..Cardinality(S) : s[i] = s[j] => i = j
           /\ \A i, j \in 1..Cardinality(S) : i < j => <<s[j], s[i]>> \notin R
  <1> DEFINE n == Cardinality(S)
  <1>1. /\ n \in Nat
        /\ \A x, y \in S : Rank(S, R, x) = Rank(S, R, y) => x = y
    BY RankTaken
  <1>2. /\ \A x \in S : Rank(S, R, x) \in 0..(n-1)
        /\ \A x, y \in S : <<x, y>> \in R => Rank(S, R, x) < Rank(S, R, y)
    BY RankLess
  <1>3. \A i \in 1..n : s[i] \in S /\ Rank(S, R, s[i]) = i - 1
    OBVIOUS
  <1> HIDE DEF n
  <1>4. s \in Seq(S) /\ Len(s) = n
    BY <1>1 DEF n
  <1>5. \A x \in S : \E i \in 1..n : s[i] = x
    <2> TAKE x \in S
    <2>1. Rank(S, R, x) + 1 \in 1..n
      BY <1>1, <1>2
    <2>2. Rank(S, R, s[Rank(S, R, x) + 1]) = Rank(S, R, x)
          /\ s[Rank(S, R, x) + 1] \in S
      BY <1>1, <1>2, <1>3, <2>1
    <2> QED
      BY <1>1, <2>1, <2>2
  <1>6. \A i, j \in 1..n : s[i] = s[j] => i = j
    BY <1>1, <1>3
  <1>7. \A i, j \in 1..n : i < j => <<s[j], s[i]>> \notin R
    <2> TAKE i, j \in 1..n
    <2>1. s[i] \in S /\ s[j] \in S /\ Rank(S, R, s[i]) = i - 1 /\ Rank(S, R, s[j]) = j - 1
      BY <1>3
    <2>2. <<s[j], s[i]>> \in R => Rank(S, R, s[j]) < Rank(S, R, s[i])
      BY <1>2, <2>1
    <2> QED
      BY <1>1, <2>1, <2>2
  <1> QED
    BY <1>4, <1>5, <1>6, <1>7 DEF n

\* How many numbers of S are below x.
CountBelow(S, x) == Cardinality({y \in S : y < x})

\* In a finite set of numbers, these counts are different and grow with the
\* number, and each count below the size of the set is taken.
LEMMA CountsAscend ==
    ASSUME NEW S, IsFiniteSet(S), S \subseteq Int
    PROVE  /\ \A i \in 1..Cardinality(S) : \E x \in S : CountBelow(S, x) = i - 1
           /\ \A x \in S : CountBelow(S, x) \in 0..(Cardinality(S) - 1)
           /\ \A x, y \in S : x < y => CountBelow(S, x) < CountBelow(S, y)
  <1> DEFINE R == {x \in S \X S : x[1] < x[2]}
  <1>1. IsStrictOrder(S, R)
    BY DEF IsStrictOrder
  <1>2. \A x \in S : Rank(S, R, x) = CountBelow(S, x)
    <2> TAKE x \in S
    <2>1. {y \in S : <<y, x>> \in R} = {y \in S : y < x}
      OBVIOUS
    <2> QED
      BY <2>1 DEF Rank, CountBelow
  <1>3. \A i, j \in S : i < j <=> <<i, j>> \in R
    OBVIOUS
  <1> HIDE DEF R
  <1>4. \A i \in 1..Cardinality(S) : \E x \in S : Rank(S, R, x) = i - 1
    BY ONLY IsFiniteSet(S), <1>1, RankTaken
  <1>5. /\ \A x \in S : Rank(S, R, x) \in 0..(Cardinality(S) - 1)
        /\ \A x, y \in S : <<x, y>> \in R => Rank(S, R, x) < Rank(S, R, y)
    BY ONLY IsFiniteSet(S), <1>1, RankLess
  <1> QED
    BY <1>2, <1>3, <1>4, <1>5

=============================================================================

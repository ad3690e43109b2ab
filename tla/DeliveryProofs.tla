--------------------------- MODULE DeliveryProofs ---------------------------
(***************************************************************************)
(* Theorems about what becomes of an event: while its sender stands for it *)
(* it exists exactly once - on its way, queued, processed or committed -   *)
(* and nothing cancels it; nothing is ever in two places; outputs are      *)
(* committed in stamp order; and the state of an LP is that of the events  *)
(* it has committed and not undone, executed once each and in order, which *)
(* is the state that the sequential kernel would compute from them.        *)
(***************************************************************************)
EXTENDS MessageProofs, TimeWarpVsSequential

-----------------------------------------------------------------------------
(***************************************************************************)
(* Sorting a finite set: SortedBy puts each element at its rank.           *)
(***************************************************************************)
\* A finite set can be numbered.
LEMMA Numbering ==
    ASSUME NEW S, IsFiniteSet(S)
    PROVE  \E f \in [S -> 1..Cardinality(S)] :
              \A x, y \in S : f[x] = f[y] => x = y
  <1>1. Cardinality(S) \in Nat
    BY FS_CardinalityType
  <1>2. IsFiniteSet(1..Cardinality(S)) /\ Cardinality(1..Cardinality(S)) = Cardinality(S)
    BY <1>1, FS_Interval
  <1>3. ExistsBijection(S, 1..Cardinality(S))
    BY <1>2, FS_SameCardinalityBij
  <1>4. PICK f : f \in Injection(S, 1..Cardinality(S))
    BY <1>3 DEF ExistsBijection, Bijection
  <1>5. f \in [S -> 1..Cardinality(S)] /\ \A x, y \in S : f[x] = f[y] => x = y
    BY <1>4 DEF Injection, IsInjective
  <1> QED
    BY <1>5

\* What the kernel's sorts compare: six numbers.
SixNumbers == [1..6 -> Int]

\* Such keys are totally ordered.
LEMMA LexOrder ==
    ASSUME NEW a \in SixNumbers, NEW b \in SixNumbers, NEW c \in SixNumbers
    PROVE  /\ ~ LexLt(a, a)
           /\ LexLt(a, b) /\ LexLt(b, c) => LexLt(a, c)
           /\ a = b \/ LexLt(a, b) \/ LexLt(b, a)
  <1>1. /\ DOMAIN a = 1..6 /\ DOMAIN b = 1..6 /\ DOMAIN c = 1..6
        /\ \A i \in 1..6 : a[i] \in Int /\ b[i] \in Int /\ c[i] \in Int
    BY DEF SixNumbers
  <1>2. ~ LexLt(a, a)
    BY <1>1 DEF LexLt
  <1>3. ASSUME LexLt(a, b), LexLt(b, c)
        PROVE  LexLt(a, c)
    <2>1. PICK i \in 1..6 : a[i] < b[i] /\ \A j \in 1..(i-1) : a[j] = b[j]
      BY <1>1, <1>3 DEF LexLt
    <2>2. PICK k \in 1..6 : b[k] < c[k] /\ \A j \in 1..(k-1) : b[j] = c[j]
      BY <1>1, <1>3 DEF LexLt
    <2>3. CASE i <= k
      <3>1. a[i] < c[i] /\ \A j \in 1..(i-1) : a[j] = c[j]
        BY <1>1, <2>1, <2>2, <2>3
      <3> QED
        BY <1>1, <3>1 DEF LexLt
    <2>4. CASE k < i
      <3>1. a[k] < c[k] /\ \A j \in 1..(k-1) : a[j] = c[j]
        BY <1>1, <2>1, <2>2, <2>4
      <3> QED
        BY <1>1, <3>1 DEF LexLt
    <2> QED
      BY <2>3, <2>4
  <1>4. ASSUME a # b
        PROVE  LexLt(a, b) \/ LexLt(b, a)
    <2> DEFINE T == {i \in 1..6 : a[i] # b[i]}
               i == Min(T)
    <2>1. T \in SUBSET Nat /\ T # {}
      <3>1. \E j \in 1..6 : a[j] # b[j]
        BY <1>1, <1>4 DEF SixNumbers
      <3> QED
        BY <3>1
    <2>2. i \in T /\ \A j \in T : i <= j
      BY <2>1, LeastNat
    <2> HIDE DEF i
    <2>3. i \in 1..6 /\ a[i] # b[i] /\ \A j \in 1..(i-1) : a[j] = b[j]
      BY <2>2
    <2>4. a[i] < b[i] \/ b[i] < a[i]
      BY <1>1, <2>3
    <2> QED
      BY <1>1, <2>3, <2>4 DEF LexLt
  <1> QED
    BY <1>2, <1>3, <1>4

\* A list of six numbers is such a key.
LEMMA SixKey ==
    ASSUME NEW a \in Int, NEW b \in Int, NEW c \in Int, NEW d \in Int,
           NEW e \in Int, NEW f \in Int
    PROVE  <<a, b, c, d, e, f>> \in SixNumbers
  <1> DEFINE k == <<a, b, c, d, e, f>>
  <1>1. k \in Seq(Int) /\ Len(k) = 6
    OBVIOUS
  <1> HIDE DEF k
  <1> QED
    BY <1>1 DEF SixNumbers

\* The order SortedBy uses: by key, and by place where keys are equal.
KeyThenPlace(S, key, place) ==
    {p \in S \X S : \/ LexLt(key[p[1]], key[p[2]])
                    \/ /\ p[1] # p[2] /\ ~ LexLt(key[p[2]], key[p[1]])
                       /\ place[p[1]] < place[p[2]]}

\* It is a strict total order.
LEMMA KeyThenPlaceOrder ==
    ASSUME NEW S, NEW n \in Nat, NEW key \in [S -> SixNumbers],
           NEW place \in [S -> 1..n], \A x, y \in S : place[x] = place[y] => x = y
    PROVE  IsStrictOrder(S, KeyThenPlace(S, key, place))
  <1> DEFINE R == KeyThenPlace(S, key, place)
             L == {p \in S \X S : LexLt(key[p[1]], key[p[2]])}
  <1>1. \A x, y \in S : <<x, y>> \in R
           <=> <<x, y>> \in L \/ (x # y /\ <<y, x>> \notin L /\ place[x] < place[y])
    BY DEF KeyThenPlace
  <1>2. /\ \A x \in S : <<x, x>> \notin L
        /\ \A x, y, z \in S : <<x, y>> \in L /\ <<y, z>> \in L => <<x, z>> \in L
        /\ \A x, y \in S : key[x] = key[y] \/ <<x, y>> \in L \/ <<y, x>> \in L
    <2>1. \A x \in S : key[x] \in SixNumbers
      OBVIOUS
    <2> QED
      BY <2>1, LexOrder
  <1>3. /\ \A x, y, z \in S : key[x] = key[y] /\ <<y, z>> \in L => <<x, z>> \in L
        /\ \A x, y, z \in S : key[x] = key[y] /\ <<x, z>> \in L => <<y, z>> \in L
        /\ \A x, y, z \in S : key[x] = key[y] /\ <<z, x>> \in L => <<z, y>> \in L
    OBVIOUS
  <1>4. \A x \in S : place[x] \in Int
    OBVIOUS
  <1> HIDE DEF R, L
  <1>5. \A x, y \in S : key[x] = key[y] => <<x, y>> \notin L /\ <<y, x>> \notin L
    BY <1>2, <1>3
  <1>6. \A x \in S : <<x, x>> \notin R
    BY <1>1, <1>2
  <1>7. \A x, y \in S : x = y \/ <<x, y>> \in R \/ <<y, x>> \in R
    <2> SUFFICES ASSUME NEW x \in S, NEW y \in S, x # y
                 PROVE  <<x, y>> \in R \/ <<y, x>> \in R
      OBVIOUS
    <2>1. CASE <<x, y>> \in L \/ <<y, x>> \in L
      BY <1>1, <2>1
    <2>2. CASE <<x, y>> \notin L /\ <<y, x>> \notin L
      <3>1. place[x] < place[y] \/ place[y] < place[x]
        BY <1>4
      <3> QED
        BY <1>1, <2>2, <3>1
    <2> QED
      BY <2>1, <2>2
  <1>8. ASSUME NEW x \in S, NEW y \in S, NEW z \in S, <<x, y>> \in R, <<y, z>> \in R
        PROVE  <<x, z>> \in R
    <2>1. CASE <<x, y>> \in L /\ <<y, z>> \in L
      BY <1>1, <1>2, <2>1
    <2>2. CASE <<x, y>> \in L /\ <<y, z>> \notin L
      <3>1. key[y] = key[z]
        BY <1>1, <1>2, <1>8, <2>2
      <3> QED
        BY <1>1, <1>3, <2>2, <3>1
    <2>3. CASE <<x, y>> \notin L
      <3>1. key[x] = key[y]
        <4>1. <<y, x>> \notin L
          BY <1>1, <1>8, <2>3
        <4> QED
          BY <1>2, <2>3, <4>1
      <3>2. CASE <<y, z>> \in L
        <4>1. <<x, z>> \in L
          BY <1>3, <3>1, <3>2
        <4> QED
          BY <1>1, <4>1
      <3>3. CASE <<y, z>> \notin L
        <4>1. key[y] = key[z]
          BY <1>1, <1>2, <1>8, <3>3
        <4>2. place[x] < place[y] /\ place[y] < place[z]
          BY <1>1, <1>8, <2>3, <3>3
        <4>3. place[x] < place[z] /\ x # z
          BY <1>4, <4>2
        <4>4. <<z, x>> \notin L
          BY <1>2, <1>3, <3>1, <4>1
        <4> QED
          BY <1>1, <4>3, <4>4
      <3> QED
        BY <3>2, <3>3
    <2> QED
      BY <2>1, <2>2, <2>3
  <1> QED
    BY <1>6, <1>7, <1>8 DEF IsStrictOrder, R

\* What a sorted sequence of a set is.
IsSorting(S, s) ==
    /\ s \in Seq(S)
    /\ \A x \in S : \E i \in 1..Len(s) : s[i] = x
    /\ \A i, j \in 1..Len(s) : s[i] = s[j] => i = j

\* Each element at its rank, by key and place: a sorting.
LEMMA SortedByKey ==
    ASSUME NEW S, IsFiniteSet(S), NEW key \in [S -> SixNumbers],
           NEW place \in [S -> 1..Cardinality(S)],
           \A x, y \in S : place[x] = place[y] => x = y
    PROVE  /\ \A i \in 1..Cardinality(S) :
                 \E x \in S : Rank(S, KeyThenPlace(S, key, place), x) = i - 1
           /\ \A s \in [1..Cardinality(S) -> S] :
                 (\A i \in 1..Cardinality(S) :
                     Rank(S, KeyThenPlace(S, key, place), s[i]) = i - 1)
                 => /\ IsSorting(S, s)
                    /\ \A i, j \in 1..Len(s) : i < j => ~ LexLt(key[s[j]], key[s[i]])
  <1> DEFINE R == KeyThenPlace(S, key, place)
  <1>1. Cardinality(S) \in Nat
    BY FS_CardinalityType
  <1>2. IsStrictOrder(S, R)
    BY <1>1, KeyThenPlaceOrder
  <1>3. \A x, y \in S : LexLt(key[x], key[y]) => <<x, y>> \in R
    BY DEF KeyThenPlace
  <1> HIDE DEF R
  <1>4. \A i \in 1..Cardinality(S) : \E x \in S : Rank(S, R, x) = i - 1
    BY <1>2, RankTaken
  <1>5. ASSUME NEW s \in [1..Cardinality(S) -> S],
               \A i \in 1..Cardinality(S) : Rank(S, R, s[i]) = i - 1
        PROVE  /\ IsSorting(S, s)
               /\ \A i, j \in 1..Len(s) : i < j => ~ LexLt(key[s[j]], key[s[i]])
    <2>1. /\ s \in Seq(S) /\ Len(s) = Cardinality(S)
          /\ \A x \in S : \E i \in 1..Cardinality(S) : s[i] = x
          /\ \A i, j \in 1..Cardinality(S) : s[i] = s[j] => i = j
          /\ \A i, j \in 1..Cardinality(S) : i < j => <<s[j], s[i]>> \notin R
      BY <1>2, <1>5, Ranked
    <2>2. \A i \in 1..Cardinality(S) : s[i] \in S
      OBVIOUS
    <2>3. IsSorting(S, s)
      BY <2>1 DEF IsSorting
    <2>4. \A i, j \in 1..Cardinality(S) : i < j => ~ LexLt(key[s[j]], key[s[i]])
      BY <1>3, <2>1, <2>2
    <2> QED
      BY <2>1, <2>3, <2>4
  <1> QED
    BY <1>4, <1>5 DEF R

-----------------------------------------------------------------------------
(***************************************************************************)
(* What prune_to_gvt_ commits.                                             *)
(***************************************************************************)
Output == [ts : Stamp, lp : LPs, src : LPs, uid : Nat, index : Nat, value : Values]

SinkEntriesOf(rec) ==
    {[ts |-> rec.ev.ts, lp |-> rec.ev.dst, src |-> rec.ev.src,
      uid |-> rec.ev.uid, index |-> i, value |-> rec.outs[i]] : i \in DOMAIN rec.outs}

\* The numbers in a stamp, and LPs are numbers.
LEMMA StampNumbers ==
    ASSUME NEW ts \in Stamp
    PROVE  ts.time \in Int /\ ts.sequence \in Int
  BY StampBounds DEF Stamp

\* LP ids are numbers, by which the kernel orders events.
LEMMA LpNumbers == \A l \in LPs : l \in Int
  <1>1. LPs \subseteq Nat
    BY ModelAssumption
  <1> QED
    BY <1>1

\* The sort of committed events.
LEMMA SortedEvents ==
    ASSUME NEW S \in SUBSET Event, IsFiniteSet(S)
    PROVE  /\ IsSorting(S, SortedBy(S, TraceBefore))
           /\ \A i, j \in 1..Len(SortedBy(S, TraceBefore)) : i < j =>
                 Le(SortedBy(S, TraceBefore)[i].ts, SortedBy(S, TraceBefore)[j].ts)
  <1> DEFINE n == Cardinality(S)
             key == [x \in S |-> TraceKey(x)]
             place == CHOOSE f \in [S -> 1..n] : \A x, y \in S : f[x] = f[y] => x = y
             First(x, y) == \/ TraceBefore(x, y)
                            \/ x # y /\ ~ TraceBefore(y, x) /\ place[x] < place[y]
             R == KeyThenPlace(S, key, place)
             s == SortedBy(S, TraceBefore)
  <1>1. key \in [S -> SixNumbers]
    <2> SUFFICES ASSUME NEW e \in S
                 PROVE  TraceKey(e) \in SixNumbers
      OBVIOUS
    <2>1. e.ts \in Stamp /\ e.src \in Int /\ e.dst \in Int /\ e.uid \in Int
      BY EventFields, LpNumbers
    <2>2. e.ts.time \in Int /\ e.ts.sequence \in Int
      BY <2>1, StampNumbers
    <2>3. (IF e.anti THEN 1 ELSE 0) \in Int
      OBVIOUS
    <2> QED
      BY <2>1, <2>2, <2>3, SixKey DEF TraceKey
  <1>2. place \in [S -> 1..n] /\ \A x, y \in S : place[x] = place[y] => x = y
    BY Numbering
  <1>3. s = [i \in 1..n |-> CHOOSE x \in S : Cardinality({y \in S : First(y, x)}) = i - 1]
    BY DEF SortedBy
  <1> HIDE DEF s, place
  <1>4. \A x, y \in S : <<x, y>> \in R <=> First(x, y)
    BY DEF KeyThenPlace, TraceBefore
  <1> HIDE DEF key, R, First
  <1>5. \A x \in S : Cardinality({y \in S : First(y, x)}) = Rank(S, R, x)
    <2> TAKE x \in S
    <2>1. {y \in S : First(y, x)} = {y \in S : <<y, x>> \in R}
      BY <1>4
    <2> QED
      BY <2>1 DEF Rank
  <1>6. \A i \in 1..n : \E x \in S : Rank(S, R, x) = i - 1
    BY <1>1, <1>2, SortedByKey DEF R
  <1> HIDE DEF n
  <1>7. \A i \in 1..n : s[i] \in S /\ Rank(S, R, s[i]) = i - 1
    BY <1>3, <1>5, <1>6
  <1>8. s \in [1..n -> S]
    BY <1>3, <1>7
  <1>9. /\ IsSorting(S, s)
        /\ \A i, j \in 1..Len(s) : i < j => ~ LexLt(key[s[j]], key[s[i]])
    <2> USE DEF n, R
    <2>1. \A i \in 1..Cardinality(S) : Rank(S, KeyThenPlace(S, key, place), s[i]) = i - 1
      BY <1>7
    <2>2. s \in [1..Cardinality(S) -> S]
      BY <1>8
    <2>3. place \in [S -> 1..Cardinality(S)] /\ \A x, y \in S : place[x] = place[y] => x = y
      BY <1>2
    <2> HIDE DEF n, R
    <2> QED
      BY <1>1, <2>1, <2>2, <2>3, SortedByKey
  <1>10. \A i \in 1..Len(s) : s[i] \in S
    BY <1>9 DEF IsSorting
  <1>11. \A o, p \in S : ~ LexLt(key[o], key[p]) => Le(p.ts, o.ts)
    <2> SUFFICES ASSUME NEW o \in S, NEW p \in S, Lt(o.ts, p.ts)
                 PROVE  LexLt(TraceKey(o), TraceKey(p))
      BY DEF Le, key
    <2>1. o.ts \in Stamp /\ p.ts \in Stamp
      BY EventFields
    <2> DEFINE a == TraceKey(o)
               b == TraceKey(p)
    <2>2. /\ 1 \in DOMAIN a /\ 2 \in DOMAIN a
          /\ a[1] = o.ts.time /\ a[2] = o.ts.sequence
          /\ b[1] = p.ts.time /\ b[2] = p.ts.sequence
      BY DEF TraceKey
    <2> HIDE DEF a, b
    <2>3. o.ts.time < p.ts.time => LexLt(a, b)
      <3>1. \A j \in 1..(1-1) : a[j] = b[j]
        OBVIOUS
      <3> QED
        BY <2>2, <3>1 DEF LexLt
    <2>4. o.ts.time = p.ts.time /\ o.ts.sequence < p.ts.sequence => LexLt(a, b)
      <3>1. o.ts.time = p.ts.time => \A j \in 1..(2-1) : a[j] = b[j]
        BY <2>2
      <3> QED
        BY <2>2, <3>1 DEF LexLt
    <2>5. LexLt(a, b)
      BY <2>3, <2>4 DEF Lt
    <2> QED
      BY <2>5 DEF a, b
  <1>12. \A i, j \in 1..Len(s) : i < j => Le(s[i].ts, s[j].ts)
    BY <1>9, <1>10, <1>11
  <1> QED
    BY <1>9, <1>12 DEF s

\* The sort of committed outputs.
LEMMA SortedOutputs ==
    ASSUME NEW S \in SUBSET Output, IsFiniteSet(S)
    PROVE  /\ IsSorting(S, SortedBy(S, SinkBefore))
           /\ \A i, j \in 1..Len(SortedBy(S, SinkBefore)) : i < j =>
                 Le(SortedBy(S, SinkBefore)[i].ts, SortedBy(S, SinkBefore)[j].ts)
  <1> DEFINE n == Cardinality(S)
             key == [x \in S |-> SinkKey(x)]
             place == CHOOSE f \in [S -> 1..n] : \A x, y \in S : f[x] = f[y] => x = y
             First(x, y) == \/ SinkBefore(x, y)
                            \/ x # y /\ ~ SinkBefore(y, x) /\ place[x] < place[y]
             R == KeyThenPlace(S, key, place)
             s == SortedBy(S, SinkBefore)
  <1>1. key \in [S -> SixNumbers]
    <2> SUFFICES ASSUME NEW e \in S
                 PROVE  SinkKey(e) \in SixNumbers
      OBVIOUS
    <2>1. /\ e.ts \in Stamp /\ e.src \in Int /\ e.lp \in Int /\ e.uid \in Int
          /\ e.index \in Int
      BY LpNumbers DEF Output
    <2>2. e.ts.time \in Int /\ e.ts.sequence \in Int
      BY <2>1, StampNumbers
    <2> QED
      BY <2>1, <2>2, SixKey DEF SinkKey
  <1>2. place \in [S -> 1..n] /\ \A x, y \in S : place[x] = place[y] => x = y
    BY Numbering
  <1>3. s = [i \in 1..n |-> CHOOSE x \in S : Cardinality({y \in S : First(y, x)}) = i - 1]
    BY DEF SortedBy
  <1> HIDE DEF s, place
  <1>4. \A x, y \in S : <<x, y>> \in R <=> First(x, y)
    BY DEF KeyThenPlace, SinkBefore
  <1> HIDE DEF key, R, First
  <1>5. \A x \in S : Cardinality({y \in S : First(y, x)}) = Rank(S, R, x)
    <2> TAKE x \in S
    <2>1. {y \in S : First(y, x)} = {y \in S : <<y, x>> \in R}
      BY <1>4
    <2> QED
      BY <2>1 DEF Rank
  <1>6. \A i \in 1..n : \E x \in S : Rank(S, R, x) = i - 1
    BY <1>1, <1>2, SortedByKey DEF R
  <1> HIDE DEF n
  <1>7. \A i \in 1..n : s[i] \in S /\ Rank(S, R, s[i]) = i - 1
    BY <1>3, <1>5, <1>6
  <1>8. s \in [1..n -> S]
    BY <1>3, <1>7
  <1>9. /\ IsSorting(S, s)
        /\ \A i, j \in 1..Len(s) : i < j => ~ LexLt(key[s[j]], key[s[i]])
    <2> USE DEF n, R
    <2>1. \A i \in 1..Cardinality(S) : Rank(S, KeyThenPlace(S, key, place), s[i]) = i - 1
      BY <1>7
    <2>2. s \in [1..Cardinality(S) -> S]
      BY <1>8
    <2>3. place \in [S -> 1..Cardinality(S)] /\ \A x, y \in S : place[x] = place[y] => x = y
      BY <1>2
    <2> HIDE DEF n, R
    <2> QED
      BY <1>1, <2>1, <2>2, <2>3, SortedByKey
  <1>10. \A i \in 1..Len(s) : s[i] \in S
    BY <1>9 DEF IsSorting
  <1>11. \A o, p \in S : ~ LexLt(key[o], key[p]) => Le(p.ts, o.ts)
    <2> SUFFICES ASSUME NEW o \in S, NEW p \in S, Lt(o.ts, p.ts)
                 PROVE  LexLt(SinkKey(o), SinkKey(p))
      BY DEF Le, key
    <2>1. o.ts \in Stamp /\ p.ts \in Stamp
      BY DEF Output
    <2> DEFINE a == SinkKey(o)
               b == SinkKey(p)
    <2>2. /\ 1 \in DOMAIN a /\ 2 \in DOMAIN a
          /\ a[1] = o.ts.time /\ a[2] = o.ts.sequence
          /\ b[1] = p.ts.time /\ b[2] = p.ts.sequence
      BY DEF SinkKey
    <2> HIDE DEF a, b
    <2>3. o.ts.time < p.ts.time => LexLt(a, b)
      <3>1. \A j \in 1..(1-1) : a[j] = b[j]
        OBVIOUS
      <3> QED
        BY <2>2, <3>1 DEF LexLt
    <2>4. o.ts.time = p.ts.time /\ o.ts.sequence < p.ts.sequence => LexLt(a, b)
      <3>1. o.ts.time = p.ts.time => \A j \in 1..(2-1) : a[j] = b[j]
        BY <2>2
      <3> QED
        BY <2>2, <3>1 DEF LexLt
    <2>5. LexLt(a, b)
      BY <2>3, <2>4 DEF Lt
    <2> QED
      BY <2>5 DEF a, b
  <1>12. \A i, j \in 1..Len(s) : i < j => Le(s[i].ts, s[j].ts)
    BY <1>9, <1>10, <1>11
  <1> QED
    BY <1>9, <1>12 DEF s

\* What is committed are records of the rank's LPs, finitely many.
LEMMA CommittedSpec ==
    ASSUME TypeOK, NEW r \in Ranks, NEW gvt \in Stamp
    PROVE  /\ IsFiniteSet(CommittedRecords(r, gvt))
           /\ \A rec : rec \in CommittedRecords(r, gvt)
                 <=> \E l \in LpsOn(r) : \E i \in 1..PrunedProcessed(ctx[l], gvt) :
                        rec = ctx[l].processed[i]
           /\ CommittedRecords(r, gvt) \subseteq ProcessedRecord
  <1> DEFINE k(l) == PrunedProcessed(ctx[l], gvt)
             done(l) == {ctx[l].processed[i] : i \in 1..k(l)}
             f == [l \in LpsOn(r) |-> done(l)]
  <1>1. IsFiniteSet(LpsOn(r)) /\ LpsOn(r) \subseteq LPs
    <2>1. LpsOn(r) \subseteq LPs
      BY DEF LpsOn
    <2> QED
      BY <2>1, ModelAssumption, FS_Subset
  <1>2. \A l \in LpsOn(r) : k(l) \in 0..Len(ctx[l].processed) /\ ctx[l] \in LPContext
    BY <1>1, PrunedProcessedSpec DEF TypeOK
  <1>3. CommittedRecords(r, gvt) = UNION {f[l] : l \in LpsOn(r)}
    BY DEF CommittedRecords
  <1> HIDE DEF k
  <1>4. \A l \in LpsOn(r) : IsFiniteSet(f[l])
    <2> TAKE l \in LpsOn(r)
    <2>1. IsFiniteSet(1..k(l))
      <3>1. k(l) \in Int
        BY <1>2 DEF LPContext
      <3> QED
        BY <3>1, FS_Interval
    <2>2. IsFiniteSet(done(l))
      BY <2>1, FiniteImage
    <2> QED
      BY <2>2
  <1>5. IsFiniteSet(UNION {f[l] : l \in LpsOn(r)})
    <2> HIDE DEF f
    <2> QED
      BY <1>1, <1>4, FiniteUnion
  <1>6. \A rec : rec \in CommittedRecords(r, gvt)
           <=> \E l \in LpsOn(r) : \E i \in 1..k(l) : rec = ctx[l].processed[i]
    BY <1>3
  <1>7. \A l \in LpsOn(r) : \A i \in 1..k(l) : ctx[l].processed[i] \in ProcessedRecord
    BY <1>2 DEF LPContext
  <1> QED
    BY <1>3, <1>5, <1>6, <1>7 DEF k

\* The committed events: each is at one place of the sorted list.
LEMMA CommittedEventsSpec ==
    ASSUME TypeOK, NEW r \in Ranks, NEW gvt \in Stamp
    PROVE  /\ IsSorting({rec.ev : rec \in CommittedRecords(r, gvt)},
                        CommittedEvents(r, gvt))
           /\ CommittedEvents(r, gvt) \in Seq(Event)
           /\ \A i, j \in 1..Len(CommittedEvents(r, gvt)) : i < j =>
                 Le(CommittedEvents(r, gvt)[i].ts, CommittedEvents(r, gvt)[j].ts)
  <1> DEFINE C == CommittedRecords(r, gvt)
             f == [rec \in C |-> rec.ev]
             S == {rec.ev : rec \in C}
  <1>1. IsFiniteSet(C) /\ C \subseteq ProcessedRecord
    BY CommittedSpec
  <1> HIDE DEF C
  <1>2. S = {f[rec] : rec \in C}
    OBVIOUS
  <1>3. IsFiniteSet(S)
    <2> HIDE DEF f, S
    <2> QED
      BY <1>1, <1>2, FiniteImage
  <1>4. S \in SUBSET Event
    BY <1>1 DEF ProcessedRecord
  <1> HIDE DEF S
  <1>5. /\ IsSorting(S, SortedBy(S, TraceBefore))
        /\ \A i, j \in 1..Len(SortedBy(S, TraceBefore)) : i < j =>
              Le(SortedBy(S, TraceBefore)[i].ts, SortedBy(S, TraceBefore)[j].ts)
    BY <1>3, <1>4, SortedEvents
  <1>6. CommittedEvents(r, gvt) = SortedBy(S, TraceBefore)
    BY DEF CommittedEvents, S, C
  <1>7. CommittedEvents(r, gvt) \in Seq(Event)
    BY <1>4, <1>5, <1>6 DEF IsSorting
  <1> QED
    BY <1>5, <1>6, <1>7 DEF S, C

-----------------------------------------------------------------------------
(***************************************************************************)
(* Where the event is that LP l used up a uid for.                         *)
(***************************************************************************)
IsEvent(e, l, uid) == e.src = l /\ e.uid = uid /\ e.anti = FALSE

NotSent(l, uid) == \A m \in net : ~ IsEvent(m.ev, l, uid)
NotQueued(l, uid) == \A r \in Ranks : \A e \in pending[r] : ~ IsEvent(e, l, uid)
NotRecorded(l, uid) ==
    \A d \in LPs : \A i \in 1..Len(ctx[d].processed) :
        ~ IsEvent(ctx[d].processed[i].ev, l, uid)
NotCommitted(l, uid) ==
    \A r \in Ranks : \A i \in 1..Len(trace[r]) : ~ IsEvent(trace[r][i], l, uid)

\* It is in one place of a kind only.
SentAs(l, uid, m) ==
    /\ IsEvent(m.ev, l, uid)
    /\ \A n \in net : IsEvent(n.ev, l, uid) => n = m
QueuedAs(l, uid, r, e) ==
    /\ IsEvent(e, l, uid)
    /\ \A q \in Ranks : \A f \in pending[q] : IsEvent(f, l, uid) => q = r /\ f = e
RecordedAs(l, uid, d, i) ==
    /\ IsEvent(ctx[d].processed[i].ev, l, uid)
    /\ \A b \in LPs : \A j \in 1..Len(ctx[b].processed) :
          IsEvent(ctx[b].processed[j].ev, l, uid) => b = d /\ j = i
CommittedAs(l, uid, r, i) ==
    /\ IsEvent(trace[r][i], l, uid)
    /\ \A q \in Ranks : \A j \in 1..Len(trace[q]) :
          IsEvent(trace[q][j], l, uid) => q = r /\ j = i

OnlySent(l, uid) ==
    /\ \E m \in net : SentAs(l, uid, m)
    /\ NotQueued(l, uid) /\ NotRecorded(l, uid) /\ NotCommitted(l, uid)
OnlyQueued(l, uid) ==
    /\ \E r \in Ranks : \E e \in pending[r] : QueuedAs(l, uid, r, e)
    /\ NotSent(l, uid) /\ NotRecorded(l, uid) /\ NotCommitted(l, uid)
OnlyRecorded(l, uid) ==
    /\ \E d \in LPs : \E i \in 1..Len(ctx[d].processed) : RecordedAs(l, uid, d, i)
    /\ NotSent(l, uid) /\ NotQueued(l, uid) /\ NotCommitted(l, uid)
OnlyCommitted(l, uid) ==
    /\ \E r \in Ranks : \E i \in 1..Len(trace[r]) : CommittedAs(l, uid, r, i)
    /\ NotSent(l, uid) /\ NotQueued(l, uid) /\ NotRecorded(l, uid)

\* It exists exactly once.
Once(l, uid) == \/ OnlySent(l, uid) \/ OnlyQueued(l, uid)
                \/ OnlyRecorded(l, uid) \/ OnlyCommitted(l, uid)

EntriesOnce == \A l \in LPs : \A s \in Entries(ctx[l]) : Once(l, s.uid)

\* The uid has been used, and its LP no longer stands for the event.
Gone(l, uid) == uid < ctx[l].nextUid /\ uid \notin StandingUids(ctx[l])

\* Tombstones, and those a record would put back, are for events that are gone.
TombstonesFit ==
    /\ \A r \in Ranks : \A t \in cancelled[r] : Gone(t.src, t.uid)
    /\ \A l \in LPs : \A i \in 1..Len(ctx[l].processed) :
          \A t \in ctx[l].processed[i].cancelPrev : Gone(t.src, t.uid)

\* Committed events have used uids, and committed anti-messages are for events
\* that are gone.
UsedUp(e) == /\ e.uid < ctx[e.src].nextUid
             /\ e.anti => Gone(e.src, e.uid)

TraceFits ==
    \A r \in Ranks :
        /\ trace[r] \in Seq(Event)
        /\ \A i \in 1..Len(trace[r]) : UsedUp(trace[r][i])

DeliveryInv == EntriesOnce /\ TombstonesFit /\ TraceFits

-----------------------------------------------------------------------------
(***************************************************************************)
(* What is gone stays gone.                                                *)
(***************************************************************************)
LogsStep == \A l \in LPs : \E out : LogStep(l, ctx[l], ctx'[l], out)

\* In every step each log changes as LogStep says.
LEMMA LogsStepHolds ==
    ASSUME TypeOK, ProcessedInOrder, OneEventPerUid, Placed, [Next]_vars
    PROVE  LogsStep
  <1>1. CASE QuietStep
    BY <1>1 DEF QuietStep, LogsStep
  <1>2. ASSUME NEW r \in Ranks, NEW queue, NEW out, SendingStep(r, queue, out)
        PROVE  LogsStep
    BY <1>2 DEF SendingStep, LogsStep
  <1> QED
    BY <1>1, <1>2, QuietOrSending

\* A uid that has been given out is not given out again, and what was taken
\* back of a log does not come back.
LEMMA GoneStays ==
    ASSUME TypeOK, LogsStep, NEW l \in LPs, NEW uid \in Nat, uid < ctx[l].nextUid
    PROVE  /\ uid < ctx'[l].nextUid
           /\ uid \in StandingUids(ctx'[l]) => uid \in StandingUids(ctx[l])
           /\ Gone(l, uid) => Gone(l, uid)'
  <1>1. ctx[l] \in LPContext
    BY DEF TypeOK
  <1>2. PICK out : LogStep(l, ctx[l], ctx'[l], out)
    BY DEF LogsStep
  <1>3. /\ uid < ctx'[l].nextUid
        /\ uid \in StandingUids(ctx'[l]) => uid \in StandingUids(ctx[l])
    BY <1>1, <1>2, OldUid
  <1> QED
    BY <1>3 DEF Gone

\* A copy that is not of a standing event.
LEMMA CopyGone ==
    ASSUME TypeOK, OneEventPerUid, NEW e \in Copies
    PROVE  /\ e \in Event /\ e.src \in LPs /\ e.uid \in Nat
           /\ e.uid < ctx[e.src].nextUid
           /\ e.anti => Gone(e.src, e.uid)
  <1>1. e \in Event
    BY CopiesType
  <1> QED
    BY <1>1, EventFields DEF OneEventPerUid, Gone

\* The fields of tombstones.
LEMMA TombstoneFields ==
    ASSUME TypeOK
    PROVE  /\ \A r \in Ranks : \A t \in cancelled[r] : t.src \in LPs /\ t.uid \in Nat
           /\ \A l \in LPs : \A i \in 1..Len(ctx[l].processed) :
                 \A t \in ctx[l].processed[i].cancelPrev : t.src \in LPs /\ t.uid \in Nat
  <1>1. \A r \in Ranks : \A t \in cancelled[r] : t \in Tombstone
    BY DEF TypeOK
  <1>2. ASSUME NEW l \in LPs, NEW i \in 1..Len(ctx[l].processed),
               NEW t \in ctx[l].processed[i].cancelPrev
        PROVE  t \in Tombstone
    <2>1. ctx[l].processed[i] \in ProcessedRecord
      BY RecordStamp DEF TypeOK
    <2> QED
      BY <2>1 DEF ProcessedRecord
  <1> QED
    BY <1>1, <1>2 DEF Tombstone

-----------------------------------------------------------------------------
(***************************************************************************)
(* The steps that send.                                                    *)
(***************************************************************************)
\* None of the messages a step sends is an event of old.
LEMMA OldNotSent ==
    ASSUME TypeOK, NEW r, NEW queue, NEW out, SendingStep(r, queue, out),
           NEW l \in LPs, NEW uid \in Nat, uid < ctx[l].nextUid
    PROVE  \A f \in out : ~ IsEvent(f, l, uid)
  <1> DEFINE x == [src |-> l, uid |-> uid, anti |-> FALSE]
  <1>1. x.src = l /\ x.uid = uid /\ x.anti = FALSE
    OBVIOUS
  <1> HIDE DEF x
  <1>2. \A f \in out : ~ SameInflight(f, x)
    BY <1>1, FreshKey
  <1> QED
    BY <1>1, <1>2 DEF IsEvent, SameInflight, SameUid

\* An event that stands is not skipped.
LEMMA StandingNotSkipped ==
    ASSUME TombstonesFit, NEW r \in Ranks, NEW e, IsTombstoned(cancelled[r], e)
    PROVE  Gone(e.src, e.uid)
  <1>1. PICK t \in cancelled[r] : SameUid(t, e)
    BY DEF IsTombstoned
  <1> QED
    BY <1>1 DEF TombstonesFit, SameUid

\* Where queued events and messages are after a step that sends.
LEMMA SentPlaces ==
    ASSUME TypeOK, NEW r \in Ranks, NEW queue, NEW out, SendingStep(r, queue, out)
    PROVE  /\ net \subseteq net' /\ \A m \in net' : m \in net \/ m.ev \in out
           /\ queue \subseteq pending'[r]
           /\ \A e \in pending'[r] : e \in queue \/ e \in out
           /\ \A q \in Ranks \ {r} : pending'[q] = pending[q]
           /\ \A e \in out : \/ e \in pending'[r] /\ lpToRank[e.dst] = r
                             \/ /\ lpToRank[e.dst] # r
                                /\ \E m \in net' : m.ev = e
           /\ \A m \in net' : m \in net \/ lpToRank[m.ev.dst] # r
           /\ \A e \in pending'[r] : e \in queue \/ lpToRank[e.dst] = r
  <1> DEFINE remote == {e \in out : lpToRank[e.dst] # r}
             msg(e) == [from |-> r, ev |-> e, colour |-> SendColour]
  <1>1. /\ pending' = [pending EXCEPT ![r] = queue \cup (out \ remote)]
        /\ net' = net \cup {msg(e) : e \in remote}
    BY DEF SendingStep, Route
  <1>2. \A e \in remote : e \in out /\ lpToRank[e.dst] # r
    OBVIOUS
  <1>3. \A e \in out : e \notin remote => lpToRank[e.dst] = r
    OBVIOUS
  <1>4. \A e : msg(e).ev = e
    OBVIOUS
  <1> HIDE DEF remote, msg
  <1>5. /\ \A q \in Ranks \ {r} : pending'[q] = pending[q]
        /\ pending'[r] = queue \cup (out \ remote)
    BY <1>1 DEF TypeOK
  <1>6. /\ net \subseteq net' /\ \A e \in remote : msg(e) \in net'
        /\ \A m \in net' : m \in net \/ \E e \in remote : m = msg(e)
    BY <1>1
  <1> QED
    BY <1>2, <1>3, <1>4, <1>5, <1>6

\* An event that stands, before the dispatch of another or itself and after it,
\* still exists once.
LEMMA DispatchOnce ==
    ASSUME TypeOK, TombstonesFit, NEW r \in Ranks, NEW queue, NEW out,
           SendingStep(r, queue, out), Dispatches(r, queue),
           NEW l \in LPs, NEW uid \in Nat, uid < ctx[l].nextUid,
           uid \in StandingUids(ctx[l]), Once(l, uid)
    PROVE  Once(l, uid)'
  <1>1. \A f \in out : ~ IsEvent(f, l, uid)
    BY OldNotSent
  <1>2. PICK ev \in pending[r], rest \in SUBSET pending[r], k \in Nat :
           DispatchOf(r, ev, rest, k, queue)
    BY DEF Dispatches
  <1> DEFINE b == ev.dst
             old == ctx[b].processed
  <1>3. b \in LPs
    BY EventFields DEF TypeOK
  <1>4. /\ k \in 0..Len(old) /\ Len(old) \in Nat
        /\ \A i \in (k+1)..Len(old) : old[i].ev \in queue
        /\ rest \subseteq queue
        /\ \A e \in queue : e \in rest \/ \E i \in (k+1)..Len(old) : e = old[i].ev
    <2>1. BackInQueue(old, k, rest, queue)
      BY <1>2 DEF DispatchOf
    <2>2. Len(old) \in Nat
      BY <1>3, SMTT(30) DEF TypeOK, LPContext
    <2> HIDE DEF old
    <2> QED
      BY <2>1, <2>2 DEF BackInQueue
  <1>5. /\ net \subseteq net' /\ \A m \in net' : m \in net \/ m.ev \in out
        /\ queue \subseteq pending'[r]
        /\ \A e \in pending'[r] : e \in queue \/ e \in out
        /\ \A q \in Ranks \ {r} : pending'[q] = pending[q]
    BY SentPlaces
  <1>6. \A m \in net' : IsEvent(m.ev, l, uid) => m \in net
    BY <1>1, <1>5
  <1>7. /\ \A q \in Ranks : \A e \in pending'[q] : IsEvent(e, l, uid) =>
              \/ e \in pending[q] /\ (q = r => e \in rest)
              \/ q = r /\ \E i \in (k+1)..Len(old) : e = old[i].ev
        /\ \A q \in Ranks : \A e \in pending[q] : (q = r => e \in rest) => e \in pending'[q]
        /\ \A i \in (k+1)..Len(old) : old[i].ev \in pending'[r]
    <2> HIDE DEF old
    <2> QED
      BY <1>1, <1>4, <1>5
  <1>8. /\ \A i \in 1..k : ctx'[b].processed[i] = old[i]
        /\ \/ ev \in rest /\ Len(ctx'[b].processed) = k
           \/ /\ ev \notin rest /\ Len(ctx'[b].processed) = k + 1
              /\ ctx'[b].processed[k + 1].ev = ev
        /\ \A d \in LPs \ {b} : ctx'[d].processed = ctx[d].processed
        /\ trace' = trace
    BY <1>2 DEF DispatchOf
  <1>9. \A d \in LPs : \A i \in 1..Len(ctx'[d].processed) :
           \/ /\ i \in 1..Len(ctx[d].processed) /\ (d = b => i \in 1..k)
              /\ ctx'[d].processed[i] = ctx[d].processed[i]
           \/ d = b /\ i = k + 1 /\ ev \notin rest /\ ctx'[d].processed[i].ev = ev
    <2> TAKE d \in LPs
    <2>1. CASE d # b
      BY <1>8, <2>1
    <2>2. CASE d = b
      <3> HIDE DEF b
      <3>1. \A i \in 1..Len(ctx'[b].processed) : i \in 1..k \/ (i = k + 1 /\ ev \notin rest)
        BY <1>4, <1>8
      <3>2. \A i \in 1..k : i \in 1..Len(ctx[b].processed)
        BY <1>4
      <3> QED
        BY <1>8, <2>2, <3>1, <3>2
    <2> QED
      BY <2>1, <2>2
  <1>10. \A d \in LPs : \A i \in 1..Len(ctx[d].processed) :
            \/ /\ i \in 1..Len(ctx'[d].processed)
               /\ ctx'[d].processed[i] = ctx[d].processed[i]
            \/ d = b /\ i \in (k+1)..Len(old)
    <2> TAKE d \in LPs
    <2>1. CASE d # b
      BY <1>8, <2>1
    <2>2. CASE d = b
      <3> HIDE DEF b
      <3>1. \A i \in 1..Len(ctx[b].processed) : i \in 1..k \/ i \in (k+1)..Len(old)
        BY <1>4
      <3>2. \A i \in 1..k : i \in 1..Len(ctx'[b].processed)
        BY <1>4, <1>8
      <3> QED
        BY <1>8, <2>2, <3>1, <3>2
    <2> QED
      BY <2>1, <2>2
  <1>11. ev \notin rest => /\ k + 1 \in 1..Len(ctx'[b].processed)
                           /\ ctx'[b].processed[k + 1].ev = ev
    BY <1>8
  <1>12. \A e \in pending[r] : IsEvent(e, l, uid) => e \in rest \/ e = ev
    <2> SUFFICES ASSUME NEW e \in pending[r], IsEvent(e, l, uid), e \notin rest, e # ev
                 PROVE  FALSE
      OBVIOUS
    <2>1. Skipped(r, e)
      BY <1>2 DEF DispatchOf, OnlySkipped
    <2>2. Gone(e.src, e.uid)
      BY <2>1, StandingNotSkipped DEF Skipped
    <2> QED
      BY <2>2 DEF IsEvent, Gone
  <1>13. \A i \in (k+1)..Len(old) : i \in 1..Len(old) /\ i \notin 1..k
    BY <1>4
  <1> HIDE DEF b
  <1>14. CASE OnlySent(l, uid)
    <2>1. /\ NotQueued(l, uid) /\ NotRecorded(l, uid) /\ NotCommitted(l, uid)
          /\ \E m \in net : SentAs(l, uid, m)
      BY <1>14 DEF OnlySent
    <2>2. NotQueued(l, uid)'
      BY <1>3, <1>7, <1>13, <2>1 DEF NotQueued, NotRecorded
    <2>3. NotRecorded(l, uid)'
      BY <1>9, <2>1 DEF NotQueued, NotRecorded
    <2>4. NotCommitted(l, uid)'
      BY <1>8, <2>1 DEF NotCommitted
    <2>5. \E m \in net' : SentAs(l, uid, m)'
      BY <1>5, <1>6, <2>1 DEF SentAs
    <2> QED
      BY <2>2, <2>3, <2>4, <2>5 DEF Once, OnlySent
  <1>15. CASE OnlyCommitted(l, uid)
    <2>1. /\ NotQueued(l, uid) /\ NotRecorded(l, uid) /\ NotSent(l, uid)
          /\ \E q \in Ranks : \E i \in 1..Len(trace[q]) : CommittedAs(l, uid, q, i)
      BY <1>15 DEF OnlyCommitted
    <2>2. NotQueued(l, uid)'
      BY <1>3, <1>7, <1>13, <2>1 DEF NotQueued, NotRecorded
    <2>3. NotRecorded(l, uid)'
      BY <1>9, <2>1 DEF NotQueued, NotRecorded
    <2>4. NotSent(l, uid)'
      BY <1>6, <2>1 DEF NotSent
    <2>5. \E q \in Ranks : \E i \in 1..Len(trace'[q]) : CommittedAs(l, uid, q, i)'
      BY <1>8, <2>1 DEF CommittedAs
    <2> QED
      BY <2>2, <2>3, <2>4, <2>5 DEF Once, OnlyCommitted
  <1>16. CASE OnlyQueued(l, uid)
    <2>1. /\ NotSent(l, uid) /\ NotRecorded(l, uid) /\ NotCommitted(l, uid)
      BY <1>16 DEF OnlyQueued
    <2>2. PICK q \in Ranks : \E e \in pending[q] : QueuedAs(l, uid, q, e)
      BY <1>16 DEF OnlyQueued
    <2>3. PICK e \in pending[q] : QueuedAs(l, uid, q, e)
      BY <2>2
    <2>4. NotSent(l, uid)' /\ NotCommitted(l, uid)'
      BY <1>6, <1>8, <2>1 DEF NotSent, NotCommitted
    <2>5. CASE q = r => e \in rest
      <3>1. QueuedAs(l, uid, q, e)' /\ e \in pending'[q]
        BY <1>3, <1>7, <1>13, <2>1, <2>3, <2>5 DEF QueuedAs, NotRecorded
      <3>2. ev \notin rest => ~ IsEvent(ev, l, uid)
        BY <2>3, <2>5 DEF QueuedAs
      <3>3. NotRecorded(l, uid)'
        BY <1>9, <2>1, <3>2 DEF NotRecorded
      <3> QED
        BY <2>4, <3>1, <3>3 DEF Once, OnlyQueued
    <2>6. CASE q = r /\ e \notin rest
      <3>1. e = ev /\ ev \notin rest
        BY <1>12, <2>3, <2>6 DEF QueuedAs
      <3>2. RecordedAs(l, uid, b, k + 1)'
        <4>1. IsEvent(ctx'[b].processed[k + 1].ev, l, uid)
          BY <1>11, <2>3, <3>1 DEF QueuedAs
        <4>2. \A d \in LPs : \A j \in 1..Len(ctx'[d].processed) :
                 IsEvent(ctx'[d].processed[j].ev, l, uid) => d = b /\ j = k + 1
          BY <1>9, <2>1 DEF NotRecorded
        <4> QED
          BY <4>1, <4>2 DEF RecordedAs
      <3>3. NotQueued(l, uid)'
        <4> SUFFICES ASSUME NEW p \in Ranks, NEW f \in pending'[p], IsEvent(f, l, uid)
                     PROVE  FALSE
          BY DEF NotQueued
        <4>1. CASE f \in pending[p] /\ (p = r => f \in rest)
          BY <2>3, <2>6, <4>1 DEF QueuedAs
        <4>2. CASE \E i \in (k+1)..Len(old) : f = old[i].ev
          BY <1>3, <1>13, <2>1, <4>2 DEF NotRecorded
        <4> QED
          BY <1>7, <4>1, <4>2
      <3> QED
        BY <1>3, <1>11, <2>4, <3>1, <3>2, <3>3 DEF Once, OnlyRecorded
    <2> QED
      BY <2>5, <2>6
  <1>17. CASE OnlyRecorded(l, uid)
    <2>1. /\ NotSent(l, uid) /\ NotQueued(l, uid) /\ NotCommitted(l, uid)
      BY <1>17 DEF OnlyRecorded
    <2>2. PICK d \in LPs : \E i \in 1..Len(ctx[d].processed) : RecordedAs(l, uid, d, i)
      BY <1>17 DEF OnlyRecorded
    <2>3. PICK i \in 1..Len(ctx[d].processed) : RecordedAs(l, uid, d, i)
      BY <2>2
    <2>4. NotSent(l, uid)' /\ NotCommitted(l, uid)'
      BY <1>6, <1>8, <2>1 DEF NotSent, NotCommitted
    <2>5. ~ IsEvent(ev, l, uid)
      BY <2>1 DEF NotQueued
    <2>6. CASE d = b /\ i \in (k+1)..Len(old)
      <3>1. NotRecorded(l, uid)'
        <4> SUFFICES ASSUME NEW a \in LPs, NEW j \in 1..Len(ctx'[a].processed),
                            IsEvent(ctx'[a].processed[j].ev, l, uid)
                     PROVE  FALSE
          BY DEF NotRecorded
        <4>1. /\ j \in 1..Len(ctx[a].processed) /\ (a = b => j \in 1..k)
              /\ IsEvent(ctx[a].processed[j].ev, l, uid)
          BY <1>9, <2>5
        <4>2. a = d /\ j = i
          BY <2>3, <4>1 DEF RecordedAs
        <4>3. i \notin 1..k
          BY <1>13, <2>6
        <4> QED
          BY <2>6, <4>1, <4>2, <4>3
      <3>2. PICK e : e = old[i].ev
        OBVIOUS
      <3>3. e \in pending'[r] /\ IsEvent(e, l, uid)
        BY <1>7, <2>3, <2>6, <3>2 DEF RecordedAs
      <3>4. \A q \in Ranks : \A f \in pending'[q] : IsEvent(f, l, uid) =>
               q = r /\ f = e
        <4> SUFFICES ASSUME NEW q \in Ranks, NEW f \in pending'[q], IsEvent(f, l, uid)
                     PROVE  q = r /\ f = e
          OBVIOUS
        <4>1. q = r /\ \E j \in (k+1)..Len(old) : f = old[j].ev
          BY <1>7, <2>1 DEF NotQueued
        <4>2. PICK j \in (k+1)..Len(old) : f = old[j].ev
          BY <4>1
        <4>3. j \in 1..Len(ctx[b].processed) /\ IsEvent(ctx[b].processed[j].ev, l, uid)
          BY <1>13, <4>2
        <4>4. j = i
          BY <1>3, <2>3, <4>3 DEF RecordedAs
        <4> QED
          BY <3>2, <4>1, <4>2, <4>4
      <3>5. QueuedAs(l, uid, r, e)'
        BY <3>3, <3>4 DEF QueuedAs
      <3> QED
        BY <2>4, <3>1, <3>3, <3>5 DEF Once, OnlyQueued
    <2>7. CASE ~ (d = b /\ i \in (k+1)..Len(old))
      <3>1. RecordedAs(l, uid, d, i)' /\ i \in 1..Len(ctx'[d].processed)
        BY <1>9, <1>10, <2>3, <2>5, <2>7 DEF RecordedAs
      <3>2. NotQueued(l, uid)'
        BY <1>3, <1>7, <1>13, <2>1, <2>3, <2>7 DEF NotQueued, RecordedAs
      <3> QED
        BY <2>4, <3>1, <3>2 DEF Once, OnlyRecorded
    <2> QED
      BY <2>6, <2>7
  <1> QED
    BY <1>14, <1>15, <1>16, <1>17 DEF Once

\* An event that stands still exists once when the LPs of a rank seed their work.
LEMMA SeedOnce ==
    ASSUME TypeOK, NEW r \in Ranks, NEW out, SendingStep(r, pending[r], out),
           \A d \in LPs : ctx'[d].processed = ctx[d].processed, trace' = trace,
           NEW l \in LPs, NEW uid \in Nat, uid < ctx[l].nextUid, Once(l, uid)
    PROVE  Once(l, uid)'
  <1>1. \A f \in out : ~ IsEvent(f, l, uid)
    BY OldNotSent
  <1>2. /\ net \subseteq net' /\ \A m \in net' : m \in net \/ m.ev \in out
        /\ pending[r] \subseteq pending'[r]
        /\ \A e \in pending'[r] : e \in pending[r] \/ e \in out
        /\ \A q \in Ranks \ {r} : pending'[q] = pending[q]
    BY SentPlaces
  <1>3. \A m \in net' : IsEvent(m.ev, l, uid) => m \in net
    BY <1>1, <1>2
  <1>4. /\ \A q \in Ranks : \A e \in pending'[q] : IsEvent(e, l, uid) => e \in pending[q]
        /\ \A q \in Ranks : pending[q] \subseteq pending'[q]
    BY <1>1, <1>2
  <1>5. /\ NotSent(l, uid) => NotSent(l, uid)'
        /\ NotQueued(l, uid) => NotQueued(l, uid)'
        /\ NotRecorded(l, uid) => NotRecorded(l, uid)'
        /\ NotCommitted(l, uid) => NotCommitted(l, uid)'
    BY <1>3, <1>4 DEF NotSent, NotQueued, NotRecorded, NotCommitted
  <1>6. CASE OnlySent(l, uid)
    <2>1. \E m \in net' : SentAs(l, uid, m)'
      BY <1>2, <1>3, <1>6 DEF OnlySent, SentAs
    <2> QED
      BY <1>5, <1>6, <2>1 DEF OnlySent, Once
  <1>7. CASE OnlyQueued(l, uid)
    <2>1. \E q \in Ranks : \E e \in pending'[q] : QueuedAs(l, uid, q, e)'
      BY <1>4, <1>7 DEF OnlyQueued, QueuedAs
    <2> QED
      BY <1>5, <1>7, <2>1 DEF OnlyQueued, Once
  <1>8. CASE OnlyRecorded(l, uid)
    <2>1. \E d \in LPs : \E i \in 1..Len(ctx'[d].processed) : RecordedAs(l, uid, d, i)'
      <3>1. PICK d \in LPs : \E i \in 1..Len(ctx[d].processed) : RecordedAs(l, uid, d, i)
        BY <1>8 DEF OnlyRecorded
      <3>2. PICK i \in 1..Len(ctx[d].processed) : RecordedAs(l, uid, d, i)
        BY <3>1
      <3>3. RecordedAs(l, uid, d, i)' /\ i \in 1..Len(ctx'[d].processed)
        BY <3>2 DEF RecordedAs
      <3> QED
        BY <3>3
    <2> QED
      BY <1>5, <1>8, <2>1 DEF OnlyRecorded, Once
  <1>9. CASE OnlyCommitted(l, uid)
    <2>1. \E q \in Ranks : \E i \in 1..Len(trace'[q]) : CommittedAs(l, uid, q, i)'
      BY <1>9 DEF OnlyCommitted, CommittedAs
    <2> QED
      BY <1>5, <1>9, <2>1 DEF OnlyCommitted, Once
  <1> QED
    BY <1>6, <1>7, <1>8, <1>9 DEF Once

\* An event with a uid that has not been used is nowhere.
LEMMA NewNowhere ==
    ASSUME TypeOK, OneEventPerUid, TraceFits, NEW l \in LPs, NEW uid \in Nat,
           ctx[l].nextUid <= uid
    PROVE  /\ NotSent(l, uid) /\ NotQueued(l, uid)
           /\ NotRecorded(l, uid) /\ NotCommitted(l, uid)
  <1>1. ctx[l].nextUid \in Nat
    BY DEF TypeOK, LPContext
  <1>2. \A e \in Copies : ~ IsEvent(e, l, uid)
    BY <1>1, CopyGone DEF IsEvent
  <1>3. NotSent(l, uid) /\ NotQueued(l, uid) /\ NotRecorded(l, uid)
    BY <1>2, InCopies DEF Copies, NotSent, NotQueued, NotRecorded
  <1>4. NotCommitted(l, uid)
    BY <1>1 DEF TraceFits, UsedUp, NotCommitted, IsEvent
  <1> QED
    BY <1>3, <1>4

\* An event that has just been sent exists once.
LEMMA NewOnce ==
    ASSUME TypeOK, OneEventPerUid, TraceFits, NEW r \in Ranks, NEW queue, NEW out,
           SendingStep(r, queue, out), trace' = trace,
           NEW e \in out, ~ e.anti, NEW l, NEW uid, l = e.src, uid = e.uid
    PROVE  Once(l, uid)'
  <1>1. e \in Event /\ l \in LPs /\ uid \in Nat /\ IsEvent(e, l, uid)
    <2>1. e \in Event
      BY DEF SendingStep
    <2> QED
      BY <2>1, EventFields DEF IsEvent
  <1>2. ctx[l].nextUid <= uid
    <2>1. LogStep(l, ctx[l], ctx'[l], {f \in out : f.src = l})
      BY <1>1 DEF SendingStep
    <2> QED
      BY <2>1 DEF LogStep
  <1>3. /\ NotSent(l, uid) /\ NotQueued(l, uid)
        /\ NotRecorded(l, uid) /\ NotCommitted(l, uid)
    BY <1>1, <1>2, NewNowhere
  <1>4. \A f \in Copies : ~ IsEvent(f, l, uid)
    BY <1>3, InCopies DEF Copies, NotSent, NotQueued, NotRecorded
  <1>5. \A f \in out : IsEvent(f, l, uid) => f = e
    BY DifferentKeys DEF IsEvent, SameUid
  <1>6. /\ \A m \in net' : m \in net \/ m.ev \in out
        /\ \A f \in pending'[r] : f \in queue \/ f \in out
        /\ \A q \in Ranks \ {r} : pending'[q] = pending[q]
        /\ \/ e \in pending'[r] /\ lpToRank[e.dst] = r
           \/ /\ lpToRank[e.dst] # r /\ \E m \in net' : m.ev = e
        /\ \A m \in net' : m \in net \/ lpToRank[m.ev.dst] # r
        /\ \A f \in pending'[r] : f \in queue \/ lpToRank[f.dst] = r
    BY SentPlaces
  <1>7. \A f \in queue : ~ IsEvent(f, l, uid)
    BY <1>4 DEF SendingStep
  <1>8. NotRecorded(l, uid)' /\ NotCommitted(l, uid)'
    <2>1. ASSUME NEW d \in LPs, NEW i \in 1..Len(ctx'[d].processed)
          PROVE  ~ IsEvent(ctx'[d].processed[i].ev, l, uid)
      <3>1. RecordsFrom(r, d)
        BY DEF SendingStep
      <3> QED
        BY <1>3, <3>1 DEF RecordsFrom, NotRecorded, NotQueued
    <2> QED
      BY <1>3, <2>1 DEF NotRecorded, NotCommitted
  <1>9. \A m \in net' : IsEvent(m.ev, l, uid) => m.ev = e /\ lpToRank[e.dst] # r
    BY <1>3, <1>5, <1>6 DEF NotSent
  <1>10. \A q \in Ranks : \A f \in pending'[q] : IsEvent(f, l, uid) =>
            q = r /\ f = e /\ lpToRank[e.dst] = r
    BY <1>3, <1>5, <1>6, <1>7 DEF NotQueued
  <1>11. CASE lpToRank[e.dst] = r
    <2>1. QueuedAs(l, uid, r, e)' /\ e \in pending'[r] /\ NotSent(l, uid)'
      BY <1>1, <1>6, <1>9, <1>10, <1>11 DEF QueuedAs, NotSent
    <2> QED
      BY <1>8, <2>1 DEF Once, OnlyQueued
  <1>12. CASE lpToRank[e.dst] # r
    <2>1. PICK m \in net' : m.ev = e
      BY <1>6, <1>12
    <2>2. \A n \in net' : n.ev = e => n = m
      <3>1. m \notin net /\ \A n \in net' : n.ev = e => n \notin net
        BY <1>1, <1>3, <2>1 DEF NotSent
      <3>2. net' = net \cup {[from |-> r, ev |-> f, colour |-> SendColour] :
                               f \in {g \in out : lpToRank[g.dst] # r}}
        BY DEF SendingStep, Route
      <3>3. \A n \in net' : n \in net \/ n = [from |-> r, ev |-> n.ev, colour |-> SendColour]
        BY <3>2
      <3> QED
        BY <2>1, <3>1, <3>3
    <2>3. SentAs(l, uid, m)' /\ NotQueued(l, uid)'
      BY <1>1, <1>9, <1>10, <1>12, <2>1, <2>2 DEF SentAs, NotQueued
    <2> QED
      BY <1>8, <2>1, <2>3 DEF Once, OnlySent
  <1> QED
    BY <1>11, <1>12

\* Entries are once when a step sends, if those that stood before it are.
LEMMA EntriesSent ==
    ASSUME TypeOK, OneEventPerUid, TraceFits, NEW r \in Ranks, NEW queue, NEW out,
           SendingStep(r, queue, out), trace' = trace,
           \A l \in LPs : \A s \in Entries(ctx[l]) : Once(l, s.uid)'
    PROVE  EntriesOnce'
  <1> SUFFICES ASSUME NEW l \in LPs, NEW s \in Entries(ctx'[l])
               PROVE  Once(l, s.uid)'
    BY DEF EntriesOnce
  <1> DEFINE Of == {f \in out : f.src = l}
  <1>1. LogStep(l, ctx[l], ctx'[l], Of)
    BY DEF SendingStep
  <1>2. \A e \in Of : e \in out /\ e.src = l
    OBVIOUS
  <1> HIDE DEF Of
  <1>3. s \in Entries(ctx[l]) \/ \E e \in Of : ~ e.anti /\ Matches(e, s)
    BY <1>1 DEF LogStep
  <1>4. ASSUME NEW e \in Of, ~ e.anti, Matches(e, s)
        PROVE  Once(l, s.uid)'
    <2>1. e \in out /\ l = e.src /\ s.uid = e.uid
      BY <1>2, <1>4 DEF Matches
    <2> QED
      BY <1>4, <2>1, NewOnce
  <1> QED
    BY <1>3, <1>4

-----------------------------------------------------------------------------
(***************************************************************************)
(* The steps that send nothing.                                            *)
(***************************************************************************)
\* LP l commits its first cut[l] records; rank r appends new[r] to its trace,
\* which has each event of those records once.
Commits(cut, new) ==
    /\ cut \in [LPs -> Nat] /\ new \in [Ranks -> Seq(Event)]
    /\ \A l \in LPs :
          /\ cut[l] <= Len(ctx[l].processed)
          /\ Len(ctx'[l].processed) = Len(ctx[l].processed) - cut[l]
          /\ \A i \in 1..Len(ctx'[l].processed) :
                ctx'[l].processed[i] = ctx[l].processed[i + cut[l]]
    /\ \A r \in Ranks :
          /\ trace'[r] = trace[r] \o new[r]
          /\ \A l \in LPs : lpToRank[l] = r =>
                \A i \in 1..cut[l] : \E j \in 1..Len(new[r]) :
                    new[r][j] = ctx[l].processed[i].ev
          /\ \A j \in 1..Len(new[r]) : \E l \in LPs : \E i \in 1..cut[l] :
                lpToRank[l] = r /\ new[r][j] = ctx[l].processed[i].ev
          /\ \A i, j \in 1..Len(new[r]) : new[r][i] = new[r][j] => i = j

\* The records left after pruning.
LEMMA PrunedRecords ==
    ASSUME NEW c \in LPContext, NEW gvt \in Stamp, NEW d, d = Pruned(c, gvt),
           NEW k, k = PrunedProcessed(c, gvt)
    PROVE  /\ k \in Nat /\ k <= Len(c.processed)
           /\ Len(d.processed) = Len(c.processed) - k
           /\ \A i \in 1..Len(d.processed) : d.processed[i] = c.processed[i + k]
  <1>1. k \in 0..Len(c.processed) /\ Len(c.processed) \in Nat
    BY PrunedProcessedSpec DEF LPContext
  <1>2. d.processed = SubSeq(c.processed, k + 1, Len(c.processed))
    BY DEF Pruned, LPContext
  <1>3. c.processed \in Seq(ProcessedRecord)
    BY DEF LPContext
  <1> QED
    BY <1>1, <1>2, <1>3

\* prune_to_gvt_ commits.
LEMMA PruneCommits ==
    ASSUME TypeOK, TraceFits, NEW R \in SUBSET Ranks, NEW gvt \in Stamp,
           Prune(R, gvt)
    PROVE  \E cut, new : Commits(cut, new)
  <1> DEFINE cut == [l \in LPs |-> IF lpToRank[l] \in R
                                   THEN PrunedProcessed(ctx[l], gvt) ELSE 0]
             new == [r \in Ranks |-> IF r \in R THEN CommittedEvents(r, gvt)
                                                ELSE <<>>]
  <1>1. ASSUME NEW l \in LPs
        PROVE  /\ cut[l] \in Nat /\ cut[l] <= Len(ctx[l].processed)
               /\ Len(ctx'[l].processed) = Len(ctx[l].processed) - cut[l]
               /\ \A i \in 1..Len(ctx'[l].processed) :
                     ctx'[l].processed[i] = ctx[l].processed[i + cut[l]]
    <2>1. ctx[l] \in LPContext
      BY DEF TypeOK
    <2>2. ctx'[l] = IF lpToRank[l] \in R THEN Pruned(ctx[l], gvt) ELSE ctx[l]
      BY DEF Prune
    <2>3. CASE lpToRank[l] \in R
      <3>1. ctx'[l] = Pruned(ctx[l], gvt) /\ cut[l] = PrunedProcessed(ctx[l], gvt)
        BY <2>2, <2>3
      <3> HIDE DEF cut
      <3> QED
        BY <2>1, <3>1, PrunedRecords
    <2>4. CASE lpToRank[l] \notin R
      <3>1. ctx'[l] = ctx[l] /\ cut[l] = 0
        BY <2>2, <2>4
      <3>2. Len(ctx[l].processed) \in Nat
        BY <2>1 DEF LPContext
      <3> HIDE DEF cut
      <3> QED
        BY <3>1, <3>2
    <2> QED
      BY <2>3, <2>4
  <1>2. ASSUME NEW r \in Ranks
        PROVE  /\ new[r] \in Seq(Event) /\ trace'[r] = trace[r] \o new[r]
               /\ \A l \in LPs : lpToRank[l] = r =>
                     \A i \in 1..cut[l] : \E j \in 1..Len(new[r]) :
                         new[r][j] = ctx[l].processed[i].ev
               /\ \A j \in 1..Len(new[r]) : \E l \in LPs : \E i \in 1..cut[l] :
                     lpToRank[l] = r /\ new[r][j] = ctx[l].processed[i].ev
               /\ \A i, j \in 1..Len(new[r]) : new[r][i] = new[r][j] => i = j
    <2>1. CASE r \in R
      <3> DEFINE C == CommittedRecords(r, gvt)
                 S == {rec.ev : rec \in C}
      <3>1. new[r] = CommittedEvents(r, gvt) /\ trace'[r] = trace[r] \o new[r]
        BY <2>1 DEF Prune
      <3>2. IsSorting(S, new[r]) /\ new[r] \in Seq(Event)
        BY <3>1, CommittedEventsSpec
      <3>3. \A rec : rec \in C
               <=> \E l \in LpsOn(r) : \E i \in 1..PrunedProcessed(ctx[l], gvt) :
                      rec = ctx[l].processed[i]
        BY CommittedSpec
      <3>4. \A l \in LPs : (l \in LpsOn(r) <=> lpToRank[l] = r)
                           /\ (lpToRank[l] = r => cut[l] = PrunedProcessed(ctx[l], gvt))
        BY <2>1 DEF LpsOn
      <3>5. LpsOn(r) \subseteq LPs
        BY DEF LpsOn
      <3> HIDE DEF C, cut, new
      <3>6. \A l \in LPs : lpToRank[l] = r =>
               \A i \in 1..cut[l] : ctx[l].processed[i].ev \in S
        BY <3>3, <3>4
      <3>7. \A e \in S : \E l \in LPs : \E i \in 1..cut[l] :
               lpToRank[l] = r /\ e = ctx[l].processed[i].ev
        BY <3>3, <3>4, <3>5
      <3> HIDE DEF S
      <3>8. \A j \in 1..Len(new[r]) : new[r][j] \in S
        BY <3>2 DEF IsSorting
      <3> QED
        BY <3>1, <3>2, <3>6, <3>7, <3>8 DEF IsSorting
    <2>2. CASE r \notin R
      <3>1. new[r] = <<>> /\ trace'[r] = trace[r]
        BY <2>2 DEF Prune
      <3>2. trace[r] \in Seq(Event)
        BY DEF TraceFits
      <3>3. \A l \in LPs : lpToRank[l] = r => cut[l] = 0
        BY <2>2
      <3> HIDE DEF new
      <3>4. trace[r] \o <<>> = trace[r]
        BY <3>2
      <3>5. trace'[r] = trace[r] \o new[r]
        BY <3>1, <3>4
      <3>6. new[r] \in Seq(Event) /\ Len(new[r]) = 0
        BY <3>1
      <3> HIDE DEF cut, new
      <3> QED
        BY <3>5, <3>3, <3>6
    <2> QED
      BY <2>1, <2>2
  <1>3. cut \in [LPs -> Nat] /\ new \in [Ranks -> Seq(Event)]
    <2>1. \A l \in LPs : cut[l] \in Nat
      BY <1>1
    <2>2. \A r \in Ranks : new[r] \in Seq(Event)
      BY <1>2
    <2> QED
      BY <2>1, <2>2
  <1> HIDE DEF cut, new
  <1>4. Commits(cut, new)
    BY <1>1, <1>2, <1>3 DEF Commits
  <1> QED
    BY <1>4

\* When nothing is pruned nothing is committed.
LEMMA NoCommits ==
    ASSUME TypeOK, TraceFits, UNCHANGED <<ctx, trace>>
    PROVE  \E cut, new : Commits(cut, new)
  <1> DEFINE cut == [l \in LPs |-> 0]
             new == [r \in Ranks |-> <<>>]
  <1>1. \A l \in LPs : Len(ctx[l].processed) \in Nat
    BY DEF TypeOK, LPContext
  <1>2. \A r \in Ranks : trace[r] \o <<>> = trace[r]
    BY DEF TraceFits
  <1>3. cut \in [LPs -> Nat] /\ new \in [Ranks -> Seq(Event)]
    OBVIOUS
  <1>4. (\A l \in LPs : cut[l] = 0) /\ \A r \in Ranks : new[r] = <<>> /\ Len(new[r]) = 0
    OBVIOUS
  <1> HIDE DEF cut, new
  <1>5. ASSUME NEW l \in LPs
        PROVE  /\ cut[l] <= Len(ctx[l].processed)
               /\ Len(ctx'[l].processed) = Len(ctx[l].processed) - cut[l]
               /\ \A i \in 1..Len(ctx'[l].processed) :
                     ctx'[l].processed[i] = ctx[l].processed[i + cut[l]]
    BY <1>1, <1>4
  <1>6. ASSUME NEW r \in Ranks
        PROVE  /\ trace'[r] = trace[r] \o new[r]
               /\ \A l \in LPs : lpToRank[l] = r =>
                     \A i \in 1..cut[l] : \E j \in 1..Len(new[r]) :
                         new[r][j] = ctx[l].processed[i].ev
               /\ \A j \in 1..Len(new[r]) : \E l \in LPs : \E i \in 1..cut[l] :
                     lpToRank[l] = r /\ new[r][j] = ctx[l].processed[i].ev
               /\ \A i, j \in 1..Len(new[r]) : new[r][i] = new[r][j] => i = j
    <2>1. trace'[r] = trace[r] \o new[r]
      BY <1>2, <1>4
    <2>2. 1..Len(new[r]) = {} /\ \A l \in LPs : 1..cut[l] = {}
      BY <1>4
    <2> QED
      BY <2>1, <2>2
  <1>7. Commits(cut, new)
    BY <1>3, <1>5, <1>6 DEF Commits
  <1> QED
    BY <1>7

\* v is s followed by u, position by position.
InARow(s, u, v) ==
    /\ Len(s) \in Nat /\ Len(u) \in Nat /\ Len(v) = Len(s) + Len(u)
    /\ \A i \in 1..Len(s) : i \in 1..Len(v) /\ v[i] = s[i]
    /\ \A j \in 1..Len(u) : Len(s) + j \in 1..Len(v) /\ v[Len(s) + j] = u[j]
    /\ \A i \in 1..Len(v) :
          i \in 1..Len(s) \/ \E j \in 1..Len(u) : i = Len(s) + j

\* Concatenation puts two sequences in a row.
LEMMA Concatenated ==
    ASSUME NEW S, NEW s \in Seq(S), NEW u \in Seq(S)
    PROVE  InARow(s, u, s \o u) /\ s \o u \in Seq(S)
  <1> DEFINE a == Len(s)
             b == Len(u)
             v == s \o u
  <1>1. a \in Nat /\ b \in Nat
    OBVIOUS
  <1>2. Len(v) = a + b /\ v \in Seq(S)
    OBVIOUS
  <1>3. ASSUME NEW i \in 1..a
        PROVE  i \in 1..Len(v) /\ v[i] = s[i]
    <2>1. v[i] = s[i]
      OBVIOUS
    <2> HIDE DEF a, b, v
    <2>2. i \in 1..(a + b)
      BY <1>1
    <2> QED
      BY <1>2, <2>1, <2>2
  <1>4. ASSUME NEW j \in 1..b
        PROVE  a + j \in 1..Len(v) /\ v[a + j] = u[j]
    <2>1. a + j \in 1..(a + b) /\ a + j > a /\ (a + j) - a = j
      <3> HIDE DEF a, b
      <3> QED
        BY <1>1
    <2>2. v[a + j] = u[j]
      BY <2>1
    <2> HIDE DEF a, b, v
    <2> QED
      BY <1>2, <2>1, <2>2
  <1>5. ASSUME NEW i \in 1..Len(v), i \notin 1..a
        PROVE  \E j \in 1..b : i = a + j
    <2> HIDE DEF a, b, v
    <2>1. i - a \in 1..b /\ i = a + (i - a)
      BY <1>1, <1>2, <1>5
    <2> QED
      BY <2>1
  <1>6. InARow(s, u, v)
    BY <1>1, <1>2, <1>3, <1>4, <1>5 DEF InARow
  <1> QED
    BY <1>2, <1>6

\* The trace after a commit.
LEMMA TraceAfter ==
    ASSUME TraceFits, NEW cut, NEW new, Commits(cut, new), NEW r \in Ranks
    PROVE  InARow(trace[r], new[r], trace'[r]) /\ trace'[r] \in Seq(Event)
  <1> DEFINE s == trace[r]
             u == new[r]
  <1>1. s \in Seq(Event) /\ u \in Seq(Event) /\ trace'[r] = s \o u
    BY DEF TraceFits, Commits
  <1> HIDE DEF s, u
  <1>2. InARow(s, u, s \o u) /\ s \o u \in Seq(Event)
    BY <1>1, Concatenated
  <1> QED
    BY <1>1, <1>2 DEF s, u

\* Queued events that are dropped have a tombstone; nothing else moves but what
\* is committed.
Settles ==
    /\ \E cut, new : Commits(cut, new)
    /\ net' = net
    /\ \A r \in Ranks :
          /\ pending'[r] \subseteq pending[r] /\ cancelled'[r] \subseteq cancelled[r]
          /\ \A e \in pending[r] \ pending'[r] : IsTombstoned(cancelled[r], e)

\* An event that stands still exists once.
LEMMA SettleOnce ==
    ASSUME TypeOK, TombstonesFit, TraceFits, Settles,
           NEW l \in LPs, NEW uid \in StandingUids(ctx[l]), Once(l, uid)
    PROVE  Once(l, uid)'
  <1>1. PICK cut, new : Commits(cut, new)
    BY DEF Settles
  <1>2. /\ cut \in [LPs -> Nat]
        /\ \A d \in LPs :
              /\ cut[d] <= Len(ctx[d].processed) /\ Len(ctx[d].processed) \in Nat
              /\ Len(ctx'[d].processed) = Len(ctx[d].processed) - cut[d]
              /\ \A i \in 1..Len(ctx'[d].processed) :
                    ctx'[d].processed[i] = ctx[d].processed[i + cut[d]]
    BY <1>1 DEF Commits, TypeOK, LPContext
  <1>3. /\ \A d \in LPs : \A i \in 1..cut[d] :
              /\ i \in 1..Len(ctx[d].processed)
              /\ \E j \in 1..Len(new[lpToRank[d]]) :
                    new[lpToRank[d]][j] = ctx[d].processed[i].ev
        /\ \A r \in Ranks : \A j \in 1..Len(new[r]) : \E d \in LPs : \E i \in 1..cut[d] :
              lpToRank[d] = r /\ new[r][j] = ctx[d].processed[i].ev
        /\ \A r \in Ranks : \A i, j \in 1..Len(new[r]) : new[r][i] = new[r][j] => i = j
    <2>1. \A d \in LPs : lpToRank[d] \in Ranks
      BY KernelAssumption
    <2>2. ASSUME NEW d \in LPs, NEW i \in 1..cut[d]
          PROVE  i \in 1..Len(ctx[d].processed)
      <3> DEFINE n == Len(ctx[d].processed)
      <3>1. cut[d] \in Nat /\ n \in Nat /\ cut[d] <= n
        BY <1>2
      <3> HIDE DEF n
      <3>2. i \in 1..n
        BY <3>1
      <3> QED
        BY <3>2 DEF n
    <2>3. ASSUME NEW d \in LPs, NEW i \in 1..cut[d]
          PROVE  \E j \in 1..Len(new[lpToRank[d]]) :
                     new[lpToRank[d]][j] = ctx[d].processed[i].ev
      BY <1>1, <2>1 DEF Commits
    <2>4. /\ \A r \in Ranks : \A j \in 1..Len(new[r]) : \E d \in LPs : \E i \in 1..cut[d] :
                lpToRank[d] = r /\ new[r][j] = ctx[d].processed[i].ev
          /\ \A r \in Ranks : \A i, j \in 1..Len(new[r]) : new[r][i] = new[r][j] => i = j
      BY <1>1 DEF Commits
    <2> QED
      BY <2>2, <2>3, <2>4
  <1>4. /\ \A d \in LPs : \A i \in 1..Len(ctx'[d].processed) :
              /\ i + cut[d] \in 1..Len(ctx[d].processed) /\ i + cut[d] \notin 1..cut[d]
              /\ ctx'[d].processed[i] = ctx[d].processed[i + cut[d]]
        /\ \A d \in LPs : \A i \in 1..Len(ctx[d].processed) : i \notin 1..cut[d] =>
              i - cut[d] \in 1..Len(ctx'[d].processed) /\ i = (i - cut[d]) + cut[d]
        /\ \A d \in LPs : \A i, j \in 1..Len(ctx'[d].processed) :
              i + cut[d] = j + cut[d] => i = j
    <2>1. ASSUME NEW d \in LPs, NEW i \in 1..Len(ctx'[d].processed)
          PROVE  /\ i + cut[d] \in 1..Len(ctx[d].processed) /\ i + cut[d] \notin 1..cut[d]
                 /\ ctx'[d].processed[i] = ctx[d].processed[i + cut[d]]
      <3> DEFINE n == Len(ctx[d].processed)
                 k == Len(ctx'[d].processed)
                 p == cut[d]
      <3>1. p \in Nat /\ n \in Nat /\ p <= n /\ k = n - p /\ i \in 1..k
        BY <1>2
      <3>2. ctx'[d].processed[i] = ctx[d].processed[i + p]
        BY <1>2
      <3> HIDE DEF n, k, p
      <3>3. i + p \in 1..n /\ i + p \notin 1..p
        BY <3>1
      <3> QED
        BY <3>2, <3>3 DEF n, p
    <2>2. ASSUME NEW d \in LPs, NEW i \in 1..Len(ctx[d].processed), i \notin 1..cut[d]
          PROVE  i - cut[d] \in 1..Len(ctx'[d].processed) /\ i = (i - cut[d]) + cut[d]
      <3> DEFINE n == Len(ctx[d].processed)
                 k == Len(ctx'[d].processed)
                 p == cut[d]
      <3>1. p \in Nat /\ n \in Nat /\ p <= n /\ k = n - p /\ i \in 1..n /\ i \notin 1..p
        BY <1>2, <2>2
      <3> HIDE DEF n, k, p
      <3>2. i - p \in 1..k /\ i = (i - p) + p
        BY <3>1
      <3> QED
        BY <3>2 DEF k, p
    <2>3. ASSUME NEW d \in LPs, NEW i \in 1..Len(ctx'[d].processed),
                 NEW j \in 1..Len(ctx'[d].processed), i + cut[d] = j + cut[d]
          PROVE  i = j
      <3>1. cut[d] \in Nat
        BY <1>2
      <3> QED
        BY <2>3, <3>1
    <2> QED
      BY <2>1, <2>2, <2>3
  <1>5. net' = net /\ \A r \in Ranks : pending'[r] \subseteq pending[r]
    BY DEF Settles
  <1>6. \A r \in Ranks : \A e \in pending[r] : IsEvent(e, l, uid) => e \in pending'[r]
    <2> SUFFICES ASSUME NEW r \in Ranks, NEW e \in pending[r], IsEvent(e, l, uid),
                        e \notin pending'[r]
                 PROVE  FALSE
      OBVIOUS
    <2>1. Gone(e.src, e.uid)
      BY StandingNotSkipped DEF Settles
    <2> QED
      BY <2>1 DEF IsEvent, Gone
  <1>7. \A r \in Ranks : \A i \in 1..Len(trace'[r]) :
           \/ i \in 1..Len(trace[r]) /\ trace'[r][i] = trace[r][i]
           \/ \E j \in 1..Len(new[r]) : /\ i = Len(trace[r]) + j
                                        /\ trace'[r][i] = new[r][j]
    <2> TAKE r \in Ranks
    <2>1. InARow(trace[r], new[r], trace'[r])
      BY <1>1, TraceAfter
    <2> TAKE i \in 1..Len(trace'[r])
    <2>2. CASE i \in 1..Len(trace[r])
      BY <2>1, <2>2 DEF InARow
    <2>3. CASE \E j \in 1..Len(new[r]) : i = Len(trace[r]) + j
      <3>1. PICK j \in 1..Len(new[r]) : i = Len(trace[r]) + j
        BY <2>3
      <3>2. trace'[r][i] = new[r][j]
        BY <2>1, <3>1 DEF InARow
      <3> QED
        BY <3>1, <3>2
    <2> QED
      BY <2>1, <2>2, <2>3 DEF InARow
  <1>8. \A r \in Ranks : \A i \in 1..Len(trace[r]) :
           i \in 1..Len(trace'[r]) /\ trace'[r][i] = trace[r][i]
    <2> TAKE r \in Ranks
    <2>1. InARow(trace[r], new[r], trace'[r])
      BY <1>1, TraceAfter
    <2> QED
      BY <2>1 DEF InARow
  <1>9. /\ NotSent(l, uid) => NotSent(l, uid)'
        /\ NotQueued(l, uid) => NotQueued(l, uid)'
        /\ NotRecorded(l, uid) => NotRecorded(l, uid)'
    <2>1. NotSent(l, uid) => NotSent(l, uid)'
      BY <1>5 DEF NotSent
    <2>2. NotQueued(l, uid) => NotQueued(l, uid)'
      BY <1>5 DEF NotQueued
    <2>3. ASSUME NotRecorded(l, uid), NEW b \in LPs, NEW j \in 1..Len(ctx'[b].processed)
          PROVE  ~ IsEvent(ctx'[b].processed[j].ev, l, uid)
      <3>1. /\ j + cut[b] \in 1..Len(ctx[b].processed)
            /\ ctx'[b].processed[j] = ctx[b].processed[j + cut[b]]
        BY <1>4
      <3> QED
        BY <2>3, <3>1 DEF NotRecorded
    <2>4. NotRecorded(l, uid) => NotRecorded(l, uid)'
      BY <2>3 DEF NotRecorded
    <2> QED
      BY <2>1, <2>2, <2>4
  <1>10. NotRecorded(l, uid) => \A r \in Ranks : \A j \in 1..Len(new[r]) :
            ~ IsEvent(new[r][j], l, uid)
    BY <1>3 DEF NotRecorded
  <1>11. NotRecorded(l, uid) /\ NotCommitted(l, uid) => NotCommitted(l, uid)'
    BY <1>7, <1>10 DEF NotCommitted
  <1>12. CASE OnlySent(l, uid)
    <2>1. \E m \in net' : SentAs(l, uid, m)'
      BY <1>5, <1>12 DEF OnlySent, SentAs
    <2> QED
      BY <1>9, <1>11, <1>12, <2>1 DEF Once, OnlySent
  <1>13. CASE OnlyQueued(l, uid)
    <2>1. PICK r \in Ranks : \E e \in pending[r] : QueuedAs(l, uid, r, e)
      BY <1>13 DEF OnlyQueued
    <2>2. PICK e \in pending[r] : QueuedAs(l, uid, r, e)
      BY <2>1
    <2>3. QueuedAs(l, uid, r, e)' /\ e \in pending'[r]
      BY <1>5, <1>6, <2>2 DEF QueuedAs
    <2> QED
      BY <1>9, <1>11, <1>13, <2>3 DEF Once, OnlyQueued
  <1>14. CASE OnlyCommitted(l, uid)
    <2>1. PICK r \in Ranks : \E i \in 1..Len(trace[r]) : CommittedAs(l, uid, r, i)
      BY <1>14 DEF OnlyCommitted
    <2>2. PICK i \in 1..Len(trace[r]) : CommittedAs(l, uid, r, i)
      BY <2>1
    <2>3. i \in 1..Len(trace'[r]) /\ IsEvent(trace'[r][i], l, uid)
      BY <1>8, <2>2 DEF CommittedAs
    <2>4. ASSUME NEW q \in Ranks, NEW j \in 1..Len(trace'[q]),
                 IsEvent(trace'[q][j], l, uid)
          PROVE  q = r /\ j = i
      <3>1. \A k \in 1..Len(new[q]) : ~ IsEvent(new[q][k], l, uid)
        BY <1>10, <1>14 DEF OnlyCommitted
      <3>2. j \in 1..Len(trace[q]) /\ trace'[q][j] = trace[q][j]
        BY <1>7, <2>4, <3>1
      <3> QED
        BY <2>2, <2>4, <3>2 DEF CommittedAs
    <2>5. CommittedAs(l, uid, r, i)'
      BY <2>3, <2>4 DEF CommittedAs
    <2> QED
      BY <1>9, <1>14, <2>3, <2>5 DEF Once, OnlyCommitted
  <1>15. CASE OnlyRecorded(l, uid)
    <2>1. PICK d \in LPs : \E i \in 1..Len(ctx[d].processed) : RecordedAs(l, uid, d, i)
      BY <1>15 DEF OnlyRecorded
    <2>2. PICK i \in 1..Len(ctx[d].processed) : RecordedAs(l, uid, d, i)
      BY <2>1
    <2>3. /\ NotSent(l, uid)' /\ NotQueued(l, uid)' /\ NotCommitted(l, uid)
      BY <1>9, <1>15 DEF OnlyRecorded
    <2>4. \A b \in LPs : \A j \in 1..Len(ctx'[b].processed) :
             IsEvent(ctx'[b].processed[j].ev, l, uid) => b = d /\ j + cut[d] = i
      <3> SUFFICES ASSUME NEW b \in LPs, NEW j \in 1..Len(ctx'[b].processed),
                          IsEvent(ctx'[b].processed[j].ev, l, uid)
                   PROVE  b = d /\ j + cut[d] = i
        OBVIOUS
      <3>1. /\ j + cut[b] \in 1..Len(ctx[b].processed)
            /\ ctx'[b].processed[j] = ctx[b].processed[j + cut[b]]
        BY <1>4
      <3>2. b = d /\ j + cut[b] = i
        BY <2>2, <3>1 DEF RecordedAs
      <3> QED
        BY <3>2
    <2>5. \A r \in Ranks : \A j \in 1..Len(new[r]) : IsEvent(new[r][j], l, uid) =>
             /\ i \in 1..cut[d] /\ r = lpToRank[d]
             /\ new[r][j] = ctx[d].processed[i].ev
      <3> SUFFICES ASSUME NEW r \in Ranks, NEW j \in 1..Len(new[r]),
                          IsEvent(new[r][j], l, uid)
                   PROVE  /\ i \in 1..cut[d] /\ r = lpToRank[d]
                          /\ new[r][j] = ctx[d].processed[i].ev
        OBVIOUS
      <3>1. PICK b \in LPs : \E k \in 1..cut[b] :
                lpToRank[b] = r /\ new[r][j] = ctx[b].processed[k].ev
        BY <1>3
      <3>2. PICK k \in 1..cut[b] : lpToRank[b] = r /\ new[r][j] = ctx[b].processed[k].ev
        BY <3>1
      <3>3. k \in 1..Len(ctx[b].processed)
        BY <1>3
      <3>4. b = d /\ k = i
        BY <2>2, <3>2, <3>3 DEF RecordedAs
      <3> QED
        BY <3>2, <3>4
    <2>6. CASE i \in 1..cut[d]
      <3> DEFINE q == lpToRank[d]
      <3>1. q \in Ranks
        BY KernelAssumption
      <3>2. PICK j \in 1..Len(new[q]) : new[q][j] = ctx[d].processed[i].ev
        BY <1>3, <2>6
      <3> DEFINE n == Len(trace[q]) + j
      <3>3. n \in 1..Len(trace'[q]) /\ trace'[q][n] = new[q][j]
        <4>1. InARow(trace[q], new[q], trace'[q])
          BY <1>1, <3>1, TraceAfter
        <4> QED
          BY <4>1 DEF InARow
      <3>4. IsEvent(trace'[q][n], l, uid)
        BY <2>2, <3>2, <3>3 DEF RecordedAs
      <3>5. ASSUME NEW r \in Ranks, NEW m \in 1..Len(trace'[r]),
                   IsEvent(trace'[r][m], l, uid)
            PROVE  r = q /\ m = n
        <4>1. PICK p \in 1..Len(new[r]) : /\ m = Len(trace[r]) + p
                                          /\ trace'[r][m] = new[r][p]
          BY <1>7, <2>3, <3>5 DEF NotCommitted
        <4>2. r = q /\ new[r][p] = new[q][j]
          BY <2>5, <3>2, <3>5, <4>1
        <4> QED
          BY <1>3, <3>1, <4>1, <4>2
      <3>6. PICK x : x = n
        OBVIOUS
      <3>7. CommittedAs(l, uid, q, x)' /\ x \in 1..Len(trace'[q])
        BY <3>3, <3>4, <3>5, <3>6 DEF CommittedAs
      <3>8. NotRecorded(l, uid)'
        BY <1>4, <2>4, <2>6 DEF NotRecorded
      <3> QED
        BY <2>3, <3>1, <3>7, <3>8 DEF Once, OnlyCommitted
    <2>7. CASE i \notin 1..cut[d]
      <3>1. PICK j : j = i - cut[d]
        OBVIOUS
      <3>2. j \in 1..Len(ctx'[d].processed) /\ i = j + cut[d]
        BY <1>4, <2>7, <3>1
      <3>3. RecordedAs(l, uid, d, j)'
        BY <1>4, <2>2, <2>4, <3>2 DEF RecordedAs
      <3>4. NotCommitted(l, uid)'
        BY <1>7, <2>3, <2>5, <2>7 DEF NotCommitted
      <3> QED
        BY <2>3, <3>2, <3>3, <3>4 DEF Once, OnlyRecorded
    <2> QED
      BY <2>6, <2>7
  <1> QED
    BY <1>12, <1>13, <1>14, <1>15 DEF Once

\* A message received is in the queue and no longer on its way.
LEMMA PollOnce ==
    ASSUME TypeOK, NEW r \in Ranks, NEW m \in net, net' = net \ {m},
           pending' = [pending EXCEPT ![r] = @ \cup {m.ev}],
           UNCHANGED <<ctx, trace>>, NEW l, NEW uid, Once(l, uid)
    PROVE  Once(l, uid)'
  <1>1. /\ pending'[r] = pending[r] \cup {m.ev}
        /\ \A q \in Ranks : q # r => pending'[q] = pending[q]
    BY DEF TypeOK
  <1>2. /\ NotSent(l, uid) => NotSent(l, uid)'
        /\ NotRecorded(l, uid) => NotRecorded(l, uid)'
        /\ NotCommitted(l, uid) => NotCommitted(l, uid)'
    BY DEF NotSent, NotRecorded, NotCommitted
  <1>3. CASE ~ IsEvent(m.ev, l, uid)
    <2>1. /\ \A q \in Ranks : \A e \in pending'[q] : IsEvent(e, l, uid) => e \in pending[q]
          /\ \A q \in Ranks : pending[q] \subseteq pending'[q]
      BY <1>1, <1>3
    <2>2. NotQueued(l, uid) => NotQueued(l, uid)'
      BY <2>1 DEF NotQueued
    <2>3. ASSUME OnlySent(l, uid)
          PROVE  OnlySent(l, uid)'
      <3>1. PICK n \in net : SentAs(l, uid, n)
        BY <2>3 DEF OnlySent
      <3>2. n \in net' /\ SentAs(l, uid, n)'
        BY <1>3, <3>1 DEF SentAs
      <3> QED
        BY <1>2, <2>2, <2>3, <3>2 DEF OnlySent
    <2>4. ASSUME OnlyQueued(l, uid)
          PROVE  OnlyQueued(l, uid)'
      <3>1. PICK q \in Ranks : \E e \in pending[q] : QueuedAs(l, uid, q, e)
        BY <2>4 DEF OnlyQueued
      <3>2. PICK e \in pending[q] : QueuedAs(l, uid, q, e)
        BY <3>1
      <3>3. e \in pending'[q] /\ QueuedAs(l, uid, q, e)'
        BY <2>1, <3>2 DEF QueuedAs
      <3> QED
        BY <1>2, <2>4, <3>3 DEF OnlyQueued
    <2>5. ASSUME OnlyRecorded(l, uid)
          PROVE  OnlyRecorded(l, uid)'
      BY <1>2, <2>2, <2>5 DEF OnlyRecorded, RecordedAs
    <2>6. ASSUME OnlyCommitted(l, uid)
          PROVE  OnlyCommitted(l, uid)'
      BY <1>2, <2>2, <2>6 DEF OnlyCommitted, CommittedAs
    <2> QED
      BY <2>3, <2>4, <2>5, <2>6 DEF Once
  <1>4. CASE IsEvent(m.ev, l, uid)
    <2>1. OnlySent(l, uid)
      BY <1>4 DEF Once, OnlyQueued, OnlyRecorded, OnlyCommitted, NotSent
    <2>2. \A n \in net : IsEvent(n.ev, l, uid) => n = m
      BY <1>4, <2>1 DEF OnlySent, SentAs
    <2>3. NotSent(l, uid)'
      BY <2>2 DEF NotSent
    <2>4. \A q \in Ranks : \A e \in pending'[q] : IsEvent(e, l, uid) => q = r /\ e = m.ev
      BY <1>1, <2>1 DEF OnlySent, NotQueued
    <2>5. PICK e : e = m.ev
      OBVIOUS
    <2>6. e \in pending'[r] /\ QueuedAs(l, uid, r, e)'
      BY <1>1, <1>4, <2>4, <2>5 DEF QueuedAs
    <2> QED
      BY <1>2, <2>1, <2>3, <2>6 DEF Once, OnlyQueued, OnlySent
  <1> QED
    BY <1>3, <1>4

\* An event does not come before itself.
LEMMA NotBeforeItself ==
    ASSUME NEW e \in Event
    PROVE  ~ PendingBefore(e, e)
  <1> DEFINE k == PendingKey(e)
  <1>1. e.ts \in Stamp /\ e.src \in Int /\ e.uid \in Int
    BY EventFields, LpNumbers
  <1>2. e.ts.time \in Int /\ e.ts.sequence \in Int
    BY <1>1, StampNumbers
  <1>3. DOMAIN k = 1..4 /\ k[1] \in Int /\ k[2] \in Int /\ k[3] \in Int /\ k[4] \in Int
    BY <1>1, <1>2 DEF PendingKey
  <1> HIDE DEF k
  <1>4. \A i \in 1..4 : k[i] \in Int
    BY <1>3
  <1>5. ~ LexLt(k, k)
    BY <1>3, <1>4 DEF LexLt
  <1> QED
    BY <1>5 DEF PendingBefore, k

\* Pruning drops no event and adds no tombstone.
LEMMA PruneSettles ==
    ASSUME TypeOK, TraceFits, NEW R \in SUBSET Ranks, NEW gvt \in Stamp,
           Prune(R, gvt)
    PROVE  /\ \E cut, new : Commits(cut, new)
           /\ \A r \in Ranks : cancelled'[r] \subseteq cancelled[r]
  <1>1. \E cut, new : Commits(cut, new)
    BY PruneCommits
  <1>2. \A r \in Ranks : cancelled'[r] \subseteq cancelled[r]
    BY DEF Prune
  <1> QED
    BY <1>1, <1>2

\* peek_next_pending_ts_ drops only events that have a tombstone.
LEMMA PeekSettles ==
    ASSUME TypeOK, PeekAll
    PROVE  \A r \in Ranks :
              /\ pending'[r] \subseteq pending[r]
              /\ \A e \in pending[r] \ pending'[r] : IsTombstoned(cancelled[r], e)
  <1> TAKE r \in Ranks
  <1>1. pending'[r] = Peeked(r)
    BY DEF PeekAll
  <1>2. \A e \in pending[r] : ~ PendingBefore(e, e)
    BY NotBeforeItself DEF TypeOK
  <1> QED
    BY <1>1, <1>2 DEF Peeked

\* Every step other than the dispatch of a message, Start and the arrival of
\* a message only drops cancelled events and commits.
LEMMA SettleSteps ==
    ASSUME TypeOK, TraceFits,
           \/ \E r \in Ranks : PollAck(r) \/ DispatchNothing(r) \/ FossilCollect(r)
           \/ Collective \/ UNCHANGED vars
    PROVE  Settles
  <1>1. ASSUME pending' = pending
        PROVE  \A r \in Ranks :
                  /\ pending'[r] \subseteq pending[r]
                  /\ \A e \in pending[r] \ pending'[r] : IsTombstoned(cancelled[r], e)
    BY <1>1
  <1>2. ASSUME UNCHANGED <<pending, net, ctx, cancelled, trace>>
        PROVE  Settles
    <2>1. \E cut, new : Commits(cut, new)
      BY <1>2, NoCommits
    <2> QED
      BY <1>2, <2>1 DEF Settles
  <1>3. ASSUME NEW r \in Ranks, DispatchNothing(r)
        PROVE  Settles
    <2>1. /\ \A e \in pending[r] : Skipped(r, e)
          /\ pending' = [pending EXCEPT ![r] = {}]
          /\ UNCHANGED <<net, ctx, cancelled, trace>>
      BY <1>3 DEF DispatchNothing
    <2>2. \E cut, new : Commits(cut, new)
      BY <2>1, NoCommits
    <2>3. /\ pending'[r] = {}
          /\ \A q \in Ranks : q # r => pending'[q] = pending[q]
      BY <2>1 DEF TypeOK
    <2>4. \A e \in pending[r] : IsTombstoned(cancelled[r], e)
      BY <2>1 DEF Skipped
    <2> QED
      BY <2>1, <2>2, <2>3, <2>4 DEF Settles
  <1>4. ASSUME NEW r \in Ranks, FossilCollect(r)
        PROVE  Settles
    <2>1. Prune({r}, lastGvt) /\ lastGvt \in Stamp /\ UNCHANGED <<pending, net>>
      BY <1>4 DEF FossilCollect, TypeOK
    <2> QED
      BY <1>1, <2>1, PruneSettles DEF Settles
  <1>5. CASE AckGvt \/ ColouredGvt
    <2>1. PICK gvt \in Stamp : Adopt(gvt)
      BY <1>5, GvtType DEF AckGvt, ColouredGvt
    <2>2. PeekAll /\ net' = net
      BY <1>5 DEF AckGvt, ColouredGvt
    <2>3. \A r \in Ranks :
             /\ pending'[r] \subseteq pending[r]
             /\ \A e \in pending[r] \ pending'[r] : IsTombstoned(cancelled[r], e)
      BY <2>2, PeekSettles
    <2>4. CASE Lt(gvt, lastGvt)
      <3>1. UNCHANGED <<ctx, cancelled, trace>>
        BY <2>1, <2>4 DEF Adopt
      <3>2. \E cut, new : Commits(cut, new)
        BY <3>1, NoCommits
      <3> QED
        BY <2>2, <2>3, <3>1, <3>2 DEF Settles
    <2>5. CASE ~ Lt(gvt, lastGvt)
      <3>1. Prune(Ranks, gvt)
        BY <2>1, <2>5 DEF Adopt
      <3>2. /\ \E cut, new : Commits(cut, new)
            /\ \A r \in Ranks : cancelled'[r] \subseteq cancelled[r]
        BY <3>1, PruneSettles
      <3> QED
        BY <2>2, <2>3, <3>2 DEF Settles
    <2> QED
      BY <2>4, <2>5
  <1>6. CASE ColouredFlip \/ ColouredWait \/ KeepRunning \/ UNCHANGED vars
    <2>1. UNCHANGED <<pending, net, ctx, cancelled, trace>>
      BY <1>6 DEF ColouredFlip, ColouredWait, KeepRunning, vars
    <2> QED
      BY <1>2, <2>1
  <1>7. CASE Finalize
    <2>1. Prune(Ranks, MaxStamp) /\ MaxStamp \in Stamp /\ UNCHANGED <<pending, net>>
      BY <1>7, StampConstants DEF Finalize
    <2> QED
      BY <1>1, <2>1, PruneSettles DEF Settles
  <1>8. ASSUME NEW r \in Ranks, PollAck(r)
        PROVE  Settles
    BY <1>2, <1>8 DEF PollAck
  <1> QED
    BY <1>3, <1>4, <1>5, <1>6, <1>7, <1>8 DEF Collective

-----------------------------------------------------------------------------
(***************************************************************************)
(* Every step keeps the invariant.                                         *)
(***************************************************************************)
\* A message arrives.
Receives ==
    \E r \in Ranks : \E m \in net :
        /\ net' = net \ {m}
        /\ pending' = [pending EXCEPT ![r] = @ \cup {m.ev}]
        /\ UNCHANGED <<ctx, cancelled, trace>>

\* A rank seeds its work.
Seeds ==
    \E r \in Ranks : \E out :
        /\ SendingStep(r, pending[r], out)
        /\ \A l \in LPs : ctx'[l].processed = ctx[l].processed
        /\ UNCHANGED <<cancelled, trace>>

\* A rank dispatches an event or anti-message.
Handles == \E r \in Ranks : \E queue, out : SendingStep(r, queue, out) /\ Dispatches(r, queue)

\* The kinds of steps there are.
LEMMA StepKinds ==
    ASSUME TypeOK, ProcessedInOrder, MessageInv, TraceFits, [Next]_vars
    PROVE  (QuietStep /\ (Settles \/ Receives)) \/ Seeds \/ Handles
  <1>1. OneEventPerUid /\ Placed
    BY DEF MessageInv
  <1>2. ASSUME NEW r \in Ranks, Start(r)
        PROVE  Seeds
    <2>1. /\ \E out : SendingStep(r, pending[r], out)
          /\ \A l \in LPs : ctx'[l].processed = ctx[l].processed
      BY <1>1, <1>2, StartSends
    <2>2. UNCHANGED <<cancelled, trace>>
      BY <1>2 DEF Start
    <2> QED
      BY <2>1, <2>2 DEF Seeds
  <1>3. ASSUME NEW r \in Ranks,
               DispatchStraggler(r) \/ DispatchAnti(r) \/ DispatchEvent(r)
        PROVE  Handles
    BY <1>1, <1>3, StragglerSends, AntiSends, EventSends DEF Handles
  <1>4. ASSUME NEW r \in Ranks, PollEvent(r)
        PROVE  QuietStep /\ Receives
    <2>1. Receives
      BY <1>4 DEF PollEvent, Receives
    <2> QED
      BY <1>1, <1>4, <2>1, QuietSteps
  <1>5. CASE \/ \E r \in Ranks : PollAck(r) \/ DispatchNothing(r) \/ FossilCollect(r)
             \/ Collective \/ UNCHANGED vars
    BY <1>1, <1>5, QuietSteps, SettleSteps
  <1> QED
    BY <1>2, <1>3, <1>4, <1>5 DEF Next, RankStep, Terminated

\* A log entry's uid is in use.
LEMMA EntryUid ==
    ASSUME TypeOK, OneEventPerUid, NEW l \in LPs, NEW s \in Entries(ctx[l])
    PROVE  /\ s.uid \in Nat /\ s.uid < ctx[l].nextUid
           /\ s.uid \in StandingUids(ctx[l])
  BY EntryInOrder DEF TypeOK, OneEventPerUid, StandingUids

\* What stands for an event after a quiet step stood for it before.
LEMMA QuietEntries ==
    ASSUME QuietStep, NEW l \in LPs, NEW s \in Entries(ctx'[l])
    PROVE  s \in Entries(ctx[l])
  <1>1. LogStep(l, ctx[l], ctx'[l], {})
    BY DEF QuietStep
  <1> QED
    BY <1>1 DEF LogStep

\* Events that stand exist once after every step.
LEMMA EntriesStep ==
    ASSUME TypeOK, ProcessedInOrder, MessageInv, DeliveryInv, [Next]_vars
    PROVE  EntriesOnce'
  <1>1. OneEventPerUid /\ EntriesOnce /\ TombstonesFit /\ TraceFits
    BY DEF MessageInv, DeliveryInv
  <1>2. CASE QuietStep /\ Settles
    <2> SUFFICES ASSUME NEW l \in LPs, NEW s \in Entries(ctx'[l])
                 PROVE  Once(l, s.uid)'
      BY DEF EntriesOnce
    <2>1. s \in Entries(ctx[l])
      BY <1>2, QuietEntries
    <2>2. PICK uid \in StandingUids(ctx[l]) : uid = s.uid
      BY <1>1, <2>1, EntryUid
    <2>3. Once(l, uid)
      BY <1>1, <2>1, <2>2 DEF EntriesOnce
    <2>4. Once(l, uid)'
      BY <1>1, <1>2, <2>3, SettleOnce
    <2> QED
      BY <2>2, <2>4
  <1>3. CASE QuietStep /\ Receives
    <2> SUFFICES ASSUME NEW l \in LPs, NEW s \in Entries(ctx'[l])
                 PROVE  Once(l, s.uid)'
      BY DEF EntriesOnce
    <2>1. s \in Entries(ctx[l])
      BY <1>3, QuietEntries
    <2>2. PICK uid : uid = s.uid
      OBVIOUS
    <2>3. Once(l, uid)
      BY <1>1, <2>1, <2>2 DEF EntriesOnce
    <2>4. Once(l, uid)'
      BY <1>3, <2>3, PollOnce DEF Receives
    <2> QED
      BY <2>2, <2>4
  <1>4. ASSUME NEW r \in Ranks, NEW out, SendingStep(r, pending[r], out),
               \A l \in LPs : ctx'[l].processed = ctx[l].processed, trace' = trace
        PROVE  EntriesOnce'
    <2>1. ASSUME NEW l \in LPs, NEW s \in Entries(ctx[l])
          PROVE  Once(l, s.uid)'
      <3>1. PICK uid \in Nat : uid = s.uid /\ uid < ctx[l].nextUid
        BY <1>1, EntryUid
      <3>2. Once(l, uid)
        BY <1>1, <3>1 DEF EntriesOnce
      <3>3. Once(l, uid)'
        BY <1>4, <3>1, <3>2, SeedOnce
      <3> QED
        BY <3>1, <3>3
    <2> QED
      BY <1>1, <1>4, <2>1, EntriesSent
  <1>5. ASSUME NEW r \in Ranks, NEW queue, NEW out, SendingStep(r, queue, out),
               Dispatches(r, queue)
        PROVE  EntriesOnce'
    <2>1. ASSUME NEW l \in LPs, NEW s \in Entries(ctx[l])
          PROVE  Once(l, s.uid)'
      <3>1. PICK uid \in Nat : /\ uid = s.uid /\ uid < ctx[l].nextUid
                               /\ uid \in StandingUids(ctx[l])
        BY <1>1, EntryUid
      <3>2. Once(l, uid)
        BY <1>1, <3>1 DEF EntriesOnce
      <3>3. Once(l, uid)'
        BY <1>1, <1>5, <3>1, <3>2, DispatchOnce
      <3> QED
        BY <3>1, <3>3
    <2>2. trace' = trace
      BY <1>5 DEF Dispatches, DispatchOf
    <2> QED
      BY <1>1, <1>5, <2>1, <2>2, EntriesSent
  <1> QED
    BY <1>1, <1>2, <1>3, <1>4, <1>5, StepKinds DEF Seeds, Handles

\* Records have no other tombstones after a quiet step or when a rank starts.
LEMMA SameTombstones ==
    ASSUME TypeOK, TombstonesFit, LogsStep,
           \A l \in LPs : \A i \in 1..Len(ctx'[l].processed) :
              \E j \in 1..Len(ctx[l].processed) :
                 ctx'[l].processed[i].cancelPrev = ctx[l].processed[j].cancelPrev,
           \A r \in Ranks : cancelled'[r] \subseteq cancelled[r]
    PROVE  TombstonesFit'
  <1>1. ASSUME NEW t, t.src \in LPs, t.uid \in Nat, Gone(t.src, t.uid)
        PROVE  Gone(t.src, t.uid)'
    BY <1>1, GoneStays DEF Gone
  <1>2. ASSUME NEW r \in Ranks, NEW t \in cancelled'[r]
        PROVE  Gone(t.src, t.uid)'
    BY <1>1, TombstoneFields DEF TombstonesFit
  <1>3. ASSUME NEW l \in LPs, NEW i \in 1..Len(ctx'[l].processed),
               NEW t \in ctx'[l].processed[i].cancelPrev
        PROVE  Gone(t.src, t.uid)'
    <2>1. PICK j \in 1..Len(ctx[l].processed) : t \in ctx[l].processed[j].cancelPrev
      OBVIOUS
    <2> QED
      BY <1>1, <2>1, TombstoneFields DEF TombstonesFit
  <1> QED
    BY <1>2, <1>3 DEF TombstonesFit

\* The dispatch of an anti-message adds a tombstone for an event that is gone.
LEMMA DispatchTombstones ==
    ASSUME TypeOK, OneEventPerUid, TombstonesFit, LogsStep,
           NEW r \in Ranks, NEW queue, Dispatches(r, queue)
    PROVE  TombstonesFit'
  <1>1. PICK ev \in pending[r], rest \in SUBSET pending[r], k \in Nat :
           DispatchOf(r, ev, rest, k, queue)
    BY DEF Dispatches
  <1>2. ev \in Copies
    BY InCopies DEF Copies
  <1>3. ASSUME NEW t, t.src \in LPs, t.uid \in Nat, Gone(t.src, t.uid)
        PROVE  Gone(t.src, t.uid)'
    BY <1>3, GoneStays DEF Gone
  <1>4. ev.dst \in LPs
    BY EventFields DEF TypeOK
  <1>5. ASSUME NEW q \in Ranks, NEW t \in cancelled'[q]
        PROVE  Gone(t.src, t.uid)'
    <2>1. CASE t \in cancelled[q]
      BY <1>3, <2>1, TombstoneFields DEF TombstonesFit
    <2>2. CASE ev.anti /\ SameUid(t, ev)
      BY <1>2, <1>3, <2>2, CopyGone DEF SameUid
    <2>3. ASSUME NEW i \in 1..Len(ctx[ev.dst].processed),
                 t \in ctx[ev.dst].processed[i].cancelPrev
          PROVE  Gone(t.src, t.uid)'
      BY <1>3, <1>4, <2>3, TombstoneFields DEF TombstonesFit
    <2> QED
      BY <1>1, <2>1, <2>2, <2>3 DEF DispatchOf, TombstonesFrom
  <1>6. ASSUME NEW l \in LPs, NEW i \in 1..Len(ctx'[l].processed),
               NEW t \in ctx'[l].processed[i].cancelPrev
        PROVE  Gone(t.src, t.uid)'
    <2>1. CASE \E j \in 1..Len(ctx[l].processed) : t \in ctx[l].processed[j].cancelPrev
      BY <1>3, <2>1, TombstoneFields DEF TombstonesFit
    <2>2. CASE t \in cancelled[r]
      BY <1>3, <2>2, TombstoneFields DEF TombstonesFit
    <2>3. CASE l # ev.dst
      <3>1. ctx'[l].processed = ctx[l].processed
        BY <1>1, <2>3 DEF DispatchOf
      <3> QED
        BY <2>1, <3>1
    <2>4. CASE l = ev.dst /\ i \in 1..k
      <3>1. k \in 0..Len(ctx[l].processed) /\ ctx'[l].processed[i] = ctx[l].processed[i]
        BY <1>1, <2>4 DEF DispatchOf, BackInQueue
      <3>2. Len(ctx[l].processed) \in Nat
        BY DEF TypeOK, LPContext
      <3>3. i \in 1..Len(ctx[l].processed)
        BY <2>4, <3>1, <3>2
      <3> QED
        BY <2>1, <3>1, <3>3
    <2>5. CASE l = ev.dst /\ i \notin 1..k
      <3>1. \/ Len(ctx'[l].processed) = k
            \/ /\ Len(ctx'[l].processed) = k + 1
               /\ ctx'[l].processed[k + 1].cancelPrev \subseteq cancelled[r]
        BY <1>1, <2>5 DEF DispatchOf
      <3>2. i = k + 1 /\ ctx'[l].processed[k + 1].cancelPrev \subseteq cancelled[r]
        BY <2>5, <3>1
      <3> QED
        BY <2>2, <3>2
    <2> QED
      BY <2>3, <2>4, <2>5
  <1> QED
    BY <1>5, <1>6 DEF TombstonesFit

\* Tombstones are for events that are gone, after every step.
LEMMA TombstonesStep ==
    ASSUME TypeOK, ProcessedInOrder, MessageInv, DeliveryInv, [Next]_vars
    PROVE  TombstonesFit'
  <1>1. OneEventPerUid /\ Placed /\ TombstonesFit /\ TraceFits
    BY DEF MessageInv, DeliveryInv
  <1>2. LogsStep
    BY <1>1, LogsStepHolds
  <1>3. CASE QuietStep /\ (Settles \/ Receives)
    <2>1. \A l \in LPs : \A i \in 1..Len(ctx'[l].processed) :
             \E j \in 1..Len(ctx[l].processed) :
                 ctx'[l].processed[i].cancelPrev = ctx[l].processed[j].cancelPrev
      BY <1>3 DEF QuietStep, NoNewRecords
    <2>2. \A r \in Ranks : cancelled'[r] \subseteq cancelled[r]
      BY <1>3 DEF Settles, Receives
    <2> QED
      BY <1>1, <1>2, <2>1, <2>2, SameTombstones
  <1>4. CASE Seeds
    <2>1. /\ \A l \in LPs : ctx'[l].processed = ctx[l].processed
          /\ \A r \in Ranks : cancelled'[r] \subseteq cancelled[r]
      BY <1>4 DEF Seeds
    <2> QED
      BY <1>1, <1>2, <2>1, SameTombstones
  <1>5. CASE Handles
    BY <1>1, <1>2, <1>5, DispatchTombstones DEF Handles
  <1> QED
    BY <1>1, <1>3, <1>4, <1>5, StepKinds

\* An event of the trace, when it was there before or was a copy.
LEMMA TraceEntry ==
    ASSUME TypeOK, OneEventPerUid, LogsStep, NEW e \in Event,
           UsedUp(e) \/ e \in Copies
    PROVE  UsedUp(e)'
  <1>1. /\ e.src \in LPs /\ e.uid \in Nat
        /\ e.uid < ctx[e.src].nextUid /\ (e.anti => Gone(e.src, e.uid))
    BY CopyGone, EventFields DEF UsedUp
  <1>2. /\ e.uid < ctx'[e.src].nextUid
        /\ Gone(e.src, e.uid) => Gone(e.src, e.uid)'
    BY <1>1, GoneStays
  <1> QED
    BY <1>1, <1>2 DEF UsedUp

\* What is committed fits, after every step.
LEMMA TraceStep ==
    ASSUME TypeOK, ProcessedInOrder, MessageInv, DeliveryInv, [Next]_vars
    PROVE  TraceFits'
  <1>1. OneEventPerUid /\ Placed /\ TraceFits
    BY DEF MessageInv, DeliveryInv
  <1>2. LogsStep
    BY <1>1, LogsStepHolds
  <1>3. \A r \in Ranks : \A i \in 1..Len(trace[r]) : \A e : e = trace[r][i] => UsedUp(e)'
    <2> SUFFICES ASSUME NEW r \in Ranks, NEW i \in 1..Len(trace[r]), NEW e, e = trace[r][i]
                 PROVE  UsedUp(e)'
      OBVIOUS
    <2>1. e \in Event /\ UsedUp(e)
      BY <1>1 DEF TraceFits
    <2> QED
      BY <1>1, <1>2, <2>1, TraceEntry
  <1>4. CASE trace' = trace
    <2> SUFFICES ASSUME NEW r \in Ranks
                 PROVE  /\ trace'[r] \in Seq(Event)
                        /\ \A i \in 1..Len(trace'[r]) : UsedUp(trace[r][i])'
      BY DEF TraceFits
    <2>1. ASSUME NEW i \in 1..Len(trace'[r])
          PROVE  UsedUp(trace[r][i])'
      BY <1>3, <1>4 DEF UsedUp
    <2> QED
      BY <1>1, <1>4, <2>1 DEF TraceFits
  <1>5. CASE Settles
    <2>1. PICK cut, new : Commits(cut, new)
      BY <1>5 DEF Settles
    <2> SUFFICES ASSUME NEW r \in Ranks
                 PROVE  /\ trace'[r] \in Seq(Event)
                        /\ \A i \in 1..Len(trace'[r]) : UsedUp(trace[r][i])'
      BY DEF TraceFits
    <2>2. InARow(trace[r], new[r], trace'[r]) /\ trace'[r] \in Seq(Event)
      BY <1>1, <2>1, TraceAfter
    <2>3. ASSUME NEW i \in 1..Len(trace'[r]), NEW e, e = trace'[r][i]
          PROVE  UsedUp(e)'
      <3>1. CASE i \in 1..Len(trace[r])
        BY <1>3, <2>2, <2>3, <3>1 DEF InARow
      <3>2. ASSUME NEW j \in 1..Len(new[r]), i = Len(trace[r]) + j
            PROVE  UsedUp(e)'
        <4>1. PICK d \in LPs : \E k \in 1..cut[d] : new[r][j] = ctx[d].processed[k].ev
          BY <2>1 DEF Commits
        <4>2. PICK k \in 1..cut[d] : new[r][j] = ctx[d].processed[k].ev
          BY <4>1
        <4>3. /\ cut[d] \in Nat /\ cut[d] <= Len(ctx[d].processed)
              /\ Len(ctx[d].processed) \in Nat
          BY <2>1, SMTT(30) DEF Commits, TypeOK, LPContext
        <4>4. k \in 1..Len(ctx[d].processed)
          BY <4>3
        <4>5. e = ctx[d].processed[k].ev
          BY <2>2, <2>3, <3>2, <4>2 DEF InARow
        <4>6. e \in Copies
          BY <4>4, <4>5, InCopies DEF Copies
        <4>7. e \in Event
          BY <4>6, CopiesType
        <4> QED
          BY <1>1, <1>2, <4>6, <4>7, TraceEntry
      <3> QED
        BY <2>2, <3>1, <3>2 DEF InARow
    <2>4. ASSUME NEW i \in 1..Len(trace'[r])
          PROVE  UsedUp(trace[r][i])'
      BY <2>3 DEF UsedUp
    <2> QED
      BY <2>2, <2>4
  <1>6. Receives \/ Seeds \/ Handles => trace' = trace
    BY DEF Receives, Seeds, Handles, Dispatches, DispatchOf
  <1> QED
    BY <1>1, <1>4, <1>5, <1>6, StepKinds

\* Nothing has been sent, cancelled or committed at first.
LEMMA DeliveryInit == Init => DeliveryInv
  <1> SUFFICES ASSUME Init
               PROVE  DeliveryInv
    OBVIOUS
  <1>1. /\ \A l \in LPs : ctx[l].sentLog = <<>> /\ ctx[l].processed = <<>>
        /\ \A r \in Ranks : cancelled[r] = {} /\ trace[r] = <<>>
    BY DEF Init, NewContext
  <1>2. \A l \in LPs : Entries(ctx[l]) = {}
    BY <1>1 DEF Entries
  <1>3. EntriesOnce /\ TombstonesFit
    BY <1>1, <1>2 DEF EntriesOnce, TombstonesFit
  <1>4. TraceFits
    <2>1. ASSUME NEW r \in Ranks
          PROVE  trace[r] \in Seq(Event) /\ 1..Len(trace[r]) = {}
      <3>1. trace[r] = <<>>
        BY <1>1
      <3>2. trace[r] \in Seq(Event) /\ Len(trace[r]) = 0
        BY <3>1
      <3> QED
        BY <3>2
    <2> QED
      BY <2>1 DEF TraceFits
  <1> QED
    BY <1>3, <1>4 DEF DeliveryInv

\* Each step keeps the delivery invariant.
LEMMA DeliveryStep ==
    ASSUME TypeOK, ProcessedInOrder, MessageInv, DeliveryInv, [Next]_vars
    PROVE  DeliveryInv'
  BY EntriesStep, TombstonesStep, TraceStep DEF DeliveryInv

-----------------------------------------------------------------------------
(***************************************************************************)
(* An event its sender stands for is delivered once.                       *)
(***************************************************************************)
IsCopy(e, l, uid, anti) == e.src = l /\ e.uid = uid /\ e.anti = anti

\* x says where a copy of an event (or of its anti-message) is.
CopyAt(x, l, uid, anti) ==
    \/ \E m \in net : IsCopy(m.ev, l, uid, anti) /\ x = <<"net", m>>
    \/ \E r \in Ranks : \E e \in pending[r] :
          IsCopy(e, l, uid, anti) /\ x = <<"pending", e>>
    \/ \E d \in LPs : \E i \in 1..Len(ctx[d].processed) :
          IsCopy(ctx[d].processed[i].ev, l, uid, anti) /\ x = <<"processed", d, i>>
    \/ \E r \in Ranks : \E i \in 1..Len(trace[r]) :
          IsCopy(trace[r][i], l, uid, anti) /\ x = <<"committed", r, i>>

\* What the copies of an event or anti-message are.
LEMMA CopiesOfSpec ==
    ASSUME NEW l, NEW uid, NEW anti, NEW x
    PROVE  x \in CopiesOf(l, uid, anti) <=> CopyAt(x, l, uid, anti)
  <1> DEFINE Is(e) == e.src = l /\ e.uid = uid /\ e.anti = anti
             OnItsWay == {<<"net", m>> : m \in {n \in net : Is(n.ev)}}
             Queued(r) == {<<"pending", e>> : e \in {f \in pending[r] : Is(f)}}
             Done(d) == {<<"processed", d, i>> :
                            i \in {j \in 1..Len(ctx[d].processed) :
                                      Is(ctx[d].processed[j].ev)}}
             Committed(r) == {<<"committed", r, i>> :
                                i \in {j \in 1..Len(trace[r]) : Is(trace[r][j])}}
  <1>1. x \in OnItsWay <=> \E m \in net : Is(m.ev) /\ x = <<"net", m>>
    OBVIOUS
  <1>2. \A r \in Ranks : x \in Queued(r)
           <=> \E e \in pending[r] : Is(e) /\ x = <<"pending", e>>
    OBVIOUS
  <1>3. \A d \in LPs : x \in Done(d)
           <=> \E i \in 1..Len(ctx[d].processed) :
                  Is(ctx[d].processed[i].ev) /\ x = <<"processed", d, i>>
    OBVIOUS
  <1>4. \A r \in Ranks : x \in Committed(r)
           <=> \E i \in 1..Len(trace[r]) : Is(trace[r][i]) /\ x = <<"committed", r, i>>
    OBVIOUS
  <1>5. CopiesOf(l, uid, anti) = OnItsWay \cup (UNION {Queued(r) : r \in Ranks})
           \cup (UNION {Done(d) : d \in LPs}) \cup (UNION {Committed(r) : r \in Ranks})
    BY DEF CopiesOf
  <1> HIDE DEF OnItsWay, Queued, Done, Committed
  <1>6. x \in CopiesOf(l, uid, anti)
        <=> \/ x \in OnItsWay
            \/ \E r \in Ranks : x \in Queued(r)
            \/ \E d \in LPs : x \in Done(d)
            \/ \E r \in Ranks : x \in Committed(r)
    BY <1>5
  <1> QED
    BY <1>1, <1>2, <1>3, <1>4, <1>6 DEF CopyAt, IsCopy

\* The copies of an event that exists once.
LEMMA OnceIsOneCopy ==
    ASSUME NEW l, NEW uid, Once(l, uid)
    PROVE  Cardinality(CopiesOf(l, uid, FALSE)) = 1
  <1> SUFFICES \E x : CopiesOf(l, uid, FALSE) = {x}
    BY FS_Singleton
  <1>1. \A x : x \in CopiesOf(l, uid, FALSE)
           <=> \/ \E m \in net : IsEvent(m.ev, l, uid) /\ x = <<"net", m>>
               \/ \E r \in Ranks : \E e \in pending[r] :
                     IsEvent(e, l, uid) /\ x = <<"pending", e>>
               \/ \E d \in LPs : \E i \in 1..Len(ctx[d].processed) :
                     IsEvent(ctx[d].processed[i].ev, l, uid) /\ x = <<"processed", d, i>>
               \/ \E r \in Ranks : \E i \in 1..Len(trace[r]) :
                     IsEvent(trace[r][i], l, uid) /\ x = <<"committed", r, i>>
    <2>1. \A e : IsCopy(e, l, uid, FALSE) <=> IsEvent(e, l, uid)
      BY DEF IsCopy, IsEvent
    <2>2. \A x : x \in CopiesOf(l, uid, FALSE) <=> CopyAt(x, l, uid, FALSE)
      BY CopiesOfSpec
    <2> QED
      BY <2>1, <2>2 DEF CopyAt
  <1>2. CASE OnlySent(l, uid)
    <2>1. PICK m \in net : SentAs(l, uid, m)
      BY <1>2 DEF OnlySent
    <2>2. \A x : x \in CopiesOf(l, uid, FALSE) <=> x = <<"net", m>>
      BY <1>1, <1>2, <2>1, Zenon
         DEF OnlySent, SentAs, NotQueued, NotRecorded, NotCommitted
    <2>3. CopiesOf(l, uid, FALSE) = {<<"net", m>>}
      BY <2>2
    <2> QED
      BY <2>3
  <1>3. CASE OnlyQueued(l, uid)
    <2>1. PICK r \in Ranks : \E e \in pending[r] : QueuedAs(l, uid, r, e)
      BY <1>3 DEF OnlyQueued
    <2>2. PICK e \in pending[r] : QueuedAs(l, uid, r, e)
      BY <2>1
    <2>3. \A x : x \in CopiesOf(l, uid, FALSE) <=> x = <<"pending", e>>
      BY <1>1, <1>3, <2>2, Zenon
         DEF OnlyQueued, QueuedAs, NotSent, NotRecorded, NotCommitted
    <2>4. CopiesOf(l, uid, FALSE) = {<<"pending", e>>}
      BY <2>3
    <2> QED
      BY <2>4
  <1>4. CASE OnlyRecorded(l, uid)
    <2>1. PICK d \in LPs : \E i \in 1..Len(ctx[d].processed) : RecordedAs(l, uid, d, i)
      BY <1>4 DEF OnlyRecorded
    <2>2. PICK i \in 1..Len(ctx[d].processed) : RecordedAs(l, uid, d, i)
      BY <2>1
    <2>3. IsEvent(ctx[d].processed[i].ev, l, uid) /\ \A b \in LPs : \A j \in 1..Len(ctx[b].processed) :
             IsEvent(ctx[b].processed[j].ev, l, uid) => b = d /\ j = i
      BY <2>2 DEF RecordedAs
    <2>4. /\ \A m \in net : ~ IsEvent(m.ev, l, uid)
          /\ \A q \in Ranks : \A e \in pending[q] : ~ IsEvent(e, l, uid)
      BY <1>4 DEF OnlyRecorded, NotSent, NotQueued
    <2>5. \A q \in Ranks : \A j \in 1..Len(trace[q]) : ~ IsEvent(trace[q][j], l, uid)
      BY <1>4 DEF OnlyRecorded, NotCommitted
    <2>6. ASSUME NEW x
          PROVE  x \in CopiesOf(l, uid, FALSE) <=> x = <<"processed", d, i>>
      <3>1. x = <<"processed", d, i>> => x \in CopiesOf(l, uid, FALSE)
        BY <1>1, <2>3
      <3>2. ASSUME x \in CopiesOf(l, uid, FALSE)
            PROVE  x = <<"processed", d, i>>
        <4>1. PICK b \in LPs : \E j \in 1..Len(ctx[b].processed) :
                 IsEvent(ctx[b].processed[j].ev, l, uid) /\ x = <<"processed", b, j>>
          BY <1>1, <2>4, <2>5, <3>2
        <4>2. PICK j \in 1..Len(ctx[b].processed) :
                 IsEvent(ctx[b].processed[j].ev, l, uid) /\ x = <<"processed", b, j>>
          BY <4>1
        <4>3. b = d /\ j = i
          BY <2>3, <4>2
        <4> QED
          BY <4>2, <4>3
      <3> QED
        BY <3>1, <3>2
    <2>7. CopiesOf(l, uid, FALSE) = {<<"processed", d, i>>}
      BY <2>6
    <2> QED
      BY <2>7
  <1>5. CASE OnlyCommitted(l, uid)
    <2>1. PICK r \in Ranks : \E i \in 1..Len(trace[r]) : CommittedAs(l, uid, r, i)
      BY <1>5 DEF OnlyCommitted
    <2>2. PICK i \in 1..Len(trace[r]) : CommittedAs(l, uid, r, i)
      BY <2>1
    <2>3. IsEvent(trace[r][i], l, uid) /\ \A b \in Ranks : \A j \in 1..Len(trace[b]) :
             IsEvent(trace[b][j], l, uid) => b = r /\ j = i
      BY <2>2 DEF CommittedAs
    <2>4. /\ \A m \in net : ~ IsEvent(m.ev, l, uid)
          /\ \A q \in Ranks : \A e \in pending[q] : ~ IsEvent(e, l, uid)
      BY <1>5 DEF OnlyCommitted, NotSent, NotQueued
    <2>5. \A q \in LPs : \A j \in 1..Len(ctx[q].processed) :
             ~ IsEvent(ctx[q].processed[j].ev, l, uid)
      BY <1>5 DEF OnlyCommitted, NotRecorded
    <2>6. ASSUME NEW x
          PROVE  x \in CopiesOf(l, uid, FALSE) <=> x = <<"committed", r, i>>
      <3>1. x = <<"committed", r, i>> => x \in CopiesOf(l, uid, FALSE)
        BY <1>1, <2>3
      <3>2. x \in CopiesOf(l, uid, FALSE) => x = <<"committed", r, i>>
        BY <1>1, <2>3, <2>4, <2>5
      <3> QED
        BY <3>1, <3>2
    <2>7. CopiesOf(l, uid, FALSE) = {<<"committed", r, i>>}
      BY <2>6
    <2> QED
      BY <2>7
  <1> QED
    BY <1>2, <1>3, <1>4, <1>5 DEF Once

\* Nothing cancels an event that stands.
LEMMA NoAntiCopy ==
    ASSUME TypeOK, OneEventPerUid, TraceFits, NEW l, NEW uid,
           uid \in StandingUids(ctx[l])
    PROVE  CopiesOf(l, uid, TRUE) = {}
  <1> SUFFICES ASSUME NEW x \in CopiesOf(l, uid, TRUE)
               PROVE  FALSE
    OBVIOUS
  <1>1. ASSUME NEW e \in Copies, e.src = l, e.uid = uid, e.anti = TRUE
        PROVE  FALSE
    BY <1>1, CopyGone DEF Gone
  <1>2. ASSUME NEW r \in Ranks, NEW i \in 1..Len(trace[r]), trace[r][i].src = l,
               trace[r][i].uid = uid, trace[r][i].anti = TRUE
        PROVE  FALSE
    BY <1>2 DEF TraceFits, UsedUp, Gone
  <1>3. /\ \A m \in net : m.ev \in Copies
        /\ \A r \in Ranks : \A e \in pending[r] : e \in Copies
        /\ \A d \in LPs : \A i \in 1..Len(ctx[d].processed) :
              ctx[d].processed[i].ev \in Copies
    BY InCopies DEF Copies
  <1> QED
    <2>1. CopyAt(x, l, uid, TRUE)
      BY CopiesOfSpec
    <2> QED
      BY <1>1, <1>2, <1>3, <2>1 DEF CopyAt, IsCopy

\* What the invariant says of the events in the sent logs.
LEMMA DeliveredOnce ==
    ASSUME TypeOK, MessageInv, DeliveryInv
    PROVE  SentMeansDeliveredOnce
  <1> SUFFICES ASSUME NEW l \in LPs, NEW i \in 1..Len(ctx[l].sentLog), NEW s,
                      s = ctx[l].sentLog[i]
               PROVE  /\ Cardinality(CopiesOf(l, s.uid, FALSE)) = 1
                      /\ CopiesOf(l, s.uid, TRUE) = {}
                      /\ \A t \in cancelled[lpToRank[s.dst]] :
                            ~ (t.src = l /\ t.uid = s.uid)
    BY DEF SentMeansDeliveredOnce
  <1>1. OneEventPerUid /\ EntriesOnce /\ TombstonesFit /\ TraceFits
    BY DEF MessageInv, DeliveryInv
  <1>2. s \in Entries(ctx[l])
    BY DEF Entries
  <1>3. s.uid \in StandingUids(ctx[l])
    BY <1>2 DEF StandingUids
  <1>4. Once(l, s.uid)
    BY <1>1, <1>2 DEF EntriesOnce
  <1>5. lpToRank[s.dst] \in Ranks
    <2>1. s \in SentRecord
      BY EntryType DEF TypeOK
    <2> QED
      BY <2>1, KernelAssumption DEF SentRecord
  <1>6. \A t \in cancelled[lpToRank[s.dst]] : ~ (t.src = l /\ t.uid = s.uid)
    BY <1>1, <1>3, <1>5 DEF TombstonesFit, Gone
  <1> QED
    BY <1>1, <1>3, <1>4, <1>6, OnceIsOneCopy, NoAntiCopy

\* An event its sender has not taken back exists exactly once - on its way,
\* queued, processed or committed - and nothing anywhere cancels it: send,
\* poll_transport_, dispatch_, rollback_, cancel_ and prune_to_gvt_ together
\* neither lose nor duplicate an event.
THEOREM NothingLostOrDuplicated == Spec => []SentMeansDeliveredOnce
  <1>1. Init => DeliveryInv
    BY DeliveryInit
  <1>2. TypeOK /\ ProcessedInOrder /\ MessageInv /\ DeliveryInv /\ [Next]_vars
        => DeliveryInv'
    BY DeliveryStep
  <1>3. TypeOK /\ MessageInv /\ DeliveryInv => SentMeansDeliveredOnce
    BY DeliveredOnce
  <1> QED
    BY <1>1, <1>2, <1>3, TypeCorrect, RecordsInOrder, MessagesUnambiguous, PTL DEF Spec

-----------------------------------------------------------------------------
(***************************************************************************)
(* Outputs are committed in stamp order.                                   *)
(***************************************************************************)
Running == \E r \in Ranks : pc[r] # "done"

\* While the run goes on, what has been committed is below the GVT.
SinkBelow ==
    Running => \A r \in Ranks : \A i \in 1..Len(sink[r]) : Lt(sink[r][i].ts, lastGvt)

SinkFits == \A r \in Ranks : sink[r] \in Seq(Output)

SinkInv == SinkFits /\ SinkBelow /\ SinkInOrder

\* What a call of prune_to_gvt_ puts out is sorted and has stamps from the known
\* GVT up to the new one.
LEMMA CommittedOutputsSpec ==
    ASSUME TypeOK, ProcessedInOrder, GvtIsLowerBound,
           NEW r \in Ranks, NEW gvt \in Stamp, NEW s, s = CommittedOutputs(r, gvt)
    PROVE  /\ s \in Seq(Output)
           /\ \A i \in 1..Len(s) : Le(lastGvt, s[i].ts) /\ Lt(s[i].ts, gvt)
           /\ \A i, j \in 1..Len(s) : i < j => Le(s[i].ts, s[j].ts)
  <1> DEFINE C == CommittedRecords(r, gvt)
             f == [rec \in C |-> SinkEntriesOf(rec)]
             S == UNION {f[rec] : rec \in C}
  <1>1. IsFiniteSet(C) /\ C \subseteq ProcessedRecord
    BY CommittedSpec
  <1>2. \A rec \in C : \E l \in LPs : \E i \in 1..PrunedProcessed(ctx[l], gvt) :
           rec = ctx[l].processed[i]
    BY CommittedSpec DEF LpsOn
  <1>3. ASSUME NEW rec \in C
        PROVE  Le(lastGvt, rec.ev.ts) /\ Lt(rec.ev.ts, gvt)
    <2>1. PICK l \in LPs : \E i \in 1..PrunedProcessed(ctx[l], gvt) :
              rec = ctx[l].processed[i]
      BY <1>2
    <2>2. PICK i \in 1..PrunedProcessed(ctx[l], gvt) : rec = ctx[l].processed[i]
      BY <2>1
    <2>3. ctx[l] \in LPContext
      BY DEF TypeOK
    <2>4. /\ PrunedProcessed(ctx[l], gvt) \in 0..Len(ctx[l].processed)
          /\ \A k \in 1..PrunedProcessed(ctx[l], gvt) : Lt(ctx[l].processed[k].ev.ts, gvt)
          /\ Len(ctx[l].processed) \in Nat
      BY <2>3, PrunedProcessedSpec DEF LPContext
    <2>5. i \in 1..Len(ctx[l].processed)
      BY <2>4
    <2> QED
      BY <2>2, <2>4, <2>5 DEF GvtIsLowerBound
  <1> HIDE DEF C
  <1>4. ASSUME NEW rec \in C
        PROVE  /\ SinkEntriesOf(rec) \subseteq Output /\ IsFiniteSet(SinkEntriesOf(rec))
               /\ \A o \in SinkEntriesOf(rec) : o.ts = rec.ev.ts
    <2> DEFINE n == Len(rec.outs)
               g == [i \in 1..n |-> [ts |-> rec.ev.ts, lp |-> rec.ev.dst,
                                     src |-> rec.ev.src, uid |-> rec.ev.uid,
                                     index |-> i, value |-> rec.outs[i]]]
    <2>1. rec.ev \in Event /\ rec.outs \in Seq(Values)
      BY <1>1 DEF ProcessedRecord
    <2>2. /\ rec.ev.ts \in Stamp /\ rec.ev.dst \in LPs /\ rec.ev.src \in LPs
          /\ rec.ev.uid \in Nat
      BY <2>1, EventFields
    <2>3. n \in Nat /\ DOMAIN rec.outs = 1..n /\ \A i \in 1..n : rec.outs[i] \in Values
      BY <2>1
    <2>4. SinkEntriesOf(rec) = {g[i] : i \in 1..n}
      BY <2>3 DEF SinkEntriesOf
    <2>5. \A i \in 1..n : g[i] \in Output /\ g[i].ts = rec.ev.ts
      BY <2>2, <2>3 DEF Output
    <2>6. IsFiniteSet(1..n)
      BY <2>3, FS_Interval
    <2> HIDE DEF g, n
    <2>7. IsFiniteSet({g[i] : i \in 1..n})
      BY <2>6, FiniteImage
    <2> QED
      BY <2>4, <2>5, <2>7
  <1>5. IsFiniteSet(S)
    <2>1. \A rec \in C : IsFiniteSet(f[rec])
      BY <1>4
    <2> HIDE DEF f
    <2> QED
      BY <1>1, <2>1, FiniteUnion
  <1>6. /\ S \in SUBSET Output
        /\ \A o \in S : Le(lastGvt, o.ts) /\ Lt(o.ts, gvt)
    BY <1>3, <1>4
  <1>7. s = SortedBy(S, SinkBefore)
    <2>1. S = UNION {SinkEntriesOf(rec) : rec \in C}
      OBVIOUS
    <2>2. s = SortedBy(UNION {SinkEntriesOf(rec) : rec \in C}, SinkBefore)
      BY DEF CommittedOutputs, SinkEntriesOf, C
    <2> QED
      BY <2>1, <2>2
  <1> HIDE DEF S
  <1>8. /\ IsSorting(S, s)
        /\ \A i, j \in 1..Len(s) : i < j => Le(s[i].ts, s[j].ts)
    BY <1>5, <1>6, <1>7, SortedOutputs
  <1>9. \A i \in 1..Len(s) : s[i] \in S
    BY <1>8 DEF IsSorting
  <1>10. s \in Seq(Output)
    BY <1>6, <1>8 DEF IsSorting
  <1> QED
    BY <1>6, <1>8, <1>9, <1>10

\* What is below the GVT in order, followed by what is from there up in order.
LEMMA OrderedTwice ==
    ASSUME NEW S, \A x \in S : x.ts \in Stamp,
           NEW gvt \in Stamp, NEW s \in Seq(S), NEW u \in Seq(S), NEW v, v = s \o u,
           \A i \in 1..Len(s) : Lt(s[i].ts, gvt),
           \A j \in 1..Len(u) : Le(gvt, u[j].ts),
           \A i \in 1..Len(s) : \A j \in 1..i : Le(s[j].ts, s[i].ts),
           \A i, j \in 1..Len(u) : i < j => Le(u[i].ts, u[j].ts)
    PROVE  \A i \in 1..Len(v) : \A j \in 1..i : Le(v[j].ts, v[i].ts)
  <1>1. InARow(s, u, v) /\ v \in Seq(S)
    BY Concatenated
  <1> DEFINE a == Len(s)
             b == Len(u)
             n == Len(v)
  <1>2. /\ a \in Nat /\ b \in Nat /\ n = a + b
        /\ \A i \in 1..a : v[i] = s[i]
        /\ \A j \in 1..b : v[a + j] = u[j]
        /\ \A i \in 1..n : i \in 1..a \/ \E j \in 1..b : i = a + j
    <2>1. /\ a \in Nat /\ b \in Nat /\ n = a + b
          /\ \A i \in 1..n : i \in 1..a \/ \E j \in 1..b : i = a + j
      BY <1>1 DEF InARow
    <2>2. /\ \A i \in 1..a : v[i] = s[i]
          /\ \A j \in 1..b : v[a + j] = u[j]
      BY <1>1 DEF InARow
    <2> QED
      BY <2>1, <2>2
  <1>3. /\ \A i \in 1..a : s[i].ts \in Stamp
        /\ \A j \in 1..b : u[j].ts \in Stamp
    <2>1. (\A i \in 1..a : s[i] \in S) /\ \A j \in 1..b : u[j] \in S
      OBVIOUS
    <2> HIDE DEF a, b
    <2> QED
      BY <2>1
  <1> SUFFICES ASSUME NEW i \in 1..n, NEW j \in 1..i
               PROVE  Le(v[j].ts, v[i].ts)
    OBVIOUS
  <1> HIDE DEF a, b, n
  <1>4. n \in Nat /\ j \in 1..n /\ j <= i
    BY <1>2
  <1>5. CASE i \in 1..a
    <2>1. j \in 1..a
      BY <1>2, <1>5
    <2> QED
      BY <1>2, <1>5, <2>1 DEF a
  <1>6. ASSUME NEW p \in 1..b, i = a + p
        PROVE  Le(v[j].ts, v[i].ts)
    <2>1. v[i] = u[p]
      BY <1>2, <1>6
    <2>2. CASE j \in 1..a
      <3>1. v[j] = s[j] /\ Lt(s[j].ts, gvt) /\ Le(gvt, u[p].ts)
        BY <1>2, <2>2 DEF a, b
      <3>2. Le(s[j].ts, u[p].ts)
        BY <1>3, <2>2, <3>1, StampOrder, LeOrder DEF Le
      <3> QED
        BY <2>1, <3>1, <3>2
    <2>3. ASSUME NEW q \in 1..b, j = a + q
          PROVE  Le(v[j].ts, v[i].ts)
      <3>1. v[j] = u[q]
        BY <1>2, <2>3
      <3>2. q <= p
        BY <1>2, <1>4, <1>6, <2>3
      <3>3. q < p => Le(u[q].ts, u[p].ts)
        BY DEF b
      <3>4. q = p \/ q < p
        BY <1>2, <3>2
      <3>5. Le(u[p].ts, u[p].ts)
        BY <1>3, LeOrder
      <3> QED
        BY <2>1, <3>1, <3>3, <3>4, <3>5
    <2> QED
      BY <1>2, <1>4, <2>2, <2>3
  <1> QED
    BY <1>2, <1>5, <1>6

\* prune_to_gvt_ puts out what comes after all that has been put out.
LEMMA SinkPrune ==
    ASSUME TypeOK, ProcessedInOrder, GvtIsLowerBound, SinkFits, SinkInOrder,
           \A r \in Ranks : \A i \in 1..Len(sink[r]) : Lt(sink[r][i].ts, lastGvt),
           NEW R \in SUBSET Ranks, NEW gvt \in Stamp, Le(lastGvt, gvt), Prune(R, gvt)
    PROVE  /\ SinkFits' /\ SinkInOrder'
           /\ \A r \in Ranks : \A i \in 1..Len(sink'[r]) : Lt(sink'[r][i].ts, gvt)
  <1> SUFFICES ASSUME NEW r \in Ranks
               PROVE  /\ sink'[r] \in Seq(Output)
                      /\ \A i \in 1..Len(sink'[r]) : \A j \in 1..i :
                            Le(sink'[r][j].ts, sink'[r][i].ts)
                      /\ \A i \in 1..Len(sink'[r]) : Lt(sink'[r][i].ts, gvt)
    BY DEF SinkFits, SinkInOrder
  <1>1. lastGvt \in Stamp
    BY DEF TypeOK
  <1> DEFINE s == sink[r]
             u == CommittedOutputs(r, gvt)
             v == sink'[r]
  <1>2. /\ s \in Seq(Output)
        /\ \A i \in 1..Len(s) : \A j \in 1..i : Le(s[j].ts, s[i].ts)
        /\ \A i \in 1..Len(s) : Lt(s[i].ts, lastGvt)
    BY DEF SinkFits, SinkInOrder
  <1>3. /\ u \in Seq(Output)
        /\ \A i \in 1..Len(u) : Le(lastGvt, u[i].ts) /\ Lt(u[i].ts, gvt)
        /\ \A i, j \in 1..Len(u) : i < j => Le(u[i].ts, u[j].ts)
    BY CommittedOutputsSpec
  <1>4. v = IF r \in R THEN s \o u ELSE s
    BY DEF Prune
  <1> HIDE DEF s, u, v
  <1>5. \A i \in 1..Len(s) : Lt(s[i].ts, gvt)
    <2> TAKE i \in 1..Len(s)
    <2>1. s[i] \in Output
      BY <1>2
    <2>2. s[i].ts \in Stamp
      BY <2>1 DEF Output
    <2> QED
      BY <1>1, <1>2, <2>2, LeOrder
  <1>6. CASE r \notin R
    <2>1. v = s
      BY <1>4, <1>6
    <2> QED
      BY <1>2, <1>5, <2>1 DEF v
  <1>7. CASE r \in R
    <2>1. v = s \o u
      BY <1>4, <1>7
    <2>2. InARow(s, u, v) /\ v \in Seq(Output)
      BY <1>2, <1>3, <2>1, Concatenated
    <2>3. \A i \in 1..Len(v) : \A j \in 1..i : Le(v[j].ts, v[i].ts)
      <3>1. \A o \in Output : o.ts \in Stamp
        BY DEF Output
      <3>2. lastGvt \in Stamp /\ s \in Seq(Output) /\ u \in Seq(Output)
        BY <1>1, <1>2, <1>3
      <3>3. /\ \A i \in 1..Len(s) : Lt(s[i].ts, lastGvt)
            /\ \A j \in 1..Len(u) : Le(lastGvt, u[j].ts)
            /\ \A i \in 1..Len(s) : \A j \in 1..i : Le(s[j].ts, s[i].ts)
            /\ \A i, j \in 1..Len(u) : i < j => Le(u[i].ts, u[j].ts)
        BY <1>2, <1>3
      <3> QED
        BY ONLY <2>1, <3>1, <3>2, <3>3, OrderedTwice
    <2>4. \A i \in 1..Len(v) : Lt(v[i].ts, gvt)
      BY <1>3, <1>5, <2>2 DEF InARow
    <2> QED
      BY <2>2, <2>3, <2>4 DEF v
  <1> QED
    BY <1>6, <1>7

PrunesNothing == UNCHANGED <<trace, sink, lastGvt>> /\ (Running \/ pc' = pc)

PrunesTo(R, gvt) == /\ Running /\ Le(lastGvt, gvt) /\ Prune(R, gvt)
                    /\ lastGvt' = gvt \/ ~ Running'

\* A step commits nothing, or is a call of prune_to_gvt_ with a GVT from the
\* known one up, which is the known one afterwards unless the run is over.
LEMMA PruneOrNot ==
    ASSUME TypeOK, [Next]_vars
    PROVE  PrunesNothing \/ \E R \in SUBSET Ranks : \E gvt \in Stamp : PrunesTo(R, gvt)
  <1> DEFINE Prunes == \E R \in SUBSET Ranks : \E gvt \in Stamp : PrunesTo(R, gvt)
  <1> SUFFICES PrunesNothing \/ Prunes
    OBVIOUS
  <1>1. lastGvt \in Stamp
    BY DEF TypeOK
  <1>2. ASSUME AllAt("gvt") \/ AllAt("work")
        PROVE  Running
    BY <1>2, KernelAssumption DEF AllAt, Running
  <1>3. ASSUME NEW r \in Ranks, FossilCollect(r)
        PROVE  Prunes
    <2>1. pc[r] = "fossil" /\ lastGvt' = lastGvt /\ Prune({r}, lastGvt)
      BY <1>3 DEF FossilCollect
    <2>2. Le(lastGvt, lastGvt)
      BY <1>1, LeOrder
    <2>3. PrunesTo({r}, lastGvt)
      BY <2>1, <2>2 DEF PrunesTo, Running
    <2> QED
      BY <1>1, <2>3
  <1>4. ASSUME NEW gvt \in Stamp, Adopt(gvt), Running
        PROVE  PrunesNothing \/ Prunes
    <2>1. CASE Lt(gvt, lastGvt)
      BY <1>4, <2>1 DEF Adopt, PrunesNothing
    <2>2. CASE ~ Lt(gvt, lastGvt)
      <3>1. PrunesTo(Ranks, gvt)
        BY <1>4, <2>2 DEF Adopt, Le, PrunesTo
      <3> QED
        BY <3>1
    <2> QED
      BY <2>1, <2>2
  <1>5. CASE AckGvt \/ ColouredGvt
    <2>1. PICK gvt \in Stamp : Adopt(gvt)
      BY <1>5, GvtType DEF AckGvt, ColouredGvt
    <2>2. Running
      BY <1>2, <1>5 DEF AckGvt, ColouredGvt
    <2> QED
      BY <1>4, <2>1, <2>2
  <1>6. CASE Finalize
    <2>1. Prune(Ranks, MaxStamp) /\ MaxStamp \in Stamp /\ Le(lastGvt, MaxStamp)
      BY <1>1, <1>6, StampConstants DEF Finalize
    <2>2. Running
      BY <1>2, <1>6 DEF Finalize
    <2>3. ~ Running'
      BY <1>6 DEF Finalize, AllGoto, Running
    <2>4. PrunesTo(Ranks, MaxStamp)
      BY <2>1, <2>2, <2>3 DEF PrunesTo
    <2> QED
      BY <2>1, <2>4
  <1>7. ASSUME NEW r \in Ranks,
               \/ Start(r) \/ PollEvent(r) \/ PollAck(r) \/ DispatchNothing(r)
               \/ DispatchStraggler(r) \/ DispatchAnti(r) \/ DispatchEvent(r)
        PROVE  PrunesNothing
    <2>1. UNCHANGED <<trace, sink, lastGvt>> /\ pc[r] # "done"
      BY <1>7 DEF Start, PollEvent, PollAck, DispatchNothing, DispatchStraggler,
                  DispatchAnti, DispatchEvent
    <2> QED
      BY <2>1 DEF PrunesNothing, Running
  <1>8. CASE ColouredFlip \/ ColouredWait \/ KeepRunning
    BY <1>2, <1>8 DEF ColouredFlip, ColouredWait, KeepRunning, PrunesNothing
  <1>9. CASE UNCHANGED vars
    BY <1>9 DEF vars, PrunesNothing
  <1> HIDE DEF Prunes
  <1> QED
    BY <1>3, <1>5, <1>6, <1>7, <1>8, <1>9 DEF Next, RankStep, Collective, Terminated

\* Every step keeps the outputs in order.
LEMMA SinkStep ==
    ASSUME TypeOK, ProcessedInOrder, GvtIsLowerBound, SinkInv, [Next]_vars
    PROVE  SinkInv'
  <1>1. SinkFits /\ SinkBelow /\ SinkInOrder
    BY DEF SinkInv
  <1>2. CASE PrunesNothing
    BY <1>1, <1>2 DEF SinkInv, SinkFits, SinkBelow, SinkInOrder, PrunesNothing, Running
  <1>3. ASSUME NEW R \in SUBSET Ranks, NEW gvt \in Stamp, PrunesTo(R, gvt)
        PROVE  SinkInv'
    <2>1. \A q \in Ranks : \A i \in 1..Len(sink[q]) : Lt(sink[q][i].ts, lastGvt)
      BY <1>1, <1>3 DEF SinkBelow, PrunesTo
    <2>2. /\ SinkFits' /\ SinkInOrder'
          /\ \A q \in Ranks : \A i \in 1..Len(sink'[q]) : Lt(sink'[q][i].ts, gvt)
      BY <1>1, <1>3, <2>1, SinkPrune DEF PrunesTo
    <2> QED
      BY <1>3, <2>2 DEF SinkInv, SinkBelow, PrunesTo
  <1> QED
    BY <1>2, <1>3, PruneOrNot

\* Under programs that send only into the future, committedSink is called in
\* stamp order over the whole run of a rank: what a later prune_to_gvt_ commits
\* is never before what an earlier one did, and each call sorts what it commits.
THEOREM OutputsInOrder ==
    ASSUME CausalApp
    PROVE  Spec => []SinkInOrder
  <1>1. Init => SinkInv
    <2> SUFFICES ASSUME Init
                 PROVE  SinkInv
      OBVIOUS
    <2>1. \A r \in Ranks : sink[r] = <<>>
      BY DEF Init
    <2>2. ASSUME NEW r \in Ranks
          PROVE  sink[r] \in Seq(Output) /\ 1..Len(sink[r]) = {}
      <3>1. sink[r] = <<>>
        BY <2>1
      <3>2. sink[r] \in Seq(Output) /\ Len(sink[r]) = 0
        BY <3>1
      <3> QED
        BY <3>2
    <2> QED
      BY <2>2 DEF SinkInv, SinkFits, SinkBelow, SinkInOrder
  <1>2. TypeOK /\ ProcessedInOrder /\ GvtIsLowerBound /\ SinkInv /\ [Next]_vars
        => SinkInv'
    BY SinkStep
  <1>3. SinkInv => SinkInOrder
    BY DEF SinkInv
  <1>4. Spec => []GvtIsLowerBound
    BY GvtBounds
  <1> QED
    BY <1>1, <1>2, <1>3, <1>4, TypeCorrect, RecordsInOrder, PTL DEF Spec

-----------------------------------------------------------------------------
(***************************************************************************)
(* Nothing is in two places.  This is the receivers' side of the above: it *)
(* is about every event and anti-message, scheduled ones and those whose   *)
(* sender has long released the log entry included.  What a step sends was *)
(* nowhere; what it moves it takes away from where it was.                 *)
(***************************************************************************)
OnItsWay(e) == \E m \in net : m.ev = e
Queued(e) == e \in pending[lpToRank[e.dst]]
RecordedAt(e, i) == /\ i \in 1..Len(ctx[e.dst].processed)
                    /\ ctx[e.dst].processed[i].ev = e
CommittedAt(e, i) == /\ i \in 1..Len(trace[lpToRank[e.dst]])
                     /\ trace[lpToRank[e.dst]][i] = e

Apart(e) ==
    /\ OnItsWay(e) => ~ Queued(e)
    /\ OnItsWay(e) \/ Queued(e) => \A i : ~ RecordedAt(e, i)
    /\ \A i : CommittedAt(e, i) =>
          /\ ~ OnItsWay(e) /\ ~ Queued(e)
          /\ \A j : ~ RecordedAt(e, j)

\* Nothing is queued again, executed again or committed again.
NothingTwice ==
    \A e \in Event :
        /\ Apart(e)
        /\ \A i, j : RecordedAt(e, i) /\ RecordedAt(e, j) => i = j
        /\ \A i, j : CommittedAt(e, i) /\ CommittedAt(e, j) => i = j

\* What a step sends was not anywhere.
LEMMA SentIsNew ==
    ASSUME TypeOK, MessageInv, TraceFits, NEW r, NEW queue, NEW out,
           SendingStep(r, queue, out), NEW e \in out, e \in Event
    PROVE  /\ ~ OnItsWay(e) /\ ~ Queued(e)
           /\ \A i : ~ RecordedAt(e, i) /\ ~ CommittedAt(e, i)
  <1>1. e.src \in LPs /\ e.dst \in LPs /\ e.uid \in Nat /\ lpToRank[e.dst] \in Ranks
    BY EventFields, KernelAssumption
  <1>2. e.uid < ctx[e.src].nextUid
           /\ (e.anti => e.uid \notin StandingUids(ctx[e.src])) => FALSE
    <2> SUFFICES ASSUME e.uid < ctx[e.src].nextUid,
                        e.anti => e.uid \notin StandingUids(ctx[e.src])
                 PROVE  FALSE
      OBVIOUS
    <2>1. ~ SameInflight(e, e)
      BY <1>1, FreshKey
    <2> QED
      BY <2>1 DEF SameInflight, SameUid
  <1>3. e \notin Copies
    BY <1>2, CopyGone DEF MessageInv, Gone
  <1>4. \A q \in Ranks : \A i \in 1..Len(trace[q]) : trace[q][i] # e
    BY <1>2 DEF TraceFits, UsedUp, Gone
  <1>5. \A i : ~ RecordedAt(e, i)
    BY <1>1, <1>3, InCopies DEF Copies, RecordedAt
  <1> QED
    BY <1>1, <1>3, <1>4, <1>5, InCopies DEF Copies, OnItsWay, Queued, CommittedAt

\* A message arrives: it is taken off its way and queued.
LEMMA ReceivedApart ==
    ASSUME TypeOK, MessageInv, NothingTwice, Receives, NEW e \in Event
    PROVE  /\ Apart(e)'
           /\ \A i, j : RecordedAt(e, i)' /\ RecordedAt(e, j)' => i = j
           /\ \A i, j : CommittedAt(e, i)' /\ CommittedAt(e, j)' => i = j
  <1>1. PICK r \in Ranks, m \in net :
           /\ net' = net \ {m}
           /\ pending' = [pending EXCEPT ![r] = @ \cup {m.ev}]
           /\ UNCHANGED <<ctx, cancelled, trace>>
    BY DEF Receives
  <1>2. \A i : /\ RecordedAt(e, i)' <=> RecordedAt(e, i)
               /\ CommittedAt(e, i)' <=> CommittedAt(e, i)
    BY <1>1 DEF RecordedAt, CommittedAt
  <1>3. OnItsWay(e)' => OnItsWay(e) /\ e # m.ev
    <2> SUFFICES ASSUME NEW n \in net, n # m, n.ev = e
                 PROVE  OnItsWay(e) /\ e # m.ev
      BY <1>1 DEF OnItsWay
    <2>1. n.ev = m.ev => n = m
      BY DEF MessageInv, SentOnce, SameInflight, SameUid
    <2> QED
      BY <2>1 DEF OnItsWay
  <1>4. lpToRank[e.dst] \in Ranks
    BY EventFields, KernelAssumption
  <1>5. Queued(e)' => Queued(e) \/ e = m.ev
    BY <1>1, <1>4 DEF Queued, TypeOK
  <1>6. e = m.ev => OnItsWay(e)
    BY DEF OnItsWay
  <1>7. /\ Apart(e)
        /\ \A i, j : RecordedAt(e, i) /\ RecordedAt(e, j) => i = j
        /\ \A i, j : CommittedAt(e, i) /\ CommittedAt(e, j) => i = j
    BY DEF NothingTwice
  <1>8. Apart(e)'
    BY <1>2, <1>3, <1>5, <1>6, <1>7 DEF Apart
  <1> QED
    BY <1>2, <1>7, <1>8

\* Records are committed: they are taken from their LP and put in the trace.
LEMMA SettledApart ==
    ASSUME TypeOK, MessageInv, TraceFits, NothingTwice, Settles, NEW e \in Event
    PROVE  /\ Apart(e)'
           /\ \A i, j : RecordedAt(e, i)' /\ RecordedAt(e, j)' => i = j
           /\ \A i, j : CommittedAt(e, i)' /\ CommittedAt(e, j)' => i = j
  <1>1. PICK cut, new : Commits(cut, new)
    BY DEF Settles
  <1> DEFINE l == e.dst
             r == lpToRank[l]
  <1>2. l \in LPs /\ r \in Ranks
    BY EventFields, KernelAssumption
  <1>3. (OnItsWay(e)' <=> OnItsWay(e)) /\ (Queued(e)' => Queued(e))
    BY <1>2 DEF Settles, OnItsWay, Queued
  <1>4. /\ cut[l] \in Nat /\ Len(ctx[l].processed) \in Nat
        /\ cut[l] <= Len(ctx[l].processed)
        /\ Len(ctx'[l].processed) = Len(ctx[l].processed) - cut[l]
        /\ \A i \in 1..Len(ctx'[l].processed) :
              ctx'[l].processed[i] = ctx[l].processed[i + cut[l]]
    <2>1. ctx[l] \in LPContext
      BY <1>2 DEF TypeOK
    <2>2. Len(ctx[l].processed) \in Nat
      BY <2>1 DEF LPContext
    <2> HIDE DEF l, r
    <2> QED
      BY <1>1, <1>2, <2>2 DEF Commits
  <1>5. ASSUME NEW i, RecordedAt(e, i)'
        PROVE  i \in Nat /\ i > 0 /\ RecordedAt(e, i + cut[l])
    <2>1. i \in 1..Len(ctx'[l].processed) /\ ctx'[l].processed[i].ev = e
      BY <1>5 DEF RecordedAt
    <2>2. i + cut[l] \in 1..Len(ctx[l].processed) /\ i \in Nat /\ i > 0
      BY <1>4, <2>1, SMTT(30)
    <2>3. ctx[l].processed[i + cut[l]].ev = e
      BY <1>4, <2>1
    <2> QED
      BY <2>2, <2>3 DEF RecordedAt
  <1>6. InARow(trace[r], new[r], trace'[r])
    BY <1>1, <1>2, TraceAfter
  <1>7. /\ Apart(e)
        /\ \A i, j : RecordedAt(e, i) /\ RecordedAt(e, j) => i = j
        /\ \A i, j : CommittedAt(e, i) /\ CommittedAt(e, j) => i = j
    BY DEF NothingTwice
  <1>8. ASSUME NEW j \in 1..Len(new[r]), new[r][j] = e
        PROVE  \E i \in 1..cut[l] : RecordedAt(e, i)
    <2>1. PICK d \in LPs : \E i \in 1..cut[d] : new[r][j] = ctx[d].processed[i].ev
      <3>1. \A q \in Ranks : \A k \in 1..Len(new[q]) :
               \E d \in LPs : \E i \in 1..cut[d] : new[q][k] = ctx[d].processed[i].ev
        BY <1>1 DEF Commits
      <3> HIDE DEF l, r
      <3> QED
        BY <1>2, <3>1
    <2>2. PICK i \in 1..cut[d] : new[r][j] = ctx[d].processed[i].ev
      BY <2>1
    <2>3. cut[d] \in Nat /\ cut[d] <= Len(ctx[d].processed) /\ Len(ctx[d].processed) \in Nat
      BY <1>1 DEF Commits, TypeOK, LPContext
    <2>4. i \in 1..Len(ctx[d].processed)
      BY <2>3, SMTT(30)
    <2>5. d = l
      BY <1>8, <2>2, <2>4 DEF MessageInv, Placed
    <2> QED
      BY <1>8, <2>2, <2>4, <2>5 DEF RecordedAt
  <1>9. ASSUME NEW p, CommittedAt(e, p)'
        PROVE  \/ CommittedAt(e, p)
               \/ \E j \in 1..Len(new[r]) : p = Len(trace[r]) + j /\ new[r][j] = e
    <2>1. p \in 1..Len(trace'[r]) /\ trace'[r][p] = e
      BY <1>9 DEF CommittedAt
    <2>2. CASE p \in 1..Len(trace[r])
      BY <1>6, <2>1, <2>2 DEF InARow, CommittedAt
    <2>3. ASSUME NEW j \in 1..Len(new[r]), p = Len(trace[r]) + j
          PROVE  new[r][j] = e
      BY <1>6, <2>1, <2>3 DEF InARow
    <2> QED
      BY <1>6, <2>1, <2>2, <2>3 DEF InARow
  <1>10. \A i, j \in 1..Len(new[r]) : new[r][i] = new[r][j] => i = j
    BY <1>1, <1>2 DEF Commits
  <1> HIDE DEF l, r
  <1>11. \A i, j : RecordedAt(e, i)' /\ RecordedAt(e, j)' => i = j
    <2> SUFFICES ASSUME NEW i, NEW j, RecordedAt(e, i)', RecordedAt(e, j)'
                 PROVE  i = j
      OBVIOUS
    <2>1. i + cut[l] = j + cut[l] /\ i \in Nat /\ j \in Nat
      BY <1>5, <1>7
    <2> QED
      BY <1>4, <2>1
  <1>12. \A p, q : CommittedAt(e, p)' /\ CommittedAt(e, q)' => p = q
    <2> SUFFICES ASSUME NEW p, NEW q, CommittedAt(e, p)', CommittedAt(e, q)'
                 PROVE  p = q
      OBVIOUS
    <2>1. CommittedAt(e, p) => ~ \E j \in 1..Len(new[r]) : new[r][j] = e
      BY <1>7, <1>8 DEF Apart
    <2>2. CommittedAt(e, q) => ~ \E j \in 1..Len(new[r]) : new[r][j] = e
      BY <1>7, <1>8 DEF Apart
    <2> QED
      BY <1>7, <1>9, <1>10, <2>1, <2>2, SMTT(30)
  <1>13. ASSUME NEW p, CommittedAt(e, p)'
         PROVE  /\ ~ OnItsWay(e)' /\ ~ Queued(e)'
                /\ \A i : ~ RecordedAt(e, i)'
    <2>1. CASE CommittedAt(e, p)
      BY <1>3, <1>5, <1>7, <2>1 DEF Apart
    <2>2. CASE ~ CommittedAt(e, p)
      <3>1. PICK i \in 1..cut[l] : RecordedAt(e, i)
        BY <1>8, <1>9, <1>13, <2>2
      <3>2. ASSUME NEW j, RecordedAt(e, j)'
            PROVE  FALSE
        <4>1. j + cut[l] = i /\ j \in Nat /\ j > 0
          BY <1>5, <1>7, <3>1, <3>2
        <4> QED
          BY <1>4, <4>1
      <3> QED
        BY <1>3, <1>7, <3>1, <3>2 DEF Apart
    <2> QED
      BY <2>1, <2>2
  <1>14. /\ OnItsWay(e)' => ~ Queued(e)'
         /\ OnItsWay(e)' \/ Queued(e)' => \A i : ~ RecordedAt(e, i)'
    BY <1>3, <1>5, <1>7 DEF Apart
  <1>15. Apart(e)'
    BY <1>13, <1>14 DEF Apart
  <1> QED
    BY <1>11, <1>12, <1>15

\* A message that a step sends is on its way or queued, for the first time.
LEMMA SentApart ==
    ASSUME TypeOK, MessageInv, TraceFits, NEW r \in Ranks, NEW queue, NEW out,
           SendingStep(r, queue, out), trace' = trace, NEW e \in out
    PROVE  /\ Apart(e)'
           /\ \A i : ~ RecordedAt(e, i)' /\ ~ CommittedAt(e, i)'
  <1>1. e \in Event /\ e.dst \in LPs /\ lpToRank[e.dst] \in Ranks
    BY EventFields, KernelAssumption DEF SendingStep
  <1>2. /\ ~ OnItsWay(e) /\ ~ Queued(e)
        /\ \A i : ~ RecordedAt(e, i) /\ ~ CommittedAt(e, i)
    BY <1>1, SentIsNew
  <1>3. \A i : ~ CommittedAt(e, i)'
    BY <1>2 DEF CommittedAt
  <1>4. ASSUME NEW i, RecordedAt(e, i)'
        PROVE  FALSE
    <2>1. i \in 1..Len(ctx'[e.dst].processed) /\ ctx'[e.dst].processed[i].ev = e
      BY <1>4 DEF RecordedAt
    <2>2. RecordsFrom(r, e.dst)
      BY <1>1 DEF SendingStep
    <2>3. ~ \E j \in 1..Len(ctx[e.dst].processed) :
               ctx'[e.dst].processed[i] = ctx[e.dst].processed[j]
      BY <1>2, <2>1 DEF RecordedAt
    <2>4. e \in pending[r]
      BY <2>1, <2>2, <2>3 DEF RecordsFrom
    <2>5. lpToRank[e.dst] = r
      BY <2>4 DEF MessageInv, Placed
    <2> QED
      BY <1>2, <2>4, <2>5 DEF Queued
  <1>5. OnItsWay(e)' => ~ Queued(e)'
    <2> SUFFICES ASSUME NEW m \in net', m.ev = e
                 PROVE  ~ Queued(e)'
      BY DEF OnItsWay
    <2>1. m \in net \/ lpToRank[m.ev.dst] # r
      BY SentPlaces
    <2>2. m \notin net
      BY <1>2 DEF OnItsWay
    <2>3. lpToRank[e.dst] # r
      BY <2>1, <2>2
    <2>4. pending'[lpToRank[e.dst]] = pending[lpToRank[e.dst]]
      BY <1>1, <2>3, SentPlaces
    <2> QED
      BY <1>2, <2>4 DEF Queued
  <1> QED
    BY <1>3, <1>4, <1>5 DEF Apart

\* Where the others are after a step that sends.
LEMMA OthersAfter ==
    ASSUME TypeOK, NEW r \in Ranks, NEW queue, NEW out,
           SendingStep(r, queue, out), trace' = trace, NEW e \in Event, e \notin out
    PROVE  /\ OnItsWay(e)' => OnItsWay(e)
           /\ Queued(e)' => \/ Queued(e) /\ lpToRank[e.dst] # r
                            \/ e \in queue /\ lpToRank[e.dst] = r
           /\ \A i : CommittedAt(e, i)' <=> CommittedAt(e, i)
  <1>1. lpToRank[e.dst] \in Ranks
    BY EventFields, KernelAssumption
  <1>2. OnItsWay(e)' => OnItsWay(e)
    BY SentPlaces DEF OnItsWay
  <1>3. ASSUME Queued(e)'
        PROVE  \/ Queued(e) /\ lpToRank[e.dst] # r
               \/ e \in queue /\ lpToRank[e.dst] = r
    <2>1. e \in pending'[lpToRank[e.dst]]
      BY <1>3 DEF Queued
    <2>2. CASE lpToRank[e.dst] = r
      BY <2>1, <2>2, SentPlaces
    <2>3. CASE lpToRank[e.dst] # r
      BY <1>1, <2>1, <2>3, SentPlaces DEF Queued
    <2> QED
      BY <2>2, <2>3
  <1> QED
    BY <1>2, <1>3 DEF CommittedAt

\* The places of what a dispatch does not send.
LEMMA HandledApart ==
    ASSUME TypeOK, MessageInv, TraceFits, NothingTwice, NEW r \in Ranks,
           NEW queue, NEW out, SendingStep(r, queue, out), Dispatches(r, queue),
           NEW e \in Event, e \notin out
    PROVE  /\ Apart(e)'
           /\ \A i, j : RecordedAt(e, i)' /\ RecordedAt(e, j)' => i = j
           /\ \A i, j : CommittedAt(e, i)' /\ CommittedAt(e, j)' => i = j
  <1>1. PICK ev \in pending[r], rest \in SUBSET pending[r], k \in Nat :
           DispatchOf(r, ev, rest, k, queue)
    BY DEF Dispatches
  <1> DEFINE b == ev.dst
             old == ctx[b].processed
             nrec == ctx'[b].processed
  <1>2. /\ ev \in Event /\ b \in LPs /\ lpToRank[b] = r
        /\ e.dst \in LPs /\ Len(old) \in Nat
    <2>1. ev \in Event /\ lpToRank[b] = r
      BY DEF TypeOK, MessageInv, Placed
    <2>2. b \in LPs /\ e.dst \in LPs
      BY <2>1, EventFields
    <2>3. ctx[b] \in LPContext
      BY <2>2 DEF TypeOK
    <2> QED
      BY <2>1, <2>2, <2>3 DEF LPContext
  <1>3. /\ k \in 0..Len(old) /\ trace' = trace
        /\ \A x \in queue : x \in rest \/ \E i \in (k+1)..Len(old) : x = old[i].ev
        /\ \A i \in 1..k : nrec[i] = old[i]
        /\ \/ Len(nrec) = k
           \/ ev \notin rest /\ Len(nrec) = k + 1 /\ nrec[k + 1].ev = ev
        /\ \A l \in LPs \ {b} : ctx'[l].processed = ctx[l].processed
    <2>1. BackInQueue(old, k, rest, queue)
      BY <1>1 DEF DispatchOf
    <2>2. /\ k \in 0..Len(old)
          /\ \A x \in queue : x \in rest \/ \E i \in (k+1)..Len(old) : x = old[i].ev
      <3> HIDE DEF old
      <3> QED
        BY <2>1 DEF BackInQueue
    <2>3. /\ trace' = trace
          /\ \A i \in 1..k : nrec[i] = old[i]
          /\ \/ Len(nrec) = k
             \/ ev \notin rest /\ Len(nrec) = k + 1 /\ nrec[k + 1].ev = ev
          /\ \A l \in LPs \ {b} : ctx'[l].processed = ctx[l].processed
      BY <1>1 DEF DispatchOf
    <2> QED
      BY <2>2, <2>3
  <1>4. /\ Apart(e)
        /\ \A i, j : RecordedAt(e, i) /\ RecordedAt(e, j) => i = j
        /\ \A i, j : CommittedAt(e, i) /\ CommittedAt(e, j) => i = j
    BY DEF NothingTwice
  <1>5. /\ OnItsWay(e)' => OnItsWay(e)
        /\ Queued(e)' => \/ Queued(e) /\ lpToRank[e.dst] # r
                         \/ e \in queue /\ lpToRank[e.dst] = r
        /\ \A i : CommittedAt(e, i)' <=> CommittedAt(e, i)
    BY <1>3, OthersAfter
  <1>6. Queued(ev)
    BY <1>2 DEF Queued
  \* Its records are those it had up to k, at b, and that of ev.
  <1>7. ASSUME NEW i, RecordedAt(e, i)'
        PROVE  \/ RecordedAt(e, i) /\ (e.dst = b => i \in 1..k)
               \/ e = ev /\ i = k + 1 /\ ev \notin rest
    <2>1. CASE e.dst = b
      <3>1. i \in 1..Len(nrec) /\ nrec[i].ev = e
        BY <1>7, <2>1 DEF RecordedAt
      <3>2. i \in 1..k \/ (i = k + 1 /\ Len(nrec) = k + 1)
        BY <1>3, <3>1
      <3>3. i \in 1..k => RecordedAt(e, i)
        BY <1>2, <1>3, <2>1, <3>1, SMTT(30) DEF RecordedAt
      <3> QED
        BY <1>3, <3>1, <3>2, <3>3
    <2>2. CASE e.dst # b
      <3>1. ctx'[e.dst].processed = ctx[e.dst].processed
        BY <1>2, <1>3, <2>2
      <3> QED
        BY <1>7, <2>2, <3>1 DEF RecordedAt
    <2> QED
      BY <2>1, <2>2
  <1> HIDE DEF old, nrec, b
  <1>8. ASSUME Queued(e)'
        PROVE  \/ Queued(e) /\ (e = ev => ev \in rest)
               \/ e.dst = b /\ \E i \in (k+1)..Len(old) : RecordedAt(e, i)
    <2>1. CASE Queued(e) /\ lpToRank[e.dst] # r
      BY <1>2, <2>1 DEF b
    <2>2. CASE e \in queue /\ lpToRank[e.dst] = r
      <3>1. CASE e \in rest
        BY <2>2, <3>1 DEF Queued
      <3>2. ASSUME NEW i \in (k+1)..Len(old), e = old[i].ev
            PROVE  e.dst = b /\ RecordedAt(e, i)
        <4>1. i \in 1..Len(old)
          BY <1>2, <1>3
        <4>2. e.dst = b
          BY <1>2, <3>2, <4>1 DEF MessageInv, Placed, old
        <4> QED
          BY <3>2, <4>1, <4>2 DEF RecordedAt, old
      <3> QED
        BY <1>3, <2>2, <3>1, <3>2
    <2> QED
      BY <1>5, <1>8, <2>1, <2>2
  <1>9. \A i, j : RecordedAt(e, i)' /\ RecordedAt(e, j)' => i = j
    <2>1. e = ev => \A i : ~ RecordedAt(e, i)
      BY <1>4, <1>6 DEF Apart
    <2> QED
      BY <1>4, <1>7, <2>1
  <1>10. OnItsWay(e)' => ~ Queued(e)' /\ \A i : ~ RecordedAt(e, i)'
    <2> SUFFICES ASSUME OnItsWay(e)
                 PROVE  ~ Queued(e)' /\ \A i : ~ RecordedAt(e, i)'
      BY <1>5
    <2>1. ~ Queued(e) /\ e # ev /\ \A i : ~ RecordedAt(e, i)
      BY <1>4, <1>6 DEF Apart
    <2> QED
      BY <1>7, <1>8, <2>1
  <1>11. ASSUME Queued(e)', NEW i, RecordedAt(e, i)'
         PROVE  FALSE
    <2>1. CASE Queued(e) /\ (e = ev => ev \in rest)
      BY <1>4, <1>7, <1>11, <2>1 DEF Apart
    <2>2. ASSUME e.dst = b, NEW j \in (k+1)..Len(old), RecordedAt(e, j)
          PROVE  FALSE
      <3>1. e # ev
        BY <1>4, <1>6, <2>2 DEF Apart
      <3>2. i \in 1..k /\ i = j
        BY <1>4, <1>7, <1>11, <2>2, <3>1
      <3> QED
        BY <1>3, <2>2, <3>2
    <2> QED
      BY <1>8, <1>11, <2>1, <2>2
  <1>12. ASSUME NEW p, CommittedAt(e, p)'
         PROVE  ~ OnItsWay(e)' /\ ~ Queued(e)' /\ \A j : ~ RecordedAt(e, j)'
    <2>1. /\ ~ OnItsWay(e) /\ ~ Queued(e) /\ e # ev
          /\ \A j : ~ RecordedAt(e, j)
      BY <1>4, <1>5, <1>6, <1>12 DEF Apart
    <2> QED
      BY <1>5, <1>7, <1>8, <2>1
  <1>13. Apart(e)'
    BY <1>10, <1>11, <1>12 DEF Apart
  <1> QED
    BY <1>4, <1>5, <1>9, <1>13

\* Start sends and moves nothing.
LEMMA SeededApart ==
    ASSUME TypeOK, MessageInv, TraceFits, NothingTwice, NEW r \in Ranks, NEW out,
           SendingStep(r, pending[r], out), trace' = trace,
           \A l \in LPs : ctx'[l].processed = ctx[l].processed,
           NEW e \in Event, e \notin out
    PROVE  /\ Apart(e)'
           /\ \A i, j : RecordedAt(e, i)' /\ RecordedAt(e, j)' => i = j
           /\ \A i, j : CommittedAt(e, i)' /\ CommittedAt(e, j)' => i = j
  <1>1. /\ Apart(e)
        /\ \A i, j : RecordedAt(e, i) /\ RecordedAt(e, j) => i = j
        /\ \A i, j : CommittedAt(e, i) /\ CommittedAt(e, j) => i = j
    BY DEF NothingTwice
  <1>2. /\ OnItsWay(e)' => OnItsWay(e)
        /\ Queued(e)' => Queued(e)
        /\ \A i : CommittedAt(e, i)' <=> CommittedAt(e, i)
    BY OthersAfter DEF Queued
  <1>3. e.dst \in LPs
    BY EventFields
  <1>4. \A i : RecordedAt(e, i)' <=> RecordedAt(e, i)
    BY <1>3 DEF RecordedAt
  <1>5. Apart(e)'
    BY <1>1, <1>2, <1>4 DEF Apart
  <1> QED
    BY <1>1, <1>2, <1>4, <1>5

\* Every step keeps the places apart.
LEMMA ApartStep ==
    ASSUME TypeOK, ProcessedInOrder, MessageInv, TraceFits, NothingTwice, [Next]_vars
    PROVE  NothingTwice'
  <1> SUFFICES ASSUME NEW e \in Event
               PROVE  /\ Apart(e)'
                      /\ \A i, j : RecordedAt(e, i)' /\ RecordedAt(e, j)' => i = j
                      /\ \A i, j : CommittedAt(e, i)' /\ CommittedAt(e, j)' => i = j
    BY DEF NothingTwice
  <1>1. CASE Receives
    BY <1>1, ReceivedApart
  <1>2. CASE Settles
    BY <1>2, SettledApart
  <1>3. CASE Seeds
    <2>1. PICK r \in Ranks : \E out :
             /\ SendingStep(r, pending[r], out)
             /\ \A l \in LPs : ctx'[l].processed = ctx[l].processed
             /\ trace' = trace
      BY <1>3 DEF Seeds
    <2>2. PICK out :
             /\ SendingStep(r, pending[r], out)
             /\ \A l \in LPs : ctx'[l].processed = ctx[l].processed
             /\ trace' = trace
      BY <2>1
    <2> QED
      BY <2>2, SentApart, SeededApart
  <1>4. CASE Handles
    <2>1. PICK r \in Ranks : \E queue, out :
             SendingStep(r, queue, out) /\ Dispatches(r, queue)
      BY <1>4 DEF Handles
    <2>2. PICK queue, out : SendingStep(r, queue, out) /\ Dispatches(r, queue)
      BY <2>1
    <2>3. trace' = trace
      BY <2>2 DEF Dispatches, DispatchOf
    <2> QED
      BY <2>2, <2>3, SentApart, HandledApart
  <1> QED
    BY <1>1, <1>2, <1>3, <1>4, StepKinds

\* At first there are only queued events.
LEMMA ApartInit == Init => NothingTwice
  <1> SUFFICES ASSUME Init, NEW e \in Event
               PROVE  /\ ~ OnItsWay(e)
                      /\ \A i : ~ RecordedAt(e, i) /\ ~ CommittedAt(e, i)
    BY DEF NothingTwice, Apart
  <1>1. e.dst \in LPs /\ lpToRank[e.dst] \in Ranks
    BY EventFields, KernelAssumption
  <1>2. /\ net = {} /\ ctx[e.dst].processed = <<>> /\ trace[lpToRank[e.dst]] = <<>>
    BY <1>1 DEF Init, NewContext
  <1>3. 1..Len(ctx[e.dst].processed) = {} /\ 1..Len(trace[lpToRank[e.dst]]) = {}
    BY <1>2
  <1> QED
    BY <1>2, <1>3 DEF OnItsWay, RecordedAt, CommittedAt

\* No event or anti-message is ever in two places, or twice in one: on its way,
\* in the queue of the receiver's rank, among the receiver's records or in what
\* the rank has committed.  So however messages are delayed, and however often
\* rollbacks put events back, an LP never has the same event executed twice,
\* and none is committed twice.
THEOREM NothingHandledTwice == Spec => []NothingTwice
  <1>1. Init => NothingTwice
    BY ApartInit
  <1>2. /\ TypeOK /\ ProcessedInOrder /\ MessageInv /\ DeliveryInv /\ NothingTwice
        /\ [Next]_vars
        => NothingTwice'
    BY ApartStep DEF DeliveryInv
  <1>3. /\ TypeOK /\ ProcessedInOrder /\ MessageInv /\ DeliveryInv /\ [Next]_vars
        => DeliveryInv'
    BY DeliveryStep
  <1> QED
    BY <1>1, <1>2, <1>3, DeliveryInit, TypeCorrect, RecordsInOrder,
       MessagesUnambiguous, PTL DEF Spec

-----------------------------------------------------------------------------
(***************************************************************************)
(* Speculation leaves no trace: the state of an LP is the one that the     *)
(* events lead to that have been committed for it, and those it has        *)
(* processed and not undone, executed once each and in stamp order.        *)
(***************************************************************************)
\* h are events for LP l, different ones and in stamp order, that take it from
\* its initial state through the states st.
Execution(l, h, st) ==
    /\ st[0] = InitState(l)
    /\ \A i \in 1..Len(h) : h[i].dst = l /\ st[i] = After(l, st[i - 1], h[i])
    /\ \A i \in 1..Len(h) : \A j \in 1..(i-1) : h[j] # h[i] /\ Le(h[j].ts, h[i].ts)

Among(e, h) == \E i \in 1..Len(h) : h[i] = e
IsCommitted(e) == \E i : CommittedAt(e, i)
IsRecorded(e) == \E i : RecordedAt(e, i)

\* What a rollback of all records of LP l restores is where the events take it
\* that have been committed for it.
BasedOn(l, h, st) ==
    /\ Execution(l, h, st)
    /\ \A e \in Event : Among(e, h) <=> e.dst = l /\ IsCommitted(e)
    /\ st[Len(h)] = RestoredState(ctx[l], 0)

CommittedReplays ==
    \A l \in LPs : \E h \in Seq(Event) : \E st \in [0..Len(h) -> LPState] :
        BasedOn(l, h, st)

\* And the records take it from there to its state.
ReachedBy(l, h, st) ==
    /\ Execution(l, h, st)
    /\ \A e \in Event : Among(e, h) <=> e.dst = l /\ (IsCommitted(e) \/ IsRecorded(e))
    /\ st[Len(h)] = ctx[l].state

HistoryReplays ==
    \A l \in LPs : \E h \in Seq(Event) : \E st \in [0..Len(h) -> LPState] :
        ReachedBy(l, h, st)

\* While the run goes on, what has been committed is below the GVT.
CommittedBelowGvt ==
    Running => \A r \in Ranks : \A i \in 1..Len(trace[r]) : Lt(trace[r][i].ts, lastGvt)

\* What a rollback restores is a state.
LEMMA RestoredType ==
    ASSUME NEW c \in LPContext, NEW n \in 0..Len(c.processed)
    PROVE  RestoredState(c, n) \in LPState
  <1>1. ASSUME NEW e \in Entities
        PROVE  RestoredState(c, n)[e] \in Values
    <2>1. ASSUME NEW i \in 1..Len(c.processed), IsFirstSnap(c, n, e, i)
          PROVE  c.processed[i].pre[e] \in Values
      <3>1. c.processed[i] \in ProcessedRecord /\ e \in DOMAIN c.processed[i].pre
        BY <2>1 DEF LPContext, IsFirstSnap
      <3> QED
        BY <3>1 DEF ProcessedRecord
    <2>2. c.state[e] \in Values
      BY DEF LPContext, LPState
    <2> QED
      BY <2>1, <2>2, RestoredEntity
  <1>2. RestoredState(c, n) = [e \in Entities |-> RestoredState(c, n)[e]]
    BY RestoredIsState
  <1> QED
    BY <1>1, <1>2 DEF LPState

\* The first k records are in order, and after what is in h.
InOrderAfter(l, c, k, h) ==
    \A i \in 1..k :
        LET e == c.processed[i].ev
        IN  /\ e.dst = l
            /\ \A j \in 1..(i-1) : c.processed[j].ev # e /\ Le(c.processed[j].ev.ts, e.ts)
            /\ \A j \in 1..Len(h) : h[j] # e /\ Le(h[j].ts, e.ts)

\* g is an execution that starts with h and goes on with the first k records; t
\* are its states.
Continued(l, c, k, h, g, t) ==
    /\ Len(g) = Len(h) + k
    /\ \A i \in 1..Len(h) : g[i] = h[i]
    /\ \A i \in 1..k : g[Len(h) + i] = c.processed[i].ev
    /\ Execution(l, g, t)
    /\ \A e : Among(e, g) <=> Among(e, h) \/ \E i \in 1..k : c.processed[i].ev = e
    /\ t[Len(g)] = RestoredState(c, k)

\* The first k records continue an execution that leads to the state before
\* them.
LEMMA ExecutionContinues ==
    ASSUME NEW l \in LPs, NEW c \in LPContext, Replays(l, c),
           NEW k \in 0..Len(c.processed),
           NEW h \in Seq(Event), NEW st \in [0..Len(h) -> LPState],
           Execution(l, h, st), st[Len(h)] = RestoredState(c, 0),
           InOrderAfter(l, c, k, h)
    PROVE  \E g \in Seq(Event) : \E t \in [0..Len(g) -> LPState] :
              Continued(l, c, k, h, g, t)
  <1> DEFINE n == Len(h)
             P == c.processed
             g == [i \in 1..(n + k) |-> IF i <= n THEN h[i] ELSE P[i - n].ev]
             t == [i \in 0..(n + k) |-> IF i <= n THEN st[i]
                                                  ELSE RestoredState(c, i - n)]
  <1>1. n \in Nat /\ Len(P) \in Nat /\ k \in 0..Len(P)
    BY DEF LPContext
  <1>2. /\ \A i \in 1..n : h[i] \in Event
        /\ \A i \in 1..k : P[i].ev \in Event /\ i \in 1..Len(P)
    <2>1. P \in Seq(ProcessedRecord)
      BY DEF LPContext
    <2> HIDE DEF P, n
    <2>2. \A i \in 1..k : i \in 1..Len(P)
      BY <1>1
    <2>3. \A i \in 1..k : P[i].ev \in Event
      <3>1. \A i \in 1..Len(P) : P[i] \in ProcessedRecord
        BY <2>1
      <3>2. \A rec \in ProcessedRecord : rec.ev \in Event
        BY DEF ProcessedRecord
      <3> QED
        BY <2>2, <3>1, <3>2
    <2>4. \A i \in 1..n : h[i] \in Event
      BY DEF n
    <2> QED
      BY <2>2, <2>3, <2>4
  <1>3. \A i \in 0..k : RestoredState(c, i) \in LPState
    BY <1>1, RestoredType
  <1>4. \A i \in 1..k : RestoredState(c, i) = After(l, RestoredState(c, i - 1), P[i].ev)
    BY <1>2 DEF Replays
  <1>5. /\ st[0] = InitState(l)
        /\ \A i \in 1..n : h[i].dst = l /\ st[i] = After(l, st[i - 1], h[i])
        /\ \A i \in 1..n : \A j \in 1..(i-1) : h[j] # h[i] /\ Le(h[j].ts, h[i].ts)
    BY DEF Execution
  <1>6. st[n] = RestoredState(c, 0) /\ \A i \in 0..n : st[i] \in LPState
    OBVIOUS
  <1>7. /\ \A i \in 1..k : P[i].ev.dst = l
        /\ \A i \in 1..k : \A j \in 1..(i-1) :
              P[j].ev # P[i].ev /\ Le(P[j].ev.ts, P[i].ev.ts)
        /\ \A i \in 1..k : \A j \in 1..n : h[j] # P[i].ev /\ Le(h[j].ts, P[i].ev.ts)
    BY DEF InOrderAfter
  <1> HIDE DEF n, P
  <1>8. g \in Seq(Event) /\ Len(g) = n + k
    <2>1. \A i \in 1..(n + k) : g[i] \in Event
      <3> TAKE i \in 1..(n + k)
      <3>1. i \in 1..n \/ (i > n /\ i - n \in 1..k)
        BY <1>1
      <3> QED
        BY <1>1, <1>2, <3>1
    <2>2. n + k \in Nat
      BY <1>1
    <2>3. g \in [1..(n + k) -> Event]
      BY <2>1
    <2> HIDE DEF g
    <2> QED
      BY <2>2, <2>3
  <1>9. t \in [0..Len(g) -> LPState]
    <2>1. \A i \in 0..(n + k) : t[i] \in LPState
      <3> TAKE i \in 0..(n + k)
      <3>1. i \in 0..n \/ (i > n /\ i - n \in 0..k)
        BY <1>1
      <3> QED
        BY <1>1, <1>3, <1>6, <3>1
    <2> QED
      BY <1>8, <2>1
  <1>10. /\ \A i \in 1..n : g[i] = h[i] /\ i \in 1..(n + k)
         /\ \A i \in 1..k : g[n + i] = P[i].ev /\ n + i \in 1..(n + k)
         /\ \A i \in 0..n : t[i] = st[i]
         /\ \A i \in 1..k : t[n + i] = RestoredState(c, i)
    <2>1. \A i \in 1..k : ~ (n + i <= n) /\ (n + i) - n = i
             /\ n + i \in 1..(n + k) /\ n + i \in 0..(n + k)
      BY <1>1
    <2>2. \A i \in 0..n : i <= n /\ i \in 0..(n + k) /\ (i # 0 => i \in 1..(n + k))
      BY <1>1
    <2> QED
      BY <1>1, <2>1, <2>2
  <1>11. \A i \in 1..k : t[n + i - 1] = RestoredState(c, i - 1)
    <2> TAKE i \in 1..k
    <2>1. i = 1 \/ i - 1 \in 1..k
      BY <1>1
    <2>2. i = 1 => n + i - 1 = n /\ i - 1 = 0 /\ n \in 0..n
      BY <1>1
    <2>3. n + i - 1 = n + (i - 1)
      BY <1>1
    <2> HIDE DEF t
    <2> QED
      BY <1>6, <1>10, <2>1, <2>2, <2>3
  <1>12. \A i \in 1..(n + k) : i \in 1..n \/ \E p \in 1..k : i = n + p
    <2> TAKE i \in 1..(n + k)
    <2>1. i \in 1..n \/ (i - n \in 1..k /\ i = n + (i - n))
      BY <1>1
    <2> QED
      BY <2>1
  <1> HIDE DEF g, t
  <1>13. ASSUME NEW i \in 1..Len(g)
         PROVE  g[i].dst = l /\ t[i] = After(l, t[i - 1], g[i])
    <2>1. CASE i \in 1..n
      <3>1. i \in 0..n /\ i - 1 \in 0..n
        BY <1>1, <2>1
      <3> QED
        BY <1>5, <1>10, <2>1, <3>1
    <2>2. CASE i \notin 1..n
      <3>1. PICK p \in 1..k : i = n + p
        BY <1>8, <1>12, <2>2
      <3>2. n + p = i /\ n + p - 1 = i - 1
        BY <1>1, <3>1
      <3>3. g[i] = P[p].ev /\ t[i] = RestoredState(c, p)
        BY <1>10, <3>2
      <3>4. t[i - 1] = RestoredState(c, p - 1)
        BY <1>11, <3>2
      <3>5. /\ P[p].ev.dst = l
            /\ RestoredState(c, p) = After(l, RestoredState(c, p - 1), P[p].ev)
        BY <1>4, <1>7
      <3> QED
        BY <3>3, <3>4, <3>5
    <2> QED
      BY <2>1, <2>2
  <1>14. ASSUME NEW i \in 1..Len(g), NEW j \in 1..(i-1)
         PROVE  g[j] # g[i] /\ Le(g[j].ts, g[i].ts)
    <2>1. j \in 1..(n + k) /\ j < i /\ i \in 1..(n + k)
      BY <1>1, <1>8
    <2>2. CASE i \in 1..n
      <3>1. j \in 1..n
        BY <1>1, <2>1, <2>2
      <3> QED
        BY <1>5, <1>10, <2>2, <3>1
    <2>3. ASSUME NEW p \in 1..k, i = n + p
          PROVE  g[j] # g[i] /\ Le(g[j].ts, g[i].ts)
      <3> g[i] = P[p].ev
        BY <1>10, <2>3
      <3>1. CASE j \in 1..n
        <4>1. g[j] = h[j] /\ h[j] # P[p].ev /\ Le(h[j].ts, P[p].ev.ts)
          BY <1>7, <1>10, <3>1
        <4> QED
          BY <4>1
      <3>2. ASSUME NEW q \in 1..k, j = n + q
            PROVE  g[j] # g[i] /\ Le(g[j].ts, g[i].ts)
        <4>1. q \in 1..(p-1)
          BY <1>1, <2>1, <2>3, <3>2
        <4>2. g[j] = P[q].ev
          BY <1>10, <3>2
        <4>3. P[q].ev # P[p].ev /\ Le(P[q].ev.ts, P[p].ev.ts)
          BY <1>7, <4>1
        <4> QED
          BY <4>2, <4>3
      <3> QED
        BY <1>12, <2>1, <3>1, <3>2
    <2> QED
      BY <1>12, <2>1, <2>2, <2>3
  <1>15. Execution(l, g, t)
    <2>1. t[0] = InitState(l)
      <3>1. 0 \in 0..n
        BY <1>1
      <3> QED
        BY <1>5, <1>10, <3>1
    <2> QED
      BY <1>13, <1>14, <2>1 DEF Execution
  <1>16. \A e : Among(e, g) <=> Among(e, h) \/ \E i \in 1..k : P[i].ev = e
    <2> TAKE e
    <2>1. ASSUME Among(e, g)
          PROVE  Among(e, h) \/ \E i \in 1..k : P[i].ev = e
      <3>1. PICK i \in 1..(n + k) : g[i] = e
        BY <1>8, <2>1 DEF Among
      <3>2. i \in 1..n => h[i] = e
        BY <1>10, <3>1
      <3>3. \A p \in 1..k : i = n + p => P[p].ev = e
        BY <1>10, <3>1
      <3> QED
        BY <1>12, <3>2, <3>3 DEF Among, n
    <2>2. ASSUME Among(e, h)
          PROVE  Among(e, g)
      <3>1. PICK i \in 1..n : h[i] = e
        BY <2>2 DEF Among, n
      <3> QED
        BY <1>8, <1>10, <3>1 DEF Among
    <2>3. ASSUME NEW p \in 1..k, P[p].ev = e
          PROVE  Among(e, g)
      BY <1>8, <1>10, <2>3 DEF Among
    <2> QED
      BY <2>1, <2>2, <2>3
  <1>17. t[Len(g)] = RestoredState(c, k)
    <2>1. CASE k = 0
      <3>1. Len(g) = n /\ n \in 0..n
        BY <1>1, <1>8, <2>1
      <3> QED
        BY <1>6, <1>10, <2>1, <3>1
    <2>2. CASE k # 0
      <3>1. k \in 1..k
        BY <1>1, <2>2
      <3> QED
        BY <1>8, <1>10, <3>1
    <2> QED
      BY <2>1, <2>2
  <1>18. /\ Len(g) = n + k
         /\ \A i \in 1..n : g[i] = h[i]
         /\ \A i \in 1..k : g[n + i] = P[i].ev
    BY <1>8, <1>10
  <1> QED
    BY <1>8, <1>9, <1>15, <1>16, <1>17, <1>18 DEF P, n, Continued

\* The events rank r commits with gvt: its records below gvt.
LEMMA NewlyCommitted ==
    ASSUME TypeOK, TraceFits, NEW R \in SUBSET Ranks, NEW gvt \in Stamp,
           Prune(R, gvt), NEW r \in R
    PROVE  /\ InARow(trace[r], CommittedEvents(r, gvt), trace'[r])
           /\ \A e : Among(e, CommittedEvents(r, gvt))
                 <=> \E l \in LpsOn(r) : \E i \in 1..PrunedProcessed(ctx[l], gvt) :
                        e = ctx[l].processed[i].ev
  <1> DEFINE new == CommittedEvents(r, gvt)
             C == CommittedRecords(r, gvt)
             S == {rec.ev : rec \in C}
  <1>1. r \in Ranks
    OBVIOUS
  <1>2. IsSorting(S, new) /\ new \in Seq(Event)
    BY <1>1, CommittedEventsSpec
  <1>3. trace[r] \in Seq(Event) /\ trace'[r] = trace[r] \o new
    BY <1>1 DEF TraceFits, Prune
  <1>4. \A rec : rec \in C
           <=> \E l \in LpsOn(r) : \E i \in 1..PrunedProcessed(ctx[l], gvt) :
                  rec = ctx[l].processed[i]
    BY <1>1, CommittedSpec
  <1> HIDE DEF new, C
  <1>5. \A e : e \in S
           <=> \E l \in LpsOn(r) : \E i \in 1..PrunedProcessed(ctx[l], gvt) :
                  e = ctx[l].processed[i].ev
    BY <1>4
  <1> HIDE DEF S
  <1>6. \A e : Among(e, new) <=> e \in S
    BY <1>2 DEF IsSorting, Among
  <1>7. InARow(trace[r], new, trace'[r])
    BY <1>2, <1>3, Concatenated
  <1> QED
    BY <1>5, <1>6, <1>7 DEF new

\* prune_to_gvt_ commits only what is below its argument.
LEMMA PrunedBelow ==
    ASSUME TypeOK, TraceFits, NEW R \in SUBSET Ranks, NEW gvt \in Stamp,
           Prune(R, gvt), Le(lastGvt, gvt),
           \A r \in Ranks : \A i \in 1..Len(trace[r]) : Lt(trace[r][i].ts, lastGvt)
    PROVE  \A r \in Ranks : \A i \in 1..Len(trace'[r]) : Lt(trace'[r][i].ts, gvt)
  <1> SUFFICES ASSUME NEW r \in Ranks, NEW i \in 1..Len(trace'[r])
               PROVE  Lt(trace'[r][i].ts, gvt)
    OBVIOUS
  <1>1. ASSUME NEW j \in 1..Len(trace[r])
        PROVE  Lt(trace[r][j].ts, gvt)
    <2>1. trace[r][j] \in Event /\ lastGvt \in Stamp
      BY DEF TraceFits, TypeOK
    <2>2. trace[r][j].ts \in Stamp /\ Lt(trace[r][j].ts, lastGvt)
      BY <2>1, EventFields
    <2> QED
      BY <2>1, <2>2, LeOrder
  <1>2. CASE r \notin R
    <2>1. trace'[r] = trace[r]
      BY <1>2 DEF Prune
    <2> QED
      BY <1>1, <2>1
  <1>3. CASE r \in R
    <2> DEFINE new == CommittedEvents(r, gvt)
    <2>1. /\ InARow(trace[r], new, trace'[r])
          /\ \A e : Among(e, new)
                <=> \E l \in LpsOn(r) : \E p \in 1..PrunedProcessed(ctx[l], gvt) :
                       e = ctx[l].processed[p].ev
      BY <1>3, NewlyCommitted
    <2> HIDE DEF new
    <2>2. ASSUME NEW j \in 1..Len(new)
          PROVE  Lt(new[j].ts, gvt)
      <3>1. Among(new[j], new)
        BY DEF Among
      <3>2. PICK l \in LpsOn(r) : \E p \in 1..PrunedProcessed(ctx[l], gvt) :
               new[j] = ctx[l].processed[p].ev
        BY <2>1, <3>1
      <3>3. ctx[l] \in LPContext
        BY DEF TypeOK, LpsOn
      <3> QED
        BY <3>2, <3>3, PrunedProcessedSpec
    <2>3. CASE i \in 1..Len(trace[r])
      BY <1>1, <2>1, <2>3 DEF InARow
    <2>4. ASSUME NEW j \in 1..Len(new), i = Len(trace[r]) + j
          PROVE  Lt(trace'[r][i].ts, gvt)
      <3>1. trace'[r][i] = new[j]
        BY <2>1, <2>4 DEF InARow
      <3> QED
        BY <2>2, <3>1
    <2> QED
      BY <2>1, <2>3, <2>4 DEF InARow
  <1> QED
    BY <1>2, <1>3

\* Every step keeps what is committed below the GVT.
LEMMA BelowStep ==
    ASSUME TypeOK, TraceFits, CommittedBelowGvt, [Next]_vars
    PROVE  CommittedBelowGvt'
  <1>1. CASE PrunesNothing
    BY <1>1 DEF CommittedBelowGvt, PrunesNothing, Running
  <1>2. ASSUME NEW R \in SUBSET Ranks, NEW gvt \in Stamp, PrunesTo(R, gvt)
        PROVE  CommittedBelowGvt'
    <2>1. \A r \in Ranks : \A i \in 1..Len(trace[r]) : Lt(trace[r][i].ts, lastGvt)
      BY <1>2 DEF CommittedBelowGvt, PrunesTo
    <2>2. \A r \in Ranks : \A i \in 1..Len(trace'[r]) : Lt(trace'[r][i].ts, gvt)
      BY <1>2, <2>1, PrunedBelow DEF PrunesTo
    <2> QED
      BY <1>2, <2>2 DEF CommittedBelowGvt, PrunesTo
  <1> QED
    BY <1>1, <1>2, PruneOrNot

\* What is committed for an LP is not after what it has recorded.
LEMMA CommittedFirst ==
    ASSUME TypeOK, GvtIsLowerBound, TerminationIsClean, NothingTwice, TraceFits,
           CommittedBelowGvt, NEW e \in Event, NEW f \in Event, e.dst = f.dst,
           IsCommitted(e), IsRecorded(f)
    PROVE  e # f /\ Le(e.ts, f.ts)
  <1> DEFINE r == lpToRank[e.dst]
  <1>1. e.dst \in LPs /\ r \in Ranks /\ e.ts \in Stamp /\ f.ts \in Stamp
    BY EventFields, KernelAssumption
  <1>2. PICK i : CommittedAt(e, i)
    BY DEF IsCommitted
  <1>3. PICK j : RecordedAt(f, j)
    BY DEF IsRecorded
  <1>4. e # f
    BY <1>2, <1>3 DEF NothingTwice, Apart
  <1>5. j \in 1..Len(ctx[e.dst].processed) /\ ctx[e.dst].processed[j].ev = f
    BY <1>3 DEF RecordedAt
  <1>6. Running
    <2> SUFFICES ASSUME ~ Running
                 PROVE  FALSE
      OBVIOUS
    <2>1. ctx[e.dst].processed = <<>>
      BY <1>1 DEF Running, TerminationIsClean, AllAt
    <2> QED
      BY <1>5, <2>1
  <1>7. Lt(e.ts, lastGvt)
    BY <1>1, <1>2, <1>6 DEF CommittedBelowGvt, CommittedAt
  <1>8. Le(lastGvt, f.ts)
    BY <1>1, <1>5 DEF GvtIsLowerBound
  <1>9. lastGvt \in Stamp
    BY DEF TypeOK
  <1> QED
    BY <1>1, <1>4, <1>7, <1>8, <1>9, LeOrder

\* An LP's records follow what is committed for it.
LEMMA RecordsFollow ==
    ASSUME TypeOK, ProcessedInOrder, MessageInv, GvtIsLowerBound, TerminationIsClean,
           NothingTwice, TraceFits, CommittedBelowGvt,
           NEW l \in LPs, NEW k \in 0..Len(ctx[l].processed), NEW h \in Seq(Event),
           \A e \in Event : Among(e, h) => e.dst = l /\ IsCommitted(e)
    PROVE  InOrderAfter(l, ctx[l], k, h)
  <1> DEFINE P == ctx[l].processed
  <1>1. Len(P) \in Nat /\ \A i \in 1..Len(P) : P[i] \in ProcessedRecord
    BY DEF TypeOK, LPContext
  <1>2. \A i \in 1..Len(P) : P[i].ev \in Event
    <2>1. \A rec \in ProcessedRecord : rec.ev \in Event
      BY DEF ProcessedRecord
    <2> HIDE DEF P
    <2> QED
      BY <1>1, <2>1
  <1>3. \A i \in 1..Len(P) : P[i].ev.dst = l
    BY DEF MessageInv, Placed
  <1>4. \A i \in 1..Len(P) : \A j \in 1..i : Le(P[j].ev.ts, P[i].ev.ts)
    BY DEF ProcessedInOrder
  <1>5. \A i \in 1..Len(P) : RecordedAt(P[i].ev, i)
    BY <1>3 DEF RecordedAt
  <1>6. \A j \in 1..Len(h) : h[j] \in Event /\ Among(h[j], h)
    BY DEF Among
  <1>7. k \in 0..Len(P)
    OBVIOUS
  <1> SUFFICES ASSUME NEW i \in 1..k
               PROVE  /\ P[i].ev.dst = l
                      /\ \A j \in 1..(i-1) :
                            P[j].ev # P[i].ev /\ Le(P[j].ev.ts, P[i].ev.ts)
                      /\ \A j \in 1..Len(h) :
                            h[j] # P[i].ev /\ Le(h[j].ts, P[i].ev.ts)
    BY DEF InOrderAfter
  <1> HIDE DEF P
  <1>8. i \in 1..Len(P)
    BY <1>1, <1>7
  <1>9. ASSUME NEW j \in 1..(i-1)
        PROVE  P[j].ev # P[i].ev /\ Le(P[j].ev.ts, P[i].ev.ts)
    <2>1. j \in 1..Len(P) /\ j \in 1..i /\ j # i
      BY <1>1, <1>8
    <2>2. RecordedAt(P[j].ev, j) /\ RecordedAt(P[i].ev, i)
      BY <1>5, <1>8, <2>1
    <2>3. P[j].ev # P[i].ev
      BY <1>2, <1>8, <2>1, <2>2 DEF NothingTwice
    <2> QED
      BY <1>4, <1>8, <2>1, <2>3
  <1>10. ASSUME NEW j \in 1..Len(h)
         PROVE  h[j] # P[i].ev /\ Le(h[j].ts, P[i].ev.ts)
    <2>1. h[j] \in Event /\ h[j].dst = l /\ IsCommitted(h[j])
      BY <1>6
    <2>2. P[i].ev \in Event /\ P[i].ev.dst = l /\ IsRecorded(P[i].ev)
      BY <1>2, <1>3, <1>5, <1>8 DEF IsRecorded
    <2> QED
      BY <2>1, <2>2, CommittedFirst
  <1> QED
    BY <1>3, <1>8, <1>9, <1>10

\* What is committed for LP l after a call of prune_to_gvt_ on its rank.
LEMMA CommittedAfter ==
    ASSUME TypeOK, MessageInv, TraceFits, NEW R \in SUBSET Ranks, NEW gvt \in Stamp,
           Prune(R, gvt), NEW l \in LPs, lpToRank[l] \in R, NEW e \in Event, e.dst = l
    PROVE  IsCommitted(e)' <=> \/ IsCommitted(e)
                             \/ \E i \in 1..PrunedProcessed(ctx[l], gvt) :
                                   ctx[l].processed[i].ev = e
  <1> DEFINE r == lpToRank[l]
             new == CommittedEvents(r, gvt)
  <1>1. /\ InARow(trace[r], new, trace'[r])
        /\ \A f : Among(f, new)
              <=> \E d \in LpsOn(r) : \E i \in 1..PrunedProcessed(ctx[d], gvt) :
                     f = ctx[d].processed[i].ev
    BY NewlyCommitted
  <1>2. l \in LpsOn(r)
    BY DEF LpsOn
  <1> HIDE DEF new
  <1>3. IsCommitted(e)' <=> \E i \in 1..Len(trace'[r]) : trace'[r][i] = e
    BY DEF IsCommitted, CommittedAt
  <1>4. IsCommitted(e) <=> \E i \in 1..Len(trace[r]) : trace[r][i] = e
    BY DEF IsCommitted, CommittedAt
  <1> HIDE DEF r
  <1>5. IsCommitted(e)' <=> IsCommitted(e) \/ Among(e, new)
    <2>1. ASSUME NEW i \in 1..Len(trace'[r]), trace'[r][i] = e
          PROVE  IsCommitted(e) \/ Among(e, new)
      <3>1. CASE i \in 1..Len(trace[r])
        BY <1>1, <1>4, <2>1, <3>1 DEF InARow
      <3>2. ASSUME NEW j \in 1..Len(new), i = Len(trace[r]) + j
            PROVE  Among(e, new)
        BY <1>1, <2>1, <3>2 DEF InARow, Among
      <3> QED
        BY <1>1, <3>1, <3>2 DEF InARow
    <2>2. ASSUME NEW i \in 1..Len(trace[r]), trace[r][i] = e
          PROVE  IsCommitted(e)'
      BY <1>1, <1>3, <2>2 DEF InARow
    <2>3. ASSUME NEW j \in 1..Len(new), new[j] = e
          PROVE  IsCommitted(e)'
      BY <1>1, <1>3, <2>3 DEF InARow
    <2> QED
      BY <1>3, <1>4, <2>1, <2>2, <2>3 DEF Among
  <1>6. ASSUME NEW d \in LpsOn(r), NEW i \in 1..PrunedProcessed(ctx[d], gvt),
               e = ctx[d].processed[i].ev
        PROVE  d = l
    <2>1. d \in LPs /\ ctx[d] \in LPContext
      BY DEF TypeOK, LpsOn
    <2>2. PrunedProcessed(ctx[d], gvt) \in 0..Len(ctx[d].processed)
      BY <2>1, PrunedProcessedSpec
    <2>3. Len(ctx[d].processed) \in Nat
      BY <2>1 DEF LPContext
    <2>4. i \in 1..Len(ctx[d].processed)
      BY <2>2, <2>3
    <2> QED
      BY <1>6, <2>1, <2>4 DEF MessageInv, Placed
  <1>7. Among(e, new) <=> \E i \in 1..PrunedProcessed(ctx[l], gvt) :
                             ctx[l].processed[i].ev = e
    BY <1>1, <1>2, <1>6
  <1> QED
    BY <1>5, <1>7

\* prune_to_gvt_ commits the next events of each execution.
LEMMA BasePrune ==
    ASSUME TypeOK, ProcessedInOrder, MessageInv, GvtIsLowerBound, TerminationIsClean,
           NothingTwice, TraceFits, CommittedBelowGvt, RecordsReplay,
           CommittedReplays, NEW R \in SUBSET Ranks, NEW gvt \in Stamp, Prune(R, gvt)
    PROVE  CommittedReplays'
  <1> SUFFICES ASSUME NEW l \in LPs
               PROVE  \E h \in Seq(Event) : \E st \in [0..Len(h) -> LPState] :
                         BasedOn(l, h, st)'
    BY DEF CommittedReplays
  <1>1. PICK h \in Seq(Event) : \E st \in [0..Len(h) -> LPState] : BasedOn(l, h, st)
    BY DEF CommittedReplays
  <1>2. PICK st \in [0..Len(h) -> LPState] : BasedOn(l, h, st)
    BY <1>1
  <1>3. /\ Execution(l, h, st)
        /\ \A e \in Event : Among(e, h) <=> e.dst = l /\ IsCommitted(e)
        /\ st[Len(h)] = RestoredState(ctx[l], 0)
    BY <1>2 DEF BasedOn
  <1>4. CASE lpToRank[l] \notin R
    <2>1. ctx'[l] = ctx[l] /\ trace'[lpToRank[l]] = trace[lpToRank[l]]
      BY <1>4, KernelAssumption DEF Prune
    <2>2. \A e \in Event : e.dst = l => (IsCommitted(e)' <=> IsCommitted(e))
      BY <2>1 DEF IsCommitted, CommittedAt
    <2>3. BasedOn(l, h, st)'
      BY <1>3, <2>1, <2>2 DEF BasedOn
    <2> QED
      BY <2>3
  <1>5. CASE lpToRank[l] \in R
    <2> DEFINE c == ctx[l]
               k == PrunedProcessed(c, gvt)
    <2>1. c \in LPContext /\ k \in 0..Len(c.processed)
      BY PrunedProcessedSpec DEF TypeOK
    <2>2. Replays(l, c)
      BY ReplaysAll
    <2>3. InOrderAfter(l, c, k, h)
      BY <1>3, <2>1, RecordsFollow
    <2>4. ctx'[l] = Pruned(c, gvt)
      BY <1>5 DEF Prune
    <2>5. RestoredState(ctx'[l], 0) = RestoredState(c, k)
      BY <2>1, <2>2, <2>4, ReplaysPruned
    <2>6. \A e \in Event : e.dst = l =>
             (IsCommitted(e)' <=> \/ IsCommitted(e)
                                \/ \E i \in 1..k : c.processed[i].ev = e)
      BY <1>5, CommittedAfter
    <2>7. \A i \in 1..k : c.processed[i].ev.dst = l
      BY <2>3 DEF InOrderAfter
    <2>8. st[Len(h)] = RestoredState(c, 0)
      BY <1>3
    <2> HIDE DEF c, k
    <2>9. PICK g \in Seq(Event) : \E t \in [0..Len(g) -> LPState] :
              Continued(l, c, k, h, g, t)
      BY <1>3, <2>1, <2>2, <2>3, <2>8, ExecutionContinues
    <2>10. PICK t \in [0..Len(g) -> LPState] : Continued(l, c, k, h, g, t)
      BY <2>9
    <2>11. \A e \in Event : Among(e, g) <=> e.dst = l /\ IsCommitted(e)'
      BY <1>3, <2>6, <2>7, <2>10 DEF Continued
    <2>12. BasedOn(l, g, t)'
      BY <2>5, <2>10, <2>11 DEF BasedOn, Continued
    <2> QED
      BY <2>12
  <1> QED
    BY <1>4, <1>5

\* Every step keeps the executions of what is committed.
LEMMA BaseStep ==
    ASSUME TypeOK, ProcessedInOrder, MessageInv, GvtIsLowerBound, TerminationIsClean,
           NothingTwice, TraceFits, CommittedBelowGvt, RecordsReplay, WritesDeclared,
           CommittedReplays, [Next]_vars
    PROVE  CommittedReplays'
  <1>1. CASE BaseKept /\ UNCHANGED trace
    <2> SUFFICES ASSUME NEW l \in LPs
                 PROVE  \E h \in Seq(Event) : \E st \in [0..Len(h) -> LPState] :
                           BasedOn(l, h, st)'
      BY DEF CommittedReplays
    <2>1. PICK h \in Seq(Event) : \E st \in [0..Len(h) -> LPState] : BasedOn(l, h, st)
      BY DEF CommittedReplays
    <2>2. PICK st \in [0..Len(h) -> LPState] : BasedOn(l, h, st)
      BY <2>1
    <2>3. RestoredState(ctx'[l], 0) = RestoredState(ctx[l], 0)
      BY <1>1 DEF BaseKept
    <2>4. \A e \in Event : IsCommitted(e)' <=> IsCommitted(e)
      BY <1>1 DEF IsCommitted, CommittedAt
    <2>5. BasedOn(l, h, st)'
      BY <2>2, <2>3, <2>4 DEF BasedOn
    <2> QED
      BY <2>5
  <1>2. ASSUME NEW R \in SUBSET Ranks, NEW gvt \in Stamp, Prune(R, gvt)
        PROVE  CommittedReplays'
    BY <1>2, BasePrune
  <1> QED
    BY <1>1, <1>2, ReplayStep

\* The records take each LP from there to its state.
LEMMA HistoryFromBase ==
    ASSUME TypeOK, ProcessedInOrder, MessageInv, GvtIsLowerBound, TerminationIsClean,
           NothingTwice, TraceFits, CommittedBelowGvt, RecordsReplay, CommittedReplays
    PROVE  HistoryReplays
  <1> SUFFICES ASSUME NEW l \in LPs
               PROVE  \E h \in Seq(Event) : \E st \in [0..Len(h) -> LPState] :
                         ReachedBy(l, h, st)
    BY DEF HistoryReplays
  <1>1. PICK h \in Seq(Event) : \E st \in [0..Len(h) -> LPState] : BasedOn(l, h, st)
    BY DEF CommittedReplays
  <1>2. PICK st \in [0..Len(h) -> LPState] : BasedOn(l, h, st)
    BY <1>1
  <1> DEFINE c == ctx[l]
             k == Len(c.processed)
  <1>3. /\ Execution(l, h, st)
        /\ \A e \in Event : Among(e, h) <=> e.dst = l /\ IsCommitted(e)
        /\ st[Len(h)] = RestoredState(c, 0)
    BY <1>2 DEF BasedOn
  <1>4. c \in LPContext
    BY DEF TypeOK
  <1>5. k \in 0..Len(c.processed)
    BY <1>4 DEF LPContext
  <1>6. Replays(l, c)
    BY ReplaysAll
  <1>7. InOrderAfter(l, c, k, h)
    BY <1>3, <1>5, RecordsFollow
  <1>8. RestoredState(c, k) = ctx[l].state
    BY <1>4, RestoredAll
  <1>9. \A i \in 1..k : c.processed[i].ev.dst = l
    BY <1>7 DEF InOrderAfter
  <1>10. \A e : e.dst = l => (IsRecorded(e) <=> \E i \in 1..k : c.processed[i].ev = e)
    BY DEF IsRecorded, RecordedAt
  <1> HIDE DEF c, k
  <1>11. PICK g \in Seq(Event) : \E t \in [0..Len(g) -> LPState] :
             Continued(l, c, k, h, g, t)
    BY <1>3, <1>4, <1>5, <1>6, <1>7, ExecutionContinues
  <1>12. PICK t \in [0..Len(g) -> LPState] : Continued(l, c, k, h, g, t)
    BY <1>11
  <1>13. \A e \in Event : Among(e, g) <=> e.dst = l /\ (IsCommitted(e) \/ IsRecorded(e))
    BY <1>3, <1>9, <1>10, <1>12 DEF Continued
  <1>14. ReachedBy(l, g, t)
    BY <1>8, <1>12, <1>13 DEF ReachedBy, Continued
  <1> QED
    BY <1>14

\* At first nothing is committed, and LPs are in their initial states.
LEMMA BaseInit == Init => CommittedReplays /\ CommittedBelowGvt
  <1> SUFFICES ASSUME Init
               PROVE  CommittedReplays /\ CommittedBelowGvt
    OBVIOUS
  <1>1. \A r \in Ranks : 1..Len(trace[r]) = {}
    BY DEF Init
  <1>2. ASSUME NEW l \in LPs
        PROVE  \E h \in Seq(Event) : \E st \in [0..Len(h) -> LPState] :
                  BasedOn(l, h, st)
    <2> DEFINE h == <<>>
               st == [i \in 0..0 |-> InitState(l)]
    <2>1. h \in Seq(Event) /\ Len(h) = 0 /\ 1..Len(h) = {}
      OBVIOUS
    <2>2. InitState(l) \in LPState
      BY ModelAssumption
    <2>3. st \in [0..Len(h) -> LPState] /\ st[0] = InitState(l) /\ st[Len(h)] = st[0]
      BY <2>1, <2>2
    <2>4. RestoredState(ctx[l], 0) = InitState(l)
      <3>1. ctx[l].processed = <<>> /\ ctx[l].state = InitState(l)
        BY DEF Init, NewContext
      <3>2. ctx[l] \in LPContext
        BY TypeInit DEF TypeOK
      <3>3. Len(ctx[l].processed) = 0
        BY <3>1
      <3> QED
        BY <3>1, <3>2, <3>3, RestoredAll
    <2> HIDE DEF h, st
    <2>5. Execution(l, h, st)
      BY <2>1, <2>3 DEF Execution
    <2>6. \A e \in Event : ~ Among(e, h)
      BY <2>1 DEF Among
    <2>7. \A e \in Event : ~ IsCommitted(e)
      BY <1>1, EventFields, KernelAssumption DEF IsCommitted, CommittedAt
    <2>8. BasedOn(l, h, st)
      BY <2>3, <2>4, <2>5, <2>6, <2>7 DEF BasedOn
    <2> QED
      BY <2>1, <2>3, <2>8
  <1>3. CommittedBelowGvt
    BY <1>1 DEF CommittedBelowGvt
  <1> QED
    BY <1>2, <1>3 DEF CommittedReplays

\* If handlers write only what they ask to write and send only into the future:
\* at any time, and whatever has been rolled back, cancelled and executed again
\* until then, the state of an LP is the one that the events committed for it
\* and those it has processed and not undone lead to from its initial state,
\* each executed once and in stamp order, and no others.  At the end, when
\* there are no records, these are the committed events.
THEOREM SpeculationLeavesNoTrace ==
    ASSUME WritesDeclared, CausalApp
    PROVE  Spec => []HistoryReplays
  <1> DEFINE Given == /\ TypeOK /\ ProcessedInOrder /\ MessageInv /\ GvtIsLowerBound
                      /\ TerminationIsClean /\ NothingTwice /\ RecordsReplay
  <1>1. Given /\ DeliveryInv /\ CommittedBelowGvt /\ CommittedReplays /\ [Next]_vars
        => DeliveryInv' /\ CommittedBelowGvt' /\ CommittedReplays'
    BY BaseStep, BelowStep, DeliveryStep DEF DeliveryInv
  <1>2. Given /\ DeliveryInv /\ CommittedBelowGvt /\ CommittedReplays => HistoryReplays
    BY HistoryFromBase DEF DeliveryInv
  <1>3. Spec => []Given
    <2>1. Spec => []GvtIsLowerBound
      BY GvtBounds
    <2>2. Spec => []RecordsReplay
      BY RollbackRestores
    <2> QED
      BY <2>1, <2>2, TypeCorrect, RecordsInOrder, MessagesUnambiguous, StopsOnlyWhenDone,
         NothingHandledTwice, PTL
  <1> QED
    BY <1>1, <1>2, <1>3, BaseInit, DeliveryInit, PTL DEF Spec

-----------------------------------------------------------------------------
(***************************************************************************)
(* Selecting from a sequence, and executing one.                           *)
(***************************************************************************)
\* Selected takes the elements at the given positions, from left to right.
LEMMA SelectedSpec ==
    ASSUME NEW S, NEW s \in Seq(S), NEW P \in SUBSET (1..Len(s))
    PROVE  /\ Cardinality(P) \in Nat /\ Len(Selected(s, P)) = Cardinality(P)
           /\ Selected(s, P) \in Seq(S)
           /\ \E g \in [1..Cardinality(P) -> P] :
                 /\ \A i \in 1..Cardinality(P) : Selected(s, P)[i] = s[g[i]]
                 /\ \A p \in P : \E i \in 1..Cardinality(P) : g[i] = p
                 /\ \A i, j \in 1..Cardinality(P) : i < j => g[i] < g[j]
  <1> DEFINE n == Cardinality(P)
             g == [i \in 1..n |-> CHOOSE p \in P : CountBelow(P, p) = i - 1]
             t == Selected(s, P)
  <1>1. Len(s) \in Nat
    OBVIOUS
  <1>2. IsFiniteSet(P)
    <2>1. IsFiniteSet(1..Len(s))
      BY <1>1, FS_Interval
    <2> QED
      BY <2>1, FS_Subset
  <1>3. P \subseteq Int /\ n \in Nat
    BY <1>1, <1>2, FS_CardinalityType
  <1>4. /\ \A i \in 1..n : \E p \in P : CountBelow(P, p) = i - 1
        /\ \A p \in P : CountBelow(P, p) \in 0..(n - 1)
        /\ \A p, q \in P : p < q => CountBelow(P, p) < CountBelow(P, q)
    BY <1>2, <1>3, CountsAscend
  <1>5. t = [i \in 1..n |-> s[g[i]]]
    BY DEF Selected, CountBelow
  <1>6. /\ \A i \in 1..n : g[i] \in P
        /\ \A i \in 1..n : CountBelow(P, g[i]) = i - 1
    BY <1>4
  <1>7. g \in [1..n -> P]
    BY <1>6
  <1> HIDE DEF n, g, t
  <1>8. (\A p \in P : \E i \in 1..n : g[i] = p)
        /\ (\A i \in 1..n : \A j \in 1..n : i < j => g[i] < g[j])
    <2>1. n \in Nat
      BY <1>3
    <2>2. \A i \in 1..n : g[i] \in Int
      BY <1>3, <1>6
    <2>3. ASSUME NEW i \in 1..n, NEW j \in 1..n, i < j
          PROVE  g[i] < g[j]
      <3>1. CountBelow(P, g[i]) = i - 1 /\ CountBelow(P, g[j]) = j - 1
        BY <1>6
      <3>2. i - 1 < j - 1 /\ ~ (j - 1 < i - 1) /\ i - 1 # j - 1
        BY <2>1, <2>3
      <3>3. g[j] < g[i] => CountBelow(P, g[j]) < CountBelow(P, g[i])
        BY <1>4, <1>6
      <3>4. g[i] # g[j] /\ ~ (g[j] < g[i])
        BY <3>1, <3>2, <3>3
      <3> QED
        BY <2>2, <3>4
    <2>4. ASSUME NEW p \in P
          PROVE  \E i \in 1..n : g[i] = p
      <3>1. PICK i \in 1..n : CountBelow(P, p) = i - 1
        <4>1. CountBelow(P, p) \in 0..(n - 1)
          BY <1>4
        <4>2. CountBelow(P, p) + 1 \in 1..n /\ CountBelow(P, p) = (CountBelow(P, p) + 1) - 1
          BY <2>1, <4>1
        <4> QED
          BY <4>2
      <3>2. g[i] \in P /\ CountBelow(P, g[i]) = CountBelow(P, p)
        BY <1>6, <3>1
      <3>3. CountBelow(P, p) \in Int
        BY <1>4
      <3>4. g[i] < p => CountBelow(P, g[i]) < CountBelow(P, p)
        BY <1>4, <3>2
      <3>5. p < g[i] => CountBelow(P, p) < CountBelow(P, g[i])
        BY <1>4, <3>2
      <3>6. ~ (g[i] < p) /\ ~ (p < g[i])
        BY <3>2, <3>3, <3>4, <3>5
      <3>7. g[i] \in Int /\ p \in Int
        BY <1>3, <2>2
      <3> QED
        BY <3>6, <3>7
    <2>5. \A p \in P : \E i \in 1..n : g[i] = p
      BY ONLY <2>4
    <2>6. \A i \in 1..n : \A j \in 1..n : i < j => g[i] < g[j]
      BY ONLY <2>3
    <2> QED
      BY ONLY <2>5, <2>6
  <1>9. \A i \in 1..n : s[g[i]] \in S
    <2>1. \A p \in 1..Len(s) : s[p] \in S
      OBVIOUS
    <2>2. \A i \in 1..n : g[i] \in 1..Len(s)
      BY <1>6
    <2> QED
      BY ONLY <2>1, <2>2
  <1>10. t \in Seq(S) /\ Len(t) = n
    BY ONLY <1>3, <1>5, <1>9
  <1>11. \A i \in 1..n : t[i] = s[g[i]]
    BY <1>5
  <1> QED
    BY <1>3, <1>7, <1>8, <1>10, <1>11 DEF t, n

\* What Replayed starts from, and what one event makes of it.
Fresh(l) ==
    [state |-> InitState(l),
     nextSeqNormal |-> 1 + Autos(OnStart(l), Len(OnStart(l)), FALSE),
     nextSeqControl |-> 1 + Autos(OnStart(l), Len(OnStart(l)), TRUE)]

Executed(l, c, e) ==
    LET does == OnEvent(l, c.state, e.kind)
    IN  [state |-> does.state,
         nextSeqNormal |-> c.nextSeqNormal + Autos(does.sends, Len(does.sends), FALSE),
         nextSeqControl |-> c.nextSeqControl + Autos(does.sends, Len(does.sends), TRUE)]

IsReplay(l, events, n, f) ==
    f = [k \in 0..n |-> IF k = 0 THEN Fresh(l) ELSE Executed(l, f[k - 1], events[k])]

\* The recursion of Replayed has a solution.
LEMMA ReplayExists ==
    ASSUME NEW l, NEW events, NEW N \in Nat
    PROVE  \E f : IsReplay(l, events, N, f)
  <1> DEFINE T == {n \in Nat : \E f : IsReplay(l, events, n, f)}
  <1>1. 0 \in T
    <2> DEFINE f == [k \in 0..0 |-> Fresh(l)]
    <2>1. f = [k \in 0..0 |-> IF k = 0 THEN Fresh(l) ELSE Executed(l, f[k - 1], events[k])]
      OBVIOUS
    <2>2. IsReplay(l, events, 0, f)
      BY <2>1 DEF IsReplay
    <2> QED
      BY <2>2
  <1>2. ASSUME NEW n \in T
        PROVE  n + 1 \in T
    <2>1. n \in Nat /\ \E f : IsReplay(l, events, n, f)
      OBVIOUS
    <2>2. PICK f : IsReplay(l, events, n, f)
      BY <2>1
    <2> DEFINE g == [k \in 0..(n + 1) |-> IF k \in 0..n THEN f[k]
                                          ELSE Executed(l, f[n], events[n + 1])]
    <2>3. ASSUME NEW k \in 0..(n + 1)
          PROVE  g[k] = IF k = 0 THEN Fresh(l) ELSE Executed(l, g[k - 1], events[k])
      <3>1. CASE k \in 0..n
        <4>1. g[k] = f[k]
          BY <3>1
        <4>2. k # 0 => k - 1 \in 0..n /\ k - 1 \in 0..(n + 1)
          BY <2>1, <3>1
        <4>3. k # 0 => g[k - 1] = f[k - 1]
          BY <4>2
        <4>4. f[k] = IF k = 0 THEN Fresh(l) ELSE Executed(l, f[k - 1], events[k])
          BY <2>2, <3>1 DEF IsReplay
        <4> HIDE DEF g
        <4> QED
          BY <4>1, <4>3, <4>4
      <3>2. CASE k \notin 0..n
        <4>1. k = n + 1 /\ k # 0 /\ k - 1 = n /\ n \in 0..n /\ n \in 0..(n + 1)
          BY <2>1, <3>2
        <4>2. g[k] = Executed(l, f[n], events[k])
          BY <3>2, <4>1
        <4>3. g[n] = f[n]
          BY <4>1
        <4> HIDE DEF g
        <4> QED
          BY <4>1, <4>2, <4>3
      <3> QED
        BY <3>1, <3>2
    <2>4. g = [k \in 0..(n + 1) |-> g[k]]
      OBVIOUS
    <2> HIDE DEF g
    <2>5. IsReplay(l, events, n + 1, g)
      BY <2>3, <2>4 DEF IsReplay
    <2> QED
      BY <2>1, <2>5
  <1>3. T \in SUBSET Nat
    OBVIOUS
  <1> HIDE DEF T
  <1>4. T = Nat
    BY <1>1, <1>2, <1>3, Counting
  <1> QED
    BY <1>4 DEF T

\* Replayed goes from event to event.
LEMMA ReplayedSpec ==
    ASSUME NEW l, NEW events, Len(events) \in Nat
    PROVE  \E f : /\ Replayed(l, events) = f[Len(events)]
                  /\ f[0] = Fresh(l)
                  /\ \A k \in 1..Len(events) : f[k] = Executed(l, f[k - 1], events[k])
  <1> DEFINE N == Len(events)
             f == CHOOSE f : IsReplay(l, events, N, f)
  <1>1. IsReplay(l, events, N, f)
    BY ReplayExists
  <1>2. Replayed(l, events) = f[N]
    BY DEF Replayed, IsReplay, Fresh, Executed
  <1> HIDE DEF f, N
  <1>3. f = [k \in 0..N |-> IF k = 0 THEN Fresh(l) ELSE Executed(l, f[k - 1], events[k])]
    BY <1>1 DEF IsReplay
  <1>4. N \in Nat
    BY DEF N
  <1>5. f[0] = Fresh(l)
    BY <1>3, <1>4
  <1>6. \A k \in 1..N : f[k] = Executed(l, f[k - 1], events[k])
    <2> TAKE k \in 1..N
    <2>1. k \in 0..N /\ k # 0
      BY <1>4
    <2> QED
      BY <1>3, <2>1
  <1> QED
    BY <1>2, <1>5, <1>6 DEF N

-----------------------------------------------------------------------------
(***************************************************************************)
(* The state of an LP is the one that executing its history leads to.      *)
(***************************************************************************)
\* A rank commits events in the order of their stamps.
TraceInOrder ==
    \A r \in Ranks : \A i \in 1..Len(trace[r]) : \A j \in 1..i :
        Le(trace[r][j].ts, trace[r][i].ts)

\* What prune_to_gvt_ commits is not below the known GVT.
LEMMA CommittedFromGvt ==
    ASSUME TypeOK, TraceFits, GvtIsLowerBound, NEW R \in SUBSET Ranks,
           NEW gvt \in Stamp, Prune(R, gvt), NEW r \in R,
           NEW j \in 1..Len(CommittedEvents(r, gvt))
    PROVE  Le(lastGvt, CommittedEvents(r, gvt)[j].ts)
  <1> DEFINE new == CommittedEvents(r, gvt)
  <1>1. \A e : Among(e, new)
           <=> \E l \in LpsOn(r) : \E i \in 1..PrunedProcessed(ctx[l], gvt) :
                  e = ctx[l].processed[i].ev
    BY NewlyCommitted
  <1>2. Among(new[j], new)
    BY DEF Among
  <1> HIDE DEF new
  <1>3. PICK l \in LpsOn(r) : \E i \in 1..PrunedProcessed(ctx[l], gvt) :
           new[j] = ctx[l].processed[i].ev
    BY <1>1, <1>2
  <1>4. PICK i \in 1..PrunedProcessed(ctx[l], gvt) : new[j] = ctx[l].processed[i].ev
    BY <1>3
  <1>5. l \in LPs /\ ctx[l] \in LPContext
    BY DEF TypeOK, LpsOn
  <1>6. /\ PrunedProcessed(ctx[l], gvt) \in 0..Len(ctx[l].processed)
        /\ Len(ctx[l].processed) \in Nat
    BY <1>5, PrunedProcessedSpec DEF LPContext
  <1>7. i \in 1..Len(ctx[l].processed)
    BY <1>6
  <1>8. Le(lastGvt, ctx[l].processed[i].ev.ts)
    BY <1>5, <1>7 DEF GvtIsLowerBound
  <1> QED
    BY <1>4, <1>8 DEF new

\* prune_to_gvt_ commits what is not before all that has been committed.
LEMMA TracePrune ==
    ASSUME TypeOK, TraceFits, GvtIsLowerBound, TraceInOrder,
           \A r \in Ranks : \A i \in 1..Len(trace[r]) : Lt(trace[r][i].ts, lastGvt),
           NEW R \in SUBSET Ranks, NEW gvt \in Stamp, Prune(R, gvt)
    PROVE  TraceInOrder'
  <1> SUFFICES ASSUME NEW r \in Ranks
               PROVE  \A i \in 1..Len(trace'[r]) : \A j \in 1..i :
                         Le(trace'[r][j].ts, trace'[r][i].ts)
    BY DEF TraceInOrder
  <1>1. CASE r \notin R
    <2>1. trace'[r] = trace[r]
      BY <1>1 DEF Prune
    <2> QED
      BY <2>1 DEF TraceInOrder
  <1>2. CASE r \in R
    <2> DEFINE s == trace[r]
               u == CommittedEvents(r, gvt)
               v == trace'[r]
    <2>1. s \in Seq(Event) /\ lastGvt \in Stamp
      BY DEF TraceFits, TypeOK
    <2>2. u \in Seq(Event) /\ \A i, j \in 1..Len(u) : i < j => Le(u[i].ts, u[j].ts)
      BY CommittedEventsSpec
    <2>3. \A j \in 1..Len(u) : Le(lastGvt, u[j].ts)
      BY <1>2, CommittedFromGvt
    <2>4. /\ \A i \in 1..Len(s) : \A j \in 1..i : Le(s[j].ts, s[i].ts)
          /\ \A i \in 1..Len(s) : Lt(s[i].ts, lastGvt)
      BY DEF TraceInOrder
    <2>5. v = s \o u
      BY <1>2 DEF Prune
    <2>6. \A e \in Event : e.ts \in Stamp
      BY EventFields
    <2> HIDE DEF s, u, v
    <2>7. \A i \in 1..Len(v) : \A j \in 1..i : Le(v[j].ts, v[i].ts)
      BY ONLY <2>1, <2>2, <2>3, <2>4, <2>5, <2>6, OrderedTwice
    <2> QED
      BY <2>7 DEF v
  <1> QED
    BY <1>1, <1>2

\* Every step keeps the committed events in order.
LEMMA TraceOrderStep ==
    ASSUME TypeOK, TraceFits, GvtIsLowerBound, CommittedBelowGvt, TraceInOrder,
           [Next]_vars
    PROVE  TraceInOrder'
  <1>1. CASE PrunesNothing
    BY <1>1 DEF TraceInOrder, PrunesNothing
  <1>2. ASSUME NEW R \in SUBSET Ranks, NEW gvt \in Stamp, PrunesTo(R, gvt)
        PROVE  TraceInOrder'
    <2>1. \A r \in Ranks : \A i \in 1..Len(trace[r]) : Lt(trace[r][i].ts, lastGvt)
      BY <1>2 DEF CommittedBelowGvt, PrunesTo
    <2> QED
      BY <1>2, <2>1, TracePrune DEF PrunesTo
  <1> QED
    BY <1>1, <1>2, PruneOrNot

\* t has the elements of s that are at the positions P, in their order in s.
PicksFrom(t, s, P) ==
    /\ \A x : Among(x, t) <=> \E p \in P : s[p] = x
    /\ \A i, j \in 1..Len(t) : i < j =>
          \E p \in P : \E q \in P : p < q /\ t[i] = s[p] /\ t[j] = s[q]

\* What is selected is what is at the positions, and keeps its order.
LEMMA SelectedElements ==
    ASSUME NEW S, NEW s \in Seq(S), NEW P \in SUBSET (1..Len(s))
    PROVE  Selected(s, P) \in Seq(S) /\ PicksFrom(Selected(s, P), s, P)
  <1> DEFINE n == Cardinality(P)
             t == Selected(s, P)
  <1>1. n \in Nat /\ Len(t) = n /\ t \in Seq(S)
    BY SelectedSpec
  <1>2. PICK g \in [1..n -> P] :
           /\ \A i \in 1..n : t[i] = s[g[i]]
           /\ \A p \in P : \E i \in 1..n : g[i] = p
           /\ \A i, j \in 1..n : i < j => g[i] < g[j]
    BY SelectedSpec
  <1> HIDE DEF n, t
  <1>3. \A i \in 1..n : g[i] \in P /\ t[i] = s[g[i]]
    BY <1>2
  <1>4. ASSUME NEW x
        PROVE  Among(x, t) <=> \E p \in P : s[p] = x
    <2>1. Among(x, t) => \E p \in P : s[p] = x
      BY <1>1, <1>3 DEF Among
    <2>2. ASSUME NEW p \in P, s[p] = x
          PROVE  Among(x, t)
      <3>1. PICK i \in 1..n : g[i] = p
        BY <1>2
      <3> QED
        BY <1>1, <1>3, <2>2, <3>1 DEF Among
    <2> QED
      BY <2>1, <2>2
  <1>5. ASSUME NEW i \in 1..Len(t), NEW j \in 1..Len(t), i < j
        PROVE  \E p \in P : \E q \in P : p < q /\ t[i] = s[p] /\ t[j] = s[q]
    <2>1. i \in 1..n /\ j \in 1..n
      BY <1>1
    <2>2. g[i] < g[j]
      BY <1>2, <1>5, <2>1
    <2>3. g[i] \in P /\ t[i] = s[g[i]] /\ g[j] \in P /\ t[j] = s[g[j]]
      BY <1>3, <2>1
    <2> QED
      BY <2>2, <2>3
  <1> QED
    BY <1>1, <1>4, <1>5 DEF t, PicksFrom

\* The plain events that LP l has executed and not undone.
Stands(l, e) == ~ e.anti /\ e.dst = l /\ (IsCommitted(e) \/ IsRecorded(e))

\* s lists the events that Is holds of, each once and in stamp order.
Lists(s, Is(_)) ==
    /\ s \in Seq(Event)
    /\ \A e \in Event : Among(e, s) <=> Is(e)
    /\ \A i, j \in 1..Len(s) : i < j => s[i] # s[j] /\ Le(s[i].ts, s[j].ts)

\* The events committed for an LP.
LEMMA CommittedList ==
    ASSUME TraceFits, TraceInOrder, NothingTwice, NEW l \in LPs
    PROVE  Lists(CommittedBy(l), LAMBDA e : ~ e.anti /\ e.dst = l /\ IsCommitted(e))
  <1> DEFINE r == lpToRank[l]
             s == trace[r]
             P == CommitsOf(l)
             t == CommittedBy(l)
  <1>1. r \in Ranks /\ s \in Seq(Event)
    BY KernelAssumption DEF TraceFits
  <1>2. P = {i \in 1..Len(s) : s[i].dst = l /\ ~ s[i].anti}
    BY DEF CommitsOf
  <1>3. t = Selected(s, P)
    BY DEF CommittedBy
  <1>4. \A i \in 1..Len(s) : \A j \in 1..i : Le(s[j].ts, s[i].ts)
    BY <1>1 DEF TraceInOrder
  <1>5. \A e \in Event : e.dst = l => \A i : CommittedAt(e, i) <=> i \in 1..Len(s) /\ s[i] = e
    BY DEF CommittedAt
  <1> HIDE DEF s, P, t
  <1>6. /\ t \in Seq(Event)
        /\ \A x : Among(x, t) <=> \E p \in P : s[p] = x
        /\ \A i, j \in 1..Len(t) : i < j =>
              \E p \in P : \E q \in P : p < q /\ t[i] = s[p] /\ t[j] = s[q]
    <2>1. P \in SUBSET (1..Len(s))
      BY <1>2
    <2>2. s \in Seq(Event)
      BY <1>1
    <2>3. t \in Seq(Event) /\ PicksFrom(t, s, P)
      BY ONLY <1>3, <2>1, <2>2, SelectedElements
    <2> QED
      BY <2>3 DEF PicksFrom
  <1>7. ASSUME NEW e \in Event
        PROVE  Among(e, t) <=> ~ e.anti /\ e.dst = l /\ IsCommitted(e)
    BY <1>2, <1>5, <1>6 DEF IsCommitted
  <1>8. ASSUME NEW i \in 1..Len(t), NEW j \in 1..Len(t), i < j
        PROVE  t[i] # t[j] /\ Le(t[i].ts, t[j].ts)
    <2>1. PICK p \in P, q \in P : p < q /\ t[i] = s[p] /\ t[j] = s[q]
      BY <1>6, <1>8
    <2>2. p \in 1..Len(s) /\ q \in 1..Len(s) /\ p \in 1..q /\ p # q
      <3>1. p \in 1..Len(s) /\ q \in 1..Len(s)
        BY <1>2
      <3>2. Len(s) \in Nat
        BY <1>1
      <3> QED
        BY <2>1, <3>1, <3>2
    <2>3. s[p] \in Event /\ s[q] \in Event /\ s[p].dst = l /\ s[q].dst = l
      BY <1>1, <1>2, <2>2
    <2>4. CommittedAt(s[p], p) /\ CommittedAt(s[q], q)
      BY <1>5, <2>2, <2>3
    <2>5. s[p] # s[q]
      BY <2>2, <2>3, <2>4 DEF NothingTwice
    <2> QED
      BY <1>4, <2>1, <2>2, <2>5
  <1> QED
    BY <1>6, <1>7, <1>8 DEF Lists, t

\* The second part of History.
RecordedBy(l) ==
    LET recs == ctx[l].processed
        evs == [i \in 1..Len(recs) |-> recs[i].ev]
    IN  Selected(evs, {i \in 1..Len(recs) : ~ evs[i].anti})

\* The events an LP has records of.
LEMMA RecordedList ==
    ASSUME TypeOK, MessageInv, ProcessedInOrder, NothingTwice, NEW l \in LPs
    PROVE  /\ Lists(RecordedBy(l), LAMBDA e : ~ e.anti /\ e.dst = l /\ IsRecorded(e))
           /\ \A i, j \in 1..Len(RecordedBy(l)) : i < j =>
                 \E p, q \in 1..Len(ctx[l].processed) :
                    /\ p < q
                    /\ RecordedBy(l)[i] = ctx[l].processed[p].ev
                    /\ RecordedBy(l)[j] = ctx[l].processed[q].ev
  <1> DEFINE recs == ctx[l].processed
             s == [i \in 1..Len(recs) |-> recs[i].ev]
             P == {i \in 1..Len(recs) : ~ s[i].anti}
             t == RecordedBy(l)
  <1>1. Len(recs) \in Nat /\ \A i \in 1..Len(recs) : recs[i] \in ProcessedRecord
    BY DEF TypeOK, LPContext
  <1>2. \A i \in 1..Len(recs) : recs[i].ev.dst = l
    BY DEF MessageInv, Placed
  <1>3. t = Selected(s, P)
    BY DEF RecordedBy
  <1>4. \A i \in 1..Len(recs) : \A j \in 1..i : Le(recs[j].ev.ts, recs[i].ev.ts)
    BY DEF ProcessedInOrder
  <1>5. \A e \in Event : e.dst = l =>
           \A i : RecordedAt(e, i) <=> i \in 1..Len(recs) /\ recs[i].ev = e
    BY DEF RecordedAt
  <1> HIDE DEF recs, t
  <1>6. \A i \in 1..Len(recs) : recs[i].ev \in Event
    <2>1. \A rec \in ProcessedRecord : rec.ev \in Event
      BY DEF ProcessedRecord
    <2> QED
      BY <1>1, <2>1
  <1>7. s \in Seq(Event) /\ Len(s) = Len(recs)
    BY <1>1, <1>6
  <1>8. /\ \A i \in 1..Len(s) : s[i].dst = l
        /\ \A i \in 1..Len(s) : \A j \in 1..i : Le(s[j].ts, s[i].ts)
        /\ \A e \in Event : e.dst = l =>
              \A i : RecordedAt(e, i) <=> i \in 1..Len(s) /\ s[i] = e
    <2>1. \A i \in 1..Len(recs) : s[i] = recs[i].ev /\ \A j \in 1..i : j \in 1..Len(recs)
      BY <1>1
    <2> HIDE DEF s
    <2> QED
      BY <1>2, <1>4, <1>5, <1>7, <2>1
  <1>9. /\ P = {i \in 1..Len(s) : ~ s[i].anti}
        /\ \A i \in P : i \in 1..Len(recs) /\ s[i] = recs[i].ev
    BY <1>7
  <1> HIDE DEF s, P
  <1>10. /\ t \in Seq(Event)
         /\ \A x : Among(x, t) <=> \E p \in P : s[p] = x
         /\ \A i, j \in 1..Len(t) : i < j =>
               \E p \in P : \E q \in P : p < q /\ t[i] = s[p] /\ t[j] = s[q]
    <2>1. P \in SUBSET (1..Len(s))
      BY <1>9
    <2>2. s \in Seq(Event)
      BY <1>7
    <2>3. t \in Seq(Event) /\ PicksFrom(t, s, P)
      BY ONLY <1>3, <2>1, <2>2, SelectedElements
    <2> QED
      BY <2>3 DEF PicksFrom
  <1>11. ASSUME NEW e \in Event
         PROVE  Among(e, t) <=> ~ e.anti /\ e.dst = l /\ IsRecorded(e)
    BY <1>8, <1>9, <1>10 DEF IsRecorded
  <1>12. ASSUME NEW i \in 1..Len(t), NEW j \in 1..Len(t), i < j
         PROVE  t[i] # t[j] /\ Le(t[i].ts, t[j].ts)
    <2>1. PICK p \in P, q \in P : p < q /\ t[i] = s[p] /\ t[j] = s[q]
      BY <1>10, <1>12
    <2>2. p \in 1..Len(s) /\ q \in 1..Len(s) /\ p \in 1..q /\ p # q
      <3>1. p \in 1..Len(s) /\ q \in 1..Len(s)
        BY <1>9
      <3>2. Len(s) \in Nat
        BY <1>7
      <3> QED
        BY <2>1, <3>1, <3>2
    <2>3. s[p] \in Event /\ s[q] \in Event /\ s[p].dst = l /\ s[q].dst = l
      BY <1>7, <1>8, <2>2
    <2>4. RecordedAt(s[p], p) /\ RecordedAt(s[q], q)
      BY <1>8, <2>2, <2>3
    <2>5. s[p] # s[q]
      BY <2>2, <2>3, <2>4 DEF NothingTwice
    <2> QED
      BY <1>8, <2>1, <2>2, <2>5
  <1>13. ASSUME NEW i \in 1..Len(t), NEW j \in 1..Len(t), i < j
         PROVE  \E p, q \in 1..Len(recs) :
                   p < q /\ t[i] = recs[p].ev /\ t[j] = recs[q].ev
    <2>1. PICK p \in P, q \in P : p < q /\ t[i] = s[p] /\ t[j] = s[q]
      BY <1>10, <1>13
    <2>2. p \in 1..Len(recs) /\ s[p] = recs[p].ev /\ q \in 1..Len(recs) /\ s[q] = recs[q].ev
      BY <1>9
    <2> QED
      BY <2>1, <2>2
  <1> QED
    BY <1>10, <1>11, <1>12, <1>13 DEF Lists, t, recs

\* History lists the events that stand: first those committed, then those with
\* a record.
LEMMA HistoryList ==
    ASSUME TypeOK, MessageInv, ProcessedInOrder, GvtIsLowerBound, TerminationIsClean,
           NothingTwice, TraceFits, TraceInOrder, CommittedBelowGvt, NEW l \in LPs
    PROVE  Lists(History(l), LAMBDA e : Stands(l, e))
  <1> DEFINE s == CommittedBy(l)
             u == RecordedBy(l)
             v == History(l)
  <1>1. /\ s \in Seq(Event)
        /\ \A e \in Event : Among(e, s) <=> ~ e.anti /\ e.dst = l /\ IsCommitted(e)
        /\ \A i, j \in 1..Len(s) : i < j => s[i] # s[j] /\ Le(s[i].ts, s[j].ts)
    BY CommittedList DEF Lists
  <1>2. /\ u \in Seq(Event)
        /\ \A e \in Event : Among(e, u) <=> ~ e.anti /\ e.dst = l /\ IsRecorded(e)
        /\ \A i, j \in 1..Len(u) : i < j => u[i] # u[j] /\ Le(u[i].ts, u[j].ts)
    BY RecordedList DEF Lists
  <1>3. v = s \o u
    BY DEF History, RecordedBy
  <1> HIDE DEF s, u, v
  <1>4. InARow(s, u, v) /\ v \in Seq(Event)
    BY <1>1, <1>2, <1>3, Concatenated
  <1>5. ASSUME NEW e \in Event
        PROVE  Among(e, v) <=> Stands(l, e)
    <2>1. Among(e, v) <=> Among(e, s) \/ Among(e, u)
      <3>1. ASSUME NEW i \in 1..Len(v), v[i] = e
            PROVE  Among(e, s) \/ Among(e, u)
        <4>1. CASE i \in 1..Len(s)
          BY <1>4, <3>1, <4>1 DEF InARow, Among
        <4>2. ASSUME NEW j \in 1..Len(u), i = Len(s) + j
              PROVE  Among(e, u)
          BY <1>4, <3>1, <4>2 DEF InARow, Among
        <4> QED
          BY <1>4, <4>1, <4>2 DEF InARow
      <3>2. ASSUME NEW i \in 1..Len(s), s[i] = e
            PROVE  Among(e, v)
        BY <1>4, <3>2 DEF InARow, Among
      <3>3. ASSUME NEW j \in 1..Len(u), u[j] = e
            PROVE  Among(e, v)
        BY <1>4, <3>3 DEF InARow, Among
      <3> QED
        BY <3>1, <3>2, <3>3 DEF Among
    <2> QED
      BY <1>1, <1>2, <2>1 DEF Stands
  <1>6. ASSUME NEW i \in 1..Len(v), NEW j \in 1..Len(v), i < j
        PROVE  v[i] # v[j] /\ Le(v[i].ts, v[j].ts)
    <2>1. Len(s) \in Nat /\ Len(u) \in Nat
      BY <1>4 DEF InARow
    <2>2. CASE j \in 1..Len(s)
      <3>1. i \in 1..Len(s)
        BY <1>6, <2>1, <2>2
      <3>2. v[i] = s[i] /\ v[j] = s[j]
        BY <1>4, <2>2, <3>1 DEF InARow
      <3> QED
        BY <1>1, <1>6, <2>2, <3>1, <3>2
    <2>3. ASSUME NEW q \in 1..Len(u), j = Len(s) + q
          PROVE  v[i] # v[j] /\ Le(v[i].ts, v[j].ts)
      <3>1. v[j] = u[q] /\ u[q] \in Event /\ Among(u[q], u)
        <4>1. v[j] = u[q] /\ Among(u[q], u)
          BY <1>4, <2>3 DEF InARow, Among
        <4>2. \A i0 \in 1..Len(u) : u[i0] \in Event
          BY <1>2
        <4> QED
          BY <4>1, <4>2
      <3>2. CASE i \in 1..Len(s)
        <4>1. v[i] = s[i] /\ s[i] \in Event /\ Among(s[i], s)
          BY <1>1, <1>4, <3>2 DEF InARow, Among
        <4>2. s[i].dst = u[q].dst /\ IsCommitted(s[i]) /\ IsRecorded(u[q])
          BY <1>1, <1>2, <3>1, <4>1
        <4> QED
          BY <3>1, <4>1, <4>2, CommittedFirst
      <3>3. ASSUME NEW p \in 1..Len(u), i = Len(s) + p
            PROVE  v[i] # v[j] /\ Le(v[i].ts, v[j].ts)
        <4>1. v[i] = u[p] /\ p < q
          BY <1>4, <1>6, <2>1, <2>3, <3>3 DEF InARow
        <4> QED
          BY <1>2, <3>1, <4>1
      <3> QED
        BY <1>4, <3>2, <3>3 DEF InARow
    <2> QED
      BY <1>4, <2>2, <2>3 DEF InARow
  <1> QED
    BY <1>4, <1>5, <1>6 DEF Lists, v

\* The plain events among h are, in the order of h, the events s.
PlainOf(h, s) ==
    /\ \A e \in Event : Among(e, s) <=> Among(e, h) /\ ~ e.anti
    /\ \A i, j \in 1..Len(s) : \A p, q \in 1..Len(h) :
          i < j /\ s[i] = h[p] /\ s[j] = h[q] => p < q

\* An execution, and a run from scratch through the plain events of it, lead to
\* the same state.
LEMMA SameOutcome ==
    ASSUME NEW l \in LPs, NEW h, h \in Seq(Event), NEW st, Execution(l, h, st),
           NEW s, s \in Seq(Event), PlainOf(h, s)
    PROVE  Replayed(l, s).state = st[Len(h)]
  <1> DEFINE m == Len(h)
             n == Len(s)
  <1>1. m \in Nat /\ n \in Nat
    OBVIOUS
  <1>2. PICK f : /\ Replayed(l, s) = f[n]
                 /\ f[0] = Fresh(l)
                 /\ \A k \in 1..n : f[k] = Executed(l, f[k - 1], s[k])
    BY ReplayedSpec
  <1>3. /\ st[0] = InitState(l)
        /\ \A i \in 1..m : st[i] = After(l, st[i - 1], h[i])
        /\ \A i \in 1..m : \A j \in 1..(i-1) : h[j] # h[i]
    BY DEF Execution
  <1>4. /\ \A i \in 1..m : h[i] \in Event
        /\ \A i \in 1..n : s[i] \in Event
    OBVIOUS
  <1>5. \A i, j \in 1..n : \A p, q \in 1..m : i < j /\ s[i] = h[p] /\ s[j] = h[q] => p < q
    BY DEF PlainOf
  <1>6. /\ \A i \in 1..n : \E j \in 1..m : h[j] = s[i]
        /\ \A i \in 1..n : ~ s[i].anti
        /\ \A j \in 1..m : ~ h[j].anti => \E i \in 1..n : s[i] = h[j]
    <2>1. \A i \in 1..n : Among(s[i], s)
      BY DEF Among
    <2>2. \A j \in 1..m : Among(h[j], h)
      BY DEF Among
    <2>3. \A e \in Event : Among(e, s) <=> Among(e, h) /\ ~ e.anti
      BY DEF PlainOf
    <2>4. \A i \in 1..n : Among(s[i], h) /\ ~ s[i].anti
      BY <1>4, <2>1, <2>3
    <2>5. \A j \in 1..m : ~ h[j].anti => Among(h[j], s)
      BY <1>4, <2>2, <2>3
    <2> QED
      BY <2>4, <2>5 DEF Among
  <1> HIDE DEF m, n
  <1>7. \A i, j \in 1..n : s[i] = s[j] => i = j
    <2> SUFFICES ASSUME NEW i \in 1..n, NEW j \in 1..n, i # j
                 PROVE  s[i] # s[j]
      OBVIOUS
    <2>1. i < j \/ j < i
      BY <1>1
    <2>2. PICK p \in 1..m : h[p] = s[i]
      BY <1>6
    <2>3. ~ (p < p)
      BY <1>1
    <2> QED
      BY <1>5, <2>1, <2>2, <2>3
  \* The first k events of h are the first q of s and anti-messages.
  <1> DEFINE Match(k, q) ==
                 /\ q \in 0..n
                 /\ \A j \in 1..k : ~ h[j].anti => \E i \in 1..q : s[i] = h[j]
                 /\ \A i \in 1..q : \E j \in 1..k : h[j] = s[i]
                 /\ f[q].state = st[k]
             T == {k \in Nat : k <= m => \E q : Match(k, q)}
  <1>8. 0 \in T
    <2>1. 0 \in 0..n /\ 1..0 = {}
      BY <1>1
    <2>2. f[0].state = st[0]
      BY <1>2, <1>3 DEF Fresh
    <2>3. Match(0, 0)
      BY <2>1, <2>2
    <2> QED
      BY <2>3
  <1>9. ASSUME NEW k \in T
        PROVE  k + 1 \in T
    <2>1. k \in Nat
      OBVIOUS
    <2> SUFFICES ASSUME k + 1 <= m
                 PROVE  \E q : Match(k + 1, q)
      BY <2>1
    <2>2. k <= m /\ k + 1 \in 1..m /\ (k + 1) - 1 = k
      BY <1>1, <2>1
    <2>3. PICK q : Match(k, q)
      BY <2>2
    <2>4. /\ q \in 0..n
          /\ \A j \in 1..k : ~ h[j].anti => \E i \in 1..q : s[i] = h[j]
          /\ \A i \in 1..q : \E j \in 1..k : h[j] = s[i]
          /\ f[q].state = st[k]
      BY <2>3
    <2>5. \A j \in 1..(k + 1) : j \in 1..k \/ j = k + 1
      BY <2>1
    <2>6. \A j \in 1..k : j \in 1..(k + 1) /\ j \in 1..((k + 1) - 1) /\ j \in 1..m
      BY <1>1, <2>1, <2>2
    <2>7. k + 1 \in 1..(k + 1)
      BY <2>1
    <2>8. st[k + 1] = After(l, st[k], h[k + 1])
      BY <1>3, <2>2
    <2>9. CASE h[k + 1].anti
      <3>1. st[k + 1] = st[k]
        BY <2>8, <2>9 DEF After
      <3>2. \A j \in 1..(k + 1) : ~ h[j].anti => \E i \in 1..q : s[i] = h[j]
        BY <2>4, <2>5, <2>9
      <3>3. \A i \in 1..q : \E j \in 1..(k + 1) : h[j] = s[i]
        BY <2>4, <2>6
      <3>4. Match(k + 1, q)
        BY <2>4, <3>1, <3>2, <3>3
      <3> QED
        BY <3>4
    <2>10. CASE ~ h[k + 1].anti
      <3>1. PICK p \in 1..n : s[p] = h[k + 1]
        BY <1>6, <2>2, <2>10
      <3>2. \A i \in 1..q : i \in 1..n /\ i # p
        <4> TAKE i \in 1..q
        <4>1. i \in 1..n
          BY <1>1, <2>4
        <4>2. PICK j \in 1..k : h[j] = s[i]
          BY <2>4
        <4>3. h[j] # h[k + 1]
          BY <1>3, <2>2, <2>6
        <4> QED
          BY <3>1, <4>1, <4>2, <4>3
      <3>3. q < p /\ q + 1 \in 1..n /\ q + 1 <= p
        <4>1. p \notin 1..q
          BY <3>2
        <4>2. q < p
          BY <1>1, <2>4, <4>1
        <4> QED
          BY <1>1, <2>4, <4>2
      <3>4. q + 1 = p
        <4> SUFFICES ASSUME q + 1 < p
                     PROVE  FALSE
          BY <1>1, <2>4, <3>3
        <4>1. PICK j \in 1..m : h[j] = s[q + 1]
          BY <1>6, <3>3
        <4>2. j \notin 1..k
          <5> SUFFICES ASSUME j \in 1..k
                       PROVE  FALSE
            OBVIOUS
          <5>1. PICK i \in 1..q : s[i] = h[j]
            BY <1>6, <2>4, <3>3, <4>1
          <5>2. i = q + 1
            BY <1>7, <3>2, <3>3, <4>1, <5>1
          <5> QED
            BY <2>4, <5>2
        <4>3. j < k + 1
          BY <1>5, <2>2, <3>1, <3>3, <4>1
        <4> QED
          BY <1>1, <2>1, <4>2, <4>3
      <3>5. q + 1 \in 0..n /\ \A i \in 1..(q + 1) : i \in 1..q \/ i = q + 1
        BY <1>1, <2>4, <3>3
      <3>6. \A i \in 1..q : i \in 1..(q + 1)
        BY <2>4
      <3>7. q + 1 \in 1..(q + 1) /\ (q + 1) - 1 = q
        BY <2>4
      <3>8. f[q + 1].state = st[k + 1]
        <4>1. f[q + 1] = Executed(l, f[q], h[k + 1])
          BY <1>2, <3>1, <3>3, <3>4, <3>7
        <4>2. f[q + 1].state = OnEvent(l, f[q].state, h[k + 1].kind).state
          BY <4>1 DEF Executed
        <4> QED
          BY <2>4, <2>8, <2>10, <4>2 DEF After
      <3>9. \A j \in 1..(k + 1) : ~ h[j].anti => \E i \in 1..(q + 1) : s[i] = h[j]
        BY <2>4, <2>5, <3>1, <3>4, <3>6, <3>7
      <3>10. \A i \in 1..(q + 1) : \E j \in 1..(k + 1) : h[j] = s[i]
        BY <2>4, <2>6, <2>7, <3>1, <3>4, <3>5
      <3>11. Match(k + 1, q + 1)
        BY <3>5, <3>8, <3>9, <3>10
      <3> QED
        BY <3>11
    <2> QED
      BY <2>9, <2>10
  <1>10. T \in SUBSET Nat
    OBVIOUS
  <1> HIDE DEF T
  <1>11. T = Nat
    BY ONLY <1>8, <1>9, <1>10, Counting
  <1>12. PICK q : Match(m, q)
    <2>1. m \in T /\ m <= m
      BY <1>1, <1>11
    <2> QED
      BY <2>1 DEF T
  <1>13. q = n
    <2> SUFFICES ASSUME q # n
                 PROVE  FALSE
      OBVIOUS
    <2>1. q + 1 \in 1..n /\ q + 1 \notin 1..q
      BY <1>1, <1>12
    <2>2. PICK j \in 1..m : h[j] = s[q + 1]
      BY <1>6, <2>1
    <2>3. ~ h[j].anti
      BY <1>6, <2>1, <2>2
    <2>4. PICK i \in 1..q : s[i] = h[j]
      BY <1>12, <2>3
    <2>5. i \in 1..n
      BY <1>1, <1>12
    <2> QED
      BY <1>7, <2>1, <2>2, <2>4, <2>5
  <1> QED
    BY <1>2, <1>12, <1>13 DEF m, n

\* No two plain events that are committed for an LP have the same stamp.
NoTies ==
    \A e, f \in Event :
        /\ ~ e.anti /\ ~ f.anti /\ e.dst = f.dst /\ e # f
        /\ IsCommitted(e) /\ IsCommitted(f)
        => e.ts # f.ts

\* History lists the plain events in the order in which they were executed: g is
\* an execution of what is committed, followed by the events on record.
LEMMA HistoryInOrder ==
    ASSUME TypeOK, MessageInv, ProcessedInOrder, GvtIsLowerBound, TerminationIsClean,
           NothingTwice, TraceFits, TraceInOrder, CommittedBelowGvt, NoTies,
           NEW l \in LPs, NEW h, h \in Seq(Event), NEW g, g \in Seq(Event),
           \A e \in Event : Among(e, h) <=> e.dst = l /\ IsCommitted(e),
           \A i \in 1..Len(h) : \A j \in 1..(i-1) : Le(h[j].ts, h[i].ts),
           Len(g) = Len(h) + Len(ctx[l].processed),
           \A i \in 1..Len(h) : g[i] = h[i],
           \A i \in 1..Len(ctx[l].processed) : g[Len(h) + i] = ctx[l].processed[i].ev
    PROVE  History(l) \in Seq(Event) /\ PlainOf(g, History(l))
  <1> DEFINE n == Len(h)
             k == Len(ctx[l].processed)
             recs == ctx[l].processed
             s == CommittedBy(l)
             u == RecordedBy(l)
             v == History(l)
  <1>1. /\ s \in Seq(Event)
        /\ \A e \in Event : Among(e, s) <=> ~ e.anti /\ e.dst = l /\ IsCommitted(e)
        /\ \A i, j \in 1..Len(s) : i < j => s[i] # s[j] /\ Le(s[i].ts, s[j].ts)
    BY CommittedList DEF Lists
  <1>2. /\ u \in Seq(Event)
        /\ \A e \in Event : Among(e, u) <=> ~ e.anti /\ e.dst = l /\ IsRecorded(e)
        /\ \A i, j \in 1..Len(u) : i < j =>
              \E p, q \in 1..k : p < q /\ u[i] = recs[p].ev /\ u[j] = recs[q].ev
    BY RecordedList DEF Lists
  <1>3. /\ v \in Seq(Event)
        /\ \A e \in Event : Among(e, v) <=> Stands(l, e)
    BY HistoryList DEF Lists
  <1>4. InARow(s, u, v)
    <2>1. v = s \o u
      BY DEF History, RecordedBy
    <2> HIDE DEF s, u, v
    <2> QED
      BY <1>1, <1>2, <2>1, Concatenated
  <1>5. /\ n \in Nat /\ k \in Nat /\ Len(g) = n + k
        /\ \A i \in 1..n : h[i] \in Event
        /\ \A i \in 1..k : recs[i].ev \in Event
    <2>1. recs \in Seq(ProcessedRecord)
      BY DEF TypeOK, LPContext
    <2>2. \A rec \in ProcessedRecord : rec.ev \in Event
      BY DEF ProcessedRecord
    <2>3. k \in Nat /\ \A i \in 1..k : recs[i] \in ProcessedRecord
      BY <2>1
    <2> QED
      BY <2>2, <2>3
  <1>6. \A i \in 1..k : recs[i].ev.dst = l /\ RecordedAt(recs[i].ev, i)
    BY DEF MessageInv, Placed, RecordedAt
  <1>7. \A i \in 1..n : h[i].dst = l /\ IsCommitted(h[i])
    <2>1. \A i \in 1..n : Among(h[i], h)
      BY DEF Among
    <2> QED
      BY <1>5, <2>1
  <1>8. /\ \A e \in Event : Among(e, h) <=> e.dst = l /\ IsCommitted(e)
        /\ \A i \in 1..n : \A j \in 1..(i-1) : Le(h[j].ts, h[i].ts)
        /\ \A i \in 1..n : g[i] = h[i]
        /\ \A i \in 1..k : g[n + i] = recs[i].ev
    OBVIOUS
  <1> HIDE DEF n, k, recs, s, u, v
  <1>9. \A i \in 1..Len(g) : i \in 1..n \/ \E p \in 1..k : i = n + p
    <2> TAKE i \in 1..Len(g)
    <2>1. i \in 1..n \/ (i - n \in 1..k /\ i = n + (i - n))
      BY <1>5
    <2> QED
      BY <2>1
  <1>10. \A e \in Event : e.dst = l => (IsRecorded(e) <=> \E i \in 1..k : recs[i].ev = e)
    BY DEF IsRecorded, RecordedAt, recs, k
  <1>11. ASSUME NEW e \in Event
         PROVE  Among(e, v) <=> Among(e, g) /\ ~ e.anti
    <2>1. Among(e, g) <=> Among(e, h) \/ \E i \in 1..k : recs[i].ev = e
      <3>1. ASSUME NEW i \in 1..Len(g), g[i] = e
            PROVE  Among(e, h) \/ \E p \in 1..k : recs[p].ev = e
        <4>1. i \in 1..n => Among(e, h)
          <5>1. i \in 1..n => h[i] = e
            BY <1>8, <3>1
          <5> QED
            BY <5>1 DEF Among, n
        <4>2. \A p \in 1..k : i = n + p => recs[p].ev = e
          BY <1>8, <3>1
        <4> QED
          BY <1>9, <4>1, <4>2
      <3>2. ASSUME NEW i \in 1..n, h[i] = e
            PROVE  Among(e, g)
        <4>1. i \in 1..Len(g)
          BY <1>5
        <4> QED
          BY <1>8, <3>2, <4>1 DEF Among
      <3>3. ASSUME NEW i \in 1..k, recs[i].ev = e
            PROVE  Among(e, g)
        <4>1. n + i \in 1..Len(g)
          BY <1>5
        <4> QED
          BY <1>8, <3>3, <4>1 DEF Among
      <3> QED
        BY <3>1, <3>2, <3>3 DEF Among, n
    <2>2. (\E i \in 1..k : recs[i].ev = e) <=> e.dst = l /\ IsRecorded(e)
      BY <1>6, <1>10
    <2> QED
      BY <1>3, <1>8, <2>1, <2>2 DEF Stands
  <1>12. ASSUME NEW p \in 1..Len(g), NEW i \in 1..Len(s), s[i] = g[p]
         PROVE  p \in 1..n /\ h[p] = s[i]
    <2>1. s[i] \in Event /\ Among(s[i], s)
      BY <1>1 DEF Among
    <2>2. IsCommitted(s[i])
      BY <1>1, <2>1
    <2>3. ASSUME NEW q \in 1..k, p = n + q
          PROVE  FALSE
      <3>1. recs[q].ev = s[i] /\ RecordedAt(s[i], q)
        BY <1>6, <1>8, <1>12, <2>3
      <3> QED
        BY <2>1, <2>2, <3>1 DEF NothingTwice, Apart, IsCommitted
    <2> QED
      BY <1>8, <1>9, <1>12, <2>3
  <1>13. ASSUME NEW p \in 1..Len(g), NEW x \in 1..k, recs[x].ev = g[p]
         PROVE  p = n + x
    <2>1. recs[x].ev \in Event /\ RecordedAt(recs[x].ev, x)
      BY <1>5, <1>6
    <2>2. p \notin 1..n
      <3> SUFFICES ASSUME p \in 1..n
                   PROVE  FALSE
        OBVIOUS
      <3>1. IsCommitted(recs[x].ev)
        BY <1>7, <1>8, <1>13
      <3> QED
        BY <2>1, <3>1 DEF NothingTwice, Apart, IsCommitted
    <2>3. PICK y \in 1..k : p = n + y
      BY <1>9, <2>2
    <2>4. recs[y].ev = recs[x].ev /\ RecordedAt(recs[x].ev, y)
      BY <1>6, <1>8, <1>13, <2>3
    <2> QED
      BY <2>1, <2>3, <2>4 DEF NothingTwice
  <1>14. ASSUME NEW i \in 1..Len(v), NEW j \in 1..Len(v),
                NEW p \in 1..Len(g), NEW q \in 1..Len(g),
                i < j, v[i] = g[p], v[j] = g[q]
         PROVE  p < q
    <2>1. Len(s) \in Nat /\ Len(u) \in Nat
      BY <1>4 DEF InARow
    <2>2. CASE j \in 1..Len(s)
      <3>1. i \in 1..Len(s)
        BY <1>14, <2>1, <2>2
      <3>2. v[i] = s[i] /\ v[j] = s[j]
        BY <1>4, <2>2, <3>1 DEF InARow
      <3>3. p \in 1..n /\ h[p] = s[i] /\ q \in 1..n /\ h[q] = s[j]
        BY <1>12, <1>14, <2>2, <3>1, <3>2
      <3>4. s[i] # s[j] /\ Le(s[i].ts, s[j].ts)
        BY <1>1, <1>14, <2>2, <3>1
      <3>5. s[i] \in Event /\ s[j] \in Event /\ Among(s[i], s) /\ Among(s[j], s)
        BY <1>1, <2>2, <3>1 DEF Among
      <3>6. s[i].ts # s[j].ts /\ s[i].ts \in Stamp /\ s[j].ts \in Stamp
        <4>1. /\ ~ s[i].anti /\ s[i].dst = l /\ IsCommitted(s[i])
              /\ ~ s[j].anti /\ s[j].dst = l /\ IsCommitted(s[j])
          BY <1>1, <3>5
        <4> QED
          BY <3>4, <3>5, <4>1, EventFields DEF NoTies
      <3>7. Lt(s[i].ts, s[j].ts)
        BY <3>4, <3>6, StampOrder DEF Le
      <3>8. q < p => Le(s[j].ts, s[i].ts)
        <4>1. q < p => q \in 1..(p-1)
          BY <1>5, <3>3
        <4> QED
          BY <1>8, <3>3, <4>1
      <3>9. p # q /\ ~ (q < p)
        BY <3>3, <3>4, <3>7, <3>8 DEF Le
      <3> QED
        BY <1>5, <3>3, <3>9
    <2>3. ASSUME NEW b \in 1..Len(u), j = Len(s) + b
          PROVE  p < q
      <3>1. v[j] = u[b] /\ u[b] \in Event /\ Among(u[b], u)
        <4>1. v[j] = u[b] /\ Among(u[b], u)
          BY <1>4, <2>3 DEF InARow, Among
        <4>2. \A x \in 1..Len(u) : u[x] \in Event
          BY <1>2
        <4> QED
          BY <4>1, <4>2
      <3>2. CASE i \in 1..Len(s)
        <4>1. v[i] = s[i]
          BY <1>4, <3>2 DEF InARow
        <4>2. p \in 1..n
          BY <1>12, <1>14, <3>2, <4>1
        <4>3. u[b].dst = l /\ IsRecorded(u[b])
          BY <1>2, <3>1
        <4>4. PICK y \in 1..k : recs[y].ev = u[b]
          BY <1>10, <3>1, <4>3
        <4>5. q = n + y
          BY <1>13, <1>14, <3>1, <4>4
        <4> QED
          BY <1>5, <4>2, <4>5
      <3>3. ASSUME NEW a \in 1..Len(u), i = Len(s) + a
            PROVE  p < q
        <4>1. v[i] = u[a] /\ a < b
          BY <1>4, <1>14, <2>1, <2>3, <3>3 DEF InARow
        <4>2. PICK x \in 1..k, y \in 1..k :
                x < y /\ u[a] = recs[x].ev /\ u[b] = recs[y].ev
          BY <1>2, <4>1
        <4>3. p = n + x
          BY <1>13, <1>14, <4>1, <4>2
        <4>4. q = n + y
          BY <1>13, <1>14, <3>1, <4>2
        <4> QED
          BY <1>5, <4>2, <4>3, <4>4
      <3> QED
        BY <1>4, <3>2, <3>3 DEF InARow
    <2> QED
      BY <1>4, <2>2, <2>3 DEF InARow
  <1> QED
    BY <1>3, <1>11, <1>14 DEF PlainOf, v

\* The state of an LP, from what is committed and what is on record.
LEMMA StateFromHistory ==
    ASSUME TypeOK, MessageInv, ProcessedInOrder, GvtIsLowerBound, TerminationIsClean,
           NothingTwice, TraceFits, TraceInOrder, CommittedBelowGvt, RecordsReplay,
           CommittedReplays, NoTies, NEW l \in LPs
    PROVE  ctx[l].state = Replayed(l, History(l)).state
  <1> DEFINE c == ctx[l]
             k == Len(c.processed)
  <1>1. PICK h \in Seq(Event) : \E st \in [0..Len(h) -> LPState] : BasedOn(l, h, st)
    BY DEF CommittedReplays
  <1>2. PICK st \in [0..Len(h) -> LPState] : BasedOn(l, h, st)
    BY <1>1
  <1>3. /\ Execution(l, h, st)
        /\ \A e \in Event : Among(e, h) <=> e.dst = l /\ IsCommitted(e)
        /\ st[Len(h)] = RestoredState(c, 0)
    BY <1>2 DEF BasedOn
  <1>4. c \in LPContext /\ k \in 0..Len(c.processed)
    BY DEF TypeOK, LPContext
  <1>5. Replays(l, c)
    BY ReplaysAll
  <1>6. InOrderAfter(l, c, k, h)
    BY <1>3, <1>4, RecordsFollow
  <1>7. RestoredState(c, k) = ctx[l].state
    BY <1>4, RestoredAll
  <1> HIDE DEF c, k
  <1>8. PICK g \in Seq(Event) : \E t \in [0..Len(g) -> LPState] :
            Continued(l, c, k, h, g, t)
    BY <1>3, <1>4, <1>5, <1>6, ExecutionContinues
  <1>9. PICK t \in [0..Len(g) -> LPState] : Continued(l, c, k, h, g, t)
    BY <1>8
  <1>10. \A i \in 1..Len(h) : \A j \in 1..(i-1) : Le(h[j].ts, h[i].ts)
    BY <1>3 DEF Execution
  <1>11. History(l) \in Seq(Event) /\ PlainOf(g, History(l))
    <2>1. h \in Seq(Event) /\ g \in Seq(Event)
      OBVIOUS
    <2> USE DEF c, k
    <2>2. /\ Len(g) = Len(h) + Len(ctx[l].processed)
          /\ \A i \in 1..Len(h) : g[i] = h[i]
          /\ \A i \in 1..Len(ctx[l].processed) :
                g[Len(h) + i] = ctx[l].processed[i].ev
      BY <1>9 DEF Continued
    <2> QED
      BY <1>3, <1>10, <2>1, <2>2, HistoryInOrder
  <1>12. Replayed(l, History(l)).state = t[Len(g)]
    <2>1. g \in Seq(Event)
      OBVIOUS
    <2> QED
      BY <1>9, <1>11, <2>1, SameOutcome DEF Continued
  <1> QED
    BY <1>7, <1>9, <1>12 DEF Continued

\* rollback_ restores state: if handlers write only what they ask to write and
\* send only into the future, an LP is always in the state that executing from
\* scratch the events committed for it, in the order of the sink, and then those
\* it has on record leads to, unless two of the committed ones have the same
\* stamp: between these the sink's order need not be that of their execution.
THEOREM StateIsReplayed ==
    ASSUME WritesDeclared, CausalApp
    PROVE  Spec => [](NoTies => StateMatchesHistory)
  <1> DEFINE Given == /\ TypeOK /\ ProcessedInOrder /\ MessageInv /\ GvtIsLowerBound
                      /\ TerminationIsClean /\ NothingTwice /\ RecordsReplay
             Known == /\ DeliveryInv /\ CommittedBelowGvt /\ TraceInOrder
                      /\ CommittedReplays
  <1>1. Given /\ Known /\ [Next]_vars => Known'
    BY TraceOrderStep, BaseStep, BelowStep, DeliveryStep DEF DeliveryInv
  <1>2. Init => Known
    <2>1. Init => \A r \in Ranks : 1..Len(trace[r]) = {}
      BY DEF Init
    <2> QED
      BY <2>1, BaseInit, DeliveryInit DEF TraceInOrder
  <1>3. Given /\ Known => (NoTies => StateMatchesHistory)
    BY StateFromHistory DEF StateMatchesHistory, DeliveryInv
  <1>4. Spec => []Given
    <2>1. Spec => []GvtIsLowerBound
      BY GvtBounds
    <2>2. Spec => []RecordsReplay
      BY RollbackRestores
    <2> QED
      BY <2>1, <2>2, TypeCorrect, RecordsInOrder, MessagesUnambiguous, StopsOnlyWhenDone,
         NothingHandledTwice, PTL
  <1> QED
    BY <1>1, <1>2, <1>3, <1>4, PTL DEF Spec

=============================================================================

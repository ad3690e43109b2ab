------------------------- MODULE GvtMigrationProofs -------------------------
(***************************************************************************)
(* GVT-safe migration, for every set of migrations and every order of      *)
(* their messages around the GVT.  The invariant is that what waits is in  *)
(* the order of its times and that owners are of migrations that are due.  *)
(***************************************************************************)
EXTENDS GvtMigration, StampLemmas

InDueOrder(q) ==
    \A i, j \in 1..Len(q) : i < j => Le(q[i].effectiveTs, q[j].effectiveTs)

\* An owner is that of a migration whose time is there.
OwnersDue ==
    \A e \in DOMAIN owner :
        \E m \in Migrations : /\ m.entity = e /\ m.newOwner = owner[e]
                              /\ Le(m.effectiveTs, gvt)

MigrationInv ==
    /\ wire \in SUBSET Migrations /\ gvt \in Stamp
    /\ waiting \in Seq(Migrations) /\ InDueOrder(waiting)
    /\ OwnersDue

\* Times are stamps.
LEMMA Times ==
    /\ \A m \in Migrations : m.effectiveTs \in Stamp
    /\ SendStamps \subseteq Stamp
  BY MigrationAssumption

\* p is q with x after its first k entries.
IsInsertion(p, q, k, x) ==
    /\ Len(p) = Len(q) + 1
    /\ \A i \in 1..Len(p) : p[i] = IF i <= k THEN q[i]
                                   ELSE IF i = k + 1 THEN x ELSE q[i - 1]

\* p is a, then x, then b.
IsConcatenation(p, a, x, b) ==
    /\ Len(p) = Len(a) + 1 + Len(b)
    /\ \A i \in 1..Len(a) : p[i] = a[i]
    /\ p[Len(a) + 1] = x
    /\ \A i \in 1..Len(b) : p[Len(a) + 1 + i] = b[i]

\* Two sequences with x between them.
LEMMA Concatenated ==
    ASSUME NEW S, NEW a \in Seq(S), NEW b \in Seq(S), NEW x \in S,
           NEW p, p = a \o <<x>> \o b
    PROVE  p \in Seq(S) /\ IsConcatenation(p, a, x, b)
  <1> DEFINE c == a \o <<x>>
  <1>1. Len(a) \in Nat /\ Len(b) \in Nat
    OBVIOUS
  <1>2. c \in Seq(S) /\ Len(c) = Len(a) + 1
    OBVIOUS
  <1>3. \A i \in 1..Len(a) : c[i] = a[i]
    BY <1>1
  <1>4. c[Len(a) + 1] = x
    BY <1>1
  <1>5. p = c \o b
    OBVIOUS
  <1> HIDE DEF c
  <1>6. p \in Seq(S) /\ Len(p) = Len(c) + Len(b)
    BY <1>2, <1>5
  <1>7. \A i \in 1..Len(c) : p[i] = c[i]
    BY <1>1, <1>2, <1>5
  <1>8. \A i \in 1..Len(b) : p[Len(c) + i] = b[i]
    BY <1>1, <1>2, <1>5
  <1> QED
    BY <1>1, <1>2, <1>3, <1>4, <1>6, <1>7, <1>8 DEF IsConcatenation

\* InsertAt moves what is behind the new entry by one.
LEMMA InsertedAt ==
    ASSUME NEW S, NEW q \in Seq(S), NEW k \in 0..Len(q), NEW x \in S,
           NEW p, p = InsertAt(q, k + 1, x)
    PROVE  p \in Seq(S) /\ IsInsertion(p, q, k, x)
  <1> DEFINE a == SubSeq(q, 1, k)
             b == SubSeq(q, k + 1, Len(q))
  <1>1. Len(q) \in Nat /\ k \in Nat /\ k <= Len(q)
    OBVIOUS
  <1>2. p = a \o <<x>> \o b
    <2>1. (k + 1) - 1 = k
      BY <1>1
    <2> QED
      BY <2>1 DEF InsertAt
  <1>3. /\ a \in Seq(S) /\ Len(a) = k
        /\ \A i \in 1..k : a[i] = q[i]
    BY <1>1
  <1>4. b \in Seq(S) /\ Len(b) = Len(q) - k
    BY <1>1
  <1>5. ASSUME NEW i \in 1..(Len(q) - k)
        PROVE  b[i] = q[k + i]
    <2>1. i \in 1..(Len(q) - (k + 1) + 1) /\ (k + 1) + i - 1 = k + i
      BY <1>1
    <2> QED
      BY <1>1, <2>1
  <1> HIDE DEF a, b
  <1>6. /\ p \in Seq(S) /\ Len(p) = Len(a) + 1 + Len(b)
        /\ \A i \in 1..Len(a) : p[i] = a[i]
        /\ p[Len(a) + 1] = x
        /\ \A i \in 1..Len(b) : p[Len(a) + 1 + i] = b[i]
    <2>1. p \in Seq(S) /\ IsConcatenation(p, a, x, b)
      BY <1>2, <1>3, <1>4, Concatenated
    <2> QED
      BY <2>1 DEF IsConcatenation
  <1>7. Len(p) = Len(q) + 1
    BY <1>1, <1>3, <1>4, <1>6
  <1>8. ASSUME NEW i \in 1..Len(p)
        PROVE  p[i] = IF i <= k THEN q[i]
                      ELSE IF i = k + 1 THEN x ELSE q[i - 1]
    <2>1. CASE i <= k
      <3>1. i \in 1..Len(a)
        BY <1>1, <1>3, <2>1
      <3>2. p[i] = a[i] /\ a[i] = q[i]
        BY <1>1, <1>3, <1>6, <2>1, <3>1
      <3> QED
        BY <2>1, <3>2
    <2>2. CASE i = k + 1
      BY <1>1, <1>3, <1>6, <2>2
    <2>3. CASE i > k + 1
      <3> DEFINE m == i - (k + 1)
      <3>1. m \in 1..(Len(q) - k) /\ k + m = i - 1 /\ k + 1 + m = i
        BY <1>1, <1>7, <2>3
      <3> HIDE DEF m
      <3>2. p[i] = b[m]
        BY <1>3, <1>4, <1>6, <3>1
      <3>3. b[m] = q[k + m]
        BY <1>5, <3>1
      <3> QED
        BY <1>1, <2>3, <3>1, <3>2, <3>3
    <2> QED
      BY <1>1, <1>7, <2>1, <2>2, <2>3
  <1> QED
    BY <1>6, <1>7, <1>8 DEF IsInsertion

\* p has what q has and mig, in the order of the times.
HasEmplaced(p, q, mig) ==
    /\ p \in Seq(Migrations) /\ InDueOrder(p)
    /\ \E i \in 1..Len(p) : p[i] = mig
    /\ \A i \in 1..Len(q) : \E j \in 1..Len(p) : p[j] = q[i]

\* The new entry goes between those that are not later and those that are.
LEMMA EmplaceSpec ==
    ASSUME NEW q \in Seq(Migrations), InDueOrder(q), NEW mig \in Migrations,
           NEW p, p = Emplace(q, mig)
    PROVE  HasEmplaced(p, q, mig)
  <1> DEFINE B == {i \in 1..Len(q) : Le(q[i].effectiveTs, mig.effectiveTs)}
             k == Max({n \in 0..Len(q) : \A i \in 1..n : i \in B})
  <1>1. Len(q) \in Nat /\ \A i \in 1..Len(q) : q[i] \in Migrations
    OBVIOUS
  <1>2. {n \in 0..Len(q) : \A i \in 1..n : i \in B}
        = {n \in 0..Len(q) :
              \A i \in 1..n : Le(q[i].effectiveTs, mig.effectiveTs)}
    BY <1>1
  <1>3. p = InsertAt(q, k + 1, mig)
    BY <1>2 DEF Emplace
  <1> HIDE DEF B
  <1>4. k \in 0..Len(q) /\ (\A i \in 1..k : i \in B) /\ (k < Len(q) => k + 1 \notin B)
    BY <1>1, FrontCut DEF B
  <1> HIDE DEF k
  <1>5. /\ p \in Seq(Migrations) /\ Len(p) = Len(q) + 1
        /\ \A i \in 1..Len(p) : p[i] = IF i <= k THEN q[i]
                                       ELSE IF i = k + 1 THEN mig ELSE q[i - 1]
    <2>1. p \in Seq(Migrations) /\ IsInsertion(p, q, k, mig)
      BY <1>3, <1>4, InsertedAt
    <2> QED
      BY <2>1 DEF IsInsertion
  <1>6. \A i \in 1..k : Le(q[i].effectiveTs, mig.effectiveTs)
    BY <1>4 DEF B
  <1>7. \A i \in (k+1)..Len(q) : Le(mig.effectiveTs, q[i].effectiveTs)
    <2> TAKE i \in (k+1)..Len(q)
    <2>1. k + 1 \in 1..Len(q) /\ i \in 1..Len(q) /\ k < Len(q)
      BY <1>1, <1>4
    <2>2. ~ Le(q[k + 1].effectiveTs, mig.effectiveTs)
      BY <1>4, <2>1 DEF B
    <2>3. q[k + 1].effectiveTs \in Stamp /\ q[i].effectiveTs \in Stamp
          /\ mig.effectiveTs \in Stamp
      BY <1>1, <2>1, Times
    <2>4. Le(mig.effectiveTs, q[k + 1].effectiveTs)
      BY <2>2, <2>3, LeOrder DEF Le
    <2>5. Le(q[k + 1].effectiveTs, q[i].effectiveTs)
      <3>1. CASE i = k + 1
        BY <2>3, <3>1, LeOrder
      <3>2. CASE i > k + 1
        BY <2>1, <3>2 DEF InDueOrder
      <3> QED
        BY <1>4, <3>1, <3>2
    <2> QED
      BY <2>3, <2>4, <2>5, LeOrder
  <1>8. ASSUME NEW i \in 1..Len(p), NEW j \in 1..Len(p), i < j
        PROVE  Le(p[i].effectiveTs, p[j].effectiveTs)
    <2>1. CASE j <= k
      <3>1. p[i] = q[i] /\ p[j] = q[j] /\ i \in 1..Len(q) /\ j \in 1..Len(q)
        BY <1>1, <1>4, <1>5, <1>8, <2>1
      <3> QED
        BY <1>8, <3>1 DEF InDueOrder
    <2>2. CASE j = k + 1
      <3>1. p[i] = q[i] /\ p[j] = mig /\ i \in 1..k
        BY <1>1, <1>4, <1>5, <1>8, <2>2
      <3> QED
        BY <1>6, <3>1
    <2>3. CASE j > k + 1 /\ i = k + 1
      <3>1. p[i] = mig /\ p[j] = q[j - 1] /\ j - 1 \in (k+1)..Len(q)
        BY <1>1, <1>4, <1>5, <2>3
      <3> QED
        BY <1>7, <3>1
    <2>4. CASE j > k + 1 /\ i <= k
      <3>1. /\ p[i] = q[i] /\ p[j] = q[j - 1] /\ i \in 1..Len(q)
            /\ j - 1 \in 1..Len(q) /\ i < j - 1
        BY <1>1, <1>4, <1>5, <2>4
      <3> QED
        BY <3>1 DEF InDueOrder
    <2>5. CASE i > k + 1
      <3>1. /\ p[i] = q[i - 1] /\ p[j] = q[j - 1] /\ i - 1 \in 1..Len(q)
            /\ j - 1 \in 1..Len(q) /\ i - 1 < j - 1
        BY <1>1, <1>4, <1>5, <1>8, <2>5
      <3> QED
        BY <3>1 DEF InDueOrder
    <2> QED
      BY <1>4, <1>5, <1>8, <2>1, <2>2, <2>3, <2>4, <2>5
  <1>9. k + 1 \in 1..Len(p) /\ p[k + 1] = mig
    BY <1>1, <1>4, <1>5
  <1>10. ASSUME NEW i \in 1..Len(q)
         PROVE  \E j \in 1..Len(p) : p[j] = q[i]
    <2>1. CASE i <= k
      <3>1. i \in 1..Len(p) /\ p[i] = q[i]
        BY <1>1, <1>4, <1>5, <2>1
      <3> QED
        BY <3>1
    <2>2. CASE i > k
      <3>1. i + 1 \in 1..Len(p) /\ p[i + 1] = q[i]
        BY <1>1, <1>4, <1>5, <2>2
      <3> QED
        BY <3>1
    <2> QED
      BY <1>4, <2>1, <2>2
  <1> QED
    BY <1>5, <1>8, <1>9, <1>10 DEF InDueOrder, HasEmplaced

\* What is taken from the front is due, and what stays is not.
LEMMA ReadySpec ==
    ASSUME NEW q \in Seq(Migrations), InDueOrder(q), NEW g \in Stamp,
           NEW n, n = Ready(q, g)
    PROVE  /\ n \in 0..Len(q)
           /\ \A i \in 1..n : Le(q[i].effectiveTs, g)
           /\ \A i \in (n+1)..Len(q) : Lt(g, q[i].effectiveTs)
  <1> DEFINE B == {i \in 1..Len(q) : Le(q[i].effectiveTs, g)}
  <1>1. Len(q) \in Nat /\ \A i \in 1..Len(q) : q[i] \in Migrations
    OBVIOUS
  <1>2. {m \in 0..Len(q) : \A i \in 1..m : i \in B}
        = {m \in 0..Len(q) : \A i \in 1..m : Le(q[i].effectiveTs, g)}
    BY <1>1
  <1>3. n = Max({m \in 0..Len(q) : \A i \in 1..m : i \in B})
    BY <1>2 DEF Ready
  <1> HIDE DEF B
  <1>4. n \in 0..Len(q) /\ (\A i \in 1..n : i \in B) /\ (n < Len(q) => n + 1 \notin B)
    BY <1>1, <1>3, FrontCut DEF B
  <1>5. ASSUME NEW i \in (n+1)..Len(q)
        PROVE  Lt(g, q[i].effectiveTs)
    <2>1. n + 1 \in 1..Len(q) /\ i \in 1..Len(q) /\ n < Len(q)
      BY <1>1, <1>4
    <2>2. Lt(g, q[n + 1].effectiveTs)
      BY <1>4, <2>1 DEF B, Le
    <2>3. q[n + 1].effectiveTs \in Stamp /\ q[i].effectiveTs \in Stamp
      BY <1>1, <2>1, Times
    <2>4. CASE i = n + 1
      BY <2>2, <2>4
    <2>5. CASE i > n + 1
      <3>1. Le(q[n + 1].effectiveTs, q[i].effectiveTs)
        BY <2>1, <2>5 DEF InDueOrder
      <3> QED
        BY <2>2, <2>3, <3>1, LeOrder
    <2> QED
      BY <1>4, <2>4, <2>5
  <1> QED
    BY <1>4, <1>5 DEF B

\* An owner in o is the old one or that of one of the first n entries of q.
OwnersChanged(q, n, o) ==
    /\ DOMAIN o = DOMAIN owner \cup {q[i].entity : i \in 1..n}
    /\ \A e \in DOMAIN o :
          \/ e \in DOMAIN owner /\ o[e] = owner[e]
          \/ \E i \in 1..n : q[i].entity = e /\ q[i].newOwner = o[e]

\* The changes of the owner map amount to this.
LEMMA OwnersSpec ==
    ASSUME NEW q \in Seq(Migrations), NEW n \in 0..Len(q),
           NEW o, o = OwnersAfter(q, n)
    PROVE  OwnersChanged(q, n, o)
  <1> DEFINE Of(e) == {i \in 1..n : q[i].entity = e}
             D == DOMAIN owner \cup {q[i].entity : i \in 1..n}
  <1>1. o = [e \in D |-> IF Of(e) = {} THEN owner[e] ELSE q[Max(Of(e))].newOwner]
    BY DEF OwnersAfter
  <1>2. ASSUME NEW e \in D
        PROVE  \/ e \in DOMAIN owner /\ o[e] = owner[e]
               \/ \E i \in 1..n : q[i].entity = e /\ q[i].newOwner = o[e]
    <2>1. CASE Of(e) = {}
      BY <1>1, <2>1
    <2>2. CASE Of(e) # {}
      <3>1. Of(e) \in SUBSET (0..n) /\ n \in Nat
        OBVIOUS
      <3>2. o[e] = q[Max(Of(e))].newOwner
        BY <1>1, <2>2
      <3>3. Of(e) = {i \in 1..n : q[i].entity = e}
        OBVIOUS
      <3> HIDE DEF Of
      <3>4. Max(Of(e)) \in Of(e)
        BY <2>2, <3>1, GreatestNat
      <3> QED
        BY <3>2, <3>3, <3>4
    <2> QED
      BY <2>1, <2>2
  <1>3. DOMAIN o = D
    BY <1>1
  <1> QED
    BY <1>2, <1>3 DEF OwnersChanged

\* apply_ready_migrations_, when q is what waits and g the GVT: nothing that is due
\* stays, nothing else goes.
LEMMA ApplyReady ==
    ASSUME MigrationInv, NEW q \in Seq(Migrations), InDueOrder(q),
           NEW g \in Stamp, Le(gvt, g), gvt' = g, wire' \in SUBSET Migrations,
           apply_ready_migrations_(q, g),
           \A m \in Migrations \ wire' :
              \/ \E i \in 1..Len(q) : q[i] = m
              \/ m.entity \in DOMAIN owner /\ Le(m.effectiveTs, g)
    PROVE  MigrationInv' /\ NoneOverlooked'
  <1> DEFINE n == Ready(q, g)
             s == SubSeq(q, n + 1, Len(q))
  <1>1. /\ n \in 0..Len(q)
        /\ \A i \in 1..n : Le(q[i].effectiveTs, g)
        /\ \A i \in (n+1)..Len(q) : Lt(g, q[i].effectiveTs)
    BY ReadySpec
  <1>2. waiting' = s /\ owner' = OwnersAfter(q, n)
    BY DEF apply_ready_migrations_
  <1> HIDE DEF n
  <1>3. Len(q) \in Nat /\ n \in Nat /\ n <= Len(q)
        /\ \A i \in 1..Len(q) : q[i] \in Migrations
    BY <1>1
  <1>4. s \in Seq(Migrations) /\ Len(s) = Len(q) - n
    BY <1>3
  <1>5. ASSUME NEW i \in 1..(Len(q) - n)
        PROVE  s[i] = q[n + i]
    <2>1. i \in 1..(Len(q) - (n + 1) + 1) /\ (n + 1) + i - 1 = n + i
      BY <1>3
    <2> QED
      BY <1>3, <2>1
  <1> HIDE DEF s
  <1>6. InDueOrder(s)
    <2> SUFFICES ASSUME NEW i \in 1..Len(s), NEW j \in 1..Len(s), i < j
                 PROVE  Le(s[i].effectiveTs, s[j].effectiveTs)
      BY DEF InDueOrder
    <2>1. /\ s[i] = q[n + i] /\ s[j] = q[n + j] /\ n + i < n + j
          /\ n + i \in 1..Len(q) /\ n + j \in 1..Len(q)
      <3>1. i \in 1..(Len(q) - n) /\ j \in 1..(Len(q) - n)
        BY <1>4
      <3>2. s[i] = q[n + i] /\ s[j] = q[n + j]
        BY <1>5, <3>1
      <3> QED
        BY <1>3, <3>1, <3>2
    <2> QED
      BY <2>1 DEF InDueOrder
  <1>7. \A i \in 1..Len(s) : Lt(g, s[i].effectiveTs)
    <2> TAKE i \in 1..Len(s)
    <2>1. s[i] = q[n + i] /\ n + i \in (n+1)..Len(q)
      BY <1>3, <1>4, <1>5
    <2> QED
      BY <1>1, <2>1
  <1>8. /\ DOMAIN owner' = DOMAIN owner \cup {q[i].entity : i \in 1..n}
        /\ \A e \in DOMAIN owner' :
              \/ e \in DOMAIN owner /\ owner'[e] = owner[e]
              \/ \E i \in 1..n : q[i].entity = e /\ q[i].newOwner = owner'[e]
    <2>1. OwnersChanged(q, n, owner')
      BY <1>1, <1>2, OwnersSpec
    <2> QED
      BY <2>1 DEF OwnersChanged
  <1>9. ASSUME NEW e \in DOMAIN owner'
        PROVE  \E m \in Migrations : /\ m.entity = e /\ m.newOwner = owner'[e]
                                     /\ Le(m.effectiveTs, g)
    <2>1. CASE e \in DOMAIN owner /\ owner'[e] = owner[e]
      <3>1. PICK m \in Migrations : /\ m.entity = e /\ m.newOwner = owner[e]
                                    /\ Le(m.effectiveTs, gvt)
        BY <2>1 DEF MigrationInv, OwnersDue
      <3>2. m.effectiveTs \in Stamp /\ gvt \in Stamp
        BY Times DEF MigrationInv
      <3>3. Le(m.effectiveTs, g)
        BY <3>1, <3>2, LeOrder
      <3> QED
        BY <2>1, <3>1, <3>3
    <2>2. CASE \E i \in 1..n : q[i].entity = e /\ q[i].newOwner = owner'[e]
      <3>1. PICK i \in 1..n : q[i].entity = e /\ q[i].newOwner = owner'[e]
        BY <2>2
      <3>2. q[i] \in Migrations
        BY <1>3
      <3> QED
        BY <1>1, <3>1, <3>2
    <2> QED
      BY <1>8, <2>1, <2>2
  <1>10. ASSUME NEW m \in Migrations \ wire'
         PROVE  IF Lt(g, m.effectiveTs) THEN \E i \in 1..Len(s) : s[i] = m
                                        ELSE m.entity \in DOMAIN owner'
    <2>1. CASE m.entity \in DOMAIN owner /\ Le(m.effectiveTs, g)
      BY <1>8, <2>1 DEF Le
    <2>2. CASE \E i \in 1..Len(q) : q[i] = m
      <3>1. PICK i \in 1..Len(q) : q[i] = m
        BY <2>2
      <3>2. CASE i \in 1..n
        <4>1. ~ Lt(g, m.effectiveTs)
          BY <1>1, <3>1, <3>2 DEF Le
        <4>2. m.entity \in DOMAIN owner'
          BY <1>8, <3>1, <3>2
        <4> QED
          BY <4>1, <4>2
      <3>3. CASE i \in (n+1)..Len(q)
        <4>1. i - n \in 1..Len(s) /\ n + (i - n) = i /\ i - n \in 1..(Len(q) - n)
          BY <1>3, <1>4, <3>3
        <4>2. s[i - n] = m
          BY <1>5, <3>1, <4>1
        <4>3. Lt(g, m.effectiveTs)
          BY <1>1, <3>1, <3>3
        <4> QED
          BY <4>1, <4>2, <4>3
      <3> QED
        BY <1>3, <3>2, <3>3
    <2> QED
      BY <2>1, <2>2
  <1>11. MigrationInv'
    BY <1>2, <1>4, <1>6, <1>9 DEF MigrationInv, OwnersDue
  <1>12. NoneOverlooked'
    BY <1>2, <1>7, <1>10 DEF NoneOverlooked
  <1> QED
    BY <1>11, <1>12

\* At the start nothing has come.
LEMMA MigrationInit ==
    ASSUME Init
    PROVE  MigrationInv /\ NoneOverlooked /\ NotBeforeCutover
  <1>1. DOMAIN owner = {} /\ Len(waiting) = 0 /\ waiting \in Seq(Migrations)
    BY DEF Init
  <1>2. InDueOrder(waiting)
    BY <1>1 DEF InDueOrder
  <1>3. Migrations \ wire = {}
    BY DEF Init
  <1>4. NoneOverlooked
    BY <1>1, <1>3 DEF NoneOverlooked
  <1> QED
    BY <1>1, <1>2, <1>4, StampConstants
    DEF Init, MigrationInv, OwnersDue, NotBeforeCutover

\* Each step keeps the invariant, and nothing that has come is overlooked.
LEMMA MigrationStep ==
    ASSUME MigrationInv, NoneOverlooked, [Next]_vars
    PROVE  MigrationInv' /\ NoneOverlooked'
  <1>1. ASSUME NEW m \in Migrations \ wire
        PROVE  \/ \E i \in 1..Len(waiting) : waiting[i] = m
               \/ m.entity \in DOMAIN owner /\ Le(m.effectiveTs, gvt)
    BY DEF NoneOverlooked, Le
  <1>2. gvt \in Stamp /\ Le(gvt, gvt)
    BY LeOrder DEF MigrationInv
  <1>3. waiting \in Seq(Migrations) /\ InDueOrder(waiting)
    BY DEF MigrationInv
  <1>4. CASE Receive
    <2>1. PICK mig \in wire :
             /\ wire' = wire \ {mig} /\ gvt' = gvt
             /\ apply_ready_migrations_(Emplace(waiting, mig), gvt)
      BY <1>4 DEF Receive
    <2>2. mig \in Migrations /\ wire' \in SUBSET Migrations
      BY <2>1 DEF MigrationInv
    <2> DEFINE q == Emplace(waiting, mig)
    <2>3. /\ q \in Seq(Migrations) /\ InDueOrder(q)
          /\ \E i \in 1..Len(q) : q[i] = mig
          /\ \A i \in 1..Len(waiting) : \E j \in 1..Len(q) : q[j] = waiting[i]
      <3>1. HasEmplaced(q, waiting, mig)
        BY <1>3, <2>2, EmplaceSpec
      <3> QED
        BY <3>1 DEF HasEmplaced
    <2>4. apply_ready_migrations_(q, gvt)
      BY <2>1
    <2> HIDE DEF q
    <2>5. \A m \in Migrations \ wire' :
             \/ \E i \in 1..Len(q) : q[i] = m
             \/ m.entity \in DOMAIN owner /\ Le(m.effectiveTs, gvt)
      <3> TAKE m \in Migrations \ wire'
      <3>1. CASE m = mig
        BY <2>3, <3>1
      <3>2. CASE m \notin wire
        BY <1>1, <2>3, <3>2
      <3> QED
        BY <2>1, <3>1, <3>2
    <2> QED
      BY <1>2, <2>1, <2>2, <2>3, <2>4, <2>5, ApplyReady
  <1>5. CASE AdvanceGvt
    <2>1. PICK g \in SendStamps :
             /\ Lt(gvt, g) /\ gvt' = g /\ wire' = wire
             /\ apply_ready_migrations_(waiting, g)
      BY <1>5 DEF AdvanceGvt
    <2>2. g \in Stamp /\ Le(gvt, g)
      BY <1>2, <2>1, Times, LeOrder
    <2>3. wire' \in SUBSET Migrations
      BY <2>1 DEF MigrationInv
    <2>4. \A m \in Migrations \ wire' :
             \/ \E i \in 1..Len(waiting) : waiting[i] = m
             \/ m.entity \in DOMAIN owner /\ Le(m.effectiveTs, g)
      <3> TAKE m \in Migrations \ wire'
      <3>1. m.effectiveTs \in Stamp /\ m \in Migrations \ wire
        BY <2>1, Times
      <3> QED
        BY <1>1, <1>2, <2>2, <3>1, LeOrder
    <2> QED
      BY <1>3, <2>1, <2>2, <2>3, <2>4, ApplyReady
  <1>6. CASE Finish
    <2>1. gvt' = gvt /\ wire' = wire /\ apply_ready_migrations_(waiting, gvt)
      BY <1>6 DEF Finish
    <2>2. wire' \in SUBSET Migrations
      BY <2>1 DEF MigrationInv
    <2>3. \A m \in Migrations \ wire' :
             \/ \E i \in 1..Len(waiting) : waiting[i] = m
             \/ m.entity \in DOMAIN owner /\ Le(m.effectiveTs, gvt)
      BY <1>1, <2>1
    <2> QED
      BY <1>2, <1>3, <2>1, <2>2, <2>3, ApplyReady
  <1>7. CASE SendTargeted \/ UNCHANGED vars
    BY <1>7 DEF SendTargeted, vars, MigrationInv, OwnersDue, InDueOrder,
                NoneOverlooked
  <1> QED
    BY <1>4, <1>5, <1>6, <1>7 DEF Next

\* send() consults owners whose time is there, for events that are not earlier.
LEMMA CutoverStep ==
    ASSUME MigrationInv, NotBeforeCutover, [Next]_vars
    PROVE  NotBeforeCutover'
  <1>1. CASE SendTargeted
    <2>1. PICK e \in Entity, ts \in SendStamps :
             /\ Le(gvt, ts)
             /\ routed' = routed \cup
                  {[entity |-> e, ts |-> ts,
                    dst |-> IF e \in DOMAIN owner THEN owner[e] ELSE GivenDst]}
      BY <1>1 DEF SendTargeted
    <2>2. SUFFICES ASSUME e \in DOMAIN owner
                   PROVE  \E m \in Migrations : /\ m.entity = e /\ m.newOwner = owner[e]
                                                /\ Le(m.effectiveTs, ts)
      BY <2>1 DEF NotBeforeCutover
    <2>3. PICK m \in Migrations : /\ m.entity = e /\ m.newOwner = owner[e]
                                  /\ Le(m.effectiveTs, gvt)
      BY <2>2 DEF MigrationInv, OwnersDue
    <2>4. m.effectiveTs \in Stamp /\ gvt \in Stamp /\ ts \in Stamp
      BY <2>1, Times DEF MigrationInv
    <2> QED
      BY <2>1, <2>3, <2>4, LeOrder
  <1>2. CASE routed' = routed
    BY <1>2 DEF NotBeforeCutover
  <1> QED
    BY <1>1, <1>2 DEF Next, vars, Receive, AdvanceGvt, Finish

-----------------------------------------------------------------------------
\* The wait for the GVT makes the cutover safe: whatever the order of migration
\* messages, GVT advances and sends, no event goes to a new owner before the time
\* from which it is the owner (apply_ready_migrations_, send).
THEOREM CutoverIsSafe == Spec => []NotBeforeCutover
  <1>1. Init => MigrationInv /\ NoneOverlooked /\ NotBeforeCutover
    BY MigrationInit
  <1>2. MigrationInv /\ NoneOverlooked /\ NotBeforeCutover /\ [Next]_vars
        => (MigrationInv /\ NoneOverlooked /\ NotBeforeCutover)'
    BY MigrationStep, CutoverStep
  <1> QED
    BY <1>1, <1>2, PTL DEF Spec

\* A migration that has come waits exactly until the GVT is there: it is neither
\* lost nor left behind, whichever of the message and the GVT comes first
\* (apply_migration_, fossil_collect_).
THEOREM MigrationsAreApplied == Spec => []NoneOverlooked
  <1>1. Init => MigrationInv /\ NoneOverlooked
    BY MigrationInit
  <1>2. MigrationInv /\ NoneOverlooked /\ [Next]_vars
        => (MigrationInv /\ NoneOverlooked)'
    BY MigrationStep
  <1> QED
    BY <1>1, <1>2, PTL DEF Spec

=============================================================================

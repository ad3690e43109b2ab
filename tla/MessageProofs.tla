---------------------------- MODULE MessageProofs ---------------------------
(***************************************************************************)
(* Theorems about the messages of the kernel: a uid names one event, a     *)
(* message is on its way only once, and both ways of accounting for what   *)
(* is on its way are exact - the in-flight table with Acks, and the        *)
(* counters of colored-counters GVT.  And about what these accounts are    *)
(* for: the global virtual time and the end of the run.                    *)
(***************************************************************************)
EXTENDS TimeWarpProofs

-----------------------------------------------------------------------------
(***************************************************************************)
(* Sums: partial sums satisfy the equation that SumFunction recurs by.     *)
(***************************************************************************)
\* Some element of a set: the one that the folds take first.
Least(s) == CHOOSE x \in s : TRUE

\* The partial sums of f: the equation that SumFunction recurs by.
IsPartialSums(F, f) ==
    F = [s \in SUBSET DOMAIN f |->
            IF s = {} THEN 0 ELSE f[Least(s)] + F[s \ {Least(s)}]]

\* There are partial sums for the sets of at most n elements.
SumsUpTo(n, F, f) ==
    \A s \in SUBSET DOMAIN f :
        Cardinality(s) <= n =>
            F[s] = IF s = {} THEN 0 ELSE f[Least(s)] + F[s \ {Least(s)}]

\* Taking an element out of a set makes it smaller by one.
LEMMA TakeOut ==
    ASSUME NEW D, IsFiniteSet(D), NEW s \in SUBSET D, s # {}
    PROVE  /\ Least(s) \in s /\ s \ {Least(s)} \in SUBSET D
           /\ Cardinality(s) \in Nat
           /\ Cardinality(s \ {Least(s)}) = Cardinality(s) - 1
  <1>1. Least(s) \in s
    BY DEF Least
  <1>2. IsFiniteSet(s)
    BY FS_Subset
  <1> QED
    BY <1>1, <1>2, FS_RemoveElement, FS_CardinalityType

\* The equation of the partial sums has a solution.
LEMMA PartialSumsExist ==
    ASSUME NEW f, IsFiniteSet(DOMAIN f)
    PROVE  \E F : IsPartialSums(F, f)
  <1> DEFINE D == DOMAIN f
             T == {n \in Nat : \E F : SumsUpTo(n, F, f)}
  <1>1. 0 \in T
    <2> DEFINE F == [s \in SUBSET D |-> 0]
    <2>1. SumsUpTo(0, F, f)
      <3> SUFFICES ASSUME NEW s \in SUBSET D, Cardinality(s) <= 0
                   PROVE  s = {}
        BY DEF SumsUpTo
      <3>1. IsFiniteSet(s)
        BY FS_Subset
      <3>2. Cardinality(s) = 0
        BY <3>1, FS_CardinalityType
      <3> QED
        BY <3>1, <3>2, FS_EmptySet
    <2> QED
      BY <2>1
  <1>2. ASSUME NEW n \in T
        PROVE  n + 1 \in T
    <2>1. PICK F : SumsUpTo(n, F, f)
      OBVIOUS
    <2> DEFINE G == [s \in SUBSET D |->
                        IF Cardinality(s) <= n THEN F[s]
                        ELSE f[Least(s)] + F[s \ {Least(s)}]]
    <2>2. ASSUME NEW s \in SUBSET D, Cardinality(s) <= n + 1, s # {}
          PROVE  G[s] = f[Least(s)] + G[s \ {Least(s)}]
      <3>1. /\ s \ {Least(s)} \in SUBSET D
            /\ Cardinality(s) \in Nat
            /\ Cardinality(s \ {Least(s)}) = Cardinality(s) - 1
        BY <2>2, TakeOut
      <3>2. G[s \ {Least(s)}] = F[s \ {Least(s)}]
        BY <3>1, <2>2
      <3>3. G[s] = f[Least(s)] + F[s \ {Least(s)}]
        BY <2>1, <2>2, <3>1 DEF SumsUpTo
      <3> QED
        BY <3>2, <3>3
    <2>3. G[{}] = 0
      <3>1. {} \in SUBSET D /\ Cardinality({}) = 0
        BY FS_EmptySet
      <3>2. n \in Nat /\ Cardinality({}) <= n
        BY <3>1
      <3>3. F[{}] = 0
        <4>1. F[{}] = IF {} = {} THEN 0 ELSE f[Least({})] + F[{} \ {Least({})}]
          BY <2>1, <3>1, <3>2 DEF SumsUpTo
        <4> QED
          BY <4>1
      <3>4. G[{}] = IF Cardinality({}) <= n THEN F[{}]
                    ELSE f[Least({})] + F[{} \ {Least({})}]
        BY <3>1
      <3> QED
        BY <3>2, <3>3, <3>4
    <2>4. SumsUpTo(n + 1, G, f)
      <3> HIDE DEF G
      <3> QED
        BY <2>2, <2>3 DEF SumsUpTo
    <2> HIDE DEF G
    <2> QED
      BY <2>4
  <1>3. Cardinality(D) \in T
    <2> HIDE DEF T
    <2>1. T \in SUBSET Nat
      BY DEF T
    <2> QED
      BY <1>1, <1>2, <2>1, Counting, FS_CardinalityType
  <1>4. PICK F : SumsUpTo(Cardinality(D), F, f)
    BY <1>3
  <1> DEFINE G == [s \in SUBSET D |-> F[s]]
  <1>5. ASSUME NEW s \in SUBSET D
        PROVE  G[s] = IF s = {} THEN 0 ELSE f[Least(s)] + G[s \ {Least(s)}]
    <2>1. Cardinality(s) <= Cardinality(D)
      BY FS_Subset
    <2> QED
      BY <1>4, <2>1 DEF SumsUpTo
  <1>6. IsPartialSums(G, f)
    BY <1>5 DEF IsPartialSums
  <1> QED
    BY <1>6

\* SumFunction is the partial sum over the whole domain.
LEMMA SumIsPartialSum ==
    ASSUME NEW f, IsFiniteSet(DOMAIN f)
    PROVE  \E F : IsPartialSums(F, f) /\ SumFunction(f) = F[DOMAIN f]
  <1> DEFINE F == CHOOSE F : IsPartialSums(F, f)
  <1>1. IsPartialSums(F, f)
    BY PartialSumsExist
  <1>2. SumFunction(f) = F[DOMAIN f]
    BY DEF SumFunction, SumFunctionOnSet, FoldFunctionOnSet, MapThenFoldSet,
           IsPartialSums, Least
  <1> QED
    BY <1>1, <1>2

-----------------------------------------------------------------------------
\* What holds of the empty set, and of a set if it holds without its least
\* element, holds of all subsets of a finite set.
LEMMA TakingOut ==
    ASSUME NEW D, IsFiniteSet(D), NEW Q \in SUBSET SUBSET D, {} \in Q,
           \A s \in SUBSET D : s # {} /\ s \ {Least(s)} \in Q => s \in Q
    PROVE  D \in Q
  <1> DEFINE T == {n \in Nat : \A s \in SUBSET D : Cardinality(s) = n => s \in Q}
  <1>1. 0 \in T
    <2> SUFFICES ASSUME NEW s \in SUBSET D, Cardinality(s) = 0
                 PROVE  s \in Q
      OBVIOUS
    <2>1. s = {}
      BY FS_Subset, FS_EmptySet
    <2> QED
      BY <2>1
  <1>2. ASSUME NEW n \in T
        PROVE  n + 1 \in T
    <2> SUFFICES ASSUME NEW s \in SUBSET D, Cardinality(s) = n + 1
                 PROVE  s \in Q
      OBVIOUS
    <2>1. s # {}
      BY FS_EmptySet
    <2>2. /\ s \ {Least(s)} \in SUBSET D
          /\ Cardinality(s \ {Least(s)}) = n
      BY <2>1, TakeOut
    <2>3. s \ {Least(s)} \in Q
      BY <2>2
    <2> QED
      BY <2>1, <2>3
  <1>3. T \in SUBSET Nat
    OBVIOUS
  <1> HIDE DEF T
  <1>4. Cardinality(D) \in T
    BY <1>1, <1>2, <1>3, Counting, FS_CardinalityType
  <1> QED
    BY <1>4 DEF T

\* The sum of two functions is summed term by term.
LEMMA SumOfSums ==
    ASSUME NEW f, NEW g, NEW h, IsFiniteSet(DOMAIN h),
           DOMAIN f = DOMAIN h, DOMAIN g = DOMAIN h,
           \A x \in DOMAIN h :
               f[x] \in Int /\ g[x] \in Int /\ h[x] = f[x] + g[x]
    PROVE  /\ SumFunction(f) \in Int /\ SumFunction(g) \in Int
           /\ SumFunction(h) = SumFunction(f) + SumFunction(g)
  <1> DEFINE D == DOMAIN h
  <1>1. PICK F : IsPartialSums(F, f) /\ SumFunction(f) = F[D]
    BY SumIsPartialSum
  <1>2. PICK G : IsPartialSums(G, g) /\ SumFunction(g) = G[D]
    BY SumIsPartialSum
  <1>3. PICK H : IsPartialSums(H, h) /\ SumFunction(h) = H[D]
    BY SumIsPartialSum
  <1> DEFINE Q == {s \in SUBSET D :
                      F[s] \in Int /\ G[s] \in Int /\ H[s] = F[s] + G[s]}
  <1>4. {} \in Q
    BY <1>1, <1>2, <1>3 DEF IsPartialSums
  <1>5. ASSUME NEW s \in SUBSET D, s # {}, s \ {Least(s)} \in Q
        PROVE  s \in Q
    <2> DEFINE x == Least(s)
    <2>1. x \in D
      BY <1>5, TakeOut
    <2>2. /\ F[s] = f[x] + F[s \ {x}]
          /\ G[s] = g[x] + G[s \ {x}]
          /\ H[s] = h[x] + H[s \ {x}]
      BY <1>1, <1>2, <1>3, <1>5 DEF IsPartialSums
    <2>3. /\ F[s \ {x}] \in Int /\ G[s \ {x}] \in Int
          /\ H[s \ {x}] = F[s \ {x}] + G[s \ {x}]
      BY <1>5
    <2>4. f[x] \in Int /\ g[x] \in Int /\ h[x] = f[x] + g[x]
      BY <2>1
    <2> HIDE DEF x
    <2> QED
      BY <2>2, <2>3, <2>4
  <1>6. D \in Q
    <2> HIDE DEF Q
    <2>1. Q \in SUBSET SUBSET D
      BY DEF Q
    <2> QED
      BY <1>4, <1>5, <2>1, TakingOut
  <1> QED
    BY <1>1, <1>2, <1>3, <1>6

\* A sum whose terms are all zero, but for one, is that one.
LEMMA SumOfOne ==
    ASSUME NEW f, IsFiniteSet(DOMAIN f), NEW r \in DOMAIN f, NEW d \in Int,
           f[r] = d, \A x \in DOMAIN f : x # r => f[x] = 0
    PROVE  SumFunction(f) = d
  <1>1. PICK F : IsPartialSums(F, f) /\ SumFunction(f) = F[DOMAIN f]
    BY SumIsPartialSum
  <1> DEFINE Q == {s \in SUBSET DOMAIN f : F[s] = IF r \in s THEN d ELSE 0}
  <1>2. {} \in Q
    BY <1>1 DEF IsPartialSums
  <1>3. ASSUME NEW s \in SUBSET DOMAIN f, s # {}, s \ {Least(s)} \in Q
        PROVE  s \in Q
    <2> DEFINE x == Least(s)
    <2>1. x \in s
      BY <1>3, TakeOut
    <2>2. F[s] = f[x] + F[s \ {x}]
      BY <1>1, <1>3 DEF IsPartialSums
    <2>3. F[s \ {x}] = IF r \in s \ {x} THEN d ELSE 0
      BY <1>3
    <2> HIDE DEF x
    <2>4. CASE x = r
      BY <2>1, <2>2, <2>3, <2>4
    <2>5. CASE x # r
      BY <2>1, <2>2, <2>3, <2>5
    <2> QED
      BY <2>4, <2>5
  <1>4. DOMAIN f \in Q
    <2> HIDE DEF Q
    <2>1. Q \in SUBSET SUBSET DOMAIN f
      BY DEF Q
    <2> QED
      BY <1>2, <1>3, <2>1, TakingOut
  <1> QED
    BY <1>1, <1>4

\* A sum of integers is an integer.
LEMMA SumType ==
    ASSUME NEW D, IsFiniteSet(D), NEW f \in [D -> Int]
    PROVE  SumFunction(f) \in Int
  <1> DEFINE zero == [x \in D |-> 0]
  <1>1. \A x \in D : f[x] \in Int /\ zero[x] \in Int /\ f[x] = f[x] + zero[x]
    OBVIOUS
  <1>2. DOMAIN f = D /\ DOMAIN zero = D
    OBVIOUS
  <1> HIDE DEF zero
  <1> QED
    BY <1>1, <1>2, SumOfSums

\* A sum of zeros is zero.
LEMMA SumOfZeros ==
    ASSUME NEW D, IsFiniteSet(D), NEW f \in [D -> Int], \A x \in D : f[x] = 0
    PROVE  SumFunction(f) = 0
  <1>1. \A x \in D : f[x] = f[x] + f[x]
    OBVIOUS
  <1>2. SumFunction(f) = SumFunction(f) + SumFunction(f) /\ SumFunction(f) \in Int
    BY <1>1, SumOfSums
  <1>3. \A n \in Int : n = n + n => n = 0
    OBVIOUS
  <1> QED
    BY <1>2, <1>3, Zenon

\* When one term changes, so does the sum.
LEMMA SumChange ==
    ASSUME NEW D, IsFiniteSet(D), NEW f \in [D -> Int], NEW g \in [D -> Int],
           NEW r \in D, NEW d \in Int, g[r] = f[r] + d,
           \A x \in D : x # r => g[x] = f[x]
    PROVE  SumFunction(g) = SumFunction(f) + d
  <1> DEFINE one == [x \in D |-> IF x = r THEN d ELSE 0]
  <1>1. SumFunction(one) = d
    BY SumOfOne
  <1>2. \A x \in D : one[x] \in Int /\ g[x] = f[x] + one[x]
    OBVIOUS
  <1>3. DOMAIN one = D
    OBVIOUS
  <1> HIDE DEF one
  <1> QED
    BY <1>1, <1>2, <1>3, SumOfSums

-----------------------------------------------------------------------------
(***************************************************************************)
(* One event per uid, and each message once.                               *)
(***************************************************************************)
Entries(c) == {c.sentLog[i] : i \in 1..Len(c.sentLog)}

\* The uids of the events an LP stands for.
StandingUids(c) == {s.uid : s \in Entries(c)}

\* The sent log is in the order of its uids, which are all below the next one.
LogInOrder(c) ==
    /\ c.nextUid > 0
    /\ \A i \in 1..Len(c.sentLog) :
          /\ 0 < c.sentLog[i].uid /\ c.sentLog[i].uid < c.nextUid
          /\ \A j \in 1..(i-1) : c.sentLog[j].uid < c.sentLog[i].uid

\* An event or anti-message is the one that a log entry is about.
Matches(e, s) == e.uid = s.uid /\ e.ts = s.msgTime /\ e.dst = s.dst

\* LP l goes from context c to context d and hands out the messages "out": new
\* events, and anti-messages for entries that leave the log.
LogStep(l, c, d, out) ==
    /\ d \in LPContext /\ LogInOrder(d)
    /\ c.nextUid <= d.nextUid
    /\ \A s \in Entries(d) :
          \/ s \in Entries(c)
          \/ /\ c.nextUid <= s.uid
             /\ \E e \in out : ~ e.anti /\ Matches(e, s)
             /\ CausalApp => Le(s.sendTime, s.msgTime)
    /\ \A e \in out :
          /\ e \in Event /\ e.src = l /\ e.uid < d.nextUid
          /\ ~ e.anti => c.nextUid <= e.uid
          /\ e.anti => /\ \E s \in Entries(c) : Matches(e, s)
                       /\ e.uid \notin StandingUids(d)
    /\ \A e, f \in out : e.uid = f.uid /\ e.anti = f.anti => e = f

-----------------------------------------------------------------------------
(***************************************************************************)
(* Each thing an LP does is a LogStep.                                     *)
(***************************************************************************)
\* The entries of a sent log are sent records.
LEMMA EntryType ==
    ASSUME NEW c \in LPContext, NEW i \in 1..Len(c.sentLog)
    PROVE  /\ c.sentLog[i] \in SentRecord /\ c.sentLog[i] \in Entries(c)
           /\ c.sentLog[i].uid \in Nat
  <1>1. c.sentLog \in Seq(SentRecord)
    BY DEF LPContext
  <1>2. c.sentLog[i] \in SentRecord
    BY <1>1
  <1> QED
    BY <1>2 DEF SentRecord, Entries

\* Doing nothing with the sent log.
LEMMA SameLog ==
    ASSUME NEW l, NEW c \in LPContext, LogInOrder(c), NEW d \in LPContext,
           d.sentLog = c.sentLog, d.nextUid = c.nextUid
    PROVE  LogStep(l, c, d, {})
  <1>1. c.nextUid \in Nat
    BY DEF LPContext
  <1> QED
    BY <1>1 DEF LogStep, LogInOrder, Entries

\* What else changes in a context does not matter.
LEMMA LogStepMore ==
    ASSUME NEW l, NEW c \in LPContext, NEW d, NEW out, LogStep(l, c, d, out),
           NEW e \in LPContext, e.sentLog = d.sentLog, e.nextUid = d.nextUid
    PROVE  LogStep(l, c, e, out)
  BY SMTT(30) DEF LogStep, LogInOrder, Entries, StandingUids

\* An initial part of a log in order is in order, and its uids do not occur in
\* the rest.
LEMMA LogPrefix ==
    ASSUME NEW c \in LPContext, LogInOrder(c), NEW d \in LPContext,
           d.nextUid = c.nextUid, NEW m \in 0..Len(c.sentLog), Len(d.sentLog) = m,
           \A i \in 1..m : d.sentLog[i] = c.sentLog[i]
    PROVE  /\ LogInOrder(d) /\ Entries(d) \subseteq Entries(c)
           /\ \A i \in (m+1)..Len(c.sentLog) :
                 c.sentLog[i].uid \notin StandingUids(d)
  <1>1. Len(c.sentLog) \in Nat
    BY DEF LPContext
  <1>2. LogInOrder(d)
    BY <1>1 DEF LogInOrder
  <1>3. Entries(d) \subseteq Entries(c)
    BY <1>1 DEF Entries
  <1>4. ASSUME NEW i \in (m+1)..Len(c.sentLog), NEW j \in 1..m
        PROVE  c.sentLog[i].uid # c.sentLog[j].uid
    <2>1. i \in 1..Len(c.sentLog) /\ j \in 1..(i-1) /\ j \in 1..Len(c.sentLog)
      BY <1>1
    <2>2. c.sentLog[j].uid < c.sentLog[i].uid
      BY <2>1 DEF LogInOrder
    <2>3. c.sentLog[j].uid \in Nat /\ c.sentLog[i].uid \in Nat
      BY <2>1, EntryType
    <2> QED
      BY <2>2, <2>3
  <1>5. ASSUME NEW i \in (m+1)..Len(c.sentLog)
        PROVE  c.sentLog[i].uid \notin StandingUids(d)
    <2> SUFFICES ASSUME NEW s \in Entries(d), s.uid = c.sentLog[i].uid
                 PROVE  FALSE
      BY DEF StandingUids
    <2>1. PICK j \in 1..m : s = c.sentLog[j]
      BY DEF Entries
    <2> QED
      BY <2>1, <1>4
  <1> QED
    BY <1>2, <1>3, <1>5

\* rollback_ takes back what leaves the log, and only that.
LEMMA RollbackStep ==
    ASSUME NEW l \in LPs, NEW c \in LPContext, NEW to \in Stamp,
           InOrder(c), LogInOrder(c)
    PROVE  LogStep(l, c, RolledBack(c, to), Antis(l, c, to))
  <1> DEFINE d == RolledBack(c, to)
             m == KeptSent(c, to)
  <1>1. d \in LPContext
    BY RolledBackType
  <1>2. /\ d.nextUid = c.nextUid /\ Len(d.sentLog) = m
        /\ \A i \in 1..m : d.sentLog[i] = c.sentLog[i]
    BY RolledBackLogs
  <1>3. m \in 0..Len(c.sentLog) /\ Len(c.sentLog) \in Nat /\ c.nextUid \in Nat
    BY KeptSentSpec DEF LPContext
  <1>4. Antis(l, c, to) \in SUBSET Event
    BY AntisType
  <1>5. \A a \in Antis(l, c, to) : \E i \in (m+1)..Len(c.sentLog) :
           a = [ts |-> c.sentLog[i].msgTime, src |-> l, dst |-> c.sentLog[i].dst,
                uid |-> c.sentLog[i].uid, kind |-> NoKind, anti |-> TRUE]
    BY DEF Antis
  <1> HIDE DEF d, m
  <1>6. /\ LogInOrder(d) /\ Entries(d) \subseteq Entries(c)
        /\ \A i \in (m+1)..Len(c.sentLog) : c.sentLog[i].uid \notin StandingUids(d)
    BY <1>1, <1>2, <1>3, LogPrefix
  <1>7. ASSUME NEW a \in Antis(l, c, to)
        PROVE  /\ a.src = l /\ a.anti /\ a.uid < c.nextUid
               /\ \E s \in Entries(c) : Matches(a, s)
               /\ a.uid \notin StandingUids(d)
    <2>1. PICK i \in (m+1)..Len(c.sentLog) :
             a = [ts |-> c.sentLog[i].msgTime, src |-> l,
                  dst |-> c.sentLog[i].dst, uid |-> c.sentLog[i].uid,
                  kind |-> NoKind, anti |-> TRUE]
      BY <1>5
    <2>2. i \in 1..Len(c.sentLog)
      BY <1>3
    <2>3. c.sentLog[i] \in Entries(c) /\ c.sentLog[i].uid < c.nextUid
      BY <2>2, EntryType DEF LogInOrder
    <2> QED
      BY <1>6, <2>1, <2>3 DEF Matches
  <1>8. ASSUME NEW a \in Antis(l, c, to), NEW b \in Antis(l, c, to), a.uid = b.uid
        PROVE  a = b
    <2>1. PICK i \in (m+1)..Len(c.sentLog) :
             a = [ts |-> c.sentLog[i].msgTime, src |-> l,
                  dst |-> c.sentLog[i].dst, uid |-> c.sentLog[i].uid,
                  kind |-> NoKind, anti |-> TRUE]
      BY <1>5
    <2>2. PICK j \in (m+1)..Len(c.sentLog) :
             b = [ts |-> c.sentLog[j].msgTime, src |-> l,
                  dst |-> c.sentLog[j].dst, uid |-> c.sentLog[j].uid,
                  kind |-> NoKind, anti |-> TRUE]
      BY <1>5
    <2>3. i \in 1..Len(c.sentLog) /\ j \in 1..Len(c.sentLog)
      BY <1>3
    <2>4. c.sentLog[i].uid = c.sentLog[j].uid
      BY <1>8, <2>1, <2>2
    <2>5. c.sentLog[i].uid \in Nat /\ c.sentLog[j].uid \in Nat
      BY <2>3, EntryType
    <2>6. i = j
      BY <2>3, <2>4, <2>5, <1>3 DEF LogInOrder
    <2> QED
      BY <2>1, <2>2, <2>6
  <1> QED
    BY <1>1, <1>2, <1>3, <1>4, <1>6, <1>7, <1>8 DEF LogStep, d

\* prune_to_gvt_ takes nothing back: what leaves the log is irrevocable.
LEMMA PruneStep ==
    ASSUME NEW l \in LPs, NEW c \in LPContext, NEW gvt \in Stamp,
           InOrder(c), LogInOrder(c)
    PROVE  LogStep(l, c, Pruned(c, gvt), {})
  <1> DEFINE d == Pruned(c, gvt)
  <1>1. d \in LPContext /\ d.nextUid = c.nextUid
    BY PrunedType, PrunedLogs
  <1>2. PICK m \in 0..Len(c.sentLog) :
           /\ Len(d.sentLog) = Len(c.sentLog) - m
           /\ \A i \in 1..Len(d.sentLog) : d.sentLog[i] = c.sentLog[m + i]
    BY PrunedLogs
  <1>3. Len(c.sentLog) \in Nat /\ c.nextUid \in Nat
    BY DEF LPContext
  <1> HIDE DEF d
  <1>4. \A i \in 1..Len(d.sentLog) : m + i \in 1..Len(c.sentLog)
    BY <1>2, <1>3
  <1>5. LogInOrder(d)
    <2>1. d.nextUid > 0
      BY <1>1 DEF LogInOrder
    <2>2. ASSUME NEW i \in 1..Len(d.sentLog)
          PROVE  /\ 0 < d.sentLog[i].uid /\ d.sentLog[i].uid < d.nextUid
                 /\ \A j \in 1..(i-1) : d.sentLog[j].uid < d.sentLog[i].uid
      <3>1. \A j \in 1..(i-1) : /\ j \in 1..Len(d.sentLog)
                                /\ m + j \in 1..((m + i) - 1)
        BY <1>2, <1>3
      <3> QED
        BY <1>1, <1>2, <1>4, <3>1 DEF LogInOrder
    <2> QED
      BY <2>1, <2>2 DEF LogInOrder
  <1>6. Entries(d) \subseteq Entries(c)
    BY <1>2, <1>4 DEF Entries
  <1> QED
    BY <1>1, <1>3, <1>5, <1>6 DEF LogStep, d

\* send() numbers what it sends from the next uid on and puts it in the log.
LEMMA EmitStep ==
    ASSUME NEW l \in LPs, NEW c \in LPContext, NEW now \in Stamp,
           NEW sends \in Seq(Send), LogInOrder(c),
           NEW evs, evs = Emitted(l, c, now, sends), StampsFit(evs),
           CausalApp => \A i \in 1..Len(evs) : Le(now, evs[i].ts)
    PROVE  LogStep(l, c, AfterSending(c, now, sends, evs),
                   {evs[i] : i \in 1..Len(evs)})
  <1> DEFINE d == AfterSending(c, now, sends, evs)
             n == Len(sends)
             k == Len(c.sentLog)
             out == {evs[i] : i \in 1..Len(evs)}
             entry(i) == [sendTime |-> now, msgTime |-> evs[i].ts,
                          dst |-> evs[i].dst, uid |-> evs[i].uid]
  <1>1. evs \in Seq(PlainEvent) /\ Len(evs) = n
    <2>1. evs \in Seq(PlainEvent)
      BY EmittedType
    <2> QED
      BY <2>1, EmittedLen
  <1>2. n \in Nat /\ k \in Nat /\ c.nextUid \in Nat
    BY DEF LPContext
  <1>3. d \in LPContext
    BY <1>1, AfterSendingType
  <1>4. \A i \in 1..n : /\ evs[i].uid = c.nextUid + i - 1 /\ evs[i].src = l
                        /\ evs[i].anti = FALSE
    BY <1>1, <1>2 DEF Emitted
  <1>5. \A i \in 1..n : evs[i] \in Event
    BY <1>1 DEF Event
  <1>6. d.nextUid = c.nextUid + n
    BY DEF AfterSending, LPContext
  <1>7. d.sentLog = c.sentLog \o [i \in 1..n |-> entry(i)]
    BY DEF AfterSending, LPContext
  <1> DEFINE new == [i \in 1..n |-> entry(i)]
  <1>8. /\ Len(d.sentLog) = k + n
        /\ \A i \in 1..k : d.sentLog[i] = c.sentLog[i]
        /\ \A i \in 1..n : d.sentLog[k + i] = new[i]
    <2>1. new \in Seq({entry(i) : i \in 1..n}) /\ Len(new) = n
      BY <1>2
    <2>2. c.sentLog \in Seq(SentRecord)
      BY DEF LPContext
    <2> HIDE DEF new, n
    <2> QED
      BY <1>2, <1>7, <2>1, <2>2 DEF new
  <1>9. \A i \in 1..n : new[i] = entry(i)
    OBVIOUS
  <1> HIDE DEF d, n, k, new
  <1>10. ASSUME NEW i \in 1..(k + n)
         PROVE  i \in 1..k \/ (i - k \in 1..n /\ d.sentLog[i] = entry(i - k))
    <2>1. CASE i <= k
      BY <2>1, <1>2
    <2>2. CASE i > k
      <3>1. i - k \in 1..n /\ k + (i - k) = i
        BY <2>2, <1>2
      <3>2. d.sentLog[k + (i - k)] = new[i - k] /\ new[i - k] = entry(i - k)
        BY <3>1, <1>8, <1>9
      <3> QED
        BY <3>1, <3>2
    <2> QED
      BY <2>1, <2>2, <1>2
  <1>11. LogInOrder(d)
    <2>1. ASSUME NEW i \in 1..(k + n)
          PROVE  /\ 0 < d.sentLog[i].uid /\ d.sentLog[i].uid < d.nextUid
                 /\ i > k => d.sentLog[i].uid = c.nextUid + (i - k) - 1
                 /\ i <= k => d.sentLog[i] = c.sentLog[i]
      <3> USE DEF LogInOrder
      <3>1. CASE i \in 1..k
        <4>1. d.sentLog[i] = c.sentLog[i] /\ c.sentLog[i].uid \in Nat
          BY <3>1, <1>8, EntryType DEF k
        <4> QED
          BY <3>1, <4>1, <1>2, <1>6, SMTT(30) DEF k
      <3>2. CASE i - k \in 1..n /\ d.sentLog[i] = entry(i - k)
        <4>1. d.sentLog[i].uid = c.nextUid + (i - k) - 1
          BY <3>2, <1>4
        <4> QED
          BY <3>2, <4>1, <1>2, <1>6
      <3> QED
        BY <3>1, <3>2, <1>10
    <2>2. ASSUME NEW i \in 1..(k + n), NEW j \in 1..(i-1)
          PROVE  d.sentLog[j].uid < d.sentLog[i].uid
      <3>1. j \in 1..(k + n) /\ j < i
        BY <1>2
      <3>2. CASE i <= k
        <4>1. i \in 1..Len(c.sentLog) /\ j <= k
          BY <3>1, <3>2, <1>2 DEF k
        <4> QED
          BY <2>1, <3>1, <3>2, <4>1 DEF LogInOrder
      <3>3. CASE i > k /\ j <= k
        <4>1. j \in 1..Len(c.sentLog)
          BY <3>1, <3>3, <1>2 DEF k
        <4>2. c.sentLog[j].uid < c.nextUid /\ c.sentLog[j].uid \in Nat
          BY <4>1, EntryType DEF LogInOrder
        <4> QED
          BY <2>1, <3>1, <3>3, <4>2, <1>2
      <3>4. CASE i > k /\ j > k
        BY <2>1, <3>1, <3>4, <1>2
      <3> QED
        BY <3>2, <3>3, <3>4, <3>1, <1>2
    <2>3. d.nextUid > 0
      BY <1>2, <1>6 DEF LogInOrder
    <2> QED
      BY <2>1, <2>2, <2>3, <1>8 DEF LogInOrder
  <1>12. ASSUME NEW s \in Entries(d)
         PROVE  \/ s \in Entries(c)
                \/ /\ c.nextUid <= s.uid
                   /\ \E e \in out : ~ e.anti /\ Matches(e, s)
                   /\ CausalApp => Le(s.sendTime, s.msgTime)
    <2>1. PICK i \in 1..(k + n) : s = d.sentLog[i]
      BY <1>8 DEF Entries
    <2>2. CASE i \in 1..k
      BY <2>1, <2>2, <1>8 DEF Entries, k
    <2>3. CASE i - k \in 1..n /\ d.sentLog[i] = entry(i - k)
      <3>1. evs[i - k] \in out
        BY <2>3, <1>1 DEF n
      <3>2. Matches(evs[i - k], s) /\ ~ evs[i - k].anti /\ c.nextUid <= s.uid
        BY <2>1, <2>3, <1>2, <1>4 DEF Matches
      <3>3. CausalApp => Le(s.sendTime, s.msgTime)
        BY <2>1, <2>3, <1>1
      <3> QED
        BY <3>1, <3>2, <3>3
    <2> QED
      BY <2>2, <2>3, <1>10
  <1>13. \A e \in out : /\ e \in Event /\ e.src = l /\ e.uid < d.nextUid
                        /\ ~ e.anti /\ c.nextUid <= e.uid
    BY <1>1, <1>2, <1>4, <1>5, <1>6
  <1>14. \A e, f \in out : e.uid = f.uid => e = f
    BY <1>1, <1>2, <1>4, SMTT(30)
  <1>15. c.nextUid <= d.nextUid
    BY <1>2, <1>6
  <1> QED
    BY <1>3, <1>11, <1>12, <1>13, <1>14, <1>15 DEF LogStep, d

-----------------------------------------------------------------------------
(***************************************************************************)
(* A uid names one event.                                                  *)
(***************************************************************************)
\* Every copy of an event or anti-message that the kernel may still handle.
AllCopies(queues, messages, contexts) ==
    (UNION {queues[r] : r \in Ranks})
        \cup {m.ev : m \in messages}
        \cup (UNION {{contexts[l].processed[i].ev :
                         i \in 1..Len(contexts[l].processed)} : l \in LPs})

Copies == AllCopies(pending, net, ctx)

\* Copies with the same uid are of one event, the event of the log entry with
\* that uid if there is one; and there are no anti-messages for what is in the log.
OneEventPerUid ==
    /\ \A l \in LPs : LogInOrder(ctx[l])
    /\ \A e \in Copies :
          /\ e.uid < ctx[e.src].nextUid
          /\ e.anti => e.uid # 0 /\ e.uid \notin StandingUids(ctx[e.src])
          /\ \A s \in Entries(ctx[e.src]) : s.uid = e.uid => Matches(e, s)
    /\ \A e, f \in Copies : SameUid(e, f) /\ e.uid # 0 => e.ts = f.ts /\ e.dst = f.dst

\* Where copies are.
LEMMA InCopies ==
    ASSUME NEW queues, NEW messages, NEW contexts, NEW e
    PROVE  e \in AllCopies(queues, messages, contexts)
           <=> \/ \E r \in Ranks : e \in queues[r]
               \/ \E m \in messages : e = m.ev
               \/ \E l \in LPs : \E i \in 1..Len(contexts[l].processed) :
                     e = contexts[l].processed[i].ev
  <1> DEFINE done(l) == {contexts[l].processed[i].ev :
                            i \in 1..Len(contexts[l].processed)}
  <1>1. e \in AllCopies(queues, messages, contexts)
        <=> \/ \E r \in Ranks : e \in queues[r]
            \/ \E m \in messages : e = m.ev
            \/ \E l \in LPs : e \in done(l)
    <2> HIDE DEF done
    <2> QED
      BY DEF AllCopies, done
  <1>2. \A l \in LPs : e \in done(l)
           <=> \E i \in 1..Len(contexts[l].processed) :
                  e = contexts[l].processed[i].ev
    OBVIOUS
  <1> HIDE DEF done
  <1> QED
    BY <1>1, <1>2

\* Copies are events and anti-messages.
LEMMA CopiesType ==
    ASSUME TypeOK
    PROVE  \A e \in Copies : e \in Event
  <1>1. \A r \in Ranks : \A e \in pending[r] : e \in Event
    BY DEF TypeOK
  <1>2. \A m \in net : m.ev \in Event
    BY DEF TypeOK
  <1>3. \A l \in LPs : \A i \in 1..Len(ctx[l].processed) :
           ctx[l].processed[i].ev \in Event
    <2> TAKE l \in LPs
    <2> TAKE i \in 1..Len(ctx[l].processed)
    <2>1. ctx[l] \in LPContext
      BY DEF TypeOK
    <2> QED
      BY <2>1, RecordStamp
  <1> QED
    BY <1>1, <1>2, <1>3, InCopies DEF Copies

\* The uids in a log in order.
LEMMA EntryInOrder ==
    ASSUME NEW c \in LPContext, LogInOrder(c), NEW s \in Entries(c)
    PROVE  s \in SentRecord /\ s.uid \in Nat /\ 0 < s.uid /\ s.uid < c.nextUid
  <1>1. PICK i \in 1..Len(c.sentLog) : s = c.sentLog[i]
    BY DEF Entries
  <1> QED
    BY <1>1, EntryType DEF LogInOrder

\* A uid from before an LP's step is in the log after it only if it was before.
LEMMA OldUid ==
    ASSUME NEW l, NEW c \in LPContext, NEW d, NEW out, LogStep(l, c, d, out),
           NEW uid \in Nat, uid < c.nextUid
    PROVE  /\ uid < d.nextUid
           /\ \A s \in Entries(d) : s.uid = uid => s \in Entries(c)
           /\ uid \in StandingUids(d) => uid \in StandingUids(c)
  <1>1. c.nextUid \in Nat /\ d.nextUid \in Nat /\ c.nextUid <= d.nextUid
    BY DEF LogStep, LPContext
  <1>2. \A s \in Entries(d) : s.uid = uid => s \in Entries(c)
    BY <1>1 DEF LogStep
  <1> QED
    BY <1>1, <1>2 DEF StandingUids

\* A message is new: if its uid is not, it is the first anti-message with it.
LEMMA NewUid ==
    ASSUME NEW l, NEW c \in LPContext, NEW d, NEW out, LogStep(l, c, d, out),
           NEW f \in out, f.uid < c.nextUid
    PROVE  /\ f.anti /\ f.uid \in StandingUids(c)
           /\ \E s \in Entries(c) : Matches(f, s)
  <1>1. c.nextUid \in Nat /\ f \in Event
    BY DEF LogStep, LPContext
  <1>2. f.uid \in Nat
    BY <1>1, EventFields
  <1>3. f.anti
    BY <1>1, <1>2 DEF LogStep
  <1>4. PICK s \in Entries(c) : Matches(f, s)
    BY <1>3 DEF LogStep
  <1> QED
    BY <1>3, <1>4 DEF Matches, StandingUids

\* A message that the step hands out agrees with the log after it.
LEMMA NewCopy ==
    ASSUME NEW l, NEW c \in LPContext, LogInOrder(c), NEW d, NEW out,
           LogStep(l, c, d, out), NEW e \in out
    PROVE  /\ e.uid < d.nextUid /\ e.uid \in Nat /\ e.uid # 0
           /\ e.anti => e.uid \notin StandingUids(d)
           /\ \A s \in Entries(d) : s.uid = e.uid => Matches(e, s)
  <1>1. /\ e \in Event /\ e.uid < d.nextUid
        /\ ~ e.anti => c.nextUid <= e.uid
        /\ e.anti => /\ \E s \in Entries(c) : Matches(e, s)
                     /\ e.uid \notin StandingUids(d)
    BY DEF LogStep
  <1>2. e.uid \in Nat /\ e.anti \in BOOLEAN
    BY <1>1, EventFields
  <1>3. c.nextUid \in Nat /\ c.nextUid > 0
    BY DEF LogInOrder, LPContext
  <1>4. e.uid # 0
    <2>1. CASE e.anti
      BY <2>1, <1>1, EntryInOrder DEF Matches
    <2>2. CASE ~ e.anti
      BY <2>2, <1>1, <1>2, <1>3
    <2> QED
      BY <2>1, <2>2
  <1>5. ASSUME NEW s \in Entries(d), s.uid = e.uid
        PROVE  Matches(e, s)
    <2>1. ~ e.anti
      BY <1>1, <1>5 DEF StandingUids
    <2>2. s \notin Entries(c)
      BY <2>1, <1>1, <1>2, <1>3, <1>5, EntryInOrder
    <2>3. PICK f \in out : ~ f.anti /\ Matches(f, s)
      BY <2>2 DEF LogStep
    <2>4. f = e
      <3>1. f.uid = e.uid /\ f.anti = e.anti
        <4>1. f \in Event
          BY DEF LogStep
        <4>2. f.anti \in BOOLEAN
          BY <4>1, EventFields
        <4> QED
          BY <2>1, <2>3, <4>2, <1>2, <1>5 DEF Matches
      <3> QED
        BY <3>1 DEF LogStep
    <2> QED
      BY <2>3, <2>4
  <1> QED
    BY <1>1, <1>2, <1>4, <1>5

\* Messages of one step with the same uid are the same message.
LEMMA NewAndNew ==
    ASSUME NEW l, NEW c \in LPContext, LogInOrder(c), NEW d, NEW out,
           LogStep(l, c, d, out), NEW e \in out, NEW f \in out, e.uid = f.uid
    PROVE  e = f
  <1>1. ASSUME NEW a \in out, NEW b \in out, a.uid = b.uid, a.anti
        PROVE  b.anti
    <2>1. PICK s \in Entries(c) : Matches(a, s)
      BY <1>1 DEF LogStep
    <2>2. s.uid < c.nextUid /\ s.uid \in Nat /\ c.nextUid \in Nat
      BY EntryInOrder DEF LPContext
    <2>3. ~ b.anti => c.nextUid <= b.uid
      BY DEF LogStep
    <2>4. a.uid = s.uid
      BY <2>1 DEF Matches
    <2> QED
      BY <1>1, <2>2, <2>3, <2>4
  <1>2. e.anti \in BOOLEAN /\ f.anti \in BOOLEAN
    <2>1. e \in Event /\ f \in Event
      BY DEF LogStep
    <2> QED
      BY <2>1, EventFields
  <1>3. e.anti = f.anti
    BY <1>1, <1>2
  <1> QED
    BY <1>3 DEF LogStep

\* When every LP takes a LogStep, and no copies appear but of what they hand
\* out, a uid still names one event.
LEMMA MessageStep ==
    ASSUME TypeOK, OneEventPerUid, NEW out \in SUBSET Event,
           Copies' \subseteq Copies \cup out,
           \A l \in LPs : LogStep(l, ctx[l], ctx'[l], {e \in out : e.src = l})
    PROVE  OneEventPerUid'
  <1> DEFINE Of(l) == {e \in out : e.src = l}
  <1>1. \A l \in LPs : /\ ctx[l] \in LPContext /\ LogInOrder(ctx[l])
                       /\ LogStep(l, ctx[l], ctx'[l], Of(l))
    BY DEF TypeOK, OneEventPerUid
  <1>2. \A e \in Copies : e.src \in LPs /\ e.uid \in Nat
    BY CopiesType, EventFields
  <1>3. \A e \in out : e.src \in LPs /\ e \in Of(e.src)
    BY EventFields
  <1>4. \A e \in Copies :
           /\ e.uid < ctx[e.src].nextUid
           /\ e.anti => e.uid # 0 /\ e.uid \notin StandingUids(ctx[e.src])
           /\ \A s \in Entries(ctx[e.src]) : s.uid = e.uid => Matches(e, s)
    BY DEF OneEventPerUid
  <1> HIDE DEF Of
  <1>5. \A l \in LPs : LogInOrder(ctx'[l])
    BY <1>1 DEF LogStep
  <1>6. ASSUME NEW e \in Copies \cup out
        PROVE  /\ e.uid < ctx'[e.src].nextUid
               /\ e.anti => e.uid # 0 /\ e.uid \notin StandingUids(ctx'[e.src])
               /\ \A s \in Entries(ctx'[e.src]) : s.uid = e.uid => Matches(e, s)
    <2> DEFINE l == e.src
               c == ctx[l]
               d == ctx'[l]
    <2>1. /\ l \in LPs /\ c \in LPContext /\ LogInOrder(c)
          /\ LogStep(l, c, d, Of(l))
      BY <1>1, <1>2, <1>3
    <2>2. CASE e \in Copies
      <3>1. /\ e.uid \in Nat /\ e.uid < c.nextUid
            /\ e.anti => e.uid # 0 /\ e.uid \notin StandingUids(c)
            /\ \A s \in Entries(c) : s.uid = e.uid => Matches(e, s)
        BY <2>2, <1>2, <1>4
      <3> HIDE DEF l, c, d
      <3>2. /\ e.uid < d.nextUid
            /\ \A s \in Entries(d) : s.uid = e.uid => s \in Entries(c)
            /\ e.uid \in StandingUids(d) => e.uid \in StandingUids(c)
        BY <2>1, <3>1, OldUid
      <3> QED
        BY <3>1, <3>2 DEF l, c, d
    <2>3. CASE e \in out
      <3>1. e \in Of(l)
        BY <2>3, <1>3
      <3> HIDE DEF l, c, d
      <3>2. /\ e.uid < d.nextUid
            /\ e.anti => e.uid # 0 /\ e.uid \notin StandingUids(d)
            /\ \A s \in Entries(d) : s.uid = e.uid => Matches(e, s)
        BY <2>1, <3>1, NewCopy
      <3> QED
        BY <3>2 DEF l, c, d
    <2> QED
      BY <2>2, <2>3
  <1>7. ASSUME NEW e \in Copies, NEW f \in out, e.src = f.src, e.uid = f.uid
        PROVE  e.ts = f.ts /\ e.dst = f.dst
    <2> DEFINE l == e.src
               c == ctx[l]
               d == ctx'[l]
    <2>1. /\ c \in LPContext /\ LogStep(l, c, d, Of(l))
          /\ e.uid \in Nat /\ e.uid < c.nextUid
          /\ e.anti => e.uid \notin StandingUids(c)
          /\ \A s \in Entries(c) : s.uid = e.uid => Matches(e, s)
          /\ f \in Of(l) /\ f.uid = e.uid
      BY <1>1, <1>2, <1>3, <1>4, <1>7
    <2> HIDE DEF l, c, d
    <2>2. PICK s \in Entries(c) : Matches(f, s)
      BY <2>1, NewUid
    <2> QED
      BY <2>1, <2>2 DEF Matches
  <1>8. ASSUME NEW e \in Copies \cup out, NEW f \in Copies \cup out,
               SameUid(e, f), e.uid # 0
        PROVE  e.ts = f.ts /\ e.dst = f.dst
    <2>1. e.src = f.src /\ e.uid = f.uid
      BY <1>8 DEF SameUid
    <2>2. CASE e \in Copies /\ f \in Copies
      BY <2>2, <1>8 DEF OneEventPerUid
    <2>3. CASE e \in Copies /\ f \in out
      BY <2>1, <2>3, <1>7
    <2>4. CASE e \in out /\ f \in Copies
      BY <2>1, <2>4, <1>7
    <2>5. CASE e \in out /\ f \in out
      <3>1. e = f
        BY <2>1, <2>5, <1>1, <1>3, NewAndNew
      <3> QED
        BY <3>1
    <2> QED
      BY <2>2, <2>3, <2>4, <2>5
  <1>9. \A l \in LPs : LogInOrder(ctx[l])'
    BY <1>5 DEF LogInOrder
  <1>10. ASSUME NEW e \in Copies'
         PROVE  (/\ e.uid < ctx[e.src].nextUid
                 /\ e.anti => e.uid # 0 /\ e.uid \notin StandingUids(ctx[e.src])
                 /\ \A s \in Entries(ctx[e.src]) : s.uid = e.uid => Matches(e, s))'
    BY <1>6 DEF StandingUids, Entries, Matches
  <1> QED
    BY <1>8, <1>9, <1>10 DEF OneEventPerUid, SameUid

-----------------------------------------------------------------------------
(***************************************************************************)
(* The steps that send.                                                    *)
(***************************************************************************)
\* Events are queued on the rank of their LP and recorded by it.
Placed ==
    /\ \A r \in Ranks : \A e \in pending[r] : lpToRank[e.dst] = r
    /\ \A l \in LPs : \A i \in 1..Len(ctx[l].processed) :
          ctx[l].processed[i].ev.dst = l

\* Each record of LP l is one it had, or of an event queued on r.
RecordsFrom(r, l) ==
    \A i \in 1..Len(ctx'[l].processed) :
        \/ \E j \in 1..Len(ctx[l].processed) :
              ctx'[l].processed[i] = ctx[l].processed[j]
        \/ /\ ctx'[l].processed[i].ev \in pending[r]
           /\ ctx'[l].processed[i].ev.dst = l

\* Rank r is left with "queue" and sends "out".
SendingStep(r, queue, out) ==
    /\ out \in SUBSET Event /\ IsFiniteSet(out)
    /\ Route(r, queue, out)
    /\ \A e \in queue : e \in Copies /\ lpToRank[e.dst] = r
    /\ \A e \in out : lpToRank[e.src] = r
    /\ \A l \in LPs : /\ LogStep(l, ctx[l], ctx'[l], {e \in out : e.src = l})
                      /\ RecordsFrom(r, l)
    /\ UNCHANGED <<acks, lastGvt>>

\* What is queued or sent is not earlier than something that was queued.
NotEarlier(r, events) == \A e \in events : \E f \in pending[r] : Le(f.ts, e.ts)

\* No message is sent into the past.
ForwardLogs ==
    \A l \in LPs : \A s \in Entries(ctx[l]) : Le(s.sendTime, s.msgTime)

\* A queue is "rest" with the events of all records but the first k.
BackInQueue(records, k, rest, queue) ==
    /\ k \in 0..Len(records) /\ rest \subseteq queue
    /\ \A i \in (k+1)..Len(records) : records[i].ev \in queue
    /\ \A e \in queue : e \in rest \/ \E i \in (k+1)..Len(records) : e = records[i].ev

\* Rank r dispatches ev: its LP keeps k records and puts back the others, and
\* the event becomes a record, or, a straggler, is put back as well.
DispatchOf(r, ev, rest, k, queue) ==
    LET old == ctx[ev.dst].processed
        new == ctx'[ev.dst].processed
    IN  /\ BackInQueue(old, k, rest, queue)
        /\ \A i \in 1..k : new[i] = old[i]
        /\ \/ ev \in rest /\ OnlySkipped(r, rest) /\ Len(new) = k
           \/ /\ ev \notin rest /\ OnlySkipped(r, rest \cup {ev})
              /\ Len(new) = k + 1 /\ new[k + 1].ev = ev
              /\ new[k + 1].cancelPrev \subseteq cancelled[r]
        /\ \A l \in LPs \ {ev.dst} : ctx'[l].processed = ctx[l].processed
        /\ TombstonesFrom(ev)
        /\ UNCHANGED <<trace, sink>>

Dispatches(r, queue) ==
    \E ev \in pending[r], rest \in SUBSET pending[r], k \in Nat :
        DispatchOf(r, ev, rest, k, queue)

\* A step of one LP, to context d, as the dispatch of ev.
LEMMA OneDispatch ==
    ASSUME TypeOK, NEW r, NEW ev \in pending[r], ev.dst \in LPs,
           NEW rest \in SUBSET pending[r], NEW queue, NEW k \in Nat,
           NEW d, ctx' = [ctx EXCEPT ![ev.dst] = d],
           BackInQueue(ctx[ev.dst].processed, k, rest, queue),
           \A i \in 1..k : d.processed[i] = ctx[ev.dst].processed[i],
           \/ ev \in rest /\ OnlySkipped(r, rest) /\ Len(d.processed) = k
           \/ /\ ev \notin rest /\ OnlySkipped(r, rest \cup {ev})
              /\ Len(d.processed) = k + 1 /\ d.processed[k + 1].ev = ev
              /\ d.processed[k + 1].cancelPrev \subseteq cancelled[r],
           TombstonesFrom(ev), UNCHANGED <<trace, sink>>
    PROVE  Dispatches(r, queue)
  <1>1. ctx'[ev.dst] = d /\ \A l \in LPs \ {ev.dst} : ctx'[l] = ctx[l]
    BY DEF TypeOK
  <1>2. DispatchOf(r, ev, rest, k, queue)
    BY <1>1 DEF DispatchOf
  <1> QED
    BY <1>2 DEF Dispatches

\* A step of one LP, from context c to context d.
LEMMA OneSender ==
    ASSUME TypeOK, OneEventPerUid, NEW r \in Ranks, NEW l \in LPs, lpToRank[l] = r,
           NEW d, ctx' = [ctx EXCEPT ![l] = d], NEW queue, NEW out,
           LogStep(l, ctx[l], d, out), IsFiniteSet(out),
           Route(r, queue, out),
           \A e \in queue : e \in Copies /\ lpToRank[e.dst] = r,
           \A i \in 1..Len(d.processed) :
               \/ \E j \in 1..Len(ctx[l].processed) :
                     d.processed[i] = ctx[l].processed[j]
               \/ d.processed[i].ev \in pending[r] /\ d.processed[i].ev.dst = l,
           UNCHANGED <<acks, lastGvt>>
    PROVE  SendingStep(r, queue, out)
  <1>1. \A k \in LPs : ctx'[k] = IF k = l THEN d ELSE ctx[k]
    BY DEF TypeOK
  <1>2. \A e \in out : e \in Event /\ e.src = l
    BY DEF LogStep
  <1>3. ASSUME NEW k \in LPs
        PROVE  LogStep(k, ctx[k], ctx'[k], {e \in out : e.src = k})
    <2>1. CASE k = l
      <3>1. {e \in out : e.src = k} = out
        BY <1>2, <2>1
      <3> QED
        BY <1>1, <2>1, <3>1
    <2>2. CASE k # l
      <3>1. {e \in out : e.src = k} = {} /\ ctx'[k] = ctx[k]
        BY <1>1, <1>2, <2>2
      <3>2. ctx[k] \in LPContext /\ LogInOrder(ctx[k])
        BY DEF TypeOK, OneEventPerUid
      <3> QED
        BY <3>1, <3>2, SameLog
    <2> QED
      BY <2>1, <2>2
  <1>4. ASSUME NEW k \in LPs
        PROVE  RecordsFrom(r, k)
    <2>1. CASE k = l
      BY <1>1, <2>1 DEF RecordsFrom
    <2>2. CASE k # l
      BY <1>1, <2>2 DEF RecordsFrom
    <2> QED
      BY <2>1, <2>2
  <1>5. out \in SUBSET Event /\ \A e \in out : lpToRank[e.src] = r
    BY <1>2
  <1> QED
    BY <1>3, <1>4, <1>5 DEF SendingStep

\* A queued event: where it is, and the context that it is for.
LEMMA Dispatched ==
    ASSUME TypeOK, ProcessedInOrder, OneEventPerUid, Placed,
           NEW r \in Ranks, NEW ev \in pending[r]
    PROVE  /\ ev \in Event /\ ev.dst \in LPs /\ ev.ts \in Stamp /\ ev \in Copies
           /\ lpToRank[ev.dst] = r
           /\ ctx[ev.dst] \in LPContext
           /\ InOrder(ctx[ev.dst]) /\ LogInOrder(ctx[ev.dst])
  <1>1. ev \in Event
    BY DEF TypeOK
  <1>2. ev \in Copies
    BY InCopies DEF Copies
  <1>3. ev.dst \in LPs /\ ev.ts \in Stamp
    BY <1>1, EventFields
  <1> QED
    BY <1>1, <1>2, <1>3, InOrderAll DEF TypeOK, OneEventPerUid, Placed

\* What rollback_ puts back into the queue.
LEMMA PutBack ==
    ASSUME TypeOK, Placed, NEW l \in LPs, NEW to \in Stamp,
           NEW u \in Undone(ctx[l], to)
    PROVE  /\ u.ev \in Copies /\ lpToRank[u.ev.dst] = lpToRank[l]
           /\ Le(to, u.ev.ts)
  <1>1. ctx[l] \in LPContext
    BY DEF TypeOK
  <1>2. PICK i \in 1..Len(ctx[l].processed) : u = ctx[l].processed[i]
    BY <1>1, UndoneType
  <1>3. Le(to, u.ev.ts)
    BY <1>1, UndoneType
  <1> QED
    BY <1>2, <1>3, InCopies DEF Copies, Placed

\* Anti-messages are not earlier than what is undone, when nothing is sent into
\* the past.
LEMMA AntisLater ==
    ASSUME TypeOK, ForwardLogs, NEW l \in LPs, NEW to \in Stamp,
           NEW a \in Antis(l, ctx[l], to)
    PROVE  Le(to, a.ts)
  <1>1. ctx[l] \in LPContext
    BY DEF TypeOK
  <1>2. PICK i \in 1..Len(ctx[l].sentLog) :
           Le(to, ctx[l].sentLog[i].sendTime) /\ a.ts = ctx[l].sentLog[i].msgTime
    BY <1>1, AntisType
  <1>3. ctx[l].sentLog[i] \in SentRecord /\ ctx[l].sentLog[i] \in Entries(ctx[l])
    BY <1>1, EntryType
  <1>4. Le(ctx[l].sentLog[i].sendTime, a.ts)
    BY <1>2, <1>3 DEF ForwardLogs
  <1>5. ctx[l].sentLog[i].sendTime \in Stamp /\ a.ts \in Stamp
    BY <1>2, <1>3 DEF SentRecord, EventStamp
  <1> QED
    BY <1>2, <1>4, <1>5, LeOrder

\* The records of a context that has been rolled back.
LEMMA RolledBackRecords ==
    ASSUME NEW c \in LPContext, NEW to \in Stamp, InOrder(c),
           NEW d, d = RolledBack(c, to)
    PROVE  \A i \in 1..Len(d.processed) :
              \E j \in 1..Len(c.processed) : d.processed[i] = c.processed[j]
  <1>1. /\ Len(d.processed) \in 0..Len(c.processed)
        /\ \A i \in 1..Len(d.processed) : d.processed[i] = c.processed[i]
    BY RolledBackLogs
  <1>2. Len(c.processed) \in Nat
    BY DEF LPContext
  <1> QED
    BY <1>1, <1>2

\* What a rollback leaves, and what it puts back.
LEMMA RolledBackQueue ==
    ASSUME NEW c \in LPContext, NEW to \in Stamp, InOrder(c),
           NEW d, d = RolledBack(c, to), NEW rest
    PROVE  /\ BackInQueue(c.processed, Len(d.processed), rest,
                          rest \cup {u.ev : u \in Undone(c, to)})
           /\ \A i \in 1..Len(d.processed) : d.processed[i] = c.processed[i]
  <1> DEFINE k == KeptProcessed(c, to)
             undone == Undone(c, to)
  <1>1. /\ k \in 0..Len(c.processed) /\ Len(d.processed) = k
        /\ \A i \in 1..k : d.processed[i] = c.processed[i]
    BY RolledBackLogs
  <1>2. undone = {c.processed[i] : i \in (k+1)..Len(c.processed)}
    BY DEF Undone
  <1> HIDE DEF k, undone
  <1>3. \A i \in (k+1)..Len(c.processed) : c.processed[i] \in undone
    BY <1>2
  <1>4. \A u \in undone : \E i \in (k+1)..Len(c.processed) : u = c.processed[i]
    BY <1>2
  <1>5. BackInQueue(c.processed, k, rest, rest \cup {u.ev : u \in undone})
    BY <1>1, <1>3, <1>4 DEF BackInQueue
  <1> QED
    BY <1>1, <1>5 DEF undone

\* The records of a context that has recorded one more.
LEMMA RecordedRecords ==
    ASSUME NEW d \in LPContext, NEW rec, NEW e, e = Recorded(d, rec)
    PROVE  /\ e.sentLog = d.sentLog /\ e.nextUid = d.nextUid
           /\ \A i \in 1..Len(e.processed) :
                 \/ i \in 1..Len(d.processed) /\ e.processed[i] = d.processed[i]
                 \/ e.processed[i] = rec
  <1>1. e.processed = Append(d.processed, rec)
    BY DEF Recorded, LPContext
  <1>2. Len(d.processed) \in Nat /\ Len(e.processed) = Len(d.processed) + 1
    BY <1>1 DEF LPContext
  <1>3. /\ e.processed[Len(d.processed) + 1] = rec
        /\ \A i \in 1..Len(d.processed) : e.processed[i] = d.processed[i]
    BY <1>1 DEF LPContext
  <1>4. e.sentLog = d.sentLog /\ e.nextUid = d.nextUid
    BY DEF Recorded, LPContext
  <1>5. ASSUME NEW i \in 1..Len(e.processed)
        PROVE  i \in 1..Len(d.processed) \/ i = Len(d.processed) + 1
    BY <1>2
  <1> QED
    BY <1>3, <1>4, <1>5

\* Context new has the records of old and, after them, rec.
OneMoreRecord(old, new, rec) ==
    /\ \A i \in 1..Len(old.processed) : new.processed[i] = old.processed[i]
    /\ Len(new.processed) = Len(old.processed) + 1
    /\ new.processed[Len(old.processed) + 1] = rec

\* Recording appends one record.
LEMMA RecordedLast ==
    ASSUME NEW d \in LPContext, NEW rec, NEW e, e = Recorded(d, rec)
    PROVE  OneMoreRecord(d, e, rec)
  <1>1. e.processed = Append(d.processed, rec)
    BY DEF Recorded, LPContext
  <1>2. d.processed \in Seq(ProcessedRecord)
    BY DEF LPContext
  <1> QED
    BY <1>1, <1>2 DEF OneMoreRecord

\* A step of one LP that keeps the records of context b and records ev.
LEMMA OneRecording ==
    ASSUME TypeOK, NEW r, NEW ev \in pending[r], ev.dst \in LPs,
           NEW rest \in SUBSET pending[r], NEW queue, NEW rec,
           NEW b \in LPContext, NEW d, ctx' = [ctx EXCEPT ![ev.dst] = d],
           BackInQueue(ctx[ev.dst].processed, Len(b.processed), rest, queue),
           \A i \in 1..Len(b.processed) : b.processed[i] = ctx[ev.dst].processed[i],
           OneMoreRecord(b, d, rec), rec.ev = ev, rec.cancelPrev \subseteq cancelled[r],
           ev \notin rest, OnlySkipped(r, rest \cup {ev}),
           TombstonesFrom(ev), UNCHANGED <<trace, sink>>
    PROVE  Dispatches(r, queue)
  <1> DEFINE k == Len(b.processed)
  <1>1. k \in Nat
    BY DEF LPContext
  <1>2. /\ \A i \in 1..k : d.processed[i] = b.processed[i]
        /\ Len(d.processed) = k + 1 /\ d.processed[k + 1] = rec
    BY DEF OneMoreRecord
  <1> HIDE DEF k
  <1>3. \A i \in 1..k : d.processed[i] = ctx[ev.dst].processed[i]
    BY <1>2 DEF k
  <1>4. /\ ev \notin rest /\ OnlySkipped(r, rest \cup {ev})
        /\ Len(d.processed) = k + 1 /\ d.processed[k + 1].ev = ev
        /\ d.processed[k + 1].cancelPrev \subseteq cancelled[r]
    BY <1>2
  <1>5. BackInQueue(ctx[ev.dst].processed, k, rest, queue)
    BY DEF k
  <1>6. ctx'[ev.dst] = d /\ \A l \in LPs \ {ev.dst} : ctx'[l] = ctx[l]
    BY DEF TypeOK
  <1>7. DispatchOf(r, ev, rest, k, queue)
    BY <1>3, <1>4, <1>5, <1>6 DEF DispatchOf
  <1> QED
    BY <1>1, <1>7 DEF Dispatches

\* A straggler sends the anti-messages of a rollback to its own stamp.
LEMMA StragglerSends ==
    ASSUME TypeOK, ProcessedInOrder, OneEventPerUid, Placed,
           NEW r \in Ranks, DispatchStraggler(r)
    PROVE  \E queue, out : /\ SendingStep(r, queue, out) /\ Dispatches(r, queue)
                           /\ ForwardLogs => NotEarlier(r, queue \cup out)
  <1>1. PICK ev \in pending[r], rest \in SUBSET pending[r] :
           StragglerOutcome(r, ev, rest)
    BY StragglerStep
  <1> DEFINE l == ev.dst
             to == ev.ts
             d == RolledBack(ctx[l], to)
             queue == rest \cup {u.ev : u \in Undone(ctx[l], to)}
             out == Antis(l, ctx[l], to)
  <1>2. /\ l \in LPs /\ to \in Stamp /\ lpToRank[l] = r /\ ctx[l] \in LPContext
        /\ InOrder(ctx[l]) /\ LogInOrder(ctx[l])
    BY Dispatched
  <1>3. /\ ctx' = [ctx EXCEPT ![l] = d] /\ Route(r, queue, out)
        /\ UNCHANGED <<acks, lastGvt>>
    BY <1>1 DEF StragglerOutcome
  <1>4. LogStep(l, ctx[l], d, out) /\ IsFiniteSet(out)
    BY <1>2, RollbackStep, AntisType
  <1>5. \A i \in 1..Len(d.processed) : \E j \in 1..Len(ctx[l].processed) :
           d.processed[i] = ctx[l].processed[j]
    BY <1>2, RolledBackRecords
  <1>6. \A e \in queue : e \in rest \/ \E u \in Undone(ctx[l], to) : e = u.ev
    OBVIOUS
  <1>7. Dispatches(r, queue)
    <2> DEFINE k == Len(d.processed)
    <2> HIDE DEF l, to, d
    <2>1. /\ BackInQueue(ctx[l].processed, k, rest, queue)
          /\ \A i \in 1..k : d.processed[i] = ctx[l].processed[i]
      BY <1>2, RolledBackQueue DEF d
    <2>2. /\ ev \in rest /\ OnlySkipped(r, rest) /\ TombstonesFrom(ev)
          /\ UNCHANGED <<trace, sink>>
      BY <1>1 DEF StragglerOutcome
    <2>3. k \in Nat
      BY <2>1, <1>2 DEF BackInQueue, LPContext
    <2> HIDE DEF queue
    <2> QED
      BY <1>2, <1>3, <2>1, <2>2, <2>3, OneDispatch DEF l
  <1> HIDE DEF l, to, d, queue, out
  <1>8. \A e \in queue : e \in Copies /\ lpToRank[e.dst] = r
    BY <1>2, <1>6, PutBack, Dispatched
  <1>9. SendingStep(r, queue, out)
    BY <1>2, <1>3, <1>4, <1>5, <1>8, OneSender
  <1>10. ASSUME ForwardLogs
        PROVE  NotEarlier(r, queue \cup out)
    <2>1. \A e \in rest : e \in pending[r] /\ Le(e.ts, e.ts)
      BY Dispatched, LeOrder
    <2>2. \A u \in Undone(ctx[l], to) : Le(ev.ts, u.ev.ts)
      BY <1>2, PutBack DEF to
    <2>3. \A a \in out : Le(ev.ts, a.ts)
      BY <1>2, <1>10, AntisLater DEF to, out
    <2> QED
      BY <1>6, <2>1, <2>2, <2>3 DEF NotEarlier
  <1> QED
    BY <1>9, <1>10, <1>7

\* An anti-message in order sends those of a rollback to the stamp of the event
\* that it cancels, which is its own; or nothing.
LEMMA AntiSends ==
    ASSUME TypeOK, ProcessedInOrder, OneEventPerUid, Placed,
           NEW r \in Ranks, DispatchAnti(r)
    PROVE  \E queue, out : /\ SendingStep(r, queue, out) /\ Dispatches(r, queue)
                           /\ ForwardLogs => NotEarlier(r, queue \cup out)
  <1>1. PICK ev \in pending[r], rest \in SUBSET pending[r],
             rec \in ProcessedRecord : AntiOutcome(r, ev, rest, rec)
    BY AntiStep
  <1> DEFINE l == ev.dst
             c == ctx[l]
  <1>2. /\ l \in LPs /\ lpToRank[l] = r /\ ev.ts \in Stamp /\ ev \in Copies
        /\ c \in LPContext /\ InOrder(c) /\ LogInOrder(c)
    BY Dispatched
  <1>3. rec.ev = ev /\ ev.anti /\ UNCHANGED <<acks, lastGvt>>
    BY <1>1 DEF AntiOutcome
  <1>4. \A e \in rest : /\ e \in pending[r] /\ e \in Copies /\ lpToRank[e.dst] = r
                        /\ Le(e.ts, e.ts)
    BY Dispatched, LeOrder
  <1>5. /\ ev \notin rest /\ OnlySkipped(r, rest \cup {ev})
        /\ rec.cancelPrev \subseteq cancelled[r] /\ TombstonesFrom(ev)
        /\ UNCHANGED <<trace, sink>>
    BY <1>1 DEF AntiOutcome
  <1>6. CASE /\ ctx' = [ctx EXCEPT ![l] = Recorded(c, rec)]
             /\ Route(r, rest, {})
    <2> DEFINE d == Recorded(c, rec)
    <2>1. /\ d.sentLog = c.sentLog /\ d.nextUid = c.nextUid
          /\ \A i \in 1..Len(d.processed) :
                \/ i \in 1..Len(c.processed) /\ d.processed[i] = c.processed[i]
                \/ d.processed[i] = rec
      BY <1>2, RecordedRecords
    <2>2. OneMoreRecord(c, d, rec)
      <3>1. d = Recorded(c, rec) /\ c \in LPContext
        BY <1>2
      <3> HIDE DEF c, d
      <3> QED
        BY <3>1, RecordedLast
    <2>3. d \in LPContext
      BY <1>2, RecordedType
    <2>4. ctx' = [ctx EXCEPT ![l] = d] /\ Route(r, rest, {})
      BY <1>6
    <2> HIDE DEF d
    <2>5. LogStep(l, c, d, {})
      BY <1>2, <2>1, <2>3, SameLog
    <2>6. \A i \in 1..Len(d.processed) :
             \/ \E j \in 1..Len(c.processed) : d.processed[i] = c.processed[j]
             \/ d.processed[i].ev \in pending[r] /\ d.processed[i].ev.dst = l
      BY <1>3, <2>1
    <2>7. IsFiniteSet({})
      BY FS_EmptySet
    <2>8. SendingStep(r, rest, {})
      <3> HIDE DEF l
      <3> QED
        BY <1>2, <1>3, <1>4, <2>4, <2>5, <2>6, <2>7, OneSender
    <2>9. NotEarlier(r, rest \cup {})
      BY <1>4 DEF NotEarlier
    <2>10. Dispatches(r, rest)
      <3>1. Len(c.processed) \in Nat
        BY <1>2 DEF LPContext
      <3>2. BackInQueue(c.processed, Len(c.processed), rest, rest)
        BY <3>1 DEF BackInQueue
      <3>3. /\ ctx[ev.dst] = c /\ ctx' = [ctx EXCEPT ![ev.dst] = d]
            /\ ev.dst \in LPs
        BY <1>2, <2>4
      <3> HIDE DEF c, l
      <3>4. \A i \in 1..Len(c.processed) : c.processed[i] = ctx[ev.dst].processed[i]
        BY <3>3
      <3>5. BackInQueue(ctx[ev.dst].processed, Len(c.processed), rest, rest)
        BY <3>2, <3>3
      <3> QED
        BY <1>2, <1>3, <1>5, <2>2, <3>3, <3>4, <3>5, OneRecording
    <2> QED
      BY <2>8, <2>9, <2>10
  <1>7. ASSUME NEW i \in 1..Len(c.processed),
               SameUid(c.processed[i].ev, ev),
               ctx' = [ctx EXCEPT
                  ![l] = Recorded(RolledBack(c, c.processed[i].ev.ts), rec)],
               Route(r, rest \cup {u.ev : u \in Undone(c, c.processed[i].ev.ts)},
                     Antis(l, c, c.processed[i].ev.ts))
        PROVE  \E queue, out : /\ SendingStep(r, queue, out) /\ Dispatches(r, queue)
                               /\ ForwardLogs => NotEarlier(r, queue \cup out)
    <2> DEFINE to == c.processed[i].ev.ts
               b == RolledBack(c, to)
               d == Recorded(b, rec)
               queue == rest \cup {u.ev : u \in Undone(c, to)}
               out == Antis(l, c, to)
    <2>1. to \in Stamp /\ to = ev.ts
      <3>1. c.processed[i].ev \in Copies /\ to \in Stamp
        BY <1>2, InCopies, RecordStamp DEF Copies
      <3>2. ev.uid # 0
        BY <1>2, <1>3 DEF OneEventPerUid
      <3>3. c.processed[i].ev.uid = ev.uid
        BY <1>7 DEF SameUid
      <3> QED
        BY <1>2, <1>7, <3>1, <3>2, <3>3 DEF OneEventPerUid
    <2>2. b \in LPContext /\ LogStep(l, c, b, out) /\ IsFiniteSet(out)
      BY <1>2, <2>1, RolledBackType, RollbackStep, AntisType
    <2>3. \A k \in 1..Len(b.processed) : \E j \in 1..Len(c.processed) :
             b.processed[k] = c.processed[j]
      <3> HIDE DEF l, c, to
      <3> QED
        BY <1>2, <2>1, RolledBackRecords
    <2>4. d \in LPContext
      BY <2>2, RecordedType
    <2>5. /\ d.sentLog = b.sentLog /\ d.nextUid = b.nextUid
          /\ \A k \in 1..Len(d.processed) :
                \/ k \in 1..Len(b.processed) /\ d.processed[k] = b.processed[k]
                \/ d.processed[k] = rec
      <3> HIDE DEF b
      <3> QED
        BY <2>2, RecordedRecords
    <2>6. OneMoreRecord(b, d, rec)
      <3>1. d = Recorded(b, rec) /\ b \in LPContext
        BY <2>2
      <3> HIDE DEF b, d
      <3> QED
        BY <3>1, RecordedLast
    <2>7. ctx' = [ctx EXCEPT ![l] = d] /\ Route(r, queue, out)
      BY <1>7
    <2>8. /\ BackInQueue(c.processed, Len(b.processed), rest, queue)
          /\ \A k \in 1..Len(b.processed) : b.processed[k] = c.processed[k]
      <3>1. b = RolledBack(c, to) /\ c \in LPContext /\ to \in Stamp /\ InOrder(c)
        BY <1>2, <2>1
      <3> HIDE DEF c, to, b
      <3>2. /\ BackInQueue(c.processed, Len(b.processed), rest,
                           rest \cup {u.ev : u \in Undone(c, to)})
            /\ \A k \in 1..Len(b.processed) : b.processed[k] = c.processed[k]
        BY <3>1, RolledBackQueue
      <3> QED
        BY <3>2
    <2>9. \A e \in queue : e \in rest \/ \E u \in Undone(c, to) : e = u.ev
      OBVIOUS
    <2> HIDE DEF to, b, d, queue
    <2>10. LogStep(l, c, d, out)
      BY <1>2, <2>2, <2>4, <2>5, LogStepMore
    <2>11. \A k \in 1..Len(d.processed) :
             \/ \E j \in 1..Len(c.processed) : d.processed[k] = c.processed[j]
             \/ d.processed[k].ev \in pending[r] /\ d.processed[k].ev.dst = l
      BY <1>3, <2>3, <2>5
    <2>12. \A e \in queue : e \in Copies /\ lpToRank[e.dst] = r
      BY <1>2, <1>4, <2>1, <2>9, PutBack
    <2>13. SendingStep(r, queue, out)
      <3> HIDE DEF l, out
      <3> QED
        BY <1>2, <1>3, <2>2, <2>7, <2>10, <2>11, <2>12, OneSender
    <2>14. ASSUME ForwardLogs
           PROVE  NotEarlier(r, queue \cup out)
      <3>1. \A u \in Undone(c, to) : Le(ev.ts, u.ev.ts)
        BY <1>2, <2>1, PutBack
      <3>2. \A a \in out : Le(ev.ts, a.ts)
        BY <1>2, <2>1, <2>14, AntisLater
      <3> HIDE DEF out
      <3> QED
        BY <1>4, <2>9, <3>1, <3>2 DEF NotEarlier
    <2>15. Dispatches(r, queue)
      <3>1. /\ ctx[ev.dst] = c /\ ctx' = [ctx EXCEPT ![ev.dst] = d]
            /\ ev.dst \in LPs
        BY <1>2, <2>7
      <3> HIDE DEF out, c, l
      <3>2. BackInQueue(ctx[ev.dst].processed, Len(b.processed), rest, queue)
        BY <2>8, <3>1
      <3>3. \A k \in 1..Len(b.processed) : b.processed[k] = ctx[ev.dst].processed[k]
        BY <2>8, <3>1
      <3> QED
        BY <1>3, <1>5, <2>2, <2>6, <3>1, <3>2, <3>3, OneRecording
    <2> QED
      BY <2>13, <2>14, <2>15
  <1> QED
    BY <1>1, <1>6, <1>7 DEF AntiOutcome

\* An event in order sends what the handler sends, none of it into the past if
\* handlers never do.
LEMMA EventSends ==
    ASSUME TypeOK, ProcessedInOrder, OneEventPerUid, Placed,
           NEW r \in Ranks, DispatchEvent(r)
    PROVE  \E queue, out : /\ SendingStep(r, queue, out) /\ Dispatches(r, queue)
                           /\ CausalApp => NotEarlier(r, queue \cup out)
  <1>1. PICK ev \in pending[r], rest \in SUBSET pending[r],
             rec \in ProcessedRecord, sends \in Seq(Send), state \in LPState :
             EventOutcome(r, ev, rest, rec, sends, state)
    BY EventStep
  <1> DEFINE l == ev.dst
             c == ctx[l]
             evs == Emitted(l, c, ev.ts, sends)
             a == AfterSending(c, ev.ts, sends, evs)
             b == Recorded(a, rec)
             d == [b EXCEPT !.state = state]
             out == {evs[i] : i \in 1..Len(evs)}
  <1>2. /\ l \in LPs /\ lpToRank[l] = r /\ ev.ts \in Stamp
        /\ c \in LPContext /\ InOrder(c) /\ LogInOrder(c)
    BY Dispatched
  <1>3. /\ rec.ev = ev /\ StampsFit(evs)
        /\ CausalApp => \A i \in 1..Len(sends) : sends[i].delay > 0
        /\ ctx' = [ctx EXCEPT ![l] = d] /\ Route(r, rest, out)
        /\ UNCHANGED <<acks, lastGvt>>
    BY <1>1 DEF EventOutcome
  <1>4. \A e \in rest : /\ e \in pending[r] /\ e \in Copies /\ lpToRank[e.dst] = r
                        /\ Le(e.ts, e.ts)
    BY Dispatched, LeOrder
  <1>5. /\ evs \in Seq(PlainEvent) /\ Len(evs) = Len(sends) /\ IsFiniteSet(out)
        /\ \A i \in 1..Len(evs) : evs[i].ts.time = ev.ts.time + sends[i].delay
    <2>1. evs = Emitted(l, c, ev.ts, sends)
      OBVIOUS
    <2> HIDE DEF l, c, evs
    <2>2. evs \in Seq(PlainEvent)
      BY <1>2, <1>3, <2>1, EmittedType
    <2>3. Len(evs) = Len(sends)
      BY <2>1, EmittedLen
    <2>4. IsFiniteSet({evs[i] : i \in 1..Len(evs)})
      BY <1>2, <1>3, <2>1, EmittedType
    <2>5. \A i \in 1..Len(sends) : evs[i].ts.time = ev.ts.time + sends[i].delay
      BY <2>1 DEF Emitted
    <2> QED
      BY <2>2, <2>3, <2>4, <2>5
  <1>6. a \in LPContext /\ a.processed = c.processed
    <2> HIDE DEF l, c, evs
    <2> QED
      BY <1>2, <1>5, AfterSendingType, AfterSendingLogs
  <1>7. b \in LPContext
    <2> HIDE DEF a
    <2> QED
      BY <1>6, RecordedType
  <1>8. /\ b.sentLog = a.sentLog /\ b.nextUid = a.nextUid
        /\ \A i \in 1..Len(b.processed) :
              \/ i \in 1..Len(a.processed) /\ b.processed[i] = a.processed[i]
              \/ b.processed[i] = rec
    <2> HIDE DEF a
    <2> QED
      BY <1>6, RecordedRecords
  <1>9. OneMoreRecord(a, b, rec)
    <2>1. b = Recorded(a, rec) /\ a \in LPContext
      BY <1>6
    <2> HIDE DEF a, b
    <2> QED
      BY <2>1, RecordedLast
  <1>10. /\ d \in LPContext /\ d.processed = b.processed
        /\ d.sentLog = b.sentLog /\ d.nextUid = b.nextUid
    <2> HIDE DEF b
    <2> QED
      BY <1>7 DEF LPContext
  <1>11. CausalApp => \A i \in 1..Len(evs) : Le(ev.ts, evs[i].ts)
    <2> SUFFICES ASSUME CausalApp, NEW i \in 1..Len(evs)
                 PROVE  Le(ev.ts, evs[i].ts)
      OBVIOUS
    <2> HIDE DEF l, c, evs
    <2>1. evs[i].ts.time = ev.ts.time + sends[i].delay /\ sends[i].delay > 0
      BY <1>3, <1>5
    <2>2. sends[i].delay \in Nat /\ ev.ts.time \in Nat
      <3>1. sends[i] \in Send
        BY <1>5
      <3> QED
        BY <1>2, <3>1, StampBounds DEF Send, Stamp
    <2> QED
      BY <2>1, <2>2 DEF Le, Lt
  <1>12. LogStep(l, c, a, out)
    <2> HIDE DEF l, c
    <2> QED
      BY <1>2, <1>3, <1>11, EmitStep
  <1> HIDE DEF a, b, d, out
  <1>13. LogStep(l, c, d, out)
    BY <1>2, <1>8, <1>10, <1>12, LogStepMore
  <1>14. \A i \in 1..Len(d.processed) :
            \/ \E j \in 1..Len(c.processed) : d.processed[i] = c.processed[j]
            \/ d.processed[i].ev \in pending[r] /\ d.processed[i].ev.dst = l
    BY <1>3, <1>6, <1>8, <1>10
  <1>15. SendingStep(r, rest, out)
    <2>1. IsFiniteSet(out)
      BY <1>5 DEF out
    <2> HIDE DEF l
    <2> QED
      BY <1>2, <1>3, <1>4, <1>13, <1>14, <2>1, OneSender
  <1>16. ASSUME CausalApp
         PROVE  NotEarlier(r, rest \cup out)
    <2>1. \A e \in out : Le(ev.ts, e.ts)
      BY <1>11, <1>16 DEF out
    <2> QED
      BY <1>4, <2>1 DEF NotEarlier
  <1>17. Dispatches(r, rest)
    <2>1. Len(c.processed) \in Nat
      BY <1>2 DEF LPContext
    <2>2. BackInQueue(c.processed, Len(c.processed), rest, rest)
      BY <2>1 DEF BackInQueue
    <2>3. ctx' = [ctx EXCEPT ![l] = d]
      BY <1>3
    <2>4. OneMoreRecord(c, d, rec)
      <3> HIDE DEF c
      <3> QED
        BY <1>6, <1>9, <1>10 DEF OneMoreRecord
    <2>5. /\ ev \notin rest /\ OnlySkipped(r, rest \cup {ev})
          /\ rec.cancelPrev = {} /\ rec.ev = ev /\ ~ ev.anti
          /\ UNCHANGED <<cancelled, trace, sink>>
      BY <1>1 DEF EventOutcome
    <2>6. TombstonesFrom(ev)
      BY <2>5 DEF TombstonesFrom
    <2>7. /\ ctx[ev.dst] = c /\ ctx' = [ctx EXCEPT ![ev.dst] = d]
          /\ ev.dst \in LPs
      BY <1>2, <2>3
    <2> HIDE DEF c, l
    <2>8. /\ \A i \in 1..Len(c.processed) : c.processed[i] = ctx[ev.dst].processed[i]
          /\ BackInQueue(ctx[ev.dst].processed, Len(c.processed), rest, rest)
      BY <2>2, <2>7
    <2>9. rec.cancelPrev \subseteq cancelled[r]
      BY <2>5
    <2> QED
      BY <1>2, <2>4, <2>5, <2>6, <2>7, <2>8, <2>9, OneRecording
  <1> QED
    BY <1>15, <1>16, <1>17

\* start_if_needed_ sends what the LPs of the rank seed.
LEMMA StartSends ==
    ASSUME TypeOK, OneEventPerUid, Placed, NEW r \in Ranks, Start(r)
    PROVE  /\ \E out : SendingStep(r, pending[r], out)
           /\ \A l \in LPs : ctx'[l].processed = ctx[l].processed
  <1> DEFINE f == [l \in LPs |-> {StartEvents(l)[i] : i \in 1..Len(OnStart(l))}]
             out == UNION {f[l] : l \in LpsOn(r)}
             d(l) == AfterSending(ctx[l], ZeroStamp, OnStart(l), StartEvents(l))
  <1>1. LpsOn(r) \in SUBSET LPs /\ IsFiniteSet(LpsOn(r))
    <2>1. LpsOn(r) \in SUBSET LPs
      BY DEF LpsOn
    <2> QED
      BY <2>1, ModelAssumption, FS_Subset
  <1>2. \A l \in LpsOn(r) : StampsFit(StartEvents(l))
    BY DEF Start
  <1>3. ASSUME NEW l \in LpsOn(r)
        PROVE  /\ f[l] \in SUBSET Event /\ IsFiniteSet(f[l])
               /\ \A e \in f[l] : e.src = l
               /\ f[l] = {StartEvents(l)[i] : i \in 1..Len(StartEvents(l))}
               /\ LogStep(l, ctx[l], d(l), f[l])
    <2>1. /\ l \in LPs /\ ctx[l] \in LPContext /\ LogInOrder(ctx[l])
          /\ OnStart(l) \in Seq(Send) /\ ZeroStamp \in Stamp
      BY <1>1, ModelAssumption, StampConstants DEF TypeOK, OneEventPerUid
    <2>2. f[l] \in SUBSET Event /\ IsFiniteSet(f[l])
      BY <1>2, <2>1, StartType
    <2>3. f[l] = {StartEvents(l)[i] : i \in 1..Len(StartEvents(l))}
      BY <1>2, <2>1, StartType
    <2>4. \A i \in 1..Len(StartEvents(l)) : Le(ZeroStamp, StartEvents(l)[i].ts)
      <3>1. \A i \in 1..Len(StartEvents(l)) : StartEvents(l)[i] \in Event
        BY <1>2, <2>1, StartType
      <3> QED
        BY <3>1, EventFields, StampConstants
    <2>5. LogStep(l, ctx[l], d(l), {StartEvents(l)[i] : i \in 1..Len(StartEvents(l))})
      BY <1>2, <2>1, <2>4, EmitStep DEF StartEvents
    <2>6. \A e \in f[l] : e.src = l
      BY <2>3, <2>5 DEF LogStep
    <2> HIDE DEF f
    <2> QED
      BY <2>2, <2>3, <2>5, <2>6
  <1>4. IsFiniteSet(out)
    <2> HIDE DEF f
    <2> QED
      BY <1>1, <1>3, FiniteUnion
  <1>5. Route(r, pending[r], out) /\ UNCHANGED <<acks, lastGvt>>
    <2> DEFINE E(l) == {StartEvents(l)[i] : i \in 1..Len(OnStart(l))}
    <2>1. \A l \in LpsOn(r) : f[l] = E(l)
      BY <1>1
    <2>2. UNION {E(l) : l \in LpsOn(r)} = out
      <3> HIDE DEF f, E
      <3> QED
        BY <2>1
    <2>3. Route(r, pending[r], UNION {E(l) : l \in LpsOn(r)})
      BY DEF Start
    <2>4. UNCHANGED <<acks, lastGvt>>
      BY DEF Start
    <2> HIDE DEF out, E
    <2> QED
      BY <2>2, <2>3, <2>4
  <1>6. \A l \in LPs : ctx'[l] = IF l \in LpsOn(r) THEN d(l) ELSE ctx[l]
    BY DEF Start
  <1> HIDE DEF f
  <1>7. \A e \in out : e \in Event /\ e.src \in LpsOn(r) /\ e \in f[e.src]
    BY <1>3
  <1>8. ASSUME NEW l \in LPs
        PROVE  LogStep(l, ctx[l], ctx'[l], {e \in out : e.src = l})
    <2>1. CASE l \in LpsOn(r)
      <3>1. {e \in out : e.src = l} = f[l]
        BY <1>3, <1>7, <2>1
      <3> QED
        BY <1>3, <1>6, <2>1, <3>1
    <2>2. CASE l \notin LpsOn(r)
      <3>1. {e \in out : e.src = l} = {} /\ ctx'[l] = ctx[l]
        BY <1>6, <1>7, <2>2
      <3>2. ctx[l] \in LPContext /\ LogInOrder(ctx[l])
        BY DEF TypeOK, OneEventPerUid
      <3> QED
        BY <3>1, <3>2, SameLog
    <2> QED
      BY <2>1, <2>2
  <1>9. \A l \in LPs : ctx'[l].processed = ctx[l].processed
    <2>1. \A l \in LPs : ctx[l] \in LPContext /\ OnStart(l) \in Seq(Send)
      BY ModelAssumption DEF TypeOK
    <2> QED
      BY <1>6, <2>1, AfterSendingLogs
  <1>10. \A l \in LPs : RecordsFrom(r, l)
    BY <1>9 DEF RecordsFrom
  <1>11. \A e \in out : lpToRank[e.src] = r
    BY <1>7 DEF LpsOn
  <1>12. \A e \in pending[r] : e \in Copies /\ lpToRank[e.dst] = r
    BY InCopies DEF Copies, Placed
  <1> HIDE DEF out, d
  <1> QED
    BY <1>4, <1>5, <1>7, <1>8, <1>9, <1>10, <1>11, <1>12 DEF SendingStep

-----------------------------------------------------------------------------
(***************************************************************************)
(* The steps that send nothing.                                            *)
(***************************************************************************)
\* LP l has no records but some that it had.
NoNewRecords(l) ==
    \A i \in 1..Len(ctx'[l].processed) : \E j \in 1..Len(ctx[l].processed) :
        ctx'[l].processed[i] = ctx[l].processed[j]

\* Messages arrive, or are dropped; logs are pruned.
QuietStep ==
    /\ \A r \in Ranks : \A e \in pending'[r] :
          \/ e \in pending[r]
          \/ \E m \in net : e = m.ev /\ lpToRank[e.dst] = r
    /\ net' \subseteq net
    /\ \A l \in LPs : LogStep(l, ctx[l], ctx'[l], {}) /\ NoNewRecords(l)

\* Pruning some ranks.
LEMMA PruneQuiet ==
    ASSUME TypeOK, ProcessedInOrder, OneEventPerUid, NEW R, NEW gvt \in Stamp,
           Prune(R, gvt)
    PROVE  \A l \in LPs : LogStep(l, ctx[l], ctx'[l], {}) /\ NoNewRecords(l)
  <1> SUFFICES ASSUME NEW l \in LPs
               PROVE  LogStep(l, ctx[l], ctx'[l], {}) /\ NoNewRecords(l)
    OBVIOUS
  <1> DEFINE c == ctx[l]
             d == ctx'[l]
  <1>1. c \in LPContext /\ InOrder(c) /\ LogInOrder(c)
    BY InOrderAll DEF TypeOK, OneEventPerUid
  <1>2. d = c \/ d = Pruned(c, gvt)
    BY DEF Prune
  <1> HIDE DEF c, d
  <1>3. CASE d = c
    <2>1. LogStep(l, c, d, {})
      BY <1>1, <1>3, SameLog
    <2> QED
      BY <1>3, <2>1 DEF NoNewRecords, c, d
  <1>4. CASE d = Pruned(c, gvt)
    <2>1. LogStep(l, c, d, {})
      BY <1>1, <1>4, PruneStep
    <2> DEFINE p == Pruned(c, gvt)
    <2>2. PICK k \in 0..Len(c.processed) :
             /\ Len(p.processed) = Len(c.processed) - k
             /\ \A i \in 1..Len(p.processed) :
                   /\ p.processed[i] = c.processed[k + i]
                   /\ Le(gvt, p.processed[i].ev.ts)
      BY <1>1, PrunedLogs
    <2> HIDE DEF p
    <2>3. Len(c.processed) \in Nat
      BY <1>1 DEF LPContext
    <2>4. \A i \in 1..Len(d.processed) :
             k + i \in 1..Len(c.processed) /\ d.processed[i] = c.processed[k + i]
      <3>1. d = p
        BY <1>4 DEF p
      <3> QED
        BY <2>2, <2>3, <3>1
    <2> QED
      BY <2>1, <2>4 DEF NoNewRecords, c, d
  <1> QED
    BY <1>2, <1>3, <1>4 DEF c, d

\* Every step other than Start and the three dispatches of a message is quiet.
LEMMA QuietSteps ==
    ASSUME TypeOK, ProcessedInOrder, OneEventPerUid,
           \/ \E r \in Ranks : \/ PollEvent(r) \/ PollAck(r)
                               \/ DispatchNothing(r) \/ FossilCollect(r)
           \/ Collective \/ UNCHANGED vars
    PROVE  QuietStep
  <1>1. \A l \in LPs : ctx[l] \in LPContext /\ LogInOrder(ctx[l])
    BY DEF TypeOK, OneEventPerUid
  <1>2. ASSUME ctx' = ctx
        PROVE  \A l \in LPs : LogStep(l, ctx[l], ctx'[l], {}) /\ NoNewRecords(l)
    <2>1. \A l \in LPs : LogStep(l, ctx[l], ctx'[l], {})
      BY <1>1, <1>2, SameLog
    <2> QED
      BY <1>2, <2>1 DEF NoNewRecords
  <1>3. ASSUME pending' = pending
        PROVE  \A r \in Ranks : \A e \in pending'[r] : e \in pending[r]
    BY <1>3
  <1>4. ASSUME PeekAll
        PROVE  \A r \in Ranks : \A e \in pending'[r] : e \in pending[r]
    BY <1>4 DEF PeekAll, Peeked
  <1>5. ASSUME NEW gvt \in Stamp, Adopt(gvt)
        PROVE  \A l \in LPs : LogStep(l, ctx[l], ctx'[l], {}) /\ NoNewRecords(l)
    <2>1. CASE Lt(gvt, lastGvt)
      BY <1>2, <1>5, <2>1 DEF Adopt
    <2>2. CASE ~ Lt(gvt, lastGvt)
      <3>1. Prune(Ranks, gvt)
        BY <1>5, <2>2 DEF Adopt
      <3> QED
        BY <3>1, PruneQuiet
    <2> QED
      BY <2>1, <2>2
  <1>6. ASSUME NEW r \in Ranks, PollEvent(r)
        PROVE  QuietStep
    <2>1. PICK m \in net :
             /\ lpToRank[m.ev.dst] = r /\ net' = net \ {m} /\ ctx' = ctx
             /\ pending' = [pending EXCEPT ![r] = @ \cup {m.ev}]
      BY <1>6 DEF PollEvent
    <2>2. \A q \in Ranks : \A e \in pending'[q] :
             e \in pending[q] \/ (q = r /\ e = m.ev)
      BY <2>1 DEF TypeOK
    <2> QED
      BY <1>2, <2>1, <2>2 DEF QuietStep
  <1>7. ASSUME NEW r \in Ranks, PollAck(r)
        PROVE  QuietStep
    <2>1. UNCHANGED <<pending, ctx, net>>
      BY <1>7 DEF PollAck
    <2> QED
      BY <1>2, <2>1 DEF QuietStep
  <1>8. ASSUME NEW r \in Ranks, DispatchNothing(r)
        PROVE  QuietStep
    <2>1. pending' = [pending EXCEPT ![r] = {}] /\ UNCHANGED <<ctx, net>>
      BY <1>8 DEF DispatchNothing
    <2>2. \A q \in Ranks : \A e \in pending'[q] : e \in pending[q]
      BY <2>1 DEF TypeOK
    <2> QED
      BY <1>2, <2>1, <2>2 DEF QuietStep
  <1>9. ASSUME NEW r \in Ranks, FossilCollect(r)
        PROVE  QuietStep
    <2>1. Prune({r}, lastGvt) /\ lastGvt \in Stamp /\ UNCHANGED <<pending, net>>
      BY <1>9 DEF FossilCollect, TypeOK
    <2> QED
      BY <2>1, PruneQuiet DEF QuietStep
  <1>10. CASE AckGvt \/ ColouredGvt
    <2>1. \E gvt \in Stamp : Adopt(gvt)
      BY <1>10, GvtType DEF AckGvt, ColouredGvt
    <2>2. PeekAll /\ net' = net
      BY <1>10 DEF AckGvt, ColouredGvt
    <2> QED
      BY <1>4, <1>5, <2>1, <2>2 DEF QuietStep
  <1>11. CASE ColouredFlip \/ ColouredWait \/ KeepRunning \/ UNCHANGED vars
    <2>1. UNCHANGED <<pending, ctx, net>>
      BY <1>11 DEF ColouredFlip, ColouredWait, KeepRunning, vars
    <2> QED
      BY <1>2, <2>1 DEF QuietStep
  <1>12. CASE Finalize
    <2>1. Prune(Ranks, MaxStamp) /\ MaxStamp \in Stamp /\ UNCHANGED <<pending, net>>
      BY <1>12, StampConstants DEF Finalize
    <2> QED
      BY <2>1, PruneQuiet DEF QuietStep
  <1> QED
    BY <1>6, <1>7, <1>8, <1>9, <1>10, <1>11, <1>12 DEF Collective

\* Where the copies are after a quiet step.
LEMMA QuietCopies ==
    ASSUME TypeOK, Placed, QuietStep
    PROVE  Copies' \subseteq Copies /\ Placed'
  <1>1. \A l \in LPs : \A i \in 1..Len(ctx'[l].processed) :
           \E j \in 1..Len(ctx[l].processed) :
               ctx'[l].processed[i].ev = ctx[l].processed[j].ev
    BY DEF QuietStep, NoNewRecords
  <1>2. \A r \in Ranks : \A e \in pending'[r] :
           e \in pending[r] \/ \E m \in net : e = m.ev /\ lpToRank[e.dst] = r
    BY DEF QuietStep
  <1>3. Placed'
    <2>1. \A r \in Ranks : \A e \in pending'[r] : lpToRank[e.dst] = r
      BY <1>2 DEF Placed
    <2>2. \A l \in LPs : \A i \in 1..Len(ctx'[l].processed) :
             ctx'[l].processed[i].ev.dst = l
      <3> SUFFICES ASSUME NEW l \in LPs, NEW i \in 1..Len(ctx'[l].processed)
                   PROVE  ctx'[l].processed[i].ev.dst = l
        OBVIOUS
      <3>1. PICK j \in 1..Len(ctx[l].processed) :
               ctx'[l].processed[i].ev = ctx[l].processed[j].ev
        BY <1>1
      <3>2. ctx[l].processed[j].ev.dst = l
        BY DEF Placed
      <3> QED
        BY <3>1, <3>2
    <2> QED
      BY <2>1, <2>2 DEF Placed
  <1>4. \A e : e \in Copies' => e \in Copies
    <2> SUFFICES ASSUME NEW e, e \in AllCopies(pending', net', ctx')
                 PROVE  e \in AllCopies(pending, net, ctx)
      BY DEF Copies
    <2>1. \/ \E r \in Ranks : e \in pending'[r]
          \/ \E m \in net' : e = m.ev
          \/ \E l \in LPs : \E i \in 1..Len(ctx'[l].processed) :
                e = ctx'[l].processed[i].ev
      BY InCopies
    <2>2. \/ \E r \in Ranks : e \in pending[r]
          \/ \E m \in net : e = m.ev
          \/ \E l \in LPs : \E i \in 1..Len(ctx[l].processed) :
                e = ctx[l].processed[i].ev
      BY <1>1, <1>2, <2>1, SMTT(30) DEF QuietStep
    <2> QED
      BY <2>2, InCopies
  <1> QED
    BY <1>3, <1>4

\* Where the copies are after a step that sends, and what is on its way.
LEMMA SentCopies ==
    ASSUME TypeOK, Placed, NEW r \in Ranks, NEW queue, NEW out,
           SendingStep(r, queue, out)
    PROVE  /\ Copies' \subseteq Copies \cup out /\ Placed'
           /\ \A q \in Ranks : \A e \in pending'[q] :
                 IF q = r THEN e \in queue \cup out ELSE e \in pending[q]
           /\ net' = net \cup {[from |-> r, ev |-> e, colour |-> SendColour] :
                                  e \in {f \in out : lpToRank[f.dst] # r}}
  <1> DEFINE remote == {e \in out : lpToRank[e.dst] # r}
  <1>1. /\ pending' = [pending EXCEPT ![r] = queue \cup (out \ remote)]
        /\ net' = net \cup {[from |-> r, ev |-> e, colour |-> SendColour] :
                               e \in remote}
    BY DEF SendingStep, Route
  <1>2. \A e \in remote : e \in out
    OBVIOUS
  <1>3. \A e \in out : e \notin remote => lpToRank[e.dst] = r
    OBVIOUS
  <1> HIDE DEF remote
  <1>4. /\ \A q \in Ranks \ {r} : pending'[q] = pending[q]
        /\ pending'[r] = queue \cup (out \ remote)
    BY <1>1 DEF TypeOK
  <1>5. \A m \in net' : m \in net \/ m.ev \in out
    BY <1>1, <1>2
  <1>6. \A l \in LPs : \A i \in 1..Len(ctx'[l].processed) :
           \/ \E j \in 1..Len(ctx[l].processed) :
                 ctx'[l].processed[i].ev = ctx[l].processed[j].ev
           \/ /\ ctx'[l].processed[i].ev \in pending[r]
              /\ ctx'[l].processed[i].ev.dst = l
    BY DEF SendingStep, RecordsFrom
  <1>7. \A e \in queue : e \in Copies /\ lpToRank[e.dst] = r
    BY DEF SendingStep
  <1>8. Placed'
    <2>1. \A q \in Ranks : \A e \in pending'[q] : lpToRank[e.dst] = q
      BY <1>3, <1>4, <1>7 DEF Placed
    <2>2. \A l \in LPs : \A i \in 1..Len(ctx'[l].processed) :
             ctx'[l].processed[i].ev.dst = l
      BY <1>6 DEF Placed
    <2> QED
      BY <2>1, <2>2 DEF Placed
  <1>9. \A e : e \in Copies' => e \in Copies \cup out
    <2> SUFFICES ASSUME NEW e, e \in AllCopies(pending', net', ctx'), e \notin out
                 PROVE  e \in AllCopies(pending, net, ctx)
      BY DEF Copies
    <2>1. \/ \E q \in Ranks : e \in pending'[q]
          \/ \E m \in net' : e = m.ev
          \/ \E l \in LPs : \E i \in 1..Len(ctx'[l].processed) :
                e = ctx'[l].processed[i].ev
      BY InCopies
    <2>2. CASE \E q \in Ranks : e \in pending'[q]
      <3>1. PICK q \in Ranks : e \in pending'[q]
        BY <2>2
      <3>2. CASE q = r
        BY <1>4, <1>7, <3>1, <3>2 DEF Copies
      <3>3. CASE q # r
        BY <1>4, <3>1, <3>3, InCopies
      <3> QED
        BY <3>2, <3>3
    <2>3. CASE \E m \in net' : e = m.ev
      BY <1>5, <2>3, InCopies
    <2>4. CASE \E l \in LPs : \E i \in 1..Len(ctx'[l].processed) :
                  e = ctx'[l].processed[i].ev
      <3>1. \/ \E l \in LPs : \E j \in 1..Len(ctx[l].processed) :
                  e = ctx[l].processed[j].ev
            \/ e \in pending[r]
        BY <1>6, <2>4
      <3> QED
        BY <3>1, InCopies
    <2> QED
      BY <2>1, <2>2, <2>3, <2>4
  <1> QED
    BY <1>1, <1>4, <1>8, <1>9 DEF remote

\* Every step is quiet or sends.
LEMMA QuietOrSending ==
    ASSUME TypeOK, ProcessedInOrder, OneEventPerUid, Placed, [Next]_vars
    PROVE  \/ QuietStep
           \/ \E r \in Ranks : \E queue, out : SendingStep(r, queue, out)
  BY QuietSteps, StartSends, StragglerSends, AntiSends, EventSends
     DEF Next, RankStep, Terminated

\* Every step of the kernel keeps uids unambiguous and events in their place.
LEMMA UidStep ==
    ASSUME TypeOK, ProcessedInOrder, OneEventPerUid, Placed, [Next]_vars
    PROVE  OneEventPerUid' /\ Placed'
  <1>1. CASE QuietStep
    <2>1. {} \in SUBSET Event /\ Copies' \subseteq Copies \cup {} /\ Placed'
      BY <1>1, QuietCopies
    <2>2. \A l \in LPs : {e \in {} : e.src = l} = {}
      OBVIOUS
    <2>3. \A l \in LPs : LogStep(l, ctx[l], ctx'[l], {e \in {} : e.src = l})
      BY <1>1, <2>2 DEF QuietStep
    <2> QED
      BY <2>1, <2>3, MessageStep
  <1>2. ASSUME NEW r \in Ranks, NEW queue, NEW out, SendingStep(r, queue, out)
        PROVE  OneEventPerUid' /\ Placed'
    <2>1. Copies' \subseteq Copies \cup out /\ Placed'
      BY <1>2, SentCopies
    <2>2. out \in SUBSET Event
      BY <1>2 DEF SendingStep
    <2>3. \A l \in LPs : LogStep(l, ctx[l], ctx'[l], {e \in out : e.src = l})
      BY <1>2 DEF SendingStep
    <2> QED
      BY <2>1, <2>2, <2>3, MessageStep
  <1> QED
    BY <1>1, <1>2, QuietOrSending

-----------------------------------------------------------------------------
(***************************************************************************)
(* A message is on its way only once.                                      *)
(***************************************************************************)
\* Messages go from the rank of the sender to another; no two have the same key.
SentOnce ==
    /\ \A m \in net : lpToRank[m.ev.src] = m.from /\ lpToRank[m.ev.dst] # m.from
    /\ \A m, n \in net : SameInflight(m.ev, n.ev) => m = n

\* A key that was not used after what its LP has sent is not that of a message
\* sent now.
LEMMA FreshKey ==
    ASSUME TypeOK, NEW r, NEW queue, NEW out, SendingStep(r, queue, out),
           NEW x, x.src \in LPs, x.uid \in Nat, x.uid < ctx[x.src].nextUid,
           x.anti => x.uid \notin StandingUids(ctx[x.src]),
           NEW f \in out
    PROVE  ~ SameInflight(f, x) /\ ~ SameInflight(x, f)
  <1> SUFFICES ASSUME x.src = f.src, x.uid = f.uid, x.anti = f.anti
               PROVE  FALSE
    BY DEF SameInflight, SameUid
  <1> DEFINE l == x.src
             Of == {e \in out : e.src = l}
  <1>1. l \in LPs /\ ctx[l] \in LPContext /\ f \in Of
    BY DEF TypeOK
  <1>2. LogStep(l, ctx[l], ctx'[l], Of)
    BY <1>1 DEF SendingStep
  <1>3. f.uid < ctx[l].nextUid
    OBVIOUS
  <1> HIDE DEF Of, l
  <1>4. f.anti /\ f.uid \in StandingUids(ctx[l])
    BY <1>1, <1>2, <1>3, NewUid
  <1> QED
    BY <1>4 DEF l

\* Messages sent in one step have different keys.
LEMMA DifferentKeys ==
    ASSUME TypeOK, OneEventPerUid, NEW r, NEW queue, NEW out,
           SendingStep(r, queue, out),
           NEW e \in out, NEW f \in out, SameUid(e, f)
    PROVE  e = f
  <1> DEFINE l == e.src
             Of == {g \in out : g.src = l}
  <1>1. l \in LPs
    BY EventFields DEF SendingStep
  <1>2. /\ e \in Of /\ f \in Of /\ e.uid = f.uid
        /\ ctx[l] \in LPContext /\ LogInOrder(ctx[l])
    BY <1>1 DEF SameUid, TypeOK, OneEventPerUid
  <1>3. LogStep(l, ctx[l], ctx'[l], Of)
    BY <1>1 DEF SendingStep
  <1> HIDE DEF Of, l
  <1> QED
    BY <1>2, <1>3, NewAndNew

\* What a message on its way knows of its sender.
LEMMA MessageKey ==
    ASSUME TypeOK, OneEventPerUid, NEW m \in net
    PROVE  /\ m.ev \in Event /\ m.from \in Ranks /\ m.colour \in 0..1
           /\ m.ev.src \in LPs /\ m.ev.dst \in LPs /\ m.ev.uid \in Nat
           /\ m.ev.uid < ctx[m.ev.src].nextUid
           /\ m.ev.anti => m.ev.uid \notin StandingUids(ctx[m.ev.src])
  <1>1. m.ev \in Event /\ m.from \in Ranks /\ m.colour \in 0..1
    BY DEF TypeOK
  <1>2. m.ev \in Copies
    BY InCopies DEF Copies
  <1> QED
    BY <1>1, <1>2, EventFields DEF OneEventPerUid

\* The messages after a step that sends: those there were, and new ones.
LEMMA SentMessages ==
    ASSUME TypeOK, OneEventPerUid, Placed, SentOnce,
           NEW r \in Ranks, NEW queue, NEW out, SendingStep(r, queue, out)
    PROVE  /\ \A e \in out : \A m \in net :
                 ~ SameInflight(m.ev, e) /\ ~ SameInflight(e, m.ev)
           /\ SentOnce'
  <1> DEFINE msg(e) == [from |-> r, ev |-> e, colour |-> SendColour]
             remote == {e \in out : lpToRank[e.dst] # r}
  <1>1. \A e \in out : \A m \in net :
           ~ SameInflight(m.ev, e) /\ ~ SameInflight(e, m.ev)
    BY MessageKey, FreshKey
  <1>2. net' = net \cup {msg(e) : e \in remote}
    BY SentCopies
  <1>3. \A m \in net' : m \in net \/ \E e \in remote : m = msg(e)
    BY <1>2
  <1>4. \A e \in remote : e \in out /\ lpToRank[e.src] = r /\ lpToRank[e.dst] # r
    BY DEF SendingStep
  <1>5. \A e \in remote : msg(e).ev = e /\ msg(e).from = r
    OBVIOUS
  <1> HIDE DEF msg, remote
  <1>6. \A m \in net' : lpToRank[m.ev.src] = m.from /\ lpToRank[m.ev.dst] # m.from
    BY <1>3, <1>4, <1>5 DEF SentOnce
  <1>7. ASSUME NEW m \in net', NEW n \in net', SameInflight(m.ev, n.ev)
        PROVE  m = n
    <2>1. CASE m \in net /\ n \in net
      BY <1>7, <2>1 DEF SentOnce
    <2>2. CASE m \in net /\ \E e \in remote : n = msg(e)
      BY <1>1, <1>4, <1>5, <1>7, <2>2
    <2>3. CASE (\E e \in remote : m = msg(e)) /\ n \in net
      BY <1>1, <1>4, <1>5, <1>7, <2>3
    <2>4. ASSUME NEW e \in remote, m = msg(e), NEW f \in remote, n = msg(f)
          PROVE  m = n
      <3>1. SameUid(e, f)
        BY <1>5, <1>7, <2>4 DEF SameInflight
      <3>2. e = f
        BY <1>4, <3>1, DifferentKeys
      <3> QED
        BY <2>4, <3>2
    <2> QED
      BY <1>3, <2>1, <2>2, <2>3, <2>4
  <1> QED
    BY <1>1, <1>6, <1>7 DEF SentOnce, SameInflight, SameUid

\* Every step of the kernel keeps the keys on their way different.
LEMMA SentOnceStep ==
    ASSUME TypeOK, ProcessedInOrder, OneEventPerUid, Placed, SentOnce, [Next]_vars
    PROVE  SentOnce'
  <1>1. CASE QuietStep
    BY <1>1 DEF QuietStep, SentOnce, SameInflight, SameUid
  <1> QED
    BY <1>1, QuietOrSending, SentMessages

-----------------------------------------------------------------------------
(***************************************************************************)
(* The in-flight tables.                                                   *)
(***************************************************************************)
\* Each message and each Ack on its way has its key in the sender's table, each
\* key has one of them, and no message has an Ack on its way as well.
AcksFit ==
    /\ \A m \in net : InflightOf(m.ev) \in inflight[m.from]
    /\ \A a \in acks :
          /\ lpToRank[a.src] = a.to /\ a.uid < ctx[a.src].nextUid
          /\ a.anti => a.uid \notin StandingUids(ctx[a.src])
          /\ \E k \in inflight[a.to] : SameInflight(k, a)
          /\ \A m \in net : ~ SameInflight(m.ev, a)
    /\ \A r \in Ranks : \A k \in inflight[r] :
          /\ lpToRank[k.src] = r
          /\ \/ \E m \in net : k = InflightOf(m.ev)
             \/ \E a \in acks : SameInflight(k, a)
    /\ ~ colour.red

\* The fields of an Ack.
LEMMA AckFields ==
    ASSUME TypeOK, NEW a \in acks
    PROVE  a.to \in Ranks /\ a.src \in LPs /\ a.uid \in Nat /\ a.anti \in BOOLEAN
  BY DEF TypeOK

\* An Ack still fits the log of its LP after any step of that LP.
LEMMA AckStands ==
    ASSUME TypeOK, NEW out,
           \A l \in LPs : LogStep(l, ctx[l], ctx'[l], {e \in out : e.src = l}),
           NEW l \in LPs, NEW uid \in Nat, uid < ctx[l].nextUid
    PROVE  /\ uid < ctx'[l].nextUid
           /\ uid \in StandingUids(ctx'[l]) => uid \in StandingUids(ctx[l])
  <1> DEFINE c == ctx[l]
             d == ctx'[l]
             Of == {e \in out : e.src = l}
  <1>1. LogStep(l, c, d, Of) /\ c \in LPContext /\ uid < c.nextUid
    BY DEF TypeOK
  <1> HIDE DEF c, d, Of
  <1>2. uid < d.nextUid /\ (uid \in StandingUids(d) => uid \in StandingUids(c))
    BY <1>1, OldUid
  <1> QED
    BY <1>2 DEF c, d

\* Steps that touch neither the messages nor the Acks nor the tables.
LEMMA AcksKept ==
    ASSUME TypeOK, AcksFit, QuietStep, UNCHANGED <<net, acks, inflight, colour>>
    PROVE  AcksFit'
  <1>1. \A l \in LPs : LogStep(l, ctx[l], ctx'[l], {e \in {} : e.src = l})
    <2>1. \A l \in LPs : {e \in {} : e.src = l} = {}
      OBVIOUS
    <2> QED
      BY <2>1 DEF QuietStep
  <1>2. ASSUME NEW a \in acks
        PROVE  /\ a.uid < ctx'[a.src].nextUid
               /\ a.anti => a.uid \notin StandingUids(ctx'[a.src])
    <2>1. a.src \in LPs /\ a.uid \in Nat
      BY AckFields
    <2>2. /\ a.uid < ctx[a.src].nextUid
          /\ a.anti => a.uid \notin StandingUids(ctx[a.src])
      BY DEF AcksFit
    <2> QED
      BY <1>1, <2>1, <2>2, AckStands
  <1> QED
    BY <1>2 DEF AcksFit, StandingUids, Entries, SameInflight, SameUid, InflightOf

\* The in-flight tables after a step that sends.
LEMMA AcksSent ==
    ASSUME TypeOK, OneEventPerUid, Placed, SentOnce, AcksFit,
           GvtMode = "AckInflight",
           NEW r \in Ranks, NEW queue, NEW out, SendingStep(r, queue, out)
    PROVE  AcksFit'
  <1> DEFINE msg(e) == [from |-> r, ev |-> e, colour |-> SendColour]
             remote == {e \in out : lpToRank[e.dst] # r}
             keys == {InflightOf(e) : e \in remote}
  <1>1. net' = net \cup {msg(e) : e \in remote}
    BY SentCopies
  <1>2. inflight' = [inflight EXCEPT ![r] = @ \cup keys] /\ colour' = colour
    BY DEF SendingStep, Route
  <1>3. acks' = acks
    BY DEF SendingStep
  <1>4. \A m \in net' : m \in net \/ \E e \in remote : m = msg(e)
    BY <1>1
  <1>5. \A e \in remote : /\ e \in out /\ lpToRank[e.src] = r
                          /\ msg(e).ev = e /\ msg(e).from = r /\ msg(e) \in net'
                          /\ InflightOf(e) \in keys /\ InflightOf(e).src = e.src
    BY <1>1 DEF SendingStep, InflightOf
  <1>6. \A k \in keys : \E e \in remote : k = InflightOf(e)
    OBVIOUS
  <1> HIDE DEF msg, remote, keys
  <1>7. \A q \in Ranks : inflight'[q] = IF q = r THEN inflight[q] \cup keys
                                                 ELSE inflight[q]
    BY <1>2 DEF TypeOK
  <1>8. \A m \in net : m.from \in Ranks
    BY MessageKey
  <1>9. ASSUME NEW m \in net'
        PROVE  InflightOf(m.ev) \in inflight'[m.from]
    <2>1. /\ \A q \in Ranks : \A k \in inflight[q] : k \in inflight'[q]
          /\ \A k \in keys : k \in inflight'[r]
      BY <1>7
    <2>2. CASE m \in net
      <3>1. InflightOf(m.ev) \in inflight[m.from] /\ m.from \in Ranks
        BY <1>8, <2>2 DEF AcksFit
      <3> QED
        BY <2>1, <3>1
    <2>3. CASE \E e \in remote : m = msg(e)
      <3>1. PICK e \in remote : m = msg(e)
        BY <2>3
      <3>2. m.ev = e /\ m.from = r /\ InflightOf(e) \in keys
        BY <1>5, <3>1
      <3> QED
        BY <2>1, <3>2
    <2> QED
      BY <1>4, <2>2, <2>3
  <1>10. ASSUME NEW a \in acks
         PROVE  /\ lpToRank[a.src] = a.to /\ a.uid < ctx'[a.src].nextUid
                /\ a.anti => a.uid \notin StandingUids(ctx'[a.src])
                /\ \E k \in inflight'[a.to] : SameInflight(k, a)
                /\ \A m \in net' : ~ SameInflight(m.ev, a)
    <2>1. /\ a.to \in Ranks /\ a.src \in LPs /\ a.uid \in Nat
          /\ lpToRank[a.src] = a.to /\ a.uid < ctx[a.src].nextUid
          /\ a.anti => a.uid \notin StandingUids(ctx[a.src])
          /\ \E k \in inflight[a.to] : SameInflight(k, a)
          /\ \A m \in net : ~ SameInflight(m.ev, a)
      BY AckFields DEF AcksFit
    <2>2. /\ a.uid < ctx'[a.src].nextUid
          /\ a.anti => a.uid \notin StandingUids(ctx'[a.src])
      BY <2>1, AckStands DEF SendingStep
    <2>3. \E k \in inflight'[a.to] : SameInflight(k, a)
      BY <1>7, <2>1
    <2>4. \A e \in remote : ~ SameInflight(e, a)
      BY <1>5, <2>1, FreshKey
    <2>5. \A m \in net' : ~ SameInflight(m.ev, a)
      BY <1>4, <1>5, <2>1, <2>4
    <2> QED
      BY <2>1, <2>2, <2>3, <2>5
  <1>11. ASSUME NEW q \in Ranks, NEW k \in inflight'[q]
         PROVE  /\ lpToRank[k.src] = q
                /\ \/ \E m \in net' : k = InflightOf(m.ev)
                   \/ \E a \in acks' : SameInflight(k, a)
    <2>1. CASE k \in inflight[q]
      BY <1>1, <1>3, <2>1 DEF AcksFit
    <2>2. CASE q = r /\ k \in keys
      BY <1>5, <1>6, <2>2
    <2> QED
      BY <1>7, <2>1, <2>2
  <1>12. ~ colour'.red
    BY <1>2 DEF AcksFit
  <1> QED
    BY <1>3, <1>9, <1>10, <1>11, <1>12
       DEF AcksFit, StandingUids, Entries, SameInflight, SameUid, InflightOf

\* A message is received, and its Ack goes out: nothing is erased, because the
\* entry is in the table of another rank.
LEMMA AcksPollEvent ==
    ASSUME TypeOK, OneEventPerUid, SentOnce, AcksFit, GvtMode = "AckInflight",
           NEW r \in Ranks, PollEvent(r)
    PROVE  AcksFit'
  <1>1. PICK m \in net :
          /\ lpToRank[m.ev.dst] = r
          /\ net' = net \ {m}
          /\ acks' = acks \cup {AckOf(m)}
          /\ inflight' = [inflight EXCEPT
                             ![r] = {k \in @ : ~ SameInflight(k, m.ev)}]
          /\ UNCHANGED <<colour, ctx>>
    BY DEF PollEvent
  <1>2. /\ m.from \in Ranks /\ m.ev.src \in LPs
        /\ m.ev.uid < ctx[m.ev.src].nextUid
        /\ m.ev.anti => m.ev.uid \notin StandingUids(ctx[m.ev.src])
        /\ lpToRank[m.ev.src] = m.from /\ m.from # r
    BY <1>1, MessageKey DEF SentOnce
  <1>3. inflight' = inflight
    <2>1. \A k \in inflight[r] : ~ SameInflight(k, m.ev)
      BY <1>2 DEF AcksFit, SameInflight, SameUid
    <2>2. {k \in inflight[r] : ~ SameInflight(k, m.ev)} = inflight[r]
      BY <2>1
    <2> QED
      BY <1>1, <2>2 DEF TypeOK
  <1>4. /\ AckOf(m).to = m.from /\ AckOf(m).src = m.ev.src
        /\ AckOf(m).uid = m.ev.uid /\ AckOf(m).anti = m.ev.anti
    BY DEF AckOf
  <1>5. SameInflight(InflightOf(m.ev), AckOf(m))
    BY <1>4 DEF SameInflight, SameUid, InflightOf
  <1> DEFINE b == AckOf(m)
  <1>6. \A a \in acks' : a \in acks \/ a = b
    BY <1>1
  <1> HIDE DEF b
  <1>7. ASSUME NEW a \in acks'
        PROVE  /\ lpToRank[a.src] = a.to /\ a.uid < ctx[a.src].nextUid
               /\ a.anti => a.uid \notin StandingUids(ctx[a.src])
               /\ \E k \in inflight[a.to] : SameInflight(k, a)
               /\ \A n \in net' : ~ SameInflight(n.ev, a)
    <2>1. CASE a \in acks
      BY <1>1, <2>1 DEF AcksFit
    <2>2. CASE a = b
      <3>1. InflightOf(m.ev) \in inflight[m.from]
        BY DEF AcksFit
      <3>2. \A n \in net' : ~ SameInflight(n.ev, m.ev)
        BY <1>1 DEF SentOnce
      <3>3. \A n \in net' : ~ SameInflight(n.ev, b)
        BY <1>4, <3>2 DEF SameInflight, SameUid, b
      <3> QED
        BY <1>2, <1>4, <1>5, <2>2, <3>1, <3>3 DEF b
    <2> QED
      BY <1>6, <2>1, <2>2
  <1>8. ASSUME NEW q \in Ranks, NEW k \in inflight[q]
        PROVE  /\ lpToRank[k.src] = q
               /\ \/ \E n \in net' : k = InflightOf(n.ev)
                  \/ \E a \in acks' : SameInflight(k, a)
    <2>1. CASE \E n \in net : k = InflightOf(n.ev)
      BY <1>1, <1>5, <2>1 DEF AcksFit
    <2>2. CASE \E a \in acks : SameInflight(k, a)
      BY <1>1, <2>2 DEF AcksFit
    <2> QED
      BY <2>1, <2>2 DEF AcksFit
  <1>9. \A n \in net' : InflightOf(n.ev) \in inflight[n.from]
    BY <1>1 DEF AcksFit
  <1>10. ~ colour.red
    BY DEF AcksFit
  <1> QED
    BY <1>1, <1>3, <1>7, <1>8, <1>9, <1>10
       DEF AcksFit, StandingUids, Entries, SameInflight, SameUid, InflightOf

\* An Ack is received: what it erases is the key it is the Ack for.
LEMMA AcksPollAck ==
    ASSUME TypeOK, OneEventPerUid, SentOnce, AcksFit,
           NEW r \in Ranks, PollAck(r)
    PROVE  AcksFit'
  <1>1. PICK a \in acks :
          /\ a.to = r /\ acks' = acks \ {a}
          /\ inflight' = [inflight EXCEPT ![r] = {k \in @ : ~ SameInflight(k, a)}]
          /\ UNCHANGED <<colour, ctx, net>>
    BY DEF PollAck
  <1>2. \A q \in Ranks : \A k :
           k \in inflight'[q] <=> k \in inflight[q] /\ (q = r => ~ SameInflight(k, a))
    BY <1>1 DEF TypeOK
  <1>3. ASSUME NEW m \in net
        PROVE  InflightOf(m.ev) \in inflight'[m.from]
    <2>1. InflightOf(m.ev) \in inflight[m.from] /\ ~ SameInflight(m.ev, a)
      BY DEF AcksFit
    <2>2. ~ SameInflight(InflightOf(m.ev), a)
      BY <2>1 DEF SameInflight, SameUid, InflightOf
    <2> QED
      BY <1>2, <2>1, <2>2, MessageKey
  <1>4. ASSUME NEW b \in acks'
        PROVE  \E k \in inflight'[b.to] : SameInflight(k, b)
    <2>1. b \in acks /\ b # a /\ b.to \in Ranks
      BY <1>1, AckFields
    <2>2. PICK k \in inflight[b.to] : SameInflight(k, b)
      BY <2>1 DEF AcksFit
    <2>3. ~ (b.src = a.src /\ b.uid = a.uid /\ b.anti = a.anti)
      <3>1. a \in AckMessage /\ b \in AckMessage
        BY <2>1 DEF TypeOK, AckMessage
      <3>2. a.to = lpToRank[a.src] /\ b.to = lpToRank[b.src]
        BY <2>1 DEF AcksFit
      <3> QED
        BY <2>1, <3>1, <3>2 DEF AckMessage
    <2>4. ~ SameInflight(k, a)
      BY <2>2, <2>3 DEF SameInflight, SameUid
    <2> QED
      BY <1>2, <2>1, <2>2, <2>4
  <1>5. ASSUME NEW q \in Ranks, NEW k \in inflight'[q]
        PROVE  /\ lpToRank[k.src] = q
               /\ \/ \E m \in net : k = InflightOf(m.ev)
                  \/ \E b \in acks' : SameInflight(k, b)
    <2>1. k \in inflight[q] /\ (q = r => ~ SameInflight(k, a))
      BY <1>2
    <2>2. lpToRank[k.src] = q
      BY <2>1 DEF AcksFit
    <2>3. ASSUME NEW b \in acks, SameInflight(k, b)
          PROVE  b # a
      BY <1>1, <2>1, <2>2, <2>3 DEF AcksFit, SameInflight, SameUid
    <2>4. \/ \E m \in net : k = InflightOf(m.ev)
          \/ \E b \in acks : SameInflight(k, b)
      BY <2>1 DEF AcksFit
    <2> QED
      BY <1>1, <2>2, <2>3, <2>4
  <1>6. ASSUME NEW b \in acks'
        PROVE  /\ lpToRank[b.src] = b.to /\ b.uid < ctx[b.src].nextUid
               /\ b.anti => b.uid \notin StandingUids(ctx[b.src])
               /\ \A m \in net : ~ SameInflight(m.ev, b)
    BY <1>1 DEF AcksFit
  <1>7. \A b \in acks' :
           /\ lpToRank[b.src] = b.to /\ b.uid < ctx'[b.src].nextUid
           /\ b.anti => b.uid \notin StandingUids(ctx'[b.src])
           /\ \E k \in inflight'[b.to] : SameInflight(k, b)
           /\ \A m \in net' : ~ SameInflight(m.ev, b)
    BY <1>1, <1>4, <1>6
  <1>8. ~ colour'.red
    BY <1>1 DEF AcksFit
  <1>9. \A m \in net' : InflightOf(m.ev) \in inflight'[m.from]
    BY <1>1, <1>3
  <1>10. \A q \in Ranks : \A k \in inflight'[q] :
            /\ lpToRank[k.src] = q
            /\ \/ \E m \in net' : k = InflightOf(m.ev)
               \/ \E b \in acks' : SameInflight(k, b)
    BY <1>1, <1>5
  <1> QED
    BY <1>7, <1>8, <1>9, <1>10
       DEF AcksFit, StandingUids, Entries, SameInflight, SameUid, InflightOf

\* Every step of the kernel keeps the in-flight tables right.
LEMMA AcksStep ==
    ASSUME TypeOK, ProcessedInOrder, OneEventPerUid, Placed, SentOnce, AcksFit,
           GvtMode = "AckInflight", [Next]_vars
    PROVE  AcksFit'
  <1>1. ASSUME NEW r \in Ranks, DispatchNothing(r) \/ FossilCollect(r)
        PROVE  AcksFit'
    <2>1. QuietStep
      BY <1>1, QuietSteps
    <2>2. UNCHANGED <<net, acks, inflight, colour>>
      BY <1>1 DEF DispatchNothing, FossilCollect
    <2> QED
      BY <2>1, <2>2, AcksKept
  <1>2. CASE Collective \/ UNCHANGED vars
    <2>1. QuietStep
      BY <1>2, QuietSteps
    <2>2. UNCHANGED <<net, acks, inflight, colour>>
      BY <1>2 DEF Collective, AckGvt, ColouredFlip, ColouredWait, ColouredGvt,
                  KeepRunning, Finalize, vars
    <2> QED
      BY <2>1, <2>2, AcksKept
  <1>3. ASSUME NEW r \in Ranks, \E queue, out : SendingStep(r, queue, out)
        PROVE  AcksFit'
    BY <1>3, AcksSent
  <1> QED
    BY <1>1, <1>2, <1>3, AcksPollEvent, AcksPollAck,
       StartSends, StragglerSends, AntiSends, EventSends
       DEF Next, RankStep, Terminated

-----------------------------------------------------------------------------
(***************************************************************************)
(* The counters of colored-counters GVT.                                   *)
(***************************************************************************)
Balance(c) == [r \in Ranks |-> colour.sent[r][c] - colour.recv[r][c]]

OnTheirWay(c) == {m \in net : m.colour = c}

\* The counters of each colour add up to the messages on their way; in the red
\* phase the white ones sent are those at the flip, and the stamps of the red
\* ones are bounded by what their sender reports; before it there are only white.
ColoursFit ==
    /\ acks = {} /\ \A r \in Ranks : inflight[r] = {}
    /\ IsFiniteSet(net)
    /\ \A c \in 0..1 : SumFunction(Balance(c)) = Cardinality(OnTheirWay(c))
    /\ colour.red => /\ \A r \in Ranks : colour.atFlip[r] = colour.sent[r][colour.white]
                     /\ \A m \in net : m.colour # colour.white =>
                           Le(colour.minRed[m.from], m.ev.ts)
    /\ ~ colour.red => \A m \in net : m.colour = colour.white

\* As many values as arguments, when no two arguments have the same.
LEMMA SameSize ==
    ASSUME NEW S, IsFiniteSet(S), NEW f, \A x, y \in S : f[x] = f[y] => x = y
    PROVE  /\ IsFiniteSet({f[x] : x \in S})
           /\ Cardinality({f[x] : x \in S}) = Cardinality(S)
  <1> DEFINE T == {f[x] : x \in S}
             g == [x \in S |-> f[x]]
  <1>1. g \in Surjection(S, T)
    BY DEF Surjection
  <1>2. g \in Injection(S, T)
    BY DEF Injection, IsInjective
  <1> HIDE DEF g, T
  <1>3. IsFiniteSet(T) /\ Cardinality(T) = Cardinality(S)
    BY <1>1, <1>2, FS_Surjection
  <1> QED
    BY <1>3 DEF T

\* A difference of counters is a number.
LEMMA BalanceType ==
    ASSUME colour \in ColourState, NEW c \in 0..1
    PROVE  Balance(c) \in [Ranks -> Int]
  <1>1. \A r \in Ranks : colour.sent[r][c] \in Nat /\ colour.recv[r][c] \in Nat
    BY DEF ColourState
  <1> QED
    BY <1>1 DEF Balance

\* What the sends of a rank add to the counters: one for each message that
\* goes to another rank.
LEMMA CountedFields ==
    ASSUME colour \in ColourState, NEW r \in Ranks,
           NEW remote \in SUBSET Event, IsFiniteSet(remote),
           colour' = Counted(r, remote)
    PROVE  /\ colour'.red = colour.red /\ colour'.white = colour.white
           /\ colour'.recv = colour.recv /\ colour'.atFlip = colour.atFlip
           /\ \A q \in Ranks : \A c \in 0..1 :
                 colour'.sent[q][c] = IF q = r /\ c = SendColour
                                      THEN colour.sent[q][c] + Cardinality(remote)
                                      ELSE colour.sent[q][c]
           /\ \A q \in Ranks \ {r} : colour'.minRed[q] = colour.minRed[q]
           /\ colour.red => /\ Le(colour'.minRed[r], colour.minRed[r])
                            /\ \A e \in remote : Le(colour'.minRed[r], e.ts)
  <1> DEFINE S == {colour.minRed[r]} \cup {e.ts : e \in remote}
             least == IF colour.red THEN MinStamp(S) ELSE colour.minRed[r]
             n == Cardinality(remote)
  <1>1. S \in SUBSET Stamp
    <2>1. \A e \in remote : e.ts \in Stamp
      BY EventFields
    <2>2. colour.minRed[r] \in Stamp
      BY DEF ColourState
    <2> QED
      BY <2>1, <2>2
  <1>2. colour.red => /\ \A t \in S : Le(least, t)
                      /\ colour.minRed[r] \in S
                      /\ \A e \in remote : e.ts \in S
    BY <1>1, MinStampBounds
  <1>3. colour' = [colour EXCEPT !.sent[r][SendColour] = @ + n, !.minRed[r] = least]
    BY DEF Counted, ColourState
  <1>4. SendColour \in 0..1
    BY DEF SendColour, ColourState
  <1> HIDE DEF S, least, n
  <1>5. /\ colour'.red = colour.red /\ colour'.white = colour.white
        /\ colour'.recv = colour.recv /\ colour'.atFlip = colour.atFlip
        /\ colour'.sent = [colour.sent EXCEPT ![r][SendColour] = @ + n]
        /\ colour'.minRed = [colour.minRed EXCEPT ![r] = least]
    BY <1>3 DEF ColourState
  <1>6. \A q \in Ranks : \A c \in 0..1 :
           colour'.sent[q][c] = IF q = r /\ c = SendColour
                                THEN colour.sent[q][c] + n ELSE colour.sent[q][c]
    BY <1>4, <1>5 DEF ColourState
  <1>7. /\ \A q \in Ranks \ {r} : colour'.minRed[q] = colour.minRed[q]
        /\ colour'.minRed[r] = least
    BY <1>5 DEF ColourState
  <1> QED
    BY <1>2, <1>5, <1>6, <1>7 DEF n

\* The counters after a step that sends.
LEMMA ColoursSent ==
    ASSUME TypeOK, OneEventPerUid, Placed, SentOnce, ColoursFit,
           GvtMode = "ColoredCounters",
           NEW r \in Ranks, NEW queue, NEW out, SendingStep(r, queue, out)
    PROVE  ColoursFit'
  <1> DEFINE msg == [e \in out |-> [from |-> r, ev |-> e, colour |-> SendColour]]
             remote == {e \in out : lpToRank[e.dst] # r}
             new == {msg[e] : e \in remote}
             n == Cardinality(remote)
  <1>1. colour \in ColourState
    BY DEF TypeOK, ColourState
  <1>2. remote \in SUBSET out /\ remote \in SUBSET Event /\ IsFiniteSet(remote)
    <2>1. remote \in SUBSET out /\ out \in SUBSET Event /\ IsFiniteSet(out)
      BY DEF SendingStep
    <2> QED
      BY <2>1, FS_Subset
  <1>3. net' = net \cup new
    BY SentCopies
  <1>4. colour' = Counted(r, remote) /\ inflight' = inflight /\ acks' = acks
    BY DEF SendingStep, Route
  <1>5. /\ colour'.red = colour.red /\ colour'.white = colour.white
        /\ colour'.recv = colour.recv /\ colour'.atFlip = colour.atFlip
        /\ \A q \in Ranks : \A c \in 0..1 :
              colour'.sent[q][c] = IF q = r /\ c = SendColour
                                   THEN colour.sent[q][c] + n ELSE colour.sent[q][c]
        /\ \A q \in Ranks \ {r} : colour'.minRed[q] = colour.minRed[q]
        /\ colour.red => /\ Le(colour'.minRed[r], colour.minRed[r])
                         /\ \A e \in remote : Le(colour'.minRed[r], e.ts)
    <2> HIDE DEF remote
    <2> QED
      BY <1>1, <1>2, <1>4, CountedFields DEF n
  <1>6. \A e \in remote : /\ msg[e].ev = e /\ msg[e].from = r
                          /\ msg[e].colour = SendColour
    BY <1>2
  <1>7. \A m \in new : \E e \in remote : m = msg[e]
    OBVIOUS
  <1> HIDE DEF msg, remote
  <1>8. IsFiniteSet(new) /\ Cardinality(new) = n /\ n \in Nat
    <2>1. \A e, f \in remote : msg[e] = msg[f] => e = f
      BY <1>6
    <2> QED
      BY <1>2, <2>1, SameSize, FS_CardinalityType
  <1>9. new \cap net = {}
    <2> SUFFICES ASSUME NEW e \in remote, msg[e] \in net
                 PROVE  FALSE
      BY <1>7
    <2>1. ~ SameInflight(msg[e].ev, e)
      BY <1>2, SentMessages
    <2> QED
      BY <1>6, <2>1 DEF SameInflight, SameUid
  <1>10. \A m \in new : m.from = r /\ m.colour = SendColour /\ m.ev \in remote
    BY <1>6, <1>7
  <1> HIDE DEF new, n
  <1>11. IsFiniteSet(net')
    BY <1>3, <1>8, FS_Union DEF ColoursFit
  <1>12. SendColour \in 0..1
    BY <1>1 DEF SendColour, ColourState
  <1>13. ASSUME NEW c \in 0..1
         PROVE  SumFunction(Balance(c)') = Cardinality(OnTheirWay(c)')
    <2>1. Balance(c) \in [Ranks -> Int] /\ Balance(c)' \in [Ranks -> Int]
      <3>1. \A q \in Ranks : colour'.sent[q][c] \in Nat /\ colour'.recv[q][c] \in Nat
        BY <1>1, <1>5, <1>8 DEF ColourState
      <3> QED
        BY <1>1, <3>1, BalanceType DEF Balance
    <2>2. \A q \in Ranks : colour.sent[q][c] \in Nat /\ colour.recv[q][c] \in Nat
      BY <1>1 DEF ColourState
    <2>3. SumFunction(Balance(c)) = Cardinality(OnTheirWay(c))
      BY DEF ColoursFit
    <2>4. CASE c = SendColour
      <3>1. /\ Balance(c)'[r] = Balance(c)[r] + n
            /\ \A q \in Ranks : q # r => Balance(c)'[q] = Balance(c)[q]
        BY <1>5, <1>8, <2>2, <2>4 DEF Balance
      <3>2. SumFunction(Balance(c)') = SumFunction(Balance(c)) + n
        BY <1>8, <2>1, <3>1, SumChange, KernelAssumption
      <3>3. OnTheirWay(c)' = OnTheirWay(c) \cup new
        BY <1>3, <1>10, <2>4 DEF OnTheirWay
      <3>4. IsFiniteSet(OnTheirWay(c)) /\ OnTheirWay(c) \cap new = {}
        <4>1. OnTheirWay(c) \in SUBSET net
          BY DEF OnTheirWay
        <4> QED
          BY <1>9, <4>1, FS_Subset DEF ColoursFit
      <3>5. Cardinality(OnTheirWay(c)) \in Nat
        BY <3>4, FS_CardinalityType
      <3>6. Cardinality(OnTheirWay(c)') = Cardinality(OnTheirWay(c)) + n
        <4>1. Cardinality(OnTheirWay(c) \cup new)
              = Cardinality(OnTheirWay(c)) + Cardinality(new)
                - Cardinality(OnTheirWay(c) \cap new)
          BY <1>8, <3>4, FS_Union
        <4>2. Cardinality(OnTheirWay(c) \cap new) = 0
          BY <3>4, FS_EmptySet
        <4> QED
          BY <1>8, <3>3, <3>5, <4>1, <4>2
      <3> QED
        BY <2>3, <3>2, <3>6
    <2>5. CASE c # SendColour
      <3>1. Balance(c)' = Balance(c)
        BY <1>5, <2>5 DEF Balance
      <3>2. OnTheirWay(c)' = OnTheirWay(c)
        BY <1>3, <1>10, <2>5 DEF OnTheirWay
      <3> QED
        BY <2>3, <3>1, <3>2
    <2> QED
      BY <2>4, <2>5
  <1>14. colour'.red =>
            /\ \A q \in Ranks : colour'.atFlip[q] = colour'.sent[q][colour'.white]
            /\ \A m \in net' : m.colour # colour'.white =>
                  Le(colour'.minRed[m.from], m.ev.ts)
    <2> SUFFICES ASSUME colour.red
                 PROVE  /\ \A q \in Ranks :
                              colour.atFlip[q] = colour'.sent[q][colour.white]
                        /\ \A m \in net' : m.colour # colour.white =>
                              Le(colour'.minRed[m.from], m.ev.ts)
      BY <1>5
    <2>1. colour.white \in 0..1 /\ SendColour # colour.white
      BY <1>1 DEF SendColour, ColourState
    <2>2. \A q \in Ranks : colour.atFlip[q] = colour'.sent[q][colour.white]
      BY <1>5, <2>1 DEF ColoursFit
    <2>3. ASSUME NEW m \in net, m.colour # colour.white
          PROVE  Le(colour'.minRed[m.from], m.ev.ts)
      <3>1. /\ m.from \in Ranks /\ m.ev.ts \in Stamp
            /\ Le(colour.minRed[m.from], m.ev.ts)
        BY <2>3, MessageKey, EventFields DEF ColoursFit
      <3>2. colour.minRed[r] \in Stamp /\ colour'.minRed[r] \in Stamp
        <4>1. Counted(r, remote) \in ColourState
          BY <1>1, <1>2, CountedType
        <4> QED
          BY <1>1, <1>4, <4>1 DEF ColourState
      <3>3. CASE m.from = r
        BY <1>5, <3>1, <3>2, <3>3, LeOrder
      <3>4. CASE m.from # r
        BY <1>5, <3>1, <3>4
      <3> QED
        BY <3>3, <3>4
    <2>4. \A m \in new : Le(colour'.minRed[m.from], m.ev.ts)
      BY <1>5, <1>10
    <2> QED
      BY <1>3, <2>2, <2>3, <2>4
  <1>15. ~ colour'.red => \A m \in net' : m.colour = colour'.white
    <2>1. ~ colour.red => SendColour = colour.white
      BY DEF SendColour
    <2> QED
      BY <1>3, <1>5, <1>10, <2>1 DEF ColoursFit
  <1>16. acks' = {} /\ \A q \in Ranks : inflight'[q] = {}
    BY <1>4 DEF ColoursFit
  <1> QED
    BY <1>11, <1>13, <1>14, <1>15, <1>16 DEF ColoursFit

\* A message is received: one less of its colour is on its way.
LEMMA ColoursPollEvent ==
    ASSUME TypeOK, ColoursFit, GvtMode = "ColoredCounters",
           NEW r \in Ranks, PollEvent(r)
    PROVE  ColoursFit'
  <1>1. colour \in ColourState
    BY DEF TypeOK, ColourState
  <1>2. PICK m \in net :
          /\ net' = net \ {m}
          /\ colour' = [colour EXCEPT !.recv[r][m.colour] = @ + 1]
          /\ UNCHANGED <<acks, inflight>>
    BY DEF PollEvent
  <1>3. m.colour \in 0..1
    BY DEF TypeOK
  <1>4. /\ colour'.red = colour.red /\ colour'.white = colour.white
        /\ colour'.sent = colour.sent /\ colour'.atFlip = colour.atFlip
        /\ colour'.minRed = colour.minRed
        /\ colour'.recv = [colour.recv EXCEPT ![r][m.colour] = @ + 1]
    BY <1>1, <1>2 DEF ColourState
  <1>5. \A q \in Ranks : \A c \in 0..1 :
           colour'.recv[q][c] = IF q = r /\ c = m.colour
                                THEN colour.recv[q][c] + 1 ELSE colour.recv[q][c]
    BY <1>1, <1>3, <1>4 DEF ColourState
  <1>6. ASSUME NEW c \in 0..1
        PROVE  SumFunction(Balance(c)') = Cardinality(OnTheirWay(c)')
    <2>1. \A q \in Ranks : colour.sent[q][c] \in Nat /\ colour.recv[q][c] \in Nat
      BY <1>1 DEF ColourState
    <2>2. SumFunction(Balance(c)) = Cardinality(OnTheirWay(c))
      BY DEF ColoursFit
    <2>3. CASE c = m.colour
      <3>1. /\ Balance(c)'[r] = Balance(c)[r] + (-1)
            /\ \A q \in Ranks : q # r => Balance(c)'[q] = Balance(c)[q]
        BY <1>4, <1>5, <2>1, <2>3 DEF Balance
      <3>2. Balance(c) \in [Ranks -> Int] /\ Balance(c)' \in [Ranks -> Int]
        <4>1. \A q \in Ranks : colour'.sent[q][c] \in Nat /\ colour'.recv[q][c] \in Nat
          BY <1>4, <1>5, <2>1
        <4> QED
          BY <2>1, <4>1 DEF Balance
      <3>3. SumFunction(Balance(c)') = SumFunction(Balance(c)) + (-1)
        BY <3>1, <3>2, SumChange, KernelAssumption
      <3>4. OnTheirWay(c)' = OnTheirWay(c) \ {m} /\ m \in OnTheirWay(c)
        BY <1>2, <2>3 DEF OnTheirWay
      <3>5. IsFiniteSet(OnTheirWay(c))
        <4>1. OnTheirWay(c) \in SUBSET net
          BY DEF OnTheirWay
        <4> QED
          BY <4>1, FS_Subset DEF ColoursFit
      <3>6. /\ Cardinality(OnTheirWay(c)) \in Nat
            /\ Cardinality(OnTheirWay(c) \ {m}) = Cardinality(OnTheirWay(c)) - 1
        BY <3>4, <3>5, FS_CardinalityType, FS_RemoveElement
      <3> QED
        BY <2>2, <3>3, <3>4, <3>6
    <2>4. CASE c # m.colour
      <3>1. Balance(c)' = Balance(c)
        BY <1>4, <1>5, <2>4 DEF Balance
      <3>2. OnTheirWay(c)' = OnTheirWay(c)
        BY <1>2, <2>4 DEF OnTheirWay
      <3> QED
        BY <2>2, <3>1, <3>2
    <2> QED
      BY <2>3, <2>4
  <1>7. IsFiniteSet(net')
    BY <1>2, FS_Subset DEF ColoursFit
  <1>8. \A n \in net' : n \in net
    BY <1>2
  <1>9. acks' = {} /\ \A q \in Ranks : inflight'[q] = {}
    BY <1>2 DEF ColoursFit
  <1> QED
    BY <1>4, <1>6, <1>7, <1>8, <1>9 DEF ColoursFit

\* In the red phase, when the reduction gives zero, no white message is left.
LEMMA NoWhiteLeft ==
    ASSUME TypeOK, ColoursFit, colour.red, WhiteDelta = 0
    PROVE  \A m \in net : m.colour # colour.white
  <1>1. colour.white \in 0..1
    BY DEF TypeOK
  <1> DEFINE w == colour.white
  <1>2. Balance(w) = [r \in Ranks |-> colour.atFlip[r] - colour.recv[r][w]]
    BY DEF Balance, ColoursFit
  <1>3. SumFunction(Balance(w)) = 0
    BY <1>2 DEF WhiteDelta
  <1>4. Cardinality(OnTheirWay(w)) = 0
    BY <1>1, <1>3 DEF ColoursFit
  <1>5. IsFiniteSet(OnTheirWay(w))
    <2>1. OnTheirWay(w) \in SUBSET net
      BY DEF OnTheirWay
    <2> QED
      BY <2>1, FS_Subset DEF ColoursFit
  <1>6. OnTheirWay(w) = {}
    BY <1>4, <1>5, FS_EmptySet
  <1> QED
    BY <1>6 DEF OnTheirWay

\* Both phases of a round keep the counters right.
LEMMA ColoursRound ==
    ASSUME TypeOK, ColoursFit, ColouredFlip \/ ColouredGvt
    PROVE  ColoursFit'
  <1>1. colour \in ColourState
    BY DEF TypeOK, ColourState
  <1>2. CASE ColouredFlip
    <2>1. /\ ~ colour.red /\ UNCHANGED <<net, acks, inflight>>
          /\ colour' = [colour EXCEPT
                          !.red = TRUE,
                          !.atFlip = [r \in Ranks |-> colour.sent[r][colour.white]],
                          !.minRed = [r \in Ranks |-> MaxStamp]]
      BY <1>2 DEF ColouredFlip
    <2>2. /\ colour'.red /\ colour'.white = colour.white
          /\ colour'.sent = colour.sent /\ colour'.recv = colour.recv
          /\ colour'.atFlip = [r \in Ranks |-> colour.sent[r][colour.white]]
      BY <1>1, <2>1 DEF ColourState
    <2>3. \A c \in 0..1 : /\ Balance(c)' = Balance(c)
                          /\ OnTheirWay(c)' = OnTheirWay(c)
      BY <2>1, <2>2 DEF Balance, OnTheirWay
    <2>4. \A m \in net : m.colour = colour.white
      BY <2>1 DEF ColoursFit
    <2> QED
      BY <2>1, <2>2, <2>3, <2>4 DEF ColoursFit
  <1>3. CASE ColouredGvt
    <2>1. /\ colour.red /\ WhiteDelta = 0 /\ UNCHANGED <<net, acks, inflight>>
          /\ \/ colour' = colour
             \/ colour' = [colour EXCEPT
                             !.red = FALSE,
                             !.white = 1 - @,
                             !.atFlip = [r \in Ranks |-> 0],
                             !.minRed = [r \in Ranks |-> MaxStamp]]
      BY <1>3 DEF ColouredGvt
    <2>2. CASE colour' = colour
      BY <2>1, <2>2 DEF ColoursFit, Balance, OnTheirWay
    <2>3. CASE colour' = [colour EXCEPT
                            !.red = FALSE,
                            !.white = 1 - @,
                            !.atFlip = [r \in Ranks |-> 0],
                            !.minRed = [r \in Ranks |-> MaxStamp]]
      <3>1. /\ ~ colour'.red /\ colour'.white = 1 - colour.white
            /\ colour'.sent = colour.sent /\ colour'.recv = colour.recv
        BY <1>1, <2>3 DEF ColourState
      <3>2. \A c \in 0..1 : /\ Balance(c)' = Balance(c)
                            /\ OnTheirWay(c)' = OnTheirWay(c)
        BY <2>1, <3>1 DEF Balance, OnTheirWay
      <3>3. \A m \in net : m.colour = 1 - colour.white
        <4>1. \A m \in net : m.colour # colour.white
          BY <2>1, NoWhiteLeft
        <4>2. \A m \in net : m.colour \in 0..1
          BY DEF TypeOK
        <4> QED
          BY <1>1, <4>1, <4>2 DEF ColourState
      <3> QED
        BY <2>1, <3>1, <3>2, <3>3 DEF ColoursFit
    <2> QED
      BY <2>1, <2>2, <2>3
  <1> QED
    BY <1>2, <1>3

\* Every step of the kernel keeps the counters of colored-counters GVT right.
LEMMA ColoursStep ==
    ASSUME TypeOK, ProcessedInOrder, OneEventPerUid, Placed, SentOnce, ColoursFit,
           GvtMode = "ColoredCounters", [Next]_vars
    PROVE  ColoursFit'
  <1>1. CASE UNCHANGED <<net, acks, inflight, colour>>
    BY <1>1 DEF ColoursFit, Balance, OnTheirWay
  <1>2. ASSUME NEW r \in Ranks, DispatchNothing(r) \/ FossilCollect(r)
        PROVE  ColoursFit'
    BY <1>1, <1>2 DEF DispatchNothing, FossilCollect
  <1>3. CASE \/ AckGvt \/ ColouredWait \/ KeepRunning \/ Finalize
             \/ UNCHANGED vars
    BY <1>1, <1>3 DEF AckGvt, ColouredWait, KeepRunning, Finalize, vars
  <1>4. ASSUME NEW r \in Ranks, \E queue, out : SendingStep(r, queue, out)
        PROVE  ColoursFit'
    BY <1>4, ColoursSent
  <1>5. \A r \in Ranks : ~ PollAck(r)
    BY DEF PollAck, ColoursFit
  <1> QED
    BY <1>2, <1>3, <1>4, <1>5, ColoursPollEvent, ColoursRound,
       StartSends, StragglerSends, AntiSends, EventSends
       DEF Next, RankStep, Collective, Terminated

-----------------------------------------------------------------------------
(***************************************************************************)
(* The theorems.                                                           *)
(***************************************************************************)
\* What each GVT algorithm knows of the messages on their way.
Accounts ==
    /\ GvtMode = "AckInflight" => AcksFit
    /\ GvtMode = "ColoredCounters" => ColoursFit

\* The inductive invariant of the messages.
MessageInv == OneEventPerUid /\ Placed /\ SentOnce /\ Accounts

\* Before run(), only the scheduled events are there, with uid 0.
LEMMA MessageInit == Init => MessageInv
  <1> SUFFICES ASSUME Init
               PROVE  MessageInv
    OBVIOUS
  <1>1. /\ \A l \in LPs : /\ ctx[l].processed = <<>> /\ ctx[l].sentLog = <<>>
                         /\ ctx[l].nextUid = 1
        /\ \A r \in Ranks : \A e \in pending[r] :
              /\ e \in Scheduled /\ lpToRank[e.dst] = r
        /\ net = {} /\ acks = {} /\ \A r \in Ranks : inflight[r] = {}
        /\ ~ colour.red /\ colour.white = 0
    BY DEF Init, NewContext
  <1>2. \A l \in LPs : /\ Entries(ctx[l]) = {} /\ Len(ctx[l].processed) = 0
                      /\ Len(ctx[l].sentLog) = 0
    BY <1>1 DEF Entries
  <1>3. \A e \in Copies : e \in Scheduled
    <2> TAKE e \in Copies
    <2>1. \/ \E r \in Ranks : e \in pending[r]
          \/ \E m \in net : e = m.ev
          \/ \E l \in LPs : \E i \in 1..Len(ctx[l].processed) :
                e = ctx[l].processed[i].ev
      BY InCopies DEF Copies
    <2> QED
      BY <1>1, <1>2, <2>1
  <1>4. \A e \in Scheduled : e.uid = 0 /\ ~ e.anti /\ e.src \in LPs
    BY ModelAssumption DEF PlainEvent
  <1>5. OneEventPerUid
    <2>1. \A l \in LPs : LogInOrder(ctx[l])
      BY <1>1, <1>2 DEF LogInOrder
    <2> QED
      BY <1>1, <1>2, <1>3, <1>4, <2>1 DEF OneEventPerUid
  <1>6. Placed /\ SentOnce
    BY <1>1, <1>2 DEF Placed, SentOnce
  <1>7. AcksFit
    BY <1>1 DEF AcksFit
  <1>8. ColoursFit
    <2>1. IsFiniteSet(net) /\ Cardinality({}) = 0
      BY <1>1, FS_EmptySet
    <2>2. ASSUME NEW c \in 0..1
          PROVE  SumFunction(Balance(c)) = Cardinality(OnTheirWay(c))
      <3>1. Balance(c) \in [Ranks -> Int] /\ \A r \in Ranks : Balance(c)[r] = 0
        BY DEF Init, Balance
      <3>2. SumFunction(Balance(c)) = 0
        BY <3>1, SumOfZeros, KernelAssumption
      <3>3. OnTheirWay(c) = {}
        BY <1>1 DEF OnTheirWay
      <3> QED
        BY <2>1, <3>2, <3>3
    <2> QED
      BY <1>1, <2>1, <2>2 DEF ColoursFit
  <1> QED
    BY <1>5, <1>6, <1>7, <1>8 DEF MessageInv, Accounts

\* Every step of the kernel keeps the invariant.
LEMMA MessageInvStep ==
    ASSUME TypeOK, ProcessedInOrder, MessageInv, [Next]_vars
    PROVE  MessageInv'
  <1>1. OneEventPerUid' /\ Placed' /\ SentOnce'
    BY UidStep, SentOnceStep DEF MessageInv
  <1>2. GvtMode = "AckInflight" => AcksFit'
    BY AcksStep DEF MessageInv, Accounts
  <1>3. GvtMode = "ColoredCounters" => ColoursFit'
    BY ColoursStep DEF MessageInv, Accounts
  <1> QED
    BY <1>1, <1>2, <1>3 DEF MessageInv, Accounts

\* A message is on its way at most once, its uid names one event for good, even
\* over rollbacks that send it again, and events are where their LP is.
THEOREM MessagesUnambiguous == Spec => []MessageInv
  <1>1. Init => MessageInv
    BY MessageInit
  <1>2. TypeOK /\ ProcessedInOrder /\ MessageInv /\ [Next]_vars => MessageInv'
    BY MessageInvStep
  <1> QED
    BY <1>1, <1>2, TypeCorrect, RecordsInOrder, PTL DEF Spec

\* AckInflight mode: the in-flight table of a rank, from which its share of the
\* GVT is computed, holds exactly what has no Ack yet.
THEOREM InFlightTableExact == Spec => []InflightExact
  <1>1. TypeOK /\ MessageInv => InflightExact
    <2> SUFFICES ASSUME TypeOK, MessageInv, GvtMode = "AckInflight", NEW r \in Ranks
                 PROVE  {[src |-> k.src, uid |-> k.uid, anti |-> k.anti] :
                            k \in inflight[r]}
                        = {[src |-> m.ev.src, uid |-> m.ev.uid, anti |-> m.ev.anti] :
                              m \in {n \in net : n.from = r}}
                          \cup {[src |-> a.src, uid |-> a.uid, anti |-> a.anti] :
                                   a \in {b \in acks : b.to = r}}
      BY DEF InflightExact
    <2>1. AcksFit /\ SentOnce /\ OneEventPerUid
      BY DEF MessageInv, Accounts
    <2>2. ASSUME NEW k \in inflight[r]
          PROVE  \/ \E m \in net : /\ m.from = r /\ m.ev.src = k.src
                                   /\ m.ev.uid = k.uid /\ m.ev.anti = k.anti
                 \/ \E a \in acks : /\ a.to = r /\ a.src = k.src
                                    /\ a.uid = k.uid /\ a.anti = k.anti
      BY <2>1 DEF AcksFit, SentOnce, InflightOf, SameInflight, SameUid
    <2>3. ASSUME NEW m \in net, m.from = r
          PROVE  \E k \in inflight[r] : /\ m.ev.src = k.src /\ m.ev.uid = k.uid
                                        /\ m.ev.anti = k.anti
      <3>1. InflightOf(m.ev) \in inflight[r]
        BY <2>1, <2>3 DEF AcksFit
      <3> QED
        BY <3>1 DEF InflightOf
    <2>4. ASSUME NEW a \in acks, a.to = r
          PROVE  \E k \in inflight[r] : /\ a.src = k.src /\ a.uid = k.uid
                                        /\ a.anti = k.anti
      BY <2>1, <2>4 DEF AcksFit, SameInflight, SameUid
    <2> DEFINE table == {[src |-> k.src, uid |-> k.uid, anti |-> k.anti] :
                            k \in inflight[r]}
               sent == {[src |-> m.ev.src, uid |-> m.ev.uid, anti |-> m.ev.anti] :
                            m \in {n \in net : n.from = r}}
               acked == {[src |-> a.src, uid |-> a.uid, anti |-> a.anti] :
                            a \in {b \in acks : b.to = r}}
    <2>5. table \subseteq sent \cup acked
      BY <2>2
    <2>6. sent \subseteq table
      BY <2>3
    <2>7. acked \subseteq table
      BY <2>4
    <2> HIDE DEF table, sent, acked
    <2>8. table = sent \cup acked
      BY <2>5, <2>6, <2>7
    <2> QED
      BY <2>8 DEF table, sent, acked
  <1> QED
    BY <1>1, TypeCorrect, MessagesUnambiguous, PTL

\* ColoredCounters mode: the counters of a colour add up to the messages of that
\* colour on their way, and the red ones are bounded by what is reported.
THEOREM CountersExact == Spec => []ColoursAccounted
  <1>1. TypeOK /\ MessageInv => ColoursAccounted
    <2> SUFFICES ASSUME TypeOK, MessageInv
                 PROVE  ColoursAccounted
      OBVIOUS
    <2>1. CASE GvtMode = "AckInflight"
      <3>1. ~ colour.red /\ GvtMode # "ColoredCounters"
        BY <2>1 DEF MessageInv, Accounts, AcksFit
      <3> QED
        BY <3>1 DEF ColoursAccounted
    <2>2. CASE GvtMode = "ColoredCounters"
      <3>1. ColoursFit
        BY <2>2 DEF MessageInv, Accounts
      <3> QED
        BY <3>1 DEF ColoursFit, ColoursAccounted, Balance, OnTheirWay
    <2> QED
      BY <2>1, <2>2, KernelAssumption
  <1> QED
    BY <1>1, TypeCorrect, MessagesUnambiguous, PTL

-----------------------------------------------------------------------------
(***************************************************************************)
(* Global virtual time: the GVT that either algorithm adopts is a lower    *)
(* bound of all that can still be processed or undone, both implement the  *)
(* contract of GVT, and the kernel stops only when nothing is left to do.  *)
(***************************************************************************)
\* The contract is about the stamps of the kernel.
LEMMA SameStamps ==
    /\ Gvt!Stamp = Stamp /\ Gvt!ZeroStamp = ZeroStamp
    /\ \A a, b : Gvt!Le(a, b) <=> Le(a, b)
  BY DEF Gvt!Stamp, Gvt!ZeroStamp, Gvt!Le, Gvt!Lt, Stamp, ZeroStamp, Le, Lt

\* Where outstanding work is, before a step and after it.
LEMMA InOutstanding ==
    ASSUME NEW s
    PROVE  /\ s \in Outstanding <=> \/ \E r \in Ranks : \E e \in pending[r] : s = e.ts
                                    \/ \E m \in net : s = m.ev.ts
           /\ s \in Outstanding' <=> \/ \E r \in Ranks : \E e \in pending'[r] : s = e.ts
                                     \/ \E m \in net' : s = m.ev.ts
  BY DEF Outstanding

\* Outstanding work has stamps.
LEMMA OutstandingType ==
    ASSUME TypeOK
    PROVE  Outstanding \subseteq Stamp
  <1>1. \A r \in Ranks : \A e \in pending[r] : e.ts \in Stamp
    BY EventFields DEF TypeOK
  <1>2. \A m \in net : m.ev.ts \in Stamp
    BY EventFields DEF TypeOK
  <1> QED
    BY <1>1, <1>2, InOutstanding

-----------------------------------------------------------------------------
(***************************************************************************)
(* What the GVT rests on, step by step.                                    *)
(***************************************************************************)
\* No rank declares anything irrevocable before all have seeded their work.
SeedsAtZero == (\E r \in Ranks : pc[r] = "start") => lastGvt = ZeroStamp

\* Ranks meet in the collectives, which no rank reaches before it has started.
LEMMA SeedsStep ==
    ASSUME TypeOK, SeedsAtZero, [Next]_vars
    PROVE  SeedsAtZero'
  <1>1. CASE AckGvt \/ ColouredGvt
    BY <1>1 DEF AckGvt, ColouredGvt, AllGoto, SeedsAtZero
  <1>2. CASE ColouredFlip \/ ColouredWait \/ KeepRunning \/ Finalize
    BY <1>2 DEF ColouredFlip, ColouredWait, KeepRunning, Finalize, AllGoto,
                SeedsAtZero
  <1>3. CASE UNCHANGED vars
    BY <1>3 DEF vars, SeedsAtZero
  <1>4. ASSUME NEW r \in Ranks, RankStep(r)
        PROVE  /\ lastGvt' = lastGvt
               /\ \A q \in Ranks : pc'[q] = "start" => pc[q] = "start"
    <2>1. CASE Start(r)
      BY <2>1 DEF Start, Goto, TypeOK
    <2>2. CASE PollEvent(r) \/ PollAck(r)
      BY <2>2 DEF PollEvent, PollAck
    <2>3. CASE DispatchNothing(r) \/ FossilCollect(r)
      BY <2>3 DEF DispatchNothing, FossilCollect, Goto, TypeOK
    <2>4. CASE DispatchStraggler(r)
      BY <2>4 DEF DispatchStraggler, Goto, TypeOK
    <2>5. CASE DispatchAnti(r)
      BY <2>5 DEF DispatchAnti, Goto, TypeOK
    <2>6. CASE DispatchEvent(r)
      BY <2>6 DEF DispatchEvent, Goto, TypeOK
    <2> QED
      BY <1>4, <2>1, <2>2, <2>3, <2>4, <2>5, <2>6 DEF RankStep
  <1>5. CASE \E r \in Ranks : RankStep(r)
    BY <1>4, <1>5 DEF SeedsAtZero
  <1> QED
    BY <1>1, <1>2, <1>3, <1>5 DEF Next, Collective, Terminated

\* Logs stay without messages into the past when no handler sends any.
LEMMA ForwardStep ==
    ASSUME CausalApp, TypeOK, ProcessedInOrder, MessageInv, ForwardLogs, [Next]_vars
    PROVE  ForwardLogs'
  <1>1. QuietStep \/ \E r \in Ranks : \E queue, out : SendingStep(r, queue, out)
    BY QuietOrSending DEF MessageInv
  <1>2. \A l \in LPs : \E out : LogStep(l, ctx[l], ctx'[l], out)
    BY <1>1 DEF QuietStep, SendingStep
  <1>3. ASSUME NEW l \in LPs, NEW s \in Entries(ctx'[l])
        PROVE  Le(s.sendTime, s.msgTime)
    BY <1>2 DEF LogStep, ForwardLogs
  <1> QED
    BY <1>3 DEF ForwardLogs, Entries

\* Steps that do not send and leave the GVT alone.
LEMMA QuietWork ==
    ASSUME TypeOK, GvtIsLowerBound, QuietStep, lastGvt' = lastGvt
    PROVE  GvtIsLowerBound' /\ Gvt!Work
  <1>1. \A q \in Ranks : \A e \in pending'[q] :
           Le(lastGvt, e.ts) /\ e.ts \in Outstanding
    BY InOutstanding DEF QuietStep, GvtIsLowerBound
  <1>2. \A m \in net' : Le(lastGvt, m.ev.ts) /\ m.ev.ts \in Outstanding
    BY InOutstanding DEF QuietStep, GvtIsLowerBound
  <1>3. \A l \in LPs : \A i \in 1..Len(ctx'[l].processed) :
           Le(lastGvt, ctx'[l].processed[i].ev.ts)
    <2> TAKE l \in LPs
    <2> TAKE i \in 1..Len(ctx'[l].processed)
    <2>1. PICK j \in 1..Len(ctx[l].processed) :
             ctx'[l].processed[i] = ctx[l].processed[j]
      BY DEF QuietStep, NoNewRecords
    <2> QED
      BY <2>1 DEF GvtIsLowerBound
  <1>4. ASSUME NEW s \in Outstanding'
        PROVE  \E w \in Outstanding : Le(w, s)
    <2>1. s \in Outstanding /\ s \in Stamp
      BY <1>1, <1>2, InOutstanding, OutstandingType
    <2> QED
      BY <2>1, LeOrder
  <1> QED
    BY <1>1, <1>2, <1>3, <1>4, SameStamps DEF GvtIsLowerBound, Gvt!Work

\* Steps that send, but nothing earlier than what they take.
LEMMA SentWork ==
    ASSUME TypeOK, ProcessedInOrder, MessageInv, GvtIsLowerBound,
           NEW r \in Ranks, NEW queue, NEW out,
           SendingStep(r, queue, out), NotEarlier(r, queue \cup out)
    PROVE  GvtIsLowerBound' /\ Gvt!Work
  <1>1. /\ \A q \in Ranks : \A e \in pending'[q] :
              IF q = r THEN e \in queue \cup out ELSE e \in pending[q]
        /\ net' = net \cup {[from |-> r, ev |-> e, colour |-> SendColour] :
                               e \in {f \in out : lpToRank[f.dst] # r}}
    BY SentCopies DEF MessageInv
  <1>2. /\ lastGvt' = lastGvt /\ lastGvt \in Stamp
        /\ \A l \in LPs : RecordsFrom(r, l)
        /\ \A e \in queue : e \in Event
        /\ \A e \in out : e \in Event
    BY CopiesType DEF SendingStep, TypeOK
  <1>3. \A q \in Ranks : \A e \in pending[q] :
           /\ e.ts \in Stamp /\ Le(lastGvt, e.ts) /\ e.ts \in Outstanding
    BY EventFields, InOutstanding DEF TypeOK, GvtIsLowerBound
  <1>4. \A m \in net : m.ev.ts \in Stamp /\ Le(lastGvt, m.ev.ts)
                       /\ m.ev.ts \in Outstanding
    BY EventFields, InOutstanding DEF TypeOK, GvtIsLowerBound
  <1> DEFINE Later(t) == Le(lastGvt, t) /\ \E w \in Outstanding : Le(w, t)
  <1>5. ASSUME NEW e \in queue \cup out
        PROVE  Later(e.ts)
    <2>1. PICK f \in pending[r] : Le(f.ts, e.ts)
      BY DEF NotEarlier
    <2>2. e.ts \in Stamp
      BY <1>2, EventFields
    <2>3. Le(lastGvt, e.ts)
      BY <1>2, <1>3, <2>1, <2>2, LeOrder
    <2> QED
      BY <1>3, <2>1, <2>3
  <1>6. \A q \in Ranks : \A e \in pending[q] : Later(e.ts)
    BY <1>3, LeOrder
  <1>7. \A m \in net : Later(m.ev.ts)
    BY <1>4, LeOrder
  <1> HIDE DEF Later
  <1>8. \A q \in Ranks : \A e \in pending'[q] : Later(e.ts)
    BY <1>1, <1>5, <1>6
  <1>9. \A m \in net' : Later(m.ev.ts)
    <2> TAKE m \in net'
    <2>1. CASE m \in net
      BY <1>7, <2>1
    <2>2. CASE m \notin net
      <3>1. PICK e \in out : m = [from |-> r, ev |-> e, colour |-> SendColour]
        BY <1>1, <2>2
      <3>2. m.ev = e
        BY <3>1
      <3> QED
        BY <1>5, <3>2
    <2> QED
      BY <2>1, <2>2
  <1>10. \A l \in LPs : \A i \in 1..Len(ctx'[l].processed) :
            Le(lastGvt, ctx'[l].processed[i].ev.ts)
    BY <1>2, <1>3 DEF RecordsFrom, GvtIsLowerBound
  <1>11. \A s \in Outstanding' : \E w \in Outstanding : Le(w, s)
    BY <1>8, <1>9, InOutstanding DEF Later
  <1>12. /\ \A q \in Ranks : \A e \in pending'[q] : Le(lastGvt, e.ts)
         /\ \A m \in net' : Le(lastGvt, m.ev.ts)
    BY <1>8, <1>9 DEF Later
  <1> QED
    BY <1>2, <1>10, <1>11, <1>12, SameStamps DEF GvtIsLowerBound, Gvt!Work

\* A rank seeds its work while the GVT is zero.
LEMMA SeedWork ==
    ASSUME TypeOK, MessageInv, GvtIsLowerBound, SeedsAtZero, TypeOK',
           NEW r \in Ranks, Start(r)
    PROVE  GvtIsLowerBound' /\ Gvt!Seed
  <1>1. lastGvt = ZeroStamp /\ lastGvt' = lastGvt
    BY DEF Start, SeedsAtZero
  <1>2. Outstanding' \subseteq Stamp
    <2>1. \A q \in Ranks : \A e \in pending'[q] : e.ts \in Stamp
      BY EventFields DEF TypeOK
    <2>2. \A m \in net' : m.ev.ts \in Stamp
      BY EventFields DEF TypeOK
    <2> QED
      BY <2>1, <2>2, InOutstanding
  <1>3. PICK out : Route(r, pending[r], out)
    BY DEF Start
  <1>4. /\ \A q \in Ranks : pending[q] \subseteq pending'[q]
        /\ net \subseteq net'
    BY <1>3 DEF Route, TypeOK
  <1>5. Outstanding \subseteq Outstanding'
    BY <1>4, InOutstanding
  <1>6. \A s \in Outstanding' : Le(ZeroStamp, s)
    BY <1>2, StampConstants
  <1>7. \A l \in LPs : ctx'[l].processed = ctx[l].processed
    BY StartSends DEF MessageInv
  <1>8. GvtIsLowerBound'
    BY <1>1, <1>6, <1>7, InOutstanding DEF GvtIsLowerBound
  <1> QED
    BY <1>1, <1>2, <1>5, <1>8, SameStamps DEF Gvt!Seed

-----------------------------------------------------------------------------
(***************************************************************************)
(* The two rounds.                                                         *)
(***************************************************************************)
\* The pending order does not put a later stamp first.
LEMMA NotBefore ==
    ASSUME NEW e \in Event, NEW f \in Event, ~ PendingBefore(e, f)
    PROVE  Le(f.ts, e.ts)
  <1> DEFINE s == PendingKey(e)
             t == PendingKey(f)
  <1>1. /\ s = <<e.ts.time, e.ts.sequence, e.src, e.uid>>
        /\ t = <<f.ts.time, f.ts.sequence, f.src, f.uid>>
    BY DEF PendingKey
  <1>2. /\ DOMAIN s = 1..4 /\ s[1] = e.ts.time /\ s[2] = e.ts.sequence
        /\ t[1] = f.ts.time /\ t[2] = f.ts.sequence
    BY <1>1
  <1>3. /\ e.ts.time \in Int /\ e.ts.sequence \in Int
        /\ f.ts.time \in Int /\ f.ts.sequence \in Int
    BY EventFields, StampBounds DEF Stamp
  <1>4. \A i \in DOMAIN s : ~ (s[i] < t[i] /\ \A j \in 1..(i-1) : s[j] = t[j])
    BY DEF PendingBefore, LexLt
  <1> HIDE DEF s, t
  <1>5. ~ s[1] < t[1]
    BY <1>2, <1>4
  <1>6. ~ (s[2] < t[2] /\ s[1] = t[1])
    <2>1. 2 \in DOMAIN s /\ \A j \in 1..(2-1) : j = 1
      BY <1>2
    <2> QED
      BY <1>4, <2>1
  <1> QED
    BY <1>2, <1>3, <1>5, <1>6 DEF Le, Lt

\* What a rank contributes bounds what it has left to process.
LEMMA LocalBound ==
    ASSUME TypeOK, NEW r \in Ranks
    PROVE  /\ \A e \in Peeked(r) : Le(compute_gvt_(r), e.ts)
           /\ \A k \in inflight[r] : Le(compute_gvt_(r), k.ts)
           /\ compute_gvt_(r) \in Stamp
  <1> DEFINE V == {ctx[l].vt : l \in LpsOn(r)}
             Q == {e.ts : e \in {f \in pending[r] :
                                    ~ IsTombstoned(cancelled[r], f)}}
             F == {k.ts : k \in inflight[r]}
  <1>1. V \in SUBSET Stamp
    BY DEF TypeOK, LPContext, LpsOn
  <1>2. Q \in SUBSET Stamp
    <2>1. \A f \in pending[r] : f.ts \in Stamp
      BY EventFields DEF TypeOK
    <2> QED
      BY <2>1
  <1>3. F \in SUBSET Stamp
    BY DEF TypeOK
  <1>4. compute_gvt_(r) = MinStamp(V \cup Q \cup F)
    BY DEF compute_gvt_
  <1>5. \A f \in pending[r] : ~ IsTombstoned(cancelled[r], f) => f.ts \in Q
    OBVIOUS
  <1>6. \A k \in inflight[r] : k.ts \in F
    OBVIOUS
  <1> HIDE DEF V, Q, F
  <1>7. V \cup Q \cup F \in SUBSET Stamp
    BY <1>1, <1>2, <1>3
  <1>8. /\ compute_gvt_(r) \in Stamp
        /\ \A t \in V \cup Q \cup F : Le(compute_gvt_(r), t)
    BY <1>4, <1>7, MinStampBounds
  <1>9. ASSUME NEW e \in Peeked(r)
        PROVE  Le(compute_gvt_(r), e.ts)
    <2>1. PICK f \in pending[r] : /\ ~ IsTombstoned(cancelled[r], f)
                                  /\ ~ PendingBefore(e, f)
      BY DEF Peeked
    <2>2. e \in Event /\ f \in Event
      BY DEF Peeked, TypeOK
    <2>3. Le(compute_gvt_(r), f.ts)
      BY <1>5, <1>8, <2>1
    <2>4. Le(f.ts, e.ts)
      BY <2>1, <2>2, NotBefore
    <2> QED
      BY <1>8, <2>2, <2>3, <2>4, EventFields, LeOrder
  <1> QED
    BY <1>6, <1>8, <1>9

\* Adopting a stamp that bounds the work outstanding, or refusing it.
LEMMA AdoptBound ==
    ASSUME TypeOK, ProcessedInOrder, GvtIsLowerBound,
           NEW gvt \in Stamp, Adopt(gvt), PeekAll, net' = net,
           \A r \in Ranks : \A e \in Peeked(r) : Le(gvt, e.ts),
           \A m \in net : Le(gvt, m.ev.ts)
    PROVE  GvtIsLowerBound' /\ Gvt!Advance
  <1>1. \A q \in Ranks : \A e \in pending'[q] : e \in pending[q] /\ e \in Peeked(q)
    BY DEF PeekAll, Peeked
  <1>2. Outstanding' \subseteq Outstanding
    BY <1>1, InOutstanding
  <1>3. lastGvt \in Stamp
    BY DEF TypeOK
  <1>4. CASE Lt(gvt, lastGvt)
    <2>1. UNCHANGED <<lastGvt, ctx>>
      BY <1>4 DEF Adopt
    <2>2. GvtIsLowerBound'
      BY <1>1, <2>1 DEF GvtIsLowerBound
    <2>3. Le(lastGvt, lastGvt') /\ lastGvt' \in Stamp
      BY <1>3, <2>1, LeOrder
    <2>4. \A s \in Outstanding' : Le(lastGvt', s)
      BY <2>2, InOutstanding DEF GvtIsLowerBound
    <2> QED
      BY <1>2, <2>2, <2>3, <2>4, SameStamps DEF Gvt!Advance
  <1>5. CASE ~ Lt(gvt, lastGvt)
    <2>1. lastGvt' = gvt /\ Prune(Ranks, gvt)
      BY <1>5 DEF Adopt
    <2>2. \A s \in Outstanding' : Le(gvt, s)
      BY <1>1, InOutstanding
    <2>3. ASSUME NEW l \in LPs, NEW i \in 1..Len(ctx'[l].processed)
          PROVE  Le(gvt, ctx'[l].processed[i].ev.ts)
      <3>1. ctx[l] \in LPContext /\ InOrder(ctx[l])
        BY InOrderAll DEF TypeOK
      <3>2. ctx'[l] = Pruned(ctx[l], gvt)
        BY <2>1, KernelAssumption DEF Prune
      <3> QED
        BY <3>1, <3>2, PrunedLogs
    <2>4. /\ \A q \in Ranks : \A e \in pending'[q] : Le(gvt, e.ts)
          /\ \A m \in net' : Le(gvt, m.ev.ts)
      BY <1>1
    <2>5. GvtIsLowerBound'
      BY <2>1, <2>3, <2>4 DEF GvtIsLowerBound
    <2>6. Le(lastGvt, gvt)
      BY <1>5 DEF Le
    <2> QED
      BY <1>2, <2>1, <2>2, <2>5, <2>6, SameStamps DEF Gvt!Advance
  <1> QED
    BY <1>4, <1>5

\* AckInflight: what is on its way is in the table of its sender, so that the
\* reduction bounds it.
LEMMA AckRound ==
    ASSUME TypeOK, ProcessedInOrder, MessageInv, GvtIsLowerBound, AckGvt
    PROVE  GvtIsLowerBound' /\ Gvt!Advance
  <1> DEFINE S == {compute_gvt_(r) : r \in Ranks}
             gvt == MinStamp(S)
  <1>1. AcksFit
    BY DEF AckGvt, MessageInv, Accounts
  <1>2. Adopt(gvt) /\ PeekAll /\ net' = net
    BY DEF AckGvt
  <1>3. gvt \in Stamp
    BY GvtType
  <1>4. ASSUME NEW r \in Ranks
        PROVE  Le(gvt, compute_gvt_(r)) /\ compute_gvt_(r) \in Stamp
    <2>1. S \in SUBSET Stamp /\ compute_gvt_(r) \in S
      BY LocalBound
    <2> HIDE DEF S
    <2> QED
      BY <2>1, MinStampBounds
  <1> HIDE DEF S, gvt
  <1>5. \A r \in Ranks : \A e \in Peeked(r) : Le(gvt, e.ts)
    <2> TAKE r \in Ranks
    <2> TAKE e \in Peeked(r)
    <2>1. Le(compute_gvt_(r), e.ts)
      BY LocalBound
    <2>2. e.ts \in Stamp
      BY EventFields DEF Peeked, TypeOK
    <2> QED
      BY <1>3, <1>4, <2>1, <2>2, LeOrder
  <1>6. \A m \in net : Le(gvt, m.ev.ts)
    <2> TAKE m \in net
    <2>1. m.from \in Ranks /\ m.ev \in Event
      BY DEF TypeOK
    <2>2. InflightOf(m.ev) \in inflight[m.from] /\ InflightOf(m.ev).ts = m.ev.ts
      BY <1>1 DEF AcksFit, InflightOf
    <2>3. Le(compute_gvt_(m.from), m.ev.ts)
      BY <2>1, <2>2, LocalBound
    <2> QED
      BY <1>3, <1>4, <2>1, <2>3, EventFields, LeOrder
  <1> QED
    BY <1>2, <1>3, <1>5, <1>6, AdoptBound

\* ColoredCounters: no white message is left, and the reduction bounds the red.
LEMMA ColouredRound ==
    ASSUME TypeOK, ProcessedInOrder, MessageInv, GvtIsLowerBound, ColouredGvt
    PROVE  GvtIsLowerBound' /\ Gvt!Advance
  <1> DEFINE S == {compute_gvt_(r) : r \in Ranks} \cup {colour.minRed[r] : r \in Ranks}
             gvt == MinStamp(S)
  <1>1. ColoursFit /\ colour.red /\ WhiteDelta = 0
    BY DEF ColouredGvt, MessageInv, Accounts
  <1>2. Adopt(gvt) /\ PeekAll /\ net' = net
    BY DEF ColouredGvt
  <1>3. gvt \in Stamp
    BY GvtType
  <1>4. ASSUME NEW r \in Ranks
        PROVE  /\ Le(gvt, compute_gvt_(r)) /\ compute_gvt_(r) \in Stamp
               /\ Le(gvt, colour.minRed[r]) /\ colour.minRed[r] \in Stamp
    <2>1. {compute_gvt_(q) : q \in Ranks} \in SUBSET Stamp
      BY LocalBound
    <2>2. {colour.minRed[q] : q \in Ranks} \in SUBSET Stamp
      BY DEF TypeOK
    <2>3. S \in SUBSET Stamp /\ compute_gvt_(r) \in S /\ colour.minRed[r] \in S
      BY <2>1, <2>2
    <2> HIDE DEF S
    <2> QED
      BY <2>3, MinStampBounds
  <1> HIDE DEF S, gvt
  <1>5. \A r \in Ranks : \A e \in Peeked(r) : Le(gvt, e.ts)
    <2> TAKE r \in Ranks
    <2> TAKE e \in Peeked(r)
    <2>1. Le(compute_gvt_(r), e.ts)
      BY LocalBound
    <2>2. e.ts \in Stamp
      BY EventFields DEF Peeked, TypeOK
    <2> QED
      BY <1>3, <1>4, <2>1, <2>2, LeOrder
  <1>6. \A m \in net : Le(gvt, m.ev.ts)
    <2> TAKE m \in net
    <2>1. m.from \in Ranks /\ m.ev \in Event
      BY DEF TypeOK
    <2>2. Le(colour.minRed[m.from], m.ev.ts)
      BY <1>1, NoWhiteLeft DEF ColoursFit
    <2> QED
      BY <1>3, <1>4, <2>1, <2>2, EventFields, LeOrder
  <1> QED
    BY <1>2, <1>3, <1>5, <1>6, AdoptBound

\* Every step keeps the GVT a lower bound, and is one that the contract allows.
LEMMA GvtStep ==
    ASSUME CausalApp, TypeOK, ProcessedInOrder, MessageInv, ForwardLogs,
           GvtIsLowerBound, SeedsAtZero, [Next]_vars
    PROVE  GvtIsLowerBound' /\ (Gvt!Seed \/ Gvt!Work \/ Gvt!Advance)
  <1>1. ASSUME NEW r \in Ranks, Start(r)
        PROVE  GvtIsLowerBound' /\ Gvt!Seed
    BY <1>1, TypeStart, SeedWork
  <1>2. ASSUME NEW r \in Ranks,
               DispatchStraggler(r) \/ DispatchAnti(r) \/ DispatchEvent(r)
        PROVE  GvtIsLowerBound' /\ Gvt!Work
    <2>1. \E queue, out : SendingStep(r, queue, out) /\ NotEarlier(r, queue \cup out)
      BY <1>2, StragglerSends, AntiSends, EventSends DEF MessageInv
    <2> QED
      BY <2>1, SentWork
  <1>3. ASSUME NEW r \in Ranks, \/ PollEvent(r) \/ PollAck(r)
                                \/ DispatchNothing(r) \/ FossilCollect(r)
        PROVE  GvtIsLowerBound' /\ Gvt!Work
    <2>1. QuietStep
      BY <1>3, QuietSteps DEF MessageInv
    <2>2. lastGvt' = lastGvt
      BY <1>3 DEF PollEvent, PollAck, DispatchNothing, FossilCollect
    <2> QED
      BY <2>1, <2>2, QuietWork
  <1>4. CASE \/ ColouredFlip \/ ColouredWait \/ KeepRunning \/ Finalize
             \/ UNCHANGED vars
    <2>1. QuietStep
      BY <1>4, QuietSteps DEF MessageInv, Collective
    <2>2. lastGvt' = lastGvt
      BY <1>4 DEF ColouredFlip, ColouredWait, KeepRunning, Finalize, vars
    <2> QED
      BY <2>1, <2>2, QuietWork
  <1>5. CASE AckGvt \/ ColouredGvt
    BY <1>5, AckRound, ColouredRound
  <1> QED
    BY <1>1, <1>2, <1>3, <1>4, <1>5 DEF Next, RankStep, Collective, Terminated

\* The invariant of the kernel under programs that send only into the future.
GvtInv == ForwardLogs /\ GvtIsLowerBound /\ SeedsAtZero

\* Before run(), the GVT is zero and the logs are empty.
LEMMA GvtInit == Init => GvtInv /\ Gvt!Init
  <1> SUFFICES ASSUME Init
               PROVE  GvtInv /\ Gvt!Init
    OBVIOUS
  <1>1. TypeOK
    BY TypeInit
  <1>2. /\ lastGvt = ZeroStamp /\ net = {}
        /\ \A l \in LPs : ctx[l].processed = <<>> /\ ctx[l].sentLog = <<>>
    BY DEF Init, NewContext
  <1>3. \A s \in Outstanding : s \in Stamp /\ Le(ZeroStamp, s)
    BY <1>1, OutstandingType, StampConstants
  <1>4. ForwardLogs
    BY <1>2 DEF ForwardLogs, Entries
  <1>5. GvtIsLowerBound
    BY <1>2, <1>3, InOutstanding DEF GvtIsLowerBound
  <1>6. SeedsAtZero
    BY <1>2 DEF SeedsAtZero
  <1> QED
    BY <1>2, <1>3, <1>4, <1>5, <1>6, SameStamps DEF GvtInv, Gvt!Init

\* Every step keeps the invariant.
LEMMA GvtInvStep ==
    ASSUME CausalApp, TypeOK, ProcessedInOrder, MessageInv, GvtInv, [Next]_vars
    PROVE  GvtInv'
  BY ForwardStep, GvtStep, SeedsStep DEF GvtInv

\* fossil_collect_: under programs whose handlers send only into the future, no
\* event or anti-message below the GVT is left anywhere, and no record below it,
\* with either GVT algorithm.
THEOREM GvtBounds ==
    ASSUME CausalApp
    PROVE  Spec => []GvtIsLowerBound
  <1>1. Init => GvtInv
    BY GvtInit
  <1>2. TypeOK /\ ProcessedInOrder /\ MessageInv /\ GvtInv /\ [Next]_vars => GvtInv'
    BY GvtInvStep
  <1>3. GvtInv => GvtIsLowerBound
    BY DEF GvtInv
  <1> QED
    BY <1>1, <1>2, <1>3, TypeCorrect, RecordsInOrder, MessagesUnambiguous, PTL
       DEF Spec

\* Under the same programs both algorithms implement the contract of GVT.
THEOREM KernelImplementsGvt ==
    ASSUME CausalApp
    PROVE  Spec => ImplementsGvtContract
  <1>1. Init => GvtInv /\ Gvt!Init
    BY GvtInit
  <1>2. TypeOK /\ ProcessedInOrder /\ MessageInv /\ GvtInv /\ [Next]_vars
        => GvtInv' /\ [Gvt!Seed \/ Gvt!Work \/ Gvt!Advance]_<<Outstanding, lastGvt>>
    BY GvtInvStep, GvtStep DEF GvtInv
  <1> QED
    BY <1>1, <1>2, TypeCorrect, RecordsInOrder, MessagesUnambiguous, PTL
       DEF Spec, ImplementsGvtContract, Gvt!Spec

-----------------------------------------------------------------------------
(***************************************************************************)
(* The end of the run.                                                     *)
(***************************************************************************)
\* Only finalize_at_end leads to the end.
LEMMA OnlyFinalize ==
    ASSUME TypeOK, [Next]_vars, AllAt("done")'
    PROVE  Finalize \/ UNCHANGED vars
  <1>1. ASSUME NEW r \in Ranks, RankStep(r)
        PROVE  pc'[r] # "done"
    <2>1. CASE Start(r)
      BY <2>1 DEF Start, Goto, TypeOK
    <2>2. CASE PollEvent(r) \/ PollAck(r)
      BY <2>2 DEF PollEvent, PollAck
    <2>3. CASE DispatchNothing(r) \/ FossilCollect(r)
      BY <2>3 DEF DispatchNothing, FossilCollect, Goto, TypeOK
    <2>4. CASE DispatchStraggler(r)
      BY <2>4 DEF DispatchStraggler, Goto, TypeOK
    <2>5. CASE DispatchAnti(r)
      BY <2>5 DEF DispatchAnti, Goto, TypeOK
    <2>6. CASE DispatchEvent(r)
      BY <2>6 DEF DispatchEvent, Goto, TypeOK
    <2> QED
      BY <1>1, <2>1, <2>2, <2>3, <2>4, <2>5, <2>6 DEF RankStep
  <1>2. ~ \E r \in Ranks : RankStep(r)
    BY <1>1 DEF AllAt
  <1>3. ~ (AckGvt \/ ColouredFlip \/ ColouredWait \/ ColouredGvt \/ KeepRunning)
    BY KernelAssumption
       DEF AckGvt, ColouredFlip, ColouredWait, ColouredGvt, KeepRunning, AllGoto,
           AllAt
  <1> QED
    BY <1>2, <1>3 DEF Next, Collective, Terminated

\* AckInflight: empty tables leave nothing on its way.
LEMMA AckQuiet ==
    ASSUME TypeOK, AcksFit, \A r \in Ranks : inflight[r] = {}
    PROVE  net = {} /\ acks = {}
  <1>1. \A m \in net : m.from \in Ranks /\ InflightOf(m.ev) \in inflight[m.from]
    BY DEF AcksFit, TypeOK
  <1>2. \A a \in acks : a.to \in Ranks /\ \E k \in inflight[a.to] : SameInflight(k, a)
    BY AckFields DEF AcksFit
  <1> QED
    BY <1>1, <1>2

\* ColoredCounters: the counters over all ranks add up to what is on its way, so
\* when they add up to zero nothing is.
LEMMA ColouredQuiet ==
    ASSUME TypeOK, ColoursFit, InFlightCount = 0
    PROVE  net = {}
  <1>1. /\ Balance(0) \in [Ranks -> Int] /\ Balance(1) \in [Ranks -> Int]
        /\ \A r \in Ranks : \A c \in 0..1 :
              colour.sent[r][c] \in Nat /\ colour.recv[r][c] \in Nat
    BY BalanceType DEF TypeOK, ColourState
  <1> DEFINE all == [r \in Ranks |-> colour.sent[r][0] + colour.sent[r][1]
                                     - colour.recv[r][0] - colour.recv[r][1]]
  <1>2. \A r \in Ranks : all[r] = Balance(0)[r] + Balance(1)[r]
    BY <1>1 DEF Balance
  <1>3. DOMAIN all = Ranks /\ SumFunction(all) = 0
    BY DEF InFlightCount
  <1> HIDE DEF all
  <1>4. SumFunction(all) = SumFunction(Balance(0)) + SumFunction(Balance(1))
    BY <1>1, <1>2, <1>3, SumOfSums, KernelAssumption
  <1>5. \A c \in 0..1 : /\ SumFunction(Balance(c)) = Cardinality(OnTheirWay(c))
                        /\ IsFiniteSet(OnTheirWay(c))
    <2> TAKE c \in 0..1
    <2>1. OnTheirWay(c) \in SUBSET net
      BY DEF OnTheirWay
    <2> QED
      BY <2>1, FS_Subset DEF ColoursFit
  <1>6. \A c \in 0..1 : Cardinality(OnTheirWay(c)) \in Nat
    BY <1>5, FS_CardinalityType
  <1>7. Cardinality(OnTheirWay(0)) = 0 /\ Cardinality(OnTheirWay(1)) = 0
    BY <1>3, <1>4, <1>5, <1>6
  <1>8. OnTheirWay(0) = {} /\ OnTheirWay(1) = {}
    BY <1>5, <1>7, FS_EmptySet
  <1>9. \A m \in net : m.colour = 0 \/ m.colour = 1
    BY DEF TypeOK
  <1> QED
    BY <1>8, <1>9 DEF OnTheirWay

\* Nothing is at the kernel's infinity: finalize_at_end commits all that is left.
LEMMA AllCommitted ==
    ASSUME TypeOK, ProcessedInOrder, Prune(Ranks, MaxStamp), NEW l \in LPs
    PROVE  ctx'[l].processed = <<>>
  <1> DEFINE p == Pruned(ctx[l], MaxStamp)
  <1>1. ctx[l] \in LPContext /\ InOrder(ctx[l])
    BY InOrderAll DEF TypeOK
  <1>2. ctx'[l] = p
    BY KernelAssumption DEF Prune
  <1>3. p \in LPContext
    BY <1>1, PrunedType, StampConstants
  <1>4. \A i \in 1..Len(p.processed) : Le(MaxStamp, p.processed[i].ev.ts)
    BY <1>1, PrunedLogs, StampConstants
  <1> HIDE DEF p
  <1>5. ASSUME NEW i \in 1..Len(p.processed)
        PROVE  FALSE
    <2> DEFINE t == p.processed[i].ev.ts
    <2>1. p.processed[i].ev \in Event
      BY <1>3, RecordStamp
    <2>2. t \in Stamp /\ t # MaxStamp
      BY <2>1, EventFields
    <2>3. Le(MaxStamp, t) /\ Le(t, MaxStamp)
      BY <1>4, <2>2, StampConstants
    <2> HIDE DEF t
    <2> QED
      BY <2>2, <2>3, StampOrder, StampConstants DEF Le
  <1>6. p.processed \in Seq(ProcessedRecord)
    BY <1>3 DEF LPContext
  <1>7. Len(p.processed) = 0
    <2>1. Len(p.processed) \in Nat
      BY <1>6
    <2> QED
      BY <1>5, <2>1
  <1> QED
    BY <1>2, <1>6, <1>7

\* finalize_at_end runs only when no rank has work and nothing is on its way.
LEMMA FinalizeClean ==
    ASSUME TypeOK, ProcessedInOrder, MessageInv, Finalize
    PROVE  TerminationIsClean'
  <1>1. /\ \A r \in Ranks : ~ LocalHasWork(r)
        /\ Prune(Ranks, MaxStamp)
        /\ UNCHANGED <<pending, inflight, net, acks>>
    BY DEF Finalize
  <1>2. \A r \in Ranks : pending[r] = {}
    BY <1>1 DEF LocalHasWork
  <1>3. \A l \in LPs : ctx'[l].processed = <<>>
    BY <1>1, AllCommitted
  <1>4. net = {} /\ acks = {} /\ \A r \in Ranks : inflight[r] = {}
    <2>1. CASE GvtMode = "AckInflight"
      <3>1. \A r \in Ranks : inflight[r] = {}
        BY <1>1, <2>1 DEF LocalHasWork
      <3> QED
        BY <2>1, <3>1, AckQuiet DEF MessageInv, Accounts
    <2>2. CASE GvtMode = "ColoredCounters"
      <3>1. InFlightCount = 0
        BY <1>1, <2>2, KernelAssumption DEF LocalHasWork
      <3>2. ColoursFit
        BY <2>2 DEF MessageInv, Accounts
      <3> QED
        BY <3>1, <3>2, ColouredQuiet DEF ColoursFit
    <2> QED
      BY <2>1, <2>2, KernelAssumption
  <1> QED
    BY <1>1, <1>2, <1>3, <1>4 DEF TerminationIsClean

\* Simulation::run returns only when no event, anti-message or Ack is queued or
\* on its way anywhere, and everything that was executed has been committed.
THEOREM StopsOnlyWhenDone == Spec => []TerminationIsClean
  <1>1. Init => TerminationIsClean
    BY KernelAssumption DEF Init, TerminationIsClean, AllAt
  <1>2. TypeOK /\ ProcessedInOrder /\ MessageInv /\ TerminationIsClean /\ [Next]_vars
        => TerminationIsClean'
    <2> SUFFICES ASSUME TypeOK, ProcessedInOrder, MessageInv, TerminationIsClean,
                        [Next]_vars, AllAt("done")'
                 PROVE  TerminationIsClean'
      BY DEF TerminationIsClean
    <2>1. Finalize \/ UNCHANGED vars
      BY OnlyFinalize
    <2>2. CASE UNCHANGED vars
      BY <2>2 DEF vars, TerminationIsClean, AllAt
    <2> QED
      BY <2>1, <2>2, FinalizeClean
  <1> QED
    BY <1>1, <1>2, TypeCorrect, RecordsInOrder, MessagesUnambiguous, PTL DEF Spec

=============================================================================

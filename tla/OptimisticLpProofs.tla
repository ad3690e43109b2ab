------------------------- MODULE OptimisticLpProofs -------------------------
(***************************************************************************)
(* Theorems about an LP under the optimistic kernel that hold for every    *)
(* handler that keeps the contract: what rollbacks restore is the state    *)
(* that the standing records lead to, what stands of its messages is what  *)
(* those records sent, and no event is lost or handled twice.  AoiLP keeps *)
(* the contract, and its answers are current; AirportLP serves one plane   *)
(* at a time, in the order in which they came.                             *)
(***************************************************************************)
EXTENDS OptimisticLp, Aoi, StampLemmas

-----------------------------------------------------------------------------
(***************************************************************************)
(* Lists: growing at the end, and cut at either end down to some position. *)
(***************************************************************************)
IsSequence(s) == \E S : s \in Seq(S)

\* One more element at the end.
LEMMA Appended ==
    ASSUME NEW s, IsSequence(s)
    PROVE  /\ Len(s) \in Nat
           /\ \A x : LET t == Append(s, x)
                    IN  /\ IsSequence(t) /\ Len(t) = Len(s) + 1
                        /\ t[Len(s) + 1] = x /\ \A i \in 1..Len(s) : t[i] = s[i]
  <1>1. PICK S : s \in Seq(S)
    BY DEF IsSequence
  <1> SUFFICES ASSUME NEW x
               PROVE  LET t == Append(s, x)
                      IN  /\ IsSequence(t) /\ Len(t) = Len(s) + 1
                          /\ t[Len(s) + 1] = x /\ \A i \in 1..Len(s) : t[i] = s[i]
    BY <1>1
  <1> DEFINE t == Append(s, x)
             U == S \cup {x}
  <1>2. s \in Seq(U) /\ x \in U
    <2>1. /\ Len(s) \in Nat /\ s = [i \in 1..Len(s) |-> s[i]]
          /\ \A i \in 1..Len(s) : s[i] \in U
      BY <1>1
    <2> HIDE DEF U
    <2>2. [i \in 1..Len(s) |-> s[i]] \in Seq(U)
      BY <2>1
    <2> QED
      BY <2>1, <2>2 DEF U
  <1> HIDE DEF U
  <1>3. t \in Seq(U) /\ Len(t) = Len(s) + 1 /\ Len(s) \in Nat
    BY <1>2
  <1>4. t[Len(s) + 1] = x /\ \A i \in 1..Len(s) : t[i] = s[i]
    BY <1>2
  <1> QED
    BY <1>3, <1>4 DEF IsSequence

\* The first n elements.
LEMMA CutOff ==
    ASSUME NEW s, IsSequence(s), NEW n \in 0..Len(s), NEW t, t = SubSeq(s, 1, n)
    PROVE  /\ IsSequence(t) /\ Len(s) \in Nat /\ Len(t) = n
           /\ \A i \in 1..n : t[i] = s[i] /\ i \in 1..Len(s)
  <1>1. PICK S : s \in Seq(S)
    BY DEF IsSequence
  <1>2. Len(s) \in Nat /\ n \in Nat /\ n <= Len(s)
    BY <1>1
  <1>3. t \in Seq(S) /\ Len(t) = n
    BY <1>1, <1>2
  <1>4. \A i \in 1..n : t[i] = s[i] /\ i \in 1..Len(s)
    BY <1>1, <1>2
  <1> QED
    BY <1>2, <1>3, <1>4 DEF IsSequence

\* The list t is s, followed by u.
Joins(t, s, u) ==
    /\ IsSequence(t) /\ Len(s) \in Nat /\ Len(u) \in Nat /\ Len(t) = Len(s) + Len(u)
    /\ \A i \in 1..Len(s) : t[i] = s[i]
    /\ \A i \in 1..Len(u) : t[Len(s) + i] = u[i]

\* More elements at the end.
LEMMA Joined ==
    ASSUME NEW s, IsSequence(s), NEW u, IsSequence(u)
    PROVE  Joins(s \o u, s, u)
  <1>1. PICK A : s \in Seq(A)
    BY DEF IsSequence
  <1>2. PICK B : u \in Seq(B)
    BY DEF IsSequence
  <1> DEFINE U == A \cup B
             t == s \o u
  <1>3. s \in Seq(U) /\ u \in Seq(U)
    <2>1. /\ Len(s) \in Nat /\ s = [i \in 1..Len(s) |-> s[i]]
          /\ \A i \in 1..Len(s) : s[i] \in U
      BY <1>1
    <2>2. /\ Len(u) \in Nat /\ u = [i \in 1..Len(u) |-> u[i]]
          /\ \A i \in 1..Len(u) : u[i] \in U
      BY <1>2
    <2> HIDE DEF U
    <2>3. [i \in 1..Len(s) |-> s[i]] \in Seq(U)
      BY <2>1
    <2>4. [i \in 1..Len(u) |-> u[i]] \in Seq(U)
      BY <2>2
    <2> QED
      BY <2>1, <2>2, <2>3, <2>4
  <1> HIDE DEF U
  <1>4. t \in Seq(U) /\ Len(t) = Len(s) + Len(u) /\ Len(s) \in Nat /\ Len(u) \in Nat
    BY <1>3
  <1>5. \A i \in 1..Len(s) : t[i] = s[i]
    BY <1>3
  <1>6. ASSUME NEW i \in 1..Len(u)
        PROVE  t[Len(s) + i] = u[i]
    <2>1. Len(s) + i \in 1..Len(t) /\ ~ (Len(s) + i <= Len(s)) /\ Len(s) + i - Len(s) = i
      BY <1>4
    <2> QED
      BY <1>3, <1>4, <2>1
  <1> HIDE DEF t
  <1>7. IsSequence(t)
    BY <1>4, Zenon DEF IsSequence
  <1>8. Joins(t, s, u)
    BY <1>4, <1>5, <1>6, <1>7, Zenon DEF Joins
  <1> QED
    BY <1>8 DEF t

\* Any sequence is one of its elements; the short ones.
LEMMA InSeq ==
    ASSUME NEW s, IsSequence(s)
    PROVE  s \in Seq(ToSet(s))
  <1>1. PICK S : s \in Seq(S)
    BY DEF IsSequence
  <1>2. /\ Len(s) \in Nat /\ s = [i \in 1..Len(s) |-> s[i]]
        /\ \A i \in 1..Len(s) : s[i] \in ToSet(s)
    BY <1>1 DEF ToSet
  <1>3. [i \in 1..Len(s) |-> s[i]] \in Seq(ToSet(s))
    BY <1>2
  <1> QED
    BY <1>2, <1>3

LEMMA ShortSequences ==
    /\ IsSequence(<<>>)
    /\ \A x : IsSequence(<<x>>)
  <1>1. <<>> \in Seq({})
    OBVIOUS
  <1>2. ASSUME NEW x
        PROVE  <<x>> \in Seq({x})
    OBVIOUS
  <1> QED
    BY <1>1, <1>2 DEF IsSequence

\* The same, spelt out.
LEMMA Extended ==
    ASSUME NEW s, IsSequence(s), NEW u, IsSequence(u)
    PROVE  LET t == s \o u
           IN  /\ IsSequence(t) /\ Len(s) \in Nat /\ Len(u) \in Nat
               /\ Len(t) = Len(s) + Len(u)
               /\ \A i \in 1..Len(s) : t[i] = s[i]
               /\ \A i \in 1..Len(u) : t[Len(s) + i] = u[i]
  <1>1. Joins(s \o u, s, u)
    BY Joined
  <1> QED
    BY <1>1, Zenon DEF Joins

\* Popping off the back, down to b, while the last index is in B.
LEMMA BackCutTo ==
    ASSUME NEW N \in Nat, NEW b \in 0..N, NEW B,
           NEW k, k = Min({n \in b..N : \A i \in (n+1)..N : i \in B})
    PROVE  k \in b..N /\ (\A i \in (k+1)..N : i \in B) /\ (k > b => k \notin B)
  <1> DEFINE T == {n \in b..N : \A i \in (n+1)..N : i \in B}
  <1>1. T \in SUBSET Nat /\ N \in T
    OBVIOUS
  <1>2. k \in T /\ \A y \in T : k <= y
    BY <1>1, LeastNat
  <1>3. k \in b..N /\ \A i \in (k+1)..N : i \in B
    BY <1>2
  <1>4. ASSUME k > b, k \in B
        PROVE  FALSE
    <2>1. k - 1 \in b..N
      BY <1>3, <1>4
    <2>2. \A i \in ((k-1)+1)..N : i \in B
      BY <1>3, <1>4
    <2>3. k - 1 \in T
      BY <2>1, <2>2
    <2> QED
      BY <1>2, <1>3, <2>3
  <1> QED
    BY <1>3, <1>4

\* Popping off the front, from b on, while the next index is in B.
LEMMA FrontCutFrom ==
    ASSUME NEW N \in Nat, NEW b \in 0..N, NEW B,
           NEW k, k = Max({n \in b..N : \A i \in (b+1)..n : i \in B})
    PROVE  k \in b..N /\ (\A i \in (b+1)..k : i \in B) /\ (k < N => k + 1 \notin B)
  <1> DEFINE T == {n \in b..N : \A i \in (b+1)..n : i \in B}
  <1>1. T \in SUBSET (0..N) /\ b \in T
    OBVIOUS
  <1>2. k \in T /\ \A y \in T : y <= k
    BY <1>1, GreatestNat
  <1>3. k \in b..N /\ \A i \in (b+1)..k : i \in B
    BY <1>2
  <1>4. ASSUME k < N, k + 1 \in B
        PROVE  FALSE
    <2>1. k + 1 \in b..N
      BY <1>3, <1>4
    <2>2. \A i \in (b+1)..(k+1) : i \in B
      BY <1>3, <1>4
    <2>3. k + 1 \in T
      BY <2>1, <2>2
    <2> QED
      BY <1>2, <1>3, <2>3
  <1> QED
    BY <1>3, <1>4

-----------------------------------------------------------------------------
(***************************************************************************)
(* Rollback restores what the standing records lead to.                    *)
(***************************************************************************)
\* The state that record i of L leaves, and the one it should find.
Leaves(L, i) == IF L[i].ev.anti THEN L[i].pre
                                ELSE OnEvent(self, L[i].pre, L[i].ev).state
Finds(L, i) == IF i = 1 THEN InitState(self) ELSE Leaves(L, i - 1)

\* Each record found what it should, and says what its handler has changed; and
\* s is the state after the last one.
Replays(L, s) ==
    /\ IsSequence(L)
    /\ \A i \in 1..Len(L) :
          /\ Alike(L[i].pre, Finds(L, i))
          /\ \A e \in Entities(self) \ L[i].writes :
                Part(self, Leaves(L, i), e) = Part(self, L[i].pre, e)
    /\ Alike(s, Finds(L, Len(L) + 1))

\* A list keeps its parts when it is cut or continued.
LEMMA SameFinds ==
    ASSUME NEW L, NEW M, NEW n \in Nat, \A i \in 1..n : M[i] = L[i]
    PROVE  /\ \A i \in 1..n : Leaves(M, i) = Leaves(L, i)
           /\ \A i \in 1..(n + 1) : Finds(M, i) = Finds(L, i)
  <1>1. \A i \in 1..n : Leaves(M, i) = Leaves(L, i)
    BY DEF Leaves
  <1>2. ASSUME NEW i \in 1..(n + 1)
        PROVE  Finds(M, i) = Finds(L, i)
    <2>1. i = 1 \/ i - 1 \in 1..n
      OBVIOUS
    <2> QED
      BY <1>1, <2>1 DEF Finds
  <1> QED
    BY <1>1, <1>2

\* The first n records replay, up to the state the next one should find.
LEMMA ReplaysCut ==
    ASSUME NEW L, NEW s, Replays(L, s), NEW n \in 0..Len(L),
           NEW t, Alike(t, Finds(L, n + 1))
    PROVE  Replays(SubSeq(L, 1, n), t)
  <1> DEFINE M == SubSeq(L, 1, n)
  <1>1. IsSequence(L)
    BY DEF Replays
  <1>2. /\ IsSequence(M) /\ Len(M) = n /\ n \in Nat
        /\ \A i \in 1..n : M[i] = L[i] /\ i \in 1..Len(L)
    <2>1. M = SubSeq(L, 1, n)
      OBVIOUS
    <2> HIDE DEF M
    <2>2. /\ IsSequence(M) /\ Len(M) = n /\ Len(L) \in Nat
          /\ \A i \in 1..n : M[i] = L[i] /\ i \in 1..Len(L)
      BY <1>1, <2>1, CutOff
    <2> QED
      BY <2>2
  <1> HIDE DEF M
  <1>3. /\ \A i \in 1..n : Leaves(M, i) = Leaves(L, i)
        /\ \A i \in 1..(n + 1) : Finds(M, i) = Finds(L, i)
    BY <1>2, SameFinds, SMTT(30)
  <1>4. ASSUME NEW i \in 1..n
        PROVE  /\ Alike(M[i].pre, Finds(M, i))
               /\ \A e \in Entities(self) \ M[i].writes :
                     Part(self, Leaves(M, i), e) = Part(self, M[i].pre, e)
    <2>1. i \in 1..Len(L) /\ i \in 1..(n + 1) /\ M[i] = L[i]
      BY <1>2
    <2> QED
      BY <1>3, <2>1 DEF Replays
  <1>5. Alike(t, Finds(M, Len(M) + 1))
    <2>1. n + 1 \in 1..(n + 1)
      BY <1>2
    <2> QED
      BY <1>2, <1>3, <2>1
  <1>6. Replays(M, t)
    BY <1>2, <1>4, <1>5 DEF Replays
  <1> QED
    BY <1>6 DEF M

\* A record more, of a handler that finds the state the others leave.
LEMMA ReplaysAppend ==
    ASSUME NEW L, NEW s, Replays(L, s), NEW rec, Alike(rec.pre, s),
           NEW t, t = IF rec.ev.anti THEN rec.pre
                                     ELSE OnEvent(self, rec.pre, rec.ev).state,
           \A e \in Entities(self) \ rec.writes : Part(self, t, e) = Part(self, rec.pre, e)
    PROVE  Replays(Append(L, rec), t)
  <1> DEFINE M == Append(L, rec)
             n == Len(L)
  <1>1. /\ IsSequence(M) /\ n \in Nat /\ Len(M) = n + 1 /\ M[n + 1] = rec
        /\ \A i \in 1..n : M[i] = L[i]
    <2>1. M = Append(L, rec) /\ IsSequence(L)
      BY DEF Replays
    <2> HIDE DEF M
    <2>2. /\ IsSequence(M) /\ Len(L) \in Nat /\ Len(M) = Len(L) + 1
          /\ M[Len(L) + 1] = rec /\ \A i \in 1..Len(L) : M[i] = L[i]
      BY <2>1, Appended
    <2> QED
      BY <2>2
  <1> HIDE DEF M
  <1>2. /\ \A i \in 1..n : Leaves(M, i) = Leaves(L, i)
        /\ \A i \in 1..(n + 1) : Finds(M, i) = Finds(L, i)
    <2> HIDE DEF n
    <2> QED
      BY <1>1, SameFinds
  <1>3. Leaves(M, n + 1) = t
    BY <1>1 DEF Leaves
  <1>4. Alike(s, Finds(L, n + 1)) /\ \A i \in 1..n :
          /\ Alike(L[i].pre, Finds(L, i))
          /\ \A e \in Entities(self) \ L[i].writes :
                Part(self, Leaves(L, i), e) = Part(self, L[i].pre, e)
    BY DEF Replays
  <1> HIDE DEF n
  <1>5. ASSUME NEW i \in 1..Len(M)
        PROVE  /\ Alike(M[i].pre, Finds(M, i))
               /\ \A e \in Entities(self) \ M[i].writes :
                     Part(self, Leaves(M, i), e) = Part(self, M[i].pre, e)
    <2>1. CASE i \in 1..n
      <3>1. i \in 1..(n + 1)
        BY <1>1
      <3> QED
        BY <1>1, <1>2, <1>4, <2>1, <3>1
    <2>2. CASE i = n + 1
      <3>1. Finds(M, n + 1) = Finds(L, n + 1)
        BY <1>1, <1>2
      <3>2. Alike(rec.pre, Finds(M, n + 1))
        BY <1>4, <3>1 DEF Alike
      <3> QED
        BY <1>1, <1>3, <2>2, <3>2
    <2> QED
      BY <1>1, <2>1, <2>2
  <1>6. Alike(t, Finds(M, Len(M) + 1))
    <2>1. Finds(M, Len(M) + 1) = t
      BY <1>1, <1>3 DEF Finds
    <2> QED
      BY <2>1 DEF Alike
  <1> QED
    BY <1>1, <1>5, <1>6 DEF Replays, M

\* Records that did not save entity e found the same of it, and left that.
LEMMA UnsavedStays ==
    ASSUME NEW L, NEW s, Replays(L, s), NEW e \in Entities(self),
           NEW a \in 1..(Len(L) + 1), NEW b \in a..(Len(L) + 1),
           \A i \in a..(b-1) : e \notin L[i].writes
    PROVE  Part(self, Finds(L, b), e) = Part(self, Finds(L, a), e)
  <1> DEFINE P(i) == Part(self, Finds(L, i), e)
             T == {i \in a..b : P(i) # P(a)}
  <1>1. Len(L) \in Nat
    BY CutOff, Appended DEF Replays
  <1>2. ASSUME NEW i \in a..(b-1)
        PROVE  P(i + 1) = P(i)
    <2>1. i \in 1..Len(L) /\ i + 1 # 1 /\ (i + 1) - 1 = i
      BY <1>1
    <2>2. Part(self, L[i].pre, e) = P(i)
      BY <2>1 DEF Replays, Alike
    <2>3. Part(self, Leaves(L, i), e) = Part(self, L[i].pre, e)
      BY <2>1 DEF Replays
    <2>4. Finds(L, i + 1) = Leaves(L, i)
      BY <2>1 DEF Finds
    <2> QED
      BY <2>2, <2>3, <2>4
  <1> HIDE DEF P
  <1>3. SUFFICES ASSUME T # {}
                 PROVE  FALSE
    <2>1. b \in a..b
      BY <1>1
    <2> QED
      BY <2>1 DEF P
  <1>4. T \in SUBSET Nat
    BY <1>1
  <1>5. Min(T) \in T /\ \A i \in T : Min(T) <= i
    BY <1>3, <1>4, LeastNat
  <1>6. Min(T) - 1 \in a..(b-1) /\ Min(T) - 1 \in a..b
    BY <1>1, <1>5
  <1>7. P((Min(T) - 1) + 1) = P(Min(T) - 1) /\ (Min(T) - 1) + 1 = Min(T)
    BY <1>1, <1>2, <1>5, <1>6
  <1>8. Min(T) - 1 \in T
    BY <1>5, <1>6, <1>7
  <1> QED
    BY <1>1, <1>5, <1>6, <1>8

\* What a rollback restores is the state that the first undone record found: of
\* each entity the oldest snapshot, which need not be that record's.
LEMMA RestoredAlike ==
    ASSUME Replays(log, state), LoadsWhatWasSaved, base \in 0..Len(log),
           NEW n \in base..Len(log)
    PROVE  Alike(Restored(n), Finds(log, n + 1))
  <1>1. Len(log) \in Nat
    BY CutOff, Appended DEF Replays
  <1>2. SUFFICES ASSUME NEW e \in Entities(self)
                 PROVE  Part(self, Restored(n), e) = Part(self, Finds(log, n + 1), e)
    BY DEF Alike
  <1>3. n + 1 \in 1..(Len(log) + 1)
    BY <1>1
  <1>4. CASE e \notin SavedAfter(n)
    <2>1. \A i \in (n+1)..((Len(log) + 1) - 1) : e \notin log[i].writes
      BY <1>1, <1>4 DEF SavedAfter
    <2>2. Len(log) + 1 \in (n+1)..(Len(log) + 1)
      BY <1>1, <1>3
    <2>3. Part(self, Finds(log, Len(log) + 1), e) = Part(self, Finds(log, n + 1), e)
      BY <1>3, <2>1, <2>2, UnsavedStays
    <2>4. Part(self, state, e) = Part(self, Finds(log, Len(log) + 1), e)
      BY DEF Replays, Alike
    <2> QED
      BY <1>4, <2>3, <2>4 DEF LoadsWhatWasSaved
  <1>5. CASE e \in SavedAfter(n)
    <2> DEFINE T == Savers(n, e)
               k == Min(T)
    <2>1. T \in SUBSET Nat /\ T # {}
      BY <1>1, <1>5 DEF SavedAfter, Savers
    <2>2. k \in T /\ \A i \in T : k <= i
      BY <2>1, LeastNat
    <2>3. k \in (n+1)..Len(log)
      BY <2>2 DEF Savers
    <2> HIDE DEF k
    <2>4. \A i \in (n+1)..(k-1) : e \notin log[i].writes
      BY <1>1, <1>3, <2>2, <2>3 DEF Savers
    <2>5. k \in (n+1)..(Len(log) + 1) /\ k \in 1..Len(log)
      BY <1>1, <1>3, <2>3
    <2>6. Part(self, Finds(log, k), e) = Part(self, Finds(log, n + 1), e)
      BY <1>3, <2>4, <2>5, UnsavedStays
    <2>7. Part(self, log[k].pre, e) = Part(self, Finds(log, k), e)
      BY <2>5 DEF Replays, Alike
    <2>8. Saved(n)[e] = log[k].pre
      BY <1>5 DEF Saved, k
    <2> QED
      BY <1>5, <2>6, <2>7, <2>8 DEF LoadsWhatWasSaved
  <1> QED
    BY <1>4, <1>5

\* How far a rollback goes back: down to what is released, and to the last
\* record before its stamp.
LEMMA KeptRange ==
    ASSUME IsSequence(log), base \in 0..Len(log), NEW to, NEW k, k = Kept(to)
    PROVE  /\ k \in base..Len(log)
           /\ \A i \in (k+1)..Len(log) : Le(to, log[i].ev.ts)
           /\ k > base => ~ Le(to, log[k].ev.ts)
  <1> DEFINE B == {i \in (base+1)..Len(log) : Le(to, log[i].ev.ts)}
  <1>1. Len(log) \in Nat
    BY Appended
  <1>2. {n \in base..Len(log) : \A i \in (n+1)..Len(log) : i \in B}
        = {n \in base..Len(log) : \A i \in (n+1)..Len(log) : Le(to, log[i].ev.ts)}
    BY <1>1
  <1>3. k = Min({n \in base..Len(log) : \A i \in (n+1)..Len(log) : i \in B})
    BY <1>2 DEF Kept
  <1> HIDE DEF B
  <1>4. /\ k \in base..Len(log) /\ (\A i \in (k+1)..Len(log) : i \in B)
        /\ k > base => k \notin B
    BY <1>1, <1>3, BackCutTo
  <1> QED
    BY <1>1, <1>4 DEF B

\* What the fossil collection releases is at the front of the list.
LEMMA PrunedRange ==
    ASSUME IsSequence(log), base \in 0..Len(log), NEW g, NEW k, k = PrunedRecords(g)
    PROVE  /\ k \in base..Len(log)
           /\ \A i \in (base+1)..k : Lt(log[i].ev.ts, g)
           /\ k < Len(log) => ~ Lt(log[k + 1].ev.ts, g)
  <1> DEFINE B == {i \in (base+1)..Len(log) : Lt(log[i].ev.ts, g)}
  <1>1. Len(log) \in Nat
    BY Appended
  <1>2. {n \in base..Len(log) : \A i \in (base+1)..n : i \in B}
        = {n \in base..Len(log) : \A i \in (base+1)..n : Lt(log[i].ev.ts, g)}
    BY <1>1
  <1>3. k = Max({n \in base..Len(log) : \A i \in (base+1)..n : i \in B})
    BY <1>2 DEF PrunedRecords
  <1> HIDE DEF B
  <1>4. /\ k \in base..Len(log) /\ (\A i \in (base+1)..k : i \in B)
        /\ k < Len(log) => k + 1 \notin B
    BY <1>1, <1>3, FrontCutFrom
  <1> QED
    BY <1>1, <1>4 DEF B

ReplayInv == base \in 0..Len(log) /\ Replays(log, state)

\* A change of the state that snapshots do not tell.
LEMMA ReplaysAlike ==
    ASSUME NEW L, NEW s, Replays(L, s), NEW t, Alike(t, s)
    PROVE  Replays(L, t)
  BY DEF Replays, Alike

\* Executing an event.
LEMMA ReplayExecute ==
    ASSUME ReplayInv, AsksToWrite, Execute
    PROVE  base' \in 0..Len(log') /\ Replays(log', state')
  <1>1. PICK ev \in todo :
           LET r == OnEvent(self, state, ev)
           IN  /\ Ready(ev) /\ state' = r.state /\ base' = base
               /\ log' = Append(log, Record(ev, r.writes))
    BY DEF Execute
  <1> DEFINE r == OnEvent(self, state, ev)
             rec == Record(ev, r.writes)
  <1>2. rec.pre = state /\ rec.ev = ev /\ rec.writes = r.writes /\ ~ ev.anti
    BY <1>1 DEF Record, Ready
  <1>3. \A e \in Entities(self) \ r.writes : Part(self, r.state, e) = Part(self, state, e)
    BY <1>1 DEF AsksToWrite
  <1>4. Replays(log, state) /\ IsSequence(log) /\ base \in 0..Len(log)
    BY DEF ReplayInv, Replays
  <1>5. Alike(rec.pre, state)
    BY <1>2 DEF Alike
  <1>6. r.state = IF rec.ev.anti THEN rec.pre ELSE OnEvent(self, rec.pre, rec.ev).state
    BY <1>2
  <1>7. log' = Append(log, rec) /\ state' = r.state /\ base' = base
    BY <1>1
  <1> HIDE DEF rec, r
  <1>8. Replays(Append(log, rec), r.state)
    <2>1. \A e \in Entities(self) \ rec.writes : Part(self, r.state, e) = Part(self, rec.pre, e)
      BY <1>2, <1>3
    <2> QED
      BY <1>4, <1>5, <1>6, <2>1, ReplaysAppend
  <1>9. Len(log') = Len(log) + 1 /\ Len(log) \in Nat
    BY <1>4, <1>7, Appended
  <1> QED
    BY <1>4, <1>7, <1>8, <1>9

\* Keeping an event aside: its handler has not acted.
LEMMA ReplayDefer ==
    ASSUME ReplayInv, AsksToWrite, Defer
    PROVE  base' \in 0..Len(log') /\ Replays(log', state')
  <1>1. PICK ev \in todo :
           LET r == OnEvent(self, state, ev)
           IN  Ready(ev) /\ r.missing /\ state' = r.state /\ UNCHANGED <<base, log>>
    BY DEF Defer, Deferrable
  <1>2. Alike(state', state)
    BY <1>1 DEF AsksToWrite
  <1> QED
    BY <1>1, <1>2, ReplaysAlike DEF ReplayInv

\* Rolling back, and processing an anti-message.
LEMMA ReplayBack ==
    ASSUME ReplayInv, LoadsWhatWasSaved, Straggler \/ CancelProcessed
    PROVE  base' \in 0..Len(log') /\ Replays(log', state')
  <1>1. PICK ev \in todo :
           LET M == SubSeq(log, 1, Kept(ev.ts))
           IN  /\ state' = Restored(Kept(ev.ts)) /\ base' = base
               /\ \/ log' = M
                  \/ ev.anti /\ log' = Append(M, [Record(ev, {}) EXCEPT !.pre = state'])
    BY DEF Straggler, CancelProcessed, RollBack, Ready
  <1> DEFINE n == Kept(ev.ts)
             M == SubSeq(log, 1, n)
             rec == [Record(ev, {}) EXCEPT !.pre = state']
  <1>2. Replays(log, state) /\ IsSequence(log) /\ base \in 0..Len(log)
    BY DEF ReplayInv, Replays
  <1>3. n \in base..Len(log)
    BY <1>2, KeptRange
  <1>4. state' = Restored(n) /\ base' = base
    BY <1>1
  <1>5. /\ rec.ev = ev /\ rec.pre = state' /\ rec.writes = {}
    BY DEF Record
  <1>6. log' = M \/ (ev.anti /\ log' = Append(M, rec))
    BY <1>1
  <1> HIDE DEF n, rec
  <1>7. Len(log) \in Nat /\ n \in 0..Len(log)
    BY <1>2, <1>3, Appended
  <1>8. Alike(state', Finds(log, n + 1))
    BY <1>2, <1>3, <1>4, RestoredAlike
  <1>9. Replays(M, state')
    BY <1>2, <1>7, <1>8, ReplaysCut
  <1>10. IsSequence(M) /\ Len(M) = n
    BY <1>2, <1>7, CutOff
  <1> HIDE DEF M
  <1>11. CASE log' = M
    BY <1>2, <1>3, <1>4, <1>7, <1>9, <1>10, <1>11
  <1>12. CASE ev.anti /\ log' = Append(M, rec)
    <2>1. Alike(rec.pre, state')
      BY <1>5 DEF Alike
    <2>2. /\ state' = IF rec.ev.anti THEN rec.pre ELSE OnEvent(self, rec.pre, rec.ev).state
          /\ \A e \in Entities(self) \ rec.writes : Part(self, state', e) = Part(self, rec.pre, e)
      BY <1>5, <1>12
    <2>3. Replays(Append(M, rec), state')
      BY <1>9, <2>1, <2>2, ReplaysAppend
    <2>4. Len(log') = n + 1
      BY <1>10, <1>12, Appended
    <2> QED
      BY <1>2, <1>3, <1>4, <1>7, <1>12, <2>3, <2>4
  <1> QED
    BY <1>6, <1>11, <1>12

\* An anti-message that finds nothing to undo.
LEMMA ReplayPending ==
    ASSUME ReplayInv, CancelPending
    PROVE  base' \in 0..Len(log') /\ Replays(log', state')
  <1>1. PICK ev \in todo : /\ ev.anti /\ log' = Append(log, Record(ev, {}))
                           /\ UNCHANGED <<state, base>>
    BY DEF CancelPending
  <1> DEFINE rec == Record(ev, {})
  <1>2. rec.pre = state /\ rec.ev = ev /\ rec.writes = {}
    BY DEF Record
  <1>3. log' = Append(log, rec)
    BY <1>1
  <1> HIDE DEF rec
  <1>4. Replays(log, state) /\ IsSequence(log) /\ base \in 0..Len(log)
    BY DEF ReplayInv, Replays
  <1>5. Alike(rec.pre, state)
    BY <1>2 DEF Alike
  <1>6. /\ state = IF rec.ev.anti THEN rec.pre ELSE OnEvent(self, rec.pre, rec.ev).state
        /\ \A e \in Entities(self) \ rec.writes : Part(self, state, e) = Part(self, rec.pre, e)
    BY <1>1, <1>2
  <1>7. Replays(Append(log, rec), state)
    BY <1>4, <1>5, <1>6, ReplaysAppend
  <1>8. Len(log') = Len(log) + 1 /\ Len(log) \in Nat
    BY <1>3, <1>4, Appended
  <1> QED
    BY <1>1, <1>3, <1>4, <1>7, <1>8

\* Every step.
LEMMA ReplayStep ==
    ASSUME ReplayInv, ContractKept, [Next]_vars
    PROVE  ReplayInv'
  <1>1. AsksToWrite /\ LoadsWhatWasSaved
    BY DEF ContractKept
  <1>2. ASSUME Discard \/ Arrive \/ Withdraw \/ UNCHANGED vars
        PROVE  base' \in 0..Len(log') /\ Replays(log', state')
    <2>1. UNCHANGED <<base, log, state>>
      BY <1>2 DEF Discard, Arrive, Withdraw, lpVars, vars
    <2> QED
      BY <2>1 DEF ReplayInv
  <1>3. ASSUME AdvanceGvt
        PROVE  base' \in 0..Len(log') /\ Replays(log', state')
    <2>1. PICK g : base' = PrunedRecords(g) /\ UNCHANGED <<log, state>>
      BY <1>3 DEF AdvanceGvt, GvtAdvances
    <2>2. /\ IsSequence(log) /\ base \in 0..Len(log) /\ Replays(log, state)
          /\ Len(log) \in Nat
      BY Appended DEF ReplayInv, Replays
    <2>3. base' \in base..Len(log)
      BY <2>1, <2>2, PrunedRange
    <2> QED
      BY <2>1, <2>2, <2>3
  <1>4. base' \in 0..Len(log') /\ Replays(log', state')
    BY <1>1, <1>2, <1>3, ReplayExecute, ReplayDefer, ReplayBack, ReplayPending
       DEF Next, Kernel, ReplayInv
  <1>5. self' = self
    BY DEF Next, Kernel, Execute, Defer, Straggler, CancelProcessed, CancelPending,
           Discard, Arrive, Withdraw, AdvanceGvt, lpVars, vars
  <1> QED
    BY <1>4, <1>5 DEF ReplayInv, Replays, Alike, Finds, Leaves

\* If the LP asks to write what it changes, and loading restores what was saved,
\* rollback is invisible to it: whatever came too early, was withdrawn or kept
\* aside, each handler of the standing records found the state that the one
\* before it left, and the LP is in the state that the last one left.
THEOREM RollbackIsInvisible == Spec /\ []ContractKept => []StateIsReplay
  <1>1. Init => ReplayInv
    <2> HAVE Init
    <2>1. IsSequence(log) /\ Len(log) = 0 /\ base = 0
      <3>1. log \in Seq({}) /\ log = <<>>
        BY DEF Init
      <3> QED
        BY <3>1 DEF Init, IsSequence
    <2>2. Alike(state, Finds(log, 1))
      BY DEF Init, Alike, Finds
    <2> QED
      BY <2>1, <2>2 DEF ReplayInv, Replays
  <1>2. ReplayInv /\ ContractKept /\ [Next]_vars => ReplayInv'
    BY ReplayStep
  <1>3. ReplayInv => StateIsReplay
    BY DEF ReplayInv, Replays, StateIsReplay, Finds, Leaves, Before, After
  <1> QED
    BY <1>1, <1>2, <1>3, PTL DEF Spec

-----------------------------------------------------------------------------
(***************************************************************************)
(* What stands of the LP's messages is what its standing records sent.     *)
(***************************************************************************)
\* What the handler of a record sends.
SendsOf(rec) == OnEvent(self, rec.pre, rec.ev).sends

\* A list of records L, of which the first b are released, and a sent log S, of
\* which the first sb are: with different events, from the virtual time v on.
Distinct(L) ==
    \A i, j \in 1..Len(L) :
        (~ L[i].ev.anti /\ ~ L[j].ev.anti /\ Key(L[i].ev) = Key(L[j].ev)) => i = j

InOrder(L, b, v) ==
    \A i \in (b+1)..Len(L) : /\ Le(L[i].ev.ts, v)
                             /\ \A j \in (b+1)..(i-1) : Le(L[j].ev.ts, L[i].ev.ts)
SentInOrder(S, sb, v) ==
    \A i \in (sb+1)..Len(S) : /\ Le(S[i].at, v)
                              /\ \A j \in (sb+1)..(i-1) : Le(S[j].at, S[i].at)

\* A message has the stamp of its record, and is released when the record is.
Aligned(L, b, S, sb) ==
    \A i \in 1..Len(L) : \A m \in 1..Len(S) :
        ~ L[i].ev.anti /\ S[m].of = Key(L[i].ev)
        => S[m].at = L[i].ev.ts /\ (m > sb <=> i > b)

\* The messages of record i are in a row after position n.
InARow(L, i, S, n) ==
    LET sends == SendsOf(L[i])
    IN  /\ {m \in 1..Len(S) : S[m].of = Key(L[i].ev)} = (n+1)..(n + Len(sends))
        /\ \A j \in 1..Len(sends) : /\ S[n + j].ev.dst = sends[j].dst
                                    /\ S[n + j].ev.body = sends[j].body

Stands(L, S) ==
    /\ \A i \in 1..Len(L) : ~ L[i].ev.anti => \E n \in 0..Len(S) : InARow(L, i, S, n)
    /\ \A m \in 1..Len(S) : \E i \in 1..Len(L) : ~ L[i].ev.anti /\ Key(L[i].ev) = S[m].of

Logs(L, b, S, sb, v) ==
    /\ IsSequence(L) /\ b \in 0..Len(L) /\ IsSequence(S) /\ sb \in 0..Len(S)
    /\ v \in Stamp
    /\ \A i \in 1..Len(L) : /\ L[i].ev.ts \in Stamp
                            /\ ~ L[i].ev.anti => Len(SendsOf(L[i])) \in Nat
    /\ \A m \in 1..Len(S) : S[m].at \in Stamp
    /\ Distinct(L) /\ InOrder(L, b, v) /\ SentInOrder(S, sb, v)
    /\ Aligned(L, b, S, sb) /\ Stands(L, S)

\* Cutting both lists back to a stamp.
LEMMA LogsCut ==
    ASSUME NEW L, NEW b, NEW S, NEW sb, NEW v, Logs(L, b, S, sb, v),
           NEW to \in Stamp, NEW w \in Stamp, \A a \in Stamp : Lt(a, to) => Le(a, w),
           NEW n \in b..Len(L), \A i \in (n+1)..Len(L) : Le(to, L[i].ev.ts),
           n > b => ~ Le(to, L[n].ev.ts),
           NEW k \in sb..Len(S), \A i \in (k+1)..Len(S) : Le(to, S[i].at),
           k > sb => ~ Le(to, S[k].at)
    PROVE  Logs(SubSeq(L, 1, n), b, SubSeq(S, 1, k), sb, w)
  <1> DEFINE M == SubSeq(L, 1, n)
             R == SubSeq(S, 1, k)
  <1>1. /\ IsSequence(L) /\ IsSequence(S) /\ Len(L) \in Nat /\ Len(S) \in Nat
        /\ b \in 0..Len(L) /\ sb \in 0..Len(S) /\ n \in 0..Len(L) /\ k \in 0..Len(S)
    BY Appended DEF Logs
  <1>2. /\ IsSequence(M) /\ Len(M) = n
        /\ \A i \in 1..n : M[i] = L[i] /\ i \in 1..Len(L)
    BY <1>1, CutOff
  <1>3. /\ IsSequence(R) /\ Len(R) = k
        /\ \A i \in 1..k : R[i] = S[i] /\ i \in 1..Len(S)
    BY <1>1, CutOff, ZenonT(40)
  <1> HIDE DEF M, R
  <1>4. ASSUME NEW i \in (b+1)..Len(L)
        PROVE  i \in 1..Len(L) /\ (i <= n <=> Lt(L[i].ev.ts, to))
    <2>1. i \in 1..Len(L) /\ L[i].ev.ts \in Stamp
      BY <1>1 DEF Logs
    <2>2. CASE i <= n
      <3>1. n \in (b+1)..Len(L) /\ n > b /\ n \in 1..Len(L)
        BY <1>1, <2>2
      <3>2. Lt(L[n].ev.ts, to)
        BY <3>1 DEF Le
      <3>3. i = n \/ i \in (b+1)..(n-1)
        BY <1>1, <2>2
      <3>4. i = n \/ Le(L[i].ev.ts, L[n].ev.ts)
        BY <3>1, <3>3 DEF Logs, InOrder
      <3>5. L[n].ev.ts \in Stamp
        BY <3>1 DEF Logs
      <3> QED
        BY <2>1, <2>2, <3>2, <3>4, <3>5, LeOrder
    <2>3. CASE ~ (i <= n)
      <3>1. Le(to, L[i].ev.ts)
        BY <1>1, <2>3
      <3> QED
        BY <2>1, <2>3, <3>1 DEF Le
    <2> QED
      BY <2>1, <2>2, <2>3
  <1>5. ASSUME NEW m \in (sb+1)..Len(S)
        PROVE  m \in 1..Len(S) /\ (m <= k <=> Lt(S[m].at, to))
    <2>1. m \in 1..Len(S) /\ S[m].at \in Stamp
      BY <1>1 DEF Logs
    <2>2. CASE m <= k
      <3>1. k \in (sb+1)..Len(S) /\ k > sb /\ k \in 1..Len(S)
        BY <1>1, <2>2
      <3>2. Lt(S[k].at, to)
        BY <3>1 DEF Le
      <3>3. m = k \/ m \in (sb+1)..(k-1)
        BY <1>1, <2>2
      <3>4. m = k \/ Le(S[m].at, S[k].at)
        BY <3>1, <3>3 DEF Logs, SentInOrder
      <3>5. S[k].at \in Stamp
        BY <3>1 DEF Logs
      <3> QED
        BY <2>1, <2>2, <3>2, <3>4, <3>5, LeOrder
    <2>3. CASE ~ (m <= k)
      <3>1. Le(to, S[m].at)
        BY <1>1, <2>3
      <3> QED
        BY <2>1, <2>3, <3>1 DEF Le
    <2> QED
      BY <2>1, <2>2, <2>3
  <1>6. ASSUME NEW i \in 1..Len(L), NEW m \in 1..Len(S), ~ L[i].ev.anti,
               S[m].of = Key(L[i].ev)
        PROVE  i \in 1..n <=> m \in 1..k
    <2>1. S[m].at = L[i].ev.ts /\ (m > sb <=> i > b)
      BY <1>6 DEF Logs, Aligned
    <2>2. CASE i > b
      <3>1. i \in (b+1)..Len(L) /\ m \in (sb+1)..Len(S)
        BY <1>1, <2>1, <2>2
      <3> QED
        BY <1>1, <1>4, <1>5, <2>1, <3>1
    <2>3. CASE ~ (i > b)
      BY <1>1, <2>1, <2>3
    <2> QED
      BY <2>2, <2>3
  <1>7. Distinct(M)
    BY <1>2 DEF Logs, Distinct
  <1>8. InOrder(M, b, w)
    <2>1. ASSUME NEW i \in (b+1)..n
          PROVE  /\ Le(M[i].ev.ts, w)
                 /\ \A j \in (b+1)..(i-1) : Le(M[j].ev.ts, M[i].ev.ts)
      <3>1. i \in (b+1)..Len(L) /\ i \in 1..n /\ i \in 1..Len(L)
        BY <1>1
      <3>2. L[i].ev.ts \in Stamp /\ Lt(L[i].ev.ts, to)
        BY <1>1, <1>4, <3>1 DEF Logs
      <3>3. ASSUME NEW j \in (b+1)..(i-1)
            PROVE  Le(M[j].ev.ts, M[i].ev.ts)
        <4>1. j \in 1..n
          BY <1>1, <3>1
        <4>2. Le(L[j].ev.ts, L[i].ev.ts)
          BY <3>1 DEF Logs, InOrder
        <4> QED
          BY <1>2, <3>1, <4>1, <4>2
      <3> QED
        BY <1>2, <3>1, <3>2, <3>3
    <2> QED
      BY <1>2, <2>1 DEF InOrder
  <1>9. SentInOrder(R, sb, w)
    <2>1. ASSUME NEW i \in (sb+1)..k
          PROVE  Le(R[i].at, w) /\ \A j \in (sb+1)..(i-1) : Le(R[j].at, R[i].at)
      <3>1. i \in (sb+1)..Len(S) /\ i \in 1..k /\ i \in 1..Len(S)
        BY <1>1
      <3>2. S[i].at \in Stamp /\ Lt(S[i].at, to)
        BY <1>1, <1>5, <3>1 DEF Logs
      <3>3. ASSUME NEW j \in (sb+1)..(i-1)
            PROVE  Le(R[j].at, R[i].at)
        <4>1. j \in 1..k
          BY <1>1, <3>1
        <4>2. Le(S[j].at, S[i].at)
          BY <3>1 DEF Logs, SentInOrder
        <4> QED
          BY <1>3, <3>1, <4>1, <4>2
      <3> QED
        BY <1>3, <3>1, <3>2, <3>3
    <2> QED
      BY <1>3, <2>1 DEF SentInOrder
  <1>10. Aligned(M, b, R, sb)
    <2>1. Aligned(L, b, S, sb)
      BY DEF Logs
    <2>2. ASSUME NEW i \in 1..n, NEW m \in 1..k, ~ M[i].ev.anti,
                 R[m].of = Key(M[i].ev)
          PROVE  R[m].at = M[i].ev.ts /\ (m > sb <=> i > b)
      <3>1. M[i] = L[i] /\ i \in 1..Len(L) /\ R[m] = S[m] /\ m \in 1..Len(S)
        BY <1>2, <1>3
      <3> QED
        BY <2>1, <2>2, <3>1 DEF Aligned
    <2> QED
      BY <1>2, <1>3, <2>2 DEF Aligned
  <1>11. ASSUME NEW i \in 1..n, ~ M[i].ev.anti
         PROVE  \E p \in 0..k : InARow(M, i, R, p)
    <2> DEFINE sends == SendsOf(L[i])
               c == Len(sends)
    <2>1. M[i] = L[i] /\ i \in 1..Len(L) /\ c \in Nat
      BY <1>2, <1>11 DEF Logs
    <2>2. PICK p \in 0..Len(S) : InARow(L, i, S, p)
      BY <1>11, <2>1 DEF Logs, Stands
    <2>3. {m \in 1..Len(S) : S[m].of = Key(L[i].ev)} = (p+1)..(p + c)
      BY <2>2 DEF InARow
    <2> HIDE DEF c, sends
    <2>4. \A m \in 1..Len(S) : S[m].of = Key(L[i].ev) => m \in 1..k
      BY <1>6, <1>11, <2>1
    <2>5. {m \in 1..k : R[m].of = Key(M[i].ev)} = (p+1)..(p + c)
      <3>1. \A m \in 1..k : R[m] = S[m] /\ m \in 1..Len(S)
        BY <1>3
      <3> QED
        BY <2>1, <2>3, <2>4, <3>1
    <2>6. ASSUME NEW j \in 1..c
          PROVE  p + j \in 1..k
      <3>1. p + j \in (p+1)..(p + c)
        BY <1>1, <2>1
      <3> QED
        BY <2>5, <3>1
    <2>7. CASE c > 0
      <3>1. p \in 0..k
        BY <1>1, <2>1, <2>6, <2>7
      <3>2. \A j \in 1..c : R[p + j] = S[p + j]
        BY <1>3, <2>6
      <3>3. InARow(M, i, R, p)
        <4>1. \A j \in 1..c : /\ S[p + j].ev.dst = sends[j].dst
                              /\ S[p + j].ev.body = sends[j].body
          BY <2>2 DEF InARow, c, sends
        <4>2. /\ {m \in 1..Len(R) : R[m].of = Key(M[i].ev)} = (p+1)..(p + c)
              /\ \A j \in 1..c : /\ R[p + j].ev.dst = sends[j].dst
                                /\ R[p + j].ev.body = sends[j].body
          BY <1>3, <2>5, <3>2, <4>1
        <4> QED
          BY <2>1, <4>2 DEF InARow, c, sends
      <3> QED
        BY <3>1, <3>3
    <2>8. CASE c = 0
      <3>1. {m \in 1..k : R[m].of = Key(M[i].ev)} = (0+1)..(0 + c)
        BY <1>1, <2>5, <2>8
      <3>2. InARow(M, i, R, 0)
        BY <1>3, <2>1, <2>8, <3>1 DEF InARow, c, sends
      <3> QED
        BY <1>1, <3>2
    <2> QED
      BY <2>1, <2>7, <2>8
  <1>12. ASSUME NEW m \in 1..k
         PROVE  \E i \in 1..n : ~ M[i].ev.anti /\ Key(M[i].ev) = R[m].of
    <2>1. R[m] = S[m] /\ m \in 1..Len(S)
      BY <1>3
    <2>2. PICK i \in 1..Len(L) : ~ L[i].ev.anti /\ Key(L[i].ev) = S[m].of
      BY <2>1 DEF Logs, Stands
    <2>3. i \in 1..n
      BY <1>6, <2>1, <2>2
    <2> QED
      BY <1>2, <2>1, <2>2, <2>3
  <1>13. Stands(M, R)
    BY <1>2, <1>3, <1>11, <1>12 DEF Stands
  <1>14. /\ \A i \in 1..n : /\ M[i].ev.ts \in Stamp
                            /\ ~ M[i].ev.anti => Len(SendsOf(M[i])) \in Nat
         /\ \A m \in 1..k : R[m].at \in Stamp
    BY <1>2, <1>3 DEF Logs
  <1>15. b \in 0..n /\ sb \in 0..k
    BY <1>1
  <1> QED
    BY <1>2, <1>3, <1>7, <1>8, <1>9, <1>10, <1>13, <1>14, <1>15 DEF Logs, M, R

\* M is L and c more.
Continues(M, L, c) == /\ Len(L) \in Nat /\ c \in Nat /\ Len(M) = Len(L) + c
                      /\ \A i \in 1..Len(L) : M[i] = L[i]

\* One record more, at the end, and of an event that has none yet.
LEMMA DistinctMore ==
    ASSUME NEW L, NEW n \in Nat, Len(L) = n, Distinct(L),
           NEW M, Len(M) = n + 1, \A i \in 1..n : M[i] = L[i],
           ~ M[n + 1].ev.anti =>
              \A i \in 1..n : ~ L[i].ev.anti => Key(L[i].ev) # Key(M[n + 1].ev)
    PROVE  Distinct(M)
  <1> SUFFICES ASSUME NEW i \in 1..(n + 1), NEW j \in 1..(n + 1), ~ M[i].ev.anti,
                      ~ M[j].ev.anti, Key(M[i].ev) = Key(M[j].ev)
               PROVE  i = j
    BY DEF Distinct
  <1>1. CASE i \in 1..n /\ j \in 1..n
    BY <1>1 DEF Distinct
  <1>2. CASE i = n + 1 /\ j \in 1..n
    BY <1>2
  <1>3. CASE i \in 1..n /\ j = n + 1
    BY <1>3
  <1>4. CASE i = n + 1 /\ j = n + 1
    BY <1>4
  <1> QED
    BY <1>1, <1>2, <1>3, <1>4

\* One record more, not before the virtual time.
LEMMA InOrderMore ==
    ASSUME NEW L, NEW M, Continues(M, L, 1), NEW b \in 0..Len(L), NEW v, v \in Stamp,
           InOrder(L, b, v), \A i \in 1..Len(L) : L[i].ev.ts \in Stamp,
           M[Len(L) + 1].ev.ts \in Stamp, Le(v, M[Len(L) + 1].ev.ts)
    PROVE  InOrder(M, b, M[Len(L) + 1].ev.ts)
  <1> DEFINE n == Len(L)
             x == M[n + 1].ev.ts
  <1>1. /\ n \in Nat /\ b \in 0..n /\ Len(M) = n + 1 /\ \A i \in 1..n : M[i] = L[i]
        /\ M[n + 1].ev.ts = x /\ x \in Stamp /\ Le(v, x)
    BY DEF Continues
  <1>2. /\ \A i \in 1..n : L[i].ev.ts \in Stamp
        /\ \A i \in (b+1)..n : /\ Le(L[i].ev.ts, v)
                              /\ \A j \in (b+1)..(i-1) : Le(L[j].ev.ts, L[i].ev.ts)
    BY DEF InOrder
  <1> SUFFICES InOrder(M, b, x)
    OBVIOUS
  <1> HIDE DEF n, x
  <1>3. ASSUME NEW j \in (b+1)..n
        PROVE  Le(M[j].ev.ts, x) /\ \A i \in (b+1)..(j-1) : Le(M[i].ev.ts, M[j].ev.ts)
    <2>1. j \in 1..n /\ \A i \in (b+1)..(j-1) : i \in 1..n
      BY <1>1
    <2>2. Le(L[j].ev.ts, v) /\ \A i \in (b+1)..(j-1) : Le(L[i].ev.ts, L[j].ev.ts)
      BY <1>2
    <2>3. Le(L[j].ev.ts, x)
      BY <1>1, <1>2, <2>1, <2>2, LeOrder
    <2> QED
      BY <1>1, <2>1, <2>2, <2>3
  <1>4. Le(x, x)
    BY <1>1, LeOrder
  <1> SUFFICES ASSUME NEW i \in (b+1)..(n + 1)
               PROVE  /\ Le(M[i].ev.ts, x)
                      /\ \A j \in (b+1)..(i-1) : Le(M[j].ev.ts, M[i].ev.ts)
    BY <1>1 DEF InOrder
  <1>5. CASE i \in (b+1)..n
    BY <1>3, <1>5
  <1>6. CASE i = n + 1
    <2>1. i - 1 = n
      BY <1>1, <1>6
    <2> QED
      BY <1>1, <1>3, <1>4, <1>6, <2>1
  <1> QED
    BY <1>1, <1>5, <1>6

\* Messages more, of a record at the virtual time.
LEMMA SentInOrderMore ==
    ASSUME NEW S, NEW T, NEW c, Continues(T, S, c), NEW b \in 0..Len(S), NEW v,
           v \in Stamp, SentInOrder(S, b, v), \A m \in 1..Len(S) : S[m].at \in Stamp,
           NEW x \in Stamp, \A j \in 1..c : T[Len(S) + j].at = x, Le(v, x)
    PROVE  SentInOrder(T, b, x)
  <1> DEFINE k == Len(S)
  <1>1. /\ k \in Nat /\ c \in Nat /\ b \in 0..k /\ Len(T) = k + c
        /\ (\A m \in 1..k : T[m] = S[m]) /\ \A j \in 1..c : T[k + j].at = x
    BY DEF Continues
  <1>2. /\ \A i \in 1..k : S[i].at \in Stamp
        /\ \A i \in (b+1)..k : /\ Le(S[i].at, v)
                              /\ \A j \in (b+1)..(i-1) : Le(S[j].at, S[i].at)
    BY DEF SentInOrder
  <1> HIDE DEF k
  <1>3. ASSUME NEW j \in (b+1)..k
        PROVE  Le(T[j].at, x) /\ \A i \in (b+1)..(j-1) : Le(T[i].at, T[j].at)
    <2>1. j \in 1..k /\ \A i \in (b+1)..(j-1) : i \in 1..k
      BY <1>1
    <2>2. Le(S[j].at, v) /\ \A i \in (b+1)..(j-1) : Le(S[i].at, S[j].at)
      BY <1>2
    <2>3. Le(S[j].at, x)
      BY <1>2, <2>1, <2>2, LeOrder
    <2> QED
      BY <1>1, <2>1, <2>2, <2>3
  <1>4. ASSUME NEW j \in (b+1)..(k + c)
        PROVE  j \in (b+1)..k \/ T[j].at = x
    <2>1. CASE j > k
      <3>1. j - k \in 1..c /\ k + (j - k) = j
        BY <1>1, <2>1
      <3> QED
        BY <1>1, <3>1
    <2> QED
      BY <1>1, <2>1
  <1>5. \A j \in (b+1)..(k + c) : Le(T[j].at, x)
    BY <1>3, <1>4, LeOrder
  <1> SUFFICES ASSUME NEW i \in (b+1)..(k + c)
               PROVE  Le(T[i].at, x) /\ \A j \in (b+1)..(i-1) : Le(T[j].at, T[i].at)
    BY <1>1 DEF SentInOrder
  <1>6. CASE i \in (b+1)..k
    BY <1>3, <1>6
  <1>7. CASE T[i].at = x
    <2>1. \A j \in (b+1)..(i-1) : j \in (b+1)..(k + c)
      BY <1>1
    <2> QED
      BY <1>5, <1>7, <2>1
  <1> QED
    BY <1>4, <1>6, <1>7

\* The messages of a record stay in a row when others follow.
LEMMA InARowStays ==
    ASSUME NEW L, NEW S, NEW i, NEW p \in 0..Len(S), InARow(L, i, S, p),
           Len(SendsOf(L[i])) \in Nat, NEW M, M[i] = L[i],
           NEW T, NEW c, Continues(T, S, c),
           \A m \in (Len(S)+1)..(Len(S) + c) : T[m].of # Key(L[i].ev)
    PROVE  InARow(M, i, T, p)
  <1> DEFINE k == Len(S)
             sends == SendsOf(L[i])
             d == Len(sends)
             key == Key(L[i].ev)
  <1>1. /\ k \in Nat /\ c \in Nat /\ p \in 0..k /\ Len(T) = k + c
        /\ \A m \in 1..k : T[m] = S[m]
    BY DEF Continues
  <1>2. /\ {m \in 1..k : S[m].of = key} = (p+1)..(p + d)
        /\ \A j \in 1..d : S[p + j].ev.dst = sends[j].dst /\ S[p + j].ev.body = sends[j].body
    BY DEF InARow
  <1>3. d \in Nat
    OBVIOUS
  <1>4. \A m \in (k+1)..(k + c) : T[m].of # key
    OBVIOUS
  <1>5. SUFFICES /\ {m \in 1..(k + c) : T[m].of = key} = (p+1)..(p + d)
                 /\ \A j \in 1..d : /\ T[p + j].ev.dst = sends[j].dst
                                    /\ T[p + j].ev.body = sends[j].body
    BY <1>1 DEF InARow
  <1> HIDE DEF d, key, sends, k
  <1>6. ASSUME NEW m \in 1..(k + c)
        PROVE  T[m].of = key <=> (m \in 1..k /\ S[m].of = key)
    <2>1. m \in 1..k \/ m \in (k+1)..(k + c)
      BY <1>1
    <2>2. m \in (k+1)..(k + c) => m \notin 1..k
      BY <1>1
    <2> QED
      BY <1>1, <1>4, <2>1, <2>2
  <1>7. {m \in 1..(k + c) : T[m].of = key} = {m \in 1..k : S[m].of = key}
    <2>1. 1..k \subseteq 1..(k + c)
      BY <1>1
    <2> QED
      BY <1>6, <2>1
  <1>8. ASSUME NEW j \in 1..d
        PROVE  T[p + j] = S[p + j]
    <2>1. p + j \in (p+1)..(p + d)
      BY <1>1, <1>3
    <2>2. p + j \in 1..k
      BY <1>2, <2>1
    <2> QED
      BY <1>1, <2>2
  <1> QED
    BY <1>2, <1>7, <1>8

\* A record's own messages, all at the end.
LEMMA InARowNew ==
    ASSUME NEW M, NEW i, NEW T, NEW k \in Nat, NEW c \in Nat, Len(T) = k + c,
           c = Len(SendsOf(M[i])),
           \A m \in 1..k : T[m].of # Key(M[i].ev),
           \A j \in 1..c : /\ T[k + j].of = Key(M[i].ev)
                           /\ T[k + j].ev.dst = SendsOf(M[i])[j].dst
                           /\ T[k + j].ev.body = SendsOf(M[i])[j].body
    PROVE  InARow(M, i, T, k)
  <1> DEFINE key == Key(M[i].ev)
  <1>1. \A m \in 1..k : T[m].of # key
    OBVIOUS
  <1>2. \A j \in 1..c : T[k + j].of = key
    OBVIOUS
  <1> HIDE DEF key
  <1>3. ASSUME NEW m \in 1..(k + c)
        PROVE  T[m].of = key <=> m \in (k+1)..(k + c)
    <2>1. CASE m \in 1..k
      BY <1>1, <2>1
    <2>2. CASE m > k
      <3>1. m - k \in 1..c /\ k + (m - k) = m
        BY <2>2
      <3>2. T[m].of = key
        BY <1>2, <3>1
      <3> QED
        BY <2>2, <3>2
    <2> QED
      BY <2>1, <2>2
  <1>4. {m \in 1..(k + c) : T[m].of = key} = (k+1)..(k + c)
    <2>1. (k+1)..(k + c) \subseteq 1..(k + c)
      OBVIOUS
    <2> QED
      BY <1>3, <2>1
  <1> QED
    BY <1>4 DEF InARow, key

\* A record more, and messages of its handler, which are none if the record is
\* of an anti-message.
LEMMA LogsMore ==
    ASSUME NEW L, NEW b, NEW S, NEW sb, NEW v, Logs(L, b, S, sb, v),
           NEW rec, rec.ev.ts \in Stamp, Le(v, rec.ev.ts),
           NEW M, M = Append(L, rec),
           NEW u, IsSequence(u), NEW T, T = S \o u,
           \A j \in 1..Len(u) : u[j].of = Key(rec.ev) /\ u[j].at = rec.ev.ts,
           rec.ev.anti => Len(u) = 0,
           ~ rec.ev.anti =>
              /\ Len(u) = Len(SendsOf(rec))
              /\ \A j \in 1..Len(u) : /\ u[j].ev.dst = SendsOf(rec)[j].dst
                                      /\ u[j].ev.body = SendsOf(rec)[j].body
              /\ \A i \in 1..Len(L) : ~ L[i].ev.anti => Key(L[i].ev) # Key(rec.ev)
    PROVE  Logs(M, b, T, sb, rec.ev.ts)
  <1> DEFINE n == Len(L)
             k == Len(S)
             c == Len(u)
             x == rec.ev.ts
             key == Key(rec.ev)
  <1>1. /\ IsSequence(M) /\ n \in Nat /\ Len(M) = n + 1 /\ M[n + 1] = rec
        /\ \A i \in 1..n : M[i] = L[i]
    <2>1. IsSequence(L)
      BY DEF Logs
    <2> QED
      BY <2>1, Appended
  <1>2. /\ IsSequence(T) /\ k \in Nat /\ c \in Nat /\ Len(T) = k + c
        /\ \A m \in 1..k : T[m] = S[m]
        /\ \A j \in 1..c : T[k + j] = u[j]
    <2>1. IsSequence(S)
      BY DEF Logs
    <2> QED
      BY <2>1, Extended
  <1>3. /\ b \in 0..n /\ sb \in 0..k /\ v \in Stamp
        /\ \A i \in 1..n : /\ L[i].ev.ts \in Stamp
                           /\ ~ L[i].ev.anti => Len(SendsOf(L[i])) \in Nat
        /\ \A m \in 1..k : S[m].at \in Stamp
    BY DEF Logs
  <1>4. /\ Distinct(L) /\ InOrder(L, b, v) /\ SentInOrder(S, sb, v)
        /\ Aligned(L, b, S, sb) /\ Stands(L, S)
    BY DEF Logs
  <1>5. ~ rec.ev.anti => \A i \in 1..n : ~ L[i].ev.anti => Key(L[i].ev) # key
    OBVIOUS
  <1>6. \A j \in 1..c : T[k + j].of = key /\ T[k + j].at = x /\ ~ rec.ev.anti
    BY <1>2
  <1>7. x \in Stamp /\ Le(v, x)
    OBVIOUS
  <1>8. ~ rec.ev.anti =>
           /\ c = Len(SendsOf(rec))
           /\ \A j \in 1..c : /\ T[k + j].ev.dst = SendsOf(rec)[j].dst
                              /\ T[k + j].ev.body = SendsOf(rec)[j].body
    BY <1>2
  <1>9. Len(L) = n /\ Len(S) = k
    OBVIOUS
  <1>10. rec.ev.ts = x /\ Key(rec.ev) = key
    OBVIOUS
  <1> HIDE DEF n, k, c, x, key
  <1>11. Continues(T, S, c)
    BY <1>2, <1>9 DEF Continues
  <1>12. ASSUME NEW m \in 1..(k + c), ~ m \in 1..k
         PROVE  m > k /\ T[m].of = key /\ T[m].at = x /\ ~ rec.ev.anti
    <2>1. m - k \in 1..c /\ k + (m - k) = m /\ m > k
      BY <1>2, <1>12
    <2> QED
      BY <1>6, <2>1
  <1>13. ~ rec.ev.anti => \A m \in 1..k : S[m].of # key
    <2>1. \A m \in 1..k : \E i \in 1..n : ~ L[i].ev.anti /\ Key(L[i].ev) = S[m].of
      BY <1>4, <1>9 DEF Stands
    <2> QED
      BY <1>5, <2>1
  <1>14. Distinct(M)
    <2>1. ~ M[n + 1].ev.anti =>
             \A i \in 1..n : ~ L[i].ev.anti => Key(L[i].ev) # Key(M[n + 1].ev)
      BY <1>1, <1>5, <1>10
    <2> QED
      BY <1>1, <1>4, <1>9, <2>1, DistinctMore, ZenonT(40)
  <1>15. InOrder(M, b, x)
    <2>1. M[Len(L) + 1].ev.ts = x /\ b \in 0..Len(L)
      BY <1>1, <1>3, <1>9, <1>10
    <2>2. \A i \in 1..Len(L) : L[i].ev.ts \in Stamp
      BY <1>3, <1>9
    <2>3. Continues(M, L, 1)
      BY <1>1, <1>9 DEF Continues
    <2>4. InOrder(M, b, M[Len(L) + 1].ev.ts)
      BY <1>3, <1>4, <1>7, <2>1, <2>2, <2>3, InOrderMore
    <2> QED
      BY <2>1, <2>4
  <1>16. SentInOrder(T, sb, x)
    <2>1. \A j \in 1..c : T[Len(S) + j].at = x
      BY <1>6, <1>9
    <2>2. sb \in 0..Len(S) /\ \A m \in 1..Len(S) : S[m].at \in Stamp
      BY <1>3, <1>9
    <2>3. v \in Stamp /\ SentInOrder(S, sb, v)
      BY <1>3, <1>4
    <2> QED
      BY <1>7, <1>11, <2>1, <2>2, <2>3, SentInOrderMore
  <1>17. Aligned(M, b, T, sb)
    <2> SUFFICES ASSUME NEW i \in 1..(n + 1), NEW m \in 1..(k + c), ~ M[i].ev.anti,
                        T[m].of = Key(M[i].ev)
                 PROVE  T[m].at = M[i].ev.ts /\ (m > sb <=> i > b)
      BY <1>1, <1>2 DEF Aligned
    <2>1. CASE i \in 1..n /\ m \in 1..k
      <3>1. M[i] = L[i] /\ T[m] = S[m]
        BY <1>1, <1>2, <2>1
      <3> QED
        BY <1>4, <1>9, <2>1, <3>1 DEF Aligned
    <2>2. CASE i = n + 1 /\ m \in 1..k
      <3>1. M[i] = rec /\ T[m] = S[m]
        BY <1>1, <1>2, <2>2
      <3> QED
        BY <1>10, <1>13, <2>2, <3>1
    <2>3. CASE i \in 1..n /\ ~ m \in 1..k
      <3>1. M[i] = L[i] /\ T[m].of = key /\ ~ rec.ev.anti
        BY <1>1, <1>12, <2>3
      <3> QED
        BY <1>5, <2>3, <3>1
    <2>4. CASE i = n + 1 /\ ~ m \in 1..k
      <3>1. M[i] = rec /\ T[m].at = x /\ m > k
        BY <1>1, <1>12, <2>4
      <3>2. m > sb /\ i > b
        BY <1>1, <1>2, <1>3, <2>4, <3>1
      <3> QED
        BY <1>10, <3>1, <3>2
    <2>5. (i \in 1..n \/ i = n + 1) /\ (m \in 1..k \/ ~ m \in 1..k)
      BY <1>1
    <2> QED
      BY <2>1, <2>2, <2>3, <2>4, <2>5
  <1>18. ASSUME NEW i \in 1..(n + 1), ~ M[i].ev.anti
         PROVE  \E p \in 0..(k + c) : InARow(M, i, T, p)
    <2>1. CASE i \in 1..n
      <3>1. M[i] = L[i] /\ ~ L[i].ev.anti
        BY <1>1, <1>18, <2>1
      <3>2. PICK p \in 0..k : InARow(L, i, S, p)
        BY <1>4, <1>9, <2>1, <3>1 DEF Stands
      <3>3. Len(SendsOf(L[i])) \in Nat
        BY <1>3, <2>1, <3>1
      <3>4. \A m \in (k+1)..(k + c) : m \in 1..(k + c) /\ ~ m \in 1..k
        BY <1>2
      <3>5. \A m \in (k+1)..(k + c) : T[m].of # Key(L[i].ev)
        BY <1>5, <1>12, <2>1, <3>1, <3>4
      <3>6. InARow(M, i, T, p)
        <4>1. p \in 0..Len(S) /\ \A m \in (Len(S)+1)..(Len(S) + c) : T[m].of # Key(L[i].ev)
          BY <1>9, <3>5
        <4> QED
          BY <1>11, <3>1, <3>2, <3>3, <4>1, InARowStays
      <3>7. p \in 0..(k + c)
        BY <1>2
      <3> QED
        BY <3>6, <3>7
    <2>2. CASE i = n + 1
      <3>1. M[i] = rec /\ ~ rec.ev.anti
        BY <1>1, <1>18, <2>2
      <3>2. \A m \in 1..k : T[m].of # Key(M[i].ev)
        BY <1>2, <1>10, <1>13, <3>1
      <3>3. c = Len(SendsOf(M[i]))
        BY <1>8, <3>1
      <3>4. \A j \in 1..c : /\ T[k + j].of = Key(M[i].ev)
                            /\ T[k + j].ev.dst = SendsOf(M[i])[j].dst
                            /\ T[k + j].ev.body = SendsOf(M[i])[j].body
        BY <1>6, <1>8, <1>10, <3>1
      <3>5. InARow(M, i, T, k)
        BY <1>2, <3>2, <3>3, <3>4, InARowNew, ZenonT(40)
      <3>6. k \in 0..(k + c)
        BY <1>2
      <3> QED
        BY <3>5, <3>6
    <2> QED
      BY <1>1, <2>1, <2>2
  <1>19. ASSUME NEW m \in 1..(k + c)
         PROVE  \E i \in 1..(n + 1) : ~ M[i].ev.anti /\ Key(M[i].ev) = T[m].of
    <2>1. CASE m \in 1..k
      <3>1. PICK i \in 1..n : ~ L[i].ev.anti /\ Key(L[i].ev) = S[m].of
        BY <1>4, <1>9, <2>1 DEF Stands
      <3>2. i \in 1..(n + 1) /\ M[i] = L[i] /\ T[m] = S[m]
        BY <1>1, <1>2, <2>1
      <3> QED
        BY <3>1, <3>2
    <2>2. CASE ~ m \in 1..k
      <3>1. n + 1 \in 1..(n + 1)
        BY <1>1
      <3> QED
        BY <1>1, <1>10, <1>12, <2>2, <3>1
    <2> QED
      BY <2>1, <2>2
  <1>20. Stands(M, T)
    BY <1>1, <1>2, <1>18, <1>19 DEF Stands
  <1>21. ASSUME NEW i \in 1..(n + 1)
         PROVE  M[i].ev.ts \in Stamp /\ (~ M[i].ev.anti => Len(SendsOf(M[i])) \in Nat)
    <2>1. CASE i \in 1..n
      BY <1>1, <1>3, <2>1
    <2>2. CASE i = n + 1
      <3>1. M[i] = rec
        BY <1>1, <2>2
      <3> QED
        BY <1>2, <1>7, <1>8, <1>10, <3>1
    <2> QED
      BY <1>1, <2>1, <2>2
  <1>22. \A m \in 1..(k + c) : T[m].at \in Stamp
    BY <1>2, <1>3, <1>7, <1>12
  <1>23. b \in 0..(n + 1) /\ sb \in 0..(k + c)
    BY <1>1, <1>2, <1>3
  <1>24. Logs(M, b, T, sb, x)
    BY <1>1, <1>2, <1>7, <1>14, <1>15, <1>16, <1>17, <1>20, <1>21, <1>22, <1>23 DEF Logs
  <1> QED
    BY <1>24 DEF x

\* Releasing what is before a stamp, at the front of both lists.
LEMMA LogsPruned ==
    ASSUME NEW L, NEW b, NEW S, NEW sb, NEW v, Logs(L, b, S, sb, v), NEW g \in Stamp,
           NEW n \in b..Len(L), \A i \in (b+1)..n : Lt(L[i].ev.ts, g),
           n < Len(L) => ~ Lt(L[n + 1].ev.ts, g),
           NEW k \in sb..Len(S), \A i \in (sb+1)..k : Lt(S[i].at, g),
           k < Len(S) => ~ Lt(S[k + 1].at, g)
    PROVE  Logs(L, n, S, k, v)
  <1>1. /\ IsSequence(L) /\ IsSequence(S) /\ Len(L) \in Nat /\ Len(S) \in Nat
        /\ b \in 0..Len(L) /\ sb \in 0..Len(S)
    BY Appended DEF Logs
  <1>2. ASSUME NEW i \in (b+1)..Len(L)
        PROVE  i \in 1..Len(L) /\ (i <= n <=> Lt(L[i].ev.ts, g))
    <2>1. i \in 1..Len(L) /\ L[i].ev.ts \in Stamp
      BY <1>1 DEF Logs
    <2>2. CASE i <= n
      BY <1>1, <2>1, <2>2
    <2>3. CASE ~ (i <= n)
      <3>1. n + 1 \in (b+1)..Len(L) /\ n < Len(L) /\ n + 1 \in 1..Len(L)
        BY <1>1, <2>3
      <3>2. Le(g, L[n + 1].ev.ts) /\ L[n + 1].ev.ts \in Stamp
        BY <3>1 DEF Le, Logs
      <3>3. i = n + 1 \/ n + 1 \in (b+1)..(i-1)
        BY <1>1, <2>3, <3>1
      <3>4. i = n + 1 \/ Le(L[n + 1].ev.ts, L[i].ev.ts)
        BY <3>3 DEF Logs, InOrder
      <3>5. Le(g, L[i].ev.ts)
        BY <2>1, <3>2, <3>4, LeOrder
      <3> QED
        BY <2>1, <2>3, <3>5 DEF Le
    <2> QED
      BY <2>2, <2>3
  <1>3. ASSUME NEW m \in (sb+1)..Len(S)
        PROVE  m \in 1..Len(S) /\ (m <= k <=> Lt(S[m].at, g))
    <2>1. m \in 1..Len(S) /\ S[m].at \in Stamp
      BY <1>1 DEF Logs
    <2>2. CASE m <= k
      BY <1>1, <2>1, <2>2
    <2>3. CASE ~ (m <= k)
      <3>1. k + 1 \in (sb+1)..Len(S) /\ k < Len(S) /\ k + 1 \in 1..Len(S)
        BY <1>1, <2>3
      <3>2. Le(g, S[k + 1].at) /\ S[k + 1].at \in Stamp
        BY <3>1 DEF Le, Logs
      <3>3. m = k + 1 \/ k + 1 \in (sb+1)..(m-1)
        BY <1>1, <2>3, <3>1
      <3>4. m = k + 1 \/ Le(S[k + 1].at, S[m].at)
        BY <3>3 DEF Logs, SentInOrder
      <3>5. Le(g, S[m].at)
        BY <2>1, <3>2, <3>4, LeOrder
      <3> QED
        BY <2>1, <2>3, <3>5 DEF Le
    <2> QED
      BY <2>2, <2>3
  <1>4. n \in 0..Len(L) /\ k \in 0..Len(S)
    BY <1>1
  <1>5. InOrder(L, n, v)
    <2>1. \A i \in (n+1)..Len(L) :
             i \in (b+1)..Len(L) /\ \A j \in (n+1)..(i-1) : j \in (b+1)..(i-1)
      BY <1>1
    <2> QED
      BY <2>1 DEF Logs, InOrder
  <1>6. SentInOrder(S, k, v)
    <2>1. \A i \in (k+1)..Len(S) :
             i \in (sb+1)..Len(S) /\ \A j \in (k+1)..(i-1) : j \in (sb+1)..(i-1)
      BY <1>1
    <2> QED
      BY <2>1 DEF Logs, SentInOrder
  <1>7. Aligned(L, n, S, k)
    <2>1. ASSUME NEW i \in 1..Len(L), NEW m \in 1..Len(S), ~ L[i].ev.anti,
                 S[m].of = Key(L[i].ev)
          PROVE  S[m].at = L[i].ev.ts /\ (m > k <=> i > n)
      <3>1. S[m].at = L[i].ev.ts /\ (m > sb <=> i > b)
        BY <2>1 DEF Logs, Aligned
      <3>2. CASE i > b
        <4>1. i \in (b+1)..Len(L) /\ m \in (sb+1)..Len(S)
          BY <1>1, <3>1, <3>2
        <4> QED
          BY <1>1, <1>2, <1>3, <3>1, <4>1, SMTT(30)
      <3>3. CASE ~ (i > b)
        BY <1>1, <1>4, <3>1, <3>3
      <3> QED
        BY <3>2, <3>3
    <2> QED
      BY <2>1 DEF Aligned
  <1> QED
    BY <1>4, <1>5, <1>6, <1>7 DEF Logs

-----------------------------------------------------------------------------
(***************************************************************************)
(* The events: what they are, and where each of them is.                   *)
(***************************************************************************)
\* Those that are not anti-messages.
Plain(S) == {e \in S : ~ e.anti}

Executed(L) == {L[i].ev : i \in 1..Len(L)}

\* On its way, pending, executed or deferred, an event is in one of these places;
\* and the LP's own have got their uids.
OneEach(C, Q, U, D, next) ==
    /\ \A e, f \in C \cup Q \cup U \cup D : Key(e) = Key(f) => e = f
    /\ \A e \in C : e \notin Q /\ e \notin U /\ e \notin D
    /\ \A e \in Q : e \notin U /\ e \notin D
    /\ \A e \in U : e \notin D
    /\ \A e \in C \cup Q \cup U \cup D : e.src = self => e.uid < next

\* A message that was sent, and the answers that come of it.
IsSent(ev) ==
    /\ IsEvent(ev) /\ ev.src = self
    /\ ev.dst # self => \A a \in Replies(self, ev) :
                            IsEvent(a) /\ \A b \in Inputs(self) : Key(a) # Key(b)

Places == OneEach(Plain(coming), Plain(todo), Plain(Executed(log)), Plain(deferred),
                  nextUid)

EventInv ==
    /\ self \in Lps /\ nextUid \in Nat
    /\ Logs(log, base, sentLog, sentBase, vt)
    /\ \A e \in coming \cup todo \cup Executed(log) \cup deferred : IsEvent(e)
    /\ \A m \in 1..Len(sentLog) : IsSent(sentLog[m].ev)
    /\ Places

LEMMA AntiOfEvent ==
    ASSUME NEW ev, IsEvent(ev)
    PROVE  /\ IsEvent(AntiOf(ev)) /\ AntiOf(ev).anti /\ AntiOf(ev).ts = ev.ts
           /\ Key(AntiOf(ev)) = Key(ev)
  <1> DEFINE D == {"ts", "src", "uid", "dst", "body", "anti"}
             a == AntiOf(ev)
  <1>1. ev = [x \in D |-> ev[x]] /\ ev.ts \in Stamp /\ ev.uid \in Nat
    BY DEF IsEvent
  <1>2. DOMAIN ev = D
    BY <1>1
  <1>3. a = [x \in D |-> IF x = "anti" THEN TRUE ELSE ev[x]]
    BY <1>2 DEF AntiOf
  <1>4. a.anti = TRUE /\ a.ts = ev.ts /\ a.src = ev.src /\ a.uid = ev.uid
    BY <1>3
  <1>5. a = [x \in D |-> a[x]]
    BY <1>3
  <1>6. IsEvent(a)
    BY <1>1, <1>4, <1>5 DEF IsEvent
  <1> QED
    BY <1>4, <1>6 DEF Key

LEMMA ExecutedMore ==
    ASSUME NEW L, IsSequence(L), NEW rec
    PROVE  Executed(Append(L, rec)) = Executed(L) \cup {rec.ev}
  <1> DEFINE M == Append(L, rec)
             n == Len(L)
  <1>1. n \in Nat /\ Len(M) = n + 1 /\ M[n + 1] = rec /\ \A i \in 1..n : M[i] = L[i]
    BY Appended
  <1> HIDE DEF M
  <1>2. Executed(L) = {L[i].ev : i \in 1..n}
    BY DEF Executed
  <1> HIDE DEF n
  <1>3. \A i \in 1..(n + 1) : i \in 1..n \/ i = n + 1
    BY <1>1
  <1>4. n + 1 \in 1..(n + 1) /\ \A i \in 1..n : i \in 1..(n + 1)
    BY <1>1
  <1>5. {M[i].ev : i \in 1..(n + 1)} = {L[i].ev : i \in 1..n} \cup {rec.ev}
    BY <1>1, <1>3, <1>4
  <1>6. Executed(M) = {M[i].ev : i \in 1..(n + 1)}
    BY <1>1 DEF Executed
  <1> QED
    BY <1>2, <1>5, <1>6 DEF M

\* Cutting a list leaves its events on one of two sides.
LEMMA ExecutedCut ==
    ASSUME NEW L, IsSequence(L), Distinct(L), NEW n \in 0..Len(L)
    PROVE  LET back == {L[i].ev : i \in (n+1)..Len(L)}
               keep == Executed(SubSeq(L, 1, n))
           IN  /\ Executed(L) = keep \cup back
               /\ \A e \in Plain(keep) : e \notin back
  <1> DEFINE M == SubSeq(L, 1, n)
             k == Len(L)
             back == {L[i].ev : i \in (n+1)..k}
             keep == {L[i].ev : i \in 1..n}
  <1>1. k \in Nat /\ n \in 0..k /\ Len(M) = n /\ \A i \in 1..n : M[i] = L[i]
    BY CutOff
  <1> HIDE DEF M
  <1>2. Executed(M) = keep
    BY <1>1 DEF Executed
  <1>3. Executed(L) = {L[i].ev : i \in 1..k}
    BY DEF Executed
  <1>4. \A i, j \in 1..k : ~ L[i].ev.anti /\ L[i].ev = L[j].ev => i = j
    BY DEF Distinct
  <1> HIDE DEF k
  <1>5. \A i \in 1..k : i \in 1..n \/ i \in (n+1)..k
    BY <1>1
  <1>6. /\ \A i \in 1..n : i \in 1..k /\ i \notin (n+1)..k
        /\ \A i \in (n+1)..k : i \in 1..k
    BY <1>1
  <1>7. {L[i].ev : i \in 1..k} = keep \cup back
    BY <1>5, <1>6
  <1>8. \A e \in keep : ~ e.anti => e \notin back
    BY <1>4, <1>6
  <1> QED
    BY <1>2, <1>3, <1>7, <1>8 DEF M, k, Plain

LEMMA UndoneAll == IsSequence(log) => Undone(0) = Executed(log)
  BY Appended DEF Undone, Executed

\* How much of the sent log a rollback leaves, and the fossil collection.
LEMMA KeptSentRange ==
    ASSUME IsSequence(sentLog), sentBase \in 0..Len(sentLog), NEW to,
           NEW k, k = KeptSent(to)
    PROVE  /\ k \in sentBase..Len(sentLog)
           /\ \A i \in (k+1)..Len(sentLog) : Le(to, sentLog[i].at)
           /\ k > sentBase => ~ Le(to, sentLog[k].at)
  <1> DEFINE B == {i \in (sentBase+1)..Len(sentLog) : Le(to, sentLog[i].at)}
  <1>1. Len(sentLog) \in Nat
    BY Appended
  <1>2. {n \in sentBase..Len(sentLog) : \A i \in (n+1)..Len(sentLog) : i \in B}
        = {n \in sentBase..Len(sentLog) : \A i \in (n+1)..Len(sentLog) : Le(to, sentLog[i].at)}
    BY <1>1
  <1>3. k = Min({n \in sentBase..Len(sentLog) : \A i \in (n+1)..Len(sentLog) : i \in B})
    BY <1>2 DEF KeptSent
  <1> HIDE DEF B
  <1>4. /\ k \in sentBase..Len(sentLog) /\ (\A i \in (k+1)..Len(sentLog) : i \in B)
        /\ k > sentBase => k \notin B
    BY <1>1, <1>3, BackCutTo
  <1> QED
    BY <1>1, <1>4 DEF B

LEMMA PrunedSentRange ==
    ASSUME IsSequence(sentLog), sentBase \in 0..Len(sentLog), NEW g,
           NEW k, k = PrunedSent(g)
    PROVE  /\ k \in sentBase..Len(sentLog)
           /\ \A i \in (sentBase+1)..k : Lt(sentLog[i].at, g)
           /\ k < Len(sentLog) => ~ Lt(sentLog[k + 1].at, g)
  <1> DEFINE B == {i \in (sentBase+1)..Len(sentLog) : Lt(sentLog[i].at, g)}
  <1>1. Len(sentLog) \in Nat
    BY Appended
  <1>2. {n \in sentBase..Len(sentLog) : \A i \in (sentBase+1)..n : i \in B}
        = {n \in sentBase..Len(sentLog) : \A i \in (sentBase+1)..n : Lt(sentLog[i].at, g)}
    BY <1>1
  <1>3. k = Max({n \in sentBase..Len(sentLog) : \A i \in (sentBase+1)..n : i \in B})
    BY <1>2 DEF PrunedSent
  <1> HIDE DEF B
  <1>4. /\ k \in sentBase..Len(sentLog) /\ (\A i \in (sentBase+1)..k : i \in B)
        /\ k < Len(sentLog) => k + 1 \notin B
    BY <1>1, <1>3, FrontCutFrom
  <1> QED
    BY <1>1, <1>4 DEF B

-----------------------------------------------------------------------------
(***************************************************************************)
(* The steps.                                                              *)
(***************************************************************************)
\* A handler's messages: new events of the LP, with their answers.
LEMMA EmittedAre ==
    ASSUME nextUid \in Nat, NEW sends, Len(sends) \in Nat,
           NEW evs, evs = Emitted(sends),
           \A i \in 1..Len(evs) : evs[i].ts \in Stamp
    PROVE  /\ IsSequence(evs) /\ Len(evs) = Len(sends)
           /\ \A i \in 1..Len(sends) :
                 /\ IsEvent(evs[i]) /\ evs[i].src = self /\ evs[i].uid = nextUid + i - 1
                 /\ evs[i].dst = sends[i].dst /\ evs[i].body = sends[i].body
                 /\ ~ evs[i].anti
           /\ ToSet(evs) = {evs[i] : i \in 1..Len(sends)}
  <1> DEFINE n == Len(sends)
             ts(i) == IF sends[i].ts.sequence = 0
                      THEN [sends[i].ts EXCEPT
                               !.sequence = nextSeq + Numbered(sends, i - 1)]
                      ELSE sends[i].ts
             f(i) == [ts |-> ts(i), src |-> self, uid |-> nextUid + i - 1,
                      dst |-> sends[i].dst, body |-> sends[i].body, anti |-> FALSE]
  <1>1. evs = [i \in 1..n |-> f(i)]
    BY DEF Emitted
  <1>2. n \in Nat
    OBVIOUS
  <1> HIDE DEF f
  <1>3. DOMAIN evs = 1..n /\ \A i \in 1..n : evs[i] = f(i)
    BY <1>1
  <1>4. evs \in Seq({f(i) : i \in 1..n}) /\ Len(evs) = n
    BY <1>1, <1>2
  <1>5. ASSUME NEW i \in 1..n
        PROVE  /\ IsEvent(evs[i]) /\ evs[i].src = self /\ evs[i].uid = nextUid + i - 1
               /\ evs[i].dst = sends[i].dst /\ evs[i].body = sends[i].body
               /\ ~ evs[i].anti
    <2>1. evs[i] = f(i) /\ evs[i].ts \in Stamp
      BY <1>3, <1>4
    <2> HIDE DEF ts
    <2>2. /\ f(i).src = self /\ f(i).uid = nextUid + i - 1 /\ f(i).anti = FALSE
          /\ f(i).dst = sends[i].dst /\ f(i).body = sends[i].body
      BY DEF f
    <2>3. f(i) = [x \in {"ts", "src", "uid", "dst", "body", "anti"} |-> f(i)[x]]
      BY DEF f
    <2>4. nextUid + i - 1 \in Nat
      OBVIOUS
    <2>5. IsEvent(f(i))
      BY <2>1, <2>2, <2>3, <2>4 DEF IsEvent
    <2> QED
      BY <2>1, <2>2, <2>5
  <1>6. ToSet(evs) = {evs[i] : i \in 1..n}
    BY <1>3 DEF ToSet
  <1> QED
    BY <1>4, <1>5, <1>6 DEF IsSequence

\* Executing an event.
LEMMA EventExecute ==
    ASSUME EventInv, AsksToWrite, AnswersAreNew, Execute
    PROVE  /\ nextUid' \in Nat
           /\ Logs(log', base', sentLog', sentBase', vt')
           /\ \A e \in coming' \cup todo' \cup Executed(log') \cup deferred' : IsEvent(e)
           /\ \A m \in 1..Len(sentLog') : IsSent(sentLog'[m].ev)
           /\ OneEach(Plain(coming'), Plain(todo'), Plain(Executed(log')),
                      Plain(deferred'), nextUid')
  <1>1. PICK ev \in todo :
           LET r == OnEvent(self, state, ev)
           IN  /\ Ready(ev) /\ Sends(r.sends, ev.ts, Key(ev))
               /\ vt' = ev.ts /\ log' = Append(log, Record(ev, r.writes))
               /\ todo' = (todo \ {ev}) \cup Local(ToSet(Emitted(r.sends)))
                                        \cup Released(ev)
               /\ deferred' = deferred \ Released(ev)
               /\ UNCHANGED <<self, base, sentBase>>
    BY DEF Execute
  <1> DEFINE r == OnEvent(self, state, ev)
             sends == r.sends
             evs == Emitted(sends)
             n == Len(sends)
             rec == Record(ev, r.writes)
             u == [i \in 1..Len(evs) |-> [at |-> ev.ts, of |-> Key(ev), ev |-> evs[i]]]
             new == ToSet(evs)
             own == Local(new)
             ans == Answered(new)
             rel == Released(ev)
  <1>2. /\ nextUid \in Nat /\ self \in Lps /\ Places
        /\ Logs(log, base, sentLog, sentBase, vt)
        /\ \A e \in coming \cup todo \cup Executed(log) \cup deferred : IsEvent(e)
        /\ \A m \in 1..Len(sentLog) : IsSent(sentLog[m].ev)
    BY DEF EventInv
  <1>3. IsSequence(log) /\ IsSequence(sentLog)
    BY <1>2 DEF Logs
  <1>4. /\ \A i \in 1..Len(evs) : evs[i].ts \in Stamp
        /\ nextUid' = nextUid + n /\ sentLog' = sentLog \o u /\ coming' = coming \cup ans
    BY <1>1 DEF Sends
  <1>5. n \in Nat
    <2>1. sends \in Seq(ToSet(sends))
      BY <1>1 DEF AsksToWrite
    <2> HIDE DEF sends
    <2> QED
      BY <2>1
  <1>6. /\ vt' = ev.ts /\ log' = Append(log, rec) /\ todo' = (todo \ {ev}) \cup own \cup rel
        /\ deferred' = deferred \ rel /\ base' = base /\ sentBase' = sentBase
    BY <1>1
  <1>7. rec.ev = ev /\ rec.pre = state /\ ~ ev.anti /\ ~ Lt(ev.ts, vt) /\ ev \in todo
    BY <1>1 DEF Record, Ready
  <1>8. rel \subseteq deferred
    BY DEF Released
  <1>9. /\ \A a \in ans : IsEvent(a) /\ ~ a.anti /\ a.src # self
        /\ \A a, b \in ans : Key(a) = Key(b) => a = b
        /\ \A a \in ans : \A b \in Present \cup Inputs(self) : Key(a) # Key(b)
    BY <1>1 DEF AnswersAreNew
  <1>10. SendsOf(rec) = sends
    BY <1>7 DEF SendsOf
  <1>11. own = {e \in new : e.dst = self}
         /\ \A e \in new : e.dst # self => Replies(self, e) \subseteq ans
    BY DEF Local, Answered
  <1> HIDE DEF r, sends, rec, rel, ans, own
  <1>12. /\ IsSequence(evs) /\ Len(evs) = n
         /\ \A i \in 1..n : /\ IsEvent(evs[i]) /\ evs[i].src = self
                            /\ evs[i].uid = nextUid + i - 1
                            /\ evs[i].dst = sends[i].dst /\ evs[i].body = sends[i].body
                            /\ ~ evs[i].anti
         /\ new = {evs[i] : i \in 1..n}
    BY <1>2, <1>4, <1>5, EmittedAre, SMTT(30)
  <1> HIDE DEF evs, new, n
  <1>13. /\ IsSequence(u) /\ Len(u) = n
         /\ \A j \in 1..n : u[j].of = Key(ev) /\ u[j].at = ev.ts /\ u[j].ev = evs[j]
    <2>1. u = [i \in 1..n |-> [at |-> ev.ts, of |-> Key(ev), ev |-> evs[i]]]
      BY <1>12
    <2> HIDE DEF u
    <2>2. u \in Seq({[at |-> ev.ts, of |-> Key(ev), ev |-> evs[i]] : i \in 1..n})
      BY <1>5, <2>1
    <2>3. Len(u) = n
      BY <1>5, <2>1
    <2>4. \A j \in 1..n : u[j] = [at |-> ev.ts, of |-> Key(ev), ev |-> evs[j]]
      BY <2>1
    <2> QED
      BY <2>2, <2>3, <2>4 DEF IsSequence
  <1> HIDE DEF u
  <1>14. IsEvent(ev) /\ ev.ts \in Stamp /\ Le(vt, ev.ts)
    BY <1>2, <1>7 DEF IsEvent, Le
  <1>15. ev \in Plain(todo) /\ ev \notin Plain(Executed(log))
    BY <1>2, <1>7 DEF Places, OneEach, Plain
  <1>16. \A e \in Plain(Executed(log)) : Key(e) # Key(ev)
    BY <1>2, <1>15 DEF Places, OneEach
  <1>17. Logs(log', base', sentLog', sentBase', vt')
    <2>1. rec.ev.ts \in Stamp /\ Le(vt, rec.ev.ts) /\ rec.ev.ts = ev.ts
          /\ Key(rec.ev) = Key(ev) /\ ~ rec.ev.anti
      BY <1>7, <1>14
    <2>2. \A j \in 1..Len(u) : u[j].of = Key(rec.ev) /\ u[j].at = rec.ev.ts
      BY <1>13, <2>1
    <2>3. Len(u) = Len(SendsOf(rec))
      BY <1>10, <1>13 DEF n
    <2>4. \A j \in 1..Len(u) : /\ u[j].ev.dst = SendsOf(rec)[j].dst
                               /\ u[j].ev.body = SendsOf(rec)[j].body
      BY <1>10, <1>12, <1>13
    <2>5. \A i \in 1..Len(log) : ~ log[i].ev.anti => Key(log[i].ev) # Key(rec.ev)
      BY <1>16, <2>1 DEF Executed, Plain
    <2>6. Logs(log', base, sentLog', sentBase, rec.ev.ts)
      BY <1>2, <1>4, <1>6, <1>13, <2>1, <2>2, <2>3, <2>4, <2>5, LogsMore,
         ZenonT(40)
    <2> QED
      BY <1>6, <2>1, <2>6
  <1>18. Executed(log') = Executed(log) \cup {ev}
    BY <1>3, <1>6, <1>7, ExecutedMore
  <1>19. \A e \in new : IsEvent(e) /\ e.src = self /\ ~ e.anti
    BY <1>12
  <1>20. \A e \in coming' \cup todo' \cup Executed(log') \cup deferred' : IsEvent(e)
    BY <1>2, <1>4, <1>6, <1>8, <1>9, <1>11, <1>14, <1>18, <1>19
  <1>21. \A e \in new : IsSent(e)
    BY <1>9, <1>11, <1>19 DEF IsSent
  <1>22. ASSUME NEW m \in 1..Len(sentLog')
         PROVE  IsSent(sentLog'[m].ev)
    <2> DEFINE k == Len(sentLog)
    <2>1. /\ k \in Nat /\ Len(sentLog') = k + n
          /\ \A i \in 1..k : sentLog'[i] = sentLog[i]
          /\ \A i \in 1..n : sentLog'[k + i] = u[i]
      <3>1. LET t == sentLog \o u
            IN  /\ Len(sentLog) \in Nat /\ Len(t) = Len(sentLog) + Len(u)
                /\ \A i \in 1..Len(sentLog) : t[i] = sentLog[i]
                /\ \A i \in 1..Len(u) : t[Len(sentLog) + i] = u[i]
        <4>1. IsSequence(sentLog) /\ IsSequence(u)
          BY <1>3, <1>13
        <4> QED
          BY <4>1, Extended
      <3> QED
        BY <1>4, <1>13, <3>1
    <2> HIDE DEF k
    <2>2. CASE m \in 1..k
      BY <1>2, <2>1, <2>2 DEF k
    <2>3. CASE m > k
      <3>1. m - k \in 1..n /\ k + (m - k) = m
        BY <1>5, <1>22, <2>1, <2>3 DEF n
      <3>2. sentLog'[m].ev = evs[m - k] /\ evs[m - k] \in new
        BY <1>12, <1>13, <2>1, <3>1
      <3> QED
        BY <1>21, <3>2
    <2> QED
      BY <1>22, <2>1, <2>2, <2>3
  <1>23. nextUid' \in Nat
    BY <1>2, <1>4, <1>5 DEF n
  <1>24. \A e \in new : e.uid >= nextUid /\ e.uid < nextUid'
    BY <1>2, <1>4, <1>5, <1>12 DEF n
  <1>25. \A e, f \in new : Key(e) = Key(f) => e = f
    <2> SUFFICES ASSUME NEW i \in 1..n, NEW j \in 1..n, Key(evs[i]) = Key(evs[j])
                 PROVE  evs[i] = evs[j]
      BY <1>12
    <2>1. evs[i].uid = evs[j].uid
      BY DEF Key
    <2>2. nextUid + i - 1 = nextUid + j - 1
      BY <1>12, <2>1
    <2>3. i = j
      BY <1>2, <2>2
    <2> QED
      BY <2>3
  <1> DEFINE C == Plain(coming)
             Q == Plain(todo)
             U == Plain(Executed(log))
             D == Plain(deferred)
             P == C \cup Q \cup U \cup D
  <1>26. /\ \A e \in P : IsEvent(e) /\ e \in Present
         /\ OneEach(C, Q, U, D, nextUid)
    BY <1>2, <1>3, UndoneAll DEF Plain, Present, Places
  <1>27. /\ \A e, f \in P : Key(e) = Key(f) => e = f
         /\ \A e \in P : e.src = self => e.uid < nextUid
    BY <1>26 DEF OneEach
  <1>28. \A e \in P : \A f \in new : Key(e) # Key(f)
    <2> SUFFICES ASSUME NEW e \in P, NEW f \in new, Key(e) = Key(f)
                 PROVE  FALSE
      OBVIOUS
    <2>1. e.src = self /\ e.uid = f.uid
      BY <1>19 DEF Key
    <2>2. e.uid < nextUid /\ f.uid >= nextUid /\ e.uid \in Nat
      BY <1>24, <1>26, <1>27, <2>1 DEF IsEvent
    <2> QED
      BY <1>2, <2>1, <2>2
  <1>29. \A e \in P : \A f \in ans : Key(e) # Key(f)
    BY <1>9, <1>26
  <1>30. \A e \in new : \A f \in ans : Key(e) # Key(f)
    BY <1>9, <1>19 DEF Key
  <1>31. /\ Plain(coming') = C \cup ans
         /\ Plain(todo') = (Q \ {ev}) \cup own \cup (D \cap rel)
         /\ Plain(Executed(log')) = U \cup {ev}
         /\ Plain(deferred') = D \ rel
    BY <1>4, <1>6, <1>7, <1>8, <1>9, <1>11, <1>18, <1>19 DEF Plain
  <1>32. /\ \A e \in C : e \notin Q /\ e \notin U /\ e \notin D
         /\ \A e \in Q : e \notin U /\ e \notin D
         /\ \A e \in U : e \notin D
    BY <1>26 DEF OneEach
  <1>33. ev \in Q /\ own \subseteq new
    BY <1>11, <1>15
  <1>34. /\ \A e \in P : e \notin new /\ e \notin ans
         /\ \A e \in new : e \notin ans
    BY <1>28, <1>29, <1>30
  <1>35. \A e \in P \cup new \cup ans : e.src = self => e.uid < nextUid'
    <2>1. \A e \in P : e.src = self => e.uid < nextUid'
      <3> SUFFICES ASSUME NEW e \in P, e.src = self
                   PROVE  e.uid < nextUid'
        OBVIOUS
      <3>1. e.uid < nextUid /\ e.uid \in Nat
        BY <1>26, <1>27 DEF IsEvent
      <3> QED
        BY <1>2, <1>4, <1>5, <3>1 DEF n
    <2> QED
      BY <1>9, <1>24, <2>1
  <1> HIDE DEF C, Q, U, D
  <1> DEFINE C1 == C \cup ans
             Q1 == (Q \ {ev}) \cup own \cup (D \cap rel)
             U1 == U \cup {ev}
             D1 == D \ rel
  <1>36. C1 \cup Q1 \cup U1 \cup D1 \subseteq P \cup new \cup ans
    BY <1>33
  <1>37. \A e, f \in P \cup new \cup ans : Key(e) = Key(f) => e = f
    BY <1>9, <1>25, <1>27, <1>28, <1>29, <1>30
  <1>38. \A e \in C1 : e \notin Q1 /\ e \notin U1 /\ e \notin D1
    BY <1>32, <1>33, <1>34
  <1>39. \A e \in Q1 : e \notin U1 /\ e \notin D1
    BY <1>32, <1>33, <1>34
  <1>40. \A e \in U1 : e \notin D1
    BY <1>32, <1>33
  <1>41. OneEach(C1, Q1, U1, D1, nextUid')
    <2>1. /\ \A e, f \in C1 \cup Q1 \cup U1 \cup D1 : Key(e) = Key(f) => e = f
          /\ \A e \in C1 \cup Q1 \cup U1 \cup D1 : e.src = self => e.uid < nextUid'
      BY <1>35, <1>36, <1>37
    <2> HIDE DEF C1, Q1, U1, D1
    <2> QED
      BY <1>38, <1>39, <1>40, <2>1 DEF OneEach
  <1> QED
    BY <1>17, <1>20, <1>22, <1>23, <1>31, <1>41

\* Keeping an event aside.
LEMMA EventDefer ==
    ASSUME EventInv, AsksToWrite, Defer
    PROVE  /\ nextUid' \in Nat
           /\ Logs(log', base', sentLog', sentBase', vt')
           /\ \A e \in coming' \cup todo' \cup Executed(log') \cup deferred' : IsEvent(e)
           /\ \A m \in 1..Len(sentLog') : IsSent(sentLog'[m].ev)
           /\ OneEach(Plain(coming'), Plain(todo'), Plain(Executed(log')),
                      Plain(deferred'), nextUid')
           /\ \E ev \in todo : /\ coming' = coming /\ log' = log /\ ~ ev.anti
                               /\ todo' = todo \ {ev} /\ deferred' = deferred \cup {ev}
  <1>1. PICK ev \in todo :
           LET r == OnEvent(self, state, ev)
           IN  /\ Ready(ev) /\ r.missing /\ Sends(r.sends, ev.ts, Key(ev))
               /\ todo' = (todo \ {ev}) \cup Local(ToSet(Emitted(r.sends)))
               /\ deferred' = deferred \cup {ev}
               /\ UNCHANGED <<self, vt, log, base, sentBase>>
    BY DEF Defer, Deferrable
  <1> DEFINE sends == OnEvent(self, state, ev).sends
             evs == Emitted(sends)
             u == [i \in 1..Len(evs) |-> [at |-> ev.ts, of |-> Key(ev), ev |-> evs[i]]]
             new == ToSet(evs)
  <1>2. /\ nextUid \in Nat /\ Places
        /\ Logs(log, base, sentLog, sentBase, vt)
        /\ \A e \in coming \cup todo \cup Executed(log) \cup deferred : IsEvent(e)
        /\ \A m \in 1..Len(sentLog) : IsSent(sentLog[m].ev)
    BY DEF EventInv
  <1>3. sends = <<>> /\ ~ ev.anti
    BY <1>1 DEF AsksToWrite, Ready
  <1>4. /\ nextUid' = nextUid + Len(sends) /\ sentLog' = sentLog \o u
        /\ coming' = coming \cup Answered(new) /\ todo' = (todo \ {ev}) \cup Local(new)
        /\ \A i \in 1..Len(evs) : evs[i].ts \in Stamp
    BY <1>1 DEF Sends
  <1>5. Len(sends) = 0
    BY <1>3
  <1> HIDE DEF sends
  <1>6. Len(evs) = 0 /\ new = {}
    <2>1. Len(evs) = Len(sends) /\ new = {evs[i] : i \in 1..Len(sends)}
      BY <1>2, <1>4, <1>5, EmittedAre
    <2> HIDE DEF evs, new
    <2> QED
      BY <1>5, <2>1
  <1> HIDE DEF evs, new
  <1>7. u = <<>>
    BY <1>6
  <1> HIDE DEF u
  <1>8. Answered(new) = {} /\ Local(new) = {}
    BY <1>6 DEF Answered, Local
  <1>9. sentLog' = sentLog
    <2>1. PICK S : sentLog \in Seq(S)
      BY <1>2 DEF Logs, IsSequence
    <2> QED
      BY <1>4, <1>7, <2>1
  <1>10. /\ coming' = coming /\ log' = log /\ todo' = todo \ {ev}
         /\ deferred' = deferred \cup {ev} /\ nextUid' = nextUid
         /\ base' = base /\ sentBase' = sentBase /\ vt' = vt
    BY <1>1, <1>2, <1>4, <1>5, <1>8
  <1> DEFINE C == Plain(coming)
             Q == Plain(todo)
             U == Plain(Executed(log))
             D == Plain(deferred)
  <1>11. /\ Plain(todo') = Q \ {ev} /\ Plain(deferred') = D \cup {ev} /\ ev \in Q
         /\ OneEach(C, Q, U, D, nextUid)
    BY <1>2, <1>3, <1>10 DEF Plain, Places
  <1> HIDE DEF C, Q, U, D
  <1>12. OneEach(C, Q \ {ev}, U, D \cup {ev}, nextUid)
    BY <1>11 DEF OneEach
  <1>13. OneEach(Plain(coming'), Plain(todo'), Plain(Executed(log')), Plain(deferred'),
                 nextUid')
    BY <1>10, <1>11, <1>12 DEF C, U
  <1> QED
    BY <1>2, <1>3, <1>9, <1>10, <1>13

\* A rollback, but for the step it is part of: what it keeps, and puts back.
LEMMA RolledBack ==
    ASSUME EventInv, NEW to \in Stamp
    PROVE  LET M == SubSeq(log, 1, Kept(to))
               R == SubSeq(sentLog, 1, KeptSent(to))
               antis == {AntiOf(ev) : ev \in Answered(Unsent(to))}
           IN  /\ IsSequence(M)
               /\ Logs(M, base, R, sentBase, prev_stamp(to))
               /\ \A m \in 1..Len(R) : IsSent(R[m].ev)
               /\ Executed(log) = Executed(M) \cup Undone(Kept(to))
               /\ \A e \in Requeued(to) \cup antis : IsEvent(e)
               /\ Plain(Requeued(to)) = Plain(Undone(Kept(to))) /\ Plain(antis) = {}
               /\ \A a \in antis : \A b \in Inputs(self) : Key(a) # Key(b)
               /\ \A a \in Requeued(to) : a \in Executed(log) \/ a.src = self
               /\ Undone(Kept(to)) \subseteq Requeued(to)
               /\ \A next : OneEach(Plain(coming), Plain(todo), Plain(Executed(log)),
                                    Plain(deferred), next)
                            => OneEach(Plain(coming), Plain(todo) \cup Plain(Requeued(to)),
                                       Plain(Executed(M)), Plain(deferred), next)
  <1> DEFINE n == Kept(to)
             k == KeptSent(to)
             M == SubSeq(log, 1, n)
             R == SubSeq(sentLog, 1, k)
             antis == {AntiOf(ev) : ev \in Answered(Unsent(to))}
             back == Undone(n)
  <1>1. /\ Logs(log, base, sentLog, sentBase, vt)
        /\ \A e \in coming \cup todo \cup Executed(log) \cup deferred : IsEvent(e)
        /\ \A m \in 1..Len(sentLog) : IsSent(sentLog[m].ev)
    BY DEF EventInv
  <1>2. /\ IsSequence(log) /\ base \in 0..Len(log) /\ Distinct(log)
        /\ IsSequence(sentLog) /\ sentBase \in 0..Len(sentLog)
    BY <1>1 DEF Logs
  <1>3. /\ n \in base..Len(log) /\ \A i \in (n+1)..Len(log) : Le(to, log[i].ev.ts)
        /\ n > base => ~ Le(to, log[n].ev.ts)
    BY <1>2, KeptRange
  <1>4. /\ k \in sentBase..Len(sentLog)
        /\ \A i \in (k+1)..Len(sentLog) : Le(to, sentLog[i].at)
        /\ k > sentBase => ~ Le(to, sentLog[k].at)
    BY <1>2, KeptSentRange
  <1>5. back = {log[i].ev : i \in (n+1)..Len(log)}
    BY DEF Undone
  <1>6. Unsent(to) = {sentLog[i].ev : i \in (k+1)..Len(sentLog)}
    BY DEF Unsent
  <1>7. Requeued(to) = back \cup {AntiOf(ev) : ev \in Local(Unsent(to))}
    BY DEF Requeued
  <1> HIDE DEF n, k
  <1>8. Len(log) \in Nat /\ Len(sentLog) \in Nat
    BY <1>2, Appended
  <1>9. n \in 0..Len(log) /\ k \in 0..Len(sentLog)
    BY <1>2, <1>3, <1>4, <1>8
  <1>10. /\ IsSequence(M) /\ IsSequence(R) /\ Len(R) = k
         /\ \A m \in 1..k : R[m] = sentLog[m] /\ m \in 1..Len(sentLog)
    BY <1>2, <1>9, CutOff
  <1>11. Executed(log) = Executed(M) \cup back /\ \A e \in Plain(Executed(M)) : e \notin back
    BY <1>2, <1>5, <1>9, ExecutedCut
  <1>12. Logs(M, base, R, sentBase, prev_stamp(to))
    BY <1>1, <1>3, <1>4, PrevStamp, LogsCut
  <1> HIDE DEF M, R, back
  <1>13. \A m \in 1..Len(R) : IsSent(R[m].ev)
    BY <1>1, <1>10
  <1>14. \A ev \in Unsent(to) : IsSent(ev)
    <2>1. \A i \in (k+1)..Len(sentLog) : i \in 1..Len(sentLog)
      BY <1>9
    <2> QED
      BY <1>1, <1>6, <2>1
  <1>15. ASSUME NEW ev \in Local(Unsent(to))
         PROVE  IsEvent(AntiOf(ev)) /\ AntiOf(ev).anti /\ AntiOf(ev).src = self
    <2>1. IsEvent(ev) /\ ev.src = self
      BY <1>14 DEF Local, IsSent
    <2>2. Key(AntiOf(ev)) = Key(ev)
      BY <2>1, AntiOfEvent
    <2> QED
      BY <2>1, <2>2, AntiOfEvent DEF Key
  <1>16. ASSUME NEW a \in Answered(Unsent(to))
         PROVE  /\ IsEvent(AntiOf(a)) /\ AntiOf(a).anti
                /\ \A b \in Inputs(self) : Key(AntiOf(a)) # Key(b)
    <2>1. PICK ev \in Unsent(to) : ev.dst # self /\ a \in Replies(self, ev)
      BY DEF Answered, Local
    <2>2. IsEvent(a) /\ \A b \in Inputs(self) : Key(a) # Key(b)
      BY <1>14, <2>1 DEF IsSent
    <2> QED
      BY <2>2, AntiOfEvent
  <1>17. \A e \in back : IsEvent(e)
    BY <1>1, <1>11
  <1>18. \A e \in Requeued(to) \cup antis : IsEvent(e)
    BY <1>7, <1>15, <1>16, <1>17
  <1>19. Plain(Requeued(to)) = Plain(back) /\ Plain(antis) = {}
    BY <1>7, <1>15, <1>16 DEF Plain
  <1>20. \A a \in antis : \A b \in Inputs(self) : Key(a) # Key(b)
    BY <1>16
  <1>21. /\ \A a \in Requeued(to) : a \in Executed(log) \/ a.src = self
         /\ back \subseteq Requeued(to)
    BY <1>7, <1>11, <1>15
  <1>22. ASSUME NEW next, OneEach(Plain(coming), Plain(todo), Plain(Executed(log)),
                                  Plain(deferred), next)
         PROVE  OneEach(Plain(coming), Plain(todo) \cup Plain(Requeued(to)),
                        Plain(Executed(M)), Plain(deferred), next)
    <2> DEFINE C == Plain(coming)
               Q == Plain(todo)
               K == Plain(Executed(M))
               B == Plain(back)
               D == Plain(deferred)
    <2>1. Plain(Executed(log)) = K \cup B /\ \A e \in K : e \notin B
      BY <1>11 DEF Plain
    <2>2. OneEach(C, Q, K \cup B, D, next)
      BY <1>22, <2>1
    <2> HIDE DEF C, Q, K, B, D
    <2>3. OneEach(C, Q \cup B, K, D, next)
      BY <2>1, <2>2 DEF OneEach
    <2> QED
      BY <1>19, <2>3 DEF C, Q, K, B, D
  <1> QED
    BY <1>10, <1>11, <1>12, <1>13, <1>18, <1>19, <1>20, <1>21, <1>22 DEF M, R, n, k, back

\* The parts of EventInv after a step; self stays.
EventNext ==
    /\ nextUid' \in Nat
    /\ Logs(log', base', sentLog', sentBase', vt')
    /\ \A e \in coming' \cup todo' \cup Executed(log') \cup deferred' : IsEvent(e)
    /\ \A m \in 1..Len(sentLog') : IsSent(sentLog'[m].ev)
    /\ OneEach(Plain(coming'), Plain(todo'), Plain(Executed(log')), Plain(deferred'),
               nextUid')

\* Rolling back for a straggler.
LEMMA EventStraggler ==
    ASSUME EventInv, Straggler
    PROVE  EventNext
  <1>1. PICK ev \in todo :
           /\ log' = SubSeq(log, 1, Kept(ev.ts))
           /\ sentLog' = SubSeq(sentLog, 1, KeptSent(ev.ts))
           /\ coming' = coming \cup {AntiOf(a) : a \in Answered(Unsent(ev.ts))}
           /\ todo' = todo \cup Requeued(ev.ts) /\ vt' = prev_stamp(ev.ts)
           /\ UNCHANGED <<nextUid, base, sentBase, deferred>>
    BY DEF Straggler, RollBack
  <1> DEFINE to == ev.ts
             M == SubSeq(log, 1, Kept(to))
             R == SubSeq(sentLog, 1, KeptSent(to))
             antis == {AntiOf(a) : a \in Answered(Unsent(to))}
  <1>2. /\ nextUid \in Nat /\ Places
        /\ \A e \in coming \cup todo \cup Executed(log) \cup deferred : IsEvent(e)
    BY DEF EventInv
  <1>3. /\ log' = M /\ sentLog' = R /\ coming' = coming \cup antis
        /\ todo' = todo \cup Requeued(to) /\ vt' = prev_stamp(to) /\ nextUid' = nextUid
        /\ base' = base /\ sentBase' = sentBase /\ deferred' = deferred
    BY <1>1
  <1>4. to \in Stamp
    BY <1>2 DEF IsEvent
  <1>5. /\ Logs(M, base, R, sentBase, prev_stamp(to))
        /\ \A m \in 1..Len(R) : IsSent(R[m].ev)
        /\ Executed(log) = Executed(M) \cup Undone(Kept(to))
        /\ \A e \in Requeued(to) \cup antis : IsEvent(e)
        /\ Plain(antis) = {}
        /\ \A next : OneEach(Plain(coming), Plain(todo), Plain(Executed(log)),
                             Plain(deferred), next)
                     => OneEach(Plain(coming), Plain(todo) \cup Plain(Requeued(to)),
                                Plain(Executed(M)), Plain(deferred), next)
    BY <1>4, RolledBack
  <1> HIDE DEF M, R, antis, to
  <1>6. /\ Plain(coming') = Plain(coming)
        /\ Plain(todo') = Plain(todo) \cup Plain(Requeued(to))
    BY <1>3, <1>5 DEF Plain
  <1>7. OneEach(Plain(coming), Plain(todo) \cup Plain(Requeued(to)), Plain(Executed(M)),
                Plain(deferred), nextUid)
    BY <1>2, <1>5 DEF Places
  <1>8. \A e \in coming' \cup todo' \cup Executed(log') \cup deferred' : IsEvent(e)
    BY <1>2, <1>3, <1>5
  <1>9. \A m \in 1..Len(sentLog') : IsSent(sentLog'[m].ev)
    BY <1>3, <1>5
  <1>10. Logs(log', base', sentLog', sentBase', vt') /\ nextUid' \in Nat
    BY <1>2, <1>3, <1>5
  <1>11. OneEach(Plain(coming'), Plain(todo'), Plain(Executed(log')), Plain(deferred'),
                 nextUid')
    BY <1>3, <1>6, <1>7
  <1> QED
    BY <1>8, <1>9, <1>10, <1>11 DEF EventNext

\* The record of an anti-message sends nothing.
LEMMA LogsAnti ==
    ASSUME NEW L, NEW b, NEW S, NEW sb, NEW v, Logs(L, b, S, sb, v),
           NEW rec, rec.ev.anti, rec.ev.ts \in Stamp, Le(v, rec.ev.ts)
    PROVE  Logs(Append(L, rec), b, S, sb, rec.ev.ts)
  <1> DEFINE M == Append(L, rec)
             u == <<>>
             T == S \o u
  <1>1. IsSequence(u) /\ Len(u) = 0
    BY DEF IsSequence
  <1>2. M = Append(L, rec) /\ T = S \o u
    OBVIOUS
  <1>3. T = S
    <2>1. PICK X : S \in Seq(X)
      BY DEF Logs, IsSequence
    <2> QED
      BY <2>1
  <1> HIDE DEF M, u, T
  <1>4. Logs(M, b, T, sb, rec.ev.ts)
    <2>1. \A j \in 1..Len(u) : u[j].of = Key(rec.ev) /\ u[j].at = rec.ev.ts
      BY <1>1
    <2> QED
      BY <1>1, <1>2, <2>1, LogsMore
  <1> QED
    BY <1>3, <1>4 DEF M

\* Processing an anti-message whose event was executed.
LEMMA EventCancel ==
    ASSUME EventInv, CancelProcessed
    PROVE  EventNext
  <1>1. PICK ev \in todo :
           /\ ~ Lt(ev.ts, vt) /\ ev.anti
           /\ log' = Append(SubSeq(log, 1, Kept(ev.ts)), [Record(ev, {}) EXCEPT !.pre = state'])
           /\ sentLog' = SubSeq(sentLog, 1, KeptSent(ev.ts))
           /\ coming' = coming \cup {AntiOf(a) : a \in Answered(Unsent(ev.ts))}
           /\ todo' = (todo \ {ev}) \cup Requeued(ev.ts) /\ vt' = ev.ts
           /\ UNCHANGED <<nextUid, base, sentBase, deferred>>
    BY DEF CancelProcessed, RollBack
  <1> DEFINE to == ev.ts
             M == SubSeq(log, 1, Kept(to))
             R == SubSeq(sentLog, 1, KeptSent(to))
             antis == {AntiOf(a) : a \in Answered(Unsent(to))}
             rec == [Record(ev, {}) EXCEPT !.pre = state']
  <1>2. /\ nextUid \in Nat /\ Places
        /\ \A e \in coming \cup todo \cup Executed(log) \cup deferred : IsEvent(e)
    BY DEF EventInv
  <1>3. /\ log' = Append(M, rec) /\ sentLog' = R /\ coming' = coming \cup antis
        /\ todo' = (todo \ {ev}) \cup Requeued(to) /\ vt' = to /\ nextUid' = nextUid
        /\ base' = base /\ sentBase' = sentBase /\ deferred' = deferred
    BY <1>1
  <1>4. to \in Stamp /\ IsEvent(ev) /\ ev.anti
    BY <1>1, <1>2 DEF IsEvent
  <1>5. /\ IsSequence(M)
        /\ Logs(M, base, R, sentBase, prev_stamp(to))
        /\ \A m \in 1..Len(R) : IsSent(R[m].ev)
        /\ Executed(log) = Executed(M) \cup Undone(Kept(to))
        /\ \A e \in Requeued(to) \cup antis : IsEvent(e)
        /\ Plain(antis) = {}
        /\ \A next : OneEach(Plain(coming), Plain(todo), Plain(Executed(log)),
                             Plain(deferred), next)
                     => OneEach(Plain(coming), Plain(todo) \cup Plain(Requeued(to)),
                                Plain(Executed(M)), Plain(deferred), next)
    BY <1>4, RolledBack
  <1>6. rec.ev = ev
    BY DEF Record
  <1>7. Le(prev_stamp(to), to)
    BY <1>4, PrevStamp
  <1>8. rec.ev.ts = to
    BY <1>6
  <1> HIDE DEF M, R, antis, to, rec
  <1>9. Logs(log', base', sentLog', sentBase', vt')
    <2>1. Logs(Append(M, rec), base, R, sentBase, rec.ev.ts)
      BY <1>4, <1>5, <1>6, <1>7, <1>8, LogsAnti
    <2> QED
      BY <1>3, <1>8, <2>1
  <1>10. Executed(log') = Executed(M) \cup {ev}
    BY <1>3, <1>5, <1>6, ExecutedMore
  <1>11. /\ Plain(coming') = Plain(coming)
         /\ Plain(todo') = Plain(todo) \cup Plain(Requeued(to))
         /\ Plain(Executed(log')) = Plain(Executed(M))
    BY <1>3, <1>4, <1>5, <1>10 DEF Plain
  <1>12. OneEach(Plain(coming), Plain(todo) \cup Plain(Requeued(to)), Plain(Executed(M)),
                 Plain(deferred), nextUid)
    BY <1>2, <1>5 DEF Places
  <1>13. \A e \in coming' \cup todo' \cup Executed(log') \cup deferred' : IsEvent(e)
    BY <1>2, <1>3, <1>4, <1>5, <1>10
  <1>14. \A m \in 1..Len(sentLog') : IsSent(sentLog'[m].ev)
    BY <1>3, <1>5
  <1>15. OneEach(Plain(coming'), Plain(todo'), Plain(Executed(log')), Plain(deferred'),
                 nextUid')
    BY <1>3, <1>11, <1>12
  <1> QED
    BY <1>2, <1>3, <1>9, <1>13, <1>14, <1>15 DEF EventNext

\* Processing any other anti-message.
LEMMA EventPending ==
    ASSUME EventInv, CancelPending
    PROVE  EventNext
  <1>1. PICK ev \in todo :
           /\ ~ Lt(ev.ts, vt) /\ ev.anti /\ log' = Append(log, Record(ev, {}))
           /\ todo' = todo \ {ev} /\ vt' = ev.ts
           /\ UNCHANGED <<nextUid, base, sentLog, sentBase, coming, deferred>>
    BY DEF CancelPending
  <1> DEFINE rec == Record(ev, {})
  <1>2. /\ nextUid \in Nat /\ Places
        /\ Logs(log, base, sentLog, sentBase, vt)
        /\ \A e \in coming \cup todo \cup Executed(log) \cup deferred : IsEvent(e)
        /\ \A m \in 1..Len(sentLog) : IsSent(sentLog[m].ev)
    BY DEF EventInv
  <1>3. rec.ev = ev /\ log' = Append(log, rec)
    BY <1>1 DEF Record
  <1> HIDE DEF rec
  <1>4. ev.ts \in Stamp /\ IsEvent(ev) /\ ev.anti /\ Le(vt, ev.ts)
    BY <1>1, <1>2 DEF IsEvent, Le
  <1>5. Logs(log', base', sentLog', sentBase', vt')
    <2>1. Logs(Append(log, rec), base, sentLog, sentBase, rec.ev.ts)
      BY <1>2, <1>3, <1>4, LogsAnti
    <2> QED
      BY <1>1, <1>3, <2>1
  <1>6. Executed(log') = Executed(log) \cup {ev}
    <2>1. IsSequence(log)
      BY <1>2 DEF Logs
    <2> QED
      BY <1>3, <2>1, ExecutedMore
  <1>7. /\ Plain(todo') = Plain(todo) /\ Plain(Executed(log')) = Plain(Executed(log))
    BY <1>1, <1>4, <1>6 DEF Plain
  <1>8. OneEach(Plain(coming'), Plain(todo'), Plain(Executed(log')), Plain(deferred'),
                nextUid')
    BY <1>1, <1>2, <1>7 DEF Places
  <1> QED
    BY <1>1, <1>2, <1>4, <1>5, <1>6, <1>8 DEF EventNext

\* Dropping, receiving and withdrawing events.
LEMMA EventTraffic ==
    ASSUME EventInv, Discard \/ Arrive \/ Withdraw
    PROVE  EventNext
  <1>1. /\ nextUid \in Nat /\ self \in Lps
        /\ OneEach(Plain(coming), Plain(todo), Plain(Executed(log)), Plain(deferred), nextUid)
        /\ Logs(log, base, sentLog, sentBase, vt)
        /\ \A e \in coming \cup todo \cup Executed(log) \cup deferred : IsEvent(e)
        /\ \A m \in 1..Len(sentLog) : IsSent(sentLog[m].ev)
    BY DEF EventInv, Places
  <1>2. /\ nextUid' = nextUid /\ log' = log /\ base' = base /\ sentLog' = sentLog
        /\ sentBase' = sentBase /\ vt' = vt /\ deferred' = deferred
    BY DEF Discard, Arrive, Withdraw, lpVars
  <1> DEFINE C == Plain(coming)
             Q == Plain(todo)
             U == Plain(Executed(log))
             D == Plain(deferred)
  <1>3. ASSUME Discard
        PROVE  EventNext
    <2>1. PICK ev \in todo : todo' = todo \ {ev} /\ coming' = coming
      BY <1>3 DEF Discard
    <2>2. Plain(todo') \subseteq Q
      BY <2>1 DEF Plain
    <2> HIDE DEF C, Q, U, D
    <2>3. OneEach(C, Q, U, D, nextUid)
      BY <1>1 DEF C, Q, U, D
    <2>4. OneEach(C, Plain(todo'), U, D, nextUid)
      BY <2>2, <2>3 DEF OneEach
    <2> QED
      BY <1>1, <1>2, <2>1, <2>4 DEF EventNext, C, U, D
  <1>4. ASSUME Arrive
        PROVE  EventNext
    <2>1. PICK ev \in coming : coming' = coming \ {ev} /\ todo' = todo \cup {ev}
      BY <1>4 DEF Arrive
    <2>2. \/ Plain(todo') = Q /\ Plain(coming') = C
          \/ ev \in C /\ Plain(todo') = Q \cup {ev} /\ Plain(coming') = C \ {ev}
      BY <2>1 DEF Plain
    <2> HIDE DEF C, Q, U, D
    <2>3. OneEach(C, Q, U, D, nextUid)
      BY <1>1 DEF C, Q, U, D
    <2>4. ev \in C => OneEach(C \ {ev}, Q \cup {ev}, U, D, nextUid)
      BY <2>3 DEF OneEach
    <2>5. OneEach(Plain(coming'), Plain(todo'), U, D, nextUid)
      BY <2>2, <2>3, <2>4
    <2>6. \A e \in coming' \cup todo' : IsEvent(e)
      BY <1>1, <2>1
    <2> QED
      BY <1>1, <1>2, <2>5, <2>6 DEF EventNext, U, D
  <1>5. ASSUME Withdraw
        PROVE  EventNext
    <2>1. PICK ev \in Revocable(self) : coming' = coming \cup {AntiOf(ev)} /\ todo' = todo
      BY <1>5 DEF Withdraw
    <2>2. IsEvent(ev)
      BY <1>1, <2>1, LpAssumption
    <2>3. IsEvent(AntiOf(ev)) /\ AntiOf(ev).anti
      BY <2>2, AntiOfEvent
    <2>4. Plain(coming') = Plain(coming)
      BY <2>1, <2>3 DEF Plain
    <2> QED
      BY <1>1, <1>2, <2>1, <2>3, <2>4 DEF EventNext
  <1> QED
    BY <1>3, <1>4, <1>5

\* Fossil collection.
LEMMA EventGvt ==
    ASSUME EventInv, AdvanceGvt
    PROVE  EventNext
  <1>1. PICK g \in GvtStamps(self) :
           /\ base' = PrunedRecords(g) /\ sentBase' = PrunedSent(g)
           /\ UNCHANGED <<vt, nextUid, log, sentLog, todo, coming, deferred>>
    BY DEF AdvanceGvt, GvtAdvances
  <1>2. /\ nextUid \in Nat /\ self \in Lps /\ Places
        /\ Logs(log, base, sentLog, sentBase, vt)
        /\ \A e \in coming \cup todo \cup Executed(log) \cup deferred : IsEvent(e)
        /\ \A m \in 1..Len(sentLog) : IsSent(sentLog[m].ev)
    BY DEF EventInv
  <1>3. g \in Stamp
    BY <1>1, <1>2, LpAssumption
  <1>4. /\ IsSequence(log) /\ base \in 0..Len(log)
        /\ IsSequence(sentLog) /\ sentBase \in 0..Len(sentLog)
    BY <1>2 DEF Logs
  <1> DEFINE n == PrunedRecords(g)
             k == PrunedSent(g)
  <1>5. /\ n \in base..Len(log) /\ \A i \in (base+1)..n : Lt(log[i].ev.ts, g)
        /\ n < Len(log) => ~ Lt(log[n + 1].ev.ts, g)
    BY <1>4, PrunedRange
  <1>6. /\ k \in sentBase..Len(sentLog) /\ \A i \in (sentBase+1)..k : Lt(sentLog[i].at, g)
        /\ k < Len(sentLog) => ~ Lt(sentLog[k + 1].at, g)
    BY <1>4, PrunedSentRange
  <1> HIDE DEF n, k
  <1>7. Logs(log, n, sentLog, k, vt)
    BY <1>2, <1>3, <1>5, <1>6, LogsPruned
  <1>8. Logs(log', base', sentLog', sentBase', vt')
    BY <1>1, <1>7 DEF n, k
  <1> QED
    BY <1>1, <1>2, <1>8 DEF EventNext, Places

\* Every step.
LEMMA EventStep ==
    ASSUME EventInv, ContractKept, [Next]_vars
    PROVE  EventInv'
  <1>1. AsksToWrite /\ AnswersAreNew
    BY DEF ContractKept
  <1>2. ASSUME Execute
        PROVE  EventNext
    BY <1>1, <1>2, EventExecute DEF EventNext
  <1>3. ASSUME Defer
        PROVE  EventNext
    BY <1>1, <1>3, EventDefer DEF EventNext
  <1>4. ASSUME UNCHANGED vars
        PROVE  EventNext
    BY <1>4 DEF EventInv, EventNext, Places, vars
  <1>5. EventNext
    BY <1>2, <1>3, <1>4, EventStraggler, EventCancel, EventPending, EventTraffic, EventGvt
       DEF Next, Kernel
  <1>6. self' = self
    BY DEF Next, Kernel, Execute, Defer, Straggler, CancelProcessed, CancelPending,
           Discard, Arrive, Withdraw, AdvanceGvt, lpVars, vars
  <1>7. self' \in Lps
    BY <1>6 DEF EventInv
  <1>8. Logs(log, base, sentLog, sentBase, vt)'
    <2>1. Logs(log', base', sentLog', sentBase', vt')
      BY <1>5 DEF EventNext
    <2>2. Distinct(log)' /\ InOrder(log, base, vt)' /\ SentInOrder(sentLog, sentBase, vt)'
          /\ Aligned(log, base, sentLog, sentBase)'
      BY <2>1 DEF Logs, Distinct, InOrder, SentInOrder, Aligned
    <2>3. ASSUME NEW i \in 1..Len(log'), ~ log'[i].ev.anti
          PROVE  \E n \in 0..Len(sentLog') : InARow(log, i, sentLog, n)'
      <3>1. PICK n \in 0..Len(sentLog') : InARow(log', i, sentLog', n)
        BY <2>1, <2>3 DEF Logs, Stands
      <3>2. InARow(log, i, sentLog, n)'
        BY <1>6, <3>1 DEF InARow, SendsOf
      <3> QED
        BY <3>2
    <2>4. Stands(log, sentLog)'
      BY <2>1, <2>3 DEF Logs, Stands
    <2>5. \A i \in 1..Len(log') : /\ log'[i].ev.ts \in Stamp
                                 /\ ~ log'[i].ev.anti => Len(SendsOf(log[i])') \in Nat
      BY <1>6, <2>1 DEF Logs, SendsOf
    <2> QED
      BY <2>1, <2>2, <2>4, <2>5 DEF Logs
  <1>9. Places'
    BY <1>5, <1>6 DEF EventNext, Places, OneEach
  <1>10. (\A m \in 1..Len(sentLog) : IsSent(sentLog[m].ev))'
    BY <1>5, <1>6 DEF EventNext, IsSent
  <1> QED
    BY <1>5, <1>7, <1>8, <1>9, <1>10 DEF EventInv, EventNext

\* At first, when nothing has been executed or sent.
LEMMA EventInit == Init => EventInv
  <1> HAVE Init
  <1>1. /\ self \in Lps /\ StartSends(self) \in Nat /\ vt = ZeroStamp
        /\ log = <<>> /\ base = 0 /\ sentLog = <<>> /\ sentBase = 0
        /\ todo = Started(self) /\ coming = Inputs(self) /\ deferred = {}
        /\ nextUid = StartSends(self) + 1
    BY LpAssumption DEF Init
  <1>2. IsSequence(log) /\ Len(log) = 0 /\ IsSequence(sentLog) /\ Len(sentLog) = 0
    <2>1. <<>> \in Seq({}) /\ Len(<<>>) = 0
      OBVIOUS
    <2> QED
      BY <1>1, <2>1 DEF IsSequence
  <1>3. Logs(log, base, sentLog, sentBase, vt)
    <2>1. /\ \A i \in 1..Len(log) : FALSE
          /\ \A m \in 1..Len(sentLog) : FALSE
          /\ base = 0 /\ sentBase = 0 /\ vt \in Stamp
      BY <1>1, <1>2, StampConstants
    <2>2. Distinct(log) /\ Aligned(log, base, sentLog, sentBase) /\ Stands(log, sentLog)
      BY <2>1 DEF Distinct, Aligned, Stands
    <2>3. InOrder(log, base, vt) /\ SentInOrder(sentLog, sentBase, vt)
      BY <1>2, <2>1 DEF InOrder, SentInOrder
    <2>4. base \in 0..Len(log) /\ sentBase \in 0..Len(sentLog)
      BY <1>1, <1>2
    <2> QED
      BY <1>2, <2>1, <2>2, <2>3, <2>4 DEF Logs
  <1>4. Executed(log) = {} /\ \A m \in 1..Len(sentLog) : IsSent(sentLog[m].ev)
    BY <1>2 DEF Executed
  <1>5. \A e \in coming \cup todo : IsEvent(e) /\ ~ e.anti
    BY <1>1, LpAssumption
  <1>6. Places
    <2>1. /\ Plain(coming) = coming /\ Plain(todo) = todo
          /\ Plain(Executed(log)) = {} /\ Plain(deferred) = {}
      BY <1>1, <1>4, <1>5 DEF Plain
    <2>2. \A e, f \in coming \cup todo : Key(e) = Key(f) => e = f
      BY <1>1, LpAssumption
    <2>3. \A e \in coming : e.src # self
      BY <1>1, LpAssumption
    <2>4. \A e \in todo : e.src = self /\ e.uid < nextUid
      <3> TAKE e \in todo
      <3>1. e.src = self /\ e.uid <= StartSends(self) /\ e.uid \in Nat
        BY <1>1, <1>5, LpAssumption DEF IsEvent
      <3> QED
        BY <1>1, <3>1
    <2>5. \A e \in coming : e \notin todo
      BY <2>3, <2>4
    <2>6. OneEach(coming, todo, {}, {}, nextUid)
      BY <2>2, <2>3, <2>4, <2>5 DEF OneEach
    <2> QED
      BY <2>1, <2>6 DEF Places
  <1>7. nextUid \in Nat
    BY <1>1
  <1> QED
    BY <1>1, <1>3, <1>4, <1>5, <1>6, <1>7 DEF EventInv

\* Nothing is sent twice and nothing is left over, however often events are undone
\* and executed again: what stands of the LP's messages is what the handlers of its
\* standing records sent.
THEOREM MessagesFollowRecords == Spec /\ []ContractKept => []SendsAreReplay
  <1>1. EventInv => SendsAreReplay
    <2> HAVE EventInv
    <2>1. Stands(log, sentLog)
      BY DEF EventInv, Logs
    <2>2. ASSUME NEW i \in 1..Len(log), ~ log[i].ev.anti
          PROVE  LET sends == OnEvent(self, log[i].pre, log[i].ev).sends
                     mine  == {m \in 1..Len(sentLog) : sentLog[m].of = Key(log[i].ev)}
                 IN  \E n \in 0..Len(sentLog) :
                        /\ mine = (n+1)..(n + Len(sends))
                        /\ \A j \in 1..Len(sends) :
                              /\ sentLog[n + j].ev.dst = sends[j].dst
                              /\ sentLog[n + j].ev.body = sends[j].body
      <3>1. PICK n \in 0..Len(sentLog) : InARow(log, i, sentLog, n)
        BY <2>1, <2>2 DEF Stands
      <3> QED
        BY <3>1 DEF InARow, SendsOf
    <2>3. \A m \in 1..Len(sentLog) :
             \E i \in 1..Len(log) : ~ log[i].ev.anti /\ Key(log[i].ev) = sentLog[m].of
      BY <2>1 DEF Stands
    <2> QED
      BY <2>2, <2>3 DEF SendsAreReplay
  <1>2. EventInv /\ ContractKept /\ [Next]_vars => EventInv'
    BY EventStep
  <1> QED
    BY <1>1, <1>2, EventInit, PTL DEF Spec

-----------------------------------------------------------------------------
(***************************************************************************)
(* No event is lost.                                                       *)
(***************************************************************************)
AntiPlaces == coming \cup todo \cup Executed(log)

\* It takes back the input with its key, if there is one.
FitsInputs(a) == a.anti => \A b \in Inputs(self) : Key(a) = Key(b) => a = AntiOf(b)

PlaceInv ==
    /\ EventInv
    /\ \A e \in deferred : ~ e.anti
    /\ \A a \in AntiPlaces : FitsInputs(a)
    /\ \A b \in Inputs(self) : b \in AntiPlaces \cup deferred \/ AntiOf(b) \in AntiPlaces

\* What a step does to these: it adds fitting events, and loses no anti-message,
\* nor an event without one.
PlacesKept ==
    /\ \A e \in deferred' : ~ e.anti
    /\ \A a \in AntiPlaces' : a \in AntiPlaces \/ FitsInputs(a)
    /\ \A a \in AntiPlaces : a.anti => a \in AntiPlaces'
    /\ \A b \in Inputs(self) :
          b \in AntiPlaces \cup deferred
          => b \in AntiPlaces' \cup deferred' \/ AntiOf(b) \in AntiPlaces'

\* Executing an event.
LEMMA PlaceExecute ==
    ASSUME PlaceInv, AsksToWrite, AnswersAreNew, Execute
    PROVE  PlacesKept
  <1>1. PICK ev \in todo :
           LET r == OnEvent(self, state, ev)
           IN  /\ Ready(ev) /\ Sends(r.sends, ev.ts, Key(ev))
               /\ log' = Append(log, Record(ev, r.writes))
               /\ todo' = (todo \ {ev}) \cup Local(ToSet(Emitted(r.sends)))
                                        \cup Released(ev)
               /\ deferred' = deferred \ Released(ev)
    BY DEF Execute
  <1> DEFINE sends == OnEvent(self, state, ev).sends
             evs == Emitted(sends)
             rec == Record(ev, OnEvent(self, state, ev).writes)
             own == Local(ToSet(evs))
             ans == Answered(ToSet(evs))
             rel == Released(ev)
  <1>2. /\ nextUid \in Nat /\ IsSequence(log) /\ \A e \in deferred : ~ e.anti
    BY DEF PlaceInv, EventInv, Logs
  <1>3. /\ log' = Append(log, rec) /\ todo' = (todo \ {ev}) \cup own \cup rel
        /\ deferred' = deferred \ rel /\ coming' = coming \cup ans
        /\ \A i \in 1..Len(evs) : evs[i].ts \in Stamp
    BY <1>1 DEF Sends
  <1>4. rec.ev = ev /\ ~ ev.anti /\ rel \subseteq deferred
    BY <1>1 DEF Record, Ready, Released
  <1>5. \A a \in ans : ~ a.anti
    BY <1>1 DEF AnswersAreNew
  <1>6. Len(sends) \in Nat
    <2>1. sends \in Seq(ToSet(sends))
      BY <1>1 DEF AsksToWrite
    <2> HIDE DEF sends
    <2> QED
      BY <2>1
  <1> HIDE DEF sends, rec, ans, rel
  <1>7. \A e \in ToSet(evs) : ~ e.anti
    <2>1. ToSet(evs) = {evs[i] : i \in 1..Len(sends)} /\ \A i \in 1..Len(sends) : ~ evs[i].anti
      BY <1>2, <1>3, <1>6, EmittedAre
    <2> HIDE DEF evs
    <2> QED
      BY <2>1
  <1>8. \A e \in own : ~ e.anti
    BY <1>7 DEF Local
  <1> HIDE DEF own
  <1>9. Executed(log') = Executed(log) \cup {ev}
    BY <1>2, <1>3, <1>4, ExecutedMore
  <1>10. \A a \in AntiPlaces' : a \in AntiPlaces \/ ~ a.anti
    BY <1>2, <1>3, <1>4, <1>5, <1>8, <1>9 DEF AntiPlaces
  <1>11. \A a \in AntiPlaces : a \in AntiPlaces'
    BY <1>3, <1>9 DEF AntiPlaces
  <1>12. \A e \in deferred : e \in AntiPlaces' \cup deferred'
    BY <1>3 DEF AntiPlaces
  <1>13. \A e \in deferred' : ~ e.anti
    BY <1>2, <1>3
  <1> QED
    BY <1>10, <1>11, <1>12, <1>13 DEF PlacesKept, FitsInputs

\* Rolling back, and processing an anti-message.
LEMMA PlaceBack ==
    ASSUME PlaceInv, Straggler \/ CancelProcessed
    PROVE  PlacesKept
  <1>1. PICK ev \in todo :
           LET M == SubSeq(log, 1, Kept(ev.ts))
           IN  /\ coming' = coming \cup {AntiOf(a) : a \in Answered(Unsent(ev.ts))}
               /\ deferred' = deferred
               /\ \/ log' = M /\ todo' = todo \cup Requeued(ev.ts)
                  \/ /\ log' = Append(M, [Record(ev, {}) EXCEPT !.pre = state'])
                     /\ todo' = (todo \ {ev}) \cup Requeued(ev.ts)
    BY DEF Straggler, CancelProcessed, RollBack
  <1> DEFINE to == ev.ts
             M == SubSeq(log, 1, Kept(to))
             antis == {AntiOf(a) : a \in Answered(Unsent(to))}
             rec == [Record(ev, {}) EXCEPT !.pre = state']
  <1>2. /\ EventInv /\ self \in Lps /\ \A e \in deferred : ~ e.anti
        /\ \A e \in todo : IsEvent(e)
    BY DEF PlaceInv, EventInv
  <1>3. to \in Stamp
    BY <1>2 DEF IsEvent
  <1>4. /\ IsSequence(M)
        /\ Executed(log) = Executed(M) \cup Undone(Kept(to))
        /\ \A a \in antis : \A b \in Inputs(self) : Key(a) # Key(b)
        /\ \A a \in Requeued(to) : a \in Executed(log) \/ a.src = self
        /\ Undone(Kept(to)) \subseteq Requeued(to)
    BY <1>2, <1>3, RolledBack
  <1>5. /\ coming' = coming \cup antis /\ deferred' = deferred
        /\ \/ log' = M /\ todo' = todo \cup Requeued(to)
           \/ log' = Append(M, rec) /\ todo' = (todo \ {ev}) \cup Requeued(to)
    BY <1>1
  <1>6. rec.ev = ev
    BY DEF Record
  <1> HIDE DEF to, M, antis, rec
  <1>7. \/ Executed(log') = Executed(M) /\ todo' = todo \cup Requeued(to)
        \/ Executed(log') = Executed(M) \cup {ev} /\ todo' = (todo \ {ev}) \cup Requeued(to)
    BY <1>4, <1>5, <1>6, ExecutedMore
  <1>8. \A b \in Inputs(self) : b.src # self
    BY <1>2, LpAssumption
  <1>9. \A a \in Requeued(to) : a \in Executed(log) \/ FitsInputs(a)
    BY <1>4, <1>8 DEF FitsInputs, Key
  <1>10. \A a \in antis : FitsInputs(a)
    BY <1>4 DEF FitsInputs
  <1>11. \A a \in AntiPlaces' : a \in AntiPlaces \/ FitsInputs(a)
    BY <1>4, <1>5, <1>7, <1>9, <1>10 DEF AntiPlaces
  <1>12. \A a \in AntiPlaces : a \in AntiPlaces'
    BY <1>4, <1>5, <1>7 DEF AntiPlaces
  <1> QED
    BY <1>2, <1>5, <1>11, <1>12 DEF PlacesKept

\* The other steps of the kernel.
LEMMA PlaceTraffic ==
    ASSUME PlaceInv, AsksToWrite, Defer \/ CancelPending \/ Discard \/ Arrive \/ Withdraw
    PROVE  PlacesKept
  <1>1. /\ EventInv /\ self \in Lps /\ IsSequence(log) /\ \A e \in deferred : ~ e.anti
        /\ \A a \in AntiPlaces : FitsInputs(a)
    BY DEF PlaceInv, EventInv, Logs
  <1>2. ASSUME Defer
        PROVE  PlacesKept
    <2>1. PICK ev \in todo : /\ coming' = coming /\ log' = log /\ ~ ev.anti
                             /\ todo' = todo \ {ev} /\ deferred' = deferred \cup {ev}
      BY <1>1, <1>2, EventDefer
    <2> QED
      BY <1>1, <2>1 DEF PlacesKept, AntiPlaces
  <1>3. ASSUME CancelPending
        PROVE  PlacesKept
    <2>1. PICK ev \in todo : /\ log' = Append(log, Record(ev, {})) /\ todo' = todo \ {ev}
                             /\ coming' = coming /\ deferred' = deferred
      BY <1>3 DEF CancelPending
    <2> DEFINE rec == Record(ev, {})
    <2>2. rec.ev = ev /\ log' = Append(log, rec)
      BY <2>1 DEF Record
    <2> HIDE DEF rec
    <2>3. Executed(log') = Executed(log) \cup {ev}
      BY <1>1, <2>2, ExecutedMore
    <2> QED
      BY <1>1, <2>1, <2>3 DEF PlacesKept, AntiPlaces
  <1>4. ASSUME Discard
        PROVE  PlacesKept
    <2>1. PICK ev \in todo : /\ Skipped(ev) /\ todo' = todo \ {ev}
                             /\ coming' = coming /\ deferred' = deferred /\ log' = log
      BY <1>4 DEF Discard, lpVars
    <2>2. PICK i \in (base+1)..Len(log) : log[i].ev.anti /\ Key(log[i].ev) = Key(ev)
      BY <2>1 DEF Skipped, Cancelled
    <2>3. log[i].ev \in Executed(log)
      <3>1. base \in 0..Len(log) /\ Len(log) \in Nat
        BY <1>1, Appended DEF EventInv, Logs
      <3>2. i \in 1..Len(log)
        BY <3>1
      <3> QED
        BY <3>2 DEF Executed
    <2>4. ~ ev.anti
      BY <2>1 DEF Skipped
    <2>5. ev \in Inputs(self) => AntiOf(ev) \in Executed(log)
      BY <1>1, <2>2, <2>3 DEF AntiPlaces, FitsInputs
    <2> QED
      BY <1>1, <2>1, <2>4, <2>5 DEF PlacesKept, AntiPlaces
  <1>5. ASSUME Arrive
        PROVE  PlacesKept
    <2>1. PICK ev \in coming : /\ coming' = coming \ {ev} /\ todo' = todo \cup {ev}
                               /\ deferred' = deferred /\ log' = log
      BY <1>5 DEF Arrive, lpVars
    <2> QED
      BY <1>1, <2>1 DEF PlacesKept, AntiPlaces
  <1>6. ASSUME Withdraw
        PROVE  PlacesKept
    <2>1. PICK ev \in Revocable(self) : /\ coming' = coming \cup {AntiOf(ev)} /\ todo' = todo
                                        /\ deferred' = deferred /\ log' = log
      BY <1>6 DEF Withdraw, lpVars
    <2>2. ev \in Inputs(self) /\ IsEvent(ev)
      BY <1>1, <2>1, LpAssumption
    <2>3. Key(AntiOf(ev)) = Key(ev)
      BY <2>2, AntiOfEvent
    <2>4. FitsInputs(AntiOf(ev))
      BY <1>1, <2>2, <2>3, LpAssumption DEF FitsInputs
    <2> QED
      BY <1>1, <2>1, <2>4 DEF PlacesKept, AntiPlaces
  <1> QED
    BY <1>2, <1>3, <1>4, <1>5, <1>6

LEMMA PlaceStep ==
    ASSUME PlaceInv, ContractKept, [Next]_vars
    PROVE  PlaceInv'
  <1>1. AsksToWrite /\ AnswersAreNew /\ EventInv /\ \A e \in deferred : ~ e.anti
    BY DEF ContractKept, PlaceInv
  <1>2. EventInv'
    BY <1>1, EventStep
  <1>3. ASSUME AdvanceGvt \/ UNCHANGED vars
        PROVE  PlacesKept
    <2>1. UNCHANGED <<coming, todo, log, deferred>>
      BY <1>3 DEF AdvanceGvt, vars
    <2> QED
      BY <1>1, <2>1 DEF PlacesKept, AntiPlaces
  <1>4. PlacesKept
    BY <1>1, <1>3, PlaceExecute, PlaceBack, PlaceTraffic DEF Next, Kernel
  <1>5. self' = self
    BY DEF Next, Kernel, Execute, Defer, Straggler, CancelProcessed, CancelPending,
           Discard, Arrive, Withdraw, AdvanceGvt, lpVars, vars
  <1>6. \A a \in AntiPlaces' : FitsInputs(a)
    BY <1>4 DEF PlacesKept, PlaceInv
  <1>7. \A b \in Inputs(self) :
           b \in AntiPlaces' \cup deferred' \/ AntiOf(b) \in AntiPlaces'
    <2> TAKE b \in Inputs(self)
    <2>1. AntiOf(b) \in AntiPlaces => AntiOf(b) \in AntiPlaces'
      <3>1. self \in Lps
        BY <1>1 DEF EventInv
      <3>2. AntiOf(b).anti
        BY <3>1, LpAssumption, AntiOfEvent
      <3> QED
        BY <1>4, <3>2 DEF PlacesKept
    <2> QED
      BY <1>4, <2>1 DEF PlacesKept, PlaceInv
  <1>8. \A a \in AntiPlaces' : FitsInputs(a)'
    BY <1>5, <1>6 DEF FitsInputs
  <1> QED
    BY <1>2, <1>4, <1>5, <1>7, <1>8 DEF PlaceInv, PlacesKept

\* No event is lost or doubled by being kept aside, undone and put back: each input
\* is in one place, unless an anti-message has taken it back.
THEOREM NoEventIsLost == Spec /\ []ContractKept => []EachInOnePlace
  <1>1. Init => PlaceInv
    <2> HAVE Init
    <2>1. EventInv
      BY EventInit
    <2>2. /\ self \in Lps /\ todo = Started(self) /\ coming = Inputs(self)
          /\ deferred = {} /\ log = <<>>
      BY DEF Init
    <2>3. Executed(log) = {}
      BY <2>2 DEF Executed
    <2>4. \A e \in coming \cup todo : ~ e.anti
      BY <2>2, LpAssumption
    <2> QED
      BY <2>1, <2>2, <2>3, <2>4 DEF PlaceInv, AntiPlaces, FitsInputs
  <1>2. PlaceInv /\ ContractKept /\ [Next]_vars => PlaceInv'
    BY PlaceStep
  <1>3. PlaceInv => EachInOnePlace
    <2> HAVE PlaceInv
    <2>1. /\ self \in Lps /\ IsSequence(log)
          /\ OneEach(Plain(coming), Plain(todo), Plain(Executed(log)), Plain(deferred),
                     nextUid)
      BY DEF PlaceInv, EventInv, Logs, Places
    <2>2. Undone(0) = Executed(log)
      BY <2>1, UndoneAll
    <2> SUFFICES ASSUME NEW ev \in Inputs(self)
                 PROVE  LET places == {s \in {<<"coming", coming>>, <<"todo", todo>>,
                                              <<"log", Undone(0)>>,
                                              <<"deferred", deferred>>} : ev \in s[2]}
                        IN  Cardinality(places) = 1 \/ (places = {} /\ Withdrawn(ev))
      BY DEF EachInOnePlace
    <2> DEFINE U == Undone(0)
               all == {<<"coming", coming>>, <<"todo", todo>>, <<"log", U>>,
                       <<"deferred", deferred>>}
               places == {s \in all : ev \in s[2]}
    <2>3. ~ ev.anti
      BY <2>1, LpAssumption
    <2>4. /\ ev \in coming => ev \notin todo /\ ev \notin U /\ ev \notin deferred
          /\ ev \in todo => ev \notin U /\ ev \notin deferred
          /\ ev \in U => ev \notin deferred
      BY <2>1, <2>2, <2>3 DEF OneEach, Plain
    <2>5. ev \in coming \/ ev \in todo \/ ev \in U \/ ev \in deferred \/ Withdrawn(ev)
      BY <2>2 DEF PlaceInv, AntiPlaces, Withdrawn
    <2> HIDE DEF U
    <2>6. ASSUME NEW s, places = {s}
          PROVE  Cardinality(places) = 1
      BY <2>6, FS_Singleton
    <2>7. CASE ev \in coming
      <3>1. places = {<<"coming", coming>>}
        BY <2>4, <2>7
      <3> QED
        BY <2>6, <3>1 DEF U
    <2>8. CASE ev \in todo
      <3>1. places = {<<"todo", todo>>}
        BY <2>4, <2>8
      <3> QED
        BY <2>6, <3>1 DEF U
    <2>9. CASE ev \in U
      <3>1. places = {<<"log", U>>}
        BY <2>4, <2>9
      <3> QED
        BY <2>6, <3>1 DEF U
    <2>10. CASE ev \in deferred
      <3>1. places = {<<"deferred", deferred>>}
        BY <2>4, <2>10
      <3> QED
        BY <2>6, <3>1 DEF U
    <2>11. CASE ev \notin coming /\ ev \notin todo /\ ev \notin U /\ ev \notin deferred
      <3>1. places = {}
        BY <2>11
      <3> QED
        BY <2>5, <2>11, <3>1 DEF U
    <2> QED
      BY <2>7, <2>8, <2>9, <2>10, <2>11
  <1> QED
    BY <1>1, <1>2, <1>3, PTL DEF Spec

-----------------------------------------------------------------------------
(***************************************************************************)
(* What the state and the events of a given LP may be, whatever is undone  *)
(* and withdrawn.                                                          *)
(***************************************************************************)
\* The handler for ev has run: it has thrown for a missing entity, and ev is kept
\* aside, or for nothing, and what waited for it is put back.
Runs(ev) ==
    LET r == OnEvent(self, state, ev)
    IN  /\ Ready(ev) /\ state' = r.state
        /\ \/ ~ r.missing /\ ~ r.fatal /\ deferred' = deferred \ Released(ev)
           \/ r.missing /\ ~ IsInstall(ev) /\ deferred' = deferred \cup {ev}

\* The state is left alone, is what a handler makes of it, or what Load does.
LEMMA StateMoves ==
    ASSUME [Next]_vars
    PROVE  \/ UNCHANGED <<state, deferred>>
           \/ \E ev \in todo : Runs(ev)
           \/ deferred' = deferred /\ \E old : state' = Load(self, state, old)
  <1>1. CASE Execute
    BY <1>1 DEF Execute, Runs
  <1>2. CASE Defer
    BY <1>2 DEF Defer, Deferrable, Runs
  <1>3. ASSUME NEW to, RollBack(to), deferred' = deferred
        PROVE  deferred' = deferred /\ \E old : state' = Load(self, state, old)
    <2>1. state' = Load(self, state, Saved(Kept(to)))
      BY <1>3 DEF RollBack, Restored
    <2> QED
      BY <1>3, <2>1
  <1>4. CASE Straggler
    <2>1. PICK ev \in todo : RollBack(ev.ts) /\ deferred' = deferred
      BY <1>4 DEF Straggler
    <2> QED
      BY <1>3, <2>1
  <1>5. CASE CancelProcessed
    <2>1. PICK ev \in todo : RollBack(ev.ts) /\ deferred' = deferred
      BY <1>5 DEF CancelProcessed
    <2> QED
      BY <1>3, <2>1
  <1>6. CASE CancelPending \/ Discard \/ Arrive \/ Withdraw \/ AdvanceGvt \/ UNCHANGED vars
    BY <1>6 DEF CancelPending, Discard, Arrive, Withdraw, AdvanceGvt, lpVars, vars
  <1> QED
    BY <1>1, <1>2, <1>4, <1>5, <1>6 DEF Next, Kernel

\* Every event for the LP has one of the bodies B.
OfBodies(S, B) == \A e \in S : e.body \in B
ToSelf(S, B) == \A m \in 1..Len(S) : S[m].ev.dst = self => S[m].ev.body \in B
BodiesInv(B) == OfBodies(coming \cup todo \cup Executed(log) \cup deferred, B)
               /\ ToSelf(sentLog, B)

\* An anti-message has the sender, the stamp and the body of its event.
LEMMA AntiAlike ==
    ASSUME NEW e, IsEvent(e)
    PROVE  AntiOf(e).src = e.src /\ AntiOf(e).ts = e.ts /\ AntiOf(e).body = e.body
  BY DEF AntiOf, IsEvent

\* A handler that runs for ev, and what its sends do to the traffic.
LEMMA BodiesRun ==
    ASSUME EventInv, AsksToWrite, NEW B, BodiesInv(B), NEW ev \in todo, Ready(ev),
           NEW r, r = OnEvent(self, state, ev), Sends(r.sends, ev.ts, Key(ev)),
           \A e : OfBodies(Replies(self, e), B),
           \A i \in 1..Len(r.sends) : r.sends[i].dst = self => r.sends[i].body \in B
    PROVE  /\ OfBodies(coming', B) /\ OfBodies(Local(ToSet(Emitted(r.sends))), B)
           /\ ToSelf(sentLog', B)
  <1> DEFINE sends == r.sends
             n == Len(sends)
             evs == Emitted(sends)
             u == [i \in 1..Len(evs) |-> [at |-> ev.ts, of |-> Key(ev), ev |-> evs[i]]]
  <1>1. /\ \A i \in 1..Len(evs) : evs[i].ts \in Stamp
        /\ sentLog' = sentLog \o u /\ coming' = coming \cup Answered(ToSet(evs))
    BY DEF Sends
  <1>2. n \in Nat
    <2>1. sends \in Seq(ToSet(sends))
      BY DEF AsksToWrite
    <2> HIDE DEF sends
    <2> QED
      BY <2>1
  <1>3. nextUid \in Nat /\ IsSequence(sentLog)
    BY DEF EventInv, Logs
  <1> HIDE DEF sends, evs
  <1>4. /\ Len(evs) = n /\ ToSet(evs) = {evs[i] : i \in 1..n}
        /\ \A i \in 1..n : evs[i].dst = sends[i].dst /\ evs[i].body = sends[i].body
    BY <1>1, <1>2, <1>3, EmittedAre DEF evs
  <1>5. \A i \in 1..n : evs[i].dst = self => evs[i].body \in B
    BY <1>4 DEF sends
  <1>6. OfBodies(Local(ToSet(evs)), B)
    BY <1>4, <1>5 DEF OfBodies, Local
  <1>7. OfBodies(coming', B)
    BY <1>1 DEF Answered, OfBodies, BodiesInv
  <1>8. ToSelf(sentLog', B)
    <2>1. IsSequence(u) /\ Len(u) = n /\ \A i \in 1..n : u[i].ev = evs[i]
      <3> DEFINE f(i) == [at |-> ev.ts, of |-> Key(ev), ev |-> evs[i]]
      <3>1. \A i \in 1..n : f(i).ev = evs[i]
        OBVIOUS
      <3> HIDE DEF f
      <3>2. u = [i \in 1..n |-> f(i)]
        BY <1>4 DEF f
      <3> HIDE DEF u
      <3>3. u \in Seq({f(i) : i \in 1..n}) /\ Len(u) = n /\ \A i \in 1..n : u[i] = f(i)
        BY <1>2, <3>2
      <3> QED
        BY <3>1, <3>3 DEF IsSequence
    <2> HIDE DEF u
    <2> DEFINE t == sentLog \o u
               k == Len(sentLog)
    <2>2. /\ k \in Nat /\ Len(t) = k + n /\ \A i \in 1..k : t[i] = sentLog[i]
          /\ \A i \in 1..n : t[k + i] = u[i]
      <3>1. Joins(t, sentLog, u)
        BY <1>3, <2>1, Joined
      <3> HIDE DEF t
      <3> QED
        BY <2>1, <3>1 DEF Joins
    <2> HIDE DEF t, k
    <2> SUFFICES ASSUME NEW m \in 1..(k + n), t[m].ev.dst = self
                 PROVE  t[m].ev.body \in B
      BY <1>1, <2>2 DEF ToSelf, t
    <2>3. CASE m <= k
      BY <2>2, <2>3 DEF ToSelf, BodiesInv, k
    <2>4. CASE m > k
      <3>1. m - k \in 1..n /\ k + (m - k) = m
        BY <1>2, <2>2, <2>4
      <3>2. t[m] = u[m - k] /\ u[m - k].ev = evs[m - k]
        BY <2>1, <2>2, <3>1
      <3> QED
        BY <1>5, <3>1, <3>2
    <2> QED
      BY <2>2, <2>3, <2>4
  <1> QED
    BY <1>6, <1>7, <1>8 DEF evs, sends

\* A rollback.
LEMMA BodiesBack ==
    ASSUME EventInv, NEW B, BodiesInv(B), NEW to \in Stamp, RollBack(to),
           \A e : OfBodies(Replies(self, e), B)
    PROVE  /\ OfBodies(coming', B) /\ OfBodies(Requeued(to), B) /\ ToSelf(sentLog', B)
           /\ OfBodies(Executed(SubSeq(log, 1, Kept(to))), B)
           /\ IsSequence(SubSeq(log, 1, Kept(to)))
  <1> DEFINE k == KeptSent(to)
             n == Kept(to)
             antis == {AntiOf(e) : e \in Answered(Unsent(to))}
  <1>1. /\ IsSequence(log) /\ base \in 0..Len(log) /\ IsSequence(sentLog)
        /\ sentBase \in 0..Len(sentLog)
    BY DEF EventInv, Logs
  <1>2. n \in base..Len(log) /\ k \in sentBase..Len(sentLog)
    BY <1>1, KeptRange, KeptSentRange
  <1>3. Len(log) \in Nat /\ Len(sentLog) \in Nat
    BY <1>1, Appended
  <1>4. sentLog' = SubSeq(sentLog, 1, k) /\ coming' = coming \cup antis
    BY DEF RollBack
  <1> HIDE DEF k, n
  <1>5. k \in 0..Len(sentLog) /\ n \in 0..Len(log)
    BY <1>1, <1>2, <1>3
  <1>6. /\ Len(SubSeq(sentLog, 1, k)) = k /\ \A i \in 1..k : SubSeq(sentLog, 1, k)[i] = sentLog[i]
        /\ Len(SubSeq(log, 1, n)) = n /\ \A i \in 1..n : SubSeq(log, 1, n)[i] = log[i]
        /\ IsSequence(SubSeq(log, 1, n))
    BY <1>1, <1>5, CutOff
  <1>7. \A i \in 1..k : i \in 1..Len(sentLog)
    BY <1>3, <1>5
  <1>8. \A i \in 1..n : i \in 1..Len(log)
    BY <1>3, <1>5
  <1>9. ToSelf(sentLog', B)
    BY <1>4, <1>6, <1>7 DEF ToSelf, BodiesInv
  <1>10. OfBodies(Executed(SubSeq(log, 1, n)), B)
    <2> DEFINE M == SubSeq(log, 1, n)
    <2> HIDE DEF M
    <2>1. Len(M) = n /\ \A i \in 1..n : M[i] = log[i]
      BY <1>6 DEF M
    <2>2. OfBodies(Executed(M), B)
      BY <1>8, <2>1 DEF OfBodies, Executed, BodiesInv
    <2> QED
      BY <2>2 DEF M
  <1>11. \A e \in Unsent(to) : \E i \in 1..Len(sentLog) : e = sentLog[i].ev
    <2>1. \A i \in (k+1)..Len(sentLog) : i \in 1..Len(sentLog)
      BY <1>3, <1>5
    <2> QED
      BY <2>1 DEF Unsent, k
  <1>12. OfBodies(coming', B)
    <2>1. \A e \in Answered(Unsent(to)) : IsEvent(e) /\ e.body \in B
      <3> TAKE e \in Answered(Unsent(to))
      <3>1. PICK i \in 1..Len(sentLog) : sentLog[i].ev.dst # self
                                         /\ e \in Replies(self, sentLog[i].ev)
        BY <1>11 DEF Answered, Local
      <3> QED
        BY <3>1 DEF EventInv, IsSent, OfBodies
    <2>2. OfBodies(antis, B)
      BY <2>1, AntiAlike DEF OfBodies
    <2> QED
      BY <1>4, <2>2 DEF OfBodies, BodiesInv
  <1>13. OfBodies(Requeued(to), B)
    <2>1. OfBodies(Undone(n), B)
      <3>1. \A i \in (n+1)..Len(log) : i \in 1..Len(log)
        BY <1>3, <1>5
      <3> QED
        BY <3>1 DEF OfBodies, Undone, BodiesInv, Executed
    <2>2. \A e \in Local(Unsent(to)) : IsEvent(e) /\ e.body \in B
      BY <1>11 DEF Local, BodiesInv, ToSelf, EventInv, IsSent
    <2>3. OfBodies({AntiOf(e) : e \in Local(Unsent(to))}, B)
      BY <2>2, AntiAlike DEF OfBodies
    <2> QED
      BY <2>1, <2>3 DEF OfBodies, Requeued, n
  <1>14. OfBodies(Executed(SubSeq(log, 1, n)), B) /\ IsSequence(SubSeq(log, 1, n))
    BY <1>6, <1>10
  <1> QED
    BY <1>9, <1>12, <1>13, <1>14, Zenon DEF n

\* Whatever happens, the events for the LP have these bodies.
LEMMA BodiesStep ==
    ASSUME EventInv, AsksToWrite, NEW B, BodiesInv(B), [Next]_vars,
           OfBodies(Inputs(self), B), \A e : OfBodies(Replies(self, e), B),
           \A ev \in todo : Ready(ev) => LET sends == OnEvent(self, state, ev).sends IN
              \A i \in 1..Len(sends) : sends[i].dst = self => sends[i].body \in B
    PROVE  BodiesInv(B)'
  <1> USE DEF BodiesInv
  <1>1. /\ OfBodies(coming, B) /\ OfBodies(todo, B) /\ OfBodies(Executed(log), B)
        /\ OfBodies(deferred, B) /\ ToSelf(sentLog, B) /\ IsSequence(log)
        /\ self \in Lps
    BY DEF OfBodies, EventInv, Logs
  <1>2. self' = self
    BY DEF Next, Kernel, Execute, Defer, Straggler, CancelProcessed, CancelPending,
           Discard, Arrive, Withdraw, AdvanceGvt, lpVars, vars
  <1> SUFFICES /\ OfBodies(coming', B) /\ OfBodies(todo', B) /\ OfBodies(Executed(log'), B)
               /\ OfBodies(deferred', B) /\ ToSelf(sentLog', B)
    <2>1. ToSelf(sentLog', B) = ToSelf(sentLog, B)'
      BY <1>2 DEF ToSelf
    <2> QED
      BY <2>1 DEF OfBodies, Executed
  <1>3. ASSUME NEW ev \in todo, NEW rec, rec.ev = ev, NEW L, IsSequence(L),
               OfBodies(Executed(L), B), log' = Append(L, rec)
        PROVE  OfBodies(Executed(log'), B)
    BY <1>1, <1>3, ExecutedMore DEF OfBodies
  <1>4. ASSUME NEW ev \in todo, Ready(ev), NEW r, r = OnEvent(self, state, ev),
               Sends(r.sends, ev.ts, Key(ev))
        PROVE  /\ OfBodies(coming', B) /\ OfBodies(Local(ToSet(Emitted(r.sends))), B)
               /\ ToSelf(sentLog', B)
    BY <1>4, BodiesRun
  <1>5. CASE Execute
    <2>1. PICK ev \in todo : LET r == OnEvent(self, state, ev) IN
             /\ Ready(ev) /\ Sends(r.sends, ev.ts, Key(ev))
             /\ log' = Append(log, Record(ev, r.writes))
             /\ todo' = (todo \ {ev}) \cup Local(ToSet(Emitted(r.sends))) \cup Released(ev)
             /\ deferred' = deferred \ Released(ev)
      BY <1>5 DEF Execute
    <2>2. Released(ev) \subseteq deferred
      BY DEF Released
    <2> DEFINE r == OnEvent(self, state, ev)
               rec == Record(ev, r.writes)
               own == Local(ToSet(Emitted(r.sends)))
    <2>3. rec.ev = ev
      BY DEF Record
    <2>4. OfBodies(coming', B) /\ OfBodies(own, B) /\ ToSelf(sentLog', B)
      BY <1>4, <2>1
    <2>5. log' = Append(log, rec) /\ todo' = (todo \ {ev}) \cup own \cup Released(ev)
      BY <2>1
    <2> HIDE DEF rec, own
    <2>6. OfBodies(Executed(log'), B)
      BY <1>1, <1>3, <2>3, <2>5
    <2> QED
      BY <1>1, <2>1, <2>2, <2>4, <2>5, <2>6 DEF OfBodies
  <1>6. CASE Defer
    <2>1. PICK ev \in todo : LET r == OnEvent(self, state, ev) IN
             /\ Ready(ev) /\ Sends(r.sends, ev.ts, Key(ev)) /\ log' = log
             /\ todo' = (todo \ {ev}) \cup Local(ToSet(Emitted(r.sends)))
             /\ deferred' = deferred \cup {ev}
      BY <1>6 DEF Defer
    <2> DEFINE own == Local(ToSet(Emitted(OnEvent(self, state, ev).sends)))
    <2>2. OfBodies(coming', B) /\ OfBodies(own, B) /\ ToSelf(sentLog', B)
      BY <1>4, <2>1
    <2>3. todo' = (todo \ {ev}) \cup own
      BY <2>1
    <2> HIDE DEF own
    <2> QED
      BY <1>1, <2>1, <2>2, <2>3 DEF OfBodies
  <1>7. CASE Straggler
    <2>1. PICK ev \in todo : /\ RollBack(ev.ts) /\ todo' = todo \cup Requeued(ev.ts)
                             /\ log' = SubSeq(log, 1, Kept(ev.ts)) /\ deferred' = deferred
      BY <1>7 DEF Straggler
    <2>2. ev.ts \in Stamp
      BY DEF EventInv, IsEvent
    <2> QED
      BY <1>1, <2>1, <2>2, BodiesBack DEF OfBodies
  <1>8. CASE CancelProcessed
    <2>1. PICK ev \in todo :
             /\ RollBack(ev.ts) /\ todo' = (todo \ {ev}) \cup Requeued(ev.ts)
             /\ log' = Append(SubSeq(log, 1, Kept(ev.ts)), [Record(ev, {}) EXCEPT !.pre = state'])
             /\ deferred' = deferred
      BY <1>8 DEF CancelProcessed
    <2>2. ev.ts \in Stamp
      BY DEF EventInv, IsEvent
    <2> DEFINE rec == [Record(ev, {}) EXCEPT !.pre = state']
               L == SubSeq(log, 1, Kept(ev.ts))
    <2>3. rec.ev = ev /\ log' = Append(L, rec)
      BY <2>1 DEF Record
    <2>4. /\ OfBodies(coming', B) /\ OfBodies(Requeued(ev.ts), B) /\ ToSelf(sentLog', B)
          /\ OfBodies(Executed(L), B) /\ IsSequence(L)
      BY <2>1, <2>2, BodiesBack
    <2> HIDE DEF rec, L
    <2>5. OfBodies(Executed(log'), B)
      BY <1>3, <2>3, <2>4
    <2> QED
      BY <1>1, <2>1, <2>4, <2>5 DEF OfBodies
  <1>9. CASE CancelPending
    <2>1. PICK ev \in todo : /\ log' = Append(log, Record(ev, {})) /\ todo' = todo \ {ev}
                             /\ coming' = coming /\ deferred' = deferred
                             /\ sentLog' = sentLog
      BY <1>9 DEF CancelPending
    <2> DEFINE rec == Record(ev, {})
    <2>2. rec.ev = ev /\ log' = Append(log, rec)
      BY <2>1 DEF Record
    <2> HIDE DEF rec
    <2>3. OfBodies(Executed(log'), B)
      BY <1>1, <1>3, <2>2
    <2> QED
      BY <1>1, <2>1, <2>3 DEF OfBodies
  <1>10. CASE Discard \/ Arrive \/ AdvanceGvt \/ UNCHANGED vars
    <2>1. /\ coming' \subseteq coming /\ todo' \subseteq todo \cup coming
          /\ UNCHANGED <<log, sentLog, deferred>>
      BY <1>10 DEF Discard, Arrive, AdvanceGvt, lpVars, vars
    <2> QED
      BY <1>1, <2>1 DEF OfBodies
  <1>11. CASE Withdraw
    <2>1. PICK ev \in Revocable(self) : /\ coming' = coming \cup {AntiOf(ev)}
                                        /\ UNCHANGED <<log, sentLog, todo, deferred>>
      BY <1>11 DEF Withdraw, lpVars
    <2>2. ev \in Inputs(self) /\ IsEvent(ev)
      BY <1>1, LpAssumption
    <2>3. AntiOf(ev).body \in B
      BY <2>2, AntiAlike DEF OfBodies
    <2> QED
      BY <1>1, <2>1, <2>3 DEF OfBodies
  <1> QED
    BY <1>5, <1>6, <1>7, <1>8, <1>9, <1>10, <1>11 DEF Next, Kernel

-----------------------------------------------------------------------------
(***************************************************************************)
(* An LP that answers other LPs: it sends nothing to itself, and what it   *)
(* sends has the stamp of what it answers.                                 *)
(***************************************************************************)
OnlyAnswers ==
    \A ev \in todo : Ready(ev) =>
        LET r == OnEvent(self, state, ev)
        IN  /\ ~ r.missing
            /\ \A i \in 1..Len(r.sends) : r.sends[i].dst # self /\ r.sends[i].ts = ev.ts

\* What the others send, at first and when they get an answer; not before it.
Clients(B) ==
    /\ Started(self) = {} /\ OfBodies(Inputs(self), B)
    /\ \A ev : \A a \in Replies(self, ev) :
          a.src # self /\ a.body \in B /\ Le(ev.ts, a.ts)

\* The records L stand in the order of stamps, the first b of them below g.
LogAtGvt(L, b, g) ==
    /\ \A i \in 1..Len(L) : Lt(L[i].ev.ts, g) <=> i <= b
    /\ \A i \in 1..Len(L) : \A j \in 1..(i-1) : Le(L[j].ev.ts, L[i].ev.ts)

\* Events of other LPs, with bodies of B.
FromClients(S, B) == \A e \in S : e.src # self /\ e.body \in B

\* Nothing comes before g.
NotBefore(S, g) == \A e \in S : Le(g, e.ts)

\* Answers go to other LPs, at the stamp of the question or, numbered, after it.
AnswersOut(S) == \A m \in 1..Len(S) : S[m].ev.dst # self /\ Le(S[m].at, S[m].ev.ts)

ServerTraffic(B) ==
    /\ gvt \in Stamp /\ deferred = {}
    /\ FromClients(coming \cup todo \cup Executed(log), B)
    /\ NotBefore(coming \cup todo, gvt)
    /\ LogAtGvt(log, base, gvt)
    /\ AnswersOut(sentLog)

ServerInv(B) == EventInv /\ ReplayInv /\ ServerTraffic(B)

\* One more record, not below g nor below the others.
LEMMA LogAtGvtMore ==
    ASSUME NEW L, IsSequence(L), NEW b \in 0..Len(L), NEW g \in Stamp, LogAtGvt(L, b, g),
           NEW rec, rec.ev.ts \in Stamp, Le(g, rec.ev.ts),
           \A i \in 1..Len(L) : L[i].ev.ts \in Stamp,
           \A i \in (b+1)..Len(L) : Le(L[i].ev.ts, rec.ev.ts)
    PROVE  LogAtGvt(Append(L, rec), b, g)
  <1> DEFINE M == Append(L, rec)
             n == Len(L)
  <1>1. /\ Len(L) \in Nat /\ Len(M) = Len(L) + 1 /\ M[Len(L) + 1] = rec
        /\ \A i \in 1..Len(L) : M[i] = L[i]
    BY Appended
  <1> HIDE DEF M, n
  <1>2. n \in Nat /\ Len(M) = n + 1 /\ M[n + 1] = rec /\ (\A i \in 1..n : M[i] = L[i])
        /\ b \in 0..n
    BY <1>1 DEF n
  <1>3. \A i \in 1..n : Le(L[i].ev.ts, rec.ev.ts)
    <2> TAKE i \in 1..n
    <2>1. CASE i <= b
      <3>1. Lt(L[i].ev.ts, g) /\ L[i].ev.ts \in Stamp
        BY <2>1 DEF LogAtGvt, n
      <3> QED
        BY <3>1, LeOrder
    <2>2. CASE ~ (i <= b)
      <3>1. i \in (b+1)..n
        BY <1>2, <2>2
      <3> QED
        BY <3>1 DEF n
    <2> QED
      BY <2>1, <2>2
  <1>4. ~ Lt(rec.ev.ts, g)
    BY DEF Le
  <1>5. ASSUME NEW i \in 1..(n+1)
        PROVE  /\ Lt(M[i].ev.ts, g) <=> i <= b
               /\ \A j \in 1..(i-1) : Le(M[j].ev.ts, M[i].ev.ts)
    <2>1. CASE i \in 1..n
      <3>1. \A j \in 1..(i-1) : j \in 1..n
        BY <1>2, <2>1
      <3> QED
        BY <1>2, <2>1, <3>1 DEF LogAtGvt, n
    <2>2. CASE i = n + 1
      <3>1. \A j \in 1..(i-1) : j \in 1..n
        BY <1>2, <2>2
      <3>2. ~ (i <= b)
        BY <1>2, <2>2
      <3> QED
        BY <1>2, <1>3, <1>4, <2>2, <3>1, <3>2
    <2> QED
      BY <1>2, <2>1, <2>2
  <1>6. LogAtGvt(M, b, g)
    BY <1>2, <1>5 DEF LogAtGvt
  <1> QED
    BY <1>6 DEF M

\* Some fewer.
LEMMA LogAtGvtCut ==
    ASSUME NEW L, IsSequence(L), NEW b, NEW g, LogAtGvt(L, b, g), NEW n \in 0..Len(L)
    PROVE  LogAtGvt(SubSeq(L, 1, n), b, g)
  <1> DEFINE M == SubSeq(L, 1, n)
  <1>1. Len(L) \in Nat /\ Len(M) = n /\ \A i \in 1..n : M[i] = L[i] /\ i \in 1..Len(L)
    BY CutOff
  <1> HIDE DEF M
  <1>2. \A i \in 1..n : \A j \in 1..(i-1) : j \in 1..n
    BY <1>1
  <1>3. LogAtGvt(M, b, g)
    BY <1>1, <1>2 DEF LogAtGvt
  <1> QED
    BY <1>3 DEF M

LEMMA ServerInit ==
    ASSUME NEW B, Clients(B), Init
    PROVE  ServerInv(B)
  <1>1. EventInv
    BY EventInit
  <1>2. log = <<>> /\ base = 0 /\ sentLog = <<>> /\ gvt = ZeroStamp /\ deferred = {}
        /\ todo = {} /\ coming = Inputs(self) /\ state = InitState(self)
    BY DEF Init, Clients
  <1>3. IsSequence(log) /\ Len(log) = 0 /\ Len(sentLog) = 0
    <2>1. <<>> \in Seq({}) /\ Len(<<>>) = 0
      OBVIOUS
    <2> QED
      BY <1>2, <2>1 DEF IsSequence
  <1>4. ReplayInv
    BY <1>2, <1>3 DEF ReplayInv, Replays, Alike, Finds
  <1>5. \A e \in coming : IsEvent(e) /\ e.src # self
    BY <1>1, <1>2, LpAssumption DEF EventInv
  <1>6. FromClients(coming \cup todo \cup Executed(log), B) /\ NotBefore(coming \cup todo, gvt)
    <2>1. Executed(log) = {}
      BY <1>3 DEF Executed
    <2>2. \A e \in coming : e.ts \in Stamp
      BY <1>5 DEF IsEvent
    <2> QED
      BY <1>2, <1>5, <2>1, <2>2, StampConstants DEF FromClients, NotBefore, Clients, OfBodies
  <1>7. LogAtGvt(log, base, gvt) /\ AnswersOut(sentLog)
    BY <1>3 DEF LogAtGvt, AnswersOut
  <1> QED
    BY <1>1, <1>2, <1>4, <1>6, <1>7, StampConstants DEF ServerInv, ServerTraffic

\* What a step does to these.
ServerNext(B) ==
    /\ gvt' \in Stamp /\ deferred' = {}
    /\ FromClients(coming' \cup todo' \cup Executed(log'), B)
    /\ NotBefore(coming' \cup todo', gvt')
    /\ LogAtGvt(log', base', gvt')
    /\ AnswersOut(sentLog')

\* What the clients send when they get answers.
LEMMA RepliesAfter ==
    ASSUME NEW B, Clients(B), NEW S, NEW g \in Stamp,
           \A e \in S : IsEvent(e) /\ Le(g, e.ts)
              /\ \A a \in Replies(self, e) : IsEvent(a)
    PROVE  \A a \in Answered(S) : IsEvent(a) /\ a.src # self /\ a.body \in B /\ Le(g, a.ts)
  <1> TAKE a \in Answered(S)
  <1>1. PICK e \in S : a \in Replies(self, e)
    BY DEF Answered, Local
  <1>2. IsEvent(a) /\ a.src # self /\ a.body \in B /\ Le(e.ts, a.ts) /\ Le(g, e.ts)
    BY <1>1 DEF Clients
  <1>3. e.ts \in Stamp /\ a.ts \in Stamp
    BY <1>1, <1>2 DEF IsEvent
  <1> QED
    BY <1>2, <1>3, LeOrder

\* Executing an event.
LEMMA ServerExecute ==
    ASSUME NEW B, Clients(B), ServerInv(B), AsksToWrite, AnswersAreNew, OnlyAnswers, Execute
    PROVE  ServerNext(B)
  <1>1. PICK ev \in todo :
           LET r == OnEvent(self, state, ev)
           IN  /\ Ready(ev) /\ Sends(r.sends, ev.ts, Key(ev))
               /\ log' = Append(log, Record(ev, r.writes))
               /\ todo' = (todo \ {ev}) \cup Local(ToSet(Emitted(r.sends)))
                                        \cup Released(ev)
               /\ deferred' = deferred \ Released(ev)
               /\ UNCHANGED <<self, base, sentBase, gvt>>
    BY DEF Execute
  <1> DEFINE r == OnEvent(self, state, ev)
             sends == r.sends
             evs == Emitted(sends)
             n == Len(sends)
             rec == Record(ev, r.writes)
             u == [i \in 1..Len(evs) |-> [at |-> ev.ts, of |-> Key(ev), ev |-> evs[i]]]
             new == ToSet(evs)
  <1>2. /\ Logs(log, base, sentLog, sentBase, vt) /\ nextUid \in Nat
        /\ \A e \in coming \cup todo \cup Executed(log) \cup deferred : IsEvent(e)
        /\ IsSequence(log) /\ base \in 0..Len(log) /\ IsSequence(sentLog) /\ vt \in Stamp
        /\ \A i \in 1..Len(log) : log[i].ev.ts \in Stamp
    BY DEF ServerInv, EventInv, Logs
  <1>3. /\ gvt \in Stamp /\ deferred = {}
        /\ FromClients(coming \cup todo \cup Executed(log), B)
        /\ NotBefore(coming \cup todo, gvt) /\ LogAtGvt(log, base, gvt)
        /\ AnswersOut(sentLog)
    BY DEF ServerInv, ServerTraffic
  <1>4. /\ \A i \in 1..Len(evs) : evs[i].ts \in Stamp
        /\ sentLog' = sentLog \o u /\ coming' = coming \cup Answered(new)
    BY <1>1 DEF Sends
  <1>5. IsEvent(ev) /\ ev.ts \in Stamp /\ Le(gvt, ev.ts) /\ ev.src # self /\ Le(vt, ev.ts)
        /\ ~ ev.anti
    BY <1>1, <1>2, <1>3 DEF IsEvent, NotBefore, FromClients, Ready, Le
  <1>6. n \in Nat
    <2>1. sends \in Seq(ToSet(sends))
      BY <1>1 DEF AsksToWrite
    <2> HIDE DEF sends
    <2> QED
      BY <2>1
  <1>7. \A i \in 1..n : sends[i].dst # self /\ sends[i].ts = ev.ts
    BY <1>1 DEF OnlyAnswers
  <1>8. rec.ev = ev
    BY DEF Record
  <1>9. log' = Append(log, rec) /\ base' = base /\ gvt' = gvt
        /\ todo' = (todo \ {ev}) \cup Local(new) \cup Released(ev)
        /\ deferred' = deferred \ Released(ev)
        /\ \A a \in Answered(new) : IsEvent(a)
    BY <1>1 DEF AnswersAreNew
  <1>10. Released(ev) = {} /\ deferred' = {}
    BY <1>3, <1>9 DEF Released
  <1> HIDE DEF r, rec, sends
  <1>11. /\ IsSequence(evs) /\ Len(evs) = n
         /\ \A i \in 1..n : /\ IsEvent(evs[i]) /\ evs[i].dst = sends[i].dst
         /\ new = {evs[i] : i \in 1..n}
    BY <1>2, <1>4, <1>6, EmittedAre, SMTT(30)
  <1>12. \A i \in 1..n : Le(ev.ts, evs[i].ts)
    <2> TAKE i \in 1..n
    <2>1. evs[i].ts = IF sends[i].ts.sequence = 0
                      THEN [sends[i].ts EXCEPT
                               !.sequence = nextSeq + Numbered(sends, i - 1)]
                      ELSE sends[i].ts
      BY DEF Emitted
    <2>2. evs[i].ts \in Stamp /\ sends[i].ts = ev.ts
      BY <1>4, <1>7, <1>11
    <2> HIDE DEF evs
    <2>3. CASE sends[i].ts.sequence = 0
      <3>1. evs[i].ts.time = sends[i].ts.time
        BY <2>1, <2>2, <2>3, <1>5 DEF Stamp
      <3> QED
        BY <1>5, <2>2, <2>3, <3>1, StampBounds DEF Le, Lt, Stamp
    <2>4. CASE sends[i].ts.sequence # 0
      BY <1>5, <2>1, <2>2, <2>4, LeOrder
    <2> QED
      BY <2>3, <2>4
  <1> HIDE DEF evs, new, n
  <1>13. Local(new) = {}
    BY <1>5, <1>7, <1>11 DEF Local
  <1>14. \A e \in new : IsEvent(e) /\ Le(gvt, e.ts)
    <2> TAKE e \in new
    <2>1. PICK i \in 1..n : e = evs[i]
      BY <1>11
    <2>2. IsEvent(e) /\ Le(ev.ts, e.ts) /\ e.ts \in Stamp
      BY <1>11, <1>12, <2>1 DEF IsEvent
    <2> QED
      BY <1>3, <1>5, <2>2, LeOrder
  <1>15. \A a \in Answered(new) : IsEvent(a) /\ a.src # self /\ a.body \in B /\ Le(gvt, a.ts)
    <2>1. \A e \in new : \A a \in Replies(self, e) : IsEvent(a)
      BY <1>9, <1>13 DEF Answered
    <2> QED
      BY <1>3, <1>14, <2>1, RepliesAfter
  <1>16. /\ IsSequence(u) /\ Len(u) = n
         /\ \A j \in 1..n : u[j].at = ev.ts /\ u[j].ev = evs[j]
    <2>1. u = [i \in 1..n |-> [at |-> ev.ts, of |-> Key(ev), ev |-> evs[i]]]
      BY <1>11
    <2> HIDE DEF u
    <2>2. u \in Seq({[at |-> ev.ts, of |-> Key(ev), ev |-> evs[i]] : i \in 1..n})
      BY <1>6, <2>1
    <2>3. Len(u) = n
      BY <1>6, <2>1
    <2>4. \A j \in 1..n : u[j] = [at |-> ev.ts, of |-> Key(ev), ev |-> evs[j]]
      BY <2>1
    <2> QED
      BY <2>2, <2>3, <2>4 DEF IsSequence
  <1> HIDE DEF u
  <1>17. AnswersOut(sentLog')
    <2>1. /\ Len(sentLog) \in Nat /\ n \in Nat /\ Len(sentLog') = Len(sentLog) + n
          /\ \A i \in 1..Len(sentLog) : sentLog'[i] = sentLog[i]
          /\ \A i \in 1..n : sentLog'[Len(sentLog) + i] = u[i]
      <3> DEFINE t == sentLog \o u
      <3>1. Joins(t, sentLog, u)
        BY <1>2, <1>16, Joined
      <3>2. sentLog' = t
        BY <1>4
      <3> HIDE DEF t
      <3> QED
        BY <1>16, <3>1, <3>2 DEF Joins
    <2> SUFFICES ASSUME NEW m \in 1..Len(sentLog')
                 PROVE  sentLog'[m].ev.dst # self
                        /\ Le(sentLog'[m].at, sentLog'[m].ev.ts)
      BY DEF AnswersOut
    <2>2. CASE m \in 1..Len(sentLog)
      BY <1>3, <2>1, <2>2 DEF AnswersOut
    <2>3. CASE m \notin 1..Len(sentLog)
      <3>1. m - Len(sentLog) \in 1..n /\ Len(sentLog) + (m - Len(sentLog)) = m
        BY <2>1, <2>3
      <3> DEFINE i == m - Len(sentLog)
      <3>2. sentLog'[m] = u[i]
        BY <2>1, <3>1
      <3> QED
        BY <1>5, <1>7, <1>11, <1>12, <1>16, <3>1, <3>2
    <2> QED
      BY <2>2, <2>3
  <1>18. LogAtGvt(log', base', gvt')
    <2>1. \A i \in (base+1)..Len(log) : Le(log[i].ev.ts, rec.ev.ts)
      <3> TAKE i \in (base+1)..Len(log)
      <3>1. i \in 1..Len(log) /\ Le(log[i].ev.ts, vt)
        BY <1>2 DEF Logs, InOrder
      <3> QED
        BY <1>2, <1>5, <1>8, <3>1, LeOrder
    <2>2. LogAtGvt(Append(log, rec), base, gvt)
      BY <1>2, <1>3, <1>5, <1>8, <2>1, LogAtGvtMore
    <2> QED
      BY <1>9, <2>2
  <1>19. Executed(log') = Executed(log) \cup {ev}
    BY <1>2, <1>8, <1>9, ExecutedMore
  <1>20. FromClients(coming' \cup todo' \cup Executed(log'), B)
    BY <1>1, <1>3, <1>4, <1>9, <1>10, <1>13, <1>15, <1>19 DEF FromClients
  <1>21. NotBefore(coming' \cup todo', gvt')
    BY <1>3, <1>4, <1>9, <1>10, <1>13, <1>15 DEF NotBefore
  <1> QED
    BY <1>3, <1>9, <1>10, <1>17, <1>18, <1>20, <1>21 DEF ServerNext

\* What a rollback keeps, and what it puts into the queue and on its way.
LEMMA ServerRolledBack ==
    ASSUME NEW B, Clients(B), ServerInv(B), NEW to \in Stamp, Le(gvt, to)
    PROVE  LET M == SubSeq(log, 1, Kept(to))
               antis == {AntiOf(a) : a \in Answered(Unsent(to))}
           IN  /\ IsSequence(M) /\ Executed(M) \subseteq Executed(log)
               /\ LogAtGvt(M, base, gvt) /\ base \in 0..Len(M)
               /\ \A i \in 1..Len(M) : M[i].ev.ts \in Stamp
               /\ \A i \in (base+1)..Len(M) : Le(M[i].ev.ts, to)
               /\ AnswersOut(SubSeq(sentLog, 1, KeptSent(to)))
               /\ Requeued(to) \subseteq Executed(log) /\ FromClients(antis, B)
               /\ NotBefore(Requeued(to) \cup antis, gvt)
  <1> DEFINE n == Kept(to)
             k == KeptSent(to)
             M == SubSeq(log, 1, n)
             R == SubSeq(sentLog, 1, k)
             antis == {AntiOf(a) : a \in Answered(Unsent(to))}
  <1>1. /\ Logs(log, base, sentLog, sentBase, vt)
        /\ \A m \in 1..Len(sentLog) : IsSent(sentLog[m].ev)
        /\ IsSequence(log) /\ base \in 0..Len(log) /\ InOrder(log, base, vt)
        /\ IsSequence(sentLog) /\ sentBase \in 0..Len(sentLog) /\ vt \in Stamp
        /\ \A i \in 1..Len(log) : log[i].ev.ts \in Stamp
        /\ \A m \in 1..Len(sentLog) : sentLog[m].at \in Stamp
    BY DEF ServerInv, EventInv, Logs
  <1>2. /\ gvt \in Stamp /\ LogAtGvt(log, base, gvt) /\ AnswersOut(sentLog)
    BY DEF ServerInv, ServerTraffic
  <1>3. /\ n \in base..Len(log) /\ \A i \in (n+1)..Len(log) : Le(to, log[i].ev.ts)
        /\ n > base => ~ Le(to, log[n].ev.ts)
    BY <1>1, KeptRange
  <1>4. /\ k \in sentBase..Len(sentLog)
        /\ \A i \in (k+1)..Len(sentLog) : Le(to, sentLog[i].at)
    BY <1>1, KeptSentRange
  <1>5. /\ Undone(n) = {log[i].ev : i \in (n+1)..Len(log)}
        /\ Unsent(to) = {sentLog[i].ev : i \in (k+1)..Len(sentLog)}
        /\ Requeued(to) = Undone(n) \cup {AntiOf(ev) : ev \in Local(Unsent(to))}
    BY DEF Undone, Unsent, Requeued
  <1> HIDE DEF n, k
  <1>6. Len(log) \in Nat /\ Len(sentLog) \in Nat
    BY <1>1, Appended
  <1>7. n \in 0..Len(log) /\ k \in 0..Len(sentLog)
    BY <1>1, <1>3, <1>4, <1>6
  <1>8. /\ IsSequence(M) /\ Len(M) = n /\ Len(R) = k
        /\ \A i \in 1..n : M[i] = log[i] /\ i \in 1..Len(log)
        /\ \A m \in 1..k : R[m] = sentLog[m] /\ m \in 1..Len(sentLog)
    BY <1>1, <1>7, CutOff
  <1>9. LogAtGvt(M, base, gvt)
    BY <1>1, <1>2, <1>7, LogAtGvtCut
  <1> HIDE DEF M, R
  <1>10. Executed(M) \subseteq Executed(log)
    BY <1>8 DEF Executed
  <1>11. base \in 0..Len(M) /\ \A i \in 1..Len(M) : M[i].ev.ts \in Stamp
    BY <1>1, <1>3, <1>6, <1>8
  <1>12. ASSUME NEW i \in (base+1)..Len(M)
         PROVE  Le(M[i].ev.ts, to)
    <2>1. n > base /\ n \in 1..Len(log) /\ i \in 1..n /\ n \in (base+1)..Len(log)
      BY <1>1, <1>3, <1>6, <1>8
    <2>2. ~ Le(to, log[n].ev.ts) /\ log[n].ev.ts \in Stamp
      BY <1>1, <1>3, <2>1
    <2>3. i = n \/ i \in (base+1)..(n-1)
      BY <1>1, <2>1
    <2>4. Le(log[i].ev.ts, log[n].ev.ts)
      BY <1>1, <2>1, <2>2, <2>3, LeOrder DEF InOrder
    <2>5. log[i].ev.ts \in Stamp /\ M[i] = log[i]
      BY <1>1, <1>8, <2>1
    <2>6. Le(log[n].ev.ts, to)
      BY <2>2, LeOrder DEF Le
    <2> QED
      BY <2>2, <2>4, <2>5, <2>6, LeOrder
  <1>13. AnswersOut(R)
    BY <1>2, <1>8 DEF AnswersOut
  <1>14. \A i \in (k+1)..Len(sentLog) : i \in 1..Len(sentLog)
    BY <1>7
  <1>15. Local(Unsent(to)) = {}
    BY <1>2, <1>5, <1>14 DEF Local, AnswersOut
  <1>16. Requeued(to) \subseteq Executed(log) /\ \A e \in Requeued(to) : Le(gvt, e.ts)
    <2>1. Requeued(to) = {log[i].ev : i \in (n+1)..Len(log)}
      BY <1>5, <1>15
    <2> SUFFICES ASSUME NEW e \in Requeued(to)
                 PROVE  e \in Executed(log) /\ Le(gvt, e.ts)
      OBVIOUS
    <2>2. PICK i \in (n+1)..Len(log) : e = log[i].ev
      BY <2>1
    <2>3. i \in 1..Len(log) /\ Le(to, e.ts) /\ e.ts \in Stamp
      BY <1>1, <1>3, <1>7, <2>2
    <2> QED
      BY <1>2, <2>2, <2>3, LeOrder DEF Executed
  <1>17. \A e \in Unsent(to) : IsEvent(e) /\ Le(gvt, e.ts)
              /\ \A a \in Replies(self, e) : IsEvent(a)
    <2> TAKE e \in Unsent(to)
    <2>1. PICK i \in (k+1)..Len(sentLog) : e = sentLog[i].ev
      BY <1>5
    <2>2. /\ IsSent(e) /\ e.dst # self /\ Le(to, sentLog[i].at) /\ Le(sentLog[i].at, e.ts)
          /\ sentLog[i].at \in Stamp
      BY <1>1, <1>2, <1>4, <1>14, <2>1 DEF AnswersOut
    <2>3. e.ts \in Stamp
      BY <2>2 DEF IsSent, IsEvent
    <2>4. Le(to, e.ts)
      BY <2>2, <2>3, LeOrder
    <2> QED
      BY <1>2, <2>2, <2>3, <2>4, LeOrder DEF IsSent
  <1>18. \A a \in Answered(Unsent(to)) :
            IsEvent(a) /\ a.src # self /\ a.body \in B /\ Le(gvt, a.ts)
    BY <1>2, <1>17, RepliesAfter
  <1>19. \A b \in antis : b.src # self /\ b.body \in B /\ Le(gvt, b.ts)
    <2> TAKE b \in antis
    <2>1. PICK a \in Answered(Unsent(to)) : b = AntiOf(a)
      OBVIOUS
    <2>2. b.src = a.src /\ b.ts = a.ts /\ b.body = a.body
      BY <1>18, <2>1, AntiAlike
    <2> QED
      BY <1>18, <2>2
  <1> HIDE DEF antis
  <1>20. FromClients(antis, B) /\ NotBefore(Requeued(to) \cup antis, gvt)
    BY <1>16, <1>19 DEF FromClients, NotBefore
  <1> QED
    BY <1>8, <1>9, <1>10, <1>11, <1>12, <1>13, <1>16, <1>20 DEF M, R, antis, n, k

\* Rolling back for a straggler or for what an anti-message takes back.
LEMMA ServerBack ==
    ASSUME NEW B, Clients(B), ServerInv(B), Straggler \/ CancelProcessed
    PROVE  ServerNext(B)
  <1>1. PICK ev \in todo :
           LET M == SubSeq(log, 1, Kept(ev.ts))
           IN  /\ sentLog' = SubSeq(sentLog, 1, KeptSent(ev.ts))
               /\ coming' = coming \cup {AntiOf(a) : a \in Answered(Unsent(ev.ts))}
               /\ todo' \subseteq todo \cup Requeued(ev.ts)
               /\ UNCHANGED <<base, deferred, gvt>>
               /\ \/ log' = M
                  \/ log' = Append(M, [Record(ev, {}) EXCEPT !.pre = state'])
    BY DEF Straggler, CancelProcessed, RollBack
  <1> DEFINE to == ev.ts
             M == SubSeq(log, 1, Kept(to))
             rec == [Record(ev, {}) EXCEPT !.pre = state']
             antis == {AntiOf(a) : a \in Answered(Unsent(to))}
  <1>2. /\ gvt \in Stamp /\ deferred = {}
        /\ FromClients(coming \cup todo \cup Executed(log), B)
        /\ NotBefore(coming \cup todo, gvt)
    BY DEF ServerInv, ServerTraffic
  <1>3. IsEvent(ev)
    BY DEF ServerInv, EventInv
  <1>4. to \in Stamp /\ Le(gvt, to)
    BY <1>2, <1>3 DEF IsEvent, NotBefore
  <1>5. rec.ev = ev
    BY DEF Record
  <1>6. /\ IsSequence(M) /\ Executed(M) \subseteq Executed(log)
        /\ LogAtGvt(M, base, gvt) /\ base \in 0..Len(M)
        /\ \A i \in 1..Len(M) : M[i].ev.ts \in Stamp
        /\ \A i \in (base+1)..Len(M) : Le(M[i].ev.ts, to)
        /\ AnswersOut(SubSeq(sentLog, 1, KeptSent(to)))
        /\ Requeued(to) \subseteq Executed(log) /\ FromClients(antis, B)
        /\ NotBefore(Requeued(to) \cup antis, gvt)
    BY <1>4, ServerRolledBack
  <1>7. /\ sentLog' = SubSeq(sentLog, 1, KeptSent(to)) /\ coming' = coming \cup antis
        /\ todo' \subseteq todo \cup Requeued(to) /\ base' = base /\ deferred' = deferred
        /\ gvt' = gvt /\ (log' = M \/ log' = Append(M, rec))
    BY <1>1
  <1> HIDE DEF M, antis, rec
  <1>8. LogAtGvt(log', base', gvt') /\ Executed(log') \subseteq Executed(log) \cup {ev}
    <2>1. CASE log' = M
      BY <1>6, <1>7, <2>1
    <2>2. CASE log' = Append(M, rec)
      <3>1. LogAtGvt(Append(M, rec), base, gvt)
        BY <1>2, <1>4, <1>5, <1>6, LogAtGvtMore
      <3>2. Executed(log') = Executed(M) \cup {ev}
        BY <1>5, <1>6, <2>2, ExecutedMore
      <3> QED
        BY <1>6, <1>7, <2>2, <3>1, <3>2
    <2> QED
      BY <1>7, <2>1, <2>2
  <1>9. FromClients(coming' \cup todo' \cup Executed(log'), B)
    BY <1>2, <1>6, <1>7, <1>8 DEF FromClients
  <1>10. NotBefore(coming' \cup todo', gvt')
    BY <1>2, <1>6, <1>7 DEF NotBefore
  <1> QED
    BY <1>2, <1>6, <1>7, <1>8, <1>9, <1>10 DEF ServerNext

\* The other steps.
LEMMA ServerOthers ==
    ASSUME NEW B, Clients(B), ServerInv(B), OnlyAnswers,
           Defer \/ CancelPending \/ Discard \/ Arrive \/ Withdraw
    PROVE  ServerNext(B)
  <1>1. /\ gvt \in Stamp /\ deferred = {}
        /\ FromClients(coming \cup todo \cup Executed(log), B)
        /\ NotBefore(coming \cup todo, gvt) /\ LogAtGvt(log, base, gvt)
        /\ AnswersOut(sentLog)
    BY DEF ServerInv, ServerTraffic
  <1>2. ~ Defer
    <2> SUFFICES ASSUME Defer
                 PROVE  FALSE
      OBVIOUS
    <2>1. PICK ev \in todo : Ready(ev) /\ OnEvent(self, state, ev).missing
      BY DEF Defer, Deferrable
    <2> QED
      BY <2>1 DEF OnlyAnswers
  <1>3. CASE CancelPending
    <2>1. PICK ev \in todo : /\ log' = Append(log, Record(ev, {})) /\ todo' = todo \ {ev}
                             /\ ~ Lt(ev.ts, vt)
                             /\ UNCHANGED <<base, sentLog, coming, deferred, gvt>>
      BY <1>3 DEF CancelPending
    <2> DEFINE rec == Record(ev, {})
    <2>2. rec.ev = ev /\ log' = Append(log, rec)
      BY <2>1 DEF Record
    <2> HIDE DEF rec
    <2>3. /\ IsSequence(log) /\ base \in 0..Len(log) /\ IsEvent(ev) /\ vt \in Stamp
          /\ \A i \in 1..Len(log) : log[i].ev.ts \in Stamp
          /\ InOrder(log, base, vt)
      BY DEF ServerInv, EventInv, Logs
    <2>4. ev.ts \in Stamp /\ Le(gvt, ev.ts) /\ Le(vt, ev.ts)
      BY <1>1, <2>1, <2>3 DEF IsEvent, NotBefore, Le
    <2>5. \A i \in (base+1)..Len(log) : Le(log[i].ev.ts, ev.ts)
      <3> TAKE i \in (base+1)..Len(log)
      <3>1. i \in 1..Len(log) /\ Le(log[i].ev.ts, vt)
        BY <2>3 DEF InOrder
      <3> QED
        BY <2>3, <2>4, <3>1, LeOrder
    <2>6. LogAtGvt(Append(log, rec), base, gvt)
      BY <1>1, <2>2, <2>3, <2>4, <2>5, LogAtGvtMore
    <2>7. Executed(log') = Executed(log) \cup {ev}
      BY <2>2, <2>3, ExecutedMore
    <2>8. FromClients(coming' \cup todo' \cup Executed(log'), B)
      BY <1>1, <2>1, <2>7 DEF FromClients
    <2>9. NotBefore(coming' \cup todo', gvt')
      BY <1>1, <2>1 DEF NotBefore
    <2> QED
      BY <1>1, <2>1, <2>2, <2>6, <2>8, <2>9 DEF ServerNext
  <1>4. CASE Discard \/ Arrive
    <2>1. /\ coming' \cup todo' \subseteq coming \cup todo
          /\ UNCHANGED <<log, base, sentLog, deferred, gvt>>
      BY <1>4 DEF Discard, Arrive, lpVars
    <2> QED
      BY <1>1, <2>1 DEF ServerNext, FromClients, NotBefore
  <1>5. CASE Withdraw
    <2>1. PICK ev \in Revocable(self) : /\ Le(gvt, ev.ts) /\ coming' = coming \cup {AntiOf(ev)}
                                        /\ UNCHANGED <<log, base, sentLog, todo, deferred, gvt>>
      BY <1>5 DEF Withdraw, lpVars
    <2>2. self \in Lps
      BY DEF ServerInv, EventInv
    <2>3. ev \in Inputs(self) /\ IsEvent(ev) /\ ev.src # self
      BY <2>2, LpAssumption
    <2>4. AntiOf(ev).src # self /\ AntiOf(ev).body \in B /\ Le(gvt, AntiOf(ev).ts)
      BY <2>1, <2>3, AntiAlike DEF Clients, OfBodies
    <2>5. FromClients(coming' \cup todo' \cup Executed(log'), B)
      BY <1>1, <2>1, <2>4 DEF FromClients
    <2>6. NotBefore(coming' \cup todo', gvt')
      BY <1>1, <2>1, <2>4 DEF NotBefore
    <2> QED
      BY <1>1, <2>1, <2>5, <2>6 DEF ServerNext
  <1> QED
    BY <1>2, <1>3, <1>4, <1>5

\* The GVT advances.
LEMMA ServerGvt ==
    ASSUME NEW B, ServerInv(B), AdvanceGvt
    PROVE  ServerNext(B)
  <1>1. PICK g \in GvtStamps(self) :
           /\ Lt(gvt, g) /\ \A ev \in todo \cup coming : Le(g, ev.ts)
           /\ gvt' = g /\ base' = PrunedRecords(g)
           /\ UNCHANGED <<log, sentLog, todo, coming, deferred>>
    BY DEF AdvanceGvt, GvtAdvances
  <1>2. /\ gvt \in Stamp /\ deferred = {}
        /\ FromClients(coming \cup todo \cup Executed(log), B)
        /\ LogAtGvt(log, base, gvt) /\ AnswersOut(sentLog)
    BY DEF ServerInv, ServerTraffic
  <1>3. /\ IsSequence(log) /\ base \in 0..Len(log) /\ self \in Lps
        /\ \A i \in 1..Len(log) : log[i].ev.ts \in Stamp
    BY DEF ServerInv, EventInv, Logs
  <1>4. g \in Stamp
    BY <1>1, <1>3, LpAssumption
  <1> DEFINE n == PrunedRecords(g)
  <1>5. /\ n \in base..Len(log) /\ \A i \in (base+1)..n : Lt(log[i].ev.ts, g)
        /\ n < Len(log) => ~ Lt(log[n + 1].ev.ts, g)
    BY <1>3, PrunedRange
  <1> HIDE DEF n
  <1>6. Len(log) \in Nat
    BY <1>3, Appended
  <1>7. ASSUME NEW i \in 1..Len(log)
        PROVE  Lt(log[i].ev.ts, g) <=> i <= n
    <2>1. CASE i <= base
      <3>1. Lt(log[i].ev.ts, gvt)
        BY <1>2, <2>1 DEF LogAtGvt
      <3> QED
        BY <1>1, <1>2, <1>3, <1>4, <1>5, <1>6, <2>1, <3>1, StampOrder
    <2>2. CASE i > base /\ i <= n
      <3>1. i \in (base+1)..n
        BY <1>3, <1>5, <1>6, <2>2
      <3> QED
        BY <1>5, <2>2, <3>1
    <2>3. CASE i > n
      <3>1. n < Len(log) /\ n + 1 \in 1..Len(log) /\ (n + 1 = i \/ n + 1 \in 1..(i-1))
        BY <1>3, <1>5, <1>6, <2>3
      <3>2. Le(log[n + 1].ev.ts, log[i].ev.ts)
        BY <1>2, <1>3, <3>1, LeOrder DEF LogAtGvt
      <3>3. Le(g, log[n + 1].ev.ts)
        BY <1>5, <3>1 DEF Le
      <3>4. Le(g, log[i].ev.ts)
        BY <1>3, <1>4, <3>1, <3>2, <3>3, LeOrder
      <3> QED
        BY <1>5, <1>6, <2>3, <3>4 DEF Le
    <2> QED
      BY <1>3, <1>5, <1>6, <2>1, <2>2, <2>3
  <1>8. LogAtGvt(log', base', gvt')
    BY <1>1, <1>2, <1>7 DEF LogAtGvt, n
  <1>9. NotBefore(coming' \cup todo', gvt')
    BY <1>1 DEF NotBefore
  <1> QED
    BY <1>1, <1>2, <1>4, <1>8, <1>9 DEF ServerNext

\* Every step.
LEMMA ServerStep ==
    ASSUME NEW B, Clients(B), ContractKept, OnlyAnswers, ServerInv(B), [Next]_vars
    PROVE  ServerInv(B)'
  <1>1. AsksToWrite /\ AnswersAreNew
    BY DEF ContractKept
  <1>2. EventInv' /\ ReplayInv'
    <2>1. EventInv /\ ReplayInv
      BY DEF ServerInv
    <2>2. EventInv'
      BY <2>1, EventStep
    <2>3. ReplayInv'
      BY <2>1, ReplayStep
    <2> QED
      BY <2>2, <2>3
  <1>4. ServerNext(B)
    <2>1. UNCHANGED vars => ServerNext(B)
      BY DEF ServerInv, ServerTraffic, ServerNext, vars
    <2> QED
      BY <1>1, <2>1, ServerExecute, ServerBack, ServerOthers, ServerGvt DEF Next, Kernel
  <1>5. self' = self
    BY DEF Next, Kernel, Execute, Defer, Straggler, CancelProcessed, CancelPending,
           Discard, Arrive, Withdraw, AdvanceGvt, lpVars, vars
  <1>6. ServerTraffic(B)'
    BY <1>4, <1>5 DEF ServerNext, ServerTraffic, FromClients, NotBefore, LogAtGvt, AnswersOut
  <1> QED
    BY <1>2, <1>6 DEF ServerInv

-----------------------------------------------------------------------------
(***************************************************************************)
(* AoiLP: its contract with the kernel, and that its answers are current.  *)
(***************************************************************************)
\* The LP AoiLp is an AoiLP: on_event and load_state are its handlers, it has one
\* entity, the whole table, and sends nothing from on_start.
AoiProgram ==
    /\ InitState(AoiLp) = NoPositions /\ Started(AoiLp) = {}
    /\ \A s, ev : OnEvent(AoiLp, s, ev) =
          [state |-> on_event(s, ev).state, sends |-> on_event(s, ev).sends,
           writes |-> on_event(s, ev).writes, missing |-> FALSE, fatal |-> FALSE]
    /\ \A s, old : Load(AoiLp, s, old) = load_state(s, old)
    /\ Entities(AoiLp) = {StateEntity} /\ \A s : Part(AoiLp, s, StateEntity) = s

\* Entities are numbered from 1.
Publishes(body) == body.kind = "update" => body.entity \in Nat \ {0}

CONSTANT AoiBodies      \* what its clients send to it

\* What they send at first and when they get an answer; not before it.
AoiClients ==
    /\ \A body \in AoiBodies : Publishes(body)
    /\ \A ev \in Inputs(AoiLp) : ev.body \in AoiBodies
    /\ \A ev : \A a \in Replies(AoiLp, ev) :
          a.src # AoiLp /\ a.body \in AoiBodies /\ Le(ev.ts, a.ts)

\* What on_event does, by the kind of event: r is its result.
Handles(s, ev, r) ==
    /\ ~ r.missing /\ ~ r.fatal
    /\ ev.body.kind = "update" =>
          /\ r.sends = <<>> /\ r.writes = {StateEntity}
          /\ r.state = [e \in DOMAIN s \cup {ev.body.entity} |->
                           IF e = ev.body.entity THEN ev.body.pos ELSE s[e]]
    /\ ev.body.kind = "query" =>
          r.sends = <<Answer(s, ev)>> /\ r.writes = {} /\ r.state = s
    /\ ev.body.kind \notin {"update", "query"} =>
          r.sends = <<>> /\ r.writes = {} /\ r.state = s

LEMMA AoiHandler ==
    ASSUME AoiProgram, self = AoiLp, NEW s, NEW ev
    PROVE  Handles(s, ev, OnEvent(self, s, ev))
  <1> DEFINE r == OnEvent(self, s, ev)
  <1>1. r = [state |-> on_event(s, ev).state, sends |-> on_event(s, ev).sends,
             writes |-> on_event(s, ev).writes, missing |-> FALSE, fatal |-> FALSE]
    BY Zenon DEF AoiProgram
  <1> HIDE DEF r
  <1>2. /\ r.state = on_event(s, ev).state /\ r.sends = on_event(s, ev).sends
        /\ r.writes = on_event(s, ev).writes /\ r.missing = FALSE /\ r.fatal = FALSE
    BY <1>1
  <1>3. CASE ev.body.kind = "update"
    <2>1. on_event(s, ev) = Update(s, ev)
      BY <1>3 DEF on_event
    <2> QED
      BY <1>2, <1>3, <2>1 DEF Update, Handles, r
  <1>4. CASE ev.body.kind = "query"
    <2>1. on_event(s, ev) = [state |-> s, sends |-> <<Answer(s, ev)>>, writes |-> {}]
      BY <1>4 DEF on_event
    <2> QED
      BY <1>2, <1>4, <2>1 DEF Handles, r
  <1>5. CASE ev.body.kind \notin {"update", "query"}
    <2>1. on_event(s, ev) = [state |-> s, sends |-> <<>>, writes |-> {}]
      BY <1>5 DEF on_event
    <2> QED
      BY <1>2, <1>5, <2>1 DEF Handles, r
  <1> QED
    BY <1>2, <1>3, <1>4, <1>5 DEF Handles, r

\* It calls request_write when it changes the table, and load_state brings the
\* saved table back.
LEMMA AoiContract ==
    ASSUME AoiProgram, self = AoiLp
    PROVE  AsksToWrite /\ LoadsWhatWasSaved
  <1>1. Entities(self) = {StateEntity} /\ \A s : Part(self, s, StateEntity) = s
    BY DEF AoiProgram
  <1>2. ASSUME NEW ev \in todo, NEW r, r = OnEvent(self, state, ev)
        PROVE  /\ r.sends \in Seq(ToSet(r.sends))
               /\ \A e \in Entities(self) \ r.writes :
                     Part(self, r.state, e) = Part(self, state, e)
               /\ r.missing => r.sends = <<>> /\ Alike(r.state, state)
    <2>1. Handles(state, ev, r)
      BY <1>2, AoiHandler
    <2>2. \/ r.sends = <<>> /\ r.writes = {StateEntity}
          \/ (r.sends = <<Answer(state, ev)>> \/ r.sends = <<>>) /\ r.state = state
      BY <2>1 DEF Handles
    <2>3. ASSUME NEW x, r.sends = <<x>>
          PROVE  r.sends \in Seq(ToSet(r.sends))
      <3>1. ToSet(r.sends) = {x}
        BY <2>3 DEF ToSet
      <3> QED
        BY <2>3, <3>1
    <2>4. r.sends = <<>> => r.sends \in Seq(ToSet(r.sends))
      OBVIOUS
    <2>5. r.sends \in Seq(ToSet(r.sends))
      BY <2>2, <2>3, <2>4
    <2>6. \A e \in Entities(self) \ r.writes : Part(self, r.state, e) = Part(self, state, e)
      BY <1>1, <2>2
    <2> QED
      BY <2>1, <2>5, <2>6 DEF Handles
  <1>3. AsksToWrite
    BY <1>2 DEF AsksToWrite
  <1>4. ASSUME NEW n \in base..Len(log), NEW e \in Entities(self)
        PROVE  Part(self, Restored(n), e)
                  = Part(self, IF e \in SavedAfter(n) THEN Saved(n)[e] ELSE state, e)
    <2>1. e = StateEntity /\ Restored(n) = load_state(state, Saved(n))
      BY <1>1 DEF AoiProgram, Restored
    <2>2. DOMAIN Saved(n) = SavedAfter(n)
      BY DEF Saved
    <2> QED
      BY <2>1, <2>2 DEF load_state
  <1> QED
    BY <1>3, <1>4 DEF LoadsWhatWasSaved

\* AoiLP keeps its side of the contract; new answers are the clients' side.
THEOREM AoiKeepsContract ==
    ASSUME AoiProgram
    PROVE  Spec /\ [](self = AoiLp /\ AnswersAreNew) => []ContractKept
  <1>1. self = AoiLp /\ AnswersAreNew => ContractKept
    BY AoiContract DEF ContractKept
  <1> QED
    BY <1>1, PTL

AoiInv == ServerInv(AoiBodies)

LEMMA AoiInit ==
    ASSUME AoiProgram, AoiClients
    PROVE  Init /\ self = AoiLp => AoiInv
  <1>1. self = AoiLp => Clients(AoiBodies)
    BY DEF AoiProgram, AoiClients, Clients, OfBodies
  <1> QED
    BY <1>1, ServerInit DEF AoiInv

LEMMA AoiStep ==
    ASSUME AoiProgram, AoiClients, self = AoiLp, AnswersAreNew, AoiInv, [Next]_vars
    PROVE  AoiInv'
  <1>1. ContractKept
    BY AoiContract DEF ContractKept
  <1>2. Clients(AoiBodies)
    BY DEF AoiProgram, AoiClients, Clients, OfBodies
  <1>3. OnlyAnswers
    <2> SUFFICES ASSUME NEW ev \in todo, NEW r, r = OnEvent(self, state, ev)
                 PROVE  /\ ~ r.missing
                        /\ \A i \in 1..Len(r.sends) :
                              r.sends[i].dst # self /\ r.sends[i].ts = ev.ts
      BY DEF OnlyAnswers
    <2>1. Handles(state, ev, r)
      BY AoiHandler
    <2>2. ~ r.missing /\ (r.sends = <<>> \/ r.sends = <<Answer(state, ev)>>)
      BY <2>1 DEF Handles
    <2>3. ev.src # self
      BY DEF AoiInv, ServerInv, ServerTraffic, FromClients
    <2>4. CASE r.sends = <<>>
      BY <2>2, <2>4
    <2>5. CASE r.sends = <<Answer(state, ev)>>
      <3>1. Len(r.sends) = 1 /\ r.sends[1] = Answer(state, ev)
        BY <2>5
      <3>2. Answer(state, ev).dst # self /\ Answer(state, ev).ts = ev.ts
        BY <2>3 DEF Answer
      <3> QED
        BY <2>2, <3>1, <3>2
    <2> QED
      BY <2>2, <2>4, <2>5
  <1> QED
    BY <1>1, <1>2, <1>3, ServerStep DEF AoiInv

\* The list has the elements of the set.
LEMMA AscendingElements ==
    ASSUME NEW S \in SUBSET Nat, IsFiniteSet(S)
    PROVE  ToSet(Ascending(S)) = S
  <1> DEFINE n == Cardinality(S)
             s == Ascending(S)
  <1>1. /\ \A i \in 1..n : \E x \in S : CountBelow(S, x) = i - 1
        /\ \A x \in S : CountBelow(S, x) \in 0..(n - 1)
        /\ \A x, y \in S : x < y => CountBelow(S, x) < CountBelow(S, y)
    <2>1. S \subseteq Int
      OBVIOUS
    <2> QED
      BY <2>1, CountsAscend
  <1>2. n \in Nat
    BY FS_CardinalityType
  <1> HIDE DEF n
  <1>3. s = [i \in 1..n |-> CHOOSE e \in S : CountBelow(S, e) = i - 1]
    BY DEF Ascending, CountBelow, n
  <1> HIDE DEF s
  <1>4. ASSUME NEW i \in 1..n
        PROVE  s[i] \in S /\ CountBelow(S, s[i]) = i - 1
    <2>1. s[i] = CHOOSE e \in S : CountBelow(S, e) = i - 1
      BY <1>3
    <2>2. \E e \in S : CountBelow(S, e) = i - 1
      BY <1>1
    <2> QED
      BY <2>1, <2>2, Zenon
  <1>5. \A x \in S : \E i \in 1..n : s[i] = x
    <2> TAKE x \in S
    <2>1. CountBelow(S, x) + 1 \in 1..n /\ CountBelow(S, x) = (CountBelow(S, x) + 1) - 1
      BY <1>1, <1>2
    <2> DEFINE y == s[CountBelow(S, x) + 1]
    <2>2. y \in S /\ CountBelow(S, y) = CountBelow(S, x)
      BY <1>4, <2>1
    <2> HIDE DEF y
    <2>3. CountBelow(S, x) \in Int /\ x \in Int /\ y \in Int
      BY <1>1, <2>2
    <2>4. ~ (x < y) /\ ~ (y < x)
      BY <1>1, <2>2, <2>3
    <2>5. y = x
      BY <2>3, <2>4
    <2> QED
      BY <2>1, <2>5 DEF y
  <1>6. DOMAIN s = 1..n
    BY <1>3
  <1> QED
    BY <1>4, <1>5, <1>6 DEF ToSet, s

-----------------------------------------------------------------------------
\* The standing updates among the first n records, and the table that they make:
\* who has published has the position of its last update.
Updates(n) == {i \in Standing("update") : i <= n}
Published(i) == log[i].ev.body.entity

Table(t, n) ==
    /\ DOMAIN t = {Published(i) : i \in Updates(n)}
    /\ \A i \in Updates(n) :
          (\A j \in Updates(n) : Published(j) = Published(i) => j <= i)
          => t[Published(i)] = log[i].ev.body.pos

LEMMA TableFound ==
    ASSUME AoiProgram, self = AoiLp, Replays(log, state)
    PROVE  \A n \in 0..Len(log) : Table(Finds(log, n + 1), n)
  <1> DEFINE T == {n \in Nat : n <= Len(log) => Table(Finds(log, n + 1), n)}
  <1>1. T \in SUBSET Nat
    OBVIOUS
  <1>2. Len(log) \in Nat /\ \A i \in 1..Len(log) : log[i].pre = Finds(log, i)
    <2>1. IsSequence(log) /\ \A i \in 1..Len(log) : Alike(log[i].pre, Finds(log, i))
      BY DEF Replays
    <2> QED
      BY <2>1, Appended DEF Alike, AoiProgram
  <1>3. 0 \in T
    <2>1. Finds(log, 1) = <<>>
      BY DEF Finds, AoiProgram, NoPositions
    <2>2. Updates(0) = {}
      BY <1>2 DEF Updates, Standing
    <2>3. DOMAIN <<>> = {}
      OBVIOUS
    <2>4. Table(<<>>, 0)
      BY <2>2, <2>3 DEF Table
    <2> QED
      BY <2>1, <2>4
  <1>4. ASSUME NEW n \in T
        PROVE  n + 1 \in T
    <2> SUFFICES ASSUME n + 1 <= Len(log)
                 PROVE  Table(Finds(log, (n + 1) + 1), n + 1)
      BY <1>1
    <2> DEFINE i == n + 1
               s == Finds(log, i)
               ev == log[i].ev
               t == Finds(log, i + 1)
    <2>1. n \in Nat /\ i \in 1..Len(log) /\ Table(s, n) /\ log[i].pre = s
      BY <1>1, <1>2
    <2>2. t = IF ev.anti THEN s ELSE OnEvent(self, s, ev).state
      <3>1. i + 1 # 1 /\ (i + 1) - 1 = i
        BY <2>1
      <3> QED
        BY <2>1, <3>1 DEF Finds, Leaves
    <2> HIDE DEF s, t
    <2>3. CASE ev.anti \/ ev.body.kind # "update"
      <3>1. t = s
        <4>1. CASE ev.anti
          BY <2>2, <4>1
        <4>2. CASE ~ ev.anti
          <5>1. Handles(s, ev, OnEvent(self, s, ev))
            BY AoiHandler
          <5> QED
            BY <2>2, <2>3, <4>2, <5>1 DEF Handles
        <4> QED
          BY <4>1, <4>2
      <3>2. Updates(i) = Updates(n)
        BY <2>1, <2>3 DEF Updates, Standing
      <3>3. Table(t, i)
        BY <2>1, <3>1, <3>2 DEF Table
      <3> QED
        BY <3>3 DEF t
    <2>4. CASE ~ ev.anti /\ ev.body.kind = "update"
      <3> DEFINE x == Published(i)
      <3>1. t = [e \in DOMAIN s \cup {x} |-> IF e = x THEN ev.body.pos ELSE s[e]]
        <4>1. Handles(s, ev, OnEvent(self, s, ev))
          BY AoiHandler
        <4> QED
          BY <2>2, <2>4, <4>1 DEF Handles, Published
      <3>2. Updates(i) = Updates(n) \cup {i} /\ i \notin Updates(n)
        BY <2>1, <2>4 DEF Updates, Standing
      <3> HIDE DEF x
      <3>3. DOMAIN t = {Published(j) : j \in Updates(i)}
        BY <2>1, <3>1, <3>2 DEF Table, x
      <3>4. ASSUME NEW j \in Updates(i),
                   \A k \in Updates(i) : Published(k) = Published(j) => k <= j
            PROVE  t[Published(j)] = log[j].ev.body.pos
        <4>1. CASE j = i
          BY <3>1, <4>1 DEF x
        <4>2. CASE j # i
          <5>1. j \in Updates(n) /\ j <= n /\ j \in Nat
            BY <2>1, <3>2, <4>2 DEF Updates, Standing
          <5>2. Published(j) # x
            BY <2>1, <3>2, <3>4, <5>1 DEF x
          <5>3. Published(j) \in DOMAIN s /\ s[Published(j)] = log[j].ev.body.pos
            BY <2>1, <3>2, <3>4, <5>1 DEF Table
          <5> QED
            BY <3>1, <5>2, <5>3
        <4> QED
          BY <4>1, <4>2
      <3>5. Table(t, i)
        BY <3>3, <3>4 DEF Table
      <3> QED
        BY <3>5 DEF t
    <2> QED
      BY <2>3, <2>4
  <1> HIDE DEF T
  <1>5. T = Nat
    BY ONLY <1>1, <1>3, <1>4, Counting
  <1> QED
    BY <1>2, <1>5 DEF T

\* The updates up to a stamp are those among the records before it, if it is the
\* only one with that stamp.
LEMMA UpdatesBefore ==
    ASSUME NEW i \in Standing("query"), NEW e, Len(log) \in Nat,
           \A k \in 1..Len(log) : log[k].ev.ts \in Stamp,
           \A k \in 1..Len(log) : \A j \in 1..(k-1) : Le(log[j].ev.ts, log[k].ev.ts),
           \A j \in 1..Len(log) : j # i => log[j].ev.ts # log[i].ev.ts
    PROVE  UpdatesUpTo(e, log[i].ev.ts) = {j \in Updates(i - 1) : Published(j) = e}
  <1>1. i \in 1..Len(log) /\ i \in Nat /\ log[i].ev.body.kind = "query"
    BY DEF Standing
  <1>2. ASSUME NEW j \in Standing("update")
        PROVE  Le(log[j].ev.ts, log[i].ev.ts) <=> j <= i - 1
    <2>1. j \in 1..Len(log) /\ j # i /\ j \in Nat
      BY <1>1 DEF Standing
    <2>2. log[j].ev.ts \in Stamp /\ log[i].ev.ts \in Stamp /\ log[j].ev.ts # log[i].ev.ts
      BY <1>1, <2>1
    <2>3. CASE j < i
      <3>1. j \in 1..(i-1)
        BY <1>1, <2>1, <2>3
      <3> QED
        BY <1>1, <2>1, <2>3, <3>1
    <2>4. CASE i < j
      <3>1. i \in 1..(j-1)
        BY <1>1, <2>1, <2>4
      <3>2. Le(log[i].ev.ts, log[j].ev.ts)
        BY <2>1, <3>1
      <3>3. ~ Le(log[j].ev.ts, log[i].ev.ts)
        BY <2>2, <3>2, StampOrder DEF Le
      <3> QED
        BY <1>1, <2>1, <2>4, <3>3
    <2> QED
      BY <1>1, <2>1, <2>3, <2>4
  <1> QED
    BY <1>2 DEF UpdatesUpTo, Updates, Published

\* Who the table puts in the shape is who is in it by the updates up to that stamp.
LEMMA HitsAreTrue ==
    ASSUME NEW i \in Standing("query"), NEW t, Table(t, i - 1), Len(log) \in Nat,
           \A k \in 1..Len(log) : Publishes(log[k].ev.body),
           \A e : UpdatesUpTo(e, log[i].ev.ts) = {j \in Updates(i - 1) : Published(j) = e}
    PROVE  /\ Hits(t, log[i].ev.body) = TrueHits(log[i].ev.body, log[i].ev.ts)
           /\ Hits(t, log[i].ev.body) \in SUBSET Nat /\ IsFiniteSet(Hits(t, log[i].ev.body))
  <1> DEFINE q == log[i].ev.body
             ts == log[i].ev.ts
             H == Hits(t, q)
             U(e) == UpdatesUpTo(e, ts)
  <1>1. Updates(i - 1) \in SUBSET (1..Len(log)) /\ Updates(i - 1) \subseteq Standing("update")
    BY DEF Updates, Standing
  <1>2. \A j \in Standing("update") : Published(j) \in Nat \ {0}
    BY DEF Standing, Publishes, Published
  <1>3. \A e : e \in DOMAIN t <=> \E j \in Updates(i - 1) : Published(j) = e
    BY DEF Table
  <1>4. \A e : U(e) = {j \in Updates(i - 1) : Published(j) = e}
    OBVIOUS
  <1>5. H = {e \in DOMAIN t : /\ ~ (ExcludeSelf /\ q.self # 0 /\ e = q.self)
                              /\ InShape(q, t[e])}
    BY DEF Hits
  <1>6. TrueHits(q, ts) = {e \in {Published(j) : j \in Standing("update")}
                                   \ (IF ExcludeSelf THEN {q.self} ELSE {}) :
                              U(e) # {} /\ InShape(q, log[Max(U(e))].ev.body.pos)}
    BY DEF TrueHits, Published
  <1> HIDE DEF H, U, ts
  <1>7. ASSUME NEW e \in DOMAIN t
        PROVE  U(e) # {} /\ t[e] = log[Max(U(e))].ev.body.pos
    <2>1. U(e) # {} /\ U(e) \in SUBSET (0..Len(log))
      <3>1. U(e) # {}
        BY <1>3, <1>4
      <3>2. \A j \in U(e) : j \in 1..Len(log)
        BY <1>1, <1>4
      <3> QED
        BY <3>1, <3>2
    <2>2. Max(U(e)) \in U(e) /\ \A j \in U(e) : j <= Max(U(e))
      BY <2>1, GreatestNat
    <2>3. Max(U(e)) \in Updates(i - 1) /\ Published(Max(U(e))) = e
      BY <1>4, <2>2
    <2>4. \A j \in Updates(i - 1) : Published(j) = Published(Max(U(e))) => j <= Max(U(e))
      BY <1>4, <2>2, <2>3
    <2> QED
      BY <2>1, <2>3, <2>4 DEF Table
  <1>8. \A e : U(e) # {} => e \in DOMAIN t
    BY <1>3, <1>4
  <1>9. \A e \in DOMAIN t : e \in Nat \ {0} /\ e \in {Published(j) : j \in Standing("update")}
    BY <1>1, <1>2, <1>3
  <1> HIDE DEF q
  <1>10. H = TrueHits(q, ts)
    <2>1. ASSUME NEW e \in H
          PROVE  e \in TrueHits(q, ts)
      BY <1>5, <1>6, <1>7, <1>9
    <2>2. ASSUME NEW e \in TrueHits(q, ts)
          PROVE  e \in H
      <3>1. U(e) # {} /\ InShape(q, log[Max(U(e))].ev.body.pos) /\ (ExcludeSelf => e # q.self)
        BY <1>6
      <3>2. e \in DOMAIN t
        BY <1>8, <3>1
      <3> QED
        BY <1>5, <1>7, <3>1, <3>2
    <2> QED
      BY <2>1, <2>2
  <1>11. IsFiniteSet(DOMAIN t)
    <2> DEFINE f == [j \in Updates(i - 1) |-> Published(j)]
    <2>1. f \in Surjection(Updates(i - 1), DOMAIN t)
      BY <1>3 DEF Surjection
    <2>2. IsFiniteSet(1..Len(log))
      BY FS_Interval
    <2>3. IsFiniteSet(Updates(i - 1))
      BY <1>1, <2>2, FS_Subset
    <2> QED
      BY <2>1, <2>3, FS_Surjection
  <1>12. H \in SUBSET (DOMAIN t)
    BY <1>5
  <1> QED
    BY <1>9, <1>10, <1>11, <1>12, FS_Subset DEF H, q, ts

\* The answers that stand are current, whenever updates come, are undone or are
\* withdrawn: each lists who was in the shape at the stamp of the question by the
\* updates that stand, if no other record has that very stamp.
THEOREM AoiAnswersAreCurrent ==
    ASSUME AoiProgram, AoiClients
    PROVE  Spec /\ [](self = AoiLp /\ AnswersAreNew) => []AnswersAreCurrent
  <1>1. ASSUME AoiInv, self = AoiLp
        PROVE  AnswersAreCurrent
    <2>1. /\ Replays(log, state) /\ Stands(log, sentLog) /\ IsSequence(log)
          /\ \A k \in 1..Len(log) : log[k].ev.ts \in Stamp
          /\ \A k \in 1..Len(log) : \A j \in 1..(k-1) : Le(log[j].ev.ts, log[k].ev.ts)
          /\ FromClients(Executed(log), AoiBodies)
      BY <1>1 DEF AoiInv, ServerInv, EventInv, ReplayInv, Logs, ServerTraffic, LogAtGvt, FromClients
    <2>2. Len(log) \in Nat
      BY <2>1, Appended
    <2>3. \A k \in 1..Len(log) : Publishes(log[k].ev.body)
      BY <2>1 DEF FromClients, Executed, AoiClients
    <2> SUFFICES ASSUME NEW i \in Standing("query"),
                        \A j \in 1..Len(log) : j # i => log[j].ev.ts # log[i].ev.ts
                 PROVE  \E m \in 1..Len(sentLog) :
                           /\ sentLog[m].of = Key(log[i].ev)
                           /\ sentLog[m].ev.dst = log[i].ev.src
                           /\ ToSet(sentLog[m].ev.body.entities)
                                 = TrueHits(log[i].ev.body, log[i].ev.ts)
      BY DEF AnswersAreCurrent
    <2> DEFINE ev == log[i].ev
               t == log[i].pre
    <2>4. i \in 1..Len(log) /\ ~ ev.anti /\ ev.body.kind = "query"
      BY DEF Standing
    <2>5. Table(t, i - 1)
      <3>1. i - 1 \in 0..Len(log) /\ (i - 1) + 1 = i
        BY <2>2, <2>4
      <3>2. Table(Finds(log, (i - 1) + 1), i - 1)
        BY <1>1, <2>1, <3>1, TableFound
      <3>3. t = Finds(log, i)
        <4>1. Alike(t, Finds(log, i))
          BY <2>1, <2>4 DEF Replays
        <4> QED
          BY <1>1, <4>1 DEF Alike, AoiProgram
      <3> QED
        BY <3>1, <3>2, <3>3
    <2>6. \A e : UpdatesUpTo(e, ev.ts) = {j \in Updates(i - 1) : Published(j) = e}
      BY <2>1, <2>2, UpdatesBefore
    <2>7. /\ Hits(t, ev.body) = TrueHits(ev.body, ev.ts)
          /\ Hits(t, ev.body) \in SUBSET Nat /\ IsFiniteSet(Hits(t, ev.body))
      BY <2>2, <2>3, <2>5, <2>6, HitsAreTrue
    <2>8. ToSet(Ascending(Hits(t, ev.body))) = Hits(t, ev.body)
      BY <2>7, AscendingElements
    <2>9. SendsOf(log[i]) = <<Answer(t, ev)>>
      <3>1. Handles(t, ev, OnEvent(self, t, ev))
        BY <1>1, AoiHandler
      <3> QED
        BY <2>4, <3>1 DEF Handles, SendsOf
    <2>10. PICK n \in 0..Len(sentLog) : InARow(log, i, sentLog, n)
      BY <2>1, <2>4 DEF Stands
    <2>11. Len(SendsOf(log[i])) = 1 /\ SendsOf(log[i])[1] = Answer(t, ev)
      BY <2>9
    <2>12. /\ {m \in 1..Len(sentLog) : sentLog[m].of = Key(ev)} = (n+1)..(n+1)
           /\ sentLog[n + 1].ev.dst = Answer(t, ev).dst
           /\ sentLog[n + 1].ev.body = Answer(t, ev).body
      BY <2>10, <2>11 DEF InARow
    <2>13. n + 1 \in 1..Len(sentLog) /\ sentLog[n + 1].of = Key(ev)
      BY <2>12
    <2>14. /\ Answer(t, ev).dst = ev.src
           /\ Answer(t, ev).body.entities = Ascending(Hits(t, ev.body))
      BY DEF Answer
    <2> QED
      BY <2>7, <2>8, <2>12, <2>13, <2>14
  <1>2. Init /\ self = AoiLp => AoiInv
    BY AoiInit
  <1>3. AoiInv /\ self = AoiLp /\ AnswersAreNew /\ [Next]_vars => AoiInv'
    BY AoiStep
  <1>4. AoiInv /\ self = AoiLp => AnswersAreCurrent
    BY <1>1
  <1> QED
    BY <1>2, <1>3, <1>4, PTL DEF Spec

-----------------------------------------------------------------------------
(***************************************************************************)
(* AirportLP: one plane at a time uses the runway, in the order in which   *)
(* the planes came, and the counters say what became of them.              *)
(***************************************************************************)
CONSTANTS
    AirportLp, NumAirports, NumPlanes, EndTime, EmitPlaneMod,
    ServiceDraw, ToDraw, FlightDraw     \* those of Airport

AP == INSTANCE Airport

PlaneKey == [plane : 0..NumPlanes, leg : Nat]

\* The LP AirportLp is an AirportLP: on_event and load_state are its handlers, it
\* has one entity, all of its state, and sends nothing from on_start.
AirportProgram ==
    /\ AirportLp \in Nat /\ NumAirports \in Nat /\ NumPlanes \in Nat /\ EndTime \in Nat
    /\ \A key \in PlaneKey : /\ ServiceDraw[key] \in Nat /\ FlightDraw[key] \in Nat
                             /\ ToDraw[key] \in Nat
    /\ InitState(AirportLp) = AP!NewAirport /\ Started(AirportLp) = {}
    /\ \A s, ev : OnEvent(AirportLp, s, ev) =
          [state |-> AP!on_event(s, ev).state, sends |-> AP!on_event(s, ev).sends,
           writes |-> AP!on_event(s, ev).writes, missing |-> FALSE, fatal |-> FALSE]
    /\ \A s, old : Load(AirportLp, s, old) = AP!load_state(s, old)
    /\ Entities(AirportLp) = {StateEntity} /\ \A s : Part(AirportLp, s, StateEntity) = s

\* An event or an anti-message about a plane; only the airport ends its services.
OfPlane(e) ==
    /\ e.body.kind \in {"arrive", "done"} /\ e.body.key \in PlaneKey
    /\ e.body.kind = "done" => e.src = AirportLp

\* The other airports and the driver send arrivals, not before what they answer.
AirportClients ==
    /\ \A ev \in Inputs(AirportLp) : OfPlane(ev)
    /\ \A ev : OfPlane(ev) => \A a \in Replies(AirportLp, ev) :
          a.src # AirportLp /\ OfPlane(a) /\ Le(ev.ts, a.ts)

AirportState(s) ==
    s \in [busy : BOOLEAN, q : Seq(PlaneKey), arrivals : Nat, departures : Nat, maxQ : Nat]

\* What start_next_ makes of s at time t, r: nothing, as the runway is busy or
\* nobody waits; the first one is turned away; or its service begins.
Idles(s, r) == (s.busy \/ s.q = <<>>) /\ r.state = s /\ r.sends = <<>>
TurnsAway(s, r) ==
    ~ s.busy /\ s.q # <<>> /\ r.state = [s EXCEPT !.q = Tail(@)] /\ r.sends = <<>>
Begins(s, t, r) ==
    /\ ~ s.busy /\ s.q # <<>> /\ r.state = [s EXCEPT !.q = Tail(@), !.busy = TRUE]
    /\ \E done \in Nat : done > t /\ r.sends = <<AP!ServiceDone(done, Head(s.q))>>
Starts(s, t, r) == Idles(s, r) \/ TurnsAway(s, r) \/ Begins(s, t, r)

\* The state in which start_next_ is called, and what was sent before.
Queued(s, key) == [s EXCEPT !.arrivals = @ + 1, !.q = Append(@, key),
                            !.maxQ = AP!Max({@, Len(Append(s.q, key))})]
Freed(s) == [s EXCEPT !.busy = FALSE, !.departures = @ + 1]
MidState(s, ev) == IF ev.body.kind = "arrive" THEN Queued(s, ev.body.key) ELSE Freed(s)

\* The plane flies on, if it arrives in time.
FliesOn(ev, out) ==
    \/ out = <<>>
    \/ /\ ev.body.kind = "done"
       /\ \E dst \in Nat, arrive \in Nat :
             /\ arrive > ev.ts.time
             /\ out = <<AP!PlaneArrive(arrive, dst, AP!next_logical_key(ev.body.key))>>

\* What on_event does with an event about a plane: r is its result.
Manages(s, ev, r) ==
    /\ ~ r.missing /\ ~ r.fatal /\ r.writes = {StateEntity}
    /\ \E n, out : /\ Starts(MidState(s, ev), ev.ts.time, n) /\ FliesOn(ev, out)
                   /\ r.state = n.state /\ r.sends = out \o n.sends

\* A plane lines up or leaves, and the state is that of an airport.
LEMMA AirportTypes ==
    ASSUME NEW s, AirportState(s), NEW key \in PlaneKey, NEW ev, OfPlane(ev)
    PROVE  /\ AirportState(Queued(s, key)) /\ Queued(s, key).q = Append(s.q, key)
           /\ Queued(s, key).busy = s.busy /\ Queued(s, key).arrivals = s.arrivals + 1
           /\ Queued(s, key).departures = s.departures
           /\ AirportState(Freed(s)) /\ Freed(s).q = s.q /\ ~ Freed(s).busy
           /\ Freed(s).arrivals = s.arrivals /\ Freed(s).departures = s.departures + 1
           /\ AirportState(MidState(s, ev))
  <1>1. ASSUME NEW k \in PlaneKey
        PROVE  /\ AirportState(Queued(s, k)) /\ Queued(s, k).q = Append(s.q, k)
               /\ Queued(s, k).busy = s.busy /\ Queued(s, k).arrivals = s.arrivals + 1
               /\ Queued(s, k).departures = s.departures
    <2> DEFINE q == Append(s.q, k)
               m == AP!Max({s.maxQ, Len(q)})
    <2>1. q \in Seq(PlaneKey) /\ Len(q) \in Nat /\ s.maxQ \in Nat
      BY DEF AirportState
    <2>2. m \in Nat
      <3> DEFINE T == {s.maxQ, Len(q)}
             b == s.maxQ + Len(q)
      <3>1. b \in Nat /\ T \in SUBSET (0..b) /\ T # {}
        BY <2>1
      <3> HIDE DEF T, b
      <3>2. Max(T) \in T
        BY <3>1, GreatestNat
      <3> QED
        BY <2>1, <3>2 DEF Max, AP!Max, T
    <2> HIDE DEF q, m
    <2>3. Queued(s, k) = [s EXCEPT !.arrivals = @ + 1, !.q = q, !.maxQ = m]
      BY DEF Queued, q, m
    <2>4. Queued(s, k) = [busy |-> s.busy, q |-> q, arrivals |-> s.arrivals + 1,
                          departures |-> s.departures, maxQ |-> m]
      BY <2>3 DEF AirportState
    <2>5. s.busy \in BOOLEAN /\ s.arrivals + 1 \in Nat /\ s.departures \in Nat
      BY DEF AirportState
    <2>6. /\ AirportState(Queued(s, k)) /\ Queued(s, k).q = q
          /\ Queued(s, k).busy = s.busy /\ Queued(s, k).arrivals = s.arrivals + 1
          /\ Queued(s, k).departures = s.departures
      BY <2>1, <2>2, <2>4, <2>5 DEF AirportState
    <2> QED
      BY <2>6, Zenon DEF q
  <1>2. /\ AirportState(Freed(s)) /\ Freed(s).q = s.q /\ ~ Freed(s).busy
        /\ Freed(s).arrivals = s.arrivals /\ Freed(s).departures = s.departures + 1
    <2> DEFINE f == FALSE
               d == s.departures + 1
    <2>1. f \in BOOLEAN /\ d \in Nat
      BY DEF AirportState
    <2> HIDE DEF f, d
    <2>2. ASSUME NEW x, x = [s EXCEPT !.busy = f, !.departures = d]
          PROVE  /\ AirportState(x) /\ x.busy = f /\ x.q = s.q /\ x.arrivals = s.arrivals
                 /\ x.departures = d
      BY <2>1, <2>2 DEF AirportState
    <2>3. Freed(s) = [s EXCEPT !.busy = f, !.departures = d]
      BY DEF Freed, f, d
    <2> QED
      BY <2>2, <2>3 DEF f, d
  <1> QED
    BY <1>1, <1>2 DEF MidState, OfPlane

\* start_next_ does one of three things.
LEMMA StartsProperly ==
    ASSUME AirportProgram, NEW s, AirportState(s), NEW t \in Nat
    PROVE  Starts(s, t, AP!start_next_(s, t))
  <1> DEFINE r == AP!start_next_(s, t)
             done == t + 1 + ServiceDraw[Head(s.q)]
  <1>1. CASE s.busy \/ s.q = <<>>
    <2>1. r = [state |-> s, sends |-> <<>>]
      BY <1>1 DEF AP!start_next_
    <2> QED
      BY <1>1, <2>1 DEF Starts, Idles
  <1>2. CASE ~ (s.busy \/ s.q = <<>>) /\ done > EndTime
    <2>1. r = [state |-> [s EXCEPT !.q = Tail(@)], sends |-> <<>>]
      BY <1>2 DEF AP!start_next_
    <2> QED
      BY <1>2, <2>1 DEF Starts, TurnsAway
  <1>3. CASE ~ (s.busy \/ s.q = <<>>) /\ ~ (done > EndTime)
    <2>1. r = [state |-> [[s EXCEPT !.q = Tail(@)] EXCEPT !.busy = TRUE],
               sends |-> <<AP!ServiceDone(done, Head(s.q))>>]
      BY <1>3 DEF AP!start_next_
    <2>2. Head(s.q) \in PlaneKey
      BY <1>3 DEF AirportState
    <2>3. done \in Nat /\ done > t
      BY <2>2 DEF AirportProgram
    <2>4. [[s EXCEPT !.q = Tail(@)] EXCEPT !.busy = TRUE]
             = [s EXCEPT !.q = Tail(@), !.busy = TRUE]
      OBVIOUS
    <2> HIDE DEF r, done
    <2>5. Begins(s, t, r)
      BY <1>3, <2>1, <2>3, <2>4 DEF Begins
    <2> QED
      BY <2>5 DEF Starts, r
  <1> QED
    BY <1>1, <1>2, <1>3

\* on_event lets a plane line up or leave, and calls start_next_.
LEMMA AirportHandler ==
    ASSUME AirportProgram, self = AirportLp, NEW s, AirportState(s), NEW ev, OfPlane(ev),
           ev.ts \in Stamp
    PROVE  Manages(s, ev, OnEvent(self, s, ev))
  <1> DEFINE r == OnEvent(self, s, ev)
             key == ev.body.key
             t == ev.ts.time
             n == AP!start_next_(MidState(s, ev), t)
  <1>1. r = [state |-> AP!on_event(s, ev).state, sends |-> AP!on_event(s, ev).sends,
             writes |-> AP!on_event(s, ev).writes, missing |-> FALSE, fatal |-> FALSE]
    BY Zenon DEF AirportProgram
  <1> HIDE DEF r
  <1>2. t \in Nat /\ key \in PlaneKey /\ AirportState(MidState(s, ev))
    BY StampBounds, AirportTypes DEF Stamp, OfPlane
  <1>3. Starts(MidState(s, ev), t, n)
    BY <1>2, StartsProperly
  <1>4. CASE ev.body.kind = "arrive"
    <2>1. /\ AP!on_event(s, ev).state = n.state /\ AP!on_event(s, ev).sends = n.sends
          /\ AP!on_event(s, ev).writes = {StateEntity}
      <3>1. AP!on_event(s, ev) = AP!OnArrive(s, ev)
        BY <1>4 DEF AP!on_event
      <3>2. MidState(s, ev) = [s EXCEPT !.arrivals = @ + 1, !.q = Append(s.q, key),
                                        !.maxQ = AP!Max({@, Len(Append(s.q, key))})]
        BY <1>4 DEF MidState, Queued
      <3> QED
        BY <3>1, <3>2 DEF AP!OnArrive
    <2> HIDE DEF n
    <2>2. n.sends = <<>> \o n.sends
      <3>1. n.sends = <<>> \/ \E x : n.sends = <<x>>
        BY <1>3, Zenon DEF Starts, Idles, TurnsAway, Begins
      <3> QED
        BY <3>1
    <2>3. FliesOn(ev, <<>>)
      BY DEF FliesOn
    <2>4. /\ Starts(MidState(s, ev), t, n) /\ FliesOn(ev, <<>>) /\ r.state = n.state
          /\ r.sends = <<>> \o n.sends /\ ~ r.missing /\ ~ r.fatal
          /\ r.writes = {StateEntity}
      BY <1>1, <1>3, <2>1, <2>2, <2>3
    <2> QED
      BY <2>4, Zenon DEF Manages, r
  <1>5. CASE ev.body.kind = "done"
    <2> DEFINE to == AP!Destination(key)
               arrive == t + 1 + FlightDraw[key]
               out == IF arrive <= EndTime
                      THEN <<AP!PlaneArrive(arrive, to, AP!next_logical_key(key))>>
                      ELSE <<>>
    <2>1. /\ AP!on_event(s, ev).state = n.state /\ AP!on_event(s, ev).sends = out \o n.sends
          /\ AP!on_event(s, ev).writes = {StateEntity}
      <3>1. AP!on_event(s, ev) = AP!OnServiceDone(s, ev)
        BY <1>5 DEF AP!on_event
      <3>2. MidState(s, ev) = [s EXCEPT !.busy = FALSE, !.departures = @ + 1]
        BY <1>5 DEF MidState, Freed
      <3>3. n = AP!start_next_([s EXCEPT !.busy = FALSE, !.departures = @ + 1], ev.ts.time)
        BY <3>2
      <3> HIDE DEF n
      <3>4. AP!OnServiceDone(s, ev)
               = [state |-> n.state, sends |-> out \o n.sends, writes |-> {StateEntity},
                  emits |-> AP!Departure(key, to, t, arrive)]
        BY <3>3 DEF AP!OnServiceDone
      <3> HIDE DEF out, to, arrive
      <3> QED
        BY <3>1, <3>4
    <2>2. arrive \in Nat /\ arrive > t
      BY <1>2 DEF AirportProgram
    <2>3. to \in Nat
      BY <1>2 DEF AP!Destination, AirportProgram
    <2> HIDE DEF n, arrive, to
    <2>4. FliesOn(ev, out)
      BY <1>5, <2>2, <2>3 DEF FliesOn
    <2> HIDE DEF out
    <2>5. /\ Starts(MidState(s, ev), t, n) /\ FliesOn(ev, out) /\ r.state = n.state
          /\ r.sends = out \o n.sends /\ ~ r.missing /\ ~ r.fatal
          /\ r.writes = {StateEntity}
      BY <1>1, <1>3, <2>1, <2>4
    <2> QED
      BY <2>5, Zenon DEF Manages, r
  <1> QED
    BY <1>4, <1>5 DEF OfPlane

\* A list of two.
LEMMA Pair ==
    ASSUME NEW a, NEW b, IsSequence(a), Len(a) = 1, IsSequence(b), Len(b) = 1
    PROVE  /\ IsSequence(a \o b) /\ Len(a \o b) = 2
           /\ (a \o b)[1] = a[1] /\ (a \o b)[2] = b[1]
  <1> DEFINE c == a \o b
  <1>1. /\ IsSequence(c) /\ Len(a) \in Nat /\ Len(b) \in Nat /\ Len(c) = Len(a) + Len(b)
        /\ \A i \in 1..Len(a) : c[i] = a[i]
        /\ \A i \in 1..Len(b) : c[Len(a) + i] = b[i]
    <2>1. Joins(c, a, b)
      BY Joined, Zenon
    <2> HIDE DEF c
    <2> QED
      BY <2>1, Zenon DEF Joins
  <1> HIDE DEF c
  <1>2. 1 \in 1..Len(a) /\ 1 \in 1..Len(b)
    OBVIOUS
  <1>3. IsSequence(c) /\ Len(c) = 2 /\ c[1] = a[1] /\ c[2] = b[1]
    BY <1>1, <1>2
  <1> QED
    BY <1>3 DEF c

\* What it sends is about planes, later, and has a sequence number of its own.
LEMMA AirportSends ==
    ASSUME AirportProgram, NEW s, AirportState(s), NEW ev, OfPlane(ev), ev.ts \in Stamp,
           NEW r, Manages(s, ev, r)
    PROVE  /\ AirportState(r.state) /\ IsSequence(r.sends) /\ Len(r.sends) \in 0..2
           /\ \A i \in 1..Len(r.sends) :
                 /\ r.sends[i].ts.time > ev.ts.time /\ r.sends[i].ts.sequence # 0
                 /\ r.sends[i].body.kind \in {"arrive", "done"}
                 /\ r.sends[i].body.key \in PlaneKey
  <1> DEFINE t == ev.ts.time
             mid == MidState(s, ev)
             Fits(x) == /\ x.ts.time > t /\ x.ts.sequence # 0
                        /\ x.body.kind \in {"arrive", "done"} /\ x.body.key \in PlaneKey
  <1>1. PICK n, out : /\ Starts(mid, t, n) /\ FliesOn(ev, out)
                      /\ r.state = n.state /\ r.sends = out \o n.sends
    BY DEF Manages
  <1>2. AirportState(mid) /\ t \in Nat /\ ev.body.key \in PlaneKey
    BY AirportTypes, StampBounds DEF OfPlane, Stamp
  <1>3. ASSUME NEW class \in Nat, NEW dst \in Nat, NEW plane \in Nat
        PROVE  AP!stable_seq(class, dst, plane) # 0
    <2> DEFINE a == class * (NumAirports + 1) + dst
    <2>1. NumAirports \in Nat /\ NumPlanes \in Nat
      BY DEF AirportProgram
    <2>2. a \in Nat
      BY <2>1
    <2> HIDE DEF a
    <2>3. a * (NumPlanes + 1) \in Nat
      BY <2>1, <2>2
    <2>4. AP!stable_seq(class, dst, plane) = a * (NumPlanes + 1) + plane + 1
      BY DEF AP!stable_seq, a
    <2> QED
      BY <2>3, <2>4
  <1>4. ASSUME NEW key \in PlaneKey
        PROVE  key.plane \in Nat /\ AP!next_logical_key(key) \in PlaneKey
               /\ AP!next_logical_key(key).plane = key.plane
    BY DEF PlaneKey, AP!next_logical_key, AirportProgram
  <1> HIDE DEF mid, t
  <1>5. AirportState(n.state) /\ (n.sends = <<>> \/ \E x : n.sends = <<x>> /\ Fits(x))
    <2>1. CASE Idles(mid, n)
      BY <1>2, <2>1 DEF Idles
    <2>2. CASE TurnsAway(mid, n)
      <3>1. Tail(mid.q) \in Seq(PlaneKey)
        BY <1>2, <2>2 DEF TurnsAway, AirportState
      <3> QED
        BY <1>2, <2>2, <3>1 DEF TurnsAway, AirportState
    <2>3. CASE Begins(mid, t, n)
      <3>1. Tail(mid.q) \in Seq(PlaneKey) /\ Head(mid.q) \in PlaneKey
        BY <1>2, <2>3 DEF Begins, AirportState
      <3>2. AirportState(n.state)
        BY <1>2, <2>3, <3>1 DEF Begins, AirportState
      <3>3. PICK done \in Nat : done > t /\ n.sends = <<AP!ServiceDone(done, Head(mid.q))>>
        BY <2>3 DEF Begins
      <3> DEFINE x == AP!ServiceDone(done, Head(mid.q))
      <3>4. /\ x.ts.time = done /\ x.body.kind = "done" /\ x.body.key = Head(mid.q)
            /\ x.ts.sequence = AP!stable_seq(1, AirportLp, Head(mid.q).plane)
        BY DEF AP!ServiceDone, AP!PlaneEvent
      <3>5. x.ts.sequence # 0
        BY <1>3, <1>4, <3>1, <3>4 DEF AirportProgram
      <3> HIDE DEF x
      <3>6. Fits(x)
        BY <3>1, <3>3, <3>4, <3>5
      <3>7. n.sends = <<x>>
        BY <3>3 DEF x
      <3> QED
        BY <3>2, <3>6, <3>7
    <2> QED
      BY <1>1, <2>1, <2>2, <2>3 DEF Starts
  <1>6. out = <<>> \/ \E x : out = <<x>> /\ Fits(x)
    <2> SUFFICES ASSUME out # <<>>
                 PROVE  \E x : out = <<x>> /\ Fits(x)
      OBVIOUS
    <2> DEFINE key == AP!next_logical_key(ev.body.key)
    <2>1. PICK dst \in Nat, arrive \in Nat :
             arrive > t /\ out = <<AP!PlaneArrive(arrive, dst, key)>>
      BY <1>1 DEF FliesOn, t
    <2>2. key \in PlaneKey /\ key.plane \in Nat
      BY <1>2, <1>4
    <2> HIDE DEF key
    <2> DEFINE x == AP!PlaneArrive(arrive, dst, key)
    <2>3. /\ x.ts.time = arrive /\ x.body.kind = "arrive" /\ x.body.key = key
          /\ x.ts.sequence = AP!stable_seq(0, dst, key.plane)
      BY DEF AP!PlaneArrive, AP!PlaneEvent
    <2>4. x.ts.sequence # 0
      BY <1>3, <2>2, <2>3
    <2> HIDE DEF x
    <2>5. Fits(x)
      BY <2>1, <2>2, <2>3, <2>4
    <2>6. out = <<x>>
      BY <2>1 DEF x
    <2> QED
      BY <2>5, <2>6
  <1> HIDE DEF Fits
  <1> DEFINE Good(u) == /\ IsSequence(u) /\ Len(u) \in 0..2
                        /\ \A i \in 1..Len(u) : Fits(u[i])
  <1>7. Good(r.sends)
    <2>1. Good(<<>>)
      <3>1. <<>> \in Seq({}) /\ Len(<<>>) = 0
        OBVIOUS
      <3> QED
        BY <3>1 DEF IsSequence
    <2>2. ASSUME NEW x, Fits(x)
          PROVE  Good(<<x>>) /\ <<>> \o <<x>> = <<x>> /\ <<x>> \o <<>> = <<x>>
      <3>1. <<x>> \in Seq({x}) /\ Len(<<x>>) = 1 /\ <<x>>[1] = x
        OBVIOUS
      <3>2. IsSequence(<<x>>)
        BY <3>1, Zenon DEF IsSequence
      <3>3. \A i \in 1..1 : Fits(<<x>>[i])
        BY <2>2, <3>1
      <3> QED
        BY <3>1, <3>2, <3>3
    <2>3. ASSUME NEW x, Fits(x), NEW y, Fits(y)
          PROVE  Good(<<x>> \o <<y>>)
      <3>1. /\ IsSequence(<<x>>) /\ Len(<<x>>) = 1 /\ <<x>>[1] = x
            /\ IsSequence(<<y>>) /\ Len(<<y>>) = 1 /\ <<y>>[1] = y
        BY <2>2, <2>3
      <3> DEFINE u == <<x>> \o <<y>>
      <3>2. IsSequence(u) /\ Len(u) = 2 /\ u[1] = x /\ u[2] = y
        <4> QED
          BY <3>1, Pair, Zenon
      <3> HIDE DEF u
      <3>3. \A i \in 1..2 : i = 1 \/ i = 2
        OBVIOUS
      <3>4. Good(u)
        BY <2>3, <3>2, <3>3
      <3> QED
        BY <3>4 DEF u
    <2>4. <<>> \o <<>> = <<>>
      OBVIOUS
    <2> HIDE DEF Good
    <2> QED
      BY <1>1, <1>5, <1>6, <2>1, <2>2, <2>3, <2>4
  <1> QED
    BY <1>1, <1>5, <1>7 DEF Fits, t

\* The snapshot is all of the state, so that only what is asked to be written may
\* be forgotten, and nothing is.
LEMMA AirportContract ==
    ASSUME AirportProgram, self = AirportLp, AirportState(state),
           \A e \in todo : IsEvent(e) /\ OfPlane(e)
    PROVE  AsksToWrite /\ LoadsWhatWasSaved
  <1>1. Entities(self) = {StateEntity} /\ \A s : Part(self, s, StateEntity) = s
    BY DEF AirportProgram
  <1>2. ASSUME NEW ev \in todo, NEW r, r = OnEvent(self, state, ev)
        PROVE  /\ r.sends \in Seq(ToSet(r.sends))
               /\ \A e \in Entities(self) \ r.writes :
                     Part(self, r.state, e) = Part(self, state, e)
               /\ r.missing => r.sends = <<>> /\ Alike(r.state, state)
    <2>1. OfPlane(ev) /\ ev.ts \in Stamp
      BY DEF IsEvent
    <2>2. Manages(state, ev, r)
      BY <1>2, <2>1, AirportHandler
    <2>3. IsSequence(r.sends)
      BY <2>1, <2>2, AirportSends
    <2>4. r.sends \in Seq(ToSet(r.sends))
      <3>1. PICK S : r.sends \in Seq(S)
        BY <2>3 DEF IsSequence
      <3>2. \A i \in 1..Len(r.sends) : r.sends[i] \in ToSet(r.sends)
        BY <3>1 DEF ToSet
      <3>3. r.sends = [i \in 1..Len(r.sends) |-> r.sends[i]] /\ Len(r.sends) \in Nat
        BY <3>1
      <3> QED
        BY <3>2, <3>3
    <2> QED
      BY <1>1, <2>2, <2>4 DEF Manages
  <1>3. AsksToWrite
    BY <1>2 DEF AsksToWrite
  <1>4. ASSUME NEW n \in base..Len(log), NEW e \in Entities(self)
        PROVE  Part(self, Restored(n), e)
                  = Part(self, IF e \in SavedAfter(n) THEN Saved(n)[e] ELSE state, e)
    <2>1. e = StateEntity /\ Restored(n) = AP!load_state(state, Saved(n))
      BY <1>1 DEF AirportProgram, Restored
    <2>2. DOMAIN Saved(n) = SavedAfter(n)
      BY DEF Saved
    <2> QED
      BY <2>1, <2>2 DEF AP!load_state
  <1> QED
    BY <1>3, <1>4 DEF LoadsWhatWasSaved

\* What was sent stands in the order of stamps, the first b entries below g.
SentAtGvt(S, b, g) ==
    /\ \A i \in 1..Len(S) : Lt(S[i].at, g) <=> i <= b
    /\ \A i \in 1..Len(S) : \A j \in 1..(i-1) : Le(S[j].at, S[i].at)

\* Messages are about planes and come later than they are sent.
SentLater(S) == \A m \in 1..Len(S) : S[m].at.time < S[m].ev.ts.time /\ OfPlane(S[m].ev)

\* An event of the LP's own that is pending in Q or executed in L stands in the
\* sent log, or the anti-message is there to take it back.
Backed(Q, L, S) ==
    \A e \in Plain(Q \cup Executed(L)) : e.src = self =>
        \/ e.dst = self /\ \E m \in 1..Len(S) : S[m].ev = e
        \/ AntiOf(e) \in Q \cup Executed(L)

\* What was taken back is not among the executed events.
TakenBack(L) == \A e \in Plain(Executed(L)) : AntiOf(e) \notin Executed(L)

States(L, s) == AirportState(s) /\ \A i \in 1..Len(L) : AirportState(L[i].pre)

AirportTraffic ==
    /\ gvt \in Stamp /\ deferred = {}
    /\ \A e \in coming : e.src # self
    /\ \A e \in coming \cup todo \cup Executed(log) : OfPlane(e)
    /\ NotBefore(coming \cup todo, gvt) /\ LogAtGvt(log, base, gvt)
    /\ SentAtGvt(sentLog, sentBase, gvt) /\ SentLater(sentLog)
    /\ Backed(todo, log, sentLog) /\ TakenBack(log)
    /\ States(log, state)

AirportInv == EventInv /\ ReplayInv /\ AirportTraffic

\* More entries, of one stamp, not below g nor below the others.
LEMMA SentAtGvtMore ==
    ASSUME NEW S, IsSequence(S), NEW b \in 0..Len(S), NEW g \in Stamp, SentAtGvt(S, b, g),
           NEW U, IsSequence(U), NEW t \in Stamp, \A i \in 1..Len(U) : U[i].at = t,
           Le(g, t), \A i \in 1..Len(S) : S[i].at \in Stamp,
           \A i \in (b+1)..Len(S) : Le(S[i].at, t)
    PROVE  SentAtGvt(S \o U, b, g)
  <1> DEFINE M == S \o U
             n == Len(S)
  <1>1. /\ Len(S) \in Nat /\ Len(U) \in Nat /\ Len(M) = Len(S) + Len(U)
        /\ \A i \in 1..Len(S) : M[i] = S[i]
        /\ \A i \in 1..Len(U) : M[Len(S) + i] = U[i]
    <2>1. Joins(M, S, U)
      BY Joined, Zenon
    <2> HIDE DEF M
    <2> QED
      BY <2>1, Zenon DEF Joins
  <1> HIDE DEF M, n
  <1>2. n \in Nat /\ (\A i \in 1..n : M[i] = S[i]) /\ b \in 0..n /\ Len(M) - n \in Nat
    BY <1>1 DEF n
  <1>3. \A i \in 1..n : Le(M[i].at, t) /\ M[i].at \in Stamp
    <2> TAKE i \in 1..n
    <2>1. CASE i <= b
      <3>1. Lt(S[i].at, g) /\ S[i].at \in Stamp
        BY <2>1 DEF SentAtGvt, n
      <3> QED
        BY <1>2, <3>1, LeOrder
    <2>2. CASE ~ (i <= b)
      <3>1. i \in (b+1)..n
        BY <1>2, <2>2
      <3> QED
        BY <1>2, <3>1 DEF n
    <2> QED
      BY <2>1, <2>2
  <1>4. ASSUME NEW i \in 1..Len(M), i > n
        PROVE  M[i].at = t
    <2>1. i - n \in 1..Len(U) /\ n + (i - n) = i
      BY <1>1, <1>4 DEF n
    <2> DEFINE k == i - n
    <2> HIDE DEF k
    <2>2. k \in 1..Len(U) /\ n + k = i
      BY <2>1 DEF k
    <2> QED
      BY <1>1, <2>2 DEF n
  <1>5. ~ Lt(t, g)
    BY DEF Le
  <1>6. ASSUME NEW i \in 1..Len(M)
        PROVE  /\ Lt(M[i].at, g) <=> i <= b
               /\ \A j \in 1..(i-1) : Le(M[j].at, M[i].at)
    <2>1. CASE i \in 1..n
      <3>1. \A j \in 1..(i-1) : j \in 1..n
        BY <1>2, <2>1
      <3> QED
        BY <1>2, <2>1, <3>1 DEF SentAtGvt, n
    <2>2. CASE i > n
      <3>1. M[i].at = t /\ ~ (i <= b)
        BY <1>2, <1>4, <2>2
      <3>2. ASSUME NEW j \in 1..(i-1)
            PROVE  Le(M[j].at, t)
        <4>1. j \in 1..n \/ (j \in 1..Len(M) /\ j > n)
          BY <1>2
        <4> QED
          BY <1>3, <1>4, <4>1, LeOrder
      <3> QED
        BY <1>5, <3>1, <3>2
    <2> QED
      BY <1>2, <2>1, <2>2
  <1>7. SentAtGvt(M, b, g)
    BY <1>6 DEF SentAtGvt
  <1> QED
    BY <1>7 DEF M

\* What is left of a sent log that is cut.
LEMMA SentCut ==
    ASSUME NEW S, IsSequence(S), NEW b, NEW g, SentAtGvt(S, b, g), SentLater(S),
           NEW n \in 0..Len(S)
    PROVE  SentAtGvt(SubSeq(S, 1, n), b, g) /\ SentLater(SubSeq(S, 1, n))
  <1> DEFINE M == SubSeq(S, 1, n)
  <1>1. Len(S) \in Nat /\ Len(M) = n /\ \A i \in 1..n : M[i] = S[i] /\ i \in 1..Len(S)
    BY CutOff
  <1> HIDE DEF M
  <1>2. \A i \in 1..n : \A j \in 1..(i-1) : j \in 1..n
    BY <1>1
  <1>3. SentAtGvt(M, b, g) /\ SentLater(M)
    BY <1>1, <1>2 DEF SentAtGvt, SentLater
  <1> QED
    BY <1>3 DEF M

\* An airport begins without planes, messages or records.
LEMMA AirportInit ==
    ASSUME AirportProgram, AirportClients
    PROVE  Init /\ self = AirportLp => AirportInv
  <1> SUFFICES ASSUME Init, self = AirportLp
               PROVE  AirportInv
    OBVIOUS
  <1>1. EventInv
    BY EventInit
  <1>2. log = <<>> /\ base = 0 /\ sentLog = <<>> /\ sentBase = 0 /\ gvt = ZeroStamp
        /\ deferred = {} /\ todo = {} /\ coming = Inputs(self) /\ state = InitState(self)
    BY DEF Init, AirportProgram
  <1>3. IsSequence(log) /\ Len(log) = 0 /\ Len(sentLog) = 0
    <2>1. <<>> \in Seq({}) /\ Len(<<>>) = 0
      OBVIOUS
    <2> QED
      BY <1>2, <2>1 DEF IsSequence
  <1>4. ReplayInv
    BY <1>2, <1>3 DEF ReplayInv, Replays, Alike, Finds
  <1>5. \A e \in coming : IsEvent(e) /\ e.src # self /\ OfPlane(e)
    BY <1>1, <1>2, LpAssumption DEF EventInv, AirportClients
  <1>6. Executed(log) = {}
    BY <1>3 DEF Executed
  <1>7. NotBefore(coming \cup todo, gvt)
    BY <1>2, <1>5, StampConstants DEF NotBefore, IsEvent
  <1>8. LogAtGvt(log, base, gvt) /\ SentAtGvt(sentLog, sentBase, gvt) /\ SentLater(sentLog)
    BY <1>3 DEF LogAtGvt, SentAtGvt, SentLater
  <1>9. Backed(todo, log, sentLog) /\ TakenBack(log)
    BY <1>2, <1>6 DEF Backed, TakenBack, Plain
  <1>10. States(log, state)
    <2>1. state = [busy |-> FALSE, q |-> <<>>, arrivals |-> 0, departures |-> 0, maxQ |-> 0]
      BY <1>2 DEF AirportProgram, AP!NewAirport
    <2> QED
      BY <1>3, <2>1 DEF States, AirportState
  <1> QED
    BY <1>1, <1>2, <1>4, <1>5, <1>6, <1>7, <1>8, <1>9, <1>10, StampConstants
    DEF AirportInv, AirportTraffic

\* What the other airports send when they get planes.
LEMMA ArrivalsAfter ==
    ASSUME AirportClients, self = AirportLp, NEW S, NEW g \in Stamp,
           \A e \in S : IsEvent(e) /\ OfPlane(e) /\ Le(g, e.ts)
              /\ (e.dst # self => \A a \in Replies(self, e) : IsEvent(a))
    PROVE  \A a \in Answered(S) : IsEvent(a) /\ a.src # self /\ OfPlane(a) /\ Le(g, a.ts)
  <1> TAKE a \in Answered(S)
  <1>1. PICK e \in S : a \in Replies(self, e) /\ e.dst # self
    BY DEF Answered, Local
  <1>2. IsEvent(a) /\ a.src # self /\ OfPlane(a) /\ Le(e.ts, a.ts) /\ Le(g, e.ts)
    BY <1>1 DEF AirportClients
  <1>3. e.ts \in Stamp /\ a.ts \in Stamp
    BY <1>1, <1>2 DEF IsEvent
  <1> QED
    BY <1>2, <1>3, LeOrder

\* What a step does to the traffic.
AirportNext ==
    /\ gvt' \in Stamp /\ deferred' = {}
    /\ \A e \in coming' : e.src # self
    /\ \A e \in coming' \cup todo' \cup Executed(log') : OfPlane(e)
    /\ NotBefore(coming' \cup todo', gvt') /\ LogAtGvt(log', base', gvt')
    /\ SentAtGvt(sentLog', sentBase', gvt') /\ SentLater(sentLog')
    /\ Backed(todo', log', sentLog') /\ TakenBack(log')
    /\ States(log', state')

\* What was taken back before is below the GVT, or its event would be skipped.
LEMMA NotTakenBack ==
    ASSUME LogAtGvt(log, base, gvt), base \in 0..Len(log), Len(log) \in Nat,
           NEW ev, IsEvent(ev), Le(gvt, ev.ts), ~ ev.anti, ~ Skipped(ev)
    PROVE  AntiOf(ev) \notin Executed(log)
  <1> SUFFICES ASSUME NEW i \in 1..Len(log), log[i].ev = AntiOf(ev)
               PROVE  FALSE
    BY DEF Executed
  <1>1. log[i].ev.anti /\ log[i].ev.ts = ev.ts /\ Key(log[i].ev) = Key(ev)
    BY AntiOfEvent
  <1>2. ~ Lt(log[i].ev.ts, gvt)
    BY <1>1 DEF Le
  <1>3. i \in (base+1)..Len(log)
    BY <1>2 DEF LogAtGvt
  <1>4. Key(ev) \in Cancelled
    BY <1>1, <1>3 DEF Cancelled
  <1> QED
    BY <1>4 DEF Skipped

\* Executing an event.
LEMMA AirportExecute ==
    ASSUME AirportProgram, AirportClients, self = AirportLp, AirportInv, AnswersAreNew,
           Execute
    PROVE  AirportNext
  <1>1. PICK ev \in todo :
           LET r == OnEvent(self, state, ev)
           IN  /\ Ready(ev) /\ Sends(r.sends, ev.ts, Key(ev))
               /\ log' = Append(log, Record(ev, r.writes)) /\ state' = r.state
               /\ todo' = (todo \ {ev}) \cup Local(ToSet(Emitted(r.sends)))
                                        \cup Released(ev)
               /\ deferred' = deferred \ Released(ev)
               /\ UNCHANGED <<self, base, sentBase, gvt>>
    BY DEF Execute
  <1> DEFINE r == OnEvent(self, state, ev)
             sends == r.sends
             evs == Emitted(sends)
             n == Len(sends)
             rec == Record(ev, r.writes)
             u == [i \in 1..Len(evs) |-> [at |-> ev.ts, of |-> Key(ev), ev |-> evs[i]]]
             new == ToSet(evs)
  <1>2. /\ Logs(log, base, sentLog, sentBase, vt) /\ nextUid \in Nat
        /\ \A e \in coming \cup todo \cup Executed(log) \cup deferred : IsEvent(e)
        /\ IsSequence(log) /\ base \in 0..Len(log) /\ IsSequence(sentLog) /\ vt \in Stamp
        /\ \A i \in 1..Len(log) : log[i].ev.ts \in Stamp
        /\ sentBase \in 0..Len(sentLog) /\ \A m \in 1..Len(sentLog) : sentLog[m].at \in Stamp
        /\ InOrder(log, base, vt) /\ SentInOrder(sentLog, sentBase, vt)
    BY DEF AirportInv, EventInv, Logs
  <1>3. /\ gvt \in Stamp /\ deferred = {} /\ \A e \in coming : e.src # self
        /\ \A e \in coming \cup todo \cup Executed(log) : OfPlane(e)
        /\ NotBefore(coming \cup todo, gvt) /\ LogAtGvt(log, base, gvt)
        /\ SentAtGvt(sentLog, sentBase, gvt) /\ SentLater(sentLog)
        /\ Backed(todo, log, sentLog) /\ TakenBack(log) /\ States(log, state)
    BY DEF AirportInv, AirportTraffic
  <1>4. /\ \A i \in 1..Len(evs) : evs[i].ts \in Stamp
        /\ sentLog' = sentLog \o u /\ coming' = coming \cup Answered(new)
    BY <1>1 DEF Sends
  <1>5. IsEvent(ev) /\ ev.ts \in Stamp /\ Le(gvt, ev.ts) /\ OfPlane(ev) /\ Le(vt, ev.ts)
        /\ ~ ev.anti /\ ~ Skipped(ev)
    BY <1>1, <1>2, <1>3 DEF IsEvent, NotBefore, Ready, IsNext, Le
  <1>6. /\ AirportState(r.state) /\ IsSequence(sends) /\ n \in 0..2
        /\ \A i \in 1..n : /\ sends[i].ts.time > ev.ts.time /\ sends[i].ts.sequence # 0
                           /\ sends[i].body.kind \in {"arrive", "done"}
                           /\ sends[i].body.key \in PlaneKey
    <2>1. AirportState(state)
      BY <1>3 DEF States
    <2>2. Manages(state, ev, r)
      BY <1>5, <2>1, AirportHandler
    <2> HIDE DEF r
    <2> QED
      BY <1>5, <2>1, <2>2, AirportSends
  <1>7. rec.ev = ev /\ rec.pre = state
    BY DEF Record
  <1>8. log' = Append(log, rec) /\ base' = base /\ sentBase' = sentBase /\ gvt' = gvt
        /\ state' = r.state
        /\ todo' = (todo \ {ev}) \cup Local(new) \cup Released(ev)
        /\ deferred' = deferred \ Released(ev)
        /\ \A a \in Answered(new) : IsEvent(a)
    BY <1>1 DEF AnswersAreNew
  <1>9. Released(ev) = {} /\ deferred' = {}
    BY <1>3, <1>8 DEF Released
  <1> HIDE DEF r, rec, sends
  <1>10. /\ IsSequence(evs) /\ Len(evs) = n
         /\ \A i \in 1..n : /\ IsEvent(evs[i]) /\ evs[i].src = self
                            /\ evs[i].body = sends[i].body
         /\ new = {evs[i] : i \in 1..n}
    <2>1. nextUid \in Nat /\ n \in Nat
      BY <1>2, <1>6
    <2>2. \A i \in 1..Len(evs) : evs[i].ts \in Stamp
      BY <1>4
    <2> QED
      BY ONLY <2>1, <2>2, EmittedAre
  <1>11. \A i \in 1..n : evs[i].ts.time > ev.ts.time /\ OfPlane(evs[i])
    <2> TAKE i \in 1..n
    <2>1. evs[i].ts = IF sends[i].ts.sequence = 0
                      THEN [sends[i].ts EXCEPT
                               !.sequence = nextSeq + Numbered(sends, i - 1)]
                      ELSE sends[i].ts
      BY DEF Emitted
    <2>2. evs[i].ts = sends[i].ts
      BY <1>6, <2>1
    <2> HIDE DEF evs
    <2> QED
      BY <1>6, <1>10, <2>2 DEF OfPlane
  <1> HIDE DEF evs, new, n
  <1>12. \A e \in new : IsEvent(e) /\ OfPlane(e) /\ Le(gvt, e.ts)
    <2> TAKE e \in new
    <2>1. PICK i \in 1..n : e = evs[i]
      BY <1>10
    <2>2. IsEvent(e) /\ e.ts.time > ev.ts.time /\ e.ts \in Stamp /\ OfPlane(e)
      BY <1>10, <1>11, <2>1 DEF IsEvent
    <2>3. Le(ev.ts, e.ts)
      BY <1>5, <2>2, StampBounds DEF Le, Lt, Stamp
    <2> QED
      BY <1>3, <1>5, <2>2, <2>3, LeOrder
  <1>13. \A a \in Answered(new) : IsEvent(a) /\ a.src # self /\ OfPlane(a) /\ Le(gvt, a.ts)
    <2>1. \A e \in new : e.dst # self => \A a \in Replies(self, e) : IsEvent(a)
      BY <1>8 DEF Answered, Local
    <2> QED
      BY <1>3, <1>12, <2>1, ArrivalsAfter
  <1>14. /\ IsSequence(u) /\ Len(u) = n
         /\ \A j \in 1..n : u[j].at = ev.ts /\ u[j].ev = evs[j]
    <2>1. u = [i \in 1..n |-> [at |-> ev.ts, of |-> Key(ev), ev |-> evs[i]]]
      BY <1>10
    <2> HIDE DEF u
    <2>2. u \in Seq({[at |-> ev.ts, of |-> Key(ev), ev |-> evs[i]] : i \in 1..n})
      BY <1>6, <2>1
    <2>3. Len(u) = n
      BY <1>6, <2>1
    <2>4. \A j \in 1..n : u[j] = [at |-> ev.ts, of |-> Key(ev), ev |-> evs[j]]
      BY <2>1
    <2> QED
      BY <2>2, <2>3, <2>4 DEF IsSequence
  <1> HIDE DEF u
  <1>15. /\ Len(sentLog) \in Nat /\ n \in Nat /\ Len(sentLog') = Len(sentLog) + n
         /\ \A i \in 1..Len(sentLog) : sentLog'[i] = sentLog[i]
         /\ \A i \in 1..n : sentLog'[Len(sentLog) + i] = u[i]
    <2>1. IsSequence(sentLog) /\ IsSequence(u)
      BY <1>2, <1>14
    <2>2. Joins(sentLog \o u, sentLog, u)
      BY <2>1, Joined, Zenon
    <2>3. sentLog' = sentLog \o u /\ Len(u) = n
      BY <1>4, <1>14
    <2>4. Joins(sentLog', sentLog, u)
      BY ONLY <2>2, <2>3, Zenon
    <2> QED
      BY <2>3, <2>4, Zenon DEF Joins
  <1>16. SentLater(sentLog')
    <2> SUFFICES ASSUME NEW m \in 1..Len(sentLog')
                 PROVE  /\ sentLog'[m].at.time < sentLog'[m].ev.ts.time
                        /\ OfPlane(sentLog'[m].ev)
      BY DEF SentLater
    <2>1. CASE m \in 1..Len(sentLog)
      BY <1>3, <1>15, <2>1 DEF SentLater
    <2>2. CASE m \notin 1..Len(sentLog)
      <3> DEFINE i == m - Len(sentLog)
      <3>1. i \in 1..n /\ Len(sentLog) + i = m
        BY <1>15, <2>2
      <3> HIDE DEF i
      <3>2. sentLog'[m].at = ev.ts /\ sentLog'[m].ev = evs[i]
        BY <1>14, <1>15, <3>1
      <3>3. evs[i].ts.time > ev.ts.time /\ OfPlane(evs[i]) /\ evs[i].ts \in Stamp
        BY <1>10, <1>11, <3>1 DEF IsEvent
      <3> QED
        BY <1>5, <3>2, <3>3, StampBounds DEF Stamp
    <2> QED
      BY <2>1, <2>2
  <1>17. SentAtGvt(sentLog', sentBase', gvt')
    <2>1. \A i \in (sentBase+1)..Len(sentLog) : Le(sentLog[i].at, ev.ts)
      <3> TAKE i \in (sentBase+1)..Len(sentLog)
      <3>1. i \in 1..Len(sentLog) /\ Le(sentLog[i].at, vt)
        BY <1>2 DEF SentInOrder
      <3> QED
        BY <1>2, <1>5, <3>1, LeOrder
    <2>2. \A i \in 1..Len(u) : u[i].at = ev.ts
      BY <1>14
    <2>3. SentAtGvt(sentLog \o u, sentBase, gvt)
      BY <1>2, <1>3, <1>5, <1>14, <2>1, <2>2, SentAtGvtMore
    <2> QED
      BY <1>4, <1>8, <2>3
  <1>18. LogAtGvt(log', base', gvt')
    <2>1. \A i \in (base+1)..Len(log) : Le(log[i].ev.ts, rec.ev.ts)
      <3> TAKE i \in (base+1)..Len(log)
      <3>1. i \in 1..Len(log) /\ Le(log[i].ev.ts, vt)
        BY <1>2 DEF InOrder
      <3> QED
        BY <1>2, <1>5, <1>7, <3>1, LeOrder
    <2>2. LogAtGvt(Append(log, rec), base, gvt)
      BY <1>2, <1>3, <1>5, <1>7, <2>1, LogAtGvtMore
    <2> QED
      BY <1>8, <2>2
  <1>19. Executed(log') = Executed(log) \cup {ev}
    BY <1>2, <1>7, <1>8, ExecutedMore
  <1>20. todo' = (todo \ {ev}) \cup Local(new) /\ Local(new) \subseteq new
    BY <1>8, <1>9 DEF Local
  <1>21. /\ \A e \in coming' : e.src # self
         /\ \A e \in coming' \cup todo' \cup Executed(log') : OfPlane(e)
         /\ NotBefore(coming' \cup todo', gvt')
    <2>1. ASSUME NEW e \in coming'
          PROVE  e.src # self /\ OfPlane(e) /\ Le(gvt, e.ts)
      BY <1>3, <1>4, <1>13 DEF NotBefore
    <2>2. ASSUME NEW e \in todo'
          PROVE  OfPlane(e) /\ Le(gvt, e.ts)
      BY <1>3, <1>12, <1>20 DEF NotBefore
    <2>3. ASSUME NEW e \in Executed(log')
          PROVE  OfPlane(e)
      BY <1>3, <1>5, <1>19
    <2> QED
      BY <1>8, <2>1, <2>2, <2>3 DEF NotBefore
  <1>22. Backed(todo', log', sentLog')
    <2> SUFFICES ASSUME NEW e \in Plain(todo' \cup Executed(log')), e.src = self
                 PROVE  \/ e.dst = self /\ \E m \in 1..Len(sentLog') : sentLog'[m].ev = e
                        \/ AntiOf(e) \in todo' \cup Executed(log')
      BY DEF Backed
    <2>1. ~ e.anti /\ e \in todo \cup Executed(log) \cup Local(new)
      BY <1>19, <1>20 DEF Plain
    <2>2. CASE e \in Local(new)
      <3>1. PICK i \in 1..n : e = evs[i]
        BY <1>10, <2>2 DEF Local
      <3>2. Len(sentLog) + i \in 1..Len(sentLog') /\ sentLog'[Len(sentLog) + i].ev = e
        BY <1>14, <1>15, <3>1
      <3> QED
        BY <2>2, <3>2 DEF Local
    <2>3. CASE e \in todo \cup Executed(log)
      <3>1. \/ e.dst = self /\ \E m \in 1..Len(sentLog) : sentLog[m].ev = e
            \/ AntiOf(e) \in todo \cup Executed(log)
        BY <1>3, <2>1, <2>3 DEF Backed, Plain
      <3>2. CASE e.dst = self /\ \E m \in 1..Len(sentLog) : sentLog[m].ev = e
        <4>1. PICK m \in 1..Len(sentLog) : sentLog[m].ev = e
          BY <3>2
        <4>2. m \in 1..Len(sentLog') /\ sentLog'[m].ev = e
          BY <1>15, <4>1
        <4> QED
          BY <3>2, <4>2
      <3>3. CASE AntiOf(e) \in todo \cup Executed(log)
        <4>1. AntiOf(e).anti
          BY <1>2, <2>3, AntiOfEvent
        <4> QED
          BY <1>5, <1>19, <1>20, <3>3, <4>1
      <3> QED
        BY <3>1, <3>2, <3>3
    <2> QED
      BY <2>1, <2>2, <2>3
  <1>23. TakenBack(log')
    <2> SUFFICES ASSUME NEW e \in Plain(Executed(log')), AntiOf(e) \in Executed(log')
                 PROVE  FALSE
      BY DEF TakenBack
    <2>1. ~ e.anti /\ (e \in Executed(log) \/ e = ev)
      BY <1>19 DEF Plain
    <2>2. AntiOf(e).anti
      BY <1>2, <1>5, <2>1, AntiOfEvent
    <2>3. AntiOf(e) \in Executed(log)
      BY <1>5, <1>19, <2>2
    <2>4. CASE e = ev
      <3>1. Len(log) \in Nat
        BY <1>2, Appended
      <3> QED
        BY <1>2, <1>3, <1>5, <2>3, <2>4, <3>1, NotTakenBack
    <2>5. CASE e \in Executed(log)
      BY <1>3, <2>1, <2>3, <2>5 DEF TakenBack, Plain
    <2> QED
      BY <2>1, <2>4, <2>5
  <1>24. States(log', state')
    <2>1. /\ Len(log) \in Nat /\ Len(log') = Len(log) + 1 /\ log'[Len(log) + 1] = rec
          /\ \A i \in 1..Len(log) : log'[i] = log[i]
      BY <1>2, <1>8, Appended
    <2>2. \A i \in 1..(Len(log) + 1) : i \in 1..Len(log) \/ i = Len(log) + 1
      BY <2>1
    <2>3. AirportState(state') /\ AirportState(rec.pre)
      BY <1>3, <1>6, <1>7, <1>8 DEF States
    <2> QED
      BY <1>3, <2>1, <2>2, <2>3 DEF States
  <1> QED
    BY <1>3, <1>8, <1>9, <1>16, <1>17, <1>18, <1>21, <1>22, <1>23, <1>24 DEF AirportNext

\* The state a rollback loads is one that was found.
LEMMA AirportRestored ==
    ASSUME AirportProgram, self = AirportLp, States(log, state), Len(log) \in Nat,
           NEW n \in 0..Len(log)
    PROVE  AirportState(Restored(n))
  <1>1. Restored(n) = IF StateEntity \in SavedAfter(n) THEN Saved(n)[StateEntity] ELSE state
    <2>1. Restored(n) = AP!load_state(state, Saved(n))
      BY DEF AirportProgram, Restored
    <2>2. DOMAIN Saved(n) = SavedAfter(n)
      BY DEF Saved
    <2> QED
      BY <2>1, <2>2 DEF AP!load_state
  <1>2. ASSUME StateEntity \in SavedAfter(n)
        PROVE  AirportState(Saved(n)[StateEntity])
    <2> DEFINE T == Savers(n, StateEntity)
    <2>1. T \in SUBSET Nat /\ T # {} /\ \A i \in T : i \in 1..Len(log)
      BY <1>2 DEF Savers, SavedAfter
    <2> HIDE DEF T
    <2>2. Min(T) \in T
      BY <2>1, LeastNat
    <2>3. Saved(n)[StateEntity] = log[Min(T)].pre
      BY <1>2 DEF Saved, T
    <2> QED
      BY <2>1, <2>2, <2>3 DEF States
  <1> QED
    BY <1>1, <1>2 DEF States

\* What a rollback keeps, and what it puts into the queue and on its way.
LEMMA AirportRolledBack ==
    ASSUME AirportProgram, AirportClients, self = AirportLp, AirportInv,
           NEW to \in Stamp, Le(gvt, to)
    PROVE  LET M == SubSeq(log, 1, Kept(to))
               R == SubSeq(sentLog, 1, KeptSent(to))
               antis == {AntiOf(a) : a \in Answered(Unsent(to))}
           IN  /\ IsSequence(M) /\ Executed(log) = Executed(M) \cup Undone(Kept(to))
               /\ LogAtGvt(M, base, gvt) /\ base \in 0..Len(M)
               /\ \A i \in 1..Len(M) : M[i] = log[i] /\ i \in 1..Len(log)
               /\ \A i \in 1..Len(M) : M[i].ev.ts \in Stamp
               /\ \A i \in (base+1)..Len(M) : Lt(M[i].ev.ts, to)
               /\ AirportState(Restored(Kept(to)))
               /\ SentAtGvt(R, sentBase, gvt) /\ SentLater(R)
               /\ \A m \in 1..Len(sentLog) :
                     \/ \E k \in 1..Len(R) : R[k].ev = sentLog[m].ev
                     \/ sentLog[m].ev \in Unsent(to)
               /\ Requeued(to) = Undone(Kept(to)) \cup {AntiOf(e) : e \in Local(Unsent(to))}
               /\ \A e \in Local(Unsent(to)) : AntiOf(e).anti
               /\ \A e \in Requeued(to) \cup antis : OfPlane(e)
               /\ \A e \in antis : e.src # self
               /\ NotBefore(Requeued(to) \cup antis, gvt)
  <1> DEFINE n == Kept(to)
             k == KeptSent(to)
             M == SubSeq(log, 1, n)
             R == SubSeq(sentLog, 1, k)
             antis == {AntiOf(a) : a \in Answered(Unsent(to))}
  <1>1. /\ \A m \in 1..Len(sentLog) : IsSent(sentLog[m].ev)
        /\ IsSequence(log) /\ base \in 0..Len(log) /\ InOrder(log, base, vt) /\ Distinct(log)
        /\ IsSequence(sentLog) /\ sentBase \in 0..Len(sentLog) /\ vt \in Stamp
        /\ \A i \in 1..Len(log) : log[i].ev.ts \in Stamp
        /\ \A m \in 1..Len(sentLog) : sentLog[m].at \in Stamp
    BY DEF AirportInv, EventInv, Logs
  <1>2. /\ gvt \in Stamp /\ LogAtGvt(log, base, gvt) /\ SentAtGvt(sentLog, sentBase, gvt)
        /\ SentLater(sentLog) /\ States(log, state)
        /\ \A e \in coming \cup todo \cup Executed(log) : OfPlane(e)
    BY DEF AirportInv, AirportTraffic
  <1>3. /\ n \in base..Len(log) /\ \A i \in (n+1)..Len(log) : Le(to, log[i].ev.ts)
        /\ n > base => ~ Le(to, log[n].ev.ts)
    BY <1>1, KeptRange
  <1>4. /\ k \in sentBase..Len(sentLog)
        /\ \A i \in (k+1)..Len(sentLog) : Le(to, sentLog[i].at)
    BY <1>1, KeptSentRange
  <1>5. /\ Undone(n) = {log[i].ev : i \in (n+1)..Len(log)}
        /\ Unsent(to) = {sentLog[i].ev : i \in (k+1)..Len(sentLog)}
        /\ Requeued(to) = Undone(n) \cup {AntiOf(e) : e \in Local(Unsent(to))}
    BY DEF Undone, Unsent, Requeued
  <1> HIDE DEF n, k
  <1>6. Len(log) \in Nat /\ Len(sentLog) \in Nat
    BY <1>1, Appended
  <1>7. n \in 0..Len(log) /\ k \in 0..Len(sentLog)
    BY <1>1, <1>3, <1>4, <1>6
  <1>8. /\ IsSequence(M) /\ Len(M) = n /\ Len(R) = k
        /\ \A i \in 1..n : M[i] = log[i] /\ i \in 1..Len(log)
        /\ \A m \in 1..k : R[m] = sentLog[m] /\ m \in 1..Len(sentLog)
    BY <1>1, <1>7, CutOff
  <1>9. LogAtGvt(M, base, gvt) /\ SentAtGvt(R, sentBase, gvt) /\ SentLater(R)
    BY <1>1, <1>2, <1>7, LogAtGvtCut, SentCut
  <1>10. Executed(log) = Executed(M) \cup Undone(n)
    BY <1>1, <1>5, <1>7, ExecutedCut
  <1>11. AirportState(Restored(n))
    BY <1>2, <1>6, <1>7, AirportRestored
  <1> HIDE DEF M, R
  <1>12. base \in 0..Len(M) /\ \A i \in 1..Len(M) : M[i].ev.ts \in Stamp
    BY <1>1, <1>3, <1>6, <1>8
  <1>13. ASSUME NEW i \in (base+1)..Len(M)
         PROVE  Lt(M[i].ev.ts, to)
    <2>1. n > base /\ n \in 1..Len(log) /\ i \in 1..n /\ n \in (base+1)..Len(log)
      BY <1>1, <1>3, <1>6, <1>8
    <2>2. Lt(log[n].ev.ts, to) /\ log[n].ev.ts \in Stamp
      BY <1>1, <1>3, <2>1 DEF Le
    <2>3. i = n \/ i \in (base+1)..(n-1)
      BY <1>1, <2>1
    <2>4. Le(log[i].ev.ts, log[n].ev.ts)
      BY <1>1, <2>1, <2>2, <2>3, LeOrder DEF InOrder
    <2>5. log[i].ev.ts \in Stamp /\ M[i] = log[i]
      BY <1>1, <1>8, <2>1
    <2> QED
      BY <2>2, <2>4, <2>5, LeOrder
  <1>14. ASSUME NEW m \in 1..Len(sentLog)
         PROVE  \/ \E j \in 1..Len(R) : R[j].ev = sentLog[m].ev
                \/ sentLog[m].ev \in Unsent(to)
    <2>1. m \in 1..k \/ m \in (k+1)..Len(sentLog)
      BY <1>7
    <2> QED
      BY <1>5, <1>8, <2>1
  <1>15. \A e \in Unsent(to) : /\ IsEvent(e) /\ OfPlane(e) /\ Le(gvt, e.ts)
              /\ (e.dst # self => \A a \in Replies(self, e) : IsEvent(a))
    <2> TAKE e \in Unsent(to)
    <2>1. PICK i \in (k+1)..Len(sentLog) : e = sentLog[i].ev
      BY <1>5
    <2>2. i \in 1..Len(sentLog)
      BY <1>7
    <2>3. /\ IsSent(e) /\ Le(to, sentLog[i].at) /\ sentLog[i].at.time < e.ts.time
          /\ OfPlane(e) /\ sentLog[i].at \in Stamp
      BY <1>1, <1>2, <1>4, <2>1, <2>2 DEF SentLater
    <2>4. e.ts \in Stamp /\ Lt(sentLog[i].at, e.ts)
      BY <2>3 DEF IsSent, IsEvent, Lt
    <2>5. Le(gvt, e.ts)
      BY <1>2, <2>3, <2>4, LeOrder
    <2> QED
      BY <2>3, <2>5 DEF IsSent
  <1>16. \A a \in Answered(Unsent(to)) : IsEvent(a) /\ a.src # self /\ OfPlane(a) /\ Le(gvt, a.ts)
    BY <1>2, <1>15, ArrivalsAfter
  <1>17. ASSUME NEW e, IsEvent(e), OfPlane(e), Le(gvt, e.ts)
         PROVE  /\ OfPlane(AntiOf(e)) /\ Le(gvt, AntiOf(e).ts) /\ AntiOf(e).src = e.src
                /\ AntiOf(e).anti
    BY <1>17, AntiAlike, AntiOfEvent DEF OfPlane
  <1>18. \A e \in antis : e.src # self /\ OfPlane(e) /\ Le(gvt, e.ts)
    BY <1>16, <1>17
  <1>19. \A e \in Local(Unsent(to)) : /\ OfPlane(AntiOf(e)) /\ Le(gvt, AntiOf(e).ts)
                                      /\ AntiOf(e).anti
    BY <1>15, <1>17 DEF Local
  <1>20. \A e \in Undone(n) : OfPlane(e) /\ Le(gvt, e.ts)
    <2> TAKE e \in Undone(n)
    <2>1. PICK i \in (n+1)..Len(log) : e = log[i].ev
      BY <1>5
    <2>2. i \in 1..Len(log) /\ Le(to, e.ts) /\ e.ts \in Stamp
      BY <1>1, <1>3, <1>7, <2>1
    <2> QED
      BY <1>2, <1>10, <2>2, LeOrder
  <1> HIDE DEF antis
  <1>21. \A e \in Requeued(to) \cup antis : OfPlane(e) /\ Le(gvt, e.ts)
    BY <1>5, <1>18, <1>19, <1>20
  <1> QED
    BY <1>5, <1>8, <1>9, <1>10, <1>11, <1>12, <1>13, <1>14, <1>18, <1>19, <1>21
    DEF M, R, antis, n, k, NotBefore

\* Rolling back for a straggler or for what an anti-message takes back.
LEMMA AirportBack ==
    ASSUME AirportProgram, AirportClients, self = AirportLp, AirportInv,
           Straggler \/ CancelProcessed
    PROVE  AirportNext
  <1>1. PICK ev \in todo :
           LET M == SubSeq(log, 1, Kept(ev.ts))
           IN  /\ sentLog' = SubSeq(sentLog, 1, KeptSent(ev.ts))
               /\ coming' = coming \cup {AntiOf(a) : a \in Answered(Unsent(ev.ts))}
               /\ state' = Restored(Kept(ev.ts))
               /\ UNCHANGED <<base, sentBase, deferred, gvt>>
               /\ \/ log' = M /\ todo' = todo \cup Requeued(ev.ts)
                  \/ /\ log' = Append(M, [Record(ev, {}) EXCEPT !.pre = state']) /\ ev.anti
                     /\ \E i \in (base+1)..Len(log) :
                           AntiOf(log[i].ev) = ev /\ ~ log[i].ev.anti
                     /\ todo' = (todo \ {ev}) \cup Requeued(ev.ts)
    BY DEF Straggler, CancelProcessed, RollBack
  <1> DEFINE to == ev.ts
             n == Kept(to)
             M == SubSeq(log, 1, n)
             R == SubSeq(sentLog, 1, KeptSent(to))
             rec == [Record(ev, {}) EXCEPT !.pre = state']
             antis == {AntiOf(a) : a \in Answered(Unsent(to))}
  <1>2. /\ gvt \in Stamp /\ deferred = {} /\ \A e \in coming : e.src # self
        /\ \A e \in coming \cup todo \cup Executed(log) : OfPlane(e)
        /\ NotBefore(coming \cup todo, gvt) /\ Backed(todo, log, sentLog) /\ TakenBack(log)
        /\ States(log, state)
    BY DEF AirportInv, AirportTraffic
  <1>3. /\ IsEvent(ev) /\ \A e \in todo \cup Executed(log) : IsEvent(e)
        /\ Distinct(log) /\ base \in 0..Len(log) /\ IsSequence(log)
    BY DEF AirportInv, EventInv, Logs
  <1>4. to \in Stamp /\ Le(gvt, to)
    BY <1>2, <1>3 DEF IsEvent, NotBefore
  <1>5. rec.ev = ev /\ rec.pre = state'
    BY DEF Record
  <1>6. /\ IsSequence(M) /\ Executed(log) = Executed(M) \cup Undone(n)
        /\ LogAtGvt(M, base, gvt) /\ base \in 0..Len(M)
        /\ \A i \in 1..Len(M) : M[i] = log[i] /\ i \in 1..Len(log)
        /\ \A i \in 1..Len(M) : M[i].ev.ts \in Stamp
        /\ \A i \in (base+1)..Len(M) : Lt(M[i].ev.ts, to)
        /\ AirportState(Restored(n))
        /\ SentAtGvt(R, sentBase, gvt) /\ SentLater(R)
        /\ \A m \in 1..Len(sentLog) : \/ \E k \in 1..Len(R) : R[k].ev = sentLog[m].ev
                                      \/ sentLog[m].ev \in Unsent(to)
        /\ Requeued(to) = Undone(n) \cup {AntiOf(e) : e \in Local(Unsent(to))}
        /\ \A e \in Local(Unsent(to)) : AntiOf(e).anti
        /\ \A e \in Requeued(to) \cup antis : OfPlane(e)
        /\ \A e \in antis : e.src # self
        /\ NotBefore(Requeued(to) \cup antis, gvt)
    BY <1>4, AirportRolledBack
  <1>7. /\ sentLog' = R /\ coming' = coming \cup antis /\ state' = Restored(n)
        /\ base' = base /\ sentBase' = sentBase /\ deferred' = deferred /\ gvt' = gvt
        /\ \/ log' = M /\ todo' = todo \cup Requeued(to)
           \/ /\ log' = Append(M, rec) /\ ev.anti
              /\ \E i \in (base+1)..Len(log) : AntiOf(log[i].ev) = ev /\ ~ log[i].ev.anti
              /\ todo' = (todo \ {ev}) \cup Requeued(to)
    BY <1>1
  <1> HIDE DEF M, R, antis, rec, n
  <1>8. log' = Append(M, rec) => Executed(log') = Executed(M) \cup {ev}
    BY <1>5, <1>6, ExecutedMore
  <1>9. todo' \cup Executed(log') = todo \cup Requeued(to) \cup Executed(M)
    BY <1>7, <1>8
  <1>10. LogAtGvt(log', base', gvt')
    <2>1. CASE log' = M
      BY <1>6, <1>7, <2>1
    <2>2. CASE log' = Append(M, rec)
      <3>1. \A i \in (base+1)..Len(M) : Le(M[i].ev.ts, to)
        <4> TAKE i \in (base+1)..Len(M)
        <4>1. i \in 1..Len(M)
          BY <1>6
        <4> QED
          BY <1>4, <1>6, <4>1, LeOrder
      <3>2. LogAtGvt(Append(M, rec), base, gvt)
        BY <1>2, <1>4, <1>5, <1>6, <3>1, LogAtGvtMore
      <3> QED
        BY <1>7, <2>2, <3>2
    <2> QED
      BY <1>7, <2>1, <2>2
  <1>11. /\ \A e \in coming' : e.src # self
         /\ \A e \in coming' \cup todo' \cup Executed(log') : OfPlane(e)
         /\ NotBefore(coming' \cup todo', gvt')
    <2>1. \A e \in coming' \cup todo' \cup Executed(log') : OfPlane(e)
      BY <1>2, <1>6, <1>7, <1>9
    <2>2. todo' \subseteq todo \cup Requeued(to)
      BY <1>7
    <2> QED
      BY <1>2, <1>6, <1>7, <2>1, <2>2 DEF NotBefore
  <1>12. Backed(todo', log', sentLog')
    <2> SUFFICES ASSUME NEW e \in Plain(todo' \cup Executed(log')), e.src = self
                 PROVE  \/ e.dst = self /\ \E m \in 1..Len(R) : R[m].ev = e
                        \/ AntiOf(e) \in todo \cup Requeued(to) \cup Executed(M)
      BY <1>7, <1>9 DEF Backed
    <2>1. ~ e.anti /\ e \in todo \cup Executed(log)
      BY <1>6, <1>9 DEF Plain
    <2>2. CASE e.dst = self /\ \E m \in 1..Len(sentLog) : sentLog[m].ev = e
      <3>1. (\E k \in 1..Len(R) : R[k].ev = e) \/ e \in Unsent(to)
        BY <1>6, <2>2
      <3>2. ASSUME e \in Unsent(to)
            PROVE  AntiOf(e) \in Requeued(to)
        BY <1>6, <2>2, <3>2 DEF Local
      <3> QED
        BY <2>2, <3>1, <3>2
    <2>3. CASE AntiOf(e) \in todo \cup Executed(log)
      BY <1>6, <2>3
    <2> QED
      BY <1>2, <2>1, <2>2, <2>3 DEF Backed, Plain
  <1>13. TakenBack(log')
    <2>1. TakenBack(M)
      BY <1>2, <1>6 DEF TakenBack, Plain
    <2>2. CASE log' = M
      BY <2>1, <2>2
    <2>3. CASE log' = Append(M, rec) /\ ev.anti
      <3>1. PICK i \in (base+1)..Len(log) : AntiOf(log[i].ev) = ev /\ ~ log[i].ev.anti
        <4>1. CASE log' = M /\ todo' = todo \cup Requeued(to)
          <5>1. Len(M) \in Nat /\ Len(log') = Len(M) + 1
            BY <1>6, <2>3, Appended
          <5> QED
            BY <4>1, <5>1
        <4> QED
          BY <1>7, <4>1
      <3> SUFFICES ASSUME NEW e \in Plain(Executed(log')), AntiOf(e) \in Executed(log')
                   PROVE  FALSE
        BY DEF TakenBack
      <3>2. ~ e.anti /\ e \in Executed(M)
        BY <1>8, <2>3 DEF Plain
      <3>3. AntiOf(e) = ev
        BY <1>8, <2>1, <2>3, <3>2 DEF TakenBack, Plain
      <3>4. PICK j \in 1..Len(M) : e = M[j].ev
        BY <3>2 DEF Executed
      <3>5. j \in 1..Len(log) /\ e = log[j].ev /\ i \in 1..Len(log)
        BY <1>3, <1>6, <3>4
      <3>6. IsEvent(log[i].ev) /\ IsEvent(e)
        BY <1>3, <3>5 DEF Executed
      <3>7. Key(log[i].ev) = Key(ev) /\ Key(e) = Key(ev) /\ e.ts = ev.ts
        BY <3>1, <3>3, <3>6, AntiOfEvent
      <3>8. i = j
        BY <1>3, <3>1, <3>2, <3>5, <3>7 DEF Distinct
      <3>9. Lt(e.ts, to)
        BY <1>3, <1>6, <3>4, <3>8
      <3> QED
        BY <1>4, <3>7, <3>9, StampOrder
    <2> QED
      BY <1>7, <2>2, <2>3
  <1>14. States(log', state')
    <2>1. AirportState(state') /\ \A i \in 1..Len(M) : AirportState(M[i].pre)
      BY <1>2, <1>6, <1>7 DEF States
    <2>2. CASE log' = M
      BY <2>1, <2>2 DEF States
    <2>3. CASE log' = Append(M, rec)
      <3>1. /\ Len(M) \in Nat /\ Len(log') = Len(M) + 1 /\ log'[Len(M) + 1] = rec
            /\ \A i \in 1..Len(M) : log'[i] = M[i]
        BY <1>6, <2>3, Appended
      <3>2. \A i \in 1..(Len(M) + 1) : i \in 1..Len(M) \/ i = Len(M) + 1
        BY <3>1
      <3> QED
        BY <1>5, <2>1, <3>1, <3>2 DEF States
    <2> QED
      BY <1>7, <2>2, <2>3
  <1>15. SentAtGvt(sentLog', sentBase', gvt') /\ SentLater(sentLog')
    BY <1>6, <1>7
  <1>16. gvt' \in Stamp /\ deferred' = {}
    BY <1>2, <1>7
  <1> QED
    BY <1>10, <1>11, <1>12, <1>13, <1>14, <1>15, <1>16 DEF AirportNext

\* The other steps.
LEMMA AirportOthers ==
    ASSUME AirportProgram, AirportClients, self = AirportLp, AirportInv,
           Defer \/ CancelPending \/ Discard \/ Arrive \/ Withdraw
    PROVE  AirportNext
  <1>1. /\ gvt \in Stamp /\ deferred = {} /\ \A e \in coming : e.src # self
        /\ \A e \in coming \cup todo \cup Executed(log) : OfPlane(e)
        /\ NotBefore(coming \cup todo, gvt) /\ LogAtGvt(log, base, gvt)
        /\ SentAtGvt(sentLog, sentBase, gvt) /\ SentLater(sentLog)
        /\ Backed(todo, log, sentLog) /\ TakenBack(log) /\ States(log, state)
    BY DEF AirportInv, AirportTraffic
  <1>2. /\ \A e \in todo \cup Executed(log) : IsEvent(e)
        /\ IsSequence(log) /\ base \in 0..Len(log) /\ vt \in Stamp /\ InOrder(log, base, vt)
        /\ \A i \in 1..Len(log) : log[i].ev.ts \in Stamp
    BY DEF AirportInv, EventInv, Logs
  <1>3. ~ Defer
    <2> SUFFICES ASSUME Defer
                 PROVE  FALSE
      OBVIOUS
    <2>1. PICK ev \in todo : OnEvent(self, state, ev).missing
      BY DEF Defer, Deferrable
    <2>2. AirportState(state) /\ OfPlane(ev) /\ ev.ts \in Stamp
      BY <1>1, <1>2 DEF States, IsEvent
    <2>3. Manages(state, ev, OnEvent(self, state, ev))
      BY <2>2, AirportHandler
    <2> QED
      BY <2>1, <2>3 DEF Manages
  <1>4. CASE CancelPending
    <2>1. PICK ev \in todo :
             /\ log' = Append(log, Record(ev, {})) /\ todo' = todo \ {ev} /\ ev.anti
             /\ ~ \E i \in (base+1)..Len(log) : AntiOf(log[i].ev) = ev /\ ~ log[i].ev.anti
             /\ ~ Lt(ev.ts, vt)
             /\ UNCHANGED <<state, base, sentLog, sentBase, coming, deferred, gvt>>
      BY <1>4 DEF CancelPending
    <2> DEFINE rec == Record(ev, {})
    <2>2. rec.ev = ev /\ rec.pre = state /\ log' = Append(log, rec)
      BY <2>1 DEF Record
    <2> HIDE DEF rec
    <2>3. ev.ts \in Stamp /\ Le(gvt, ev.ts) /\ Le(vt, ev.ts) /\ OfPlane(ev)
      BY <1>1, <1>2, <2>1 DEF IsEvent, NotBefore, Le
    <2>4. \A i \in (base+1)..Len(log) : Le(log[i].ev.ts, ev.ts)
      <3> TAKE i \in (base+1)..Len(log)
      <3>1. i \in 1..Len(log) /\ Le(log[i].ev.ts, vt)
        BY <1>2 DEF InOrder
      <3> QED
        BY <1>2, <2>3, <3>1, LeOrder
    <2>5. LogAtGvt(Append(log, rec), base, gvt)
      BY <1>1, <1>2, <2>2, <2>3, <2>4, LogAtGvtMore
    <2>6. Executed(log') = Executed(log) \cup {ev}
      BY <1>2, <2>2, ExecutedMore
    <2>7. todo' \cup Executed(log') = todo \cup Executed(log)
      BY <2>1, <2>6
    <2>8. Backed(todo', log', sentLog')
      BY <1>1, <2>1, <2>7 DEF Backed
    <2>9. TakenBack(log')
      <3> SUFFICES ASSUME NEW e \in Plain(Executed(log')), AntiOf(e) \in Executed(log')
                   PROVE  FALSE
        BY DEF TakenBack
      <3>1. ~ e.anti /\ e \in Executed(log) /\ IsEvent(e)
        BY <1>2, <2>1, <2>6 DEF Plain
      <3>2. AntiOf(e) = ev
        BY <1>1, <2>6, <3>1 DEF TakenBack, Plain
      <3>3. PICK i \in 1..Len(log) : log[i].ev = e
        BY <3>1 DEF Executed
      <3>4. e.ts = ev.ts
        BY <3>1, <3>2, AntiOfEvent
      <3>5. i <= base
        BY <1>2, <2>1, <3>1, <3>2, <3>3
      <3> QED
        BY <1>1, <2>3, <3>3, <3>4, <3>5 DEF LogAtGvt, Le
    <2>10. States(log', state')
      <3>1. /\ Len(log) \in Nat /\ Len(log') = Len(log) + 1 /\ log'[Len(log) + 1] = rec
            /\ \A i \in 1..Len(log) : log'[i] = log[i]
        BY <1>2, <2>2, Appended
      <3>2. \A i \in 1..(Len(log) + 1) : i \in 1..Len(log) \/ i = Len(log) + 1
        BY <3>1
      <3> QED
        BY <1>1, <2>1, <2>2, <3>1, <3>2 DEF States
    <2>11. /\ \A e \in coming' : e.src # self
           /\ \A e \in coming' \cup todo' \cup Executed(log') : OfPlane(e)
           /\ NotBefore(coming' \cup todo', gvt')
      BY <1>1, <2>1, <2>7 DEF NotBefore
    <2>12. LogAtGvt(log', base', gvt')
      BY <2>1, <2>2, <2>5
    <2> QED
      BY <1>1, <2>1, <2>8, <2>9, <2>10, <2>11, <2>12 DEF AirportNext
  <1>5. CASE Discard
    <2>1. PICK ev \in todo : /\ ~ ev.anti /\ todo' = todo \ {ev}
                             /\ UNCHANGED <<state, log, base, sentLog, sentBase, coming,
                                            deferred, gvt>>
      BY <1>5 DEF Discard, Skipped, lpVars
    <2>2. Backed(todo', log', sentLog')
      <3> SUFFICES ASSUME NEW e \in Plain(todo' \cup Executed(log)), e.src = self
                   PROVE  \/ e.dst = self /\ \E m \in 1..Len(sentLog) : sentLog[m].ev = e
                          \/ AntiOf(e) \in todo' \cup Executed(log)
        BY <2>1 DEF Backed
      <3>1. e \in Plain(todo \cup Executed(log))
        BY <2>1 DEF Plain
      <3>2. AntiOf(e).anti
        BY <1>2, <3>1, AntiOfEvent DEF Plain
      <3> QED
        BY <1>1, <2>1, <3>1, <3>2 DEF Backed
    <2>3. /\ \A e \in coming' \cup todo' \cup Executed(log') : OfPlane(e)
          /\ NotBefore(coming' \cup todo', gvt')
      BY <1>1, <2>1 DEF NotBefore
    <2> QED
      BY <1>1, <2>1, <2>2, <2>3 DEF AirportNext
  <1>6. CASE Arrive
    <2>1. PICK ev \in coming : /\ coming' = coming \ {ev} /\ todo' = todo \cup {ev}
                               /\ UNCHANGED <<state, log, base, sentLog, sentBase, deferred,
                                              gvt>>
      BY <1>6 DEF Arrive, lpVars
    <2>2. Backed(todo', log', sentLog')
      <3> SUFFICES ASSUME NEW e \in Plain(todo' \cup Executed(log)), e.src = self
                   PROVE  \/ e.dst = self /\ \E m \in 1..Len(sentLog) : sentLog[m].ev = e
                          \/ AntiOf(e) \in todo' \cup Executed(log)
        BY <2>1 DEF Backed
      <3>1. e \in Plain(todo \cup Executed(log))
        BY <1>1, <2>1 DEF Plain
      <3> QED
        BY <1>1, <2>1, <3>1 DEF Backed
    <2>3. /\ \A e \in coming' \cup todo' \cup Executed(log') : OfPlane(e)
          /\ NotBefore(coming' \cup todo', gvt')
      BY <1>1, <2>1 DEF NotBefore
    <2> QED
      BY <1>1, <2>1, <2>2, <2>3 DEF AirportNext
  <1>7. CASE Withdraw
    <2>1. PICK ev \in Revocable(self) : /\ Le(gvt, ev.ts) /\ coming' = coming \cup {AntiOf(ev)}
                                        /\ UNCHANGED <<state, log, base, sentLog, sentBase,
                                                       todo, deferred, gvt>>
      BY <1>7 DEF Withdraw, lpVars
    <2>2. self \in Lps
      BY DEF AirportInv, EventInv
    <2>3. ev \in Inputs(self) /\ IsEvent(ev) /\ ev.src # self /\ OfPlane(ev)
      BY <2>2, LpAssumption DEF AirportClients
    <2>4. /\ AntiOf(ev).src # self /\ OfPlane(AntiOf(ev)) /\ Le(gvt, AntiOf(ev).ts)
      BY <2>1, <2>3, AntiAlike DEF OfPlane
    <2>5. /\ \A e \in coming' : e.src # self
          /\ \A e \in coming' \cup todo' \cup Executed(log') : OfPlane(e)
          /\ NotBefore(coming' \cup todo', gvt')
      BY <1>1, <2>1, <2>4 DEF NotBefore
    <2> QED
      BY <1>1, <2>1, <2>5 DEF AirportNext
  <1> QED
    BY <1>3, <1>4, <1>5, <1>6, <1>7

\* The GVT advances.
LEMMA AirportGvt ==
    ASSUME self = AirportLp, AirportInv, AdvanceGvt
    PROVE  AirportNext
  <1>1. PICK g \in GvtStamps(self) :
           /\ Lt(gvt, g) /\ \A ev \in todo \cup coming : Le(g, ev.ts)
           /\ gvt' = g /\ base' = PrunedRecords(g) /\ sentBase' = PrunedSent(g)
           /\ UNCHANGED <<state, log, sentLog, todo, coming, deferred>>
    BY DEF AdvanceGvt, GvtAdvances
  <1>2. /\ gvt \in Stamp /\ deferred = {} /\ \A e \in coming : e.src # self
        /\ \A e \in coming \cup todo \cup Executed(log) : OfPlane(e)
        /\ LogAtGvt(log, base, gvt) /\ SentAtGvt(sentLog, sentBase, gvt)
        /\ SentLater(sentLog) /\ Backed(todo, log, sentLog) /\ TakenBack(log)
        /\ States(log, state)
    BY DEF AirportInv, AirportTraffic
  <1>3. /\ IsSequence(log) /\ base \in 0..Len(log) /\ self \in Lps
        /\ IsSequence(sentLog) /\ sentBase \in 0..Len(sentLog)
        /\ \A i \in 1..Len(log) : log[i].ev.ts \in Stamp
        /\ \A i \in 1..Len(sentLog) : sentLog[i].at \in Stamp
    BY DEF AirportInv, EventInv, Logs
  <1>4. g \in Stamp
    BY <1>1, <1>3, LpAssumption
  <1>5. Len(log) \in Nat /\ Len(sentLog) \in Nat
    BY <1>3, Appended
  \* A list in the order of stamps, cut at gvt, may be cut at g.
  <1>6. ASSUME NEW N \in Nat, NEW at, \A i \in 1..N : at[i] \in Stamp,
               NEW b \in 0..N, \A i \in 1..N : Lt(at[i], gvt) <=> i <= b,
               \A i \in 1..N : \A j \in 1..(i-1) : Le(at[j], at[i]),
               NEW n \in b..N, \A i \in (b+1)..n : Lt(at[i], g),
               n < N => ~ Lt(at[n + 1], g), NEW i \in 1..N
        PROVE  Lt(at[i], g) <=> i <= n
    <2>1. CASE i <= b
      BY <1>1, <1>2, <1>4, <1>6, <2>1, StampOrder
    <2>2. CASE i > b /\ i <= n
      <3>1. i \in (b+1)..n
        BY <2>2
      <3> QED
        BY <1>6, <2>2, <3>1
    <2>3. CASE i > n
      <3>1. n < N /\ n + 1 \in 1..N /\ (n + 1 = i \/ n + 1 \in 1..(i-1))
        BY <2>3
      <3>2. Le(at[n + 1], at[i])
        BY <1>6, <3>1, LeOrder
      <3>3. Le(g, at[n + 1])
        BY <1>6, <3>1 DEF Le
      <3>4. Le(g, at[i])
        BY <1>4, <1>6, <3>1, <3>2, <3>3, LeOrder
      <3> QED
        BY <2>3, <3>4 DEF Le
    <2> QED
      BY <2>1, <2>2, <2>3
  <1>7. LogAtGvt(log, PrunedRecords(g), g)
    <2> DEFINE n == PrunedRecords(g)
               N == Len(log)
               at == [i \in 1..N |-> log[i].ev.ts]
    <2>1. /\ n \in base..N /\ \A i \in (base+1)..n : Lt(log[i].ev.ts, g)
          /\ n < N => ~ Lt(log[n + 1].ev.ts, g)
      BY <1>3, PrunedRange
    <2> HIDE DEF n
    <2>2. /\ N \in Nat /\ base \in 0..N /\ \A i \in 1..N : at[i] \in Stamp
          /\ \A i \in 1..N : Lt(at[i], gvt) <=> i <= base
          /\ \A i \in 1..N : \A j \in 1..(i-1) : Le(at[j], at[i])
      <3>1. \A i \in 1..N : \A j \in 1..(i-1) : j \in 1..N
        BY <1>5
      <3> QED
        BY <1>2, <1>3, <1>5, <3>1 DEF LogAtGvt
    <2>3. \A i \in 1..N : at[i] = log[i].ev.ts
      OBVIOUS
    <2>4. /\ \A i \in (base+1)..n : Lt(at[i], g)
          /\ n < N => ~ Lt(at[n + 1], g)
      <3>1. /\ \A i \in (base+1)..n : i \in 1..N
            /\ n < N => n + 1 \in 1..N
        BY <1>3, <2>1, <2>2
      <3> HIDE DEF at, N
      <3> QED
        BY <2>1, <2>3, <3>1
    <2> HIDE DEF at, N
    <2>5. \A i \in 1..N : Lt(at[i], g) <=> i <= n
      BY <1>6, <2>1, <2>2, <2>4
    <2> QED
      BY <1>2, <2>3, <2>5 DEF LogAtGvt, N, n
  <1>8. SentAtGvt(sentLog, PrunedSent(g), g)
    <2> DEFINE n == PrunedSent(g)
               N == Len(sentLog)
               at == [i \in 1..N |-> sentLog[i].at]
    <2>1. /\ n \in sentBase..N /\ \A i \in (sentBase+1)..n : Lt(sentLog[i].at, g)
          /\ n < N => ~ Lt(sentLog[n + 1].at, g)
      BY <1>3, PrunedSentRange
    <2> HIDE DEF n
    <2>2. /\ N \in Nat /\ sentBase \in 0..N /\ \A i \in 1..N : at[i] \in Stamp
          /\ \A i \in 1..N : Lt(at[i], gvt) <=> i <= sentBase
          /\ \A i \in 1..N : \A j \in 1..(i-1) : Le(at[j], at[i])
      <3>1. \A i \in 1..N : \A j \in 1..(i-1) : j \in 1..N
        BY <1>5
      <3> QED
        BY <1>2, <1>3, <1>5, <3>1 DEF SentAtGvt
    <2>3. \A i \in 1..N : at[i] = sentLog[i].at
      OBVIOUS
    <2>4. /\ \A i \in (sentBase+1)..n : Lt(at[i], g)
          /\ n < N => ~ Lt(at[n + 1], g)
      <3>1. /\ \A i \in (sentBase+1)..n : i \in 1..N
            /\ n < N => n + 1 \in 1..N
        BY <1>3, <2>1, <2>2
      <3> HIDE DEF at, N
      <3> QED
        BY <2>1, <2>3, <3>1
    <2> HIDE DEF at, N
    <2>5. \A i \in 1..N : Lt(at[i], g) <=> i <= n
      BY <1>6, <2>1, <2>2, <2>4
    <2> QED
      BY <1>2, <2>3, <2>5 DEF SentAtGvt, N, n
  <1>9. NotBefore(coming' \cup todo', gvt')
    BY <1>1 DEF NotBefore
  <1> QED
    BY <1>1, <1>2, <1>4, <1>7, <1>8, <1>9 DEF AirportNext

\* Every step.
LEMMA AirportStep ==
    ASSUME AirportProgram, AirportClients, self = AirportLp, AnswersAreNew, AirportInv,
           [Next]_vars
    PROVE  AirportInv'
  <1>1. ContractKept
    <2>1. AirportState(state) /\ \A e \in todo : IsEvent(e) /\ OfPlane(e)
      BY DEF AirportInv, EventInv, AirportTraffic, States
    <2> QED
      BY <2>1, AirportContract DEF ContractKept
  <1>2. EventInv' /\ ReplayInv'
    <2>1. EventInv /\ ReplayInv
      BY DEF AirportInv
    <2>2. EventInv'
      BY <1>1, <2>1, EventStep
    <2>3. ReplayInv'
      BY <1>1, <2>1, ReplayStep
    <2> QED
      BY <2>2, <2>3
  <1>3. self' = self
    BY DEF Next, Kernel, Execute, Defer, Straggler, CancelProcessed, CancelPending,
           Discard, Arrive, Withdraw, AdvanceGvt, lpVars, vars
  <1>4. AirportNext
    <2>1. UNCHANGED vars => AirportNext
      BY DEF AirportInv, AirportTraffic, AirportNext, Backed, SentAtGvt, SentLater,
             TakenBack, States, LogAtGvt, NotBefore, Executed, vars
    <2> QED
      BY <2>1, AirportExecute, AirportBack, AirportOthers, AirportGvt DEF Next, Kernel
  <1>5. AirportTraffic'
    BY <1>3, <1>4 DEF AirportNext, AirportTraffic, Backed, SentAtGvt, SentLater,
                      TakenBack, States, LogAtGvt, NotBefore
  <1> QED
    BY <1>2, <1>5 DEF AirportInv

-----------------------------------------------------------------------------
\* Record i made the message m; the services begun by the first n records, the
\* ends of services among them, and the arrivals.
MadeBy(m, i) == ~ log[i].ev.anti /\ sentLog[m].of = Key(log[i].ev)
Begun(n) == {m \in AP!Services : \E i \in 1..n : MadeBy(m, i)}
Ended(n) == {log[i].ev : i \in {j \in 1..n : ~ log[j].ev.anti /\ log[j].ev.body.kind = "done"}}
Came(n) == {a \in AP!Arrivals : a <= n}

\* What the records and the messages of a settled airport are to each other.
Story ==
    /\ Len(log) \in Nat /\ Len(sentLog) \in Nat
    /\ \A i \in 1..Len(log) : /\ OfPlane(log[i].ev) /\ log[i].ev.ts \in Stamp
                              /\ log[i].pre = Finds(log, i) /\ AirportState(log[i].pre)
    /\ \A i \in 1..Len(log) : \A j \in 1..(i-1) : Le(log[j].ev.ts, log[i].ev.ts)
    /\ \A m \in 1..Len(sentLog) : /\ sentLog[m].at \in Stamp /\ sentLog[m].ev.ts \in Stamp
                                  /\ sentLog[m].at.time < sentLog[m].ev.ts.time
                                  /\ \A j \in 1..(m-1) : Le(sentLog[j].at, sentLog[m].at)
                                  /\ \E i \in 1..Len(log) : MadeBy(m, i)
    /\ \A m \in 1..Len(sentLog) : \A i \in 1..Len(log) :
          MadeBy(m, i) => sentLog[m].at = log[i].ev.ts
    /\ Distinct(log)
    /\ \A i \in 1..Len(log) : ~ log[i].ev.anti =>
          \E n \in 0..Len(sentLog) : InARow(log, i, sentLog, n)
    /\ \A i \in 1..Len(log) : ~ log[i].ev.anti /\ log[i].ev.body.kind = "done" =>
          \E m \in AP!Services : sentLog[m].ev = log[i].ev

\* The records and messages of a settled airport tell its story.
LEMMA AirportStory ==
    ASSUME AirportProgram, self = AirportLp, AirportInv, Settled
    PROVE  Story
  <1>1. /\ IsSequence(log) /\ IsSequence(sentLog) /\ Distinct(log) /\ Stands(log, sentLog)
        /\ Aligned(log, base, sentLog, sentBase)
        /\ \A i \in 1..Len(log) : log[i].ev.ts \in Stamp
        /\ \A m \in 1..Len(sentLog) : sentLog[m].at \in Stamp /\ IsEvent(sentLog[m].ev)
        /\ \A e \in coming \cup todo \cup Executed(log) : IsEvent(e)
    BY DEF AirportInv, EventInv, Logs, IsSent
  <1>2. /\ \A e \in Executed(log) : OfPlane(e)
        /\ LogAtGvt(log, base, gvt) /\ SentAtGvt(sentLog, sentBase, gvt)
        /\ SentLater(sentLog) /\ Backed(todo, log, sentLog) /\ TakenBack(log)
        /\ States(log, state)
    BY DEF AirportInv, AirportTraffic
  <1>3. Len(log) \in Nat /\ Len(sentLog) \in Nat
    BY <1>1, Appended
  <1>4. ASSUME NEW i \in 1..Len(log)
        PROVE  /\ OfPlane(log[i].ev) /\ log[i].ev.ts \in Stamp
               /\ log[i].pre = Finds(log, i) /\ AirportState(log[i].pre)
    <2>1. Alike(log[i].pre, Finds(log, i))
      BY DEF AirportInv, ReplayInv, Replays
    <2>2. log[i].pre = Finds(log, i)
      <3>1. Entities(self) = {StateEntity} /\ \A s : Part(self, s, StateEntity) = s
        BY Zenon DEF AirportProgram
      <3> QED
        BY <2>1, <3>1 DEF Alike
    <2> QED
      BY <1>1, <1>2, <2>2 DEF Executed, States
  <1>5. \A i \in 1..Len(log) : \A j \in 1..(i-1) : Le(log[j].ev.ts, log[i].ev.ts)
    BY <1>2 DEF LogAtGvt
  <1>6. \A m \in 1..Len(sentLog) : /\ sentLog[m].at \in Stamp /\ sentLog[m].ev.ts \in Stamp
                                   /\ sentLog[m].at.time < sentLog[m].ev.ts.time
                                   /\ \A j \in 1..(m-1) : Le(sentLog[j].at, sentLog[m].at)
                                   /\ \E i \in 1..Len(log) : MadeBy(m, i)
    BY <1>1, <1>2 DEF SentAtGvt, SentLater, Stands, MadeBy, IsEvent
  <1>7. \A m \in 1..Len(sentLog) : \A i \in 1..Len(log) :
           MadeBy(m, i) => sentLog[m].at = log[i].ev.ts
    BY <1>1 DEF Aligned, MadeBy
  <1>8. \A i \in 1..Len(log) : ~ log[i].ev.anti =>
           \E n \in 0..Len(sentLog) : InARow(log, i, sentLog, n)
    BY <1>1 DEF Stands
  <1>9. ASSUME NEW i \in 1..Len(log), ~ log[i].ev.anti, log[i].ev.body.kind = "done"
        PROVE  \E m \in AP!Services : sentLog[m].ev = log[i].ev
    <2> DEFINE e == log[i].ev
    <2>1. e \in Plain(Executed(log)) /\ e.src = self /\ IsEvent(e)
      BY <1>1, <1>4, <1>9 DEF Plain, Executed, OfPlane
    <2>2. AntiOf(e) \notin Executed(log)
      BY <1>2, <2>1 DEF TakenBack
    <2>3. AntiOf(e) \notin todo
      BY <2>1, AntiOfEvent DEF Settled
    <2>4. PICK m \in 1..Len(sentLog) : sentLog[m].ev = e
      BY <1>2, <2>1, <2>2, <2>3 DEF Backed, Plain
    <2> QED
      BY <1>9, <2>4 DEF AP!Services
  <1> QED
    BY <1>1, <1>3, <1>4, <1>5, <1>6, <1>7, <1>8, <1>9 DEF Story

\* Which of the events sent end a service.
Ends(u) == {j \in 1..Len(u) : u[j].body.kind = "done"}

\* The runway is busy or nobody waits, the first one is turned away, or its
\* service begins, and its end is sent.
Serves(mid, r) ==
    \/ (mid.busy \/ mid.q = <<>>) /\ r.state = mid /\ Ends(r.sends) = {}
    \/ /\ ~ mid.busy /\ mid.q # <<>> /\ r.state = [mid EXCEPT !.q = Tail(@)]
       /\ Ends(r.sends) = {}
    \/ /\ ~ mid.busy /\ mid.q # <<>> /\ r.state = [mid EXCEPT !.q = Tail(@), !.busy = TRUE]
       /\ \E j \in Nat : Ends(r.sends) = {j} /\ r.sends[j].body.key = Head(mid.q)

\* A handler sends the end of a service exactly when it begins one.
LEMMA ServiceSent ==
    ASSUME NEW s, NEW ev, NEW r, Manages(s, ev, r)
    PROVE  Serves(MidState(s, ev), r)
  <1> DEFINE mid == MidState(s, ev)
             t == ev.ts.time
  <1>1. PICK n, out : /\ Starts(mid, t, n) /\ FliesOn(ev, out)
                      /\ r.state = n.state /\ r.sends = out \o n.sends
    BY DEF Manages
  <1>2. out = <<>> \/ \E x : out = <<x>> /\ x.body.kind = "arrive"
    BY <1>1 DEF FliesOn, AP!PlaneArrive, AP!PlaneEvent
  <1> HIDE DEF mid, t
  <1>3. ASSUME NEW u, u = <<>> \/ \E x : u = <<x>> /\ x.body.kind = "arrive"
        PROVE  /\ Ends(u \o <<>>) = {}
               /\ \A d : d.body.kind = "done" =>
                     \E j \in Nat : Ends(u \o <<d>>) = {j} /\ (u \o <<d>>)[j] = d
    <2>1. CASE u = <<>>
      <3>1. Ends(u \o <<>>) = {}
        <4>1. u \o <<>> = <<>> /\ Len(<<>>) = 0
          BY <2>1
        <4> QED
          BY <4>1 DEF Ends
      <3>2. ASSUME NEW d, d.body.kind = "done"
            PROVE  Ends(u \o <<d>>) = {1} /\ (u \o <<d>>)[1] = d
        <4>1. u \o <<d>> = <<d>> /\ Len(<<d>>) = 1 /\ <<d>>[1] = d
          BY <2>1
        <4> QED
          BY <3>2, <4>1 DEF Ends
      <3> QED
        BY <3>1, <3>2
    <2>2. CASE \E x : u = <<x>> /\ x.body.kind = "arrive"
      <3> PICK x : u = <<x>> /\ x.body.kind = "arrive"
        BY <2>2
      <3>1. Ends(u \o <<>>) = {}
        <4>1. u \o <<>> = <<x>> /\ Len(<<x>>) = 1 /\ <<x>>[1] = x
          OBVIOUS
        <4> QED
          BY <4>1 DEF Ends
      <3>2. ASSUME NEW d, d.body.kind = "done"
            PROVE  Ends(u \o <<d>>) = {2} /\ (u \o <<d>>)[2] = d
        <4> DEFINE a == <<x>>
                   b == <<d>>
                   c == a \o b
        <4>1. /\ IsSequence(a) /\ Len(a) = 1 /\ a[1] = x
              /\ IsSequence(b) /\ Len(b) = 1 /\ b[1] = d
          <5>1. \A y : <<y>> \in Seq({y}) /\ Len(<<y>>) = 1 /\ <<y>>[1] = y
            OBVIOUS
          <5> QED
            BY <5>1, Zenon DEF IsSequence
        <4> HIDE DEF a, b
        <4>2. Len(c) = 2 /\ c[1] = x /\ c[2] = d
          BY ONLY <4>1, Pair
        <4> HIDE DEF c
        <4>3. Ends(c) = {2}
          <5>1. c[1].body.kind = "arrive" /\ c[2].body.kind = "done"
            BY <3>2, <4>2
          <5>2. \A j \in 1..Len(c) : j = 1 \/ j = 2
            BY <4>2
          <5>3. 2 \in 1..Len(c)
            BY <4>2
          <5> QED
            BY <5>1, <5>2, <5>3 DEF Ends
        <4> QED
          BY <4>2, <4>3 DEF a, b, c
      <3> QED
        BY <3>1, <3>2
    <2> QED
      BY <1>3, <2>1, <2>2
  <1>4. CASE Idles(mid, n)
    <2>1. Ends(r.sends) = {}
      BY <1>1, <1>2, <1>3, <1>4 DEF Idles
    <2> QED
      BY <1>1, <1>4, <2>1 DEF Idles, Serves, mid
  <1>5. CASE TurnsAway(mid, n)
    <2>1. Ends(r.sends) = {}
      BY <1>1, <1>2, <1>3, <1>5 DEF TurnsAway
    <2> QED
      BY <1>1, <1>5, <2>1 DEF TurnsAway, Serves, mid
  <1>6. CASE Begins(mid, t, n)
    <2>1. PICK done \in Nat : n.sends = <<AP!ServiceDone(done, Head(mid.q))>>
      BY <1>6 DEF Begins
    <2> DEFINE d == AP!ServiceDone(done, Head(mid.q))
    <2>2. d.body.kind = "done" /\ d.body.key = Head(mid.q)
      BY DEF AP!ServiceDone, AP!PlaneEvent
    <2>3. r.sends = out \o <<d>>
      BY <1>1, <2>1
    <2> HIDE DEF d
    <2>4. \E j \in Nat : Ends(out \o <<d>>) = {j} /\ (out \o <<d>>)[j] = d
      BY <1>2, <1>3, <2>2, Zenon
    <2>5. PICK j \in Nat : Ends(r.sends) = {j} /\ r.sends[j] = d
      BY <2>3, <2>4
    <2> QED
      BY <1>1, <1>6, <2>2, <2>5 DEF Begins, Serves, mid
  <1> QED
    BY <1>1, <1>4, <1>5, <1>6 DEF Starts

\* What record i does: nothing; or what it finds becomes MidState, from which
\* start_next_ changes nothing, turns the first plane away, or begins service m.
Proceeds(i) ==
    LET s   == Finds(log, i)
        t   == Finds(log, i + 1)
        mid == MidState(s, log[i].ev)
    IN  \/ log[i].ev.anti /\ t = s /\ Begun(i) = Begun(i - 1)
        \/ /\ ~ log[i].ev.anti /\ (mid.busy \/ mid.q = <<>>)
           /\ t = mid /\ Begun(i) = Begun(i - 1)
        \/ /\ ~ log[i].ev.anti /\ ~ mid.busy /\ mid.q # <<>>
           /\ t = [mid EXCEPT !.q = Tail(@)] /\ Begun(i) = Begun(i - 1)
        \/ /\ ~ log[i].ev.anti /\ ~ mid.busy /\ mid.q # <<>>
           /\ t = [mid EXCEPT !.q = Tail(@), !.busy = TRUE]
           /\ \E m \in AP!Services : /\ MadeBy(m, i) /\ Begun(i) = Begun(i - 1) \cup {m}
                                     /\ AP!Served(m) = Head(mid.q)

\* Each record of the story takes the airport one step further.
LEMMA AirportProceeds ==
    ASSUME AirportProgram, self = AirportLp, Story, NEW i \in 1..Len(log)
    PROVE  Proceeds(i)
  <1> DEFINE s == Finds(log, i)
             t == Finds(log, i + 1)
             ev == log[i].ev
             mid == MidState(s, ev)
             new == {m \in AP!Services : MadeBy(m, i)}
  <1>1. /\ OfPlane(ev) /\ ev.ts \in Stamp /\ log[i].pre = s /\ AirportState(s)
        /\ i \in Nat /\ Len(log) \in Nat /\ Len(sentLog) \in Nat
    BY DEF Story
  <1>2. t = IF ev.anti THEN s ELSE OnEvent(self, s, ev).state
    <2>1. i + 1 # 1 /\ (i + 1) - 1 = i
      BY <1>1
    <2> QED
      BY <1>1, <2>1 DEF Finds, Leaves
  <1>3. Begun(i) = Begun(i - 1) \cup new
    <2>1. \A j : j \in 1..i <=> j \in 1..(i - 1) \/ j = i
      BY <1>1
    <2> QED
      BY <2>1 DEF Begun
  <1>4. CASE ev.anti
    <2>1. new = {}
      BY <1>4 DEF MadeBy
    <2> QED
      BY <1>2, <1>3, <1>4, <2>1 DEF Proceeds
  <1>5. CASE ~ ev.anti
    <2> DEFINE r == OnEvent(self, s, ev)
               ends == Ends(r.sends)
    <2>1. Manages(s, ev, r)
      BY <1>1, AirportHandler
    <2>2. IsSequence(r.sends)
      BY <1>1, <2>1, AirportSends
    <2>3. SendsOf(log[i]) = r.sends /\ Len(r.sends) \in Nat
      BY <1>1, <2>2, Appended DEF SendsOf
    <2>4. t = r.state
      BY <1>2, <1>5
    <2> HIDE DEF r, s, t
    <2>5. Serves(mid, r)
      BY <2>1, ServiceSent
    <2>6. PICK n \in 0..Len(sentLog) : InARow(log, i, sentLog, n)
      BY <1>5 DEF Story
    <2>7. /\ {m \in 1..Len(sentLog) : sentLog[m].of = Key(ev)} = (n+1)..(n + Len(r.sends))
          /\ \A j \in 1..Len(r.sends) : sentLog[n + j].ev.body = r.sends[j].body
      BY <2>3, <2>6 DEF InARow
    <2> HIDE DEF ends, new, mid
    <2>8. new = {n + j : j \in ends}
      <3>1. \A m : m \in new <=> /\ m \in (n+1)..(n + Len(r.sends))
                                 /\ sentLog[m].ev.body.kind = "done"
        BY <1>5, <2>7 DEF new, AP!Services, MadeBy
      <3>2. ASSUME NEW j \in ends
            PROVE  n + j \in new
        <4>1. j \in 1..Len(r.sends) /\ r.sends[j].body.kind = "done"
          BY DEF ends, Ends
        <4>2. sentLog[n + j].ev.body.kind = "done"
          BY <2>7, <4>1
        <4>3. n + j \in (n+1)..(n + Len(r.sends))
          BY <2>3, <4>1
        <4> QED
          BY <3>1, <4>2, <4>3
      <3>3. ASSUME NEW m \in new
            PROVE  \E j \in ends : m = n + j
        <4>1. m \in (n+1)..(n + Len(r.sends)) /\ sentLog[m].ev.body.kind = "done"
          BY <3>1
        <4> DEFINE j == m - n
        <4>2. j \in 1..Len(r.sends) /\ m = n + j
          BY <2>3, <4>1
        <4> HIDE DEF j
        <4>3. j \in ends
          BY <2>7, <4>1, <4>2 DEF ends, Ends
        <4> QED
          BY <4>2, <4>3
      <3> QED
        BY <3>2, <3>3
    <2>9. ASSUME NEW j \in Nat, ends = {j}, r.sends[j].body.key = Head(mid.q)
          PROVE  \E m \in AP!Services : /\ MadeBy(m, i) /\ new = {m}
                                        /\ AP!Served(m) = Head(mid.q)
      <3>1. new = {n + j} /\ j \in 1..Len(r.sends)
        BY <2>8, <2>9 DEF ends, Ends
      <3>2. n + j \in AP!Services /\ MadeBy(n + j, i)
        BY <3>1 DEF new
      <3>3. AP!Served(n + j) = Head(mid.q)
        BY <2>7, <2>9, <3>1 DEF AP!Served
      <3> QED
        BY <3>1, <3>2, <3>3
    <2>10. ends = {} => new = {}
      BY <2>8
    <2>11. \/ (mid.busy \/ mid.q = <<>>) /\ t = mid /\ Begun(i) = Begun(i - 1)
           \/ /\ ~ mid.busy /\ mid.q # <<>> /\ t = [mid EXCEPT !.q = Tail(@)]
              /\ Begun(i) = Begun(i - 1)
           \/ /\ ~ mid.busy /\ mid.q # <<>> /\ t = [mid EXCEPT !.q = Tail(@), !.busy = TRUE]
              /\ \E m \in AP!Services : /\ MadeBy(m, i) /\ Begun(i) = Begun(i - 1) \cup {m}
                                        /\ AP!Served(m) = Head(mid.q)
      BY <1>3, <2>4, <2>5, <2>9, <2>10 DEF Serves, ends
    <2> QED
      BY <1>5, <2>11 DEF Proceeds, s, t, mid
  <1> QED
    BY <1>4, <1>5

\* Of the services in B, those that have not ended, not in E, are one, and only
\* when the runway is busy.
Runway(s, B, E) ==
    \E ev : \A m \in B : sentLog[m].ev \in E \/ (s.busy /\ sentLog[m].ev = ev)

\* A stamp that is not greater has no later time.
LEMMA LeTimes ==
    ASSUME NEW a \in Stamp, NEW b \in Stamp, Le(a, b)
    PROVE  a.time \in Nat /\ b.time \in Nat /\ a.time <= b.time
  BY StampBounds DEF Le, Lt, Stamp

\* The end of a service finds it on the runway; then all have ended.
LEMMA RunwayFreed ==
    ASSUME AirportProgram, Story, NEW i \in 1..Len(log), ~ log[i].ev.anti,
           Runway(Finds(log, i), Begun(i - 1), Ended(i - 1))
    PROVE  /\ Runway(MidState(Finds(log, i), log[i].ev), Begun(i - 1), Ended(i))
           /\ log[i].ev.body.kind = "done" => Finds(log, i).busy
  <1> DEFINE s == Finds(log, i)
             d == log[i].ev
             B == Begun(i - 1)
  <1>1. /\ OfPlane(d) /\ AirportState(s) /\ i \in Nat /\ Len(log) \in Nat
        /\ \A j \in 1..Len(log) : log[j].ev.ts \in Stamp
    <2>1. /\ OfPlane(d) /\ AirportState(log[i].pre) /\ log[i].pre = s /\ Len(log) \in Nat
          /\ \A j \in 1..Len(log) : log[j].ev.ts \in Stamp
      BY DEF Story
    <2> HIDE DEF s
    <2> QED
      BY <2>1
  <1>2. PICK ev : \A m \in B : sentLog[m].ev \in Ended(i - 1)
                               \/ (s.busy /\ sentLog[m].ev = ev)
    BY DEF Runway
  <1>3. Ended(i - 1) \subseteq Ended(i)
    BY <1>1 DEF Ended
  <1>4. CASE d.body.kind = "arrive"
    <2>1. MidState(s, d).busy = s.busy
      BY <1>1, <1>4, AirportTypes DEF MidState, OfPlane
    <2>2. \A m \in B : sentLog[m].ev \in Ended(i) \/ (MidState(s, d).busy /\ sentLog[m].ev = ev)
      BY <1>2, <1>3, <2>1
    <2> QED
      BY <1>4, <2>2 DEF Runway
  <1>5. CASE d.body.kind = "done"
    <2>1. PICK m \in AP!Services : sentLog[m].ev = d
      BY <1>5 DEF Story
    <2>2. m \in 1..Len(sentLog)
      BY DEF AP!Services
    <2>3. PICK j \in 1..Len(log) : MadeBy(m, j)
      BY <2>2 DEF Story
    <2>4. sentLog[m].at = log[j].ev.ts /\ sentLog[m].at.time < d.ts.time
      BY <2>1, <2>2, <2>3 DEF Story
    <2>5. j < i
      <3> SUFFICES ASSUME ~ (j < i)
                   PROVE  FALSE
        OBVIOUS
      <3>1. j = i \/ i \in 1..(j-1)
        BY <1>1
      <3>2. Le(d.ts, log[j].ev.ts)
        <4>1. d.ts \in Stamp
          BY <1>1
        <4>2. i \in 1..(j-1) => Le(d.ts, log[j].ev.ts)
          BY DEF Story
        <4> QED
          BY <3>1, <4>1, <4>2, LeOrder
      <3>3. d.ts.time <= log[j].ev.ts.time /\ d.ts.time \in Nat /\ log[j].ev.ts.time \in Nat
        BY <1>1, <3>2, LeTimes
      <3> QED
        BY <2>4, <3>3
    <2>6. m \in B
      BY <1>1, <2>3, <2>5 DEF Begun
    <2>7. d \notin Ended(i - 1)
      <3> SUFFICES ASSUME NEW k \in 1..(i-1), ~ log[k].ev.anti, log[k].ev = d
                   PROVE  FALSE
        BY DEF Ended
      <3>1. k \in 1..Len(log) /\ k # i
        BY <1>1
      <3> QED
        BY <3>1 DEF Story, Distinct
    <2>8. s.busy /\ d = ev
      BY <1>2, <2>1, <2>6, <2>7
    <2>9. d \in Ended(i)
      BY <1>1, <1>5 DEF Ended
    <2>10. \A k \in B : sentLog[k].ev \in Ended(i)
      BY <1>2, <1>3, <2>8, <2>9
    <2> QED
      BY <2>8, <2>10 DEF Runway
  <1> QED
    BY <1>1, <1>4, <1>5 DEF OfPlane

\* After every record at most one of the services begun has not ended.
LEMMA RunwayHolds ==
    ASSUME AirportProgram, self = AirportLp, Story
    PROVE  \A n \in 0..Len(log) : Runway(Finds(log, n + 1), Begun(n), Ended(n))
  <1> DEFINE T == {n \in Nat : n <= Len(log) => Runway(Finds(log, n + 1), Begun(n), Ended(n))}
  <1>1. T \in SUBSET Nat /\ Len(log) \in Nat
    BY DEF Story
  <1>2. 0 \in T
    <2>1. Begun(0) = {}
      BY DEF Begun
    <2> QED
      BY <2>1 DEF Runway
  <1>3. ASSUME NEW n \in T
        PROVE  n + 1 \in T
    <2> SUFFICES ASSUME n + 1 <= Len(log)
                 PROVE  Runway(Finds(log, (n + 1) + 1), Begun(n + 1), Ended(n + 1))
      BY <1>1
    <2> DEFINE i == n + 1
               s == Finds(log, i)
               t == Finds(log, i + 1)
               mid == MidState(s, log[i].ev)
    <2>1. n \in Nat /\ i \in 1..Len(log) /\ i - 1 = n /\ Runway(s, Begun(n), Ended(n))
      BY <1>1
    <2> HIDE DEF i
    <2>2. Proceeds(i)
      BY <2>1, AirportProceeds
    <2>3. CASE log[i].ev.anti
      <3>1. t = s /\ Begun(i) = Begun(n)
        BY <2>1, <2>2, <2>3 DEF Proceeds
      <3>2. Ended(n) \subseteq Ended(i)
        BY <2>1 DEF Ended
      <3>3. Runway(t, Begun(i), Ended(i))
        BY <2>1, <3>1, <3>2 DEF Runway
      <3> QED
        BY <3>3 DEF i
    <2>4. CASE ~ log[i].ev.anti
      <3>1. Runway(mid, Begun(n), Ended(i))
        BY <2>1, <2>4, RunwayFreed
      <3>2. AirportState(mid)
        <4>1. OfPlane(log[i].ev) /\ AirportState(s)
          BY <2>1 DEF Story
        <4> QED
          BY <4>1, AirportTypes DEF OfPlane
      <3> HIDE DEF s, t, mid
      <3>3. \/ t = mid /\ Begun(i) = Begun(n)
            \/ t = [mid EXCEPT !.q = Tail(@)] /\ Begun(i) = Begun(n)
            \/ /\ ~ mid.busy /\ t = [mid EXCEPT !.q = Tail(@), !.busy = TRUE]
               /\ \E m : Begun(i) = Begun(n) \cup {m}
        BY <2>1, <2>2, <2>4 DEF Proceeds, s, t, mid
      <3>4. CASE t = mid /\ Begun(i) = Begun(n)
        BY <3>1, <3>4 DEF t, i
      <3>5. CASE t = [mid EXCEPT !.q = Tail(@)] /\ Begun(i) = Begun(n)
        <4>1. t.busy = mid.busy
          BY <3>2, <3>5 DEF AirportState
        <4>2. Runway(t, Begun(i), Ended(i))
          BY <3>1, <3>5, <4>1 DEF Runway
        <4> QED
          BY <4>2 DEF t, i
      <3>6. CASE /\ ~ mid.busy /\ t = [mid EXCEPT !.q = Tail(@), !.busy = TRUE]
                 /\ \E m : Begun(i) = Begun(n) \cup {m}
        <4>1. PICK m : Begun(i) = Begun(n) \cup {m}
          BY <3>6
        <4>2. t.busy
          BY <3>2, <3>6 DEF AirportState
        <4>3. \A k \in Begun(n) : sentLog[k].ev \in Ended(i)
          BY <3>1, <3>6 DEF Runway
        <4>4. \A k \in Begun(i) : sentLog[k].ev \in Ended(i)
                                  \/ (t.busy /\ sentLog[k].ev = sentLog[m].ev)
          BY <4>1, <4>2, <4>3
        <4>5. Runway(t, Begun(i), Ended(i))
          BY <4>4 DEF Runway
        <4> QED
          BY <4>5 DEF t, i
      <3> QED
        BY <3>3, <3>4, <3>5, <3>6
    <2> QED
      BY <2>3, <2>4
  <1> HIDE DEF T
  <1>4. T = Nat
    BY ONLY <1>1, <1>2, <1>3, Counting
  <1> QED
    BY <1>1, <1>4 DEF T

\* No record begins two services; and what a record began had ended when another
\* one, later, began its own.
LEMMA ServicesInOrder ==
    ASSUME AirportProgram, self = AirportLp, Story,
           NEW m \in AP!Services, NEW i \in 1..Len(log), MadeBy(m, i),
           NEW n \in AP!Services, NEW j \in 1..Len(log), MadeBy(n, j)
    PROVE  /\ i = j => m = n
           /\ i < j => m < n /\ sentLog[m].ev.ts.time <= sentLog[n].at.time
  <1>1. /\ m \in 1..Len(sentLog) /\ n \in 1..Len(sentLog) /\ i \in Nat /\ j \in Nat
        /\ Len(log) \in Nat /\ Len(sentLog) \in Nat
    BY DEF AP!Services, Story
  <1>2. ASSUME NEW x \in AP!Services, NEW k \in 1..Len(log), MadeBy(x, k)
        PROVE  /\ x \in Begun(k) /\ x \notin Begun(k - 1)
               /\ \A l \in 1..Len(log) : MadeBy(x, l) => l = k
    <2>1. \A l \in 1..Len(log) : MadeBy(x, l) => l = k
      BY <1>2 DEF Story, Distinct, MadeBy
    <2>2. k \in 1..k /\ \A l \in 1..(k-1) : l \in 1..Len(log) /\ l # k
      BY <1>1
    <2> QED
      BY <1>2, <2>1, <2>2 DEF Begun
  <1>3. CASE i = j
    <2>1. m \in Begun(i) /\ m \notin Begun(i - 1) /\ n \in Begun(i) /\ n \notin Begun(i - 1)
      BY <1>2, <1>3
    <2>2. Proceeds(i)
      BY AirportProceeds
    <2>3. \E x : Begun(i) \subseteq Begun(i - 1) \cup {x}
      BY <2>2 DEF Proceeds
    <2> QED
      BY <1>3, <2>1, <2>3
  <1>4. CASE i < j
    <2> DEFINE mid == MidState(Finds(log, j), log[j].ev)
    <2>1. n \in Begun(j) /\ n \notin Begun(j - 1)
      BY <1>2
    <2>2. Proceeds(j)
      BY AirportProceeds
    <2>3. ~ mid.busy /\ ~ log[j].ev.anti
      BY <2>1, <2>2 DEF Proceeds
    <2>4. Runway(Finds(log, j), Begun(j - 1), Ended(j - 1))
      <3>1. j - 1 \in 0..Len(log) /\ (j - 1) + 1 = j
        BY <1>1
      <3>2. Runway(Finds(log, (j - 1) + 1), Begun(j - 1), Ended(j - 1))
        BY <3>1, RunwayHolds
      <3> QED
        BY <3>1, <3>2
    <2>5. Runway(mid, Begun(j - 1), Ended(j))
      BY <2>3, <2>4, RunwayFreed
    <2>6. m \in Begun(j - 1)
      <3>1. i \in 1..(j-1)
        BY <1>1, <1>4
      <3> QED
        BY <3>1 DEF Begun
    <2> HIDE DEF mid
    <2>7. sentLog[m].ev \in Ended(j)
      BY <2>3, <2>5, <2>6 DEF Runway
    <2>8. PICK k \in 1..j : sentLog[m].ev = log[k].ev
      BY <2>7 DEF Ended
    <2>9. sentLog[m].ev.ts.time <= sentLog[n].at.time
      <3>1. k \in 1..Len(log) /\ (k = j \/ k \in 1..(j-1))
        BY <1>1
      <3>2. log[k].ev.ts \in Stamp /\ log[j].ev.ts \in Stamp
        BY <3>1 DEF Story
      <3>3. k \in 1..(j-1) => Le(log[k].ev.ts, log[j].ev.ts)
        BY DEF Story
      <3>4. Le(log[k].ev.ts, log[j].ev.ts)
        BY <3>1, <3>2, <3>3, LeOrder
      <3>5. sentLog[n].at = log[j].ev.ts
        BY <1>1 DEF Story
      <3> QED
        BY <2>8, <3>2, <3>4, <3>5, LeTimes
    <2>10. m # n
      BY <1>2, <1>4
    <2>11. ~ n < m
      <3> SUFFICES ASSUME n < m
                   PROVE  FALSE
        OBVIOUS
      <3>1. n \in 1..(m-1)
        BY <1>1
      <3>2. /\ sentLog[n].at \in Stamp /\ sentLog[m].at \in Stamp /\ sentLog[m].ev.ts \in Stamp
            /\ sentLog[m].at.time < sentLog[m].ev.ts.time
        BY <1>1 DEF Story
      <3>3. Le(sentLog[n].at, sentLog[m].at)
        BY <1>1, <3>1 DEF Story
      <3>4. /\ sentLog[n].at.time <= sentLog[m].at.time
            /\ sentLog[n].at.time \in Nat /\ sentLog[m].at.time \in Nat
        BY <3>2, <3>3, LeTimes
      <3>5. sentLog[m].ev.ts.time \in Nat
        BY <3>2, StampBounds DEF Stamp
      <3> DEFINE a == sentLog[n].at.time
                 b == sentLog[m].at.time
                 c == sentLog[m].ev.ts.time
      <3>6. a \in Nat /\ b \in Nat /\ c \in Nat /\ a <= b /\ b < c /\ c <= a
        BY <2>9, <3>2, <3>4, <3>5
      <3> HIDE DEF a, b, c
      <3> QED
        BY <3>6
    <2> QED
      BY <1>1, <1>4, <2>9, <2>10, <2>11
  <1> QED
    BY <1>3, <1>4

\* AirportLP keeps its side of the contract, as long as it is sent what an airport
\* can be sent and the answers of the others are new.
THEOREM AirportKeepsContract ==
    ASSUME AirportProgram, AirportClients
    PROVE  Spec /\ [](self = AirportLp /\ AnswersAreNew) => []ContractKept
  <1>1. ASSUME AirportInv, self = AirportLp, AnswersAreNew
        PROVE  ContractKept
    <2>1. AirportState(state) /\ \A e \in todo : IsEvent(e) /\ OfPlane(e)
      BY <1>1 DEF AirportInv, EventInv, AirportTraffic, States
    <2> QED
      BY <1>1, <2>1, AirportContract DEF ContractKept
  <1>2. Init /\ self = AirportLp => AirportInv
    BY AirportInit
  <1>3. AirportInv /\ self = AirportLp /\ AnswersAreNew /\ [Next]_vars => AirportInv'
    BY AirportStep
  <1>4. AirportInv /\ self = AirportLp /\ AnswersAreNew => ContractKept
    BY <1>1
  <1> QED
    BY <1>2, <1>3, <1>4, PTL DEF Spec

\* AirportLP never begins a service before the one before it has ended, though
\* arrivals come late or are taken back, for all airports, planes and draws.
THEOREM AirportServesOne ==
    ASSUME AirportProgram, AirportClients
    PROVE  Spec /\ [](self = AirportLp /\ AnswersAreNew) => []AP!OneServiceAtATime
  <1>1. ASSUME AirportInv, self = AirportLp
        PROVE  AP!OneServiceAtATime
    <2> SUFFICES ASSUME Settled, NEW m \in AP!Services, NEW n \in AP!Services, m < n
                 PROVE  sentLog[m].ev.ts.time <= sentLog[n].at.time
      BY DEF AP!OneServiceAtATime, AP!Settled, Settled
    <2>1. Story
      BY <1>1, AirportStory
    <2>2. /\ m \in 1..Len(sentLog) /\ n \in 1..Len(sentLog) /\ m \in Int /\ n \in Int
      BY <2>1 DEF AP!Services, Story
    <2>3. PICK i \in 1..Len(log) : MadeBy(m, i)
      BY <2>1, <2>2 DEF Story
    <2>4. PICK j \in 1..Len(log) : MadeBy(n, j)
      BY <2>1, <2>2 DEF Story
    <2>5. /\ i = j => m = n
          /\ i < j => m < n /\ sentLog[m].ev.ts.time <= sentLog[n].at.time
      BY <1>1, <2>1, <2>3, <2>4, ServicesInOrder
    <2>6. j < i => n < m
      BY <1>1, <2>1, <2>3, <2>4, ServicesInOrder
    <2>7. i \in Int /\ j \in Int
      BY <2>1 DEF Story
    <2> QED
      BY <2>2, <2>5, <2>6, <2>7
  <1>2. Init /\ self = AirportLp => AirportInv
    BY AirportInit
  <1>3. AirportInv /\ self = AirportLp /\ AnswersAreNew /\ [Next]_vars => AirportInv'
    BY AirportStep
  <1>4. AirportInv /\ self = AirportLp => AP!OneServiceAtATime
    BY <1>1
  <1> QED
    BY <1>2, <1>3, <1>4, PTL DEF Spec

-----------------------------------------------------------------------------
\* The queue q has the keys of arrivals, the set C, in their order; the services
\* in B were begun in that order, too, before those who wait.
InLine(q, B, C) ==
    /\ \A k \in 1..Len(q) : \E a \in C : AP!KeyAt(a) = q[k]
    /\ \A m \in B : \E a \in C : AP!KeyAt(a) = AP!Served(m)
    /\ \A a, b \in C : \A k, l \in 1..Len(q) :
          k < l /\ AP!KeyAt(a) = q[k] /\ AP!KeyAt(b) = q[l] => a < b
    /\ \A a, b \in C : \A m \in B : \A k \in 1..Len(q) :
          AP!KeyAt(a) = AP!Served(m) /\ AP!KeyAt(b) = q[k] => a < b
    /\ \A a, b \in C : \A m, n \in B :
          m < n /\ AP!KeyAt(a) = AP!Served(m) /\ AP!KeyAt(b) = AP!Served(n) => a < b

\* Who was turned away.
Gone(q, B, C) == {a \in C : /\ \A m \in B : AP!Served(m) # AP!KeyAt(a)
                            /\ \A k \in 1..Len(q) : q[k] # AP!KeyAt(a)}

Balanced(s, B, C) ==
    s.arrivals = s.departures + Len(s.q) + (IF s.busy THEN 1 ELSE 0)
                 + Cardinality(Gone(s.q, B, C))

\* A plane comes, i, later than those before; its key is new.
LEMMA LineArrives ==
    ASSUME NEW q \in Seq(PlaneKey), NEW B, NEW C \in SUBSET Nat, InLine(q, B, C),
           NEW i \in Nat, \A a \in C : a < i /\ AP!KeyAt(a) # AP!KeyAt(i),
           AP!KeyAt(i) \in PlaneKey
    PROVE  /\ InLine(Append(q, AP!KeyAt(i)), B, C \cup {i})
           /\ Gone(Append(q, AP!KeyAt(i)), B, C \cup {i}) = Gone(q, B, C)
  <1> DEFINE p == Append(q, AP!KeyAt(i))
             D == C \cup {i}
             n == Len(q)
  <1>1. /\ n \in Nat /\ Len(p) = n + 1 /\ p[n + 1] = AP!KeyAt(i)
        /\ \A k \in 1..n : p[k] = q[k]
    OBVIOUS
  <1>2. \A k : k \in 1..Len(p) <=> k \in 1..n \/ k = n + 1
    BY <1>1
  <1>3. \A k \in 1..n : k < n + 1 /\ ~ n + 1 < k
    BY <1>1
  <1> HIDE DEF p, n
  <1>4. /\ \A k \in 1..n : \E a \in C : AP!KeyAt(a) = q[k]
        /\ \A m \in B : \E a \in C : AP!KeyAt(a) = AP!Served(m)
        /\ \A a, b \in C : \A k, l \in 1..n :
              k < l /\ AP!KeyAt(a) = q[k] /\ AP!KeyAt(b) = q[l] => a < b
        /\ \A a, b \in C : \A m \in B : \A k \in 1..n :
              AP!KeyAt(a) = AP!Served(m) /\ AP!KeyAt(b) = q[k] => a < b
        /\ \A a, b \in C : \A m, l \in B :
              m < l /\ AP!KeyAt(a) = AP!Served(m) /\ AP!KeyAt(b) = AP!Served(l) => a < b
    BY DEF InLine, n
  <1>5. /\ \A k \in 1..n : AP!KeyAt(i) # q[k]
        /\ \A m \in B : AP!KeyAt(i) # AP!Served(m)
        /\ \A a \in C : a < i /\ AP!KeyAt(a) # AP!KeyAt(i) /\ a # i
    BY <1>4
  <1>6. \A k \in 1..Len(p) : \E a \in D : AP!KeyAt(a) = p[k]
    BY <1>1, <1>2, <1>4
  <1>7. \A m \in B : \E a \in D : AP!KeyAt(a) = AP!Served(m)
    BY <1>4
  <1>8. ASSUME NEW a \in D, NEW b \in D, NEW k \in 1..Len(p), NEW l \in 1..Len(p),
               k < l, AP!KeyAt(a) = p[k], AP!KeyAt(b) = p[l]
        PROVE  a < b
    <2>1. k \in 1..n
      BY <1>2, <1>3, <1>8
    <2>2. a \in C
      BY <1>1, <1>5, <1>8, <2>1
    <2>3. CASE l \in 1..n
      BY <1>1, <1>4, <1>5, <1>8, <2>1, <2>2, <2>3
    <2>4. CASE l = n + 1
      BY <1>1, <1>5, <1>8, <2>2, <2>4
    <2> QED
      BY <1>2, <2>3, <2>4
  <1>9. ASSUME NEW a \in D, NEW b \in D, NEW m \in B, NEW k \in 1..Len(p),
               AP!KeyAt(a) = AP!Served(m), AP!KeyAt(b) = p[k]
        PROVE  a < b
    <2>1. a \in C
      BY <1>5, <1>9
    <2>2. CASE k \in 1..n
      BY <1>1, <1>4, <1>5, <1>9, <2>1, <2>2
    <2>3. CASE k = n + 1
      BY <1>1, <1>5, <1>9, <2>1, <2>3
    <2> QED
      BY <1>2, <2>2, <2>3
  <1>10. ASSUME NEW a \in D, NEW b \in D, NEW m \in B, NEW l \in B, m < l,
                AP!KeyAt(a) = AP!Served(m), AP!KeyAt(b) = AP!Served(l)
         PROVE  a < b
    BY <1>4, <1>5, <1>10
  <1>11. InLine(p, B, D)
    BY <1>6, <1>7, <1>8, <1>9, <1>10 DEF InLine
  <1>12. Gone(p, B, D) = Gone(q, B, C)
    <2>1. \A a \in C : (\A k \in 1..Len(p) : p[k] # AP!KeyAt(a))
                       <=> (\A k \in 1..n : q[k] # AP!KeyAt(a))
      BY <1>1, <1>2, <1>5
    <2>2. \E k \in 1..Len(p) : p[k] = AP!KeyAt(i)
      BY <1>1, <1>2
    <2>3. \A a : a \in Gone(p, B, D) <=> a \in Gone(q, B, C)
      BY <2>1, <2>2 DEF Gone, n
    <2> QED
      BY <2>3
  <1> QED
    BY <1>11, <1>12 DEF p

\* The first one leaves the queue and is turned away.
LEMMA LineLeft ==
    ASSUME NEW q \in Seq(PlaneKey), q # <<>>, NEW B, NEW C \in SUBSET Nat, InLine(q, B, C),
           \A a, b \in C : AP!KeyAt(a) = AP!KeyAt(b) => a = b
    PROVE  /\ InLine(Tail(q), B, C)
           /\ \E a : a \notin Gone(q, B, C) /\ Gone(Tail(q), B, C) = Gone(q, B, C) \cup {a}
  <1> DEFINE p == Tail(q)
             n == Len(p)
  <1>1. /\ n \in Nat /\ Len(q) = n + 1 /\ \A k \in 1..n : p[k] = q[k + 1] /\ k + 1 \in 1..Len(q)
    OBVIOUS
  <1>2. /\ 1 \in 1..Len(q) /\ \A k \in 1..n : 1 < k + 1
        /\ \A k \in 1..Len(q) : k = 1 \/ \E l \in 1..n : k = l + 1
    <2>1. ASSUME NEW k \in 1..Len(q), k # 1
          PROVE  \E l \in 1..n : k = l + 1
      <3>1. k - 1 \in 1..n /\ k = (k - 1) + 1
        BY <1>1, <2>1
      <3> QED
        BY <3>1
    <2>2. 1 \in 1..Len(q) /\ \A k \in 1..n : 1 < k + 1
      BY <1>1
    <2> QED
      BY <2>1, <2>2
  <1>3. \A k, l \in 1..n : k < l => k + 1 < l + 1
    BY <1>1
  <1> HIDE DEF p, n
  <1>4. InLine(p, B, C)
    <2>1. \A k \in 1..n : \E a \in C : AP!KeyAt(a) = p[k]
      BY <1>1 DEF InLine
    <2>2. \A a, b \in C : \A k, l \in 1..n :
             k < l /\ AP!KeyAt(a) = p[k] /\ AP!KeyAt(b) = p[l] => a < b
      BY <1>1, <1>3 DEF InLine
    <2>3. \A a, b \in C : \A m \in B : \A k \in 1..n :
             AP!KeyAt(a) = AP!Served(m) /\ AP!KeyAt(b) = p[k] => a < b
      BY <1>1 DEF InLine
    <2>4. /\ \A m \in B : \E a \in C : AP!KeyAt(a) = AP!Served(m)
          /\ \A a, b \in C : \A m, l \in B :
                m < l /\ AP!KeyAt(a) = AP!Served(m) /\ AP!KeyAt(b) = AP!Served(l) => a < b
      BY DEF InLine
    <2> QED
      BY <2>1, <2>2, <2>3, <2>4 DEF InLine, n
  <1>5. PICK a \in C : AP!KeyAt(a) = q[1]
    BY <1>2 DEF InLine
  <1>6. \A m \in B : AP!Served(m) # q[1]
    <2> SUFFICES ASSUME NEW m \in B, AP!Served(m) = q[1]
                 PROVE  FALSE
      OBVIOUS
    <2>1. a < a
      BY <1>2, <1>5 DEF InLine
    <2> QED
      BY <2>1
  <1>7. \A k \in 1..n : p[k] # q[1]
    <2> SUFFICES ASSUME NEW k \in 1..n, p[k] = q[1]
                 PROVE  FALSE
      OBVIOUS
    <2>1. q[k + 1] = q[1] /\ k + 1 \in 1..Len(q) /\ 1 < k + 1
      BY <1>1, <1>2
    <2> DEFINE l == k + 1
    <2> HIDE DEF l
    <2>2. q[l] = q[1] /\ l \in 1..Len(q) /\ 1 < l
      BY <2>1 DEF l
    <2>3. a < a
      BY <1>2, <1>5, <2>2 DEF InLine
    <2> QED
      BY <2>3
  <1>8. a \notin Gone(q, B, C)
    BY <1>2, <1>5 DEF Gone
  <1>9. \A b : b \in Gone(p, B, C) <=> b \in Gone(q, B, C) \cup {a}
    <2>1. a \in Gone(p, B, C)
      BY <1>5, <1>6, <1>7 DEF Gone, n
    <2>2. ASSUME NEW b \in C, b # a
          PROVE  (\A k \in 1..n : p[k] # AP!KeyAt(b))
                 <=> (\A k \in 1..Len(q) : q[k] # AP!KeyAt(b))
      <3>1. q[1] # AP!KeyAt(b)
        BY <1>5, <2>2
      <3>2. ASSUME \A k \in 1..n : p[k] # AP!KeyAt(b), NEW k \in 1..Len(q)
            PROVE  q[k] # AP!KeyAt(b)
        <4>1. CASE k = 1
          BY <3>1, <4>1
        <4>2. ASSUME NEW l \in 1..n, k = l + 1
              PROVE  q[k] # AP!KeyAt(b)
          BY <1>1, <3>2, <4>2
        <4> QED
          BY <1>2, <4>1, <4>2
      <3>3. ASSUME \A k \in 1..Len(q) : q[k] # AP!KeyAt(b), NEW k \in 1..n
            PROVE  p[k] # AP!KeyAt(b)
        <4>1. p[k] = q[k + 1] /\ k + 1 \in 1..Len(q)
          BY <1>1
        <4> QED
          BY <3>3, <4>1
      <3> QED
        BY <3>2, <3>3
    <2> QED
      BY <2>1, <2>2 DEF Gone, n
  <1> QED
    BY <1>4, <1>8, <1>9 DEF p

\* The first one leaves the queue and its service m begins.
LEMMA LineServed ==
    ASSUME NEW q \in Seq(PlaneKey), q # <<>>, NEW B \in SUBSET Nat, NEW C \in SUBSET Nat,
           InLine(q, B, C), \A a, b \in C : AP!KeyAt(a) = AP!KeyAt(b) => a = b,
           NEW m \in Nat, \A k \in B : k < m, AP!Served(m) = Head(q)
    PROVE  /\ InLine(Tail(q), B \cup {m}, C)
           /\ Gone(Tail(q), B \cup {m}, C) = Gone(q, B, C)
  <1> DEFINE p == Tail(q)
             n == Len(p)
             D == B \cup {m}
  <1>1. InLine(p, B, C)
    BY LineLeft
  <1>2. /\ n \in Nat /\ Len(q) = n + 1 /\ \A k \in 1..n : p[k] = q[k + 1] /\ k + 1 \in 1..Len(q)
    OBVIOUS
  <1>3. /\ 1 \in 1..Len(q) /\ \A k \in 1..n : 1 < k + 1
        /\ \A k \in 1..Len(q) : k = 1 \/ \E l \in 1..n : k = l + 1
        /\ AP!Served(m) = q[1]
    <2>1. ASSUME NEW k \in 1..Len(q), k # 1
          PROVE  \E l \in 1..n : k = l + 1
      <3>1. k - 1 \in 1..n /\ k = (k - 1) + 1
        BY <1>2, <2>1
      <3> QED
        BY <3>1
    <2>2. 1 \in 1..Len(q) /\ \A k \in 1..n : 1 < k + 1
      BY <1>2
    <2> QED
      BY <2>1, <2>2
  <1>4. \A k \in B : k < m /\ ~ m < k /\ k # m
    OBVIOUS
  <1> HIDE DEF p, n
  <1>5. /\ \A k \in 1..n : \E a \in C : AP!KeyAt(a) = p[k]
        /\ \A k \in B : \E a \in C : AP!KeyAt(a) = AP!Served(k)
        /\ \A a, b \in C : \A k, l \in 1..n :
              k < l /\ AP!KeyAt(a) = p[k] /\ AP!KeyAt(b) = p[l] => a < b
        /\ \A a, b \in C : \A l \in B : \A k \in 1..n :
              AP!KeyAt(a) = AP!Served(l) /\ AP!KeyAt(b) = p[k] => a < b
        /\ \A a, b \in C : \A k, l \in B :
              k < l /\ AP!KeyAt(a) = AP!Served(k) /\ AP!KeyAt(b) = AP!Served(l) => a < b
    BY <1>1 DEF InLine, n
  <1>6. \A k \in D : \E a \in C : AP!KeyAt(a) = AP!Served(k)
    BY <1>3, <1>5 DEF InLine
  <1>7. ASSUME NEW a \in C, NEW b \in C, NEW l \in D, NEW k \in 1..n,
               AP!KeyAt(a) = AP!Served(l), AP!KeyAt(b) = p[k]
        PROVE  a < b
    <2>1. CASE l \in B
      BY <1>5, <1>7, <2>1
    <2>2. CASE l = m
      <3> DEFINE j == k + 1
      <3> HIDE DEF j
      <3>1. j \in 1..Len(q) /\ 1 < j /\ AP!KeyAt(b) = q[j] /\ AP!KeyAt(a) = q[1]
        BY <1>2, <1>3, <1>7, <2>2 DEF j
      <3> QED
        BY <1>3, <3>1 DEF InLine
    <2> QED
      BY <2>1, <2>2
  <1>8. ASSUME NEW a \in C, NEW b \in C, NEW k \in D, NEW l \in D, k < l,
               AP!KeyAt(a) = AP!Served(k), AP!KeyAt(b) = AP!Served(l)
        PROVE  a < b
    <2>1. k \in B
      BY <1>4, <1>8
    <2>2. CASE l \in B
      BY <1>5, <1>8, <2>1, <2>2
    <2>3. CASE l = m
      BY <1>3, <1>8, <2>1, <2>3 DEF InLine
    <2> QED
      BY <2>2, <2>3
  <1>9. InLine(p, D, C)
    BY <1>5, <1>6, <1>7, <1>8 DEF InLine, n
  <1>10. \A b : b \in Gone(p, D, C) <=> b \in Gone(q, B, C)
    <2>1. ASSUME NEW b \in C
          PROVE  (AP!Served(m) # AP!KeyAt(b) /\ \A k \in 1..n : p[k] # AP!KeyAt(b))
                 <=> (\A k \in 1..Len(q) : q[k] # AP!KeyAt(b))
      <3>1. ASSUME AP!Served(m) # AP!KeyAt(b), \A k \in 1..n : p[k] # AP!KeyAt(b),
                   NEW k \in 1..Len(q)
            PROVE  q[k] # AP!KeyAt(b)
        <4>1. CASE k = 1
          BY <1>3, <3>1, <4>1
        <4>2. ASSUME NEW l \in 1..n, k = l + 1
              PROVE  q[k] # AP!KeyAt(b)
          BY <1>2, <3>1, <4>2
        <4> QED
          BY <1>3, <4>1, <4>2
      <3>2. ASSUME \A k \in 1..Len(q) : q[k] # AP!KeyAt(b)
            PROVE  /\ AP!Served(m) # AP!KeyAt(b)
                   /\ \A k \in 1..n : p[k] # AP!KeyAt(b)
        <4>1. AP!Served(m) # AP!KeyAt(b)
          BY <1>3, <3>2
        <4>2. ASSUME NEW k \in 1..n
              PROVE  p[k] # AP!KeyAt(b)
          <5>1. p[k] = q[k + 1] /\ k + 1 \in 1..Len(q)
            BY <1>2
          <5> QED
            BY <3>2, <5>1
        <4> QED
          BY <4>1, <4>2
      <3> QED
        BY <3>1, <3>2
    <2> QED
      BY <2>1 DEF Gone, n
  <1> QED
    BY <1>9, <1>10 DEF p

Line(s, B, C) == InLine(s.q, B, C) /\ Balanced(s, B, C)

\* The first one is turned away, or its service m begins.
LEMMA LineStarts ==
    ASSUME NEW s, AirportState(s), ~ s.busy, s.q # <<>>,
           NEW B \in SUBSET Nat, NEW C \in SUBSET Nat, IsFiniteSet(C), Line(s, B, C),
           \A a, b \in C : AP!KeyAt(a) = AP!KeyAt(b) => a = b
    PROVE  /\ Line([s EXCEPT !.q = Tail(@)], B, C)
           /\ \A m \in Nat : (\A k \in B : k < m) /\ AP!Served(m) = Head(s.q) =>
                 Line([s EXCEPT !.q = Tail(@), !.busy = TRUE], B \cup {m}, C)
  <1> DEFINE q == s.q
             n == Len(Tail(q))
             a == s.arrivals
             d == s.departures
             G == Gone(q, B, C)
             c == Cardinality(G)
  <1>1. q \in Seq(PlaneKey) /\ q # <<>> /\ a \in Nat /\ d \in Nat
    BY DEF AirportState
  <1>2. n \in Nat /\ Len(q) = n + 1
    BY <1>1
  <1>3. IsFiniteSet(G) /\ c \in Nat
    <2>1. G \in SUBSET C
      BY DEF Gone
    <2> HIDE DEF G
    <2>2. IsFiniteSet(G)
      BY <2>1, FS_Subset
    <2> QED
      BY <2>2, FS_CardinalityType
  <1>4. a = d + (n + 1) + c
    BY <1>1, <1>2, <1>3 DEF Line, Balanced
  <1>5. InLine(q, B, C)
    BY DEF Line
  <1> HIDE DEF q, n, a, d, c
  <1>6. Line([s EXCEPT !.q = Tail(@)], B, C)
    <2> DEFINE t == [s EXCEPT !.q = Tail(@)]
               H == Gone(Tail(q), B, C)
    <2>1. t.q = Tail(q) /\ ~ t.busy /\ t.arrivals = a /\ t.departures = d
      BY DEF AirportState, q, a, d
    <2>2. InLine(Tail(q), B, C) /\ \E x : x \notin G /\ H = G \cup {x}
      <3> HIDE DEF t
      <3> QED
        BY <1>1, <1>5, LineLeft
    <2> HIDE DEF t, G, H
    <2>3. PICK x : x \notin G /\ H = G \cup {x}
      BY <2>2
    <2>4. Cardinality(H) = c + 1
      BY <1>3, <2>3, FS_AddElement DEF c
    <2>5. a = d + n + 0 + Cardinality(H)
      BY <1>1, <1>2, <1>3, <1>4, <2>4
    <2>6. Balanced(t, B, C)
      BY <2>1, <2>5 DEF Balanced, n, H
    <2> QED
      BY <2>1, <2>2, <2>6 DEF Line, t
  <1>7. ASSUME NEW m \in Nat, \A k \in B : k < m, AP!Served(m) = Head(s.q)
        PROVE  Line([s EXCEPT !.q = Tail(@), !.busy = TRUE], B \cup {m}, C)
    <2> DEFINE t == [s EXCEPT !.q = Tail(@), !.busy = TRUE]
               D == B \cup {m}
               H == Gone(Tail(q), D, C)
    <2>1. t.q = Tail(q) /\ t.busy /\ t.arrivals = a /\ t.departures = d
      BY DEF AirportState, q, a, d
    <2>2. InLine(Tail(q), D, C) /\ H = G
      <3> HIDE DEF t
      <3>1. AP!Served(m) = Head(q)
        BY <1>7 DEF q
      <3> QED
        BY <1>1, <1>5, <1>7, <3>1, LineServed
    <2> HIDE DEF t, G, H, D
    <2>3. a = d + n + 1 + Cardinality(H)
      BY <1>1, <1>2, <1>3, <1>4, <2>2 DEF c
    <2>4. Balanced(t, D, C)
      BY <2>1, <2>3 DEF Balanced, n, H
    <2> QED
      BY <2>1, <2>2, <2>4 DEF Line, t, D
  <1> QED
    BY <1>6, <1>7

\* A plane lines up, or the one that was served leaves.
LEMMA LineMid ==
    ASSUME AirportProgram, self = AirportLp, Story,
           \A a, b \in AP!Arrivals : AP!KeyAt(a) = AP!KeyAt(b) => a = b,
           NEW i \in 1..Len(log), ~ log[i].ev.anti,
           Line(Finds(log, i), Begun(i - 1), Came(i - 1))
    PROVE  Line(MidState(Finds(log, i), log[i].ev), Begun(i - 1), Came(i))
  <1> DEFINE s == Finds(log, i)
             ev == log[i].ev
             key == ev.body.key
             t == MidState(s, ev)
             B == Begun(i - 1)
             C == Came(i - 1)
             D == Came(i)
             a == s.arrivals
             d == s.departures
             n == Len(s.q)
             c == Cardinality(Gone(s.q, B, C))
  <1>1. /\ OfPlane(ev) /\ AirportState(s) /\ i \in Nat /\ Len(log) \in Nat
        /\ key \in PlaneKey
    BY DEF Story, OfPlane
  <1>2. C \in SUBSET Nat /\ IsFiniteSet(C)
    <2>1. C \in SUBSET (1..Len(log))
      BY DEF Came, AP!Arrivals, AP!Standing
    <2> HIDE DEF C
    <2>2. IsFiniteSet(1..Len(log))
      <3>1. 1 \in Int /\ Len(log) \in Int
        BY <1>1
      <3> QED
        BY ONLY <3>1, FS_Interval
    <2>3. IsFiniteSet(C)
      BY ONLY <2>1, <2>2, FS_Subset
    <2> QED
      BY <1>1, <2>1, <2>3
  <1>3. c \in Nat
    <2> DEFINE G == Gone(s.q, B, C)
    <2>1. G \in SUBSET C
      BY DEF Gone
    <2> HIDE DEF G, C
    <2>2. IsFiniteSet(G)
      BY <1>2, <2>1, FS_Subset
    <2> QED
      BY <2>2, FS_CardinalityType DEF G
  <1>4. InLine(s.q, B, C) /\ a = d + n + (IF s.busy THEN 1 ELSE 0) + c
    BY DEF Line, Balanced
  <1>5. a \in Nat /\ d \in Nat /\ n \in Nat /\ s.q \in Seq(PlaneKey)
    BY <1>1 DEF AirportState
  <1>6. CASE ev.body.kind = "arrive"
    <2>1. /\ t.q = Append(s.q, key) /\ t.busy = s.busy /\ t.arrivals = a + 1
          /\ t.departures = d
      BY <1>1, <1>6, AirportTypes DEF MidState
    <2>2. D = C \cup {i} /\ i \in AP!Arrivals
      <3>1. i \in AP!Arrivals
        BY <1>6 DEF AP!Arrivals, AP!Standing
      <3>2. \A x \in AP!Arrivals : x \in Nat
        BY DEF AP!Arrivals, AP!Standing
      <3>3. \A x \in Nat : x <= i <=> x <= i - 1 \/ x = i
        BY <1>1
      <3> QED
        BY <1>1, <3>1, <3>2, <3>3 DEF Came
    <2>3. \A x \in C : x < i /\ AP!KeyAt(x) # AP!KeyAt(i)
      <3>1. \A x \in C : x \in AP!Arrivals /\ x \in Nat /\ x <= i - 1
        BY <1>2 DEF Came
      <3>2. \A x \in C : x < i /\ x # i
        BY <1>1, <3>1
      <3> QED
        BY <2>2, <3>1, <3>2
    <2>4. AP!KeyAt(i) = key
      BY DEF AP!KeyAt
    <2> HIDE DEF s, t, B, C, D, key
    <2>5. /\ InLine(Append(s.q, key), B, D)
          /\ Gone(Append(s.q, key), B, D) = Gone(s.q, B, C)
      BY <1>1, <1>2, <1>4, <1>5, <2>2, <2>3, <2>4, LineArrives
    <2>6. Len(t.q) = n + 1
      BY <1>5, <2>1
    <2> HIDE DEF a, d, n, c
    <2>7. a + 1 = d + (n + 1) + (IF s.busy THEN 1 ELSE 0) + c
      BY <1>3, <1>4, <1>5
    <2>8. Balanced(t, B, D)
      BY <2>1, <2>5, <2>6, <2>7 DEF Balanced, c
    <2> QED
      BY <2>1, <2>5, <2>8 DEF Line, s, t, B, D
  <1>7. CASE ev.body.kind = "done"
    <2>1. /\ t.q = s.q /\ ~ t.busy /\ t.arrivals = a /\ t.departures = d + 1
      <3>1. t = Freed(s)
        BY <1>7 DEF MidState
      <3> QED
        BY <1>1, <3>1, AirportTypes
    <2>2. D = C
      <3>1. i \notin AP!Arrivals
        BY <1>7 DEF AP!Arrivals, AP!Standing
      <3>2. \A x \in AP!Arrivals : x \in Nat
        BY DEF AP!Arrivals, AP!Standing
      <3>3. \A x \in Nat : x <= i <=> x <= i - 1 \/ x = i
        BY <1>1
      <3> QED
        BY <1>1, <3>1, <3>2, <3>3 DEF Came
    <2>3. s.busy
      <3>1. i - 1 \in 0..Len(log) /\ (i - 1) + 1 = i
        BY <1>1
      <3>2. Runway(Finds(log, (i - 1) + 1), Begun(i - 1), Ended(i - 1))
        BY <3>1, RunwayHolds
      <3>3. Runway(Finds(log, i), Begun(i - 1), Ended(i - 1))
        BY <3>1, <3>2
      <3> QED
        BY <1>7, <3>3, RunwayFreed
    <2> HIDE DEF s, t, B, C, D, a, d, n, c
    <2>4. a = (d + 1) + n + 0 + c
      BY <1>3, <1>4, <1>5, <2>3
    <2>5. Balanced(t, B, D)
      BY <2>1, <2>2, <2>4 DEF Balanced, c, n
    <2> QED
      BY <1>4, <2>1, <2>2, <2>5 DEF Line, s, t, B, D
  <1> QED
    BY <1>1, <1>6, <1>7 DEF OfPlane

\* After every record the queue, the services and the counters agree.
LEMMA LineHolds ==
    ASSUME AirportProgram, self = AirportLp, Story,
           \A a, b \in AP!Arrivals : AP!KeyAt(a) = AP!KeyAt(b) => a = b
    PROVE  \A n \in 0..Len(log) : Line(Finds(log, n + 1), Begun(n), Came(n))
  <1> DEFINE T == {n \in Nat : n <= Len(log) => Line(Finds(log, n + 1), Begun(n), Came(n))}
  <1>1. T \in SUBSET Nat /\ Len(log) \in Nat
    BY DEF Story
  <1>2. 0 \in T
    <2> DEFINE s == AP!NewAirport
    <2>1. Begun(0) = {} /\ Came(0) = {}
      BY DEF Begun, Came, AP!Arrivals, AP!Standing
    <2>2. Finds(log, 0 + 1) = s
      <3>1. Finds(log, 1) = InitState(AirportLp)
        BY DEF Finds
      <3>2. InitState(AirportLp) = s
        BY Zenon DEF AirportProgram
      <3> QED
        BY <3>1, <3>2
    <2>3. s.q = <<>> /\ Len(s.q) = 0 /\ ~ s.busy /\ s.arrivals = 0 /\ s.departures = 0
      BY DEF AP!NewAirport
    <2> HIDE DEF s
    <2>4. Gone(s.q, {}, {}) = {}
      BY DEF Gone
    <2>5. Cardinality(Gone(s.q, {}, {})) = 0
      BY <2>4, FS_EmptySet
    <2>6. InLine(s.q, {}, {}) /\ Balanced(s, {}, {})
      BY <2>3, <2>5 DEF InLine, Balanced
    <2> QED
      BY <2>1, <2>2, <2>6 DEF Line
  <1>3. ASSUME NEW n \in T
        PROVE  n + 1 \in T
    <2> SUFFICES ASSUME n + 1 <= Len(log)
                 PROVE  Line(Finds(log, (n + 1) + 1), Begun(n + 1), Came(n + 1))
      BY <1>1
    <2> DEFINE i == n + 1
               s == Finds(log, i)
               t == Finds(log, i + 1)
               mid == MidState(s, log[i].ev)
    <2>1. /\ n \in Nat /\ i \in 1..Len(log) /\ i \in Nat /\ i - 1 = n
          /\ Line(s, Begun(n), Came(n))
      BY <1>1
    <2> HIDE DEF i
    <2>2. Proceeds(i)
      BY <2>1, AirportProceeds
    <2>3. CASE log[i].ev.anti
      <3>1. t = s /\ Begun(i) = Begun(n)
        BY <2>1, <2>2, <2>3 DEF Proceeds
      <3>2. Came(i) = Came(n)
        <4>1. i \notin AP!Arrivals
          BY <2>3 DEF AP!Arrivals, AP!Standing
        <4>2. \A x \in AP!Arrivals : x \in Nat
          BY DEF AP!Arrivals, AP!Standing
        <4>3. \A x \in Nat : x <= i <=> x <= n \/ x = i
          BY <2>1
        <4> QED
          BY <4>1, <4>2, <4>3 DEF Came
      <3> QED
        BY <2>1, <3>1, <3>2 DEF i
    <2>4. CASE ~ log[i].ev.anti
      <3> DEFINE B == Begun(n)
                 C == Came(i)
      <3>1. Line(mid, B, C)
        BY <2>1, <2>4, LineMid
      <3>2. AirportState(mid)
        <4>1. OfPlane(log[i].ev) /\ AirportState(s)
          BY <2>1 DEF Story
        <4> QED
          BY <4>1, AirportTypes DEF OfPlane
      <3>3. /\ B \in SUBSET Nat /\ C \in SUBSET Nat /\ IsFiniteSet(C)
            /\ \A a, b \in C : AP!KeyAt(a) = AP!KeyAt(b) => a = b
        <4>1. C \in SUBSET (1..Len(log)) /\ B \in SUBSET Nat /\ C \in SUBSET AP!Arrivals
          BY DEF Came, Begun, AP!Arrivals, AP!Standing, AP!Services
        <4> HIDE DEF B, C
        <4>2. IsFiniteSet(1..Len(log))
          <5>1. 1 \in Int /\ Len(log) \in Int
            BY <1>1
          <5> QED
            BY ONLY <5>1, FS_Interval
        <4>3. IsFiniteSet(C)
          BY ONLY <4>1, <4>2, FS_Subset
        <4> QED
          BY <4>1, <4>3
      <3>4. ASSUME NEW m \in AP!Services, MadeBy(m, i)
            PROVE  m \in Nat /\ \A k \in B : k < m
        <4>1. ASSUME NEW k \in B
              PROVE  k < m
          <5>1. PICK j \in 1..n : MadeBy(k, j)
            BY DEF Begun
          <5>2. k \in AP!Services
            BY DEF Begun
          <5>3. j \in 1..Len(log) /\ j < i
            BY <1>1, <2>1, <5>1
          <5> QED
            BY <2>1, <3>4, <5>1, <5>2, <5>3, ServicesInOrder
        <4>2. m \in Nat
          BY DEF AP!Services
        <4> QED
          BY <4>1, <4>2
      <3> HIDE DEF s, t, mid, B, C
      <3>5. \/ t = mid /\ Begun(i) = B
            \/ /\ ~ mid.busy /\ mid.q # <<>> /\ t = [mid EXCEPT !.q = Tail(@)]
               /\ Begun(i) = B
            \/ /\ ~ mid.busy /\ mid.q # <<>> /\ t = [mid EXCEPT !.q = Tail(@), !.busy = TRUE]
               /\ \E m \in AP!Services : /\ MadeBy(m, i) /\ Begun(i) = B \cup {m}
                                         /\ AP!Served(m) = Head(mid.q)
        BY <2>1, <2>2, <2>4 DEF Proceeds, s, t, mid, B
      <3>6. Line(t, Begun(i), C)
        <4>1. CASE t = mid /\ Begun(i) = B
          BY <3>1, <4>1
        <4>2. CASE /\ ~ mid.busy /\ mid.q # <<>> /\ t = [mid EXCEPT !.q = Tail(@)]
                   /\ Begun(i) = B
          <5>1. ~ mid.busy /\ mid.q # <<>>
            BY <4>2
          <5>2. Line([mid EXCEPT !.q = Tail(@)], B, C)
            BY ONLY <3>1, <3>2, <3>3, <5>1, LineStarts, Zenon
          <5> QED
            BY <4>2, <5>2
        <4>3. CASE /\ ~ mid.busy /\ mid.q # <<>>
                   /\ t = [mid EXCEPT !.q = Tail(@), !.busy = TRUE]
                   /\ \E m \in AP!Services : /\ MadeBy(m, i) /\ Begun(i) = B \cup {m}
                                             /\ AP!Served(m) = Head(mid.q)
          <5>1. ~ mid.busy /\ mid.q # <<>>
            BY <4>3
          <5>2. PICK m \in AP!Services : /\ MadeBy(m, i) /\ Begun(i) = B \cup {m}
                                         /\ AP!Served(m) = Head(mid.q)
            BY <4>3
          <5>3. m \in Nat /\ (\A k \in B : k < m) /\ AP!Served(m) = Head(mid.q)
            BY <3>4, <5>2
          <5>4. Line([mid EXCEPT !.q = Tail(@), !.busy = TRUE], B \cup {m}, C)
            BY ONLY <3>1, <3>2, <3>3, <5>1, <5>3, LineStarts, Zenon
          <5> QED
            BY <4>3, <5>2, <5>4
        <4> QED
          BY <3>5, <4>1, <4>2, <4>3
      <3> QED
        BY <3>6 DEF t, C, i
    <2> QED
      BY <2>3, <2>4
  <1> HIDE DEF T
  <1>4. T = Nat
    BY ONLY <1>1, <1>2, <1>3, Counting
  <1> QED
    BY <1>1, <1>4 DEF T

\* A plane comes to an airport once on each leg, and no two at the same stamp.
ArrivalsDiffer ==
    Settled => \A a, b \in AP!Arrivals :
        a # b => AP!KeyAt(a) # AP!KeyAt(b) /\ log[a].ev.ts # log[b].ev.ts

\* At the end of the log, the line is that of the state, of all the services and
\* of all the arrivals.
LEMMA AirportLine ==
    ASSUME AirportProgram, self = AirportLp, AirportInv, ArrivalsDiffer, Settled
    PROVE  Story /\ Line(state, AP!Services, AP!Arrivals)
  <1>1. Story
    BY AirportStory
  <1>2. \A a, b \in AP!Arrivals : AP!KeyAt(a) = AP!KeyAt(b) => a = b
    BY DEF ArrivalsDiffer
  <1>3. Len(log) \in Nat
    BY <1>1 DEF Story
  <1>4. Line(Finds(log, Len(log) + 1), Begun(Len(log)), Came(Len(log)))
    <2>1. Len(log) \in 0..Len(log)
      BY <1>3
    <2> QED
      BY <1>1, <1>2, <2>1, LineHolds
  <1>5. state = Finds(log, Len(log) + 1)
    <2>1. Alike(state, Finds(log, Len(log) + 1))
      BY DEF AirportInv, ReplayInv, Replays
    <2>2. Entities(self) = {StateEntity} /\ \A s : Part(self, s, StateEntity) = s
      BY Zenon DEF AirportProgram
    <2> QED
      BY <2>1, <2>2 DEF Alike
  <1>6. Begun(Len(log)) = AP!Services
    <2>1. \A m \in AP!Services : \E i \in 1..Len(log) : MadeBy(m, i)
      BY <1>1 DEF Story, AP!Services
    <2> QED
      BY <2>1 DEF Begun
  <1>7. Came(Len(log)) = AP!Arrivals
    BY <1>3 DEF Came, AP!Arrivals, AP!Standing
  <1> QED
    BY <1>1, <1>4, <1>5, <1>6, <1>7

\* AirportLP serves the planes in the order in which they came, each once, though
\* arrivals come late or are taken back: for all airports, planes and draws.
THEOREM AirportServesInOrder ==
    ASSUME AirportProgram, AirportClients
    PROVE  Spec /\ [](self = AirportLp /\ AnswersAreNew /\ ArrivalsDiffer)
              => []AP!FirstComeFirstServed
  <1>1. ASSUME AirportInv, self = AirportLp, ArrivalsDiffer
        PROVE  AP!FirstComeFirstServed
    <2> SUFFICES ASSUME Settled
                 PROVE  /\ \A m \in AP!Services : \E a \in AP!Arrivals : AP!KeyAt(a) = AP!Served(m)
                        /\ \A m, n \in AP!Services : \A a, b \in AP!Arrivals :
                              m < n /\ AP!KeyAt(a) = AP!Served(m) /\ AP!KeyAt(b) = AP!Served(n)
                              => Lt(log[a].ev.ts, log[b].ev.ts)
      BY DEF AP!FirstComeFirstServed, AP!Settled, Settled, AP!Lt, Lt
    <2>1. Story /\ InLine(state.q, AP!Services, AP!Arrivals)
      BY <1>1, AirportLine DEF Line
    <2>2. /\ \A m \in AP!Services : \E a \in AP!Arrivals : AP!KeyAt(a) = AP!Served(m)
          /\ \A a, b \in AP!Arrivals : \A m, n \in AP!Services :
                m < n /\ AP!KeyAt(a) = AP!Served(m) /\ AP!KeyAt(b) = AP!Served(n) => a < b
      BY <2>1 DEF InLine
    <2>3. ASSUME NEW a \in AP!Arrivals, NEW b \in AP!Arrivals, a < b
          PROVE  Lt(log[a].ev.ts, log[b].ev.ts)
      <3>1. /\ a \in 1..Len(log) /\ b \in 1..Len(log) /\ a \in 1..(b-1) /\ a # b
            /\ Len(log) \in Nat
        BY <2>1, <2>3 DEF AP!Arrivals, AP!Standing, Story
      <3>2. Le(log[a].ev.ts, log[b].ev.ts)
        BY <2>1, <3>1 DEF Story
      <3>3. log[a].ev.ts # log[b].ev.ts
        BY <1>1, <3>1 DEF ArrivalsDiffer
      <3>4. log[a].ev.ts \in Stamp /\ log[b].ev.ts \in Stamp
        BY <2>1, <3>1 DEF Story
      <3> QED
        BY <3>2, <3>3, <3>4, StampOrder DEF Le
    <2> QED
      BY <2>2, <2>3
  <1>2. Init /\ self = AirportLp => AirportInv
    BY AirportInit
  <1>3. AirportInv /\ self = AirportLp /\ AnswersAreNew /\ [Next]_vars => AirportInv'
    BY AirportStep
  <1>4. AirportInv /\ self = AirportLp /\ ArrivalsDiffer => AP!FirstComeFirstServed
    BY <1>1
  <1> QED
    BY <1>2, <1>3, <1>4, PTL DEF Spec

\* The counters of AirportLP say what became of every plane that came, though
\* arrivals come late or are taken back: for all airports, planes and draws.
THEOREM AirportCounts ==
    ASSUME AirportProgram, AirportClients
    PROVE  Spec /\ [](self = AirportLp /\ AnswersAreNew /\ ArrivalsDiffer)
              => []AP!CountersBalance
  <1>1. ASSUME AirportInv, self = AirportLp, ArrivalsDiffer
        PROVE  AP!CountersBalance
    <2> SUFFICES ASSUME Settled
                 PROVE  state.arrivals = state.departures + Len(state.q)
                           + (IF state.busy THEN 1 ELSE 0)
                           + Cardinality(Gone(state.q, AP!Services, AP!Arrivals))
      <3> DEFINE G == {a \in AP!Arrivals :
                         /\ \A m \in AP!Services : AP!Served(m) # AP!KeyAt(a)
                         /\ \A i \in 1..Len(state.q) : state.q[i] # AP!KeyAt(a)}
      <3>1. AP!CountersBalance =
               (AP!Settled => state.arrivals = state.departures + Len(state.q)
                              + (IF state.busy THEN 1 ELSE 0) + AP!Cardinality(G))
        BY DEF AP!CountersBalance
      <3>2. G = Gone(state.q, AP!Services, AP!Arrivals)
        BY Zenon DEF Gone
      <3>3. AP!Settled = Settled
        BY DEF AP!Settled, Settled
      <3> HIDE DEF G
      <3>4. AP!Cardinality(G) = Cardinality(G)
        BY Zenon DEF AP!Cardinality, Cardinality
      <3> QED
        BY <3>1, <3>2, <3>3, <3>4
    <2>1. Balanced(state, AP!Services, AP!Arrivals)
      BY <1>1, AirportLine DEF Line
    <2> QED
      BY <2>1 DEF Balanced
  <1>2. Init /\ self = AirportLp => AirportInv
    BY AirportInit
  <1>3. AirportInv /\ self = AirportLp /\ AnswersAreNew /\ [Next]_vars => AirportInv'
    BY AirportStep
  <1>4. AirportInv /\ self = AirportLp /\ ArrivalsDiffer => AP!CountersBalance
    BY <1>1
  <1> QED
    BY <1>2, <1>3, <1>4, PTL DEF Spec

-----------------------------------------------------------------------------
\* TraderLP: its contract with the kernel.
CONSTANTS TraderLp, ExchangeLp, Book, Audit, FirstCash, CashModulus     \* of Market

MK == INSTANCE Market

\* The LP TraderLp is the traders' LP: each trader is an entity, with an account.
TraderProgram ==
    /\ InitState(TraderLp) = [t \in Entities(TraderLp) |-> MK!NewTrader]
    /\ \A s, ev : OnEvent(TraderLp, s, ev) =
          [state |-> MK!trader_on_event(s, ev).state,
           sends |-> MK!trader_on_event(s, ev).sends,
           writes |-> MK!trader_on_event(s, ev).writes, missing |-> FALSE, fatal |-> FALSE]
    /\ \A s, old : Load(TraderLp, s, old) = MK!trader_load_entity(s, old)
    /\ \A s, e : Part(TraderLp, s, e) = s[e]

LEMMA TraderHandler ==
    ASSUME TraderProgram, NEW s, NEW ev, NEW r, r = OnEvent(TraderLp, s, ev)
    PROVE  /\ DOMAIN r.state = DOMAIN s /\ r.sends = <<>> /\ r.writes = {ev.body.trader}
           /\ \A e \in DOMAIN s : e # ev.body.trader => r.state[e] = s[e]
           /\ ~ r.missing /\ ~ r.fatal
  <1> DEFINE h == MK!trader_on_event(s, ev)
  <1>1. r = [state |-> h.state, sends |-> h.sends, writes |-> h.writes,
             missing |-> FALSE, fatal |-> FALSE]
    BY Zenon DEF TraderProgram
  <1>2. /\ DOMAIN h.state = DOMAIN s /\ h.sends = <<>> /\ h.writes = {ev.body.trader}
        /\ \A e \in DOMAIN s : e # ev.body.trader => h.state[e] = s[e]
    BY DEF MK!trader_on_event
  <1> HIDE DEF h
  <1>3. /\ r.state = h.state /\ r.sends = h.sends /\ r.writes = h.writes
        /\ r.missing = FALSE /\ r.fatal = FALSE
    BY <1>1
  <1> QED
    BY <1>2, <1>3

\* The traders' LP keeps its side of the contract: each fill asks to write the one
\* account it changes, and load_entity brings saved accounts back.
THEOREM TraderKeepsContract ==
    ASSUME TraderProgram
    PROVE  Spec /\ [](self = TraderLp /\ AnswersAreNew) => []ContractKept
  <1> DEFINE Inv == DOMAIN state = Entities(TraderLp)
  <1>1. Init /\ self = TraderLp => Inv
    BY DEF Init, TraderProgram
  <1>2. ASSUME Inv, self = TraderLp, [Next]_vars
        PROVE  Inv'
    <2>1. CASE state' = state
      BY <1>2, <2>1
    <2>2. ASSUME NEW ev \in todo, Runs(ev)
          PROVE  Inv'
      <3>1. state' = OnEvent(TraderLp, state, ev).state
        BY <1>2, <2>2 DEF Runs
      <3> QED
        BY <1>2, <3>1, TraderHandler
    <2>3. ASSUME NEW old, state' = Load(self, state, old)
          PROVE  Inv'
      <3>1. state' = MK!trader_load_entity(state, old)
        BY <1>2, <2>3 DEF TraderProgram
      <3> QED
        BY <1>2, <3>1 DEF MK!trader_load_entity
    <2> QED
      BY <1>2, <2>1, <2>2, <2>3, StateMoves
  <1>3. ASSUME Inv, self = TraderLp, AnswersAreNew
        PROVE  ContractKept
    <2>1. ASSUME NEW ev \in todo, NEW r, r = OnEvent(self, state, ev)
          PROVE  /\ r.sends \in Seq(ToSet(r.sends))
                 /\ \A e \in Entities(self) \ r.writes :
                       Part(self, r.state, e) = Part(self, state, e)
                 /\ ~ r.missing
      <3>1. /\ r.sends = <<>> /\ r.writes = {ev.body.trader} /\ ~ r.missing
            /\ \A e \in DOMAIN state : e # ev.body.trader => r.state[e] = state[e]
        BY <1>3, <2>1, TraderHandler
      <3>2. r.sends \in Seq(ToSet(r.sends))
        BY <3>1
      <3>3. \A s, e : Part(self, s, e) = s[e]
        BY <1>3 DEF TraderProgram
      <3> QED
        BY <1>3, <3>1, <3>2, <3>3
    <2>2. AsksToWrite
      BY <2>1 DEF AsksToWrite
    <2>3. ASSUME NEW n \in base..Len(log), NEW e \in Entities(self)
          PROVE  Part(self, Restored(n), e)
                    = Part(self, IF e \in SavedAfter(n) THEN Saved(n)[e] ELSE state, e)
      <3>1. Restored(n) = MK!trader_load_entity(state, Saved(n))
        BY <1>3 DEF TraderProgram, Restored
      <3>2. DOMAIN Saved(n) = SavedAfter(n)
        BY DEF Saved
      <3>3. \A s, x : Part(self, s, x) = s[x]
        BY <1>3 DEF TraderProgram
      <3>4. e \in DOMAIN state
        BY <1>3
      <3> QED
        BY <3>1, <3>2, <3>3, <3>4 DEF MK!trader_load_entity
    <2> QED
      BY <1>3, <2>2, <2>3 DEF ContractKept, LoadsWhatWasSaved
  <1>4. Inv /\ self = TraderLp /\ [Next]_vars => Inv'
    BY <1>2
  <1>5. Inv /\ self = TraderLp /\ AnswersAreNew => ContractKept
    BY <1>3
  <1> QED
    BY <1>1, <1>4, <1>5, PTL DEF Spec

-----------------------------------------------------------------------------
(***************************************************************************)
(* ExchangeLP: its contract, and price-time priority by virtual time.      *)
(***************************************************************************)
\* The orders among the first n standing records, and how many there are.
Placed(n) == {i \in Standing("place") : i <= n}
PlacedOn(side, n) == {i \in Placed(n) : log[i].ev.body.side = side}
OrderNo(i) == Cardinality(Placed(i))

\* o comes before p: a better price, or the same price and an older order.
IsWorth(side, o) == MK!Signed(side, o.price)
Precedes(side, o, p) ==
    \/ IsWorth(side, o) > IsWorth(side, p)
    \/ IsWorth(side, o) = IsWorth(side, p) /\ o.id < p.id

\* Order o of the book is what is left of the one that record i placed.
StemsFrom(o, i) ==
    LET a == log[i].ev.body
    IN  /\ o = [id |-> OrderNo(i), trader |-> o.trader, qty |-> o.qty, price |-> a.price]
        /\ o.qty \in 1..a.qty

\* No order of the book has the number of record i; nothing of it was filled.
IsGone(S, i) == \A o \in S : o.id # OrderNo(i)
IsWhole(S, i) == \E o \in S : o.id = OrderNo(i) /\ o.qty = log[i].ev.body.qty

\* One side of the book after n records: each order stems from one of them, and
\* who is not better placed has waited.
SideHolds(side, S, n) ==
    /\ \A o \in S : \E i \in PlacedOn(side, n) : StemsFrom(o, i)
    /\ \A o, p \in S : o.id = p.id => o = p
    /\ \A i, j \in PlacedOn(side, n) :
          i < j /\ IsWorth(side, log[i].ev.body) >= IsWorth(side, log[j].ev.body)
          => IsWhole(S, j) \/ IsGone(S, i)
    /\ \E most \in Nat : \A o \in S : IsWorth(side, o) <= most

\* What traders send: orders of some quantity on one of the sides, and requests to
\* match.
IsOrder(body) == /\ body.side \in {"bid", "ask"}
                 /\ body.qty \in Nat \ {0} /\ body.price \in Nat
ForExchange(body) ==
    \/ body.kind = "place" /\ IsOrder(body)
    \/ body.kind = "match" /\ body.maxTrades \in Nat

\* The log has sound bodies.
OrdersSound == /\ Len(log) \in Nat
               /\ \A i \in 1..Len(log) : ForExchange(log[i].ev.body)

LEMMA Worth ==
    ASSUME NEW side \in {"bid", "ask"}, NEW o, o.price \in Nat
    PROVE  IsWorth(side, o) \in Int /\ (side = "ask" => IsWorth(side, o) <= 0)
  BY DEF IsWorth, MK!Signed

\* Orders are numbered in the order of their records.
LEMMA OrderNumbers ==
    ASSUME Len(log) \in Nat
    PROVE  /\ \A n \in 0..Len(log) : Placed(n) \subseteq 1..Len(log) /\ OrderNo(n) \in Nat
           /\ OrderNo(0) = 0
           /\ \A n \in 0..(Len(log)-1) : OrderNo(n + 1) =
                 OrderNo(n) + (IF n + 1 \in Standing("place") THEN 1 ELSE 0)
           /\ \A n \in 0..Len(log) : \A i \in Placed(n) : OrderNo(i) \in 1..OrderNo(n)
           /\ \A n \in 0..Len(log) : \A i, j \in Placed(n) :
                 i < j <=> OrderNo(i) < OrderNo(j)
  <1>1. ASSUME NEW n \in 0..Len(log)
        PROVE  Placed(n) \subseteq 1..Len(log) /\ IsFiniteSet(Placed(n)) /\ OrderNo(n) \in Nat
    <2>1. Placed(n) \subseteq 1..Len(log)
      BY DEF Placed, Standing
    <2>2. IsFiniteSet(1..Len(log))
      BY FS_Interval
    <2>3. IsFiniteSet(Placed(n))
      BY <2>1, <2>2, FS_Subset
    <2> QED
      BY <2>1, <2>3, FS_CardinalityType DEF OrderNo
  <1>2. OrderNo(0) = 0
    <2>1. Placed(0) = {}
      BY DEF Placed, Standing
    <2> QED
      BY <2>1, FS_EmptySet DEF OrderNo
  <1>3. ASSUME NEW n \in 0..(Len(log)-1)
        PROVE  OrderNo(n + 1) = OrderNo(n) + (IF n + 1 \in Standing("place") THEN 1 ELSE 0)
    <2>1. CASE n + 1 \in Standing("place")
      <3>1. Placed(n + 1) = Placed(n) \cup {n + 1} /\ n + 1 \notin Placed(n)
        BY <2>1 DEF Placed, Standing
      <3>2. IsFiniteSet(Placed(n))
        BY <1>1
      <3>3. Cardinality(Placed(n) \cup {n + 1}) = Cardinality(Placed(n)) + 1
        BY <3>1, <3>2, FS_AddElement
      <3> QED
        BY <2>1, <3>1, <3>3 DEF OrderNo
    <2>2. CASE n + 1 \notin Standing("place")
      <3>1. Placed(n + 1) = Placed(n)
        BY <2>2 DEF Placed, Standing
      <3>2. OrderNo(n) \in Nat
        BY <1>1
      <3> QED
        BY <2>2, <3>1, <3>2 DEF OrderNo
    <2> QED
      BY <2>1, <2>2
  <1>4. ASSUME NEW m \in 0..Len(log), NEW n \in 0..Len(log), m <= n
        PROVE  OrderNo(m) <= OrderNo(n)
    <2>1. Placed(m) \subseteq Placed(n)
      BY <1>4 DEF Placed, Standing
    <2> QED
      BY <1>1, <2>1, FS_Subset DEF OrderNo
  <1>5. ASSUME NEW j \in Standing("place")
        PROVE  j \in 1..Len(log) /\ OrderNo(j) = OrderNo(j - 1) + 1
    <2>1. j \in 1..Len(log)
      BY DEF Standing
    <2>2. j - 1 \in 0..(Len(log)-1) /\ (j - 1) + 1 = j
      BY <2>1
    <2> QED
      BY <1>3, <2>1, <2>2
  <1>6. ASSUME NEW i \in Standing("place"), NEW j \in Standing("place"), i < j
        PROVE  OrderNo(i) < OrderNo(j)
    <2>1. i \in 0..Len(log) /\ j - 1 \in 0..Len(log) /\ i <= j - 1
      BY <1>5, <1>6
    <2>2. OrderNo(i) <= OrderNo(j - 1) /\ OrderNo(i) \in Nat /\ OrderNo(j - 1) \in Nat
      BY <1>1, <1>4, <2>1
    <2> QED
      BY <1>5, <2>2
  <1>7. ASSUME NEW n \in 0..Len(log), NEW i \in Placed(n)
        PROVE  OrderNo(i) \in 1..OrderNo(n)
    <2>1. i \in Standing("place") /\ i <= n
      BY DEF Placed
    <2>2. i \in 0..Len(log) /\ i - 1 \in 0..Len(log)
      BY <1>5, <2>1
    <2>3. OrderNo(i) <= OrderNo(n) /\ OrderNo(i - 1) \in Nat /\ OrderNo(n) \in Nat
      BY <1>1, <1>4, <2>1, <2>2
    <2>4. OrderNo(i) = OrderNo(i - 1) + 1
      BY <1>5, <2>1
    <2> QED
      BY <2>3, <2>4
  <1>8. ASSUME NEW n \in 0..Len(log), NEW i \in Placed(n), NEW j \in Placed(n)
        PROVE  i < j <=> OrderNo(i) < OrderNo(j)
    <2>1. i \in Standing("place") /\ j \in Standing("place")
      BY DEF Placed
    <2>2. i \in 1..Len(log) /\ j \in 1..Len(log)
      BY <1>5, <2>1
    <2>3. OrderNo(i) \in Nat /\ OrderNo(j) \in Nat
      BY <1>1, <2>2
    <2>4. i < j => OrderNo(i) < OrderNo(j)
      BY <1>6, <2>1
    <2>5. j < i => OrderNo(j) < OrderNo(i)
      BY <1>6, <2>1
    <2>6. i = j => OrderNo(i) = OrderNo(j)
      OBVIOUS
    <2> QED
      BY <2>2, <2>3, <2>4, <2>5, <2>6
  <1> QED
    BY <1>1, <1>2, <1>3, <1>7, <1>8

\* Of the orders of a side there is one that precedes the others.
LEMMA BestExists ==
    ASSUME NEW side \in {"bid", "ask"}, NEW S, S # {},
           \A o \in S : o.id \in Nat /\ o.price \in Nat,
           \A o, p \in S : o.id = p.id => o = p,
           NEW most \in Nat, \A o \in S : IsWorth(side, o) <= most
    PROVE  \E o \in S : \A p \in S \ {o} : Precedes(side, o, p)
  <1> DEFINE D == {most - IsWorth(side, o) : o \in S}
             m == Min(D)
             B == {p \in S : most - IsWorth(side, p) = m}
             T == {o.id : o \in B}
  <1>1. \A o \in S : IsWorth(side, o) \in Int
    BY Worth
  <1>2. D \in SUBSET Nat /\ D # {}
    BY <1>1
  <1>3. m \in D /\ \A y \in D : m <= y
    BY <1>2, LeastNat
  <1> HIDE DEF m
  <1>4. \A p \in S : m <= most - IsWorth(side, p)
    BY <1>3
  <1>5. T \in SUBSET Nat /\ T # {}
    <2>1. B # {}
      BY <1>3
    <2> QED
      BY <2>1
  <1>6. Min(T) \in T /\ \A y \in T : Min(T) <= y
    BY <1>5, LeastNat
  <1>7. PICK o \in S : o.id = Min(T) /\ most - IsWorth(side, o) = m
    BY <1>6
  <1>8. \A p \in B : o.id <= p.id
    BY <1>6, <1>7
  <1>9. ASSUME NEW p \in S \ {o}
        PROVE  Precedes(side, o, p)
    <2>1. m <= most - IsWorth(side, p)
      BY <1>4
    <2>2. most - IsWorth(side, p) = m => o.id <= p.id
      BY <1>8
    <2>3. o.id # p.id /\ o.id \in Nat /\ p.id \in Nat
      OBVIOUS
    <2>4. IsWorth(side, o) \in Int /\ IsWorth(side, p) \in Int
      BY <1>1
    <2> HIDE DEF D, B, T
    <2> QED
      BY <1>7, <2>1, <2>2, <2>3, <2>4 DEF Precedes
  <1> QED
    BY <1>9

\* What is known of the orders of a side.
LEMMA OrdersOf ==
    ASSUME OrdersSound, NEW side \in {"bid", "ask"}, NEW n \in 0..Len(log), NEW S,
           SideHolds(side, S, n)
    PROVE  \A o \in S :
              /\ o.id \in 1..OrderNo(n) /\ o.price \in Nat /\ o.qty \in Nat \ {0}
              /\ IsWorth(side, o) \in Int
              /\ \E i \in PlacedOn(side, n) :
                    StemsFrom(o, i) /\ o.id = OrderNo(i) /\ o.price = log[i].ev.body.price
  <1> TAKE o \in S
  <1>1. PICK i \in PlacedOn(side, n) : StemsFrom(o, i)
    BY DEF SideHolds
  <1>2. o.id = OrderNo(i) /\ o.price = log[i].ev.body.price /\ o.qty \in 1..log[i].ev.body.qty
    BY <1>1 DEF StemsFrom
  <1>3. i \in Placed(n) /\ log[i].ev.body.kind = "place" /\ i \in 1..Len(log)
    BY DEF PlacedOn, Placed, Standing
  <1>4. IsOrder(log[i].ev.body)
    BY <1>3 DEF OrdersSound, ForExchange
  <1>5. OrderNo(i) \in 1..OrderNo(n)
    BY <1>3, OrderNumbers DEF OrdersSound
  <1>6. o.price \in Nat /\ o.qty \in Nat \ {0}
    BY <1>2, <1>4 DEF IsOrder
  <1>7. IsWorth(side, o) \in Int
    BY <1>6, Worth
  <1> QED
    BY <1>1, <1>2, <1>5, <1>6, <1>7

\* The best order of a side is traded, in part or as a whole.
LEMMA SideReduced ==
    ASSUME OrdersSound, NEW side \in {"bid", "ask"}, NEW n \in 0..Len(log), NEW S,
           SideHolds(side, S, n), NEW o \in S, \A p \in S \ {o} : Precedes(side, o, p),
           NEW qty \in 1..o.qty
    PROVE  SideHolds(side, MK!Reduced(S, o, qty), n)
  <1> DEFINE T == MK!Reduced(S, o, qty)
             rest == [o EXCEPT !.qty = @ - qty]
  <1>1. /\ \A p \in S : p.id \in 1..OrderNo(n) /\ IsWorth(side, p) \in Int
        /\ OrderNo(n) \in Nat /\ o.qty \in Nat
    BY OrdersOf, OrderNumbers DEF OrdersSound
  <1>2. PICK k \in PlacedOn(side, n) : StemsFrom(o, k)
    BY DEF SideHolds
  <1>3. /\ o = [id |-> o.id, trader |-> o.trader, qty |-> o.qty, price |-> o.price]
        /\ o.id = OrderNo(k) /\ o.price = log[k].ev.body.price /\ o.qty \in 1..log[k].ev.body.qty
    BY <1>2 DEF StemsFrom
  <1>4. rest = [id |-> o.id, trader |-> o.trader, qty |-> o.qty - qty, price |-> o.price]
    BY <1>3
  <1>5. T = (S \ {o}) \cup (IF o.qty = qty THEN {} ELSE {rest})
    BY DEF MK!Reduced
  <1> HIDE DEF T, rest
  <1>6. \A p \in T : p \in S \ {o} \/ (p = rest /\ o.qty # qty)
    BY <1>5
  <1>7. rest.id = o.id /\ rest.price = o.price /\ rest.trader = o.trader
        /\ rest.qty = o.qty - qty
    BY <1>4
  <1>8. ASSUME NEW p \in T
        PROVE  \E i \in PlacedOn(side, n) : StemsFrom(p, i)
    <2>1. CASE p \in S
      BY <2>1 DEF SideHolds
    <2>2. CASE p = rest /\ o.qty # qty
      <3>1. log[k].ev.body.qty \in Nat
        <4>1. k \in 1..Len(log) /\ log[k].ev.body.kind = "place"
          BY DEF PlacedOn, Placed, Standing
        <4> QED
          BY <4>1 DEF OrdersSound, ForExchange, IsOrder
      <3>2. o.qty - qty \in 1..log[k].ev.body.qty
        BY <1>1, <1>3, <2>2, <3>1
      <3>3. StemsFrom(p, k)
        BY <1>3, <1>4, <1>7, <2>2, <3>2 DEF StemsFrom
      <3> QED
        BY <3>3
    <2> QED
      BY <1>6, <2>1, <2>2
  <1>9. ASSUME NEW p \in T, NEW q \in T, p.id = q.id
        PROVE  p = q
    BY <1>6, <1>7, <1>9 DEF SideHolds
  <1>10. ASSUME NEW i \in PlacedOn(side, n), NEW j \in PlacedOn(side, n), i < j,
                IsWorth(side, log[i].ev.body) >= IsWorth(side, log[j].ev.body)
         PROVE  IsWhole(T, j) \/ IsGone(T, i)
    <2>1. IsGone(S, i) => IsGone(T, i)
      BY <1>6, <1>7 DEF IsGone
    <2>2. CASE IsWhole(S, j) /\ ~ IsGone(S, i)
      <3>1. PICK p \in S : p.id = OrderNo(j) /\ p.qty = log[j].ev.body.qty
        BY <2>2 DEF IsWhole
      <3>2. CASE p # o
        <4>1. p \in T
          BY <1>5, <3>2
        <4> QED
          BY <3>1, <4>1 DEF IsWhole
      <3>3. CASE p = o
        <4>1. PICK q \in S : q.id = OrderNo(i)
          BY <2>2 DEF IsGone
        <4>2. PICK h \in PlacedOn(side, n) : StemsFrom(q, h) /\ q.id = OrderNo(h)
                                               /\ q.price = log[h].ev.body.price
          BY OrdersOf
        <4>3. /\ \A x, y \in Placed(n) : x < y <=> OrderNo(x) < OrderNo(y)
              /\ \A x \in Placed(n) : OrderNo(x) \in Nat /\ x \in Nat
          BY OrderNumbers DEF OrdersSound, Placed, Standing
        <4>4. i \in Placed(n) /\ j \in Placed(n) /\ h \in Placed(n) /\ k \in Placed(n)
          BY DEF PlacedOn
        <4>5. h = i /\ k = j
          <5>1. OrderNo(h) = OrderNo(i) /\ OrderNo(k) = OrderNo(j)
            BY <1>3, <3>1, <3>3, <4>1, <4>2
          <5> QED
            BY <4>3, <4>4, <5>1
        <4>6. OrderNo(i) < OrderNo(j)
          BY <1>10, <4>3, <4>4
        <4>7. q # o
          BY <3>1, <3>3, <4>1, <4>3, <4>4, <4>6
        <4>8. Precedes(side, o, q)
          BY <4>7
        <4>9. IsWorth(side, q) = IsWorth(side, log[i].ev.body)
              /\ IsWorth(side, o) = IsWorth(side, log[j].ev.body)
          BY <1>3, <4>2, <4>5 DEF IsWorth
        <4>10. IsWorth(side, o) \in Int /\ IsWorth(side, q) \in Int /\ o.id = OrderNo(j)
               /\ q.id = OrderNo(i) /\ OrderNo(i) \in Nat /\ OrderNo(j) \in Nat
          BY <1>1, <3>1, <3>3, <4>1, <4>3, <4>4
        <4> QED
          BY <1>10, <4>6, <4>8, <4>9, <4>10 DEF Precedes
      <3> QED
        BY <3>2, <3>3
    <2> QED
      BY <1>10, <2>1, <2>2 DEF SideHolds
  <1>11. \E most \in Nat : \A p \in T : IsWorth(side, p) <= most
    <2>1. PICK most \in Nat : \A p \in S : IsWorth(side, p) <= most
      BY DEF SideHolds
    <2>2. IsWorth(side, rest) = IsWorth(side, o)
      BY <1>7 DEF IsWorth
    <2>3. \A p \in T : IsWorth(side, p) <= most
      BY <1>6, <2>1, <2>2
    <2> QED
      BY <2>3
  <1>12. SideHolds(side, T, n)
    BY <1>8, <1>9, <1>10, <1>11 DEF SideHolds
  <1> QED
    BY <1>12 DEF T

\* One more record: it places an order on this side, or it does not.
LEMMA SidePlaced ==
    ASSUME OrdersSound, NEW side \in {"bid", "ask"}, NEW n \in 0..(Len(log)-1), NEW S,
           SideHolds(side, S, n), NEW T,
           \/ /\ n + 1 \in PlacedOn(side, n + 1)
              /\ \E o : /\ T = S \cup {o} /\ StemsFrom(o, n + 1)
                        /\ o.qty = log[n + 1].ev.body.qty
           \/ n + 1 \notin PlacedOn(side, n + 1) /\ T = S
    PROVE  SideHolds(side, T, n + 1)
  <1> DEFINE k == n + 1
  <1>1. Len(log) \in Nat /\ n \in Nat /\ k \in Nat /\ k = n + 1 /\ k \in 0..Len(log) /\ n \in 0..Len(log)
    BY DEF OrdersSound
  <1>2. PlacedOn(side, n) = PlacedOn(side, k) \ {k}
    BY <1>1 DEF PlacedOn, Placed, Standing
  <1>3. CASE k \notin PlacedOn(side, k) /\ T = S
    BY <1>2, <1>3 DEF SideHolds
  <1>4. CASE k \in PlacedOn(side, k) /\ \E o : /\ T = S \cup {o} /\ StemsFrom(o, k)
                                             /\ o.qty = log[k].ev.body.qty
    <2>1. PICK o : T = S \cup {o} /\ StemsFrom(o, k) /\ o.qty = log[k].ev.body.qty
      BY <1>4
    <2>2. k \in 1..Len(log) /\ IsOrder(log[k].ev.body) /\ k \in Placed(k)
      <3>1. k \in Placed(k) /\ k \in 1..Len(log) /\ log[k].ev.body.kind = "place"
        BY <1>4 DEF PlacedOn, Placed, Standing
      <3> QED
        BY <3>1 DEF OrdersSound, ForExchange
    <2>3. o.id = OrderNo(k) /\ o.price = log[k].ev.body.price
      BY <2>1 DEF StemsFrom
    <2>4. \A p \in S : p.id \in 1..OrderNo(n)
      BY <1>1, OrdersOf
    <2>5. OrderNo(k) = OrderNo(n) + 1 /\ OrderNo(n) \in Nat
      <3>1. k \in Standing("place")
        BY <2>2 DEF Placed
      <3> QED
        BY <1>1, <3>1, OrderNumbers
    <2>6. \A p \in S : p.id # o.id
      BY <2>3, <2>4, <2>5
    <2>7. \A i \in PlacedOn(side, n) : OrderNo(i) # o.id
      <3>1. \A i \in PlacedOn(side, n) : OrderNo(i) \in 1..OrderNo(n)
        BY <1>1, OrderNumbers DEF PlacedOn
      <3> QED
        BY <2>3, <2>5, <3>1
    <2>8. ASSUME NEW i \in PlacedOn(side, k), NEW j \in PlacedOn(side, k), i < j,
                 IsWorth(side, log[i].ev.body) >= IsWorth(side, log[j].ev.body)
          PROVE  IsWhole(T, j) \/ IsGone(T, i)
      <3>1. j <= k /\ i \in Nat /\ j \in Nat
        BY DEF PlacedOn, Placed, Standing
      <3>2. i # k
        BY <1>1, <2>8, <3>1
      <3>3. CASE j = k
        BY <2>1, <2>3, <3>3 DEF IsWhole
      <3>4. CASE j # k
        <4>1. i \in PlacedOn(side, n) /\ j \in PlacedOn(side, n)
          BY <1>2, <3>2, <3>4
        <4>2. IsWhole(S, j) \/ IsGone(S, i)
          BY <2>8, <4>1 DEF SideHolds
        <4>3. IsWhole(S, j) => IsWhole(T, j)
          BY <2>1 DEF IsWhole
        <4>4. IsGone(S, i) => IsGone(T, i)
          BY <2>1, <2>7, <4>1 DEF IsGone
        <4> QED
          BY <4>2, <4>3, <4>4
      <3> QED
        BY <3>3, <3>4
    <2>9. \E most \in Nat : \A p \in T : IsWorth(side, p) <= most
      <3>1. PICK most \in Nat : \A p \in S : IsWorth(side, p) <= most
        BY DEF SideHolds
      <3>2. o.price \in Nat /\ IsWorth(side, o) \in Int /\ IsWorth(side, o) <= o.price
        <4>1. o.price \in Nat
          BY <2>2, <2>3 DEF IsOrder
        <4> QED
          BY <4>1 DEF IsWorth, MK!Signed
      <3>3. \A p \in S : IsWorth(side, p) \in Int
        BY <1>1, OrdersOf
      <3>4. most + o.price \in Nat /\ \A p \in T : IsWorth(side, p) <= most + o.price
        BY <2>1, <3>1, <3>2, <3>3
      <3> QED
        BY <3>4
    <2>10. \A p \in T : \E i \in PlacedOn(side, k) : StemsFrom(p, i)
      BY <1>2, <1>4, <2>1 DEF SideHolds
    <2>11. \A p, q \in T : p.id = q.id => p = q
      BY <2>1, <2>6 DEF SideHolds
    <2> QED
      BY <2>8, <2>9, <2>10, <2>11 DEF SideHolds
  <1> QED
    BY <1>3, <1>4

-----------------------------------------------------------------------------
\* The book after n records.
Ledger(b, n) ==
    /\ DOMAIN b = {"nextOrderId", "lastTradePrice", "bids", "asks"}
    /\ b.nextOrderId = OrderNo(n) + 1
    /\ SideHolds("bid", b.bids, n) /\ SideHolds("ask", b.asks, n)

\* When a side has orders, the code finds the best.
LEMMA BestFound ==
    ASSUME OrdersSound, NEW n \in 0..Len(log), NEW b, Ledger(b, n)
    PROVE  /\ b.bids # {} => /\ MK!BestBid(b) \in b.bids
                             /\ \A p \in b.bids \ {MK!BestBid(b)} :
                                   Precedes("bid", MK!BestBid(b), p)
           /\ b.asks # {} => /\ MK!BestAsk(b) \in b.asks
                             /\ \A p \in b.asks \ {MK!BestAsk(b)} :
                                   Precedes("ask", MK!BestAsk(b), p)
  <1>1. ASSUME NEW side \in {"bid", "ask"}, NEW S, SideHolds(side, S, n), S # {}
        PROVE  \E o \in S : \A p \in S \ {o} : Precedes(side, o, p)
    <2>1. PICK most \in Nat : \A o \in S : IsWorth(side, o) <= most
      BY <1>1 DEF SideHolds
    <2>2. \A o, p \in S : o.id = p.id => o = p
      BY <1>1 DEF SideHolds
    <2>3. \A o \in S : o.id \in Nat /\ o.price \in Nat
      <3>1. OrderNo(n) \in Nat
        BY OrderNumbers DEF OrdersSound
      <3> QED
        BY <1>1, <3>1, OrdersOf
    <2> QED
      BY <1>1, <2>1, <2>2, <2>3, BestExists
  <1>2. \A o \in b.bids \cup b.asks : o.price \in Nat
    BY OrdersOf DEF Ledger
  <1>3. \A o, p \in b.bids : MK!BidBefore(o, p) <=> Precedes("bid", o, p)
    BY <1>2 DEF MK!BidBefore, Precedes, IsWorth, MK!Signed
  <1>4. \A o, p \in b.asks : MK!AskBefore(o, p) <=> Precedes("ask", o, p)
    BY <1>2 DEF MK!AskBefore, Precedes, IsWorth, MK!Signed
  <1>5. ASSUME b.bids # {}, NEW o, o = MK!BestBid(b)
        PROVE  o \in b.bids /\ \A p \in b.bids \ {o} : Precedes("bid", o, p)
    <2>1. \E q \in b.bids : \A p \in b.bids \ {q} : MK!BidBefore(q, p)
      BY <1>1, <1>3, <1>5 DEF Ledger
    <2>2. o \in b.bids /\ \A p \in b.bids \ {o} : MK!BidBefore(o, p)
      BY <1>5, <2>1 DEF MK!BestBid
    <2> QED
      BY <1>3, <2>2
  <1>6. ASSUME b.asks # {}, NEW o, o = MK!BestAsk(b)
        PROVE  o \in b.asks /\ \A p \in b.asks \ {o} : Precedes("ask", o, p)
    <2>1. \E q \in b.asks : \A p \in b.asks \ {q} : MK!AskBefore(q, p)
      BY <1>1, <1>4, <1>6 DEF Ledger
    <2>2. o \in b.asks /\ \A p \in b.asks \ {o} : MK!AskBefore(o, p)
      BY <1>6, <2>1 DEF MK!BestAsk
    <2> QED
      BY <1>4, <2>2
  <1> QED
    BY <1>5, <1>6

\* A trade leaves the book in order, and has two fills.
IsFill(m, ts) == m.dst = TraderLp /\ m.ts = ts

LEMMA TradeFills ==
    ASSUME NEW s, NEW ts, NEW r, r = MK!Traded(s, ts)
    PROVE  /\ IsSequence(r.fills) /\ Len(r.fills) = 2
           /\ \A i \in 1..Len(r.fills) : IsFill(r.fills[i], ts)
  <1>1. PICK x, y : r.fills = <<x, y>> /\ IsFill(x, ts) /\ IsFill(y, ts)
    <2> DEFINE F(c, p, t) == MK!Fill(ts, t, c, p)
    <2>1. \A t, c, p : IsFill(MK!Fill(ts, t, c, p), ts)
      BY DEF MK!Fill, IsFill
    <2>2. \E t, c, p, u, d, q : r.fills = <<MK!Fill(ts, t, c, p), MK!Fill(ts, u, d, q)>>
      BY DEF MK!Traded
    <2> QED
      BY <2>1, <2>2
  <1>2. IsSequence(<<x, y>>)
    <2>1. <<x, y>> \in Seq({x, y})
      OBVIOUS
    <2> QED
      BY <2>1 DEF IsSequence
  <1> QED
    BY <1>1, <1>2

LEMMA TradeKeeps ==
    ASSUME OrdersSound, NEW n \in 0..Len(log), NEW s, Ledger(s.book, n),
           MK!Crosses(s.book), NEW ts
    PROVE  Ledger(MK!Traded(s, ts).state.book, n)
  <1> DEFINE b == s.book
             bid == MK!BestBid(b)
             ask == MK!BestAsk(b)
             qty == MK!Min({bid.qty, ask.qty})
             bids == MK!Reduced(b.bids, bid, qty)
             asks == MK!Reduced(b.asks, ask, qty)
             new == [b EXCEPT !.lastTradePrice = ask.price, !.bids = bids, !.asks = asks]
  <1>1. MK!Traded(s, ts).state.book
           = [b EXCEPT !.lastTradePrice = ask.price, !.bids = MK!Reduced(@, bid, qty),
                       !.asks = MK!Reduced(@, ask, qty)]
    BY DEF MK!Traded
  <1>2. /\ bid \in b.bids /\ \A p \in b.bids \ {bid} : Precedes("bid", bid, p)
        /\ ask \in b.asks /\ \A p \in b.asks \ {ask} : Precedes("ask", ask, p)
    <2>1. b.bids # {} /\ b.asks # {}
      BY DEF MK!Crosses
    <2> QED
      BY <2>1, BestFound
  <1> HIDE DEF bid, ask
  <1>3. bid.qty \in Nat \ {0} /\ ask.qty \in Nat \ {0}
    BY <1>2, OrdersOf DEF Ledger
  <1>4. qty \in 1..bid.qty /\ qty \in 1..ask.qty
    <2>1. {bid.qty, ask.qty} \in SUBSET Nat /\ {bid.qty, ask.qty} # {}
      BY <1>3
    <2>2. /\ Min({bid.qty, ask.qty}) \in {bid.qty, ask.qty}
          /\ \A y \in {bid.qty, ask.qty} : Min({bid.qty, ask.qty}) <= y
      BY <2>1, LeastNat
    <2>3. qty = Min({bid.qty, ask.qty})
      BY DEF MK!Min, Min
    <2> HIDE DEF qty
    <2> QED
      BY <1>3, <2>2, <2>3
  <1> HIDE DEF qty
  <1>5. /\ SideHolds("bid", MK!Reduced(b.bids, bid, qty), n)
        /\ SideHolds("ask", MK!Reduced(b.asks, ask, qty), n)
    BY <1>2, <1>4, SideReduced DEF Ledger
  <1>6. /\ DOMAIN b = {"nextOrderId", "lastTradePrice", "bids", "asks"}
        /\ b.nextOrderId = OrderNo(n) + 1
    BY DEF Ledger
  <1> HIDE DEF b
  <1>7. MK!Traded(s, ts).state.book = new
    <2> DEFINE B(x) == MK!Reduced(x, bid, qty)
               A(x) == MK!Reduced(x, ask, qty)
    <2>1. MK!Traded(s, ts).state.book
             = [b EXCEPT !.lastTradePrice = ask.price, !.bids = B(@), !.asks = A(@)]
      BY <1>1 DEF b
    <2>2. B(b.bids) = bids /\ A(b.asks) = asks
      OBVIOUS
    <2> HIDE DEF A, B, bids, asks
    <2> QED
      BY <1>6, <2>1, <2>2
  <1>8. /\ DOMAIN new = {"nextOrderId", "lastTradePrice", "bids", "asks"}
        /\ new.nextOrderId = OrderNo(n) + 1 /\ new.bids = bids /\ new.asks = asks
    BY <1>6
  <1>9. SideHolds("bid", bids, n) /\ SideHolds("ask", asks, n)
    BY <1>5 DEF b
  <1> HIDE DEF bids, asks, new
  <1>10. Ledger(new, n)
    BY <1>8, <1>9 DEF Ledger
  <1> QED
    BY <1>7, <1>10

-----------------------------------------------------------------------------
\* The trades of one request, the book and the fills after each of them.
Trades(done, ts) ==
    LET r == MK!Traded(done.state, ts)
    IN  IF ~ MK!Crosses(done.state.book) THEN done
        ELSE [state |-> r.state, fills |-> done.fills \o r.fills]

IsMatching(f, n, s, ts) ==
    f = [k \in 0..n |-> IF k = 0 THEN [state |-> s, fills |-> <<>>]
                        ELSE Trades(f[k - 1], ts)]

LEMMA MatchingExists ==
    ASSUME NEW s, NEW ts, NEW n \in Nat
    PROVE  \E f : IsMatching(f, n, s, ts)
  <1> DEFINE T == {m \in Nat : \E f : IsMatching(f, m, s, ts)}
             none == [state |-> s, fills |-> <<>>]
  <1>1. 0 \in T
    <2> DEFINE f == [k \in 0..0 |-> none]
    <2> HIDE DEF none
    <2>1. f = [k \in 0..0 |-> IF k = 0 THEN none ELSE Trades(f[k - 1], ts)]
      OBVIOUS
    <2> HIDE DEF f
    <2>2. IsMatching(f, 0, s, ts)
      BY <2>1 DEF IsMatching, none
    <2> QED
      BY <2>2
  <1>2. ASSUME NEW m \in T
        PROVE  m + 1 \in T
    <2>1. PICK f : IsMatching(f, m, s, ts)
      OBVIOUS
    <2> DEFINE last == Trades(f[m], ts)
               g == [k \in 0..(m + 1) |-> IF k <= m THEN f[k] ELSE last]
    <2>2. m \in Nat
      OBVIOUS
    <2> HIDE DEF last, none
    <2>3. f = [k \in 0..m |-> IF k = 0 THEN none ELSE Trades(f[k - 1], ts)]
      BY <2>1 DEF IsMatching, none
    <2>4. g = [k \in 0..(m + 1) |-> IF k = 0 THEN none ELSE Trades(g[k - 1], ts)]
      <3> SUFFICES ASSUME NEW k \in 0..(m + 1)
                   PROVE  g[k] = IF k = 0 THEN none ELSE Trades(g[k - 1], ts)
        BY Zenon
      <3>1. CASE k <= m
        <4>1. g[k] = f[k] /\ (k # 0 => g[k - 1] = f[k - 1])
          BY <3>1, <2>2
        <4>2. k \in 0..m
          BY <3>1, <2>2
        <4>3. f[k] = IF k = 0 THEN none ELSE Trades(f[k - 1], ts)
          BY <2>3, <4>2
        <4> HIDE DEF g
        <4> QED
          BY <4>1, <4>3
      <3>2. CASE k = m + 1
        <4>1. g[k] = last /\ k # 0 /\ k - 1 = m /\ g[m] = f[m]
          BY <3>2, <2>2
        <4> HIDE DEF g
        <4> QED
          BY <4>1 DEF last
      <3> QED
        BY <3>1, <3>2, <2>2
    <2> HIDE DEF g
    <2>5. IsMatching(g, m + 1, s, ts)
      BY <2>4 DEF IsMatching, none
    <2> QED
      BY <2>2, <2>5
  <1>3. T \in SUBSET Nat
    OBVIOUS
  <1> HIDE DEF T
  <1>4. T = Nat
    BY <1>1, <1>2, <1>3, Counting
  <1> QED
    BY <1>4 DEF T

LEMMA MatchIs ==
    ASSUME NEW s, NEW ev, ev.body.maxTrades \in Nat
    PROVE  \E f : /\ IsMatching(f, ev.body.maxTrades, s, ev.ts)
                 /\ LET all == f[ev.body.maxTrades]
                    IN  MK!Match(s, ev) =
                          [state |-> all.state, sends |-> all.fills,
                           writes |-> {Book} \cup (IF all.fills = <<>> THEN {} ELSE {Audit})]
  <1> DEFINE max == ev.body.maxTrades
             f == CHOOSE f : IsMatching(f, max, s, ev.ts)
             all == f[max]
  <1>1. IsMatching(f, max, s, ev.ts)
    BY MatchingExists
  <1>2. MK!Match(s, ev) = [state |-> all.state, sends |-> all.fills,
                           writes |-> {Book} \cup (IF all.fills = <<>> THEN {} ELSE {Audit})]
    BY DEF MK!Match, IsMatching, Trades
  <1> HIDE DEF f
  <1> QED
    BY <1>1, <1>2

\* What a request to match comes to: fills for the traders, an unchanged exchange
\* if there are none, and a book in order.
Matched(done, s, ts) ==
    /\ IsSequence(done.fills) /\ \A i \in 1..Len(done.fills) : IsFill(done.fills[i], ts)
    /\ done.fills = <<>> => done.state = s
    /\ \A n \in 0..Len(log) : OrdersSound /\ Ledger(s.book, n) => Ledger(done.state.book, n)

LEMMA MatchKeeps ==
    ASSUME NEW s, NEW ts, NEW max \in Nat, NEW f, IsMatching(f, max, s, ts)
    PROVE  Matched(f[max], s, ts)
  <1> DEFINE T == {m \in Nat : m <= max => Matched(f[m], s, ts)}
             none == [state |-> s, fills |-> <<>>]
  <1>1. \A k \in 0..max : f[k] = IF k = 0 THEN none ELSE Trades(f[k - 1], ts)
    BY DEF IsMatching
  <1>2. 0 \in T
    <2>1. f[0] = none
      BY <1>1
    <2>2. Matched(none, s, ts)
      <3>1. none.state = s /\ none.fills = <<>> /\ Len(<<>>) = 0
        OBVIOUS
      <3> HIDE DEF none
      <3> QED
        BY <3>1, ShortSequences DEF Matched
    <2> QED
      BY <2>1, <2>2
  <1>3. ASSUME NEW m \in T
        PROVE  m + 1 \in T
    <2> SUFFICES ASSUME m + 1 <= max
                 PROVE  Matched(f[m + 1], s, ts)
      OBVIOUS
    <2> DEFINE done == f[m]
               next == f[m + 1]
               r == MK!Traded(done.state, ts)
    <2>1. m \in Nat /\ Matched(done, s, ts) /\ next = Trades(done, ts)
      <3>1. m \in Nat /\ m <= max /\ m + 1 \in 0..max /\ m + 1 # 0 /\ (m + 1) - 1 = m
        OBVIOUS
      <3> QED
        BY <1>1, <3>1
    <2> HIDE DEF done, next
    <2>2. CASE ~ MK!Crosses(done.state.book)
      BY <2>1, <2>2 DEF Trades, next
    <2>3. CASE MK!Crosses(done.state.book)
      <3>1. next.state = r.state /\ next.fills = done.fills \o r.fills
        BY <2>1, <2>3 DEF Trades
      <3>2. /\ IsSequence(r.fills) /\ Len(r.fills) = 2
            /\ \A i \in 1..Len(r.fills) : IsFill(r.fills[i], ts)
        BY TradeFills
      <3>3. \A n \in 0..Len(log) : OrdersSound /\ Ledger(s.book, n) => Ledger(next.state.book, n)
        BY <2>1, <2>3, <3>1, TradeKeeps DEF Matched
      <3>4. IsSequence(done.fills) /\ \A i \in 1..Len(done.fills) : IsFill(done.fills[i], ts)
        BY <2>1 DEF Matched
      <3> HIDE DEF r
      <3>5. /\ Len(done.fills) \in Nat /\ Joins(next.fills, done.fills, r.fills)
        BY <3>1, <3>2, <3>4, Joined, Appended
      <3>6. IsSequence(next.fills) /\ Len(next.fills) = Len(done.fills) + 2
        BY <3>2, <3>5 DEF Joins
      <3>7. next.fills # <<>>
        <4>1. Len(<<>>) = 0
          OBVIOUS
        <4> QED
          BY <3>5, <3>6, <4>1
      <3>8. \A i \in 1..Len(next.fills) : IsFill(next.fills[i], ts)
        <4> TAKE i \in 1..Len(next.fills)
        <4>1. CASE i <= Len(done.fills)
          <5>1. i \in 1..Len(done.fills)
            BY <3>5, <3>6, <4>1
          <5> QED
            BY <3>4, <3>5, <5>1 DEF Joins
        <4>2. CASE ~ (i <= Len(done.fills))
          <5>1. /\ i - Len(done.fills) \in 1..Len(r.fills)
                /\ i = Len(done.fills) + (i - Len(done.fills))
            BY <3>2, <3>5, <3>6, <4>2
          <5>2. next.fills[i] = r.fills[i - Len(done.fills)]
            BY <3>5, <5>1 DEF Joins
          <5> QED
            BY <3>2, <5>1, <5>2
        <4> QED
          BY <4>1, <4>2
      <3>9. Matched(next, s, ts)
        BY <3>3, <3>6, <3>7, <3>8 DEF Matched
      <3> QED
        BY <3>9 DEF next
    <2> QED
      BY <2>2, <2>3
  <1>4. T \in SUBSET Nat
    OBVIOUS
  <1> HIDE DEF T
  <1>5. T = Nat
    BY <1>2, <1>3, <1>4, Counting
  <1> QED
    BY <1>5 DEF T

-----------------------------------------------------------------------------
\* The LP ExchangeLp is an ExchangeLP: its book and its audit log are entities, and
\* the traders are another LP.
ExchangeProgram ==
    /\ ExchangeLp # TraderLp /\ Book # Audit
    /\ InitState(ExchangeLp) = MK!NewExchange /\ Started(ExchangeLp) = {}
    /\ \A s, ev : OnEvent(ExchangeLp, s, ev) =
          [state |-> MK!exchange_on_event(s, ev).state,
           sends |-> MK!exchange_on_event(s, ev).sends,
           writes |-> MK!exchange_on_event(s, ev).writes, missing |-> FALSE, fatal |-> FALSE]
    /\ \A s, old : Load(ExchangeLp, s, old) = MK!exchange_load_entity(s, old)
    /\ Entities(ExchangeLp) = {Book, Audit}
    /\ \A s : Part(ExchangeLp, s, Book) = s.book /\ Part(ExchangeLp, s, Audit) = s.audit

CONSTANT ExchangeBodies     \* what traders send to it

\* What they send at first and when they get a fill; not before it.
ExchangeClients ==
    /\ \A body \in ExchangeBodies : ForExchange(body)
    /\ \A ev \in Inputs(ExchangeLp) : ev.body \in ExchangeBodies
    /\ \A ev : \A a \in Replies(ExchangeLp, ev) :
          a.src # ExchangeLp /\ a.body \in ExchangeBodies /\ Le(ev.ts, a.ts)

\* An order that is placed gets the next number and comes last.
Books(b, ev, c) ==
    LET a == ev.body
        o == [id |-> b.nextOrderId, trader |-> a.trader, qty |-> a.qty, price |-> a.price]
    IN  /\ DOMAIN b = DOMAIN c /\ c.nextOrderId = b.nextOrderId + 1
        /\ c.bids = IF a.side = "bid" THEN b.bids \cup {o} ELSE b.bids
        /\ c.asks = IF a.side = "ask" THEN b.asks \cup {o} ELSE b.asks

\* What on_event does: r is its result.
Deals(s, ev, r) ==
    /\ ~ r.missing /\ ~ r.fatal /\ IsSequence(r.sends)
    /\ \A i \in 1..Len(r.sends) : IsFill(r.sends[i], ev.ts)
    /\ Book \in r.writes /\ (Audit \in r.writes \/ r.state.audit = s.audit)
    /\ ev.body.kind = "match" =>
          \A n \in 0..Len(log) : OrdersSound /\ Ledger(s.book, n) => Ledger(r.state.book, n)
    /\ ev.body.kind = "place" /\ DOMAIN s.book = {"nextOrderId", "lastTradePrice", "bids", "asks"}
          => Books(s.book, ev, r.state.book)

LEMMA ExchangeHandler ==
    ASSUME ExchangeProgram, NEW s, NEW ev, ForExchange(ev.body),
           NEW r, r = OnEvent(ExchangeLp, s, ev)
    PROVE  Deals(s, ev, r)
  <1> DEFINE h == MK!exchange_on_event(s, ev)
  <1>1. r = [state |-> h.state, sends |-> h.sends, writes |-> h.writes,
             missing |-> FALSE, fatal |-> FALSE]
    BY Zenon DEF ExchangeProgram
  <1> HIDE DEF h
  <1>2. /\ r.state = h.state /\ r.sends = h.sends /\ r.writes = h.writes
        /\ r.missing = FALSE /\ r.fatal = FALSE
    BY <1>1
  <1>3. CASE ev.body.kind = "match"
    <2>1. h = MK!Match(s, ev) /\ ev.body.maxTrades \in Nat
      BY <1>3 DEF h, MK!exchange_on_event, ForExchange
    <2>2. PICK f : /\ IsMatching(f, ev.body.maxTrades, s, ev.ts)
                   /\ LET all == f[ev.body.maxTrades]
                      IN  MK!Match(s, ev) =
                            [state |-> all.state, sends |-> all.fills,
                             writes |-> {Book} \cup (IF all.fills = <<>> THEN {} ELSE {Audit})]
      BY <2>1, MatchIs
    <2> DEFINE all == f[ev.body.maxTrades]
    <2>3. Matched(all, s, ev.ts)
      BY <2>1, <2>2, MatchKeeps
    <2> HIDE DEF all
    <2>4. /\ r.state = all.state /\ r.sends = all.fills
          /\ r.writes = {Book} \cup (IF all.fills = <<>> THEN {} ELSE {Audit})
      BY <1>2, <2>1, <2>2 DEF all
    <2> QED
      BY <1>2, <1>3, <2>3, <2>4 DEF Matched, Deals
  <1>4. CASE ev.body.kind = "place"
    <2>1. h = MK!PlaceOrder(s, ev)
      BY <1>4 DEF h, MK!exchange_on_event
    <2>2. h.sends = <<>> /\ h.writes = {Book, Audit}
      BY <2>1 DEF MK!PlaceOrder
    <2>3. DOMAIN s.book = {"nextOrderId", "lastTradePrice", "bids", "asks"}
             => Books(s.book, ev, h.state.book)
      BY <2>1 DEF MK!PlaceOrder, Books
    <2> QED
      BY <1>2, <1>4, <2>2, <2>3, ShortSequences DEF Deals
  <1> QED
    BY <1>3, <1>4 DEF ForExchange

\* request_write is called for what changes, and load_entity brings back what was
\* saved of the book and of the log.
LEMMA ExchangeContract ==
    ASSUME ExchangeProgram, self = ExchangeLp, \A ev \in todo : ForExchange(ev.body)
    PROVE  AsksToWrite /\ LoadsWhatWasSaved
  <1>1. /\ Entities(self) = {Book, Audit} /\ Book # Audit
        /\ \A s : Part(self, s, Book) = s.book /\ Part(self, s, Audit) = s.audit
    BY DEF ExchangeProgram
  <1>2. ASSUME NEW ev \in todo, NEW r, r = OnEvent(self, state, ev)
        PROVE  /\ r.sends \in Seq(ToSet(r.sends))
               /\ \A e \in Entities(self) \ r.writes :
                     Part(self, r.state, e) = Part(self, state, e)
               /\ ~ r.missing
    <2>1. Deals(state, ev, r)
      BY <1>2, ExchangeHandler
    <2>2. r.sends \in Seq(ToSet(r.sends))
      BY <2>1, InSeq DEF Deals
    <2> QED
      BY <1>1, <2>1, <2>2 DEF Deals
  <1>3. AsksToWrite
    BY <1>2 DEF AsksToWrite
  <1>4. ASSUME NEW n \in base..Len(log), NEW e \in Entities(self)
        PROVE  Part(self, Restored(n), e)
                  = Part(self, IF e \in SavedAfter(n) THEN Saved(n)[e] ELSE state, e)
    <2>1. Restored(n) = MK!exchange_load_entity(state, Saved(n))
      BY DEF ExchangeProgram, Restored
    <2>2. DOMAIN Saved(n) = SavedAfter(n)
      BY DEF Saved
    <2> QED
      BY <1>1, <2>1, <2>2 DEF MK!exchange_load_entity
  <1> QED
    BY <1>3, <1>4 DEF LoadsWhatWasSaved

ExchangeInv == ServerInv(ExchangeBodies)

LEMMA ExchangeSound ==
    ASSUME ExchangeProgram, ExchangeClients, ExchangeInv
    PROVE  /\ Clients(ExchangeBodies) \/ self # ExchangeLp
           /\ \A ev \in todo \cup Executed(log) : ev.src # self /\ ForExchange(ev.body)
           /\ OrdersSound
  <1>1. Clients(ExchangeBodies) \/ self # ExchangeLp
    BY DEF ExchangeProgram, ExchangeClients, Clients, OfBodies
  <1>2. \A ev \in todo \cup Executed(log) : ev.src # self /\ ForExchange(ev.body)
    BY DEF ExchangeInv, ServerInv, ServerTraffic, FromClients, ExchangeClients
  <1>3. Len(log) \in Nat
    <2>1. IsSequence(log)
      BY DEF ExchangeInv, ServerInv, ReplayInv, Replays
    <2> QED
      BY <2>1, Appended
  <1> QED
    BY <1>1, <1>2, <1>3 DEF OrdersSound, Executed

LEMMA ExchangeStep ==
    ASSUME ExchangeProgram, ExchangeClients, self = ExchangeLp, AnswersAreNew, ExchangeInv,
           [Next]_vars
    PROVE  ExchangeInv'
  <1>1. Clients(ExchangeBodies)
    BY ExchangeSound
  <1>2. \A ev \in todo : ev.src # self /\ ForExchange(ev.body)
    BY ExchangeSound
  <1>3. ContractKept
    BY <1>2, ExchangeContract DEF ContractKept
  <1>4. OnlyAnswers
    <2> SUFFICES ASSUME NEW ev \in todo, NEW r, r = OnEvent(self, state, ev)
                 PROVE  /\ ~ r.missing
                        /\ \A i \in 1..Len(r.sends) :
                              r.sends[i].dst # self /\ r.sends[i].ts = ev.ts
      BY DEF OnlyAnswers
    <2>1. Deals(state, ev, r)
      BY <1>2, ExchangeHandler
    <2>2. TraderLp # self
      BY DEF ExchangeProgram
    <2> QED
      BY <2>1, <2>2 DEF Deals, IsFill
  <1> QED
    BY <1>1, <1>3, <1>4, ServerStep DEF ExchangeInv

LEMMA ExchangeInit ==
    ASSUME ExchangeProgram, ExchangeClients
    PROVE  Init /\ self = ExchangeLp => ExchangeInv
  <1>1. self = ExchangeLp => Clients(ExchangeBodies)
    BY DEF ExchangeProgram, ExchangeClients, Clients, OfBodies
  <1> QED
    BY <1>1, ServerInit DEF ExchangeInv

\* ExchangeLP keeps its side of the contract, whatever is matched, undone and
\* matched again: each handler asks to write the entities it changes, and
\* load_entity brings back those that were saved.
THEOREM ExchangeKeepsContract ==
    ASSUME ExchangeProgram, ExchangeClients
    PROVE  Spec /\ [](self = ExchangeLp /\ AnswersAreNew) => []ContractKept
  <1>1. Init /\ self = ExchangeLp => ExchangeInv
    BY ExchangeInit
  <1>2. ExchangeInv /\ self = ExchangeLp /\ AnswersAreNew /\ [Next]_vars => ExchangeInv'
    BY ExchangeStep
  <1>3. ASSUME ExchangeInv, self = ExchangeLp, AnswersAreNew
        PROVE  ContractKept
    <2>1. \A ev \in todo : ForExchange(ev.body)
      BY <1>3, ExchangeSound
    <2> QED
      BY <1>3, <2>1, ExchangeContract DEF ContractKept
  <1>4. ExchangeInv /\ self = ExchangeLp /\ AnswersAreNew => ContractKept
    BY <1>3
  <1> QED
    BY <1>1, <1>2, <1>4, PTL DEF Spec

-----------------------------------------------------------------------------
\* The book is the one that the standing records lead to.
LEMMA LedgerIdle ==
    ASSUME OrdersSound, NEW n \in 0..(Len(log)-1), n + 1 \notin Standing("place"),
           NEW b, Ledger(b, n)
    PROVE  Ledger(b, n + 1)
  <1>1. \A side : n + 1 \notin PlacedOn(side, n + 1)
    BY DEF PlacedOn, Placed
  <1>2. OrderNo(n + 1) = OrderNo(n)
    <2>1. n \in 0..Len(log) /\ OrderNo(n) \in Nat
      BY OrderNumbers DEF OrdersSound
    <2> QED
      BY <2>1, OrderNumbers DEF OrdersSound
  <1>3. SideHolds("bid", b.bids, n + 1)
    BY <1>1, SidePlaced DEF Ledger
  <1>4. SideHolds("ask", b.asks, n + 1)
    BY <1>1, SidePlaced DEF Ledger
  <1> QED
    BY <1>2, <1>3, <1>4 DEF Ledger

LEMMA LedgerPlaced ==
    ASSUME OrdersSound, NEW n \in 0..(Len(log)-1), n + 1 \in Standing("place"),
           NEW b, Ledger(b, n), NEW c, Books(b, log[n + 1].ev, c)
    PROVE  Ledger(c, n + 1)
  <1> DEFINE k == n + 1
             a == log[k].ev.body
             o == [id |-> b.nextOrderId, trader |-> a.trader, qty |-> a.qty, price |-> a.price]
  <1>1. /\ Len(log) \in Nat /\ k \in 1..Len(log) /\ IsOrder(a)
        /\ OrderNo(k) = OrderNo(n) + 1 /\ OrderNo(n) \in Nat
    <2>1. Len(log) \in Nat /\ k \in 1..Len(log) /\ a.kind = "place"
      BY DEF OrdersSound, Standing
    <2>2. IsOrder(a)
      BY <2>1 DEF OrdersSound, ForExchange
    <2>3. n \in 0..Len(log)
      BY <2>1
    <2> QED
      BY <2>1, <2>2, <2>3, OrderNumbers
  <1>2. o.id = OrderNo(k) /\ o.price = a.price /\ o.qty = a.qty /\ o.trader = a.trader
    BY <1>1 DEF Ledger
  <1>3. StemsFrom(o, k) /\ o.qty = a.qty
    <2>1. o = [id |-> OrderNo(k), trader |-> o.trader, qty |-> o.qty, price |-> a.price]
      BY <1>2
    <2>2. a.qty \in 1..a.qty
      BY <1>1 DEF IsOrder
    <2> HIDE DEF o
    <2> QED
      BY <1>2, <2>1, <2>2 DEF StemsFrom
  <1>4. /\ DOMAIN c = DOMAIN b /\ c.nextOrderId = b.nextOrderId + 1
        /\ c.bids = (IF a.side = "bid" THEN b.bids \cup {o} ELSE b.bids)
        /\ c.asks = (IF a.side = "ask" THEN b.asks \cup {o} ELSE b.asks)
    BY DEF Books
  <1> HIDE DEF o
  <1>5. \A side : k \in PlacedOn(side, k) <=> a.side = side
    BY <1>1 DEF PlacedOn, Placed
  <1>6. SideHolds("bid", c.bids, k)
    <2>1. \/ /\ k \in PlacedOn("bid", k)
             /\ \E x : /\ c.bids = b.bids \cup {x} /\ StemsFrom(x, k) /\ x.qty = log[k].ev.body.qty
          \/ k \notin PlacedOn("bid", k) /\ c.bids = b.bids
      BY <1>3, <1>4, <1>5
    <2> QED
      BY <2>1, SidePlaced DEF Ledger
  <1>7. SideHolds("ask", c.asks, k)
    <2>1. \/ /\ k \in PlacedOn("ask", k)
             /\ \E x : /\ c.asks = b.asks \cup {x} /\ StemsFrom(x, k) /\ x.qty = log[k].ev.body.qty
          \/ k \notin PlacedOn("ask", k) /\ c.asks = b.asks
      BY <1>3, <1>4, <1>5
    <2> QED
      BY <2>1, SidePlaced DEF Ledger
  <1> QED
    BY <1>1, <1>4, <1>6, <1>7 DEF Ledger

LEMMA LedgerFound ==
    ASSUME ExchangeProgram, ExchangeClients, self = ExchangeLp, ExchangeInv
    PROVE  Ledger(state.book, Len(log))
  <1> DEFINE T == {n \in Nat : n <= Len(log) => Ledger(Finds(log, n + 1).book, n)}
  <1>1. OrdersSound /\ Len(log) \in Nat
    BY ExchangeSound DEF OrdersSound
  <1>2. /\ \A i \in 1..Len(log) : log[i].pre.book = Finds(log, i).book
        /\ state.book = Finds(log, Len(log) + 1).book
    <2>1. Book \in Entities(self) /\ \A s : Part(self, s, Book) = s.book
      BY DEF ExchangeProgram
    <2>2. /\ \A i \in 1..Len(log) : Alike(log[i].pre, Finds(log, i))
          /\ Alike(state, Finds(log, Len(log) + 1))
      BY DEF ExchangeInv, ServerInv, ReplayInv, Replays
    <2> QED
      BY <2>1, <2>2 DEF Alike
  <1>3. 0 \in T
    <2>1. Finds(log, 0 + 1).book = MK!NewExchange.book
      BY DEF Finds, ExchangeProgram
    <2> DEFINE b == MK!NewExchange.book
    <2>2. /\ DOMAIN b = {"nextOrderId", "lastTradePrice", "bids", "asks"}
          /\ b.nextOrderId = 1 /\ b.bids = {} /\ b.asks = {}
      BY DEF MK!NewExchange
    <2>3. \A side : PlacedOn(side, 0) = {}
      BY <1>1 DEF PlacedOn, Placed, Standing
    <2>4. OrderNo(0) = 0
      BY <1>1, OrderNumbers
    <2>5. \A side : SideHolds(side, {}, 0)
      BY <2>3 DEF SideHolds
    <2>6. Ledger(b, 0)
      BY <2>2, <2>4, <2>5 DEF Ledger
    <2> QED
      BY <2>1, <2>6
  <1>4. ASSUME NEW n \in T
        PROVE  n + 1 \in T
    <2> SUFFICES ASSUME n + 1 <= Len(log)
                 PROVE  Ledger(Finds(log, (n + 1) + 1).book, n + 1)
      OBVIOUS
    <2> DEFINE k == n + 1
               ev == log[k].ev
               s == log[k].pre
               r == OnEvent(self, s, ev)
               next == Finds(log, k + 1)
    <2>1. /\ n \in 0..(Len(log)-1) /\ n \in 0..Len(log) /\ k \in 1..Len(log)
          /\ Ledger(s.book, n)
      BY <1>1, <1>2
    <2>2. next = IF ev.anti THEN s ELSE r.state
      <3>1. k + 1 # 1 /\ (k + 1) - 1 = k
        BY <2>1
      <3> QED
        BY <3>1 DEF Finds, Leaves
    <2>3. Deals(s, ev, r) /\ ForExchange(ev.body)
      <3>1. ForExchange(ev.body)
        BY <1>1, <2>1 DEF OrdersSound
      <3> QED
        BY <3>1, ExchangeHandler
    <2> HIDE DEF s, r, next
    <2>4. CASE ev.anti
      <3>1. k \notin Standing("place")
        BY <2>4 DEF Standing
      <3>2. Ledger(s.book, k)
        BY <1>1, <2>1, <3>1, LedgerIdle
      <3> QED
        BY <2>2, <2>4, <3>2 DEF next
    <2>5. CASE ~ ev.anti /\ ev.body.kind = "match"
      <3>1. k \notin Standing("place")
        BY <2>5 DEF Standing
      <3>2. Ledger(r.state.book, n)
        BY <1>1, <2>1, <2>3, <2>5 DEF Deals
      <3>3. Ledger(r.state.book, k)
        BY <1>1, <2>1, <3>1, <3>2, LedgerIdle
      <3> QED
        BY <2>2, <2>5, <3>3 DEF next
    <2>6. CASE ~ ev.anti /\ ev.body.kind = "place"
      <3>1. k \in Standing("place")
        BY <2>1, <2>6 DEF Standing
      <3>2. Books(s.book, ev, r.state.book)
        BY <2>1, <2>3, <2>6 DEF Deals, Ledger
      <3>3. Ledger(r.state.book, k)
        BY <1>1, <2>1, <3>1, <3>2, LedgerPlaced
      <3> QED
        BY <2>2, <2>6, <3>3 DEF next
    <2> QED
      BY <2>3, <2>4, <2>5, <2>6 DEF ForExchange
  <1>5. T \in SUBSET Nat
    OBVIOUS
  <1>6. T = Nat
    <2> HIDE DEF T
    <2> QED
      BY <1>3, <1>4, <1>5, Counting
  <1> QED
    BY <1>1, <1>2, <1>6

\* What is left of an order is a sum over at most one order.
LEMMA SumOfNone ==
    MK!MapThenSumSet(LAMBDA o : o.qty, {}) = 0
  <1> DEFINE It(f) == f = [s \in SUBSET {} |-> IF s = {} THEN 0
                              ELSE LET x == CHOOSE y \in s : TRUE IN x.qty + f[s \ {x}]]
             g == [s \in SUBSET {} |-> 0]
  <1>1. It(g)
    OBVIOUS
  <1>2. It(CHOOSE f : It(f))
    BY <1>1, Zenon
  <1>3. MK!MapThenSumSet(LAMBDA o : o.qty, {}) = (CHOOSE f : It(f))[{}]
    BY DEF MK!MapThenSumSet, MK!MapThenFoldSet
  <1> QED
    BY <1>2, <1>3

LEMMA SumOfOne ==
    ASSUME NEW o, o.qty \in Nat
    PROVE  MK!MapThenSumSet(LAMBDA x : x.qty, {o}) = o.qty
  <1> DEFINE Rest(f, s) == LET x == CHOOSE y \in s : TRUE IN x.qty + f[s \ {x}]
             It(f) == f = [s \in SUBSET {o} |-> IF s = {} THEN 0 ELSE Rest(f, s)]
             g == [s \in SUBSET {o} |-> IF s = {} THEN 0 ELSE o.qty]
  <1>1. \A f : f[{}] = 0 => Rest(f, {o}) = o.qty
    <2> TAKE f
    <2>1. (CHOOSE y \in {o} : TRUE) = o
      OBVIOUS
    <2>2. {o} \ {o} = {}
      OBVIOUS
    <2> QED
      BY <2>1, <2>2
  <1>2. \A s \in SUBSET {o} : s = {} \/ s = {o}
    OBVIOUS
  <1>3. It(g)
    <2>1. g[{}] = 0
      OBVIOUS
    <2>2. \A s \in SUBSET {o} : g[s] = IF s = {} THEN 0 ELSE Rest(g, s)
      <3>1. Rest(g, {o}) = o.qty
        BY <1>1, <2>1
      <3> HIDE DEF Rest
      <3> QED
        BY <1>2, <3>1
    <2>3. g = [s \in SUBSET {o} |-> g[s]]
      OBVIOUS
    <2> HIDE DEF g, Rest
    <2> QED
      BY <2>2, <2>3
  <1> HIDE DEF g
  <1>4. It(CHOOSE f : It(f))
    BY <1>3, Zenon
  <1>5. MK!MapThenSumSet(LAMBDA x : x.qty, {o}) = (CHOOSE f : It(f))[{o}]
    BY DEF MK!MapThenSumSet, MK!MapThenFoldSet
  <1> DEFINE h == CHOOSE f : It(f)
  <1> HIDE DEF h
  <1>6. \A s \in SUBSET {o} : h[s] = IF s = {} THEN 0 ELSE Rest(h, s)
    <2>1. It(h)
      BY <1>4 DEF h
    <2> HIDE DEF Rest
    <2> QED
      BY <2>1
  <1>7. h[{}] = 0 /\ h[{o}] = Rest(h, {o})
    <2> HIDE DEF Rest
    <2> QED
      BY <1>6
  <1> QED
    BY <1>1, <1>5, <1>7 DEF h

LEMMA LeftInBook ==
    ASSUME OrdersSound, Ledger(state.book, Len(log)), NEW k \in Standing("place"),
           NEW S, S = IF log[k].ev.body.side = "bid" THEN state.book.bids ELSE state.book.asks
    PROVE  /\ IsGone(S, k) => MK!LeftOf(k) = 0
           /\ IsWhole(S, k) => MK!LeftOf(k) = log[k].ev.body.qty
  <1> DEFINE b == state.book
             a == log[k].ev.body
             N == Len(log)
             Mine == {o \in b.bids \cup b.asks : o.id = MK!OrderId(k)}
  <1>1. N \in 0..N /\ k \in 1..N /\ k \in Placed(N) /\ IsOrder(a)
    BY DEF OrdersSound, Standing, Placed, ForExchange
  <1>2. MK!OrderId(k) = OrderNo(k)
    <2>1. MK!OrderId(k) = Cardinality({j \in MK!Standing("place") : j <= k})
      BY DEF MK!OrderId, MK!Cardinality, Cardinality
    <2>2. MK!Standing("place") = Standing("place")
      BY DEF MK!Standing, Standing
    <2>3. {j \in MK!Standing("place") : j <= k} = Placed(k)
      BY <2>2 DEF Placed
    <2> QED
      BY <2>1, <2>3 DEF OrderNo
  <1>3. MK!LeftOf(k) = MK!MapThenSumSet(LAMBDA o : o.qty, Mine)
    BY DEF MK!LeftOf
  <1> HIDE DEF N
  <1>4. ASSUME NEW side \in {"bid", "ask"}, NEW O, SideHolds(side, O, N), a.side # side
        PROVE  \A o \in O : o.id # OrderNo(k)
    <2> TAKE o \in O
    <2>1. PICK i \in PlacedOn(side, N) : o.id = OrderNo(i)
      BY <1>1, <1>4, OrdersOf DEF N
    <2>2. i \in Placed(N) /\ i # k /\ i \in Nat /\ k \in Nat
      BY <1>1, <1>4 DEF PlacedOn, Placed, Standing
    <2>3. OrderNo(i) \in Nat /\ OrderNo(k) \in Nat /\ (i < k => OrderNo(i) < OrderNo(k))
          /\ (k < i => OrderNo(k) < OrderNo(i))
      <3>1. /\ \A x, y \in Placed(N) : x < y <=> OrderNo(x) < OrderNo(y)
            /\ \A x \in Placed(N) : OrderNo(x) \in 1..OrderNo(N)
            /\ OrderNo(N) \in Nat
        BY <1>1, OrderNumbers DEF OrdersSound, N
      <3> QED
        BY <1>1, <2>2, <3>1
    <2> QED
      BY <2>1, <2>2, <2>3
  <1>5. Mine = {o \in S : o.id = OrderNo(k)}
    <2>1. CASE a.side = "bid"
      <3>1. \A o \in b.asks : o.id # OrderNo(k)
        BY <1>4, <2>1 DEF Ledger, N
      <3> QED
        BY <1>2, <2>1, <3>1
    <2>2. CASE a.side = "ask"
      <3>1. \A o \in b.bids : o.id # OrderNo(k)
        BY <1>4, <2>2 DEF Ledger, N
      <3> QED
        BY <1>2, <2>2, <3>1
    <2> QED
      BY <1>1, <2>1, <2>2 DEF IsOrder
  <1> HIDE DEF Mine
  <1>6. CASE IsGone(S, k)
    <2>1. Mine = {}
      BY <1>5, <1>6 DEF IsGone
    <2>2. MK!LeftOf(k) = 0
      BY <1>3, <2>1, SumOfNone
    <2>3. ~ IsWhole(S, k)
      BY <1>6 DEF IsGone, IsWhole
    <2> QED
      BY <2>2, <2>3
  <1>7. CASE IsWhole(S, k) /\ ~ IsGone(S, k)
    <2>1. PICK o \in S : o.id = OrderNo(k) /\ o.qty = a.qty
      BY <1>7 DEF IsWhole
    <2>2. Mine = {o}
      <3>1. \A p \in S : p.id = o.id => p = o
        BY <1>1 DEF Ledger, SideHolds, IsOrder
      <3> QED
        BY <1>5, <2>1, <3>1
    <2>3. o.qty \in Nat
      BY <1>1, <2>1 DEF IsOrder
    <2>4. MK!LeftOf(k) = o.qty
      BY <1>3, <2>2, <2>3, SumOfOne
    <2> QED
      BY <1>7, <2>1, <2>4
  <1> QED
    BY <1>6, <1>7

\* Price-time priority holds by virtual time, whenever orders and requests to match
\* come, and whatever was matched too early and undone: of two standing orders of
\* one side, the earlier one with a price that is no worse is filled before the
\* other one gets anything.
THEOREM ExchangeEarlierFirst ==
    ASSUME ExchangeProgram, ExchangeClients
    PROVE  Spec /\ [](self = ExchangeLp /\ AnswersAreNew) => []MK!EarlierOrderFirst
  <1>1. ASSUME ExchangeInv, self = ExchangeLp
        PROVE  MK!EarlierOrderFirst
    <2>1. /\ OrdersSound /\ Ledger(state.book, Len(log)) /\ Len(log) \in Nat
          /\ \A k \in 1..Len(log) : log[k].ev.ts \in Stamp
          /\ \A k \in 1..Len(log) : \A j \in 1..(k-1) : Le(log[j].ev.ts, log[k].ev.ts)
      <3>1. OrdersSound /\ Ledger(state.book, Len(log))
        BY <1>1, ExchangeSound, LedgerFound
      <3>2. /\ \A k \in 1..Len(log) : log[k].ev.ts \in Stamp
            /\ \A k \in 1..Len(log) : \A j \in 1..(k-1) : Le(log[j].ev.ts, log[k].ev.ts)
        BY <1>1 DEF ExchangeInv, ServerInv, EventInv, Logs, ServerTraffic, LogAtGvt
      <3> QED
        BY <3>1, <3>2 DEF OrdersSound
    <2> SUFFICES ASSUME NEW i \in Standing("place"), NEW j \in Standing("place"),
                        MK!Lt(log[i].ev.ts, log[j].ev.ts),
                        log[i].ev.body.side = log[j].ev.body.side,
                        MK!Signed(log[i].ev.body.side, log[i].ev.body.price)
                           >= MK!Signed(log[j].ev.body.side, log[j].ev.body.price),
                        MK!FilledOf(j) > 0
                 PROVE  MK!LeftOf(i) = 0
      BY DEF MK!EarlierOrderFirst, MK!Standing, Standing
    <2> DEFINE side == log[i].ev.body.side
               S == IF side = "bid" THEN state.book.bids ELSE state.book.asks
    <2>2. i \in 1..Len(log) /\ j \in 1..Len(log) /\ side \in {"bid", "ask"}
          /\ log[j].ev.body.qty \in Nat
      BY <2>1 DEF OrdersSound, Standing, ForExchange, IsOrder
    <2>3. i < j
      <3>1. Lt(log[i].ev.ts, log[j].ev.ts)
        BY DEF MK!Lt, Lt
      <3>2. log[i].ev.ts \in Stamp /\ log[j].ev.ts \in Stamp
        BY <2>1, <2>2
      <3>3. i # j
        BY <3>1, <3>2, StampOrder
      <3>4. CASE j < i
        <4>1. j \in 1..(i-1)
          BY <2>1, <2>2, <3>4
        <4>2. Le(log[j].ev.ts, log[i].ev.ts)
          BY <2>1, <2>2, <4>1
        <4> QED
          BY <3>1, <4>2 DEF Le
      <3> QED
        BY <2>2, <3>3, <3>4
    <2>4. i \in PlacedOn(side, Len(log)) /\ j \in PlacedOn(side, Len(log))
      BY <2>1, <2>2 DEF PlacedOn, Placed
    <2>5. IsWorth(side, log[i].ev.body) >= IsWorth(side, log[j].ev.body)
      BY DEF IsWorth
    <2>6. SideHolds(side, S, Len(log))
      BY <2>1, <2>2 DEF Ledger
    <2>7. IsWhole(S, j) \/ IsGone(S, i)
      BY <2>3, <2>4, <2>5, <2>6 DEF SideHolds
    <2>8. ~ IsWhole(S, j)
      <3>1. IsWhole(S, j) => MK!LeftOf(j) = log[j].ev.body.qty
        BY <2>1, LeftInBook
      <3>2. MK!FilledOf(j) = log[j].ev.body.qty - MK!LeftOf(j)
        BY DEF MK!FilledOf
      <3> QED
        BY <2>2, <3>1, <3>2
    <2> QED
      BY <2>1, <2>7, <2>8, LeftInBook
  <1>2. Init /\ self = ExchangeLp => ExchangeInv
    BY ExchangeInit
  <1>3. ExchangeInv /\ self = ExchangeLp /\ AnswersAreNew /\ [Next]_vars => ExchangeInv'
    BY ExchangeStep
  <1>4. ExchangeInv /\ self = ExchangeLp => MK!EarlierOrderFirst
    BY <1>1
  <1> QED
    BY <1>2, <1>3, <1>4, PTL DEF Spec

-----------------------------------------------------------------------------
(***************************************************************************)
(* RegionLP of the missile example: its contract.                          *)
(***************************************************************************)
CONSTANTS MissileLp,                                            \* the LP
          Planes, OwnerLp(_), MinX, MaxX, FarAway, QueryEvery, Damage, \* of Missile
          MissileBodies                                         \* what is sent to it

MS == INSTANCE Missile WITH RegionLp <- MissileLp

\* The LP MissileLp is such a region: its planes are its entities, and the AOI LP is
\* another LP.
MissileProgram ==
    /\ Planes \in Seq(ToSet(Planes)) /\ MissileLp # AoiLp
    /\ InitState(MissileLp) = MS!InitRegion /\ Started(MissileLp) = {MS!FirstTick}
    /\ \A s, ev : OnEvent(MissileLp, s, ev) =
          [state |-> MS!on_event(s, ev).state, sends |-> MS!on_event(s, ev).sends,
           writes |-> MS!on_event(s, ev).writes, missing |-> FALSE, fatal |-> FALSE]
    /\ \A s, old : Load(MissileLp, s, old) = MS!load_entity(s, old)
    /\ Entities(MissileLp) = ToSet(Planes)
    /\ \A s, e : Part(MissileLp, s, e) = s.planes[e]

\* It gets ticks of its own, answers of the AOI LP and hits.
MissileClients ==
    /\ [kind |-> "tick"] \in MissileBodies
    /\ \A body \in MissileBodies :
          /\ body.kind \in {"tick", "result", "hit"}
          /\ body.kind = "result" => IsSequence(body.entities)
    /\ \A ev \in Inputs(MissileLp) : ev.body \in MissileBodies
    /\ \A ev : \A a \in Replies(MissileLp, ev) : a.body \in MissileBodies

\* A region knows its planes.
MissileState(s) == DOMAIN s = {"waiting", "planes"} /\ DOMAIN s.planes = ToSet(Planes)

\* What a handler asks to write and sends: r is its result.
Fights(s, r) ==
    /\ MissileState(r.state) /\ IsSequence(r.sends)
    /\ \A e \in ToSet(Planes) \ r.writes : r.state.planes[e] = s.planes[e]
    /\ \A i \in 1..Len(r.sends) : r.sends[i].dst = MissileLp => r.sends[i].body = [kind |-> "tick"]

\* Messages for others, or ticks.
NoneForItself(u) ==
    /\ IsSequence(u)
    /\ \A i \in 1..Len(u) : u[i].dst = MissileLp => u[i].body = [kind |-> "tick"]

LEMMA NoneJoined ==
    ASSUME NEW u, NoneForItself(u), NEW v, NoneForItself(v)
    PROVE  NoneForItself(u \o v)
  <1> DEFINE w == u \o v
  <1>1. Joins(w, u, v)
    BY Joined DEF NoneForItself
  <1> HIDE DEF w
  <1>2. ASSUME NEW i \in 1..Len(w), w[i].dst = MissileLp
        PROVE  w[i].body = [kind |-> "tick"]
    <2>1. CASE i \in 1..Len(u)
      <3>1. w[i] = u[i]
        BY <1>1, <2>1 DEF Joins
      <3> QED
        BY <1>2, <2>1, <3>1 DEF NoneForItself
    <2>2. CASE ~ (i \in 1..Len(u))
      <3>1. i - Len(u) \in 1..Len(v) /\ i = Len(u) + (i - Len(u))
        BY <1>1, <2>2 DEF Joins
      <3>2. w[i] = v[i - Len(u)]
        BY <1>1, <3>1 DEF Joins
      <3> QED
        BY <1>2, <3>1, <3>2 DEF NoneForItself
    <2> QED
      BY <2>1, <2>2
  <1> QED
    BY <1>1, <1>2 DEF NoneForItself, Joins, w

LEMMA NoneShort ==
    /\ NoneForItself(<<>>)
    /\ \A x : (x.dst = MissileLp => x.body = [kind |-> "tick"]) => NoneForItself(<<x>>)
  BY ShortSequences DEF NoneForItself

LEMMA PublishForOthers ==
    ASSUME MissileProgram, NEW ts, NEW planes
    PROVE  NoneForItself(MS!Publish(ts, planes))
  <1> DEFINE I == {i \in 1..Len(Planes) : planes[Planes[i]].alive}
             alive == MS!Ascending(I)
             plane(n) == Planes[alive[n]]
             msg(n) == MS!ToAoi(ts, [kind |-> "update", entity |-> plane(n),
                                     pos |-> planes[plane(n)].pos])
             u == MS!Publish(ts, planes)
             k == MS!Cardinality(I)
  <1>1. k \in Nat
    <2>1. Len(Planes) \in Nat
      BY DEF MissileProgram
    <2>2. IsFiniteSet(I)
      <3>1. IsFiniteSet(1..Len(Planes)) /\ I \subseteq 1..Len(Planes)
        BY <2>1, FS_Interval
      <3> HIDE DEF I
      <3> QED
        BY <3>1, FS_Subset
    <2>3. k = Cardinality(I)
      BY Zenon DEF MS!Cardinality, Cardinality
    <2> HIDE DEF I, k
    <2> QED
      BY <2>2, <2>3, FS_CardinalityType
  <1>2. u = [n \in DOMAIN alive |-> msg(n)]
    BY DEF MS!Publish
  <1>3. DOMAIN alive = 1..k
    BY DEF MS!Ascending
  <1>4. \A n : msg(n).dst # MissileLp
    BY DEF MS!ToAoi, MissileProgram
  <1> HIDE DEF alive, msg, u, k
  <1>5. u = [n \in 1..k |-> msg(n)]
    BY <1>2, <1>3
  <1>6. u \in Seq({msg(n) : n \in 1..k}) /\ Len(u) = k /\ \A n \in 1..k : u[n] = msg(n)
    BY <1>1, <1>5
  <1>7. NoneForItself(u)
    BY <1>4, <1>6 DEF NoneForItself, IsSequence
  <1> QED
    BY <1>7 DEF u

LEMMA MissileHandler ==
    ASSUME MissileProgram, MissileClients, NEW s, MissileState(s),
           NEW ev, ev.body \in MissileBodies, NEW r, r = OnEvent(MissileLp, s, ev)
    PROVE  Fights(s, r) /\ ~ r.missing /\ ~ r.fatal
  <1> DEFINE h == MS!on_event(s, ev)
             body == [kind |-> "tick"]
             Does(x) == /\ MissileState(x.state) /\ NoneForItself(x.sends)
                        /\ \A e \in ToSet(Planes) \ x.writes :
                              x.state.planes[e] = s.planes[e]
  <1>1. r = [state |-> h.state, sends |-> h.sends, writes |-> h.writes,
             missing |-> FALSE, fatal |-> FALSE]
    BY Zenon DEF MissileProgram
  <1> HIDE DEF h
  <1>2. /\ r.state = h.state /\ r.sends = h.sends /\ r.writes = h.writes
        /\ r.missing = FALSE /\ r.fatal = FALSE
    BY <1>1
  <1> SUFFICES Does(h)
    BY <1>2 DEF Fights, NoneForItself
  <1>3. ASSUME NEW st, NEW out, NEW w, h = [state |-> st, sends |-> out, writes |-> w]
        PROVE  h.state = st /\ h.sends = out /\ h.writes = w
    BY <1>3
  <1>4. DOMAIN s = {"waiting", "planes"} /\ DOMAIN s.planes = ToSet(Planes)
    BY DEF MissileState
  <1>5. ASSUME h = [state |-> s, sends |-> <<>>, writes |-> {}]
        PROVE  Does(h)
    BY <1>3, <1>5, NoneShort
  <1>6. MissileLp # AoiLp
    BY DEF MissileProgram
  <1>7. CASE ev.body.kind = "tick"
    <2> DEFINE t == ev.ts.time
               planes == [p \in DOMAIN s.planes |-> MS!Moved(s.planes[p])]
               asks == MS!AsksAt(s, planes, t)
               wait == IF asks THEN MS!Request(t) ELSE s.waiting
               query == IF asks
                        THEN <<MS!ToAoi(ev.ts, [kind |-> "query", req |-> MS!Request(t),
                                                pos |-> planes[MS!Shooter(t)].pos])>>
                        ELSE <<>>
               tick == IF t + 1 <= EndTime
                       THEN <<[ts |-> [time |-> t + 1, sequence |-> 0],
                               dst |-> MissileLp, body |-> body]>>
                       ELSE <<>>
               out == MS!Publish(ev.ts, planes) \o query \o tick
               st == [planes |-> planes, waiting |-> wait]
    <2>1. h = MS!on_tick_(s, ev)
      BY <1>7 DEF h, MS!on_event
    <2>2. CASE t = 0 \/ t > EndTime
      <3>1. h = [state |-> s, sends |-> <<>>, writes |-> {}]
        BY <2>1, <2>2, Zenon DEF MS!on_tick_
      <3> QED
        BY <1>5, <3>1
    <2>3. CASE ~ (t = 0 \/ t > EndTime)
      <3>1. h = [state |-> st, sends |-> out, writes |-> DOMAIN s.planes]
        BY <2>1, <2>3, Zenon DEF MS!on_tick_
      <3>2. DOMAIN planes = ToSet(Planes)
        BY <1>4
      <3>3. NoneForItself(MS!Publish(ev.ts, planes))
        BY PublishForOthers
      <3>4. \A x : MS!ToAoi(ev.ts, x).dst # MissileLp
        BY <1>6 DEF MS!ToAoi
      <3>5. NoneForItself(query)
        BY <3>4, NoneShort
      <3>6. NoneForItself(tick)
        BY NoneShort
      <3> HIDE DEF planes, query, tick, wait
      <3>7. NoneForItself(MS!Publish(ev.ts, planes) \o query)
        BY <3>3, <3>5, NoneJoined
      <3>8. NoneForItself(out)
        BY <3>6, <3>7, NoneJoined
      <3>9. MissileState(st)
        BY <3>2 DEF MissileState
      <3> HIDE DEF st, out
      <3>10. h.state = st /\ h.sends = out /\ h.writes = ToSet(Planes)
        BY <1>4, <3>1
      <3> QED
        BY <3>8, <3>9, <3>10
    <2> QED
      BY <2>2, <2>3
  <1>8. CASE ev.body.kind = "result"
    <2> DEFINE sh == ev.body.req[1]
               cleared == [s EXCEPT !.waiting = MS!NoRequest]
               targets == MS!Targets(ev.body.entities)
               target == ev.body.entities[MS!Min(targets)]
               fired == [cleared EXCEPT !.planes[sh].lastFireTime = ev.ts.time,
                                        !.planes[sh].shotsFired = @ + 1]
               shot == [ts |-> [time |-> ev.ts.time + 1, sequence |-> 0],
                        dst |-> OwnerLp(target),
                        body |-> [kind |-> "hit", shooter |-> sh, target |-> target,
                                  damage |-> Damage]]
    <2>1. h = MS!on_aoi_result_(s, ev)
      BY <1>8 DEF h, MS!on_event
    <2>2. CASE s.waiting = MS!NoRequest \/ ev.body.req # s.waiting
      <3>1. h = [state |-> s, sends |-> <<>>, writes |-> {}]
        BY <2>1, <2>2 DEF MS!on_aoi_result_
      <3> QED
        BY <1>5, <3>1
    <2>3. /\ DOMAIN cleared = {"waiting", "planes"} /\ cleared.planes = s.planes
          /\ MissileState(cleared)
      BY <1>4 DEF MissileState
    <2>4. ASSUME NEW w, h = [state |-> cleared, sends |-> <<>>, writes |-> w]
          PROVE  Does(h)
      <3> HIDE DEF cleared
      <3> QED
        BY <1>3, <2>3, <2>4, NoneShort
    <2>5. CASE /\ ~ (s.waiting = MS!NoRequest \/ ev.body.req # s.waiting)
               /\ targets = {}
      <3>1. h = [state |-> cleared, sends |-> <<>>, writes |-> {}]
        BY <2>1, <2>5 DEF MS!on_aoi_result_
      <3> QED
        BY <2>4, <3>1
    <2>6. CASE /\ ~ (s.waiting = MS!NoRequest \/ ev.body.req # s.waiting)
               /\ targets # {} /\ ~ s.planes[sh].alive
      <3>1. h = [state |-> cleared, sends |-> <<>>, writes |-> {sh}]
        BY <2>1, <2>6 DEF MS!on_aoi_result_
      <3> QED
        BY <2>4, <3>1
    <2>7. CASE /\ ~ (s.waiting = MS!NoRequest \/ ev.body.req # s.waiting)
               /\ targets # {} /\ s.planes[sh].alive
      <3>1. h = [state |-> fired, sends |-> <<shot>>, writes |-> {sh}]
        BY <2>1, <2>7 DEF MS!on_aoi_result_
      <3>2. OwnerLp(target) # MissileLp
        <4>1. IsSequence(ev.body.entities)
          BY <1>8 DEF MissileClients
        <4>2. Len(ev.body.entities) \in Nat
          BY <4>1 DEF IsSequence
        <4>3. targets \subseteq Nat /\ \A i \in targets : OwnerLp(ev.body.entities[i]) # MissileLp
          BY <4>2 DEF MS!Targets
        <4> HIDE DEF targets
        <4>4. MS!Min(targets) \in targets
          <5>1. Min(targets) \in targets
            BY <2>7, <4>3, LeastNat
          <5> QED
            BY <5>1 DEF MS!Min, Min
        <4> QED
          BY <4>3, <4>4
      <3>3. /\ MissileState(fired)
            /\ \A e \in ToSet(Planes) \ {sh} : fired.planes[e] = s.planes[e]
        <4> DEFINE pls == [s.planes EXCEPT ![sh] =
                              [@ EXCEPT !.lastFireTime = ev.ts.time,
                                        !.shotsFired = @ + 1]]
        <4>1. /\ DOMAIN fired = {"waiting", "planes"}
              /\ DOMAIN fired.planes = DOMAIN s.planes
              /\ \A e \in DOMAIN s.planes \ {sh} : fired.planes[e] = s.planes[e]
          <5> HIDE DEF cleared
          <5> QED
            BY <2>3
        <4> QED
          BY <1>4, <4>1 DEF MissileState
      <3>4. NoneForItself(<<shot>>)
        <4>1. shot.dst # MissileLp
          BY <3>2
        <4> HIDE DEF shot
        <4> QED
          BY <4>1, NoneShort
      <3> HIDE DEF fired, shot, sh
      <3>5. h.state = fired /\ h.sends = <<shot>> /\ h.writes = {sh}
        BY <3>1
      <3> QED
        BY <3>3, <3>4, <3>5
    <2> QED
      BY <2>2, <2>5, <2>6, <2>7
  <1>9. CASE ev.body.kind = "hit"
    <2> DEFINE b == ev.body
               tgt == MS!Hit(s.planes[b.target], b.damage)
               died == s.planes[b.target].alive /\ ~ tgt.alive
               mine == OwnerLp(b.shooter) = MissileLp
               pls == [p \in DOMAIN s.planes |->
                          LET pl == IF p = b.target THEN tgt ELSE s.planes[p]
                          IN  IF mine /\ died /\ p = b.shooter
                              THEN [pl EXCEPT !.kills = @ + 1] ELSE pl]
               st == [s EXCEPT !.planes = pls]
               gone == MS!ToAoi(ev.ts, [kind |-> "update", entity |-> b.target,
                                        pos |-> FarAway])
               out == IF died THEN <<gone>> ELSE <<>>
               w == {b.target} \cup
                    (IF mine /\ s.planes[b.target].alive THEN {b.shooter} ELSE {})
    <2>1. h = MS!on_missile_hit_(s, ev)
      BY <1>9 DEF h, MS!on_event
    <2>2. CASE b.target = 0
      <3>1. h = [state |-> s, sends |-> <<>>, writes |-> {}]
        BY <2>1, <2>2 DEF MS!on_missile_hit_
      <3> QED
        BY <1>5, <3>1
    <2>3. CASE b.target # 0
      <3>1. h = [state |-> st, sends |-> out, writes |-> w]
        BY <2>1, <2>3 DEF MS!on_missile_hit_
      <3>2. DOMAIN pls = ToSet(Planes)
        BY <1>4
      <3>3. \A e \in ToSet(Planes) \ w : pls[e] = s.planes[e]
        <4> SUFFICES ASSUME NEW e \in ToSet(Planes) \ w
                     PROVE  pls[e] = s.planes[e]
          OBVIOUS
        <4>1. e # b.target /\ ~ (mine /\ died /\ e = b.shooter)
          OBVIOUS
        <4> HIDE DEF tgt, died, mine
        <4> QED
          BY <1>4, <4>1
      <3>4. gone.dst # MissileLp
        BY <1>6 DEF MS!ToAoi
      <3> HIDE DEF pls, gone, w
      <3>5. MissileState(st) /\ st.planes = pls
        BY <1>4, <3>2 DEF MissileState
      <3>6. NoneForItself(out)
        BY <3>4, NoneShort
      <3> HIDE DEF st, out
      <3>7. h.state = st /\ h.sends = out /\ h.writes = w
        BY <3>1
      <3> QED
        BY <3>3, <3>5, <3>6, <3>7
    <2> QED
      BY <2>2, <2>3
  <1>10. ev.body.kind \in {"tick", "result", "hit"}
    BY DEF MissileClients
  <1> HIDE DEF Does
  <1> QED
    BY <1>7, <1>8, <1>9, <1>10

\* What is sent to the region has its bodies, and it knows its planes.
MissileInv == EventInv /\ BodiesInv(MissileBodies) /\ MissileState(state)

LEMMA MissileContract ==
    ASSUME MissileProgram, MissileClients, self = MissileLp, MissileInv
    PROVE  AsksToWrite /\ LoadsWhatWasSaved
  <1>1. \A s, e : Part(self, s, e) = s.planes[e]
    BY DEF MissileProgram
  <1>2. Entities(self) = ToSet(Planes)
    BY DEF MissileProgram
  <1>3. ASSUME NEW ev \in todo, NEW r, r = OnEvent(self, state, ev)
        PROVE  /\ r.sends \in Seq(ToSet(r.sends))
               /\ \A e \in Entities(self) \ r.writes :
                     Part(self, r.state, e) = Part(self, state, e)
               /\ ~ r.missing
    <2>1. ev.body \in MissileBodies
      BY DEF MissileInv, BodiesInv, OfBodies
    <2>2. Fights(state, r) /\ ~ r.missing
      BY <1>3, <2>1, MissileHandler DEF MissileInv
    <2>3. r.sends \in Seq(ToSet(r.sends))
      BY <2>2, InSeq DEF Fights
    <2> QED
      BY <1>1, <1>2, <2>2, <2>3 DEF Fights
  <1>4. AsksToWrite
    BY <1>3 DEF AsksToWrite
  <1>5. ASSUME NEW n \in base..Len(log), NEW e \in Entities(self)
        PROVE  Part(self, Restored(n), e)
                  = Part(self, IF e \in SavedAfter(n) THEN Saved(n)[e] ELSE state, e)
    <2>1. Restored(n) = MS!load_entity(state, Saved(n))
      BY DEF MissileProgram, Restored
    <2>2. DOMAIN Saved(n) = SavedAfter(n)
      BY DEF Saved
    <2>3. /\ DOMAIN state = {"waiting", "planes"} /\ e \in DOMAIN state.planes
      BY <1>2, <1>5 DEF MissileInv, MissileState
    <2> DEFINE pls == [p \in DOMAIN state.planes |->
                          IF p \in SavedAfter(n) THEN Saved(n)[p].planes[p]
                                                 ELSE state.planes[p]]
    <2>4. Restored(n) = [state EXCEPT !.planes = pls]
      BY <2>1, <2>2, <2>3 DEF MS!load_entity
    <2>5. pls[e] = (IF e \in SavedAfter(n) THEN Saved(n)[e].planes[e] ELSE state.planes[e])
      BY <2>3
    <2> HIDE DEF pls
    <2>6. Restored(n).planes = pls
      BY <2>3, <2>4
    <2> QED
      BY <1>1, <2>5, <2>6
  <1> QED
    BY <1>4, <1>5 DEF LoadsWhatWasSaved

LEMMA MissileInit ==
    ASSUME MissileProgram, MissileClients
    PROVE  Init /\ self = MissileLp => MissileInv
  <1> SUFFICES ASSUME Init, self = MissileLp
               PROVE  MissileInv
    OBVIOUS
  <1>1. /\ log = <<>> /\ sentLog = <<>> /\ todo = {MS!FirstTick} /\ coming = Inputs(MissileLp)
        /\ deferred = {} /\ state = MS!InitRegion
    BY DEF Init, MissileProgram
  <1>2. MissileState(state)
    <2>1. MS!ToSet(Planes) = ToSet(Planes)
      BY DEF MS!ToSet, ToSet
    <2> QED
      BY <1>1, <2>1 DEF MS!InitRegion, MissileState
  <1>3. MS!FirstTick.body \in MissileBodies
    BY DEF MS!FirstTick, MissileClients
  <1>4. BodiesInv(MissileBodies)
    BY <1>1, <1>3 DEF BodiesInv, OfBodies, ToSelf, Executed, MissileClients
  <1> QED
    BY <1>2, <1>4, EventInit DEF MissileInv

LEMMA MissileStep ==
    ASSUME MissileProgram, MissileClients, self = MissileLp, AnswersAreNew, MissileInv,
           [Next]_vars
    PROVE  MissileInv'
  <1>1. ContractKept
    BY MissileContract DEF ContractKept
  <1>2. EventInv'
    BY <1>1, EventStep DEF MissileInv
  <1>3. ASSUME NEW ev \in todo
        PROVE  Fights(state, OnEvent(self, state, ev))
    <2>1. ev.body \in MissileBodies
      BY DEF MissileInv, BodiesInv, OfBodies
    <2> QED
      BY <2>1, MissileHandler DEF MissileInv
  <1>4. BodiesInv(MissileBodies)'
    <2>1. /\ OfBodies(Inputs(self), MissileBodies)
          /\ \A e : OfBodies(Replies(self, e), MissileBodies)
      BY DEF MissileClients, OfBodies
    <2>2. ASSUME NEW ev \in todo, Ready(ev)
          PROVE  LET sends == OnEvent(self, state, ev).sends IN
                    \A i \in 1..Len(sends) : sends[i].dst = self => sends[i].body \in MissileBodies
      BY <1>3 DEF Fights, MissileClients
    <2>3. EventInv /\ BodiesInv(MissileBodies) /\ AsksToWrite
      BY <1>1 DEF MissileInv, ContractKept
    <2> QED
      BY <2>1, <2>2, <2>3, BodiesStep
  <1>5. MissileState(state')
    <2>1. CASE state' = state
      BY <2>1 DEF MissileInv
    <2>2. ASSUME NEW ev \in todo, Runs(ev)
          PROVE  MissileState(state')
      BY <1>3, <2>2 DEF Runs, Fights
    <2>3. ASSUME NEW old, state' = Load(self, state, old)
          PROVE  MissileState(state')
      <3>1. state' = MS!load_entity(state, old)
        BY <2>3 DEF MissileProgram
      <3> QED
        BY <3>1 DEF MS!load_entity, MissileInv, MissileState
    <2> QED
      BY <2>1, <2>2, <2>3, StateMoves
  <1> QED
    BY <1>2, <1>4, <1>5 DEF MissileInv, MissileState

\* RegionLP of the missile example keeps its side of the contract, whatever is moved,
\* fired, hit and undone: each handler asks to write the planes it changes, the
\* shooter that is credited with a kill among them, and load_entity brings back the
\* planes that were saved.  It says nothing of m_waitingReqId, which no entity has.
THEOREM MissileKeepsContract ==
    ASSUME MissileProgram, MissileClients
    PROVE  Spec /\ [](self = MissileLp /\ AnswersAreNew) => []ContractKept
  <1>1. Init /\ self = MissileLp => MissileInv
    BY MissileInit
  <1>2. MissileInv /\ self = MissileLp /\ AnswersAreNew /\ [Next]_vars => MissileInv'
    BY MissileStep
  <1>3. MissileInv /\ self = MissileLp /\ AnswersAreNew => ContractKept
    BY MissileContract DEF ContractKept
  <1> QED
    BY <1>1, <1>2, <1>3, PTL DEF Spec

-----------------------------------------------------------------------------
\* RegionLP of the migration example: its contract, and what it keeps aside.
CONSTANTS RegionLp,         \* the LP
          Regions, AirportsPerRegion, RegionWidth, Speed, DirectoryLp,  \* of Flights
          Rng               \* its random numbers

FL == INSTANCE Flights

\* A region has a World and airports.
RegionState(s) == s = [planes |-> s.planes, airports |-> s.airports]

\* The LP RegionLp is a region: on_event and load_state are its handlers, its one
\* entity has the airports, and a plane it does not know is a missing entity.
RegionProgram ==
    /\ RegionState(InitState(RegionLp))
    /\ \A s, ev : OnEvent(RegionLp, s, ev) =
          [state |-> FL!region_on_event(Rng, s, ev).state,
           sends |-> FL!region_on_event(Rng, s, ev).sends,
           writes |-> FL!region_on_event(Rng, s, ev).writes,
           missing |-> FL!region_on_event(Rng, s, ev).missing,
           fatal |-> FL!region_on_event(Rng, s, ev).foreign]
    /\ \A s, old : Load(RegionLp, s, old) = FL!region_load_state(s, old)
    /\ Entities(RegionLp) = {StateEntity}
    /\ \A s : Part(RegionLp, s, StateEntity) = s.airports
    /\ \A ev : IsInstall(ev) <=> ev.body.kind = "install"
    /\ \A ev : Target(ev) = ev.body.plane

\* What on_event does with a region: an install makes its plane known and asks for
\* nothing; anything else about an unknown plane throws before it has acted; and
\* planes stay known.
LEMMA RegionHandler ==
    ASSUME RegionProgram, NEW s, RegionState(s), NEW ev, NEW r, r = OnEvent(RegionLp, s, ev)
    PROVE  /\ r.missing <=> ~ IsInstall(ev) /\ Target(ev) \notin DOMAIN s.planes
           /\ IsInstall(ev) => r.state.airports = s.airports
           /\ ~ IsInstall(ev) => r.writes = {StateEntity}
           /\ r.missing => r.state = s /\ r.sends = <<>>
           /\ IsSequence(r.sends)
           /\ ~ r.fatal =>
                 /\ RegionState(r.state)
                 /\ DOMAIN r.state.planes = DOMAIN s.planes \cup
                        (IF IsInstall(ev) THEN {Target(ev)} ELSE {})
  <1> DEFINE h == FL!region_on_event(Rng, s, ev)
             p == ev.body.plane
  <1>1. r = [state |-> h.state, sends |-> h.sends, writes |-> h.writes,
             missing |-> h.missing, fatal |-> h.foreign]
    BY Zenon DEF RegionProgram
  <1> HIDE DEF h
  <1>2. /\ r.state = h.state /\ r.sends = h.sends /\ r.writes = h.writes
        /\ r.missing = h.missing /\ r.fatal = h.foreign
    BY <1>1
  <1>3. /\ IsInstall(ev) <=> ev.body.kind = "install"
        /\ Target(ev) = p
    BY DEF RegionProgram
  <1>4. ASSUME NEW st, NEW out, NEW w, NEW e, h = FL!Result(st, out, w, e)
        PROVE  /\ h.state = st /\ h.sends = out /\ h.writes = w
               /\ h.missing = FALSE /\ h.foreign = FALSE
    BY <1>4 DEF FL!Result
  <1>5. ASSUME NEW pl
        PROVE  DOMAIN FL!WithPlane(s.planes, p, pl) = DOMAIN s.planes \cup {p}
    BY DEF FL!WithPlane
  <1>6. ASSUME NEW tt, NEW pl
        PROVE  IsSequence(FL!schedule_next_boundary_(tt, p, pl))
    BY ShortSequences DEF FL!schedule_next_boundary_
  <1>7. ASSUME NEW ap, NEW a, NEW tt
        PROVE  IsSequence(FL!start_next_(Rng, ap, a, tt).sends)
    BY ShortSequences DEF FL!start_next_
  <1>8. CASE ev.body.kind = "install"
    <2> DEFINE pl == ev.body.state
               new == FL!WithPlane(s.planes, p, pl)
               out == IF pl.inFlight THEN FL!schedule_next_boundary_(ev.ts.time, p, pl)
                                     ELSE <<>>
               st == [s EXCEPT !.planes = FL!WithPlane(@, p, pl)]
    <2>1. h = FL!Result(st, out, {}, <<>>)
      BY <1>8 DEF h, FL!region_on_event, FL!OnInstall
    <2>2. IsSequence(out)
      BY <1>6, ShortSequences
    <2>3. DOMAIN new = DOMAIN s.planes \cup {p}
      BY <1>5
    <2>4. st = [s EXCEPT !.planes = new]
      OBVIOUS
    <2> HIDE DEF new, out
    <2>5. st = [planes |-> new, airports |-> s.airports]
      BY <2>4 DEF RegionState
    <2> HIDE DEF st
    <2>6. h.state = st /\ h.sends = out /\ h.writes = {} /\ ~ h.missing /\ ~ h.foreign
      BY <1>4, <2>1
    <2> QED
      BY <1>2, <1>3, <1>8, <2>2, <2>3, <2>5, <2>6 DEF RegionState
  <1>9. CASE ev.body.kind # "install" /\ ~ FL!HasPlane(s, p)
    <2>1. h = [FL!Result(s, <<>>, {StateEntity}, <<>>) EXCEPT !.missing = TRUE]
      BY <1>9 DEF h, FL!region_on_event
    <2>2. /\ h.state = s /\ h.sends = <<>> /\ h.writes = {StateEntity}
          /\ h.missing = TRUE /\ h.foreign = FALSE
      BY <2>1 DEF FL!Result
    <2> QED
      BY <1>2, <1>3, <1>9, <2>2, ShortSequences DEF FL!HasPlane
  <1>10. CASE /\ ev.body.kind # "install" /\ FL!HasPlane(s, p)
              /\ ~ FL!HasAirport(s, ev.body.airport)
    <2>1. h = [FL!Result(s, <<>>, {StateEntity}, <<>>) EXCEPT !.foreign = TRUE]
      BY <1>10 DEF h, FL!region_on_event
    <2>2. /\ h.state = s /\ h.sends = <<>> /\ h.writes = {StateEntity}
          /\ h.missing = FALSE /\ h.foreign = TRUE
      BY <2>1 DEF FL!Result
    <2> QED
      BY <1>2, <1>3, <1>10, <2>2, ShortSequences DEF FL!HasPlane
  <1>11. ASSUME ev.body.kind # "install", FL!HasPlane(s, p),
                NEW pl, NEW aps, NEW out, IsSequence(out), NEW e,
                h = FL!Result([planes |-> FL!WithPlane(s.planes, p, pl), airports |-> aps],
                              out, {StateEntity}, e)
         PROVE  /\ ~ h.missing /\ ~ h.foreign /\ IsSequence(h.sends)
                /\ h.writes = {StateEntity} /\ RegionState(h.state)
                /\ DOMAIN h.state.planes = DOMAIN s.planes
    <2> DEFINE new == FL!WithPlane(s.planes, p, pl)
               st == [planes |-> new, airports |-> aps]
    <2>1. DOMAIN new = DOMAIN s.planes
      BY <1>5, <1>11 DEF FL!HasPlane
    <2> HIDE DEF new
    <2>2. RegionState(st) /\ st.planes = new
      BY DEF RegionState
    <2>3. h = FL!Result(st, out, {StateEntity}, e)
      BY <1>11 DEF new
    <2> HIDE DEF st
    <2>4. /\ h.state = st /\ h.sends = out /\ h.writes = {StateEntity}
          /\ h.missing = FALSE /\ h.foreign = FALSE
      BY <1>4, <2>3
    <2> QED
      BY <1>11, <2>1, <2>2, <2>4
  <1>12. CASE /\ ev.body.kind = "land" /\ FL!HasPlane(s, p)
              /\ FL!HasAirport(s, ev.body.airport)
    <2> DEFINE a == ev.body.airport
               pl == [s.planes[p] EXCEPT !.inFlight = FALSE, !.x = FL!airport_x(a),
                                         !.region = FL!region_of_airport(a),
                                         !.key = ev.body.key]
               q == FL!enqueue_arrival_(Rng, s.airports[a], a, p, ev.body.key, ev.ts.time)
               aps == [s.airports EXCEPT ![a] = q.airport]
    <2>1. \E e : h = FL!Result([planes |-> FL!WithPlane(s.planes, p, pl), airports |-> aps],
                              q.sends, {StateEntity}, e)
      BY <1>12 DEF h, FL!region_on_event, FL!OnLand
    <2>2. IsSequence(q.sends)
      BY <1>7, ShortSequences DEF FL!enqueue_arrival_
    <2> HIDE DEF pl, q, aps
    <2>3. /\ ~ h.missing /\ ~ h.foreign /\ IsSequence(h.sends)
          /\ h.writes = {StateEntity} /\ RegionState(h.state)
          /\ DOMAIN h.state.planes = DOMAIN s.planes
      BY <1>11, <1>12, <2>1, <2>2
    <2> QED
      BY <1>2, <1>3, <1>12, <2>3 DEF FL!HasPlane
  <1>13. CASE /\ ev.body.kind \notin {"install", "land"} /\ FL!HasPlane(s, p)
              /\ FL!HasAirport(s, ev.body.airport)
    <2> DEFINE a == ev.body.airport
               t == ev.ts.time
               next == FL!next_logical_key(ev.body.key)
               pl == [s.planes[p] EXCEPT !.inFlight = TRUE, !.key = next,
                                         !.dest = FL!Destination(Rng, a, ev.body.key)]
               land == FL!compute_land_time_(t, pl)
               q == FL!start_next_(Rng, [s.airports[a] EXCEPT !.busy = FALSE,
                                                              !.departures = @ + 1], a, t)
               aps == [s.airports EXCEPT ![a] = q.airport]
               first == IF land <= EndTime
                        THEN <<FL!Land(land, p, next, pl.dest)>>
                             \o FL!schedule_next_boundary_(t, p, pl)
                        ELSE <<>>
               out == first \o q.sends
    <2>1. \E e : h = FL!Result([planes |-> FL!WithPlane(s.planes, p, pl), airports |-> aps],
                              out, {StateEntity}, e)
      BY <1>13 DEF h, FL!region_on_event, FL!OnServiceDone
    <2>2. IsSequence(q.sends)
      BY <1>7
    <2> HIDE DEF pl, q, aps
    <2>3. IsSequence(FL!schedule_next_boundary_(t, p, pl))
      BY <1>6
    <2>4. IsSequence(first)
      BY <2>3, ShortSequences, Joined DEF Joins
    <2> HIDE DEF first
    <2>5. IsSequence(out)
      BY <2>2, <2>4, Joined DEF Joins
    <2> HIDE DEF out
    <2>6. /\ ~ h.missing /\ ~ h.foreign /\ IsSequence(h.sends)
          /\ h.writes = {StateEntity} /\ RegionState(h.state)
          /\ DOMAIN h.state.planes = DOMAIN s.planes
      BY <1>11, <1>13, <2>1, <2>5
    <2> QED
      BY <1>2, <1>3, <1>13, <2>6 DEF FL!HasPlane
  <1> QED
    BY <1>8, <1>9, <1>10, <1>12, <1>13

\* A region's state has its shape, and what is kept aside is for planes that are not
\* known: planes are not forgotten, since load_state leaves the World alone.
RegionInv ==
    /\ RegionState(state)
    /\ \A d \in deferred : ~ IsInstall(d) /\ Target(d) \notin DOMAIN state.planes

LEMMA RegionInit ==
    ASSUME RegionProgram, self = RegionLp, Init
    PROVE  RegionInv
  BY DEF RegionProgram, Init, RegionInv

LEMMA RegionStep ==
    ASSUME RegionProgram, self = RegionLp, RegionInv, [Next]_vars
    PROVE  RegionInv'
  <1> SUFFICES /\ RegionState(state')
               /\ \A d \in deferred' : ~ IsInstall(d) /\ Target(d) \notin DOMAIN state'.planes
    BY DEF RegionInv, RegionState
  <1>1. CASE UNCHANGED <<state, deferred>>
    BY <1>1 DEF RegionInv
  <1>2. ASSUME NEW ev \in todo, Runs(ev)
        PROVE  /\ RegionState(state')
               /\ \A d \in deferred' : ~ IsInstall(d) /\ Target(d) \notin DOMAIN state'.planes
    <2> DEFINE r == OnEvent(RegionLp, state, ev)
    <2>1. /\ r.missing <=> ~ IsInstall(ev) /\ Target(ev) \notin DOMAIN state.planes
          /\ r.missing => r.state = state
          /\ ~ r.fatal => /\ RegionState(r.state)
                          /\ DOMAIN r.state.planes = DOMAIN state.planes \cup
                                 (IF IsInstall(ev) THEN {Target(ev)} ELSE {})
      BY RegionHandler DEF RegionInv
    <2>2. /\ state' = r.state
          /\ \/ ~ r.missing /\ ~ r.fatal /\ deferred' = deferred \ Released(ev)
             \/ r.missing /\ ~ IsInstall(ev) /\ deferred' = deferred \cup {ev}
      BY <1>2 DEF Runs
    <2> HIDE DEF r
    <2>3. CASE r.missing
      BY <2>1, <2>2, <2>3 DEF RegionInv
    <2>4. CASE ~ r.missing
      BY <2>1, <2>2, <2>4 DEF RegionInv, Released
    <2> QED
      BY <2>3, <2>4
  <1>3. ASSUME NEW old, state' = Load(self, state, old), deferred' = deferred
        PROVE  RegionState(state') /\ state'.planes = state.planes
    <2>1. state' = FL!region_load_state(state, old)
      BY <1>3 DEF RegionProgram
    <2>2. state = [planes |-> state.planes, airports |-> state.airports]
      BY DEF RegionInv, RegionState
    <2>3. CASE StateEntity \in DOMAIN old
      <3> DEFINE aps == old[StateEntity].airports
      <3>1. state' = [state EXCEPT !.airports = aps]
        BY <2>1, <2>3 DEF FL!region_load_state
      <3> HIDE DEF aps
      <3> QED
        BY <2>2, <3>1 DEF RegionState
    <2>4. CASE StateEntity \notin DOMAIN old
      BY <2>1, <2>4 DEF FL!region_load_state, RegionInv
    <2> QED
      BY <2>3, <2>4
  <1>4. CASE deferred' = deferred /\ \E old : state' = Load(self, state, old)
    BY <1>3, <1>4 DEF RegionInv
  <1> QED
    BY <1>1, <1>2, <1>4, StateMoves

\* The migration example's region keeps its side of the contract: an install changes
\* no airport, everything else asks to write them, and load_state brings them back.
THEOREM RegionKeepsContract ==
    ASSUME RegionProgram
    PROVE  Spec /\ [](self = RegionLp /\ AnswersAreNew) => []ContractKept
  <1>1. ASSUME RegionInv, self = RegionLp, AnswersAreNew
        PROVE  ContractKept
    <2>1. Entities(self) = {StateEntity} /\ \A s : Part(self, s, StateEntity) = s.airports
      BY <1>1 DEF RegionProgram
    <2>2. ASSUME NEW ev \in todo, NEW r, r = OnEvent(self, state, ev)
          PROVE  /\ r.sends \in Seq(ToSet(r.sends))
                 /\ \A e \in Entities(self) \ r.writes :
                       Part(self, r.state, e) = Part(self, state, e)
                 /\ r.missing => r.sends = <<>> /\ Alike(r.state, state)
      <3>1. /\ IsInstall(ev) => r.state.airports = state.airports
            /\ ~ IsInstall(ev) => r.writes = {StateEntity}
            /\ r.missing => r.state = state /\ r.sends = <<>>
            /\ IsSequence(r.sends)
        BY <1>1, <2>2, RegionHandler DEF RegionInv
      <3>2. r.sends \in Seq(ToSet(r.sends))
        BY <3>1, InSeq
      <3> QED
        BY <2>1, <3>1, <3>2 DEF Alike
    <2>3. AsksToWrite
      BY <2>2 DEF AsksToWrite
    <2>4. ASSUME NEW n \in base..Len(log), NEW e \in Entities(self)
          PROVE  Part(self, Restored(n), e)
                    = Part(self, IF e \in SavedAfter(n) THEN Saved(n)[e] ELSE state, e)
      <3>1. e = StateEntity /\ Restored(n) = FL!region_load_state(state, Saved(n))
        BY <1>1, <2>1 DEF RegionProgram, Restored
      <3>2. DOMAIN Saved(n) = SavedAfter(n)
        BY DEF Saved
      <3> DEFINE aps == Saved(n)[StateEntity].airports
      <3>3. CASE StateEntity \in SavedAfter(n)
        <4>1. Restored(n) = [state EXCEPT !.airports = aps]
          BY <3>1, <3>2, <3>3 DEF FL!region_load_state
        <4>2. state = [planes |-> state.planes, airports |-> state.airports]
          BY <1>1 DEF RegionInv, RegionState
        <4> HIDE DEF aps
        <4>3. Restored(n).airports = aps
          BY <4>1, <4>2
        <4> QED
          BY <2>1, <3>1, <3>3, <4>3 DEF aps
      <3>4. CASE StateEntity \notin SavedAfter(n)
        BY <2>1, <3>1, <3>2, <3>4 DEF FL!region_load_state
      <3> QED
        BY <3>3, <3>4
    <2> QED
      BY <1>1, <2>3, <2>4 DEF ContractKept, LoadsWhatWasSaved
  <1>2. RegionInv /\ self = RegionLp /\ AnswersAreNew => ContractKept
    BY <1>1
  <1>3. Init /\ self = RegionLp => RegionInv
    BY RegionInit
  <1>4. RegionInv /\ self = RegionLp /\ [Next]_vars => RegionInv'
    BY RegionStep
  <1> QED
    BY <1>2, <1>3, <1>4, PTL DEF Spec

\* Install-before-use buffering forgets nothing: as long as an event is kept aside,
\* its plane is unknown to the region, whatever is undone, withdrawn and installed
\* meanwhile; so the install that it waits for is yet to be executed.
THEOREM DeferredStayMissing ==
    ASSUME RegionProgram
    PROVE  Spec /\ [](self = RegionLp) => []DeferredAreMissing
  <1>1. ASSUME RegionInv, self = RegionLp
        PROVE  DeferredAreMissing
    <2> SUFFICES ASSUME NEW d \in deferred
                 PROVE  OnEvent(self, state, d).missing
      BY DEF DeferredAreMissing
    <2> QED
      BY <1>1, RegionHandler DEF RegionInv
  <1>2. RegionInv /\ self = RegionLp => DeferredAreMissing
    BY <1>1
  <1>3. Init /\ self = RegionLp => RegionInv
    BY RegionInit
  <1>4. RegionInv /\ self = RegionLp /\ [Next]_vars => RegionInv'
    BY RegionStep
  <1> QED
    BY <1>2, <1>3, <1>4, PTL DEF Spec

=============================================================================

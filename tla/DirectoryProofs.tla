-------------------------- MODULE DirectoryProofs ---------------------------
(***************************************************************************)
(* Theorems about the directory, for every set of entities, owners, inputs *)
(* and GVT values: the state keeps its type, and pruning never changes the *)
(* owner that an event at or after the GVT is given.                       *)
(***************************************************************************)
EXTENDS Directory, StampLemmas

Event == Inputs \cup FossilEvent \cup {AntiOf(ev) : ev \in Inputs}

Timeline == UNION {[S -> Owners] : S \in SUBSET Stamp}

History == [Entities -> Timeline]

LogRecord == [ev : Event, saved : BOOLEAN, pre : History \cup {<<>>},
              preSeq : 1..(MaxSeq + 1), oldOwner : Owners \cup {0}]

Message == [at : Stamp, ts : Stamp, of : Event, kind : {"install", "use"},
            dst : Owners]

\* The fields an event has, by its kind.
LEMMA EventFields ==
    ASSUME NEW ev \in Event
    PROVE  /\ ev.ts \in Stamp
           /\ ev.kind \in {"update", "use", "fossil", "anti"}
           /\ ev.kind = "update" => ev \in UpdateEvent
           /\ ev.kind = "use" => ev \in UseEvent
           /\ ev.kind = "fossil" => ev \in FossilEvent
           /\ ev.kind = "anti" => \E in \in Inputs : ev = AntiOf(in)
  <1>1. CASE ev \in Inputs
    BY <1>1, DirectoryAssumption DEF UpdateEvent, UseEvent
  <1>2. CASE ev \in FossilEvent
    BY <1>2 DEF FossilEvent
  <1>3. CASE ev \in {AntiOf(in) : in \in Inputs}
    <2>1. PICK in \in Inputs : ev = AntiOf(in)
      BY <1>3
    <2>2. in.ts \in Stamp
      BY DirectoryAssumption DEF UpdateEvent, UseEvent
    <2> QED
      BY <2>1, <2>2 DEF AntiOf
  <1> QED
    BY <1>1, <1>2, <1>3 DEF Event

-----------------------------------------------------------------------------
(***************************************************************************)
(* The timelines.                                                          *)
(***************************************************************************)

\* A timeline is a function from some stamps to owners.
LEMMA TimelineFacts ==
    ASSUME NEW h \in History, NEW e \in Entities
    PROVE  /\ DOMAIN h = Entities
           /\ DOMAIN h[e] \in SUBSET Stamp
           /\ \A s \in DOMAIN h[e] : h[e][s] \in Owners
  <1>1. h[e] \in Timeline /\ DOMAIN h = Entities
    BY DEF History
  <1>2. PICK S \in SUBSET Stamp : h[e] \in [S -> Owners]
    BY <1>1 DEF Timeline
  <1> QED
    BY <1>1, <1>2

\* Latest is a latest element, and the only one.
LEMMA LatestFacts ==
    ASSUME NEW S \in SUBSET Stamp, S # {}
    PROVE  /\ Latest(S) \in S
           /\ \A b \in S : Le(b, Latest(S))
           /\ \A c \in S : (\A b \in S : Le(b, c)) => c = Latest(S)
  <1>1. PICK a \in S : /\ \A b \in S : Le(b, a)
                       /\ \A c \in S : (\A b \in S : Le(b, c)) => c = a
    BY LatestStamp
  <1>2. Latest(S) \in S /\ \A b \in S : Le(b, Latest(S))
    BY <1>1 DEF Latest
  <1> QED
    BY <1>1, <1>2

\* An owner, at every stamp.
LEMMA OwnerType ==
    ASSUME NEW h \in History, NEW e \in Entities, NEW ts \in Stamp
    PROVE  owner_at_(h, e, ts) \in Owners
  <1> DEFINE past == {s \in DOMAIN h[e] : Le(s, ts)}
  <1>1. past \in SUBSET Stamp /\ \A s \in past : h[e][s] \in Owners
    BY TimelineFacts
  <1>2. CASE past = {}
    BY <1>2, DirectoryAssumption DEF owner_at_
  <1>3. CASE past # {}
    <2>1. Latest(past) \in past
      BY <1>1, <1>3, LatestFacts
    <2> QED
      BY <1>1, <1>3, <2>1 DEF owner_at_
  <1> QED
    BY <1>2, <1>3

\* prune_history_ yields timelines, with fewer entries.
LEMMA PruneType ==
    ASSUME NEW h \in History, NEW g \in Stamp
    PROVE  /\ prune_history_(h, g) \in History
           /\ \A e \in Entities :
                DOMAIN prune_history_(h, g)[e]
                    = DOMAIN h[e] \ Dropped(DOMAIN h[e], g)
  <1> DEFINE keep(e) == DOMAIN h[e] \ Dropped(DOMAIN h[e], g)
             cut(e) == Restrict(h[e], keep(e))
  <1>1. ASSUME NEW e \in Entities
        PROVE  cut(e) \in Timeline /\ DOMAIN cut(e) = keep(e)
    <2>1. keep(e) \in SUBSET Stamp /\ \A s \in keep(e) : h[e][s] \in Owners
      BY TimelineFacts
    <2> HIDE DEF keep
    <2>2. cut(e) \in [keep(e) -> Owners]
      BY <2>1 DEF Restrict
    <2> QED
      BY <2>1, <2>2 DEF Timeline
  <1>2. prune_history_(h, g) = [e \in Entities |-> cut(e)]
    BY DEF prune_history_
  <1> HIDE DEF cut, keep
  <1>3. prune_history_(h, g) \in History
    BY <1>1, <1>2 DEF History
  <1>4. \A e \in Entities : DOMAIN prune_history_(h, g)[e] = keep(e)
    BY <1>1, <1>2
  <1> QED
    BY <1>3, <1>4 DEF keep

\* What prune_history_ keeps is unchanged.
LEMMA PruneValues ==
    ASSUME NEW h \in History, NEW g \in Stamp, NEW e \in Entities,
           NEW s \in DOMAIN h[e] \ Dropped(DOMAIN h[e], g)
    PROVE  prune_history_(h, g)[e][s] = h[e][s]
  BY DEF prune_history_, Restrict

\* The entry an event at or after g asks for is not dropped by pruning to g.
LEMMA FloorStays ==
    ASSUME NEW S \in SUBSET Stamp, NEW g \in Stamp, NEW ts \in Stamp, Le(g, ts),
           {s \in S : Le(s, ts)} # {}
    PROVE  Latest({s \in S : Le(s, ts)}) \notin Dropped(S, g)
  <1> DEFINE past == {s \in S : Le(s, ts)}
             old == {s \in S : Lt(s, g)}
             a == Latest(past)
  <1>1. a \in past /\ \A b \in past : Le(b, a)
    BY LatestFacts
  <1>2. \A s \in old : s \in past
    BY LeOrder
  <1> SUFFICES ASSUME a \in Dropped(S, g)
               PROVE  FALSE
    OBVIOUS
  <1>3. a \in old
    BY DEF Dropped
  <1>4. CASE g \in S
    <2>1. Le(g, a)
      BY <1>1, <1>4
    <2> QED
      BY <2>1, <1>3 DEF Le
  <1>5. CASE g \notin S
    <2>1. a \in old \ {Latest(old)}
      BY <1>3, <1>5 DEF Dropped
    <2>2. old \in SUBSET Stamp /\ \A b \in old : Le(b, a)
      BY <1>1, <1>2
    <2>3. a = Latest(old)
      BY <1>3, <2>2, LatestFacts
    <2> QED
      BY <2>1, <2>3
  <1> QED
    BY <1>4, <1>5

\* prune_history_ to g does not change what owner_at_ answers from g on.
LEMMA PruneKeepsOwner ==
    ASSUME NEW h \in History, NEW g \in Stamp, NEW e \in Entities,
           NEW ts \in Stamp, Le(g, ts)
    PROVE  owner_at_(prune_history_(h, g), e, ts) = owner_at_(h, e, ts)
  <1> DEFINE S == DOMAIN h[e]
             k == prune_history_(h, g)
             past == {s \in S : Le(s, ts)}
             left == {s \in DOMAIN k[e] : Le(s, ts)}
  <1>1. S \in SUBSET Stamp
    BY TimelineFacts
  <1>2. DOMAIN k[e] = S \ Dropped(S, g)
    BY PruneType
  <1>3. CASE past = {}
    <2>1. left = {}
      BY <1>2, <1>3
    <2> QED
      BY <1>3, <2>1 DEF owner_at_
  <1>4. CASE past # {}
    <2>1. past \in SUBSET Stamp
      BY <1>1
    <2>2. Latest(past) \in past /\ \A b \in past : Le(b, Latest(past))
      BY <1>4, <2>1, LatestFacts
    <2>3. Latest(past) \notin Dropped(S, g)
      BY <1>1, <1>4, FloorStays
    <2>4. Latest(past) \in left /\ left \subseteq past
      BY <1>2, <2>2, <2>3
    <2>5. \A b \in left : Le(b, Latest(past))
      BY <2>2, <2>4
    <2>6. Latest(past) = Latest(left)
      BY <2>1, <2>4, <2>5, LatestFacts
    <2>7. k[e][Latest(past)] = h[e][Latest(past)]
      BY <2>2, <2>3, PruneValues
    <2> QED
      BY <1>4, <2>4, <2>6, <2>7 DEF owner_at_
  <1> QED
    BY <1>3, <1>4

\* An update adds one entry to one timeline.
LEMMA UpdatedType ==
    ASSUME NEW h \in History, NEW ev \in UpdateEvent
    PROVE  /\ Updated(h, ev) \in History
           /\ \A e \in Entities : e # ev.entity => Updated(h, ev)[e] = h[e]
           /\ DOMAIN Updated(h, ev)[ev.entity] = DOMAIN h[ev.entity] \cup {ev.ts}
           /\ \A s \in DOMAIN h[ev.entity] :
                s # ev.ts => Updated(h, ev)[ev.entity][s] = h[ev.entity][s]
           /\ Updated(h, ev)[ev.entity][ev.ts] = ev.owner
  <1> DEFINE D == DOMAIN h[ev.entity] \cup {ev.ts}
             f == [s \in D |-> IF s = ev.ts THEN ev.owner ELSE h[ev.entity][s]]
  <1>1. ev.entity \in Entities /\ ev.owner \in Owners /\ ev.ts \in Stamp
    BY DEF UpdateEvent
  <1>2. DOMAIN h = Entities /\ DOMAIN h[ev.entity] \in SUBSET Stamp
        /\ \A s \in DOMAIN h[ev.entity] : h[ev.entity][s] \in Owners
    BY <1>1, TimelineFacts
  <1>3. f \in [D -> Owners] /\ D \in SUBSET Stamp
    BY <1>1, <1>2
  <1>4. f \in Timeline
    BY <1>3 DEF Timeline
  <1>5. Updated(h, ev) = [h EXCEPT ![ev.entity] = f]
    BY DEF Updated
  <1>6. /\ DOMAIN f = D
        /\ \A s \in DOMAIN h[ev.entity] : s # ev.ts => f[s] = h[ev.entity][s]
        /\ f[ev.ts] = ev.owner
    OBVIOUS
  <1> HIDE DEF f
  <1>7. Updated(h, ev) \in History
    BY <1>4, <1>5 DEF History
  <1>8. Updated(h, ev)[ev.entity] = f
    BY <1>1, <1>2, <1>5
  <1> QED
    BY <1>1, <1>2, <1>5, <1>6, <1>7, <1>8

\* An update that is not before any entry of its timeline is what owner_at_
\* answers from its stamp on, and nothing else changes.
LEMMA UpdatedOwner ==
    ASSUME NEW h \in History, NEW ev \in UpdateEvent,
           \A s \in DOMAIN h[ev.entity] : Le(s, ev.ts),
           NEW e \in Entities, NEW ts \in Stamp
    PROVE  owner_at_(Updated(h, ev), e, ts)
             = IF e = ev.entity /\ Le(ev.ts, ts) THEN ev.owner
                                                 ELSE owner_at_(h, e, ts)
  <1> DEFINE k == Updated(h, ev)
             past == {s \in DOMAIN h[e] : Le(s, ts)}
             now == {s \in DOMAIN k[e] : Le(s, ts)}
  <1>1. ev.entity \in Entities /\ ev.ts \in Stamp
    BY DEF UpdateEvent
  <1>2. DOMAIN h[e] \in SUBSET Stamp
    BY TimelineFacts
  <1>3. CASE e # ev.entity
    BY <1>3, UpdatedType DEF owner_at_
  <1>4. CASE e = ev.entity
    <2>1. DOMAIN k[e] = DOMAIN h[e] \cup {ev.ts}
      BY <1>4, UpdatedType
    <2>2. CASE Le(ev.ts, ts)
      <3>1. ev.ts \in now /\ now \in SUBSET Stamp
        BY <1>1, <1>2, <2>1, <2>2
      <3>2. \A b \in now : Le(b, ev.ts)
        BY <1>1, <1>4, <2>1, LeOrder
      <3>3. Latest(now) = ev.ts
        BY <3>1, <3>2, LatestFacts
      <3>4. k[e][ev.ts] = ev.owner
        BY <1>4, UpdatedType
      <3> QED
        BY <1>4, <2>2, <3>1, <3>3, <3>4 DEF owner_at_
    <2>3. CASE ~ Le(ev.ts, ts)
      <3>1. now = past
        BY <2>1, <2>3
      <3>2. \A s \in past : k[e][s] = h[e][s]
        BY <1>4, <2>3, UpdatedType
      <3>3. CASE past = {}
        BY <2>3, <3>1, <3>3 DEF owner_at_
      <3>4. CASE past # {}
        <4>1. Latest(past) \in past
          BY <1>2, <3>4, LatestFacts
        <4> QED
          BY <2>3, <3>1, <3>2, <3>4, <4>1 DEF owner_at_
      <3> QED
        BY <3>3, <3>4
    <2> QED
      BY <2>2, <2>3
  <1> QED
    BY <1>3, <1>4

-----------------------------------------------------------------------------
(***************************************************************************)
(* The owner by the log.  L stands for log, so that logs before and after  *)
(* a step can be compared.                                                 *)
(***************************************************************************)
Updates(L, e, n) == {i \in 1..n : L[i].ev.kind = "update" /\ L[i].ev.entity = e}

LogOwner(L, e, ts, n) ==
    LET past == {i \in Updates(L, e, n) : Le(L[i].ev.ts, ts)}
    IN  IF past = {} THEN DefaultOwner(e, ts) ELSE L[Max(past)].ev.owner

\* The definitions of Directory are these, of log.
LEMMA OwnerByLog ==
    \A e, ts, n : TrueOwner(e, ts, n) = LogOwner(log, e, ts, n)
  BY DEF TrueOwner, LogOwner, UpdatesOf, Updates

\* The updates among the first n entries depend on those entries alone.
LEMMA SameEntries ==
    ASSUME NEW L, NEW M, NEW n \in Nat, \A i \in 1..n : M[i] = L[i]
    PROVE  \A e, ts : /\ Updates(M, e, n) = Updates(L, e, n)
                      /\ LogOwner(M, e, ts, n) = LogOwner(L, e, ts, n)
  <1> TAKE e, ts
  <1>1. Updates(M, e, n) = Updates(L, e, n)
    BY DEF Updates
  <1> DEFINE past == {i \in Updates(L, e, n) : Le(L[i].ev.ts, ts)}
  <1>2. {i \in Updates(M, e, n) : Le(M[i].ev.ts, ts)} = past
    BY <1>1 DEF Updates
  <1>3. past \in SUBSET (0..n) /\ \A i \in past : M[i] = L[i]
    BY DEF Updates
  <1>4. CASE past = {}
    BY <1>1, <1>2, <1>4 DEF LogOwner
  <1>5. CASE past # {}
    <2>1. Max(past) \in past
      BY <1>3, <1>5, GreatestNat
    <2>2. M[Max(past)].ev.owner = L[Max(past)].ev.owner
      BY <1>3, <2>1
    <2> QED
      BY <1>1, <1>2, <1>5, <2>2 DEF LogOwner
  <1> QED
    BY <1>4, <1>5

\* Entries that are no updates do not matter.
LEMMA NoUpdates ==
    ASSUME NEW L, NEW m \in Nat, NEW n \in 0..m,
           \A i \in (n+1)..m : L[i].ev.kind # "update"
    PROVE  \A e, ts : /\ Updates(L, e, m) = Updates(L, e, n)
                      /\ LogOwner(L, e, ts, m) = LogOwner(L, e, ts, n)
  <1> TAKE e, ts
  <1>1. Updates(L, e, m) = Updates(L, e, n)
    BY DEF Updates
  <1> QED
    BY <1>1 DEF LogOwner

\* A bound that is in the set is its greatest element.
LEMMA LastIsMax ==
    ASSUME NEW m \in Nat, NEW T \in SUBSET (0..m), m \in T
    PROVE  Max(T) = m
  <1>1. Max(T) \in T /\ \A y \in T : y <= Max(T)
    BY GreatestNat
  <1>2. Max(T) \in 0..m /\ m <= Max(T)
    BY <1>1
  <1> QED
    BY <1>2

\* One entry more: it counts if it is an update of e at or before ts.
LEMMA OneEntryMore ==
    ASSUME NEW L, NEW n \in Nat, NEW e, NEW ts
    PROVE  LogOwner(L, e, ts, n + 1)
             = IF L[n + 1].ev.kind = "update" /\ L[n + 1].ev.entity = e
                  /\ Le(L[n + 1].ev.ts, ts)
               THEN L[n + 1].ev.owner ELSE LogOwner(L, e, ts, n)
  <1> DEFINE r == L[n + 1].ev
             past(m) == {i \in Updates(L, e, m) : Le(L[i].ev.ts, ts)}
  <1>1. CASE r.kind = "update" /\ r.entity = e /\ Le(r.ts, ts)
    <2>1. n + 1 \in past(n + 1) /\ past(n + 1) \in SUBSET (0..(n + 1))
      BY <1>1 DEF Updates
    <2>2. Max(past(n + 1)) = n + 1
      BY <2>1, LastIsMax
    <2> QED
      BY <1>1, <2>1, <2>2 DEF LogOwner
  <1>2. CASE ~ (r.kind = "update" /\ r.entity = e /\ Le(r.ts, ts))
    <2>1. past(n + 1) = past(n)
      BY <1>2 DEF Updates
    <2> QED
      BY <1>2, <2>1 DEF LogOwner
  <1> QED
    BY <1>1, <1>2

-----------------------------------------------------------------------------
(***************************************************************************)
(* The inductive invariant.  h agrees with the updates among the first n   *)
(* entries from g on, and has no entry that none of them made; the log is  *)
(* in order, b of its entries are before the GVT, and what the others      *)
(* saved agrees with what was before them.                                 *)
(***************************************************************************)
Faithful(h, g, L, n) ==
    /\ h \in History
    /\ \A e \in Entities, ts \in Stamp :
          Le(g, ts) => owner_at_(h, e, ts) = LogOwner(L, e, ts, n)
    /\ \A e \in Entities : \A s \in DOMAIN h[e] :
          \E j \in Updates(L, e, n) : L[j].ev.ts = s

LogOrder(L, b, g, v) ==
    /\ \A i, j \in 1..Len(L) : i <= j => Le(L[i].ev.ts, L[j].ev.ts)
    /\ \A i \in 1..Len(L) : Le(L[i].ev.ts, v)
    /\ \A i \in 1..b : Lt(L[i].ev.ts, g)
    /\ \A i \in (b+1)..Len(L) : Le(g, L[i].ev.ts)

LogSaves(L, g, h) ==
    /\ \A i \in 1..Len(L) : L[i].saved = Saves(L[i].ev.kind)
    /\ \A i \in 1..Len(L) : L[i].saved => Faithful(L[i].pre, g, L, i - 1)
    /\ Faithful(h, g, L, Len(L))

LogOK(L, b, g, v, h) ==
    /\ L \in Seq(LogRecord) /\ b \in 0..Len(L) /\ g \in Stamp /\ v \in Stamp
    /\ LogOrder(L, b, g, v)
    /\ LogSaves(L, g, h)

NotAhead(S, g) ==
    /\ \A ev \in S : Le(g, ev.ts)
    /\ \A ev \in S : ev.kind = "fossil" => Le(ev.gvt, g)

LogInv == LogOK(log, base, gvt, vt, history)

QueueInv ==
    /\ \A i \in 1..Len(log) : log[i].ev.kind = "fossil" => Le(log[i].ev.gvt, gvt)
    /\ todo \subseteq Event /\ coming \subseteq Event
    /\ NotAhead(todo \cup coming, gvt)

SendInv == /\ nextSeq \in 1..(MaxSeq + 1)
           /\ sent \subseteq Message /\ unread \subseteq Stamp

DirectoryInv == LogInv /\ QueueInv /\ SendInv

\* Faithful depends on the first n entries, and of these on the updates.
LEMMA FaithfulSame ==
    ASSUME NEW h, NEW g, NEW L, NEW M, NEW n \in Nat,
           \A i \in 1..n : M[i] = L[i], Faithful(h, g, L, n)
    PROVE  Faithful(h, g, M, n)
  <1>1. \A e, ts : /\ Updates(M, e, n) = Updates(L, e, n)
                   /\ LogOwner(M, e, ts, n) = LogOwner(L, e, ts, n)
    BY SameEntries
  <1>2. \A e : \A j \in Updates(L, e, n) : M[j] = L[j]
    BY DEF Updates
  <1> QED
    BY <1>1, <1>2 DEF Faithful

\* Entries that are no updates may be added or taken away.
LEMMA FaithfulNoUpdates ==
    ASSUME NEW h, NEW g, NEW L, NEW m \in Nat, NEW n \in 0..m,
           \A i \in (n+1)..m : L[i].ev.kind # "update"
    PROVE  Faithful(h, g, L, m) <=> Faithful(h, g, L, n)
  <1>1. \A e, ts : /\ Updates(L, e, m) = Updates(L, e, n)
                   /\ LogOwner(L, e, ts, m) = LogOwner(L, e, ts, n)
    BY NoUpdates
  <1> QED
    BY <1>1 DEF Faithful

\* The records and their stamps have their types.
LEMMA LogTypes ==
    ASSUME NEW L \in Seq(LogRecord)
    PROVE  /\ Len(L) \in Nat
           /\ \A i \in 1..Len(L) :
                /\ L[i] \in LogRecord /\ L[i].ev \in Event /\ L[i].ev.ts \in Stamp
                /\ L[i].preSeq \in 1..(MaxSeq + 1)
  <1>1. \A r \in LogRecord : r.ev \in Event /\ r.preSeq \in 1..(MaxSeq + 1)
    BY DEF LogRecord
  <1> QED
    BY <1>1, EventFields

\* A step that appends a record at or after the virtual time, saves what was,
\* and leaves timelines that agree with the longer log.
LEMMA AppendOK ==
    ASSUME NEW L, NEW b, NEW g, NEW v, NEW h, LogOK(L, b, g, v, h),
           NEW r \in LogRecord, Le(v, r.ev.ts), Le(g, r.ev.ts),
           r.saved = Saves(r.ev.kind), r.saved => r.pre = h,
           NEW k, Faithful(k, g, Append(L, r), Len(L) + 1)
    PROVE  LogOK(Append(L, r), b, g, r.ev.ts, k)
  <1> DEFINE M == Append(L, r)
             N == Len(L)
  <1>1. L \in Seq(LogRecord) /\ N \in Nat /\ b \in 0..N /\ g \in Stamp /\ v \in Stamp
    BY DEF LogOK
  <1>2. /\ M \in Seq(LogRecord) /\ Len(M) = N + 1 /\ M[N + 1] = r
        /\ \A i \in 1..N : M[i] = L[i]
    BY <1>1
  <1>3. r.ev.ts \in Stamp /\ \A i \in 1..N : L[i].ev.ts \in Stamp
    BY <1>1, EventFields, LogTypes DEF LogRecord
  <1>4. LogOrder(L, b, g, v) /\ LogSaves(L, g, h)
    BY DEF LogOK
  <1> HIDE DEF M, N
  <1>5. \A i \in 1..N : Le(L[i].ev.ts, r.ev.ts)
    BY <1>1, <1>3, <1>4, LeOrder DEF LogOrder, N
  <1>6. LogOrder(M, b, g, r.ev.ts)
    <2>1. \A i, j \in 1..Len(M) : i <= j => Le(M[i].ev.ts, M[j].ev.ts)
      <3> TAKE i, j \in 1..Len(M)
      <3> HAVE i <= j
      <3>1. CASE j = N + 1 /\ i = N + 1
        BY <3>1, <1>2, <1>3, LeOrder
      <3>2. CASE j = N + 1 /\ i # N + 1
        BY <3>2, <1>1, <1>2, <1>5
      <3>3. CASE j # N + 1
        <4>1. i \in 1..N /\ j \in 1..N
          BY <3>3, <1>1, <1>2
        <4> QED
          BY <4>1, <1>2, <1>4 DEF LogOrder, N
      <3> QED
        BY <3>1, <3>2, <3>3
    <2>2. \A i \in 1..Len(M) : i \in 1..N \/ i = N + 1
      BY <1>1, <1>2
    <2>3. \A i \in 1..Len(M) : Le(M[i].ev.ts, r.ev.ts)
      BY <2>2, <1>2, <1>3, <1>5, LeOrder
    <2>4. \A i \in 1..b : Lt(M[i].ev.ts, g)
      <3>1. \A i \in 1..b : i \in 1..N
        BY <1>1
      <3> QED
        BY <3>1, <1>2, <1>4 DEF LogOrder
    <2>5. \A i \in (b+1)..Len(M) : Le(g, M[i].ev.ts)
      <3> TAKE i \in (b+1)..Len(M)
      <3>1. i \in (b+1)..N \/ i = N + 1
        BY <1>1, <1>2
      <3>2. i \in (b+1)..N => i \in 1..N
        BY <1>1
      <3> QED
        BY <3>1, <3>2, <1>2, <1>4 DEF LogOrder, N
    <2> QED
      BY <2>1, <2>3, <2>4, <2>5 DEF LogOrder
  <1>7. LogSaves(M, g, k)
    <2>1. \A i \in 1..Len(M) : i \in 1..N \/ i = N + 1
      BY <1>1, <1>2
    <2>2. \A i \in 1..Len(M) : M[i].saved = Saves(M[i].ev.kind)
      BY <2>1, <1>2, <1>4 DEF LogSaves, N
    <2>3. ASSUME NEW i \in 1..N, L[i].saved
          PROVE  Faithful(L[i].pre, g, M, i - 1)
      <3>1. Faithful(L[i].pre, g, L, i - 1)
        BY <2>3, <1>4 DEF LogSaves, N
      <3>2. i - 1 \in Nat /\ \A j \in 1..(i - 1) : M[j] = L[j]
        BY <1>1, <1>2
      <3> QED
        BY <3>1, <3>2, FaithfulSame
    <2>4. r.saved => Faithful(r.pre, g, M, N)
      <3>1. Faithful(h, g, L, N)
        BY <1>4 DEF LogSaves, N
      <3>2. Faithful(h, g, M, N)
        BY <3>1, <1>1, <1>2, FaithfulSame
      <3> QED
        BY <3>2
    <2>5. \A i \in 1..Len(M) : M[i].saved => Faithful(M[i].pre, g, M, i - 1)
      <3> TAKE i \in 1..Len(M)
      <3>1. CASE i \in 1..N
        BY <3>1, <2>3, <1>2
      <3>2. CASE i = N + 1
        <4>1. i - 1 = N
          BY <3>2, <1>1
        <4> QED
          BY <3>2, <4>1, <2>4, <1>2
      <3> QED
        BY <2>1, <3>1, <3>2
    <2>6. Faithful(k, g, M, Len(M))
      BY <1>2 DEF M, N
    <2> QED
      BY <2>2, <2>5, <2>6 DEF LogSaves
  <1> QED
    BY <1>1, <1>2, <1>3, <1>6, <1>7 DEF LogOK, M

\* A rollback keeps the records before "to", the committed ones among them.
LEMMA KeptSpec ==
    ASSUME LogOK(log, base, gvt, vt, history), NEW to \in Stamp, Le(gvt, to),
           NEW n, n = Kept(to)
    PROVE  /\ n \in 0..Len(log) /\ base <= n
           /\ \A i \in 1..n : Lt(log[i].ev.ts, to)
           /\ \A i \in (n+1)..Len(log) : Le(to, log[i].ev.ts)
  <1> DEFINE N == Len(log)
             T == {m \in base..N : \A i \in (m+1)..N : Le(to, log[i].ev.ts)}
  <1>1. N \in Nat /\ base \in 0..N /\ gvt \in Stamp
        /\ \A i \in 1..N : log[i].ev.ts \in Stamp
    BY LogTypes DEF LogOK
  <1>2. LogOrder(log, base, gvt, vt)
    BY DEF LogOK
  <1>3. T \in SUBSET Nat /\ N \in T
    BY <1>1
  <1>4. n \in T /\ \A m \in T : n <= m
    BY <1>3, LeastNat DEF Kept
  <1>5. n \in base..N /\ \A i \in (n+1)..N : Le(to, log[i].ev.ts)
    BY <1>4
  <1>6. \A i \in 1..n : Lt(log[i].ev.ts, to)
    <2>1. CASE n = base
      BY <2>1, <1>1, <1>2, LeOrder DEF LogOrder
    <2>2. CASE n # base
      <3>1. n - 1 \in base..N /\ n - 1 \notin T /\ n \in 1..N
        BY <2>2, <1>1, <1>4, <1>5
      <3>2. PICK i \in ((n-1)+1)..N : ~ Le(to, log[i].ev.ts)
        BY <3>1
      <3>3. i = n
        BY <3>1, <3>2, <1>5, <1>1
      <3>4. Lt(log[n].ev.ts, to)
        BY <3>2, <3>3 DEF Le
      <3> TAKE j \in 1..n
      <3>5. j \in 1..N /\ j <= n
        BY <3>1
      <3>6. Le(log[j].ev.ts, log[n].ev.ts)
        BY <3>1, <3>5, <1>2 DEF LogOrder
      <3> QED
        BY <3>1, <3>4, <3>5, <3>6, <1>1, LeOrder
    <2> QED
      BY <2>1, <2>2
  <1> QED
    BY <1>1, <1>5, <1>6

\* The oldest snapshot among the undone records agrees with what is kept.
LEMMA RestoredOK ==
    ASSUME LogOK(log, base, gvt, vt, history), NEW n \in 0..Len(log)
    PROVE  Faithful(Restored(n), gvt, log, n)
  <1> DEFINE N == Len(log)
             saves == {i \in (n+1)..N : log[i].saved}
  <1>1. N \in Nat /\ n \in 0..N
    BY LogTypes DEF LogOK
  <1>2. LogSaves(log, gvt, history)
    BY DEF LogOK
  <1>3. \A i \in 1..N : ~ log[i].saved => log[i].ev.kind # "update"
    BY <1>2 DEF LogSaves, Saves
  <1>4. CASE saves = {}
    <2>1. \A i \in (n+1)..N : log[i].ev.kind # "update"
      BY <1>1, <1>3, <1>4
    <2>2. Faithful(history, gvt, log, N)
      BY <1>2 DEF LogSaves
    <2>3. Faithful(history, gvt, log, n)
      BY <1>1, <2>1, <2>2, FaithfulNoUpdates
    <2> QED
      BY <1>4, <2>3 DEF Restored
  <1>5. CASE saves # {}
    <2> DEFINE j == Min(saves)
    <2>1. saves \in SUBSET Nat
      BY <1>1
    <2>2. j \in saves /\ \A y \in saves : j <= y
      BY <1>5, <2>1, LeastNat
    <2> HIDE DEF j
    <2>3. j \in (n+1)..N /\ log[j].saved
      BY <2>2
    <2>4. Faithful(log[j].pre, gvt, log, j - 1)
      BY <1>1, <1>2, <2>3 DEF LogSaves
    <2>5. j - 1 \in Nat /\ n \in 0..(j - 1)
      BY <1>1, <2>3
    <2>6. \A i \in (n+1)..(j - 1) : log[i].ev.kind # "update"
      <3> TAKE i \in (n+1)..(j - 1)
      <3>1. i \in (n+1)..N /\ i \in 1..N /\ i < j
        BY <1>1, <2>3
      <3>2. ~ log[i].saved
        BY <1>1, <2>2, <2>3, <3>1
      <3> QED
        BY <1>3, <3>1, <3>2
    <2>7. Faithful(log[j].pre, gvt, log, n)
      BY <2>4, <2>5, <2>6, FaithfulNoUpdates
    <2> QED
      BY <1>5, <2>7 DEF Restored, j
  <1> QED
    BY <1>4, <1>5

\* What a rollback leaves is a log that is in order, with faithful timelines.
LEMMA CutOK ==
    ASSUME LogOK(log, base, gvt, vt, history), NEW to \in Stamp, Le(gvt, to),
           NEW n, n = Kept(to)
    PROVE  LogOK(SubSeq(log, 1, n), base, gvt, prev_stamp(to), Restored(n))
  <1> DEFINE L == SubSeq(log, 1, n)
  <1>1. /\ n \in 0..Len(log) /\ base <= n
        /\ \A i \in 1..n : Lt(log[i].ev.ts, to)
    BY KeptSpec
  <1>2. log \in Seq(LogRecord) /\ base \in 0..Len(log) /\ gvt \in Stamp
    BY DEF LogOK
  <1>3. LogOrder(log, base, gvt, vt) /\ LogSaves(log, gvt, history)
    BY DEF LogOK
  <1>4. \A i \in 1..Len(log) : log[i].ev.ts \in Stamp
    BY <1>2, LogTypes
  <1>5. L \in Seq(LogRecord) /\ Len(L) = n /\ \A i \in 1..n : L[i] = log[i]
    BY <1>1, <1>2
  <1>6. base \in 0..n /\ n \in Nat /\ Len(log) \in Nat
    BY <1>1, <1>2
  <1>7. \A i \in 1..n : i \in 1..Len(log)
    BY <1>1
  <1>8. Faithful(Restored(n), gvt, log, n)
    BY <1>1, RestoredOK
  <1> HIDE DEF L
  <1>9. LogOrder(L, base, gvt, prev_stamp(to))
    <2>1. \A i, j \in 1..n : i <= j => Le(L[i].ev.ts, L[j].ev.ts)
      BY <1>3, <1>5, <1>7 DEF LogOrder
    <2>2. \A i \in 1..n : Le(L[i].ev.ts, prev_stamp(to))
      BY <1>1, <1>4, <1>5, <1>7, PrevStamp
    <2>3. \A i \in 1..base : Lt(L[i].ev.ts, gvt)
      <3>1. \A i \in 1..base : i \in 1..n
        BY <1>6
      <3> QED
        BY <3>1, <1>3, <1>5 DEF LogOrder
    <2>4. \A i \in (base+1)..n : Le(gvt, L[i].ev.ts)
      <3>1. \A i \in (base+1)..n : i \in 1..n /\ i \in (base+1)..Len(log)
        BY <1>1, <1>6
      <3> QED
        BY <3>1, <1>3, <1>5 DEF LogOrder
    <2> QED
      BY <2>1, <2>2, <2>3, <2>4, <1>5 DEF LogOrder
  <1>10. LogSaves(L, gvt, Restored(n))
    <2>1. \A i \in 1..n : L[i].saved = Saves(L[i].ev.kind)
      BY <1>3, <1>5, <1>7 DEF LogSaves
    <2>2. ASSUME NEW i \in 1..n, L[i].saved
          PROVE  Faithful(L[i].pre, gvt, L, i - 1)
      <3>1. Faithful(log[i].pre, gvt, log, i - 1)
        BY <2>2, <1>3, <1>5, <1>7 DEF LogSaves
      <3>2. i - 1 \in Nat /\ \A j \in 1..(i - 1) : L[j] = log[j]
        BY <1>5, <1>6
      <3> QED
        BY <3>1, <3>2, <1>5, FaithfulSame
    <2>3. Faithful(Restored(n), gvt, L, n)
      BY <1>5, <1>6, <1>8, FaithfulSame
    <2> QED
      BY <2>1, <2>2, <2>3, <1>5 DEF LogSaves
  <1>11. prev_stamp(to) \in Stamp
    BY PrevStamp
  <1> QED
    BY <1>2, <1>5, <1>6, <1>9, <1>10, <1>11 DEF LogOK, L

\* A higher GVT asks less of the timelines, and commits more records.
LEMMA AdvanceOK ==
    ASSUME LogOK(log, base, gvt, vt, history), NEW g \in Stamp, Lt(gvt, g),
           NEW b, b = Max({n \in base..Len(log) :
                              \A i \in (base+1)..n : Lt(log[i].ev.ts, g)})
    PROVE  LogOK(log, b, g, vt, history)
  <1> DEFINE N == Len(log)
             T == {n \in base..N : \A i \in (base+1)..n : Lt(log[i].ev.ts, g)}
  <1>1. /\ log \in Seq(LogRecord) /\ N \in Nat /\ base \in 0..N
        /\ gvt \in Stamp /\ vt \in Stamp
        /\ \A i \in 1..N : log[i].ev.ts \in Stamp
    BY LogTypes DEF LogOK
  <1>2. LogOrder(log, base, gvt, vt) /\ LogSaves(log, gvt, history)
    BY DEF LogOK
  <1>3. T \in SUBSET (0..N) /\ base \in T
    BY <1>1
  <1>4. b \in T /\ \A m \in T : m <= b
    BY <1>1, <1>3, GreatestNat
  <1>5. b \in base..N /\ \A i \in (base+1)..b : Lt(log[i].ev.ts, g)
    BY <1>4
  <1>6. \A i \in 1..b : Lt(log[i].ev.ts, g)
    <2> TAKE i \in 1..b
    <2>1. CASE i \in 1..base
      BY <2>1, <1>1, <1>2, LeOrder DEF LogOrder
    <2>2. CASE i \notin 1..base
      <3>1. i \in (base+1)..b
        BY <2>2, <1>1, <1>5
      <3> QED
        BY <3>1, <1>5
    <2> QED
      BY <2>1, <2>2
  <1>7. \A i \in (b+1)..N : Le(g, log[i].ev.ts)
    <2> TAKE i \in (b+1)..N
    <2>1. b + 1 \in 1..N /\ b + 1 \in base..N /\ i \in 1..N /\ b + 1 <= i
      BY <1>1, <1>5
    <2>2. b + 1 \notin T
      BY <1>4, <1>5, <1>1
    <2>3. ~ \A j \in (base+1)..(b + 1) : Lt(log[j].ev.ts, g)
      BY <2>1, <2>2
    <2>4. Le(g, log[b + 1].ev.ts)
      <3>1. PICK j \in (base+1)..(b + 1) : ~ Lt(log[j].ev.ts, g)
        BY <2>3
      <3>2. j = b + 1
        BY <3>1, <1>1, <1>5
      <3> QED
        BY <3>1, <3>2 DEF Le
    <2>5. Le(log[b + 1].ev.ts, log[i].ev.ts)
      BY <2>1, <1>2 DEF LogOrder
    <2> QED
      BY <2>1, <2>4, <2>5, <1>1, LeOrder
  <1>8. LogOrder(log, b, g, vt)
    BY <1>2, <1>6, <1>7 DEF LogOrder
  <1>9. \A ts \in Stamp : Le(g, ts) => Le(gvt, ts)
    BY <1>1, LeOrder
  <1>10. \A h, n : Faithful(h, gvt, log, n) => Faithful(h, g, log, n)
    BY <1>9 DEF Faithful
  <1>11. LogSaves(log, g, history)
    BY <1>2, <1>10 DEF LogSaves
  <1> QED
    BY <1>1, <1>5, <1>8, <1>11 DEF LogOK

-----------------------------------------------------------------------------
(***************************************************************************)
(* The parts of a step.                                                    *)
(***************************************************************************)

\* A record of dispatch_ has its type, and saves the timelines if it has to.
LEMMA RecordOK ==
    ASSUME history \in History, nextSeq \in 1..(MaxSeq + 1),
           NEW ev \in Event, NEW old \in Owners \cup {0}
    PROVE  LET r == Record(ev, old)
           IN  /\ r \in LogRecord /\ r.ev = ev /\ r.saved = Saves(ev.kind)
               /\ r.saved => r.pre = history
  <1>1. Saves(ev.kind) \in BOOLEAN
    BY DEF Saves
  <1> QED
    BY <1>1 DEF Record, LogRecord

\* dispatch_ of an event keeps the log and the queue in order, if the handler
\* leaves timelines that agree with it.
LEMMA ExecutesOK ==
    ASSUME DirectoryInv, NEW ev, NEW old \in Owners \cup {0}, Executes(ev, old),
           Faithful(history', gvt, Append(log, Record(ev, old)), Len(log) + 1)
    PROVE  LogInv' /\ QueueInv'
  <1> DEFINE r == Record(ev, old)
  <1>1. LogOK(log, base, gvt, vt, history)
    BY DEF DirectoryInv, LogInv
  <1>2. ev \in todo /\ ev \in Event /\ Le(gvt, ev.ts) /\ Le(vt, ev.ts)
    BY DEF DirectoryInv, QueueInv, NotAhead, Executes, IsNext, Le
  <1>3. history \in History /\ log \in Seq(LogRecord)
    BY <1>1 DEF LogOK, LogSaves, Faithful
  <1>4. /\ r \in LogRecord /\ r.ev = ev /\ r.saved = Saves(ev.kind)
        /\ r.saved => r.pre = history
    BY <1>2, <1>3, RecordOK DEF DirectoryInv, SendInv
  <1>5. /\ log' = Append(log, r) /\ vt' = ev.ts /\ todo' = todo \ {ev}
        /\ base' = base /\ gvt' = gvt /\ coming' = coming
    BY DEF Executes
  <1> HIDE DEF r
  <1>6. LogOK(Append(log, r), base, gvt, r.ev.ts, history')
    <2>1. Faithful(history', gvt, Append(log, r), Len(log) + 1)
      BY DEF r
    <2> QED
      BY <1>1, <1>2, <1>4, <2>1, AppendOK
  <1>7. LogInv'
    BY <1>4, <1>5, <1>6 DEF LogInv
  <1>8. QueueInv'
    <2>1. \A i \in 1..Len(log') : log'[i].ev.kind = "fossil"
                                    => Le(log'[i].ev.gvt, gvt)
      <3> TAKE i \in 1..Len(log')
      <3>1. Len(log') = Len(log) + 1 /\ log'[Len(log) + 1] = r
            /\ Len(log) \in Nat /\ \A j \in 1..Len(log) : log'[j] = log[j]
        BY <1>3, <1>4, <1>5
      <3>2. i \in 1..Len(log) \/ i = Len(log) + 1
        BY <3>1
      <3>3. ev.kind = "fossil" => Le(ev.gvt, gvt)
        BY <1>2 DEF DirectoryInv, QueueInv, NotAhead
      <3> QED
        BY <3>1, <3>2, <3>3, <1>4 DEF DirectoryInv, QueueInv
    <2> QED
      BY <2>1, <1>5 DEF DirectoryInv, QueueInv, NotAhead
  <1> QED
    BY <1>7, <1>8

\* What a rollback undoes and puts back in the queue is not before the GVT.
LEMMA UndoneOK ==
    ASSUME DirectoryInv, NEW n \in 0..Len(log), base <= n
    PROVE  Undone(n) \subseteq Event /\ NotAhead(Undone(n), gvt)
  <1>1. /\ log \in Seq(LogRecord) /\ Len(log) \in Nat /\ base \in 0..Len(log)
        /\ \A i \in 1..Len(log) : log[i].ev \in Event
        /\ \A i \in (base+1)..Len(log) : Le(gvt, log[i].ev.ts)
    BY LogTypes DEF DirectoryInv, LogInv, LogOK, LogOrder
  <1>2. \A i \in (n+1)..Len(log) : i \in 1..Len(log) /\ i \in (base+1)..Len(log)
    BY <1>1
  <1>3. \A i \in 1..Len(log) : log[i].ev.kind = "fossil" => Le(log[i].ev.gvt, gvt)
    BY DEF DirectoryInv, QueueInv
  <1> QED
    BY <1>1, <1>2, <1>3 DEF Undone, NotAhead

\* rollback_ restores a counter that some record saved, and only takes sends
\* back.
LEMMA RollBackSends ==
    ASSUME DirectoryInv, NEW n \in 0..Len(log), NEW to, RollBack(n, to)
    PROVE  SendInv'
  <1>1. /\ Len(log) \in Nat
        /\ \A i \in 1..Len(log) : log[i].preSeq \in 1..(MaxSeq + 1)
    BY LogTypes DEF DirectoryInv, LogInv, LogOK
  <1>2. nextSeq' \in 1..(MaxSeq + 1)
    <2>1. CASE n < Len(log)
      <3>1. n + 1 \in 1..Len(log)
        BY <1>1, <2>1
      <3> QED
        BY <1>1, <2>1, <3>1 DEF RollBack
    <2>2. CASE ~ (n < Len(log))
      BY <2>2 DEF RollBack, DirectoryInv, SendInv
    <2> QED
      BY <2>1, <2>2
  <1>3. \A m \in sent : m \in Message /\ m.ts \in Stamp
    BY DEF DirectoryInv, SendInv, Message
  <1>4. sent' \subseteq sent
    BY DEF RollBack, Standing
  <1>5. unread' \subseteq Stamp
    BY <1>3 DEF RollBack, DirectoryInv, SendInv
  <1> QED
    BY <1>2, <1>3, <1>4, <1>5 DEF SendInv

\* What a handler sends keeps the log of sent events typed.
LEMMA SendsOK ==
    ASSUME DirectoryInv, NEW msgs \in SUBSET Message, Sends(msgs)
    PROVE  sent' \subseteq Message /\ unread' \subseteq Stamp
  BY DEF DirectoryInv, SendInv, Sends, Message

-----------------------------------------------------------------------------
(***************************************************************************)
(* The steps.                                                              *)
(***************************************************************************)

\* The directory starts with empty timelines and an empty log.
LEMMA InvInit == Init => DirectoryInv
  <1> SUFFICES ASSUME Init
               PROVE  DirectoryInv
    OBVIOUS
  <1>1. /\ log = <<>> /\ base = 0 /\ gvt = ZeroStamp /\ vt = ZeroStamp
        /\ todo = {} /\ coming = Inputs
        /\ history = [e \in Entities |-> <<>>]
        /\ sent = {} /\ unread = {} /\ nextSeq = 1
    BY DEF Init
  <1>2. ZeroStamp \in Stamp /\ \A ts \in Stamp : Le(ZeroStamp, ts)
    BY StampConstants
  <1>3. log \in Seq(LogRecord) /\ Len(log) = 0
    BY <1>1
  <1>4. <<>> \in Timeline /\ DOMAIN <<>> = {}
    <2>1. <<>> \in [{} -> Owners]
      OBVIOUS
    <2> QED
      BY <2>1 DEF Timeline
  <1>5. history \in History
    BY <1>1, <1>4 DEF History
  <1>6. Faithful(history, gvt, log, 0)
    <2>1. \A e \in Entities : DOMAIN history[e] = {}
      BY <1>1, <1>4
    <2>2. \A e : Updates(log, e, 0) = {}
      BY DEF Updates
    <2>3. \A e \in Entities, ts \in Stamp :
            owner_at_(history, e, ts) = DefaultOwner(e, ts)
      BY <2>1 DEF owner_at_
    <2>4. \A e \in Entities, ts \in Stamp :
            LogOwner(log, e, ts, 0) = DefaultOwner(e, ts)
      BY <2>2 DEF LogOwner
    <2> QED
      BY <1>5, <2>1, <2>3, <2>4 DEF Faithful
  <1>7. LogInv
    BY <1>1, <1>2, <1>3, <1>6 DEF LogInv, LogOK, LogOrder, LogSaves
  <1>8. QueueInv
    <2>1. \A ev \in Inputs : ev \in Event /\ ev.ts \in Stamp /\ ev.kind # "fossil"
      BY EventFields, DirectoryAssumption DEF Event, UpdateEvent, UseEvent
    <2> QED
      BY <1>1, <1>2, <1>3, <2>1 DEF QueueInv, NotAhead
  <1>9. SendInv
    BY <1>1, StampBounds DEF SendInv
  <1> QED
    BY <1>7, <1>8, <1>9 DEF DirectoryInv

\* An entry that is no update leaves faithful timelines faithful.
LEMMA FaithfulAppend ==
    ASSUME NEW L \in Seq(LogRecord), NEW r \in LogRecord, r.ev.kind # "update",
           NEW h, NEW g, Faithful(h, g, L, Len(L))
    PROVE  Faithful(h, g, Append(L, r), Len(L) + 1)
  <1> DEFINE M == Append(L, r)
             N == Len(L)
  <1>1. N \in Nat /\ M[N + 1] = r /\ \A i \in 1..N : M[i] = L[i]
    OBVIOUS
  <1> HIDE DEF M
  <1>2. Faithful(h, g, M, N)
    BY <1>1, FaithfulSame
  <1>3. N + 1 \in Nat /\ N \in 0..(N + 1)
        /\ \A i \in (N+1)..(N + 1) : M[i].ev.kind # "update"
    BY <1>1
  <1> HIDE DEF N
  <1>4. Faithful(h, g, M, N + 1)
    BY <1>2, <1>3, FaithfulNoUpdates
  <1> QED
    BY <1>4 DEF M, N

\* An update that is not before any other makes the new owner the owner of its
\* entity from its stamp on, in the timelines and by the log.
LEMMA FaithfulUpdate ==
    ASSUME NEW L \in Seq(LogRecord), NEW r \in LogRecord, r.ev \in UpdateEvent,
           NEW h, NEW g, Faithful(h, g, L, Len(L)),
           \A i \in 1..Len(L) : Le(L[i].ev.ts, r.ev.ts)
    PROVE  Faithful(Updated(h, r.ev), g, Append(L, r), Len(L) + 1)
  <1> DEFINE M == Append(L, r)
             N == Len(L)
             k == Updated(h, r.ev)
  <1>1. N \in Nat /\ M[N + 1] = r /\ \A i \in 1..N : M[i] = L[i]
    OBVIOUS
  <1>2. r.ev.kind = "update" /\ r.ev.entity \in Entities
    BY DEF UpdateEvent
  <1>3. h \in History
    BY DEF Faithful
  <1>4. \A s \in DOMAIN h[r.ev.entity] : Le(s, r.ev.ts)
    BY <1>2 DEF Faithful, Updates
  <1> HIDE DEF M, N
  <1>5. \A e, ts : /\ Updates(M, e, N) = Updates(L, e, N)
                   /\ LogOwner(M, e, ts, N) = LogOwner(L, e, ts, N)
    BY <1>1, SameEntries
  <1>6. ASSUME NEW e \in Entities, NEW ts \in Stamp, Le(g, ts)
        PROVE  owner_at_(k, e, ts) = LogOwner(M, e, ts, N + 1)
    <2>1. owner_at_(k, e, ts)
            = IF e = r.ev.entity /\ Le(r.ev.ts, ts) THEN r.ev.owner
                                                    ELSE owner_at_(h, e, ts)
      BY <1>3, <1>4, UpdatedOwner
    <2>2. LogOwner(M, e, ts, N + 1)
            = IF r.ev.entity = e /\ Le(r.ev.ts, ts) THEN r.ev.owner
                                                    ELSE LogOwner(M, e, ts, N)
      BY <1>1, <1>2, OneEntryMore
    <2>3. owner_at_(h, e, ts) = LogOwner(M, e, ts, N)
      BY <1>5, <1>6 DEF Faithful, N
    <2> QED
      BY <2>1, <2>2, <2>3
  <1>7. ASSUME NEW e \in Entities, NEW s \in DOMAIN k[e]
        PROVE  \E j \in Updates(M, e, N + 1) : M[j].ev.ts = s
    <2>1. CASE s \in DOMAIN h[e]
      <3>1. PICK j \in Updates(L, e, N) : L[j].ev.ts = s
        BY <2>1 DEF Faithful, N
      <3>2. j \in Updates(M, e, N + 1) /\ M[j] = L[j]
        BY <3>1, <1>1, <1>5 DEF Updates
      <3> QED
        BY <3>1, <3>2
    <2>2. CASE s \notin DOMAIN h[e]
      <3>1. e = r.ev.entity /\ s = r.ev.ts
        BY <2>2, <1>3, UpdatedType
      <3>2. N + 1 \in Updates(M, e, N + 1)
        BY <3>1, <1>1, <1>2 DEF Updates
      <3> QED
        BY <3>1, <3>2, <1>1
    <2> QED
      BY <2>1, <2>2
  <1>8. k \in History
    BY <1>3, UpdatedType
  <1>9. Faithful(k, g, M, N + 1)
    BY <1>6, <1>7, <1>8 DEF Faithful
  <1> QED
    BY <1>9 DEF M, N

\* Pruning to a stamp that is not above g.
LEMMA FaithfulPrune ==
    ASSUME NEW h, NEW g \in Stamp, NEW L, NEW n, Faithful(h, g, L, n),
           NEW p \in Stamp, Le(p, g)
    PROVE  Faithful(prune_history_(h, p), g, L, n)
  <1>1. h \in History
    BY DEF Faithful
  <1>2. \A ts \in Stamp : Le(g, ts) => Le(p, ts)
    BY LeOrder
  <1>3. \A e \in Entities, ts \in Stamp : Le(g, ts) =>
          owner_at_(prune_history_(h, p), e, ts) = owner_at_(h, e, ts)
    BY <1>1, <1>2, PruneKeepsOwner
  <1>4. prune_history_(h, p) \in History
        /\ \A e \in Entities : DOMAIN prune_history_(h, p)[e] \subseteq DOMAIN h[e]
    BY <1>1, PruneType
  <1> QED
    BY <1>3, <1>4 DEF Faithful

\* What the steps below know before they start.
LEMMA Before ==
    ASSUME DirectoryInv, NEW ev \in todo
    PROVE  /\ log \in Seq(LogRecord) /\ Len(log) \in Nat /\ base \in 0..Len(log)
           /\ history \in History /\ Faithful(history, gvt, log, Len(log))
           /\ gvt \in Stamp /\ vt \in Stamp
           /\ ev \in Event /\ ev.ts \in Stamp /\ Le(gvt, ev.ts)
  BY EventFields DEF DirectoryInv, LogInv, LogOK, LogSaves, Faithful, QueueInv,
                     NotAhead

\* The step of an ownership update.
LEMMA InvUpdate == DirectoryInv /\ Update => DirectoryInv'
  <1> SUFFICES ASSUME DirectoryInv, Update
               PROVE  DirectoryInv'
    OBVIOUS
  <1>1. PICK ev \in todo :
          /\ ev.kind = "update"
          /\ Executes(ev, OldOwner(ev))
          /\ history' = Updated(history, ev)
          /\ Sends(IF ev.install THEN {Install(ev)} ELSE {})
          /\ UNCHANGED nextSeq
    BY DEF Update
  <1>2. /\ log \in Seq(LogRecord) /\ history \in History /\ vt \in Stamp
        /\ Faithful(history, gvt, log, Len(log))
        /\ ev \in Event /\ ev.ts \in Stamp
    BY Before
  <1>3. ev \in UpdateEvent /\ ev.entity \in Entities /\ ev.owner \in Owners
    BY <1>1, <1>2, EventFields DEF UpdateEvent
  <1>4. OldOwner(ev) \in Owners \cup {0}
    BY <1>2, <1>3, OwnerType DEF OldOwner
  <1> DEFINE r == Record(ev, OldOwner(ev))
  <1>5. r \in LogRecord /\ r.ev = ev
    BY <1>2, <1>4, RecordOK DEF DirectoryInv, SendInv
  <1>6. \A i \in 1..Len(log) : Le(log[i].ev.ts, ev.ts)
    <2>1. Le(vt, ev.ts)
      BY <1>1 DEF Executes, Le
    <2>2. \A i \in 1..Len(log) : Le(log[i].ev.ts, vt) /\ log[i].ev.ts \in Stamp
      BY <1>2, LogTypes DEF DirectoryInv, LogInv, LogOK, LogOrder
    <2> QED
      BY <1>2, <2>1, <2>2, LeOrder
  <1> HIDE DEF r
  <1>7. Faithful(Updated(history, ev), gvt, Append(log, r), Len(log) + 1)
    BY <1>2, <1>3, <1>5, <1>6, FaithfulUpdate
  <1>8. LogInv' /\ QueueInv'
    BY <1>1, <1>4, <1>7, ExecutesOK DEF r
  <1>9. (IF ev.install THEN {Install(ev)} ELSE {}) \in SUBSET Message
    BY <1>2, <1>3 DEF Message, Install
  <1>10. SendInv'
    BY <1>1, <1>9, SendsOK DEF SendInv, DirectoryInv
  <1> QED
    BY <1>8, <1>10 DEF DirectoryInv

\* The step of an event that is forwarded.
LEMMA InvForward == DirectoryInv /\ Forward => DirectoryInv'
  <1> SUFFICES ASSUME DirectoryInv, Forward
               PROVE  DirectoryInv'
    OBVIOUS
  <1>1. PICK ev \in todo :
          /\ ev.kind = "use"
          /\ nextSeq <= MaxSeq
          /\ Executes(ev, 0)
          /\ Sends({Forwarded(ev)})
          /\ nextSeq' = nextSeq + 1
          /\ UNCHANGED history
    BY DEF Forward
  <1>2. /\ log \in Seq(LogRecord) /\ history \in History
        /\ Faithful(history, gvt, log, Len(log))
        /\ ev \in Event /\ ev.ts \in Stamp
    BY Before
  <1> DEFINE r == Record(ev, 0)
  <1>3. r \in LogRecord /\ r.ev = ev
    BY <1>2, RecordOK DEF DirectoryInv, SendInv
  <1> HIDE DEF r
  <1>4. Faithful(history, gvt, Append(log, r), Len(log) + 1)
    BY <1>1, <1>2, <1>3, FaithfulAppend
  <1>5. LogInv' /\ QueueInv'
    BY <1>1, <1>4, ExecutesOK DEF r
  <1>6. nextSeq \in 1..(MaxSeq + 1) /\ MaxSeq \in Nat
    BY StampBounds DEF DirectoryInv, SendInv
  <1>7. [time |-> ev.ts.time, sequence |-> nextSeq] \in Stamp
    BY <1>1, <1>2, <1>6 DEF Stamp
  <1>8. owner_at_(history, ev.entity, ev.ts) \in Owners
    <2>1. ev.entity \in Entities
      BY <1>1, <1>2, EventFields DEF UseEvent
    <2> QED
      BY <1>2, <2>1, OwnerType
  <1>9. {Forwarded(ev)} \in SUBSET Message
    BY <1>2, <1>7, <1>8 DEF Message, Forwarded
  <1>10. sent' \subseteq Message /\ unread' \subseteq Stamp
    BY <1>1, <1>9, SendsOK
  <1>11. SendInv'
    BY <1>1, <1>6, <1>10 DEF SendInv
  <1> QED
    BY <1>5, <1>11 DEF DirectoryInv

\* The step of a fossil-collection event.
LEMMA InvFossilCollect == DirectoryInv /\ FossilCollect => DirectoryInv'
  <1> SUFFICES ASSUME DirectoryInv, FossilCollect
               PROVE  DirectoryInv'
    OBVIOUS
  <1>1. PICK ev \in todo :
          /\ ev.kind = "fossil"
          /\ Executes(ev, 0)
          /\ history' = prune_history_(history, ev.gvt)
          /\ UNCHANGED <<nextSeq, sent, unread>>
    BY DEF FossilCollect
  <1>2. /\ log \in Seq(LogRecord) /\ history \in History /\ gvt \in Stamp
        /\ Faithful(history, gvt, log, Len(log)) /\ ev \in Event
    BY Before
  <1>3. ev.gvt \in Stamp /\ Le(ev.gvt, gvt)
    BY <1>1, <1>2, EventFields DEF FossilEvent, DirectoryInv, QueueInv, NotAhead
  <1> DEFINE r == Record(ev, 0)
  <1>4. r \in LogRecord /\ r.ev = ev
    BY <1>2, RecordOK DEF DirectoryInv, SendInv
  <1> HIDE DEF r
  <1>5. Faithful(history', gvt, log, Len(log))
    BY <1>1, <1>2, <1>3, FaithfulPrune
  <1>6. Faithful(history', gvt, Append(log, r), Len(log) + 1)
    BY <1>1, <1>2, <1>4, <1>5, FaithfulAppend
  <1>7. LogInv' /\ QueueInv'
    BY <1>1, <1>6, ExecutesOK DEF r
  <1>8. SendInv'
    BY <1>1 DEF SendInv, DirectoryInv
  <1> QED
    BY <1>7, <1>8 DEF DirectoryInv

\* The step of a straggler: a rollback, and everything undone is pending again.
LEMMA InvStraggler == DirectoryInv /\ Straggler => DirectoryInv'
  <1> SUFFICES ASSUME DirectoryInv, Straggler
               PROVE  DirectoryInv'
    OBVIOUS
  <1>1. PICK ev \in todo :
          /\ RollBack(Kept(ev.ts), ev.ts)
          /\ log' = SubSeq(log, 1, Kept(ev.ts))
          /\ todo' = todo \cup Undone(Kept(ev.ts))
          /\ vt' = prev_stamp(ev.ts)
          /\ UNCHANGED <<base, coming, gvt>>
    BY DEF Straggler
  <1> DEFINE n == Kept(ev.ts)
  <1>2. /\ log \in Seq(LogRecord) /\ ev.ts \in Stamp /\ Le(gvt, ev.ts)
    BY Before
  <1>3. n \in 0..Len(log) /\ base <= n
    BY <1>2, KeptSpec DEF DirectoryInv, LogInv
  <1>4. LogOK(SubSeq(log, 1, n), base, gvt, prev_stamp(ev.ts), Restored(n))
    BY <1>2, CutOK DEF DirectoryInv, LogInv
  <1>5. LogInv'
    BY <1>1, <1>4 DEF LogInv, RollBack
  <1> HIDE DEF n
  <1>6. QueueInv'
    <2>1. Undone(n) \subseteq Event /\ NotAhead(Undone(n), gvt)
      BY <1>3, UndoneOK
    <2>2. Len(log') = n /\ \A i \in 1..n : log'[i] = log[i] /\ i \in 1..Len(log)
      BY <1>1, <1>2, <1>3 DEF n
    <2> QED
      BY <1>1, <2>1, <2>2 DEF n, DirectoryInv, QueueInv, NotAhead
  <1>7. SendInv'
    BY <1>1, <1>3, RollBackSends DEF n
  <1> QED
    BY <1>5, <1>6, <1>7 DEF DirectoryInv

\* The step of an anti-message for an event that was executed: a rollback, and
\* the record of the anti-message after it.
LEMMA InvCancelProcessed == DirectoryInv /\ CancelProcessed => DirectoryInv'
  <1> SUFFICES ASSUME DirectoryInv, CancelProcessed
               PROVE  DirectoryInv'
    OBVIOUS
  <1>1. PICK ev \in todo :
          /\ ev.kind = "anti"
          /\ RollBack(Kept(ev.ts), ev.ts)
          /\ log' = Append(SubSeq(log, 1, Kept(ev.ts)), Record(ev, 0))
          /\ todo' = (todo \ {ev}) \cup Undone(Kept(ev.ts))
          /\ vt' = ev.ts
          /\ UNCHANGED <<base, coming, gvt>>
    BY DEF CancelProcessed
  <1> DEFINE n == Kept(ev.ts)
             L == SubSeq(log, 1, n)
             r == Record(ev, 0)
             h == Restored(n)
  <1>2. /\ log \in Seq(LogRecord) /\ history \in History
        /\ ev \in Event /\ ev.ts \in Stamp /\ Le(gvt, ev.ts)
    BY Before
  <1>3. n \in 0..Len(log) /\ base <= n
    BY <1>2, KeptSpec DEF DirectoryInv, LogInv
  <1>4. LogOK(L, base, gvt, prev_stamp(ev.ts), h)
    BY <1>2, CutOK DEF DirectoryInv, LogInv
  <1>5. r \in LogRecord /\ r.ev = ev /\ r.saved = Saves(ev.kind) /\ ~ r.saved
    BY <1>1, <1>2, RecordOK DEF DirectoryInv, SendInv, Saves
  <1>6. Le(prev_stamp(ev.ts), ev.ts)
    BY <1>2, PrevStamp
  <1>7. L \in Seq(LogRecord) /\ Faithful(h, gvt, L, Len(L))
    BY <1>4 DEF LogOK, LogSaves
  <1>8. /\ Len(L) = n /\ n \in Nat
        /\ \A i \in 1..n : L[i] = log[i] /\ i \in 1..Len(log)
    BY <1>2, <1>3
  <1>9. history' = h /\ log' = Append(L, r)
    BY <1>1 DEF RollBack
  <1> HIDE DEF n, L, r, h
  <1>10. Faithful(h, gvt, Append(L, r), Len(L) + 1)
    BY <1>1, <1>5, <1>7, FaithfulAppend
  <1>11. LogOK(Append(L, r), base, gvt, ev.ts, h)
    BY <1>2, <1>4, <1>5, <1>6, <1>10, AppendOK
  <1>12. LogInv'
    BY <1>1, <1>9, <1>11 DEF LogInv
  <1>13. QueueInv'
    <2>1. Undone(n) \subseteq Event /\ NotAhead(Undone(n), gvt)
      BY <1>3, UndoneOK
    <2>2. /\ Len(log') = n + 1 /\ log'[n + 1] = r
          /\ \A i \in 1..n : log'[i] = log[i] /\ i \in 1..Len(log)
      BY <1>5, <1>7, <1>8, <1>9
    <2>3. \A i \in 1..Len(log') : i \in 1..n \/ i = n + 1
      BY <1>8, <2>2
    <2>4. \A i \in 1..Len(log') : log'[i].ev.kind = "fossil"
                                    => Le(log'[i].ev.gvt, gvt)
      BY <1>1, <1>5, <2>2, <2>3 DEF DirectoryInv, QueueInv
    <2>5. todo' = (todo \ {ev}) \cup Undone(n)
      BY <1>1 DEF n
    <2> QED
      BY <1>1, <2>1, <2>4, <2>5 DEF DirectoryInv, QueueInv, NotAhead
  <1>14. SendInv'
    BY <1>1, <1>3, RollBackSends DEF n
  <1> QED
    BY <1>12, <1>13, <1>14 DEF DirectoryInv

\* The step of an anti-message for an event that was not executed.
LEMMA InvCancelPending == DirectoryInv /\ CancelPending => DirectoryInv'
  <1> SUFFICES ASSUME DirectoryInv, CancelPending
               PROVE  DirectoryInv'
    OBVIOUS
  <1>1. PICK ev \in todo :
          /\ ev.kind = "anti"
          /\ Executes(ev, 0)
          /\ UNCHANGED <<history, nextSeq, sent, unread>>
    BY DEF CancelPending
  <1>2. /\ log \in Seq(LogRecord) /\ history \in History /\ ev \in Event
        /\ Faithful(history, gvt, log, Len(log))
    BY Before
  <1> DEFINE r == Record(ev, 0)
  <1>3. r \in LogRecord /\ r.ev = ev
    BY <1>2, RecordOK DEF DirectoryInv, SendInv
  <1> HIDE DEF r
  <1>4. Faithful(history, gvt, Append(log, r), Len(log) + 1)
    BY <1>1, <1>2, <1>3, FaithfulAppend
  <1>5. LogInv' /\ QueueInv'
    BY <1>1, <1>4, ExecutesOK DEF r
  <1>6. SendInv'
    BY <1>1 DEF SendInv, DirectoryInv
  <1> QED
    BY <1>5, <1>6 DEF DirectoryInv

\* The GVT advances, over everything that is still to be processed.
LEMMA InvAdvanceGvt == DirectoryInv /\ AdvanceGvt => DirectoryInv'
  <1> SUFFICES ASSUME DirectoryInv, AdvanceGvt
               PROVE  DirectoryInv'
    OBVIOUS
  <1>1. PICK g \in GvtStamps, s \in 1..MaxSeq :
          /\ Lt(gvt, g)
          /\ \A ev \in todo \cup coming : Le(g, ev.ts)
          /\ gvt' = g
          /\ base' = Max({n \in base..Len(log) :
                             \A i \in (base+1)..n : Lt(log[i].ev.ts, g)})
          /\ coming' = coming \cup
               {[kind |-> "fossil", gvt |-> g,
                 ts |-> IF g.sequence = 0 THEN [g EXCEPT !.sequence = s] ELSE g]}
          /\ UNCHANGED <<history, vt, nextSeq, log, sent, unread, todo>>
    BY DEF AdvanceGvt
  <1>2. g \in Stamp /\ gvt \in Stamp
    BY DirectoryAssumption DEF DirectoryInv, LogInv, LogOK
  <1>3. LogInv'
    BY <1>1, <1>2, AdvanceOK DEF DirectoryInv, LogInv
  <1> DEFINE ts == IF g.sequence = 0 THEN [g EXCEPT !.sequence = s] ELSE g
             f == [kind |-> "fossil", gvt |-> g, ts |-> ts]
  <1>4. ts \in Stamp /\ Le(g, ts)
    BY <1>2, StampBounds DEF Stamp, Le, Lt
  <1> HIDE DEF ts
  <1>5. f \in Event /\ f.kind = "fossil" /\ f.gvt = g /\ f.ts = ts
    BY <1>2, <1>4 DEF Event, FossilEvent
  <1>6. coming' = coming \cup {f}
    BY <1>1 DEF ts
  <1> HIDE DEF f
  <1>7. \A ev \in Event : ev.kind = "fossil" => ev.gvt \in Stamp
    BY EventFields DEF FossilEvent
  <1>8. \A p \in Stamp : Le(p, gvt) => Le(p, g)
    BY <1>1, <1>2, LeOrder
  <1>9. Le(g, g)
    BY <1>2, LeOrder
  <1>10. QueueInv'
    <2>1. todo \subseteq Event /\ coming \subseteq Event
      BY DEF DirectoryInv, QueueInv
    <2>2. \A ev \in todo \cup coming : ev.kind = "fossil" => Le(ev.gvt, g)
      BY <2>1, <1>7, <1>8 DEF DirectoryInv, QueueInv, NotAhead
    <2>3. \A i \in 1..Len(log) : log[i].ev \in Event
      BY LogTypes DEF DirectoryInv, LogInv, LogOK
    <2>4. \A i \in 1..Len(log) : log[i].ev.kind = "fossil"
                                   => Le(log[i].ev.gvt, g)
      BY <2>3, <1>7, <1>8 DEF DirectoryInv, QueueInv
    <2>5. NotAhead(todo \cup (coming \cup {f}), g)
      BY <1>1, <1>4, <1>5, <1>9, <2>2 DEF NotAhead
    <2> QED
      BY <1>1, <1>5, <1>6, <2>1, <2>4, <2>5 DEF QueueInv
  <1>11. SendInv'
    BY <1>1 DEF SendInv, DirectoryInv
  <1> QED
    BY <1>3, <1>10, <1>11 DEF DirectoryInv

\* Arrivals, withdrawals, discarded events and receivers that have caught up
\* touch the queue and the set of unread messages only.
LEMMA InvQueue ==
    DirectoryInv /\ (Arrive \/ Withdraw \/ Discard \/ Absorb) => DirectoryInv'
  <1> SUFFICES ASSUME DirectoryInv, Arrive \/ Withdraw \/ Discard \/ Absorb
               PROVE  DirectoryInv'
    OBVIOUS
  <1>1. UNCHANGED <<history, vt, nextSeq, log, base, sent, gvt>>
    BY DEF Arrive, Withdraw, Discard, Absorb
  <1>2. LogInv'
    BY <1>1 DEF LogInv, DirectoryInv
  <1>3. unread' \subseteq unread
    BY DEF Arrive, Withdraw, Discard, Absorb
  <1>4. SendInv'
    BY <1>1, <1>3 DEF SendInv, DirectoryInv
  <1>5. PICK S \in SUBSET Event : /\ NotAhead(S, gvt)
                                  /\ todo' \cup coming' \subseteq S
    <2>1. CASE ~ Withdraw
      <3>1. todo' \cup coming' \subseteq todo \cup coming
        BY <2>1 DEF Arrive, Discard, Absorb
      <3> QED
        BY <3>1 DEF DirectoryInv, QueueInv
    <2>2. CASE Withdraw
      <3>1. PICK ev \in Revocable : /\ Le(gvt, ev.ts) /\ todo' = todo
                                    /\ coming' = coming \cup {AntiOf(ev)}
        BY <2>2 DEF Withdraw
      <3>2. AntiOf(ev) \in Event /\ NotAhead({AntiOf(ev)}, gvt)
        BY <3>1, DirectoryAssumption DEF Event, AntiOf, NotAhead
      <3>3. NotAhead(todo \cup coming \cup {AntiOf(ev)}, gvt)
        BY <3>2 DEF NotAhead, DirectoryInv, QueueInv
      <3>4. todo \cup coming \cup {AntiOf(ev)} \in SUBSET Event
        BY <3>2 DEF DirectoryInv, QueueInv
      <3> QED
        BY <3>1, <3>3, <3>4
    <2> QED
      BY <2>1, <2>2
  <1>6. QueueInv'
    BY <1>1, <1>5 DEF QueueInv, NotAhead, DirectoryInv
  <1> QED
    BY <1>2, <1>4, <1>6 DEF DirectoryInv

-----------------------------------------------------------------------------
(***************************************************************************)
(* The theorems.                                                           *)
(***************************************************************************)

\* Every step keeps the invariant.
LEMMA InvStep == DirectoryInv /\ [Next]_vars => DirectoryInv'
  <1>1. DirectoryInv /\ UNCHANGED vars => DirectoryInv'
    BY DEF vars, DirectoryInv, LogInv, QueueInv, SendInv
  <1> QED
    BY <1>1, InvUpdate, InvForward, InvFossilCollect, InvStraggler,
       InvCancelProcessed, InvCancelPending, InvAdvanceGvt, InvQueue DEF Next

\* The timelines are timelines whatever is restored in a rollback, the numbers
\* of forwards stay in range, and every event keeps its kind (directory_lp.hpp
\* on_event and load_state, simulation.hpp rollback_).
THEOREM DirectoryTypeCorrect == Spec => []DirectoryTypeOK
  <1>1. DirectoryInv => DirectoryTypeOK
    <2> SUFFICES ASSUME DirectoryInv
                 PROVE  DirectoryTypeOK
      OBVIOUS
    <2>1. \A h \in History : IsHistory(h)
      BY TimelineFacts DEF IsHistory, History
    <2>2. IsHistory(history) /\ vt \in Stamp /\ gvt \in Stamp
          /\ base \in 0..Len(log)
      BY <2>1 DEF DirectoryInv, LogInv, LogOK, LogSaves, Faithful
    <2>3. \A i \in 1..Len(log) : /\ log[i].ev \in Event
                                 /\ log[i].saved => IsHistory(log[i].pre)
                                 /\ log[i].preSeq \in 1..(MaxSeq + 1)
      BY <2>1, LogTypes DEF DirectoryInv, LogInv, LogOK, LogSaves, Faithful
    <2>4. \A m \in sent : m.ts \in Stamp /\ m.at \in Stamp /\ m.dst \in Owners
      BY DEF DirectoryInv, SendInv, Message
    <2> QED
      BY <2>2, <2>3, <2>4
         DEF DirectoryTypeOK, DirectoryInv, QueueInv, SendInv, Event
  <1> QED
    BY <1>1, InvInit, InvStep, PTL DEF Spec

\* Pruning (prune_history_) never changes the owner that owner_at_ gives at or
\* after the GVT, however updates, late updates, withdrawn updates, rollbacks
\* and fossil collections interleave.
THEOREM PruningIsSafe == Spec => []PruningKeepsOwners
  <1>1. DirectoryInv => PruningKeepsOwners
    BY OwnerByLog
       DEF DirectoryInv, LogInv, LogOK, LogSaves, Faithful, PruningKeepsOwners
  <1> QED
    BY <1>1, InvInit, InvStep, PTL DEF Spec

-----------------------------------------------------------------------------
(***************************************************************************)
(* What was sent and what was put out.                                     *)
(***************************************************************************)
Chains(L) ==
    \A i \in 1..Len(L) :
        L[i].ev.kind = "update" =>
            L[i].oldOwner = LogOwner(L, L[i].ev.entity, L[i].ev.ts, i - 1)

RightlySent(S, L, v) ==
    \A m \in S :
        m.kind = "use" =>
            /\ m.at = m.of.ts /\ Le(m.at, v)
            /\ \/ m.dst = LogOwner(L, m.of.entity, m.of.ts, Len(L))
               \/ \E i \in Updates(L, m.of.entity, Len(L)) :
                     L[i].ev.ts = m.of.ts

SentInv == Chains(log) /\ RightlySent(sent, log, vt)

\* A record whose old owner is the owner by the log so far.
LEMMA ChainsAppend ==
    ASSUME NEW L \in Seq(LogRecord), Chains(L), NEW r \in LogRecord,
           r.ev.kind = "update" =>
               r.oldOwner = LogOwner(L, r.ev.entity, r.ev.ts, Len(L))
    PROVE  Chains(Append(L, r))
  <1> DEFINE M == Append(L, r)
             N == Len(L)
  <1>1. /\ N \in Nat /\ Len(M) = N + 1 /\ M[N + 1] = r
        /\ \A i \in 1..N : M[i] = L[i]
    OBVIOUS
  <1> HIDE DEF M, N
  <1>2. ASSUME NEW i \in 1..Len(M), M[i].ev.kind = "update"
        PROVE  M[i].oldOwner = LogOwner(M, M[i].ev.entity, M[i].ev.ts, i - 1)
    <2>1. i - 1 \in Nat /\ \A j \in 1..(i - 1) : M[j] = L[j]
      <3>1. i \in 1..(N + 1)
        BY <1>1
      <3>2. \A j \in 1..(i - 1) : j \in 1..N
        BY <1>1, <3>1
      <3> QED
        BY <1>1, <3>1, <3>2
    <2>2. \A e, ts : /\ Updates(M, e, i - 1) = Updates(L, e, i - 1)
                     /\ LogOwner(M, e, ts, i - 1) = LogOwner(L, e, ts, i - 1)
      BY <2>1, SameEntries
    <2>3. CASE i \in 1..N
      BY <2>2, <2>3, <1>1, <1>2 DEF Chains, N
    <2>4. CASE i = N + 1
      <3>1. i - 1 = N
        BY <2>4, <1>1
      <3> QED
        BY <2>2, <2>4, <3>1, <1>1, <1>2 DEF N
    <2> QED
      BY <2>3, <2>4, <1>1
  <1>3. Chains(M)
    BY <1>2 DEF Chains
  <1> QED
    BY <1>3 DEF M

\* A prefix of a chain is one.
LEMMA ChainsCut ==
    ASSUME NEW L \in Seq(LogRecord), Chains(L), NEW n \in 0..Len(L)
    PROVE  Chains(SubSeq(L, 1, n))
  <1> DEFINE M == SubSeq(L, 1, n)
  <1>1. /\ n \in Nat /\ Len(M) = n
        /\ \A i \in 1..n : M[i] = L[i] /\ i \in 1..Len(L)
    OBVIOUS
  <1> HIDE DEF M
  <1>2. ASSUME NEW i \in 1..n, M[i].ev.kind = "update"
        PROVE  M[i].oldOwner = LogOwner(M, M[i].ev.entity, M[i].ev.ts, i - 1)
    <2>1. i - 1 \in Nat /\ \A j \in 1..(i - 1) : M[j] = L[j]
      BY <1>1
    <2>2. \A e, ts : /\ Updates(M, e, i - 1) = Updates(L, e, i - 1)
                     /\ LogOwner(M, e, ts, i - 1) = LogOwner(L, e, ts, i - 1)
      BY <2>1, SameEntries
    <2> QED
      BY <2>2, <1>1, <1>2 DEF Chains
  <1>3. Chains(M)
    BY <1>1, <1>2 DEF Chains
  <1> QED
    BY <1>3 DEF M

\* A record at or after the virtual time: an update in it is later than every
\* event that was forwarded, or has the stamp of one.
LEMMA SentAppend ==
    ASSUME NEW L \in Seq(LogRecord), NEW v \in Stamp, NEW S \in SUBSET Message,
           RightlySent(S, L, v), NEW r \in LogRecord, Le(v, r.ev.ts)
    PROVE  RightlySent(S, Append(L, r), r.ev.ts)
  <1> DEFINE M == Append(L, r)
             N == Len(L)
  <1>1. /\ N \in Nat /\ Len(M) = N + 1 /\ M[N + 1] = r
        /\ \A i \in 1..N : M[i] = L[i]
    OBVIOUS
  <1>2. r.ev.ts \in Stamp
    BY EventFields DEF LogRecord
  <1> HIDE DEF M, N
  <1>3. ASSUME NEW m \in S, m.kind = "use"
        PROVE  /\ m.at = m.of.ts /\ Le(m.at, r.ev.ts)
               /\ \/ m.dst = LogOwner(M, m.of.entity, m.of.ts, N + 1)
                  \/ \E i \in Updates(M, m.of.entity, N + 1) :
                        M[i].ev.ts = m.of.ts
    <2> DEFINE e == m.of.entity
    <2>1. m.at \in Stamp
      BY DEF Message
    <2>2. /\ m.at = m.of.ts /\ Le(m.at, v)
          /\ \/ m.dst = LogOwner(L, e, m.of.ts, N)
             \/ \E i \in Updates(L, e, N) : L[i].ev.ts = m.of.ts
      BY <1>3 DEF RightlySent, N
    <2>3. Le(m.at, r.ev.ts)
      BY <1>2, <2>1, <2>2, LeOrder
    <2>4. /\ Updates(M, e, N) = Updates(L, e, N)
          /\ LogOwner(M, e, m.of.ts, N) = LogOwner(L, e, m.of.ts, N)
      BY <1>1, SameEntries
    <2>5. \A i \in Updates(L, e, N) : i \in Updates(M, e, N + 1) /\ M[i] = L[i]
      BY <1>1, <2>4 DEF Updates
    <2>6. CASE r.ev.kind = "update" /\ r.ev.entity = e /\ Le(r.ev.ts, m.of.ts)
      <3>1. r.ev.ts = m.of.ts
        BY <1>2, <2>1, <2>2, <2>3, <2>6, StampOrder DEF Le
      <3>2. N + 1 \in Updates(M, e, N + 1)
        BY <1>1, <2>6 DEF Updates
      <3> QED
        BY <1>1, <2>2, <2>3, <3>1, <3>2
    <2>7. CASE ~ (r.ev.kind = "update" /\ r.ev.entity = e /\ Le(r.ev.ts, m.of.ts))
      <3>1. LogOwner(M, e, m.of.ts, N + 1) = LogOwner(M, e, m.of.ts, N)
        BY <1>1, <2>7, OneEntryMore
      <3> QED
        BY <2>2, <2>3, <2>4, <2>5, <3>1
    <2> QED
      BY <2>6, <2>7
  <1>4. RightlySent(S, M, r.ev.ts)
    BY <1>1, <1>3 DEF RightlySent
  <1> QED
    BY <1>4 DEF M

\* A rollback takes back what was sent at or after its stamp; what stands was
\* sent before, and no record that bears on it is undone.
LEMMA SentCut ==
    ASSUME DirectoryInv, SentInv, NEW to \in Stamp, Le(gvt, to),
           NEW n, n = Kept(to)
    PROVE  RightlySent(Standing(to), SubSeq(log, 1, n), prev_stamp(to))
  <1> DEFINE L == SubSeq(log, 1, n)
             N == Len(log)
  <1>1. /\ n \in 0..N
        /\ \A i \in 1..n : Lt(log[i].ev.ts, to)
        /\ \A i \in (n+1)..N : Le(to, log[i].ev.ts)
    BY KeptSpec DEF DirectoryInv, LogInv
  <1>2. /\ log \in Seq(LogRecord) /\ N \in Nat
        /\ \A i \in 1..N : log[i].ev.ts \in Stamp
    BY LogTypes DEF DirectoryInv, LogInv, LogOK
  <1>3. n \in Nat /\ Len(L) = n /\ \A i \in 1..n : L[i] = log[i]
    BY <1>1, <1>2
  <1> HIDE DEF L, N
  <1>4. \A a, ts : /\ Updates(L, a, n) = Updates(log, a, n)
                    /\ LogOwner(L, a, ts, n) = LogOwner(log, a, ts, n)
    BY ONLY <1>3, SameEntries, SMTT(30)
  <1>5. ASSUME NEW m \in Standing(to), m.kind = "use"
        PROVE  /\ m.at = m.of.ts /\ Le(m.at, prev_stamp(to))
               /\ \/ m.dst = LogOwner(L, m.of.entity, m.of.ts, n)
                  \/ \E i \in Updates(L, m.of.entity, n) : L[i].ev.ts = m.of.ts
    <2> DEFINE e == m.of.entity
    <2>1. m \in sent /\ m.at \in Stamp /\ Lt(m.at, to)
      BY DEF Standing, DirectoryInv, SendInv, Message
    <2>2. /\ m.at = m.of.ts
          /\ \/ m.dst = LogOwner(log, e, m.of.ts, N)
             \/ \E i \in Updates(log, e, N) : log[i].ev.ts = m.of.ts
      BY <1>5, <2>1 DEF SentInv, RightlySent, N
    <2>3. Le(m.at, prev_stamp(to))
      BY <2>1, PrevStamp
    <2>4. \A i \in (n+1)..N : ~ Le(log[i].ev.ts, m.at)
      <3> TAKE i \in (n+1)..N
      <3>1. i \in 1..N
        BY <1>1, <1>2
      <3>2. Lt(m.at, log[i].ev.ts)
        BY <1>1, <1>2, <2>1, <3>1, LeOrder
      <3> QED
        BY <3>2 DEF Le
    <2>5. /\ Updates(L, e, n) = Updates(log, e, n)
          /\ LogOwner(L, e, m.of.ts, n) = LogOwner(log, e, m.of.ts, n)
      BY <1>4
    <2>6. \A i \in Updates(log, e, N) :
            Le(log[i].ev.ts, m.of.ts) => i \in Updates(log, e, n)
      <3> TAKE i \in Updates(log, e, N)
      <3> HAVE Le(log[i].ev.ts, m.of.ts)
      <3>1. i \in 1..N /\ log[i].ev.kind = "update" /\ log[i].ev.entity = e
        BY DEF Updates
      <3>2. i \notin (n+1)..N
        BY <2>2, <2>4
      <3>3. i \in 1..n
        BY <1>1, <1>2, <3>1, <3>2
      <3> QED
        BY <3>1, <3>3 DEF Updates
    <2>7. Updates(log, e, n) \subseteq Updates(log, e, N)
      BY <1>1, <1>2 DEF Updates
    <2>8. LogOwner(log, e, m.of.ts, N) = LogOwner(log, e, m.of.ts, n)
      <3>1. {i \in Updates(log, e, N) : Le(log[i].ev.ts, m.of.ts)}
            = {i \in Updates(log, e, n) : Le(log[i].ev.ts, m.of.ts)}
        BY <2>6, <2>7
      <3> QED
        BY <3>1 DEF LogOwner
    <2>9. ASSUME NEW i \in Updates(log, e, N), log[i].ev.ts = m.of.ts
          PROVE  i \in Updates(L, e, n) /\ L[i].ev.ts = m.of.ts
      <3>1. Le(log[i].ev.ts, m.of.ts)
        BY <2>1, <2>2, <2>9, LeOrder
      <3>2. i \in Updates(log, e, n) /\ i \in 1..n
        BY <2>6, <3>1 DEF Updates
      <3> QED
        BY <1>3, <2>5, <2>9, <3>2
    <2> QED
      BY <2>2, <2>3, <2>5, <2>8, <2>9
  <1>6. RightlySent(Standing(to), L, prev_stamp(to))
    BY <1>3, <1>5 DEF RightlySent
  <1> QED
    BY <1>6 DEF L

\* dispatch_ of an event, with what its handler sends; an update reports the
\* owner by the log so far, and a forward goes to it.
LEMMA SentExecutes ==
    ASSUME DirectoryInv, SentInv, NEW ev, NEW old \in Owners \cup {0},
           Executes(ev, old),
           ev.kind = "update" =>
               old = LogOwner(log, ev.entity, ev.ts, Len(log)),
           NEW msgs \in SUBSET Message, sent' = sent \cup msgs,
           \A m \in msgs : m.kind = "use" =>
               /\ ev.kind # "update" /\ m.of = ev /\ m.at = ev.ts
               /\ m.dst = LogOwner(log, ev.entity, ev.ts, Len(log))
    PROVE  SentInv'
  <1> DEFINE r == Record(ev, old)
             N == Len(log)
  <1>1. ev \in todo /\ Le(vt, ev.ts) /\ log' = Append(log, r) /\ vt' = ev.ts
    BY DEF Executes, IsNext, Le
  <1>2. /\ log \in Seq(LogRecord) /\ N \in Nat /\ history \in History
        /\ ev \in Event /\ ev.ts \in Stamp /\ vt \in Stamp
    BY <1>1, Before
  <1>3. r \in LogRecord /\ r.ev = ev
    BY <1>2, RecordOK DEF DirectoryInv, SendInv
  <1>4. r.oldOwner = old
    BY DEF Record
  <1> HIDE DEF r
  <1>5. Chains(Append(log, r))
    BY <1>2, <1>3, <1>4, ChainsAppend DEF SentInv
  <1>6. RightlySent(sent, Append(log, r), ev.ts)
    <2>1. sent \in SUBSET Message /\ RightlySent(sent, log, vt)
      BY DEF DirectoryInv, SendInv, SentInv
    <2> QED
      BY <1>1, <1>2, <1>3, <2>1, SentAppend
  <1>7. RightlySent(msgs, Append(log, r), ev.ts)
    <2> DEFINE M == Append(log, r)
    <2>1. Len(M) = N + 1 /\ M[N + 1] = r /\ \A i \in 1..N : M[i] = log[i]
      BY <1>2, <1>3
    <2> HIDE DEF M, N
    <2>2. \A a, ts : /\ Updates(M, a, N) = Updates(log, a, N)
                     /\ LogOwner(M, a, ts, N) = LogOwner(log, a, ts, N)
      BY ONLY <1>2, <2>1, SameEntries
    <2>3. ASSUME NEW m \in msgs, m.kind = "use"
          PROVE  /\ m.at = m.of.ts /\ Le(m.at, ev.ts)
                 /\ m.dst = LogOwner(M, m.of.entity, m.of.ts, N + 1)
      <3>1. /\ ev.kind # "update" /\ m.of = ev /\ m.at = ev.ts
            /\ m.dst = LogOwner(log, ev.entity, ev.ts, N)
        BY <2>3 DEF N
      <3>2. LogOwner(M, ev.entity, ev.ts, N + 1) = LogOwner(M, ev.entity, ev.ts, N)
        BY <1>2, <1>3, <2>1, <3>1, OneEntryMore
      <3> QED
        BY <1>2, <2>2, <3>1, <3>2, LeOrder
    <2>4. RightlySent(msgs, M, ev.ts)
      BY <2>1, <2>3 DEF RightlySent
    <2> QED
      BY <2>4 DEF M
  <1>8. RightlySent(sent', log', vt')
    BY <1>1, <1>6, <1>7 DEF RightlySent
  <1> QED
    BY <1>1, <1>5, <1>8 DEF SentInv

\* A rollback to the stamp of a pending event, and a record that is no update
\* after it.
LEMMA SentRollBack ==
    ASSUME DirectoryInv, SentInv, NEW ev \in todo,
           RollBack(Kept(ev.ts), ev.ts),
           \/ /\ log' = SubSeq(log, 1, Kept(ev.ts))
              /\ vt' = prev_stamp(ev.ts)
           \/ /\ ev.kind = "anti"
              /\ log' = Append(SubSeq(log, 1, Kept(ev.ts)), Record(ev, 0))
              /\ vt' = ev.ts
    PROVE  SentInv'
  <1> DEFINE n == Kept(ev.ts)
             L == SubSeq(log, 1, n)
             r == Record(ev, 0)
  <1>1. /\ log \in Seq(LogRecord) /\ history \in History
        /\ ev \in Event /\ ev.ts \in Stamp /\ Le(gvt, ev.ts)
    BY Before
  <1>2. n \in 0..Len(log)
    BY <1>1, KeptSpec DEF DirectoryInv, LogInv
  <1>3. L \in Seq(LogRecord) /\ Chains(L)
    BY <1>1, <1>2, ChainsCut DEF SentInv
  <1>4. RightlySent(Standing(ev.ts), L, prev_stamp(ev.ts))
    BY <1>1, SentCut
  <1>5. sent' = Standing(ev.ts)
    BY DEF RollBack
  <1>6. r \in LogRecord /\ r.ev = ev
    BY <1>1, RecordOK DEF DirectoryInv, SendInv
  <1> HIDE DEF n, L, r
  <1>7. CASE log' = L /\ vt' = prev_stamp(ev.ts)
    BY <1>3, <1>4, <1>5, <1>7 DEF SentInv
  <1>8. CASE ev.kind = "anti" /\ log' = Append(L, r) /\ vt' = ev.ts
    <2>1. Chains(Append(L, r))
      BY <1>3, <1>6, <1>8, ChainsAppend
    <2>2. Standing(ev.ts) \in SUBSET Message
      BY DEF Standing, DirectoryInv, SendInv
    <2>3. prev_stamp(ev.ts) \in Stamp /\ Le(prev_stamp(ev.ts), ev.ts)
      BY <1>1, PrevStamp
    <2>4. RightlySent(Standing(ev.ts), Append(L, r), ev.ts)
      BY <1>3, <1>4, <1>6, <2>2, <2>3, SentAppend
    <2> QED
      BY <1>5, <1>8, <2>1, <2>4 DEF SentInv
  <1> QED
    BY <1>7, <1>8 DEF n, L, r

\* Every step keeps the forwards and the migration log right.
LEMMA SentStep == DirectoryInv /\ SentInv /\ [Next]_vars => SentInv'
  <1> SUFFICES ASSUME DirectoryInv, SentInv, [Next]_vars
               PROVE  SentInv'
    OBVIOUS
  <1>1. \A ev \in todo : ev.kind \in {"update", "use"} =>
          owner_at_(history, ev.entity, ev.ts)
            = LogOwner(log, ev.entity, ev.ts, Len(log))
    <2> TAKE ev \in todo
    <2> HAVE ev.kind \in {"update", "use"}
    <2>1. /\ Faithful(history, gvt, log, Len(log)) /\ Le(gvt, ev.ts)
          /\ ev \in Event /\ ev.ts \in Stamp
      BY Before
    <2>2. ev.entity \in Entities
      BY <2>1, EventFields DEF UpdateEvent, UseEvent
    <2> QED
      BY <2>1, <2>2 DEF Faithful
  <1>2. CASE Update
    <2>1. PICK ev \in todo :
            /\ ev.kind = "update" /\ Executes(ev, OldOwner(ev))
            /\ Sends(IF ev.install THEN {Install(ev)} ELSE {})
      BY <1>2 DEF Update
    <2> DEFINE msgs == IF ev.install THEN {Install(ev)} ELSE {}
    <2>2. ev \in Event /\ ev.ts \in Stamp /\ history \in History
      BY Before
    <2>3. ev \in UpdateEvent /\ ev.entity \in Entities /\ ev.owner \in Owners
      BY <2>1, <2>2, EventFields DEF UpdateEvent
    <2>4. msgs \in SUBSET Message /\ \A m \in msgs : m.kind # "use"
      BY <2>2, <2>3 DEF Message, Install
    <2>5. OldOwner(ev) \in Owners \cup {0}
      BY <2>2, <2>3, OwnerType DEF OldOwner
    <2>6. OldOwner(ev) = LogOwner(log, ev.entity, ev.ts, Len(log))
      BY <1>1, <2>1 DEF OldOwner
    <2>7. sent' = sent \cup msgs
      BY <2>1 DEF Sends
    <2> HIDE DEF msgs
    <2> QED
      BY <2>1, <2>4, <2>5, <2>6, <2>7, SentExecutes
  <1>3. CASE Forward
    <2>1. PICK ev \in todo :
            /\ ev.kind = "use" /\ nextSeq <= MaxSeq /\ Executes(ev, 0)
            /\ Sends({Forwarded(ev)})
      BY <1>3 DEF Forward
    <2>2. ev \in Event /\ ev.ts \in Stamp /\ history \in History
      BY Before
    <2>3. owner_at_(history, ev.entity, ev.ts) \in Owners
      <3>1. ev.entity \in Entities
        BY <2>1, <2>2, EventFields DEF UseEvent
      <3> QED
        BY <2>2, <3>1, OwnerType
    <2>4. [time |-> ev.ts.time, sequence |-> nextSeq] \in Stamp
      BY <2>1, <2>2, StampBounds DEF Stamp, DirectoryInv, SendInv
    <2>5. {Forwarded(ev)} \in SUBSET Message
      BY <2>2, <2>3, <2>4 DEF Message, Forwarded
    <2>6. \A m \in {Forwarded(ev)} :
            /\ m.of = ev /\ m.at = ev.ts
            /\ m.dst = LogOwner(log, ev.entity, ev.ts, Len(log))
      BY <1>1, <2>1 DEF Forwarded
    <2>7. sent' = sent \cup {Forwarded(ev)}
      BY <2>1 DEF Sends
    <2> QED
      BY <2>1, <2>5, <2>6, <2>7, SentExecutes
  <1>4. CASE FossilCollect \/ CancelPending
    <2>1. PICK ev \in todo : /\ ev.kind # "update" /\ Executes(ev, 0)
                             /\ sent' = sent \cup {}
      BY <1>4 DEF FossilCollect, CancelPending
    <2>2. {} \in SUBSET Message /\ 0 \in Owners \cup {0}
      OBVIOUS
    <2> QED
      BY <2>1, <2>2, SentExecutes
  <1>5. CASE Straggler \/ CancelProcessed
    BY <1>5, SentRollBack DEF Straggler, CancelProcessed
  <1>6. CASE AdvanceGvt \/ Arrive \/ Withdraw \/ Discard \/ Absorb
             \/ UNCHANGED vars
    <2>1. sent' = sent /\ log' = log /\ vt' = vt
      BY <1>6 DEF AdvanceGvt, Arrive, Withdraw, Discard, Absorb, vars
    <2> QED
      BY <2>1 DEF SentInv
  <1> QED
    BY <1>2, <1>3, <1>4, <1>5, <1>6 DEF Next

\* Nothing sent, nothing logged.
LEMMA SentInit == Init => SentInv
  BY DEF Init, SentInv, Chains, RightlySent

\* DirectoryLP::on_event: every forward that stands went to the owner at the
\* stamp of its event by the updates that stand, but where an update has that
\* very stamp.
THEOREM ForwardsAreRight == Spec => []ForwardsToOwner
  <1>1. SentInv => ForwardsToOwner
    BY OwnerByLog DEF SentInv, RightlySent, ForwardsToOwner, UpdatesOf, Updates
  <1> QED
    BY <1>1, InvInit, InvStep, SentInit, SentStep, PTL DEF Spec

\* DirectoryLP::on_event: the migrations of an entity in the output form a
\* chain from its default owner.
THEOREM MigrationLogIsRight == Spec => []MigrationLogChains
  <1>1. SentInv => MigrationLogChains
    BY OwnerByLog DEF SentInv, Chains, MigrationLogChains
  <1> QED
    BY <1>1, InvInit, InvStep, SentInit, SentStep, PTL DEF Spec

=============================================================================

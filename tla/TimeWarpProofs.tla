--------------------------- MODULE TimeWarpProofs ---------------------------
(***************************************************************************)
(* Theorems about the kernel that hold for every model program, every      *)
(* placement of LPs on ranks, both GVT modes and every period: the state   *)
(* keeps its type, an LP's records stay in the order of their stamps, and  *)
(* what rollbacks restore are the states the LP was in.                    *)
(***************************************************************************)
EXTENDS TimeWarp, StampLemmas, Functions, FiniteSetTheorems

-----------------------------------------------------------------------------
(***************************************************************************)
(* What rollback_ and prune_to_gvt_ keep of the two logs of an LP.         *)
(***************************************************************************)

\* rollback_ keeps a prefix of the records; those that go are not before "to",
\* and the last one that stays is.
LEMMA KeptProcessedSpec ==
    ASSUME NEW c \in LPContext, NEW to \in Stamp,
           NEW k, k = KeptProcessed(c, to)
    PROVE  /\ k \in 0..Len(c.processed)
           /\ \A i \in (k+1)..Len(c.processed) : Le(to, c.processed[i].ev.ts)
           /\ k > 0 => Lt(c.processed[k].ev.ts, to)
  <1> DEFINE N == Len(c.processed)
             B == {i \in 1..N : Le(to, c.processed[i].ev.ts)}
  <1>1. N \in Nat
    BY DEF LPContext
  <1>2. {n \in 0..N : \A i \in (n+1)..N : i \in B}
        = {n \in 0..N : \A i \in (n+1)..N : Le(to, c.processed[i].ev.ts)}
    BY <1>1
  <1>3. k = Min({n \in 0..N : \A i \in (n+1)..N : i \in B})
    BY <1>2 DEF KeptProcessed
  <1>4. k \in 0..N /\ (\A i \in (k+1)..N : i \in B) /\ (k > 0 => k \notin B)
    <2> HIDE DEF N
    <2>1. B \in SUBSET (1..N)
      OBVIOUS
    <2> HIDE DEF B
    <2> QED
      BY <1>1, <1>3, <2>1, BackCut
  <1> QED
    BY <1>1, <1>4 DEF Le

\* The same of the sent log, whose entries are cut by the time of sending.
LEMMA KeptSentSpec ==
    ASSUME NEW c \in LPContext, NEW to \in Stamp,
           NEW k, k = KeptSent(c, to)
    PROVE  /\ k \in 0..Len(c.sentLog)
           /\ \A i \in (k+1)..Len(c.sentLog) : Le(to, c.sentLog[i].sendTime)
  <1> DEFINE N == Len(c.sentLog)
             B == {i \in 1..N : Le(to, c.sentLog[i].sendTime)}
  <1>1. N \in Nat
    BY DEF LPContext
  <1>2. {n \in 0..N : \A i \in (n+1)..N : i \in B}
        = {n \in 0..N : \A i \in (n+1)..N : Le(to, c.sentLog[i].sendTime)}
    BY <1>1
  <1>3. k = Min({n \in 0..N : \A i \in (n+1)..N : i \in B})
    BY <1>2 DEF KeptSent
  <1>4. k \in 0..N /\ (\A i \in (k+1)..N : i \in B)
    <2> HIDE DEF N
    <2>1. B \in SUBSET (1..N)
      OBVIOUS
    <2> HIDE DEF B
    <2> QED
      BY <1>1, <1>3, <2>1, BackCut
  <1> QED
    BY <1>1, <1>4

\* prune_to_gvt_ commits a prefix of the records, all before gvt, and stops at
\* one that is not.
LEMMA PrunedProcessedSpec ==
    ASSUME NEW c \in LPContext, NEW gvt \in Stamp,
           NEW k, k = PrunedProcessed(c, gvt)
    PROVE  /\ k \in 0..Len(c.processed)
           /\ \A i \in 1..k : Lt(c.processed[i].ev.ts, gvt)
           /\ k < Len(c.processed) => Le(gvt, c.processed[k+1].ev.ts)
  <1> DEFINE N == Len(c.processed)
             B == {i \in 1..N : Lt(c.processed[i].ev.ts, gvt)}
  <1>1. N \in Nat
    BY DEF LPContext
  <1>2. {n \in 0..N : \A i \in 1..n : i \in B}
        = {n \in 0..N : \A i \in 1..n : Lt(c.processed[i].ev.ts, gvt)}
    BY <1>1
  <1>3. k = Max({n \in 0..N : \A i \in 1..n : i \in B})
    BY <1>2 DEF PrunedProcessed
  <1>4. k \in 0..N /\ (\A i \in 1..k : i \in B) /\ (k < N => k + 1 \notin B)
    <2> HIDE DEF N
    <2>1. B \in SUBSET (1..N)
      OBVIOUS
    <2> HIDE DEF B
    <2> QED
      BY <1>1, <1>3, <2>1, FrontCut
  <1> QED
    BY <1>1, <1>4 DEF Le

\* It drops a prefix of the sent log.
LEMMA PrunedSentSpec ==
    ASSUME NEW c \in LPContext, NEW gvt \in Stamp
    PROVE  PrunedSent(c, gvt) \in 0..Len(c.sentLog)
  <1> DEFINE N == Len(c.sentLog)
             T == {n \in 0..N : \A i \in 1..n : Lt(c.sentLog[i].sendTime, gvt)}
  <1>1. N \in Nat
    BY DEF LPContext
  <1>2. Max(T) \in T
    <2> HIDE DEF N
    <2>1. T \in SUBSET (0..N)
      OBVIOUS
    <2>2. 0 \in T
      BY <1>1
    <2> QED
      BY <1>1, <2>1, <2>2, GreatestNat
  <1> QED
    BY <1>2 DEF PrunedSent

-----------------------------------------------------------------------------
(***************************************************************************)
(* Types of what the actions build.                                        *)
(***************************************************************************)

\* The values of a function on a finite set are finitely many.
LEMMA FiniteImage ==
    ASSUME NEW D, IsFiniteSet(D), NEW f
    PROVE  IsFiniteSet({f[i] : i \in D})
  <1> DEFINE T == {f[i] : i \in D}
             g == [i \in D |-> f[i]]
  <1>1. g \in Surjection(D, T)
    BY DEF Surjection
  <1> QED
    BY <1>1, FS_Surjection

\* A rollback leaves an LP context: prefixes of its logs, counters found in a
\* record, and a state put together from snapshots.
LEMMA RolledBackType ==
    ASSUME NEW c \in LPContext, NEW to \in Stamp
    PROVE  RolledBack(c, to) \in LPContext
  <1> DEFINE k == KeptProcessed(c, to)
             m == KeptSent(c, to)
  <1>1. k \in 0..Len(c.processed)
    BY KeptProcessedSpec
  <1>2. m \in 0..Len(c.sentLog)
    BY KeptSentSpec
  <1>3. c.processed \in Seq(ProcessedRecord) /\ c.sentLog \in Seq(SentRecord)
    BY DEF LPContext
  <1>4. SubSeq(c.processed, 1, k) \in Seq(ProcessedRecord)
    <2> HIDE DEF k
    <2> QED
      BY <1>1, <1>3
  <1>5. SubSeq(c.sentLog, 1, m) \in Seq(SentRecord)
    <2> HIDE DEF m
    <2> QED
      BY <1>2, <1>3
  <1>6. k < Len(c.processed) =>
           /\ c.processed[k+1].preNextSeqNormal \in Nat
           /\ c.processed[k+1].preNextSeqControl \in Nat
    <2> HIDE DEF k
    <2> HAVE k < Len(c.processed)
    <2>1. c.processed[k+1] \in ProcessedRecord
      BY <1>1, <1>3
    <2> QED
      BY <2>1 DEF ProcessedRecord
  <1>7. RestoredState(c, k) \in LPState
    <2> HIDE DEF k
    <2> SUFFICES ASSUME NEW e \in Entities
                 PROVE  RestoredState(c, k)[e] \in Values
      BY DEF RestoredState, LPState
    <2> DEFINE snaps == {i \in (k+1)..Len(c.processed) :
                            e \in DOMAIN c.processed[i].pre}
    <2>1. CASE snaps = {}
      <3>1. RestoredState(c, k)[e] = c.state[e]
        BY <2>1 DEF RestoredState
      <3> QED
        BY <3>1 DEF LPContext, LPState
    <2>2. CASE snaps # {}
      <3>1. snaps \in SUBSET Nat
        BY <1>1, <1>3
      <3>2. Min(snaps) \in snaps
        BY <2>2, <3>1, LeastNat
      <3>3. RestoredState(c, k)[e] = c.processed[Min(snaps)].pre[e]
        BY <2>2 DEF RestoredState
      <3> DEFINE i == Min(snaps)
      <3>4. i \in 1..Len(c.processed) /\ e \in DOMAIN c.processed[i].pre
        BY <3>2, <1>1, <1>3
      <3> HIDE DEF i
      <3>5. c.processed[i] \in ProcessedRecord
        BY <3>4, <1>3
      <3>6. c.processed[i].pre \in UNION {[E -> Values] : E \in SUBSET Entities}
        BY <3>5 DEF ProcessedRecord
      <3>7. c.processed[i].pre[e] \in Values
        BY <3>4, <3>6
      <3> QED
        BY <3>3, <3>7 DEF i
    <2> QED
      BY <2>1, <2>2
  <1>8. prev_stamp(to) \in Stamp
    BY PrevStamp
  <1> HIDE DEF k, m
  <1> QED
    BY <1>4, <1>5, <1>6, <1>7, <1>8 DEF RolledBack, LPContext, k, m

\* What a rollback undoes are records of the LP; there are finitely many.
LEMMA UndoneType ==
    ASSUME NEW c \in LPContext, NEW to \in Stamp
    PROVE  /\ Undone(c, to) \in SUBSET ProcessedRecord
           /\ \A u \in Undone(c, to) :
                 \E i \in 1..Len(c.processed) : u = c.processed[i]
           /\ \A u \in Undone(c, to) : Le(to, u.ev.ts)
  <1> DEFINE k == KeptProcessed(c, to)
  <1>1. /\ k \in 0..Len(c.processed)
        /\ \A i \in (k+1)..Len(c.processed) : Le(to, c.processed[i].ev.ts)
    BY KeptProcessedSpec
  <1>2. c.processed \in Seq(ProcessedRecord)
    BY DEF LPContext
  <1>3. Undone(c, to) = {c.processed[i] : i \in (k+1)..Len(c.processed)}
    BY DEF Undone
  <1> HIDE DEF k
  <1>4. \A i \in (k+1)..Len(c.processed) : i \in 1..Len(c.processed)
    BY <1>1, <1>2
  <1> QED
    BY <1>1, <1>2, <1>3, <1>4

\* The anti-messages of a rollback: finitely many, one for each log entry that
\* goes, with its stamp and uid.
LEMMA AntisType ==
    ASSUME NEW l \in LPs, NEW c \in LPContext, NEW to \in Stamp
    PROVE  /\ Antis(l, c, to) \in SUBSET Event
           /\ IsFiniteSet(Antis(l, c, to))
           /\ \A a \in Antis(l, c, to) :
                 \E i \in 1..Len(c.sentLog) : /\ Le(to, c.sentLog[i].sendTime)
                                              /\ a.ts = c.sentLog[i].msgTime
  <1> DEFINE k == KeptSent(c, to)
             D == (k+1)..Len(c.sentLog)
             anti(i) == [ts |-> c.sentLog[i].msgTime, src |-> l,
                         dst |-> c.sentLog[i].dst, uid |-> c.sentLog[i].uid,
                         kind |-> NoKind, anti |-> TRUE]
  <1>1. /\ k \in 0..Len(c.sentLog)
        /\ \A i \in D : Le(to, c.sentLog[i].sendTime)
    BY KeptSentSpec
  <1>2. c.sentLog \in Seq(SentRecord)
    BY DEF LPContext
  <1>3. Antis(l, c, to) = {anti(i) : i \in D}
    BY DEF Antis
  <1> HIDE DEF k
  <1>4. \A i \in D : i \in 1..Len(c.sentLog) /\ c.sentLog[i] \in SentRecord
    BY <1>1, <1>2
  <1>5. \A i \in D : anti(i) \in Event
    BY <1>4 DEF SentRecord, Event, AntiMessage
  <1>6. IsFiniteSet(D)
    BY <1>1, <1>2, FS_Interval
  <1>7. IsFiniteSet({anti(i) : i \in D})
    <2> DEFINE f == [i \in D |-> anti(i)]
    <2>1. IsFiniteSet({f[i] : i \in D})
      <3> HIDE DEF D, f
      <3> QED
        BY <1>6, FiniteImage
    <2>2. {f[i] : i \in D} = {anti(i) : i \in D}
      <3> HIDE DEF D, anti
      <3> QED
        OBVIOUS
    <2> QED
      BY <2>1, <2>2
  <1> QED
    BY <1>1, <1>3, <1>4, <1>5, <1>7

\* The numbers of automatic sequence numbers drawn are numbers.
LEMMA AutosType ==
    ASSUME NEW sends, NEW n \in Nat, NEW control
    PROVE  Autos(sends, n, control) \in Nat
  <1> DEFINE A == {i \in 1..n : /\ sends[i].sequence = 0
                                /\ IsControl(sends[i].kind) = control}
  <1>1. IsFiniteSet(1..n)
    BY FS_Interval
  <1>2. A \in SUBSET (1..n)
    OBVIOUS
  <1>3. IsFiniteSet(A)
    BY <1>1, <1>2, FS_Subset
  <1>4. Cardinality(A) \in Nat
    BY <1>3, FS_CardinalityType
  <1> QED
    BY <1>4 DEF Autos

\* Every send puts out one event.
LEMMA EmittedLen ==
    ASSUME NEW l, NEW c, NEW now, NEW sends \in Seq(Send)
    PROVE  Len(Emitted(l, c, now, sends)) = Len(sends)
  <1>1. Len(sends) \in Nat
    OBVIOUS
  <1>2. DOMAIN Emitted(l, c, now, sends) = 1..Len(sends)
    BY DEF Emitted
  <1>3. Emitted(l, c, now, sends)
        = [i \in 1..Len(sends) |-> Emitted(l, c, now, sends)[i]]
    BY DEF Emitted
  <1> QED
    BY <1>1, <1>2, <1>3

\* send() turns the sends of a handler into plain events, delay later.
LEMMA EmittedType ==
    ASSUME NEW l \in LPs, NEW c \in LPContext, NEW now \in Stamp,
           NEW sends \in Seq(Send),
           NEW evs, evs = Emitted(l, c, now, sends), StampsFit(evs)
    PROVE  /\ evs \in Seq(PlainEvent) /\ Len(evs) = Len(sends)
           /\ \A i \in 1..Len(sends) : evs[i].ts.time = now.time + sends[i].delay
           /\ IsFiniteSet({evs[i] : i \in 1..Len(evs)})
  <1> DEFINE n == Len(sends)
  <1>1. n \in Nat
    OBVIOUS
  <1>2. /\ DOMAIN evs = 1..n
        /\ \A i \in 1..n :
              /\ evs[i].ts.time = now.time + sends[i].delay
              /\ evs[i] = [ts |-> evs[i].ts, src |-> l, dst |-> sends[i].dst,
                           uid |-> c.nextUid + i - 1, kind |-> sends[i].kind,
                           anti |-> FALSE]
    BY DEF Emitted
  <1>3. evs = [i \in 1..n |-> evs[i]]
    BY DEF Emitted
  <1>4. Len(evs) = n
    BY EmittedLen
  <1>5. \A i \in 1..n : evs[i] \in PlainEvent
    <2> TAKE i \in 1..n
    <2>1. sends[i] \in Send
      OBVIOUS
    <2>2. evs[i].ts \in EventStamp
      BY <1>4 DEF StampsFit
    <2>3. c.nextUid + i - 1 \in Nat
      BY <1>1 DEF LPContext
    <2>4. sends[i].dst \in LPs /\ sends[i].kind \in Kinds
      BY <2>1 DEF Send
    <2> DEFINE ts == evs[i].ts
               dst == sends[i].dst
               kind == sends[i].kind
               uid == c.nextUid + i - 1
    <2>5. evs[i] = [ts |-> ts, src |-> l, dst |-> dst, uid |-> uid,
                    kind |-> kind, anti |-> FALSE]
      BY <1>2
    <2>6. ts \in EventStamp /\ dst \in LPs /\ kind \in Kinds /\ uid \in Nat
      BY <2>2, <2>3, <2>4
    <2> HIDE DEF ts, dst, kind, uid
    <2> QED
      BY ONLY <2>5, <2>6, l \in LPs DEF PlainEvent
  <1>6. evs \in Seq(PlainEvent)
    BY <1>1, <1>3, <1>5
  <1>7. IsFiniteSet({evs[i] : i \in 1..Len(evs)})
    <2>1. IsFiniteSet(1..n)
      BY <1>1, FS_Interval
    <2>2. IsFiniteSet({evs[i] : i \in 1..n})
      BY ONLY <2>1, FiniteImage
    <2> QED
      BY <2>2, <1>4
  <1> QED
    BY <1>2, <1>4, <1>6, <1>7

\* Sending leaves an LP context, with one log entry per event.
LEMMA AfterSendingType ==
    ASSUME NEW c \in LPContext, NEW now \in Stamp, NEW sends \in Seq(Send),
           NEW evs \in Seq(PlainEvent), Len(evs) = Len(sends)
    PROVE  AfterSending(c, now, sends, evs) \in LPContext
  <1> DEFINE log == [i \in 1..Len(sends) |->
                       [sendTime |-> now, msgTime |-> evs[i].ts,
                        dst |-> evs[i].dst, uid |-> evs[i].uid]]
  <1>1. Len(sends) \in Nat
    OBVIOUS
  <1>2. \A i \in 1..Len(sends) : evs[i] \in PlainEvent
    OBVIOUS
  <1>3. log \in Seq(SentRecord)
    <2>1. \A i \in 1..Len(sends) : log[i] \in SentRecord
      BY <1>2 DEF SentRecord, PlainEvent
    <2>2. log = [i \in 1..Len(sends) |-> log[i]]
      OBVIOUS
    <2> HIDE DEF log
    <2> QED
      BY <1>1, <2>1, <2>2
  <1> DEFINE drawn == Autos(sends, Len(sends), FALSE)
             drawnControl == Autos(sends, Len(sends), TRUE)
  <1>4. drawn \in Nat /\ drawnControl \in Nat
    BY <1>1, AutosType
  <1>5. c.sentLog \o log \in Seq(SentRecord)
    <2> HIDE DEF log
    <2> QED
      BY <1>3 DEF LPContext
  <1> DEFINE uid == c.nextUid + Len(sends)
             normal == c.nextSeqNormal + drawn
             control == c.nextSeqControl + drawnControl
             sent == c.sentLog \o log
  <1>6. AfterSending(c, now, sends, evs)
        = [c EXCEPT !.nextUid = uid, !.nextSeqNormal = normal,
                    !.nextSeqControl = control, !.sentLog = sent]
    BY DEF AfterSending
  <1>7. c.nextUid \in Nat /\ c.nextSeqNormal \in Nat /\ c.nextSeqControl \in Nat
    BY DEF LPContext
  <1>8. uid \in Nat /\ normal \in Nat /\ control \in Nat
    <2> HIDE DEF drawn, drawnControl
    <2> QED
      BY <1>1, <1>4, <1>7, SMTT(30)
  <1> HIDE DEF log, uid, normal, control, sent
  <1> QED
    BY <1>5, <1>6, <1>8 DEF LPContext, sent

\* Undoing anti-messages leaves tombstones.
LEMMA TombstonesType ==
    ASSUME NEW tombs \in SUBSET Tombstone, NEW undone \in SUBSET ProcessedRecord
    PROVE  TombstonesBefore(tombs, undone) \in SUBSET Tombstone
  BY DEF TombstonesBefore, ProcessedRecord

\* Pruning leaves an LP context.
LEMMA PrunedType ==
    ASSUME NEW c \in LPContext, NEW gvt \in Stamp
    PROVE  Pruned(c, gvt) \in LPContext
  <1> DEFINE k == PrunedProcessed(c, gvt)
             m == PrunedSent(c, gvt)
  <1>1. k \in 0..Len(c.processed) /\ m \in 0..Len(c.sentLog)
    BY PrunedProcessedSpec, PrunedSentSpec
  <1>2. c.processed \in Seq(ProcessedRecord) /\ c.sentLog \in Seq(SentRecord)
    BY DEF LPContext
  <1> HIDE DEF k, m
  <1>3. SubSeq(c.processed, k + 1, Len(c.processed)) \in Seq(ProcessedRecord)
    BY <1>1, <1>2
  <1>4. SubSeq(c.sentLog, m + 1, Len(c.sentLog)) \in Seq(SentRecord)
    BY <1>1, <1>2
  <1> QED
    BY <1>3, <1>4 DEF Pruned, LPContext, k, m

-----------------------------------------------------------------------------
(***************************************************************************)
(* The sets that the type invariant is about, and the state keeps its type.*)
(***************************************************************************)
ColourState == [red : BOOLEAN, white : 0..1,
                sent : [Ranks -> [0..1 -> Nat]], recv : [Ranks -> [0..1 -> Nat]],
                atFlip : [Ranks -> Nat], minRed : [Ranks -> Stamp]]

InflightKey == [src : LPs, uid : Nat, anti : BOOLEAN, ts : Stamp]

Message == [from : Ranks, ev : Event, colour : 0..1]

AckMessage == [to : Ranks, src : LPs, uid : Nat, anti : BOOLEAN]

\* The fields of an event, whichever of the two kinds it is.
LEMMA EventFields ==
    ASSUME NEW e \in Event
    PROVE  /\ e.ts \in Stamp /\ e.ts # MaxStamp
           /\ e.src \in LPs /\ e.dst \in LPs /\ e.uid \in Nat
           /\ e.anti \in BOOLEAN
           /\ ~ e.anti => e \in PlainEvent /\ e.kind \in Kinds
  <1>1. CASE e \in PlainEvent
    BY <1>1 DEF PlainEvent, EventStamp
  <1>2. CASE e \in AntiMessage
    BY <1>2 DEF AntiMessage, EventStamp
  <1> QED
    BY <1>1, <1>2 DEF Event

\* What rank r drops from its queue, keeping "kept", are cancelled events.
OnlySkipped(r, kept) == \A e \in pending[r] \ kept : Skipped(r, e)

\* pop_next_ takes an event from the queue and drops only cancelled ones.
LEMMA PopNextSpec ==
    ASSUME NEW r \in Ranks, NEW p \in PopNext(r)
    PROVE  /\ p.ev \in pending[r] /\ p.rest \in SUBSET pending[r]
           /\ p.ev \notin p.rest /\ OnlySkipped(r, p.rest \cup {p.ev})
  <1>1. PICK e \in pending[r], ties \in SUBSET pending[r] :
          /\ \A f \in ties : Skipped(r, f)
          /\ \A g \in pending[r] : PendingBefore(g, e) => Skipped(r, g)
          /\ p = [ev |-> e, rest |-> {f \in pending[r] \ (ties \cup {e}) :
                                       ~ PendingBefore(f, e)}]
    BY DEF PopNext
  <1> QED
    BY <1>1 DEF OnlySkipped

\* Dispatching ev adds no tombstones but one for ev itself, and those that a
\* record of the LP remembers.
TombstonesFrom(ev) ==
    \A q \in Ranks : \A t \in cancelled'[q] :
        \/ t \in cancelled[q]
        \/ ev.anti /\ SameUid(t, ev)
        \/ \E i \in 1..Len(ctx[ev.dst].processed) :
              t \in ctx[ev.dst].processed[i].cancelPrev

\* The bookkeeping of colored-counters GVT keeps its type when messages go out.
LEMMA CountedType ==
    ASSUME colour \in ColourState, NEW r \in Ranks,
           NEW remote \in SUBSET Event, IsFiniteSet(remote)
    PROVE  Counted(r, remote) \in ColourState
  <1>1. Cardinality(remote) \in Nat
    BY FS_CardinalityType
  <1>2. SendColour \in 0..1
    BY DEF SendColour, ColourState
  <1> DEFINE S == {colour.minRed[r]} \cup {e.ts : e \in remote}
             least == MinStamp(S)
             sent == [colour.sent EXCEPT ![r][SendColour] = @ + Cardinality(remote)]
             minRed == [colour.minRed EXCEPT ![r] = IF colour.red THEN least ELSE @]
  <1>3. S \in SUBSET Stamp
    <2>1. \A e \in remote : e.ts \in Stamp
      BY EventFields
    <2>2. colour.minRed[r] \in Stamp
      BY DEF ColourState
    <2> QED
      BY <2>1, <2>2
  <1>4. least \in Stamp
    BY <1>3, MinStampBounds
  <1> HIDE DEF S, least
  <1>5. sent \in [Ranks -> [0..1 -> Nat]]
    BY <1>1, <1>2 DEF ColourState
  <1>6. minRed \in [Ranks -> Stamp]
    BY <1>4 DEF ColourState
  <1>7. Counted(r, remote) = [colour EXCEPT !.sent = sent, !.minRed = minRed]
    BY DEF Counted, least, S, ColourState
  <1> HIDE DEF sent, minRed
  <1> QED
    BY <1>5, <1>6, <1>7 DEF ColourState

\* Sending keeps the types of the queue, the transport and the bookkeeping.
LEMMA RouteType ==
    ASSUME TypeOK, NEW r \in Ranks, NEW queue \in SUBSET Event,
           NEW out \in SUBSET Event, IsFiniteSet(out), Route(r, queue, out)
    PROVE  /\ pending' \in [Ranks -> SUBSET Event]
           /\ net' \in SUBSET Message
           /\ inflight' \in [Ranks -> SUBSET InflightKey]
           /\ colour' \in ColourState
  <1> DEFINE remote == {e \in out : lpToRank[e.dst] # r}
  <1>1. remote \in SUBSET Event /\ remote \in SUBSET out
    OBVIOUS
  <1>2. IsFiniteSet(remote)
    BY <1>1, FS_Subset
  <1>3. colour \in ColourState /\ inflight \in [Ranks -> SUBSET InflightKey]
    BY DEF TypeOK, ColourState, InflightKey
  <1>4. /\ pending' = [pending EXCEPT ![r] = queue \cup (out \ remote)]
        /\ net' = net \cup {[from |-> r, ev |-> e, colour |-> SendColour] :
                               e \in remote}
    BY DEF Route
  <1>5. \/ inflight' = [inflight EXCEPT
                           ![r] = @ \cup {InflightOf(e) : e \in remote}]
           /\ colour' = colour
        \/ colour' = Counted(r, remote) /\ inflight' = inflight
    BY DEF Route
  <1> HIDE DEF remote
  <1>6. pending' \in [Ranks -> SUBSET Event]
    BY <1>1, <1>4 DEF TypeOK
  <1>7. net' \in SUBSET Message
    <2>1. SendColour \in 0..1
      BY <1>3 DEF SendColour, ColourState
    <2>2. \A e \in remote :
             [from |-> r, ev |-> e, colour |-> SendColour] \in Message
      BY <2>1, <1>1 DEF Message
    <2>3. net \in SUBSET Message
      BY DEF TypeOK, Message
    <2> QED
      BY <1>4, <2>2, <2>3
  <1>8. inflight' \in [Ranks -> SUBSET InflightKey]
    <2>1. \A e \in remote : InflightOf(e) \in InflightKey
      BY <1>1, EventFields DEF InflightOf, InflightKey
    <2> QED
      BY <1>3, <1>5, <2>1
  <1>9. colour' \in ColourState
    BY <1>2, <1>1, <1>3, <1>5, CountedType
  <1> QED
    BY <1>6, <1>7, <1>8, <1>9

\* Pruning keeps the types of the contexts and the tombstones.
LEMMA PruneType ==
    ASSUME TypeOK, NEW R, NEW gvt \in Stamp, Prune(R, gvt)
    PROVE  /\ ctx' \in [LPs -> LPContext]
           /\ cancelled' \in [Ranks -> SUBSET Tombstone]
  <1>1. \A l \in LPs : Pruned(ctx[l], gvt) \in LPContext
    BY PrunedType DEF TypeOK
  <1>2. ctx' \in [LPs -> LPContext]
    BY <1>1 DEF Prune, TypeOK
  <1>3. cancelled' \in [Ranks -> SUBSET Tombstone]
    BY DEF Prune, TypeOK
  <1> QED
    BY <1>2, <1>3

\* What request_write saves is a snapshot of some of the entities.
LEMMA SnapshotType ==
    ASSUME NEW l \in LPs, NEW state \in LPState, NEW writes \in SUBSET Entities
    PROVE  Snapshot(l, state, writes) \in UNION {[E -> Values] : E \in SUBSET Entities}
  <1>1. <<>> \in [{} -> Values]
    OBVIOUS
  <1>2. state \in [Entities -> Values]
    BY DEF LPState
  <1>3. [e \in writes |-> state[e]] \in [writes -> Values]
    BY <1>2
  <1> QED
    BY <1>1, <1>2, <1>3 DEF Snapshot

-----------------------------------------------------------------------------
(***************************************************************************)
(* Type correctness.                                                       *)
(***************************************************************************)
LEMMA TypeInit == Init => TypeOK
  <1> SUFFICES ASSUME Init
               PROVE  TypeOK
    OBVIOUS
  <1>1. pc \in [Ranks -> {"start", "poll", "fossil", "gvt", "work", "done"}]
    BY DEF Init
  <1>2. iters \in [Ranks -> 0..(Period - 1)]
    BY KernelAssumption DEF Init
  <1>3. pending \in [Ranks -> SUBSET Event]
    BY ModelAssumption DEF Init, Event
  <1>4. cancelled \in [Ranks -> SUBSET Tombstone]
    BY DEF Init
  <1>5. inflight \in [Ranks -> SUBSET InflightKey]
    BY DEF Init
  <1>6. ctx \in [LPs -> LPContext]
    <2>1. \A l \in LPs : NewContext(l) \in LPContext
      BY ModelAssumption, StampConstants DEF NewContext, LPContext
    <2> QED
      BY <2>1 DEF Init
  <1>7. net \in SUBSET Message /\ acks \in SUBSET AckMessage
    BY DEF Init
  <1>8. lastGvt \in Stamp
    BY StampConstants DEF Init
  <1>9. colour \in ColourState
    BY StampConstants DEF Init, ColourState
  <1> QED
    BY <1>1, <1>2, <1>3, <1>4, <1>5, <1>6, <1>7, <1>8, <1>9
       DEF TypeOK, InflightKey, Message, AckMessage, ColourState

\* What an LP's on_start seeds has the type of events.
LEMMA StartType ==
    ASSUME TypeOK, NEW l \in LPs, StampsFit(StartEvents(l))
    PROVE  /\ StartEvents(l) \in Seq(PlainEvent)
           /\ Len(StartEvents(l)) = Len(OnStart(l))
           /\ IsFiniteSet({StartEvents(l)[i] : i \in 1..Len(OnStart(l))})
           /\ \A i \in 1..Len(OnStart(l)) : StartEvents(l)[i] \in Event
           /\ AfterSending(ctx[l], ZeroStamp, OnStart(l), StartEvents(l)) \in LPContext
  <1>1. ctx[l] \in LPContext /\ OnStart(l) \in Seq(Send) /\ ZeroStamp \in Stamp
    BY ModelAssumption, StampConstants DEF TypeOK
  <1> DEFINE evs == StartEvents(l)
             sends == OnStart(l)
             c == ctx[l]
  <1>2. evs = Emitted(l, c, ZeroStamp, sends)
    BY DEF StartEvents
  <1>3. c \in LPContext /\ sends \in Seq(Send) /\ StampsFit(evs)
    BY <1>1
  <1> HIDE DEF evs, sends, c
  <1>4. /\ evs \in Seq(PlainEvent) /\ Len(evs) = Len(sends)
        /\ IsFiniteSet({evs[i] : i \in 1..Len(evs)})
    <2>1. evs \in Seq(PlainEvent)
      BY <1>1, <1>2, <1>3, EmittedType
    <2>2. Len(evs) = Len(sends)
      BY <1>2, <1>3, EmittedLen
    <2>3. IsFiniteSet({evs[i] : i \in 1..Len(evs)})
      BY <1>1, <1>2, <1>3, EmittedType
    <2> QED
      BY <2>1, <2>2, <2>3
  <1>5. AfterSending(c, ZeroStamp, sends, evs) \in LPContext
    BY <1>1, <1>3, <1>4, AfterSendingType
  <1>6. IsFiniteSet({evs[i] : i \in 1..Len(sends)})
    BY <1>4
  <1>7. \A i \in 1..Len(sends) : evs[i] \in Event
    BY <1>4 DEF Event
  <1> QED
    BY <1>4, <1>5, <1>6, <1>7 DEF evs, sends, c

\* A finite union of finite sets is finite: what all LPs of a rank send.
LEMMA FiniteUnion ==
    ASSUME NEW D, IsFiniteSet(D), NEW f, \A d \in D : IsFiniteSet(f[d])
    PROVE  IsFiniteSet(UNION {f[d] : d \in D})
  <1>1. IsFiniteSet({f[d] : d \in D})
    BY FiniteImage
  <1> QED
    BY <1>1, FS_UNION

\* start_if_needed_ keeps the type of the state.
LEMMA TypeStart ==
    ASSUME TypeOK, NEW r \in Ranks, Start(r)
    PROVE  TypeOK'
  <1> DEFINE f == [l \in LPs |-> {StartEvents(l)[i] : i \in 1..Len(OnStart(l))}]
             out == UNION {f[l] : l \in LpsOn(r)}
  <1>1. LpsOn(r) \in SUBSET LPs /\ IsFiniteSet(LpsOn(r))
    <2>1. LpsOn(r) \in SUBSET LPs
      BY DEF LpsOn
    <2> QED
      BY <2>1, ModelAssumption, FS_Subset
  <1>2. \A l \in LpsOn(r) : StampsFit(StartEvents(l))
    BY DEF Start
  <1>3. \A l \in LpsOn(r) : f[l] \in SUBSET Event /\ IsFiniteSet(f[l])
    BY <1>1, <1>2, StartType
  <1>4. out \in SUBSET Event
    BY <1>3
  <1>5. IsFiniteSet(out)
    <2> HIDE DEF f
    <2> QED
      BY <1>1, <1>3, FiniteUnion
  <1>6. UNION {{StartEvents(l)[i] : i \in 1..Len(OnStart(l))} : l \in LpsOn(r)} = out
    <2> DEFINE E(l) == {StartEvents(l)[i] : i \in 1..Len(OnStart(l))}
    <2>1. \A l \in LpsOn(r) : f[l] = E(l)
      BY <1>1
    <2> HIDE DEF f, E
    <2>2. UNION {E(l) : l \in LpsOn(r)} = out
      BY <2>1
    <2> QED
      BY <2>2 DEF E
  <1>7. Route(r, pending[r], out)
    BY <1>6 DEF Start
  <1>8. pending[r] \in SUBSET Event
    BY DEF TypeOK
  <1> HIDE DEF out
  <1>9. /\ pending' \in [Ranks -> SUBSET Event]
        /\ net' \in SUBSET Message
        /\ inflight' \in [Ranks -> SUBSET InflightKey]
        /\ colour' \in ColourState
    BY <1>4, <1>5, <1>7, <1>8, RouteType
  <1>10. ctx' \in [LPs -> LPContext]
    <2>1. \A l \in LpsOn(r) :
             AfterSending(ctx[l], ZeroStamp, OnStart(l), StartEvents(l)) \in LPContext
      BY <1>1, <1>2, StartType
    <2> QED
      BY <2>1 DEF Start, TypeOK
  <1> QED
    BY <1>9, <1>10
       DEF Start, Goto, TypeOK, Message, InflightKey, ColourState

\* Taking a message or an Ack off the transport keeps the type of the state.
LEMMA TypePoll ==
    ASSUME TypeOK, NEW r \in Ranks, PollEvent(r) \/ PollAck(r)
    PROVE  TypeOK'
  <1>1. CASE PollEvent(r)
    <2>1. PICK m \in net :
            /\ net' = net \ {m}
            /\ pending' = [pending EXCEPT ![r] = @ \cup {m.ev}]
            /\ \/ /\ acks' = acks \cup {AckOf(m)}
                  /\ inflight' = [inflight EXCEPT
                                    ![r] = {k \in @ : ~ SameInflight(k, m.ev)}]
                  /\ UNCHANGED colour
               \/ /\ colour' = [colour EXCEPT !.recv[r][m.colour] = @ + 1]
                  /\ UNCHANGED <<acks, inflight>>
            /\ UNCHANGED <<pc, iters, cancelled, ctx, lastGvt, trace, sink>>
      BY <1>1 DEF PollEvent
    <2>2. m.from \in Ranks /\ m.ev \in Event /\ m.colour \in 0..1
      BY DEF TypeOK
    <2>3. pending' \in [Ranks -> SUBSET Event]
      BY <2>1, <2>2 DEF TypeOK
    <2>4. AckOf(m) \in AckMessage
      BY <2>2, EventFields DEF AckOf, AckMessage
    <2>5. acks' \in SUBSET AckMessage
      BY <2>1, <2>4 DEF TypeOK, AckMessage
    <2>6. inflight' \in [Ranks -> SUBSET InflightKey]
      BY <2>1 DEF TypeOK, InflightKey
    <2>7. colour' \in ColourState
      <3>1. colour \in ColourState
        BY DEF TypeOK, ColourState
      <3> DEFINE recv == [colour.recv EXCEPT ![r][m.colour] = @ + 1]
      <3>2. recv \in [Ranks -> [0..1 -> Nat]]
        BY <2>2, <3>1 DEF ColourState
      <3>3. colour' = colour \/ colour' = [colour EXCEPT !.recv = recv]
        BY <2>1, <3>1 DEF ColourState
      <3> HIDE DEF recv
      <3> QED
        BY <3>1, <3>2, <3>3 DEF ColourState
    <2> QED
      BY <2>1, <2>3, <2>5, <2>6, <2>7
         DEF TypeOK, AckMessage, InflightKey, ColourState
  <1>2. CASE PollAck(r)
    BY <1>2 DEF PollAck, TypeOK
  <1> QED
    BY <1>1, <1>2

\* Max of an LP's record indices is one of them.
LEMMA LastHit ==
    ASSUME NEW n \in Nat, NEW hits \in SUBSET (1..n), hits # {}
    PROVE  Max(hits) \in 1..n /\ Max(hits) \in hits
  <1>1. hits \in SUBSET (0..n)
    OBVIOUS
  <1>2. Max(hits) \in hits
    BY <1>1, GreatestNat
  <1> QED
    BY <1>2

\* An LP's context once it has recorded rec, the last thing it has done.
Recorded(d, rec) == [d EXCEPT !.vt = rec.ev.ts, !.processed = Append(@, rec)]

\* A context with one more record, at the stamp of that record, has its type.
LEMMA RecordedType ==
    ASSUME NEW d \in LPContext, NEW rec \in ProcessedRecord
    PROVE  Recorded(d, rec) \in LPContext
  <1>1. rec.ev.ts \in Stamp
    BY EventFields DEF ProcessedRecord
  <1>2. Append(d.processed, rec) \in Seq(ProcessedRecord)
    BY DEF LPContext
  <1> QED
    BY <1>1, <1>2 DEF Recorded, LPContext

\* What the dispatch of an anti-message in order comes to: a record, and, if a
\* processed event is cancelled, a rollback to the stamp of that event.
AntiOutcome(r, ev, rest, rec) ==
    LET l == ev.dst
        c == ctx[l]
    IN  /\ rec.ev = ev /\ ev.anti /\ ~ Lt(ev.ts, c.vt)
        /\ DOMAIN rec.pre = {}
        /\ ev \notin rest /\ OnlySkipped(r, rest \cup {ev})
        /\ rec.cancelPrev \subseteq cancelled[r] /\ TombstonesFrom(ev)
        /\ \/ /\ ctx' = [ctx EXCEPT ![l] = Recorded(c, rec)]
              /\ Route(r, rest, {})
           \/ \E i \in 1..Len(c.processed) :
                LET to == c.processed[i].ev.ts
                IN  /\ SameUid(c.processed[i].ev, ev)
                    /\ ctx' = [ctx EXCEPT ![l] = Recorded(RolledBack(c, to), rec)]
                    /\ Route(r, rest \cup {u.ev : u \in Undone(c, to)},
                             Antis(l, c, to))
        /\ cancelled' \in [Ranks -> SUBSET Tombstone]
        /\ Goto(r, "fossil")
        /\ UNCHANGED <<iters, acks, lastGvt, trace, sink>>

\* An anti-message in order: what dispatch_ and cancel_ do is an AntiOutcome.
LEMMA AntiStep ==
    ASSUME TypeOK, NEW r \in Ranks, DispatchAnti(r)
    PROVE  \E ev \in pending[r], rest \in SUBSET pending[r],
              rec \in ProcessedRecord : AntiOutcome(r, ev, rest, rec)
  <1> DEFINE Prev(ev) == {t \in cancelled[r] : SameUid(t, ev)}
             Tomb(ev) == [src |-> ev.src, uid |-> ev.uid,
                          ts |-> MinStamp({ev.ts} \cup {t.ts : t \in Prev(ev)})]
             Tombs(ev) == (cancelled[r] \ Prev(ev)) \cup {Tomb(ev)}
             Rec(ev, c) == [ev |-> ev, preNextSeqNormal |-> c.nextSeqNormal,
                            preNextSeqControl |-> c.nextSeqControl, pre |-> <<>>,
                            outs |-> <<>>, cancelPrev |-> Prev(ev)]
             Hits(ev, c) == {i \in 1..Len(c.processed) :
                               /\ ~ c.processed[i].ev.anti
                               /\ SameUid(c.processed[i].ev, ev)}
             To(ev, c) == c.processed[Max(Hits(ev, c))].ev.ts
             Rcd(ev, c, d) == [d EXCEPT !.vt = ev.ts,
                                        !.processed = Append(@, Rec(ev, c))]
  <1>1. PICK p \in PopNext(r) :
          LET ev == p.ev
              l == ev.dst
              c == ctx[l]
              to == To(ev, c)
          IN  /\ ev.anti /\ ~ Lt(ev.ts, c.vt)
              /\ \/ /\ Hits(ev, c) = {}
                    /\ ctx' = [ctx EXCEPT ![l] = Rcd(ev, c, c)]
                    /\ cancelled' = [cancelled EXCEPT ![r] = Tombs(ev)]
                    /\ Route(r, p.rest, {})
                 \/ /\ Hits(ev, c) # {}
                    /\ ctx' = [ctx EXCEPT ![l] = Rcd(ev, c, RolledBack(c, to))]
                    /\ cancelled' = [cancelled EXCEPT
                          ![r] = TombstonesBefore(Tombs(ev), Undone(c, to))]
                    /\ Route(r, p.rest \cup {u.ev : u \in Undone(c, to)},
                             Antis(l, c, to))
              /\ Goto(r, "fossil")
              /\ UNCHANGED <<iters, acks, lastGvt, trace, sink>>
    BY DEF DispatchAnti, WithTombstone, TombstoneOf, CancelledRecords
  <1> DEFINE ev == p.ev
             l == ev.dst
             c == ctx[l]
             rec == Rec(ev, c)
             to == To(ev, c)
             tombs == Tombs(ev)
  <1>2. /\ ev \in pending[r] /\ p.rest \in SUBSET pending[r]
        /\ ev \notin p.rest /\ OnlySkipped(r, p.rest \cup {ev})
    BY PopNextSpec
  <1>3. ev \in Event
    BY <1>2 DEF TypeOK
  <1>4. ev.src \in LPs /\ ev.uid \in Nat /\ ev.ts \in Stamp /\ l \in LPs
    BY <1>3, EventFields
  <1>5. c \in LPContext
    BY <1>4 DEF TypeOK
  <1>6. Prev(ev) \in SUBSET Tombstone
    BY DEF TypeOK
  <1>7. rec \in ProcessedRecord
    <2>1. <<>> \in UNION {[E -> Values] : E \in SUBSET Entities}
      <3>1. <<>> \in [{} -> Values]
        OBVIOUS
      <3> QED
        BY <3>1
    <2>2. <<>> \in Seq(Values)
      OBVIOUS
    <2>3. c.nextSeqNormal \in Nat /\ c.nextSeqControl \in Nat
      BY <1>5 DEF LPContext
    <2> HIDE DEF ev, c, Prev
    <2> QED
      BY <1>3, <1>6, <2>1, <2>2, <2>3 DEF ProcessedRecord
  <1>8. tombs \in SUBSET Tombstone
    <2> DEFINE S == {ev.ts} \cup {t.ts : t \in Prev(ev)}
    <2>1. S \in SUBSET Stamp
      <3>1. \A t \in Prev(ev) : t.ts \in Stamp
        BY <1>6 DEF Tombstone
      <3> HIDE DEF Prev
      <3> QED
        BY <3>1, <1>4
    <2>2. MinStamp(S) \in Stamp
      <3> HIDE DEF S
      <3> QED
        BY <2>1, MinStampBounds
    <2>3. Tomb(ev) \in Tombstone
      <3> DEFINE s == MinStamp(S)
      <3>1. Tomb(ev) = [src |-> ev.src, uid |-> ev.uid, ts |-> s]
        OBVIOUS
      <3> HIDE DEF s, Tomb
      <3> QED
        BY <3>1, <2>2, <1>4 DEF Tombstone, s
    <2> HIDE DEF Tomb, Prev
    <2> QED
      BY <2>3 DEF TypeOK
  <1>9. rec.ev = ev
    OBVIOUS
  <1>10. \A d : Rcd(ev, c, d) = Recorded(d, rec)
    BY <1>9 DEF Recorded
  <1>11. Hits(ev, c) # {} => /\ Max(Hits(ev, c)) \in 1..Len(c.processed)
                             /\ SameUid(c.processed[Max(Hits(ev, c))].ev, ev)
    <2>1. Len(c.processed) \in Nat
      BY <1>5 DEF LPContext
    <2>2. Hits(ev, c) \in SUBSET (1..Len(c.processed))
      OBVIOUS
    <2>3. Hits(ev, c) # {} => /\ Max(Hits(ev, c)) \in 1..Len(c.processed)
                              /\ Max(Hits(ev, c)) \in Hits(ev, c)
      <3> HIDE DEF Hits
      <3> QED
        BY <2>1, <2>2, LastHit
    <2> DEFINE i == Max(Hits(ev, c))
    <2>4. i \in Hits(ev, c) => SameUid(c.processed[i].ev, ev)
      <3> HIDE DEF i
      <3> QED
        OBVIOUS
    <2> QED
      BY <2>3, <2>4
  <1>12. Hits(ev, c) # {} => to \in Stamp
    <2> HAVE Hits(ev, c) # {}
    <2> DEFINE i == Max(Hits(ev, c))
    <2>1. i \in 1..Len(c.processed)
      BY <1>11
    <2> HIDE DEF i, c
    <2>2. c.processed[i] \in ProcessedRecord
      BY <2>1, <1>5 DEF LPContext
    <2>3. c.processed[i].ev \in Event
      BY <2>2 DEF ProcessedRecord
    <2>4. c.processed[i].ev.ts \in Stamp
      BY <2>3, EventFields
    <2> QED
      BY <2>4 DEF i
  <1>13. cancelled' \in [Ranks -> SUBSET Tombstone]
    <2>1. CASE cancelled' = [cancelled EXCEPT ![r] = tombs]
      <3> HIDE DEF tombs
      <3> QED
        BY <1>8, <2>1 DEF TypeOK
    <2>2. CASE /\ Hits(ev, c) # {}
               /\ cancelled' = [cancelled EXCEPT
                                  ![r] = TombstonesBefore(tombs, Undone(c, to))]
      <3> HIDE DEF tombs, c, to
      <3>1. Undone(c, to) \in SUBSET ProcessedRecord
        BY <2>2, <1>5, <1>12, UndoneType
      <3>2. TombstonesBefore(tombs, Undone(c, to)) \in SUBSET Tombstone
        BY <3>1, <1>8, TombstonesType
      <3> QED
        BY <2>2, <3>2 DEF TypeOK
    <2> QED
      BY <1>1, <2>1, <2>2
  <1>14. \/ /\ ctx' = [ctx EXCEPT ![l] = Recorded(c, rec)]
            /\ Route(r, p.rest, {})
         \/ \E i \in 1..Len(c.processed) :
              /\ SameUid(c.processed[i].ev, ev)
              /\ ctx' = [ctx EXCEPT
                   ![l] = Recorded(RolledBack(c, c.processed[i].ev.ts), rec)]
              /\ Route(r, p.rest \cup {u.ev : u \in Undone(c, c.processed[i].ev.ts)},
                       Antis(l, c, c.processed[i].ev.ts))
    <2>1. CASE /\ Hits(ev, c) = {}
               /\ ctx' = [ctx EXCEPT ![l] = Rcd(ev, c, c)]
               /\ Route(r, p.rest, {})
      <3> HIDE DEF ev, c, l, Rcd, rec
      <3> QED
        BY <2>1, <1>10
    <2>2. CASE /\ Hits(ev, c) # {}
               /\ ctx' = [ctx EXCEPT ![l] = Rcd(ev, c, RolledBack(c, to))]
               /\ Route(r, p.rest \cup {u.ev : u \in Undone(c, to)},
                        Antis(l, c, to))
      <3> DEFINE i == Max(Hits(ev, c))
      <3>1. /\ i \in 1..Len(c.processed) /\ to = c.processed[i].ev.ts
            /\ SameUid(c.processed[i].ev, ev)
        BY <2>2, <1>11
      <3> HIDE DEF i, to, ev, c, l, Rcd, rec
      <3> QED
        BY <2>2, <3>1, <1>10
    <2> QED
      BY <1>1, <2>1, <2>2
  <1>15. /\ ev.anti /\ ~ Lt(ev.ts, c.vt)
         /\ Goto(r, "fossil")
         /\ UNCHANGED <<iters, acks, lastGvt, trace, sink>>
    BY <1>1
  <1>16. rec.cancelPrev \subseteq cancelled[r]
    OBVIOUS
  <1>17. TombstonesFrom(ev)
    <2>1. \A t \in tombs : t \in cancelled[r] \/ SameUid(t, ev)
      BY DEF SameUid
    <2>2. CASE cancelled' = [cancelled EXCEPT ![r] = tombs]
      <3> HIDE DEF tombs
      <3> QED
        BY <1>15, <2>1, <2>2 DEF TombstonesFrom, TypeOK
    <2>3. CASE /\ Hits(ev, c) # {}
               /\ cancelled' = [cancelled EXCEPT
                                  ![r] = TombstonesBefore(tombs, Undone(c, to))]
      <3> DEFINE undone == Undone(c, to)
      <3> HIDE DEF to, tombs
      <3>1. \A u \in undone : \E i \in 1..Len(c.processed) : u = c.processed[i]
        <4> HIDE DEF c
        <4> QED
          BY <1>5, <1>12, <2>3, UndoneType
      <3>2. cancelled' = [cancelled EXCEPT ![r] = TombstonesBefore(tombs, undone)]
        BY <2>3
      <3> HIDE DEF undone
      <3>3. \A t \in TombstonesBefore(tombs, undone) :
               t \in tombs \/ \E u \in undone : t \in u.cancelPrev
        BY DEF TombstonesBefore
      <3>4. \A q \in Ranks : \A t \in cancelled'[q] :
               \/ t \in cancelled[q] \/ SameUid(t, ev)
               \/ \E u \in undone : t \in u.cancelPrev
        BY <2>1, <3>2, <3>3 DEF TypeOK
      <3> QED
        BY <1>15, <3>1, <3>4 DEF TombstonesFrom
    <2> QED
      BY <1>1, <2>2, <2>3
  <1>18. DOMAIN rec.pre = {}
    <2>1. rec.pre = <<>>
      OBVIOUS
    <2> QED
      BY <2>1
  <1> HIDE DEF rec
  <1>19. AntiOutcome(r, ev, p.rest, rec)
    BY <1>2, <1>9, <1>13, <1>14, <1>15, <1>16, <1>17, <1>18 DEF AntiOutcome
  <1> QED
    BY <1>2, <1>7, <1>19

\* What the handler of a record's event did in context c of LP l.
HandlerDid(l, c, rec, sends, state) ==
    LET does == OnEvent(l, c.state, rec.ev.kind)
    IN  /\ rec.pre = Snapshot(l, c.state, does.writes) /\ rec.outs = does.outs
        /\ sends = does.sends /\ state = does.state

\* What the dispatch of an event in order comes to: the sends of a handler, a
\* new state, and a record.
EventOutcome(r, ev, rest, rec, sends, state) ==
    LET l == ev.dst
        c == ctx[l]
        evs == Emitted(l, c, ev.ts, sends)
    IN  /\ rec.ev = ev /\ ~ ev.anti /\ ~ Lt(ev.ts, c.vt)
        /\ HandlerDid(l, c, rec, sends, state)
        /\ ev \notin rest /\ OnlySkipped(r, rest \cup {ev})
        /\ rec.cancelPrev = {}
        /\ StampsFit(evs)
        /\ CausalApp => \A i \in 1..Len(sends) : sends[i].delay > 0
        /\ ctx' = [ctx EXCEPT
              ![l] = [Recorded(AfterSending(c, ev.ts, sends, evs), rec)
                         EXCEPT !.state = state]]
        /\ Route(r, rest, {evs[i] : i \in 1..Len(evs)})
        /\ Goto(r, "fossil")
        /\ UNCHANGED <<iters, cancelled, acks, lastGvt, trace, sink>>

\* An event in order: what dispatch_ does is an EventOutcome.
LEMMA EventStep ==
    ASSUME TypeOK, NEW r \in Ranks, DispatchEvent(r)
    PROVE  \E ev \in pending[r], rest \in SUBSET pending[r],
              rec \in ProcessedRecord, sends \in Seq(Send), state \in LPState :
              EventOutcome(r, ev, rest, rec, sends, state)
  <1> DEFINE Do(ev) == OnEvent(ev.dst, ctx[ev.dst].state, ev.kind)
             Evs(ev) == Emitted(ev.dst, ctx[ev.dst], ev.ts, Do(ev).sends)
             Rec(ev, c) == [ev |-> ev, preNextSeqNormal |-> c.nextSeqNormal,
                            preNextSeqControl |-> c.nextSeqControl,
                            pre |-> Snapshot(ev.dst, c.state, Do(ev).writes),
                            outs |-> Do(ev).outs, cancelPrev |-> {}]
  <1>1. PICK p \in PopNext(r) :
          LET ev == p.ev
              l == ev.dst
              c == ctx[l]
          IN  /\ ~ ev.anti
              /\ ~ Lt(ev.ts, c.vt)
              /\ StampsFit(Evs(ev))
              /\ ctx' = [ctx EXCEPT
                    ![l] = [AfterSending(c, ev.ts, Do(ev).sends, Evs(ev)) EXCEPT
                               !.vt = ev.ts,
                               !.state = Do(ev).state,
                               !.processed = Append(@, Rec(ev, c))]]
              /\ Route(r, p.rest, {Evs(ev)[i] : i \in 1..Len(Evs(ev))})
              /\ Goto(r, "fossil")
              /\ UNCHANGED <<iters, cancelled, acks, lastGvt, trace, sink>>
    BY DEF DispatchEvent
  <1> DEFINE ev == p.ev
             l == ev.dst
             c == ctx[l]
             do == Do(ev)
             rec == Rec(ev, c)
             sends == do.sends
             state == do.state
             after == AfterSending(c, ev.ts, sends, Evs(ev))
  <1>2. /\ ev \in pending[r] /\ p.rest \in SUBSET pending[r]
        /\ ev \notin p.rest /\ OnlySkipped(r, p.rest \cup {ev})
    BY PopNextSpec
  <1>3. ev \in Event /\ ~ ev.anti
    BY <1>1, <1>2 DEF TypeOK
  <1>4. ev.kind \in Kinds /\ l \in LPs /\ ev.ts \in Stamp
    BY <1>3, EventFields
  <1>5. c \in LPContext
    BY <1>4 DEF TypeOK
  <1>6. c.state \in LPState /\ c.nextSeqNormal \in Nat /\ c.nextSeqControl \in Nat
    BY <1>5 DEF LPContext
  <1>7. do \in Reaction
    BY <1>4, <1>6, ModelAssumption
  <1>8. /\ do.writes \in SUBSET Entities /\ do.outs \in Seq(Values)
        /\ sends \in Seq(Send) /\ state \in LPState
    <2> HIDE DEF do
    <2> QED
      BY <1>7 DEF Reaction
  <1>9. rec \in ProcessedRecord /\ rec.ev = ev /\ rec.cancelPrev = {}
    <2> DEFINE pre == Snapshot(l, c.state, do.writes)
    <2>1. pre \in UNION {[E -> Values] : E \in SUBSET Entities}
      BY <1>4, <1>6, <1>8, SnapshotType
    <2>2. rec = [ev |-> ev, preNextSeqNormal |-> c.nextSeqNormal,
                 preNextSeqControl |-> c.nextSeqControl, pre |-> pre,
                 outs |-> do.outs, cancelPrev |-> {}]
      OBVIOUS
    <2> HIDE DEF pre, do, c, ev, rec
    <2> QED
      BY <1>3, <1>6, <1>8, <2>1, <2>2 DEF ProcessedRecord
  <1>10. Evs(ev) = Emitted(l, c, ev.ts, sends)
    OBVIOUS
  <1>11. StampsFit(Emitted(l, c, ev.ts, sends)) /\ ~ Lt(ev.ts, c.vt)
    BY <1>1, <1>10
  <1>12. CausalApp => \A i \in 1..Len(sends) : sends[i].delay > 0
    <2> HAVE CausalApp
    <2>1. \A i \in DOMAIN sends : sends[i].delay > 0
      BY <1>4, <1>6 DEF CausalApp
    <2> HIDE DEF sends
    <2> QED
      BY <2>1, <1>8
  <1>13. [after EXCEPT !.vt = ev.ts, !.state = state,
                       !.processed = Append(@, rec)]
         = [Recorded(after, rec) EXCEPT !.state = state]
    <2> HIDE DEF ev, rec, state
    <2>1. after = [c EXCEPT
              !.nextUid = after.nextUid, !.nextSeqNormal = after.nextSeqNormal,
              !.nextSeqControl = after.nextSeqControl, !.sentLog = after.sentLog]
      <3> HIDE DEF c, sends
      <3> QED
        BY <1>5 DEF AfterSending, LPContext
    <2> HIDE DEF after, c
    <2> QED
      BY <1>5, <1>9, <2>1 DEF Recorded, LPContext
  <1>14. ctx' = [ctx EXCEPT
            ![l] = [Recorded(AfterSending(c, ev.ts, sends, Emitted(l, c, ev.ts, sends)),
                             rec) EXCEPT !.state = state]]
    BY <1>1, <1>13
  <1>15. /\ Route(r, p.rest, {Emitted(l, c, ev.ts, sends)[i] :
                                i \in 1..Len(Emitted(l, c, ev.ts, sends))})
         /\ Goto(r, "fossil")
         /\ UNCHANGED <<iters, cancelled, acks, lastGvt, trace, sink>>
    BY <1>1
  <1>16. HandlerDid(l, c, rec, sends, state)
    BY DEF HandlerDid
  <1> HIDE DEF rec, sends, state, do
  <1>17. EventOutcome(r, ev, p.rest, rec, sends, state)
    BY <1>2, <1>3, <1>9, <1>11, <1>12, <1>14, <1>15, <1>16 DEF EventOutcome
  <1> HIDE DEF ev
  <1> QED
    BY <1>2, <1>8, <1>9, <1>17

\* What the dispatch of a straggler comes to: a rollback to its stamp.
StragglerOutcome(r, ev, rest) ==
    LET l == ev.dst
        c == ctx[l]
    IN  /\ ev \in rest /\ OnlySkipped(r, rest) /\ TombstonesFrom(ev)
        /\ ctx' = [ctx EXCEPT ![l] = RolledBack(c, ev.ts)]
        /\ Route(r, rest \cup {u.ev : u \in Undone(c, ev.ts)}, Antis(l, c, ev.ts))
        /\ cancelled' \in [Ranks -> SUBSET Tombstone]
        /\ Goto(r, "fossil")
        /\ UNCHANGED <<iters, acks, lastGvt, trace, sink>>

\* A straggler: what dispatch_ does is a StragglerOutcome.
LEMMA StragglerStep ==
    ASSUME TypeOK, NEW r \in Ranks, DispatchStraggler(r)
    PROVE  \E ev \in pending[r], rest \in SUBSET pending[r] :
              StragglerOutcome(r, ev, rest)
  <1>1. PICK p \in PopNext(r) :
          /\ ctx' = [ctx EXCEPT ![p.ev.dst] = RolledBack(@, p.ev.ts)]
          /\ cancelled' = [cancelled EXCEPT
                ![r] = TombstonesBefore(@, Undone(ctx[p.ev.dst], p.ev.ts))]
          /\ Route(r, p.rest \cup {u.ev : u \in Undone(ctx[p.ev.dst], p.ev.ts)}
                             \cup {p.ev},
                   Antis(p.ev.dst, ctx[p.ev.dst], p.ev.ts))
          /\ Goto(r, "fossil")
          /\ UNCHANGED <<iters, acks, lastGvt, trace, sink>>
    BY DEF DispatchStraggler
  <1> DEFINE ev == p.ev
             l == ev.dst
             to == ev.ts
             c == ctx[l]
             undone == Undone(c, to)
             rest == p.rest \cup {ev}
  <1>2. ev \in pending[r] /\ p.rest \in SUBSET pending[r]
    BY PopNextSpec
  <1>3. ev \in Event
    BY <1>2 DEF TypeOK
  <1>4. l \in LPs /\ to \in Stamp
    BY <1>3, EventFields
  <1>5. c \in LPContext
    BY <1>4 DEF TypeOK
  <1>6. ctx' = [ctx EXCEPT ![l] = RolledBack(c, to)]
    BY <1>1
  <1>7. cancelled' \in [Ranks -> SUBSET Tombstone]
    <2> HIDE DEF c, l, to
    <2>1. undone \in SUBSET ProcessedRecord
      BY <1>4, <1>5, UndoneType
    <2>2. TombstonesBefore(cancelled[r], undone) \in SUBSET Tombstone
      BY <2>1, TombstonesType DEF TypeOK
    <2>3. cancelled' = [cancelled EXCEPT ![r] = TombstonesBefore(@, undone)]
      BY <1>1 DEF c, l, to
    <2> HIDE DEF undone
    <2> QED
      BY <2>2, <2>3 DEF TypeOK
  <1>8. Route(r, rest \cup {u.ev : u \in undone}, Antis(l, c, to))
    <2>1. rest \cup {u.ev : u \in undone} = p.rest \cup {u.ev : u \in undone} \cup {ev}
      <3> HIDE DEF undone, ev
      <3> QED
        OBVIOUS
    <2> QED
      BY <1>1, <2>1
  <1>9. rest \in SUBSET pending[r] /\ ev \in rest /\ OnlySkipped(r, rest)
    BY <1>2, PopNextSpec
  <1>10. Goto(r, "fossil") /\ UNCHANGED <<iters, acks, lastGvt, trace, sink>>
    BY <1>1
  <1>11. TombstonesFrom(ev)
    <2> HIDE DEF to, ev
    <2>1. \A u \in undone : \E i \in 1..Len(c.processed) : u = c.processed[i]
      <3> HIDE DEF c, l
      <3> QED
        BY <1>4, <1>5, UndoneType
    <2> HIDE DEF undone
    <2>2. \A t \in TombstonesBefore(cancelled[r], undone) :
             t \in cancelled[r] \/ \E u \in undone : t \in u.cancelPrev
      BY DEF TombstonesBefore
    <2>3. cancelled' = [cancelled EXCEPT ![r] = TombstonesBefore(@, undone)]
      BY <1>1 DEF undone, to, ev
    <2>4. \A q \in Ranks : \A t \in cancelled'[q] :
             t \in cancelled[q] \/ \E u \in undone : t \in u.cancelPrev
      BY <2>2, <2>3 DEF TypeOK
    <2> QED
      BY <2>1, <2>4 DEF TombstonesFrom
  <1> HIDE DEF rest
  <1>12. /\ ctx' = [ctx EXCEPT ![ev.dst] = RolledBack(ctx[ev.dst], ev.ts)]
         /\ Route(r, rest \cup {u.ev : u \in Undone(ctx[ev.dst], ev.ts)},
                  Antis(ev.dst, ctx[ev.dst], ev.ts))
    BY <1>6, <1>8
  <1> HIDE DEF ev
  <1>13. StragglerOutcome(r, ev, rest)
    BY <1>7, <1>9, <1>10, <1>11, <1>12, Zenon DEF StragglerOutcome
  <1> QED
    BY <1>2, <1>9, <1>13

\* A rollback and what it puts back and sends out keep the types.
LEMMA TypeRollback ==
    ASSUME TypeOK, NEW r \in Ranks, NEW l \in LPs, NEW to \in Stamp,
           NEW rest \in SUBSET pending[r],
           Route(r, rest \cup {u.ev : u \in Undone(ctx[l], to)},
                 Antis(l, ctx[l], to))
    PROVE  /\ pending' \in [Ranks -> SUBSET Event]
           /\ net' \in SUBSET Message
           /\ inflight' \in [Ranks -> SUBSET InflightKey]
           /\ colour' \in ColourState
  <1> DEFINE c == ctx[l]
             undone == Undone(c, to)
             queue == rest \cup {u.ev : u \in undone}
  <1>1. c \in LPContext /\ rest \in SUBSET Event
    BY DEF TypeOK
  <1>2. Route(r, queue, Antis(l, c, to))
    OBVIOUS
  <1> HIDE DEF c
  <1>3. undone \in SUBSET ProcessedRecord
    BY <1>1, UndoneType
  <1>4. \A u \in undone : u.ev \in Event
    BY <1>3 DEF ProcessedRecord
  <1> HIDE DEF undone
  <1>5. queue \in SUBSET Event
    BY <1>1, <1>4
  <1>6. Antis(l, c, to) \in SUBSET Event /\ IsFiniteSet(Antis(l, c, to))
    BY <1>1, AntisType
  <1> HIDE DEF queue
  <1> QED
    BY <1>2, <1>5, <1>6, RouteType

\* Dispatching keeps the type of the state.
LEMMA TypeDispatch ==
    ASSUME TypeOK, NEW r \in Ranks,
           \/ DispatchNothing(r) \/ DispatchStraggler(r)
           \/ DispatchAnti(r) \/ DispatchEvent(r)
    PROVE  TypeOK'
  <1>1. CASE DispatchNothing(r)
    BY <1>1 DEF DispatchNothing, Goto, TypeOK
  <1>2. CASE DispatchStraggler(r)
    <2>1. PICK ev \in pending[r], rest \in SUBSET pending[r] :
             StragglerOutcome(r, ev, rest)
      BY <1>2, StragglerStep
    <2>2. /\ ctx' = [ctx EXCEPT ![ev.dst] = RolledBack(ctx[ev.dst], ev.ts)]
          /\ Route(r, rest \cup {u.ev : u \in Undone(ctx[ev.dst], ev.ts)},
                   Antis(ev.dst, ctx[ev.dst], ev.ts))
          /\ cancelled' \in [Ranks -> SUBSET Tombstone]
          /\ Goto(r, "fossil")
          /\ UNCHANGED <<iters, acks, lastGvt, trace, sink>>
      BY <2>1 DEF StragglerOutcome
    <2>3. ev.dst \in LPs /\ ev.ts \in Stamp
      BY EventFields DEF TypeOK
    <2>4. RolledBack(ctx[ev.dst], ev.ts) \in LPContext
      BY <2>3, RolledBackType DEF TypeOK
    <2>5. ctx' \in [LPs -> LPContext]
      BY <2>2, <2>3, <2>4 DEF TypeOK
    <2>6. /\ pending' \in [Ranks -> SUBSET Event]
          /\ net' \in SUBSET Message
          /\ inflight' \in [Ranks -> SUBSET InflightKey]
          /\ colour' \in ColourState
      BY <2>2, <2>3, TypeRollback
    <2> QED
      BY <2>2, <2>5, <2>6 DEF TypeOK, Goto, Message, InflightKey, ColourState
  <1>3. CASE DispatchAnti(r)
    <2>1. PICK ev \in pending[r], rest \in SUBSET pending[r],
               rec \in ProcessedRecord : AntiOutcome(r, ev, rest, rec)
      BY <1>3, AntiStep
    <2> DEFINE l == ev.dst
               c == ctx[l]
    <2>2. l \in LPs
      BY EventFields DEF TypeOK
    <2>3. c \in LPContext
      BY <2>2 DEF TypeOK
    <2>4. /\ ctx' \in [LPs -> LPContext]
          /\ pending' \in [Ranks -> SUBSET Event]
          /\ net' \in SUBSET Message
          /\ inflight' \in [Ranks -> SUBSET InflightKey]
          /\ colour' \in ColourState
      <3>1. CASE /\ ctx' = [ctx EXCEPT ![l] = Recorded(c, rec)]
                 /\ Route(r, rest, {})
        <4>1. Recorded(c, rec) \in LPContext
          BY <2>3, RecordedType
        <4>2. ctx' \in [LPs -> LPContext]
          BY <3>1, <4>1 DEF TypeOK
        <4>3. rest \in SUBSET Event /\ {} \in SUBSET Event
          BY DEF TypeOK
        <4>4. IsFiniteSet({})
          BY FS_EmptySet
        <4> QED
          BY <3>1, <4>2, <4>3, <4>4, RouteType
      <3>2. ASSUME NEW i \in 1..Len(c.processed), NEW to, to = c.processed[i].ev.ts,
                   ctx' = [ctx EXCEPT ![l] = Recorded(RolledBack(c, to), rec)],
                   Route(r, rest \cup {u.ev : u \in Undone(c, to)}, Antis(l, c, to))
            PROVE  /\ ctx' \in [LPs -> LPContext]
                   /\ pending' \in [Ranks -> SUBSET Event]
                   /\ net' \in SUBSET Message
                   /\ inflight' \in [Ranks -> SUBSET InflightKey]
                   /\ colour' \in ColourState
        <4>1. to \in Stamp
          <5> HIDE DEF c
          <5>1. c.processed[i] \in ProcessedRecord
            BY <2>3 DEF LPContext
          <5>2. c.processed[i].ev \in Event
            BY <5>1 DEF ProcessedRecord
          <5> QED
            BY <5>2, <3>2, EventFields
        <4>2. Recorded(RolledBack(c, to), rec) \in LPContext
          <5>1. RolledBack(c, to) \in LPContext
            BY <2>3, <4>1, RolledBackType
          <5> QED
            BY <5>1, RecordedType
        <4>3. ctx' \in [LPs -> LPContext]
          <5> HIDE DEF c
          <5> QED
            BY <3>2, <4>2 DEF TypeOK
        <4> QED
          BY <2>2, <3>2, <4>1, <4>3, TypeRollback
      <3> QED
        BY <2>1, <3>1, <3>2 DEF AntiOutcome
    <2> QED
      BY <2>1, <2>4 DEF AntiOutcome, TypeOK, Goto, Message, InflightKey, ColourState
  <1>4. CASE DispatchEvent(r)
    <2>1. PICK ev \in pending[r], rest \in SUBSET pending[r],
               rec \in ProcessedRecord, sends \in Seq(Send), state \in LPState :
               EventOutcome(r, ev, rest, rec, sends, state)
      BY <1>4, EventStep
    <2> DEFINE l == ev.dst
               c == ctx[l]
               now == ev.ts
               evs == Emitted(l, c, now, sends)
               after == AfterSending(c, now, sends, evs)
    <2>2. l \in LPs /\ now \in Stamp /\ rest \in SUBSET Event
      BY EventFields DEF TypeOK
    <2>3. c \in LPContext
      BY <2>2 DEF TypeOK
    <2>4. /\ StampsFit(evs)
          /\ ctx' = [ctx EXCEPT ![l] = [Recorded(after, rec) EXCEPT !.state = state]]
          /\ Route(r, rest, {evs[i] : i \in 1..Len(evs)})
      BY <2>1 DEF EventOutcome
    <2>5. evs = Emitted(l, c, now, sends) /\ after = AfterSending(c, now, sends, evs)
      OBVIOUS
    <2> HIDE DEF l, c, now, evs, after
    <2>6. Len(evs) = Len(sends)
      BY <2>5, EmittedLen
    <2>7. evs \in Seq(PlainEvent)
      BY <2>2, <2>3, <2>4, <2>5, EmittedType
    <2>8. IsFiniteSet({evs[i] : i \in 1..Len(evs)})
      BY <2>2, <2>3, <2>4, <2>5, EmittedType
    <2>9. {evs[i] : i \in 1..Len(evs)} \in SUBSET Event
      BY <2>7 DEF Event
    <2>10. /\ pending' \in [Ranks -> SUBSET Event]
           /\ net' \in SUBSET Message
           /\ inflight' \in [Ranks -> SUBSET InflightKey]
           /\ colour' \in ColourState
      BY <2>2, <2>4, <2>8, <2>9, RouteType
    <2>11. ctx' \in [LPs -> LPContext]
      <3>1. after \in LPContext
        BY <2>2, <2>3, <2>5, <2>6, <2>7, AfterSendingType
      <3>2. Recorded(after, rec) \in LPContext
        BY <3>1, RecordedType
      <3>3. [Recorded(after, rec) EXCEPT !.state = state] \in LPContext
        BY <3>2 DEF LPContext
      <3> QED
        BY <2>2, <2>4, <3>3 DEF TypeOK
    <2> QED
      BY <2>1, <2>10, <2>11 DEF EventOutcome, TypeOK, Goto, Message, InflightKey, ColourState
  <1> QED
    BY <1>1, <1>2, <1>3, <1>4

\* A reduction over stamps of the kernel's state gives a stamp.
LEMMA GvtType ==
    ASSUME TypeOK
    PROVE  /\ \A r \in Ranks : compute_gvt_(r) \in Stamp
           /\ MinStamp({compute_gvt_(r) : r \in Ranks}) \in Stamp
           /\ MinStamp({compute_gvt_(r) : r \in Ranks}
                          \cup {colour.minRed[r] : r \in Ranks}) \in Stamp
  <1>1. \A r \in Ranks : compute_gvt_(r) \in Stamp
    <2> TAKE r \in Ranks
    <2> DEFINE V == {ctx[l].vt : l \in LpsOn(r)}
               Q == {e.ts : e \in {f \in pending[r] :
                                      ~ IsTombstoned(cancelled[r], f)}}
               F == {k.ts : k \in inflight[r]}
    <2>1. V \in SUBSET Stamp
      BY DEF TypeOK, LPContext, LpsOn
    <2>2. Q \in SUBSET Stamp
      <3>1. \A f \in pending[r] : f.ts \in Stamp
        BY EventFields DEF TypeOK
      <3> QED
        BY <3>1
    <2>3. F \in SUBSET Stamp
      BY DEF TypeOK
    <2>4. compute_gvt_(r) = MinStamp(V \cup Q \cup F)
      BY DEF compute_gvt_
    <2> HIDE DEF V, Q, F
    <2>5. V \cup Q \cup F \in SUBSET Stamp
      BY <2>1, <2>2, <2>3
    <2> QED
      BY <2>4, <2>5, MinStampBounds
  <1>2. {compute_gvt_(r) : r \in Ranks} \in SUBSET Stamp
    BY <1>1
  <1>3. {colour.minRed[r] : r \in Ranks} \in SUBSET Stamp
    BY DEF TypeOK
  <1> QED
    BY <1>1, <1>2, <1>3, MinStampBounds

\* Adopting or refusing the result of a reduction keeps the type.
LEMMA TypeAdopt ==
    ASSUME TypeOK, NEW gvt \in Stamp, Adopt(gvt)
    PROVE  /\ lastGvt' \in Stamp /\ ctx' \in [LPs -> LPContext]
           /\ cancelled' \in [Ranks -> SUBSET Tombstone]
  <1>1. CASE Lt(gvt, lastGvt)
    BY <1>1 DEF Adopt, TypeOK
  <1>2. CASE ~ Lt(gvt, lastGvt)
    <2>1. lastGvt' = gvt /\ Prune(Ranks, gvt)
      BY <1>2 DEF Adopt
    <2> QED
      BY <2>1, PruneType
  <1> QED
    BY <1>1, <1>2

\* peek_next_pending_ts_ only takes events out of the queue.
LEMMA TypePeek ==
    ASSUME TypeOK, PeekAll
    PROVE  pending' \in [Ranks -> SUBSET Event]
  BY DEF TypeOK, PeekAll, Peeked

\* Every collective keeps the type of the state.
LEMMA TypeCollective ==
    ASSUME TypeOK, Collective
    PROVE  TypeOK'
  <1>1. CASE AckGvt
    <2> DEFINE gvt == MinStamp({compute_gvt_(r) : r \in Ranks})
    <2>1. gvt \in Stamp
      BY GvtType
    <2>2. Adopt(gvt) /\ PeekAll /\ AllGoto("work")
          /\ UNCHANGED <<iters, inflight, net, acks, colour>>
      BY <1>1 DEF AckGvt
    <2> HIDE DEF gvt
    <2> QED
      BY <2>1, <2>2, TypeAdopt, TypePeek DEF TypeOK, AllGoto
  <1>2. CASE ColouredFlip
    <2>1. colour' \in ColourState
      <3> DEFINE f == [r \in Ranks |-> colour.sent[r][colour.white]]
                 m == [r \in Ranks |-> MaxStamp]
      <3>1. f \in [Ranks -> Nat] /\ m \in [Ranks -> Stamp]
        BY StampConstants DEF TypeOK
      <3>2. colour' = [colour EXCEPT !.red = TRUE, !.atFlip = f, !.minRed = m]
        BY <1>2 DEF ColouredFlip
      <3> HIDE DEF f, m
      <3> QED
        BY <3>1, <3>2 DEF TypeOK, ColourState
    <2> QED
      BY <1>2, <2>1 DEF ColouredFlip, AllGoto, TypeOK, ColourState
  <1>3. CASE ColouredWait \/ KeepRunning
    BY <1>3 DEF ColouredWait, KeepRunning, AllGoto, TypeOK
  <1>4. CASE ColouredGvt
    <2> DEFINE gvt == MinStamp({compute_gvt_(r) : r \in Ranks}
                                  \cup {colour.minRed[r] : r \in Ranks})
    <2>1. gvt \in Stamp
      BY GvtType
    <2>2. /\ Adopt(gvt) /\ PeekAll /\ AllGoto("work")
          /\ colour' = IF Lt(gvt, lastGvt) THEN colour
                       ELSE [colour EXCEPT
                               !.red = FALSE,
                               !.white = 1 - @,
                               !.atFlip = [r \in Ranks |-> 0],
                               !.minRed = [r \in Ranks |-> MaxStamp]]
          /\ UNCHANGED <<iters, inflight, net, acks>>
      BY <1>4 DEF ColouredGvt
    <2> HIDE DEF gvt
    <2>3. colour' \in ColourState
      <3> DEFINE z == [r \in Ranks |-> 0]
                 m == [r \in Ranks |-> MaxStamp]
      <3>1. z \in [Ranks -> Nat] /\ m \in [Ranks -> Stamp]
        BY StampConstants
      <3>2. 1 - colour.white \in 0..1 /\ colour \in ColourState
        BY DEF TypeOK, ColourState
      <3>3. \/ colour' = colour
            \/ colour' = [colour EXCEPT !.red = FALSE, !.white = 1 - colour.white,
                                        !.atFlip = z, !.minRed = m]
        BY <2>2
      <3> HIDE DEF z, m
      <3> QED
        BY <3>1, <3>2, <3>3 DEF ColourState
    <2> QED
      BY <2>1, <2>2, <2>3, TypeAdopt, TypePeek DEF TypeOK, AllGoto, ColourState
  <1>5. CASE Finalize
    <2>1. Prune(Ranks, MaxStamp)
      BY <1>5 DEF Finalize
    <2> QED
      BY <1>5, <2>1, PruneType, StampConstants DEF Finalize, AllGoto, TypeOK
  <1> QED
    BY <1>1, <1>2, <1>3, <1>4, <1>5 DEF Collective

\* The local part of fossil_collect_ keeps the type of the state.
LEMMA TypeFossil ==
    ASSUME TypeOK, NEW r \in Ranks, FossilCollect(r)
    PROVE  TypeOK'
  <1>1. Prune({r}, lastGvt) /\ lastGvt \in Stamp
    BY DEF FossilCollect, TypeOK
  <1>2. /\ ctx' \in [LPs -> LPContext]
        /\ cancelled' \in [Ranks -> SUBSET Tombstone]
    BY <1>1, PruneType
  <1>3. iters' \in [Ranks -> 0..(Period - 1)]
    <2>1. (iters[r] + 1) % Period \in 0..(Period - 1)
      BY KernelAssumption DEF TypeOK
    <2> QED
      BY <2>1 DEF FossilCollect, TypeOK
  <1> QED
    BY <1>2, <1>3 DEF FossilCollect, Goto, TypeOK

\* A step of the kernel, or of its environment, keeps the type of the state.
LEMMA TypeStep ==
    ASSUME TypeOK, [Next]_vars
    PROVE  TypeOK'
  <1>1. ASSUME NEW r \in Ranks, RankStep(r)
        PROVE  TypeOK'
    BY <1>1, TypeStart, TypePoll, TypeDispatch, TypeFossil DEF RankStep
  <1>2. CASE Collective
    BY <1>2, TypeCollective
  <1>3. CASE UNCHANGED vars
    BY <1>3 DEF vars, TypeOK
  <1> QED
    BY <1>1, <1>2, <1>3 DEF Next, Terminated

\* The kernel's state always has its type: rollbacks, pruning and the GVT
\* rounds build only contexts, queues and counters that the code declares.
THEOREM TypeCorrect == Spec => []TypeOK
  <1>1. Init => TypeOK
    BY TypeInit
  <1>2. TypeOK /\ [Next]_vars => TypeOK'
    BY TypeStep
  <1> QED
    BY <1>1, <1>2, PTL DEF Spec

-----------------------------------------------------------------------------
(***************************************************************************)
(* The order of an LP's records.  The order is inductive together with the *)
(* types: rollback_ keeps a prefix whose last record is below the stamp it *)
(* goes back to, hence at or below the virtual time it leaves; a dispatch  *)
(* appends a record that is not below the virtual time.                    *)
(***************************************************************************)
InOrder(c) ==
    \A i \in 1..Len(c.processed) :
        /\ Le(c.processed[i].ev.ts, c.vt)
        /\ \A j \in 1..i : Le(c.processed[j].ev.ts, c.processed[i].ev.ts)

\* The invariant is that every context is in order.
LEMMA InOrderAll == ProcessedInOrder <=> \A l \in LPs : InOrder(ctx[l])
  BY DEF ProcessedInOrder, InOrder

\* The stamp of a record is a stamp.
LEMMA RecordStamp ==
    ASSUME NEW c \in LPContext, NEW i \in 1..Len(c.processed)
    PROVE  /\ c.processed[i] \in ProcessedRecord
           /\ c.processed[i].ev \in Event
           /\ c.processed[i].ev.ts \in Stamp
  <1>1. c.processed[i] \in ProcessedRecord
    BY DEF LPContext
  <1>2. c.processed[i].ev \in Event
    BY <1>1 DEF ProcessedRecord
  <1> QED
    BY <1>1, <1>2, EventFields

\* The logs a rollback leaves.
LEMMA RolledBackLogs ==
    ASSUME NEW c \in LPContext, NEW to \in Stamp, InOrder(c),
           NEW d, d = RolledBack(c, to)
    PROVE  /\ d.vt = prev_stamp(to)
           /\ d.nextUid = c.nextUid
           /\ Len(d.processed) = KeptProcessed(c, to)
           /\ Len(d.processed) \in 0..Len(c.processed)
           /\ \A i \in 1..Len(d.processed) :
                 d.processed[i] = c.processed[i] /\ Lt(c.processed[i].ev.ts, to)
           /\ Len(d.sentLog) = KeptSent(c, to)
           /\ \A i \in 1..Len(d.sentLog) : d.sentLog[i] = c.sentLog[i]
  <1> DEFINE k == KeptProcessed(c, to)
             m == KeptSent(c, to)
  <1>1. k \in 0..Len(c.processed) /\ (k > 0 => Lt(c.processed[k].ev.ts, to))
    BY KeptProcessedSpec
  <1>2. m \in 0..Len(c.sentLog)
    BY KeptSentSpec
  <1>3. /\ d.vt = prev_stamp(to) /\ d.nextUid = c.nextUid
        /\ d.processed = SubSeq(c.processed, 1, k)
        /\ d.sentLog = SubSeq(c.sentLog, 1, m)
    BY DEF RolledBack, LPContext
  <1>4. c.processed \in Seq(ProcessedRecord) /\ c.sentLog \in Seq(SentRecord)
    BY DEF LPContext
  <1>5. k = KeptProcessed(c, to) /\ m = KeptSent(c, to)
    OBVIOUS
  <1> HIDE DEF k, m
  <1>6. Len(d.processed) = k /\ \A i \in 1..k : d.processed[i] = c.processed[i]
    BY <1>1, <1>3, <1>4
  <1>7. Len(d.sentLog) = m /\ \A i \in 1..m : d.sentLog[i] = c.sentLog[i]
    BY <1>2, <1>3, <1>4
  <1>8. \A i \in 1..k : Lt(c.processed[i].ev.ts, to)
    <2> TAKE i \in 1..k
    <2>1. k \in 1..Len(c.processed) /\ i \in 1..Len(c.processed) /\ k > 0
      BY <1>1
    <2>2. Le(c.processed[i].ev.ts, c.processed[k].ev.ts)
      BY <2>1 DEF InOrder
    <2>3. c.processed[i].ev.ts \in Stamp /\ c.processed[k].ev.ts \in Stamp
      BY <2>1, RecordStamp
    <2> QED
      BY <1>1, <2>1, <2>2, <2>3, LeOrder
  <1> QED
    BY <1>1, <1>3, <1>5, <1>6, <1>7, <1>8

\* rollback_ leaves a context in order: what it keeps is before "to".
LEMMA OrderRolledBack ==
    ASSUME NEW c \in LPContext, NEW to \in Stamp, InOrder(c)
    PROVE  InOrder(RolledBack(c, to))
  <1> DEFINE d == RolledBack(c, to)
  <1>1. d.vt = prev_stamp(to) /\ Len(d.processed) \in 0..Len(c.processed)
    BY RolledBackLogs
  <1>2. \A i \in 1..Len(d.processed) :
           d.processed[i] = c.processed[i] /\ Lt(c.processed[i].ev.ts, to)
    BY RolledBackLogs
  <1>3. Len(c.processed) \in Nat
    BY DEF LPContext
  <1> HIDE DEF d
  <1>4. \A i \in 1..Len(d.processed) : Le(d.processed[i].ev.ts, d.vt)
    <2> TAKE i \in 1..Len(d.processed)
    <2>1. c.processed[i].ev.ts \in Stamp
      BY <1>1, <1>3, RecordStamp
    <2>2. Le(c.processed[i].ev.ts, prev_stamp(to))
      BY <1>2, <2>1, PrevStamp
    <2> QED
      BY <1>1, <1>2, <2>2
  <1>5. \A i \in 1..Len(d.processed) : \A j \in 1..i :
           Le(d.processed[j].ev.ts, d.processed[i].ev.ts)
    BY <1>1, <1>2, <1>3, SMTT(30) DEF InOrder
  <1>6. InOrder(d)
    BY <1>4, <1>5 DEF InOrder
  <1> QED
    BY <1>6 DEF d

\* A record at or after the virtual time keeps a context in order.
LEMMA OrderRecorded ==
    ASSUME NEW d \in LPContext, NEW rec \in ProcessedRecord, InOrder(d),
           \A i \in 1..Len(d.processed) : Le(d.processed[i].ev.ts, rec.ev.ts)
    PROVE  InOrder(Recorded(d, rec))
  <1> DEFINE e == Recorded(d, rec)
             n == Len(d.processed)
  <1>1. e.vt = rec.ev.ts /\ e.processed = Append(d.processed, rec)
    BY DEF Recorded, LPContext
  <1>2. n \in Nat /\ Len(e.processed) = n + 1
    BY <1>1 DEF LPContext
  <1>3. e.processed[n + 1] = rec /\ \A i \in 1..n : e.processed[i] = d.processed[i]
    BY <1>1 DEF LPContext
  <1>4. Le(rec.ev.ts, rec.ev.ts)
    BY EventFields, LeOrder DEF ProcessedRecord
  <1>5. \A i \in 1..n : Le(d.processed[i].ev.ts, rec.ev.ts)
    OBVIOUS
  <1>6. \A i \in 1..n : \A j \in 1..i :
           Le(d.processed[j].ev.ts, d.processed[i].ev.ts)
    BY DEF InOrder
  <1> HIDE DEF e, n
  <1>7. ASSUME NEW i \in 1..Len(e.processed)
        PROVE  /\ Le(e.processed[i].ev.ts, e.vt)
               /\ \A j \in 1..i : Le(e.processed[j].ev.ts, e.processed[i].ev.ts)
    <2>1. CASE i \in 1..n
      BY <2>1, <1>1, <1>2, <1>3, <1>5, <1>6
    <2>2. CASE i = n + 1
      <3>1. \A j \in 1..i : j \in 1..n \/ j = n + 1
        BY <2>2, <1>2
      <3> QED
        BY <2>2, <3>1, <1>1, <1>3, <1>4, <1>5
    <2> QED
      BY <2>1, <2>2, <1>2
  <1>8. InOrder(e)
    BY <1>7 DEF InOrder
  <1> QED
    BY <1>8 DEF e

\* A suffix, position by position.
LEMMA SuffixAt ==
    ASSUME NEW S, NEW s \in Seq(S), NEW k \in 0..Len(s),
           NEW t, t = SubSeq(s, k + 1, Len(s))
    PROVE  /\ Len(t) = Len(s) - k
           /\ \A i \in 1..Len(t) : t[i] = s[k + i]
  <1>1. Len(s) \in Nat /\ k \in Nat /\ k <= Len(s)
    OBVIOUS
  <1>2. Len(t) = Len(s) - k
    BY <1>1
  <1>3. ASSUME NEW i \in 1..Len(t)
        PROVE  t[i] = s[k + i]
    <2>1. i \in 1..(Len(s) - k)
      BY <1>2
    <2>2. i \in 1..(Len(s) - (k + 1) + 1) /\ (k + 1) + i - 1 = k + i
      BY <1>1, <2>1
    <2> QED
      BY <1>1, <2>1, <2>2
  <1> QED
    BY <1>2, <1>3

\* The logs pruning leaves: suffixes, and no record below gvt.
LEMMA PrunedLogs ==
    ASSUME NEW c \in LPContext, NEW gvt \in Stamp, InOrder(c),
           NEW d, d = Pruned(c, gvt)
    PROVE  /\ d.vt = c.vt /\ d.nextUid = c.nextUid
           /\ \E k \in 0..Len(c.processed) :
                 /\ Len(d.processed) = Len(c.processed) - k
                 /\ \A i \in 1..Len(d.processed) :
                       /\ d.processed[i] = c.processed[k + i]
                       /\ Le(gvt, d.processed[i].ev.ts)
           /\ \E m \in 0..Len(c.sentLog) :
                 /\ Len(d.sentLog) = Len(c.sentLog) - m
                 /\ \A i \in 1..Len(d.sentLog) : d.sentLog[i] = c.sentLog[m + i]
  <1> DEFINE k == PrunedProcessed(c, gvt)
             m == PrunedSent(c, gvt)
  <1>1. /\ k \in 0..Len(c.processed)
        /\ k < Len(c.processed) => Le(gvt, c.processed[k + 1].ev.ts)
    BY PrunedProcessedSpec
  <1>2. m \in 0..Len(c.sentLog)
    BY PrunedSentSpec
  <1>3. /\ d.vt = c.vt /\ d.nextUid = c.nextUid
        /\ d.processed = SubSeq(c.processed, k + 1, Len(c.processed))
        /\ d.sentLog = SubSeq(c.sentLog, m + 1, Len(c.sentLog))
    BY DEF Pruned, LPContext
  <1>4. c.processed \in Seq(ProcessedRecord) /\ c.sentLog \in Seq(SentRecord)
    BY DEF LPContext
  <1> HIDE DEF k, m
  <1>5. /\ Len(d.processed) = Len(c.processed) - k
        /\ \A i \in 1..Len(d.processed) : d.processed[i] = c.processed[k + i]
    BY <1>1, <1>3, <1>4, SuffixAt
  <1>6. /\ Len(d.sentLog) = Len(c.sentLog) - m
        /\ \A i \in 1..Len(d.sentLog) : d.sentLog[i] = c.sentLog[m + i]
    BY <1>2, <1>3, <1>4, SuffixAt
  <1>7. \A i \in 1..Len(d.processed) : Le(gvt, d.processed[i].ev.ts)
    <2> TAKE i \in 1..Len(d.processed)
    <2>1. Len(c.processed) \in Nat
      BY <1>4
    <2>2. k < Len(c.processed) /\ k + i \in 1..Len(c.processed)
          /\ k + 1 \in 1..(k + i) /\ k + 1 \in 1..Len(c.processed)
      BY <1>1, <1>5, <2>1
    <2>3. Le(c.processed[k + 1].ev.ts, c.processed[k + i].ev.ts)
      BY <2>2 DEF InOrder
    <2>4. c.processed[k + 1].ev.ts \in Stamp /\ c.processed[k + i].ev.ts \in Stamp
      BY <2>2, RecordStamp
    <2>5. Le(gvt, c.processed[k + 1].ev.ts)
      BY <1>1, <2>2
    <2>6. Le(gvt, c.processed[k + i].ev.ts)
      BY <2>3, <2>4, <2>5, LeOrder
    <2> QED
      BY <1>5, <2>6
  <1> QED
    BY <1>1, <1>2, <1>3, <1>5, <1>6, <1>7

\* prune_to_gvt_ leaves a context in order.
LEMMA OrderPruned ==
    ASSUME NEW c \in LPContext, NEW gvt \in Stamp, InOrder(c)
    PROVE  InOrder(Pruned(c, gvt))
  <1> DEFINE d == Pruned(c, gvt)
  <1>1. PICK k \in 0..Len(c.processed) :
           /\ Len(d.processed) = Len(c.processed) - k
           /\ \A i \in 1..Len(d.processed) :
                 /\ d.processed[i] = c.processed[k + i]
                 /\ Le(gvt, d.processed[i].ev.ts)
    BY PrunedLogs
  <1>2. d.vt = c.vt
    BY PrunedLogs
  <1>3. Len(c.processed) \in Nat
    BY DEF LPContext
  <1> HIDE DEF d
  <1>4. \A i \in 1..Len(d.processed) :
           k + i \in 1..Len(c.processed) /\ \A j \in 1..i : k + j \in 1..(k + i)
    BY <1>1, <1>3
  <1>5. ASSUME NEW i \in 1..Len(d.processed)
        PROVE  /\ Le(d.processed[i].ev.ts, d.vt)
               /\ \A j \in 1..i : Le(d.processed[j].ev.ts, d.processed[i].ev.ts)
    <2>1. d.processed[i] = c.processed[k + i] /\ k + i \in 1..Len(c.processed)
      BY <1>1, <1>4
    <2>2. Le(d.processed[i].ev.ts, d.vt)
      BY <2>1, <1>2 DEF InOrder
    <2>3. ASSUME NEW j \in 1..i
          PROVE  Le(d.processed[j].ev.ts, d.processed[i].ev.ts)
      <3>1. j \in 1..Len(d.processed) /\ k + j \in 1..(k + i)
        BY <1>1, <1>3, <1>4
      <3>2. d.processed[j] = c.processed[k + j]
        BY <3>1, <1>1
      <3>3. Le(c.processed[k + j].ev.ts, c.processed[k + i].ev.ts)
        BY <3>1, <2>1 DEF InOrder
      <3> QED
        BY <2>1, <3>2, <3>3
    <2> QED
      BY <2>2, <2>3
  <1>6. InOrder(d)
    BY <1>5 DEF InOrder
  <1> QED
    BY <1>6 DEF d

\* Sending touches neither the records nor the virtual time.
LEMMA AfterSendingLogs ==
    ASSUME NEW c \in LPContext, NEW now, NEW sends, NEW evs,
           NEW d, d = AfterSending(c, now, sends, evs)
    PROVE  d.vt = c.vt /\ d.processed = c.processed
  BY DEF AfterSending, LPContext

\* Steps that change no context keep the order.
LEMMA OrderSame ==
    ASSUME NEW c, NEW d, d.vt = c.vt, d.processed = c.processed, InOrder(c)
    PROVE  InOrder(d)
  BY DEF InOrder

\* Pruning the contexts of some ranks keeps the order.
LEMMA OrderPrune ==
    ASSUME TypeOK, ProcessedInOrder, NEW R, NEW gvt \in Stamp, Prune(R, gvt)
    PROVE  ProcessedInOrder'
  <1>1. \A l \in LPs : InOrder(ctx[l])
    BY InOrderAll
  <1>2. \A l \in LPs : InOrder(Pruned(ctx[l], gvt))
    BY <1>1, OrderPruned DEF TypeOK
  <1>3. \A l \in LPs : ctx'[l] = Pruned(ctx[l], gvt) \/ ctx'[l] = ctx[l]
    BY DEF Prune
  <1>4. \A l \in LPs : InOrder(ctx'[l])
    BY <1>1, <1>2, <1>3
  <1> QED
    BY <1>4 DEF ProcessedInOrder, InOrder

\* Every step of the kernel keeps the records in order.
LEMMA OrderStep ==
    ASSUME TypeOK, ProcessedInOrder, [Next]_vars
    PROVE  ProcessedInOrder'
  <1>1. \A l \in LPs : InOrder(ctx[l])
    BY InOrderAll
  <1>a. \A l \in LPs : ctx[l] \in LPContext
    BY DEF TypeOK
  <1>b. (\A l \in LPs : InOrder(ctx'[l])) => ProcessedInOrder'
    BY DEF ProcessedInOrder, InOrder
  <1>c. ctx' = ctx => ProcessedInOrder'
    BY <1>1, <1>b
  <1>d. ASSUME NEW l \in LPs, NEW d, InOrder(d), ctx' = [ctx EXCEPT ![l] = d]
        PROVE  ProcessedInOrder'
    <2>1. \A k \in LPs : ctx'[k] = IF k = l THEN d ELSE ctx[k]
      BY <1>d DEF TypeOK
    <2> QED
      BY <1>1, <1>b, <1>d, <2>1
  <1>2. ASSUME NEW r \in Ranks, Start(r)
        PROVE  ProcessedInOrder'
    <2>1. ASSUME NEW l \in LPs
          PROVE  InOrder(ctx'[l])
      <3> DEFINE d == AfterSending(ctx[l], ZeroStamp, OnStart(l), StartEvents(l))
      <3>1. ctx'[l] = ctx[l] \/ ctx'[l] = d
        BY <1>2 DEF Start
      <3>2. d.vt = ctx[l].vt /\ d.processed = ctx[l].processed
        BY <1>a, AfterSendingLogs
      <3> HIDE DEF d
      <3>3. InOrder(d)
        BY <1>1, <3>2, OrderSame
      <3> QED
        BY <1>1, <3>1, <3>3
    <2> QED
      BY <1>b, <2>1
  <1>3. ASSUME NEW r \in Ranks, PollEvent(r) \/ PollAck(r) \/ DispatchNothing(r)
        PROVE  ProcessedInOrder'
    BY <1>3, <1>c DEF PollEvent, PollAck, DispatchNothing
  <1>4. ASSUME NEW r \in Ranks, DispatchStraggler(r)
        PROVE  ProcessedInOrder'
    <2>1. PICK ev \in pending[r], rest \in SUBSET pending[r] :
             StragglerOutcome(r, ev, rest)
      BY <1>4, StragglerStep
    <2>2. ctx' = [ctx EXCEPT ![ev.dst] = RolledBack(ctx[ev.dst], ev.ts)]
      BY <2>1 DEF StragglerOutcome
    <2>3. ev.dst \in LPs /\ ev.ts \in Stamp
      BY EventFields DEF TypeOK
    <2>4. InOrder(RolledBack(ctx[ev.dst], ev.ts))
      BY <1>1, <1>a, <2>3, OrderRolledBack
    <2> QED
      BY <1>d, <2>2, <2>3, <2>4
  <1>5. ASSUME NEW r \in Ranks, DispatchAnti(r)
        PROVE  ProcessedInOrder'
    <2>1. PICK ev \in pending[r], rest \in SUBSET pending[r],
               rec \in ProcessedRecord : AntiOutcome(r, ev, rest, rec)
      BY <1>5, AntiStep, SMTT(30)
    <2>2. /\ rec.ev = ev /\ ~ Lt(ev.ts, ctx[ev.dst].vt)
          /\ \/ ctx' = [ctx EXCEPT ![ev.dst] = Recorded(ctx[ev.dst], rec)]
             \/ \E i \in 1..Len(ctx[ev.dst].processed) :
                  ctx' = [ctx EXCEPT ![ev.dst] =
                            Recorded(RolledBack(ctx[ev.dst],
                                       ctx[ev.dst].processed[i].ev.ts), rec)]
      BY <2>1 DEF AntiOutcome
    <2> DEFINE l == ev.dst
               c == ctx[l]
    <2>3. l \in LPs /\ ev.ts \in Stamp
      BY EventFields DEF TypeOK
    <2>4. c \in LPContext /\ InOrder(c) /\ c.vt \in Stamp
      BY <2>3, <1>1, <1>a DEF LPContext
    <2>5. \A i \in 1..Len(c.processed) : Le(c.processed[i].ev.ts, rec.ev.ts)
      <3> TAKE i \in 1..Len(c.processed)
      <3>1. Le(c.processed[i].ev.ts, c.vt) /\ Le(c.vt, rec.ev.ts)
        BY <2>2, <2>4 DEF InOrder, Le
      <3>2. c.processed[i].ev.ts \in Stamp
        BY <2>4, RecordStamp
      <3> QED
        BY <2>2, <2>3, <2>4, <3>1, <3>2, LeOrder
    <2>6. CASE ctx' = [ctx EXCEPT ![l] = Recorded(c, rec)]
      <3>1. InOrder(Recorded(c, rec))
        BY <2>4, <2>5, OrderRecorded
      <3> QED
        BY <1>d, <2>3, <2>6, <3>1
    <2>7. ASSUME NEW i \in 1..Len(c.processed),
                 ctx' = [ctx EXCEPT
                   ![l] = Recorded(RolledBack(c, c.processed[i].ev.ts), rec)]
          PROVE  ProcessedInOrder'
      <3> DEFINE to == c.processed[i].ev.ts
                 d == RolledBack(c, to)
      <3>1. to \in Stamp
        BY <2>4, RecordStamp
      <3>2. d \in LPContext /\ InOrder(d)
        BY <2>4, <3>1, RolledBackType, OrderRolledBack
      <3>3. \A j \in 1..Len(d.processed) : Le(d.processed[j].ev.ts, rec.ev.ts)
        <4>1. Len(d.processed) \in 0..Len(c.processed)
          BY <2>4, <3>1, RolledBackLogs
        <4>2. \A j \in 1..Len(d.processed) : d.processed[j] = c.processed[j]
          BY <2>4, <3>1, RolledBackLogs
        <4>3. Len(c.processed) \in Nat
          BY <2>4 DEF LPContext
        <4> HIDE DEF d, c
        <4> QED
          BY <4>1, <4>2, <4>3, <2>5
      <3>4. InOrder(Recorded(d, rec))
        BY <3>2, <3>3, OrderRecorded
      <3> QED
        BY <1>d, <2>3, <2>7, <3>4
    <2> QED
      BY <2>2, <2>6, <2>7
  <1>6. ASSUME NEW r \in Ranks, DispatchEvent(r)
        PROVE  ProcessedInOrder'
    <2>1. PICK ev \in pending[r], rest \in SUBSET pending[r],
               rec \in ProcessedRecord, sends \in Seq(Send), state \in LPState :
               EventOutcome(r, ev, rest, rec, sends, state)
      BY <1>6, EventStep
    <2>2. /\ rec.ev = ev /\ ~ Lt(ev.ts, ctx[ev.dst].vt)
          /\ StampsFit(Emitted(ev.dst, ctx[ev.dst], ev.ts, sends))
          /\ ctx' = [ctx EXCEPT ![ev.dst] =
                [Recorded(AfterSending(ctx[ev.dst], ev.ts, sends,
                              Emitted(ev.dst, ctx[ev.dst], ev.ts, sends)), rec)
                   EXCEPT !.state = state]]
      BY <2>1 DEF EventOutcome
    <2> DEFINE l == ev.dst
               c == ctx[l]
               evs == Emitted(l, c, ev.ts, sends)
               after == AfterSending(c, ev.ts, sends, evs)
    <2>3. l \in LPs /\ ev.ts \in Stamp
      BY EventFields DEF TypeOK
    <2>4. c \in LPContext /\ InOrder(c) /\ c.vt \in Stamp
      BY <2>3, <1>1, <1>a DEF LPContext
    <2>5. after \in LPContext
      <3>1. evs \in Seq(PlainEvent)
        BY <2>2, <2>3, <2>4, EmittedType
      <3>2. Len(evs) = Len(sends)
        BY EmittedLen
      <3> HIDE DEF evs, c
      <3> QED
        BY <2>3, <2>4, <3>1, <3>2, AfterSendingType
    <2>6. after.vt = c.vt /\ after.processed = c.processed
      BY <2>4, AfterSendingLogs
    <2>7. ctx' = [ctx EXCEPT ![l] = [Recorded(after, rec) EXCEPT !.state = state]]
      BY <2>2
    <2> HIDE DEF after
    <2>8. InOrder(after)
      BY <2>4, <2>6, OrderSame
    <2>9. \A i \in 1..Len(after.processed) : Le(after.processed[i].ev.ts, rec.ev.ts)
      <3> SUFFICES ASSUME NEW i \in 1..Len(c.processed)
                   PROVE  Le(c.processed[i].ev.ts, rec.ev.ts)
        BY <2>6
      <3>1. Le(c.processed[i].ev.ts, c.vt) /\ Le(c.vt, rec.ev.ts)
        BY <2>2, <2>4 DEF InOrder, Le
      <3>2. c.processed[i].ev.ts \in Stamp
        BY <2>4, RecordStamp
      <3> QED
        BY <2>2, <2>3, <2>4, <3>1, <3>2, LeOrder
    <2>10. InOrder(Recorded(after, rec))
      BY <2>5, <2>8, <2>9, OrderRecorded
    <2>11. Recorded(after, rec) \in LPContext
      BY <2>5, RecordedType
    <2>12. InOrder([Recorded(after, rec) EXCEPT !.state = state])
      <3> DEFINE e == Recorded(after, rec)
                 f == [e EXCEPT !.state = state]
      <3>1. f.vt = e.vt /\ f.processed = e.processed
        <4> HIDE DEF e
        <4> QED
          BY <2>11 DEF LPContext
      <3> HIDE DEF e, f
      <3>2. InOrder(f)
        BY <2>10, <3>1, OrderSame DEF e
      <3> QED
        BY <3>2 DEF e, f
    <2> QED
      BY <1>d, <2>3, <2>7, <2>12
  <1>7. ASSUME NEW r \in Ranks, FossilCollect(r)
        PROVE  ProcessedInOrder'
    <2>1. Prune({r}, lastGvt) /\ lastGvt \in Stamp
      BY <1>7 DEF FossilCollect, TypeOK
    <2> QED
      BY <2>1, OrderPrune
  <1>8. ASSUME NEW gvt \in Stamp, Adopt(gvt)
        PROVE  ProcessedInOrder'
    <2>1. CASE ctx' = ctx
      BY <1>c, <2>1
    <2>2. CASE Prune(Ranks, gvt)
      BY <2>2, OrderPrune
    <2> QED
      BY <1>8, <2>1, <2>2 DEF Adopt
  <1>9. CASE AckGvt
    BY <1>8, <1>9, GvtType DEF AckGvt
  <1>10. CASE ColouredGvt
    BY <1>8, <1>10, GvtType DEF ColouredGvt
  <1>11. CASE Finalize
    BY <1>11, OrderPrune, StampConstants DEF Finalize
  <1>12. CASE ColouredFlip \/ ColouredWait \/ KeepRunning \/ UNCHANGED vars
    BY <1>12, <1>c DEF ColouredFlip, ColouredWait, KeepRunning, vars
  <1> QED
    BY <1>2, <1>3, <1>4, <1>5, <1>6, <1>7, <1>9, <1>10, <1>11, <1>12
       DEF Next, RankStep, Collective, Terminated

\* An LP's records are always in the order of their stamps and never ahead of
\* its virtual time, so that rollback_ and prune_to_gvt_, which look only at
\* the ends of the record list, undo and commit exactly the records they must.
THEOREM RecordsInOrder == Spec => []ProcessedInOrder
  <1>1. Init => TypeOK /\ ProcessedInOrder
    <2>1. Init => ProcessedInOrder
      BY DEF Init, ProcessedInOrder, NewContext
    <2> QED
      BY <2>1, TypeInit
  <1>2. TypeOK /\ ProcessedInOrder /\ [Next]_vars => (TypeOK /\ ProcessedInOrder)'
    BY TypeStep, OrderStep
  <1> QED
    BY <1>1, <1>2, PTL DEF Spec

-----------------------------------------------------------------------------
(***************************************************************************)
(* Rollback restores states of the past.  A record keeps the values, from  *)
(* before its event, of some of the entities; the state that a rollback to *)
(* n records restores takes each entity from the first snapshot after them *)
(* that has it, or else from the LP.  The state for n is the same before   *)
(* and after any step of the LP that leaves the n records, whatever is     *)
(* recorded or undone behind them.                                         *)
(***************************************************************************)
\* The records after the first n whose snapshot has entity e.
Snaps(c, n, e) == {i \in (n+1)..Len(c.processed) : e \in DOMAIN c.processed[i].pre}

\* i is the record from which a rollback to n records restores entity e.
IsFirstSnap(c, n, e, i) ==
    /\ i \in (n+1)..Len(c.processed) /\ e \in DOMAIN c.processed[i].pre
    /\ \A j \in (n+1)..Len(c.processed) : e \in DOMAIN c.processed[j].pre => i <= j

NoSnap(c, n, e) ==
    \A i \in (n+1)..Len(c.processed) : e \notin DOMAIN c.processed[i].pre

\* What is restored of one entity.
LEMMA RestoredEntity ==
    ASSUME NEW c \in LPContext, NEW n \in 0..Len(c.processed), NEW e \in Entities
    PROVE  \/ NoSnap(c, n, e) /\ RestoredState(c, n)[e] = c.state[e]
           \/ \E i \in 1..Len(c.processed) :
                 /\ IsFirstSnap(c, n, e, i)
                 /\ RestoredState(c, n)[e] = c.processed[i].pre[e]
  <1>1. Len(c.processed) \in Nat
    BY DEF LPContext
  <1>2. RestoredState(c, n)[e] =
           IF Snaps(c, n, e) = {} THEN c.state[e]
           ELSE c.processed[Min(Snaps(c, n, e))].pre[e]
    BY DEF RestoredState, Snaps
  <1>3. CASE Snaps(c, n, e) = {}
    BY <1>2, <1>3 DEF Snaps, NoSnap
  <1>4. CASE Snaps(c, n, e) # {}
    <2> DEFINE i == Min(Snaps(c, n, e))
    <2>1. Snaps(c, n, e) \in SUBSET Nat
      BY <1>1 DEF Snaps
    <2>2. i \in Snaps(c, n, e) /\ \A j \in Snaps(c, n, e) : i <= j
      BY <1>4, <2>1, LeastNat
    <2>3. RestoredState(c, n)[e] = c.processed[i].pre[e]
      BY <1>2, <1>4
    <2> HIDE DEF i
    <2>4. IsFirstSnap(c, n, e, i)
      BY <2>2 DEF Snaps, IsFirstSnap
    <2>5. i \in 1..Len(c.processed)
      BY <1>1, <2>2 DEF Snaps
    <2> QED
      BY <2>3, <2>4, <2>5
  <1> QED
    BY <1>3, <1>4

\* Whatever entity e is restored from, it is that record.
LEMMA RestoredFrom ==
    ASSUME NEW c \in LPContext, NEW n \in 0..Len(c.processed), NEW e \in Entities,
           NEW i, IsFirstSnap(c, n, e, i)
    PROVE  RestoredState(c, n)[e] = c.processed[i].pre[e]
  <1>1. Len(c.processed) \in Nat
    BY DEF LPContext
  <1>2. ~ NoSnap(c, n, e)
    BY DEF IsFirstSnap, NoSnap
  <1>3. PICK j \in 1..Len(c.processed) :
           /\ IsFirstSnap(c, n, e, j)
           /\ RestoredState(c, n)[e] = c.processed[j].pre[e]
    BY <1>2, RestoredEntity
  <1>4. i <= j /\ j <= i /\ i \in Nat /\ j \in Nat
    BY <1>1, <1>3 DEF IsFirstSnap
  <1>5. i = j
    BY <1>4
  <1> QED
    BY <1>3, <1>5

\* If no snapshot after n records has entity e, it is left as it is.
LEMMA RestoredLeft ==
    ASSUME NEW c \in LPContext, NEW n \in 0..Len(c.processed), NEW e \in Entities,
           NoSnap(c, n, e)
    PROVE  RestoredState(c, n)[e] = c.state[e]
  <1>1. \A i : ~ IsFirstSnap(c, n, e, i)
    BY DEF IsFirstSnap, NoSnap
  <1> QED
    BY <1>1, RestoredEntity

\* States are equal if they agree on the entities.
LEMMA SameState ==
    ASSUME NEW s, NEW t, s = [e \in Entities |-> s[e]], t = [e \in Entities |-> t[e]],
           \A e \in Entities : s[e] = t[e]
    PROVE  s = t
  OBVIOUS

\* What is restored is a function of the entities.
LEMMA RestoredIsState ==
    ASSUME NEW c, NEW n
    PROVE  RestoredState(c, n) = [e \in Entities |-> RestoredState(c, n)[e]]
  BY DEF RestoredState

\* Undoing nothing changes nothing.
LEMMA RestoredAll ==
    ASSUME NEW c \in LPContext
    PROVE  RestoredState(c, Len(c.processed)) = c.state
  <1>1. Len(c.processed) \in Nat
    BY DEF LPContext
  <1>2. \A e \in Entities : NoSnap(c, Len(c.processed), e)
    BY <1>1 DEF NoSnap
  <1>3. \A e \in Entities : RestoredState(c, Len(c.processed))[e] = c.state[e]
    BY <1>1, <1>2, RestoredLeft
  <1>4. c.state = [e \in Entities |-> c.state[e]]
    BY DEF LPContext, LPState
  <1> QED
    BY <1>3, <1>4, RestoredIsState, SameState

\* A record whose snapshot has what its event changes, and has it as it was.
Saves(c, rec, d) ==
    \A e \in Entities : IF e \in DOMAIN rec.pre THEN rec.pre[e] = c.state[e]
                                                ELSE d.state[e] = c.state[e]

\* Recording one more event leaves what a rollback to before it restores.
LEMMA RestoredMore ==
    ASSUME NEW c \in LPContext, NEW d \in LPContext, NEW rec,
           d.processed = Append(c.processed, rec), Saves(c, rec, d),
           NEW n \in 0..Len(c.processed)
    PROVE  RestoredState(d, n) = RestoredState(c, n)
  <1> DEFINE N == Len(c.processed)
  <1>1. /\ N \in Nat /\ Len(d.processed) = N + 1
        /\ d.processed[N + 1] = rec
        /\ \A i \in 1..N : d.processed[i] = c.processed[i]
    BY DEF LPContext
  <1>2. n \in 0..Len(d.processed)
    BY <1>1
  <1> HIDE DEF N
  <1>3. ASSUME NEW e \in Entities
        PROVE  RestoredState(d, n)[e] = RestoredState(c, n)[e]
    <2>1. ASSUME NEW i \in 1..N, IsFirstSnap(c, n, e, i),
                 RestoredState(c, n)[e] = c.processed[i].pre[e]
          PROVE  RestoredState(d, n)[e] = RestoredState(c, n)[e]
      <3>1. i \in (n+1)..Len(d.processed) /\ e \in DOMAIN d.processed[i].pre
        BY <1>1, <2>1 DEF IsFirstSnap, N
      <3>2. ASSUME NEW j \in (n+1)..Len(d.processed), e \in DOMAIN d.processed[j].pre
            PROVE  i <= j
        <4>1. CASE j = N + 1
          BY <1>1, <4>1
        <4>2. CASE j \in (n+1)..N
          <5>1. d.processed[j] = c.processed[j]
            BY <1>1, <4>2 DEF N
          <5> QED
            BY <2>1, <3>2, <4>2, <5>1 DEF IsFirstSnap, N
        <4> QED
          BY <1>1, <4>1, <4>2 DEF N
      <3>3. IsFirstSnap(d, n, e, i)
        BY <3>1, <3>2 DEF IsFirstSnap
      <3>4. RestoredState(d, n)[e] = d.processed[i].pre[e]
        BY <1>2, <3>3, RestoredFrom
      <3> QED
        BY <1>1, <2>1, <3>4
    <2>2. CASE NoSnap(c, n, e) /\ RestoredState(c, n)[e] = c.state[e]
      <3>1. \A j \in (n+1)..Len(d.processed) :
               e \in DOMAIN d.processed[j].pre => j = N + 1
        <4> SUFFICES ASSUME NEW j \in (n+1)..N
                     PROVE  e \notin DOMAIN d.processed[j].pre
          BY <1>1 DEF N
        <4>1. d.processed[j] = c.processed[j]
          BY <1>1 DEF N
        <4> QED
          BY <2>2, <4>1 DEF NoSnap, N
      <3>2. CASE e \in DOMAIN rec.pre
        <4>1. N + 1 \in (n+1)..Len(d.processed)
          BY <1>1 DEF N
        <4>2. \A j \in (n+1)..Len(d.processed) :
                 e \in DOMAIN d.processed[j].pre => N + 1 <= j
          BY <1>1, <3>1
        <4>3. IsFirstSnap(d, n, e, N + 1)
          BY <1>1, <3>2, <4>1, <4>2 DEF IsFirstSnap
        <4>4. RestoredState(d, n)[e] = rec.pre[e]
          BY <1>1, <1>2, <4>3, RestoredFrom
        <4> QED
          BY <2>2, <3>2, <4>4 DEF Saves
      <3>3. CASE e \notin DOMAIN rec.pre
        <4>1. NoSnap(d, n, e)
          BY <1>1, <3>1, <3>3 DEF NoSnap
        <4>2. RestoredState(d, n)[e] = d.state[e]
          BY <1>2, <4>1, RestoredLeft
        <4> QED
          BY <2>2, <3>3, <4>2 DEF Saves
      <3> QED
        BY <3>2, <3>3
    <2> QED
      BY <2>1, <2>2, RestoredEntity DEF N
  <1> QED
    BY <1>3, RestoredIsState, SameState

\* Rolling back to k records leaves what a rollback to fewer restores.
LEMMA RestoredBack ==
    ASSUME NEW c \in LPContext, NEW d \in LPContext, NEW k \in 0..Len(c.processed),
           Len(d.processed) = k,
           \A i \in 1..k : d.processed[i] = c.processed[i],
           d.state = RestoredState(c, k), NEW n \in 0..k
    PROVE  RestoredState(d, n) = RestoredState(c, n)
  <1> DEFINE N == Len(c.processed)
  <1>1. /\ N \in Nat /\ k \in 0..N
        /\ n \in 0..Len(d.processed) /\ n \in 0..Len(c.processed)
    BY DEF LPContext
  <1> HIDE DEF N
  <1>2. ASSUME NEW e \in Entities
        PROVE  RestoredState(d, n)[e] = RestoredState(c, n)[e]
    <2>1. ASSUME NEW i \in 1..Len(d.processed), IsFirstSnap(d, n, e, i),
                 RestoredState(d, n)[e] = d.processed[i].pre[e]
          PROVE  RestoredState(d, n)[e] = RestoredState(c, n)[e]
      <3>1. /\ i \in (n+1)..k /\ i \in 1..k /\ i \in (n+1)..N
            /\ d.processed[i] = c.processed[i]
        BY <1>1, <2>1 DEF IsFirstSnap
      <3>2. ASSUME NEW j \in (n+1)..N, e \in DOMAIN c.processed[j].pre
            PROVE  i <= j
        <4>1. CASE j \in (n+1)..k
          <5>1. d.processed[j] = c.processed[j]
            BY <1>1, <4>1
          <5> QED
            BY <2>1, <3>2, <4>1, <5>1 DEF IsFirstSnap
        <4> QED
          BY <1>1, <3>1, <4>1
      <3>3. IsFirstSnap(c, n, e, i)
        BY <2>1, <3>1, <3>2 DEF IsFirstSnap, N
      <3>4. RestoredState(c, n)[e] = c.processed[i].pre[e]
        BY <1>1, <3>3, RestoredFrom
      <3> QED
        BY <2>1, <3>1, <3>4
    <2>2. CASE NoSnap(d, n, e) /\ RestoredState(d, n)[e] = d.state[e]
      <3>1. \A j \in (n+1)..k : e \notin DOMAIN c.processed[j].pre
        <4> TAKE j \in (n+1)..k
        <4>1. d.processed[j] = c.processed[j]
          BY <1>1
        <4> QED
          BY <2>2, <4>1 DEF NoSnap
      <3>2. CASE NoSnap(c, k, e) /\ RestoredState(c, k)[e] = c.state[e]
        <4>1. NoSnap(c, n, e)
          BY <1>1, <3>1, <3>2 DEF NoSnap, N
        <4>2. RestoredState(c, n)[e] = c.state[e]
          BY <1>1, <4>1, RestoredLeft
        <4> QED
          BY <2>2, <3>2, <4>2
      <3>3. ASSUME NEW i \in 1..N, IsFirstSnap(c, k, e, i),
                   RestoredState(c, k)[e] = c.processed[i].pre[e]
            PROVE  RestoredState(d, n)[e] = RestoredState(c, n)[e]
        <4>1. i \in (n+1)..N /\ e \in DOMAIN c.processed[i].pre
          BY <1>1, <3>3 DEF IsFirstSnap, N
        <4>2. \A j \in (n+1)..N : e \in DOMAIN c.processed[j].pre => j \in (k+1)..N
          BY <1>1, <3>1
        <4>3. IsFirstSnap(c, n, e, i)
          BY <3>3, <4>1, <4>2 DEF IsFirstSnap, N
        <4>4. RestoredState(c, n)[e] = c.processed[i].pre[e]
          BY <1>1, <4>3, RestoredFrom
        <4> QED
          BY <2>2, <3>3, <4>4
      <3> QED
        BY <3>2, <3>3, RestoredEntity DEF N
    <2> QED
      BY <1>1, <2>1, <2>2, RestoredEntity
  <1> QED
    BY <1>2, RestoredIsState, SameState

\* Releasing the first k records leaves what later rollbacks restore.
LEMMA RestoredPruned ==
    ASSUME NEW c \in LPContext, NEW d \in LPContext, NEW k \in 0..Len(c.processed),
           Len(d.processed) = Len(c.processed) - k,
           \A i \in 1..Len(d.processed) : d.processed[i] = c.processed[k + i],
           d.state = c.state, NEW n \in 0..Len(d.processed)
    PROVE  RestoredState(d, n) = RestoredState(c, k + n)
  <1> DEFINE N == Len(c.processed)
             M == Len(d.processed)
  <1>1. N \in Nat /\ k \in 0..N /\ M = N - k /\ n \in 0..M /\ k + n \in 0..N
    BY DEF LPContext
  <1>2. \A i \in 1..M : d.processed[i] = c.processed[k + i]
    OBVIOUS
  <1> HIDE DEF N, M
  <1>3. ASSUME NEW e \in Entities
        PROVE  RestoredState(d, n)[e] = RestoredState(c, k + n)[e]
    <2>1. ASSUME NEW i \in 1..M, IsFirstSnap(d, n, e, i),
                 RestoredState(d, n)[e] = d.processed[i].pre[e]
          PROVE  RestoredState(d, n)[e] = RestoredState(c, k + n)[e]
      <3>1. /\ i \in (n+1)..M /\ k + i \in (k+n+1)..N
            /\ d.processed[i] = c.processed[k + i]
        BY <1>1, <1>2, <2>1 DEF IsFirstSnap, M
      <3>2. ASSUME NEW j \in (k+n+1)..N, e \in DOMAIN c.processed[j].pre
            PROVE  k + i <= j
        <4>1. j - k \in (n+1)..M /\ j - k \in 1..M /\ k + (j - k) = j
          BY <1>1
        <4>2. d.processed[j - k] = c.processed[j]
          BY <1>2, <4>1
        <4>3. i <= j - k
          BY <2>1, <3>2, <4>1, <4>2 DEF IsFirstSnap, M
        <4> QED
          BY <1>1, <3>1, <4>3
      <3>3. IsFirstSnap(c, k + n, e, k + i)
        BY <2>1, <3>1, <3>2 DEF IsFirstSnap, N
      <3>4. RestoredState(c, k + n)[e] = c.processed[k + i].pre[e]
        BY <1>1, <3>3, RestoredFrom DEF N
      <3> QED
        BY <2>1, <3>1, <3>4
    <2>2. CASE NoSnap(d, n, e) /\ RestoredState(d, n)[e] = d.state[e]
      <3>1. ASSUME NEW j \in (k+n+1)..N
            PROVE  e \notin DOMAIN c.processed[j].pre
        <4>1. j - k \in (n+1)..M /\ j - k \in 1..M /\ k + (j - k) = j
          BY <1>1
        <4>2. d.processed[j - k] = c.processed[j]
          BY <1>2, <4>1
        <4> QED
          BY <2>2, <4>1, <4>2 DEF NoSnap, M
      <3>2. NoSnap(c, k + n, e)
        BY <3>1 DEF NoSnap, N
      <3>3. RestoredState(c, k + n)[e] = c.state[e]
        BY <1>1, <3>2, RestoredLeft DEF N
      <3> QED
        BY <2>2, <3>3
    <2> QED
      BY <1>1, <2>1, <2>2, RestoredEntity DEF M
  <1> QED
    BY <1>3, RestoredIsState, SameState

-----------------------------------------------------------------------------
(***************************************************************************)
(* Records replay.  The invariant of a context: from the state restored    *)
(* before each record, its event leads to the state restored after it.     *)
(***************************************************************************)
\* Where event e takes LP l from state s: an anti-message changes nothing.
After(l, s, e) == IF e.anti THEN s ELSE OnEvent(l, s, e.kind).state

\* The outputs of event e at LP l in state s; those of anti-messages do not count.
Outs(l, s, rec) == ~ rec.ev.anti => rec.outs = OnEvent(l, s, rec.ev.kind).outs

Replays(l, c) ==
    \A n \in 1..Len(c.processed) :
        /\ RestoredState(c, n)
              = After(l, RestoredState(c, n - 1), c.processed[n].ev)
        /\ Outs(l, RestoredState(c, n - 1), c.processed[n])

\* The invariant is that every context replays.
LEMMA ReplaysAll == RecordsReplay <=> \A l \in LPs : Replays(l, ctx[l])
  BY DEF RecordsReplay, Replays, After, Outs

\* Recording an event that takes the LP from its state to the next.
LEMMA ReplaysRecorded ==
    ASSUME NEW l \in LPs, NEW c \in LPContext, NEW d \in LPContext, NEW rec,
           d.processed = Append(c.processed, rec), Saves(c, rec, d),
           d.state = After(l, c.state, rec.ev), Outs(l, c.state, rec),
           Replays(l, c)
    PROVE  Replays(l, d)
  <1> DEFINE N == Len(c.processed)
  <1>1. /\ N \in Nat /\ Len(d.processed) = N + 1
        /\ d.processed[N + 1] = rec
        /\ \A i \in 1..N : d.processed[i] = c.processed[i]
    BY DEF LPContext
  <1>2. \A n \in 0..N : RestoredState(d, n) = RestoredState(c, n)
    BY RestoredMore
  <1>3. /\ RestoredState(d, N + 1) = d.state
        /\ RestoredState(d, N) = c.state
    <2>1. RestoredState(d, Len(d.processed)) = d.state
      BY RestoredAll
    <2>2. RestoredState(c, N) = c.state
      BY RestoredAll
    <2>3. N \in 0..N
      BY <1>1
    <2> HIDE DEF N
    <2> QED
      BY <1>1, <1>2, <2>1, <2>2, <2>3
  <1>4. \A n \in 1..N : /\ RestoredState(c, n)
                              = After(l, RestoredState(c, n - 1), c.processed[n].ev)
                        /\ Outs(l, RestoredState(c, n - 1), c.processed[n])
    BY DEF Replays
  <1> HIDE DEF N
  <1>5. ASSUME NEW n \in 1..Len(d.processed)
        PROVE  /\ RestoredState(d, n)
                     = After(l, RestoredState(d, n - 1), d.processed[n].ev)
               /\ Outs(l, RestoredState(d, n - 1), d.processed[n])
    <2>1. CASE n \in 1..N
      <3>1. n \in 0..N /\ n - 1 \in 0..N
        BY <1>1, <2>1
      <3>2. /\ RestoredState(d, n) = RestoredState(c, n)
            /\ RestoredState(d, n - 1) = RestoredState(c, n - 1)
        BY <1>2, <3>1
      <3> QED
        BY <1>1, <1>4, <2>1, <3>2
    <2>2. CASE n = N + 1
      <3>1. n - 1 = N
        BY <1>1, <2>2
      <3> QED
        BY <1>1, <1>3, <2>2, <3>1
    <2> QED
      BY <1>1, <2>1, <2>2
  <1> QED
    BY <1>5 DEF Replays

\* Rolling back.
LEMMA ReplaysBack ==
    ASSUME NEW l \in LPs, NEW c \in LPContext, NEW to \in Stamp, InOrder(c),
           Replays(l, c), NEW d, d = RolledBack(c, to)
    PROVE  /\ Replays(l, d) /\ d \in LPContext
           /\ RestoredState(d, 0) = RestoredState(c, 0)
  <1> DEFINE k == KeptProcessed(c, to)
  <1>1. d \in LPContext
    BY RolledBackType
  <1>2. /\ Len(d.processed) = k /\ k \in 0..Len(c.processed)
        /\ \A i \in 1..k : d.processed[i] = c.processed[i]
    BY RolledBackLogs
  <1>3. d.state = RestoredState(c, k)
    BY DEF RolledBack, LPContext
  <1>4. Len(c.processed) \in Nat
    BY DEF LPContext
  <1> HIDE DEF k
  <1>5. \A n \in 0..k : RestoredState(d, n) = RestoredState(c, n)
    BY <1>1, <1>2, <1>3, RestoredBack
  <1>6. ASSUME NEW n \in 1..Len(d.processed)
        PROVE  /\ RestoredState(d, n)
                     = After(l, RestoredState(d, n - 1), d.processed[n].ev)
               /\ Outs(l, RestoredState(d, n - 1), d.processed[n])
    <2>1. n \in 0..k /\ n - 1 \in 0..k /\ n \in 1..k /\ n \in 1..Len(c.processed)
      BY <1>2, <1>4
    <2>2. /\ RestoredState(d, n) = RestoredState(c, n)
          /\ RestoredState(d, n - 1) = RestoredState(c, n - 1)
          /\ d.processed[n] = c.processed[n]
      BY <1>2, <1>5, <2>1
    <2> QED
      BY <2>1, <2>2 DEF Replays
  <1>7. RestoredState(d, 0) = RestoredState(c, 0)
    BY <1>2, <1>4, <1>5
  <1> QED
    BY <1>1, <1>6, <1>7 DEF Replays

\* Pruning: the state before the first record left is the one after those
\* that went.
LEMMA ReplaysPruned ==
    ASSUME NEW l \in LPs, NEW c \in LPContext, NEW gvt \in Stamp, Replays(l, c),
           NEW d, d = Pruned(c, gvt)
    PROVE  /\ Replays(l, d)
           /\ RestoredState(d, 0) = RestoredState(c, PrunedProcessed(c, gvt))
  <1> DEFINE k == PrunedProcessed(c, gvt)
  <1>1. k \in 0..Len(c.processed) /\ Len(c.processed) \in Nat
    BY PrunedProcessedSpec DEF LPContext
  <1>2. d \in LPContext
    BY PrunedType
  <1>3. /\ d.processed = SubSeq(c.processed, k + 1, Len(c.processed))
        /\ d.state = c.state
    BY DEF Pruned, LPContext
  <1>4. c.processed \in Seq(ProcessedRecord)
    BY DEF LPContext
  <1> HIDE DEF k
  <1>5. /\ Len(d.processed) = Len(c.processed) - k
        /\ \A i \in 1..Len(d.processed) : d.processed[i] = c.processed[k + i]
    BY <1>1, <1>3, <1>4, SuffixAt
  <1>6. \A n \in 0..Len(d.processed) : RestoredState(d, n) = RestoredState(c, k + n)
    BY <1>1, <1>2, <1>3, <1>5, RestoredPruned
  <1>7. ASSUME NEW n \in 1..Len(d.processed)
        PROVE  /\ RestoredState(d, n)
                     = After(l, RestoredState(d, n - 1), d.processed[n].ev)
               /\ Outs(l, RestoredState(d, n - 1), d.processed[n])
    <2>1. /\ n \in 0..Len(d.processed) /\ n - 1 \in 0..Len(d.processed)
          /\ k + n \in 1..Len(c.processed) /\ k + (n - 1) = (k + n) - 1
      BY <1>1, <1>5
    <2>2. /\ RestoredState(d, n) = RestoredState(c, k + n)
          /\ RestoredState(d, n - 1) = RestoredState(c, (k + n) - 1)
          /\ d.processed[n] = c.processed[k + n]
      BY <1>5, <1>6, <2>1
    <2> QED
      BY <2>1, <2>2 DEF Replays
  <1>8. RestoredState(d, 0) = RestoredState(c, k)
    <2>1. 0 \in 0..Len(d.processed) /\ k + 0 = k
      BY <1>1, <1>5
    <2> QED
      BY <1>6, <2>1
  <1> QED
    BY <1>7, <1>8 DEF Replays, k

\* A change of anything but the records and the state.
LEMMA ReplaysSame ==
    ASSUME NEW l \in LPs, NEW c, NEW d, d.processed = c.processed,
           d.state = c.state
    PROVE  /\ \A n : RestoredState(d, n) = RestoredState(c, n)
           /\ Replays(l, c) => Replays(l, d)
  <1>1. \A n : RestoredState(d, n) = RestoredState(c, n)
    BY DEF RestoredState
  <1> QED
    BY <1>1 DEF Replays

\* Nothing is released: a rollback of all records restores what it did.
BaseKept == \A l \in LPs : RestoredState(ctx'[l], 0) = RestoredState(ctx[l], 0)

\* A record of an anti-message, which saves nothing and changes nothing.
LEMMA ReplaysAnti ==
    ASSUME NEW l \in LPs, NEW c \in LPContext, NEW rec \in ProcessedRecord,
           rec.ev.anti, DOMAIN rec.pre = {}, Replays(l, c),
           NEW d, d = Recorded(c, rec)
    PROVE  Replays(l, d) /\ RestoredState(d, 0) = RestoredState(c, 0)
  <1>1. d \in LPContext
    BY RecordedType
  <1>2. d.processed = Append(c.processed, rec) /\ d.state = c.state
    BY DEF Recorded, LPContext
  <1>3. Saves(c, rec, d)
    BY <1>2 DEF Saves
  <1>4. d.state = After(l, c.state, rec.ev) /\ Outs(l, c.state, rec)
    BY <1>2 DEF After, Outs
  <1>5. Replays(l, d)
    BY <1>1, <1>2, <1>3, <1>4, ReplaysRecorded
  <1>6. 0 \in 0..Len(c.processed)
    BY DEF LPContext
  <1>7. RestoredState(d, 0) = RestoredState(c, 0)
    BY <1>1, <1>2, <1>3, <1>6, RestoredMore
  <1> QED
    BY <1>5, <1>7

\* The snapshot request_write takes has what the handler changes: the entities
\* asked for, the whole LP, or nothing when nothing was asked for.
LEMMA SnapshotSaves ==
    ASSUME WritesDeclared, NEW l \in LPs, NEW c \in LPContext,
           NEW rec \in ProcessedRecord, NEW sends, NEW state, rec.ev.kind \in Kinds,
           HandlerDid(l, c, rec, sends, state), NEW d, d.state = state
    PROVE  Saves(c, rec, d)
  <1> DEFINE does == OnEvent(l, c.state, rec.ev.kind)
             writes == does.writes
  <1>1. /\ rec.pre = Snapshot(l, c.state, writes) /\ d.state = does.state
    BY DEF HandlerDid
  <1>2. c.state \in LPState
    BY DEF LPContext
  <1>3. \A e \in Entities \ writes : does.state[e] = c.state[e]
    BY <1>2 DEF WritesDeclared
  <1>4. c.state = [e \in Entities |-> c.state[e]]
    BY <1>2 DEF LPState
  <1> HIDE DEF does, writes
  <1>5. CASE l \in EntityLPs
    <2>1. rec.pre = [e \in writes |-> c.state[e]]
      BY <1>1, <1>5 DEF Snapshot
    <2> QED
      BY <1>1, <1>3, <2>1 DEF Saves
  <1>6. CASE l \notin EntityLPs /\ writes = {}
    <2>1. rec.pre = <<>>
      BY <1>1, <1>6 DEF Snapshot
    <2>2. DOMAIN rec.pre = {}
      BY <2>1
    <2> QED
      BY <1>1, <1>3, <1>6, <2>2 DEF Saves
  <1>7. CASE l \notin EntityLPs /\ writes # {}
    <2>1. rec.pre = c.state
      BY <1>1, <1>7 DEF Snapshot
    <2>2. DOMAIN rec.pre = Entities
      BY <1>4, <2>1
    <2> QED
      BY <2>1, <2>2 DEF Saves
  <1> QED
    BY <1>5, <1>6, <1>7

\* The contexts other than that of l are left alone.
LEMMA OneReplays ==
    ASSUME TypeOK, RecordsReplay, NEW l \in LPs, NEW d,
           ctx' = [ctx EXCEPT ![l] = d], Replays(l, d),
           RestoredState(d, 0) = RestoredState(ctx[l], 0)
    PROVE  RecordsReplay' /\ BaseKept
  <1>1. \A k \in LPs : ctx'[k] = IF k = l THEN d ELSE ctx[k]
    BY DEF TypeOK
  <1>2. \A k \in LPs : Replays(k, ctx[k])
    BY ReplaysAll
  <1>3. \A k \in LPs : Replays(k, ctx'[k])
    BY <1>1, <1>2
  <1>4. BaseKept
    BY <1>1 DEF BaseKept
  <1> QED
    BY <1>3, <1>4 DEF RecordsReplay, Replays, After, Outs

\* prune_to_gvt_ leaves records that replay.
LEMMA ReplayPrune ==
    ASSUME TypeOK, RecordsReplay, NEW R, NEW gvt \in Stamp, Prune(R, gvt)
    PROVE  RecordsReplay'
  <1>1. \A l \in LPs : Replays(l, ctx[l]) /\ ctx[l] \in LPContext
    BY ReplaysAll DEF TypeOK
  <1>2. \A l \in LPs : Replays(l, Pruned(ctx[l], gvt))
    BY <1>1, ReplaysPruned
  <1>3. \A l \in LPs : ctx'[l] = Pruned(ctx[l], gvt) \/ ctx'[l] = ctx[l]
    BY DEF Prune
  <1>4. \A l \in LPs : Replays(l, ctx'[l])
    BY <1>1, <1>2, <1>3
  <1> QED
    BY <1>4 DEF RecordsReplay, Replays, After, Outs

\* Every dispatch leaves records that replay, from where they did.
LEMMA ReplayDispatch ==
    ASSUME TypeOK, ProcessedInOrder, RecordsReplay, WritesDeclared, NEW r \in Ranks,
           DispatchStraggler(r) \/ DispatchAnti(r) \/ DispatchEvent(r)
    PROVE  RecordsReplay' /\ BaseKept
  <1>1. \A l \in LPs : Replays(l, ctx[l]) /\ InOrder(ctx[l]) /\ ctx[l] \in LPContext
    BY ReplaysAll, InOrderAll DEF TypeOK
  <1>2. \A ev \in pending[r] : /\ ev.dst \in LPs /\ ev.ts \in Stamp
                               /\ ~ ev.anti => ev.kind \in Kinds
    BY EventFields DEF TypeOK
  <1>3. CASE DispatchStraggler(r)
    <2>1. PICK ev \in pending[r], rest \in SUBSET pending[r] :
             StragglerOutcome(r, ev, rest)
      BY <1>3, StragglerStep
    <2> DEFINE c == ctx[ev.dst]
               d == RolledBack(c, ev.ts)
    <2>2. ctx' = [ctx EXCEPT ![ev.dst] = d]
      BY <2>1 DEF StragglerOutcome
    <2>3. Replays(ev.dst, d) /\ RestoredState(d, 0) = RestoredState(c, 0)
      BY <1>1, <1>2, ReplaysBack
    <2> HIDE DEF d
    <2> QED
      BY <1>2, <2>2, <2>3, OneReplays
  <1>4. CASE DispatchAnti(r)
    <2>1. PICK ev \in pending[r], rest \in SUBSET pending[r],
               rec \in ProcessedRecord : AntiOutcome(r, ev, rest, rec)
      BY <1>4, AntiStep, SMTT(30)
    <2> DEFINE l == ev.dst
               c == ctx[l]
    <2>2. /\ rec.ev = ev /\ ev.anti /\ DOMAIN rec.pre = {}
          /\ \/ ctx' = [ctx EXCEPT ![l] = Recorded(c, rec)]
             \/ \E i \in 1..Len(c.processed) :
                  ctx' = [ctx EXCEPT ![l] =
                            Recorded(RolledBack(c, c.processed[i].ev.ts), rec)]
      BY <2>1 DEF AntiOutcome
    <2>3. l \in LPs /\ c \in LPContext /\ InOrder(c) /\ Replays(l, c)
      BY <1>1, <1>2
    <2> HIDE DEF c, l
    <2>4. CASE ctx' = [ctx EXCEPT ![l] = Recorded(c, rec)]
      <3> DEFINE d == Recorded(c, rec)
      <3>1. Replays(l, d) /\ RestoredState(d, 0) = RestoredState(c, 0)
        BY <2>2, <2>3, ReplaysAnti
      <3> HIDE DEF d
      <3> QED
        BY <2>3, <2>4, <3>1, OneReplays DEF d, c
    <2>5. ASSUME NEW i \in 1..Len(c.processed),
                 ctx' = [ctx EXCEPT
                   ![l] = Recorded(RolledBack(c, c.processed[i].ev.ts), rec)]
          PROVE  RecordsReplay' /\ BaseKept
      <3> DEFINE to == c.processed[i].ev.ts
                 b == RolledBack(c, to)
                 d == Recorded(b, rec)
      <3>1. to \in Stamp
        BY <2>3, RecordStamp
      <3>2. /\ Replays(l, b) /\ b \in LPContext
            /\ RestoredState(b, 0) = RestoredState(c, 0)
        BY <2>3, <3>1, ReplaysBack
      <3>3. ctx' = [ctx EXCEPT ![l] = d]
        BY <2>5
      <3> HIDE DEF b
      <3>4. Replays(l, d) /\ RestoredState(d, 0) = RestoredState(b, 0)
        BY <2>2, <2>3, <3>2, ReplaysAnti
      <3> HIDE DEF d
      <3> QED
        BY <2>3, <3>2, <3>3, <3>4, OneReplays DEF c
    <2> QED
      BY <2>2, <2>4, <2>5
  <1>5. CASE DispatchEvent(r)
    <2>1. PICK ev \in pending[r], rest \in SUBSET pending[r],
               rec \in ProcessedRecord, sends \in Seq(Send), state \in LPState :
               EventOutcome(r, ev, rest, rec, sends, state)
      BY <1>5, EventStep
    <2> DEFINE l == ev.dst
               c == ctx[l]
               evs == Emitted(l, c, ev.ts, sends)
               after == AfterSending(c, ev.ts, sends, evs)
               d == [Recorded(after, rec) EXCEPT !.state = state]
    <2>2. /\ rec.ev = ev /\ ~ ev.anti /\ HandlerDid(l, c, rec, sends, state)
          /\ StampsFit(evs) /\ ctx' = [ctx EXCEPT ![l] = d]
      BY <2>1 DEF EventOutcome
    <2>3. /\ l \in LPs /\ c \in LPContext /\ Replays(l, c) /\ ev.ts \in Stamp
          /\ ev.kind \in Kinds
      BY <1>1, <1>2, <2>2
    <2>4. after \in LPContext
      <3>1. evs \in Seq(PlainEvent)
        BY <2>2, <2>3, EmittedType
      <3>2. Len(evs) = Len(sends)
        BY EmittedLen
      <3> HIDE DEF evs, c
      <3> QED
        BY <2>3, <3>1, <3>2, AfterSendingType
    <2>5. after.processed = c.processed
      BY <2>3, AfterSendingLogs
    <2> HIDE DEF after, c, l
    <2>6. Recorded(after, rec) \in LPContext
      BY <2>4, RecordedType
    <2>7. /\ d \in LPContext /\ d.state = state
          /\ d.processed = Append(c.processed, rec)
      <3>1. Recorded(after, rec).processed = Append(c.processed, rec)
        BY <2>4, <2>5 DEF Recorded, LPContext
      <3> DEFINE b == Recorded(after, rec)
      <3>2. d = [b EXCEPT !.state = state] /\ b \in LPContext
        BY <2>6
      <3> HIDE DEF b, d
      <3> QED
        BY <3>1, <3>2 DEF LPContext, b
    <2> HIDE DEF d
    <2>8. Saves(c, rec, d)
      BY <2>2, <2>3, <2>7, SnapshotSaves
    <2>9. d.state = After(l, c.state, rec.ev) /\ Outs(l, c.state, rec)
      BY <2>2, <2>7 DEF HandlerDid, After, Outs
    <2>10. Replays(l, d)
      BY <2>3, <2>7, <2>8, <2>9, ReplaysRecorded
    <2>11. RestoredState(d, 0) = RestoredState(c, 0)
      <3>1. 0 \in 0..Len(c.processed)
        BY <2>3 DEF LPContext
      <3> QED
        BY <2>3, <2>7, <2>8, <3>1, RestoredMore
    <2> QED
      BY <2>2, <2>3, <2>10, <2>11, OneReplays DEF c
  <1> QED
    BY <1>3, <1>4, <1>5

\* on_start sends and leaves records and states alone.
LEMMA ReplayStart ==
    ASSUME TypeOK, RecordsReplay, NEW r \in Ranks, Start(r)
    PROVE  RecordsReplay' /\ BaseKept
  <1>1. ASSUME NEW l \in LPs
        PROVE  /\ Replays(l, ctx'[l])
               /\ RestoredState(ctx'[l], 0) = RestoredState(ctx[l], 0)
    <2> DEFINE d == AfterSending(ctx[l], ZeroStamp, OnStart(l), StartEvents(l))
    <2>1. ctx'[l] = ctx[l] \/ ctx'[l] = d
      BY DEF Start
    <2>2. ctx[l] \in LPContext /\ Replays(l, ctx[l])
      BY ReplaysAll DEF TypeOK
    <2>3. d.processed = ctx[l].processed /\ d.state = ctx[l].state
      BY <2>2 DEF AfterSending, LPContext
    <2> HIDE DEF d
    <2> QED
      BY <2>1, <2>2, <2>3, ReplaysSame
  <1> QED
    BY <1>1 DEF RecordsReplay, Replays, After, Outs, BaseKept

\* Every step of the kernel leaves records that replay, and all but those that
\* release records leave what they replay from.
LEMMA ReplayStep ==
    ASSUME TypeOK, ProcessedInOrder, RecordsReplay, WritesDeclared, [Next]_vars
    PROVE  /\ RecordsReplay'
           /\ \/ BaseKept /\ UNCHANGED trace
              \/ \E R \in SUBSET Ranks : \E gvt \in Stamp : Prune(R, gvt)
  <1>1. ctx' = ctx => RecordsReplay' /\ BaseKept
    <2> HAVE ctx' = ctx
    <2>1. \A l \in LPs : Replays(l, ctx'[l])
      BY ReplaysAll
    <2>2. RecordsReplay'
      BY <2>1 DEF RecordsReplay, Replays, After, Outs
    <2> QED
      BY <2>2 DEF BaseKept
  <1>2. ASSUME NEW r \in Ranks,
               \/ Start(r) \/ PollEvent(r) \/ PollAck(r) \/ DispatchNothing(r)
               \/ DispatchStraggler(r) \/ DispatchAnti(r) \/ DispatchEvent(r)
        PROVE  RecordsReplay' /\ BaseKept /\ UNCHANGED trace
    <2>1. UNCHANGED trace
      BY <1>2 DEF Start, PollEvent, PollAck, DispatchNothing, DispatchStraggler,
                  DispatchAnti, DispatchEvent
    <2>2. CASE PollEvent(r) \/ PollAck(r) \/ DispatchNothing(r)
      BY <1>1, <2>1, <2>2 DEF PollEvent, PollAck, DispatchNothing
    <2> QED
      BY <1>2, <2>1, <2>2, ReplayStart, ReplayDispatch
  <1>3. ASSUME NEW r \in Ranks, FossilCollect(r)
        PROVE  Prune({r}, lastGvt) /\ lastGvt \in Stamp /\ {r} \in SUBSET Ranks
    BY <1>3 DEF FossilCollect, TypeOK
  <1>4. ASSUME NEW gvt \in Stamp, Adopt(gvt)
        PROVE  (ctx' = ctx /\ UNCHANGED trace) \/ Prune(Ranks, gvt)
    BY <1>4 DEF Adopt
  <1>5. CASE AckGvt \/ ColouredGvt
    <2>1. PICK gvt \in Stamp : Adopt(gvt)
      BY <1>5, GvtType DEF AckGvt, ColouredGvt
    <2> QED
      BY <1>1, <1>4, <2>1, ReplayPrune
  <1>6. CASE Finalize
    <2>1. Prune(Ranks, MaxStamp) /\ MaxStamp \in Stamp
      BY <1>6, StampConstants DEF Finalize
    <2> QED
      BY <2>1, ReplayPrune
  <1>7. CASE ColouredFlip \/ ColouredWait \/ KeepRunning \/ UNCHANGED vars
    BY <1>1, <1>7 DEF ColouredFlip, ColouredWait, KeepRunning, vars
  <1>8. ASSUME NEW r \in Ranks, FossilCollect(r)
        PROVE  RecordsReplay' /\ \E R \in SUBSET Ranks : \E gvt \in Stamp : Prune(R, gvt)
    BY <1>3, <1>8, ReplayPrune
  <1> QED
    BY <1>2, <1>5, <1>6, <1>7, <1>8 DEF Next, RankStep, Collective, Terminated

\* If handlers write only what they have asked to write, rollbacks are
\* invisible: at any time, an LP can be rolled back to any of its records, and
\* is then in the state in which the next event was executed; the snapshots of
\* different entities in different records, of undone events and of the
\* anti-messages between them make no difference.
THEOREM RollbackRestores ==
    ASSUME WritesDeclared
    PROVE  Spec => []RecordsReplay
  <1>1. Init => RecordsReplay
    BY DEF Init, RecordsReplay, NewContext
  <1>2. TypeOK /\ ProcessedInOrder /\ RecordsReplay /\ [Next]_vars => RecordsReplay'
    BY ReplayStep
  <1> QED
    BY <1>1, <1>2, TypeCorrect, RecordsInOrder, PTL DEF Spec

=============================================================================

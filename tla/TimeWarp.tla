------------------------------ MODULE TimeWarp ------------------------------
(***************************************************************************)
(* The optimistic kernel of warpsim (simulation.hpp): a set of ranks, each *)
(* running Simulation::run over the logical processes (LPs) it hosts.      *)
(*                                                                         *)
(* A rank drains its transport, dispatches the least pending event, prunes *)
(* its history to the last known global virtual time (GVT), and every      *)
(* Period iterations takes part in two collectives: the GVT reduction and  *)
(* the global "does any rank have work" test.  Events reach an LP in any   *)
(* order; one below the LP's virtual time makes the LP roll back: it       *)
(* restores snapshots, re-enqueues what it undid and sends anti-messages   *)
(* for what it had sent.                                                   *)
(*                                                                         *)
(* The model program (what an LP does with an event) is a parameter.       *)
(***************************************************************************)
EXTENDS Model, SequencesExt

CONSTANTS
    Ranks,          \* the ranks, one Simulation object each
    lpToRank,       \* SimulationConfig::lpToRank, a function LPs -> Ranks
    EntityLPs,      \* LPs whose supports_entity_snapshots() is true
    GvtMode,        \* "AckInflight" or "ColoredCounters"
    Period          \* collectivePeriodIters

ASSUME KernelAssumption ==
    /\ IsFiniteSet(Ranks) /\ Ranks # {}
    /\ lpToRank \in [LPs -> Ranks]
    /\ EntityLPs \subseteq LPs
    /\ GvtMode \in {"AckInflight", "ColoredCounters"}
    /\ Period \in Nat \ {0}

-----------------------------------------------------------------------------
VARIABLES
    pc,         \* pc[r]: where rank r is in run()
    iters,      \* iters[r]: the loop counter of run(), modulo Period
    pending,    \* pending[r]: m_pending, a priority queue
    cancelled,  \* cancelled[r]: m_cancelledByUid, the tombstones
    inflight,   \* inflight[r]: m_inflightByUid and m_inflightTs
    ctx,        \* ctx[l]: LPContext of l, with the state of the LP itself
    net,        \* event messages in the transport
    acks,       \* Ack messages in the transport
    lastGvt,    \* m_lastGvt, which a collective sets alike on every rank
    colour,     \* the m_gvt... members of colored-counters GVT
    trace,      \* trace[r]: what committedEventSink was called with
    sink        \* sink[r]: what committedSink was called with

vars == <<pc, iters, pending, cancelled, inflight, ctx, net, acks, lastGvt,
          colour, trace, sink>>

LpsOn(r) == {l \in LPs : lpToRank[l] = r}

-----------------------------------------------------------------------------
(***************************************************************************)
(* The two sorts of prune_to_gvt_, and the identity (src, uid) by which an *)
(* anti-message names the event it cancels.                                *)
(***************************************************************************)
TraceKey(e) == <<e.ts.time, e.ts.sequence, e.dst, e.src, e.uid,
                 IF e.anti THEN 1 ELSE 0>>
TraceBefore(e, f) == LexLt(TraceKey(e), TraceKey(f))

SinkKey(o) == <<o.ts.time, o.ts.sequence, o.lp, o.src, o.uid, o.index>>
\* Mutant: the comparison the wrong way round, as a heap would want it.
SinkBeforeInverted(o, p) == LexLt(SinkKey(p), SinkKey(o))
SinkBefore(o, p) == LexLt(SinkKey(o), SinkKey(p))

SameUid(a, b) == a.src = b.src /\ a.uid = b.uid

IsTombstoned(tombs, e) == \E t \in tombs : SameUid(t, e)

-----------------------------------------------------------------------------
(***************************************************************************)
(* send(): routing and accounting.                                         *)
(***************************************************************************)
SendColour == IF colour.red THEN 1 - colour.white ELSE colour.white

InflightOf(e) == [src |-> e.src, uid |-> e.uid, anti |-> e.anti, ts |-> e.ts]

\* Mutant: red messages are counted, but their least stamp is not kept.
CountedWithoutMin(r, remote) ==
    [colour EXCEPT !.sent[r][SendColour] = @ + Cardinality(remote)]

\* The colored-counters bookkeeping for the messages a rank sends.
Counted(r, remote) ==
    [colour EXCEPT
        !.sent[r][SendColour] = @ + Cardinality(remote),
        !.minRed[r] = IF colour.red THEN MinStamp({@} \cup {e.ts : e \in remote})
                                    ELSE @]

\* Rank r, left with the events queue to process, sends the events out: local
\* ones are enqueued, the others handed to the transport and accounted for.
Route(r, queue, out) ==
    LET remote == {e \in out : lpToRank[e.dst] # r}
    IN  /\ pending' = [pending EXCEPT ![r] = queue \cup (out \ remote)]
        /\ net' = net \cup {[from |-> r, ev |-> e, colour |-> SendColour] :
                                e \in remote}
        /\ IF GvtMode = "AckInflight"
           THEN /\ inflight' = [inflight EXCEPT
                                  ![r] = @ \cup {InflightOf(e) : e \in remote}]
                /\ UNCHANGED colour
           ELSE /\ colour' = Counted(r, remote)
                /\ UNCHANGED inflight

-----------------------------------------------------------------------------
(***************************************************************************)
(* rollback_(): everything an LP did at or after stamp "to" is undone.     *)
(***************************************************************************)
\* Mutant: the loop stops one record too early.
KeptOneMore(c, to) ==
    LET kept == Min({n \in 0..Len(c.processed) :
                        \A i \in (n+1)..Len(c.processed) :
                            Le(to, c.processed[i].ev.ts)})
    IN  IF kept < Len(c.processed) THEN kept + 1 ELSE kept

\* Records are popped off the back while they are not before "to".
KeptProcessed(c, to) ==
    Min({n \in 0..Len(c.processed) :
            \A i \in (n+1)..Len(c.processed) : Le(to, c.processed[i].ev.ts)})

\* Mutant: messages are cancelled by their own stamp, not by when they were sent.
KeptSentByMessageTime(c, to) ==
    Min({n \in 0..Len(c.sentLog) :
            \A i \in (n+1)..Len(c.sentLog) : Le(to, c.sentLog[i].msgTime)})

KeptSent(c, to) ==
    Min({n \in 0..Len(c.sentLog) :
            \A i \in (n+1)..Len(c.sentLog) : Le(to, c.sentLog[i].sendTime)})

Undone(c, to) ==
    {c.processed[i] : i \in (KeptProcessed(c, to) + 1)..Len(c.processed)}

\* Mutant: the newest undone snapshot instead of the oldest.
RestoredFromNewest(c, kept) ==
    [e \in Entities |->
        LET snaps == {i \in (kept+1)..Len(c.processed) :
                         e \in DOMAIN c.processed[i].pre}
        IN  IF snaps = {} THEN c.state[e] ELSE c.processed[Max(snaps)].pre[e]]

\* Mutant: a snapshot of some entities is loaded as if it were the whole LP's.
RestoredAsWhole(c, kept) ==
    IF kept < Len(c.processed) THEN c.processed[kept + 1].pre ELSE c.state

\* Each entity gets back the value of the oldest undone snapshot that has it.
RestoredState(c, kept) ==
    [e \in Entities |->
        LET snaps == {i \in (kept+1)..Len(c.processed) :
                         e \in DOMAIN c.processed[i].pre}
        IN  IF snaps = {} THEN c.state[e] ELSE c.processed[Min(snaps)].pre[e]]

\* Mutant: the uid counter is restored like the sequence counters.
RolledBackReusingUids(c, to) ==
    [c EXCEPT !.processed = SubSeq(@, 1, KeptProcessed(c, to)),
              !.state = RestoredState(c, KeptProcessed(c, to)),
              !.vt = prev_stamp(to),
              !.nextUid = @ - (Len(c.sentLog) - KeptSent(c, to)),
              !.sentLog = SubSeq(@, 1, KeptSent(c, to))]

RolledBack(c, to) ==
    LET kept == KeptProcessed(c, to)
        any  == kept < Len(c.processed)
    IN  [c EXCEPT
            !.processed = SubSeq(@, 1, kept),
            !.nextSeqNormal =
                IF any THEN c.processed[kept + 1].preNextSeqNormal ELSE @,
            !.nextSeqControl =
                IF any THEN c.processed[kept + 1].preNextSeqControl ELSE @,
            !.state = RestoredState(c, kept),
            !.vt = prev_stamp(to),
            !.sentLog = SubSeq(@, 1, KeptSent(c, to))]

\* Anti-messages for the log entries that go, with the stamp of the message.
Antis(l, c, to) ==
    {[ts |-> c.sentLog[i].msgTime, src |-> l, dst |-> c.sentLog[i].dst,
      uid |-> c.sentLog[i].uid, kind |-> NoKind, anti |-> TRUE] :
        i \in (KeptSent(c, to) + 1)..Len(c.sentLog)}

\* Undoing an anti-message puts back the tombstone entry it found.
TombstonesBefore(tombs, undone) ==
    LET antis == {u \in undone : u.ev.anti}
    IN  {t \in tombs : \A u \in antis : ~ SameUid(u.ev, t)}
            \cup UNION {u.cancelPrev : u \in antis}

-----------------------------------------------------------------------------
(***************************************************************************)
(* prune_to_gvt_(): history before the GVT is committed and released.      *)
(***************************************************************************)
\* Records are popped off the front while they are before gvt.
PrunedProcessed(c, gvt) ==
    Max({n \in 0..Len(c.processed) :
            \A i \in 1..n : Lt(c.processed[i].ev.ts, gvt)})

PrunedSent(c, gvt) ==
    Max({n \in 0..Len(c.sentLog) :
            \A i \in 1..n : Lt(c.sentLog[i].sendTime, gvt)})

Pruned(c, gvt) ==
    [c EXCEPT
        !.processed = SubSeq(@, PrunedProcessed(c, gvt) + 1, Len(@)),
        !.sentLog = SubSeq(@, PrunedSent(c, gvt) + 1, Len(@))]

CommittedRecords(r, gvt) ==
    UNION {{ctx[l].processed[i] : i \in 1..PrunedProcessed(ctx[l], gvt)} :
              l \in LpsOn(r)}

CommittedEvents(r, gvt) ==
    SortedBy({rec.ev : rec \in CommittedRecords(r, gvt)}, TraceBefore)

CommittedOutputs(r, gvt) ==
    SortedBy(
        UNION {{[ts |-> rec.ev.ts, lp |-> rec.ev.dst, src |-> rec.ev.src,
                 uid |-> rec.ev.uid, index |-> i, value |-> rec.outs[i]] :
                    i \in DOMAIN rec.outs} : rec \in CommittedRecords(r, gvt)},
        SinkBefore)

\* prune_to_gvt_(gvt) on each of the ranks R.
Prune(R, gvt) ==
    /\ ctx' = [l \in LPs |-> IF lpToRank[l] \in R THEN Pruned(ctx[l], gvt)
                                                  ELSE ctx[l]]
    /\ cancelled' = [r \in Ranks |->
                        {t \in cancelled[r] : r \in R => ~ Lt(t.ts, gvt)}]
    /\ trace' = [r \in Ranks |-> IF r \in R
                                 THEN trace[r] \o CommittedEvents(r, gvt)
                                 ELSE trace[r]]
    /\ sink' = [r \in Ranks |-> IF r \in R
                                THEN sink[r] \o CommittedOutputs(r, gvt)
                                ELSE sink[r]]

-----------------------------------------------------------------------------
(***************************************************************************)
(* The initial state: LPs added, initial events scheduled, run() not yet   *)
(* called.                                                                 *)
(***************************************************************************)
Init ==
    /\ pc = [r \in Ranks |-> "start"]
    /\ iters = [r \in Ranks |-> 0]
    /\ pending = [r \in Ranks |-> {e \in Scheduled : lpToRank[e.dst] = r}]
    /\ cancelled = [r \in Ranks |-> {}]
    /\ inflight = [r \in Ranks |-> {}]
    /\ ctx = [l \in LPs |-> NewContext(l)]
    /\ net = {}
    /\ acks = {}
    /\ lastGvt = ZeroStamp
    /\ colour = [red |-> FALSE, white |-> 0,
                 sent |-> [r \in Ranks |-> [c \in 0..1 |-> 0]],
                 recv |-> [r \in Ranks |-> [c \in 0..1 |-> 0]],
                 atFlip |-> [r \in Ranks |-> 0],
                 minRed |-> [r \in Ranks |-> MaxStamp]]
    /\ trace = [r \in Ranks |-> <<>>]
    /\ sink = [r \in Ranks |-> <<>>]

Goto(r, label) == pc' = [pc EXCEPT ![r] = label]

-----------------------------------------------------------------------------
\* start_if_needed_(): every LP of the rank seeds its work.
StartEvents(l) == Emitted(l, ctx[l], ZeroStamp, OnStart(l))

Start(r) ==
    /\ pc[r] = "start"
    /\ \A l \in LpsOn(r) : StampsFit(StartEvents(l))
    /\ ctx' = [l \in LPs |->
                  IF l \in LpsOn(r)
                  THEN AfterSending(ctx[l], ZeroStamp, OnStart(l), StartEvents(l))
                  ELSE ctx[l]]
    /\ Route(r, pending[r],
             UNION {{StartEvents(l)[i] : i \in 1..Len(OnStart(l))} :
                       l \in LpsOn(r)})
    /\ Goto(r, "poll")
    /\ UNCHANGED <<iters, cancelled, acks, lastGvt, trace, sink>>

-----------------------------------------------------------------------------
(***************************************************************************)
(* poll_transport(): rank r takes one message that has reached it.  The    *)
(* transport may hold back any message until a later poll, and promises no *)
(* order between messages.                                                 *)
(***************************************************************************)
AckOf(m) == [to |-> m.from, src |-> m.ev.src, uid |-> m.ev.uid,
             anti |-> m.ev.anti]

\* Mutant: the Ack of an event also clears the entry of its anti-message.
SameInflightIgnoringAnti(k, e) == SameUid(k, e)

\* Mutant: the anti flag of an Ack is decoded the wrong way round.
SameInflightFlagInverted(k, e) == SameUid(k, e) /\ k.anti # e.anti

SameInflight(k, e) == SameUid(k, e) /\ k.anti = e.anti

PollEvent(r) ==
    \E m \in net :
        /\ pc[r] = "poll"
        /\ lpToRank[m.ev.dst] = r
        /\ net' = net \ {m}
        /\ pending' = [pending EXCEPT ![r] = @ \cup {m.ev}]
        /\ IF GvtMode = "AckInflight"
           THEN /\ acks' = acks \cup {AckOf(m)}
                /\ inflight' = [inflight EXCEPT
                                  ![r] = {k \in @ : ~ SameInflight(k, m.ev)}]
                /\ UNCHANGED colour
           ELSE /\ colour' = [colour EXCEPT !.recv[r][m.colour] = @ + 1]
                /\ UNCHANGED <<acks, inflight>>
        /\ UNCHANGED <<pc, iters, cancelled, ctx, lastGvt, trace, sink>>

PollAck(r) ==
    \E a \in acks :
        /\ pc[r] = "poll"
        /\ a.to = r
        /\ acks' = acks \ {a}
        /\ inflight' = [inflight EXCEPT
                          ![r] = {k \in @ : ~ SameInflight(k, a)}]
        /\ UNCHANGED <<pc, iters, pending, cancelled, ctx, net, lastGvt,
                       colour, trace, sink>>

-----------------------------------------------------------------------------
(***************************************************************************)
(* pop_next_() and dispatch_(): the rank takes its least pending event.    *)
(***************************************************************************)
\* pop_next_ skips events whose anti-message has been processed.
Skipped(r, e) == ~ e.anti /\ IsTombstoned(cancelled[r], e)

\* What pop_next_ can return, with what it leaves in the queue.  An event and
\* its anti-message have the same key: the heap may give either of them first.
PopNext(r) ==
    UNION {{[ev |-> e,
             rest |-> {f \in pending[r] \ (ties \cup {e}) : ~ PendingBefore(f, e)}] :
                ties \in SUBSET {f \in pending[r] : /\ PendingKey(f) = PendingKey(e)
                                                   /\ Skipped(r, f)}} :
           e \in {f \in pending[r] :
                    /\ ~ Skipped(r, f)
                    /\ \A g \in pending[r] : PendingBefore(g, f) => Skipped(r, g)}}

\* Nothing to dispatch: the queue is empty or holds only cancelled events.
DispatchNothing(r) ==
    /\ pc[r] = "poll"
    /\ \A e \in pending[r] : Skipped(r, e)
    /\ pending' = [pending EXCEPT ![r] = {}]
    /\ Goto(r, "fossil")
    /\ UNCHANGED <<iters, cancelled, inflight, ctx, net, acks, lastGvt, colour,
                   trace, sink>>

\* An event or anti-message below the LP's virtual time: roll back, and put
\* it back into the queue together with what was undone.
DispatchStraggler(r) ==
    \E p \in PopNext(r) :
        LET ev == p.ev
            l == ev.dst
            undone == Undone(ctx[l], ev.ts)
        IN  /\ pc[r] = "poll"
            /\ Lt(ev.ts, ctx[l].vt)
            /\ ctx' = [ctx EXCEPT ![l] = RolledBack(@, ev.ts)]
            /\ cancelled' = [cancelled EXCEPT ![r] = TombstonesBefore(@, undone)]
            /\ Route(r, p.rest \cup {u.ev : u \in undone} \cup {ev},
                     Antis(l, ctx[l], ev.ts))
            /\ Goto(r, "fossil")
            /\ UNCHANGED <<iters, acks, lastGvt, trace, sink>>

\* cancel_(): the tombstone entry there was, and the table with the new one.
TombstoneOf(tombs, anti) == {t \in tombs : SameUid(t, anti)}

WithTombstone(tombs, anti) ==
    LET prev == TombstoneOf(tombs, anti)
    IN  (tombs \ prev)
            \cup {[src |-> anti.src, uid |-> anti.uid,
                   ts |-> MinStamp({anti.ts} \cup {t.ts : t \in prev})]}

\* cancel_(): the records of the event the anti-message cancels.
CancelledRecords(c, anti) ==
    {i \in 1..Len(c.processed) : /\ ~ c.processed[i].ev.anti
                                 /\ SameUid(c.processed[i].ev, anti)}

\* An anti-message in order: cancel_() leaves a tombstone and, if the event it
\* cancels has been processed, rolls back to before that event.
DispatchAnti(r) ==
    \E p \in PopNext(r) :
        LET ev == p.ev
            l == ev.dst
            c == ctx[l]
            tombs == WithTombstone(cancelled[r], ev)
            hits == CancelledRecords(c, ev)
            to == c.processed[Max(hits)].ev.ts
            rec == [ev |-> ev, preNextSeqNormal |-> c.nextSeqNormal,
                    preNextSeqControl |-> c.nextSeqControl, pre |-> <<>>,
                    outs |-> <<>>, cancelPrev |-> TombstoneOf(cancelled[r], ev)]
            Record(d) == [d EXCEPT !.vt = ev.ts,
                                   !.processed = Append(@, rec)]
        IN  /\ pc[r] = "poll"
            /\ ev.anti
            /\ ~ Lt(ev.ts, c.vt)
            /\ \/ /\ hits = {}
                  /\ ctx' = [ctx EXCEPT ![l] = Record(c)]
                  /\ cancelled' = [cancelled EXCEPT ![r] = tombs]
                  /\ Route(r, p.rest, {})
               \/ /\ hits # {}
                  /\ ctx' = [ctx EXCEPT ![l] = Record(RolledBack(c, to))]
                  /\ cancelled' = [cancelled EXCEPT
                                     ![r] = TombstonesBefore(tombs, Undone(c, to))]
                  /\ Route(r, p.rest \cup {u.ev : u \in Undone(c, to)},
                           Antis(l, c, to))
            /\ Goto(r, "fossil")
            /\ UNCHANGED <<iters, acks, lastGvt, trace, sink>>

\* Mutant: a handler's second request_write replaces the snapshot of its first.
SnapshotOfOne(l, state, writes) ==
    LET last == IF writes = {} THEN {} ELSE {CHOOSE e \in writes : TRUE}
    IN  IF l \in EntityLPs THEN [e \in last |-> state[e]]
        ELSE IF writes = {} THEN <<>> ELSE state

\* What request_write saves: the entities asked for, or the whole LP.
Snapshot(l, state, writes) ==
    IF l \in EntityLPs THEN [e \in writes |-> state[e]]
    ELSE IF writes = {} THEN <<>> ELSE state

\* An event in order is executed and recorded.
DispatchEvent(r) ==
    \E p \in PopNext(r) :
        LET ev == p.ev
            l == ev.dst
            c == ctx[l]
            does == OnEvent(l, c.state, ev.kind)
            evs == Emitted(l, c, ev.ts, does.sends)
            rec == [ev |-> ev, preNextSeqNormal |-> c.nextSeqNormal,
                    preNextSeqControl |-> c.nextSeqControl,
                    pre |-> Snapshot(l, c.state, does.writes),
                    outs |-> does.outs, cancelPrev |-> {}]
        IN  /\ pc[r] = "poll"
            /\ ~ ev.anti
            /\ ~ Lt(ev.ts, c.vt)
            /\ StampsFit(evs)
            /\ ctx' = [ctx EXCEPT
                         ![l] = [AfterSending(c, ev.ts, does.sends, evs) EXCEPT
                                    !.vt = ev.ts,
                                    !.state = does.state,
                                    !.processed = Append(@, rec)]]
            /\ Route(r, p.rest, {evs[i] : i \in 1..Len(evs)})
            /\ Goto(r, "fossil")
            /\ UNCHANGED <<iters, cancelled, acks, lastGvt, trace, sink>>

-----------------------------------------------------------------------------
(***************************************************************************)
(* fossil_collect_().  Its local part prunes to the GVT the rank knows; on *)
(* every Period-th iteration the rank then joins the GVT collective.  A    *)
(* rank inside a collective neither polls nor sends until all ranks have   *)
(* joined, so the contributions, the reduction and what each rank does     *)
(* with the result are one step.                                           *)
(***************************************************************************)
FossilCollect(r) ==
    LET i == (iters[r] + 1) % Period
    IN  /\ pc[r] = "fossil"
        /\ iters' = [iters EXCEPT ![r] = i]
        /\ Prune({r}, lastGvt)
        /\ Goto(r, IF i = 0 THEN "gvt" ELSE "poll")
        /\ UNCHANGED <<pending, inflight, net, acks, lastGvt, colour>>

\* peek_next_pending_ts_(): what survives, the first live event and all after
\* it.  Here, unlike in pop_next_, a tombstone hides anti-messages as well.
Peeked(r) ==
    {e \in pending[r] : \E f \in pending[r] : /\ ~ IsTombstoned(cancelled[r], f)
                                              /\ ~ PendingBefore(e, f)}

\* Mutant: messages on their way are left out.
ComputeGvtWithoutInflight(r) ==
    MinStamp({ctx[l].vt : l \in LpsOn(r)}
                \cup {e.ts : e \in {f \in pending[r] :
                                       ~ IsTombstoned(cancelled[r], f)}})

\* compute_gvt_(): the rank's local lower bound.
compute_gvt_(r) ==
    MinStamp({ctx[l].vt : l \in LpsOn(r)}
                \cup {e.ts : e \in {f \in pending[r] :
                                       ~ IsTombstoned(cancelled[r], f)}}
                \cup {k.ts : k \in inflight[r]})

AllAt(label) == \A r \in Ranks : pc[r] = label
AllGoto(label) == pc' = [r \in Ranks |-> label]

PeekAll == pending' = [r \in Ranks |-> Peeked(r)]

\* Mutant: a reduction below the known GVT is adopted as well.
AdoptAlways(gvt) == lastGvt' = gvt /\ Prune(Ranks, gvt)

\* The reduction gave gvt: adopt it unless it is behind what is known already.
Adopt(gvt) ==
    IF Lt(gvt, lastGvt)
    THEN UNCHANGED <<lastGvt, ctx, cancelled, trace, sink>>
    ELSE lastGvt' = gvt /\ Prune(Ranks, gvt)

AckGvt ==
    /\ AllAt("gvt") /\ GvtMode = "AckInflight"
    /\ PeekAll
    /\ Adopt(MinStamp({compute_gvt_(r) : r \in Ranks}))
    /\ AllGoto("work")
    /\ UNCHANGED <<iters, inflight, net, acks, colour>>

\* advance_gvt_colored_(), white phase: from here on messages are red.
ColouredFlip ==
    /\ AllAt("gvt") /\ GvtMode = "ColoredCounters"
    /\ ~ colour.red
    /\ colour' = [colour EXCEPT
                    !.red = TRUE,
                    !.atFlip = [r \in Ranks |-> colour.sent[r][colour.white]],
                    !.minRed = [r \in Ranks |-> MaxStamp]]
    /\ AllGoto("work")
    /\ UNCHANGED <<iters, pending, cancelled, inflight, ctx, net, acks, lastGvt,
                   trace, sink>>

\* Mutant: the round does not wait for white messages.
WhiteDeltaUnchecked == 0

\* The sum-reduction of white messages sent before the flip and not received.
WhiteDelta ==
    SumFunction([r \in Ranks |->
                    colour.atFlip[r] - colour.recv[r][colour.white]])

\* Red phase with white messages still on their way.
ColouredWait ==
    /\ AllAt("gvt") /\ GvtMode = "ColoredCounters"
    /\ colour.red /\ WhiteDelta # 0
    /\ AllGoto("work")
    /\ UNCHANGED <<iters, pending, cancelled, inflight, ctx, net, acks, lastGvt,
                   colour, trace, sink>>

\* Red phase, every white message received: compute, and start a new round
\* unless the result is behind the known GVT.
ColouredGvt ==
    LET gvt == MinStamp({compute_gvt_(r) : r \in Ranks}
                            \cup {colour.minRed[r] : r \in Ranks})
    IN  /\ AllAt("gvt") /\ GvtMode = "ColoredCounters"
        /\ colour.red /\ WhiteDelta = 0
        /\ PeekAll
        /\ Adopt(gvt)
        /\ colour' = IF Lt(gvt, lastGvt) THEN colour
                     ELSE [colour EXCEPT
                             !.red = FALSE,
                             !.white = 1 - @,
                             !.atFlip = [r \in Ranks |-> 0],
                             !.minRed = [r \in Ranks |-> MaxStamp]]
        /\ AllGoto("work")
        /\ UNCHANGED <<iters, inflight, net, acks>>

-----------------------------------------------------------------------------
(***************************************************************************)
(* The termination test of run(), the second collective, and               *)
(* finalize_at_end().                                                      *)
(***************************************************************************)
\* Mutant: messages received are not subtracted.
InFlightCountSentOnly ==
    SumFunction([r \in Ranks |-> colour.sent[r][0] + colour.sent[r][1]])

InFlightCount ==
    SumFunction([r \in Ranks |-> colour.sent[r][0] + colour.sent[r][1]
                                - colour.recv[r][0] - colour.recv[r][1]])

\* Mutant: a rank with an empty queue has no work.
LocalHasWorkPendingOnly(r) == pending[r] # {}

\* localHasWork, apart from the probe of the transport.
LocalHasWork(r) ==
    \/ pending[r] # {}
    \/ GvtMode = "AckInflight" /\ inflight[r] # {}
    \/ GvtMode = "ColoredCounters" /\ (InFlightCount # 0 \/ colour.red)

\* has_pending() may be true where a message is on its way to the rank.
MayHavePending(r) == \/ \E m \in net : lpToRank[m.ev.dst] = r
                     \/ \E a \in acks : a.to = r

KeepRunning ==
    /\ AllAt("work")
    /\ \E r \in Ranks : LocalHasWork(r) \/ MayHavePending(r)
    /\ AllGoto("poll")
    /\ UNCHANGED <<iters, pending, cancelled, inflight, ctx, net, acks, lastGvt,
                   colour, trace, sink>>

Finalize ==
    /\ AllAt("work")
    /\ \A r \in Ranks : ~ LocalHasWork(r)
    /\ Prune(Ranks, MaxStamp)
    /\ AllGoto("done")
    /\ UNCHANGED <<iters, pending, inflight, net, acks, lastGvt, colour>>

Terminated == AllAt("done") /\ UNCHANGED vars

RankStep(r) ==
    \/ Start(r) \/ PollEvent(r) \/ PollAck(r)
    \/ DispatchNothing(r) \/ DispatchStraggler(r) \/ DispatchAnti(r)
    \/ DispatchEvent(r) \/ FossilCollect(r)

Collective ==
    \/ AckGvt \/ ColouredFlip \/ ColouredWait \/ ColouredGvt
    \/ KeepRunning \/ Finalize

Next == (\E r \in Ranks : RankStep(r)) \/ Collective \/ Terminated

Spec == Init /\ [][Next]_vars

\* Every rank keeps running, and a message that is on its way is received by
\* some later poll: the progress an MPI library gives.
Fairness ==
    /\ \A r \in Ranks : /\ WF_vars(RankStep(r))
                        /\ SF_vars(PollEvent(r))
                        /\ SF_vars(PollAck(r))
    /\ WF_vars(Collective)

FairSpec == Spec /\ Fairness

-----------------------------------------------------------------------------
(***************************************************************************)
(* Properties.                                                             *)
(***************************************************************************)
Tombstone == [src : LPs, uid : Nat, ts : Stamp]

SentRecord == [sendTime : Stamp, msgTime : EventStamp, dst : LPs, uid : Nat]

ProcessedRecord ==
    [ev : Event, preNextSeqNormal : Nat, preNextSeqControl : Nat,
     pre : UNION {[E -> Values] : E \in SUBSET Entities},
     outs : Seq(Values), cancelPrev : SUBSET Tombstone]

LPContext ==
    [vt : Stamp, processed : Seq(ProcessedRecord), sentLog : Seq(SentRecord),
     nextSeqNormal : Nat, nextSeqControl : Nat, nextUid : Nat, state : LPState]

\* The type of every part of the kernel's state (the two sinks are histories
\* and are not read by the kernel).
TypeOK ==
    /\ pc \in [Ranks -> {"start", "poll", "fossil", "gvt", "work", "done"}]
    /\ iters \in [Ranks -> 0..(Period - 1)]
    /\ pending \in [Ranks -> SUBSET Event]
    /\ cancelled \in [Ranks -> SUBSET Tombstone]
    /\ inflight \in [Ranks -> SUBSET [src : LPs, uid : Nat, anti : BOOLEAN,
                                      ts : Stamp]]
    /\ ctx \in [LPs -> LPContext]
    /\ net \in SUBSET [from : Ranks, ev : Event, colour : 0..1]
    /\ acks \in SUBSET [to : Ranks, src : LPs, uid : Nat, anti : BOOLEAN]
    /\ lastGvt \in Stamp
    /\ colour \in [red : BOOLEAN, white : 0..1,
                   sent : [Ranks -> [0..1 -> Nat]],
                   recv : [Ranks -> [0..1 -> Nat]],
                   atFlip : [Ranks -> Nat], minRed : [Ranks -> Stamp]]

\* validate_invariants_: an LP's records are in the order of their stamps and
\* its virtual time is not behind the last of them.  Rollback and pruning cut
\* the record list by comparing only its ends and rely on this.
ProcessedInOrder ==
    \A l \in LPs :
        LET done == ctx[l].processed
        IN  \A i \in 1..Len(done) :
                /\ Le(done[i].ev.ts, ctx[l].vt)
                /\ \A j \in 1..i : Le(done[j].ev.ts, done[i].ev.ts)

\* What a rollback, to whichever record, restores: the state in which the
\* event of the next record was executed.  Snapshots hold only what handlers
\* asked to write, so each state is put together from those of many records;
\* and yet the handler leads from each of these states to the next, with the
\* outputs the record keeps, and from the last one to the LP's state.
RecordsReplay ==
    \A l \in LPs : \A n \in 1..Len(ctx[l].processed) :
        LET rec == ctx[l].processed[n]
            before == RestoredState(ctx[l], n - 1)
            after == RestoredState(ctx[l], n)
            does == OnEvent(l, before, rec.ev.kind)
        IN  IF rec.ev.anti THEN after = before
            ELSE after = does.state /\ rec.outs = does.outs

\* The guarantee fossil collection rests on (fossil_collect_): no event or
\* anti-message anywhere, queued or on its way, is below the GVT, and no
\* record below the GVT is left that a rollback could still undo.
GvtIsLowerBound ==
    /\ \A r \in Ranks : \A e \in pending[r] : Le(lastGvt, e.ts)
    /\ \A m \in net : Le(lastGvt, m.ev.ts)
    /\ \A l \in LPs : \A i \in 1..Len(ctx[l].processed) :
          Le(lastGvt, ctx[l].processed[i].ev.ts)

\* AckInflight mode: a rank's in-flight table holds exactly what it sent and
\* has no Ack for, whether the event or its Ack is what is still on its way.
InflightExact ==
    GvtMode = "AckInflight" =>
        \A r \in Ranks :
            {[src |-> k.src, uid |-> k.uid, anti |-> k.anti] : k \in inflight[r]}
            = {[src |-> m.ev.src, uid |-> m.ev.uid, anti |-> m.ev.anti] :
                  m \in {n \in net : n.from = r}}
              \cup {[src |-> a.src, uid |-> a.uid, anti |-> a.anti] :
                       a \in {b \in acks : b.to = r}}

\* ColoredCounters mode: the counters of a colour add up to the messages of
\* that colour on their way, and in the red phase no red one is below what
\* its sender reports.  The GVT of a round without Acks rests on both.
ColoursAccounted ==
    /\ GvtMode = "ColoredCounters" =>
          \A c \in 0..1 :
              SumFunction([r \in Ranks |-> colour.sent[r][c] - colour.recv[r][c]])
              = Cardinality({m \in net : m.colour = c})
    /\ \A m \in net : colour.red /\ m.colour # colour.white =>
                        Le(colour.minRed[m.from], m.ev.ts)

\* The events of LP l that a predicate of the whole system talks about.
CopiesOf(l, uid, anti) ==
    LET Is(e) == e.src = l /\ e.uid = uid /\ e.anti = anti
    IN  {<<"net", m>> : m \in {n \in net : Is(n.ev)}}
        \cup (UNION {{<<"pending", e>> : e \in {f \in pending[r] : Is(f)}} :
                        r \in Ranks})
        \cup (UNION {{<<"processed", d, i>> :
                          i \in {j \in 1..Len(ctx[d].processed) :
                                    Is(ctx[d].processed[j].ev)}} : d \in LPs})
        \cup (UNION {{<<"committed", r, i>> :
                          i \in {j \in 1..Len(trace[r]) : Is(trace[r][j])}} :
                        r \in Ranks})

\* An event its sender still stands for (it is in the sent log) exists exactly
\* once - on its way, queued, processed or committed - has no anti-message
\* anywhere, and no tombstone that would make the receiver drop it.
SentMeansDeliveredOnce ==
    \A l \in LPs : \A i \in 1..Len(ctx[l].sentLog) :
        LET s == ctx[l].sentLog[i]
        IN  /\ Cardinality(CopiesOf(l, s.uid, FALSE)) = 1
            /\ CopiesOf(l, s.uid, TRUE) = {}
            /\ \A t \in cancelled[lpToRank[s.dst]] :
                  ~ (t.src = l /\ t.uid = s.uid)

\* committedSink is called in stamp order over the whole run of a rank, not
\* only within one call of prune_to_gvt_.
SinkInOrder ==
    \A r \in Ranks : \A i \in 1..Len(sink[r]) : \A j \in 1..i :
        Le(sink[r][j].ts, sink[r][i].ts)

\* finalize_at_end runs only when nothing is left anywhere that the loop of
\* some rank would still have to handle.
TerminationIsClean ==
    AllAt("done") => /\ net = {} /\ acks = {}
                     /\ \A r \in Ranks : pending[r] = {} /\ inflight[r] = {}
                     /\ \A l \in LPs : ctx[l].processed = <<>>

Outstanding == {e.ts : e \in UNION {pending[r] : r \in Ranks}}
                  \cup {m.ev.ts : m \in net}

Gvt == INSTANCE GvtContract WITH outstanding <- Outstanding, gvt <- lastGvt

\* Both GVT algorithms meet the contract of global virtual time: no dispatch,
\* rollback or cancellation creates work earlier than the work it comes from,
\* and fossil_collect_ only adopts lower bounds, never a smaller one.
ImplementsGvtContract == Gvt!Spec

\* run() returns on every rank.
Termination == <> AllAt("done")

=============================================================================

---------------------------- MODULE OptimisticLp ----------------------------
(***************************************************************************)
(* One logical process under the optimistic kernel (simulation.hpp), for   *)
(* questions about what an LP saves, sends and can be brought back to.     *)
(* The LPs are a parameter: the handler of each, and what loading a        *)
(* snapshot makes of its state, which need not be what the handler found.  *)
(* A behaviour is about one of them.                                       *)
(*                                                                         *)
(* The kernel is seen from this LP: its part of the pending queue, its     *)
(* records, its sent log and its rollbacks.  Events from other LPs and     *)
(* their anti-messages arrive in any order; what the LP sends to others is *)
(* processed by them at once, so that only this LP and what is on its way  *)
(* to it hold the GVT back.                                                *)
(*                                                                         *)
(* Install-before-use buffering: a handler may throw because its World     *)
(* does not know the entity an event is for.  The kernel keeps such an     *)
(* event aside until an install event for that entity has been executed.   *)
(* Sequence numbers are the default ones (no isControlEvent).              *)
(***************************************************************************)
EXTENDS LpRecords

CONSTANTS
    Lps,            \* the ids of the LPs
    InitState(_),   \* an LP's state after on_start
    OnEvent(_,_,_), \* its on_event, from state and event: the state, sends and
                    \* writes it leaves; missing, if it throws for an entity
                    \* that is not there, and fatal, if for anything else
    Load(_,_,_),    \* its load_state or load_entity: from the current state
                    \* and, by entity, the one to go back to
    Entities(_),    \* the entities its snapshots are of
    Part(_,_,_),    \* what of a state the snapshot of an entity has
    StartSends(_),  \* how many events its on_start sends
    Started(_),     \* those of them that go to the LP itself
    Inputs(_),      \* the events other LPs send to it
    Replies(_,_),   \* what they send to it when they get an event of it
    Revocable(_),   \* the inputs their senders may take back
    Target(_),      \* the entity an event is for
    IsInstall(_),   \* its kind is installEventKind
    GvtStamps(_),   \* bound: the values the GVT takes
    MaxUid(_)       \* bound: the events the LP sends

AntiOf(ev) == [ev EXCEPT !.anti = TRUE]

IsEvent(ev) ==
    /\ ev = [x \in {"ts", "src", "uid", "dst", "body", "anti"} |-> ev[x]]
    /\ ev.ts \in Stamp /\ ev.uid \in Nat /\ ev.anti \in BOOLEAN

\* What comes to the LP has stamps and keys, as send() gives them.
ASSUME LpAssumption ==
    \A lp \in Lps :
        /\ StartSends(lp) \in Nat
        /\ \A ev \in Inputs(lp) \cup Started(lp) : IsEvent(ev) /\ ~ ev.anti
        /\ \A ev \in Inputs(lp) : ev.src # lp
        /\ \A ev \in Started(lp) : ev.src = lp /\ ev.uid <= StartSends(lp)
        /\ \A e, f \in Inputs(lp) \cup Started(lp) : Key(e) = Key(f) => e = f
        /\ Revocable(lp) \subseteq Inputs(lp) /\ GvtStamps(lp) \subseteq Stamp

-----------------------------------------------------------------------------
VARIABLES
    self,       \* the LP's id
    vt,         \* its virtual time
    nextSeq,    \* its counter of automatic sequence numbers
    nextUid,    \* its counter of uids
    base,       \* how many entries of log are committed
    sentBase,   \* how many entries of sentLog are released
    deferred,   \* m_deferredTargeted, the part for this LP
    gvt         \* m_lastGvt

vars == <<self, state, vt, nextSeq, nextUid, log, base, sentLog, sentBase, todo,
          coming, deferred, gvt>>

lpVars == <<self, state, vt, nextSeq, nextUid, log, base, sentLog, sentBase>>

\* The LP starts with what on_start left it.
Init ==
    /\ self \in Lps
    /\ state = InitState(self)
    /\ vt = ZeroStamp
    /\ nextSeq = StartSends(self) + 1
    /\ nextUid = StartSends(self) + 1
    /\ log = <<>> /\ base = 0
    /\ sentLog = <<>> /\ sentBase = 0
    /\ todo = Started(self) /\ coming = Inputs(self) /\ deferred = {}
    /\ gvt = ZeroStamp

-----------------------------------------------------------------------------
(***************************************************************************)
(* send().                                                                 *)
(***************************************************************************)
\* How many of the first n sends get an automatic sequence number.
Numbered(sends, n) == Cardinality({i \in 1..n : sends[i].ts.sequence = 0})

\* The events that come of the sends a handler makes.
Emitted(sends) ==
    [i \in 1..Len(sends) |->
        [ts |-> IF sends[i].ts.sequence = 0
                THEN [sends[i].ts EXCEPT
                         !.sequence = nextSeq + Numbered(sends, i - 1)]
                ELSE sends[i].ts,
         src |-> self, uid |-> nextUid + i - 1, dst |-> sends[i].dst,
         body |-> sends[i].body, anti |-> FALSE]]

\* The part of some events that the kernel puts in this LP's own queue, and
\* what the others send back for the rest.
Local(evs) == {ev \in evs : ev.dst = self}
Answered(evs) == UNION {Replies(self, ev) : ev \in evs \ Local(evs)}

\* The handler that runs at stamp "at" for event "of" makes these sends.
Sends(sends, at, of) ==
    LET evs == Emitted(sends)
    IN  /\ nextUid + Len(sends) <= MaxUid(self) + 1
        /\ \A i \in 1..Len(evs) : evs[i].ts \in Stamp
        /\ nextUid' = nextUid + Len(sends)
        /\ nextSeq' = nextSeq + Numbered(sends, Len(sends))
        /\ sentLog' = sentLog \o
              [i \in 1..Len(evs) |-> [at |-> at, of |-> of, ev |-> evs[i]]]
        /\ coming' = coming \cup Answered(ToSet(evs))

-----------------------------------------------------------------------------
(***************************************************************************)
(* pop_next_ and dispatch_.                                                *)
(***************************************************************************)
\* A record: writes are the entities request_write was called for; pre is the
\* state at that time, of which only those entities are saved.
Record(ev, writes) ==
    [ev |-> ev, writes |-> writes, pre |-> state, preSeq |-> nextSeq]

\* m_cancelledByUid: there is a tombstone for each anti-message that was
\* processed and is neither undone nor released.
Cancelled == {Key(log[i].ev) : i \in {j \in (base+1)..Len(log) :
                                          log[j].ev.anti}}

Skipped(ev) == ~ ev.anti /\ Key(ev) \in Cancelled

\* One of the least; events that tie may come in any order.
IsNext(ev) == /\ ev \in todo /\ ~ Skipped(ev)
              /\ \A f \in todo : Le(ev.ts, f.ts)

Ready(ev) == IsNext(ev) /\ ~ Lt(ev.ts, vt) /\ ~ ev.anti

\* Mutant: only what is earlier than the install.
ReleasedEarlier(ev) ==
    IF IsInstall(ev) THEN {d \in deferred : Target(d) = Target(ev) /\ Lt(d.ts, ev.ts)}
                     ELSE {}

\* release_deferred_for_: what the execution of ev puts back into the queue.
Released(ev) ==
    IF IsInstall(ev) THEN {d \in deferred : Target(d) = Target(ev)} ELSE {}

\* dispatch_ of an event that is not a straggler.
Execute ==
    \E ev \in todo : LET r == OnEvent(self, state, ev) IN
        /\ Ready(ev)
        /\ ~ r.missing /\ ~ r.fatal
        /\ Sends(r.sends, ev.ts, Key(ev))
        /\ state' = r.state
        /\ vt' = ev.ts
        /\ log' = Append(log, Record(ev, r.writes))
        /\ todo' = (todo \ {ev}) \cup Local(ToSet(Emitted(r.sends)))
                                 \cup Released(ev)
        /\ deferred' = deferred \ Released(ev)
        /\ UNCHANGED <<self, base, sentBase, gvt>>

\* What ends in the catch for a missing entity; other errors end the run.
Deferrable(ev, r) == r.missing /\ ~ IsInstall(ev)

\* Mutant: the event is not kept.
DeferDropped ==
    \E ev \in todo : LET r == OnEvent(self, state, ev) IN
        /\ Ready(ev)
        /\ Deferrable(ev, r)
        /\ todo' = todo \ {ev}
        /\ UNCHANGED <<lpVars, coming, deferred, gvt>>

\* defer_targeted_event_: the virtual time is put back; what the handler has done
\* and sent before it threw stays, and the record is lost.
Defer ==
    \E ev \in todo : LET r == OnEvent(self, state, ev) IN
        /\ Ready(ev)
        /\ Deferrable(ev, r)
        /\ Sends(r.sends, ev.ts, Key(ev))
        /\ state' = r.state
        /\ todo' = (todo \ {ev}) \cup Local(ToSet(Emitted(r.sends)))
        /\ deferred' = deferred \cup {ev}
        /\ UNCHANGED <<self, vt, log, base, sentBase, gvt>>

-----------------------------------------------------------------------------
(***************************************************************************)
(* rollback_ and cancel_.                                                  *)
(***************************************************************************)
\* How many records a rollback to "to" keeps: it looks at the end of the list.
Kept(to) == Min({n \in base..Len(log) :
                    \A i \in (n+1)..Len(log) : Le(to, log[i].ev.ts)})

Undone(n) == {log[i].ev : i \in (n+1)..Len(log)}

\* The records among the undone ones that saved entity e.
Savers(n, e) == {i \in (n+1)..Len(log) : e \in log[i].writes}
SavedAfter(n) == UNION {log[i].writes : i \in (n+1)..Len(log)}

\* Mutant: the newest snapshot.
NewestSaved(n) == [e \in SavedAfter(n) |-> log[Max(Savers(n, e))].pre]

\* Each entity goes back to its oldest snapshot among the undone records.
Saved(n) == [e \in SavedAfter(n) |-> log[Min(Savers(n, e))].pre]
Restored(n) == Load(self, state, Saved(n))

\* Mutant: what was sent at the very stamp stays sent.
KeptSentAtStamp(to) ==
    Min({n \in sentBase..Len(sentLog) :
            \A i \in (n+1)..Len(sentLog) : Lt(to, sentLog[i].at)})

\* How many entries of the sent log stay: it is read from its end, too.
KeptSent(to) ==
    Min({n \in sentBase..Len(sentLog) :
            \A i \in (n+1)..Len(sentLog) : Le(to, sentLog[i].at)})

\* What a rollback to "to" takes back, and what it puts into the queue.
Unsent(to) == {sentLog[i].ev : i \in (KeptSent(to)+1)..Len(sentLog)}
Requeued(to) == Undone(Kept(to)) \cup {AntiOf(ev) : ev \in Local(Unsent(to))}

\* rollback_, but for the records, the queue and the virtual time.
RollBack(to) ==
    LET n == Kept(to)
    IN  /\ state' = Restored(n)
        /\ nextSeq' = IF n < Len(log) THEN log[n + 1].preSeq ELSE nextSeq
        /\ sentLog' = SubSeq(sentLog, 1, KeptSent(to))
        /\ coming' = coming \cup {AntiOf(ev) : ev \in Answered(Unsent(to))}

\* An event or anti-message below the virtual time; it stays in the queue.
Straggler ==
    \E ev \in todo :
        /\ IsNext(ev) /\ Lt(ev.ts, vt)
        /\ RollBack(ev.ts)
        /\ log' = SubSeq(log, 1, Kept(ev.ts))
        /\ todo' = todo \cup Requeued(ev.ts)
        /\ vt' = prev_stamp(ev.ts)
        /\ UNCHANGED <<self, nextUid, base, sentBase, deferred, gvt>>

\* cancel_ of an event that was executed: the record of the anti-message is
\* built before the rollback and appended after it.
CancelProcessed ==
    \E ev \in todo :
        /\ IsNext(ev) /\ ~ Lt(ev.ts, vt) /\ ev.anti
        /\ \E i \in (base+1)..Len(log) : AntiOf(log[i].ev) = ev
                                         /\ ~ log[i].ev.anti
        /\ RollBack(ev.ts)
        /\ log' = Append(SubSeq(log, 1, Kept(ev.ts)),
                         [Record(ev, {}) EXCEPT !.pre = state'])
        /\ todo' = (todo \ {ev}) \cup Requeued(ev.ts)
        /\ vt' = ev.ts
        /\ UNCHANGED <<self, nextUid, base, sentBase, deferred, gvt>>

\* cancel_ of an event that is pending or has not come yet.
CancelPending ==
    \E ev \in todo :
        /\ IsNext(ev) /\ ~ Lt(ev.ts, vt) /\ ev.anti
        /\ ~ \E i \in (base+1)..Len(log) : AntiOf(log[i].ev) = ev
                                           /\ ~ log[i].ev.anti
        /\ log' = Append(log, Record(ev, {}))
        /\ todo' = todo \ {ev}
        /\ vt' = ev.ts
        /\ UNCHANGED <<self, state, nextSeq, nextUid, base, sentLog, sentBase,
                       coming, deferred, gvt>>

\* The loops of pop_next_ and peek_next_pending_ts_.
Discard ==
    \E ev \in todo :
        /\ Skipped(ev)
        /\ \A f \in todo : Le(ev.ts, f.ts)
        /\ todo' = todo \ {ev}
        /\ UNCHANGED <<lpVars, coming, deferred, gvt>>

-----------------------------------------------------------------------------
(***************************************************************************)
(* The rest of the system.                                                 *)
(***************************************************************************)
Arrive ==
    \E ev \in coming :
        /\ coming' = coming \ {ev}
        /\ todo' = todo \cup {ev}
        /\ UNCHANGED <<lpVars, deferred, gvt>>

\* A sender rolls back, not below the GVT, and takes an input back, once.
Withdraw ==
    \E ev \in Revocable(self) :
        /\ Le(gvt, ev.ts)
        /\ AntiOf(ev) \notin coming \cup todo \cup Undone(0)
        /\ coming' = coming \cup {AntiOf(ev)}
        /\ UNCHANGED <<lpVars, todo, deferred, gvt>>

\* What prune_to_gvt_ releases at g, from the front of each list.
PrunedRecords(g) == Max({n \in base..Len(log) :
                            \A i \in (base+1)..n : Lt(log[i].ev.ts, g)})
PrunedSent(g) == Max({n \in sentBase..Len(sentLog) :
                         \A i \in (sentBase+1)..n : Lt(sentLog[i].at, g)})

\* The GVT may become g: compute_gvt_ and cancel_ do not know of what is deferred.
GvtAdvances(g) ==
    /\ g \in GvtStamps(self) /\ Lt(gvt, g) /\ Le(g, vt)
    /\ \A ev \in todo \cup coming : Le(g, ev.ts)
    /\ gvt' = g
    /\ base' = PrunedRecords(g)
    /\ sentBase' = PrunedSent(g)

\* compute_gvt_, fossil_collect_ and prune_to_gvt_.
AdvanceGvt ==
    \E g \in GvtStamps(self) :
        /\ GvtAdvances(g)
        /\ UNCHANGED <<self, state, vt, nextSeq, nextUid, log, sentLog, todo, coming,
                       deferred>>

Kernel == \/ Defer \/ Straggler \/ CancelProcessed \/ CancelPending \/ Discard
          \/ Arrive \/ Withdraw

Next == Execute \/ Kernel \/ AdvanceGvt

Spec == Init /\ [][Next]_vars

-----------------------------------------------------------------------------
(***************************************************************************)
(* What the kernel relies on.                                              *)
(***************************************************************************)
\* Two states that snapshots do not tell apart.
Alike(s, t) == \A e \in Entities(self) : Part(self, s, e) = Part(self, t, e)

\* The handler calls request_write for what it changes, and has not acted when
\* it throws for a missing entity.
AsksToWrite ==
    \A ev \in todo : Ready(ev) =>
        LET r == OnEvent(self, state, ev)
        IN  /\ r.sends \in Seq(ToSet(r.sends))
            /\ \A e \in Entities(self) \ r.writes :
                  Part(self, r.state, e) = Part(self, state, e)
            /\ r.missing => r.sends = <<>> /\ Alike(r.state, state)

\* Loading restores the entities that were saved, and no others.
LoadsWhatWasSaved ==
    \A n \in base..Len(log) : \A e \in Entities(self) :
        Part(self, Restored(n), e) =
            Part(self, IF e \in SavedAfter(n) THEN Saved(n)[e] ELSE state, e)

Present == coming \cup todo \cup Undone(0) \cup deferred

\* The answers to what an event sends are new events.
AnswersAreNew ==
    \A ev \in todo : Ready(ev) =>
        LET new == Answered(ToSet(Emitted(OnEvent(self, state, ev).sends)))
        IN  /\ \A a \in new : IsEvent(a) /\ ~ a.anti /\ a.src # self
            /\ \A a, b \in new : Key(a) = Key(b) => a = b
            /\ \A a \in new : \A b \in Present \cup Inputs(self) : Key(a) # Key(b)

\* Programs keep this contract: of the LP with the kernel about its state, and
\* of the others about their events.
ContractKept == AsksToWrite /\ LoadsWhatWasSaved /\ AnswersAreNew

-----------------------------------------------------------------------------
(***************************************************************************)
(* Properties.                                                             *)
(***************************************************************************)
\* The state the record at position i leaves, if the handler found its pre-state.
After(i) == IF log[i].ev.anti THEN log[i].pre
                              ELSE OnEvent(self, log[i].pre, log[i].ev).state

\* What it found, if rollback is invisible.
Before(i) == IF i = 1 THEN InitState(self) ELSE After(i - 1)

\* Rollback is invisible: whatever was executed too early, undone or withdrawn,
\* each handler of the standing records found the state that the one before it
\* left, and the last one left the LP as it is; as far as snapshots go.
StateIsReplay ==
    /\ \A i \in 1..Len(log) : Alike(log[i].pre, Before(i))
    /\ Alike(state, Before(Len(log) + 1))

\* Nothing is sent twice and nothing is left over: what stands of the LP's
\* messages is what the handlers of the standing records sent, in their order,
\* each once, although events are undone and executed again.
SendsAreReplay ==
    /\ \A i \in 1..Len(log) : ~ log[i].ev.anti =>
          LET sends == OnEvent(self, log[i].pre, log[i].ev).sends
              mine  == {m \in 1..Len(sentLog) : sentLog[m].of = Key(log[i].ev)}
          IN  \E n \in 0..Len(sentLog) :
                 /\ mine = (n+1)..(n + Len(sends))
                 /\ \A j \in 1..Len(sends) : /\ sentLog[n + j].ev.dst = sends[j].dst
                                             /\ sentLog[n + j].ev.body = sends[j].body
    /\ \A m \in 1..Len(sentLog) :
          \E i \in 1..Len(log) : /\ ~ log[i].ev.anti
                                 /\ Key(log[i].ev) = sentLog[m].of

\* An anti-message leaves no trace of the event it takes back: when it has been
\* processed, and is not undone, the event is not among the executed ones.
WithdrawnIsUndone ==
    \A i, j \in 1..Len(log) :
        log[i].ev.anti /\ Key(log[i].ev) = Key(log[j].ev) => log[j].ev.anti

Withdrawn(ev) == AntiOf(ev) \in coming \cup todo \cup Undone(0)

\* No event is lost or doubled by being kept aside, undone and put back: each
\* input is on its way, pending, executed or deferred, and only one of these, or
\* has been withdrawn.
EachInOnePlace ==
    \A ev \in Inputs(self) :
        LET places == {s \in {<<"coming", coming>>, <<"todo", todo>>,
                              <<"log", Undone(0)>>, <<"deferred", deferred>>} :
                          ev \in s[2]}
        IN  Cardinality(places) = 1 \/ (places = {} /\ Withdrawn(ev))

\* An event is kept aside only as long as its entity is not there: none is
\* forgotten in the buffer after the install it was waiting for.
DeferredAreMissing == \A ev \in deferred : OnEvent(self, state, ev).missing

\* The state of an LP that executes the records, and nothing else, in order.
Replayed ==
    LET upTo[n \in 0..Len(log)] ==
            IF n = 0 THEN InitState(self)
            ELSE IF log[n].ev.anti THEN upTo[n - 1]
            ELSE OnEvent(self, upTo[n - 1], log[n].ev).state
    IN  upTo

MeetsNoError(replay) ==
    \A n \in 1..Len(log) : ~ log[n].ev.anti =>
        LET r == OnEvent(self, replay[n - 1], log[n].ev) IN ~ r.missing /\ ~ r.fatal

\* Even what snapshots leave out changes no outcome: the LP is as in a run
\* without rollbacks, as far as snapshots go, and each event has sent what it
\* sends there, whenever such a run meets no error.
OutcomeIsReplay ==
    LET replay == Replayed
    IN  MeetsNoError(replay) =>
          /\ Alike(state, replay[Len(log)])
          /\ \A n \in 1..Len(log) : ~ log[n].ev.anti =>
                OnEvent(self, replay[n - 1], log[n].ev).sends
                    = OnEvent(self, log[n].pre, log[n].ev).sends

=============================================================================

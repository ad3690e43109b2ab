------------------------------- MODULE Model -------------------------------
(***************************************************************************)
(* The interface between the kernel and a simulation model: events         *)
(* (event.hpp), logical processes (lp.hpp) and the numbering of the events *)
(* a logical process sends (Simulation::send).  A model program is a       *)
(* parameter; a handler is a function from the LP's state and the event's  *)
(* kind to what the handler does.                                          *)
(***************************************************************************)
EXTENDS Stamps, Sequences, FiniteSets, FiniteSetsExt

CONSTANTS
    LPs,            \* logical processes; their ids are numbers and are compared
    Kinds,          \* payload kinds: all a handler sees of an event
    Entities,       \* the parts of an LP's state that snapshots distinguish
    Values,         \* values of one entity
    InitState(_),   \* InitState(l): LP l's state before the run
    OnStart(_),     \* OnStart(l): the events LP l sends from on_start
    OnEvent(_,_,_), \* OnEvent(l, state, kind): what l's on_event does
    Scheduled,      \* events given to schedule() before the run
    ControlKinds,   \* kinds for which isControlEvent is true
    PriorityBit     \* 2^63 when isControlEvent is set, 0 when it is not

-----------------------------------------------------------------------------
NoKind == "none"        \* the default payload of an anti-message

\* Bound: no event is at the kernel's infinity, which prune_to_gvt_ never passes.
EventStamp == Stamp \ {MaxStamp}

\* struct Event, without the entity target (no directory is configured here).
\* An anti-message carries the key of the event it cancels and no payload.
PlainEvent == [ts : EventStamp, src : LPs, dst : LPs, uid : Nat,
               kind : Kinds, anti : {FALSE}]
AntiMessage == [ts : EventStamp, src : LPs, dst : LPs, uid : Nat,
                kind : {NoKind}, anti : {TRUE}]
Event == PlainEvent \cup AntiMessage

\* One call of send() in a handler: deliver after delay; sequence 0 is "auto".
Send == [dst : LPs, kind : Kinds, delay : 0..MaxTime, sequence : 0..MaxSeq]

LPState == [Entities -> Values]

\* What a handler does: the entities it calls request_write for, the state it
\* leaves, the events it sends and the payloads it passes to emit_committed.
Reaction == [writes : SUBSET Entities, state : LPState,
             sends : Seq(Send), outs : Seq(Values)]

\* The contract of ILogicalProcess: a handler is a function of the LP's state
\* and the event, and changes only entities it called request_write for.
ASSUME ModelAssumption ==
    /\ LPs \subseteq Nat /\ IsFiniteSet(LPs)
    /\ NoKind \notin Kinds
    /\ ControlKinds \subseteq Kinds
    /\ PriorityBit \in 0..MaxSeq
    /\ Scheduled \subseteq {e \in PlainEvent : e.uid = 0}
    /\ \A l \in LPs :
          /\ InitState(l) \in LPState
          /\ OnStart(l) \in Seq(Send)
          /\ \A s \in LPState, k \in Kinds : OnEvent(l, s, k) \in Reaction

WritesDeclared ==
    \A l \in LPs, s \in LPState, k \in Kinds :
        \A e \in Entities \ OnEvent(l, s, k).writes :
            OnEvent(l, s, k).state[e] = s[e]

\* A handler never sends into its own present or past.
CausalApp ==
    \A l \in LPs, s \in LPState, k \in Kinds :
        \A i \in DOMAIN OnEvent(l, s, k).sends :
            OnEvent(l, s, k).sends[i].delay > 0

-----------------------------------------------------------------------------
(***************************************************************************)
(* Orders: the kernel compares events field by field.                      *)
(***************************************************************************)
LexLt(s, t) == \E i \in DOMAIN s : /\ s[i] < t[i]
                                   /\ \A j \in 1..(i-1) : s[j] = t[j]

\* The elements of the finite set S, sorted; those that Before does not tell
\* apart come in some order.
SortedBy(S, Before(_,_)) ==
    LET place == CHOOSE f \in [S -> 1..Cardinality(S)] :
                     \A x, y \in S : f[x] = f[y] => x = y
        First(x, y) == \/ Before(x, y)
                       \/ x # y /\ ~ Before(y, x) /\ place[x] < place[y]
    IN  [i \in 1..Cardinality(S) |->
            CHOOSE x \in S : Cardinality({y \in S : First(y, x)}) = i - 1]

\* PendingOrder of the kernel and EventTimeOrder of event.hpp.
PendingKey(e) == <<e.ts.time, e.ts.sequence, e.src, e.uid>>
PendingBefore(e, f) == LexLt(PendingKey(e), PendingKey(f))

-----------------------------------------------------------------------------
(***************************************************************************)
(* send(): uid and sequence numbers, routing, and the sent log.            *)
(***************************************************************************)
IsControl(kind) == kind \in ControlKinds

\* How many of the first n sends draw on the control (or the normal) counter.
Autos(sends, n, control) ==
    Cardinality({i \in 1..n : /\ sends[i].sequence = 0
                              /\ IsControl(sends[i].kind) = control})

\* With isControlEvent set, control events sort before the others of the same
\* time because the others have the top bit of the sequence set.
SequenceOf(c, sends, i) ==
    IF sends[i].sequence # 0 THEN sends[i].sequence
    ELSE IF IsControl(sends[i].kind)
    THEN c.nextSeqControl + Autos(sends, i - 1, TRUE)
    ELSE PriorityBit + c.nextSeqNormal + Autos(sends, i - 1, FALSE)

\* The events LP l (with context c) puts out when it makes these sends at now.
Emitted(l, c, now, sends) ==
    [i \in 1..Len(sends) |->
        [ts   |-> [time |-> now.time + sends[i].delay,
                   sequence |-> SequenceOf(c, sends, i)],
         src  |-> l, dst |-> sends[i].dst, uid |-> c.nextUid + i - 1,
         kind |-> sends[i].kind, anti |-> FALSE]]

\* Bound: stamps stay below 2^64; beyond it send() throws or the sum wraps.
StampsFit(evs) == \A i \in 1..Len(evs) : evs[i].ts \in EventStamp

\* The context after those sends: counters drawn, and each event in the log.
AfterSending(c, now, sends, evs) ==
    [c EXCEPT
        !.nextUid = @ + Len(sends),
        !.nextSeqNormal = @ + Autos(sends, Len(sends), FALSE),
        !.nextSeqControl = @ + Autos(sends, Len(sends), TRUE),
        !.sentLog = @ \o [i \in 1..Len(sends) |->
                             [sendTime |-> now, msgTime |-> evs[i].ts,
                              dst |-> evs[i].dst, uid |-> evs[i].uid]]]

\* add_lp(): the context of an LP that has done nothing yet.
NewContext(l) ==
    [vt |-> ZeroStamp, processed |-> <<>>, sentLog |-> <<>>,
     nextSeqNormal |-> 1, nextSeqControl |-> 1, nextUid |-> 1,
     state |-> InitState(l)]

=============================================================================

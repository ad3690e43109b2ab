------------------------ MODULE TimeWarpVsSequential ------------------------
(***************************************************************************)
(* The optimistic kernel against the sequential run of the same program:   *)
(* what it commits is what the sequential run executes, and the state of   *)
(* an LP is always that of a sequential execution of the events it has     *)
(* processed and not undone.                                               *)
(***************************************************************************)
EXTENDS TimeWarp, ReferenceRun

\* The elements of the sequence s at the positions P, in their order.
Selected(s, P) ==
    [i \in 1..Cardinality(P) |->
        s[CHOOSE p \in P : Cardinality({q \in P : q < p}) = i - 1]]

\* Where the plain events of LP l are in the trace.
CommitsOf(l) ==
    LET done == trace[lpToRank[l]]
    IN  {i \in 1..Len(done) : done[i].dst = l /\ ~ done[i].anti}

\* The plain events LP l has committed, in the order of the sink.
CommittedBy(l) == Selected(trace[lpToRank[l]], CommitsOf(l))

\* What the sink received for the event e, in order.
OutputsOf(e) ==
    LET out == sink[lpToRank[e.dst]]
    IN  Selected([i \in 1..Len(out) |-> out[i].value],
                 {i \in 1..Len(out) : /\ SameUid(out[i], e)
                                      /\ out[i].lp = e.dst
                                      /\ out[i].ts = e.ts})

\* What an observer of the two sinks has seen of LP l.
Observed(l) ==
    LET done == trace[lpToRank[l]]
    IN  Selected([i \in 1..Len(done) |-> [time |-> done[i].ts.time,
                                         kind |-> done[i].kind,
                                         outs |-> OutputsOf(done[i])]],
                 CommitsOf(l))

Script ==
    [l \in LPs |->
        [i \in 1..Len(Reference[l]) |->
            [time |-> Reference[l][i].ev.ts.time, kind |-> Reference[l][i].ev.kind,
             outs |-> Reference[l][i].outs]]]

Sequential == INSTANCE SequentialSim WITH
                 horizon <- IF AllAt("done") THEN MaxStamp ELSE lastGvt,
                 committed <- [l \in LPs |-> Observed(l)]

\* The kernel implements the sequential simulation: whatever the order of
\* messages and however often LPs roll back, prune_to_gvt_ hands the sinks the
\* events and the outputs of the sequential run, each once and in its order,
\* and at the end all of them.
ImplementsSequential == Sequential!Spec

\* The plain events LP l has executed and not undone, oldest first.
History(l) ==
    LET recs == ctx[l].processed
        evs == [i \in 1..Len(recs) |-> recs[i].ev]
    IN  CommittedBy(l) \o Selected(evs, {i \in 1..Len(recs) : ~ evs[i].anti})

\* LP l's state and sequence counters after executing the events from scratch.
Replayed(l, events) ==
    LET first == [state |-> InitState(l),
                  nextSeqNormal |-> 1 + Autos(OnStart(l), Len(OnStart(l)), FALSE),
                  nextSeqControl |-> 1 + Autos(OnStart(l), Len(OnStart(l)), TRUE)]
        Executed(c, e) ==
            LET does == OnEvent(l, c.state, e.kind)
            IN  [state |-> does.state,
                 nextSeqNormal |-> c.nextSeqNormal
                                 + Autos(does.sends, Len(does.sends), FALSE),
                 nextSeqControl |-> c.nextSeqControl
                                 + Autos(does.sends, Len(does.sends), TRUE)]
        after[n \in 0..Len(events)] ==
            IF n = 0 THEN first ELSE Executed(after[n - 1], events[n])
    IN  after[Len(events)]

\* rollback_ restores state: an LP is in the state that the events it has
\* executed and not undone lead to, from its initial state.
StateMatchesHistory ==
    \A l \in LPs : ctx[l].state = Replayed(l, History(l)).state

-----------------------------------------------------------------------------
(***************************************************************************)
(* Statements of the documentation, the comments and the tests of the      *)
(* kernel that the code does not keep; each is refuted by a run.           *)
(***************************************************************************)
\* After rollback the next auto-assigned sequence is what it was before the
\* undone events, so that executing them again numbers their sends alike.
SequenceMatchesHistory ==
    \A l \in LPs : pc[lpToRank[l]] # "start" =>
        /\ ctx[l].nextSeqNormal = Replayed(l, History(l)).nextSeqNormal
        /\ ctx[l].nextSeqControl = Replayed(l, History(l)).nextSeqControl

\* An LP executes events in the order of (TimeStamp, Event.src, Event.uid).
ExecutesInKeyOrder ==
    \A l \in LPs :
        LET done == History(l)
        IN  \A i \in 1..Len(done) : \A j \in 1..(i-1) :
                ~ PendingBefore(done[i], done[j])

\* An event that is committed has the (src, uid) it has in a run without
\* rollbacks.
UidsMatchSequential ==
    \A l \in LPs : \A i \in 1..Len(CommittedBy(l)) :
        LET e == CommittedBy(l)[i]
        IN  i <= Len(Reference[l]) => /\ e.src = Reference[l][i].ev.src
                                      /\ e.uid = Reference[l][i].ev.uid

=============================================================================

---------------------------- MODULE ReferenceRun ----------------------------
(***************************************************************************)
(* The sequential run of a model program, by which the optimistic kernel   *)
(* is judged: one queue, the least event first (in the order that          *)
(* EventTimeOrder and PendingOrder give), no rollback.  It numbers events  *)
(* with the kernel's own send().                                           *)
(***************************************************************************)
EXTENDS Model

CONSTANT RunLength  \* a number of events after which the run has ended

Sent(lp, l, now, sends) ==
    LET evs == Emitted(l, lp[l], now, sends) IN {evs[i] : i \in 1..Len(evs)}

\* After on_start of every LP.
Started ==
    LET new == [l \in LPs |-> NewContext(l)]
    IN  [lp |-> [l \in LPs |-> AfterSending(new[l], ZeroStamp, OnStart(l),
                                   Emitted(l, new[l], ZeroStamp, OnStart(l)))],
         queue |-> Scheduled \cup UNION {Sent(new, l, ZeroStamp, OnStart(l)) :
                                            l \in LPs},
         done |-> [l \in LPs |-> <<>>]]

\* One event executed.
Stepped(m) ==
    LET ev == CHOOSE e \in m.queue : \A f \in m.queue : ~ PendingBefore(f, e)
        l == ev.dst
        does == OnEvent(l, m.lp[l].state, ev.kind)
    IN  [lp |-> [m.lp EXCEPT
                   ![l] = [AfterSending(@, ev.ts, does.sends,
                                        Emitted(l, @, ev.ts, does.sends))
                              EXCEPT !.state = does.state]],
         queue |-> (m.queue \ {ev}) \cup Sent(m.lp, l, ev.ts, does.sends),
         done |-> [m.done EXCEPT ![l] = Append(@, [ev |-> ev, outs |-> does.outs])]]

\* The first n events executed, or all if there are fewer.
RunFor[n \in 0..RunLength] ==
    IF n = 0 THEN Started
    ELSE LET before == RunFor[n - 1]
         IN  IF before.queue = {} THEN before ELSE Stepped(before)

\* Bound: the run has no more events than RunLength.
ASSUME RunEnds == RunLength \in Nat /\ RunFor[RunLength].queue = {}

\* Reference[l]: the events LP l executes, in order, each with its outputs.
Reference == RunFor[RunLength].done

=============================================================================

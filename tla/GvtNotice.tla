----------------------------- MODULE GvtNotice ------------------------------
(***************************************************************************)
(* An LP under the kernel as in OptimisticLp, which is also the system     *)
(* source of its rank: notify_directories_gvt_ (simulation.hpp) sends the  *)
(* directory a notice of each new GVT in its name, outside any event.      *)
(***************************************************************************)
EXTENDS OptimisticLp

CONSTANT DirectoryOf    \* the directory that events of this rank went to

Notice == "gvt"

\* send() of a notice: an entry of the sent log whose send time is {0, 0}; a
\* stamp without a sequence number takes one from the LP's counter.
NoticeOf(g) ==
    [at |-> ZeroStamp, of |-> Notice,
     ev |-> [ts |-> IF g.sequence = 0 THEN [g EXCEPT !.sequence = nextSeq] ELSE g,
             src |-> self, uid |-> nextUid, dst |-> DirectoryOf,
             body |-> [kind |-> "gc", gvt |-> g], anti |-> FALSE]]

\* fossil_collect_ with notify_directories_gvt_ at its end.
AdvanceAndNotify ==
    \E g \in GvtStamps(self) :
        /\ GvtAdvances(g)
        /\ nextUid <= MaxUid(self)
        /\ sentLog' = Append(sentLog, NoticeOf(g))
        /\ nextUid' = nextUid + 1
        /\ nextSeq' = IF g.sequence = 0 THEN nextSeq + 1 ELSE nextSeq
        /\ UNCHANGED <<self, state, vt, log, todo, coming, deferred>>

NoticeNext == Execute \/ Kernel \/ AdvanceAndNotify

NoticeSpec == Init /\ [][NoticeNext]_vars

\* The claim of the comment at simulation.hpp:1612: a rollback takes back what
\* was sent after its point.  So nothing stands that was sent by an event that
\* is not among the executed ones.
UndoneIsUnsent ==
    \A m \in 1..Len(sentLog) :
        sentLog[m].of # Notice => \E i \in 1..Len(log) : /\ ~ log[i].ev.anti
                                                         /\ Key(log[i].ev) = sentLog[m].of

=============================================================================

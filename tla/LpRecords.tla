----------------------------- MODULE LpRecords ------------------------------
(***************************************************************************)
(* What one LP and the kernel keep for each other, as OptimisticLp moves   *)
(* it and as the properties of single LPs (Aoi, Missile, Market, Airport)  *)
(* read it.                                                                *)
(***************************************************************************)
EXTENDS Stamps, SequencesExt, FiniteSetsExt

VARIABLES
    state,      \* what the LP keeps
    log,        \* its records, after those that are committed and released
    sentLog,    \* what it sent: oldest first, released entries included
    todo,       \* what is pending for it
    coming      \* what will reach it

Key(ev) == <<ev.src, ev.uid>>

\* A set of numbers in ascending order.
Ascending(S) ==
    [i \in 1..Cardinality(S) |-> CHOOSE e \in S : Cardinality({f \in S : f < e}) = i - 1]

\* The standing records of events of some kind, by position.
Standing(kind) == {i \in 1..Len(log) : ~ log[i].ev.anti /\ log[i].ev.body.kind = kind}

\* The messages that event key made and that stand, in the order of sending.
SentBy(key) == SelectSeq(sentLog, LAMBDA m : m.of = key)

\* While an anti-message is on its way or pending, the LP may have executed what
\* it takes back, next to what was sent instead.  The LP is settled without one.
Settled == \A ev \in todo \cup coming : ~ ev.anti

=============================================================================

--------------------------- MODULE SequentialSim ----------------------------
(***************************************************************************)
(* What a simulation promises whoever watches its sinks: as virtual time   *)
(* advances to a horizon, the events each LP has committed are those of    *)
(* the sequential run, in its order and with its outputs: all whose time   *)
(* is before the horizon's and none whose time is after it.                *)
(***************************************************************************)
EXTENDS Stamps, Sequences, SequencesExt

CONSTANTS
    LPs,
    Script      \* Script[l]: sequence of [time, kind, outs], the sequential run

VARIABLES
    horizon,    \* the stamp up to which the simulation is irrevocable
    committed   \* committed[l]: what LP l has committed, in the form of Script[l]

MatchesScript(l, done, to) ==
    /\ IsPrefix(done, Script[l])
    /\ \A i \in 1..Len(done) : done[i].time <= to.time
    /\ \A i \in 1..Len(Script[l]) : Script[l][i].time < to.time => i <= Len(done)

Init == /\ horizon = ZeroStamp
        /\ committed = [l \in LPs |-> <<>>]

Advance == /\ Le(horizon, horizon')
           /\ \A l \in LPs : /\ IsPrefix(committed[l], committed'[l])
                             /\ MatchesScript(l, committed'[l], horizon')

Spec == Init /\ [][Advance]_<<horizon, committed>>

=============================================================================

---------------------------- MODULE GvtContract -----------------------------
(***************************************************************************)
(* What global virtual time has to be, whatever algorithm computes it.     *)
(* Outstanding work, an event or an anti-message that some LP has yet to   *)
(* process, only begets work that is not earlier; so the least outstanding *)
(* stamp never falls, and an estimate that has been at or below it stays a *)
(* lower bound of every stamp that can still be processed or undone.       *)
(***************************************************************************)
EXTENDS Stamps

VARIABLES
    outstanding,    \* stamps of the work that is left
    gvt             \* the estimate

Init == /\ outstanding \subseteq Stamp
        /\ gvt = ZeroStamp

\* Ranks seed their work while nothing has been declared irrevocable.
Seed == /\ gvt = ZeroStamp
        /\ outstanding' \subseteq Stamp
        /\ outstanding \subseteq outstanding'
        /\ UNCHANGED gvt

\* Work is done, cancelled or begotten by work.
Work == /\ \A s \in outstanding' : \E w \in outstanding : Le(w, s)
        /\ UNCHANGED gvt

\* A better estimate.
Advance == /\ outstanding' \subseteq outstanding
           /\ gvt' \in Stamp
           /\ Le(gvt, gvt')
           /\ \A s \in outstanding' : Le(gvt', s)

Spec == Init /\ [][Seed \/ Work \/ Advance]_<<outstanding, gvt>>

=============================================================================

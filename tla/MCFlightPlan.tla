---------------------------- MODULE MCFlightPlan ----------------------------
(***************************************************************************)
(* An instance of FlightPlan: three regions with one airport each, three   *)
(* planes, two of which may meet at an airport, and all ways the random    *)
(* numbers can fall on the first legs.                                     *)
(***************************************************************************)
EXTENDS FlightPlan

Keys == [plane : Plane, leg : 0..EndTime]

\* Later legs repeat the draws of the first two.
Repeated(f) == [k \in Keys |-> f[[k EXCEPT !.leg = @ % 2]]]
FirstKeys == [plane : Plane, leg : 0..1]

MCDraws == {[to |-> Repeated(f), service |-> [k \in Keys |-> ((k.leg + d) % 2) + 1]] :
                f \in [FirstKeys -> 0..1], d \in 0..1}

=============================================================================

----------------------------- MODULE FlightPlan -----------------------------
(***************************************************************************)
(* All regions of regional_airport_migration_demo.cpp with their directory *)
(* in the order the kernel commits to: the event with the least stamp is   *)
(* next.  Every event with a target passes through the directory, which    *)
(* forwards it with a sequence number of its own.  Numbers above TopBit    *)
(* are those of events that isControlEvent says no to.                     *)
(***************************************************************************)
EXTENDS Flights, FiniteSetsExt, SequencesExt

CONSTANTS
    Draws,      \* the random numbers of a run: rng.to and rng.service
    TopBit,     \* 2^63
    LongestTrip \* the longest flight or service

\* What main accepts of the command line: none of the sizes may be 0.  The
\* directory is none of the regions.
ASSUME ParametersAssumption ==
    /\ {Regions, AirportsPerRegion, NumPlanes, RegionWidth, Speed} \subseteq Nat \ {0}
    /\ {EndTime, EmitPlaneMod, TopBit} \subseteq Nat
    /\ DirectoryLp \notin RegionLps

\* A draw for each leg that can begin before EndTime: another airport, if there is
\* one, by its place among the others, and the length of a service.
ASSUME DrawsAssumption ==
    \A rng \in Draws : \A key \in [plane : Plane, leg : 0..EndTime] :
        /\ rng.service[key] \in Nat
        /\ Regions * AirportsPerRegion > 1 =>
              rng.to[key] \in 0..(Regions * AirportsPerRegion - 2)

\* What LongestTrip is a bound of.
ASSUME TripsAssumption ==
    /\ LongestTrip \in Nat
    /\ \A rng \in Draws : \A key \in [plane : Plane, leg : 0..EndTime] :
          ServiceTime(rng, key) <= LongestTrip
    /\ \A t \in 0..EndTime : \A from, to \in Airport :
          compute_land_time_(t, [region |-> region_of_airport(from),
                                 x |-> airport_x(from), dest |-> to]) <= t + LongestTrip

VARIABLES
    rng,        \* what the seed leads to
    regions,    \* the state of each RegionLP
    owner,      \* the directory's owner of each plane, at the current time
    dirSeq,     \* nextSeqNormal of the directory
    pending,    \* the events that are still to be executed
    now,        \* the stamp of the last one
    out         \* the records in the committed output

vars == <<rng, regions, owner, dirSeq, pending, now, out>>

Init ==
    /\ rng \in Draws
    /\ regions = [lp \in RegionLps |-> on_start(rng, lp).state]
    /\ owner = [p \in Plane |-> lp_of_region(p % Regions)]
    /\ dirSeq = 1
    /\ pending = UNION {ToSet(on_start(rng, lp).sends) : lp \in RegionLps}
    /\ now = [time |-> 0, sequence |-> 0]
    /\ out = <<>>

Before(a, b) == \/ a.time < b.time
                \/ a.time = b.time /\ a.sequence < b.sequence

IsNext(ev) == ev \in pending /\ \A f \in pending \ {ev} : Before(ev.ts, f.ts)

Takes(ev, new) == /\ pending' = (pending \ {ev}) \cup new
                  /\ now' = ev.ts
                  /\ UNCHANGED rng

\* DirectoryLP: a new owner, who gets the plane at the stamp of the update.
UpdateOwner ==
    \E ev \in pending :
        /\ IsNext(ev) /\ ev.dst = DirectoryLp /\ ev.body.kind = "update"
        /\ owner' = [owner EXCEPT ![ev.body.plane] = ev.body.owner]
        /\ Takes(ev, {[ts |-> ev.ts, dst |-> ev.body.owner,
                       body |-> [kind |-> "install", plane |-> ev.body.plane,
                                 state |-> ev.body.state]]})
        /\ UNCHANGED <<regions, dirSeq, out>>

\* DirectoryLP: on to the owner of the plane.
Forward ==
    \E ev \in pending :
        /\ IsNext(ev) /\ ev.dst = DirectoryLp /\ ev.body.kind # "update"
        /\ dirSeq' = dirSeq + 1
        /\ Takes(ev, {[ev EXCEPT !.dst = owner[ev.body.plane],
                                 !.ts.sequence = TopBit + dirSeq]})
        /\ UNCHANGED <<regions, owner, out>>

Handled(ev) == region_on_event(rng, regions[ev.dst], ev)

RegionEvent ==
    \E ev \in pending :
        /\ IsNext(ev) /\ ev.dst # DirectoryLp
        /\ LET r == Handled(ev)
           IN  /\ ~ r.missing /\ ~ r.foreign
               /\ regions' = [regions EXCEPT ![ev.dst] = r.state]
               /\ out' = out \o r.emits
               /\ Takes(ev, ToSet(r.sends))
        /\ UNCHANGED <<owner, dirSeq>>

\* run() returns when nothing is pending.
Done == pending = {} /\ UNCHANGED vars

Next == UpdateOwner \/ Forward \/ RegionEvent \/ Done

Spec == Init /\ [][Next]_vars

-----------------------------------------------------------------------------
(***************************************************************************)
(* Properties.                                                             *)
(***************************************************************************)
\* Type correctness: every stamp has a sequence number that send() keeps, and
\* the queues hold planes.
FlightsTypeOK ==
    /\ \A ev \in pending : /\ ev.ts.time \in 0..EndTime
                           /\ ev.ts.sequence \in Nat \ {0}
                           /\ ev.dst \in RegionLps \cup {DirectoryLp}
    /\ owner \in [Plane -> RegionLps]
    /\ \A lp \in RegionLps :
          /\ DOMAIN regions[lp].planes \subseteq Plane
          /\ \A a \in DOMAIN regions[lp].airports :
                \A i \in DOMAIN regions[lp].airports[a].q :
                    regions[lp].airports[a].q[i].plane \in Plane

\* A plane is always there before it is used: when a landing or the end of a
\* service is due, the region it was forwarded to has the plane in its World
\* and the airport is one of its own.  The crossings that schedule_next_boundary_
\* makes one by one have all happened before the landing that
\* compute_land_time_ foresaw.
NeverMissing ==
    \A ev \in pending :
        IsNext(ev) /\ ev.dst # DirectoryLp => /\ ~ Handled(ev).missing
                                              /\ ~ Handled(ev).foreign

\* A plane that comes back to a region it has left is not mistaken for the copy
\* that stayed in that region's World: it lands where the region thinks it is
\* flying to, under the key of this leg.
LandsAsPlanned ==
    \A ev \in pending :
        IsNext(ev) /\ ev.dst # DirectoryLp /\ ev.body.kind = "land" =>
            LET pl == regions[ev.dst].planes[ev.body.plane]
            IN  /\ pl.inFlight
                /\ pl.dest = ev.body.airport
                /\ pl.region = region_of_airport(ev.body.airport)
                /\ pl.key = ev.body.key

\* The committed output tells one story: each landing is the one that the last
\* departure of the plane announced, at the airport and the time it named, and
\* each departure leaves from where the plane landed last.
RecordsAgree ==
    \A j \in 1..Len(out) :
        LET before == {i \in 1..(j-1) : out[i].plane = out[j].plane}
            prev   == out[Max(before)]
        IN  IF out[j].kind = "land"
            THEN /\ before # {} /\ prev.kind = "depart"
                 /\ prev.to = out[j].at /\ prev.land = out[j].land
            ELSE before # {} => prev.kind = "land" /\ prev.at = out[j].from

\* How often a plane is queued, and how often something is due for it.
QueueOf(a) == regions[lp_of_region(region_of_airport(a))].airports[a].q
QueuedAt(p) == {at \in Airport \X (1..NumPlanes) :
                   /\ at[2] <= Len(QueueOf(at[1]))
                   /\ QueueOf(at[1])[at[2]].plane = p}
DueFor(p) == {ev \in pending : ev.body.plane = p /\ ev.body.kind \in {"land", "done"}}
Places(p) == Cardinality(QueuedAt(p)) + Cardinality(DueFor(p))

\* No plane is doubled or lost on its way through queues, runways, migrations
\* and forwards: it is in one place, until its next event would be too late.
PlanesConserved ==
    \A p \in Plane : \/ Places(p) = 1
                     \/ Places(p) = 0 /\ now.time + LongestTrip > EndTime

\* The runway is taken exactly while the end of one service is due.
RunwayExclusive ==
    \A a \in Airport :
        LET ap  == regions[lp_of_region(region_of_airport(a))].airports[a]
            due == {ev \in pending : ev.body.kind = "done" /\ ev.body.airport = a}
        IN  /\ Cardinality(due) <= 1
            /\ ap.busy <=> due # {}

=============================================================================

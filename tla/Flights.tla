------------------------------ MODULE Flights -------------------------------
(***************************************************************************)
(* RegionLP of regional_airport_migration_demo.cpp: regions in a row, each *)
(* with airports that serve one plane at a time, and planes that fly from  *)
(* airport to airport.  A plane is an entity: at each border it migrates,  *)
(* by an update-owner event to the directory, to the region behind it.     *)
(*                                                                         *)
(* This module holds the handlers; LPs are numbered from 1, regions and    *)
(* airports from 0, as in the code.  The random numbers are a parameter:   *)
(* functions of the logical key, which names a plane and one of its legs.  *)
(***************************************************************************)
EXTENDS Integers, Sequences

CONSTANTS
    Regions,            \* Params::regions
    AirportsPerRegion,  \* Params::airportsPerRegion
    NumPlanes,          \* Params::planes
    RegionWidth,        \* Params::regionWidth
    Speed,              \* Params::speed
    EndTime,            \* Params::endTime
    EmitPlaneMod,       \* Params::emitPlaneMod
    DirectoryLp,        \* kDirectoryLp
    StateEntity         \* kStateEntity

Plane == 0..(NumPlanes - 1)
Airport == 0..(Regions * AirportsPerRegion - 1)
RegionLps == 1..Regions

-----------------------------------------------------------------------------
(***************************************************************************)
(* Places, times and sequence numbers.                                     *)
(***************************************************************************)
lp_of_region(r) == r + 1
region_index_of_lp(lp) == lp - 1
region_of_airport(a) == a \div AirportsPerRegion

airport_x(a) ==
    region_of_airport(a) * RegionWidth
    + ((a % AirportsPerRegion) + 1) * (RegionWidth \div (AirportsPerRegion + 1))

\* An event's place among those of its time: first its class, then the plane.
stable_seq(class, p) == class * (NumPlanes + 1) + p + 1

Dist(a, b) == IF a >= b THEN a - b ELSE b - a

\* Whole time units, at least one, for a distance.
TravelTime(dist) == LET dt == (dist + Speed - 1) \div Speed
                    IN  IF dt = 0 THEN 1 ELSE dt

\* The border that a plane in region r crosses on its way to region dest.
NextRegion(r, dest) == IF dest > r THEN r + 1 ELSE r - 1
BoundaryX(r, dest) == IF dest > r THEN (r + 1) * RegionWidth ELSE r * RegionWidth

\* Border by border, as the plane will cross them, and then to the airport.
compute_land_time_(t, pl) ==
    LET dest  == region_of_airport(pl.dest)
        step  == IF dest > pl.region THEN 1 ELSE -1
        after[k \in 0..Dist(pl.region, dest)] ==
            IF k = 0 THEN [t |-> t, x |-> pl.x]
            ELSE LET bx == BoundaryX(pl.region + (k - 1) * step, dest)
                 IN  [t |-> after[k-1].t + TravelTime(Dist(bx, after[k-1].x)),
                      x |-> bx]
        last  == after[Dist(pl.region, dest)]
    IN  last.t + TravelTime(Dist(airport_x(pl.dest), last.x))

\* The next leg's key, from the last one.
next_logical_key(key) == [key EXCEPT !.leg = @ + 1]

\* The draws: any airport but this one, and a service time.
Destination(rng, a, key) ==
    LET candidate == rng.to[key]
    IN  IF Regions * AirportsPerRegion <= 1 THEN a
        ELSE IF candidate >= a THEN candidate + 1 ELSE candidate
ServiceTime(rng, key) == 1 + rng.service[key]

-----------------------------------------------------------------------------
(***************************************************************************)
(* What a handler sends.  Events with a target go to the directory.        *)
(***************************************************************************)
Targeted(time, class, p, body) ==
    [ts |-> [time |-> time, sequence |-> stable_seq(class, p)],
     dst |-> DirectoryLp, body |-> body]

Land(t, p, key, a) ==
    Targeted(t, 3, p, [kind |-> "land", plane |-> p, airport |-> a, key |-> key])

ServiceDone(t, p, key, a) ==
    Targeted(t, 4, p, [kind |-> "done", plane |-> p, airport |-> a, key |-> key])

\* Mutant: the plane arrives with the region it comes from.
BoundaryOldRegion(t, p, pl) ==
    LET dest  == region_of_airport(pl.dest)
        bx    == BoundaryX(pl.region, dest)
        cross == t + TravelTime(Dist(bx, pl.x))
    IN  IF pl.region = dest \/ cross > EndTime THEN <<>>
        ELSE <<Targeted(cross, 1, p,
                        [kind |-> "update", plane |-> p,
                         owner |-> lp_of_region(NextRegion(pl.region, dest)),
                         state |-> [pl EXCEPT !.x = bx]])>>

\* schedule_next_boundary_: the plane as it will be when it crosses.
schedule_next_boundary_(t, p, pl) ==
    LET dest  == region_of_airport(pl.dest)
        bx    == BoundaryX(pl.region, dest)
        next  == NextRegion(pl.region, dest)
        cross == t + TravelTime(Dist(bx, pl.x))
    IN  IF pl.region = dest \/ cross > EndTime THEN <<>>
        ELSE <<Targeted(cross, 1, p,
                        [kind |-> "update", plane |-> p,
                         owner |-> lp_of_region(next),
                         state |-> [pl EXCEPT !.region = next, !.x = bx]])>>

-----------------------------------------------------------------------------
(***************************************************************************)
(* The airports.  A region's state is its airports and its World: the      *)
(* planes it has ever been given, the ones that have left it included.     *)
(***************************************************************************)
NewAirport == [busy |-> FALSE, q |-> <<>>, arrivals |-> 0, departures |-> 0]

\* Mutant: the runway is free again though its plane has not left.
StartNextFree(rng, ap, a, t) ==
    LET tok  == Head(ap.q)
        done == t + ServiceTime(rng, tok.key)
        rest == [ap EXCEPT !.q = Tail(@)]
    IN  IF ap.busy \/ ap.q = <<>> THEN [airport |-> ap, sends |-> <<>>]
        ELSE IF done > EndTime THEN [airport |-> rest, sends |-> <<>>]
        ELSE [airport |-> rest, sends |-> <<ServiceDone(done, tok.plane, tok.key, a)>>]

\* Mutant: the end of the run does not matter.
StartNextTooLate(rng, ap, a, t) ==
    LET tok == Head(ap.q)
    IN  IF ap.busy \/ ap.q = <<>> THEN [airport |-> ap, sends |-> <<>>]
        ELSE [airport |-> [ap EXCEPT !.q = Tail(@), !.busy = TRUE],
              sends |-> <<ServiceDone(t + ServiceTime(rng, tok.key), tok.plane,
                                      tok.key, a)>>]

\* Mutant: the plane is served and stays in the queue.
StartNextUnpopped(rng, ap, a, t) ==
    LET tok  == Head(ap.q)
        done == t + ServiceTime(rng, tok.key)
    IN  IF ap.busy \/ ap.q = <<>> \/ done > EndTime
        THEN [airport |-> ap, sends |-> <<>>]
        ELSE [airport |-> [ap EXCEPT !.busy = TRUE],
              sends |-> <<ServiceDone(done, tok.plane, tok.key, a)>>]

\* start_next_: a service that would end too late is not begun, and its plane
\* is not queued again.
start_next_(rng, ap, a, t) ==
    LET tok  == Head(ap.q)
        done == t + ServiceTime(rng, tok.key)
        rest == [ap EXCEPT !.q = Tail(@)]
    IN  IF ap.busy \/ ap.q = <<>> THEN [airport |-> ap, sends |-> <<>>]
        ELSE IF done > EndTime THEN [airport |-> rest, sends |-> <<>>]
        ELSE [airport |-> [rest EXCEPT !.busy = TRUE],
              sends |-> <<ServiceDone(done, tok.plane, tok.key, a)>>]

enqueue_arrival_(rng, ap, a, p, key, t) ==
    LET queued == [ap EXCEPT !.arrivals = @ + 1,
                             !.q = Append(@, [plane |-> p, key |-> key])]
    IN  IF queued.busy THEN [airport |-> queued, sends |-> <<>>]
                       ELSE start_next_(rng, queued, a, t)

-----------------------------------------------------------------------------
(***************************************************************************)
(* on_event.  emits: the records for the committed output; missing: the    *)
(* World does not know the plane; foreign: the airport is not one of this  *)
(* region.  The code throws for either.                                    *)
(***************************************************************************)
Result(s, sends, writes, emits) ==
    [state |-> s, sends |-> sends, writes |-> writes, emits |-> emits,
     missing |-> FALSE, foreign |-> FALSE]

\* The records of some planes are left out.
EmitIf(p, rec) == IF EmitPlaneMod # 0 /\ p % EmitPlaneMod = 0 THEN <<rec>> ELSE <<>>

HasPlane(s, p) == p \in DOMAIN s.planes
HasAirport(s, a) == a \in DOMAIN s.airports

WithPlane(planes, p, pl) ==
    [q \in DOMAIN planes \cup {p} |-> IF q = p THEN pl ELSE planes[q]]

\* Mutant: a plane that the World knows is not overwritten.
InstallOnlyNew(s, ev) ==
    LET p  == ev.body.plane
        pl == IF HasPlane(s, p) THEN s.planes[p] ELSE ev.body.state
    IN  Result([s EXCEPT !.planes = WithPlane(@, p, pl)],
               IF pl.inFlight THEN schedule_next_boundary_(ev.ts.time, p, pl)
                              ELSE <<>>,
               {}, <<>>)

\* The plane is put into the World without request_write.
OnInstall(s, ev) ==
    LET pl == ev.body.state
    IN  Result([s EXCEPT !.planes = WithPlane(@, ev.body.plane, pl)],
               IF pl.inFlight
               THEN schedule_next_boundary_(ev.ts.time, ev.body.plane, pl)
               ELSE <<>>,
               {}, <<>>)

OnLand(rng, s, ev) ==
    LET p  == ev.body.plane
        a  == ev.body.airport
        pl == [s.planes[p] EXCEPT !.inFlight = FALSE, !.x = airport_x(a),
                                  !.region = region_of_airport(a),
                                  !.key = ev.body.key]
        r  == enqueue_arrival_(rng, s.airports[a], a, p, ev.body.key, ev.ts.time)
    IN  Result([planes |-> WithPlane(s.planes, p, pl),
                airports |-> [s.airports EXCEPT ![a] = r.airport]],
               r.sends, {StateEntity},
               EmitIf(p, [kind |-> "land", plane |-> p, at |-> a, land |-> ev.ts.time]))

\* Mutant: the two airports are swapped.
DepartRecordSwapped(p, from, to, t, land) ==
    EmitIf(p, [kind |-> "depart", plane |-> p, from |-> to, to |-> from,
               time |-> t, land |-> land])

DepartRecord(p, from, to, t, land) ==
    EmitIf(p, [kind |-> "depart", plane |-> p, from |-> from, to |-> to,
               time |-> t, land |-> land])

\* The plane leaves; the next one in the queue is served.
OnServiceDone(rng, s, ev) ==
    LET p    == ev.body.plane
        a    == ev.body.airport
        t    == ev.ts.time
        next == next_logical_key(ev.body.key)
        pl   == [s.planes[p] EXCEPT !.inFlight = TRUE, !.key = next,
                                    !.dest = Destination(rng, a, ev.body.key)]
        land == compute_land_time_(t, pl)
        r    == start_next_(rng, [s.airports[a] EXCEPT !.busy = FALSE,
                                                       !.departures = @ + 1], a, t)
    IN  Result([planes |-> WithPlane(s.planes, p, pl),
                airports |-> [s.airports EXCEPT ![a] = r.airport]],
               (IF land <= EndTime
                THEN <<Land(land, p, next, pl.dest)>>
                     \o schedule_next_boundary_(t, p, pl)
                ELSE <<>>) \o r.sends,
               {StateEntity},
               IF land <= EndTime
               THEN DepartRecord(p, a, pl.dest, t, land)
               ELSE <<>>)

region_on_event(rng, s, ev) ==
    IF ev.body.kind = "install" THEN OnInstall(s, ev)
    ELSE IF ~ HasPlane(s, ev.body.plane)
    THEN [Result(s, <<>>, {StateEntity}, <<>>) EXCEPT !.missing = TRUE]
    ELSE IF ~ HasAirport(s, ev.body.airport)
    THEN [Result(s, <<>>, {StateEntity}, <<>>) EXCEPT !.foreign = TRUE]
    ELSE IF ev.body.kind = "land" THEN OnLand(rng, s, ev)
    ELSE OnServiceDone(rng, s, ev)

\* Mutant: the number of airports is read and nothing else.
LoadNothing(s, old) == s

\* load_state has the airports only.
region_load_state(s, old) ==
    IF StateEntity \in DOMAIN old
    THEN [s EXCEPT !.airports = old[StateEntity].airports] ELSE s

-----------------------------------------------------------------------------
(***************************************************************************)
(* on_start: each plane arrives at its home airport, in the order of ids.  *)
(***************************************************************************)
HomeRegion(p) == p % Regions
HomeAirport(p) == HomeRegion(p) * AirportsPerRegion + (p % AirportsPerRegion)

StartPlane(p) ==
    [region |-> HomeRegion(p), x |-> airport_x(HomeAirport(p)),
     dest |-> HomeAirport(p), inFlight |-> FALSE, key |-> [plane |-> p, leg |-> 0]]

EmptyRegion(lp) ==
    [planes |-> <<>>,
     airports |-> [a \in {b \in Airport :
                             region_of_airport(b) = region_index_of_lp(lp)} |->
                     NewAirport]]

on_start(rng, lp) ==
    LET upTo[n \in 0..NumPlanes] ==
          IF n = 0 THEN [state |-> EmptyRegion(lp), sends |-> <<>>]
          ELSE LET p == n - 1
                   s == upTo[n - 1].state
                   a == HomeAirport(p)
                   r == enqueue_arrival_(rng, s.airports[a], a, p,
                                         StartPlane(p).key, 0)
               IN  IF HomeRegion(p) # region_index_of_lp(lp) THEN upTo[n - 1]
                   ELSE [state |-> [planes |-> WithPlane(s.planes, p, StartPlane(p)),
                                    airports |-> [s.airports EXCEPT ![a] = r.airport]],
                         sends |-> upTo[n - 1].sends \o r.sends]
    IN  upTo[NumPlanes]

=============================================================================

------------------------------- MODULE Airport ------------------------------
(***************************************************************************)
(* AirportLP of airport_fujimoto.cpp: planes arrive, wait for the one      *)
(* runway, are served and leave for another airport.  Every event has a    *)
(* sequence number of its own among those of its time, so that the result  *)
(* does not depend on how LPs are placed.                                  *)
(*                                                                         *)
(* The random numbers are functions of the logical key, which names a      *)
(* plane and one of its legs.                                              *)
(***************************************************************************)
EXTENDS LpRecords

CONSTANTS
    AirportLp,      \* the LP
    NumAirports,    \* Params::airports: LPs 1..NumAirports
    NumPlanes,      \* Params::planes: 0..NumPlanes-1
    EndTime,        \* Params::endTime
    EmitPlaneMod,   \* Params::emitPlaneMod
    ServiceDraw,    \* ServiceDraw[key] \in 1..serviceMax
    ToDraw,         \* ToDraw[key] \in 0..(NumAirports-2)
    FlightDraw,     \* FlightDraw[key] \in 1..flightMax
    StateEntity     \* kStateEntity

-----------------------------------------------------------------------------
\* kindClass, dst and plane, from the top bits down; never 0.
stable_seq(class, dst, plane) ==
    (class * (NumAirports + 1) + dst) * (NumPlanes + 1) + plane + 1

next_logical_key(key) == [key EXCEPT !.leg = @ + 1]

\* What goes into an airport's queue and what it sends to dst.
PlaneEvent(kind, class, time, dst, key) ==
    [ts |-> [time |-> time, sequence |-> stable_seq(class, dst, key.plane)],
     dst |-> dst, body |-> [kind |-> kind, key |-> key]]

PlaneArrive(time, dst, key) == PlaneEvent("arrive", 0, time, dst, key)
ServiceDone(time, key) == PlaneEvent("done", 1, time, AirportLp, key)

NewAirport == [busy |-> FALSE, q |-> <<>>, arrivals |-> 0, departures |-> 0,
               maxQ |-> 0]

\* Mutant: the runway stays free.
StartNextUnmarked(s, t) ==
    LET key  == Head(s.q)
        done == t + 1 + ServiceDraw[key]
        rest == [s EXCEPT !.q = Tail(@)]
    IN  IF s.busy \/ s.q = <<>> THEN [state |-> s, sends |-> <<>>]
        ELSE IF done > EndTime THEN [state |-> rest, sends |-> <<>>]
        ELSE [state |-> rest, sends |-> <<ServiceDone(done, key)>>]

\* Mutant: the last of the queue is next.
StartNewest(s, t) ==
    LET key  == Last(s.q)
        done == t + 1 + ServiceDraw[key]
        rest == [s EXCEPT !.q = Front(@)]
    IN  IF s.busy \/ s.q = <<>> THEN [state |-> s, sends |-> <<>>]
        ELSE IF done > EndTime THEN [state |-> rest, sends |-> <<>>]
        ELSE [state |-> [rest EXCEPT !.busy = TRUE],
              sends |-> <<ServiceDone(done, key)>>]

\* Mutant: a plane that cannot be served blocks the runway.
StartNextBlocking(s, t) ==
    LET key  == Head(s.q)
        done == t + 1 + ServiceDraw[key]
        rest == [s EXCEPT !.q = Tail(@), !.busy = TRUE]
    IN  IF s.busy \/ s.q = <<>> THEN [state |-> s, sends |-> <<>>]
        ELSE IF done > EndTime THEN [state |-> rest, sends |-> <<>>]
        ELSE [state |-> rest, sends |-> <<ServiceDone(done, key)>>]

\* start_next_: a plane whose service would end too late leaves the queue and is
\* not served.
start_next_(s, t) ==
    LET key  == Head(s.q)
        done == t + 1 + ServiceDraw[key]
        rest == [s EXCEPT !.q = Tail(@)]
    IN  IF s.busy \/ s.q = <<>> THEN [state |-> s, sends |-> <<>>]
        ELSE IF done > EndTime THEN [state |-> rest, sends |-> <<>>]
        ELSE [state |-> [rest EXCEPT !.busy = TRUE],
              sends |-> <<ServiceDone(done, key)>>]

\* Any airport but this one.
Destination(key) ==
    LET candidate == 1 + ToDraw[key]
    IN  IF NumAirports <= 1 THEN AirportLp
        ELSE IF candidate >= AirportLp THEN candidate + 1 ELSE candidate

OnArrive(s, ev) ==
    LET q == Append(s.q, ev.body.key)
        r == start_next_([s EXCEPT !.arrivals = @ + 1, !.q = q,
                                   !.maxQ = Max({@, Len(q)})], ev.ts.time)
    IN  [state |-> r.state, sends |-> r.sends, writes |-> {StateEntity},
         emits |-> <<>>]

\* The record of a departure is made although the flight may end too late.
Departure(key, to, depart, arrive) ==
    IF EmitPlaneMod # 0 /\ key.plane % EmitPlaneMod = 0
    THEN <<[plane |-> key.plane, from |-> AirportLp, to |-> to, depart |-> depart,
            arrive |-> arrive, key |-> key]>>
    ELSE <<>>

OnServiceDone(s, ev) ==
    LET key    == ev.body.key
        to     == Destination(key)
        arrive == ev.ts.time + 1 + FlightDraw[key]
        r      == start_next_([s EXCEPT !.busy = FALSE, !.departures = @ + 1],
                              ev.ts.time)
    IN  [state |-> r.state,
         sends |-> (IF arrive <= EndTime
                    THEN <<PlaneArrive(arrive, to, next_logical_key(key))>>
                    ELSE <<>>) \o r.sends,
         writes |-> {StateEntity},
         emits |-> Departure(key, to, ev.ts.time, arrive)]

on_event(s, ev) == CASE ev.body.kind = "arrive" -> OnArrive(s, ev)
                     [] ev.body.kind = "done" -> OnServiceDone(s, ev)

load_state(s, old) ==
    IF StateEntity \in DOMAIN old THEN old[StateEntity] ELSE s

\* DriverLP::on_start: the planes that start at this airport.
HomeAirport(plane) == 1 + (plane % NumAirports)
Seeded(plane) ==
    [ts |-> [time |-> 0, sequence |-> stable_seq(0, AirportLp, plane)],
     src |-> NumAirports + 1, uid |-> plane + 1, dst |-> AirportLp,
     body |-> [kind |-> "arrive", key |-> [plane |-> plane, leg |-> 0]],
     anti |-> FALSE]

-----------------------------------------------------------------------------
(***************************************************************************)
(* Properties.                                                             *)
(***************************************************************************)
Arrivals == Standing("arrive")
KeyAt(a) == log[a].ev.body.key

\* The services that were begun and stand, in the order of beginning: each by
\* the entry of the sent log that announced its end.
Services == {m \in 1..Len(sentLog) : sentLog[m].ev.body.kind = "done"}
Served(m) == sentLog[m].ev.body.key

\* One plane at a time uses the runway: of two services that stand, the one that
\* began first had ended before the other one began, although arrivals that come
\* late or are withdrawn undo services and begin others in their place.
OneServiceAtATime ==
    Settled => \A m, n \in Services :
        m < n => sentLog[m].ev.ts.time <= sentLog[n].at.time

\* Planes are served in the order of their arrival in virtual time, none twice:
\* the keys of the services that stand are those of standing arrivals, and a
\* plane that arrived later was not served first.
FirstComeFirstServed ==
    Settled =>
        /\ \A m \in Services : \E a \in Arrivals : KeyAt(a) = Served(m)
        /\ \A m, n \in Services : \A a, b \in Arrivals :
              m < n /\ KeyAt(a) = Served(m) /\ KeyAt(b) = Served(n)
              => Lt(log[a].ev.ts, log[b].ev.ts)

\* The counters that main adds up agree with the queue and the runway: whoever
\* arrived has left, waits, is being served, or was turned away because the
\* service would have ended after endTime.
CountersBalance ==
    LET turnedAway == {a \in Arrivals : /\ \A m \in Services : Served(m) # KeyAt(a)
                                        /\ \A i \in 1..Len(state.q) : state.q[i] # KeyAt(a)}
    IN  Settled => state.arrivals = state.departures + Len(state.q)
                            + (IF state.busy THEN 1 ELSE 0) + Cardinality(turnedAway)

=============================================================================

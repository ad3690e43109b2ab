----------------------------- MODULE MCPrograms -----------------------------
(***************************************************************************)
(* The LPs of the library and of its examples under the optimistic kernel: *)
(* AoiLP, a region of the missile example, the exchange and the traders of *)
(* the market example, an airport of the Fujimoto example, and a region of *)
(* the migration example.  Each is on its own, with a few events that make *)
(* it interesting; some come late and some are taken back.                 *)
(***************************************************************************)
EXTENDS OptimisticLp

At(t, s) == [time |-> t, sequence |-> s]

\* An event from another LP.
From(src, uid, ts, dst, body) ==
    [ts |-> ts, src |-> src, uid |-> uid, dst |-> dst, body |-> body, anti |-> FALSE]

AoiLp      == 9
AirportLp  == 1
RegionLp   == 2
ExchangeLp == 20
TraderLp   == 21
MissileLp  == 31
MCLps == {AoiLp, AirportLp, RegionLp, ExchangeLp, TraderLp, MissileLp}
MCRegions == {RegionLp}

-----------------------------------------------------------------------------
(***************************************************************************)
(* AoiLP: two entities on the x axis, one of which moves in and out of a   *)
(* sphere and a cone while they are asked about.                           *)
(***************************************************************************)
AO == INSTANCE Aoi WITH ExcludeSelf <- TRUE, StateEntity <- 100

Point(x) == <<x, 0, 0>>
Near(r, asker) ==
    [requestId |-> r, self |-> asker, shape |-> "sphere", origin |-> Point(0),
     radius |-> 2, direction |-> Point(0), range |-> 0, cos2 |-> <<1, 1>>]
Ahead(r, asker) ==
    [Near(r, asker) EXCEPT !.shape = "cone", !.radius = 0,
                           !.direction = Point(1), !.range = 3, !.cos2 = <<1, 2>>]

MoveOut == AO!send_update(At(2, 1), 1, 2, 1, Point(5))
AskSphere == AO!send_query(At(2, 3), 2, 2, Near(7, 2))
AoiInputs == {AO!send_update(At(1, 1), 1, 1, 1, Point(1)), MoveOut,
              AO!send_update(At(2, 2), 2, 1, 2, Point(2)), AskSphere,
              AO!send_query(At(3, 1), 1, 3, Ahead(8, 0)),
              AO!ToAoi(At(3, 2), 2, 3, [kind |-> "other"])}

-----------------------------------------------------------------------------
(***************************************************************************)
(* A region with two planes, under fire from region 32, whose plane 3201   *)
(* the AOI LP finds near plane 3102.  Three hits on plane 3101: two come   *)
(* before the tick of their time, and one is friendly fire.                *)
(***************************************************************************)
OwnerLp(e) == e \div 100
MS == INSTANCE Missile WITH RegionLp <- MissileLp, Planes <- <<3101, 3102>>,
                            MinX <- 0, MaxX <- 3, FarAway <- 99, QueryEvery <- 1,
                            Damage <- 1, EndTime <- 2

\* The AOI LP's answer comes at the stamp of the question.
Found(ev) ==
    IF ev.body.kind # "query" THEN {}
    ELSE {From(AoiLp, ev.uid, ev.ts, MissileLp,
               [kind |-> "result", req |-> ev.body.req,
                entities |-> IF ev.body.req[1] = 3102 THEN <<3101, 3201>>
                                                      ELSE <<3102>>])}

HitBy(shooter, target, t, s, uid, damage) ==
    From(32, uid, At(t, s), MissileLp,
         [kind |-> "hit", shooter |-> shooter, target |-> target, damage |-> damage])

TakenBackHit == HitBy(3201, 3101, 2, 2, 2, 2)
MissileInputs == {HitBy(3201, 3101, 2, 1, 1, 0), TakenBackHit,
                  HitBy(3102, 3101, 3, 1, 3, 1)}

-----------------------------------------------------------------------------
(***************************************************************************)
(* The exchange with bids and asks that cross, equal prices and two rounds *)
(* of matching, the first one with a limit; and the traders' LP with fills *)
(* that the exchange takes back and sends again.                           *)
(***************************************************************************)
MK == INSTANCE Market WITH Book <- "book", Audit <- "audit", FirstCash <- 6,
                           CashModulus <- 16

Place(t, n, side, qty, price, trader) ==
    From(TraderLp, n, At(t, n), ExchangeLp,
         [kind |-> "place", trader |-> trader, side |-> side, qty |-> qty,
          price |-> price])
MatchAt(t, n, max) ==
    From(TraderLp, n, At(t, n), ExchangeLp, [kind |-> "match", maxTrades |-> max])

Orders == {Place(3, 1, "bid", 2, 5, "A"), Place(1, 2, "bid", 1, 5, "C"),
           Place(2, 3, "ask", 2, 4, "B"), MatchAt(4, 4, 1),
           Place(5, 5, "ask", 2, 5, "B"), MatchAt(6, 6, 4)}

FillAt(t, uid, trader, cash, pos) ==
    From(ExchangeLp, uid, At(t, 4), TraderLp,
         [kind |-> "fill", trader |-> trader, cashDelta |-> cash, posDelta |-> pos])

\* A match at 4 that is undone and done again, and one at 6.
EarlyFills == {FillAt(4, 1, "A", -8, 2), FillAt(4, 2, "B", 8, -2)}
Fills == EarlyFills \cup {FillAt(4, 3, "A", -4, 1), FillAt(4, 4, "B", 4, -1),
                          FillAt(6, 5, "A", -5, 1)}

-----------------------------------------------------------------------------
(***************************************************************************)
(* Airport 1 of two, with two planes of its own and two that come from the *)
(* other airport, one at the time of a service's end.  The other airport   *)
(* may take an arrival back.  Plane 0 comes back whenever it leaves.       *)
(***************************************************************************)
PlaneKeys == [plane : 0..3, leg : 0..9]
AP == INSTANCE Airport WITH
          NumAirports <- 2, NumPlanes <- 4, EndTime <- 8, EmitPlaneMod <- 1,
          ServiceDraw <- [k \in PlaneKeys |-> 1 + ((k.plane + k.leg) % 2)],
          ToDraw <- [k \in PlaneKeys |-> 0], FlightDraw <- [k \in PlaneKeys |-> 1],
          StateEntity <- 300

FromAirport2(t, plane, leg, uid) ==
    From(2, uid, At(t, AP!stable_seq(0, AirportLp, plane)), AirportLp,
         [kind |-> "arrive", key |-> [plane |-> plane, leg |-> leg]])

EarlyArrival == FromAirport2(2, 1, 1, 1)
AirportInputs == {AP!Seeded(0), AP!Seeded(2), EarlyArrival, FromAirport2(3, 3, 1, 2)}

ComesBack(ev) ==
    IF ev.body.key.plane = 0 /\ ev.ts.time + 3 <= 8
    THEN {FromAirport2(ev.ts.time + 3, 0, ev.body.key.leg + 1, 10 + ev.uid)} ELSE {}

ASSUME \A p \in {0, 2} : AP!HomeAirport(p) = AirportLp

-----------------------------------------------------------------------------
(***************************************************************************)
(* The middle one of three regions, with one airport.  Plane 0 comes in    *)
(* from the left, lands, and comes by again; plane 1, whose home the       *)
(* airport is, is being served.  The directory may take the first install  *)
(* and the landing back.                                                   *)
(***************************************************************************)
FL == INSTANCE Flights WITH Regions <- 3, AirportsPerRegion <- 1, NumPlanes <- 2,
                            RegionWidth <- 4, Speed <- 3, EndTime <- 12,
                            EmitPlaneMod <- 1, DirectoryLp <- 100, StateEntity <- 200
Rng == [to |-> [k \in PlaneKeys |-> 1], service |-> [k \in PlaneKeys |-> 6]]

FromDirectory(t, s, uid, body) == From(100, uid, At(t, s), RegionLp, body)

Flying(x, dest, leg) == [region |-> 1, x |-> x, dest |-> dest, inFlight |-> TRUE,
                         key |-> [plane |-> 0, leg |-> leg]]

Install0 == FromDirectory(3, FL!stable_seq(1, 0), 1,
                          [kind |-> "install", plane |-> 0, state |-> Flying(4, 1, 1)])
Land0 == FromDirectory(4, 20, 2, [kind |-> "land", plane |-> 0, airport |-> 1,
                                  key |-> [plane |-> 0, leg |-> 1]])
Done1 == FromDirectory(7, 21, 3, [kind |-> "done", plane |-> 1, airport |-> 1,
                                  key |-> [plane |-> 1, leg |-> 0]])
Return0 == FromDirectory(8, FL!stable_seq(1, 0), 4,
                         [kind |-> "install", plane |-> 0, state |-> Flying(8, 0, 2)])

-----------------------------------------------------------------------------
(***************************************************************************)
(* The constants of OptimisticLp.                                          *)
(***************************************************************************)
\* Only a region of the migration example throws.
Handled(r) == [state |-> r.state, sends |-> r.sends, writes |-> r.writes,
               missing |-> FALSE, fatal |-> FALSE]

MCOnEvent(lp, s, ev) ==
    CASE lp = AoiLp      -> Handled(AO!on_event(s, ev))
      [] lp = MissileLp  -> Handled(MS!on_event(s, ev))
      [] lp = ExchangeLp -> Handled(MK!exchange_on_event(s, ev))
      [] lp = TraderLp   -> Handled(MK!trader_on_event(s, ev))
      [] lp = AirportLp  -> Handled(AP!on_event(s, ev))
      [] lp = RegionLp   ->
            LET r == FL!region_on_event(Rng, s, ev)
            IN  [Handled(r) EXCEPT !.missing = r.missing, !.fatal = r.foreign]

MCInitState(lp) ==
    CASE lp = AoiLp      -> AO!NoPositions
      [] lp = MissileLp  -> MS!InitRegion
      [] lp = ExchangeLp -> MK!NewExchange
      [] lp = TraderLp   -> [t \in {"A", "B"} |-> MK!NewTrader]
      [] lp = AirportLp  -> AP!NewAirport
      [] lp = RegionLp   -> FL!on_start(Rng, RegionLp).state

MCLoad(lp, s, old) ==
    CASE lp = AoiLp      -> AO!load_state(s, old)
      [] lp = MissileLp  -> MS!load_entity(s, old)
      [] lp = ExchangeLp -> MK!exchange_load_entity(s, old)
      [] lp = TraderLp   -> MK!trader_load_entity(s, old)
      [] lp = AirportLp  -> AP!load_state(s, old)
      [] lp = RegionLp   -> FL!region_load_state(s, old)

\* The missile example saves planes only, the migration example airports only.
MCEntities(lp) ==
    CASE lp = AoiLp      -> {100}
      [] lp = MissileLp  -> {3101, 3102}
      [] lp = ExchangeLp -> {"book", "audit"}
      [] lp = TraderLp   -> {"A", "B"}
      [] lp = AirportLp  -> {300}
      [] lp = RegionLp   -> {200}

MCPart(lp, s, e) ==
    CASE lp = MissileLp  -> s.planes[e]
      [] lp = ExchangeLp -> s[e]
      [] lp = TraderLp   -> s[e]
      [] lp = RegionLp   -> s.airports
      [] OTHER           -> s

MCStartSends(lp) == CASE lp = MissileLp -> MS!SentOnStart
                      [] lp = RegionLp  -> Len(FL!on_start(Rng, RegionLp).sends)
                      [] lp = TraderLp  -> 6
                      [] OTHER          -> 0
MCStarted(lp) == IF lp = MissileLp THEN {MS!FirstTick} ELSE {}

MCInputs(lp) == CASE lp = AoiLp      -> AoiInputs
                  [] lp = MissileLp  -> MissileInputs
                  [] lp = ExchangeLp -> Orders
                  [] lp = TraderLp   -> Fills
                  [] lp = AirportLp  -> AirportInputs
                  [] lp = RegionLp   -> {Install0, Land0, Done1, Return0}

MCReplies(lp, ev) == CASE lp = MissileLp -> Found(ev)
                       [] lp = AirportLp -> ComesBack(ev)
                       [] OTHER          -> {}

MCRevocable(lp) == CASE lp = AoiLp      -> {MoveOut, AskSphere}
                     [] lp = MissileLp  -> {TakenBackHit}
                     [] lp = ExchangeLp -> {}
                     [] lp = TraderLp   -> EarlyFills
                     [] lp = AirportLp  -> {EarlyArrival}
                     [] lp = RegionLp   -> {Install0, Land0}

MCGvtStamps(lp) == CASE lp = AoiLp     -> {At(2, 1), At(2, 3), At(3, 1)}
                     [] lp = MissileLp -> {At(2, 1), At(2, 4)}
                     [] lp = AirportLp -> {At(2, 0), At(4, 0)}
                     [] lp = RegionLp  -> {At(3, 1), At(6, 0)}
                     [] OTHER          -> {At(2, 0), At(5, 0)}

MCMaxUid(lp) == CASE lp = MissileLp  -> 15
                  [] lp = ExchangeLp -> 24
                  [] lp = RegionLp   -> 12
                  [] OTHER           -> 6

\* Only the migration example has an installEventKind.
MCTarget(ev) == ev.body.plane
MCIsInstall(ev) == ev.body.kind = "install"

-----------------------------------------------------------------------------
(***************************************************************************)
(* Properties of single LPs.                                               *)
(***************************************************************************)
\* AoiLP: an answer that stands lists who was in the shape at the stamp of the
\* question, though updates come late or are withdrawn (see Aoi).
AnswersAreCurrent == self = AoiLp => AO!AnswersAreCurrent

\* on_missile_hit_: a plane has taken each standing hit once, until it was shot
\* down, and is short of what they are worth (see Missile).
HitsAccountedFor == self = MissileLp => MS!HitsAccountedFor

\* ExchangeLP: the fills that stand move to each trader what was filled of its
\* standing orders, and the buyers' money goes to the sellers (see Market).
FillsAccountForOrders == self = ExchangeLp => MK!FillsAccountForOrders

\* ExchangeLP: price-time priority holds by virtual time, not by the order of
\* execution (see Market).
EarlierOrderFirst == self = ExchangeLp => MK!EarlierOrderFirst

\* AirportLP: one plane at a time uses the runway, though arrivals come late or
\* are withdrawn (see Airport).
OneServiceAtATime == self = AirportLp => AP!OneServiceAtATime

\* AirportLP: planes are served in the order of their arrival in virtual time,
\* none twice (see Airport).
FirstComeFirstServed == self = AirportLp => AP!FirstComeFirstServed

\* AirportLP: the counters that main adds up agree with the queue, the runway and
\* the planes that were turned away (see Airport).
CountersBalance == self = AirportLp => AP!CountersBalance

\* RegionLP of the migration example: though load_state does not bring back the
\* planes, rollback changes no outcome; its handlers overwrite what they read of a
\* plane that an undone event has left behind (OutcomeIsReplay of OptimisticLp).
RegionOutcomeIsReplay == self = RegionLp => OutcomeIsReplay

=============================================================================

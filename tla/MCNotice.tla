------------------------------ MODULE MCNotice ------------------------------
(***************************************************************************)
(* An instance of GvtNotice: a RegionLP of Flights, the first LP of its    *)
(* rank, on whose airport plane 0 is served until time 7; plane 1 comes in *)
(* and lands before that.                                                  *)
(***************************************************************************)
EXTENDS GvtNotice

At(t, s) == [time |-> t, sequence |-> s]

FL == INSTANCE Flights WITH Regions <- 2, AirportsPerRegion <- 1, NumPlanes <- 2,
                            RegionWidth <- 4, Speed <- 3, EndTime <- 12,
                            EmitPlaneMod <- 1, DirectoryLp <- DirectoryOf,
                            StateEntity <- 200
AnyKey == [plane : 0..1, leg : 0..9]
Rng == [to |-> [k \in AnyKey |-> 0], service |-> [k \in AnyKey |-> 6]]

MCOnEvent(lp, s, ev) ==
    LET r == FL!region_on_event(Rng, s, ev)
    IN  [state |-> r.state, sends |-> r.sends, writes |-> r.writes,
         missing |-> r.missing, fatal |-> r.foreign]
MCInitState(lp) == FL!on_start(Rng, lp).state
MCStartSends(lp) == Len(FL!on_start(Rng, lp).sends)
MCLoad(lp, s, old) == FL!region_load_state(s, old)
MCEntities(lp) == {200}
MCPart(lp, s, e) == s.airports
MCTarget(ev) == ev.body.plane
MCIsInstall(ev) == ev.body.kind = "install"

FromDirectory(t, s, uid, body) ==
    [ts |-> At(t, s), src |-> DirectoryOf, uid |-> uid, dst |-> 1,
     body |-> body, anti |-> FALSE]

Install1 == FromDirectory(5, FL!stable_seq(1, 1), 1,
                          [kind |-> "install", plane |-> 1,
                           state |-> [region |-> 0, x |-> 4, dest |-> 0,
                                      inFlight |-> TRUE,
                                      key |-> [plane |-> 1, leg |-> 1]]])
Land1 == FromDirectory(6, 20, 2, [kind |-> "land", plane |-> 1, airport |-> 0,
                                  key |-> [plane |-> 1, leg |-> 1]])
Done0 == FromDirectory(7, 21, 3, [kind |-> "done", plane |-> 0, airport |-> 0,
                                  key |-> [plane |-> 0, leg |-> 0]])

MCInputs(lp) == {Install1, Land1, Done0}
MCStarted(lp) == {}
MCReplies(lp, ev) == {}
MCRevocable(lp) == {}
MCGvtStamps(lp) == {At(6, 20)}
MCMaxUid(lp) == 12

=============================================================================

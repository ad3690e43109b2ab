------------------------------ MODULE Missile -------------------------------
(***************************************************************************)
(* RegionLP of airplanes_missile_aoi_demo.cpp: a region moves its planes   *)
(* at every tick, publishes their positions to the AOI LP, asks it now and *)
(* then who is near one of them, and fires at a plane of another region    *)
(* when the answer comes.  It saves planes one by one; whatever else it    *)
(* keeps is only saved by save_state, which the kernel does not call for   *)
(* an LP that saves entities.                                              *)
(*                                                                         *)
(* Positions have one coordinate, in the region's bounds; the velocity is  *)
(* one step left or right.                                                 *)
(***************************************************************************)
EXTENDS LpRecords

CONSTANTS
    RegionLp,       \* the LP
    AoiLp,          \* the AOI LP
    Planes,         \* m_planeIds: a sequence of this region's planes
    OwnerLp(_),     \* owner_lp(), the region in a plane's id
    MinX, MaxX,     \* the bounds of the region
    FarAway,        \* where a plane goes that has been shot down
    QueryEvery,     \* Params::queryEvery
    Damage,         \* Params::damage
    EndTime         \* Params::endTime

-----------------------------------------------------------------------------
\* Plane::hp when it starts.
FullHp == 3

NewPlane(x, vel) == [pos |-> x, vel |-> vel, hp |-> FullHp, lastFireTime |-> 0,
                     shotsFired |-> 0, hitsTaken |-> 0, kills |-> 0,
                     alive |-> TRUE]

\* The first plane starts near one border and the others near the other one,
\* each on its way across it.
NoRequest == <<0, 0>>
InitRegion == [waiting |-> NoRequest,
               planes |-> [p \in ToSet(Planes) |->
                              IF p = Planes[1] THEN NewPlane(MaxX, 1)
                                               ELSE NewPlane(MinX, -1)]]

\* on_start publishes each plane and then sends the first tick.
SentOnStart == Len(Planes) + 1
FirstTick == [ts |-> [time |-> 1, sequence |-> SentOnStart], src |-> RegionLp,
              uid |-> SentOnStart, dst |-> RegionLp, body |-> [kind |-> "tick"],
              anti |-> FALSE]

-----------------------------------------------------------------------------
(***************************************************************************)
(* on_tick_.                                                               *)
(***************************************************************************)
\* A step, reflected at the borders.
Moved(pl) ==
    LET x == pl.pos + pl.vel
    IN  IF ~ pl.alive THEN pl
        ELSE IF x < MinX THEN [pl EXCEPT !.pos = 2 * MinX - x, !.vel = -@]
        ELSE IF x > MaxX THEN [pl EXCEPT !.pos = 2 * MaxX - x, !.vel = -@]
        ELSE [pl EXCEPT !.pos = x]

ToAoi(ts, body) == [ts |-> ts, dst |-> AoiLp, body |-> body]

\* The planes that are alive, in the order of m_planeIds.
Publish(ts, planes) ==
    LET alive == Ascending({i \in 1..Len(Planes) : planes[Planes[i]].alive})
        plane(n) == Planes[alive[n]]
    IN  [n \in DOMAIN alive |->
            ToAoi(ts, [kind |-> "update", entity |-> plane(n), pos |-> planes[plane(n)].pos])]

\* The plane whose turn it is at time t.
Shooter(t) == Planes[((t \div QueryEvery) % Len(Planes)) + 1]

\* A request names the plane and the time.
Request(t) == <<Shooter(t), t>>

AsksAt(s, planes, t) ==
    /\ t % QueryEvery = 0
    /\ s.waiting = NoRequest
    /\ planes[Shooter(t)].alive
    /\ planes[Shooter(t)].lastFireTime + 1 <= t

on_tick_(s, ev) ==
    LET t      == ev.ts.time
        planes == [p \in DOMAIN s.planes |-> Moved(s.planes[p])]
        asks   == AsksAt(s, planes, t)
    IN  IF t = 0 \/ t > EndTime
        THEN [state |-> s, sends |-> <<>>, writes |-> {}]
        ELSE [state |-> [planes |-> planes,
                         waiting |-> IF asks THEN Request(t) ELSE s.waiting],
              sends |->
                 Publish(ev.ts, planes)
                 \o (IF asks
                     THEN <<ToAoi(ev.ts, [kind |-> "query", req |-> Request(t),
                                          pos |-> planes[Shooter(t)].pos])>>
                     ELSE <<>>)
                 \o (IF t + 1 <= EndTime
                     THEN <<[ts |-> [time |-> t + 1, sequence |-> 0],
                             dst |-> RegionLp, body |-> [kind |-> "tick"]]>>
                     ELSE <<>>),
              writes |-> DOMAIN s.planes]

-----------------------------------------------------------------------------
(***************************************************************************)
(* on_aoi_result_ and on_missile_hit_.                                     *)
(***************************************************************************)
\* Where the answer lists planes of other regions; the first is fired at.
Targets(es) == {i \in 1..Len(es) : OwnerLp(es[i]) # RegionLp}

on_aoi_result_(s, ev) ==
    LET shooter == ev.body.req[1]
        cleared == [s EXCEPT !.waiting = NoRequest]
        targets == Targets(ev.body.entities)
        target  == ev.body.entities[Min(targets)]
    IN  IF s.waiting = NoRequest \/ ev.body.req # s.waiting
        THEN [state |-> s, sends |-> <<>>, writes |-> {}]
        ELSE IF targets = {}
        THEN [state |-> cleared, sends |-> <<>>, writes |-> {}]
        ELSE IF ~ s.planes[shooter].alive
        THEN [state |-> cleared, sends |-> <<>>, writes |-> {shooter}]
        ELSE [state |-> [cleared EXCEPT
                            !.planes[shooter].lastFireTime = ev.ts.time,
                            !.planes[shooter].shotsFired = @ + 1],
              sends |-> <<[ts |-> [time |-> ev.ts.time + 1, sequence |-> 0],
                           dst |-> OwnerLp(target),
                           body |-> [kind |-> "hit", shooter |-> shooter,
                                     target |-> target,
                                     damage |-> Damage]]>>,
              writes |-> {shooter}]

\* Mutant: a plane that was shot down can be hit again.
HitThoughDead(pl, damage) ==
    LET dmg == IF damage = 0 THEN 1 ELSE damage
    IN  IF pl.hp > dmg
        THEN [pl EXCEPT !.hitsTaken = @ + 1, !.hp = @ - dmg]
        ELSE [pl EXCEPT !.hitsTaken = @ + 1, !.hp = 0, !.alive = FALSE,
                        !.pos = FarAway]

Hit(pl, damage) ==
    LET dmg == IF damage = 0 THEN 1 ELSE damage
    IN  IF ~ pl.alive THEN pl
        ELSE IF pl.hp > dmg
        THEN [pl EXCEPT !.hitsTaken = @ + 1, !.hp = @ - dmg]
        ELSE [pl EXCEPT !.hitsTaken = @ + 1, !.hp = 0, !.alive = FALSE,
                        !.pos = FarAway]

\* A kill is counted where the shooter is a plane of this region; the message
\* to the AOI LP keeps it from being found again.
on_missile_hit_(s, ev) ==
    LET b    == ev.body
        tgt  == Hit(s.planes[b.target], b.damage)
        died == s.planes[b.target].alive /\ ~ tgt.alive
        mine == OwnerLp(b.shooter) = RegionLp
    IN  IF b.target = 0
        THEN [state |-> s, sends |-> <<>>, writes |-> {}]
        ELSE [state |->
                 [s EXCEPT !.planes =
                    [p \in DOMAIN @ |->
                        LET pl == IF p = b.target THEN tgt ELSE @[p]
                        IN  IF mine /\ died /\ p = b.shooter
                            THEN [pl EXCEPT !.kills = @ + 1] ELSE pl]],
              sends |-> IF died
                        THEN <<ToAoi(ev.ts, [kind |-> "update",
                                             entity |-> b.target,
                                             pos |-> FarAway])>>
                        ELSE <<>>,
              writes |-> {b.target} \cup
                 (IF mine /\ s.planes[b.target].alive THEN {b.shooter} ELSE {})]

on_event(s, ev) ==
    CASE ev.body.kind = "tick" -> on_tick_(s, ev)
      [] ev.body.kind = "result" -> on_aoi_result_(s, ev)
      [] ev.body.kind = "hit" -> on_missile_hit_(s, ev)

\* load_entity: the planes that were saved, and only them.
load_entity(s, old) ==
    [s EXCEPT !.planes =
        [p \in DOMAIN @ |-> IF p \in DOMAIN old THEN old[p].planes[p] ELSE @[p]]]

-----------------------------------------------------------------------------
(***************************************************************************)
(* Properties.                                                             *)
(***************************************************************************)
\* What the hits in the records at some positions are worth.
DamageOf(ev) == IF ev.body.damage = 0 THEN 1 ELSE ev.body.damage
DamageAt(I) == MapThenSumSet(LAMBDA i : DamageOf(log[i].ev), I)

\* on_missile_hit_ accounts for every standing hit once: a plane has taken the
\* hits that reached it before it was shot down, and is short of what they are
\* worth.  Hits that come late, or are taken back, are not counted twice.
HitsAccountedFor ==
    \A p \in DOMAIN state.planes :
        LET hits  == {i \in Standing("hit") : log[i].ev.body.target = p}
            taken == {i \in hits : DamageAt({j \in hits : j < i}) < FullHp}
            pl    == state.planes[p]
        IN  /\ pl.hitsTaken = Cardinality(taken)
            /\ pl.hp = Max({FullHp - DamageAt(taken), 0})
            /\ pl.alive <=> pl.hp > 0

=============================================================================

-------------------------- MODULE FlightPlanProofs --------------------------
(***************************************************************************)
(* Proofs about FlightPlan: for any number of regions, airports and        *)
(* planes, any geometry and any draws, each plane is at one airport, in    *)
(* one service or on one flight, the events that are due are the ones that *)
(* this calls for, and the records that are committed tell its story.      *)
(***************************************************************************)
EXTENDS FlightPlan, StampLemmas

-----------------------------------------------------------------------------
(***************************************************************************)
(* Places and times.                                                       *)
(***************************************************************************)
LEMMA Parameters ==
    /\ Regions \in Nat \ {0} /\ AirportsPerRegion \in Nat \ {0}
    /\ NumPlanes \in Nat \ {0} /\ RegionWidth \in Nat \ {0} /\ Speed \in Nat \ {0}
    /\ EndTime \in Nat /\ EmitPlaneMod \in Nat /\ TopBit \in Nat
    /\ LongestTrip \in Nat
  BY ParametersAssumption, TripsAssumption

\* Division takes a number below n * d to one below n.
LEMMA Quotient ==
    ASSUME NEW d \in Nat \ {0}, NEW n \in Nat, NEW a \in 0..(n * d - 1)
    PROVE  a \div d \in 0..(n - 1)
  <1>1. a = d * (a \div d) + (a % d) /\ a % d \in 0..(d - 1) /\ a \div d \in Int
    OBVIOUS
  <1> DEFINE q == a \div d
  <1> HIDE DEF q
  <1>2. q \in Int /\ d * q <= a /\ a < d * q + d
    BY <1>1 DEF q
  <1>3. q >= 0
    <2> SUFFICES ASSUME q <= -1
                 PROVE  FALSE
      BY <1>2
    <2>1. d * q <= d * (-1)
      BY <1>2
    <2> QED
      BY <2>1, <1>2
  <1>4. q < n
    <2> SUFFICES ASSUME q >= n
                 PROVE  FALSE
      BY <1>2
    <2>1. d * q >= d * n
      BY <1>2
    <2> QED
      BY <2>1, <1>2
  <1> QED
    BY <1>2, <1>3, <1>4 DEF q

\* A multiple and a remainder are found again.
LEMMA QuotientOf ==
    ASSUME NEW d \in Nat \ {0}, NEW n \in Nat, NEW m \in 0..(d - 1)
    PROVE  (n * d + m) \div d = n
  <1> DEFINE a == n * d + m
             q == a \div d
  <1>1. a \in Nat
    OBVIOUS
  <1>2. a = d * (a \div d) + (a % d) /\ a % d \in 0..(d - 1) /\ a \div d \in Int
    BY <1>1
  <1>3. d * q <= a /\ a < d * q + d /\ q \in Int
    BY <1>2
  <1>4. a >= n * d /\ a < n * d + d
    OBVIOUS
  <1> HIDE DEF a, q
  <1>5. ~ (q <= n - 1)
    <2> SUFFICES ASSUME q <= n - 1
                 PROVE  FALSE
      OBVIOUS
    <2>1. d * q <= d * (n - 1)
      BY <1>3
    <2> QED
      BY <2>1, <1>3, <1>4, <1>1
  <1>6. ~ (q >= n + 1)
    <2> SUFFICES ASSUME q >= n + 1
                 PROVE  FALSE
      OBVIOUS
    <2>1. d * q >= d * (n + 1)
      BY <1>3
    <2> QED
      BY <2>1, <1>3, <1>4, <1>1
  <1>7. q = n
    BY <1>3, <1>5, <1>6
  <1> QED
    BY <1>7 DEF q, a

\* Every airport is in a region, and somewhere.
LEMMA Airports ==
    \A a \in Airport : /\ region_of_airport(a) \in 0..(Regions - 1)
                       /\ lp_of_region(region_of_airport(a)) \in RegionLps
                       /\ airport_x(a) \in Int
  <1> SUFFICES ASSUME NEW a \in Airport
               PROVE  /\ region_of_airport(a) \in 0..(Regions - 1)
                      /\ lp_of_region(region_of_airport(a)) \in RegionLps
                      /\ airport_x(a) \in Int
    OBVIOUS
  <1>1. region_of_airport(a) \in 0..(Regions - 1)
    BY Parameters, Quotient DEF Airport, region_of_airport
  <1>2. a % AirportsPerRegion \in Int /\ RegionWidth \div (AirportsPerRegion + 1) \in Int
    BY Parameters DEF Airport
  <1>3. airport_x(a) \in Int
    BY <1>1, <1>2, Parameters DEF airport_x
  <1> QED
    BY <1>1, <1>3, Parameters DEF lp_of_region, RegionLps

\* A plane begins at an airport of its home region.
LEMMA Homes ==
    \A p \in Plane : /\ HomeRegion(p) \in 0..(Regions - 1)
                     /\ HomeAirport(p) \in Airport
                     /\ region_of_airport(HomeAirport(p)) = HomeRegion(p)
                     /\ lp_of_region(HomeRegion(p)) \in RegionLps
  <1> SUFFICES ASSUME NEW p \in Plane
               PROVE  /\ HomeRegion(p) \in 0..(Regions - 1)
                      /\ HomeAirport(p) \in Airport
                      /\ region_of_airport(HomeAirport(p)) = HomeRegion(p)
                      /\ lp_of_region(HomeRegion(p)) \in RegionLps
    OBVIOUS
  <1> DEFINE r == HomeRegion(p)
             m == p % AirportsPerRegion
  <1>1. r \in 0..(Regions - 1) /\ m \in 0..(AirportsPerRegion - 1)
    BY Parameters DEF Plane, HomeRegion
  <1>2. HomeAirport(p) = r * AirportsPerRegion + m
    BY DEF HomeAirport
  <1> HIDE DEF r, m
  <1>3. region_of_airport(HomeAirport(p)) = r
    BY <1>1, <1>2, QuotientOf, Parameters DEF region_of_airport
  <1>4. HomeAirport(p) \in Airport
    <2>1. r * AirportsPerRegion <= (Regions - 1) * AirportsPerRegion
      BY <1>1, Parameters
    <2>2. (Regions - 1) * AirportsPerRegion = Regions * AirportsPerRegion - AirportsPerRegion
      BY Parameters
    <2>3. r * AirportsPerRegion \in Nat /\ Regions * AirportsPerRegion \in Nat
      BY <1>1, Parameters
    <2> QED
      BY <2>1, <2>2, <2>3, <1>1, <1>2, Parameters DEF Airport
  <1> QED
    BY <1>1, <1>3, <1>4, Parameters DEF r, lp_of_region, RegionLps

\* A flight takes time.
LEMMA Travelling ==
    /\ \A a, b \in Int : Dist(a, b) \in Nat
    /\ \A d \in Nat : TravelTime(d) \in Nat \ {0}
  <1>1. \A a, b \in Int : Dist(a, b) \in Nat
    BY DEF Dist
  <1>2. ASSUME NEW d \in Nat
        PROVE  TravelTime(d) \in Nat \ {0}
    <2> DEFINE n == d + Speed - 1
    <2>1. n \in Nat /\ n \in 0..((n + 1) * Speed - 1)
      BY Parameters
    <2> HIDE DEF n
    <2>2. n \div Speed \in Nat
      BY <2>1, Quotient, Parameters
    <2> QED
      BY <2>2 DEF TravelTime, n
  <1> QED
    BY <1>1, <1>2

\* The next leg leads to an airport.
LEMMA Destinations ==
    ASSUME rng \in Draws, NEW a \in Airport,
           NEW key \in [plane : Plane, leg : 0..EndTime]
    PROVE  Destination(rng, a, key) \in Airport
  <1>1. Regions * AirportsPerRegion \in Nat
    BY Parameters
  <1>2. Regions * AirportsPerRegion > 1 =>
           rng.to[key] \in 0..(Regions * AirportsPerRegion - 2)
    BY DrawsAssumption
  <1> QED
    BY <1>1, <1>2 DEF Destination, Airport

-----------------------------------------------------------------------------
(***************************************************************************)
(* compute_land_time_ looks ahead border by border.                        *)
(***************************************************************************)
\* f is where and when n borders are crossed, from x at time t on.
IsTrip(f, n, t, x, region, step, dest) ==
    f = [k \in 0..n |->
            IF k = 0 THEN [t |-> t, x |-> x]
            ELSE LET bx == BoundaryX(region + (k - 1) * step, dest)
                 IN  [t |-> f[k-1].t + TravelTime(Dist(bx, f[k-1].x)), x |-> bx]]

LEMMA TripExists ==
    ASSUME NEW t, NEW x, NEW region, NEW step, NEW dest, NEW n \in Nat
    PROVE  \E f : IsTrip(f, n, t, x, region, step, dest)
  <1> DEFINE T == {m \in Nat : \E f : IsTrip(f, m, t, x, region, step, dest)}
             B(k) == BoundaryX(region + (k - 1) * step, dest)
  <1>1. 0 \in T
    <2> DEFINE f == [k \in 0..0 |-> [t |-> t, x |-> x]]
    <2>1. IsTrip(f, 0, t, x, region, step, dest)
      BY DEF IsTrip
    <2> QED
      BY <2>1
  <1>2. ASSUME NEW m \in T
        PROVE  m + 1 \in T
    <2>1. PICK f : IsTrip(f, m, t, x, region, step, dest)
      OBVIOUS
    <2> DEFINE last == [t |-> f[m].t + TravelTime(Dist(B(m + 1), f[m].x)), x |-> B(m + 1)]
               g == [k \in 0..(m + 1) |-> IF k <= m THEN f[k] ELSE last]
    <2>2. m \in Nat
      OBVIOUS
    <2> HIDE DEF last, B
    <2>3. f = [k \in 0..m |-> IF k = 0 THEN [t |-> t, x |-> x]
                              ELSE [t |-> f[k-1].t + TravelTime(Dist(B(k), f[k-1].x)),
                                    x |-> B(k)]]
      BY <2>1 DEF IsTrip, B
    <2>4. g = [k \in 0..(m + 1) |->
                  IF k = 0 THEN [t |-> t, x |-> x]
                  ELSE [t |-> g[k-1].t + TravelTime(Dist(B(k), g[k-1].x)), x |-> B(k)]]
      <3> SUFFICES ASSUME NEW k \in 0..(m + 1)
                   PROVE  g[k] = IF k = 0 THEN [t |-> t, x |-> x]
                                 ELSE [t |-> g[k-1].t + TravelTime(Dist(B(k), g[k-1].x)),
                                       x |-> B(k)]
        BY Zenon
      <3>1. CASE k <= m
        <4>1. g[k] = f[k] /\ (k # 0 => g[k - 1] = f[k - 1])
          BY <3>1, <2>2
        <4>2. k \in 0..m
          BY <3>1, <2>2
        <4>3. f[k] = IF k = 0 THEN [t |-> t, x |-> x]
                     ELSE [t |-> f[k-1].t + TravelTime(Dist(B(k), f[k-1].x)), x |-> B(k)]
          BY <2>3, <4>2
        <4> HIDE DEF g
        <4> QED
          BY <4>1, <4>3
      <3>2. CASE k = m + 1
        BY <3>2, <2>2 DEF last
      <3> QED
        BY <3>1, <3>2, <2>2
    <2> HIDE DEF g
    <2>5. IsTrip(g, m + 1, t, x, region, step, dest)
      BY <2>4 DEF IsTrip, B
    <2> QED
      BY <2>2, <2>5
  <1>3. T \in SUBSET Nat
    OBVIOUS
  <1> HIDE DEF T
  <1>4. T = Nat
    BY <1>1, <1>2, <1>3, Counting
  <1> QED
    BY <1>4 DEF T

\* Every crossing is later than the one before.
LEMMA TripTimes ==
    ASSUME NEW t \in Nat, NEW x \in Int, NEW region \in Int, NEW step \in Int,
           NEW dest \in Int, NEW n \in Nat,
           NEW f, IsTrip(f, n, t, x, region, step, dest), NEW k \in 0..n
    PROVE  f[k].t \in Nat /\ f[k].t >= t + k /\ f[k].x \in Int
  <1> DEFINE Good(i) == i <= n => f[i].t \in Nat /\ f[i].t >= t + i /\ f[i].x \in Int
             T == {i \in Nat : Good(i)}
             B(i) == BoundaryX(region + (i - 1) * step, dest)
  <1>1. \A i \in 0..n : f[i] = IF i = 0 THEN [t |-> t, x |-> x]
                               ELSE [t |-> f[i-1].t + TravelTime(Dist(B(i), f[i-1].x)),
                                     x |-> B(i)]
    BY Zenon DEF IsTrip
  <1>2. 0 \in T
    <2>1. f[0] = [t |-> t, x |-> x]
      <3>1. 0 \in 0..n
        OBVIOUS
      <3> HIDE DEF B
      <3> QED
        BY <1>1, <3>1
    <2> QED
      BY <2>1
  <1>3. ASSUME NEW i \in T
        PROVE  i + 1 \in T
    <2> SUFFICES ASSUME i + 1 <= n
                 PROVE  Good(i + 1)
      OBVIOUS
    <2>1. i \in Nat /\ f[i].t \in Nat /\ f[i].t >= t + i /\ f[i].x \in Int
      OBVIOUS
    <2> DEFINE b == B(i + 1)
    <2>2. b \in Int
      BY <2>1, Parameters DEF BoundaryX
    <2> HIDE DEF b
    <2>3. f[i + 1] = [t |-> f[i].t + TravelTime(Dist(b, f[i].x)), x |-> b]
      <3>1. (i + 1) \in 0..n /\ i + 1 # 0 /\ (i + 1) - 1 = i
        BY <2>1
      <3> QED
        BY <1>1, <3>1 DEF b
    <2>4. TravelTime(Dist(b, f[i].x)) \in Nat \ {0}
      BY <2>1, <2>2, Travelling
    <2> QED
      BY <2>1, <2>2, <2>3, <2>4
  <1>4. T \in SUBSET Nat
    OBVIOUS
  <1> HIDE DEF T
  <1>5. T = Nat
    BY <1>2, <1>3, <1>4, Counting
  <1>6. k \in T
    BY <1>5
  <1> QED
    BY <1>6 DEF T

Step(from, dest) == IF dest > from THEN 1 ELSE -1

LEMMA LandTimeIs ==
    ASSUME NEW t, NEW pl, Dist(pl.region, region_of_airport(pl.dest)) \in Nat
    PROVE  LET dest == region_of_airport(pl.dest)
               n    == Dist(pl.region, dest)
           IN  \E f : /\ IsTrip(f, n, t, pl.x, pl.region, Step(pl.region, dest), dest)
                      /\ compute_land_time_(t, pl)
                            = f[n].t + TravelTime(Dist(airport_x(pl.dest), f[n].x))
  <1> DEFINE dest == region_of_airport(pl.dest)
             n    == Dist(pl.region, dest)
             f    == CHOOSE f : IsTrip(f, n, t, pl.x, pl.region, Step(pl.region, dest), dest)
  <1>1. IsTrip(f, n, t, pl.x, pl.region, Step(pl.region, dest), dest)
    <2>1. n \in Nat
      OBVIOUS
    <2> HIDE DEF n, dest
    <2> QED
      BY <2>1, TripExists
  <1>2. compute_land_time_(t, pl) = f[n].t + TravelTime(Dist(airport_x(pl.dest), f[n].x))
    BY DEF compute_land_time_, IsTrip, Step
  <1> HIDE DEF f
  <1> QED
    BY <1>1, <1>2

\* Where a plane can be while it flies.
InTheAir(pl) == /\ pl.region \in 0..(Regions - 1) /\ pl.x \in Int
                /\ pl.dest \in Airport

\* The borders ahead are as many as there are regions between.
LEMMA Ahead ==
    ASSUME NEW pl, InTheAir(pl)
    PROVE  LET dest == region_of_airport(pl.dest)
               next == NextRegion(pl.region, dest)
           IN  /\ dest \in 0..(Regions - 1) /\ Dist(pl.region, dest) \in Nat
               /\ pl.region = dest <=> Dist(pl.region, dest) = 0
               /\ BoundaryX(pl.region, dest) \in Int
               /\ pl.region # dest =>
                     /\ next \in 0..(Regions - 1)
                     /\ next = pl.region + Step(pl.region, dest)
                     /\ Dist(pl.region, dest) = Dist(next, dest) + 1
                     /\ next # dest => Step(next, dest) = Step(pl.region, dest)
  <1>1. region_of_airport(pl.dest) \in 0..(Regions - 1)
    BY Airports DEF InTheAir
  <1>2. BoundaryX(pl.region, region_of_airport(pl.dest)) \in Int
    BY <1>1, Parameters DEF InTheAir, BoundaryX
  <1> QED
    BY <1>1, <1>2, Parameters DEF InTheAir, Dist, NextRegion, Step

\* A flight ends after it began, at what the distance to the airport says if no
\* border is ahead.
LEMMA LandTime ==
    ASSUME NEW t \in Nat, NEW pl, InTheAir(pl)
    PROVE  /\ compute_land_time_(t, pl) \in Nat /\ compute_land_time_(t, pl) > t
           /\ pl.region = region_of_airport(pl.dest) =>
                 compute_land_time_(t, pl)
                    = t + TravelTime(Dist(airport_x(pl.dest), pl.x))
  <1> DEFINE dest == region_of_airport(pl.dest)
             n    == Dist(pl.region, dest)
  <1>1. /\ dest \in Int /\ n \in Nat /\ (pl.region = dest => n = 0)
        /\ pl.region \in Int /\ pl.x \in Int /\ airport_x(pl.dest) \in Int
    BY Ahead, Airports DEF InTheAir
  <1>2. PICK f : /\ IsTrip(f, n, t, pl.x, pl.region, Step(pl.region, dest), dest)
                 /\ compute_land_time_(t, pl)
                       = f[n].t + TravelTime(Dist(airport_x(pl.dest), f[n].x))
    BY <1>1, LandTimeIs
  <1>3. Step(pl.region, dest) \in Int
    BY DEF Step
  <1> HIDE DEF dest, n
  <1>4. f[n].t \in Nat /\ f[n].t >= t + n /\ f[n].x \in Int
    <2>1. n \in 0..n
      BY <1>1
    <2> QED
      BY <1>1, <1>2, <1>3, <2>1, TripTimes
  <1>5. TravelTime(Dist(airport_x(pl.dest), f[n].x)) \in Nat \ {0}
    BY <1>1, <1>4, Travelling
  <1>6. n = 0 => f[n] = [t |-> t, x |-> pl.x]
    <2>1. n = 0 => f[0] = [t |-> t, x |-> pl.x]
      BY <1>2 DEF IsTrip
    <2> QED
      BY <2>1
  <1> QED
    BY <1>1, <1>2, <1>4, <1>5, <1>6 DEF dest

\* What a plane foresees when it leaves still holds when it has crossed a border.
LEMMA LandTimeBehind ==
    ASSUME NEW t \in Nat, NEW pl, InTheAir(pl), NEW over, InTheAir(over),
           pl.region # region_of_airport(pl.dest), over.dest = pl.dest,
           over.region = NextRegion(pl.region, region_of_airport(pl.dest)),
           over.x = BoundaryX(pl.region, region_of_airport(pl.dest))
    PROVE  LET cross == t + TravelTime(Dist(over.x, pl.x))
           IN  /\ cross \in Nat /\ cross > t
               /\ compute_land_time_(cross, over) = compute_land_time_(t, pl)
  <1> DEFINE dest == region_of_airport(pl.dest)
             n    == Dist(over.region, dest)
             step == Step(pl.region, dest)
             cross == t + TravelTime(Dist(over.x, pl.x))
  <1>1. /\ dest \in Int /\ n \in Nat /\ Dist(pl.region, dest) = n + 1
        /\ step \in Int /\ over.region = pl.region + step
        /\ pl.region \in Int /\ pl.x \in Int /\ over.x \in Int /\ over.region \in Int
        /\ over.region = dest <=> n = 0
        /\ over.region # dest => Step(over.region, dest) = step
    <2>1. dest = region_of_airport(over.dest)
      OBVIOUS
    <2>2. /\ dest \in Int /\ n \in Nat /\ Dist(pl.region, dest) = n + 1
          /\ over.region = pl.region + step
      BY Ahead
    <2>3. over.region # dest => Step(over.region, dest) = step
      BY Ahead
    <2>4. over.region = dest <=> n = 0
      BY <2>1, Ahead
    <2>5. step \in Int
      BY DEF Step
    <2>6. /\ pl.region \in Int /\ pl.x \in Int /\ over.x \in Int /\ over.region \in Int
      BY DEF InTheAir
    <2> QED
      BY <2>2, <2>3, <2>4, <2>5, <2>6
  <1>2. PICK f : /\ IsTrip(f, n + 1, t, pl.x, pl.region, step, dest)
                 /\ compute_land_time_(t, pl)
                       = f[n + 1].t + TravelTime(Dist(airport_x(pl.dest), f[n + 1].x))
    BY <1>1, LandTimeIs
  <1>3. PICK g : /\ IsTrip(g, n, cross, over.x, over.region, Step(over.region, dest), dest)
                 /\ compute_land_time_(cross, over)
                       = g[n].t + TravelTime(Dist(airport_x(over.dest), g[n].x))
    BY <1>1, LandTimeIs
  <1>4. cross \in Nat /\ cross > t
    <2>1. Dist(over.x, pl.x) \in Nat
      BY <1>1, Travelling
    <2>2. TravelTime(Dist(over.x, pl.x)) \in Nat \ {0}
      BY <2>1, Travelling
    <2> QED
      BY <2>2
  <1>5. over.x = BoundaryX(pl.region, dest)
    OBVIOUS
  <1> HIDE DEF n, dest, step
  <1>6. f[1] = [t |-> cross, x |-> over.x]
    <2> DEFINE B(i) == BoundaryX(pl.region + (i - 1) * step, dest)
    <2>1. \A i \in 0..(n + 1) : f[i] = IF i = 0 THEN [t |-> t, x |-> pl.x]
                     ELSE [t |-> f[i-1].t + TravelTime(Dist(B(i), f[i-1].x)), x |-> B(i)]
      BY <1>2, Zenon DEF IsTrip
    <2>2. pl.region + (1 - 1) * step = pl.region
      BY <1>1
    <2>3. B(1) = over.x
      BY <2>2, <1>5
    <2> HIDE DEF B
    <2>4. 0 \in 0..(n + 1) /\ 1 \in 0..(n + 1) /\ 1 # 0 /\ 1 - 1 = 0
      BY <1>1
    <2>5. f[0] = [t |-> t, x |-> pl.x]
      BY <2>1, <2>4
    <2>6. f[1] = [t |-> f[0].t + TravelTime(Dist(B(1), f[0].x)), x |-> B(1)]
      BY <2>1, <2>4
    <2> QED
      BY <2>3, <2>5, <2>6
  <1> HIDE DEF cross
  <1>7. f[1].t = cross /\ f[1].x = over.x
    BY <1>6
  <1>8. IsTrip(g, n, cross, over.x, over.region, step, dest)
    <2>1. CASE over.region # dest
      BY <2>1, <1>1, <1>3, <1>7
    <2>2. CASE over.region = dest
      <3>1. n = 0
        BY <2>2, <1>1
      <3>2. g = [k \in 0..0 |-> IF k = 0 THEN [t |-> cross, x |-> over.x]
                    ELSE LET bx == BoundaryX(over.region + (k - 1) * Step(over.region, dest), dest)
                         IN  [t |-> g[k-1].t + TravelTime(Dist(bx, g[k-1].x)), x |-> bx]]
        BY <3>1, <1>3 DEF IsTrip
      <3>3. g = [k \in 0..0 |-> IF k = 0 THEN [t |-> cross, x |-> over.x]
                    ELSE LET bx == BoundaryX((pl.region + step) + (k - 1) * step, dest)
                         IN  [t |-> g[k-1].t + TravelTime(Dist(bx, g[k-1].x)), x |-> bx]]
        <4>1. \A k \in 0..0 : k = 0
          OBVIOUS
        <4> QED
          BY <3>2, <4>1
      <3> QED
        BY <3>1, <3>3, <1>7 DEF IsTrip
    <2> QED
      BY <2>1, <2>2
  <1>9. g[n] = f[n + 1]
    <2> DEFINE T == {i \in Nat : i <= n => g[i] = f[i + 1]}
               B(i) == BoundaryX(pl.region + (i - 1) * step, dest)
               C(i) == BoundaryX(over.region + (i - 1) * step, dest)
    <2>1. \A i \in 0..(n + 1) : f[i] = IF i = 0 THEN [t |-> t, x |-> pl.x]
                     ELSE [t |-> f[i-1].t + TravelTime(Dist(B(i), f[i-1].x)), x |-> B(i)]
      BY <1>2, Zenon DEF IsTrip
    <2>2. \A i \in 0..n : g[i] = IF i = 0 THEN [t |-> cross, x |-> over.x]
                     ELSE [t |-> g[i-1].t + TravelTime(Dist(C(i), g[i-1].x)), x |-> C(i)]
      BY <1>8, Zenon DEF IsTrip
    <2>3. ASSUME NEW i \in Nat
          PROVE  C(i) = B(i + 1)
      <3>1. over.region + (i - 1) * step = pl.region + ((i + 1) - 1) * step
        BY <1>1
      <3> QED
        BY <3>1
    <2> HIDE DEF B, C
    <2>4. 0 \in T
      <3>1. 0 \in 0..n
        BY <1>1
      <3>2. g[0] = [t |-> cross, x |-> over.x]
        BY <2>2, <3>1
      <3> QED
        BY <3>2, <1>6
    <2>5. ASSUME NEW i \in T
          PROVE  i + 1 \in T
      <3> SUFFICES ASSUME i + 1 <= n
                   PROVE  g[i + 1] = f[(i + 1) + 1]
        OBVIOUS
      <3>1. i \in Nat /\ g[i] = f[i + 1]
        BY <1>1
      <3>2. g[i + 1] = [t |-> g[i].t + TravelTime(Dist(C(i + 1), g[i].x)), x |-> C(i + 1)]
        <4>1. (i + 1) \in 0..n /\ i + 1 # 0 /\ (i + 1) - 1 = i
          BY <3>1, <1>1
        <4> QED
          BY <2>2, <4>1
      <3>3. f[(i + 1) + 1] = [t |-> f[i + 1].t + TravelTime(Dist(B((i + 1) + 1), f[i + 1].x)),
                              x |-> B((i + 1) + 1)]
        <4>1. /\ ((i + 1) + 1) \in 0..(n + 1) /\ (i + 1) + 1 # 0
              /\ ((i + 1) + 1) - 1 = i + 1
          BY <3>1, <1>1
        <4> QED
          BY <2>1, <4>1
      <3>4. i + 1 \in Nat
        BY <3>1
      <3> HIDE DEF T
      <3> QED
        BY <3>1, <3>2, <3>3, <3>4, <2>3
    <2>6. T \in SUBSET Nat
      OBVIOUS
    <2> HIDE DEF T
    <2>7. T = Nat
      BY ONLY <2>4, <2>5, <2>6, Counting
    <2> QED
      BY <2>7, <1>1 DEF T
  <1>10. compute_land_time_(cross, over) = compute_land_time_(t, pl)
    BY <1>2, <1>3, <1>9
  <1> QED
    BY <1>4, <1>10 DEF cross

-----------------------------------------------------------------------------
(***************************************************************************)
(* The state, as the argument sees it: what is due, the queue and the      *)
(* runway of each airport, the planes that each World knows, their owners, *)
(* and the time.                                                           *)
(***************************************************************************)
LegKey == [plane : Plane, leg : Nat]
PlaneState == [region : 0..(Regions - 1), x : Int, dest : Airport,
               inFlight : BOOLEAN, key : LegKey]
Token == [plane : Plane, key : LegKey]
AirportState == [busy : BOOLEAN, q : Seq(Token), arrivals : Nat, departures : Nat]
AirportsOf(lp) == {b \in Airport : region_of_airport(b) = region_index_of_lp(lp)}
PlaneMaps == UNION {[D -> PlaneState] : D \in SUBSET Plane}
RegionState(lp) == [planes : PlaneMaps, airports : [AirportsOf(lp) -> AirportState]]

When == [time : 0..EndTime, sequence : Nat \ {0}]
LandBody == [kind : {"land"}, plane : Plane, airport : Airport, key : LegKey]
DoneBody == [kind : {"done"}, plane : Plane, airport : Airport, key : LegKey]
UpdateBody == [kind : {"update"}, plane : Plane, owner : RegionLps, state : PlaneState]
InstallBody == [kind : {"install"}, plane : Plane, state : PlaneState]
DueEvent ==
    [ts : When, dst : {DirectoryLp}, body : LandBody \cup DoneBody \cup UpdateBody]
    \cup [ts : When, dst : RegionLps, body : LandBody \cup DoneBody \cup InstallBody]

LandRecord == [kind : {"land"}, plane : Plane, at : Airport, land : Nat]
DepartedRecord == [kind : {"depart"}, plane : Plane, from : Airport, to : Airport,
                   time : Nat, land : Nat]

RegionTypes(rs) == /\ rs = [lp \in RegionLps |-> rs[lp]]
                   /\ \A lp \in RegionLps : rs[lp] \in RegionState(lp)

PlanTypes ==
    /\ rng \in Draws
    /\ RegionTypes(regions)
    /\ owner \in [Plane -> RegionLps]
    /\ dirSeq \in Nat \ {0}
    /\ pending \in SUBSET DueEvent
    /\ now.time \in 0..EndTime
    /\ out \in Seq(LandRecord \cup DepartedRecord)

Queues(rs) ==
    [a \in Airport |-> rs[lp_of_region(region_of_airport(a))].airports[a].q]
Runways(rs) ==
    [a \in Airport |-> rs[lp_of_region(region_of_airport(a))].airports[a].busy]
Worlds(rs) == [lp \in RegionLps |-> rs[lp].planes]

\* Where a plane stands in a queue; what is due for it, and for a runway.
Spots(p, q) == {i \in 1..Len(q) : q[i].plane = p}
Unqueued(queues, p) == \A a \in Airport : Spots(p, queues[a]) = {}
Of(due, p) == {ev \in due : ev.body.plane = p}
Serving(due, a) == {ev \in due : ev.body.kind = "done" /\ ev.body.airport = a}

\* The plane stands at an airport of its owner, who knows it.
AtAirport(worlds, owns, p, a) ==
    /\ owns[p] = lp_of_region(region_of_airport(a))
    /\ p \in DOMAIN worlds[owns[p]]
    /\ worlds[owns[p]][p].region = region_of_airport(a)
    /\ worlds[owns[p]][p].x = airport_x(a)

\* It waits in the queue.
Waiting(due, queues, worlds, owns, t, p, a) ==
    /\ AtAirport(worlds, owns, p, a) /\ Of(due, p) = {}
    /\ \E i \in 1..Len(queues[a]) : /\ Spots(p, queues[a]) = {i}
                                    /\ queues[a][i].key.leg \in 0..t
    /\ \A b \in Airport \ {a} : Spots(p, queues[b]) = {}

\* It is served, and the end of that is due.
Served(due, queues, worlds, owns, t, p, a) ==
    /\ AtAirport(worlds, owns, p, a) /\ Unqueued(queues, p)
    /\ \E ev \in due : /\ Of(due, p) = {ev} /\ ev.body.kind = "done"
                       /\ ev.body.airport = a /\ ev.body.key.leg \in 0..t
                       /\ ev.dst \in {DirectoryLp, owns[p]}

\* It is in the air, on the way to where it is to land.
Heading(pl, land) == /\ pl.inFlight /\ pl.dest = land.body.airport
                     /\ pl.key = land.body.key

\* No border is ahead: only the landing is due.
Near(due, worlds, owns, p, land) ==
    /\ Of(due, p) = {land}
    /\ p \in DOMAIN worlds[owns[p]]
    /\ Heading(worlds[owns[p]][p], land)
    /\ worlds[owns[p]][p].region = region_of_airport(land.body.airport)
    /\ owns[p] = lp_of_region(region_of_airport(land.body.airport))
    /\ land.dst \in {DirectoryLp, owns[p]}

\* A border is: the next crossing is due too, first as an update of the owner,
\* then as an install with the new owner, and foresees the same landing.
Far(due, owns, p, land, cross) ==
    LET pl == cross.body.state
    IN  /\ Of(due, p) = {land, cross} /\ land.dst = DirectoryLp
        /\ Heading(pl, land)
        /\ compute_land_time_(cross.ts.time, pl) = land.ts.time
        /\ \/ /\ cross.body.kind = "update"
              /\ cross.body.owner = lp_of_region(pl.region)
           \/ /\ cross.body.kind = "install"
              /\ cross.dst = owns[p] /\ owns[p] = lp_of_region(pl.region)

Flying(due, queues, worlds, owns, p) ==
    /\ Unqueued(queues, p)
    /\ \E land \in due :
          /\ land.body.kind = "land" /\ land.body.key.leg \in 0..land.ts.time
          /\ \/ Near(due, worlds, owns, p, land)
             \/ \E cross \in due : Far(due, owns, p, land, cross)

\* Its next event would be too late.
Ended(due, queues, t, p) ==
    Of(due, p) = {} /\ Unqueued(queues, p) /\ t + LongestTrip > EndTime

Situated(due, queues, worlds, owns, t, p) ==
    \/ \E a \in Airport : \/ Waiting(due, queues, worlds, owns, t, p, a)
                          \/ Served(due, queues, worlds, owns, t, p, a)
    \/ Flying(due, queues, worlds, owns, p)
    \/ Ended(due, queues, t, p)

\* A runway is taken while one service at its airport is due.
Exclusive(due, busy, a) ==
    IF busy THEN \E ev \in due : Serving(due, a) = {ev}
            ELSE Serving(due, a) = {}

\* The records of a plane, and the last of them.
Mine(recs, p) == {i \in 1..Len(recs) : recs[i].plane = p}
LastOf(recs, p) == recs[Max(Mine(recs, p))]

\* What the records say of a plane at an airport, and of one in the air.
LandedAt(recs, p, a) ==
    Mine(recs, p) # {} => /\ LastOf(recs, p).kind = "land"
                          /\ LastOf(recs, p).at = a
LeftFor(recs, p, land) ==
    /\ Mine(recs, p) # {}
    /\ LastOf(recs, p).kind = "depart"
    /\ LastOf(recs, p).to = land.body.airport
    /\ LastOf(recs, p).land = land.ts.time

Told(due, queues, recs, p) ==
    /\ \A ev \in Of(due, p) :
          /\ ev.body.kind = "land" => LeftFor(recs, p, ev)
          /\ ev.body.kind = "done" => LandedAt(recs, p, ev.body.airport)
    /\ \A a \in Airport : Spots(p, queues[a]) # {} => LandedAt(recs, p, a)

Emitted(p) == EmitPlaneMod # 0 /\ p % EmitPlaneMod = 0

NothingPast == \A ev \in pending : now.time <= ev.ts.time
AllSituated == \A p \in Plane :
                  Situated(pending, Queues(regions), Worlds(regions), owner,
                           now.time, p)
AllExclusive == \A a \in Airport : Exclusive(pending, Runways(regions)[a], a)
AllTold ==
    \A p \in Plane : IF Emitted(p) THEN Told(pending, Queues(regions), out, p)
                                   ELSE Mine(out, p) = {}

PlanInvariant == /\ PlanTypes /\ NothingPast /\ AllSituated /\ AllExclusive
                 /\ AllTold /\ RecordsAgree

-----------------------------------------------------------------------------
(***************************************************************************)
(* What one step does to a queue, to a World and to a plane elsewhere.     *)
(***************************************************************************)
\* The spots of a plane when a token comes at the end of the queue.
LEMMA SpotsAppended ==
    ASSUME NEW q \in Seq(Token), NEW tok \in Token, NEW p
    PROVE  /\ Append(q, tok) \in Seq(Token)
           /\ Spots(p, Append(q, tok))
                 = Spots(p, q) \cup (IF tok.plane = p THEN {Len(q) + 1} ELSE {})
           /\ \A i \in Spots(p, q) : Append(q, tok)[i] = q[i]
           /\ Append(q, tok)[Len(q) + 1] = tok
           /\ Len(Append(q, tok)) = Len(q) + 1 /\ Len(q) \in Nat
  BY DEF Spots

\* The spots of a plane when the first token leaves.
LEMMA SpotsAfterHead ==
    ASSUME NEW q \in Seq(Token), q # <<>>, NEW p
    PROVE  /\ Tail(q) \in Seq(Token)
           /\ Head(q) = q[1] /\ q[1] \in Token
           /\ 1 \in Spots(p, q) <=> q[1].plane = p
           /\ \A i \in 1..Len(Tail(q)) : /\ i + 1 \in 1..Len(q)
                                         /\ Tail(q)[i] = q[i + 1]
           /\ \A i : i \in Spots(p, Tail(q)) <=> i \in Nat \ {0} /\ i + 1 \in Spots(p, q)
           /\ \A i \in Spots(p, q) : i \in Nat \ {0}
  <1>1. /\ Tail(q) \in Seq(Token) /\ Len(q) \in Nat \ {0} /\ Len(Tail(q)) = Len(q) - 1
        /\ Head(q) = q[1] /\ q[1] \in Token
        /\ \A i \in 1..Len(Tail(q)) : Tail(q)[i] = q[i + 1]
    OBVIOUS
  <1>2. \A i \in 1..Len(Tail(q)) : i + 1 \in 1..Len(q)
    BY <1>1
  <1>3. ASSUME NEW i
        PROVE  i \in Spots(p, Tail(q)) <=> i \in Nat \ {0} /\ i + 1 \in Spots(p, q)
    BY <1>1 DEF Spots
  <1>4. 1 \in Spots(p, q) <=> q[1].plane = p
    BY <1>1 DEF Spots
  <1>5. \A i \in Spots(p, q) : i \in Nat \ {0}
    BY <1>1 DEF Spots
  <1> QED
    BY <1>1, <1>2, <1>3, <1>4, <1>5

\* A World that is given a plane.
LEMMA PlaneGiven ==
    ASSUME NEW planes \in PlaneMaps, NEW p \in Plane, NEW pl \in PlaneState
    PROVE  /\ WithPlane(planes, p, pl) \in PlaneMaps
           /\ DOMAIN WithPlane(planes, p, pl) = DOMAIN planes \cup {p}
           /\ WithPlane(planes, p, pl)[p] = pl
           /\ \A q \in DOMAIN planes : q # p => WithPlane(planes, p, pl)[q] = planes[q]
  <1>1. PICK D \in SUBSET Plane : planes \in [D -> PlaneState]
    BY DEF PlaneMaps
  <1>2. WithPlane(planes, p, pl) \in [D \cup {p} -> PlaneState]
    BY <1>1 DEF WithPlane
  <1> QED
    BY <1>1, <1>2 DEF PlaneMaps, WithPlane

\* A plane that nothing happens to stays in its situation.
LEMMA SituationFrame ==
    ASSUME NEW due, NEW queues, NEW worlds, NEW owns, NEW t \in Int, NEW p,
           Situated(due, queues, worlds, owns, t, p),
           NEW due2, NEW queues2, NEW worlds2, NEW owns2, NEW t2 \in Int, t2 >= t,
           Of(due2, p) = Of(due, p), owns2[p] = owns[p],
           p \in DOMAIN worlds[owns[p]] =>
              /\ p \in DOMAIN worlds2[owns[p]]
              /\ worlds2[owns[p]][p] = worlds[owns[p]][p],
           \A a \in Airport : /\ Spots(p, queues2[a]) = Spots(p, queues[a])
                              /\ \A i \in Spots(p, queues[a]) :
                                    /\ i \in 1..Len(queues2[a])
                                    /\ queues2[a][i] = queues[a][i]
    PROVE  Situated(due2, queues2, worlds2, owns2, t2, p)
  <1>1. Unqueued(queues, p) => Unqueued(queues2, p)
    BY DEF Unqueued
  <1>2. \A ev : ev \in Of(due, p) => ev \in due2
    BY DEF Of
  <1>3. ASSUME NEW a \in Airport, Waiting(due, queues, worlds, owns, t, p, a)
        PROVE  Waiting(due2, queues2, worlds2, owns2, t2, p, a)
    <2>1. AtAirport(worlds2, owns2, p, a)
      BY <1>3 DEF Waiting, AtAirport
    <2>2. Of(due2, p) = {} /\ \A b \in Airport \ {a} : Spots(p, queues2[b]) = {}
      BY <1>3 DEF Waiting
    <2>3. PICK i \in 1..Len(queues[a]) : /\ Spots(p, queues[a]) = {i}
                                         /\ queues[a][i].key.leg \in 0..t
      BY <1>3 DEF Waiting
    <2>4. /\ i \in 1..Len(queues2[a]) /\ Spots(p, queues2[a]) = {i}
          /\ queues2[a][i] = queues[a][i]
      BY <2>3
    <2>5. queues2[a][i].key.leg \in 0..t2
      BY <2>3, <2>4
    <2> QED
      BY <2>1, <2>2, <2>4, <2>5 DEF Waiting
  <1>4. ASSUME NEW a \in Airport, Served(due, queues, worlds, owns, t, p, a)
        PROVE  Served(due2, queues2, worlds2, owns2, t2, p, a)
    <2>1. AtAirport(worlds2, owns2, p, a) /\ Unqueued(queues2, p)
      BY <1>1, <1>4 DEF Served, AtAirport
    <2>2. PICK ev \in due : /\ Of(due, p) = {ev} /\ ev.body.kind = "done"
                            /\ ev.body.airport = a /\ ev.body.key.leg \in 0..t
                            /\ ev.dst \in {DirectoryLp, owns[p]}
      BY <1>4 DEF Served
    <2>3. ev \in due2 /\ ev.body.key.leg \in 0..t2
      BY <1>2, <2>2
    <2> QED
      BY <2>1, <2>2, <2>3 DEF Served
  <1>5. ASSUME Flying(due, queues, worlds, owns, p)
        PROVE  Flying(due2, queues2, worlds2, owns2, p)
    <2>1. PICK land \in due :
             /\ land.body.kind = "land" /\ land.body.key.leg \in 0..land.ts.time
             /\ \/ Near(due, worlds, owns, p, land)
                \/ \E cross \in due : Far(due, owns, p, land, cross)
      BY <1>5 DEF Flying
    <2>2. CASE Near(due, worlds, owns, p, land)
      <3>1. land \in due2 /\ Near(due2, worlds2, owns2, p, land)
        BY <1>2, <2>2 DEF Near, Heading
      <3> QED
        BY <3>1, <2>1, <1>1, <1>5 DEF Flying
    <2>3. ASSUME NEW cross \in due, Far(due, owns, p, land, cross)
          PROVE  Flying(due2, queues2, worlds2, owns2, p)
      <3>1. land \in due2 /\ cross \in due2 /\ Far(due2, owns2, p, land, cross)
        BY <1>2, <2>3 DEF Far
      <3> QED
        BY <3>1, <2>1, <1>1, <1>5 DEF Flying
    <2> QED
      BY <2>1, <2>2, <2>3
  <1>6. ASSUME Ended(due, queues, t, p)
        PROVE  Ended(due2, queues2, t2, p)
    BY <1>1, <1>6, Parameters DEF Ended
  <1> QED
    BY <1>3, <1>4, <1>5, <1>6 DEF Situated

-----------------------------------------------------------------------------
(***************************************************************************)
(* start_next_ and enqueue_arrival_.                                       *)
(***************************************************************************)
\* A free runway with queue q has queue q2 and is taken or not (busy2), and new is
\* due: nobody waited, or the first service is too late or begins.
Begins(q, q2, busy2, new, a, t) ==
    \/ q = <<>> /\ q2 = q /\ ~ busy2 /\ new = {}
    \/ /\ q # <<>> /\ q2 = Tail(q)
       /\ \/ ~ busy2 /\ new = {} /\ t + LongestTrip > EndTime
          \/ /\ busy2
             /\ \E done \in DueEvent :
                   /\ new = {done} /\ done.body.kind = "done"
                   /\ done.body.plane = q[1].plane /\ done.body.key = q[1].key
                   /\ done.body.airport = a /\ done.dst = DirectoryLp
                   /\ done.ts.time >= t

\* The tokens of a queue can be served at time t.
Servable(q, t) == \A i \in 1..Len(q) : q[i].key.leg \in 0..t

\* What a list of sends amounts to.
LEMMA SendsAsSet ==
    /\ ToSet(<<>>) = {}
    /\ \A e : ToSet(<<e>>) = {e}
    /\ \A s, u \in Seq(DueEvent) : ToSet(s \o u) = ToSet(s) \cup ToSet(u)
  <1>1. ToSet(<<>>) = {}
    BY DEF ToSet
  <1>2. ASSUME NEW e
        PROVE  ToSet(<<e>>) = {e}
    BY DEF ToSet
  <1>3. ASSUME NEW s \in Seq(DueEvent), NEW u \in Seq(DueEvent)
        PROVE  ToSet(s \o u) = ToSet(s) \cup ToSet(u)
    <2>1. /\ Len(s) \in Nat /\ Len(u) \in Nat /\ Len(s \o u) = Len(s) + Len(u)
          /\ DOMAIN s = 1..Len(s) /\ DOMAIN u = 1..Len(u)
          /\ DOMAIN (s \o u) = 1..(Len(s) + Len(u))
          /\ \A i \in 1..Len(s) : (s \o u)[i] = s[i]
          /\ \A i \in 1..Len(u) : (s \o u)[Len(s) + i] = u[i]
      OBVIOUS
    <2>2. \A e \in ToSet(s) : e \in ToSet(s \o u)
      BY <2>1 DEF ToSet
    <2>3. ASSUME NEW e \in ToSet(u)
          PROVE  e \in ToSet(s \o u)
      <3>1. PICK i \in 1..Len(u) : e = u[i]
        BY <2>1 DEF ToSet
      <3>2. Len(s) + i \in DOMAIN (s \o u) /\ (s \o u)[Len(s) + i] = e
        BY <2>1, <3>1
      <3> QED
        BY <3>2 DEF ToSet
    <2>4. ASSUME NEW e \in ToSet(s \o u)
          PROVE  e \in ToSet(s) \cup ToSet(u)
      <3>1. PICK i \in 1..(Len(s) + Len(u)) : e = (s \o u)[i]
        BY <2>1 DEF ToSet
      <3>2. CASE i <= Len(s)
        BY <2>1, <3>1, <3>2 DEF ToSet
      <3>3. CASE i > Len(s)
        <4>1. i - Len(s) \in 1..Len(u) /\ Len(s) + (i - Len(s)) = i
          BY <2>1, <3>1, <3>3
        <4>2. e = u[i - Len(s)]
          BY <2>1, <3>1, <4>1
        <4> QED
          BY <2>1, <4>1, <4>2 DEF ToSet
      <3> QED
        BY <3>1, <3>2, <3>3, <2>1
    <2> QED
      BY <2>2, <2>3, <2>4
  <1> QED
    BY <1>1, <1>2, <1>3

\* start_next_ at a free runway.
LEMMA StartNext ==
    ASSUME rng \in Draws, NEW ap \in AirportState, ~ ap.busy,
           NEW a \in Airport, NEW t \in 0..EndTime, Servable(ap.q, t)
    PROVE  LET r == start_next_(rng, ap, a, t)
           IN  /\ r.airport \in AirportState
               /\ r.sends \in Seq(DueEvent)
               /\ Begins(ap.q, r.airport.q, r.airport.busy, ToSet(r.sends), a, t)
  <1> DEFINE r == start_next_(rng, ap, a, t)
  <1>1. ap.q \in Seq(Token)
    BY DEF AirportState
  <1>2. CASE ap.q = <<>>
    <2>1. r = [airport |-> ap, sends |-> <<>>]
      BY <1>2 DEF start_next_
    <2>2. r.airport = ap /\ r.sends = <<>>
      BY <2>1
    <2> HIDE DEF r
    <2> QED
      BY <2>2, <1>2, SendsAsSet DEF Begins, r
  <1>3. CASE ap.q # <<>>
    <2> DEFINE tok  == Head(ap.q)
               done == t + ServiceTime(rng, tok.key)
               rest == [ap EXCEPT !.q = Tail(@)]
               ev   == ServiceDone(done, tok.plane, tok.key, a)
    <2>1. /\ tok = ap.q[1] /\ tok \in Token /\ Tail(ap.q) \in Seq(Token)
          /\ 1 \in 1..Len(ap.q)
      BY <1>1, <1>3
    <2>2. tok.plane \in Plane /\ tok.key \in LegKey /\ tok.key.leg \in 0..t
      BY <2>1 DEF Servable, Token
    <2>3. tok.key \in [plane : Plane, leg : 0..EndTime]
      BY <2>2, Parameters DEF LegKey
    <2>4. done \in Nat /\ done >= t /\ done <= t + LongestTrip
      <3>1. rng.service[tok.key] \in Nat /\ ServiceTime(rng, tok.key) <= LongestTrip
        BY <2>3, DrawsAssumption, TripsAssumption
      <3> QED
        BY <3>1, Parameters DEF ServiceTime
    <2>5. rest \in AirportState /\ rest.q = Tail(ap.q) /\ ~ rest.busy
      BY <2>1 DEF AirportState
    <2>6. r = IF done > EndTime THEN [airport |-> rest, sends |-> <<>>]
              ELSE [airport |-> [rest EXCEPT !.busy = TRUE], sends |-> <<ev>>]
      BY <1>3, Zenon DEF start_next_
    <2> HIDE DEF r, rest
    <2>7. CASE done > EndTime
      <3>1. r.airport = rest /\ r.sends = <<>>
        BY <2>6, <2>7
      <3>2. t + LongestTrip > EndTime
        BY <2>4, <2>7, Parameters
      <3> QED
        BY <3>1, <3>2, <2>5, <1>3, SendsAsSet DEF Begins, r
    <2>8. CASE ~ (done > EndTime)
      <3>1. r.airport = [rest EXCEPT !.busy = TRUE] /\ r.sends = <<ev>>
        BY <2>6, <2>8
      <3>2. /\ r.airport \in AirportState /\ r.airport.q = Tail(ap.q)
            /\ r.airport.busy
        BY <3>1, <2>5 DEF AirportState
      <3>3. /\ ev \in DueEvent /\ ev.body.kind = "done" /\ ev.body.plane = tok.plane
            /\ ev.body.key = tok.key /\ ev.body.airport = a
            /\ ev.dst = DirectoryLp /\ ev.ts.time = done
        <4>1. ev.ts \in When
          <5>1. stable_seq(4, tok.plane) \in Nat \ {0}
            BY <2>2, Parameters DEF stable_seq, Plane
          <5> QED
            BY <5>1, <2>4, <2>8, Parameters DEF ServiceDone, Targeted, When
        <4>2. ev.body \in DoneBody
          BY <2>2 DEF ServiceDone, Targeted, DoneBody
        <4>3. ev = [ts |-> ev.ts, dst |-> DirectoryLp, body |-> ev.body]
          BY DEF ServiceDone, Targeted
        <4>4. /\ ev.body.kind = "done" /\ ev.body.plane = tok.plane
              /\ ev.body.key = tok.key /\ ev.body.airport = a
              /\ ev.dst = DirectoryLp /\ ev.ts.time = done
          BY DEF ServiceDone, Targeted
        <4> HIDE DEF ev, tok, done
        <4> QED
          BY <4>1, <4>2, <4>3, <4>4 DEF DueEvent
      <3>4. ToSet(r.sends) = {ev} /\ r.sends \in Seq(DueEvent)
        BY <3>1, <3>3, SendsAsSet
      <3> HIDE DEF ev, done, tok
      <3>5. \E d \in DueEvent :
                   /\ ToSet(r.sends) = {d} /\ d.body.kind = "done"
                   /\ d.body.plane = ap.q[1].plane /\ d.body.key = ap.q[1].key
                   /\ d.body.airport = a /\ d.dst = DirectoryLp
                   /\ d.ts.time >= t
        BY <3>3, <3>4, <2>1, <2>4
      <3> QED
        BY <3>2, <3>4, <3>5, <1>3 DEF Begins, r
    <2> QED
      BY <2>7, <2>8
  <1> QED
    BY <1>2, <1>3

\* enqueue_arrival_: the plane joins the queue, and if the runway is free the
\* first one is served.
LEMMA EnqueueArrival ==
    ASSUME rng \in Draws, NEW ap \in AirportState, NEW a \in Airport,
           NEW p \in Plane, NEW key \in LegKey, NEW t \in 0..EndTime,
           Servable(ap.q, t), key.leg \in 0..t
    PROVE  LET r == enqueue_arrival_(rng, ap, a, p, key, t)
               q == Append(ap.q, [plane |-> p, key |-> key])
           IN  /\ r.airport \in AirportState
               /\ r.sends \in Seq(DueEvent)
               /\ IF ap.busy
                  THEN r.airport.q = q /\ r.airport.busy /\ ToSet(r.sends) = {}
                  ELSE Begins(q, r.airport.q, r.airport.busy, ToSet(r.sends), a, t)
  <1> DEFINE tok    == [plane |-> p, key |-> key]
             queued == [ap EXCEPT !.arrivals = @ + 1, !.q = Append(@, tok)]
             r      == enqueue_arrival_(rng, ap, a, p, key, t)
  <1>1. ap.q \in Seq(Token) /\ tok \in Token /\ ap.arrivals \in Nat
    BY DEF AirportState, Token
  <1>2. /\ queued \in AirportState /\ queued.q = Append(ap.q, tok)
        /\ queued.busy = ap.busy
    <2>1. Append(ap.q, tok) \in Seq(Token)
      BY <1>1
    <2> DEFINE more == [ap EXCEPT !.arrivals = @ + 1]
    <2>2. more \in AirportState /\ more.q = ap.q /\ more.busy = ap.busy
      BY <1>1 DEF AirportState
    <2>3. queued = [more EXCEPT !.q = Append(@, tok)]
      BY Zenon
    <2> HIDE DEF tok, more, queued
    <2> QED
      BY <2>1, <2>2, <2>3 DEF AirportState
  <1>3. Servable(queued.q, t)
    <2>1. /\ Len(Append(ap.q, tok)) = Len(ap.q) + 1 /\ Len(ap.q) \in Nat
          /\ \A i \in 1..Len(ap.q) : Append(ap.q, tok)[i] = ap.q[i]
          /\ Append(ap.q, tok)[Len(ap.q) + 1] = tok
      BY <1>1
    <2> SUFFICES ASSUME NEW i \in 1..(Len(ap.q) + 1)
                 PROVE  Append(ap.q, tok)[i].key.leg \in 0..t
      BY <1>2, <2>1 DEF Servable
    <2>2. CASE i \in 1..Len(ap.q)
      BY <2>1, <2>2 DEF Servable
    <2>3. CASE i = Len(ap.q) + 1
      BY <2>1, <2>3
    <2> QED
      BY <2>1, <2>2, <2>3
  <1>4. r = IF queued.busy THEN [airport |-> queued, sends |-> <<>>]
                           ELSE start_next_(rng, queued, a, t)
    BY Zenon DEF enqueue_arrival_
  <1> HIDE DEF r, queued
  <1>5. CASE ap.busy
    <2>1. r.airport = queued /\ r.sends = <<>>
      BY <1>4, <1>5, <1>2
    <2> QED
      BY <2>1, <1>2, <1>5, SendsAsSet DEF r
  <1>6. CASE ~ ap.busy
    <2>1. r = start_next_(rng, queued, a, t)
      BY <1>4, <1>6, <1>2
    <2> QED
      BY <2>1, <1>2, <1>3, <1>6, StartNext DEF r
  <1> QED
    BY <1>5, <1>6

\* When a runway takes the next plane, every plane is in some situation again.
LEMMA ServeKeeps ==
    ASSUME NEW due, NEW queues \in [Airport -> Seq(Token)], NEW worlds, NEW owns,
           NEW t \in Int, NEW a \in Airport, NEW q2, NEW busy2, NEW new,
           Begins(queues[a], q2, busy2, new, a, t),
           NEW p, Situated(due, queues, worlds, owns, t, p)
    PROVE  Situated(due \cup new, [queues EXCEPT ![a] = q2], worlds, owns, t, p)
  <1> DEFINE q       == queues[a]
             due2    == due \cup new
             queues2 == [queues EXCEPT ![a] = q2]
  <1>1. queues2[a] = q2 /\ \A b \in Airport \ {a} : queues2[b] = queues[b]
    OBVIOUS
  <1>2. q \in Seq(Token)
    OBVIOUS
  <1>3. CASE q = <<>>
    <2>1. due2 = due /\ q2 = q
      BY <1>3 DEF Begins
    <2>2. queues2 = queues
      BY <2>1
    <2> QED
      BY <2>1, <2>2
  <1>4. CASE q # <<>> /\ q[1].plane # p
    <2>1. q2 = Tail(q) /\ \A ev \in new : ev.body.plane = q[1].plane
      BY <1>4 DEF Begins
    <2>2. Of(due2, p) = Of(due, p)
      BY <2>1, <1>4 DEF Of
    <2> HIDE DEF due2, queues2, q
    <2>3. /\ \A i : i \in Spots(p, q2) <=> i \in Nat \ {0} /\ i + 1 \in Spots(p, q)
          /\ \A i \in Spots(p, q) : i \in Nat \ {0} /\ i # 1
          /\ \A i \in 1..Len(q2) : i + 1 \in 1..Len(q) /\ q2[i] = q[i + 1]
      BY <2>1, <1>2, <1>4, SpotsAfterHead
    <2>4. Spots(p, q) = {} => Spots(p, q2) = {}
      BY <2>3
    <2>5. queues2[a] = q2 /\ \A b \in Airport \ {a} : queues2[b] = queues[b]
      BY <1>1
    <2>6. Unqueued(queues, p) => Unqueued(queues2, p)
      BY <2>4, <2>5 DEF Unqueued, q
    <2>7. ASSUME NEW b \in Airport, Waiting(due, queues, worlds, owns, t, p, b)
          PROVE  Waiting(due2, queues2, worlds, owns, t, p, b)
      <3>1. AtAirport(worlds, owns, p, b) /\ Of(due2, p) = {}
        BY <2>2, <2>7 DEF Waiting
      <3>2. \A c \in Airport \ {b} : Spots(p, queues2[c]) = {}
        BY <2>4, <2>5, <2>7 DEF Waiting, q
      <3>3. PICK i \in 1..Len(queues[b]) : /\ Spots(p, queues[b]) = {i}
                                           /\ queues[b][i].key.leg \in 0..t
        BY <2>7 DEF Waiting
      <3>4. CASE b # a
        BY <3>1, <3>2, <3>3, <3>4, <2>5 DEF Waiting
      <3>5. CASE b = a
        <4>1. Spots(p, q) = {i} /\ q[i].key.leg \in 0..t
          BY <3>3, <3>5 DEF q
        <4>2. i \in Nat \ {0} /\ i # 1
          BY <4>1, <2>3
        <4>3. i - 1 \in Nat \ {0} /\ (i - 1) + 1 = i
          BY <4>2
        <4>4. i - 1 \in Spots(p, q2)
          BY <4>1, <4>3, <2>3
        <4>5. ASSUME NEW j \in Spots(p, q2)
              PROVE  j = i - 1
          <5>1. j \in Nat \ {0} /\ j + 1 \in Spots(p, q)
            BY <2>3
          <5>2. j + 1 = i
            BY <4>1, <5>1
          <5> QED
            BY <4>2, <5>1, <5>2
        <4>6. i - 1 \in 1..Len(q2)
          BY <4>4 DEF Spots
        <4>7. q2[i - 1] = q[i]
          BY <4>3, <4>6, <2>3
        <4>8. /\ i - 1 \in 1..Len(queues2[b]) /\ Spots(p, queues2[b]) = {i - 1}
              /\ queues2[b][i - 1].key.leg \in 0..t
          BY <4>1, <4>4, <4>5, <4>6, <4>7, <2>5, <3>5
        <4> QED
          BY <4>8, <3>1, <3>2 DEF Waiting
      <3> QED
        BY <3>4, <3>5
    <2>8. ASSUME NEW b \in Airport, Served(due, queues, worlds, owns, t, p, b)
          PROVE  Served(due2, queues2, worlds, owns, t, p, b)
      BY <2>2, <2>6, <2>8 DEF Served, due2
    <2>9. ASSUME Flying(due, queues, worlds, owns, p)
          PROVE  Flying(due2, queues2, worlds, owns, p)
      <3>1. \A land \in due : Near(due, worlds, owns, p, land)
                                 => Near(due2, worlds, owns, p, land)
        BY <2>2 DEF Near
      <3>2. \A land, cross \in due : Far(due, owns, p, land, cross)
                                        => Far(due2, owns, p, land, cross)
        BY <2>2 DEF Far
      <3>3. \A ev \in due : ev \in due2
        BY DEF due2
      <3> QED
        BY <3>1, <3>2, <3>3, <2>6, <2>9 DEF Flying
    <2>10. Ended(due, queues, t, p) => Ended(due2, queues2, t, p)
      BY <2>2, <2>6 DEF Ended
    <2> QED
      BY <2>7, <2>8, <2>9, <2>10 DEF Situated, due2, queues2
  <1>5. CASE q # <<>> /\ q[1].plane = p
    <2>1. 1 \in Spots(p, q)
      BY <1>2, <1>5, SpotsAfterHead
    <2>2. ~ Unqueued(queues, p)
      BY <2>1 DEF Unqueued
    <2>3. PICK b \in Airport : Waiting(due, queues, worlds, owns, t, p, b)
      BY <2>2 DEF Situated, Served, Flying, Ended
    <2>4. b = a
      BY <2>1, <2>3 DEF Waiting
    <2>5. PICK i \in 1..Len(q) : Spots(p, q) = {i} /\ q[i].key.leg \in 0..t
      BY <2>3, <2>4 DEF Waiting
    <2>6. i = 1
      BY <2>1, <2>5
    <2>7. /\ AtAirport(worlds, owns, p, a) /\ Of(due, p) = {}
          /\ \A c \in Airport \ {a} : Spots(p, queues[c]) = {}
      BY <2>3, <2>4 DEF Waiting
    <2>8. q2 = Tail(q)
      BY <1>5 DEF Begins
    <2>9. Spots(p, q2) = {}
      <3> SUFFICES ASSUME NEW j \in Spots(p, q2)
                   PROVE  FALSE
        OBVIOUS
      <3>1. j \in Nat \ {0} /\ j + 1 \in Spots(p, q)
        BY <2>8, <1>2, <1>5, SpotsAfterHead
      <3> QED
        BY <3>1, <2>5, <2>6
    <2>10. Unqueued(queues2, p)
      BY <1>1, <2>7, <2>9 DEF Unqueued
    <2> HIDE DEF queues2
    <2>11. CASE new = {} /\ t + LongestTrip > EndTime
      <3>1. Of(due2, p) = {}
        BY <2>7, <2>11 DEF Of
      <3>2. Ended(due2, queues2, t, p)
        BY <3>1, <2>10, <2>11 DEF Ended
      <3> QED
        BY <3>2 DEF Situated, queues2
    <2>12. ASSUME NEW done \in DueEvent, new = {done}, done.body.kind = "done",
                  done.body.plane = q[1].plane, done.body.key = q[1].key,
                  done.body.airport = a, done.dst = DirectoryLp
           PROVE  Situated(due2, queues2, worlds, owns, t, p)
      <3>1. Of(due2, p) = {done} /\ done \in due2
        BY <2>7, <2>12, <1>5 DEF Of
      <3>2. done.body.key.leg \in 0..t
        BY <2>5, <2>6, <2>12
      <3> HIDE DEF due2
      <3>3. Served(due2, queues2, worlds, owns, t, p, a)
        BY <3>1, <3>2, <2>7, <2>10, <2>12 DEF Served
      <3> QED
        BY <3>3 DEF Situated
    <2>13. \/ new = {} /\ t + LongestTrip > EndTime
           \/ \E done \in DueEvent :
                 /\ new = {done} /\ done.body.kind = "done"
                 /\ done.body.plane = q[1].plane /\ done.body.key = q[1].key
                 /\ done.body.airport = a /\ done.dst = DirectoryLp
      BY <1>5 DEF Begins
    <2> QED
      BY <2>11, <2>12, <2>13 DEF queues2
  <1> QED
    BY <1>3, <1>4, <1>5

\* A plane that comes to the end of a queue waits there, and nobody else is moved.
LEMMA EnqueueKeeps ==
    ASSUME NEW due, NEW queues \in [Airport -> Seq(Token)], NEW worlds, NEW owns,
           NEW t \in Int, NEW a \in Airport, NEW tok \in Token, tok.key.leg \in 0..t,
           AtAirport(worlds, owns, tok.plane, a), Of(due, tok.plane) = {},
           Unqueued(queues, tok.plane),
           NEW p, p = tok.plane \/ Situated(due, queues, worlds, owns, t, p)
    PROVE  Situated(due, [queues EXCEPT ![a] = Append(@, tok)], worlds, owns, t, p)
  <1> DEFINE q       == queues[a]
             queues2 == [queues EXCEPT ![a] = Append(@, tok)]
  <1>1. queues2[a] = Append(q, tok) /\ \A b \in Airport \ {a} : queues2[b] = queues[b]
    OBVIOUS
  <1>2. q \in Seq(Token)
    OBVIOUS
  <1>3. /\ Spots(p, Append(q, tok))
              = Spots(p, q) \cup (IF tok.plane = p THEN {Len(q) + 1} ELSE {})
        /\ \A i \in Spots(p, q) : Append(q, tok)[i] = q[i]
        /\ Append(q, tok)[Len(q) + 1] = tok
        /\ Len(Append(q, tok)) = Len(q) + 1 /\ Len(q) \in Nat
    <2> HIDE DEF q, queues2
    <2> QED
      BY <1>2 DEF Spots
  <1> HIDE DEF queues2
  <1>4. CASE p = tok.plane
    <2>1. Spots(p, q) = {} /\ \A b \in Airport \ {a} : Spots(p, queues2[b]) = {}
      BY <1>1, <1>4 DEF Unqueued
    <2>2. /\ Len(q) + 1 \in 1..Len(queues2[a]) /\ Spots(p, queues2[a]) = {Len(q) + 1}
          /\ queues2[a][Len(q) + 1].key.leg \in 0..t
      BY <1>1, <1>3, <1>4, <2>1
    <2>3. Waiting(due, queues2, worlds, owns, t, p, a)
      BY <1>4, <2>1, <2>2 DEF Waiting
    <2> QED
      BY <2>3 DEF Situated, queues2
  <1>5. CASE p # tok.plane
    <2>1. Spots(p, queues2[a]) = Spots(p, q)
      BY <1>1, <1>3, <1>5
    <2>2. ASSUME NEW b \in Airport
          PROVE  /\ Spots(p, queues2[b]) = Spots(p, queues[b])
                 /\ \A i \in Spots(p, queues[b]) : /\ i \in 1..Len(queues2[b])
                                                   /\ queues2[b][i] = queues[b][i]
      <3>1. CASE b = a
        <4>1. \A i \in Spots(p, q) : i \in 1..Len(q)
          BY DEF Spots
        <4>2. \A i \in Spots(p, q) : i \in 1..(Len(q) + 1)
          BY <4>1, <1>3
        <4> QED
          BY <3>1, <2>1, <4>2, <1>1, <1>3
      <3>2. CASE b # a
        BY <3>2, <1>1 DEF Spots
      <3> QED
        BY <3>1, <3>2
    <2>3. t >= t
      OBVIOUS
    <2>4. Situated(due, queues2, worlds, owns, t, p)
      BY <1>5, <2>2, <2>3, SituationFrame
    <2> QED
      BY <2>4 DEF queues2
  <1> QED
    BY <1>4, <1>5

\* The same for the records: a plane that is served was in the queue.
LEMMA ServeTold ==
    ASSUME NEW due, NEW queues \in [Airport -> Seq(Token)],
           NEW t \in Int, NEW a \in Airport, NEW q2, NEW busy2, NEW new,
           Begins(queues[a], q2, busy2, new, a, t),
           NEW recs, NEW p, Told(due, queues, recs, p)
    PROVE  Told(due \cup new, [queues EXCEPT ![a] = q2], recs, p)
  <1> DEFINE q       == queues[a]
             queues2 == [queues EXCEPT ![a] = q2]
  <1>1. queues2[a] = q2 /\ \A b \in Airport \ {a} : queues2[b] = queues[b]
    OBVIOUS
  <1>2. q \in Seq(Token)
    OBVIOUS
  <1>3. Spots(p, q2) # {} => Spots(p, q) # {}
    <2>1. CASE q2 = q
      BY <2>1
    <2>2. CASE q # <<>> /\ q2 = Tail(q)
      <3> HIDE DEF q
      <3>1. \A i : i \in Spots(p, q2) => i + 1 \in Spots(p, q)
        BY <1>2, <2>2, SpotsAfterHead
      <3> QED
        BY <3>1
    <2> QED
      BY <2>1, <2>2 DEF Begins
  <1>4. \A b \in Airport : Spots(p, queues2[b]) # {} => LandedAt(recs, p, b)
    BY <1>1, <1>3 DEF Told
  <1>5. ASSUME NEW ev \in Of(due \cup new, p)
        PROVE  /\ ev.body.kind = "land" => LeftFor(recs, p, ev)
               /\ ev.body.kind = "done" => LandedAt(recs, p, ev.body.airport)
    <2>1. CASE ev \in due
      BY <2>1 DEF Told, Of
    <2>2. CASE ev \in new
      <3>1. /\ q # <<>> /\ ev.body.kind = "done" /\ ev.body.airport = a
            /\ ev.body.plane = q[1].plane
        BY <2>2 DEF Begins
      <3>2. q[1].plane = p
        BY <3>1 DEF Of
      <3> HIDE DEF q
      <3>3. 1 \in Spots(p, q)
        BY <1>2, <3>1, <3>2, SpotsAfterHead
      <3>4. LandedAt(recs, p, a)
        BY <3>3 DEF Told, q
      <3> QED
        BY <3>1, <3>4
    <2> QED
      BY <2>1, <2>2 DEF Of
  <1> HIDE DEF queues2
  <1>6. Told(due \cup new, queues2, recs, p)
    BY <1>4, <1>5 DEF Told
  <1> QED
    BY <1>6 DEF queues2

\* And for the runways: all are in order, or all but a free one.
InOrder(due, busys) == \A b \in Airport : Exclusive(due, busys[b], b)
Free(due, busys, a) == /\ Serving(due, a) = {}
                       /\ \A b \in Airport \ {a} : Exclusive(due, busys[b], b)

LEMMA ServeExclusive ==
    ASSUME NEW due, NEW busys \in [Airport -> BOOLEAN],
           NEW t, NEW a \in Airport, NEW q, NEW q2, NEW busy2, NEW new,
           Begins(q, q2, busy2, new, a, t), Free(due, busys, a)
    PROVE  InOrder(due \cup new, [busys EXCEPT ![a] = busy2])
  <1> SUFFICES ASSUME NEW b \in Airport
               PROVE  Exclusive(due \cup new, [busys EXCEPT ![a] = busy2][b], b)
    BY DEF InOrder
  <1>1. CASE b # a
    <2>1. \A ev \in new : ev.body.airport = a
      BY DEF Begins
    <2>2. Serving(due \cup new, b) = Serving(due, b)
      BY <1>1, <2>1 DEF Serving
    <2>3. [busys EXCEPT ![a] = busy2][b] = busys[b]
      BY <1>1
    <2>4. Exclusive(due, busys[b], b)
      BY <1>1 DEF Free
    <2> QED
      BY <2>2, <2>3, <2>4 DEF Exclusive
  <1>2. CASE b = a
    <2>1. [busys EXCEPT ![a] = busy2][b] = busy2
      BY <1>2
    <2>2. CASE new = {}
      <3>1. ~ busy2
        BY <2>2 DEF Begins
      <3>2. Serving(due \cup new, a) = {}
        BY <2>2 DEF Free
      <3> QED
        BY <1>2, <2>1, <3>1, <3>2 DEF Exclusive
    <2>3. CASE new # {}
      <3>1. PICK done : /\ new = {done} /\ done.body.kind = "done"
                        /\ done.body.airport = a
        BY <2>3 DEF Begins
      <3>2. busy2
        BY <2>3 DEF Begins
      <3>3. Serving(due \cup new, a) = {done} /\ done \in due \cup new
        BY <3>1 DEF Serving, Free
      <3> QED
        BY <1>2, <2>1, <3>2, <3>3 DEF Exclusive
    <2> QED
      BY <2>2, <2>3
  <1> QED
    BY <1>1, <1>2

-----------------------------------------------------------------------------
(***************************************************************************)
(* A region that changes.                                                  *)
(***************************************************************************)
LEMMA ViewTypes ==
    ASSUME NEW rs, RegionTypes(rs)
    PROVE  /\ Queues(rs) \in [Airport -> Seq(Token)]
           /\ Runways(rs) \in [Airport -> BOOLEAN]
           /\ Worlds(rs) \in [RegionLps -> PlaneMaps]
           /\ \A a \in Airport :
                 LET lp == lp_of_region(region_of_airport(a))
                 IN  /\ lp \in RegionLps /\ a \in AirportsOf(lp)
                     /\ rs[lp].airports[a] \in AirportState
                     /\ Queues(rs)[a] = rs[lp].airports[a].q
                     /\ Runways(rs)[a] = rs[lp].airports[a].busy
  <1>1. ASSUME NEW a \in Airport
        PROVE  LET lp == lp_of_region(region_of_airport(a))
               IN  /\ lp \in RegionLps /\ a \in AirportsOf(lp)
                   /\ rs[lp].airports[a] \in AirportState
                   /\ rs[lp].airports[a].q \in Seq(Token)
                   /\ rs[lp].airports[a].busy \in BOOLEAN
    <2> DEFINE lp == lp_of_region(region_of_airport(a))
    <2>1. lp \in RegionLps /\ a \in AirportsOf(lp)
      BY Airports DEF AirportsOf, lp_of_region, region_index_of_lp
    <2>2. rs[lp].airports \in [AirportsOf(lp) -> AirportState]
      BY <2>1 DEF RegionTypes, RegionState
    <2>3. rs[lp].airports[a] \in AirportState
      BY <2>1, <2>2
    <2> QED
      BY <2>1, <2>3 DEF AirportState
  <1>2. \A lp \in RegionLps : rs[lp].planes \in PlaneMaps
    BY DEF RegionTypes, RegionState
  <1> QED
    BY <1>1, <1>2 DEF Queues, Runways, Worlds

\* One airport and the World of its region.
WithAirport(rs, a, planes, ap) ==
    [rs EXCEPT ![lp_of_region(region_of_airport(a))] =
        [planes |-> planes, airports |-> [@.airports EXCEPT ![a] = ap]]]

LEMMA RegionChanged ==
    ASSUME NEW rs, RegionTypes(rs), NEW a \in Airport, NEW planes \in PlaneMaps,
           NEW ap \in AirportState
    PROVE  LET rs2 == WithAirport(rs, a, planes, ap)
           IN  /\ RegionTypes(rs2)
               /\ Queues(rs2) = [Queues(rs) EXCEPT ![a] = ap.q]
               /\ Runways(rs2) = [Runways(rs) EXCEPT ![a] = ap.busy]
               /\ Worlds(rs2) = [Worlds(rs) EXCEPT ![lp_of_region(region_of_airport(a))] = planes]
  <1> DEFINE lp  == lp_of_region(region_of_airport(a))
             s2  == [planes |-> planes, airports |-> [rs[lp].airports EXCEPT ![a] = ap]]
             rs2 == [rs EXCEPT ![lp] = s2]
  <1>1. lp \in RegionLps /\ a \in AirportsOf(lp)
    BY ViewTypes
  <1>2. rs = [k \in RegionLps |-> rs[k]] /\ rs[lp].airports \in [AirportsOf(lp) -> AirportState]
    BY <1>1 DEF RegionTypes, RegionState
  <1>3. s2.planes = planes /\ s2.airports = [rs[lp].airports EXCEPT ![a] = ap]
    OBVIOUS
  <1>4. s2.airports \in [AirportsOf(lp) -> AirportState]
    BY <1>2, <1>3
  <1>5. s2 \in RegionState(lp)
    BY <1>4 DEF RegionState
  <1> HIDE DEF s2
  <1>6. rs2[lp] = s2 /\ \A k \in RegionLps : k # lp => rs2[k] = rs[k]
    BY <1>1, <1>2
  <1>7. rs2 = [k \in RegionLps |-> rs2[k]]
    BY <1>2
  <1> HIDE DEF rs2
  <1>8. RegionTypes(rs2)
    BY <1>5, <1>6, <1>7 DEF RegionTypes
  <1>9. ASSUME NEW b \in Airport
        PROVE  LET k == lp_of_region(region_of_airport(b))
               IN  rs2[k].airports[b] = IF b = a THEN ap ELSE rs[k].airports[b]
    <2> DEFINE k == lp_of_region(region_of_airport(b))
    <2>1. k \in RegionLps /\ b \in AirportsOf(k)
      BY ViewTypes
    <2>2. CASE k # lp
      BY <2>1, <2>2, <1>6
    <2>3. CASE k = lp
      <3>1. rs2[k].airports = [rs[lp].airports EXCEPT ![a] = ap] /\ b \in AirportsOf(lp)
        BY <2>1, <2>3, <1>3, <1>6
      <3> QED
        BY <3>1, <2>3, <1>2
    <2> QED
      BY <2>2, <2>3
  <1>10. Queues(rs2) = [Queues(rs) EXCEPT ![a] = ap.q]
    BY <1>9 DEF Queues
  <1>11. Runways(rs2) = [Runways(rs) EXCEPT ![a] = ap.busy]
    BY <1>9 DEF Runways
  <1>12. Worlds(rs2) = [Worlds(rs) EXCEPT ![lp] = planes]
    BY <1>3, <1>6 DEF Worlds
  <1>13. rs2 = WithAirport(rs, a, planes, ap)
    BY DEF rs2, s2, WithAirport
  <1> QED
    BY <1>8, <1>10, <1>11, <1>12, <1>13

\* A World alone.
LEMMA WorldChanged ==
    ASSUME NEW rs, RegionTypes(rs), NEW lp \in RegionLps, NEW planes \in PlaneMaps
    PROVE  LET rs2 == [rs EXCEPT ![lp] = [@ EXCEPT !.planes = planes]]
           IN  /\ RegionTypes(rs2)
               /\ Queues(rs2) = Queues(rs) /\ Runways(rs2) = Runways(rs)
               /\ Worlds(rs2) = [Worlds(rs) EXCEPT ![lp] = planes]
  <1> DEFINE s2  == [rs[lp] EXCEPT !.planes = planes]
             rs2 == [rs EXCEPT ![lp] = s2]
  <1>1. rs = [k \in RegionLps |-> rs[k]] /\ rs[lp] \in RegionState(lp)
    BY DEF RegionTypes
  <1>2. /\ s2 \in RegionState(lp) /\ s2.planes = planes
        /\ s2.airports = rs[lp].airports
    BY <1>1 DEF RegionState
  <1> HIDE DEF s2
  <1>3. rs2[lp] = s2 /\ \A k \in RegionLps : k # lp => rs2[k] = rs[k]
    BY <1>1
  <1>4. rs2 = [k \in RegionLps |-> rs2[k]]
    BY <1>1
  <1> HIDE DEF rs2
  <1>5. RegionTypes(rs2)
    BY <1>2, <1>3, <1>4 DEF RegionTypes
  <1>6. \A k \in RegionLps : rs2[k].airports = rs[k].airports
    BY <1>2, <1>3
  <1>7. \A a \in Airport : lp_of_region(region_of_airport(a)) \in RegionLps
    BY Airports
  <1>8. Queues(rs2) = Queues(rs) /\ Runways(rs2) = Runways(rs)
    BY <1>6, <1>7 DEF Queues, Runways
  <1>9. Worlds(rs2) = [Worlds(rs) EXCEPT ![lp] = planes]
    BY <1>2, <1>3 DEF Worlds
  <1> QED
    BY <1>5, <1>8, <1>9 DEF rs2, s2

-----------------------------------------------------------------------------
(***************************************************************************)
(* What an event that is due says about its plane.                         *)
(***************************************************************************)
\* The end of a service: the plane is at the airport, and nothing else is due.
LEMMA DueDone ==
    ASSUME NEW due, NEW queues, NEW worlds, NEW owns, NEW t, NEW p,
           Situated(due, queues, worlds, owns, t, p),
           NEW ev \in Of(due, p), ev.body.kind = "done"
    PROVE  /\ ev.body.airport \in Airport
           /\ AtAirport(worlds, owns, p, ev.body.airport)
           /\ Unqueued(queues, p) /\ Of(due, p) = {ev}
           /\ ev.body.key.leg \in 0..t /\ ev.dst \in {DirectoryLp, owns[p]}
  <1>1. ~ Ended(due, queues, t, p)
    BY DEF Ended
  <1>2. \A a \in Airport : ~ Waiting(due, queues, worlds, owns, t, p, a)
    BY DEF Waiting
  <1>3. ~ Flying(due, queues, worlds, owns, p)
    <2> SUFFICES ASSUME Flying(due, queues, worlds, owns, p)
                 PROVE  FALSE
      OBVIOUS
    <2>1. PICK land \in due :
             /\ land.body.kind = "land"
             /\ \/ Near(due, worlds, owns, p, land)
                \/ \E cross \in due : Far(due, owns, p, land, cross)
      BY DEF Flying
    <2>2. ~ Near(due, worlds, owns, p, land)
      BY <2>1 DEF Near
    <2>3. PICK cross \in due : Far(due, owns, p, land, cross)
      BY <2>1, <2>2
    <2> QED
      BY <2>1, <2>3 DEF Far
  <1>4. PICK a \in Airport : Served(due, queues, worlds, owns, t, p, a)
    BY <1>1, <1>2, <1>3 DEF Situated
  <1> QED
    BY <1>4 DEF Served

\* A landing: the plane flies.
LEMMA DueLand ==
    ASSUME NEW due, NEW queues, NEW worlds, NEW owns, NEW t, NEW p,
           Situated(due, queues, worlds, owns, t, p),
           NEW ev \in Of(due, p), ev.body.kind = "land"
    PROVE  /\ Unqueued(queues, p) /\ ev.body.key.leg \in 0..ev.ts.time
           /\ \/ Near(due, worlds, owns, p, ev)
              \/ \E cross \in due : Far(due, owns, p, ev, cross)
  <1>1. ~ Ended(due, queues, t, p)
    BY DEF Ended
  <1>2. \A a \in Airport : ~ Waiting(due, queues, worlds, owns, t, p, a)
    BY DEF Waiting
  <1>3. \A a \in Airport : ~ Served(due, queues, worlds, owns, t, p, a)
    BY DEF Served
  <1>4. Flying(due, queues, worlds, owns, p)
    BY <1>1, <1>2, <1>3 DEF Situated
  <1>5. PICK land \in due :
           /\ land.body.kind = "land" /\ land.body.key.leg \in 0..land.ts.time
           /\ \/ Near(due, worlds, owns, p, land)
              \/ \E cross \in due : Far(due, owns, p, land, cross)
    BY <1>4 DEF Flying
  <1>6. ev = land
    <2>1. CASE Near(due, worlds, owns, p, land)
      BY <2>1 DEF Near
    <2>2. CASE \E cross \in due : Far(due, owns, p, land, cross)
      BY <2>2, <1>5 DEF Far
    <2> QED
      BY <1>5, <2>1, <2>2
  <1> QED
    BY <1>4, <1>5, <1>6 DEF Flying

\* A crossing: the plane flies, and lands further on.
LEMMA DueCross ==
    ASSUME NEW due, NEW queues, NEW worlds, NEW owns, NEW t, NEW p,
           Situated(due, queues, worlds, owns, t, p),
           NEW ev \in Of(due, p), ev.body.kind \in {"update", "install"}
    PROVE  /\ Unqueued(queues, p)
           /\ \E land \in due :
                 /\ land.body.kind = "land" /\ land.body.key.leg \in 0..land.ts.time
                 /\ Far(due, owns, p, land, ev)
  <1>1. ~ Ended(due, queues, t, p)
    BY DEF Ended
  <1>2. \A a \in Airport : ~ Waiting(due, queues, worlds, owns, t, p, a)
    BY DEF Waiting
  <1>3. \A a \in Airport : ~ Served(due, queues, worlds, owns, t, p, a)
    BY DEF Served
  <1>4. Flying(due, queues, worlds, owns, p)
    BY <1>1, <1>2, <1>3 DEF Situated
  <1>5. PICK land \in due :
           /\ land.body.kind = "land" /\ land.body.key.leg \in 0..land.ts.time
           /\ \/ Near(due, worlds, owns, p, land)
              \/ \E cross \in due : Far(due, owns, p, land, cross)
    BY <1>4 DEF Flying
  <1>6. ~ Near(due, worlds, owns, p, land)
    BY <1>5 DEF Near
  <1>7. PICK cross \in due : Far(due, owns, p, land, cross)
    BY <1>5, <1>6
  <1>8. ev = cross
    BY <1>5, <1>7 DEF Far
  <1> QED
    BY <1>4, <1>5, <1>7, <1>8 DEF Flying

-----------------------------------------------------------------------------
(***************************************************************************)
(* What the invariant says.                                                *)
(***************************************************************************)
\* An event of the plane that has been forwarded finds what it is for.
LEMMA FindsItsPlane ==
    ASSUME PlanTypes, AllSituated, NEW ev \in pending, ev.dst # DirectoryLp,
           ev.body.kind \in {"land", "done"}
    PROVE  /\ ev.dst \in RegionLps /\ ev.dst = owner[ev.body.plane]
           /\ ev.body.plane \in Plane /\ ev.body.airport \in Airport
           /\ HasPlane(regions[ev.dst], ev.body.plane)
           /\ HasAirport(regions[ev.dst], ev.body.airport)
           /\ ev.dst = lp_of_region(region_of_airport(ev.body.airport))
           /\ ev.body.kind = "land" =>
                 Near(pending, Worlds(regions), owner, ev.body.plane, ev)
  <1> DEFINE p == ev.body.plane
             a == ev.body.airport
  <1>1. /\ ev.dst \in RegionLps
        /\ ev.body \in LandBody \cup DoneBody \cup InstallBody
    BY DEF PlanTypes, DueEvent
  <1>2. p \in Plane /\ a \in Airport /\ ev \in Of(pending, p)
    BY <1>1 DEF LandBody, DoneBody, InstallBody, Of
  <1>3. Situated(pending, Queues(regions), Worlds(regions), owner, now.time, p)
    BY <1>2 DEF AllSituated
  <1>4. CASE ev.body.kind = "land"
    <2>1. Near(pending, Worlds(regions), owner, p, ev)
      <3>1. \A cross : ~ Far(pending, owner, p, ev, cross)
        BY DEF Far
      <3>2. \/ Near(pending, Worlds(regions), owner, p, ev)
            \/ \E cross \in pending : Far(pending, owner, p, ev, cross)
        BY <1>2, <1>3, <1>4, DueLand
      <3> QED
        BY <3>1, <3>2
    <2>2. /\ ev.dst = owner[p] /\ owner[p] = lp_of_region(region_of_airport(a))
          /\ p \in DOMAIN Worlds(regions)[owner[p]]
      BY <2>1 DEF Near
    <2> QED
      BY <1>1, <1>2, <2>1, <2>2, ViewTypes
         DEF PlanTypes, RegionTypes, RegionState, Worlds, HasPlane, HasAirport
  <1>5. CASE ev.body.kind = "done"
    <2>1. /\ AtAirport(Worlds(regions), owner, p, a)
          /\ ev.dst \in {DirectoryLp, owner[p]}
      BY <1>2, <1>3, <1>5, DueDone
    <2>2. /\ ev.dst = owner[p] /\ owner[p] = lp_of_region(region_of_airport(a))
          /\ p \in DOMAIN Worlds(regions)[owner[p]]
      BY <2>1 DEF AtAirport
    <2> QED
      BY <1>1, <1>2, <1>5, <2>2, ViewTypes
         DEF PlanTypes, RegionTypes, RegionState, Worlds, HasPlane, HasAirport
  <1> QED
    BY <1>4, <1>5

LEMMA TypesImplied ==
    ASSUME PlanTypes
    PROVE  FlightsTypeOK
  <1>1. \A ev \in pending : /\ ev.ts.time \in 0..EndTime
                            /\ ev.ts.sequence \in Nat \ {0}
                            /\ ev.dst \in RegionLps \cup {DirectoryLp}
    BY DEF PlanTypes, DueEvent, When
  <1>2. ASSUME NEW lp \in RegionLps
        PROVE  /\ DOMAIN regions[lp].planes \subseteq Plane
               /\ \A a \in DOMAIN regions[lp].airports :
                     \A i \in DOMAIN regions[lp].airports[a].q :
                         regions[lp].airports[a].q[i].plane \in Plane
    <2>1. regions[lp] \in RegionState(lp)
      BY DEF PlanTypes, RegionTypes
    <2>2. DOMAIN regions[lp].planes \subseteq Plane
      BY <2>1 DEF RegionState, PlaneMaps
    <2>3. ASSUME NEW a \in DOMAIN regions[lp].airports
          PROVE  \A i \in DOMAIN regions[lp].airports[a].q :
                         regions[lp].airports[a].q[i].plane \in Plane
      <3> DEFINE q == regions[lp].airports[a].q
      <3>1. q \in Seq(Token)
        BY <2>1 DEF RegionState, AirportState
      <3> HIDE DEF q
      <3>2. \A i \in DOMAIN q : q[i] \in Token
        BY <3>1
      <3> QED
        BY <3>2 DEF Token, q
    <2> QED
      BY <2>2, <2>3
  <1>3. owner \in [Plane -> RegionLps]
    BY DEF PlanTypes
  <1> QED
    BY <1>1, <1>2, <1>3 DEF FlightsTypeOK

\* What a handler finds missing.
LEMMA NeverMissingImplied ==
    ASSUME PlanTypes, AllSituated
    PROVE  NeverMissing
  <1> SUFFICES ASSUME NEW ev \in pending, ev.dst # DirectoryLp
               PROVE  ~ Handled(ev).missing /\ ~ Handled(ev).foreign
    BY DEF NeverMissing
  <1> DEFINE s == regions[ev.dst]
  <1>1. ev.body.kind \in {"land", "done", "install"}
    BY DEF PlanTypes, DueEvent, LandBody, DoneBody, InstallBody
  <1>2. CASE ev.body.kind = "install"
    <2>1. Handled(ev) = OnInstall(s, ev)
      BY <1>2 DEF Handled, region_on_event
    <2> QED
      BY <2>1 DEF OnInstall, Result
  <1>3. CASE ev.body.kind \in {"land", "done"}
    <2>1. HasPlane(s, ev.body.plane) /\ HasAirport(s, ev.body.airport)
      BY <1>3, FindsItsPlane
    <2>2. Handled(ev) = IF ev.body.kind = "land" THEN OnLand(rng, s, ev)
                        ELSE OnServiceDone(rng, s, ev)
      BY <1>3, <2>1 DEF Handled, region_on_event
    <2>3. ~ OnLand(rng, s, ev).missing /\ ~ OnLand(rng, s, ev).foreign
      BY DEF OnLand, Result
    <2>4. /\ ~ OnServiceDone(rng, s, ev).missing
          /\ ~ OnServiceDone(rng, s, ev).foreign
      BY DEF OnServiceDone, Result
    <2> QED
      BY <2>2, <2>3, <2>4
  <1> QED
    BY <1>1, <1>2, <1>3

LEMMA LandsAsPlannedImplied ==
    ASSUME PlanTypes, AllSituated
    PROVE  LandsAsPlanned
  <1> SUFFICES ASSUME NEW ev \in pending, ev.dst # DirectoryLp, ev.body.kind = "land"
               PROVE  LET pl == regions[ev.dst].planes[ev.body.plane]
                      IN  /\ pl.inFlight
                          /\ pl.dest = ev.body.airport
                          /\ pl.region = region_of_airport(ev.body.airport)
                          /\ pl.key = ev.body.key
    BY DEF LandsAsPlanned
  <1>1. /\ ev.dst \in RegionLps /\ ev.dst = owner[ev.body.plane]
        /\ Near(pending, Worlds(regions), owner, ev.body.plane, ev)
    BY FindsItsPlane
  <1>2. Worlds(regions)[ev.dst] = regions[ev.dst].planes
    BY <1>1 DEF Worlds
  <1> QED
    BY <1>1, <1>2 DEF Near, Heading

LEMMA RunwayExclusiveImplied ==
    ASSUME PlanTypes, AllExclusive
    PROVE  RunwayExclusive
  <1> SUFFICES ASSUME NEW a \in Airport
               PROVE  LET ap == regions[lp_of_region(region_of_airport(a))].airports[a]
                      IN  /\ Cardinality(Serving(pending, a)) <= 1
                          /\ ap.busy <=> Serving(pending, a) # {}
    BY DEF RunwayExclusive, Serving
  <1> DEFINE busy == regions[lp_of_region(region_of_airport(a))].airports[a].busy
  <1>1. Exclusive(pending, busy, a)
    BY DEF AllExclusive, Runways
  <1> HIDE DEF busy
  <1>2. CASE busy
    <2>1. PICK ev \in pending : Serving(pending, a) = {ev}
      BY <1>1, <1>2 DEF Exclusive
    <2>2. Cardinality(Serving(pending, a)) = 1
      BY <2>1, FS_Singleton
    <2> QED
      BY <1>2, <2>1, <2>2 DEF busy
  <1>3. CASE ~ busy
    <2>1. Serving(pending, a) = {}
      BY <1>1, <1>3 DEF Exclusive
    <2>2. Cardinality(Serving(pending, a)) = 0
      BY <2>1, FS_EmptySet
    <2> QED
      BY <1>3, <2>1, <2>2 DEF busy
  <1> QED
    BY <1>2, <1>3

\* There are no more tokens in a queue than planes.
LEMMA QueuesFit ==
    ASSUME PlanTypes, AllSituated, NEW a \in Airport
    PROVE  Len(Queues(regions)[a]) <= NumPlanes
  <1> DEFINE q == Queues(regions)[a]
             S == 1..Len(q)
             f == [i \in S |-> q[i].plane]
  <1>1. q \in Seq(Token)
    BY ViewTypes DEF PlanTypes
  <1>2. \A i \in S : q[i] \in Token /\ q[i].plane \in Plane
    <2> HIDE DEF q
    <2>1. \A i \in S : q[i] \in Token
      BY <1>1
    <2> QED
      BY <2>1 DEF Token
  <1>3. ASSUME NEW i \in S, NEW j \in S, q[i].plane = q[j].plane
        PROVE  i = j
    <2> DEFINE p == q[i].plane
    <2>1. p \in Plane
      BY <1>2
    <2>2. Situated(pending, Queues(regions), Worlds(regions), owner, now.time, p)
      BY <2>1 DEF AllSituated
    <2>3. i \in Spots(p, q) /\ j \in Spots(p, q)
      BY <1>3 DEF Spots
    <2>4. ~ Unqueued(Queues(regions), p)
      BY <2>3 DEF Unqueued
    <2> HIDE DEF p
    <2>5. PICK b \in Airport :
             Waiting(pending, Queues(regions), Worlds(regions), owner, now.time, p, b)
      BY <2>2, <2>4 DEF Situated, Served, Flying, Ended
    <2>6. b = a
      BY <2>3, <2>5 DEF Waiting
    <2> QED
      BY <2>3, <2>5, <2>6 DEF Waiting
  <1>4. f \in Injection(S, Plane)
    BY <1>2, <1>3 DEF Injection, IsInjective
  <1>5. IsFiniteSet(Plane) /\ Cardinality(Plane) = NumPlanes
    BY FS_Interval, Parameters DEF Plane
  <1>6. Cardinality(S) <= Cardinality(Plane)
    BY <1>4, <1>5, FS_Injection
  <1>7. Cardinality(S) = Len(q)
    BY <1>1, FS_Interval
  <1> QED
    BY <1>5, <1>6, <1>7

\* Each plane is counted once, unless its next event would be too late.
LEMMA PlanesConservedImplied ==
    ASSUME PlanTypes, AllSituated
    PROVE  PlanesConserved
  <1> SUFFICES ASSUME NEW p \in Plane
               PROVE  \/ Places(p) = 1
                      \/ Places(p) = 0 /\ now.time + LongestTrip > EndTime
    BY DEF PlanesConserved
  <1> DEFINE qs == Queues(regions)
  <1>1. Situated(pending, qs, Worlds(regions), owner, now.time, p)
    BY DEF AllSituated
  <1>2. \A a \in Airport : /\ QueueOf(a) = qs[a] /\ qs[a] \in Seq(Token)
                           /\ Len(qs[a]) \in Nat /\ Len(qs[a]) <= NumPlanes
    <2>1. \A a \in Airport : QueueOf(a) = qs[a]
      BY DEF QueueOf, Queues
    <2>2. qs \in [Airport -> Seq(Token)]
      BY ViewTypes DEF PlanTypes
    <2>3. \A a \in Airport : Len(qs[a]) <= NumPlanes
      BY QueuesFit
    <2> HIDE DEF qs
    <2>4. \A a \in Airport : qs[a] \in Seq(Token)
      BY <2>2
    <2> QED
      BY <2>1, <2>3, <2>4
  <1>3. QueuedAt(p) = {at \in Airport \X (1..NumPlanes) : at[2] \in Spots(p, qs[at[1]])}
    <2>1. ASSUME NEW at \in Airport \X (1..NumPlanes)
          PROVE  at[2] <= Len(QueueOf(at[1])) /\ QueueOf(at[1])[at[2]].plane = p
                    <=> at[2] \in Spots(p, qs[at[1]])
      <3>1. at[1] \in Airport /\ at[2] \in Nat \ {0}
        BY Parameters
      <3> QED
        BY <3>1, <1>2 DEF Spots
    <2> HIDE DEF qs
    <2> QED
      BY <2>1, Zenon DEF QueuedAt
  <1>4. Unqueued(qs, p) => Cardinality(QueuedAt(p)) = 0
    <2>1. Unqueued(qs, p) => QueuedAt(p) = {}
      BY <1>3 DEF Unqueued
    <2> QED
      BY <2>1, FS_EmptySet
  <1>5. DueFor(p) = {ev \in Of(pending, p) : ev.body.kind \in {"land", "done"}}
    BY DEF DueFor, Of
  <1> HIDE DEF qs
  <1>6. ASSUME NEW a \in Airport,
               Waiting(pending, qs, Worlds(regions), owner, now.time, p, a)
        PROVE  Places(p) = 1
    <2>1. DueFor(p) = {}
      BY <1>5, <1>6 DEF Waiting
    <2>2. PICK i \in 1..Len(qs[a]) : Spots(p, qs[a]) = {i}
      BY <1>6 DEF Waiting
    <2>3. i \in 1..NumPlanes
      BY <1>2, <2>2, Parameters
    <2>4. QueuedAt(p) = {<<a, i>>}
      <3>1. <<a, i>> \in QueuedAt(p)
        BY <1>3, <2>2, <2>3
      <3>2. ASSUME NEW at \in QueuedAt(p)
            PROVE  at = <<a, i>>
        <4>1. at \in Airport \X (1..NumPlanes) /\ at[2] \in Spots(p, qs[at[1]])
          BY <1>3
        <4>2. at[1] = a
          BY <1>6, <4>1 DEF Waiting
        <4>3. at[2] = i
          BY <2>2, <4>1, <4>2
        <4> QED
          BY <4>1, <4>2, <4>3
      <3> QED
        BY <3>1, <3>2
    <2>5. Cardinality(QueuedAt(p)) = 1 /\ Cardinality(DueFor(p)) = 0
      BY <2>1, <2>4, FS_Singleton, FS_EmptySet
    <2> QED
      BY <2>5 DEF Places
  <1>7. ASSUME NEW ev, Unqueued(qs, p), DueFor(p) = {ev}
        PROVE  Places(p) = 1
    <2>1. Cardinality(QueuedAt(p)) = 0 /\ Cardinality(DueFor(p)) = 1
      BY <1>4, <1>7, FS_Singleton
    <2> QED
      BY <2>1 DEF Places
  <1>8. ASSUME NEW a \in Airport,
               Served(pending, qs, Worlds(regions), owner, now.time, p, a)
        PROVE  Places(p) = 1
    <2>1. PICK ev \in pending : Of(pending, p) = {ev} /\ ev.body.kind = "done"
      BY <1>8 DEF Served
    <2>2. DueFor(p) = {ev}
      BY <1>5, <2>1
    <2> QED
      BY <1>7, <1>8, <2>2 DEF Served
  <1>9. ASSUME Flying(pending, qs, Worlds(regions), owner, p)
        PROVE  Places(p) = 1
    <2>1. PICK land \in pending :
             /\ land.body.kind = "land"
             /\ \/ Near(pending, Worlds(regions), owner, p, land)
                \/ \E cross \in pending : Far(pending, owner, p, land, cross)
      BY <1>9 DEF Flying
    <2>2. DueFor(p) = {land}
      <3>1. CASE Near(pending, Worlds(regions), owner, p, land)
        BY <1>5, <2>1, <3>1 DEF Near
      <3>2. CASE \E cross \in pending : Far(pending, owner, p, land, cross)
        BY <1>5, <2>1, <3>2 DEF Far
      <3> QED
        BY <2>1, <3>1, <3>2
    <2> QED
      BY <1>7, <1>9, <2>2 DEF Flying
  <1>10. ASSUME Ended(pending, qs, now.time, p)
         PROVE  Places(p) = 0 /\ now.time + LongestTrip > EndTime
    <2>1. DueFor(p) = {} /\ Unqueued(qs, p) /\ now.time + LongestTrip > EndTime
      BY <1>5, <1>10 DEF Ended
    <2>2. Cardinality(QueuedAt(p)) = 0 /\ Cardinality(DueFor(p)) = 0
      BY <1>4, <2>1, FS_EmptySet
    <2> QED
      BY <2>1, <2>2 DEF Places
  <1> QED
    BY <1>1, <1>6, <1>8, <1>9, <1>10 DEF Situated

-----------------------------------------------------------------------------
(***************************************************************************)
(* The records.                                                            *)
(***************************************************************************)
\* What emits adds to the output.
Emits(recs, recs2, rec) ==
    /\ Len(recs2) = Len(recs) + 1 /\ recs2[Len(recs) + 1] = rec
    /\ \A i \in 1..Len(recs) : recs2[i] = recs[i]

\* A record more is the last one of its plane, and changes nothing for others.
LEMMA OneRecordMore ==
    ASSUME NEW recs, NEW rec, NEW recs2, Len(recs) \in Nat, Emits(recs, recs2, rec)
    PROVE  /\ Mine(recs2, rec.plane) # {} /\ LastOf(recs2, rec.plane) = rec
           /\ \A p : p # rec.plane =>
                 /\ Mine(recs2, p) = Mine(recs, p)
                 /\ Mine(recs, p) # {} => LastOf(recs2, p) = LastOf(recs, p)
  <1> USE DEF Emits
  <1>1. ASSUME NEW p, rec.plane = p
        PROVE  Mine(recs2, p) # {} /\ LastOf(recs2, p) = rec
    <2>1. Len(recs) + 1 \in Mine(recs2, p)
      BY <1>1 DEF Mine
    <2>2. Mine(recs2, p) \in SUBSET (0..(Len(recs) + 1))
      BY DEF Mine
    <2>3. /\ Max(Mine(recs2, p)) \in Mine(recs2, p)
          /\ \A y \in Mine(recs2, p) : y <= Max(Mine(recs2, p))
      <3>1. Mine(recs2, p) # {} /\ Len(recs) + 1 \in Nat
        BY <2>1
      <3> QED
        BY <3>1, <2>2, GreatestNat
    <2>4. Max(Mine(recs2, p)) = Len(recs) + 1
      BY <2>1, <2>2, <2>3
    <2> QED
      BY <1>1, <2>1, <2>4 DEF LastOf
  <1>2. ASSUME NEW p, rec.plane # p
        PROVE  /\ Mine(recs2, p) = Mine(recs, p)
               /\ Mine(recs, p) # {} => LastOf(recs2, p) = LastOf(recs, p)
    <2>1. Mine(recs2, p) = Mine(recs, p)
      BY <1>2 DEF Mine
    <2>2. ASSUME Mine(recs, p) # {}
          PROVE  LastOf(recs2, p) = LastOf(recs, p)
      <3>1. Mine(recs, p) \in SUBSET (0..Len(recs))
        BY DEF Mine
      <3>2. Max(Mine(recs, p)) \in Mine(recs, p)
        BY <2>2, <3>1, GreatestNat
      <3>3. Max(Mine(recs, p)) \in 1..Len(recs)
        BY <3>2 DEF Mine
      <3> QED
        BY <2>1, <3>3 DEF LastOf
    <2> QED
      BY <1>2, <2>1, <2>2
  <1> QED
    BY <1>1, <1>2

\* What the new record must say.
Follows(recs, rec) ==
    IF rec.kind = "land"
    THEN /\ Mine(recs, rec.plane) # {}
         /\ LastOf(recs, rec.plane).kind = "depart"
         /\ LastOf(recs, rec.plane).to = rec.at
         /\ LastOf(recs, rec.plane).land = rec.land
    ELSE LandedAt(recs, rec.plane, rec.from)

\* The story goes on.
LEMMA RecordsGoOn ==
    ASSUME RecordsAgree, Len(out) \in Nat, NEW rec, Follows(out, rec), Emits(out, out', rec)
    PROVE  RecordsAgree'
  <1>1. /\ Len(out') = Len(out) + 1 /\ out'[Len(out) + 1] = rec
        /\ \A i \in 1..Len(out) : out'[i] = out[i]
    BY DEF Emits
  <1> DEFINE Good(o, j) ==
               LET before == {i \in 1..(j-1) : o[i].plane = o[j].plane}
                   prev   == o[Max(before)]
               IN  IF o[j].kind = "land"
                   THEN /\ before # {} /\ prev.kind = "depart"
                        /\ prev.to = o[j].at /\ prev.land = o[j].land
                   ELSE before # {} => prev.kind = "land" /\ prev.at = o[j].from
  <1> SUFFICES ASSUME NEW j \in 1..(Len(out) + 1)
               PROVE  Good(out', j)
    BY <1>1 DEF RecordsAgree
  <1> DEFINE before  == {i \in 1..(j-1) : out[i].plane = out[j].plane}
             before2 == {i \in 1..(j-1) : out'[i].plane = out'[j].plane}
  <1>2. CASE j \in 1..Len(out)
    <2>1. Good(out, j)
      BY <1>2 DEF RecordsAgree
    <2>2. out'[j] = out[j] /\ \A i \in 1..(j-1) : out'[i] = out[i]
      BY <1>1, <1>2
    <2>3. before2 = before
      BY <2>2
    <2>4. before # {} => out'[Max(before)] = out[Max(before)]
      <3> SUFFICES ASSUME before # {}
                   PROVE  out'[Max(before)] = out[Max(before)]
        OBVIOUS
      <3>1. before \in SUBSET (0..Len(out))
        BY <1>2
      <3>2. Max(before) \in before
        <4> HIDE DEF before
        <4> QED
          BY <3>1, GreatestNat
      <3> QED
        BY <2>2, <3>2
    <2> QED
      BY <2>1, <2>2, <2>3, <2>4
  <1>3. CASE j = Len(out) + 1
    <2>1. out'[j] = rec /\ j - 1 = Len(out) /\ \A i \in 1..(j-1) : out'[i] = out[i]
      BY <1>1, <1>3
    <2>2. before2 = Mine(out, rec.plane)
      BY <2>1 DEF Mine
    <2>3. before2 # {} => out'[Max(before2)] = LastOf(out, rec.plane)
      <3> SUFFICES ASSUME before2 # {}
                   PROVE  out'[Max(before2)] = LastOf(out, rec.plane)
        OBVIOUS
      <3>1. before2 \in SUBSET (0..Len(out))
        BY <2>2 DEF Mine
      <3>2. Max(before2) \in before2
        <4> HIDE DEF before2
        <4> QED
          BY <3>1, GreatestNat
      <3>3. Max(before2) \in 1..Len(out)
        BY <2>1, <3>2
      <3> QED
        BY <1>1, <2>2, <3>3 DEF LastOf
    <2> HIDE DEF before2
    <2>4. IF rec.kind = "land"
          THEN /\ before2 # {} /\ out'[Max(before2)].kind = "depart"
               /\ out'[Max(before2)].to = rec.at /\ out'[Max(before2)].land = rec.land
          ELSE before2 # {} => /\ out'[Max(before2)].kind = "land"
                               /\ out'[Max(before2)].at = rec.from
      BY <2>2, <2>3 DEF Follows, LandedAt
    <2> QED
      BY <2>1, <2>4 DEF before2
  <1> QED
    BY <1>2, <1>3

-----------------------------------------------------------------------------
(***************************************************************************)
(* The directory's steps.                                                  *)
(***************************************************************************)
\* The next event is the first.
LEMMA NextIsFirst ==
    ASSUME PlanTypes, NothingPast, NEW ev \in pending, IsNext(ev)
    PROVE  /\ ev.ts.time \in 0..EndTime /\ now.time <= ev.ts.time
           /\ now.time \in Int
           /\ \A f \in pending : ev.ts.time <= f.ts.time
  <1>1. \A f \in pending : f.ts.time \in 0..EndTime
    BY DEF PlanTypes, DueEvent, When
  <1>2. \A f \in pending \ {ev} : ev.ts.time <= f.ts.time
    BY <1>1, Parameters DEF IsNext, Before
  <1> QED
    BY <1>1, <1>2, Parameters DEF NothingPast, PlanTypes

\* What comes new is not past.
LEMMA NothingPastAfter ==
    ASSUME PlanTypes, NothingPast, NEW ev \in pending, IsNext(ev), NEW new,
           Takes(ev, new), \A e \in new : ev.ts.time <= e.ts.time
    PROVE  NothingPast' /\ now'.time = ev.ts.time
  BY NextIsFirst DEF NothingPast, Takes

LEMMA UpdateKeeps ==
    ASSUME PlanInvariant, UpdateOwner
    PROVE  PlanInvariant'
  <1> USE DEF PlanInvariant
  <1>1. PICK ev \in pending :
           /\ IsNext(ev) /\ ev.dst = DirectoryLp /\ ev.body.kind = "update"
           /\ owner' = [owner EXCEPT ![ev.body.plane] = ev.body.owner]
           /\ Takes(ev, {[ts |-> ev.ts, dst |-> ev.body.owner,
                          body |-> [kind |-> "install", plane |-> ev.body.plane,
                                    state |-> ev.body.state]]})
           /\ UNCHANGED <<regions, dirSeq, out>>
    BY DEF UpdateOwner
  <1> DEFINE p   == ev.body.plane
             pl  == ev.body.state
             ins == [ts |-> ev.ts, dst |-> ev.body.owner,
                     body |-> [kind |-> "install", plane |-> p, state |-> pl]]
  <1>2. ev.ts \in When /\ ev.body \in UpdateBody
    BY <1>1 DEF PlanTypes, DueEvent, LandBody, DoneBody, InstallBody
  <1>3. p \in Plane /\ ev.body.owner \in RegionLps /\ pl \in PlaneState
    BY <1>2 DEF UpdateBody
  <1>4. /\ ins.ts = ev.ts /\ ins.dst = ev.body.owner /\ ins.body.kind = "install"
        /\ ins.body.plane = p /\ ins.body.state = pl
    OBVIOUS
  <1>5. ins \in DueEvent
    <2>1. ins.body \in InstallBody
      BY <1>3 DEF InstallBody
    <2> QED
      BY <2>1, <1>2, <1>3 DEF DueEvent
  <1> HIDE DEF ins, pl, p
  <1>6. /\ pending' = (pending \ {ev}) \cup {ins} /\ now' = ev.ts /\ rng' = rng
        /\ regions' = regions /\ dirSeq' = dirSeq /\ out' = out
        /\ owner' = [owner EXCEPT ![p] = ev.body.owner]
    BY <1>1 DEF Takes, ins, p, pl
  <1>7. now'.time = ev.ts.time /\ ev.ts.time \in 0..EndTime /\ now.time <= ev.ts.time
        /\ NothingPast'
    <2>1. Takes(ev, {ins})
      BY <1>1 DEF ins, p, pl
    <2>2. ev.ts.time <= ins.ts.time
      BY <1>2, <1>4, Parameters DEF When
    <2> QED
      BY <1>1, <2>1, <2>2, NextIsFirst, NothingPastAfter
  <1>8. PlanTypes'
    BY <1>3, <1>5, <1>6, <1>7 DEF PlanTypes
  <1>9. ev \in Of(pending, p) /\ Situated(pending, Queues(regions), Worlds(regions), owner,
                                          now.time, p)
    BY <1>3 DEF Of, AllSituated, p
  <1>10. PICK land \in pending :
           /\ land.body.kind = "land" /\ land.body.key.leg \in 0..land.ts.time
           /\ Far(pending, owner, p, land, ev)
    BY <1>1, <1>9, DueCross
  <1>11. Unqueued(Queues(regions), p)
    BY <1>1, <1>9, DueCross
  <1>12. Of(pending', p) = {land, ins} /\ land \in pending'
    <2>1. Of(pending, p) = {land, ev} /\ land # ev
      BY <1>1, <1>10 DEF Far
    <2> QED
      BY <2>1, <1>4, <1>6 DEF Of
  <1>13. Far(pending', owner', p, land, ins)
    <2>1. owner'[p] = ev.body.owner
      BY <1>3, <1>6 DEF PlanTypes
    <2>2. /\ land.dst = DirectoryLp /\ Heading(pl, land)
          /\ compute_land_time_(ev.ts.time, pl) = land.ts.time
          /\ ev.body.owner = lp_of_region(pl.region)
      BY <1>1, <1>10 DEF Far, pl
    <2> QED
      BY <1>4, <1>12, <2>1, <2>2 DEF Far
  <1>14. AllSituated'
    <2> SUFFICES ASSUME NEW q \in Plane
                 PROVE  Situated(pending', Queues(regions), Worlds(regions), owner',
                                 now'.time, q)
      BY <1>6 DEF AllSituated
    <2>1. CASE q = p
      <3>1. Flying(pending', Queues(regions), Worlds(regions), owner', p)
        <4>1. ins \in pending'
          BY <1>6
        <4> QED
          BY <4>1, <1>10, <1>11, <1>12, <1>13 DEF Flying
      <3> QED
        BY <2>1, <3>1 DEF Situated
    <2>2. CASE q # p
      <3>1. Of(pending', q) = Of(pending, q)
        BY <2>2, <1>4, <1>6 DEF Of, p
      <3>2. owner'[q] = owner[q]
        BY <2>2, <1>3, <1>6 DEF PlanTypes
      <3>3. Situated(pending, Queues(regions), Worlds(regions), owner, now.time, q)
        BY DEF AllSituated
      <3>4. now'.time >= now.time /\ now'.time \in Int /\ now.time \in Int
        BY <1>7 DEF PlanTypes
      <3>5. \A a \in Airport : \A i \in Spots(q, Queues(regions)[a]) :
               i \in 1..Len(Queues(regions)[a])
        BY DEF Spots
      <3> QED
        BY <3>1, <3>2, <3>3, <3>4, <3>5, SituationFrame
    <2> QED
      BY <2>1, <2>2
  <1>15. AllExclusive'
    <2>1. \A a : Serving(pending', a) = Serving(pending, a)
      BY <1>1, <1>4, <1>6 DEF Serving
    <2>2. \A a \in Airport : Exclusive(pending', Runways(regions)[a], a)
      <3> SUFFICES ASSUME NEW a \in Airport
                   PROVE  Exclusive(pending', Runways(regions)[a], a)
        OBVIOUS
      <3>1. Exclusive(pending, Runways(regions)[a], a)
        BY DEF AllExclusive
      <3>2. \A e \in pending : Serving(pending, a) = {e} => e \in pending'
        BY <2>1 DEF Serving
      <3> QED
        BY <3>1, <3>2, <2>1 DEF Exclusive
    <2> QED
      BY <2>2, <1>6 DEF AllExclusive
  <1>16. AllTold'
    <2> SUFFICES ASSUME NEW q \in Plane, Emitted(q)
                 PROVE  Told(pending', Queues(regions), out, q)
      BY <1>6 DEF AllTold
    <2>1. Told(pending, Queues(regions), out, q)
      BY DEF AllTold
    <2>2. \A e \in Of(pending', q) : e \in Of(pending, q) \/ e = ins
      BY <1>6 DEF Of
    <2> QED
      BY <2>1, <2>2, <1>4 DEF Told
  <1>17. RecordsAgree'
    BY <1>6 DEF RecordsAgree
  <1> QED
    BY <1>7, <1>8, <1>14, <1>15, <1>16, <1>17

LEMMA ForwardKeeps ==
    ASSUME PlanInvariant, Forward
    PROVE  PlanInvariant'
  <1> USE DEF PlanInvariant
  <1>1. PICK ev \in pending :
           /\ IsNext(ev) /\ ev.dst = DirectoryLp /\ ev.body.kind # "update"
           /\ dirSeq' = dirSeq + 1
           /\ Takes(ev, {[ev EXCEPT !.dst = owner[ev.body.plane],
                                    !.ts.sequence = TopBit + dirSeq]})
           /\ UNCHANGED <<regions, owner, out>>
    BY DEF Forward
  <1> DEFINE p   == ev.body.plane
             fwd == [ev EXCEPT !.dst = owner[p], !.ts.sequence = TopBit + dirSeq]
  <1>2. ev.ts \in When /\ ev.body \in LandBody \cup DoneBody
    BY <1>1, ParametersAssumption DEF PlanTypes, DueEvent, UpdateBody
  <1>3. p \in Plane /\ owner[p] \in RegionLps
    BY <1>2 DEF LandBody, DoneBody, PlanTypes
  <1>4. ev = [ts |-> ev.ts, dst |-> ev.dst, body |-> ev.body]
    BY DEF PlanTypes, DueEvent
  <1>5. fwd = [ts |-> [ev.ts EXCEPT !.sequence = TopBit + dirSeq], dst |-> owner[p],
               body |-> ev.body]
    <2> DEFINE there == [ev EXCEPT !.dst = owner[p]]
    <2>1. fwd = [there EXCEPT !.ts = [there.ts EXCEPT !.sequence = TopBit + dirSeq]]
      BY Zenon
    <2>2. there = [ts |-> ev.ts, dst |-> owner[p], body |-> ev.body]
      BY <1>4
    <2> HIDE DEF there, fwd, p
    <2> QED
      BY <2>1, <2>2
  <1>6. fwd.ts \in When /\ fwd.ts.time = ev.ts.time
    <2>1. TopBit + dirSeq \in Nat \ {0}
      BY Parameters DEF PlanTypes
    <2> QED
      BY <1>2, <1>5, <2>1 DEF When
  <1>7. fwd.dst = owner[p] /\ fwd.body = ev.body
    BY <1>5
  <1>8. fwd \in DueEvent
    BY <1>2, <1>3, <1>5, <1>6 DEF DueEvent
  <1>9. /\ pending' = (pending \ {ev}) \cup {fwd} /\ now' = ev.ts /\ rng' = rng
        /\ regions' = regions /\ owner' = owner /\ dirSeq' = dirSeq + 1 /\ out' = out
    BY <1>1 DEF Takes
  <1>10. now'.time = ev.ts.time /\ ev.ts.time \in 0..EndTime /\ now.time <= ev.ts.time
        /\ NothingPast'
    <2>1. Takes(ev, {fwd})
      BY <1>1
    <2> HIDE DEF fwd
    <2>2. ev.ts.time <= fwd.ts.time
      BY <1>2, <1>6, Parameters DEF When
    <2> QED
      BY <1>1, <2>1, <2>2, NextIsFirst, NothingPastAfter
  <1> HIDE DEF fwd, p
  <1>11. PlanTypes'
    BY <1>8, <1>9, <1>10 DEF PlanTypes
  <1>12. ev \in Of(pending, p) /\ Situated(pending, Queues(regions), Worlds(regions), owner,
                                           now.time, p)
    BY <1>3 DEF Of, AllSituated, p
  <1>13. now'.time >= now.time /\ now'.time \in Int /\ now.time \in Int
    BY <1>10 DEF PlanTypes
  <1>14. Of(pending, p) = {ev} => Of(pending', p) = {fwd}
    BY <1>7, <1>9 DEF Of, p
  <1>15. Situated(pending', Queues(regions), Worlds(regions), owner, now'.time, p)
    <2>1. CASE ev.body.kind = "done"
      <3> DEFINE a == ev.body.airport
      <3>1. /\ a \in Airport /\ AtAirport(Worlds(regions), owner, p, a)
            /\ Unqueued(Queues(regions), p) /\ Of(pending, p) = {ev}
            /\ ev.body.key.leg \in 0..now.time
        BY <1>12, <2>1, DueDone
      <3>2. fwd \in pending' /\ Of(pending', p) = {fwd}
        BY <3>1, <1>9, <1>14
      <3>3. ev.body.key.leg \in 0..now'.time
        BY <3>1, <1>13
      <3> HIDE DEF a
      <3>4. Served(pending', Queues(regions), Worlds(regions), owner, now'.time, p, a)
        BY <3>1, <3>2, <3>3, <1>7, <2>1 DEF Served, a
      <3> QED
        BY <3>1, <3>4 DEF Situated
    <2>2. CASE ev.body.kind = "land"
      <3>1. /\ Unqueued(Queues(regions), p) /\ ev.body.key.leg \in 0..ev.ts.time
            /\ \/ Near(pending, Worlds(regions), owner, p, ev)
               \/ \E cross \in pending : Far(pending, owner, p, ev, cross)
        BY <1>12, <2>2, DueLand
      <3>2. ASSUME NEW cross \in pending, Far(pending, owner, p, ev, cross)
            PROVE  FALSE
        <4>1. /\ cross.body.kind \in {"update", "install"}
              /\ compute_land_time_(cross.ts.time, cross.body.state) = ev.ts.time
          BY <3>2 DEF Far
        <4>2. cross.ts.time \in Nat /\ cross.body.state \in PlaneState
          BY <4>1 DEF PlanTypes, DueEvent, When, UpdateBody, InstallBody, LandBody, DoneBody
        <4>3. InTheAir(cross.body.state)
          BY <4>2 DEF InTheAir, PlaneState
        <4>4. ev.ts.time > cross.ts.time
          BY <4>1, <4>2, <4>3, LandTime
        <4>5. ev.ts.time <= cross.ts.time
          BY <1>1, NextIsFirst
        <4> QED
          BY <4>2, <4>4, <4>5, <1>10
      <3>3. Near(pending, Worlds(regions), owner, p, ev)
        BY <3>1, <3>2
      <3>4. fwd \in pending' /\ Of(pending', p) = {fwd}
        BY <3>3, <1>9, <1>14 DEF Near
      <3>5. Near(pending', Worlds(regions), owner, p, fwd)
        BY <3>3, <3>4, <1>7 DEF Near, Heading
      <3>6. Flying(pending', Queues(regions), Worlds(regions), owner, p)
        BY <3>1, <3>4, <3>5, <1>6, <1>7, <2>2 DEF Flying
      <3> QED
        BY <3>6 DEF Situated
    <2> QED
      BY <1>2, <2>1, <2>2 DEF LandBody, DoneBody
  <1>16. AllSituated'
    <2> SUFFICES ASSUME NEW q \in Plane
                 PROVE  Situated(pending', Queues(regions), Worlds(regions), owner,
                                 now'.time, q)
      BY <1>9 DEF AllSituated
    <2>1. CASE q = p
      BY <2>1, <1>15
    <2>2. CASE q # p
      <3>1. Of(pending', q) = Of(pending, q)
        BY <2>2, <1>7, <1>9 DEF Of, p
      <3>2. Situated(pending, Queues(regions), Worlds(regions), owner, now.time, q)
        BY DEF AllSituated
      <3>3. \A a \in Airport : \A i \in Spots(q, Queues(regions)[a]) :
               i \in 1..Len(Queues(regions)[a])
        BY DEF Spots
      <3> QED
        BY <3>1, <3>2, <3>3, <1>13, SituationFrame
    <2> QED
      BY <2>1, <2>2
  <1>17. AllExclusive'
    <2>1. \A a \in Airport : Exclusive(pending', Runways(regions)[a], a)
      <3> SUFFICES ASSUME NEW a \in Airport
                   PROVE  Exclusive(pending', Runways(regions)[a], a)
        OBVIOUS
      <3>1. Exclusive(pending, Runways(regions)[a], a)
        BY DEF AllExclusive
      <3>2. ev \in Serving(pending, a) => Serving(pending', a)
                                             = (Serving(pending, a) \ {ev}) \cup {fwd}
        BY <1>7, <1>9 DEF Serving
      <3>3. ev \notin Serving(pending, a) => Serving(pending', a) = Serving(pending, a)
        BY <1>7, <1>9 DEF Serving
      <3>4. fwd \in pending' /\ \A e \in pending : e # ev => e \in pending'
        BY <1>9
      <3>5. CASE Runways(regions)[a]
        <4>1. PICK e \in pending : Serving(pending, a) = {e}
          BY <3>1, <3>5 DEF Exclusive
        <4>2. CASE e = ev
          <5>1. Serving(pending', a) = {fwd}
            BY <3>2, <4>1, <4>2
          <5> QED
            BY <5>1, <3>4, <3>5 DEF Exclusive
        <4>3. CASE e # ev
          <5>1. Serving(pending', a) = {e} /\ e \in pending'
            BY <3>3, <3>4, <4>1, <4>3
          <5> QED
            BY <5>1, <3>5 DEF Exclusive
        <4> QED
          BY <4>2, <4>3
      <3>6. CASE ~ Runways(regions)[a]
        BY <3>1, <3>3, <3>6 DEF Exclusive
      <3> QED
        BY <3>5, <3>6
    <2> QED
      BY <2>1, <1>9 DEF AllExclusive
  <1>18. AllTold'
    <2> SUFFICES ASSUME NEW q \in Plane, Emitted(q)
                 PROVE  Told(pending', Queues(regions), out, q)
      BY <1>9 DEF AllTold
    <2>1. Told(pending, Queues(regions), out, q)
      BY DEF AllTold
    <2>2. ASSUME NEW e \in Of(pending', q)
          PROVE  /\ e.body.kind = "land" => LeftFor(out, q, e)
                 /\ e.body.kind = "done" => LandedAt(out, q, e.body.airport)
      <3>1. CASE e \in Of(pending, q)
        BY <2>1, <3>1 DEF Told
      <3>2. CASE e = fwd
        <4>1. ev \in Of(pending, q)
          BY <3>2, <1>7 DEF Of
        <4> QED
          BY <2>1, <3>2, <4>1, <1>6, <1>7 DEF Told, LeftFor
      <3> QED
        BY <3>1, <3>2, <1>9 DEF Of
    <2> QED
      BY <2>1, <2>2 DEF Told
  <1>19. RecordsAgree'
    BY <1>9 DEF RecordsAgree
  <1> QED
    BY <1>10, <1>11, <1>16, <1>17, <1>18, <1>19

-----------------------------------------------------------------------------
(***************************************************************************)
(* What the steps of a region have in common.                              *)
(***************************************************************************)
\* Where a plane lands depends on where it is and where it is heading.
LEMMA SameTrip ==
    ASSUME NEW t, NEW pl, NEW pl2, pl2.region = pl.region, pl2.x = pl.x,
           pl2.dest = pl.dest
    PROVE  compute_land_time_(t, pl2) = compute_land_time_(t, pl)
  BY Zenon DEF compute_land_time_

\* schedule_next_boundary_ for a plane that lands in time: the next crossing is
\* due if a border is ahead, and foresees the same landing.
LEMMA NextBoundary ==
    ASSUME NEW t \in 0..EndTime, NEW p \in Plane, NEW pl \in PlaneState,
           compute_land_time_(t, pl) <= EndTime
    PROVE  LET sends == schedule_next_boundary_(t, p, pl)
           IN  IF pl.region = region_of_airport(pl.dest) THEN sends = <<>>
               ELSE \E cross \in DueEvent :
                       /\ sends = <<cross>> /\ cross.ts.time > t
                       /\ cross.dst = DirectoryLp /\ cross.body.kind = "update"
                       /\ cross.body.plane = p
                       /\ cross.body.owner = lp_of_region(cross.body.state.region)
                       /\ cross.body.state.inFlight = pl.inFlight
                       /\ cross.body.state.dest = pl.dest
                       /\ cross.body.state.key = pl.key
                       /\ compute_land_time_(cross.ts.time, cross.body.state)
                             = compute_land_time_(t, pl)
  <1> DEFINE dest  == region_of_airport(pl.dest)
             bx    == BoundaryX(pl.region, dest)
             next  == NextRegion(pl.region, dest)
             cross == t + TravelTime(Dist(bx, pl.x))
             over  == [pl EXCEPT !.region = next, !.x = bx]
             ev    == Targeted(cross, 1, p, [kind |-> "update", plane |-> p,
                                             owner |-> lp_of_region(next),
                                             state |-> over])
  <1>1. schedule_next_boundary_(t, p, pl)
           = IF pl.region = dest \/ cross > EndTime THEN <<>> ELSE <<ev>>
    BY Zenon DEF schedule_next_boundary_
  <1>2. CASE pl.region = dest
    BY <1>1, <1>2
  <1>3. CASE pl.region # dest
    <2>1. InTheAir(pl)
      BY DEF InTheAir, PlaneState
    <2>2. next \in 0..(Regions - 1) /\ bx \in Int
      BY <1>3, <2>1, Ahead
    <2>3. /\ over \in PlaneState /\ over.region = next /\ over.x = bx
          /\ over.dest = pl.dest /\ over.inFlight = pl.inFlight /\ over.key = pl.key
      <3> DEFINE there == [pl EXCEPT !.region = next]
      <3>1. over = [there EXCEPT !.x = bx]
        BY Zenon
      <3> HIDE DEF next, bx, over
      <3>2. /\ there \in PlaneState /\ there.region = next /\ there.dest = pl.dest
            /\ there.inFlight = pl.inFlight /\ there.key = pl.key
        BY <2>2 DEF PlaneState
      <3> HIDE DEF there
      <3> QED
        BY <2>2, <3>1, <3>2 DEF PlaneState
    <2>4. InTheAir(over)
      BY <2>3 DEF InTheAir, PlaneState
    <2> HIDE DEF over
    <2>5. /\ cross \in Nat /\ cross > t
          /\ compute_land_time_(cross, over) = compute_land_time_(t, pl)
      <3>1. t \in Nat
        BY Parameters
      <3> QED
        BY <1>3, <2>1, <2>3, <2>4, <3>1, LandTimeBehind
    <2> HIDE DEF cross, next, bx, dest
    <2>6. cross < EndTime
      BY <2>4, <2>5, LandTime, Parameters
    <2>7. schedule_next_boundary_(t, p, pl) = <<ev>>
      BY <1>1, <1>3, <2>5, <2>6, Parameters
    <2>8. /\ ev.ts = [time |-> cross, sequence |-> stable_seq(1, p)]
          /\ ev.dst = DirectoryLp
          /\ ev.body = [kind |-> "update", plane |-> p, owner |-> lp_of_region(next),
                        state |-> over]
          /\ ev = [ts |-> ev.ts, dst |-> ev.dst, body |-> ev.body]
      BY DEF Targeted
    <2> HIDE DEF ev
    <2>9. lp_of_region(next) \in RegionLps
      BY <2>2, Parameters DEF lp_of_region, RegionLps
    <2>10. ev.body \in UpdateBody
      BY <2>3, <2>8, <2>9 DEF UpdateBody
    <2>11. ev.ts \in When
      <3>1. stable_seq(1, p) \in Nat \ {0}
        BY Parameters DEF stable_seq, Plane
      <3> QED
        BY <3>1, <2>5, <2>6, <2>8, Parameters DEF When
    <2>12. ev \in DueEvent
      BY <2>8, <2>10, <2>11 DEF DueEvent
    <2>13. /\ ev.ts.time = cross /\ ev.body.kind = "update" /\ ev.body.plane = p
           /\ ev.body.owner = lp_of_region(next) /\ ev.body.state = over
      BY <2>8
    <2> QED
      BY <2>3, <2>5, <2>7, <2>8, <2>12, <2>13, <1>3 DEF dest
  <1> QED
    BY <1>2, <1>3

\* A plane that comes to an airport: it joins the queue, and if the runway is free
\* the first one of the queue is served.
LEMMA Arrives ==
    ASSUME NEW due, NEW queues \in [Airport -> Seq(Token)],
           NEW busys \in [Airport -> BOOLEAN], NEW worlds, NEW owns, NEW t \in Int,
           NEW a \in Airport, NEW tok \in Token, tok.key.leg \in 0..t,
           NEW q2, NEW busy2, NEW new,
           IF busys[a]
           THEN q2 = Append(queues[a], tok) /\ busy2 = TRUE /\ new = {}
           ELSE Begins(Append(queues[a], tok), q2, busy2, new, a, t),
           InOrder(due, busys)
    PROVE  /\ InOrder(due \cup new, [busys EXCEPT ![a] = busy2])
           /\ AtAirport(worlds, owns, tok.plane, a) /\ Of(due, tok.plane) = {}
              /\ Unqueued(queues, tok.plane) =>
                 \A p : p = tok.plane \/ Situated(due, queues, worlds, owns, t, p) =>
                    Situated(due \cup new, [queues EXCEPT ![a] = q2], worlds, owns, t, p)
           /\ \A recs, p : Told(due, queues, recs, p)
                           /\ (p = tok.plane => LandedAt(recs, p, a)) =>
                 Told(due \cup new, [queues EXCEPT ![a] = q2], recs, p)
  <1> DEFINE more == Append(queues[a], tok)
             queues1 == [queues EXCEPT ![a] = Append(@, tok)]
             queues2 == [queues EXCEPT ![a] = q2]
  <1>1. /\ queues1 \in [Airport -> Seq(Token)] /\ queues1[a] = more
        /\ \A b \in Airport \ {a} : queues1[b] = queues[b]
        /\ queues2 = [queues1 EXCEPT ![a] = q2]
    <2>1. queues[a] \in Seq(Token)
      OBVIOUS
    <2>2. more \in Seq(Token)
      BY <2>1
    <2> HIDE DEF more
    <2>3. queues1 = [queues EXCEPT ![a] = more]
      BY DEF more
    <2> QED
      BY <2>2, <2>3
  <1>2. queues[a] \in Seq(Token) /\ more # <<>>
    <2> DEFINE q == queues[a]
    <2>1. q \in Seq(Token)
      OBVIOUS
    <2> HIDE DEF q
    <2>2. Append(q, tok) # <<>>
      <3> DEFINE m == Append(q, tok)
      <3>1. Len(m) # 0
        BY <2>1
      <3>2. Len(<<>>) = 0
        OBVIOUS
      <3> HIDE DEF m
      <3>3. m # <<>>
        BY <3>1, <3>2
      <3> QED
        BY <3>3 DEF m
    <2> QED
      BY <2>1, <2>2 DEF q
  <1>3. ASSUME NEW p
        PROVE  Spots(p, more) = Spots(p, queues[a])
                                \cup (IF tok.plane = p THEN {Len(queues[a]) + 1} ELSE {})
    <2> HIDE DEF more
    <2> QED
      BY <1>2, SpotsAppended DEF more
  <1> HIDE DEF more, queues1, queues2
  <1>4. busys[a] => queues2 = queues1 /\ due \cup new = due
    <2>1. busys[a] => q2 = more /\ new = {}
      BY DEF more
    <2> QED
      BY <2>1, <1>1
  <1>5. ~ busys[a] => Begins(queues1[a], q2, busy2, new, a, t)
    BY <1>1 DEF more
  <1>6. InOrder(due \cup new, [busys EXCEPT ![a] = busy2])
    <2>1. CASE busys[a]
      <3>1. due \cup new = due /\ [busys EXCEPT ![a] = busy2] = busys
        BY <2>1
      <3> QED
        BY <3>1
    <2>2. CASE ~ busys[a]
      <3>1. Begins(more, q2, busy2, new, a, t)
        BY <2>2 DEF more
      <3>2. Serving(due, a) = {}
        BY <2>2 DEF Exclusive, InOrder
      <3>3. Free(due, busys, a)
        BY <3>2 DEF Free, InOrder
      <3> QED
        BY ONLY <3>1, <3>3, ServeExclusive, busys \in [Airport -> BOOLEAN], a \in Airport
    <2> QED
      BY <2>1, <2>2
  <1>7. ASSUME AtAirport(worlds, owns, tok.plane, a), Of(due, tok.plane) = {},
               Unqueued(queues, tok.plane),
               NEW p, p = tok.plane \/ Situated(due, queues, worlds, owns, t, p)
        PROVE  Situated(due \cup new, queues2, worlds, owns, t, p)
    <2>1. Situated(due, queues1, worlds, owns, t, p)
      BY <1>7, EnqueueKeeps DEF queues1
    <2>2. CASE busys[a]
      BY <2>1, <2>2, <1>4
    <2>3. CASE ~ busys[a]
      <3>1. Begins(queues1[a], q2, busy2, new, a, t)
        BY <2>3, <1>5
      <3>2. Situated(due \cup new, [queues1 EXCEPT ![a] = q2], worlds, owns, t, p)
        BY <2>1, <3>1, <1>1, ServeKeeps
      <3> QED
        BY <3>2, <1>1
    <2> QED
      BY <2>2, <2>3
  <1>8. ASSUME NEW recs, NEW p, Told(due, queues, recs, p),
               p = tok.plane => LandedAt(recs, p, a)
        PROVE  Told(due \cup new, queues2, recs, p)
    <2>1. \A b \in Airport : Spots(p, queues1[b]) # {} => LandedAt(recs, p, b)
      BY <1>1, <1>3, <1>8 DEF Told
    <2>2. Told(due, queues1, recs, p)
      BY <2>1, <1>8 DEF Told
    <2>3. CASE busys[a]
      BY <2>2, <2>3, <1>4
    <2>4. CASE ~ busys[a]
      <3>1. Begins(queues1[a], q2, busy2, new, a, t)
        BY <2>4, <1>5
      <3>2. Told(due \cup new, [queues1 EXCEPT ![a] = q2], recs, p)
        BY <2>2, <3>1, <1>1, ServeTold
      <3> QED
        BY <3>2, <1>1
    <2> QED
      BY <2>3, <2>4
  <1> QED
    BY <1>6, <1>7, <1>8 DEF queues2

\* A record, if the plane is one of those whose records are kept.
LEMMA OneEmit ==
    ASSUME NEW p \in Plane, NEW rec \in LandRecord \cup DepartedRecord, rec.plane = p,
           out \in Seq(LandRecord \cup DepartedRecord), RecordsAgree,
           Emitted(p) => Follows(out, rec), out' = out \o EmitIf(p, rec)
    PROVE  /\ out' \in Seq(LandRecord \cup DepartedRecord) /\ RecordsAgree'
           /\ Emitted(p) => Mine(out', p) # {} /\ LastOf(out', p) = rec
           /\ \A q : q # p \/ ~ Emitted(p) =>
                 /\ Mine(out', q) = Mine(out, q)
                 /\ Mine(out, q) # {} => LastOf(out', q) = LastOf(out, q)
  <1> DEFINE Record == LandRecord \cup DepartedRecord
  <1>1. CASE Emitted(p)
    <2>1. out' = out \o <<rec>>
      BY <1>1 DEF EmitIf, Emitted
    <2>2. rec \in Record /\ out \in Seq(Record)
      OBVIOUS
    <2> HIDE DEF Record
    <2>3. out' \in Seq(Record) /\ Len(out) \in Nat /\ Emits(out, out', rec)
      BY <2>1, <2>2 DEF Emits
    <2>4. RecordsAgree'
      BY <2>3, <1>1, RecordsGoOn
    <2>5. Mine(out', p) # {} /\ LastOf(out', p) = rec
      BY <2>3, OneRecordMore
    <2>6. \A q : q # p => /\ Mine(out', q) = Mine(out, q)
                          /\ Mine(out, q) # {} => LastOf(out', q) = LastOf(out, q)
      BY <2>3, OneRecordMore
    <2> QED
      BY <2>3, <2>4, <2>5, <2>6, <1>1 DEF Record
  <1>2. CASE ~ Emitted(p)
    <2>1. out' = out \o <<>>
      BY <1>2 DEF EmitIf, Emitted
    <2>2. out \in Seq(Record)
      OBVIOUS
    <2> HIDE DEF Record
    <2>3. out' = out
      BY <2>1, <2>2
    <2> QED
      BY <2>3, <1>2 DEF RecordsAgree
  <1> QED
    BY <1>1, <1>2

\* What is told of a plane stays so while no record of it is added.
LEMMA ToldLater ==
    ASSUME NEW due, NEW queues, NEW recs, NEW p, Told(due, queues, recs, p),
           NEW recs2, Mine(recs2, p) = Mine(recs, p),
           Mine(recs, p) # {} => LastOf(recs2, p) = LastOf(recs, p)
    PROVE  Told(due, queues, recs2, p)
  BY DEF Told, LeftFor, LandedAt

\* A plane changes in the World of its region: that World and the others know the
\* other planes as before.
LEMMA OtherPlanes ==
    ASSUME NEW rs, RegionTypes(rs), NEW p \in Plane, NEW lp \in RegionLps,
           NEW pl \in PlaneState
    PROVE  LET worlds2 == [Worlds(rs) EXCEPT ![lp] = WithPlane(rs[lp].planes, p, pl)]
           IN  /\ worlds2[lp] = WithPlane(rs[lp].planes, p, pl)
               /\ WithPlane(rs[lp].planes, p, pl) \in PlaneMaps
               /\ p \in DOMAIN worlds2[lp] /\ worlds2[lp][p] = pl
               /\ \A q, k : q # p /\ k \in RegionLps /\ q \in DOMAIN Worlds(rs)[k] =>
                     /\ q \in DOMAIN worlds2[k]
                     /\ worlds2[k][q] = Worlds(rs)[k][q]
  <1> DEFINE planes  == rs[lp].planes
             planes2 == WithPlane(planes, p, pl)
             worlds2 == [Worlds(rs) EXCEPT ![lp] = planes2]
  <1>1. Worlds(rs) \in [RegionLps -> PlaneMaps] /\ planes \in PlaneMaps
        /\ Worlds(rs)[lp] = planes
    BY ViewTypes DEF RegionTypes, RegionState, Worlds
  <1> HIDE DEF planes
  <1>2. /\ planes2 \in PlaneMaps /\ DOMAIN planes2 = DOMAIN planes \cup {p}
        /\ planes2[p] = pl
        /\ \A k \in DOMAIN planes : k # p => planes2[k] = planes[k]
    BY <1>1, PlaneGiven
  <1> HIDE DEF planes2
  <1>3. worlds2[lp] = planes2 /\ \A k \in RegionLps : k # lp => worlds2[k] = Worlds(rs)[k]
    BY <1>1
  <1> HIDE DEF worlds2
  <1>4. ASSUME NEW q, NEW k \in RegionLps, q # p, q \in DOMAIN Worlds(rs)[k]
        PROVE  q \in DOMAIN worlds2[k] /\ worlds2[k][q] = Worlds(rs)[k][q]
    <2>1. CASE k = lp
      BY <2>1, <1>1, <1>2, <1>3, <1>4
    <2>2. CASE k # lp
      BY <2>2, <1>3, <1>4
    <2> QED
      BY <2>1, <2>2
  <1> QED
    BY <1>2, <1>3, <1>4 DEF worlds2, planes2, planes

\* A plane changes in the World of its region: the others are where they were.
LEMMA OthersStay ==
    ASSUME PlanTypes, AllSituated, NEW p \in Plane, NEW lp \in RegionLps,
           NEW pl \in PlaneState, NEW due2, NEW t2 \in Int, t2 >= now.time,
           \A q \in Plane \ {p} : Of(due2, q) = Of(pending, q)
    PROVE  \A q \in Plane \ {p} :
              Situated(due2, Queues(regions),
                       [Worlds(regions) EXCEPT ![lp] = WithPlane(regions[lp].planes, p, pl)],
                       owner, t2, q)
  <1> DEFINE planes2 == WithPlane(regions[lp].planes, p, pl)
             worlds2 == [Worlds(regions) EXCEPT ![lp] = planes2]
  <1> SUFFICES ASSUME NEW q \in Plane \ {p}
               PROVE  Situated(due2, Queues(regions), worlds2, owner, t2, q)
    OBVIOUS
  <1>1. RegionTypes(regions) /\ owner[q] \in RegionLps /\ q # p
    BY DEF PlanTypes
  <1>2. q \in DOMAIN Worlds(regions)[owner[q]] =>
           /\ q \in DOMAIN worlds2[owner[q]]
           /\ worlds2[owner[q]][q] = Worlds(regions)[owner[q]][q]
    BY <1>1, OtherPlanes
  <1> HIDE DEF worlds2
  <1>3. /\ Situated(pending, Queues(regions), Worlds(regions), owner, now.time, q)
        /\ Of(due2, q) = Of(pending, q) /\ now.time \in Int
    BY DEF AllSituated, PlanTypes
  <1>4. \A a \in Airport : \A i \in Spots(q, Queues(regions)[a]) :
           i \in 1..Len(Queues(regions)[a])
    BY DEF Spots
  <1> QED
    BY <1>2, <1>3, <1>4, SituationFrame

\* What executing ev with result r does.
RegionStep(ev, r) ==
    /\ pending' = (pending \ {ev}) \cup ToSet(r.sends) /\ now' = ev.ts /\ rng' = rng
    /\ regions' = [regions EXCEPT ![ev.dst] = r.state] /\ out' = out \o r.emits
    /\ owner' = owner /\ dirSeq' = dirSeq

\* The runways when ev is gone, and something else is due that is no service.
LEMMA RunwaysStay ==
    ASSUME AllExclusive, NEW due2,
           \A a \in Airport : Serving(due2, a) = Serving(pending, a)
    PROVE  InOrder(due2, Runways(regions))
  <1> SUFFICES ASSUME NEW a \in Airport
               PROVE  Exclusive(due2, Runways(regions)[a], a)
    BY DEF InOrder
  <1>1. Exclusive(pending, Runways(regions)[a], a)
    BY DEF AllExclusive
  <1>2. \A e : Serving(due2, a) = {e} => e \in due2
    BY DEF Serving
  <1> QED
    BY <1>1, <1>2 DEF Exclusive

-----------------------------------------------------------------------------
(***************************************************************************)
(* The regions' steps.                                                     *)
(***************************************************************************)
\* What a region executes has been forwarded to it, or installs a plane.
LEMMA InstallKeeps ==
    ASSUME PlanInvariant, NEW ev \in pending, IsNext(ev), ev.dst # DirectoryLp,
           ev.body.kind = "install", RegionStep(ev, OnInstall(regions[ev.dst], ev))
    PROVE  PlanInvariant'
  <1> USE DEF PlanInvariant
  <1> DEFINE p     == ev.body.plane
             lp    == ev.dst
             pl    == ev.body.state
             t     == ev.ts.time
             sends == schedule_next_boundary_(t, p, pl)
             given == WithPlane(regions[lp].planes, p, pl)
             new   == ToSet(sends)
             worlds2 == [Worlds(regions) EXCEPT ![lp] = given]
  <1>1. ev.ts \in When /\ ev.body \in InstallBody /\ lp \in RegionLps
    BY DEF PlanTypes, DueEvent, LandBody, DoneBody, UpdateBody
  <1>2. p \in Plane /\ pl \in PlaneState /\ t \in 0..EndTime
    BY <1>1 DEF InstallBody, When
  <1>3. ev \in Of(pending, p) /\ Situated(pending, Queues(regions), Worlds(regions), owner,
                                          now.time, p)
    BY <1>2 DEF Of, AllSituated
  <1>4. PICK land \in pending :
           /\ land.body.kind = "land" /\ land.body.key.leg \in 0..land.ts.time
           /\ Far(pending, owner, p, land, ev)
    BY <1>3, DueCross
  <1>5. Unqueued(Queues(regions), p)
    BY <1>3, DueCross
  <1>6. /\ Of(pending, p) = {land, ev} /\ land.dst = DirectoryLp /\ Heading(pl, land)
        /\ compute_land_time_(t, pl) = land.ts.time
        /\ lp = owner[p] /\ owner[p] = lp_of_region(pl.region) /\ pl.inFlight
        /\ land # ev
    BY <1>4 DEF Far, Heading
  <1>7. /\ OnInstall(regions[lp], ev).sends = sends
        /\ OnInstall(regions[lp], ev).emits = <<>>
        /\ OnInstall(regions[lp], ev).state = [regions[lp] EXCEPT !.planes = given]
    BY <1>6 DEF OnInstall, Result
  <1> HIDE DEF sends
  <1>8. /\ pending' = (pending \ {ev}) \cup new /\ now' = ev.ts /\ rng' = rng
        /\ regions' = [regions EXCEPT ![lp] = [@ EXCEPT !.planes = given]]
        /\ owner' = owner /\ dirSeq' = dirSeq /\ out' = out
    <2>1. out \o <<>> = out
      <3> DEFINE Record == LandRecord \cup DepartedRecord
      <3>1. out \in Seq(Record)
        BY DEF PlanTypes
      <3> HIDE DEF Record
      <3> QED
        BY <3>1
    <2> QED
      BY <1>7, <2>1 DEF RegionStep
  <1>9. land.ts.time \in 0..EndTime
    BY DEF PlanTypes, DueEvent, When
  <1>10. IF pl.region = region_of_airport(pl.dest) THEN new = {}
         ELSE \E cross \in DueEvent :
                 /\ new = {cross} /\ cross.ts.time > t
                 /\ cross.dst = DirectoryLp /\ cross.body.kind = "update"
                 /\ cross.body.plane = p
                 /\ cross.body.owner = lp_of_region(cross.body.state.region)
                 /\ cross.body.state.inFlight = pl.inFlight
                 /\ cross.body.state.dest = pl.dest
                 /\ cross.body.state.key = pl.key
                 /\ compute_land_time_(cross.ts.time, cross.body.state)
                       = compute_land_time_(t, pl)
    <2>1. compute_land_time_(t, pl) <= EndTime
      BY <1>6, <1>9
    <2> HIDE DEF p, pl, t
    <2> QED
      BY <1>2, <2>1, NextBoundary, SendsAsSet DEF sends
  <1> HIDE DEF given, new, worlds2
  <1>11. /\ given \in PlaneMaps /\ p \in DOMAIN given /\ given[p] = pl
         /\ RegionTypes(regions')
         /\ Queues(regions') = Queues(regions) /\ Runways(regions') = Runways(regions)
         /\ Worlds(regions') = worlds2
    <2>1. regions[lp].planes \in PlaneMaps /\ RegionTypes(regions)
      BY <1>1 DEF PlanTypes, RegionTypes, RegionState
    <2>2. given \in PlaneMaps /\ p \in DOMAIN given /\ given[p] = pl
      <3> DEFINE old == regions[lp].planes
      <3>1. old \in PlaneMaps /\ given = WithPlane(old, p, pl)
        BY <2>1 DEF given
      <3> HIDE DEF p, pl, lp, old
      <3>2. /\ WithPlane(old, p, pl) \in PlaneMaps
            /\ DOMAIN WithPlane(old, p, pl) = DOMAIN old \cup {p}
            /\ WithPlane(old, p, pl)[p] = pl
        BY ONLY <1>2, <3>1, PlaneGiven
      <3> QED
        BY ONLY <3>1, <3>2
    <2> DEFINE rs2 == [regions EXCEPT ![lp] = [@ EXCEPT !.planes = given]]
    <2>3. /\ RegionTypes(rs2)
          /\ Queues(rs2) = Queues(regions) /\ Runways(rs2) = Runways(regions)
          /\ Worlds(rs2) = [Worlds(regions) EXCEPT ![lp] = given]
      BY <1>1, <2>1, <2>2, WorldChanged, Zenon
    <2>4. regions' = rs2
      BY <1>8
    <2> HIDE DEF rs2
    <2> QED
      BY <2>2, <2>3, <2>4 DEF worlds2
  <1>12. \A e \in new : /\ e \in DueEvent /\ e.ts.time > t /\ e.body.plane = p
                        /\ e.body.kind = "update"
    BY <1>10
  <1>13. now'.time = t /\ now.time <= t /\ NothingPast' /\ now.time \in Int /\ t \in Int
    <2>1. Takes(ev, new)
      BY <1>8 DEF Takes
    <2>2. \A e \in new : ev.ts.time <= e.ts.time
      <3>1. \A e \in new : e.ts.time \in Int
        BY <1>12 DEF DueEvent, When
      <3> QED
        BY <3>1, <1>2, <1>12
    <2> QED
      BY <2>1, <2>2, NextIsFirst, NothingPastAfter
  <1>14. PlanTypes'
    BY <1>2, <1>8, <1>11, <1>12, <1>13 DEF PlanTypes
  <1>15. worlds2[lp] = given
    BY <1>1, ViewTypes DEF worlds2, PlanTypes
  <1>16. Flying(pending', Queues(regions), worlds2, owner, p)
    <2>1. land \in pending'
      BY <1>6, <1>8
    <2>2. CASE pl.region = region_of_airport(pl.dest)
      <3>1. Of(pending', p) = {land}
        BY <1>6, <1>8, <1>10, <2>2 DEF Of
      <3>2. Near(pending', worlds2, owner, p, land)
        BY <3>1, <1>6, <1>11, <1>15, <2>2 DEF Near, Heading
      <3> QED
        BY <2>1, <3>2, <1>4, <1>5 DEF Flying
    <2>3. CASE pl.region # region_of_airport(pl.dest)
      <3>1. PICK cross \in DueEvent :
                 /\ new = {cross} /\ cross.dst = DirectoryLp /\ cross.body.kind = "update"
                 /\ cross.body.plane = p
                 /\ cross.body.owner = lp_of_region(cross.body.state.region)
                 /\ cross.body.state.inFlight = pl.inFlight
                 /\ cross.body.state.dest = pl.dest
                 /\ cross.body.state.key = pl.key
                 /\ compute_land_time_(cross.ts.time, cross.body.state)
                       = compute_land_time_(t, pl)
        BY <1>10, <2>3
      <3>2. Of(pending', p) = {land, cross} /\ cross \in pending'
        BY <1>6, <1>8, <3>1 DEF Of
      <3>3. Far(pending', owner, p, land, cross)
        BY <3>1, <3>2, <1>6 DEF Far, Heading
      <3> QED
        BY <2>1, <3>2, <3>3, <1>4, <1>5 DEF Flying
    <2> QED
      BY <2>2, <2>3
  <1>17. AllSituated'
    <2>1. \A q \in Plane \ {p} : Of(pending', q) = Of(pending, q)
      BY <1>8, <1>12 DEF Of
    <2>2. \A q \in Plane \ {p} : Situated(pending', Queues(regions), worlds2, owner, t, q)
      BY <1>1, <1>2, <1>13, <2>1, OthersStay DEF worlds2, given
    <2>3. Situated(pending', Queues(regions), worlds2, owner, t, p)
      BY <1>16 DEF Situated
    <2> QED
      BY <2>2, <2>3, <1>8, <1>11, <1>13 DEF AllSituated
  <1>18. AllExclusive'
    <2>1. \A a \in Airport : Serving(pending', a) = Serving(pending, a)
      BY <1>8, <1>12 DEF Serving
    <2>2. InOrder(pending', Runways(regions))
      BY <2>1, RunwaysStay
    <2> QED
      BY <2>2, <1>11 DEF AllExclusive, InOrder
  <1>19. AllTold'
    <2> SUFFICES ASSUME NEW q \in Plane, Emitted(q)
                 PROVE  Told(pending', Queues(regions), out, q)
      BY <1>8, <1>11 DEF AllTold
    <2>1. Told(pending, Queues(regions), out, q)
      BY DEF AllTold
    <2>2. \A e \in Of(pending', q) : e \in Of(pending, q) \/ e.body.kind = "update"
      BY <1>8, <1>12 DEF Of
    <2> QED
      BY <2>1, <2>2 DEF Told
  <1>20. RecordsAgree'
    BY <1>8 DEF RecordsAgree
  <1> QED
    BY <1>13, <1>14, <1>17, <1>18, <1>19, <1>20

\* The planes that wait for a runway can be served.
LEMMA TokensServable ==
    ASSUME NEW rs, NEW due, NEW owns, NEW t, NEW a \in Airport, RegionTypes(rs),
           \A p \in Plane : \/ Situated(due, Queues(rs), Worlds(rs), owns, t, p)
                            \/ Unqueued(Queues(rs), p)
    PROVE  Servable(Queues(rs)[a], t)
  <1> DEFINE q == Queues(rs)[a]
  <1> SUFFICES ASSUME NEW i \in 1..Len(q)
               PROVE  q[i].key.leg \in 0..t
    BY DEF Servable
  <1> DEFINE p == q[i].plane
  <1>1. q \in Seq(Token)
    BY ViewTypes
  <1> HIDE DEF q
  <1>2. p \in Plane
    <2>1. q[i] \in Token
      BY <1>1
    <2> QED
      BY <2>1 DEF Token
  <1>3. i \in Spots(p, q)
    BY DEF Spots
  <1>4. ~ Unqueued(Queues(rs), p)
    BY <1>3 DEF Unqueued, q
  <1>5. Situated(due, Queues(rs), Worlds(rs), owns, t, p)
    BY <1>2, <1>4
  <1> HIDE DEF p
  <1>6. PICK b \in Airport : Waiting(due, Queues(rs), Worlds(rs), owns, t, p, b)
    BY <1>4, <1>5 DEF Situated, Served, Flying, Ended
  <1>7. b = a
    BY <1>3, <1>6 DEF Waiting, q
  <1> QED
    BY <1>3, <1>6, <1>7 DEF Waiting, q

LEMMA QueuesServable ==
    ASSUME PlanTypes, AllSituated, NEW t \in Int, now.time <= t, NEW a \in Airport
    PROVE  Servable(Queues(regions)[a], t)
  <1>1. Servable(Queues(regions)[a], now.time)
    BY TokensServable DEF PlanTypes, AllSituated
  <1>2. now.time \in Int
    BY DEF PlanTypes
  <1> QED
    BY <1>1, <1>2 DEF Servable

\* A landing: the plane joins the queue.
LEMMA LandKeeps ==
    ASSUME PlanInvariant, NEW ev \in pending, IsNext(ev), ev.dst # DirectoryLp,
           ev.body.kind = "land", RegionStep(ev, OnLand(rng, regions[ev.dst], ev))
    PROVE  PlanInvariant'
  <1> USE DEF PlanInvariant
  <1> DEFINE p   == ev.body.plane
             a   == ev.body.airport
             key == ev.body.key
             lp  == ev.dst
             t   == ev.ts.time
             old == regions[lp].planes[p]
             pl  == [old EXCEPT !.inFlight = FALSE, !.x = airport_x(a),
                                !.region = region_of_airport(a), !.key = key]
             given == WithPlane(regions[lp].planes, p, pl)
             ap  == regions[lp].airports[a]
             tok == [plane |-> p, key |-> key]
             r   == enqueue_arrival_(rng, ap, a, p, key, t)
             rec == [kind |-> "land", plane |-> p, at |-> a, land |-> t]
             new == ToSet(r.sends)
             due == pending \ {ev}
             worlds2 == [Worlds(regions) EXCEPT ![lp] = given]
             queues2 == [Queues(regions) EXCEPT ![a] = r.airport.q]
  <1>1. /\ lp \in RegionLps /\ lp = owner[p] /\ p \in Plane /\ a \in Airport
        /\ HasPlane(regions[lp], p)
        /\ lp = lp_of_region(region_of_airport(a))
        /\ Near(pending, Worlds(regions), owner, p, ev)
    BY FindsItsPlane
  <1>2. ev.ts \in When /\ ev.body \in LandBody
    BY DEF PlanTypes, DueEvent, DoneBody, InstallBody, UpdateBody
  <1>3. key \in LegKey /\ t \in 0..EndTime /\ t \in Int
    BY <1>2, Parameters DEF LandBody, When
  <1>4. ev \in Of(pending, p) /\ Situated(pending, Queues(regions), Worlds(regions), owner,
                                          now.time, p)
    BY <1>1 DEF Of, AllSituated
  <1>5. Unqueued(Queues(regions), p) /\ key.leg \in 0..t
    BY <1>4, DueLand
  <1>6. RegionTypes(regions) /\ regions[lp] \in RegionState(lp)
        /\ regions[lp].planes \in PlaneMaps /\ p \in DOMAIN regions[lp].planes
    BY <1>1 DEF PlanTypes, RegionTypes, RegionState, HasPlane
  <1>7. old \in PlaneState
    BY <1>6 DEF PlaneMaps
  <1>8. pl \in PlaneState /\ pl.region = region_of_airport(a) /\ pl.x = airport_x(a)
    <2> DEFINE pl1 == [old EXCEPT !.inFlight = FALSE]
               pl2 == [pl1 EXCEPT !.x = airport_x(a)]
               pl3 == [pl2 EXCEPT !.region = region_of_airport(a)]
    <2>1. pl = [pl3 EXCEPT !.key = key]
      BY Zenon
    <2> HIDE DEF old, key, a, pl
    <2>2. airport_x(a) \in Int /\ region_of_airport(a) \in 0..(Regions - 1)
      BY <1>1, Airports
    <2>3. pl1 \in PlaneState
      BY <1>7 DEF PlaneState
    <2> HIDE DEF pl1
    <2>4. pl2 \in PlaneState /\ pl2.x = airport_x(a)
      BY <2>2, <2>3 DEF PlaneState
    <2> HIDE DEF pl2
    <2>5. /\ pl3 \in PlaneState /\ pl3.x = airport_x(a)
          /\ pl3.region = region_of_airport(a)
      BY <2>2, <2>4 DEF PlaneState
    <2> HIDE DEF pl3
    <2> QED
      BY <2>1, <2>5, <1>3 DEF PlaneState
  <1>9. /\ ap \in AirportState /\ Queues(regions)[a] = ap.q
        /\ Runways(regions)[a] = ap.busy
    BY <1>1, <1>6, ViewTypes
  <1>10. now.time <= t /\ now.time \in Int
    BY NextIsFirst
  <1>11. tok \in Token /\ tok.plane = p /\ tok.key.leg \in 0..t
    BY <1>1, <1>3, <1>5 DEF Token
  <1> HIDE DEF pl, old
  <1>12. /\ OnLand(rng, regions[lp], ev).sends = r.sends
         /\ OnLand(rng, regions[lp], ev).emits = EmitIf(p, rec)
         /\ OnLand(rng, regions[lp], ev).state
               = [planes |-> given, airports |-> [regions[lp].airports EXCEPT ![a] = r.airport]]
    BY DEF OnLand, Result, pl, old
  <1> HIDE DEF r, rec, given
  <1>13. /\ pending' = due \cup new /\ now' = ev.ts /\ rng' = rng
         /\ regions' = [regions EXCEPT ![lp] =
                           [planes |-> given, airports |-> [@.airports EXCEPT ![a] = r.airport]]]
         /\ owner' = owner /\ dirSeq' = dirSeq /\ out' = out \o EmitIf(p, rec)
    BY <1>12 DEF RegionStep
  <1> HIDE DEF new, worlds2, queues2, due, lp, p, a, key, tok, ap, t
  <1>14. /\ r.airport \in AirportState
         /\ r.sends \in Seq(DueEvent)
         /\ IF ap.busy
            THEN r.airport.q = Append(ap.q, tok) /\ r.airport.busy /\ new = {}
            ELSE Begins(Append(ap.q, tok), r.airport.q, r.airport.busy, new, a, t)
    <2>1. Servable(ap.q, t)
      BY <1>1, <1>3, <1>9, <1>10, QueuesServable
    <2>2. rng \in Draws
      BY DEF PlanTypes
    <2>3. LET res == enqueue_arrival_(rng, ap, a, p, key, t)
              q   == Append(ap.q, [plane |-> p, key |-> key])
          IN  /\ res.airport \in AirportState
              /\ res.sends \in Seq(DueEvent)
              /\ IF ap.busy
                 THEN res.airport.q = q /\ res.airport.busy /\ ToSet(res.sends) = {}
                 ELSE Begins(q, res.airport.q, res.airport.busy, ToSet(res.sends), a, t)
      BY ONLY <2>1, <2>2, <1>1, <1>3, <1>5, <1>9, EnqueueArrival
    <2> QED
      BY <2>3 DEF r, new, tok
  <1>15. /\ given \in PlaneMaps /\ p \in DOMAIN given /\ given[p] = pl
    <2> DEFINE planes == regions[lp].planes
    <2>1. planes \in PlaneMaps /\ given = WithPlane(planes, p, pl)
      BY <1>6 DEF given
    <2> HIDE DEF planes
    <2>2. /\ WithPlane(planes, p, pl) \in PlaneMaps
          /\ DOMAIN WithPlane(planes, p, pl) = DOMAIN planes \cup {p}
          /\ WithPlane(planes, p, pl)[p] = pl
      BY ONLY <1>1, <1>8, <2>1, PlaneGiven
    <2> QED
      BY ONLY <2>1, <2>2
  <1>16. /\ RegionTypes(regions') /\ Worlds(regions') = worlds2
         /\ Queues(regions') = queues2
         /\ Runways(regions') = [Runways(regions) EXCEPT ![a] = r.airport.busy]
    <2> DEFINE here == lp_of_region(region_of_airport(a))
               rs2  == WithAirport(regions, a, given, r.airport)
    <2>1. here = lp
      BY <1>1
    <2>2. /\ RegionTypes(rs2)
          /\ Queues(rs2) = [Queues(regions) EXCEPT ![a] = r.airport.q]
          /\ Runways(rs2) = [Runways(regions) EXCEPT ![a] = r.airport.busy]
          /\ Worlds(rs2) = [Worlds(regions) EXCEPT ![here] = given]
      <3>1. RegionTypes(regions) /\ given \in PlaneMaps /\ r.airport \in AirportState
            /\ a \in Airport
        BY <1>1, <1>6, <1>14, <1>15
      <3> QED
        BY ONLY <3>1, RegionChanged
    <2>3. regions' = rs2
      BY <1>13, <2>1 DEF WithAirport
    <2> HIDE DEF rs2, here
    <2> QED
      BY <2>1, <2>2, <2>3 DEF worlds2, queues2
  <1>17. \A e \in new : /\ e \in DueEvent /\ e.ts.time >= t /\ e.body.kind = "done"
    BY <1>14 DEF Begins
  <1>18. now'.time = t /\ NothingPast'
    <2>1. Takes(ev, new)
      BY <1>13 DEF Takes, due
    <2>2. \A e \in new : ev.ts.time <= e.ts.time
      <3>1. \A e \in new : e.ts.time \in Int
        BY <1>17 DEF DueEvent, When
      <3> QED
        BY <3>1, <1>3, <1>17 DEF t
    <2> QED
      BY <2>1, <2>2, NextIsFirst, NothingPastAfter DEF t
  <1>19. /\ out' \in Seq(LandRecord \cup DepartedRecord) /\ RecordsAgree'
         /\ Emitted(p) => Mine(out', p) # {} /\ LastOf(out', p) = rec
         /\ \A q : q # p \/ ~ Emitted(p) =>
               /\ Mine(out', q) = Mine(out, q)
               /\ Mine(out, q) # {} => LastOf(out', q) = LastOf(out, q)
    <2>1. rec \in LandRecord /\ rec.plane = p
      BY <1>1, <1>3, Parameters DEF rec, LandRecord
    <2>2. Emitted(p) => Follows(out, rec)
      <3> SUFFICES ASSUME Emitted(p)
                   PROVE  Follows(out, rec)
        OBVIOUS
      <3>1. Told(pending, Queues(regions), out, p)
        BY <1>1 DEF AllTold
      <3>2. LeftFor(out, p, ev)
        BY <3>1, <1>4 DEF Told
      <3> QED
        BY <3>2 DEF LeftFor, Follows, rec, a, t
    <2>3. out \in Seq(LandRecord \cup DepartedRecord)
      BY DEF PlanTypes
    <2>4. rec \in LandRecord \cup DepartedRecord
      BY <2>1
    <2> QED
      BY ONLY <2>1, <2>2, <2>3, <2>4, <1>1, <1>13, OneEmit, PlanInvariant DEF PlanInvariant
  <1>20. PlanTypes'
    <2>1. pending' \in SUBSET DueEvent
      BY <1>13, <1>17 DEF PlanTypes, due
    <2> QED
      BY <2>1, <1>3, <1>13, <1>16, <1>18, <1>19 DEF PlanTypes
  <1>21. /\ Of(due, p) = {} /\ \A q : Of(due, q) \subseteq Of(pending, q)
         /\ \A q \in Plane \ {p} : Of(due, q) = Of(pending, q)
    BY <1>1 DEF Of, due, p, Near
  <1>22. AtAirport(worlds2, owner, p, a)
    <2>1. worlds2[lp] = given
      BY <1>1, <1>6, ViewTypes DEF worlds2
    <2> QED
      BY <2>1, <1>1, <1>8, <1>15 DEF AtAirport
  <1>23. InOrder(due, Runways(regions))
    <2>1. \A b \in Airport : Serving(due, b) = Serving(pending, b)
      BY DEF Serving, due
    <2> QED
      BY <2>1, RunwaysStay
  <1>24. /\ InOrder(due \cup new, [Runways(regions) EXCEPT ![a] = r.airport.busy])
         /\ \A q : q = p \/ Situated(due, Queues(regions), worlds2, owner, t, q) =>
               Situated(due \cup new, queues2, worlds2, owner, t, q)
         /\ \A recs, q : Told(due, Queues(regions), recs, q)
                         /\ (q = p => LandedAt(recs, q, a)) =>
               Told(due \cup new, queues2, recs, q)
    <2> DEFINE queues == Queues(regions)
               busys  == Runways(regions)
    <2>1. queues \in [Airport -> Seq(Token)] /\ busys \in [Airport -> BOOLEAN]
      BY <1>6, ViewTypes
    <2>2. r.airport.busy \in BOOLEAN
      BY <1>14 DEF AirportState
    <2>3. IF busys[a]
          THEN r.airport.q = Append(queues[a], tok) /\ r.airport.busy = TRUE /\ new = {}
          ELSE Begins(Append(queues[a], tok), r.airport.q, r.airport.busy, new, a, t)
      BY <1>9, <1>14, <2>2
    <2>4. tok.plane = p /\ AtAirport(worlds2, owner, tok.plane, a)
          /\ Of(due, tok.plane) = {} /\ Unqueued(queues, tok.plane)
      BY <1>5, <1>11, <1>21, <1>22
    <2> HIDE DEF queues, busys
    <2> QED
      BY ONLY <2>1, <2>3, <2>4, <1>1, <1>3, <1>11, <1>23, Arrives
         DEF queues2, queues, busys
  <1>25. AllSituated'
    <2>1. \A q \in Plane \ {p} : Situated(due, Queues(regions), worlds2, owner, t, q)
      BY <1>1, <1>3, <1>8, <1>10, <1>21, OthersStay DEF worlds2, given
    <2>2. \A q \in Plane : Situated(due \cup new, queues2, worlds2, owner, t, q)
      BY <2>1, <1>24
    <2> QED
      BY <2>2, <1>13, <1>16, <1>18 DEF AllSituated
  <1>26. AllExclusive'
    BY <1>13, <1>16, <1>24 DEF AllExclusive, InOrder
  <1>27. AllTold'
    <2> SUFFICES ASSUME NEW q \in Plane
                 PROVE  IF Emitted(q) THEN Told(due \cup new, queues2, out', q)
                                      ELSE Mine(out', q) = {}
      BY <1>13, <1>16 DEF AllTold
    <2>1. CASE ~ Emitted(q)
      BY <2>1, <1>19 DEF AllTold
    <2>2. CASE Emitted(q)
      <3>1. Told(pending, Queues(regions), out, q)
        BY <2>2 DEF AllTold
      <3>2. CASE q # p
        <4>1. Told(pending, Queues(regions), out', q)
          BY <3>1, <3>2, <1>19, ToldLater
        <4>2. Told(due, Queues(regions), out', q)
          BY <4>1, <1>21 DEF Told
        <4> QED
          BY <4>2, <3>2, <2>2, <1>24
      <3>3. CASE q = p
        <4>1. LandedAt(out', p, a)
          BY <3>3, <2>2, <1>19 DEF LandedAt, rec
        <4>2. Told(due, Queues(regions), out', p)
          BY <1>5, <1>21 DEF Told, Unqueued
        <4> QED
          BY <4>1, <4>2, <3>3, <2>2, <1>24
      <3> QED
        BY <3>2, <3>3
    <2> QED
      BY <2>1, <2>2
  <1> QED
    BY <1>18, <1>19, <1>20, <1>25, <1>26, <1>27

\* What is sent for a plane that leaves: nothing if it would land too late, else its
\* landing and, if there is one ahead, the first border.
DepartSends(t, p, pl) ==
    IF compute_land_time_(t, pl) <= EndTime
    THEN <<Land(compute_land_time_(t, pl), p, pl.key, pl.dest)>>
         \o schedule_next_boundary_(t, p, pl)
    ELSE <<>>

\* The landing of the leg that begins.
LandsAfter(land, t, p, pl) ==
    /\ land \in DueEvent /\ land.dst = DirectoryLp /\ land.body.kind = "land"
    /\ land.body.plane = p /\ land.body.key = pl.key /\ land.body.airport = pl.dest
    /\ land.ts.time = compute_land_time_(t, pl) /\ land.ts.time > t

\* The crossing that comes first.
CrossesAfter(cross, t, p, pl) ==
    /\ cross \in DueEvent
    /\ cross.ts.time > t /\ cross.dst = DirectoryLp /\ cross.body.kind = "update"
    /\ cross.body.plane = p
    /\ cross.body.owner = lp_of_region(cross.body.state.region)
    /\ cross.body.state.inFlight = pl.inFlight
    /\ cross.body.state.dest = pl.dest
    /\ cross.body.state.key = pl.key
    /\ compute_land_time_(cross.ts.time, cross.body.state) = compute_land_time_(t, pl)

LEMMA Departs ==
    ASSUME NEW t \in 0..EndTime, NEW p \in Plane, NEW pl \in PlaneState
    PROVE  /\ DepartSends(t, p, pl) \in Seq(DueEvent)
           /\ \/ /\ compute_land_time_(t, pl) > EndTime
                 /\ ToSet(DepartSends(t, p, pl)) = {}
              \/ /\ compute_land_time_(t, pl) <= EndTime
                 /\ \E land : /\ LandsAfter(land, t, p, pl)
                              /\ \/ /\ pl.region = region_of_airport(pl.dest)
                                    /\ ToSet(DepartSends(t, p, pl)) = {land}
                                 \/ \E cross : /\ CrossesAfter(cross, t, p, pl)
                                               /\ ToSet(DepartSends(t, p, pl)) = {land, cross}
  <1> DEFINE time   == compute_land_time_(t, pl)
             land   == Land(time, p, pl.key, pl.dest)
             border == schedule_next_boundary_(t, p, pl)
             sends  == DepartSends(t, p, pl)
  <1>1. InTheAir(pl) /\ pl.key \in LegKey /\ pl.dest \in Airport
    BY DEF InTheAir, PlaneState
  <1>2. time \in Nat /\ time > t
    <2>1. t \in Nat
      BY Parameters
    <2> QED
      BY <1>1, <2>1, LandTime
  <1>3. sends = IF time <= EndTime THEN <<land>> \o border ELSE <<>>
    BY DEF DepartSends
  <1> HIDE DEF sends, border, time
  <1>4. CASE time <= EndTime
    <2>1. /\ land.ts = [time |-> time, sequence |-> stable_seq(3, p)]
          /\ land.dst = DirectoryLp
          /\ land.body = [kind |-> "land", plane |-> p, airport |-> pl.dest,
                          key |-> pl.key]
          /\ land = [ts |-> land.ts, dst |-> land.dst, body |-> land.body]
      BY DEF Land, Targeted
    <2> HIDE DEF land
    <2>2. land.ts \in When
      <3>1. stable_seq(3, p) \in Nat \ {0}
        BY Parameters DEF stable_seq, Plane
      <3> QED
        BY <2>1, <3>1, <1>2, <1>4, Parameters DEF When
    <2>3. land.body \in LandBody
      BY <2>1, <1>1 DEF LandBody
    <2>4. land \in DueEvent
      BY <2>1, <2>2, <2>3 DEF DueEvent
    <2>5. LandsAfter(land, t, p, pl)
      BY <2>1, <2>4, <1>2 DEF LandsAfter, time
    <2>6. sends = <<land>> \o border /\ <<land>> \in Seq(DueEvent)
      BY <1>3, <1>4, <2>4
    <2>7. IF pl.region = region_of_airport(pl.dest) THEN border = <<>>
          ELSE \E cross : CrossesAfter(cross, t, p, pl) /\ border = <<cross>>
      BY <1>4, NextBoundary DEF CrossesAfter, border, time
    <2>8. CASE pl.region = region_of_airport(pl.dest)
      <3>1. sends = <<land>>
        BY <2>6, <2>7, <2>8
      <3>2. ToSet(sends) = {land} /\ sends \in Seq(DueEvent)
        BY <3>1, <2>4, SendsAsSet
      <3> QED
        BY <2>5, <2>8, <3>2, <1>4 DEF sends, time
    <2>9. CASE pl.region # region_of_airport(pl.dest)
      <3>1. PICK cross : CrossesAfter(cross, t, p, pl) /\ border = <<cross>>
        BY <2>7, <2>9
      <3>2. border \in Seq(DueEvent)
        BY <3>1 DEF CrossesAfter
      <3>3. sends \in Seq(DueEvent)
        BY <2>6, <3>2
      <3>4. ToSet(sends) = ToSet(<<land>>) \cup ToSet(border)
        BY <2>6, <3>2, SendsAsSet
      <3>5. ToSet(<<land>>) = {land} /\ ToSet(border) = {cross}
        BY <3>1, SendsAsSet
      <3>6. ToSet(sends) = {land, cross}
        BY <3>4, <3>5
      <3> QED
        BY <2>5, <3>1, <3>3, <3>6, <1>4 DEF sends, time
    <2> QED
      BY <2>8, <2>9
  <1>5. CASE time > EndTime
    <2>1. sends = <<>>
      BY <1>2, <1>3, <1>5, Parameters
    <2>2. sends \in Seq(DueEvent) /\ ToSet(sends) = {}
      BY <2>1, SendsAsSet
    <2> QED
      BY <2>2, <1>5 DEF sends, time
  <1> QED
    BY <1>2, <1>4, <1>5, Parameters

\* A plane that leaves is on its way, or would land too late.
LEMMA DepartSituates ==
    ASSUME PlanTypes, NEW t \in 0..EndTime, NEW p \in Plane, NEW pl \in PlaneState,
           NEW a \in Airport, pl.region = region_of_airport(a), pl.x = airport_x(a),
           pl.inFlight, pl.key.leg \in 0..(t + 1),
           owner[p] = lp_of_region(region_of_airport(a)),
           NEW due, NEW queues, NEW worlds, Unqueued(queues, p),
           p \in DOMAIN worlds[owner[p]], worlds[owner[p]][p] = pl,
           Of(due, p) = ToSet(DepartSends(t, p, pl))
    PROVE  Situated(due, queues, worlds, owner, t, p)
  <1> DEFINE new == ToSet(DepartSends(t, p, pl))
  <1>1. pl.dest \in Airport /\ t \in Nat
    BY Parameters DEF PlaneState
  <1>2. \A e \in new : e \in due
    BY DEF Of
  <1> HIDE DEF new
  <1>3. CASE compute_land_time_(t, pl) > EndTime /\ new = {}
    <2> DEFINE there == [region |-> region_of_airport(a), x |-> airport_x(a),
                         dest |-> pl.dest]
    <2>1. compute_land_time_(t, there) <= t + LongestTrip
      BY <1>1, TripsAssumption
    <2>2. there.region = pl.region /\ there.x = pl.x /\ there.dest = pl.dest
      OBVIOUS
    <2> HIDE DEF there
    <2>3. compute_land_time_(t, there) = compute_land_time_(t, pl)
      BY <2>2, SameTrip
    <2>4. InTheAir(pl)
      BY DEF InTheAir, PlaneState
    <2>5. compute_land_time_(t, pl) \in Nat
      BY <1>1, <2>4, LandTime
    <2>6. t + LongestTrip > EndTime
      BY <2>1, <2>3, <2>5, <1>1, <1>3, Parameters
    <2>7. Ended(due, queues, t, p)
      BY <2>6, <1>3 DEF Ended, new
    <2> QED
      BY <2>7 DEF Situated
  <1>4. ASSUME NEW land, LandsAfter(land, t, p, pl),
               \/ pl.region = region_of_airport(pl.dest) /\ new = {land}
               \/ \E cross : CrossesAfter(cross, t, p, pl) /\ new = {land, cross}
        PROVE  Situated(due, queues, worlds, owner, t, p)
    <2>1. land \in due
      BY <1>2, <1>4
    <2>2. land.body.key.leg \in 0..land.ts.time
      <3>1. land.ts.time \in Int
        BY <1>4 DEF LandsAfter, DueEvent, When
      <3> QED
        BY <3>1, <1>1, <1>4 DEF LandsAfter
    <2>3. CASE pl.region = region_of_airport(pl.dest) /\ new = {land}
      <3>1. Near(due, worlds, owner, p, land)
        BY <2>3, <1>4 DEF Near, Heading, LandsAfter, new
      <3> QED
        BY <2>1, <2>2, <3>1, <1>4 DEF Flying, Situated, LandsAfter
    <2>4. ASSUME NEW cross, CrossesAfter(cross, t, p, pl), new = {land, cross}
          PROVE  Situated(due, queues, worlds, owner, t, p)
      <3>1. cross \in due
        BY <1>2, <2>4
      <3>2. Far(due, owner, p, land, cross)
        BY <2>4, <1>4 DEF Far, Heading, LandsAfter, CrossesAfter, new
      <3> QED
        BY <2>1, <2>2, <3>1, <3>2, <1>4 DEF Flying, Situated, LandsAfter
    <2> QED
      BY <1>4, <2>3, <2>4
  <1> QED
    BY <1>3, <1>4, Departs DEF new

\* The end of a service: the plane leaves, and the next one is served.
LEMMA DoneKeeps ==
    ASSUME PlanInvariant, NEW ev \in pending, IsNext(ev), ev.dst # DirectoryLp,
           ev.body.kind = "done", RegionStep(ev, OnServiceDone(rng, regions[ev.dst], ev))
    PROVE  PlanInvariant'
  <1> USE DEF PlanInvariant
  <1> DEFINE p    == ev.body.plane
             a    == ev.body.airport
             key  == ev.body.key
             lp   == ev.dst
             t    == ev.ts.time
             next == next_logical_key(key)
             old  == regions[lp].planes[p]
             pl   == [old EXCEPT !.inFlight = TRUE, !.key = next,
                                 !.dest = Destination(rng, a, key)]
             given == WithPlane(regions[lp].planes, p, pl)
             ap   == regions[lp].airports[a]
             left == [ap EXCEPT !.busy = FALSE, !.departures = @ + 1]
             r    == start_next_(rng, left, a, t)
             time == compute_land_time_(t, pl)
             rec  == [kind |-> "depart", plane |-> p, from |-> a, to |-> pl.dest,
                      time |-> t, land |-> time]
             sends == DepartSends(t, p, pl)
             leg  == ToSet(sends)
             new  == ToSet(r.sends)
             due  == (pending \ {ev}) \cup leg
             worlds2 == [Worlds(regions) EXCEPT ![lp] = given]
             queues2 == [Queues(regions) EXCEPT ![a] = r.airport.q]
  <1>1. /\ lp \in RegionLps /\ lp = owner[p] /\ p \in Plane /\ a \in Airport
        /\ HasPlane(regions[lp], p)
        /\ lp = lp_of_region(region_of_airport(a))
    BY FindsItsPlane
  <1>2. ev.ts \in When /\ ev.body \in DoneBody
    BY DEF PlanTypes, DueEvent, LandBody, InstallBody, UpdateBody
  <1>3. key \in LegKey /\ t \in 0..EndTime /\ t \in Int
    BY <1>2, Parameters DEF DoneBody, When
  <1>4. ev \in Of(pending, p) /\ Situated(pending, Queues(regions), Worlds(regions), owner,
                                          now.time, p)
    BY <1>1 DEF Of, AllSituated
  <1>5. /\ AtAirport(Worlds(regions), owner, p, a) /\ Unqueued(Queues(regions), p)
        /\ Of(pending, p) = {ev} /\ key.leg \in 0..now.time
    BY <1>4, DueDone
  <1>6. RegionTypes(regions) /\ regions[lp] \in RegionState(lp)
        /\ regions[lp].planes \in PlaneMaps /\ p \in DOMAIN regions[lp].planes
    BY <1>1 DEF PlanTypes, RegionTypes, RegionState, HasPlane
  <1>7. old \in PlaneState /\ old.region = region_of_airport(a) /\ old.x = airport_x(a)
    <2>1. old \in PlaneState
      BY <1>6 DEF PlaneMaps
    <2>2. Worlds(regions)[owner[p]] = regions[lp].planes
      BY <1>1 DEF Worlds
    <2> QED
      BY <2>1, <2>2, <1>5 DEF AtAirport
  <1>8. now.time <= t /\ now.time \in Int
    BY NextIsFirst
  <1>9. /\ next \in LegKey /\ next.leg \in 0..(t + 1)
        /\ key \in [plane : Plane, leg : 0..EndTime]
    <2> HIDE DEF key, t
    <2>1. key.leg \in 0..t /\ key.leg \in 0..EndTime
      BY <1>3, <1>5, <1>8, Parameters
    <2>2. next \in LegKey /\ next.leg = key.leg + 1
      BY <1>3 DEF LegKey, next_logical_key
    <2> QED
      BY <2>1, <2>2, <1>3 DEF LegKey
  <1>10. /\ pl \in PlaneState /\ pl.region = region_of_airport(a) /\ pl.x = airport_x(a)
         /\ pl.inFlight /\ pl.key = next /\ pl.dest \in Airport
    <2> DEFINE d   == Destination(rng, a, key)
               pl1 == [old EXCEPT !.inFlight = TRUE]
               pl2 == [pl1 EXCEPT !.key = next]
    <2>1. pl = [pl2 EXCEPT !.dest = d]
      BY Zenon
    <2>2. d \in Airport
      BY <1>1, <1>9, Destinations DEF PlanTypes
    <2> HIDE DEF old, key, a, pl, next, d
    <2>3. /\ pl1 \in PlaneState /\ pl1.region = region_of_airport(a)
          /\ pl1.x = airport_x(a) /\ pl1.inFlight
      BY <1>7 DEF PlaneState
    <2> HIDE DEF pl1
    <2>4. /\ pl2 \in PlaneState /\ pl2.region = region_of_airport(a)
          /\ pl2.x = airport_x(a) /\ pl2.inFlight /\ pl2.key = next
      BY <2>3, <1>9 DEF PlaneState
    <2> HIDE DEF pl2
    <2> QED
      BY <2>1, <2>2, <2>4 DEF PlaneState
  <1>11. /\ ap \in AirportState /\ Queues(regions)[a] = ap.q
         /\ Runways(regions)[a] = ap.busy
    BY <1>1, <1>6, ViewTypes
  <1>12. left \in AirportState /\ left.q = ap.q /\ ~ left.busy
    <2> DEFINE free == [ap EXCEPT !.busy = FALSE]
    <2>1. left = [free EXCEPT !.departures = @ + 1]
      BY Zenon
    <2> HIDE DEF left, ap
    <2>2. free \in AirportState /\ free.q = ap.q /\ ~ free.busy
      BY <1>11 DEF AirportState
    <2> HIDE DEF free
    <2> QED
      BY <2>1, <2>2 DEF AirportState
  <1> HIDE DEF pl, old, left
  <1>13. /\ OnServiceDone(rng, regions[lp], ev).sends = sends \o r.sends
         /\ OnServiceDone(rng, regions[lp], ev).emits
               = IF time <= EndTime THEN EmitIf(p, rec) ELSE <<>>
         /\ OnServiceDone(rng, regions[lp], ev).state
               = [planes |-> given, airports |-> [regions[lp].airports EXCEPT ![a] = r.airport]]
    <2>1. sends = IF time <= EndTime THEN <<Land(time, p, next, pl.dest)>>
                                          \o schedule_next_boundary_(t, p, pl)
                  ELSE <<>>
      BY <1>10 DEF DepartSends
    <2> DEFINE legs    == IF time <= EndTime
                          THEN <<Land(time, p, next, pl.dest)>>
                               \o schedule_next_boundary_(t, p, pl)
                          ELSE <<>>
               state   == [planes |-> given,
                           airports |-> [regions[lp].airports EXCEPT ![a] = r.airport]]
               emits   == IF time <= EndTime THEN EmitIf(p, rec) ELSE <<>>
    <2>2. OnServiceDone(rng, regions[lp], ev)
             = Result(state, legs \o r.sends, {StateEntity}, emits)
      BY Zenon DEF OnServiceDone, DepartRecord, pl, old, left
    <2> HIDE DEF sends, state, legs, emits
    <2>3. /\ OnServiceDone(rng, regions[lp], ev).sends = legs \o r.sends
          /\ OnServiceDone(rng, regions[lp], ev).emits = emits
          /\ OnServiceDone(rng, regions[lp], ev).state = state
      BY <2>2 DEF Result
    <2>4. sends = legs
      BY <2>1 DEF legs
    <2> QED
      BY <2>3, <2>4 DEF state, emits
  <1> HIDE DEF r, rec, given, sends, time
  <1> HIDE DEF leg, new, worlds2, queues2, due, lp, p, a, key, ap, t, next
  <1>14. /\ r.airport \in AirportState /\ r.sends \in Seq(DueEvent)
         /\ Begins(ap.q, r.airport.q, r.airport.busy, new, a, t)
    <2>1. Servable(left.q, t)
      BY <1>1, <1>3, <1>8, <1>11, <1>12, QueuesServable
    <2>2. rng \in Draws
      BY DEF PlanTypes
    <2>3. LET res == start_next_(rng, left, a, t)
          IN  /\ res.airport \in AirportState
              /\ res.sends \in Seq(DueEvent)
              /\ Begins(left.q, res.airport.q, res.airport.busy, ToSet(res.sends), a, t)
      BY ONLY <2>1, <2>2, <1>1, <1>3, <1>12, StartNext
    <2> QED
      BY <2>3, <1>12 DEF r, new
  <1>15. /\ sends \in Seq(DueEvent)
         /\ \/ time > EndTime /\ leg = {}
            \/ /\ time <= EndTime
               /\ \E land : /\ LandsAfter(land, t, p, pl)
                            /\ \/ /\ pl.region = region_of_airport(pl.dest)
                                  /\ leg = {land}
                               \/ \E cross : /\ CrossesAfter(cross, t, p, pl)
                                             /\ leg = {land, cross}
    BY <1>1, <1>3, <1>10, Departs DEF sends, leg, time
  <1>16. \A e \in leg : /\ e \in DueEvent /\ e.ts.time > t /\ e.body.plane = p
                        /\ \/ e.body.kind = "update"
                           \/ /\ e.body.kind = "land" /\ e.body.airport = pl.dest
                              /\ e.ts.time = time /\ time <= EndTime
    BY <1>15 DEF LandsAfter, CrossesAfter, time
  <1>17. /\ pending' = due \cup new /\ now' = ev.ts /\ rng' = rng
         /\ regions' = [regions EXCEPT ![lp] =
                           [planes |-> given, airports |-> [@.airports EXCEPT ![a] = r.airport]]]
         /\ owner' = owner /\ dirSeq' = dirSeq
         /\ out' = out \o (IF time <= EndTime THEN EmitIf(p, rec) ELSE <<>>)
    <2>1. ToSet(sends \o r.sends) = leg \cup new
      BY <1>14, <1>15, SendsAsSet DEF leg, new
    <2>2. /\ pending' = (pending \ {ev}) \cup (leg \cup new) /\ now' = ev.ts /\ rng' = rng
          /\ regions' = [regions EXCEPT ![lp] =
                           [planes |-> given, airports |-> [@.airports EXCEPT ![a] = r.airport]]]
          /\ owner' = owner /\ dirSeq' = dirSeq
          /\ out' = out \o (IF time <= EndTime THEN EmitIf(p, rec) ELSE <<>>)
      BY <1>13, <2>1 DEF RegionStep, lp
    <2> QED
      BY <2>2 DEF due
  <1>18. /\ given \in PlaneMaps /\ p \in DOMAIN given /\ given[p] = pl
    <2> DEFINE planes == regions[lp].planes
    <2>1. planes \in PlaneMaps /\ given = WithPlane(planes, p, pl)
      BY <1>6 DEF given
    <2> HIDE DEF planes
    <2>2. /\ WithPlane(planes, p, pl) \in PlaneMaps
          /\ DOMAIN WithPlane(planes, p, pl) = DOMAIN planes \cup {p}
          /\ WithPlane(planes, p, pl)[p] = pl
      <3>1. p \in Plane /\ pl \in PlaneState
        BY <1>1, <1>10
      <3> QED
        BY ONLY <3>1, <2>1, PlaneGiven
    <2> QED
      BY ONLY <2>1, <2>2
  <1>19. /\ RegionTypes(regions') /\ Worlds(regions') = worlds2
         /\ Queues(regions') = queues2
         /\ Runways(regions') = [Runways(regions) EXCEPT ![a] = r.airport.busy]
    <2> DEFINE here == lp_of_region(region_of_airport(a))
               rs2  == WithAirport(regions, a, given, r.airport)
    <2>1. here = lp
      BY <1>1
    <2>2. /\ RegionTypes(rs2)
          /\ Queues(rs2) = [Queues(regions) EXCEPT ![a] = r.airport.q]
          /\ Runways(rs2) = [Runways(regions) EXCEPT ![a] = r.airport.busy]
          /\ Worlds(rs2) = [Worlds(regions) EXCEPT ![here] = given]
      <3>1. RegionTypes(regions) /\ given \in PlaneMaps /\ r.airport \in AirportState
            /\ a \in Airport
        BY <1>1, <1>6, <1>14, <1>18
      <3> QED
        BY ONLY <3>1, RegionChanged
    <2>3. regions' = rs2
      BY <1>17, <2>1 DEF WithAirport
    <2> HIDE DEF rs2, here
    <2> QED
      BY <2>1, <2>2, <2>3 DEF worlds2, queues2
  <1>20. \A e \in new : /\ e \in DueEvent /\ e.ts.time >= t /\ e.body.kind = "done"
    BY <1>14 DEF Begins
  <1>21. now'.time = t /\ NothingPast'
    <2>1. Takes(ev, leg \cup new)
      BY <1>17 DEF Takes, due
    <2>2. \A e \in leg \cup new : ev.ts.time <= e.ts.time
      <3>1. \A e \in leg \cup new : e.ts.time \in Int
        BY <1>16, <1>20 DEF DueEvent, When
      <3> QED
        BY <3>1, <1>3, <1>16, <1>20 DEF t
    <2> QED
      BY <2>1, <2>2, NextIsFirst, NothingPastAfter DEF t
  <1>22. /\ out' \in Seq(LandRecord \cup DepartedRecord) /\ RecordsAgree'
         /\ Emitted(p) /\ time <= EndTime => Mine(out', p) # {} /\ LastOf(out', p) = rec
         /\ \A q : q # p \/ ~ Emitted(p) \/ time > EndTime =>
               /\ Mine(out', q) = Mine(out, q)
               /\ Mine(out, q) # {} => LastOf(out', q) = LastOf(out, q)
    <2>1. CASE time <= EndTime
      <3>1. out' = out \o EmitIf(p, rec)
        BY <2>1, <1>17
      <3>2. rec \in DepartedRecord /\ rec.plane = p
        <4>1. time \in Nat
          <5>1. InTheAir(pl) /\ t \in Nat
            BY <1>3, <1>10, Parameters DEF InTheAir, PlaneState
          <5> QED
            BY <5>1, LandTime DEF time
        <4> QED
          BY <4>1, <1>1, <1>3, <1>10, Parameters DEF rec, DepartedRecord
      <3>3. Emitted(p) => Follows(out, rec)
        <4> SUFFICES ASSUME Emitted(p)
                     PROVE  Follows(out, rec)
          OBVIOUS
        <4>1. Told(pending, Queues(regions), out, p)
          BY <1>1 DEF AllTold
        <4>2. LandedAt(out, p, a)
          BY <4>1, <1>4 DEF Told, a
        <4> QED
          BY <4>2 DEF Follows, rec
      <3>4. out \in Seq(LandRecord \cup DepartedRecord)
        BY DEF PlanTypes
      <3>5. rec \in LandRecord \cup DepartedRecord
        BY <3>2
      <3>6. /\ out' \in Seq(LandRecord \cup DepartedRecord) /\ RecordsAgree'
            /\ Emitted(p) => Mine(out', p) # {} /\ LastOf(out', p) = rec
            /\ \A q : q # p \/ ~ Emitted(p) =>
                  /\ Mine(out', q) = Mine(out, q)
                  /\ Mine(out, q) # {} => LastOf(out', q) = LastOf(out, q)
        BY ONLY <3>1, <3>2, <3>3, <3>4, <3>5, <1>1, OneEmit, PlanInvariant DEF PlanInvariant
      <3>7. ~ (time > EndTime)
        <4>1. time \in Int
          BY <1>3, <1>10, <2>1, LandTime, Parameters DEF InTheAir, PlaneState, time
        <4> QED
          BY <4>1, <2>1, Parameters
      <3> QED
        BY <3>6, <3>7
    <2>2. CASE ~ (time <= EndTime)
      <3> DEFINE Record == LandRecord \cup DepartedRecord
      <3>1. out' = out \o <<>> /\ out \in Seq(Record)
        BY <2>2, <1>17 DEF PlanTypes
      <3> HIDE DEF Record
      <3>2. out' = out
        BY <3>1
      <3>3. RecordsAgree'
        BY <3>2 DEF RecordsAgree
      <3> QED
        BY <3>1, <3>2, <3>3, <2>2 DEF Record
    <2> QED
      BY <2>1, <2>2
  <1>23. PlanTypes'
    <2>1. pending' \in SUBSET DueEvent
      BY <1>16, <1>17, <1>20 DEF PlanTypes, due
    <2> QED
      BY <2>1, <1>3, <1>17, <1>19, <1>21, <1>22 DEF PlanTypes
  <1>24. /\ Of(due, p) = leg
         /\ \A q \in Plane \ {p} : Of(due, q) = Of(pending, q)
    <2>1. Of(due, p) = leg
      BY <1>5, <1>16 DEF Of, due
    <2>2. \A q \in Plane \ {p} : Of(due, q) = Of(pending, q)
      BY <1>16 DEF Of, due, p
    <2> QED
      BY <2>1, <2>2
  <1>25. \A q \in Plane : Situated(due, Queues(regions), worlds2, owner, t, q)
    <2>1. \A q \in Plane \ {p} : Situated(due, Queues(regions), worlds2, owner, t, q)
      BY <1>1, <1>3, <1>8, <1>10, <1>24, OthersStay DEF worlds2, given
    <2>2. worlds2[lp] = given
      BY <1>1, <1>6, ViewTypes DEF worlds2
    <2>3. p \in DOMAIN worlds2[owner[p]] /\ worlds2[owner[p]][p] = pl
      BY <2>2, <1>1, <1>18
    <2>4. Of(due, p) = ToSet(DepartSends(t, p, pl)) /\ pl.key.leg \in 0..(t + 1)
      BY <1>9, <1>10, <1>24 DEF leg, sends
    <2>5. owner[p] = lp_of_region(region_of_airport(a))
      BY <1>1
    <2>6. Situated(due, Queues(regions), worlds2, owner, t, p)
      BY <2>3, <2>4, <2>5, <1>1, <1>3, <1>5, <1>10, DepartSituates
    <2> QED
      BY <2>1, <2>6
  <1>26. InOrder(pending', [Runways(regions) EXCEPT ![a] = r.airport.busy])
    <2>1. \A e \in leg : e.body.kind # "done"
      BY <1>16
    <2>2. ev \in Serving(pending, a)
      BY DEF Serving, a
    <2>3. Serving(due, a) = {}
      <3>1. Exclusive(pending, Runways(regions)[a], a)
        BY <1>1 DEF AllExclusive
      <3>2. Serving(pending, a) = {ev}
        BY <3>1, <2>2 DEF Exclusive
      <3> QED
        BY <3>2, <2>1 DEF Serving, due
    <2>4. ASSUME NEW b \in Airport \ {a}
          PROVE  Exclusive(due, Runways(regions)[b], b)
      <3>1. Exclusive(pending, Runways(regions)[b], b)
        BY DEF AllExclusive
      <3>2. Serving(due, b) = Serving(pending, b)
        BY <2>1 DEF Serving, due, a
      <3>3. \A e : Serving(due, b) = {e} => e \in due
        BY DEF Serving
      <3> QED
        BY <3>1, <3>2, <3>3 DEF Exclusive
    <2>5. Free(due, Runways(regions), a)
      BY <2>3, <2>4 DEF Free
    <2> DEFINE busys == Runways(regions)
    <2>6. busys \in [Airport -> BOOLEAN]
      BY <1>6, ViewTypes
    <2> HIDE DEF busys
    <2>7. Free(due, busys, a) /\ Begins(ap.q, r.airport.q, r.airport.busy, new, a, t)
      BY <2>5, <1>14 DEF busys
    <2>8. InOrder(due \cup new, [busys EXCEPT ![a] = r.airport.busy])
      BY ONLY <2>6, <2>7, <1>1, ServeExclusive
    <2> QED
      BY <2>8, <1>17 DEF busys
  <1>27. AllExclusive'
    BY <1>17, <1>19, <1>26 DEF AllExclusive, InOrder
  <1> DEFINE queues == Queues(regions)
  <1>28. /\ queues \in [Airport -> Seq(Token)]
         /\ Begins(queues[a], r.airport.q, r.airport.busy, new, a, t)
         /\ queues2 = [queues EXCEPT ![a] = r.airport.q]
    BY <1>6, <1>11, <1>14, ViewTypes DEF queues2
  <1> HIDE DEF queues
  <1>29. AllSituated'
    <2> SUFFICES ASSUME NEW q \in Plane
                 PROVE  Situated(due \cup new, queues2, worlds2, owner, t, q)
      BY <1>17, <1>19, <1>21 DEF AllSituated
    <2>1. Situated(due, queues, worlds2, owner, t, q)
      BY <1>25 DEF queues
    <2> QED
      BY ONLY <2>1, <1>1, <1>3, <1>28, ServeKeeps
  <1>30. AllTold'
    <2> SUFFICES ASSUME NEW q \in Plane
                 PROVE  IF Emitted(q) THEN Told(due \cup new, queues2, out', q)
                                      ELSE Mine(out', q) = {}
      BY <1>17, <1>19 DEF AllTold
    <2>1. CASE ~ Emitted(q)
      BY <2>1, <1>22 DEF AllTold
    <2>2. CASE Emitted(q)
      <3>1. Told(pending, queues, out, q)
        BY <2>2 DEF AllTold, queues
      <3>2. Told(due, queues, out', q)
        <4>1. CASE q # p
          <5>1. Told(pending, queues, out', q)
            BY <3>1, <4>1, <1>22, ToldLater
          <5> QED
            BY <5>1, <4>1, <1>24 DEF Told
        <4>2. CASE q = p
          <5>1. \A e \in leg : /\ e.body.kind = "land" => LeftFor(out', p, e)
                               /\ e.body.kind # "done"
            BY <4>2, <2>2, <1>16, <1>22 DEF LeftFor, rec
          <5> QED
            BY <5>1, <4>2, <1>5, <1>24 DEF Told, Unqueued, queues
        <4> QED
          BY <4>1, <4>2
      <3>3. Told(due \cup new, [queues EXCEPT ![a] = r.airport.q], out', q)
        BY ONLY <3>2, <1>1, <1>3, <1>28, ServeTold
      <3> QED
        BY <3>3, <2>2, <1>28
    <2> QED
      BY <2>1, <2>2
  <1> QED
    BY <1>21, <1>22, <1>23, <1>27, <1>29, <1>30

\* Any event that a region executes.
LEMMA RegionEventKeeps ==
    ASSUME PlanInvariant, RegionEvent
    PROVE  PlanInvariant'
  <1>1. PICK ev \in pending :
           /\ IsNext(ev) /\ ev.dst # DirectoryLp
           /\ RegionStep(ev, Handled(ev))
    BY DEF RegionEvent, RegionStep, Takes
  <1>2. ev.body.kind \in {"land", "done", "install"}
    BY <1>1 DEF PlanInvariant, PlanTypes, DueEvent, LandBody, DoneBody, InstallBody
  <1>3. CASE ev.body.kind = "install"
    <2>1. Handled(ev) = OnInstall(regions[ev.dst], ev)
      BY <1>3 DEF Handled, region_on_event
    <2> QED
      BY <1>1, <1>3, <2>1, InstallKeeps
  <1>4. ev.body.kind # "install" =>
           Handled(ev) = IF ev.body.kind = "land" THEN OnLand(rng, regions[ev.dst], ev)
                         ELSE OnServiceDone(rng, regions[ev.dst], ev)
    BY <1>1, <1>2, FindsItsPlane DEF PlanInvariant, Handled, region_on_event
  <1>5. CASE ev.body.kind = "land"
    BY <1>1, <1>4, <1>5, LandKeeps
  <1>6. CASE ev.body.kind = "done"
    BY <1>1, <1>4, <1>6, DoneKeeps
  <1> QED
    BY <1>2, <1>3, <1>5, <1>6

LEMMA NextKeeps ==
    ASSUME PlanInvariant, [Next]_vars
    PROVE  PlanInvariant'
  <1>1. CASE UpdateOwner
    BY <1>1, UpdateKeeps
  <1>2. CASE Forward
    BY <1>2, ForwardKeeps
  <1>3. CASE RegionEvent
    BY <1>3, RegionEventKeeps
  <1>4. CASE UNCHANGED vars
    BY <1>4 DEF vars, PlanInvariant, PlanTypes, NothingPast, AllSituated, AllExclusive,
                AllTold, RecordsAgree
  <1> QED
    BY <1>1, <1>2, <1>3, <1>4 DEF Next, Done

-----------------------------------------------------------------------------
(***************************************************************************)
(* The start: plane by plane, in the order of ids.                         *)
(***************************************************************************)
\* What the next plane adds to what a region has sent and become.
StartStep(done, p, lp) ==
    LET s == done.state
        a == HomeAirport(p)
        r == enqueue_arrival_(rng, s.airports[a], a, p, StartPlane(p).key, 0)
    IN  IF HomeRegion(p) # region_index_of_lp(lp) THEN done
        ELSE [state |-> [planes |-> WithPlane(s.planes, p, StartPlane(p)),
                         airports |-> [s.airports EXCEPT ![a] = r.airport]],
              sends |-> done.sends \o r.sends]

IsStart(f, n, lp) ==
    f = [k \in 0..n |-> IF k = 0 THEN [state |-> EmptyRegion(lp), sends |-> <<>>]
                        ELSE StartStep(f[k - 1], k - 1, lp)]

LEMMA StartExists ==
    ASSUME NEW lp, NEW n \in Nat
    PROVE  \E f : IsStart(f, n, lp)
  <1> DEFINE T == {m \in Nat : \E f : IsStart(f, m, lp)}
             none == [state |-> EmptyRegion(lp), sends |-> <<>>]
  <1>1. 0 \in T
    <2> DEFINE f == [k \in 0..0 |-> none]
    <2> HIDE DEF none
    <2>1. f = [k \in 0..0 |-> IF k = 0 THEN none ELSE StartStep(f[k - 1], k - 1, lp)]
      OBVIOUS
    <2> HIDE DEF f
    <2>2. IsStart(f, 0, lp)
      BY <2>1 DEF IsStart, none
    <2> QED
      BY <2>2
  <1>2. ASSUME NEW m \in T
        PROVE  m + 1 \in T
    <2>1. PICK f : IsStart(f, m, lp)
      OBVIOUS
    <2> DEFINE last == StartStep(f[m], m, lp)
               g == [k \in 0..(m + 1) |-> IF k <= m THEN f[k] ELSE last]
    <2>2. m \in Nat
      OBVIOUS
    <2> HIDE DEF last, none
    <2>3. f = [k \in 0..m |-> IF k = 0 THEN none ELSE StartStep(f[k - 1], k - 1, lp)]
      BY <2>1 DEF IsStart, none
    <2>4. g = [k \in 0..(m + 1) |-> IF k = 0 THEN none ELSE StartStep(g[k - 1], k - 1, lp)]
      <3> SUFFICES ASSUME NEW k \in 0..(m + 1)
                   PROVE  g[k] = IF k = 0 THEN none ELSE StartStep(g[k - 1], k - 1, lp)
        BY Zenon
      <3>1. CASE k <= m
        <4>1. g[k] = f[k] /\ (k # 0 => g[k - 1] = f[k - 1])
          BY <3>1, <2>2
        <4>2. k \in 0..m
          BY <3>1, <2>2
        <4>3. f[k] = IF k = 0 THEN none ELSE StartStep(f[k - 1], k - 1, lp)
          BY <2>3, <4>2
        <4> HIDE DEF g
        <4> QED
          BY <4>1, <4>3
      <3>2. CASE k = m + 1
        <4>1. g[k] = last /\ k # 0 /\ k - 1 = m /\ g[m] = f[m]
          BY <3>2, <2>2
        <4> HIDE DEF g
        <4> QED
          BY <4>1 DEF last
      <3> QED
        BY <3>1, <3>2, <2>2
    <2> HIDE DEF g
    <2>5. IsStart(g, m + 1, lp)
      BY <2>4 DEF IsStart, none
    <2> QED
      BY <2>2, <2>5
  <1>3. T \in SUBSET Nat
    OBVIOUS
  <1> HIDE DEF T
  <1>4. T = Nat
    BY <1>1, <1>2, <1>3, Counting
  <1> QED
    BY <1>4 DEF T

LEMMA OnStartIs ==
    ASSUME NEW lp
    PROVE  \E f : IsStart(f, NumPlanes, lp) /\ on_start(rng, lp) = f[NumPlanes]
  <1> DEFINE f == CHOOSE f : IsStart(f, NumPlanes, lp)
  <1>1. IsStart(f, NumPlanes, lp)
    <2>1. NumPlanes \in Nat
      BY Parameters
    <2> QED
      BY <2>1, StartExists
  <1>2. on_start(rng, lp) = f[NumPlanes]
    BY DEF on_start, IsStart, StartStep
  <1> HIDE DEF f
  <1> QED
    BY <1>1, <1>2

\* When the first n planes have arrived: they wait or are served at home, and the
\* others are nowhere.
StartedAs(rs, due, n) ==
    /\ RegionTypes(rs) /\ due \in SUBSET DueEvent
    /\ \A ev \in due : ev.body.kind = "done"
    /\ InOrder(due, Runways(rs))
    /\ \A p \in Plane : p < n => Situated(due, Queues(rs), Worlds(rs), owner, 0, p)
    /\ \A p \in Plane : n <= p => Of(due, p) = {} /\ Unqueued(Queues(rs), p)

LEMMA PlaneArrives ==
    ASSUME rng \in Draws, owner = [p \in Plane |-> lp_of_region(p % Regions)],
           NEW n \in Plane, NEW rs, NEW due, StartedAs(rs, due, n)
    PROVE  LET a  == HomeAirport(n)
               lp == lp_of_region(HomeRegion(n))
               r  == enqueue_arrival_(rng, rs[lp].airports[a], a, n, StartPlane(n).key, 0)
           IN  /\ r.sends \in Seq(DueEvent)
               /\ StartedAs(WithAirport(rs, a, WithPlane(rs[lp].planes, n, StartPlane(n)),
                                        r.airport),
                            due \cup ToSet(r.sends), n + 1)
  <1> DEFINE a    == HomeAirport(n)
             lp   == lp_of_region(HomeRegion(n))
             pl   == StartPlane(n)
             key  == pl.key
             ap   == rs[lp].airports[a]
             tok  == [plane |-> n, key |-> key]
             r    == enqueue_arrival_(rng, ap, a, n, key, 0)
             new  == ToSet(r.sends)
             given == WithPlane(rs[lp].planes, n, pl)
             rs2  == WithAirport(rs, a, given, r.airport)
             worlds2 == [Worlds(rs) EXCEPT ![lp] = given]
             queues  == Queues(rs)
             queues2 == [queues EXCEPT ![a] = r.airport.q]
             busys   == Runways(rs)
             worlds  == Worlds(rs)
  <1>1. /\ a \in Airport /\ lp \in RegionLps /\ lp = lp_of_region(region_of_airport(a))
        /\ owner[n] = lp /\ region_of_airport(a) \in 0..(Regions - 1)
        /\ airport_x(a) \in Int /\ HomeRegion(n) = region_of_airport(a)
    BY Homes, Airports DEF HomeRegion
  <1>2. /\ pl \in PlaneState /\ pl.region = region_of_airport(a) /\ pl.x = airport_x(a)
        /\ key \in LegKey /\ key.leg = 0
    <2>1. pl = [region |-> HomeRegion(n), x |-> airport_x(a), dest |-> a,
                inFlight |-> FALSE, key |-> [plane |-> n, leg |-> 0]]
      BY DEF StartPlane
    <2>2. [plane |-> n, leg |-> 0] \in LegKey
      BY DEF LegKey
    <2> HIDE DEF pl, a
    <2> QED
      BY <2>1, <2>2, <1>1 DEF PlaneState
  <1> HIDE DEF r, rs2, worlds2, queues2, queues, busys, worlds, new, given, key, pl, ap,
             tok, lp, a
  <1>3. /\ RegionTypes(rs) /\ due \in SUBSET DueEvent /\ InOrder(due, busys)
        /\ \A ev \in due : ev.body.kind = "done"
    BY Zenon DEF StartedAs, busys
  <1>4. \A p \in Plane : p < n => Situated(due, queues, worlds, owner, 0, p)
    BY Zenon DEF StartedAs, queues, worlds
  <1>5. \A p \in Plane : n <= p => Of(due, p) = {} /\ Unqueued(queues, p)
    BY Zenon DEF StartedAs, queues
  <1>6. \A p \in Plane : p \in Int /\ (p < n \/ p = n \/ p > n)
    BY Parameters DEF Plane
  <1>7. /\ queues \in [Airport -> Seq(Token)] /\ busys \in [Airport -> BOOLEAN]
        /\ ap \in AirportState /\ queues[a] = ap.q /\ busys[a] = ap.busy
    <2>1. /\ Queues(rs) \in [Airport -> Seq(Token)] /\ Runways(rs) \in [Airport -> BOOLEAN]
          /\ LET k == lp_of_region(region_of_airport(a))
             IN  /\ rs[k].airports[a] \in AirportState
                 /\ Queues(rs)[a] = rs[k].airports[a].q
                 /\ Runways(rs)[a] = rs[k].airports[a].busy
      BY ONLY <1>1, <1>3, ViewTypes
    <2> QED
      BY <2>1, <1>1 DEF queues, busys, ap
  <1>8. Of(due, n) = {} /\ Unqueued(queues, n)
    <2>1. n <= n
      BY <1>6
    <2> QED
      BY <2>1, <1>5
  <1>9. tok \in Token /\ tok.plane = n /\ tok.key.leg \in 0..0
    BY <1>2 DEF Token, tok
  <1>10. /\ r.airport \in AirportState /\ r.sends \in Seq(DueEvent)
        /\ IF ap.busy
           THEN r.airport.q = Append(ap.q, tok) /\ r.airport.busy /\ new = {}
           ELSE Begins(Append(ap.q, tok), r.airport.q, r.airport.busy, new, a, 0)
    <2>1. Servable(ap.q, 0)
      <3>1. \A p \in Plane : \/ Situated(due, Queues(rs), Worlds(rs), owner, 0, p)
                             \/ Unqueued(Queues(rs), p)
        <4>1. \A p \in Plane : Situated(due, queues, worlds, owner, 0, p)
                              \/ Unqueued(queues, p)
          <5> SUFFICES ASSUME NEW p \in Plane
                       PROVE  Situated(due, queues, worlds, owner, 0, p)
                              \/ Unqueued(queues, p)
            BY Zenon
          <5>1. p < n \/ n <= p
            BY <1>6
          <5> QED
            BY <5>1, <1>4, <1>5, Zenon
        <4> QED
          BY ONLY <4>1 DEF queues, worlds
      <3>2. Servable(Queues(rs)[a], 0)
        BY ONLY <3>1, <1>1, <1>3, TokensServable
      <3> QED
        BY <3>2, <1>7 DEF queues
    <2>2. 0 \in 0..EndTime /\ key.leg \in 0..0 /\ rng \in Draws /\ n \in Plane
          /\ ap \in AirportState /\ a \in Airport /\ key \in LegKey
      BY <1>1, <1>2, <1>7, Parameters
    <2>3. LET res == enqueue_arrival_(rng, ap, a, n, key, 0)
              q   == Append(ap.q, [plane |-> n, key |-> key])
          IN  /\ res.airport \in AirportState
              /\ res.sends \in Seq(DueEvent)
              /\ IF ap.busy
                 THEN res.airport.q = q /\ res.airport.busy /\ ToSet(res.sends) = {}
                 ELSE Begins(q, res.airport.q, res.airport.busy, ToSet(res.sends), a, 0)
      BY ONLY <2>1, <2>2, EnqueueArrival
    <2> QED
      BY <2>3 DEF r, new, tok
  <1>11. /\ given \in PlaneMaps /\ worlds2[lp] = given
        /\ n \in DOMAIN worlds2[lp] /\ worlds2[lp][n] = pl
        /\ \A q, k : q # n /\ k \in RegionLps /\ q \in DOMAIN Worlds(rs)[k] =>
              /\ q \in DOMAIN worlds2[k]
              /\ worlds2[k][q] = Worlds(rs)[k][q]
    BY <1>1, <1>2, <1>3, OtherPlanes DEF worlds2, given
  <1>12. /\ RegionTypes(rs2) /\ Worlds(rs2) = worlds2 /\ Queues(rs2) = queues2
        /\ Runways(rs2) = [busys EXCEPT ![a] = r.airport.busy]
    <2>1. RegionTypes(rs) /\ given \in PlaneMaps /\ r.airport \in AirportState
          /\ a \in Airport
      BY <1>1, <1>3, <1>10, <1>11
    <2>2. /\ RegionTypes(rs2)
          /\ Queues(rs2) = [Queues(rs) EXCEPT ![a] = r.airport.q]
          /\ Runways(rs2) = [Runways(rs) EXCEPT ![a] = r.airport.busy]
          /\ Worlds(rs2) = [Worlds(rs) EXCEPT ![lp_of_region(region_of_airport(a))] = given]
      BY ONLY <2>1, RegionChanged DEF rs2
    <2> QED
      BY <2>2, <1>1 DEF worlds2, queues2, queues, busys
  <1>13. AtAirport(worlds2, owner, n, a)
    BY <1>1, <1>2, <1>11 DEF AtAirport
  <1>14. /\ InOrder(due \cup new, [busys EXCEPT ![a] = r.airport.busy])
         /\ \A q : q = n \/ Situated(due, queues, worlds2, owner, 0, q) =>
               Situated(due \cup new, queues2, worlds2, owner, 0, q)
    <2>1. r.airport.busy \in BOOLEAN
      BY <1>10 DEF AirportState
    <2>2. IF busys[a]
          THEN r.airport.q = Append(queues[a], tok) /\ r.airport.busy = TRUE /\ new = {}
          ELSE Begins(Append(queues[a], tok), r.airport.q, r.airport.busy, new, a, 0)
      BY <1>7, <1>10, <2>1
    <2>3. tok.plane = n /\ AtAirport(worlds2, owner, tok.plane, a)
          /\ Of(due, tok.plane) = {} /\ Unqueued(queues, tok.plane) /\ 0 \in Int
      BY <1>8, <1>9, <1>13
    <2> QED
      BY ONLY <1>1, <1>3, <1>7, <1>9, <2>2, <2>3, Arrives DEF queues2
  <1>15. ASSUME NEW q \in Plane, q < n
         PROVE  Situated(due, queues, worlds2, owner, 0, q)
    <2>1. Situated(due, queues, Worlds(rs), owner, 0, q)
      BY <1>4, <1>15, Zenon DEF worlds
    <2>2. q # n /\ owner[q] \in RegionLps
      <3>1. q # n
        BY <1>15, <1>6
      <3>2. owner[q] = lp_of_region(HomeRegion(q))
        BY DEF HomeRegion
      <3> QED
        BY <3>1, <3>2, Homes
    <2>3. q \in DOMAIN Worlds(rs)[owner[q]] =>
             /\ q \in DOMAIN worlds2[owner[q]]
             /\ worlds2[owner[q]][q] = Worlds(rs)[owner[q]][q]
      BY <2>2, <1>11
    <2>4. \A b \in Airport : \A i \in Spots(q, queues[b]) : i \in 1..Len(queues[b])
      BY DEF Spots
    <2>5. 0 \in Int /\ 0 >= 0
      OBVIOUS
    <2> QED
      BY <2>1, <2>3, <2>4, <2>5, SituationFrame
  <1>16. ASSUME NEW q \in Plane, q > n
         PROVE  Of(due \cup new, q) = {} /\ Unqueued(queues2, q)
    <2>1. Of(due, q) = {} /\ Unqueued(queues, q) /\ q # n
      <3>1. n <= q /\ q # n
        BY <1>16, <1>6
      <3> QED
        BY <3>1, <1>5
    <2> DEFINE more == Append(queues[a], tok)
    <2>2. more \in Seq(Token) /\ more # <<>> /\ Spots(q, more) = {}
          /\ more[1].plane # q
      <3> DEFINE old == queues[a]
      <3>1. old \in Seq(Token) /\ Spots(q, old) = {}
        BY <1>1, <1>7, <2>1 DEF Unqueued
      <3> HIDE DEF old
      <3>2. Append(old, tok) \in Seq(Token) /\ Len(Append(old, tok)) = Len(old) + 1
            /\ Len(old) \in Nat
        BY <3>1, <1>9
      <3>3. Spots(q, Append(old, tok)) = {}
        BY <3>1, <2>1, <1>9, SpotsAppended
      <3> DEFINE m == Append(old, tok)
      <3>4. m \in Seq(Token) /\ Len(m) # 0 /\ 1 \in 1..Len(m) /\ Spots(q, m) = {}
        BY <3>2, <3>3
      <3>5. Len(<<>>) = 0
        OBVIOUS
      <3> HIDE DEF m
      <3>6. m # <<>> /\ m[1].plane # q
        BY <3>4, <3>5 DEF Spots
      <3> QED
        BY <3>4, <3>6 DEF m, old
    <2>3. ap.q = queues[a]
      BY <1>7
    <2> HIDE DEF more
    <2>4. /\ r.airport.q = more \/ r.airport.q = Tail(more)
          /\ \A e \in new : e.body.plane = more[1].plane
      BY <1>10, <2>2, <2>3 DEF Begins, more
    <2>5. Spots(q, r.airport.q) = {}
      <3>1. \A i : i \in Spots(q, Tail(more)) => i + 1 \in Spots(q, more)
        BY <2>2, SpotsAfterHead
      <3> QED
        BY <3>1, <2>2, <2>4
    <2>6. Unqueued(queues2, q)
      BY <2>1, <2>5, <1>1, <1>7 DEF Unqueued, queues2
    <2>7. Of(due \cup new, q) = {}
      BY <2>1, <2>2, <2>4 DEF Of
    <2> QED
      BY <2>6, <2>7
  <1>17. \A e \in new : e \in DueEvent /\ e.body.kind = "done"
    BY <1>10 DEF Begins
  <1>18. ASSUME NEW q \in Plane
         PROVE  /\ q < n + 1 => Situated(due \cup new, queues2, worlds2, owner, 0, q)
                /\ n + 1 <= q => Of(due \cup new, q) = {} /\ Unqueued(queues2, q)
    <2>1. CASE q < n \/ q = n
      <3>1. Situated(due \cup new, queues2, worlds2, owner, 0, q)
        BY <2>1, <1>14, <1>15, Zenon
      <3>2. ~ (n + 1 <= q)
        BY <2>1, <1>6
      <3> QED
        BY <3>1, <3>2
    <2>2. CASE q > n
      <3>1. ~ (q < n + 1)
        BY <2>2, <1>6
      <3> QED
        BY <3>1, <2>2, <1>16
    <2> QED
      BY <2>1, <2>2, <1>6
  <1>19. StartedAs(rs2, due \cup new, n + 1)
    <2>1. RegionTypes(rs2) /\ InOrder(due \cup new, Runways(rs2))
      BY <1>12, <1>14, Zenon
    <2>2. due \cup new \in SUBSET DueEvent /\ \A ev \in due \cup new : ev.body.kind = "done"
      BY <1>3, <1>17
    <2> QED
      BY ONLY <2>1, <2>2, <1>12, <1>18 DEF StartedAs
  <1> QED
    BY <1>10, <1>19 DEF r, rs2, new, given, key, pl, ap, lp, a

\* The starts of all regions, and what they come to after n planes.
AreStarts(F) == \A lp \in RegionLps : IsStart(F[lp], NumPlanes, lp)
RegionsAt(F, n) == [lp \in RegionLps |-> F[lp][n].state]
DueAt(F, n) == UNION {ToSet(F[lp][n].sends) : lp \in RegionLps}

LEMMA StartsExist ==
    \E F : /\ AreStarts(F)
          /\ \A lp \in RegionLps : on_start(rng, lp) = F[lp][NumPlanes]
  <1> DEFINE P(f, lp) == IsStart(f, NumPlanes, lp) /\ on_start(rng, lp) = f[NumPlanes]
             F == [lp \in RegionLps |-> CHOOSE f : P(f, lp)]
  <1>1. ASSUME NEW lp \in RegionLps
        PROVE  P(F[lp], lp)
    <2>1. \E f : P(f, lp)
      BY OnStartIs
    <2> HIDE DEF P
    <2>2. F[lp] = CHOOSE f : P(f, lp)
      BY Zenon
    <2> HIDE DEF F
    <2> QED
      BY <2>1, <2>2, Zenon
  <1> HIDE DEF F
  <1> QED
    BY <1>1, Zenon DEF AreStarts

\* Nothing is there before the first plane.
LEMMA StartsEmpty ==
    ASSUME NEW F, AreStarts(F)
    PROVE  /\ \A lp \in RegionLps : F[lp][0].sends \in Seq(DueEvent)
           /\ StartedAs(RegionsAt(F, 0), DueAt(F, 0), 0)
  <1> DEFINE rs  == RegionsAt(F, 0)
             due == DueAt(F, 0)
  <1>1. ASSUME NEW lp \in RegionLps
        PROVE  F[lp][0] = [state |-> EmptyRegion(lp), sends |-> <<>>]
    <2> DEFINE none == [state |-> EmptyRegion(lp), sends |-> <<>>]
    <2> HIDE DEF none
    <2>1. F[lp] = [k \in 0..NumPlanes |->
                     IF k = 0 THEN none ELSE StartStep(F[lp][k - 1], k - 1, lp)]
      BY Zenon DEF AreStarts, IsStart, none
    <2>2. 0 \in 0..NumPlanes
      BY Parameters
    <2>3. F[lp][0] = none
      BY <2>1, <2>2
    <2> QED
      BY <2>3 DEF none
  <1>2. \A lp \in RegionLps : F[lp][0].sends = <<>> /\ F[lp][0].state = EmptyRegion(lp)
    <2> SUFFICES ASSUME NEW lp \in RegionLps
                 PROVE  F[lp][0].sends = <<>> /\ F[lp][0].state = EmptyRegion(lp)
      BY Zenon
    <2> DEFINE first == F[lp][0]
               empty == EmptyRegion(lp)
    <2>1. first = [state |-> empty, sends |-> <<>>]
      BY ONLY <1>1, lp \in RegionLps, Zenon
    <2> HIDE DEF first, empty
    <2>2. first.sends = <<>> /\ first.state = empty
      BY ONLY <2>1
    <2> QED
      BY <2>2, Zenon DEF first, empty
  <1>3. due = {}
    BY <1>2, SendsAsSet DEF DueAt
  <1>4. rs = [lp \in RegionLps |-> EmptyRegion(lp)]
    BY <1>2 DEF RegionsAt
  <1> HIDE DEF rs, due
  <1>5. ASSUME NEW lp \in RegionLps
        PROVE  /\ EmptyRegion(lp) \in RegionState(lp)
               /\ EmptyRegion(lp).airports = [a \in AirportsOf(lp) |-> NewAirport]
    <2>1. NewAirport \in AirportState
      BY DEF NewAirport, AirportState
    <2>2. <<>> \in PlaneMaps
      <3>1. <<>> \in [{} -> PlaneState]
        OBVIOUS
      <3>2. {} \in SUBSET Plane
        OBVIOUS
      <3> QED
        BY <3>1, <3>2, Zenon DEF PlaneMaps
    <2>3. EmptyRegion(lp) = [planes |-> <<>>,
                             airports |-> [a \in AirportsOf(lp) |-> NewAirport]]
      BY Zenon DEF EmptyRegion, AirportsOf
    <2>4. [a \in AirportsOf(lp) |-> NewAirport] \in [AirportsOf(lp) -> AirportState]
      BY <2>1
    <2> DEFINE none == [a \in AirportsOf(lp) |-> NewAirport]
    <2> HIDE DEF none
    <2> QED
      BY <2>2, <2>3, <2>4 DEF RegionState, none
  <1>6. RegionTypes(rs)
    BY <1>4, <1>5 DEF RegionTypes
  <1>7. ASSUME NEW a \in Airport
        PROVE  Queues(rs)[a] = <<>> /\ Runways(rs)[a] = FALSE
    <2> DEFINE lp == lp_of_region(region_of_airport(a))
    <2>1. lp \in RegionLps /\ a \in AirportsOf(lp)
          /\ Queues(rs)[a] = rs[lp].airports[a].q
          /\ Runways(rs)[a] = rs[lp].airports[a].busy
      BY ONLY <1>6, ViewTypes, a \in Airport
    <2> HIDE DEF lp
    <2>2. rs[lp].airports[a] = NewAirport
      BY <2>1, <1>4, <1>5
    <2> QED
      BY <2>1, <2>2 DEF NewAirport
  <1>8. InOrder(due, Runways(rs))
    BY <1>3, <1>7 DEF InOrder, Exclusive, Serving
  <1>9. ASSUME NEW p \in Plane
        PROVE  Of(due, p) = {} /\ Unqueued(Queues(rs), p) /\ ~ (p < 0)
    <2>1. \A q : q = <<>> => Spots(p, q) = {}
      BY DEF Spots
    <2>2. Unqueued(Queues(rs), p)
      BY <1>7, <2>1, Zenon DEF Unqueued
    <2>3. ~ (p < 0)
      BY Parameters DEF Plane
    <2> QED
      BY <2>2, <2>3, <1>3 DEF Of
  <1>10. StartedAs(rs, due, 0)
    <2>1. due \in SUBSET DueEvent /\ \A ev \in due : ev.body.kind = "done"
      BY <1>3
    <2>2. \A p \in Plane : p < 0 => Situated(due, Queues(rs), Worlds(rs), owner, 0, p)
      BY ONLY <1>9
    <2>3. \A p \in Plane : 0 <= p => Of(due, p) = {} /\ Unqueued(Queues(rs), p)
      BY ONLY <1>9
    <2> QED
      BY ONLY <2>1, <2>2, <2>3, <1>6, <1>8, Zenon DEF StartedAs
  <1>11. \A lp \in RegionLps : F[lp][0].sends \in Seq(DueEvent)
    <2>1. <<>> \in Seq(DueEvent)
      OBVIOUS
    <2> QED
      BY <1>2, <2>1, Zenon
  <1> QED
    BY <1>10, <1>11 DEF rs, due

LEMMA StartsGoOn ==
    ASSUME rng \in Draws, owner = [p \in Plane |-> lp_of_region(p % Regions)],
           NEW F, AreStarts(F), NEW n \in Plane,
           \A lp \in RegionLps : F[lp][n].sends \in Seq(DueEvent),
           StartedAs(RegionsAt(F, n), DueAt(F, n), n)
    PROVE  /\ \A lp \in RegionLps : F[lp][n + 1].sends \in Seq(DueEvent)
           /\ StartedAs(RegionsAt(F, n + 1), DueAt(F, n + 1), n + 1)
  <1> DEFINE rs   == RegionsAt(F, n)
             due  == DueAt(F, n)
             a    == HomeAirport(n)
             home == lp_of_region(HomeRegion(n))
             r    == enqueue_arrival_(rng, rs[home].airports[a], a, n, StartPlane(n).key, 0)
             given == WithPlane(rs[home].planes, n, StartPlane(n))
  <1> HIDE DEF rs, due, a, home, r, given
  <1>1. /\ r.sends \in Seq(DueEvent)
        /\ StartedAs(WithAirport(rs, a, given, r.airport), due \cup ToSet(r.sends), n + 1)
    <2>1. StartedAs(rs, due, n)
      BY Zenon DEF rs, due
    <2> QED
      BY <2>1, PlaneArrives DEF r, a, home, given
  <1>2. /\ home \in RegionLps /\ HomeRegion(n) = region_index_of_lp(home)
        /\ lp_of_region(region_of_airport(a)) = home
    BY Homes DEF a, home, lp_of_region, region_index_of_lp
  <1>3. \A lp \in RegionLps : lp # home => HomeRegion(n) # region_index_of_lp(lp)
    BY Homes, Parameters DEF home, lp_of_region, region_index_of_lp, RegionLps
  <1>4. \A lp \in RegionLps : F[lp][n + 1] = StartStep(F[lp][n], n, lp)
    <2> SUFFICES ASSUME NEW lp \in RegionLps
                 PROVE  F[lp][n + 1] = StartStep(F[lp][n], n, lp)
      OBVIOUS
    <2> DEFINE none == [state |-> EmptyRegion(lp), sends |-> <<>>]
    <2> HIDE DEF none
    <2>1. F[lp] = [k \in 0..NumPlanes |->
                     IF k = 0 THEN none ELSE StartStep(F[lp][k - 1], k - 1, lp)]
      BY Zenon DEF AreStarts, IsStart, none
    <2>2. n + 1 \in 0..NumPlanes /\ n + 1 # 0 /\ (n + 1) - 1 = n
      BY Parameters DEF Plane
    <2> QED
      BY <2>1, <2>2
  <1>5. /\ F[home][n + 1] =
              [state |-> [planes |-> given,
                          airports |-> [rs[home].airports EXCEPT ![a] = r.airport]],
               sends |-> F[home][n].sends \o r.sends]
        /\ rs[home] = F[home][n].state
    <2>1. rs[home] = F[home][n].state
      BY <1>2 DEF rs, RegionsAt
    <2>2. F[home][n + 1] = StartStep(F[home][n], n, home)
      BY <1>2, <1>4
    <2> DEFINE s == F[home][n].state
               r2 == enqueue_arrival_(rng, s.airports[a], a, n, StartPlane(n).key, 0)
    <2>3. StartStep(F[home][n], n, home) =
             [state |-> [planes |-> WithPlane(s.planes, n, StartPlane(n)),
                         airports |-> [s.airports EXCEPT ![a] = r2.airport]],
              sends |-> F[home][n].sends \o r2.sends]
      BY <1>2, Zenon DEF StartStep, a
    <2> HIDE DEF s
    <2>4. rs[home] = s
      BY <2>1, Zenon DEF s
    <2>5. r2 = r /\ WithPlane(s.planes, n, StartPlane(n)) = given
      BY <2>4, Zenon DEF r, given
    <2> HIDE DEF r2
    <2> QED
      BY <2>1, <2>2, <2>3, <2>4, <2>5, Zenon
  <1>6. \A lp \in RegionLps : lp # home => F[lp][n + 1] = F[lp][n]
    BY <1>3, <1>4 DEF StartStep
  <1>7. RegionsAt(F, n + 1) = WithAirport(rs, a, given, r.airport)
    <2>1. rs = [lp \in RegionLps |-> F[lp][n].state]
      BY DEF rs, RegionsAt
    <2>2. WithAirport(rs, a, given, r.airport) =
             [rs EXCEPT ![home] = [planes |-> given,
                                   airports |-> [rs[home].airports EXCEPT ![a] = r.airport]]]
      BY <1>2 DEF WithAirport
    <2> DEFINE new == [planes |-> given,
                       airports |-> [rs[home].airports EXCEPT ![a] = r.airport]]
    <2>3. F[home][n + 1].state = new
      <3> DEFINE next == F[home][n + 1]
                 more == F[home][n].sends \o r.sends
      <3>1. next = [state |-> new, sends |-> more]
        BY <1>5, Zenon
      <3> HIDE DEF next, new, more
      <3>2. next.state = new
        BY ONLY <3>1
      <3> QED
        BY <3>2, Zenon DEF next, new
    <2> HIDE DEF new
    <2>4. RegionsAt(F, n + 1) = [lp \in RegionLps |-> F[lp][n + 1].state]
      BY DEF RegionsAt
    <2> DEFINE changed == [rs EXCEPT ![home] = new]
    <2>5. changed = [lp \in RegionLps |-> changed[lp]]
      BY <2>1
    <2>6. \A lp \in RegionLps : changed[lp] = F[lp][n + 1].state
      <3> SUFFICES ASSUME NEW lp \in RegionLps
                   PROVE  changed[lp] = F[lp][n + 1].state
        BY Zenon
      <3>1. CASE lp = home
        BY <3>1, <2>1, <2>3
      <3>2. CASE lp # home
        <4>1. changed[lp] = F[lp][n].state
          BY <3>2, <2>1
        <4>2. F[lp][n + 1] = F[lp][n]
          BY <3>2, <1>6
        <4> QED
          BY <4>1, <4>2, Zenon
      <3> QED
        BY <3>1, <3>2, Zenon
    <2> HIDE DEF changed
    <2>7. RegionsAt(F, n + 1) = changed
      BY <2>4, <2>5, <2>6, Zenon
    <2> QED
      BY <2>2, <2>7, Zenon DEF changed, new
  <1>8. F[home][n + 1].sends = F[home][n].sends \o r.sends
    <2> DEFINE next == F[home][n + 1]
               new  == [planes |-> given,
                        airports |-> [rs[home].airports EXCEPT ![a] = r.airport]]
               more == F[home][n].sends \o r.sends
    <2>1. next = [state |-> new, sends |-> more]
      BY <1>5, Zenon
    <2> HIDE DEF next, new, more
    <2>2. next.sends = more
      BY ONLY <2>1
    <2> QED
      BY <2>2, Zenon DEF next, more
  <1>9. \A lp \in RegionLps : F[lp][n + 1].sends \in Seq(DueEvent)
    <2> SUFFICES ASSUME NEW lp \in RegionLps
                 PROVE  F[lp][n + 1].sends \in Seq(DueEvent)
      BY Zenon
    <2>1. F[home][n].sends \o r.sends \in Seq(DueEvent)
      BY <1>1, <1>2
    <2> QED
      BY <2>1, <1>6, <1>8, Zenon
  <1>10. DueAt(F, n + 1) = due \cup ToSet(r.sends)
    <2>1. ToSet(F[home][n + 1].sends) = ToSet(F[home][n].sends) \cup ToSet(r.sends)
      <3>1. F[home][n].sends \in Seq(DueEvent) /\ r.sends \in Seq(DueEvent)
        BY <1>1, <1>2
      <3>2. ToSet(F[home][n].sends \o r.sends) = ToSet(F[home][n].sends) \cup ToSet(r.sends)
        BY ONLY <3>1, SendsAsSet
      <3> QED
        BY <3>2, <1>8, Zenon
    <2> DEFINE S(lp) == ToSet(F[lp][n].sends)
               T(lp) == ToSet(F[lp][n + 1].sends)
    <2>2. \A lp \in RegionLps : T(lp) = IF lp = home THEN S(lp) \cup ToSet(r.sends) ELSE S(lp)
      BY <2>1, <1>6
    <2>3. DueAt(F, n + 1) = UNION {T(lp) : lp \in RegionLps}
          /\ due = UNION {S(lp) : lp \in RegionLps}
      BY DEF DueAt, due
    <2> HIDE DEF S, T
    <2> QED
      BY <2>2, <2>3, <1>2
  <1> QED
    BY <1>1, <1>7, <1>9, <1>10

LEMMA AllPlanesStart ==
    ASSUME rng \in Draws, owner = [p \in Plane |-> lp_of_region(p % Regions)],
           NEW F, AreStarts(F)
    PROVE  StartedAs(RegionsAt(F, NumPlanes), DueAt(F, NumPlanes), NumPlanes)
  <1> DEFINE Good(n) == /\ \A lp \in RegionLps : F[lp][n].sends \in Seq(DueEvent)
                        /\ StartedAs(RegionsAt(F, n), DueAt(F, n), n)
             T == {n \in Nat : n <= NumPlanes => Good(n)}
  <1>1. 0 \in T
    BY StartsEmpty
  <1>2. ASSUME NEW n \in T
        PROVE  n + 1 \in T
    <2>1. n \in Nat /\ NumPlanes \in Nat
      BY Parameters
    <2> SUFFICES ASSUME n + 1 <= NumPlanes
                 PROVE  Good(n + 1)
      BY <2>1
    <2>2. n \in Plane /\ Good(n)
      BY <2>1 DEF Plane
    <2> QED
      BY ONLY <2>2, StartsGoOn, rng \in Draws, AreStarts(F),
              owner = [p \in Plane |-> lp_of_region(p % Regions)]
  <1>3. T \in SUBSET Nat
    OBVIOUS
  <1> HIDE DEF T
  <1>4. NumPlanes \in T
    BY <1>1, <1>2, <1>3, Counting, Parameters
  <1> QED
    BY <1>4, Parameters DEF T

\* The run begins like this.
LEMMA InitPlan ==
    ASSUME Init
    PROVE  PlanInvariant
  <1>1. /\ rng \in Draws /\ owner = [p \in Plane |-> lp_of_region(p % Regions)]
        /\ now.time = 0 /\ out = <<>> /\ dirSeq = 1
    BY DEF Init
  <1>2. PICK F : /\ AreStarts(F)
                 /\ \A lp \in RegionLps : on_start(rng, lp) = F[lp][NumPlanes]
    BY StartsExist
  <1>3. regions = RegionsAt(F, NumPlanes)
    <2>1. regions = [lp \in RegionLps |-> on_start(rng, lp).state]
      BY Zenon DEF Init
    <2> QED
      BY <2>1, <1>2 DEF RegionsAt
  <1>4. pending = DueAt(F, NumPlanes)
    <2>1. pending = UNION {ToSet(on_start(rng, lp).sends) : lp \in RegionLps}
      BY Zenon DEF Init
    <2> DEFINE S(lp) == ToSet(on_start(rng, lp).sends)
               T(lp) == ToSet(F[lp][NumPlanes].sends)
    <2>2. \A lp \in RegionLps : S(lp) = T(lp)
      BY <1>2, Zenon
    <2>3. pending = UNION {S(lp) : lp \in RegionLps}
          /\ DueAt(F, NumPlanes) = UNION {T(lp) : lp \in RegionLps}
      BY <2>1 DEF DueAt
    <2> HIDE DEF S, T
    <2> QED
      BY <2>2, <2>3
  <1>5. StartedAs(regions, pending, NumPlanes)
    BY ONLY <1>1, <1>2, <1>3, <1>4, AllPlanesStart
  <1>6. /\ RegionTypes(regions) /\ pending \in SUBSET DueEvent
        /\ \A ev \in pending : ev.body.kind = "done"
        /\ InOrder(pending, Runways(regions))
    BY <1>5, Zenon DEF StartedAs
  <1>7. \A p \in Plane :
           Situated(pending, Queues(regions), Worlds(regions), owner, now.time, p)
    <2>1. \A p \in Plane : p < NumPlanes
      BY Parameters DEF Plane
    <2> QED
      BY <2>1, <1>1, <1>5, Zenon DEF StartedAs
  <1>8. PlanTypes
    <2>1. owner \in [Plane -> RegionLps]
      <3>1. \A p \in Plane : lp_of_region(p % Regions) \in RegionLps
        BY Homes DEF HomeRegion
      <3> QED
        BY <3>1, <1>1
    <2>2. now.time \in 0..EndTime /\ out \in Seq(LandRecord \cup DepartedRecord)
          /\ dirSeq \in Nat \ {0}
      BY <1>1, Parameters
    <2> QED
      BY <2>1, <2>2, <1>1, <1>6 DEF PlanTypes
  <1>9. NothingPast
    <2>1. \A ev \in pending : ev.ts.time \in 0..EndTime
      BY <1>6 DEF DueEvent, When
    <2> QED
      BY <2>1, <1>1 DEF NothingPast
  <1>10. AllTold
    <2>1. \A p : Mine(out, p) = {}
      BY <1>1 DEF Mine
    <2>2. \A p : Told(pending, Queues(regions), out, p)
      BY <2>1, <1>6 DEF Told, LandedAt, Of
    <2> QED
      BY <2>1, <2>2 DEF AllTold
  <1>11. RecordsAgree
    BY <1>1 DEF RecordsAgree
  <1> QED
    BY <1>6, <1>7, <1>8, <1>9, <1>10, <1>11
       DEF PlanInvariant, AllSituated, AllExclusive, InOrder

-----------------------------------------------------------------------------
(***************************************************************************)
(* The theorems.                                                           *)
(***************************************************************************)
\* At every moment each plane waits at an airport, is served there, flies to the
\* airport its landing names, or has no event before the end of the run; each
\* runway serves one plane; and the records tell where each plane is.
THEOREM PlanHolds == Spec => []PlanInvariant
  <1>1. Init => PlanInvariant
    BY InitPlan
  <1>2. PlanInvariant /\ [Next]_vars => PlanInvariant'
    BY NextKeeps
  <1> QED
    BY <1>1, <1>2, PTL DEF Spec

\* Every event has a stamp that send() keeps and a destination, and the queues hold
\* planes.
THEOREM FlightsTyped == Spec => []FlightsTypeOK
  <1>1. PlanInvariant => FlightsTypeOK
    BY TypesImplied DEF PlanInvariant
  <1> QED
    BY <1>1, PlanHolds, PTL

\* The region that an event is forwarded to has the plane in its World, and the
\* airport is its own: region_on_event never throws.
THEOREM PlanesAreFound == Spec => []NeverMissing
  <1>1. PlanInvariant => NeverMissing
    BY NeverMissingImplied DEF PlanInvariant
  <1> QED
    BY <1>1, PlanHolds, PTL

\* The crossings that schedule_next_boundary_ makes one by one end where and when
\* compute_land_time_ foresaw the landing.
THEOREM PlanesLandAsPlanned == Spec => []LandsAsPlanned
  <1>1. PlanInvariant => LandsAsPlanned
    BY LandsAsPlannedImplied DEF PlanInvariant
  <1> QED
    BY <1>1, PlanHolds, PTL

\* Departures and landings of a plane alternate in the committed output, and each
\* names the airport of the one before.
THEOREM OutputTellsOneStory == Spec => []RecordsAgree
  <1>1. PlanInvariant => RecordsAgree
    BY DEF PlanInvariant
  <1> QED
    BY <1>1, PlanHolds, PTL

\* A plane is in one queue, one service or one flight.
THEOREM PlanesStayWhole == Spec => []PlanesConserved
  <1>1. PlanInvariant => PlanesConserved
    BY PlanesConservedImplied DEF PlanInvariant
  <1> QED
    BY <1>1, PlanHolds, PTL

\* A runway is busy exactly while the end of one service at its airport is due.
THEOREM OneServiceDue == Spec => []RunwayExclusive
  <1>1. PlanInvariant => RunwayExclusive
    BY RunwayExclusiveImplied DEF PlanInvariant
  <1> QED
    BY <1>1, PlanHolds, PTL

=============================================================================

--------------------------- MODULE RaptorTimetable ---------------------------
(***************************************************************************)
(* The timetable the journey search runs on                                *)
(* (crates/routing-core/src/lib.rs, RaptorTimetable, RaptorRealtimeData    *)
(* and the scans that do not need rounds): how trips are grouped into      *)
(* routes whose trips never overtake each other, how the delays of a feed  *)
(* are looked up, how the earliest catchable trip is found, which          *)
(* departures of a window are probed and which direct services are listed. *)
(*                                                                         *)
(* Times are seconds of the service day, at most Infinity (u32::MAX, which *)
(* also means "never").  Stops, trips and lines are values; geometry,      *)
(* warnings and sources of a walk are left out.                            *)
(***************************************************************************)
EXTENDS Integers, Sequences, FiniteSets, SequencesExt

CONSTANTS
  Stop,       \* stops
  TripId,     \* identifiers of trips, natural numbers so that they are ordered
  Infinity,   \* u32::MAX
  MaxDelay    \* MAX_REALTIME_ROUTING_DELAY_SECONDS

ASSUME TimeAssumption == Infinity \in Nat /\ MaxDelay \in Nat
ASSUME StopAssumption == IsFiniteSet(Stop)
ASSUME TripAssumption == TripId \subseteq Nat

Time == 0 .. Infinity

SatAdd(a, b) == IF a + b > Infinity THEN Infinity ELSE a + b
SatSub(a, b) == IF a < b THEN 0 ELSE a - b

ApplyDelay(time, delay) ==
  IF delay >= 0 THEN SatAdd(time, delay) ELSE SatSub(time, -delay)

-----------------------------------------------------------------------------
(* Realtime.  An update says how late a trip is, at one stop or (AnyStop)  *)
(* in general.                                                             *)

AnyStop == "any stop"

Clamp(delay) == IF delay > MaxDelay THEN MaxDelay
                ELSE IF delay < -MaxDelay THEN -MaxDelay ELSE delay

Positive(delay) == IF delay > 0 THEN delay ELSE 0

FirstOf(updates, S) == Clamp(updates[Min(S)].delay)

\* The first update for the stop, else the first one of the trip, else none.
DelayOf(updates, trip, stop) ==
  LET ofTrip == {n \in DOMAIN updates : updates[n].trip = trip}
      ofStop == {n \in ofTrip : updates[n].stop = stop}
  IN  IF ofStop # {} THEN FirstOf(updates, ofStop)
      ELSE IF ofTrip # {} THEN FirstOf(updates, ofTrip) ELSE 0

\* The widest delay and the widest earliness any update gives a trip.
TripBounds(updates, trip) ==
  LET delays == {Clamp(updates[n].delay) : n \in {m \in DOMAIN updates : updates[m].trip = trip}}
  IN  [late  |-> Max({0} \cup {Positive(d) : d \in delays}),
       early |-> Max({0} \cup {Positive(-d) : d \in delays})]

RealtimeData(updates) ==
  [delay |-> [t \in TripId |-> [s \in Stop |-> DelayOf(updates, t, s)]],
   late  |-> [t \in TripId |-> TripBounds(updates, t).late],
   early |-> [t \in TripId |-> TripBounds(updates, t).early]]

RouteLate(route, realtime) ==
  Max({0} \cup {realtime.late[route.trips[n].id] : n \in DOMAIN route.trips})
RouteEarly(route, realtime) ==
  Max({0} \cup {realtime.early[route.trips[n].id] : n \in DOMAIN route.trips})

-----------------------------------------------------------------------------
(* Routes: the trips of one line, mode and stop pattern, split into chains *)
(* in which no trip overtakes the one before.                              *)

StopsOf(trip) == [i \in DOMAIN trip.calls |-> trip.calls[i].stop]

Precedes(left, right) ==
  \A i \in DOMAIN left.calls \cap DOMAIN right.calls :
    /\ left.calls[i].arrival   =< right.calls[i].arrival
    /\ left.calls[i].departure =< right.calls[i].departure

StartsBefore(left, right) ==
  LET l == left.calls[1]  r == right.calls[1] IN
  \/ l.departure < r.departure
  \/ l.departure = r.departure /\ l.arrival < r.arrival
  \/ l.departure = r.departure /\ l.arrival = r.arrival /\ left.id =< right.id

\* A trip joins the chain it can follow that starts last, or opens a new one.
AddToChain(chains, trip) ==
  LET fits == {n \in DOMAIN chains : Precedes(Last(chains[n]), trip)}
      start(n) == Last(chains[n]).calls[1].departure
      latest == {n \in fits : \A m \in fits : start(m) =< start(n)}
  IN  IF fits = {} THEN Append(chains, <<trip>>)
      ELSE [chains EXCEPT ![Max(latest)] = Append(@, trip)]

\* Fault: trips are only compared where they start.
PartitionNonOvertaking_Start(trips) == <<SetToSortSeq(trips, StartsBefore)>>

PartitionNonOvertaking(trips) ==
  LET sorted == SetToSortSeq(trips, StartsBefore) IN
  IF \A n \in 1 .. Len(sorted) - 1 : Precedes(sorted[n], sorted[n + 1])
  THEN <<sorted>>
  ELSE FoldLeft(AddToChain, <<>>, sorted)

Pattern(trip) == <<trip.line, trip.mode, StopsOf(trip)>>

RouteOf(chain) ==
  [line |-> chain[1].line, mode |-> chain[1].mode,
   stops |-> StopsOf(chain[1]), trips |-> chain]

RouteBefore(left, right) ==
  left.line < right.line \/ (left.line = right.line /\ left.trips[1].id =< right.trips[1].id)

Routes(trips) ==
  LET groups == {{t \in trips : Pattern(t) = p} : p \in {Pattern(t) : t \in trips}}
      chains == UNION {ToSet(PartitionNonOvertaking(g)) : g \in groups}
  IN  SetToSortSeq({RouteOf(c) : c \in chains}, RouteBefore)

\* Several links between two stops count as the shortest; a link from a stop to
\* itself is its official change time.
Shortest(links, a, b) ==
  Min({Infinity} \cup {l.seconds : l \in {m \in links : m.from = a /\ m.to = b}})

WalkTable(links) ==
  [p \in Stop \X Stop |-> IF p[1] = p[2] THEN Infinity ELSE Shortest(links, p[1], p[2])]

NewTimetable(trips, links) ==
  [routes |-> Routes(trips),
   walk   |-> WalkTable(links),
   change |-> [s \in Stop |-> Shortest(links, s, s)]]

-----------------------------------------------------------------------------
(* Boarding.  The trips of a route in the order they leave its i-th stop.  *)

Verified(route, unverified) ==
  {n \in DOMAIN route.trips : unverified \/ route.trips[n].verified}

DepartureOrder(route, i, unverified) ==
  LET leaves(n) == route.trips[n].calls[i].departure
      before(m, n) == leaves(m) < leaves(n) \/ (leaves(m) = leaves(n) /\ m =< n)
  IN  SetToSortSeq(Verified(route, unverified), before)

EffectiveDeparture(route, n, i, realtime) ==
  LET trip == route.trips[n] IN
  ApplyDelay(trip.calls[i].departure, realtime.delay[trip.id][trip.calls[i].stop])

EffectiveArrival(route, n, i, realtime) ==
  LET trip == route.trips[n] IN
  ApplyDelay(trip.calls[i].arrival, realtime.delay[trip.id][trip.calls[i].stop])

\* The trip a traveller who is ready at that time gets on first: [trip |-> 0] if
\* there is none.  Without delays on the route it is the first one in the order;
\* with delays a window is scanned, until no later trip can leave any earlier.
EarliestCatchable(route, i, ready, realtime, unverified) ==
  LET late  == RouteLate(route, realtime)
      early == RouteEarly(route, realtime)
      call(n) == route.trips[n].calls[i]
      leaves(n) == EffectiveDeparture(route, n, i, realtime)
      window == SelectSeq(DepartureOrder(route, i, unverified),
                          LAMBDA n : call(n).departure >= SatSub(ready, late))
      Look(found, n) ==
        IF found.over \/ (found.trip # 0 /\ SatSub(call(n).departure, early) >= found.leaves)
        THEN [found EXCEPT !.over = TRUE]
        ELSE IF call(n).pickup /\ leaves(n) >= ready
                /\ (found.trip = 0 \/ leaves(n) < found.leaves)
             THEN [found EXCEPT !.trip = n, !.leaves = leaves(n)]
             ELSE found
      First(found, n) ==
        IF found.trip = 0 /\ call(n).pickup
        THEN [found EXCEPT !.trip = n, !.leaves = call(n).departure] ELSE found
      nothing == [trip |-> 0, leaves |-> Infinity, over |-> FALSE]
  IN  IF late = 0 /\ early = 0 THEN FoldLeft(First, nothing, window)
      ELSE FoldLeft(Look, nothing, window)

-----------------------------------------------------------------------------
(* Direct services (direct_journeys): every trip that runs from one of the *)
(* endpoints to another and leaves within the window, each line's earliest *)
(* before the rest.                                                        *)

Allowed(route, ask) == ask.modes = {} \/ route.mode \in ask.modes

DirectTrips(tt, ask, window) ==
  {d \in UNION {{[route |-> r, trip |-> n, board |-> i, alight |-> j] :
                   n \in Verified(tt.routes[r], ask.unverified),
                   i \in DOMAIN tt.routes[r].stops, j \in DOMAIN tt.routes[r].stops}
                : r \in DOMAIN tt.routes} :
     LET route == tt.routes[d.route]
         trip  == route.trips[d.trip]
         leaves  == EffectiveDeparture(route, d.trip, d.board, ask.realtime)
         arrives == EffectiveArrival(route, d.trip, d.alight, ask.realtime)
         latest  == SatAdd(ask.departure, window)
     IN  /\ Allowed(route, ask)
         /\ d.board < d.alight
         /\ route.stops[d.board] \in ask.from /\ route.stops[d.alight] \in ask.to
         /\ trip.calls[d.board].pickup /\ trip.calls[d.alight].dropOff
         /\ trip.calls[d.board].departure >= SatSub(ask.departure, RouteLate(route, ask.realtime))
         /\ trip.calls[d.board].departure =< SatAdd(latest, RouteEarly(route, ask.realtime))
         /\ leaves \in ask.departure .. latest
         /\ arrives >= leaves}

\* The order of candidates; the stops break ties by their place on the route.
DirectKey(tt, ask, d) ==
  LET route == tt.routes[d.route] IN
  <<EffectiveDeparture(route, d.trip, d.board, ask.realtime),
    EffectiveArrival(route, d.trip, d.alight, ask.realtime),
    route.line, route.trips[d.trip].id, d.board, d.alight>>

KeyBefore(k, l) ==
  \/ k = l
  \/ \E i \in DOMAIN k : k[i] < l[i] /\ \A j \in 1 .. i - 1 : k[j] = l[j]

\* Fault: the earliest candidates, whatever their line.
DirectJourneys_NoReserve(tt, ask, window, limit) ==
  LET before(c, d) == KeyBefore(DirectKey(tt, ask, c), DirectKey(tt, ask, d))
      all == DirectTrips(tt, ask, window)
  IN  {d \in all : Cardinality({c \in all : before(c, d)}) =< limit}

\* At most `limit` candidates of each pair of positions, then one of each line,
\* then the earliest of the rest.
DirectJourneys(tt, ask, window, limit) ==
  LET before(c, d) == KeyBefore(DirectKey(tt, ask, c), DirectKey(tt, ask, d))
      pairOf(d) == <<d.route, d.board, d.alight>>
      all == DirectTrips(tt, ask, window)
      kept == {d \in all :
                 Cardinality({c \in all : pairOf(c) = pairOf(d) /\ before(c, d)}) =< limit}
      identity(d) == <<tt.routes[d.route].trips[d.trip].id,
                       tt.routes[d.route].stops[d.board], tt.routes[d.route].stops[d.alight]>>
      distinct == {d \in kept : \A c \in kept : identity(c) = identity(d) => before(d, c)}
      lineOf(d) == tt.routes[d.route].line
      firsts == {d \in distinct : \A c \in distinct : lineOf(c) = lineOf(d) => before(d, c)}
      top(S, n) == {d \in S : Cardinality({c \in S : before(c, d)}) =< n}
      reserved == top(firsts, limit)
  IN  reserved \cup top(distinct \ reserved, limit - Cardinality(reserved))

-----------------------------------------------------------------------------
(* Departures worth a probe (departure_times_from_stops): the requested    *)
(* time and the times at which to leave for a vehicle of the window; of    *)
(* too many of them an even sample.                                        *)

AccessSeconds(ask, s) ==
  IF s \in ask.from THEN 0
  ELSE Min({Infinity} \cup {ask.walk[p] : p \in {q \in DOMAIN ask.walk : q[1] \in ask.from /\ q[2] = s}})

RealDepartures(tt, ask, window) ==
  {SatSub(tt.routes[d[1]].trips[d[2]].calls[d[3]].departure,
          AccessSeconds(ask, tt.routes[d[1]].stops[d[3]])) :
     d \in {e \in UNION {{<<r, n, i>> : n \in Verified(tt.routes[r], ask.unverified),
                                        i \in DOMAIN tt.routes[r].stops}
                          : r \in DOMAIN tt.routes} :
              LET route == tt.routes[e[1]]
                  call  == route.trips[e[2]].calls[e[3]]
                  access == AccessSeconds(ask, route.stops[e[3]])
              IN  /\ access # Infinity /\ Allowed(route, ask) /\ call.pickup
                  /\ call.departure >= SatAdd(ask.departure, access)
                  /\ call.departure =< SatAdd(SatAdd(ask.departure, window), access)}}

DepartureTimes(tt, ask, window, most) ==
  LET all == SetToSortSeq({ask.departure} \cup RealDepartures(tt, ask, window), =<)
      limit == IF most < 1 THEN 1 ELSE most
  IN  IF window = 0 \/ limit = 1 THEN <<ask.departure>>
      ELSE IF Len(all) =< limit THEN all
      ELSE [n \in 1 .. limit |-> all[((n - 1) * (Len(all) - 1)) \div (limit - 1) + 1]]
=============================================================================

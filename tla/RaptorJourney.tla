---------------------------- MODULE RaptorJourney ----------------------------
(***************************************************************************)
(* What the search returns (reconstruct_raptor_journey and what follows it *)
(* in crates/routing-core/src/lib.rs), and reference definitions for its   *)
(* parts: the earliest arrival over all trips without routes or pruning,   *)
(* the earliest trip without an index or a window, and the direct services *)
(* without bounds.                                                         *)
(***************************************************************************)
EXTENDS Raptor

CONSTANTS
  Window,  \* seconds after the requested departure in which departures are probed
  Limit    \* bound on the departures probed and on the direct services listed

ASSUME LimitAssumption == Window \in Nat /\ Limit \in Nat

Rounds == 0 .. MaxRound(ask)

\* Fault: a ride leads back to the round it belongs to.
Back_SameRound(node) ==
  LET p == parent[node[1]][node[2]] IN
  CASE p.kind = "walk" -> <<node[1], p.from>>
    [] p.kind = "ride" -> <<node[1], StopAt(p.route, p.board)>>
    [] OTHER -> node

\* Parents are followed from a label until there is none.
Back(node) ==
  LET p == parent[node[1]][node[2]] IN
  CASE p.kind = "walk" -> <<node[1], p.from>>
    [] p.kind = "ride" -> <<node[1] - 1, StopAt(p.route, p.board)>>
    [] OTHER -> node

LongestTrail == (MaxRound(ask) + 1) * (Cardinality(Stop) + 1)

Trail(k, s) ==
  LET at[n \in 0 .. LongestTrail] == IF n = 0 THEN <<k, s>> ELSE Back(at[n - 1])
  IN  at

IsRide(node) == parent[node[1]][node[2]].kind = "ride"

\* The journeys: the first of the targets that has the earliest label of a round.
Targets(k) ==
  {s \in ask.to : label[k][s] # Infinity /\ \A t \in ask.to : label[k][s] =< label[k][t]}
Journeys == {j \in (Rounds \ {0}) \X Stop : j[2] \in Targets(j[1])}

\* The walks before the first ride are moved to end when its vehicle is due, unless
\* it is due before they could have been made.
LeadingWalk(trail) ==
  LET ride == Max({n \in DOMAIN trail : IsRide(trail[n])})
      walks == {n \in DOMAIN trail : n > ride /\ parent[trail[n][1]][trail[n][2]].kind = "walk"}
      seconds(n) == WalkSeconds(trail[n + 1][2], trail[n][2])
      first == parent[trail[ride][1]][trail[ride][2]]
      due == Route(first.route).trips[first.trip].calls[first.board].departure
      taken == MapThenSumSet(seconds, walks)
      walked == label[0][trail[ride + 1][2]]
  IN  [exists  |-> walks # {},
       arrives |-> IF due < taken THEN walked ELSE due,
       vehicle |-> Leaves(first.route, first.trip, first.board)]

-----------------------------------------------------------------------------
(* Reference definitions.                                                  *)

Smallest(S) == Min({Infinity} \cup S)

\* Where a traveller can be, when, and by what means, without comparing journeys.
Place(stop, time, means) == [stop |-> stop, time |-> time, means |-> means]

Onward(places) ==
  {Place(s, SatAdd(x.time, WalkSeconds(x.stop, s)), "walk") : x \in places, s \in Stop}

OnFoot(places) ==
  LET far[n \in 0 .. Cardinality(Stop)] ==
        IF n = 0 THEN places
        ELSE LET near == far[n - 1] IN
             near \cup {x \in Onward(near) : x.time < Infinity}
  IN  far[Cardinality(Stop)]

Margin(place) ==
  CASE place.means = "walk" -> ask.buffer
    [] place.means = "start" -> 0
    [] place.means = "ride" /\ tt.change[place.stop] # Infinity ->
         SatAdd(tt.change[place.stop], ask.buffer)
    [] OTHER -> SatAdd(ask.minTransfer, ask.buffer)

\* Rides of trip n of route r from its i-th to its j-th stop that may be taken.
RidesOf(r) ==
  {ride \in Verified(Route(r), ask.unverified)
             \X (1 .. Len(Route(r).stops)) \X (1 .. Len(Route(r).stops)) :
     /\ ride[2] < ride[3]
     /\ Route(r).trips[ride[1]].calls[ride[2]].pickup /\ Route(r).trips[ride[1]].calls[ride[3]].dropOff}

RidesFrom(place, r) ==
  {Place(StopAt(r, ride[3]), Arrives(r, ride[1], ride[3]), "ride") :
     ride \in {x \in RidesOf(r) :
                 /\ StopAt(r, x[2]) = place.stop
                 /\ Leaves(r, x[1], x[2]) >= SatAdd(place.time, Margin(place))}}

\* The places of all journeys with k rides.
PlacesAfter ==
  LET after[k \in Rounds] ==
        IF k = 0 THEN OnFoot({Place(s, ask.departure, "start") : s \in ask.from})
        ELSE LET before == after[k - 1] IN
             OnFoot(UNION {RidesFrom(x, r) : x \in before, r \in {q \in DOMAIN tt.routes : IsAllowed(q)}})
  IN  after

-----------------------------------------------------------------------------
(* What the results promise.                                               *)

\* Every journey returned leads back to one of the origins, so that it has exactly
\* as many rides as its round, and not more than the traveller allowed.
JourneysAreWhole ==
  phase = "done" =>
    \A j \in Journeys :
      LET trail == Trail(j[1], j[2])
          start == trail[LongestTrail]
      IN  /\ start[1] = 0 /\ start[2] \in ask.from
          /\ Cardinality({trail[n] : n \in {m \in DOMAIN trail : IsRide(trail[m])}}) = j[1]

\* "earliest-arrival stop-to-stop search" (docs/routing-spec.md:8): for every number
\* of rides, no journey at all gets to a target before the journeys found.
FindsEarliest ==
  phase = "done" =>
    LET places == PlacesAfter IN
    \A k \in Rounds :
      Smallest({label[x[1]][x[2]] : x \in (0 .. k) \X ask.to})
        = Smallest({x.time : x \in {y \in UNION {places[j] : j \in 0 .. k} : y.stop \in ask.to}})

\* A trip does not go back in time, and trips of a route that leave a stop together go
\* on together: the scan changes to another trip only if that one leaves earlier.
RunsOn(route) ==
  LET call(n, i) == route.trips[n].calls[i] IN
  \A n \in DOMAIN route.trips : \A i, j \in DOMAIN route.stops : i < j =>
    /\ call(n, i).departure =< call(n, j).arrival
    /\ \A m \in DOMAIN route.trips : call(m, i).departure = call(n, i).departure =>
         call(m, j).arrival = call(n, j).arrival /\ call(m, j).departure = call(n, j).departure

\* Changing takes as long wherever the traveller comes from, nothing is delayed and
\* every vehicle lets passengers off: what one earliest arrival per stop relies on.
Regular ==
  /\ ask.minTransfer = 0 /\ \A s \in Stop : tt.change[s] \in {0, Infinity}
  /\ \A t \in TripId : \A s \in Stop : ask.realtime.delay[t][s] = 0
  /\ \A r \in DOMAIN tt.routes :
       /\ RunsOn(Route(r))
       /\ \A n \in DOMAIN Route(r).trips : \A i \in DOMAIN Route(r).stops :
            Route(r).trips[n].calls[i].dropOff

\* In a regular timetable the search finds the earliest arrival for every number of
\* rides: neither splitting trips into chains, nor boarding only the earliest trip
\* of a chain, nor dropping labels that do not beat the target loses a journey.
EarliestArrival == Regular => FindsEarliest

\* The indexed and windowed look-up finds a trip exactly when one can be caught,
\* and one that leaves first, whatever the delays.
CatchableIsEarliest ==
  phase = "done" =>
    \A r \in DOMAIN tt.routes : \A i \in DOMAIN Route(r).stops : \A ready \in Time :
      LET found == EarliestCatchable(Route(r), i, ready, ask.realtime, ask.unverified)
      IN  IF Catchable(r, i, ready) = {} THEN found.trip = 0
          ELSE /\ found.trip \in Earliest(r, i, ready)
               /\ found.leaves = Leaves(r, found.trip, i)

\* The direct services listed are real ones, no more than the limit, one of every
\* line before a second of any, and all of them if there is room.
DirectServices ==
  UNION {{[route |-> r, trip |-> ride[1], board |-> ride[2], alight |-> ride[3]] :
            ride \in {x \in RidesOf(r) :
                        /\ StopAt(r, x[2]) \in ask.from /\ StopAt(r, x[3]) \in ask.to
                        /\ Leaves(r, x[1], x[2]) \in ask.departure .. SatAdd(ask.departure, Window)
                        /\ Leaves(r, x[1], x[2]) =< Arrives(r, x[1], x[3])}}
         : r \in {q \in DOMAIN tt.routes : Allowed(Route(q), ask)}}

LinesOf(S) == {Route(d.route).line : d \in S}
\* A trip that calls twice at an endpoint is one service.
ServicesOf(S) ==
  {<<Route(d.route).trips[d.trip].id, StopAt(d.route, d.board), StopAt(d.route, d.alight)>> : d \in S}

DirectServicesKept ==
  phase = "done" =>
    LET listed == DirectJourneys(tt, ask, Window, Limit)
        lines  == LinesOf(DirectServices)
    IN  /\ listed \subseteq DirectServices
        /\ Cardinality(listed) =< Limit
        /\ Cardinality(lines) =< Limit => LinesOf(listed) = lines
        /\ Cardinality(ServicesOf(DirectServices)) =< Limit
             => ServicesOf(listed) = ServicesOf(DirectServices)

\* The probed departures start with the one asked for, grow, stay within their
\* number and reach as far into the window as there is a vehicle to leave for.
ProbesSpanWindow ==
  phase = "done" =>
    LET probes == DepartureTimes(tt, ask, Window, Limit)
        real == RealDepartures(tt, ask, Window)
    IN  /\ probes[1] = ask.departure /\ Len(probes) =< Max({Limit, 1})
        /\ \A n \in 1 .. Len(probes) - 1 : probes[n] < probes[n + 1]
        /\ \A n \in 2 .. Len(probes) : probes[n] \in real
        /\ Window > 0 /\ Limit > 1 => Last(probes) = Max({ask.departure} \cup real)

\* The walk to the first vehicle ends before the vehicle leaves.
WalkMeetsVehicle ==
  phase = "done" =>
    \A j \in Journeys :
      LET walk == LeadingWalk(Trail(j[1], j[2])) IN walk.exists => walk.arrives =< walk.vehicle
=============================================================================

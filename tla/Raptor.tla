------------------------------- MODULE Raptor --------------------------------
(***************************************************************************)
(* The round-based journey search                                          *)
(* (crates/routing-core/src/lib.rs, raptor_with_stats_excluding_routes).   *)
(*                                                                         *)
(* Round k keeps, per stop, the arrival of the best journey found with     *)
(* exactly k rides (`label`, rounds[k] of the code), the best arrival of   *)
(* any round (`best`) and how the stop was reached (`parent`).  A round    *)
(* scans every route that serves a stop improved by the round before, one  *)
(* stop of the route at a time, and then walks from the stops it improved. *)
(*                                                                         *)
(* The order in which routes are scanned and stops leave the walking queue *)
(* is left open.                                                           *)
(***************************************************************************)
EXTENDS RaptorTimetable

CONSTANTS
  Timetables,  \* timetables to search, made by NewTimetable
  Asks         \* requests (RaptorRequest with the excluded routes)

\* What the search needs of a route, of a timetable and of a request.
IsRoute(route) ==
  /\ route.stops \in Seq(Stop) /\ route.line \in Nat
  /\ IsFiniteSet(DOMAIN route.trips)
  /\ \A n \in DOMAIN route.trips :
       /\ route.trips[n].id \in TripId
       /\ \A i \in 1 .. Len(route.stops) :
            /\ route.trips[n].calls[i].stop \in Stop
            /\ route.trips[n].calls[i].arrival \in Time
            /\ route.trips[n].calls[i].departure \in Time

\* trip_route_indices finds the route of a trip by its identifier.
TripsAreNamed(routes) ==
  \A r, q \in DOMAIN routes : \A n \in DOMAIN routes[r].trips, m \in DOMAIN routes[q].trips :
    routes[r].trips[n].id = routes[q].trips[m].id => r = q /\ n = m

IsTimetable(t) ==
  /\ \A r \in DOMAIN t.routes : IsRoute(t.routes[r])
  /\ 0 \notin DOMAIN t.routes /\ IsFiniteSet(DOMAIN t.routes)
  /\ \A r \in DOMAIN t.routes : 0 \notin DOMAIN t.routes[r].trips
  /\ TripsAreNamed(t.routes)
  /\ t.walk \in [Stop \X Stop -> Time]
  /\ t.change \in [Stop -> Time]

\* RealtimeData bounds the delays of a trip.
IsRealtime(realtime) ==
  /\ realtime.delay \in [TripId -> [Stop -> Int]]
  /\ realtime.late \in [TripId -> Nat] /\ realtime.early \in [TripId -> Nat]
  /\ \A t \in TripId : \A s \in Stop :
       realtime.delay[t][s] =< realtime.late[t] /\ -realtime.delay[t][s] =< realtime.early[t]

IsAsk(a) ==
  /\ a.from \subseteq Stop /\ a.to \subseteq Stop
  /\ a.departure \in Time \ {Infinity}
  /\ a.maxTransfers \in Nat
  /\ a.minTransfer \in Time /\ a.buffer \in Time
  /\ a.walk \in [Stop \X Stop -> Time]
  /\ IsRealtime(a.realtime)

ASSUME TimetablesAssumption == \A t \in Timetables : IsTimetable(t)
ASSUME AsksAssumption == \A a \in Asks : IsAsk(a)

VARIABLES
  tt,       \* the timetable
  ask,      \* the request
  phase,    \* "walk": the queue is worked off; "ride": routes are scanned; "done"
  round,    \* rides in the journeys of this round
  label,    \* rounds: arrival per round and stop
  best,     \* best: arrival per stop over all rounds so far
  bound,    \* `best` when best_target was last computed
  parent,   \* parents: how a label was reached
  marked,   \* stops improved in this round
  queue,    \* stops whose walking links are still to be followed
  served,   \* stops improved in the round before (previous_marked)
  toScan,   \* routes still to be scanned in this round
  scan      \* the route being scanned, the place in it and the trip boarded

request == <<tt, ask>>
labels  == <<label, best, parent, marked>>
vars == <<tt, ask, phase, round, label, best, bound, parent, marked, queue, served, toScan, scan>>

MaxRound(a) == a.maxTransfers + 1

NoParent == [kind |-> "none"]
Walked(from) == [kind |-> "walk", from |-> from]
Rode(r, n, i, j) == [kind |-> "ride", route |-> r, trip |-> n, board |-> i, alight |-> j]

Scanning(r, i, n, b) == [route |-> r, index |-> i, trip |-> n, board |-> b]
NoScan == Scanning(0, 0, 0, 0)

Route(r) == tt.routes[r]
StopAt(r, i) == tt.routes[r].stops[i]
Leaves(r, n, i) == EffectiveDeparture(tt.routes[r], n, i, ask.realtime)
Arrives(r, n, i) == EffectiveArrival(tt.routes[r], n, i, ask.realtime)

Init ==
  /\ tt \in Timetables /\ ask \in Asks
  /\ phase = "walk" /\ round = 0
  /\ label = [k \in 0 .. MaxRound(ask) |->
                [s \in Stop |-> IF k = 0 /\ s \in ask.from THEN ask.departure ELSE Infinity]]
  /\ best = label[0]
  /\ bound = [s \in Stop |-> Infinity]
  /\ parent = [k \in 0 .. MaxRound(ask) |-> [s \in Stop |-> NoParent]]
  /\ marked = ask.from /\ queue = ask.from
  /\ served = {} /\ toScan = {} /\ scan = NoScan

\* Fault: labels that come too late for every target are kept.
BeatsTarget_Always(time, bnd) == TRUE

\* best_target: an arrival can only be of use if it beats every target.
BeatsTarget(time, bnd) == \A s \in ask.to : time < bnd[s]

-----------------------------------------------------------------------------
(* Walking: one stop leaves the queue and its links are followed.          *)

WalkSeconds(a, b) ==
  IF tt.walk[a, b] < ask.walk[a, b] THEN tt.walk[a, b] ELSE ask.walk[a, b]

\* The stops a walk from there improves, and the arrival at one of them.
WalkArrival(from, s) == SatAdd(label[round][from], WalkSeconds(from, s))
WalkReaches(from) ==
  {s \in Stop : BeatsTarget(WalkArrival(from, s), bound) /\ WalkArrival(from, s) < best[s]}

FollowWalks(from) ==
  /\ phase = "walk" /\ from \in queue
  /\ label' = [label EXCEPT ![round] =
                 [s \in Stop |-> IF s \in WalkReaches(from) THEN WalkArrival(from, s) ELSE label[round][s]]]
  /\ best' = [s \in Stop |-> IF s \in WalkReaches(from) THEN WalkArrival(from, s) ELSE best[s]]
  /\ parent' = [parent EXCEPT ![round] =
                  [s \in Stop |-> IF s \in WalkReaches(from) THEN Walked(from) ELSE parent[round][s]]]
  /\ marked' = marked \cup WalkReaches(from)
  /\ queue' = (queue \ {from}) \cup WalkReaches(from)
  /\ UNCHANGED <<tt, ask, phase, round, bound, served, toScan, scan>>

\* The next round scans the routes of the stops the last one improved.
NextRound ==
  /\ phase = "walk" /\ queue = {}
  /\ marked # {} /\ round < MaxRound(ask)
  /\ phase' = "ride" /\ round' = round + 1
  /\ served' = marked /\ marked' = {}
  /\ toScan' = {r \in DOMAIN tt.routes : \E i \in DOMAIN Route(r).stops : StopAt(r, i) \in marked}
  /\ bound' = best
  /\ UNCHANGED <<tt, ask, label, best, parent, queue, scan>>

Finish ==
  /\ phase = "walk" /\ queue = {}
  /\ marked = {} \/ round = MaxRound(ask)
  /\ phase' = "done"
  /\ UNCHANGED <<tt, ask, round, label, best, bound, parent, marked, queue, served, toScan, scan>>

-----------------------------------------------------------------------------
(* Riding: a route is scanned from the first stop improved on.             *)

IsAllowed(r) == Route(r).line \notin ask.excluded /\ Allowed(Route(r), ask)

FirstServed(r, i) ==
  /\ i \in DOMAIN Route(r).stops
  /\ StopAt(r, i) \in served
  /\ \A j \in 1 .. i - 1 : StopAt(r, j) \notin served

OpenRoute(r) ==
  /\ phase = "ride" /\ scan = NoScan /\ r \in toScan
  /\ toScan' = toScan \ {r}
  /\ IF IsAllowed(r)
     THEN \E i \in 1 .. Len(Route(r).stops) :
            FirstServed(r, i) /\ scan' = Scanning(r, i, 0, 0)
     ELSE scan' = scan
  /\ UNCHANGED <<tt, ask, phase, round, bound, queue, served>> /\ UNCHANGED labels

\* How long after arriving at a stop the traveller can board there.
Slack(k, s) ==
  CASE parent[k][s].kind = "walk" -> ask.buffer
    [] parent[k][s].kind = "ride" /\ tt.change[s] # Infinity -> SatAdd(tt.change[s], ask.buffer)
    [] parent[k][s].kind = "none" /\ k = 0 -> 0
    [] OTHER -> SatAdd(ask.minTransfer, ask.buffer)

Ready(k, s) == SatAdd(label[k][s], Slack(k, s))

Catchable(r, i, ready) ==
  {n \in Verified(Route(r), ask.unverified) :
     Route(r).trips[n].calls[i].pickup /\ Leaves(r, n, i) >= ready}

\* Of trips that leave at the same time the one scheduled first, then the one that
\* comes first on the route.
LeavesBefore(r, i, n, m) ==
  LET due(t) == Route(r).trips[t].calls[i].departure IN
  \/ Leaves(r, n, i) < Leaves(r, m, i)
  \/ /\ Leaves(r, n, i) = Leaves(r, m, i)
     /\ due(n) < due(m) \/ (due(n) = due(m) /\ n =< m)

Earliest(r, i, ready) ==
  {n \in Catchable(r, i, ready) : \A m \in Catchable(r, i, ready) : LeavesBefore(r, i, n, m)}

\* The traveller on the scanned route can usefully get off here.
AlightsHere ==
  LET arrival == Arrives(scan.route, scan.trip, scan.index) IN
  /\ scan.trip # 0
  /\ Route(scan.route).trips[scan.trip].calls[scan.index].dropOff
  /\ BeatsTarget(arrival, bound)
  /\ arrival < best[StopAt(scan.route, scan.index)]

Alight ==
  LET s == StopAt(scan.route, scan.index)
      arrival == Arrives(scan.route, scan.trip, scan.index)
  IN  IF AlightsHere
      THEN /\ label' = [label EXCEPT ![round][s] = arrival]
           /\ best' = [best EXCEPT ![s] = arrival]
           /\ parent' = [parent EXCEPT ![round][s] =
                           Rode(scan.route, scan.trip, scan.board, scan.index)]
           /\ marked' = marked \cup {s}
      ELSE UNCHANGED labels

\* A trip to change to at this stop: it leaves before the one the traveller is on.
BoardsHere(n) ==
  LET r == scan.route  i == scan.index  s == StopAt(r, i) IN
  /\ label[round - 1][s] # Infinity
  /\ n \in Earliest(r, i, Ready(round - 1, s))
  /\ scan.trip # 0 => Leaves(r, n, i) < Leaves(r, scan.trip, i)

ToNextStop(trip, board) ==
  scan' = IF scan.index = Len(Route(scan.route).stops) THEN NoScan
          ELSE Scanning(scan.route, scan.index + 1, trip, board)

ScanStop ==
  /\ phase = "ride" /\ scan # NoScan
  /\ Alight
  /\ \/ \E n \in DOMAIN Route(scan.route).trips : BoardsHere(n) /\ ToNextStop(n, scan.index)
     \/ /\ \A n \in DOMAIN Route(scan.route).trips : ~BoardsHere(n)
        /\ ToNextStop(scan.trip, scan.board)
  /\ UNCHANGED <<tt, ask, phase, round, bound, queue, served, toScan>>

\* All routes are scanned: walk on from the stops this round improved.
WalkOn ==
  /\ phase = "ride" /\ scan = NoScan /\ toScan = {}
  /\ phase' = "walk" /\ queue' = marked /\ bound' = best
  /\ UNCHANGED <<tt, ask, round, served, toScan, scan>> /\ UNCHANGED labels

Next ==
  \/ \E s \in Stop : FollowWalks(s)
  \/ NextRound
  \/ Finish
  \/ \E r \in toScan : OpenRoute(r)
  \/ ScanStop
  \/ WalkOn

Spec == Init /\ [][Next]_vars

-----------------------------------------------------------------------------
(* What the search promises.                                               *)

TypeOK ==
  /\ IsTimetable(tt) /\ IsAsk(ask)
  /\ phase \in {"walk", "ride", "done"}
  /\ round \in 0 .. MaxRound(ask) /\ (phase = "ride" => round > 0)
  /\ label \in [0 .. MaxRound(ask) -> [Stop -> Time]]
  /\ best \in [Stop -> Time] /\ bound \in [Stop -> Time]
  /\ DOMAIN parent = 0 .. MaxRound(ask)
  /\ \A k \in 0 .. MaxRound(ask) : DOMAIN parent[k] = Stop
  /\ marked \subseteq Stop /\ queue \subseteq Stop /\ served \subseteq Stop
  /\ toScan \subseteq DOMAIN tt.routes
  /\ scan = NoScan \/ /\ phase = "ride"
                      /\ scan.route \in DOMAIN tt.routes
                      /\ scan.index \in 1 .. Len(Route(scan.route).stops)
                      /\ scan.trip \in {0} \cup DOMAIN Route(scan.route).trips

\* A traveller who reached stop i of the route with k rides can board trip n there.
CanBoard(k, r, n, i) ==
  /\ label[k][StopAt(r, i)] # Infinity
  /\ Route(r).trips[n].calls[i].pickup
  /\ ask.unverified \/ Route(r).trips[n].verified
  /\ Leaves(r, n, i) >= Ready(k, StopAt(r, i))

\* The label of a stop is the time of a move its parent made possible: the start, a
\* walk from a stop of the same round, or a ride on a trip that was caught.
IsReached(k, s) ==
  LET p == parent[k][s] IN
  \/ /\ p = NoParent /\ k = 0 /\ s \in ask.from /\ label[k][s] = ask.departure
  \/ /\ p.kind = "walk" /\ p.from \in Stop
     /\ SatAdd(label[k][p.from], WalkSeconds(p.from, s)) =< label[k][s]
  \/ /\ p.kind = "ride" /\ k > 0
     /\ p.route \in DOMAIN tt.routes /\ IsAllowed(p.route)
     /\ p.trip \in DOMAIN Route(p.route).trips
     /\ p.board \in 1 .. Len(Route(p.route).stops) /\ p.alight \in 1 .. Len(Route(p.route).stops)
     /\ p.board < p.alight /\ StopAt(p.route, p.alight) = s
     /\ CanBoard(k - 1, p.route, p.trip, p.board)
     /\ Route(p.route).trips[p.trip].calls[p.alight].dropOff
     /\ label[k][s] = Arrives(p.route, p.trip, p.alight)

\* No missed connections: every leg of every journey under construction can be
\* made, with the delays of the feed and the change times counted, and respects
\* pick-up, drop-off, mode, exclusion and service verification.
LegsAreCaught ==
  \A k \in 0 .. MaxRound(ask), s \in Stop : label[k][s] # Infinity => IsReached(k, s)

\* A journey with more rides is only offered if it arrives strictly earlier at the
\* targets than every journey with fewer rides.
ParetoFront ==
  \A k \in 0 .. MaxRound(ask), j \in 0 .. MaxRound(ask), s \in ask.to, t \in ask.to :
    j < k /\ label[k][s] # Infinity => label[k][s] < label[j][t]

\* Later rounds are untouched, `best` is below every label and `bound` below every
\* label of the rounds before.
RoundsAhead ==
  \A k \in 0 .. MaxRound(ask), s \in Stop :
    k > round => label[k][s] = Infinity
BestIsBest == \A k \in 0 .. MaxRound(ask), s \in Stop : best[s] =< label[k][s]
BoundHolds ==
  \A k \in 0 .. MaxRound(ask), s \in Stop : k < round => bound[s] =< label[k][s]

\* Walks do not lead back to themselves, although a link may take no time.
WalksLeadBack ==
  \A k \in 0 .. MaxRound(ask) : \A C \in SUBSET Stop :
    C # {} /\ (\A s \in C : label[k][s] # Infinity) =>
      \E s \in C : ~(parent[k][s].kind = "walk" /\ parent[k][s].from \in C)

\* The trip the scan is on was boarded at an earlier stop of an allowed route.
ScanIsCaught ==
  scan # NoScan =>
    /\ IsAllowed(scan.route)
    /\ scan.trip # 0 => /\ scan.board \in 1 .. scan.index - 1
                        /\ CanBoard(round - 1, scan.route, scan.trip, scan.board)

IInv ==
  /\ TypeOK /\ RoundsAhead /\ BestIsBest /\ BoundHolds
  /\ ParetoFront /\ LegsAreCaught /\ ScanIsCaught
=============================================================================

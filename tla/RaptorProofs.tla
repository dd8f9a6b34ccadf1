----------------------------- MODULE RaptorProofs -----------------------------
(***************************************************************************)
(* For every set of timetables and requests: the labels of the search are  *)
(* times of journeys that can be made, every journey with more rides       *)
(* arrives earlier, and in a regular timetable no journey arrives before   *)
(* those found.  IInv is the inductive invariant of module Raptor.         *)
(***************************************************************************)
EXTENDS RaptorJourney, FiniteSetTheorems, WellFoundedInduction, TLAPS

-----------------------------------------------------------------------------
(* Arithmetic of times.                                                    *)

LEMMA SatAddTime ==
  ASSUME NEW x \in Time, NEW y \in Time
  PROVE  /\ SatAdd(x, y) \in Time
         /\ SatAdd(x, y) >= x
BY TimeAssumption DEF SatAdd, Time

LEMMA SatAddMonotone ==
  ASSUME NEW x \in Time, NEW y \in Time, NEW z \in Time, x =< y
  PROVE  SatAdd(x, z) =< SatAdd(y, z)
BY TimeAssumption DEF SatAdd, Time

LEMMA ApplyDelayTime ==
  ASSUME NEW x \in Time, NEW delay \in Int
  PROVE  ApplyDelay(x, delay) \in Time
BY TimeAssumption DEF ApplyDelay, SatAdd, SatSub, Time

\* A vehicle of the timetable arrives at a time, whatever its delay.
LEMMA ArrivesTime ==
  ASSUME IsTimetable(tt), IsAsk(ask),
         NEW r \in DOMAIN tt.routes, NEW n \in DOMAIN Route(r).trips,
         NEW i \in 1 .. Len(Route(r).stops)
  PROVE  Arrives(r, n, i) \in Time
<1> DEFINE trip == tt.routes[r].trips[n]
<1>1. /\ trip.id \in TripId /\ trip.calls[i].stop \in Stop /\ trip.calls[i].arrival \in Time
  BY DEF IsTimetable, IsRoute, Route
<1>2. ask.realtime.delay[trip.id][trip.calls[i].stop] \in Int
  <2>. HIDE DEF trip
  <2>1. ask.realtime.delay \in [TripId -> [Stop -> Int]]
    BY DEF IsAsk, IsRealtime
  <2> QED
    BY <1>1, <2>1
<1> QED
  BY <1>1, <1>2, ApplyDelayTime DEF Arrives, EffectiveArrival

LEMMA LeavesTime ==
  ASSUME IsTimetable(tt), IsAsk(ask),
         NEW r \in DOMAIN tt.routes, NEW n \in DOMAIN Route(r).trips,
         NEW i \in 1 .. Len(Route(r).stops)
  PROVE  Leaves(r, n, i) \in Time
<1> DEFINE trip == tt.routes[r].trips[n]
<1>1. /\ trip.id \in TripId /\ trip.calls[i].stop \in Stop /\ trip.calls[i].departure \in Time
  BY DEF IsTimetable, IsRoute, Route
<1>2. ask.realtime.delay[trip.id][trip.calls[i].stop] \in Int
  <2>. HIDE DEF trip
  <2>1. ask.realtime.delay \in [TripId -> [Stop -> Int]]
    BY DEF IsAsk, IsRealtime
  <2> QED
    BY <1>1, <2>1
<1> QED
  BY <1>1, <1>2, ApplyDelayTime DEF Leaves, EffectiveDeparture

LEMMA StopAtStop ==
  ASSUME IsTimetable(tt), NEW r \in DOMAIN tt.routes, NEW i \in 1 .. Len(Route(r).stops)
  PROVE  StopAt(r, i) \in Stop
<1>1. tt.routes[r].stops \in Seq(Stop)
  BY DEF IsTimetable, IsRoute
<1> QED
  BY <1>1 DEF StopAt, Route

LEMMA WalkSecondsTime ==
  ASSUME IsTimetable(tt), IsAsk(ask), NEW x \in Stop, NEW y \in Stop
  PROVE  WalkSeconds(x, y) \in Time
<1>1. tt.walk \in [Stop \X Stop -> Time] /\ ask.walk \in [Stop \X Stop -> Time]
  BY DEF IsTimetable, IsAsk
<1>2. <<x, y>> \in Stop \X Stop
  OBVIOUS
<1>3. tt.walk[x, y] \in Time /\ ask.walk[x, y] \in Time
  BY ONLY <1>1, <1>2, Zenon
<1> QED
  BY <1>3 DEF WalkSeconds

-----------------------------------------------------------------------------
(* What a move depends on.                                                 *)

\* Whether a trip can be boarded after k rides depends on round k only.
LEMMA BoardingKept ==
  ASSUME NEW k, NEW r, NEW n, NEW i,
         tt' = tt, ask' = ask, label'[k] = label[k], parent'[k] = parent[k],
         CanBoard(k, r, n, i)
  PROVE  CanBoard(k, r, n, i)'
BY DEF CanBoard, Ready, Slack, StopAt, Route, Leaves

\* A label that is not touched stays reached while the round before keeps its labels
\* and those of its own round only decrease.
LEMMA ReachedKept ==
  ASSUME TypeOK, NEW k \in 0 .. MaxRound(ask), NEW s \in Stop,
         tt' = tt, ask' = ask,
         label'[k][s] = label[k][s], parent'[k][s] = parent[k][s],
         \A p \in Stop : label'[k][p] \in Time /\ label'[k][p] =< label[k][p],
         k > 0 => label'[k - 1] = label[k - 1] /\ parent'[k - 1] = parent[k - 1],
         IsReached(k, s)
  PROVE  IsReached(k, s)'
<1> DEFINE p == parent[k][s]
<1>1. CASE p = NoParent /\ k = 0 /\ s \in ask.from /\ label[k][s] = ask.departure
  BY <1>1 DEF IsReached
<1>2. CASE /\ p.kind = "walk" /\ p.from \in Stop
           /\ SatAdd(label[k][p.from], WalkSeconds(p.from, s)) =< label[k][s]
  <2>1. WalkSeconds(p.from, s) \in Time /\ WalkSeconds(p.from, s)' = WalkSeconds(p.from, s)
    BY <1>2, WalkSecondsTime DEF TypeOK, WalkSeconds
  <2>2. label[k][p.from] \in Time /\ label[k][s] \in Time
    BY <1>2 DEF TypeOK
  <2>3. SatAdd(label'[k][p.from], WalkSeconds(p.from, s)) =< SatAdd(label[k][p.from], WalkSeconds(p.from, s))
    BY <1>2, <2>1, <2>2, SatAddMonotone
  <2>4. /\ SatAdd(label'[k][p.from], WalkSeconds(p.from, s)) \in Time
        /\ SatAdd(label[k][p.from], WalkSeconds(p.from, s)) \in Time
    BY <1>2, <2>1, <2>2, SatAddTime
  <2>5. SatAdd(label'[k][p.from], WalkSeconds(p.from, s)) =< label[k][s]
    BY <1>2, <2>2, <2>3, <2>4, TimeAssumption DEF Time
  <2> QED
    BY <1>2, <2>1, <2>5 DEF IsReached
<1>3. CASE p.kind = "ride" /\ k > 0
           /\ p.route \in DOMAIN tt.routes /\ IsAllowed(p.route)
           /\ p.trip \in DOMAIN Route(p.route).trips
           /\ p.board \in 1 .. Len(Route(p.route).stops) /\ p.alight \in 1 .. Len(Route(p.route).stops)
           /\ p.board < p.alight /\ StopAt(p.route, p.alight) = s
           /\ CanBoard(k - 1, p.route, p.trip, p.board)
           /\ Route(p.route).trips[p.trip].calls[p.alight].dropOff
           /\ label[k][s] = Arrives(p.route, p.trip, p.alight)
  <2>1. CanBoard(k - 1, p.route, p.trip, p.board)'
    BY <1>3, BoardingKept
  <2>2. /\ IsAllowed(p.route)' = IsAllowed(p.route)
        /\ Arrives(p.route, p.trip, p.alight)' = Arrives(p.route, p.trip, p.alight)
        /\ StopAt(p.route, p.alight)' = StopAt(p.route, p.alight)
        /\ Route(p.route)' = Route(p.route)
    BY DEF IsAllowed, Arrives, StopAt, Route
  <2> QED
    BY <1>3, <2>1, <2>2 DEF IsReached
<1> QED
  BY <1>1, <1>2, <1>3 DEF IsReached


-----------------------------------------------------------------------------
(* The initial states.                                                     *)

LEMMA InitInvariant == Init => IInv
<1> SUFFICES ASSUME Init PROVE IInv
  OBVIOUS
<1>1. IsTimetable(tt) /\ IsAsk(ask)
  BY TimetablesAssumption, AsksAssumption DEF Init
<1>2. ask.departure \in Time /\ ask.departure # Infinity /\ Infinity \in Time
      /\ MaxRound(ask) \in Nat /\ MaxRound(ask) >= 1 /\ ask.from \subseteq Stop
  BY <1>1, TimeAssumption DEF IsAsk, MaxRound, Time
<1>3. \A k \in 0 .. MaxRound(ask), s \in Stop :
        label[k][s] = IF k = 0 /\ s \in ask.from THEN ask.departure ELSE Infinity
  BY DEF Init
<1>4. \A s \in Stop : best[s] = IF s \in ask.from THEN ask.departure ELSE Infinity
  BY <1>2 DEF Init
<1>5. TypeOK
  <2>1. label \in [0 .. MaxRound(ask) -> [Stop -> Time]]
    BY <1>2 DEF Init
  <2>2. best \in [Stop -> Time] /\ bound \in [Stop -> Time]
    BY <1>2, <2>1 DEF Init
  <2>3. DOMAIN parent = 0 .. MaxRound(ask) /\ \A k \in 0 .. MaxRound(ask) : DOMAIN parent[k] = Stop
    BY DEF Init
  <2> QED
    BY <1>1, <1>2, <2>1, <2>2, <2>3 DEF TypeOK, Init
<1>6. RoundsAhead
  BY <1>2, <1>3 DEF RoundsAhead, Init
<1>7. BestIsBest
  BY <1>2, <1>3, <1>4 DEF BestIsBest, Time
<1>8. BoundHolds
  BY DEF BoundHolds, Init
<1>9. ParetoFront
  <2>1. ask.to \subseteq Stop
    BY <1>1 DEF IsAsk
  <2> QED
    BY <1>2, <1>3, <2>1 DEF ParetoFront
<1>10. LegsAreCaught
  <2> SUFFICES ASSUME NEW k \in 0 .. MaxRound(ask), NEW s \in Stop, label[k][s] # Infinity
               PROVE  IsReached(k, s)
    BY DEF LegsAreCaught
  <2>1. k = 0 /\ s \in ask.from /\ label[k][s] = ask.departure
    BY <1>3
  <2>2. parent[k][s] = NoParent
    BY DEF Init
  <2> QED
    BY <2>1, <2>2 DEF IsReached
<1>11. ScanIsCaught
  BY DEF ScanIsCaught, Init
<1> QED
  BY <1>5, <1>6, <1>7, <1>8, <1>9, <1>10, <1>11 DEF IInv

-----------------------------------------------------------------------------
(* Walking.                                                                *)

LEMMA WalkingKeeps ==
  ASSUME IInv, NEW from \in Stop, FollowWalks(from)
  PROVE  IInv'
<1> DEFINE time(s) == WalkArrival(from, s)
           new == WalkReaches(from)
<1>0. /\ TypeOK /\ RoundsAhead /\ BestIsBest /\ BoundHolds /\ ParetoFront
      /\ LegsAreCaught /\ ScanIsCaught
  BY DEF IInv
<1>1. /\ IsTimetable(tt) /\ IsAsk(ask) /\ MaxRound(ask) \in Nat
      /\ round \in 0 .. MaxRound(ask) /\ ask.to \subseteq Stop
      /\ label \in [0 .. MaxRound(ask) -> [Stop -> Time]]
      /\ best \in [Stop -> Time] /\ bound \in [Stop -> Time]
      /\ tt' = tt /\ ask' = ask /\ phase' = phase /\ round' = round /\ bound' = bound
      /\ MaxRound(ask)' = MaxRound(ask)
  BY <1>0 DEF TypeOK, FollowWalks, IsAsk, MaxRound
<1>2. \A s \in Stop : time(s) \in Time /\ time(s) >= label[round][from]
  BY <1>1, WalkSecondsTime, SatAddTime DEF WalkArrival
<1>3. from \notin new
  <2>1. best[from] \in Time /\ label[round][from] \in Time /\ best[from] =< label[round][from]
    BY <1>0, <1>1 DEF BestIsBest
  <2>2. ~(time(from) < best[from])
    BY <1>2, <2>1, TimeAssumption DEF Time
  <2> QED
    BY <2>2 DEF WalkReaches
<1>4. new \subseteq Stop /\ \A s \in new : time(s) < best[s] /\ \A t \in ask.to : time(s) < bound[t]
  BY DEF WalkReaches, BeatsTarget
<1>5. /\ \A k \in 0 .. MaxRound(ask), s \in Stop :
           label'[k][s] = IF k = round /\ s \in new THEN time(s) ELSE label[k][s]
      /\ \A k \in 0 .. MaxRound(ask) : k # round => label'[k] = label[k] /\ parent'[k] = parent[k]
  BY <1>1, <1>0 DEF FollowWalks, TypeOK
<1>6. \A k \in 0 .. MaxRound(ask), s \in Stop :
        parent'[k][s] = IF k = round /\ s \in new THEN Walked(from) ELSE parent[k][s]
  BY <1>0, <1>1 DEF FollowWalks, TypeOK
<1>7. \A s \in Stop : best'[s] = IF s \in new THEN time(s) ELSE best[s]
  BY DEF FollowWalks
<1>8. \A k \in 0 .. MaxRound(ask), s \in Stop : label'[k][s] \in Time /\ label'[k][s] =< label[k][s]
  <2> TAKE k \in 0 .. MaxRound(ask), s \in Stop
  <2>1. label[k][s] \in Time /\ best[s] \in Time /\ best[s] =< label[k][s]
    BY <1>0, <1>1 DEF BestIsBest
  <2>2. s \in new => time(s) \in Time /\ time(s) < best[s]
    BY <1>2, <1>4
  <2> QED
    BY <1>5, <2>1, <2>2 DEF Time
<1>9. TypeOK'
  <2>1. label' \in [0 .. MaxRound(ask) -> [Stop -> Time]]
    <3>1. [s \in Stop |-> IF s \in new THEN time(s) ELSE label[round][s]] \in [Stop -> Time]
      BY <1>1, <1>2
    <3> QED
      BY <1>1, <3>1 DEF FollowWalks
  <2>2. best' \in [Stop -> Time]
    BY <1>1, <1>2 DEF FollowWalks
  <2>3. /\ DOMAIN parent' = 0 .. MaxRound(ask)
        /\ \A k \in 0 .. MaxRound(ask) : DOMAIN parent'[k] = Stop
    BY <1>0, <1>1 DEF FollowWalks, TypeOK
  <2> QED
    BY <1>0, <1>1, <1>4, <2>1, <2>2, <2>3 DEF FollowWalks, TypeOK, Route
<1>10. RoundsAhead'
  BY <1>0, <1>1, <1>5 DEF RoundsAhead
<1>11. BestIsBest'
  <2> SUFFICES ASSUME NEW k \in 0 .. MaxRound(ask), NEW s \in Stop PROVE best'[s] =< label'[k][s]
    BY <1>1 DEF BestIsBest
  <2>1. best[s] =< label[k][s] /\ best[s] \in Time /\ label[k][s] \in Time
    BY <1>0, <1>1 DEF BestIsBest
  <2>2. s \in new => time(s) < best[s] /\ time(s) \in Time
    BY <1>2, <1>4
  <2> QED
    BY <1>5, <1>7, <2>1, <2>2 DEF Time
<1>12. BoundHolds'
  BY <1>0, <1>1, <1>5 DEF BoundHolds
<1>13. ParetoFront'
  <2> SUFFICES ASSUME NEW k \in 0 .. MaxRound(ask), NEW j \in 0 .. MaxRound(ask),
                      NEW s \in ask.to, NEW t \in ask.to, j < k, label'[k][s] # Infinity
               PROVE  label'[k][s] < label'[j][t]
    BY <1>1 DEF ParetoFront
  <2>1. CASE k > round
    BY <2>1, <1>0, <1>1, <1>5 DEF RoundsAhead
  <2>2. CASE k = round /\ s \in new
    <3>1. label'[j][t] = label[j][t] /\ label[j][t] \in Time /\ bound[t] =< label[j][t] /\ bound[t] \in Time
      BY <2>2, <1>0, <1>1, <1>5 DEF BoundHolds
    <3>2. time(s) < bound[t] /\ time(s) \in Time /\ label'[k][s] = time(s)
      BY <2>2, <1>1, <1>2, <1>4, <1>5
    <3> QED
      BY <3>1, <3>2 DEF Time
  <2>3. CASE k < round \/ (k = round /\ s \notin new)
    <3>1. label'[k][s] = label[k][s] /\ label'[j][t] = label[j][t]
      BY <2>3, <1>1, <1>5
    <3> QED
      BY <3>1, <1>0, <1>1 DEF ParetoFront
  <2> QED
    BY <2>1, <2>2, <2>3, <1>1
<1>14. LegsAreCaught'
  <2> SUFFICES ASSUME NEW k \in 0 .. MaxRound(ask), NEW s \in Stop, label'[k][s] # Infinity
               PROVE  IsReached(k, s)'
    BY <1>1 DEF LegsAreCaught
  <2>1. CASE k = round /\ s \in new
    <3>1. label'[k][from] = label[k][from] /\ label'[k][s] = time(s) /\ parent'[k][s] = Walked(from)
      BY <2>1, <1>1, <1>3, <1>5, <1>6
    <3>2. SatAdd(label'[k][from], WalkSeconds(from, s)') = time(s)
      BY <2>1, <3>1, <1>1 DEF WalkArrival, WalkSeconds
    <3> QED
      BY <3>1, <3>2, <1>2 DEF IsReached, Walked, Time
  <2>2. CASE ~(k = round /\ s \in new)
    <3>1. label'[k][s] = label[k][s] /\ parent'[k][s] = parent[k][s]
      BY <2>2, <1>5, <1>6
    <3>2. IsReached(k, s)
      BY <3>1, <1>0 DEF LegsAreCaught
    <3>3. k > 0 => label'[k - 1] = label[k - 1] /\ parent'[k - 1] = parent[k - 1]
      <4>1. label[k][s] # Infinity
        BY <3>1
      <4>2. k =< round
        BY <4>1, <1>0, <1>1 DEF RoundsAhead
      <4> QED
        BY <4>2, <1>1, <1>5
    <3> QED
      BY <3>1, <3>2, <3>3, <1>0, <1>1, <1>8, ReachedKept
  <2> QED
    BY <2>1, <2>2
<1>15. ScanIsCaught'
  BY <1>0, <1>1 DEF ScanIsCaught, TypeOK, FollowWalks
<1> QED
  BY <1>9, <1>10, <1>11, <1>12, <1>13, <1>14, <1>15 DEF IInv


-----------------------------------------------------------------------------
(* The steps that only change the phase.                                   *)

\* Labels, timetable and request stay: only what depends on the round is to be shown.
LEMMA LabelsKept ==
  ASSUME IInv, label' = label, best' = best, parent' = parent,
         UNCHANGED request, round' \in 0 .. MaxRound(ask), round' >= round
  PROVE  BestIsBest' /\ RoundsAhead' /\ ParetoFront' /\ LegsAreCaught'
<1>1. /\ tt' = tt /\ ask' = ask /\ round \in 0 .. MaxRound(ask) /\ MaxRound(ask) \in Nat
  BY DEF request, IInv, TypeOK, IsAsk, MaxRound
<1>2. BestIsBest' /\ ParetoFront'
  BY <1>1 DEF IInv, BestIsBest, ParetoFront, MaxRound
<1>3. RoundsAhead'
  BY <1>1 DEF IInv, RoundsAhead, MaxRound
<1>4. LegsAreCaught'
  <2> SUFFICES ASSUME NEW k \in 0 .. MaxRound(ask), NEW s \in Stop, label[k][s] # Infinity
               PROVE  IsReached(k, s)'
    BY <1>1 DEF LegsAreCaught, MaxRound
  <2>1. IsReached(k, s)
    BY DEF IInv, LegsAreCaught
  <2>2. \A p \in Stop : label'[k][p] \in Time /\ label'[k][p] =< label[k][p]
    <3>1. \A p \in Stop : label[k][p] \in Time
      BY DEF IInv, TypeOK
    <3> QED
      BY <3>1, TimeAssumption DEF Time
  <2> QED
    BY <1>1, <2>1, <2>2, ReachedKept DEF IInv
<1> QED
  BY <1>2, <1>3, <1>4

LEMMA RoundKeeps ==
  ASSUME IInv, NextRound
  PROVE  IInv'
<1>1. /\ round \in 0 .. MaxRound(ask) /\ MaxRound(ask) \in Nat
      /\ best \in [Stop -> Time] /\ scan = NoScan /\ marked \subseteq Stop
  BY DEF IInv, TypeOK, NextRound, IsAsk, MaxRound
<1>2. /\ label' = label /\ best' = best /\ parent' = parent /\ tt' = tt /\ ask' = ask
      /\ round' = round + 1 /\ round' \in 0 .. MaxRound(ask) /\ bound' = best
      /\ scan' = NoScan /\ MaxRound(ask)' = MaxRound(ask)
  BY <1>1 DEF NextRound, MaxRound
<1>3. TypeOK'
  <2>1. toScan' \subseteq DOMAIN tt.routes
    BY DEF NextRound
  <2> QED
    BY <1>1, <1>2, <2>1 DEF IInv, TypeOK, NextRound
<1>4. BestIsBest' /\ RoundsAhead' /\ ParetoFront' /\ LegsAreCaught'
  BY <1>1, <1>2, LabelsKept DEF request
<1>5. BoundHolds'
  BY <1>2 DEF IInv, BestIsBest, BoundHolds
<1>6. ScanIsCaught'
  BY <1>2 DEF ScanIsCaught
<1> QED
  BY <1>3, <1>4, <1>5, <1>6 DEF IInv

LEMMA FinishKeeps ==
  ASSUME IInv, Finish
  PROVE  IInv'
<1>1. /\ round' = round /\ bound' = bound /\ scan' = scan /\ UNCHANGED labels /\ UNCHANGED request
      /\ scan = NoScan /\ round \in 0 .. MaxRound(ask) /\ MaxRound(ask) \in Nat
  BY DEF Finish, labels, request, IInv, TypeOK, IsAsk, MaxRound
<1>2. BestIsBest' /\ RoundsAhead' /\ ParetoFront' /\ LegsAreCaught'
  BY <1>1, LabelsKept DEF labels
<1>3. TypeOK' /\ BoundHolds' /\ ScanIsCaught'
  BY <1>1 DEF IInv, TypeOK, BoundHolds, ScanIsCaught, Finish, MaxRound
<1> QED
  BY <1>2, <1>3 DEF IInv

LEMMA WalkOnKeeps ==
  ASSUME IInv, WalkOn
  PROVE  IInv'
<1>1. /\ round' = round /\ bound' = best /\ scan' = NoScan /\ UNCHANGED labels /\ UNCHANGED request
      /\ round \in 0 .. MaxRound(ask) /\ MaxRound(ask) \in Nat
  BY DEF WalkOn, labels, request, IInv, TypeOK, IsAsk, MaxRound
<1>2. BestIsBest' /\ RoundsAhead' /\ ParetoFront' /\ LegsAreCaught'
  BY <1>1, LabelsKept DEF labels
<1>3. TypeOK' /\ ScanIsCaught'
  BY <1>1 DEF IInv, TypeOK, ScanIsCaught, WalkOn, MaxRound, labels, request
<1>4. BoundHolds'
  BY <1>1 DEF IInv, BestIsBest, BoundHolds, MaxRound, labels, request
<1> QED
  BY <1>2, <1>3, <1>4 DEF IInv

LEMMA OpenKeeps ==
  ASSUME IInv, NEW r \in toScan, OpenRoute(r)
  PROVE  IInv'
<1>1. /\ round' = round /\ bound' = bound /\ UNCHANGED labels /\ UNCHANGED request
      /\ round \in 0 .. MaxRound(ask) /\ MaxRound(ask) \in Nat /\ r \in DOMAIN tt.routes
  <2>1. /\ round' = round /\ bound' = bound /\ UNCHANGED labels /\ UNCHANGED request
    BY DEF OpenRoute, request
  <2>2. round \in 0 .. MaxRound(ask) /\ MaxRound(ask) \in Nat /\ r \in DOMAIN tt.routes
    BY DEF IInv, TypeOK, IsAsk, MaxRound
  <2> QED
    BY <2>1, <2>2
<1>2. BestIsBest' /\ RoundsAhead' /\ ParetoFront' /\ LegsAreCaught'
  BY <1>1, LabelsKept DEF labels
<1>3. BoundHolds'
  BY <1>1 DEF IInv, BoundHolds, MaxRound, labels, request
<1>4. CASE ~IsAllowed(r)
  <2>1. scan' = NoScan
    BY <1>4 DEF OpenRoute
  <2>2. TypeOK' /\ ScanIsCaught'
    BY <1>1, <2>1 DEF IInv, TypeOK, ScanIsCaught, OpenRoute, MaxRound, labels, request
  <2> QED
    BY <1>2, <1>3, <2>2 DEF IInv
<1>5. CASE IsAllowed(r)
  <2>1. PICK i \in 1 .. Len(Route(r).stops) : scan' = Scanning(r, i, 0, 0)
    BY <1>5 DEF OpenRoute
  <2>2. scan'.route = r /\ scan'.index = i /\ scan'.trip = 0
    BY <2>1 DEF Scanning
  <2>3. phase' = "ride" /\ round' > 0
    <3>1. phase = "ride" /\ phase' = phase
      BY DEF OpenRoute
    <3> QED
      BY <3>1, <1>1 DEF IInv, TypeOK
  <2>4. TypeOK'
    BY <1>1, <2>2, <2>3 DEF IInv, TypeOK, OpenRoute, MaxRound, Route, labels, request
  <2>5. ScanIsCaught'
    BY <1>1, <1>5, <2>2 DEF ScanIsCaught, IsAllowed, Route, request
  <2> QED
    BY <1>2, <1>3, <2>4, <2>5 DEF IInv
<1> QED
  BY <1>4, <1>5


-----------------------------------------------------------------------------
(* Riding.                                                                 *)

LEMMA ScanKeeps ==
  ASSUME IInv, ScanStop
  PROVE  IInv'
<1>p. PICK r, i, n, b, s, arrival :
        /\ r = scan.route /\ i = scan.index /\ n = scan.trip /\ b = scan.board
        /\ s = StopAt(r, i) /\ arrival = Arrives(r, n, i)
  OBVIOUS
<1>0. /\ TypeOK /\ RoundsAhead /\ BestIsBest /\ BoundHolds /\ ParetoFront
      /\ LegsAreCaught /\ ScanIsCaught
  BY DEF IInv
<1>1. /\ IsTimetable(tt) /\ IsAsk(ask) /\ MaxRound(ask) \in Nat /\ ask.to \subseteq Stop
      /\ round \in 0 .. MaxRound(ask) /\ round > 0
      /\ label \in [0 .. MaxRound(ask) -> [Stop -> Time]]
      /\ best \in [Stop -> Time] /\ bound \in [Stop -> Time]
      /\ r \in DOMAIN tt.routes /\ i \in 1 .. Len(Route(r).stops)
      /\ n \in {0} \cup DOMAIN Route(r).trips
  BY <1>0, <1>p DEF TypeOK, ScanStop, IsAsk, MaxRound
<1>2. s \in Stop
  BY <1>1, <1>p, StopAtStop
<1>3. /\ tt' = tt /\ ask' = ask /\ phase' = phase /\ round' = round /\ bound' = bound
      /\ MaxRound(ask)' = MaxRound(ask) /\ queue' = queue /\ served' = served /\ toScan' = toScan
  BY DEF ScanStop, MaxRound
<1>4. /\ IsAllowed(r)
      /\ n # 0 => b \in 1 .. i - 1 /\ CanBoard(round - 1, r, n, b)
  BY <1>0, <1>p DEF ScanIsCaught, ScanStop
<1>5. AlightsHere => arrival \in Time /\ arrival < best[s] /\ \A t \in ask.to : arrival < bound[t]
  <2> SUFFICES ASSUME AlightsHere
               PROVE  arrival \in Time /\ arrival < best[s] /\ \A t \in ask.to : arrival < bound[t]
    OBVIOUS
  <2>1. n \in DOMAIN Route(r).trips
    BY <1>1, <1>p DEF AlightsHere
  <2> QED
    BY <1>1, <1>p, <2>1, ArrivesTime DEF AlightsHere, BeatsTarget
<1>6. /\ \A k \in 0 .. MaxRound(ask), x \in Stop :
           label'[k][x] = IF AlightsHere /\ k = round /\ x = s THEN arrival ELSE label[k][x]
      /\ \A k \in 0 .. MaxRound(ask), x \in Stop :
           parent'[k][x] = IF AlightsHere /\ k = round /\ x = s
                           THEN Rode(r, n, b, i) ELSE parent[k][x]
      /\ \A k \in 0 .. MaxRound(ask) : k # round => label'[k] = label[k] /\ parent'[k] = parent[k]
      /\ \A x \in Stop : best'[x] = IF AlightsHere /\ x = s THEN arrival ELSE best[x]
      /\ marked' \subseteq Stop
  <2>1. CASE AlightsHere
    <3>1. /\ label' = [label EXCEPT ![round][s] = arrival]
          /\ best' = [best EXCEPT ![s] = arrival]
          /\ parent' = [parent EXCEPT ![round][s] = Rode(r, n, b, i)]
          /\ marked' = marked \cup {s}
      BY <2>1, <1>p DEF ScanStop, Alight
    <3>2. /\ DOMAIN parent = 0 .. MaxRound(ask) /\ marked \subseteq Stop
          /\ \A k \in 0 .. MaxRound(ask) : DOMAIN parent[k] = Stop
      BY <1>0 DEF TypeOK
    <3> QED
      BY <2>1, <3>1, <3>2, <1>1, <1>2
  <2>2. CASE ~AlightsHere
    BY <2>2, <1>0 DEF ScanStop, Alight, labels, TypeOK
  <2> QED
    BY <2>1, <2>2
<1>7. \A k \in 0 .. MaxRound(ask), x \in Stop : label'[k][x] \in Time /\ label'[k][x] =< label[k][x]
  <2> TAKE k \in 0 .. MaxRound(ask), x \in Stop
  <2>1. label[k][x] \in Time /\ best[x] \in Time /\ best[x] =< label[k][x]
    BY <1>0, <1>1 DEF BestIsBest
  <2> QED
    BY <1>5, <1>6, <2>1, TimeAssumption DEF Time
<1>8. /\ label' \in [0 .. MaxRound(ask) -> [Stop -> Time]] /\ best' \in [Stop -> Time]
      /\ DOMAIN parent' = 0 .. MaxRound(ask) /\ \A k \in 0 .. MaxRound(ask) : DOMAIN parent'[k] = Stop
  <2>1. CASE AlightsHere
    <3>1. label' = [label EXCEPT ![round][s] = arrival] /\ arrival \in Time
      BY <2>1, <1>p, <1>5 DEF ScanStop, Alight
    <3>2. best' = [best EXCEPT ![s] = arrival]
      BY <2>1, <1>p DEF ScanStop, Alight
    <3>3. parent' = [parent EXCEPT ![round][s] = Rode(r, n, b, i)]
      BY <2>1, <1>p DEF ScanStop, Alight
    <3>4. DOMAIN parent = 0 .. MaxRound(ask) /\ \A k \in 0 .. MaxRound(ask) : DOMAIN parent[k] = Stop
      BY <1>0 DEF TypeOK
    <3> QED
      BY <3>1, <3>2, <3>3, <3>4, <1>1, <1>2
  <2>2. CASE ~AlightsHere
    BY <2>2, <1>0 DEF ScanStop, Alight, labels, TypeOK
  <2> QED
    BY <2>1, <2>2
<1>9. /\ RoundsAhead'
  BY <1>0, <1>1, <1>3, <1>6 DEF RoundsAhead
<1>10. BestIsBest'
  <2> SUFFICES ASSUME NEW k \in 0 .. MaxRound(ask), NEW x \in Stop PROVE best'[x] =< label'[k][x]
    BY <1>3 DEF BestIsBest
  <2>1. best[x] =< label[k][x] /\ best[x] \in Time /\ label[k][x] \in Time
    BY <1>0, <1>1 DEF BestIsBest
  <2> QED
    BY <1>5, <1>6, <2>1, TimeAssumption DEF Time
<1>11. BoundHolds'
  BY <1>0, <1>1, <1>3, <1>6 DEF BoundHolds
<1>12. ParetoFront'
  <2> SUFFICES ASSUME NEW k \in 0 .. MaxRound(ask), NEW j \in 0 .. MaxRound(ask),
                      NEW x \in ask.to, NEW t \in ask.to, j < k, label'[k][x] # Infinity
               PROVE  label'[k][x] < label'[j][t]
    BY <1>3 DEF ParetoFront
  <2>1. CASE k > round
    BY <2>1, <1>0, <1>1, <1>6 DEF RoundsAhead
  <2>2. CASE k = round /\ AlightsHere /\ x = s
    <3>1. label'[j][t] = label[j][t] /\ label[j][t] \in Time /\ bound[t] =< label[j][t] /\ bound[t] \in Time
      BY <2>2, <1>0, <1>1, <1>6 DEF BoundHolds
    <3> QED
      BY <2>2, <3>1, <1>1, <1>2, <1>5, <1>6, TimeAssumption DEF Time
  <2>3. CASE k < round \/ (k = round /\ ~(AlightsHere /\ x = s))
    <3>1. label'[k][x] = label[k][x] /\ label'[j][t] = label[j][t]
      BY <2>3, <1>1, <1>6
    <3> QED
      BY <3>1, <1>0, <1>1 DEF ParetoFront
  <2> QED
    BY <2>1, <2>2, <2>3, <1>1
<1>13. label'[round - 1] = label[round - 1] /\ parent'[round - 1] = parent[round - 1]
  BY <1>1, <1>6
<1>14. LegsAreCaught'
  <2> SUFFICES ASSUME NEW k \in 0 .. MaxRound(ask), NEW x \in Stop, label'[k][x] # Infinity
               PROVE  IsReached(k, x)'
    BY <1>3 DEF LegsAreCaught
  <2>1. CASE AlightsHere /\ k = round /\ x = s
    <3>1. label'[k][x] = arrival /\ parent'[k][x] = Rode(r, n, b, i)
      BY <2>1, <1>2, <1>6
    <3>2. /\ n # 0 /\ n \in DOMAIN Route(r).trips
          /\ Route(r).trips[n].calls[i].dropOff
      BY <2>1, <1>1, <1>p DEF AlightsHere
    <3>3. CanBoard(round - 1, r, n, b)'
      BY <1>3, <1>4, <1>13, <3>2, BoardingKept
    <3>4. /\ IsAllowed(r)' /\ Route(r)' = Route(r)
          /\ arrival = Arrives(r, n, i)' /\ s = StopAt(r, i)'
      BY <1>3, <1>4, <1>p DEF IsAllowed, Route, Arrives, StopAt
    <3>5. b \in 1 .. Len(Route(r).stops) /\ b < i
      BY <1>1, <1>4, <3>2
    <3> QED
      BY <2>1, <1>1, <1>2, <1>3, <3>1, <3>2, <3>3, <3>4, <3>5 DEF IsReached, Rode
  <2>2. CASE ~(AlightsHere /\ k = round /\ x = s)
    <3>1. label'[k][x] = label[k][x] /\ parent'[k][x] = parent[k][x]
      BY <2>2, <1>6
    <3>2. IsReached(k, x)
      BY <3>1, <1>0 DEF LegsAreCaught
    <3>3. k > 0 => label'[k - 1] = label[k - 1] /\ parent'[k - 1] = parent[k - 1]
      <4>1. k =< round
        BY <3>1, <1>0, <1>1 DEF RoundsAhead
      <4> QED
        BY <4>1, <1>1, <1>6
    <3> QED
      BY <3>1, <3>2, <3>3, <1>0, <1>3, <1>7, ReachedKept
  <2> QED
    BY <2>1, <2>2
<1>15. TypeOK' /\ ScanIsCaught'
  <2> SUFFICES ASSUME scan' # NoScan
               PROVE  /\ scan'.route = r /\ scan'.index \in 1 .. Len(Route(r).stops)
                      /\ scan'.trip \in {0} \cup DOMAIN Route(r).trips
                      /\ scan'.trip # 0 => /\ scan'.board \in 1 .. scan'.index - 1
                                           /\ CanBoard(round - 1, r, scan'.trip, scan'.board)
    <3>1. IsAllowed(r)' = IsAllowed(r) /\ Route(r)' = Route(r) /\ phase = "ride"
      BY <1>3, <1>4 DEF IsAllowed, Route, ScanStop
    <3>2. \A m, b1 : CanBoard(round - 1, r, m, b1) => CanBoard(round - 1, r, m, b1)'
      BY <1>3, <1>13, BoardingKept
    <3> QED
      BY <1>0, <1>1, <1>3, <1>4, <1>6, <1>8, <3>1, <3>2 DEF TypeOK, ScanIsCaught
  <2>1. scan.index # Len(Route(r).stops) /\ i + 1 \in 1 .. Len(Route(r).stops)
    BY <1>1, <1>p DEF ScanStop, ToNextStop
  <2>2. CASE \E m \in DOMAIN Route(r).trips : BoardsHere(m) /\ ToNextStop(m, i)
    <3>1. PICK m \in DOMAIN Route(r).trips : BoardsHere(m) /\ ToNextStop(m, i)
      BY <2>2
    <3>2. CanBoard(round - 1, r, m, i)
      BY <3>1, <1>p DEF BoardsHere, CanBoard, Earliest, Catchable, Verified
    <3>3. scan' = Scanning(r, i + 1, m, i)
      BY <3>1, <2>1, <1>p DEF ToNextStop
    <3> QED
      BY <3>2, <3>3, <2>1, <1>1 DEF Scanning
  <2>3. CASE ToNextStop(n, b)
    <3>1. scan' = Scanning(r, i + 1, n, b)
      BY <2>1, <2>3, <1>p DEF ToNextStop
    <3> QED
      BY <3>1, <2>1, <1>1, <1>4 DEF Scanning
  <2> QED
    BY <2>2, <2>3, <1>p DEF ScanStop
<1> QED
  BY <1>9, <1>10, <1>11, <1>12, <1>14, <1>15 DEF IInv

-----------------------------------------------------------------------------
(* The results.                                                            *)

LEMMA NextInvariant == IInv /\ [Next]_vars => IInv'
<1> SUFFICES ASSUME IInv, [Next]_vars PROVE IInv'
  OBVIOUS
<1>1. CASE \E s \in Stop : FollowWalks(s)
  BY <1>1, WalkingKeeps
<1>2. CASE NextRound
  BY <1>2, RoundKeeps
<1>3. CASE Finish
  BY <1>3, FinishKeeps
<1>4. CASE \E r \in toScan : OpenRoute(r)
  BY <1>4, OpenKeeps
<1>5. CASE ScanStop
  BY <1>5, ScanKeeps
<1>6. CASE WalkOn
  BY <1>6, WalkOnKeeps
<1>7. CASE UNCHANGED vars
  <2>1. /\ label' = label /\ best' = best /\ parent' = parent /\ UNCHANGED request
        /\ round' = round /\ phase' = phase /\ bound' = bound /\ marked' = marked
        /\ queue' = queue /\ served' = served /\ toScan' = toScan /\ scan' = scan
    BY <1>7 DEF vars, request
  <2>2. round \in 0 .. MaxRound(ask) /\ MaxRound(ask) \in Nat
    BY DEF IInv, TypeOK, IsAsk, MaxRound
  <2>3. BestIsBest' /\ RoundsAhead' /\ ParetoFront' /\ LegsAreCaught'
    BY <2>1, <2>2, LabelsKept
  <2>4. TypeOK' /\ BoundHolds'
    BY <2>1 DEF request, IInv, TypeOK, BoundHolds, Route
  <2>5. ScanIsCaught'
    BY <1>7 DEF vars, IInv, ScanIsCaught, IsAllowed, Route, CanBoard, StopAt, Ready, Slack, Leaves
  <2> QED
    BY <2>3, <2>4, <2>5 DEF IInv
<1> QED
  BY <1>1, <1>2, <1>3, <1>4, <1>5, <1>6, <1>7 DEF Next

\* For all timetables and requests the search keeps its invariant: labels, `best` and
\* the target bound (the arrays of the code) stay consistent with each other.
THEOREM SearchInvariant == Spec => []IInv
<1>1. Init => IInv
  BY InitInvariant
<1>2. IInv /\ [Next]_vars => IInv'
  BY NextInvariant
<1> QED
  BY <1>1, <1>2, PTL DEF Spec

\* No journey misses a connection, whatever the timetable, the delays of the feed,
\* the change times and the number of stops and rides.
THEOREM NoMissedConnection == Spec => []LegsAreCaught
<1>1. IInv => LegsAreCaught
  BY DEF IInv
<1> QED
  BY <1>1, SearchInvariant, PTL

\* One more ride is only offered for an earlier arrival.
THEOREM RidesPayOff == Spec => []ParetoFront
<1>1. IInv => ParetoFront
  BY DEF IInv
<1> QED
  BY <1>1, SearchInvariant, PTL

-----------------------------------------------------------------------------
(* Walks lead back.                                                        *)

\* The least of some numbers.
LEMMA LeastNumber ==
  ASSUME NEW S, S \subseteq Nat, S # {}
  PROVE  \E n \in S : \A m \in S : n =< m
<1>1. PICK n \in S : \A m \in S : ~(<<m, n>> \in OpToRel(<, Nat))
  BY NatLessThanWellFounded, WFMin, Zenon
<1>2. \A m \in S : ~(m < n)
  BY <1>1 DEF OpToRel
<1>3. \A m \in S : m \in Nat
  OBVIOUS
<1>. QED
  BY <1>2, <1>3

\* The stops that are reached first among some.
LEMMA FirstReached ==
  ASSUME NEW C, C \subseteq Stop, C # {}, NEW f \in [Stop -> Time]
  PROVE  \E s \in C : \A t \in C : f[s] =< f[t]
<1>. DEFINE V == {f[s] : s \in C}
<1>1. V \subseteq Nat /\ V # {}
  BY TimeAssumption DEF Time
<1>2. \E v \in V : \A w \in V : v =< w
  <2>. HIDE DEF V
  <2>. QED
    BY <1>1, LeastNumber
<1>. QED
  BY <1>2

\* A walk that is followed makes no circle: what it improves is reached later than where
\* it starts, and what was reached from what it improves was not reached before that.
LEMMA WalkingLeadsBack ==
  ASSUME IInv, IInv', WalksLeadBack, NEW from \in Stop, FollowWalks(from)
  PROVE  WalksLeadBack'
<1>. DEFINE W == WalkReaches(from)
            Rs == 0 .. MaxRound(ask)
<1>0. PICK k \in Rs : k = round
  BY DEF IInv, TypeOK
<1>1. /\ k \in Rs /\ from \in Stop /\ ask' = ask /\ tt' = tt /\ W \subseteq Stop
      /\ IsTimetable(tt) /\ IsAsk(ask)
      /\ label \in [Rs -> [Stop -> Time]] /\ best \in [Stop -> Time]
      /\ DOMAIN parent = Rs /\ DOMAIN parent[k] = Stop
  BY DEF IInv, TypeOK, FollowWalks, WalkReaches
<1>2. /\ label' = [label EXCEPT ![k] = [s \in Stop |-> IF s \in W THEN WalkArrival(from, s)
                                                      ELSE label[k][s]]]
      /\ parent' = [parent EXCEPT ![k] = [s \in Stop |-> IF s \in W THEN Walked(from)
                                                        ELSE parent[k][s]]]
  BY <1>0 DEF FollowWalks
<1>3. \A s \in Stop : WalkSeconds(from, s) \in Time
  BY <1>1, WalkSecondsTime
<1>4. \A s \in W : label'[k][s] = WalkArrival(from, s) /\ parent'[k][s] = Walked(from)
  BY <1>1, <1>2
<1>5. \A s \in Stop \ W : label'[k][s] = label[k][s] /\ parent'[k][s] = parent[k][s]
  BY <1>1, <1>2
<1>6. \A j \in Rs : j # k => label'[j] = label[j] /\ parent'[j] = parent[j]
  BY <1>1, <1>2
<1>7. \A s \in W : label'[k][s] < label[k][s]
  <2>1. ASSUME NEW s \in W PROVE label'[k][s] < label[k][s]
    <3>1. WalkArrival(from, s) < best[s] /\ best[s] =< label[k][s] /\ s \in Stop
      BY <1>1 DEF WalkReaches, IInv, BestIsBest
    <3>2. WalkArrival(from, s) \in Time /\ best[s] \in Time /\ label[k][s] \in Time
      BY <1>0, <1>1, <1>3, <3>1, SatAddTime DEF WalkArrival
    <3>. QED
      BY <1>4, <3>1, <3>2, TimeAssumption DEF Time
  <2>. QED
    BY <2>1
<1>8. from \notin W
  <2>1. SUFFICES ASSUME from \in W PROVE FALSE
    OBVIOUS
  <2>2. label[k][from] \in Time /\ WalkSeconds(from, from) \in Time
    BY <1>1, <1>3
  <2>3. WalkArrival(from, from) >= label[k][from] /\ WalkArrival(from, from) \in Time
    BY <1>0, <2>2, SatAddTime DEF WalkArrival
  <2>4. WalkArrival(from, from) < label[k][from]
    BY <1>4, <1>7, <2>1
  <2>. QED
    BY <2>2, <2>3, <2>4, TimeAssumption DEF Time
<1>9. MaxRound(ask') = MaxRound(ask)
  BY <1>1
<1>. SUFFICES ASSUME NEW j \in Rs, NEW C \in SUBSET Stop, C # {},
                     \A s \in C : label'[j][s] # Infinity,
                     \A s \in C : parent'[j][s].kind = "walk" /\ parent'[j][s].from \in C
              PROVE  FALSE
  BY <1>9 DEF WalksLeadBack
<1>10. CASE j # k
  BY <1>6, <1>10 DEF WalksLeadBack
<1>11. CASE j = k
  <2>. DEFINE f == label'[k]
  <2>1. f \in [Stop -> Time]
    BY <1>1 DEF IInv, TypeOK
  <2>2. PICK least \in C : \A t \in C : f[least] =< f[t]
    <3>. HIDE DEF f
    <3>. QED
      BY <2>1, FirstReached
  <2>. DEFINE M == {t \in C : f[t] = f[least]}
  <2>3. ASSUME NEW s \in C
        PROVE  SatAdd(f[parent'[k][s].from], WalkSeconds(parent'[k][s].from, s)) =< f[s]
    <3>1. IsReached(k, s)'
      BY <1>1, <1>9, <1>11 DEF IInv, LegsAreCaught
    <3>2. parent'[k][s].kind = "walk"
      BY <1>11
    <3>3. parent'[k][s] # NoParent
      BY <3>2 DEF NoParent
    <3>4. /\ tt'.walk = tt.walk /\ ask'.walk = ask.walk
      BY <1>1
    <3>. QED
      BY <3>1, <3>2, <3>3, <3>4 DEF IsReached, WalkSeconds
  <2>4. ASSUME NEW s \in M PROVE parent'[k][s].from \in M
    <3>1. s \in C /\ parent'[k][s].from \in C /\ f[s] = f[least]
      BY <1>11
    <3>2. /\ f[parent'[k][s].from] \in Time /\ f[s] \in Time
          /\ WalkSeconds(parent'[k][s].from, s) \in Time
      BY <1>1, <2>1, <3>1, WalkSecondsTime
    <3>3. f[parent'[k][s].from] =< f[s]
      <4>. DEFINE x == f[parent'[k][s].from]
                  y == WalkSeconds(parent'[k][s].from, s)
      <4>1. x \in Time /\ y \in Time /\ f[s] \in Time /\ SatAdd(x, y) =< f[s]
        BY <2>3, <3>1, <3>2
      <4>. HIDE DEF x, y, f
      <4>2. SatAdd(x, y) \in Time /\ SatAdd(x, y) >= x
        BY <4>1, SatAddTime
      <4>3. x =< f[s]
        BY <4>1, <4>2, TimeAssumption DEF Time
      <4>. QED
        BY <4>3 DEF x
    <3>4. f[least] =< f[parent'[k][s].from]
      BY <2>2, <3>1
    <3>5. f[parent'[k][s].from] = f[least]
      BY <3>1, <3>2, <3>3, <3>4, TimeAssumption DEF Time
    <3>. QED
      BY <3>1, <3>5
  <2>. DEFINE B == M \ W
  <2>5. B \subseteq Stop /\ B # {}
    <3>1. least \in M
      OBVIOUS
    <3>2. CASE least \in W
      BY <1>4, <1>8, <2>4, <3>1, <3>2 DEF Walked
    <3>. QED
      BY <3>1, <3>2
  <2>6. ASSUME NEW t \in B
        PROVE  /\ label[k][t] # Infinity
               /\ parent[k][t].kind = "walk" /\ parent[k][t].from \in B
    <3>1. t \in M /\ t \in C /\ t \in Stop \ W
      OBVIOUS
    <3>2. parent'[k][t] = parent[k][t] /\ f[t] = label[k][t]
      BY <1>5, <3>1
    <3>3. label[k][t] # Infinity /\ parent[k][t].kind = "walk" /\ parent[k][t].from \in M
      BY <1>11, <2>4, <3>1, <3>2
    <3>. DEFINE u == parent[k][t].from
    <3>4. IsReached(k, t)
      BY <1>1, <3>1, <3>3 DEF IInv, LegsAreCaught
    <3>5. SatAdd(label[k][u], WalkSeconds(u, t)) =< label[k][t] /\ u \in Stop
      BY <3>3, <3>4 DEF IsReached, NoParent
    <3>6. label[k][u] \in Time /\ label[k][t] \in Time /\ WalkSeconds(u, t) \in Time
      BY <1>1, <3>1, <3>5, WalkSecondsTime
    <3>7. label[k][u] =< label[k][t]
      <4>. DEFINE x == label[k][u]
                  y == WalkSeconds(u, t)
                  z == label[k][t]
      <4>1. x \in Time /\ y \in Time /\ z \in Time /\ SatAdd(x, y) =< z
        BY <3>5, <3>6
      <4>. HIDE DEF x, y, z
      <4>2. SatAdd(x, y) \in Time /\ SatAdd(x, y) >= x
        BY <4>1, SatAddTime
      <4>3. x =< z
        BY <4>1, <4>2, TimeAssumption DEF Time
      <4>. QED
        BY <4>3 DEF x, z
    <3>8. f[u] = f[t] /\ f[u] \in Time
      BY <2>1, <3>1, <3>3, <3>5
    <3>9. u \notin W
      <4>1. SUFFICES ASSUME u \in W PROVE FALSE
        OBVIOUS
      <4>2. f[u] < label[k][u]
        BY <1>7, <4>1
      <4>. QED
        BY <3>2, <3>6, <3>7, <3>8, <4>2, TimeAssumption DEF Time
    <3>. QED
      BY <3>3, <3>9
  <2>. HIDE DEF B
  <2>7. \E s \in B : ~(parent[k][s].kind = "walk" /\ parent[k][s].from \in B)
    BY <1>1, <2>5, <2>6 DEF WalksLeadBack
  <2>. QED
    BY <2>6, <2>7
<1>. QED
  BY <1>10, <1>11

\* A ride puts its stop into no circle.
LEMMA RidingLeadsBack ==
  ASSUME IInv, IInv', WalksLeadBack, ScanStop
  PROVE  WalksLeadBack'
<1>1. ask' = ask /\ MaxRound(ask') = MaxRound(ask)
  BY DEF ScanStop
<1>. SUFFICES ASSUME NEW k \in 0 .. MaxRound(ask), NEW C \in SUBSET Stop, C # {},
                     \A s \in C : label'[k][s] # Infinity,
                     \A s \in C : parent'[k][s].kind = "walk" /\ parent'[k][s].from \in C
              PROVE  FALSE
  BY <1>1 DEF WalksLeadBack
<1>2. \A s \in C : label'[k][s] = label[k][s] /\ parent'[k][s] = parent[k][s]
  <2>1. CASE AlightsHere
    <3>. DEFINE s == StopAt(scan.route, scan.index)
                arrival == Arrives(scan.route, scan.trip, scan.index)
    <3>1. /\ label' = [label EXCEPT ![round][s] = arrival]
          /\ parent' = [parent EXCEPT ![round][s] =
                          Rode(scan.route, scan.trip, scan.board, scan.index)]
      BY <2>1 DEF ScanStop, Alight
    <3>2. /\ label \in [0 .. MaxRound(ask) -> [Stop -> Time]] /\ round \in 0 .. MaxRound(ask)
          /\ DOMAIN parent = 0 .. MaxRound(ask) /\ DOMAIN parent[round] = Stop
      BY DEF IInv, TypeOK
    <3>. HIDE DEF s, arrival
    <3>3. k = round => s \notin C
      <4>1. SUFFICES ASSUME k = round, s \in C PROVE FALSE
        OBVIOUS
      <4>2. parent'[k][s] = Rode(scan.route, scan.trip, scan.board, scan.index)
        BY <3>1, <3>2, <4>1
      <4>3. parent'[k][s].kind = "ride"
        BY <4>2 DEF Rode
      <4>. QED
        BY <4>1, <4>3
    <3>4. ASSUME NEW t \in C PROVE label'[k][t] = label[k][t] /\ parent'[k][t] = parent[k][t]
      <4>1. CASE k # round
        BY <3>1, <3>2, <4>1
      <4>2. CASE k = round
        <5>1. t # s
          BY <3>3, <4>2
        <5>. QED
          BY <3>1, <3>2, <4>2, <5>1
      <4>. QED
        BY <4>1, <4>2
    <3>. QED
      BY <3>4
  <2>2. CASE ~AlightsHere
    BY <2>2 DEF ScanStop, Alight, labels
  <2>. QED
    BY <2>1, <2>2
<1>. QED
  BY <1>2 DEF WalksLeadBack

LEMMA StillLeadsBack ==
  ASSUME WalksLeadBack, UNCHANGED <<ask, label, parent>>
  PROVE  WalksLeadBack'
BY DEF WalksLeadBack

\* However many links take no time, the walks of a round lead back to a ride or to an origin
\* (the walking queue of raptor_with_stats_excluding_routes).
THEOREM WalksEnd == Spec => []WalksLeadBack
<1>1. Init => WalksLeadBack
  <2>. SUFFICES ASSUME Init, NEW k \in 0 .. MaxRound(ask), NEW s \in Stop
                PROVE  parent[k][s].kind # "walk"
    BY DEF WalksLeadBack
  <2>1. parent[k][s] = NoParent
    BY DEF Init
  <2>. QED
    BY <2>1 DEF NoParent
<1>2. IInv /\ IInv' /\ WalksLeadBack /\ [Next]_vars => WalksLeadBack'
  <2>. SUFFICES ASSUME IInv, IInv', WalksLeadBack, [Next]_vars PROVE WalksLeadBack'
    OBVIOUS
  <2>1. ASSUME NEW s \in Stop, FollowWalks(s) PROVE WalksLeadBack'
    BY <2>1, WalkingLeadsBack
  <2>2. CASE NextRound
    BY <2>2, StillLeadsBack DEF NextRound
  <2>3. CASE Finish
    BY <2>3, StillLeadsBack DEF Finish
  <2>4. ASSUME NEW r \in toScan, OpenRoute(r) PROVE WalksLeadBack'
    BY <2>4, StillLeadsBack DEF OpenRoute, labels
  <2>5. CASE ScanStop
    BY <2>5, RidingLeadsBack
  <2>6. CASE WalkOn
    BY <2>6, StillLeadsBack DEF WalkOn, labels
  <2>7. CASE UNCHANGED vars
    BY <2>7, StillLeadsBack DEF vars
  <2>. QED
    BY <2>1, <2>2, <2>3, <2>4, <2>5, <2>6, <2>7 DEF Next
<1>. QED
  BY <1>1, <1>2, SearchInvariant, PTL DEF Spec

-----------------------------------------------------------------------------
(* Journeys are whole.                                                     *)

Labelled == {x \in Rounds \X Stop : label[x[1]][x[2]] # Infinity}

ParentOf(x) == parent[x[1]][x[2]]

\* What is true of 0 and passed on is true up to the end.
LEMMA Climbing ==
  ASSUME NEW N \in Nat, NEW S, 0 \in S, \A n \in S : n \in 0 .. N - 1 => n + 1 \in S
  PROVE  \A n \in 0 .. N : n \in S
<1>. DEFINE Out == {n \in 0 .. N : n \notin S}
<1>1. SUFFICES ASSUME Out # {} PROVE FALSE
  OBVIOUS
<1>2. Out \subseteq Nat
  OBVIOUS
<1>3. PICK n \in Out : \A m \in Out : n =< m
  <2>. HIDE DEF Out
  <2>. QED
    BY <1>1, <1>2, LeastNumber
<1>4. n \in 1 .. N /\ n \notin S
  OBVIOUS
<1>5. n - 1 \in 0 .. N - 1 /\ n - 1 \notin Out /\ (n - 1) + 1 = n
  BY <1>3, <1>4
<1>. QED
  BY <1>4, <1>5

\* One step back along a journey.
LEMMA BackIs ==
  ASSUME IInv, NEW x \in Labelled
  PROVE  /\ Back(x) \in Labelled /\ x[1] \in Nat /\ Back(x)[1] \in Nat
         /\ IsRide(x) => Back(x)[1] = x[1] - 1
         /\ ~IsRide(x) => Back(x)[1] = x[1]
         /\ ParentOf(x).kind = "walk" => Back(x) = <<x[1], ParentOf(x).from>>
         /\ ParentOf(x).kind \notin {"walk", "ride"} =>
              Back(x) = x /\ x[1] = 0 /\ x[2] \in ask.from
<1>. DEFINE k == x[1]
            s == x[2]
            p == parent[k][s]
<1>1. /\ k \in 0 .. MaxRound(ask) /\ s \in Stop /\ x = <<k, s>> /\ label[k][s] # Infinity
      /\ MaxRound(ask) \in Nat
  BY DEF Labelled, Rounds, IInv, TypeOK, IsAsk, MaxRound
<1>2. IsReached(k, s)
  BY <1>1 DEF IInv, LegsAreCaught
<1>3. /\ label \in [0 .. MaxRound(ask) -> [Stop -> Time]] /\ IsTimetable(tt) /\ IsAsk(ask)
  BY DEF IInv, TypeOK
<1>4. ParentOf(x) = p /\ (IsRide(x) <=> p.kind = "ride")
  BY DEF ParentOf, IsRide
<1>5. Back(x) = CASE p.kind = "walk" -> <<k, p.from>>
                  [] p.kind = "ride" -> <<k - 1, StopAt(p.route, p.board)>>
                  [] OTHER -> x
  BY DEF Back
<1>6. CASE p.kind = "walk"
  <2>1. p.from \in Stop /\ SatAdd(label[k][p.from], WalkSeconds(p.from, s)) =< label[k][s]
    BY <1>2, <1>6 DEF IsReached, NoParent
  <2>2. label[k][p.from] # Infinity
    <3>1. label[k][p.from] \in Time /\ label[k][s] \in Time /\ WalkSeconds(p.from, s) \in Time
      BY <1>1, <1>3, <2>1, WalkSecondsTime
    <3>. DEFINE u == label[k][p.from]
                v == label[k][s]
                w == WalkSeconds(p.from, s)
    <3>2. u \in Time /\ v \in Time /\ w \in Time /\ SatAdd(u, w) =< v /\ v # Infinity
      BY <1>1, <2>1, <3>1
    <3>. HIDE DEF u, v, w
    <3>3. SatAdd(u, w) >= u /\ SatAdd(u, w) \in Time
      BY <3>2, SatAddTime
    <3>4. u # Infinity
      BY <3>2, <3>3, TimeAssumption DEF Time
    <3>. QED
      BY <3>4 DEF u
  <2>3. Back(x) = <<k, p.from>>
    BY <1>5, <1>6
  <2>4. Back(x) \in Labelled
    BY <1>1, <2>1, <2>2, <2>3 DEF Labelled, Rounds
  <2>. QED
    BY <1>1, <1>4, <1>6, <2>3, <2>4
<1>7. CASE p.kind = "ride"
  <2>0. p # NoParent /\ p.kind # "walk"
    BY <1>7 DEF NoParent
  <2>. HIDE DEF p
  <2>1. /\ k > 0 /\ p.route \in DOMAIN tt.routes /\ p.board \in 1 .. Len(Route(p.route).stops)
        /\ CanBoard(k - 1, p.route, p.trip, p.board)
    BY <1>2, <2>0, Zenon DEF IsReached, p
  <2>2. StopAt(p.route, p.board) \in Stop
    BY <1>3, <2>1, StopAtStop
  <2>3. label[k - 1][StopAt(p.route, p.board)] # Infinity
    BY <2>1 DEF CanBoard
  <2>4. Back(x) = <<k - 1, StopAt(p.route, p.board)>>
    BY <1>5, <1>7
  <2>5. k - 1 \in 0 .. MaxRound(ask)
    BY <1>1, <2>1
  <2>6. Back(x) \in Labelled
    BY <2>2, <2>3, <2>4, <2>5 DEF Labelled, Rounds
  <2>. QED
    BY <1>1, <1>4, <1>7, <2>4, <2>5, <2>6
<1>8. CASE p.kind \notin {"walk", "ride"}
  <2>1. Back(x) = x
    BY <1>5, <1>8
  <2>2. k = 0 /\ s \in ask.from
    BY <1>2, <1>8 DEF IsReached
  <2>. QED
    BY <1>1, <1>4, <1>8, <2>1, <2>2
<1>. QED
  BY <1>6, <1>7, <1>8

\* The trail takes one step after the other.
LEMMA TrailIs ==
  ASSUME NEW k, NEW s, LongestTrail \in Nat
  PROVE  /\ DOMAIN Trail(k, s) = 0 .. LongestTrail
         /\ \A n \in 0 .. LongestTrail :
              Trail(k, s)[n] = IF n = 0 THEN <<k, s>> ELSE Back(Trail(k, s)[n - 1])
<1>. DEFINE N == LongestTrail
            Goes(g, m) == \A n \in 0 .. m : g[n] = IF n = 0 THEN <<k, s>> ELSE Back(g[n - 1])
            Far == {m \in 0 .. N : \E g : Goes(g, m)}
<1>1. Trail(k, s) = CHOOSE g : g = [n \in 0 .. N |-> IF n = 0 THEN <<k, s>> ELSE Back(g[n - 1])]
  BY DEF Trail
<1>. HIDE DEF N
<1>2. N \in Nat
  BY DEF N
<1>3. 0 \in Far
  <2>1. Goes([n \in {0} |-> <<k, s>>], 0)
    OBVIOUS
  <2>. HIDE DEF Goes
  <2>2. \E g : Goes(g, 0)
    BY <2>1, Zenon
  <2>. QED
    BY <1>2, <2>2
<1>4. ASSUME NEW m \in Far, m \in 0 .. N - 1 PROVE m + 1 \in Far
  <2>1. PICK g : Goes(g, m)
    OBVIOUS
  <2>. DEFINE h == [n \in 0 .. m + 1 |-> IF n = m + 1 THEN Back(g[m]) ELSE g[n]]
  <2>2. m \in Nat
    BY <1>2, <1>4
  <2>3. ASSUME NEW n \in 0 .. m + 1
        PROVE  h[n] = IF n = 0 THEN <<k, s>> ELSE Back(h[n - 1])
    <3>1. CASE n = m + 1
      <4>1. n - 1 = m /\ n # 0 /\ h[m] = g[m] /\ h[n] = Back(g[m])
        BY <2>2, <3>1
      <4>. QED
        BY <4>1
    <3>2. CASE n # m + 1
      <4>1. n \in 0 .. m /\ (n # 0 => n - 1 \in 0 .. m)
        BY <2>2, <3>2
      <4>2. h[n] = g[n] /\ (n # 0 => h[n - 1] = g[n - 1])
        BY <2>2, <4>1
      <4>. QED
        BY <2>1, <4>1, <4>2
    <3>. QED
      BY <3>1, <3>2
  <2>. HIDE DEF h
  <2>4. Goes(h, m + 1)
    BY <2>3
  <2>. HIDE DEF Goes
  <2>5. \E f : Goes(f, m + 1)
    BY <2>4, Zenon
  <2>6. m + 1 \in 0 .. N
    BY <1>2, <1>4
  <2>. QED
    BY <2>5, <2>6
<1>5. N \in Far
  <2>. HIDE DEF Far
  <2>1. \A n \in 0 .. N : n \in Far
    BY <1>2, <1>3, <1>4, Climbing
  <2>. QED
    BY <1>2, <2>1
<1>6. PICK g : Goes(g, N)
  BY <1>5
<1>. DEFINE f == [n \in 0 .. N |-> g[n]]
<1>7. f = [n \in 0 .. N |-> IF n = 0 THEN <<k, s>> ELSE Back(f[n - 1])]
  <2>1. ASSUME NEW n \in 0 .. N PROVE f[n] = IF n = 0 THEN <<k, s>> ELSE Back(f[n - 1])
    <3>1. f[n] = IF n = 0 THEN <<k, s>> ELSE Back(g[n - 1])
      BY <1>6
    <3>2. n # 0 => f[n - 1] = g[n - 1]
      BY <1>2
    <3>. QED
      BY <3>1, <3>2
  <2>2. f = [n \in 0 .. N |-> f[n]]
    OBVIOUS
  <2>. HIDE DEF f
  <2>. QED
    BY <2>1, <2>2
<1>. HIDE DEF f
<1>8. Trail(k, s) = [n \in 0 .. N |-> IF n = 0 THEN <<k, s>> ELSE Back(Trail(k, s)[n - 1])]
  BY <1>1, <1>7
<1>9. \A n \in 0 .. N : Trail(k, s)[n] = IF n = 0 THEN <<k, s>> ELSE Back(Trail(k, s)[n - 1])
  BY <1>8
<1>10. DOMAIN Trail(k, s) = 0 .. N
  BY <1>8
<1>. QED
  BY <1>9, <1>10 DEF N

\* Where a trail is, it can be left no further than back: it stays among the labels, its rounds
\* do not grow, and where it has led to an origin it stays.
LEMMA TrailLeads ==
  ASSUME IInv, NEW N \in Nat, NEW T, T[0] \in Labelled,
         \A n \in 1 .. N : T[n] = Back(T[n - 1])
  PROVE  /\ \A n \in 0 .. N : T[n] \in Labelled /\ T[n][1] \in Nat
         /\ \A m, n \in 0 .. N : m =< n => T[n][1] =< T[m][1]
         /\ \A m, n \in 0 .. N :
              m =< n /\ ParentOf(T[m]).kind \notin {"walk", "ride"} => T[n] = T[m]
<1>1. \A n \in 0 .. N : T[n] \in Labelled
  <2>. DEFINE S == {n \in 0 .. N : T[n] \in Labelled}
  <2>1. 0 \in S
    OBVIOUS
  <2>2. ASSUME NEW n \in S, n \in 0 .. N - 1 PROVE n + 1 \in S
    <3>1. n + 1 \in 1 .. N /\ n + 1 \in 0 .. N /\ (n + 1) - 1 = n /\ T[n] \in Labelled
      BY <2>2
    <3>2. T[n + 1] = Back(T[n])
      BY <3>1
    <3>3. T[n + 1] \in Labelled
      BY <3>1, <3>2, BackIs
    <3>. QED
      BY <3>1, <3>3
  <2>. HIDE DEF S
  <2>3. \A n \in 0 .. N : n \in S
    BY <2>1, <2>2, Climbing
  <2>. QED
    BY <2>3 DEF S
<1>2. \A n \in 0 .. N : T[n][1] \in Nat
  BY <1>1, BackIs
<1>3. ASSUME NEW m \in 0 .. N
      PROVE  \A n \in 0 .. N : m =< n =>
               /\ T[n][1] =< T[m][1]
               /\ ParentOf(T[m]).kind \notin {"walk", "ride"} => T[n] = T[m]
  <2>. DEFINE S == {n \in 0 .. N : m =< n =>
                      /\ T[n][1] =< T[m][1]
                      /\ ParentOf(T[m]).kind \notin {"walk", "ride"} => T[n] = T[m]}
  <2>1. 0 \in S
    <3>1. m =< 0 => m = 0
      OBVIOUS
    <3>2. T[0][1] =< T[0][1]
      BY <1>2
    <3>. QED
      BY <3>1, <3>2
  <2>2. ASSUME NEW n \in S, n \in 0 .. N - 1 PROVE n + 1 \in S
    <3>1. n + 1 \in 1 .. N /\ n + 1 \in 0 .. N /\ (n + 1) - 1 = n /\ n \in 0 .. N
      BY <2>2
    <3>2. T[n + 1] = Back(T[n])
      BY <3>1
    <3>3. /\ T[n + 1][1] \in Nat /\ T[n][1] \in Nat
          /\ IsRide(T[n]) => T[n + 1][1] = T[n][1] - 1
          /\ ~IsRide(T[n]) => T[n + 1][1] = T[n][1]
          /\ ParentOf(T[n]).kind \notin {"walk", "ride"} => T[n + 1] = T[n]
      BY <1>1, <3>1, <3>2, BackIs
    <3>4. T[n + 1][1] =< T[n][1]
      BY <3>3
    <3>5. CASE m =< n
      <4>1. T[m][1] \in Nat
        BY <1>2
      <4>2. T[n + 1][1] =< T[m][1]
        BY <3>3, <3>4, <3>5, <4>1
      <4>. QED
        BY <3>1, <3>3, <3>5, <4>2
    <3>6. CASE m = n + 1
      <4>1. T[m][1] =< T[m][1]
        BY <1>2
      <4>. QED
        BY <3>1, <3>6, <4>1
    <3>7. CASE ~(m =< n + 1)
      BY <3>1, <3>7
    <3>. QED
      BY <3>1, <3>5, <3>6, <3>7
  <2>. HIDE DEF S
  <2>3. \A n \in 0 .. N : n \in S
    BY <2>1, <2>2, Climbing
  <2>. QED
    BY <2>3 DEF S
<1>. QED
  BY <1>1, <1>2, <1>3

\* A trail as long as there are labels leads to an origin: else it comes to one of them
\* twice, and in the first round on its way only walks.
LEMMA TrailEnds ==
  ASSUME IInv, WalksLeadBack, NEW N \in Nat, NEW T, T[0] \in Labelled,
         \A n \in 1 .. N : T[n] = Back(T[n - 1]),
         IsFiniteSet(Rounds \X Stop), Cardinality(Rounds \X Stop) < N + 1
  PROVE  ParentOf(T[N]).kind \notin {"walk", "ride"}
<1>1. /\ \A n \in 0 .. N : T[n] \in Labelled /\ T[n][1] \in Nat
      /\ \A m, n \in 0 .. N :
           m =< n /\ ParentOf(T[m]).kind \notin {"walk", "ride"} => T[n] = T[m]
  BY TrailLeads
<1>. SUFFICES ASSUME ParentOf(T[N]).kind \in {"walk", "ride"} PROVE FALSE
  OBVIOUS
<1>2. ASSUME NEW n \in 0 .. N PROVE ParentOf(T[n]).kind \in {"walk", "ride"}
  <2>1. N \in 0 .. N /\ n =< N
    OBVIOUS
  <2>. QED
    BY <1>1, <2>1
<1>3. PICK m, n \in 0 .. N : m < n /\ T[m] = T[n]
  <2>. DEFINE f == [i \in 0 .. N |-> T[i]]
  <2>1. f \in [0 .. N -> Rounds \X Stop]
    BY <1>1 DEF Labelled
  <2>2. IsFiniteSet(0 .. N) /\ Cardinality(0 .. N) = N + 1
    BY FS_Interval
  <2>. DEFINE A == 0 .. N
              P == Rounds \X Stop
  <2>. HIDE DEF f, A, P
  <2>6. /\ f \in [A -> P] /\ IsFiniteSet(A) /\ IsFiniteSet(P)
        /\ Cardinality(P) < Cardinality(A)
    BY <2>1, <2>2 DEF A, P
  <2>7. \E x, y \in A : x # y /\ f[x] = f[y]
    BY <2>6, FS_PigeonHole
  <2>3. \E x, y \in 0 .. N : x # y /\ f[x] = f[y]
    BY <2>7 DEF A
  <2>4. PICK x, y \in 0 .. N : x # y /\ T[x] = T[y]
    BY <2>3 DEF f
  <2>5. x < y \/ y < x
    BY <2>4
  <2>. QED
    BY <2>4, <2>5
<1>. DEFINE C == {T[i] : i \in m .. n}
            V == {x[1] : x \in C}
<1>4. ASSUME NEW x \in C
      PROVE  /\ x \in Labelled /\ x[1] \in Nat /\ Back(x) \in C
             /\ ParentOf(x).kind \in {"walk", "ride"}
  <2>1. PICK i \in m .. n : x = T[i]
    OBVIOUS
  <2>2. i \in 0 .. N
    BY <2>1
  <2>3. CASE i < n
    <3>1. i + 1 \in m .. n /\ i + 1 \in 1 .. N /\ (i + 1) - 1 = i
      BY <2>1, <2>3
    <3>2. Back(x) = T[i + 1]
      BY <2>1, <3>1
    <3>. QED
      BY <1>1, <1>2, <2>1, <2>2, <3>1, <3>2
  <2>4. CASE i = n
    <3>1. m + 1 \in m .. n /\ m + 1 \in 1 .. N /\ (m + 1) - 1 = m
      BY <1>3
    <3>2. Back(x) = T[m + 1]
      BY <1>3, <2>1, <2>4, <3>1
    <3>. QED
      BY <1>1, <1>2, <2>1, <2>2, <3>1, <3>2
  <2>. QED
    BY <2>1, <2>3, <2>4
<1>5. V \subseteq Nat /\ V # {}
  <2>1. T[m] \in C
    BY <1>3
  <2>. HIDE DEF C
  <2>. QED
    BY <1>4, <2>1
<1>. HIDE DEF C
<1>6. PICK x \in C : \A y \in C : x[1] =< y[1]
  <2>1. \E v \in V : \A w \in V : v =< w
    <3>. HIDE DEF V
    <3>. QED
      BY <1>5, LeastNumber
  <2>. QED
    BY <2>1
<1>. DEFINE k == x[1]
            B == {s \in Stop : <<k, s>> \in C}
<1>7. ASSUME NEW s \in B
      PROVE  /\ label[k][s] # Infinity /\ parent[k][s].kind = "walk" /\ parent[k][s].from \in B
  <2>. DEFINE y == <<k, s>>
  <2>1. y \in C /\ y[1] = k /\ y[2] = s
    OBVIOUS
  <2>2. y \in Labelled /\ Back(y) \in C /\ ParentOf(y).kind \in {"walk", "ride"}
    BY <1>4, <2>1
  <2>3. /\ Back(y) \in Labelled /\ y[1] \in Nat /\ Back(y)[1] \in Nat
        /\ IsRide(y) => Back(y)[1] = y[1] - 1
        /\ ParentOf(y).kind = "walk" => Back(y) = <<y[1], ParentOf(y).from>>
    BY <2>2, BackIs
  <2>4. k =< Back(y)[1]
    BY <1>6, <2>2
  <2>5. ~IsRide(y)
    BY <2>1, <2>3, <2>4
  <2>6. parent[k][s].kind = "walk" /\ ParentOf(y) = parent[k][s]
    BY <2>1, <2>2, <2>5 DEF IsRide, ParentOf
  <2>7. Back(y) = <<k, parent[k][s].from>>
    BY <2>1, <2>3, <2>6
  <2>8. parent[k][s].from \in Stop /\ <<k, parent[k][s].from>> \in C
    BY <2>2, <2>3, <2>7 DEF Labelled
  <2>9. label[k][s] # Infinity
    BY <2>1, <2>2 DEF Labelled
  <2>. QED
    BY <2>6, <2>8, <2>9
<1>8. B # {} /\ B \subseteq Stop /\ k \in 0 .. MaxRound(ask)
  <2>1. x \in Labelled
    BY <1>4
  <2>2. k \in 0 .. MaxRound(ask) /\ x[2] \in Stop /\ x = <<k, x[2]>>
    BY <2>1 DEF Labelled, Rounds
  <2>3. x[2] \in B
    BY <2>2
  <2>. QED
    BY <2>2, <2>3
<1>. HIDE DEF B, k
<1>9. \E s \in B : ~(parent[k][s].kind = "walk" /\ parent[k][s].from \in B)
  BY <1>7, <1>8 DEF WalksLeadBack
<1>. QED
  BY <1>7, <1>9

\* As many rides lie on the trail as its first label has.
LEMMA TrailRides ==
  ASSUME IInv, NEW N \in Nat, NEW T, T[0] \in Labelled,
         \A n \in 1 .. N : T[n] = Back(T[n - 1]), T[N][1] = 0,
         IsFiniteSet(Rounds \X Stop)
  PROVE  Cardinality({T[n] : n \in {m \in 0 .. N : IsRide(T[m])}}) = T[0][1]
<1>. DEFINE K == T[0][1]
            X == {T[n] : n \in {m \in 0 .. N : IsRide(T[m])}}
            h == [x \in X |-> x[1]]
<1>1. /\ \A n \in 0 .. N : T[n] \in Labelled /\ T[n][1] \in Nat
      /\ \A m, n \in 0 .. N : m =< n => T[n][1] =< T[m][1]
  BY TrailLeads
<1>2. ASSUME NEW n \in 0 .. N - 1
      PROVE  /\ n + 1 \in 0 .. N /\ n \in 0 .. N
             /\ T[n + 1][1] \in Nat /\ T[n][1] \in Nat
             /\ IsRide(T[n]) => T[n + 1][1] = T[n][1] - 1
             /\ ~IsRide(T[n]) => T[n + 1][1] = T[n][1]
  <2>1. n + 1 \in 1 .. N /\ (n + 1) - 1 = n /\ n \in 0 .. N /\ n + 1 \in 0 .. N
    OBVIOUS
  <2>2. T[n + 1] = Back(T[n])
    BY <2>1
  <2>. QED
    BY <1>1, <2>1, <2>2, BackIs
<1>3. ~IsRide(T[N])
  <2>1. T[N] \in Labelled /\ T[N][1] = 0
    BY <1>1
  <2>2. Back(T[N])[1] \in Nat /\ (IsRide(T[N]) => Back(T[N])[1] = T[N][1] - 1)
    BY <2>1, BackIs
  <2>. QED
    BY <2>1, <2>2
<1>4. ASSUME NEW n \in 0 .. N, IsRide(T[n])
      PROVE  n \in 0 .. N - 1 /\ T[n][1] \in 1 .. K
  <2>1. n # N
    BY <1>3, <1>4
  <2>2. n \in 0 .. N - 1
    BY <2>1
  <2>3. T[n][1] =< K /\ K \in Nat
    BY <1>1
  <2>. QED
    BY <1>2, <1>4, <2>2, <2>3
<1>5. ASSUME NEW m \in 0 .. N, NEW n \in 0 .. N, IsRide(T[m]), IsRide(T[n]), m < n
      PROVE  T[n][1] # T[m][1]
  <2>1. m + 1 =< n /\ m + 1 \in 0 .. N /\ m \in 0 .. N - 1
    BY <1>5
  <2>2. T[n][1] =< T[m + 1][1] /\ T[m + 1][1] = T[m][1] - 1
    BY <1>1, <1>2, <1>5, <2>1
  <2>. QED
    BY <1>1, <2>2
<1>6. ASSUME NEW i \in 1 .. K PROVE \E n \in 0 .. N : IsRide(T[n]) /\ T[n][1] = i
  <2>. DEFINE S == {n \in 0 .. N : T[n][1] < i}
  <2>1. S \subseteq Nat /\ N \in S
    OBVIOUS
  <2>2. PICK n \in S : \A m \in S : n =< m
    <3>. HIDE DEF S
    <3>. QED
      BY <2>1, LeastNumber
  <2>3. n \in 0 .. N /\ T[n][1] < i
    OBVIOUS
  <2>4. n # 0
    <3>1. K \in Nat /\ i =< K
      BY <1>1
    <3>. QED
      BY <2>3, <3>1
  <2>5. n - 1 \in 0 .. N - 1 /\ (n - 1) + 1 = n /\ n - 1 \in 0 .. N
    BY <2>3, <2>4
  <2>6. n - 1 \notin S
    <3>. HIDE DEF S
    <3>. QED
      BY <2>2, <2>3, <2>5
  <2>7. ~(T[n - 1][1] < i)
    BY <2>5, <2>6
  <2>8. /\ T[n][1] \in Nat /\ T[n - 1][1] \in Nat
        /\ IsRide(T[n - 1]) => T[n][1] = T[n - 1][1] - 1
        /\ ~IsRide(T[n - 1]) => T[n][1] = T[n - 1][1]
    BY <1>2, <2>5
  <2>9. IsRide(T[n - 1]) /\ T[n - 1][1] = i
    BY <2>3, <2>7, <2>8
  <2>. QED
    BY <2>5, <2>9
<1>7. h \in [X -> 1 .. K]
  BY <1>4
<1>8. \A x, y \in X : h[x] = h[y] => x = y
  <2>1. ASSUME NEW m \in 0 .. N, NEW n \in 0 .. N, IsRide(T[m]), IsRide(T[n]), T[m][1] = T[n][1]
        PROVE  T[m] = T[n]
    <3>1. ~(m < n) /\ ~(n < m)
      BY <1>5, <2>1
    <3>. QED
      BY <3>1
  <2>. QED
    BY <2>1
<1>9. \A i \in 1 .. K : \E x \in X : h[x] = i
  BY <1>6
<1>10. X \subseteq Rounds \X Stop
  BY <1>1 DEF Labelled
<1>. HIDE DEF X, h
<1>11. IsFiniteSet(X)
  BY <1>10, FS_Subset, Zenon
<1>12. h \in Bijection(X, 1 .. K)
  BY <1>7, <1>8, <1>9, Zenon DEF Bijection, Injection, Surjection, IsInjective
<1>13. Cardinality(1 .. K) = Cardinality(X)
  BY <1>11, <1>12, FS_Bijection, Zenon DEF ExistsBijection
<1>14. K \in Nat
  BY <1>1
<1>15. Cardinality(1 .. K) = K
  BY <1>14, FS_Interval
<1>. QED
  BY <1>13, <1>15 DEF X

\* The trail of a journey is longer than there are labels.
LEMMA TrailIsLong ==
  ASSUME IInv
  PROVE  /\ LongestTrail \in Nat /\ IsFiniteSet(Rounds \X Stop)
         /\ Cardinality(Rounds \X Stop) < LongestTrail + 1
<1>. DEFINE R == MaxRound(ask) + 1
            c == Cardinality(Stop)
<1>1. R \in Nat /\ MaxRound(ask) \in Nat
  BY DEF IInv, TypeOK, IsAsk, MaxRound
<1>2. c \in Nat
  BY StopAssumption, FS_CardinalityType
<1>3. IsFiniteSet(Rounds) /\ Cardinality(Rounds) = R
  BY <1>1, FS_Interval DEF Rounds
<1>4. IsFiniteSet(Rounds \X Stop) /\ Cardinality(Rounds \X Stop) = R * c
  BY <1>3, StopAssumption, FS_Product
<1>5. LongestTrail = R * (c + 1)
  BY DEF LongestTrail
<1>. HIDE DEF R, c
<1>6. R * (c + 1) = R * c + R /\ R * c \in Nat
  BY <1>1, <1>2
<1>. QED
  BY <1>1, <1>4, <1>5, <1>6

\* Every journey returned leads back to an origin and has as many rides as its round,
\* whatever the walks, which may take no time (reconstruct_raptor_journey, which follows
\* the parents without a bound).
THEOREM JourneysLeadBack == Spec => []JourneysAreWhole
<1>1. IInv /\ WalksLeadBack => JourneysAreWhole
  <2>. SUFFICES ASSUME IInv, WalksLeadBack, NEW j \in Journeys
                PROVE  LET trail == Trail(j[1], j[2])
                           start == trail[LongestTrail]
                       IN  /\ start[1] = 0 /\ start[2] \in ask.from
                           /\ Cardinality({trail[n] : n \in {m \in DOMAIN trail : IsRide(trail[m])}})
                                = j[1]
    BY DEF JourneysAreWhole
  <2>. DEFINE T == Trail(j[1], j[2])
              N == LongestTrail
  <2>1. j \in Labelled /\ j = <<j[1], j[2]>>
    BY DEF Journeys, Targets, Labelled
  <2>2. /\ N \in Nat /\ IsFiniteSet(Rounds \X Stop)
        /\ Cardinality(Rounds \X Stop) < N + 1
    BY TrailIsLong
  <2>3. \A n \in 0 .. N : T[n] = IF n = 0 THEN <<j[1], j[2]>> ELSE Back(T[n - 1])
    BY <2>2, TrailIs
  <2>4. DOMAIN T = 0 .. N
    BY <2>2, TrailIs
  <2>. HIDE DEF T, N
  <2>5. T[0] = j /\ \A n \in 1 .. N : T[n] = Back(T[n - 1])
    BY <2>1, <2>2, <2>3
  <2>6. T[N] \in Labelled
    BY <2>1, <2>2, <2>5, TrailLeads
  <2>7. ParentOf(T[N]).kind \notin {"walk", "ride"}
    BY <2>1, <2>2, <2>5, TrailEnds
  <2>8. T[N][1] = 0 /\ T[N][2] \in ask.from
    BY <2>6, <2>7, BackIs
  <2>9. Cardinality({T[n] : n \in {m \in 0 .. N : IsRide(T[m])}}) = j[1]
    BY <2>1, <2>2, <2>5, <2>8, TrailRides
  <2>. QED
    BY <2>4, <2>8, <2>9 DEF T, N
<1>. QED
  BY <1>1, SearchInvariant, WalksEnd, PTL

-----------------------------------------------------------------------------
(* Direct services.  R is an order of a set if it compares any two of its  *)
(* members, is transitive and ties nobody.                                 *)

Orders(R, S) ==
  /\ \A x \in S, y \in S : <<x, y>> \in R \/ <<y, x>> \in R
  /\ \A x \in S, y \in S : <<x, y>> \in R /\ <<y, x>> \in R => x = y
  /\ \A x \in S, y \in S, z \in S : <<x, y>> \in R /\ <<y, z>> \in R => <<x, z>> \in R

\* The members of S that are not after d.
UpTo(R, S, d) == {c \in S : <<c, d>> \in R}

LEMMA UpToIsSmall ==
  ASSUME NEW S, IsFiniteSet(S), NEW R, NEW d
  PROVE  /\ IsFiniteSet(UpTo(R, S, d)) /\ Cardinality(UpTo(R, S, d)) \in Nat
         /\ Cardinality(UpTo(R, S, d)) =< Cardinality(S)
<1>1. UpTo(R, S, d) \in SUBSET S
  BY DEF UpTo
<1> QED
  BY <1>1, FS_Subset, FS_CardinalityType

\* A finite set in order has a first member.
LEMMA FirstIs ==
  ASSUME NEW S, IsFiniteSet(S), S # {}, NEW R, Orders(R, S)
  PROVE  \E m \in S : \A x \in S : <<m, x>> \in R
<1>. DEFINE Rank(d) == Cardinality(UpTo(R, S, d))
            V == {Rank(d) : d \in S}
<1>1. V \subseteq Nat /\ V # {}
  BY UpToIsSmall
<1>2. PICK v \in V : \A w \in V : v =< w
  <2>. HIDE DEF V
  <2> QED
    BY <1>1, LeastNumber
<1>3. PICK m \in S : v = Rank(m)
  BY <1>2
<1>4. ASSUME NEW x \in S, <<m, x>> \notin R  PROVE FALSE
  <2>1. <<x, m>> \in R /\ <<m, m>> \in R
    BY <1>4 DEF Orders
  <2>2. UpTo(R, S, x) \in SUBSET UpTo(R, S, m)
    BY <2>1 DEF Orders, UpTo
  <2>3. m \in UpTo(R, S, m) /\ m \notin UpTo(R, S, x)
    BY <2>1, <1>4 DEF UpTo
  <2>4. UpTo(R, S, x) # UpTo(R, S, m)
    BY <2>3
  <2>5. Rank(x) =< Rank(m) /\ Rank(x) # Rank(m)
    BY <2>2, <2>4, UpToIsSmall, FS_Subset
  <2>6. Rank(m) =< Rank(x)
    BY <1>2, <1>3
  <2>7. Rank(m) \in Nat /\ Rank(x) \in Nat
    BY UpToIsSmall
  <2> QED
    BY <2>5, <2>6, <2>7
<1> QED
  BY <1>4

\* And a last one.
LEMMA LastIs ==
  ASSUME NEW S, IsFiniteSet(S), S # {}, NEW R, Orders(R, S)
  PROVE  \E m \in S : \A x \in S : <<x, m>> \in R
<1>. DEFINE Q == {p \in S \X S : <<p[2], p[1]>> \in R}
<1>1. \A x \in S, y \in S : <<x, y>> \in Q <=> <<y, x>> \in R
  OBVIOUS
<1>2. Orders(Q, S)
  <2>. HIDE DEF Q
  <2> QED
    BY <1>1 DEF Orders
<1>3. \E m \in S : \A x \in S : <<m, x>> \in Q
  <2>. HIDE DEF Q
  <2> QED
    BY <1>2, FirstIs
<1> QED
  BY <1>1, <1>3

\* Those with at most n members up to them are at most n.
LEMMA FewAreFirst ==
  ASSUME NEW S, IsFiniteSet(S), NEW R, Orders(R, S), NEW n \in Nat
  PROVE  Cardinality({d \in S : Cardinality(UpTo(R, S, d)) =< n}) =< n
<1>. DEFINE T == {d \in S : Cardinality(UpTo(R, S, d)) =< n}
<1>1. T \in SUBSET S
  OBVIOUS
<1>2. IsFiniteSet(T) /\ Orders(R, T)
  BY <1>1, FS_Subset DEF Orders
<1>3. CASE T = {}
  BY <1>3, FS_EmptySet
<1>4. CASE T # {}
  <2>1. PICK m \in T : \A x \in T : <<x, m>> \in R
    <3>. HIDE DEF T
    <3> QED
      BY <1>2, <1>4, LastIs
  <2>2. T \in SUBSET UpTo(R, S, m)
    BY <2>1 DEF UpTo
  <2>3. Cardinality(T) =< Cardinality(UpTo(R, S, m))
    BY <2>2, UpToIsSmall, FS_Subset
  <2>4. Cardinality(UpTo(R, S, m)) =< n
    BY <2>1
  <2>5. Cardinality(T) \in Nat /\ Cardinality(UpTo(R, S, m)) \in Nat
    BY <1>2, FS_CardinalityType, UpToIsSmall
  <2>6. Cardinality(T) =< n
    <3>. HIDE DEF T
    <3> QED
      BY <2>3, <2>4, <2>5
  <2> QED
    BY <2>6
<1> QED
  BY <1>3, <1>4

\* All of them, if there are no more than n.
LEMMA AllAreFirst ==
  ASSUME NEW S, IsFiniteSet(S), NEW R, NEW n \in Nat, Cardinality(S) =< n
  PROVE  {d \in S : Cardinality(UpTo(R, S, d)) =< n} = S
<1>1. Cardinality(S) \in Nat
  BY FS_CardinalityType
<1>2. \A d \in S : Cardinality(UpTo(R, S, d)) =< n
  BY <1>1, UpToIsSmall
<1> QED
  BY <1>2

\* A set whose members are told apart by a function is no larger than its image.
LEMMA ToldApart ==
  ASSUME NEW S, NEW f, NEW T, IsFiniteSet(T), \A x \in S : f[x] \in T,
         \A x \in S, y \in S : f[x] = f[y] => x = y
  PROVE  IsFiniteSet(S) /\ Cardinality(S) =< Cardinality(T)
<1>. DEFINE g == [x \in S |-> f[x]]
<1>1. g \in [S -> T] /\ \A x \in S, y \in S : g[x] = g[y] => x = y
  OBVIOUS
<1>2. g \in Injection(S, T)
  <2>. HIDE DEF g
  <2> QED
    BY <1>1 DEF Injection, IsInjective
<1>. HIDE DEF g
<1> QED
  BY <1>2, FS_Injection

\* The image of a finite set is finite.
LEMMA ImageIsFinite ==
  ASSUME NEW S, IsFiniteSet(S), NEW f
  PROVE  IsFiniteSet({f[x] : x \in S})
<1>. DEFINE T == {f[x] : x \in S}
            g == [x \in S |-> f[x]]
<1>1. g \in [S -> T] /\ \A y \in T : \E x \in S : g[x] = y
  OBVIOUS
<1>2. IsFiniteSet(T)
  <2>. HIDE DEF g, T
  <2>1. g \in Surjection(S, T)
    BY <1>1 DEF Surjection
  <2> QED
    BY <2>1, FS_Surjection
<1> QED
  BY <1>2

\* The first members of every value of f, and those with at most n members up to them.
FirstOfEach(R, S, f) == {d \in S : \A c \in S : f[c] = f[d] => <<d, c>> \in R}
Few(R, S, n) == {d \in S : Cardinality(UpTo(R, S, d)) =< n}

LEMMA OneOfEach ==
  ASSUME NEW S, NEW R, Orders(R, S), NEW f, NEW T, IsFiniteSet(T), \A x \in S : f[x] \in T
  PROVE  /\ IsFiniteSet(FirstOfEach(R, S, f))
         /\ Cardinality(FirstOfEach(R, S, f)) =< Cardinality(T)
<1>. DEFINE F == FirstOfEach(R, S, f)
<1>1. \A x \in F : f[x] \in T
  BY DEF FirstOfEach
<1>2. \A x \in F, y \in F : f[x] = f[y] => x = y
  BY DEF FirstOfEach, Orders
<1>. HIDE DEF F
<1>3. IsFiniteSet(F) /\ Cardinality(F) =< Cardinality(T)
  BY <1>1, <1>2, ToldApart
<1> QED
  BY <1>3 DEF F

\* What is selected from candidates with at most lim of each pair, then one of each
\* identity, then one of each line before the others.
SelectKept(R, all, pair, lim) ==
  {d \in all : Cardinality({c \in all : pair[c] = pair[d] /\ <<c, d>> \in R}) =< lim}
Selected(R, all, pair, ident, line, lim) ==
  LET distinct == FirstOfEach(R, SelectKept(R, all, pair, lim), ident)
      reserved == Few(R, FirstOfEach(R, distinct, line), lim)
  IN  reserved \cup Few(R, distinct \ reserved, lim - Cardinality(reserved))

LEMMA SelectedAreFew ==
  ASSUME NEW all, IsFiniteSet(all), NEW R, Orders(R, all), NEW lim \in Nat,
         NEW pair, NEW ident, NEW line
  PROVE  /\ Selected(R, all, pair, ident, line, lim) \subseteq all
         /\ Cardinality(Selected(R, all, pair, ident, line, lim)) =< lim
<1>. DEFINE kept == SelectKept(R, all, pair, lim)
            distinct == FirstOfEach(R, kept, ident)
            firsts == FirstOfEach(R, distinct, line)
            reserved == Few(R, firsts, lim)
            rest == distinct \ reserved
            others == Few(R, rest, lim - Cardinality(reserved))
<1>1. /\ kept \in SUBSET all /\ distinct \in SUBSET all /\ firsts \in SUBSET all
      /\ reserved \in SUBSET all /\ rest \in SUBSET all /\ others \in SUBSET all
  BY DEF SelectKept, FirstOfEach, Few
<1>2. Selected(R, all, pair, ident, line, lim) = reserved \cup others
  BY DEF Selected
<1>3. /\ IsFiniteSet(firsts) /\ Orders(R, firsts) /\ IsFiniteSet(rest) /\ Orders(R, rest)
      /\ IsFiniteSet(reserved) /\ IsFiniteSet(others)
  <2>. HIDE DEF kept, distinct, firsts, reserved, rest, others
  <2> QED
    BY <1>1, FS_Subset DEF Orders
<1>4. Cardinality(reserved) =< lim
  <2>. HIDE DEF firsts
  <2> QED
    BY <1>3, FewAreFirst DEF Few
<1>5. Cardinality(reserved) \in Nat /\ Cardinality(others) \in Nat
  BY <1>3, FS_CardinalityType
<1>6. Cardinality(others) =< lim - Cardinality(reserved)
  <2>. DEFINE n == lim - Cardinality(reserved)
  <2>1. n \in Nat /\ others = {d \in rest : Cardinality(UpTo(R, rest, d)) =< n}
    BY <1>4, <1>5 DEF Few
  <2>. HIDE DEF rest, n, others
  <2>2. Cardinality(others) =< n
    BY <2>1, <1>3, FewAreFirst
  <2> QED
    BY <2>2 DEF n
<1>7. Cardinality(reserved \cup others) =< Cardinality(reserved) + Cardinality(others)
  <2>1. reserved \cap others = {}
    BY DEF Few
  <2>. HIDE DEF reserved, others
  <2> QED
    BY <2>1, <1>3, <1>5, FS_Union, FS_EmptySet
<1>8. IsFiniteSet(reserved \cup others) /\ Cardinality(reserved \cup others) \in Nat
  <2>. HIDE DEF reserved, others
  <2> QED
    BY <1>3, FS_Union, FS_CardinalityType
<1>9. Cardinality(reserved \cup others) =< lim
  <2>. HIDE DEF reserved, others
  <2> QED
    BY <1>4, <1>5, <1>6, <1>7, <1>8
<1> QED
  BY <1>1, <1>2, <1>9

\* With room for one of each line, every line is selected.
LEMMA EveryLineIsSelected ==
  ASSUME NEW all, IsFiniteSet(all), NEW R, Orders(R, all), NEW lim \in Nat,
         NEW pair, NEW ident, NEW line,
         \A c \in all, d \in all : pair[c] = pair[d] => line[c] = line[d],
         \A c \in all, d \in all : ident[c] = ident[d] => line[c] = line[d],
         Cardinality({line[d] : d \in all}) =< lim, NEW d \in all
  PROVE  \E c \in Selected(R, all, pair, ident, line, lim) : line[c] = line[d]
<1>. DEFINE lines == {line[e] : e \in all}
            ofLine == {c \in all : line[c] = line[d]}
            kept == SelectKept(R, all, pair, lim)
            distinct == FirstOfEach(R, kept, ident)
            firsts == FirstOfEach(R, distinct, line)
            reserved == Few(R, firsts, lim)
<1>1. IsFiniteSet(lines) /\ Cardinality(lines) \in Nat
  BY ImageIsFinite, FS_CardinalityType
<1>2. lim >= 1
  <2>1. lines # {}
    OBVIOUS
  <2>2. Cardinality(lines) # 0
    <3>. HIDE DEF lines
    <3> QED
      BY <1>1, <2>1, FS_EmptySet
  <2>3. Cardinality(lines) =< lim
    OBVIOUS
  <2>. HIDE DEF lines
  <2> QED
    BY <1>1, <2>2, <2>3
<1>3. PICK m \in ofLine : \A c \in ofLine : <<m, c>> \in R
  <2>1. ofLine \in SUBSET all /\ d \in ofLine
    OBVIOUS
  <2>. HIDE DEF ofLine
  <2>2. IsFiniteSet(ofLine) /\ Orders(R, ofLine)
    BY <2>1, FS_Subset DEF Orders
  <2> QED
    BY <2>1, <2>2, FirstIs
<1>4. m \in all /\ line[m] = line[d] /\ <<m, m>> \in R
  BY <1>3
<1>5. m \in kept
  <2>. DEFINE before == {c \in all : pair[c] = pair[m] /\ <<c, m>> \in R}
  <2>1. \A c \in before : c = m
    BY <1>3, <1>4 DEF Orders
  <2>2. before \in SUBSET {m}
    BY <2>1
  <2>3. IsFiniteSet({m}) /\ Cardinality({m}) = 1
    BY FS_Singleton
  <2>4. Cardinality(before) =< 1 /\ Cardinality(before) \in Nat
    <3>. HIDE DEF before
    <3> QED
      BY <2>2, <2>3, FS_Subset, FS_CardinalityType
  <2>5. Cardinality(before) =< lim
    <3>. HIDE DEF before
    <3> QED
      BY <2>4, <1>2
  <2> QED
    BY <2>5, <1>4 DEF SelectKept
<1>6. kept \subseteq all /\ distinct \subseteq all /\ firsts \subseteq all
  BY DEF SelectKept, FirstOfEach
<1>7. m \in distinct
  BY <1>3, <1>4, <1>5, <1>6 DEF FirstOfEach
<1>8. m \in firsts
  BY <1>3, <1>4, <1>7, <1>6 DEF FirstOfEach
<1>9. IsFiniteSet(firsts) /\ Cardinality(firsts) =< Cardinality(lines)
  <2>1. \A x \in distinct : line[x] \in lines
    BY <1>6
  <2>2. Orders(R, distinct)
    BY <1>6 DEF Orders
  <2>. HIDE DEF lines, distinct
  <2> QED
    BY <1>1, <2>1, <2>2, OneOfEach
<1>10. Cardinality(firsts) =< lim
  <2>1. Cardinality(lines) =< lim
    OBVIOUS
  <2>2. Cardinality(firsts) \in Nat
    BY <1>9, FS_CardinalityType
  <2>. HIDE DEF lines, firsts
  <2> QED
    BY <1>1, <1>9, <2>1, <2>2
<1>11. reserved = firsts
  <2>. HIDE DEF firsts
  <2> QED
    BY <1>9, <1>10, AllAreFirst DEF Few
<1> QED
  BY <1>4, <1>8, <1>11 DEF Selected

\* With room for one of each identity, every identity is selected.
LEMMA EveryIdentityIsSelected ==
  ASSUME NEW all, IsFiniteSet(all), NEW R, Orders(R, all), NEW lim \in Nat,
         NEW pair, NEW ident, NEW line,
         \A c \in all, d \in all : pair[c] = pair[d] /\ ident[c] = ident[d] => c = d,
         Cardinality({ident[d] : d \in all}) =< lim, NEW d \in all
  PROVE  \E c \in Selected(R, all, pair, ident, line, lim) : ident[c] = ident[d]
<1>. DEFINE idents == {ident[e] : e \in all}
            ofIdent == {c \in all : ident[c] = ident[d]}
            kept == SelectKept(R, all, pair, lim)
            distinct == FirstOfEach(R, kept, ident)
            firsts == FirstOfEach(R, distinct, line)
            reserved == Few(R, firsts, lim)
            rest == distinct \ reserved
            room == lim - Cardinality(reserved)
            others == Few(R, rest, room)
<1>1. IsFiniteSet(idents) /\ Cardinality(idents) \in Nat /\ Cardinality(idents) =< lim
  BY ImageIsFinite, FS_CardinalityType
<1>2. kept = all
  <2>1. ASSUME NEW e \in all
        PROVE  Cardinality({c \in all : pair[c] = pair[e] /\ <<c, e>> \in R}) =< lim
    <3>. DEFINE before == {c \in all : pair[c] = pair[e] /\ <<c, e>> \in R}
    <3>1. \A x \in before : ident[x] \in idents
      OBVIOUS
    <3>2. \A x \in before, y \in before : ident[x] = ident[y] => x = y
      OBVIOUS
    <3>. HIDE DEF before, idents
    <3>3. IsFiniteSet(before) /\ Cardinality(before) =< Cardinality(idents)
      BY <1>1, <3>1, <3>2, ToldApart
    <3>4. Cardinality(before) =< lim
      BY <1>1, <3>3, FS_CardinalityType
    <3> QED
      BY <3>4 DEF before
  <2> QED
    BY <2>1 DEF SelectKept
<1>3. PICK m \in ofIdent : \A c \in ofIdent : <<m, c>> \in R
  <2>1. ofIdent \in SUBSET all /\ d \in ofIdent
    OBVIOUS
  <2>. HIDE DEF ofIdent
  <2>2. IsFiniteSet(ofIdent) /\ Orders(R, ofIdent)
    BY <2>1, FS_Subset DEF Orders
  <2> QED
    BY <2>1, <2>2, FirstIs
<1>4. m \in all /\ ident[m] = ident[d]
  BY <1>3
<1>5. m \in distinct
  BY <1>2, <1>3, <1>4 DEF FirstOfEach
<1>6. IsFiniteSet(distinct) /\ Cardinality(distinct) =< lim /\ Cardinality(distinct) \in Nat
  <2>1. (\A x \in kept : ident[x] \in idents) /\ Orders(R, kept)
    BY <1>2
  <2>. HIDE DEF idents, kept
  <2>2. IsFiniteSet(distinct) /\ Cardinality(distinct) =< Cardinality(idents)
    BY <1>1, <2>1, OneOfEach
  <2>3. Cardinality(distinct) \in Nat
    BY <2>2, FS_CardinalityType
  <2>. HIDE DEF distinct
  <2> QED
    BY <1>1, <2>2, <2>3
<1>7. reserved \in SUBSET distinct
  BY DEF Few, FirstOfEach
<1>8. rest \subseteq others
  <2>1. /\ IsFiniteSet(reserved) /\ Cardinality(reserved) \in Nat /\ IsFiniteSet(rest)
        /\ Cardinality(reserved) =< Cardinality(distinct)
        /\ Cardinality(rest) = Cardinality(distinct) - Cardinality(reserved)
    <3>1. distinct \cap reserved = reserved /\ rest \in SUBSET distinct
      BY <1>7
    <3>. HIDE DEF distinct, reserved
    <3>2. /\ IsFiniteSet(reserved) /\ Cardinality(reserved) =< Cardinality(distinct)
          /\ Cardinality(reserved) \in Nat
      BY <1>6, <1>7, FS_Subset, FS_CardinalityType
    <3>3. Cardinality(rest) = Cardinality(distinct) - Cardinality(distinct \cap reserved)
      BY <1>6, FS_Difference
    <3>4. IsFiniteSet(rest)
      BY <1>6, <3>1, FS_Subset
    <3> QED
      BY <3>1, <3>2, <3>3, <3>4
  <2>2. room \in Nat /\ Cardinality(rest) =< room
    <3>. HIDE DEF distinct, reserved, rest
    <3> QED
      BY <2>1, <1>6 DEF room
  <2>. HIDE DEF rest, room
  <2>3. others = rest
    BY <2>1, <2>2, AllAreFirst DEF Few
  <2> QED
    BY <2>3
<1>9. m \in reserved \cup others
  BY <1>5, <1>8
<1> QED
  BY <1>4, <1>9 DEF Selected

\* The greatest of some numbers.
LEMMA MaxIs ==
  ASSUME NEW S, S \subseteq Nat, IsFiniteSet(S), S # {}
  PROVE  Max(S) \in S /\ \A x \in S : x =< Max(S)
<1>. DEFINE R == {p \in S \X S : p[1] =< p[2]}
<1>1. \A x \in S, y \in S : <<x, y>> \in R <=> x =< y
  OBVIOUS
<1>2. Orders(R, S)
  <2>. HIDE DEF R
  <2> QED
    BY <1>1 DEF Orders
<1>3. \E m \in S : \A x \in S : <<x, m>> \in R
  <2>. HIDE DEF R
  <2> QED
    BY <1>2, LastIs
<1>4. PICK m \in S : \A x \in S : m >= x
  BY <1>1, <1>3
<1> QED
  BY <1>4 DEF Max

\* The keys of the candidates are in order.
LEMMA KeysAreOrdered ==
  ASSUME NEW k \in [1 .. 6 -> Int], NEW l \in [1 .. 6 -> Int], NEW m \in [1 .. 6 -> Int]
  PROVE  /\ KeyBefore(k, l) \/ KeyBefore(l, k)
         /\ KeyBefore(k, l) /\ KeyBefore(l, k) => k = l
         /\ KeyBefore(k, l) /\ KeyBefore(l, m) => KeyBefore(k, m)
<1>1. ASSUME k # l  PROVE KeyBefore(k, l) \/ KeyBefore(l, k)
  <2>. DEFINE D == {i \in 1 .. 6 : k[i] # l[i]}
  <2>1. D # {} /\ D \subseteq Nat
    BY <1>1
  <2>2. PICK i \in D : \A j \in D : i =< j
    <3>. HIDE DEF D
    <3> QED
      BY <2>1, LeastNumber
  <2>3. i \in 1 .. 6 /\ \A j \in 1 .. i - 1 : k[j] = l[j]
    BY <2>2
  <2>4. k[i] < l[i] \/ l[i] < k[i]
    BY <2>2
  <2> QED
    BY <2>3, <2>4 DEF KeyBefore
<1>2. KeyBefore(k, k)
  BY DEF KeyBefore
<1>3. ASSUME KeyBefore(k, l), KeyBefore(l, k), k # l  PROVE FALSE
  <2>1. PICK i \in 1 .. 6 : k[i] < l[i] /\ \A j \in 1 .. i - 1 : k[j] = l[j]
    BY <1>3 DEF KeyBefore
  <2>2. PICK h \in 1 .. 6 : l[h] < k[h] /\ \A j \in 1 .. h - 1 : k[j] = l[j]
    BY <1>3 DEF KeyBefore
  <2>3. k[i] \in Int /\ l[i] \in Int /\ k[h] \in Int /\ l[h] \in Int
    OBVIOUS
  <2>4. i = h \/ i \in 1 .. h - 1 \/ h \in 1 .. i - 1
    OBVIOUS
  <2> QED
    BY <2>1, <2>2, <2>3, <2>4
<1>4. ASSUME KeyBefore(k, l), KeyBefore(l, m), k # l, l # m  PROVE KeyBefore(k, m)
  <2>1. PICK i \in 1 .. 6 : k[i] < l[i] /\ \A j \in 1 .. i - 1 : k[j] = l[j]
    BY <1>4 DEF KeyBefore
  <2>2. PICK h \in 1 .. 6 : l[h] < m[h] /\ \A j \in 1 .. h - 1 : l[j] = m[j]
    BY <1>4 DEF KeyBefore
  <2>3. /\ k[i] \in Int /\ l[i] \in Int /\ m[i] \in Int
        /\ k[h] \in Int /\ l[h] \in Int /\ m[h] \in Int
    OBVIOUS
  <2>4. CASE i < h
    <3>1. k[i] < m[i] /\ \A j \in 1 .. i - 1 : k[j] = m[j]
      BY <2>1, <2>2, <2>4
    <3> QED
      BY <3>1 DEF KeyBefore
  <2>5. CASE i >= h
    <3>1. k[h] < m[h] /\ \A j \in 1 .. h - 1 : k[j] = m[j]
      BY <2>1, <2>2, <2>3, <2>5
    <3> QED
      BY <3>1 DEF KeyBefore
  <2> QED
    BY <2>4, <2>5
<1> QED
  BY <1>1, <1>2, <1>3, <1>4

\* A vehicle is no later than the latest of its route and no earlier than the earliest.
LEMMA RouteBounds ==
  ASSUME IsTimetable(tt), IsAsk(ask), NEW r \in DOMAIN tt.routes,
         NEW n \in DOMAIN Route(r).trips, NEW s \in Stop
  PROVE  /\ RouteLate(Route(r), ask.realtime) \in Nat /\ RouteEarly(Route(r), ask.realtime) \in Nat
         /\ ask.realtime.delay[Route(r).trips[n].id][s] =< RouteLate(Route(r), ask.realtime)
         /\ -ask.realtime.delay[Route(r).trips[n].id][s] =< RouteEarly(Route(r), ask.realtime)
<1>. DEFINE trips == DOMAIN Route(r).trips
            id(m) == Route(r).trips[m].id
            late == [m \in trips |-> ask.realtime.late[id(m)]]
            early == [m \in trips |-> ask.realtime.early[id(m)]]
            L == {0} \cup {late[m] : m \in trips}
            E == {0} \cup {early[m] : m \in trips}
<1>1. IsFiniteSet(trips) /\ \A m \in trips : id(m) \in TripId
  BY DEF IsTimetable, IsRoute, Route
<1>2. IsRealtime(ask.realtime)
  BY DEF IsAsk
<1>3. \A m \in trips : late[m] \in Nat /\ early[m] \in Nat
  <2>1. ask.realtime.late \in [TripId -> Nat] /\ ask.realtime.early \in [TripId -> Nat]
    BY <1>2 DEF IsRealtime
  <2>2. \A m \in trips : late[m] = ask.realtime.late[id(m)] /\ early[m] = ask.realtime.early[id(m)]
    OBVIOUS
  <2>. HIDE DEF late, early, trips, id
  <2> QED
    BY <1>1, <2>1, <2>2
<1>4. L \subseteq Nat /\ E \subseteq Nat /\ L # {} /\ E # {}
  <2>. HIDE DEF late, early, trips
  <2> QED
    BY <1>3
<1>5. IsFiniteSet(L) /\ IsFiniteSet(E)
  <2>. HIDE DEF late, early, trips
  <2>1. IsFiniteSet({late[m] : m \in trips}) /\ IsFiniteSet({early[m] : m \in trips})
    BY <1>1, ImageIsFinite
  <2>2. IsFiniteSet({0})
    BY FS_Singleton
  <2> QED
    BY <2>1, <2>2, FS_Union
<1>6. L = {0} \cup {ask.realtime.late[id(m)] : m \in trips}
  OBVIOUS
<1>7. E = {0} \cup {ask.realtime.early[id(m)] : m \in trips}
  OBVIOUS
<1>8. RouteLate(Route(r), ask.realtime) = Max(L) /\ RouteEarly(Route(r), ask.realtime) = Max(E)
  BY <1>6, <1>7 DEF RouteLate, RouteEarly
<1>9. Max(L) \in L /\ (\A x \in L : x =< Max(L)) /\ Max(E) \in E /\ (\A x \in E : x =< Max(E))
  <2>. HIDE DEF L, E
  <2> QED
    BY <1>4, <1>5, MaxIs
<1>10. late[n] \in L /\ early[n] \in E
  OBVIOUS
<1>11. late[n] =< Max(L) /\ early[n] =< Max(E)
  BY <1>9, <1>10
<1>12. /\ ask.realtime.delay[id(n)][s] \in Int
       /\ ask.realtime.delay[id(n)][s] =< late[n] /\ -ask.realtime.delay[id(n)][s] =< early[n]
  BY <1>1, <1>2 DEF IsRealtime
<1>13. Max(L) \in Nat /\ Max(E) \in Nat /\ late[n] \in Nat /\ early[n] \in Nat
  BY <1>3, <1>4, <1>9
<1> QED
  <2>. HIDE DEF L, E, late, early
  <2> QED
    BY <1>8, <1>11, <1>12, <1>13

\* A vehicle that leaves in the window is due within it, moved by the widest delays.
LEMMA WindowHolds ==
  ASSUME NEW due \in Time, NEW delay \in Int, NEW late \in Nat, NEW early \in Nat,
         delay =< late, -delay =< early, NEW from \in Time, NEW latest \in Time,
         ApplyDelay(due, delay) \in from .. latest
  PROVE  due >= SatSub(from, late) /\ due =< SatAdd(latest, early)
BY TimeAssumption DEF ApplyDelay, SatAdd, SatSub, Time

\* What a direct service is made of.
Service(r, n, i, j) == [route |-> r, trip |-> n, board |-> i, alight |-> j]
Serves(r, n, i, j) ==
  /\ r \in DOMAIN tt.routes /\ Allowed(Route(r), ask)
  /\ n \in Verified(Route(r), ask.unverified)
  /\ i \in 1 .. Len(Route(r).stops) /\ j \in 1 .. Len(Route(r).stops) /\ i < j
  /\ Route(r).trips[n].calls[i].pickup /\ Route(r).trips[n].calls[j].dropOff
  /\ StopAt(r, i) \in ask.from /\ StopAt(r, j) \in ask.to
  /\ Leaves(r, n, i) \in ask.departure .. SatAdd(ask.departure, Window)
  /\ Leaves(r, n, i) =< Arrives(r, n, j)

LEMMA ServicesAre ==
  ASSUME NEW d
  PROVE  d \in DirectServices
           <=> \E r, n, i, j : d = Service(r, n, i, j) /\ Serves(r, n, i, j)
<1>. DEFINE OfRoute(r) ==
              {[route |-> r, trip |-> ride[1], board |-> ride[2], alight |-> ride[3]] :
                 ride \in {x \in RidesOf(r) :
                             /\ StopAt(r, x[2]) \in ask.from /\ StopAt(r, x[3]) \in ask.to
                             /\ Leaves(r, x[1], x[2]) \in ask.departure .. SatAdd(ask.departure, Window)
                             /\ Leaves(r, x[1], x[2]) =< Arrives(r, x[1], x[3])}}
            Running == {q \in DOMAIN tt.routes : Allowed(Route(q), ask)}
<1>1. DirectServices = UNION {OfRoute(r) : r \in Running}
  BY DEF DirectServices
<1>2. d \in DirectServices <=> \E r \in Running : d \in OfRoute(r)
  <2>. HIDE DEF OfRoute, Running
  <2> QED
    BY <1>1
<1>3. ASSUME NEW r \in Running
      PROVE  d \in OfRoute(r) <=> \E n, i, j : d = Service(r, n, i, j) /\ Serves(r, n, i, j)
  <2>1. ASSUME d \in OfRoute(r)
        PROVE  \E n, i, j : d = Service(r, n, i, j) /\ Serves(r, n, i, j)
    <3>1. PICK x \in RidesOf(r) :
             /\ d = Service(r, x[1], x[2], x[3])
             /\ StopAt(r, x[2]) \in ask.from /\ StopAt(r, x[3]) \in ask.to
             /\ Leaves(r, x[1], x[2]) \in ask.departure .. SatAdd(ask.departure, Window)
             /\ Leaves(r, x[1], x[2]) =< Arrives(r, x[1], x[3])
      BY <2>1 DEF Service
    <3>2. /\ x[1] \in Verified(Route(r), ask.unverified)
          /\ x[2] \in 1 .. Len(Route(r).stops) /\ x[3] \in 1 .. Len(Route(r).stops) /\ x[2] < x[3]
          /\ Route(r).trips[x[1]].calls[x[2]].pickup /\ Route(r).trips[x[1]].calls[x[3]].dropOff
      BY <3>1 DEF RidesOf
    <3>3. Serves(r, x[1], x[2], x[3])
      BY <3>1, <3>2 DEF Serves
    <3> QED
      BY <3>1, <3>3
  <2>2. ASSUME NEW n, NEW i, NEW j, d = Service(r, n, i, j), Serves(r, n, i, j)
        PROVE  d \in OfRoute(r)
    <3>1. <<n, i, j>> \in RidesOf(r)
      BY <2>2 DEF RidesOf, Serves
    <3>2. <<n, i, j>> \in {x \in RidesOf(r) :
                             /\ StopAt(r, x[2]) \in ask.from /\ StopAt(r, x[3]) \in ask.to
                             /\ Leaves(r, x[1], x[2]) \in ask.departure .. SatAdd(ask.departure, Window)
                             /\ Leaves(r, x[1], x[2]) =< Arrives(r, x[1], x[3])}
      BY <3>1, <2>2 DEF Serves
    <3> QED
      BY <3>2, <2>2 DEF Service
  <2> QED
    BY <2>1, <2>2
<1>4. \A r, n, i, j : Serves(r, n, i, j) => r \in Running
  BY DEF Serves
<1> QED
  <2>. HIDE DEF OfRoute, Running
  <2> QED
    BY <1>2, <1>3, <1>4, Zenon

\* The departures looked at in the index are all that leave in the window.
LEMMA DirectTripsAre ==
  ASSUME IsTimetable(tt), IsAsk(ask)
  PROVE  DirectTrips(tt, ask, Window) = DirectServices
<1>. DEFINE latest == SatAdd(ask.departure, Window)
            Due(r, n, i) == Route(r).trips[n].calls[i].departure
            Runs(r, n, i, j) ==
              /\ Allowed(Route(r), ask) /\ i < j
              /\ Route(r).stops[i] \in ask.from /\ Route(r).stops[j] \in ask.to
              /\ Route(r).trips[n].calls[i].pickup /\ Route(r).trips[n].calls[j].dropOff
              /\ Due(r, n, i) >= SatSub(ask.departure, RouteLate(Route(r), ask.realtime))
              /\ Due(r, n, i) =< SatAdd(latest, RouteEarly(Route(r), ask.realtime))
              /\ Leaves(r, n, i) \in ask.departure .. latest
              /\ Arrives(r, n, j) >= Leaves(r, n, i)
            OfRoute(r) == {[route |-> r, trip |-> n, board |-> i, alight |-> j] :
                             n \in Verified(tt.routes[r], ask.unverified),
                             i \in DOMAIN tt.routes[r].stops, j \in DOMAIN tt.routes[r].stops}
            Every == UNION {OfRoute(r) : r \in DOMAIN tt.routes}
<1>1. DirectTrips(tt, ask, Window) = {d \in Every : Runs(d.route, d.trip, d.board, d.alight)}
  BY DEF DirectTrips, Leaves, Arrives, Route
<1>2. \A d : d \in Every <=> \E r \in DOMAIN tt.routes : d \in OfRoute(r)
  OBVIOUS
<1>3. \A r \in DOMAIN tt.routes : DOMAIN tt.routes[r].stops = 1 .. Len(Route(r).stops)
  <2>1. \A r \in DOMAIN tt.routes : tt.routes[r].stops \in Seq(Stop)
    BY DEF IsTimetable, IsRoute
  <2> QED
    BY <2>1 DEF Route
<1>4. \A d : \A r \in DOMAIN tt.routes :
        d \in OfRoute(r) <=> \E n \in Verified(Route(r), ask.unverified),
                                i \in 1 .. Len(Route(r).stops), j \in 1 .. Len(Route(r).stops) :
                               d = Service(r, n, i, j)
  BY <1>3 DEF Service, Route
<1>5. \A r, n, i, j : LET d == Service(r, n, i, j)
                      IN  d.route = r /\ d.trip = n /\ d.board = i /\ d.alight = j
  BY DEF Service
<1>6. ASSUME NEW r, NEW n, NEW i, NEW j, Serves(r, n, i, j)
      PROVE  Runs(r, n, i, j)
  <2>1. /\ r \in DOMAIN tt.routes /\ n \in DOMAIN Route(r).trips /\ i \in 1 .. Len(Route(r).stops)
        /\ Leaves(r, n, i) \in ask.departure .. latest
        /\ StopAt(r, i) \in ask.from /\ StopAt(r, j) \in ask.to
    BY <1>6 DEF Serves, Verified
  <2>2. /\ Route(r).trips[n].id \in TripId /\ Route(r).trips[n].calls[i].stop \in Stop
        /\ Due(r, n, i) \in Time
    BY <2>1 DEF IsTimetable, IsRoute, Route
  <2>. DEFINE delay == ask.realtime.delay[Route(r).trips[n].id][Route(r).trips[n].calls[i].stop]
              late == RouteLate(Route(r), ask.realtime)
              early == RouteEarly(Route(r), ask.realtime)
  <2>3. late \in Nat /\ early \in Nat /\ delay =< late /\ -delay =< early
    <3>. HIDE DEF delay, late, early
    <3> QED
      BY <2>1, <2>2, RouteBounds DEF delay, late, early
  <2>4. delay \in Int
    <3>1. ask.realtime.delay \in [TripId -> [Stop -> Int]]
      BY DEF IsAsk, IsRealtime
    <3> QED
      BY <2>2, <3>1
  <2>5. Leaves(r, n, i) = ApplyDelay(Due(r, n, i), delay)
    BY DEF Leaves, EffectiveDeparture, Route
  <2>6. ask.departure \in Time /\ latest \in Time
    BY TimeAssumption, LimitAssumption DEF IsAsk, SatAdd, Time
  <2>7. Due(r, n, i) >= SatSub(ask.departure, late) /\ Due(r, n, i) =< SatAdd(latest, early)
    <3>. HIDE DEF delay, late, early, latest, Due
    <3> QED
      BY <2>1, <2>2, <2>3, <2>4, <2>5, <2>6, WindowHolds
  <2>8. Arrives(r, n, j) >= Leaves(r, n, i)
    <3>1. j \in 1 .. Len(Route(r).stops)
      BY <1>6 DEF Serves
    <3>2. Arrives(r, n, j) \in Time
      BY <2>1, <3>1, ArrivesTime
    <3>3. Leaves(r, n, i) \in Int /\ Leaves(r, n, i) =< Arrives(r, n, j)
      BY <1>6, <2>1 DEF Serves
    <3> QED
      BY <3>2, <3>3, TimeAssumption DEF Time
  <2> QED
    BY <1>6, <2>1, <2>7, <2>8 DEF Serves, StopAt, Route
<1>7. ASSUME NEW r \in DOMAIN tt.routes, NEW n \in Verified(Route(r), ask.unverified),
             NEW i \in 1 .. Len(Route(r).stops), NEW j \in 1 .. Len(Route(r).stops),
             Runs(r, n, i, j)
      PROVE  Serves(r, n, i, j)
  <2>1. Leaves(r, n, i) =< Arrives(r, n, j)
    <3>1. n \in DOMAIN Route(r).trips
      BY DEF Verified
    <3>2. Arrives(r, n, j) \in Time
      BY <3>1, ArrivesTime
    <3>3. Leaves(r, n, i) \in Int /\ Arrives(r, n, j) >= Leaves(r, n, i)
      BY <1>7
    <3> QED
      BY <3>2, <3>3, TimeAssumption DEF Time
  <2> QED
    BY <1>7, <2>1 DEF Serves, StopAt, Route
<1>. HIDE DEF Runs, OfRoute, Every
<1>8. ASSUME NEW d \in DirectTrips(tt, ask, Window)  PROVE d \in DirectServices
  <2>1. d \in Every /\ Runs(d.route, d.trip, d.board, d.alight)
    BY <1>1
  <2>2. PICK r \in DOMAIN tt.routes : d \in OfRoute(r)
    BY <1>2, <2>1
  <2>3. PICK n \in Verified(Route(r), ask.unverified),
             i \in 1 .. Len(Route(r).stops), j \in 1 .. Len(Route(r).stops) :
               d = Service(r, n, i, j)
    BY <1>4, <2>2
  <2>4. Runs(r, n, i, j)
    BY <1>5, <2>1, <2>3
  <2> QED
    BY <1>7, <2>3, <2>4, ServicesAre
<1>9. ASSUME NEW d \in DirectServices  PROVE d \in DirectTrips(tt, ask, Window)
  <2>1. PICK r, n, i, j : d = Service(r, n, i, j) /\ Serves(r, n, i, j)
    BY ServicesAre
  <2>2. /\ r \in DOMAIN tt.routes /\ n \in Verified(Route(r), ask.unverified)
        /\ i \in 1 .. Len(Route(r).stops) /\ j \in 1 .. Len(Route(r).stops)
    BY <2>1 DEF Serves
  <2>3. d \in Every
    BY <1>2, <1>4, <2>1, <2>2
  <2>4. Runs(d.route, d.trip, d.board, d.alight)
    BY <1>5, <1>6, <2>1
  <2> QED
    BY <1>1, <2>3, <2>4
<1> QED
  BY <1>8, <1>9

\* There are finitely many direct services.
LEMMA FiniteServices ==
  ASSUME IsTimetable(tt), IsAsk(ask)
  PROVE  IsFiniteSet(DirectServices)
<1>. DEFINE OfRoute == [r \in DOMAIN tt.routes |-> {d \in DirectServices : d.route = r}]
            All == {OfRoute[r] : r \in DOMAIN tt.routes}
<1>1. IsFiniteSet(DOMAIN tt.routes)
  BY DEF IsTimetable
<1>2. IsFiniteSet(All)
  <2>. HIDE DEF OfRoute
  <2> QED
    BY <1>1, ImageIsFinite
<1>3. ASSUME NEW r \in DOMAIN tt.routes  PROVE IsFiniteSet(OfRoute[r])
  <2>. DEFINE stops == 1 .. Len(Route(r).stops)
              T == (DOMAIN Route(r).trips) \X (stops \X stops)
              S == {d \in DirectServices : d.route = r}
              f == [d \in S |-> <<d.trip, <<d.board, d.alight>>>>]
  <2>1. IsFiniteSet(DOMAIN Route(r).trips) /\ Len(Route(r).stops) \in Nat
    BY DEF IsTimetable, IsRoute, Route
  <2>2. IsFiniteSet(stops)
    BY <2>1, FS_Interval
  <2>3. IsFiniteSet(T)
    <3>. HIDE DEF stops
    <3> QED
      BY <2>1, <2>2, FS_Product
  <2>4. ASSUME NEW d \in S
        PROVE  /\ d = Service(r, d.trip, d.board, d.alight)
               /\ d.trip \in DOMAIN Route(r).trips /\ d.board \in stops /\ d.alight \in stops
    <3>1. d \in DirectServices /\ d.route = r
      OBVIOUS
    <3>2. PICK q, n, i, j : d = Service(q, n, i, j) /\ Serves(q, n, i, j)
      BY <3>1, ServicesAre
    <3>3. q = r /\ d.trip = n /\ d.board = i /\ d.alight = j
      BY <3>1, <3>2 DEF Service
    <3> QED
      BY <3>2, <3>3 DEF Serves, Verified
  <2>5. \A d \in S : f[d] \in T
    BY <2>4
  <2>6. \A d \in S, e \in S : f[d] = f[e] => d = e
    <3>1. \A d \in S : f[d] = <<d.trip, <<d.board, d.alight>>>>
      OBVIOUS
    <3>2. \A d \in S, e \in S : f[d] = f[e] => d.trip = e.trip /\ d.board = e.board /\ d.alight = e.alight
      <4>. HIDE DEF S, f
      <4> QED
        BY <3>1
    <3>. HIDE DEF S, f
    <3> QED
      BY <2>4, <3>2
  <2>7. OfRoute[r] = S
    OBVIOUS
  <2>. HIDE DEF S, T, f, OfRoute
  <2> QED
    BY <2>3, <2>5, <2>6, <2>7, ToldApart
<1>4. DirectServices \in SUBSET UNION All
  <2>1. ASSUME NEW d \in DirectServices  PROVE \E r \in DOMAIN tt.routes : d.route = r
    <3>1. PICK r, n, i, j : d = Service(r, n, i, j) /\ Serves(r, n, i, j)
      BY ServicesAre
    <3> QED
      BY <3>1 DEF Serves, Service
  <2> QED
    BY <2>1
<1>5. IsFiniteSet(UNION All)
  <2>. HIDE DEF OfRoute
  <2>1. \A A \in All : IsFiniteSet(A)
    BY <1>3
  <2>. HIDE DEF All
  <2> QED
    BY <1>2, <2>1, FS_UNION
<1> QED
  <2>. HIDE DEF All
  <2> QED
    BY <1>4, <1>5, FS_Subset

\* What tells services apart: their pair of positions, their identity and their line.
PairOf(d) == <<d.route, d.board, d.alight>>
IdentityOf(d) == <<Route(d.route).trips[d.trip].id, StopAt(d.route, d.board), StopAt(d.route, d.alight)>>
LineOf(d) == Route(d.route).line
KeyOf(d) == DirectKey(tt, ask, d)

LEMMA ServiceParts ==
  ASSUME IsTimetable(tt), IsAsk(ask), NEW d \in DirectServices
  PROVE  /\ d = Service(d.route, d.trip, d.board, d.alight)
         /\ d.route \in DOMAIN tt.routes /\ d.trip \in DOMAIN Route(d.route).trips
         /\ d.board \in 1 .. Len(Route(d.route).stops) /\ d.alight \in 1 .. Len(Route(d.route).stops)
<1>1. PICK r, n, i, j : d = Service(r, n, i, j) /\ Serves(r, n, i, j)
  BY ServicesAre
<1>2. d.route = r /\ d.trip = n /\ d.board = i /\ d.alight = j
  BY <1>1 DEF Service
<1> QED
  BY <1>1, <1>2 DEF Serves, Verified

\* Services of one trip are on one route, and are the same from the same stops.
LEMMA ServicesDiffer ==
  ASSUME IsTimetable(tt), IsAsk(ask), NEW c \in DirectServices, NEW d \in DirectServices
  PROVE  /\ PairOf(c) = PairOf(d) => LineOf(c) = LineOf(d)
         /\ IdentityOf(c) = IdentityOf(d) => LineOf(c) = LineOf(d)
         /\ PairOf(c) = PairOf(d) /\ IdentityOf(c) = IdentityOf(d) => c = d
         /\ KeyOf(c) = KeyOf(d) => c = d
<1>1. ASSUME Route(c.route).trips[c.trip].id = Route(d.route).trips[d.trip].id
      PROVE  c.route = d.route /\ c.trip = d.trip
  <2>1. TripsAreNamed(tt.routes)
    BY DEF IsTimetable
  <2> QED
    BY <1>1, <2>1, ServiceParts DEF TripsAreNamed, Route
<1>2. PairOf(c) = PairOf(d) => c.route = d.route /\ c.board = d.board /\ c.alight = d.alight
  BY DEF PairOf
<1>3. IdentityOf(c) = IdentityOf(d) => c.route = d.route /\ c.trip = d.trip
  BY <1>1 DEF IdentityOf
<1>4. KeyOf(c) = KeyOf(d) => c.route = d.route /\ c.trip = d.trip /\ c.board = d.board /\ c.alight = d.alight
  <2>1. ASSUME KeyOf(c) = KeyOf(d)
        PROVE  /\ Route(c.route).trips[c.trip].id = Route(d.route).trips[d.trip].id
               /\ c.board = d.board /\ c.alight = d.alight
    <3>1. KeyOf(c)[4] = KeyOf(d)[4] /\ KeyOf(c)[5] = KeyOf(d)[5] /\ KeyOf(c)[6] = KeyOf(d)[6]
      BY <2>1
    <3>2. \A e : /\ KeyOf(e)[4] = Route(e.route).trips[e.trip].id
                 /\ KeyOf(e)[5] = e.board /\ KeyOf(e)[6] = e.alight
      BY DEF KeyOf, DirectKey, Route
    <3> QED
      BY <3>1, <3>2
  <2> QED
    BY <2>1, <1>1
<1>5. c.route = d.route /\ c.trip = d.trip /\ c.board = d.board /\ c.alight = d.alight => c = d
  BY ServiceParts DEF Service
<1> QED
  BY <1>2, <1>3, <1>4, <1>5 DEF LineOf

\* The key of a service is made of numbers.
LEMMA KeyIsNumbers ==
  ASSUME IsTimetable(tt), IsAsk(ask), NEW d \in DirectServices
  PROVE  KeyOf(d) \in [1 .. 6 -> Int]
<1>. DEFINE r == d.route
            n == d.trip
<1>1. /\ r \in DOMAIN tt.routes /\ n \in DOMAIN Route(r).trips
      /\ d.board \in 1 .. Len(Route(r).stops) /\ d.alight \in 1 .. Len(Route(r).stops)
  BY ServiceParts
<1>2. IsRoute(Route(r))
  BY <1>1 DEF IsTimetable, Route
<1>3. Len(Route(r).stops) \in Nat /\ Route(r).line \in Nat /\ Route(r).trips[n].id \in Nat
  <2>. HIDE DEF r, n
  <2>1. Route(r).stops \in Seq(Stop) /\ Route(r).line \in Nat /\ Route(r).trips[n].id \in TripId
    BY <1>1, <1>2 DEF IsRoute
  <2>2. \A s \in Seq(Stop) : Len(s) \in Nat
    OBVIOUS
  <2>3. Len(Route(r).stops) \in Nat
    BY <2>1, <2>2
  <2>4. Route(r).trips[n].id \in Nat
    BY <2>1, TripAssumption
  <2> QED
    BY <2>1, <2>3, <2>4
<1>4. Arrives(r, n, d.alight) \in Time
  BY <1>1, ArrivesTime
<1>5. Leaves(r, n, d.board) \in Time
  <2>1. /\ Route(r).trips[n].id \in TripId /\ Route(r).trips[n].calls[d.board].stop \in Stop
        /\ Route(r).trips[n].calls[d.board].departure \in Time
    BY <1>1, <1>2 DEF IsRoute
  <2>2. ask.realtime.delay[Route(r).trips[n].id][Route(r).trips[n].calls[d.board].stop] \in Int
    <3>1. ask.realtime.delay \in [TripId -> [Stop -> Int]]
      BY DEF IsAsk, IsRealtime
    <3> QED
      BY <2>1, <3>1
  <2> QED
    BY <2>1, <2>2, ApplyDelayTime DEF Leaves, EffectiveDeparture, Route
<1>6. KeyOf(d) = <<Leaves(r, n, d.board), Arrives(r, n, d.alight), Route(r).line,
                   Route(r).trips[n].id, d.board, d.alight>>
  BY DEF KeyOf, DirectKey, Leaves, Arrives, Route
<1>7. /\ Leaves(r, n, d.board) \in Int /\ Arrives(r, n, d.alight) \in Int /\ Route(r).line \in Int
      /\ Route(r).trips[n].id \in Int /\ d.board \in Int /\ d.alight \in Int
  BY <1>1, <1>3, <1>4, <1>5 DEF Time
<1>8. ASSUME NEW u \in Int, NEW v \in Int, NEW w \in Int, NEW x \in Int, NEW y \in Int, NEW z \in Int
      PROVE  <<u, v, w, x, y, z>> \in [1 .. 6 -> Int]
  OBVIOUS
<1>9. <<Leaves(r, n, d.board), Arrives(r, n, d.alight), Route(r).line,
        Route(r).trips[n].id, d.board, d.alight>> \in [1 .. 6 -> Int]
  BY <1>7, <1>8, Zenon
<1> QED
  BY <1>6, <1>9, Zenon

\* The direct services listed are selected by the order of their keys.
EarlierServices == {p \in DirectServices \X DirectServices : KeyBefore(KeyOf(p[1]), KeyOf(p[2]))}
Pairs == [d \in DirectServices |-> PairOf(d)]
Identities == [d \in DirectServices |-> IdentityOf(d)]
LinesServed == [d \in DirectServices |-> LineOf(d)]

LEMMA EarlierIsOrder ==
  ASSUME IsTimetable(tt), IsAsk(ask)
  PROVE  /\ Orders(EarlierServices, DirectServices)
         /\ \A c \in DirectServices, d \in DirectServices :
              <<c, d>> \in EarlierServices <=> KeyBefore(KeyOf(c), KeyOf(d))
<1>1. \A c \in DirectServices, d \in DirectServices :
        <<c, d>> \in EarlierServices <=> KeyBefore(KeyOf(c), KeyOf(d))
  BY DEF EarlierServices
<1>2. \A d \in DirectServices : KeyOf(d) \in [1 .. 6 -> Int]
  BY KeyIsNumbers
<1>3. \A c \in DirectServices, d \in DirectServices : KeyOf(c) = KeyOf(d) => c = d
  BY ServicesDiffer
<1>4. \A k \in [1 .. 6 -> Int], l \in [1 .. 6 -> Int], m \in [1 .. 6 -> Int] :
        /\ KeyBefore(k, l) \/ KeyBefore(l, k)
        /\ KeyBefore(k, l) /\ KeyBefore(l, k) => k = l
        /\ KeyBefore(k, l) /\ KeyBefore(l, m) => KeyBefore(k, m)
  BY KeysAreOrdered
<1> QED
  BY <1>1, <1>2, <1>3, <1>4, Zenon DEF Orders

LEMMA ListedAreSelected ==
  ASSUME IsTimetable(tt), IsAsk(ask)
  PROVE  DirectJourneys(tt, ask, Window, Limit)
           = Selected(EarlierServices, DirectServices, Pairs, Identities, LinesServed, Limit)
<1>. DEFINE R == EarlierServices
            all == DirectTrips(tt, ask, Window)
            before(c, d) == KeyBefore(DirectKey(tt, ask, c), DirectKey(tt, ask, d))
            pairOf(d) == <<d.route, d.board, d.alight>>
            identity(d) == <<tt.routes[d.route].trips[d.trip].id,
                             tt.routes[d.route].stops[d.board], tt.routes[d.route].stops[d.alight]>>
            lineOf(d) == tt.routes[d.route].line
            top(S, n) == {d \in S : Cardinality({c \in S : before(c, d)}) =< n}
            kept == {d \in all : Cardinality({c \in all : pairOf(c) = pairOf(d) /\ before(c, d)}) =< Limit}
            distinct == {d \in kept : \A c \in kept : identity(c) = identity(d) => before(d, c)}
            firsts == {d \in distinct : \A c \in distinct : lineOf(c) = lineOf(d) => before(d, c)}
            reserved == top(firsts, Limit)
<1>1. DirectJourneys(tt, ask, Window, Limit)
        = reserved \cup top(distinct \ reserved, Limit - Cardinality(reserved))
  BY DEF DirectJourneys
<1>0. all = DirectServices
  BY DirectTripsAre
<1>2. \A c \in all, d \in all : before(c, d) <=> <<c, d>> \in R
  BY <1>0, EarlierIsOrder DEF KeyOf
<1>3. /\ \A d \in all : pairOf(d) = Pairs[d]
      /\ \A d \in all : identity(d) = Identities[d]
      /\ \A d \in all : lineOf(d) = LinesServed[d]
  BY <1>0 DEF Pairs, Identities, LinesServed, PairOf, IdentityOf, LineOf, Route, StopAt
<1>. HIDE DEF all, R, before, pairOf, identity, lineOf
<1>4. kept = SelectKept(R, all, Pairs, Limit)
  <2>1. ASSUME NEW d \in all
        PROVE  {c \in all : pairOf(c) = pairOf(d) /\ before(c, d)}
                 = {c \in all : Pairs[c] = Pairs[d] /\ <<c, d>> \in R}
    BY <1>2, <1>3
  <2> QED
    BY <2>1 DEF SelectKept
<1>5. kept \subseteq all /\ distinct \subseteq all /\ firsts \subseteq all
  OBVIOUS
<1>6. distinct = FirstOfEach(R, kept, Identities)
  <2>1. kept \subseteq all
    BY <1>5
  <2>. HIDE DEF kept
  <2> QED
    BY <1>2, <1>3, <2>1 DEF FirstOfEach
<1>7. firsts = FirstOfEach(R, distinct, LinesServed)
  <2>1. distinct \subseteq all
    BY <1>5
  <2>. HIDE DEF distinct
  <2> QED
    BY <1>2, <1>3, <2>1 DEF FirstOfEach
<1>8. ASSUME NEW S \in SUBSET all, NEW n  PROVE top(S, n) = Few(R, S, n)
  <2>1. ASSUME NEW d \in S  PROVE {c \in S : before(c, d)} = UpTo(R, S, d)
    BY <1>2 DEF UpTo
  <2> QED
    BY <2>1 DEF Few
<1>9. reserved = Few(R, firsts, Limit)
  <2>. HIDE DEF firsts, top
  <2> QED
    BY <1>5, <1>8
<1>10. top(distinct \ reserved, Limit - Cardinality(reserved))
         = Few(R, distinct \ reserved, Limit - Cardinality(reserved))
  <2>1. distinct \ reserved \in SUBSET all
    BY <1>5
  <2>. HIDE DEF distinct, reserved, top
  <2> QED
    BY <1>8, <2>1
<1> QED
  <2>. HIDE DEF kept, distinct, firsts, reserved, top
  <2> QED
    BY <1>0, <1>1, <1>4, <1>6, <1>7, <1>9, <1>10 DEF Selected, R

\* The direct services listed are real ones, no more than the limit; every line is among
\* them, and every service, if there is room.
LEMMA ServicesAreKept ==
  ASSUME IsTimetable(tt), IsAsk(ask)
  PROVE  DirectServicesKept
<1>. DEFINE R == EarlierServices
            all == DirectServices
            listed == DirectJourneys(tt, ask, Window, Limit)
<1>1. listed = Selected(R, all, Pairs, Identities, LinesServed, Limit)
  BY ListedAreSelected
<1>2. IsFiniteSet(all) /\ Orders(R, all) /\ Limit \in Nat
  BY FiniteServices, EarlierIsOrder, LimitAssumption
<1>3. /\ \A d \in all : Pairs[d] = PairOf(d)
      /\ \A d \in all : Identities[d] = IdentityOf(d)
      /\ \A d \in all : LinesServed[d] = LineOf(d)
  BY DEF Pairs, Identities, LinesServed
<1>4. /\ \A c \in all, d \in all : Pairs[c] = Pairs[d] => LinesServed[c] = LinesServed[d]
      /\ \A c \in all, d \in all : Identities[c] = Identities[d] => LinesServed[c] = LinesServed[d]
      /\ \A c \in all, d \in all : Pairs[c] = Pairs[d] /\ Identities[c] = Identities[d] => c = d
  BY <1>3, ServicesDiffer
<1>5. /\ LinesOf(all) = {LinesServed[d] : d \in all}
      /\ ServicesOf(all) = {Identities[d] : d \in all}
  BY <1>3 DEF LinesOf, ServicesOf, LineOf, IdentityOf
<1>. HIDE DEF R, all, listed
<1>6. listed \subseteq all /\ Cardinality(listed) =< Limit
  BY <1>1, <1>2, SelectedAreFew
<1>7. ASSUME Cardinality(LinesOf(all)) =< Limit  PROVE LinesOf(listed) = LinesOf(all)
  <2>1. \A d \in all : \E c \in listed : LinesServed[c] = LinesServed[d]
    BY <1>1, <1>2, <1>4, <1>5, <1>7, EveryLineIsSelected
  <2>2. \A d \in all : \E c \in listed : LineOf(c) = LineOf(d)
    BY <1>3, <1>6, <2>1
  <2> QED
    BY <1>6, <2>2 DEF LinesOf, LineOf
<1>8. ASSUME Cardinality(ServicesOf(all)) =< Limit  PROVE ServicesOf(listed) = ServicesOf(all)
  <2>1. \A d \in all : \E c \in listed : Identities[c] = Identities[d]
    BY <1>1, <1>2, <1>4, <1>5, <1>8, EveryIdentityIsSelected
  <2>2. \A d \in all : \E c \in listed : IdentityOf(c) = IdentityOf(d)
    BY <1>3, <1>6, <2>1
  <2>3. /\ ServicesOf(listed) = {IdentityOf(d) : d \in listed}
        /\ ServicesOf(all) = {IdentityOf(d) : d \in all}
    BY DEF ServicesOf, IdentityOf
  <2>. QED
    BY <1>6, <2>2, <2>3
<1> QED
  BY <1>6, <1>7, <1>8 DEF DirectServicesKept, all, listed

\* For every timetable and request: the direct services listed are real ones and no more
\* than the limit; no line is missing from them if there is room for one service of each,
\* and no service is if there is room for all of them.
THEOREM DirectServicesListed == Spec => []DirectServicesKept
<1>1. IInv => DirectServicesKept
  BY ServicesAreKept DEF IInv, TypeOK
<1> QED
  BY <1>1, SearchInvariant, PTL

\* What RealtimeData makes of any updates is bounded as a request needs it.
LEMMA RealtimeIsBounded ==
  ASSUME NEW updates, IsFiniteSet(DOMAIN updates), DOMAIN updates \subseteq Nat,
         \A n \in DOMAIN updates : updates[n].delay \in Int
  PROVE  IsRealtime(RealtimeData(updates))
<1>. DEFINE data == RealtimeData(updates)
            ofTrip(t) == {n \in DOMAIN updates : updates[n].trip = t}
            clamped == [n \in DOMAIN updates |-> Clamp(updates[n].delay)]
<1>1. \A delay \in Int : Clamp(delay) \in Int /\ Positive(delay) \in Nat /\ Positive(-delay) \in Nat
  BY TimeAssumption DEF Clamp, Positive
<1>2. \A n \in DOMAIN updates : clamped[n] \in Int
  BY <1>1
<1>3. ASSUME NEW t \in TripId, NEW s \in Stop
      PROVE  DelayOf(updates, t, s) = 0 \/ \E n \in ofTrip(t) : DelayOf(updates, t, s) = clamped[n]
  <2>. DEFINE ofStop == {n \in ofTrip(t) : updates[n].stop = s}
  <2>1. ASSUME NEW S \in SUBSET ofTrip(t), S # {}
        PROVE  \E n \in ofTrip(t) : FirstOf(updates, S) = clamped[n]
    <3>1. S \subseteq Nat
      OBVIOUS
    <3>2. PICK m \in S : \A x \in S : m =< x
      BY <2>1, <3>1, LeastNumber
    <3>3. Min(S) \in S
      BY <3>2 DEF Min
    <3> QED
      BY <3>3 DEF FirstOf
  <2>2. ofStop \in SUBSET ofTrip(t)
    OBVIOUS
  <2>3. DelayOf(updates, t, s) = IF ofStop # {} THEN FirstOf(updates, ofStop)
                                 ELSE IF ofTrip(t) # {} THEN FirstOf(updates, ofTrip(t)) ELSE 0
    BY DEF DelayOf
  <2>. HIDE DEF ofStop, ofTrip, clamped
  <2>4. CASE ofStop # {}
    BY <2>1, <2>2, <2>3, <2>4
  <2>5. CASE ofStop = {} /\ ofTrip(t) # {}
    <3>1. DelayOf(updates, t, s) = FirstOf(updates, ofTrip(t))
      BY <2>3, <2>5
    <3> QED
      BY <2>1, <2>5, <3>1
  <2>6. CASE ofStop = {} /\ ofTrip(t) = {}
    BY <2>3, <2>6
  <2> QED
    BY <2>4, <2>5, <2>6
<1>4. ASSUME NEW t \in TripId
      PROVE  /\ TripBounds(updates, t).late \in Nat /\ TripBounds(updates, t).early \in Nat
             /\ \A n \in ofTrip(t) : /\ clamped[n] =< TripBounds(updates, t).late
                                     /\ -clamped[n] =< TripBounds(updates, t).early
  <2>. DEFINE delays == {Clamp(updates[n].delay) : n \in ofTrip(t)}
              pos == [d \in delays |-> Positive(d)]
              neg == [d \in delays |-> Positive(-d)]
              P == {0} \cup {pos[d] : d \in delays}
              N == {0} \cup {neg[d] : d \in delays}
  <2>1. IsFiniteSet(ofTrip(t)) /\ delays = {clamped[n] : n \in ofTrip(t)}
    <3>1. ofTrip(t) \in SUBSET DOMAIN updates
      OBVIOUS
    <3>2. IsFiniteSet(ofTrip(t))
      <4>. HIDE DEF ofTrip
      <4> QED
        BY <3>1, FS_Subset
    <3> QED
      BY <3>2
  <2>2. IsFiniteSet(delays) /\ delays \subseteq Int
    <3>1. delays \subseteq Int
      BY <1>2, <2>1
    <3>. HIDE DEF delays, clamped, ofTrip
    <3> QED
      BY <2>1, <3>1, ImageIsFinite
  <2>3. \A d \in delays : pos[d] = Positive(d) /\ neg[d] = Positive(-d)
    OBVIOUS
  <2>4. TripBounds(updates, t).late = Max(P) /\ TripBounds(updates, t).early = Max(N)
    <3>1. P = {0} \cup {Positive(d) : d \in delays}
      OBVIOUS
    <3>2. N = {0} \cup {Positive(-d) : d \in delays}
      OBVIOUS
    <3> QED
      BY <3>1, <3>2 DEF TripBounds
  <2>. HIDE DEF delays, pos, neg
  <2>5. P \subseteq Nat /\ N \subseteq Nat
    BY <1>1, <2>2, <2>3
  <2>6. IsFiniteSet(P) /\ IsFiniteSet(N)
    <3>1. IsFiniteSet({pos[d] : d \in delays}) /\ IsFiniteSet({neg[d] : d \in delays})
      BY <2>2, ImageIsFinite
    <3>2. IsFiniteSet({0})
      BY FS_Singleton
    <3> QED
      BY <3>1, <3>2, FS_Union
  <2>7. /\ Max(P) \in P /\ \A x \in P : x =< Max(P)
        /\ Max(N) \in N /\ \A x \in N : x =< Max(N)
    <3>1. P # {} /\ N # {}
      OBVIOUS
    <3>. HIDE DEF P, N
    <3> QED
      BY <2>5, <2>6, <3>1, MaxIs
  <2>8. \A d \in delays : pos[d] =< Max(P) /\ neg[d] =< Max(N)
    BY <2>7
  <2>9. Max(P) \in Nat /\ Max(N) \in Nat
    BY <2>5, <2>7
  <2>10. \A d \in Int : d =< Positive(d) /\ -d =< Positive(-d)
    BY DEF Positive
  <2>11. \A n \in ofTrip(t) : clamped[n] \in delays
    BY <2>1
  <2>12. ASSUME NEW d \in delays  PROVE d =< Max(P) /\ -d =< Max(N)
    <3>1. /\ d \in Int /\ pos[d] \in Nat /\ neg[d] \in Nat /\ d =< pos[d] /\ -d =< neg[d]
          /\ pos[d] =< Max(P) /\ neg[d] =< Max(N)
      BY <1>1, <2>2, <2>3, <2>8, <2>10
    <3>. HIDE DEF P, N
    <3> QED
      BY <2>9, <3>1
  <2>. HIDE DEF P, N, ofTrip, clamped
  <2> QED
    BY <2>4, <2>9, <2>11, <2>12
<1>5. ASSUME NEW t \in TripId, NEW s \in Stop
      PROVE  /\ DelayOf(updates, t, s) \in Int
             /\ DelayOf(updates, t, s) =< TripBounds(updates, t).late
             /\ -DelayOf(updates, t, s) =< TripBounds(updates, t).early
  <2>1. \A n \in ofTrip(t) : clamped[n] \in Int
    BY <1>2
  <2>. HIDE DEF ofTrip, clamped
  <2>2. TripBounds(updates, t).late \in Nat /\ TripBounds(updates, t).early \in Nat
    BY <1>4
  <2>3. CASE DelayOf(updates, t, s) = 0
    BY <2>2, <2>3
  <2>4. CASE \E n \in ofTrip(t) : DelayOf(updates, t, s) = clamped[n]
    BY <1>4, <2>1, <2>4
  <2> QED
    BY <1>3, <2>3, <2>4
<1>6. /\ data.delay = [t \in TripId |-> [s \in Stop |-> DelayOf(updates, t, s)]]
      /\ data.late = [t \in TripId |-> TripBounds(updates, t).late]
      /\ data.early = [t \in TripId |-> TripBounds(updates, t).early]
  BY DEF RealtimeData
<1>. HIDE DEF data
<1>7. /\ data.delay \in [TripId -> [Stop -> Int]]
      /\ data.late \in [TripId -> Nat] /\ data.early \in [TripId -> Nat]
  BY <1>4, <1>5, <1>6
<1>8. \A t \in TripId : \A s \in Stop :
        data.delay[t][s] =< data.late[t] /\ -data.delay[t][s] =< data.early[t]
  BY <1>5, <1>6
<1> QED
  BY <1>7, <1>8 DEF IsRealtime, data

-----------------------------------------------------------------------------
(* Nothing earlier is missed.                                              *)

\* The trips of a route are numbered in an order in which none overtakes another.
NoneOvertakes(t) ==
  \A r \in DOMAIN t.routes :
    /\ DOMAIN t.routes[r].trips \subseteq Nat
    /\ \A n, m \in DOMAIN t.routes[r].trips : n < m =>
         \A i \in 1 .. Len(t.routes[r].stops) :
           LET first == t.routes[r].trips[n].calls[i]  second == t.routes[r].trips[m].calls[i]
           IN  first.arrival =< second.arrival /\ first.departure =< second.departure

\* A label of the rounds up to k is as early, there or at a target.
Hit(k, s, time) ==
  \E j \in 0 .. k : label[j][s] =< time \/ \E t \in ask.to : label[j][t] =< time

\* `best` and `bound` are labels.
Attained ==
  \A s \in Stop : /\ \E j \in 0 .. round : label[j][s] =< best[s]
                  /\ \E j \in 0 .. round : label[j][s] =< bound[s]

Departures ==
  \A s \in Stop : /\ label[0][s] >= ask.departure
                  /\ s \in ask.from => label[0][s] = ask.departure /\ parent[0][s] = NoParent

\* What a round reaches, the next one sets out from.
Improved ==
  \A s \in Stop : /\ label[round][s] # Infinity => s \in marked
                  /\ phase = "ride" /\ label[round - 1][s] # Infinity => s \in served

Ended ==
  phase = "done" => queue = {} /\ (marked = {} \/ round = MaxRound(ask))

\* Walks were followed from every stop that is not in the queue,
WalksDone ==
  \A k \in 0 .. round : \A s \in Stop :
    label[k][s] # Infinity /\ (k = round => phase # "ride" /\ s \notin queue) =>
      \A z \in Stop : Hit(k, z, SatAdd(label[k][s], WalkSeconds(s, z)))

\* and rides to every place of a route that was scanned.
IsScanned(k, r, i) ==
  k + 1 = round /\ phase = "ride" => r \notin toScan /\ (scan.route = r => i < scan.index)

RidesDone ==
  \A k \in 0 .. round - 1 : \A r \in DOMAIN tt.routes : \A n \in DOMAIN Route(r).trips :
    \A b, i \in 1 .. Len(Route(r).stops) :
      IsAllowed(r) /\ b < i /\ CanBoard(k, r, n, b) /\ IsScanned(k, r, i) =>
        Hit(k + 1, StopAt(r, i), Arrives(r, n, i))

\* From its i-th stop on trip n is never behind trip m.
NoLater(r, n, m, i) ==
  \A j \in i .. Len(Route(r).stops) :
    Arrives(r, n, j) =< Arrives(r, m, j) /\ Leaves(r, n, j) =< Leaves(r, m, j)

\* The trip being ridden is never behind one that could have been boarded before.
ScanIsFirst ==
  scan # NoScan =>
    \A n \in DOMAIN Route(scan.route).trips : \A b \in 1 .. scan.index - 1 :
      CanBoard(round - 1, scan.route, n, b) =>
        scan.trip # 0 /\ NoLater(scan.route, scan.trip, n, scan.index)

RidingInv == NoneOvertakes(tt) /\ (Regular => RidesDone /\ ScanIsFirst)
ReachInv == Attained /\ Departures /\ Improved /\ Ended /\ WalksDone

LEMMA SearchTypes ==
  ASSUME IInv
  PROVE  /\ IsTimetable(tt) /\ IsAsk(ask) /\ MaxRound(ask) \in Nat /\ MaxRound(ask) >= 1
         /\ round \in 0 .. MaxRound(ask) /\ (phase = "ride" => round > 0)
         /\ ask.to \subseteq Stop /\ ask.from \subseteq Stop /\ ask.departure \in Time
         /\ label \in [0 .. MaxRound(ask) -> [Stop -> Time]]
         /\ best \in [Stop -> Time] /\ bound \in [Stop -> Time]
BY DEF IInv, TypeOK, IsAsk, MaxRound

LEMMA LabelsAreTimes ==
  ASSUME IInv
  PROVE  /\ MaxRound(ask) \in Nat /\ round \in 0 .. MaxRound(ask)
         /\ \A j \in 0 .. round : j \in 0 .. MaxRound(ask)
         /\ \A j \in 0 .. MaxRound(ask) : \A s \in Stop : label[j][s] \in Nat /\ label[j][s] =< Infinity
         /\ \A s \in Stop : best[s] \in Nat /\ bound[s] \in Nat
<1>1. /\ MaxRound(ask) \in Nat /\ round \in 0 .. MaxRound(ask)
      /\ label \in [0 .. MaxRound(ask) -> [Stop -> Time]]
      /\ best \in [Stop -> Time] /\ bound \in [Stop -> Time]
  BY SearchTypes
<1>. QED
  BY <1>1, TimeAssumption DEF Time

\* What was reached stays reached while labels only decrease.
LEMMA HitKept ==
  ASSUME IInv, IInv', UNCHANGED request, NEW k \in 0 .. MaxRound(ask), NEW s \in Stop, NEW time \in Int,
         \A j \in 0 .. MaxRound(ask), x \in Stop : label'[j][x] =< label[j][x],
         Hit(k, s, time)
  PROVE  Hit(k, s, time)'
<1>1. PICK j \in 0 .. k : label[j][s] =< time \/ \E t \in ask.to : label[j][t] =< time
  BY DEF Hit
<1>2. ask' = ask /\ j \in 0 .. MaxRound(ask) /\ ask.to \subseteq Stop /\ MaxRound(ask) \in Nat
  BY SearchTypes DEF request
<1>3. \A x \in Stop : label[j][x] \in Nat /\ label'[j][x] \in Nat /\ label'[j][x] =< label[j][x]
  <2>1. label \in [0 .. MaxRound(ask) -> [Stop -> Time]]
    BY DEF IInv, TypeOK
  <2>2. label' \in [0 .. MaxRound(ask) -> [Stop -> Time]]
    BY <1>2 DEF IInv, TypeOK
  <2>. QED
    BY <1>2, <2>1, <2>2, TimeAssumption DEF Time
<1>4. label'[j][s] =< time \/ \E t \in ask.to : label'[j][t] =< time
  BY <1>1, <1>2, <1>3
<1>. QED
  BY <1>2, <1>4 DEF Hit

LEMMA HitLater ==
  ASSUME IInv, NEW k \in 0 .. MaxRound(ask), NEW j \in 0 .. k, NEW s \in Stop,
         NEW x \in Int, NEW y \in Int, x =< y, Hit(j, s, x)
  PROVE  Hit(k, s, y)
<1>1. PICK h \in 0 .. j : label[h][s] =< x \/ \E t \in ask.to : label[h][t] =< x
  BY DEF Hit
<1>2. h \in 0 .. MaxRound(ask) /\ h \in 0 .. k /\ ask.to \subseteq Stop
  <2>1. MaxRound(ask) \in Nat /\ ask.to \subseteq Stop
    BY SearchTypes
  <2>. QED
    BY <2>1
<1>3. \A z \in Stop : label[h][z] \in Nat
  BY <1>2, LabelsAreTimes
<1>4. label[h][s] =< y \/ \E t \in ask.to : label[h][t] =< y
  BY <1>1, <1>2, <1>3
<1>. QED
  BY <1>2, <1>4 DEF Hit

\* What is not before `best` or `bound` was reached.
LEMMA BestIsHit ==
  ASSUME IInv, Attained, NEW s \in Stop, NEW time \in Int,
         best[s] =< time \/ \E t \in ask.to : bound[t] =< time
  PROVE  Hit(round, s, time)
<1>1. CASE best[s] =< time
  <2>1. PICK j \in 0 .. round : label[j][s] =< best[s]
    BY DEF Attained
  <2>3. label[j][s] \in Nat /\ best[s] \in Nat
    BY LabelsAreTimes
  <2>. QED
    BY <1>1, <2>1, <2>3 DEF Hit
<1>2. CASE \E t \in ask.to : bound[t] =< time
  <2>1. PICK t \in ask.to : bound[t] =< time
    BY <1>2
  <2>2. t \in Stop
    BY SearchTypes
  <2>3. PICK j \in 0 .. round : label[j][t] =< bound[t]
    BY <2>2 DEF Attained
  <2>5. label[j][t] \in Nat /\ bound[t] \in Nat
    BY <2>2, LabelsAreTimes
  <2>6. label[j][t] =< time
    BY <2>1, <2>3, <2>5
  <2>. QED
    BY <2>6 DEF Hit
<1>. QED
  BY <1>1, <1>2

\* What a walk changes.
LEMMA WalkingIs ==
  ASSUME IInv, NEW from \in Stop, FollowWalks(from)
  PROVE  /\ UNCHANGED request /\ round' = round /\ bound' = bound
         /\ phase = "walk" /\ phase' = "walk" /\ from \in queue
         /\ from \notin WalkReaches(from) /\ WalkReaches(from) \subseteq Stop
         /\ \A s \in Stop : WalkArrival(from, s) \in Nat /\ WalkArrival(from, s) >= label[round][from]
         /\ \A k \in 0 .. MaxRound(ask) : \A s \in Stop :
              label'[k][s] = IF k = round /\ s \in WalkReaches(from) THEN WalkArrival(from, s)
                                                                     ELSE label[k][s]
         /\ \A k \in 0 .. MaxRound(ask) : k # round => label'[k] = label[k] /\ parent'[k] = parent[k]
         /\ \A s \in Stop \ WalkReaches(from) : parent'[round][s] = parent[round][s]
         /\ \A s \in Stop : best'[s] = IF s \in WalkReaches(from) THEN WalkArrival(from, s) ELSE best[s]
         /\ \A k \in 0 .. MaxRound(ask), s \in Stop : label'[k][s] =< label[k][s]
<1>. DEFINE W == WalkReaches(from)
<1>1. /\ IsTimetable(tt) /\ IsAsk(ask) /\ round \in 0 .. MaxRound(ask)
      /\ label \in [0 .. MaxRound(ask) -> [Stop -> Time]]
      /\ DOMAIN parent = 0 .. MaxRound(ask) /\ DOMAIN parent[round] = Stop
  BY DEF IInv, TypeOK
<1>2. /\ UNCHANGED request /\ round' = round /\ bound' = bound
      /\ phase = "walk" /\ phase' = "walk" /\ from \in queue /\ W \subseteq Stop
  BY DEF FollowWalks, request, WalkReaches
<1>3. \A s \in Stop : WalkArrival(from, s) \in Nat /\ WalkArrival(from, s) >= label[round][from]
  <2>. SUFFICES ASSUME NEW s \in Stop
                PROVE  WalkArrival(from, s) \in Nat /\ WalkArrival(from, s) >= label[round][from]
    OBVIOUS
  <2>1. label[round][from] \in Time /\ WalkSeconds(from, s) \in Time
    BY <1>1, WalkSecondsTime
  <2>2. WalkArrival(from, s) \in Time /\ WalkArrival(from, s) >= label[round][from]
    BY <2>1, SatAddTime DEF WalkArrival
  <2>. QED
    BY <2>2, TimeAssumption DEF Time
<1>4. \A s \in W : WalkArrival(from, s) < best[s]
  BY DEF WalkReaches
<1>5. \A s \in Stop : best[s] =< label[round][s] /\ best[s] \in Nat
  BY <1>1, LabelsAreTimes DEF IInv, BestIsBest
<1>6. from \notin W
  <2>1. ~(WalkArrival(from, from) < best[from])
    BY <1>3, <1>5, LabelsAreTimes
  <2>. QED
    BY <1>4, <2>1
<1>7. \A k \in 0 .. MaxRound(ask) : \A s \in Stop :
        label'[k][s] = IF k = round /\ s \in W THEN WalkArrival(from, s) ELSE label[k][s]
  BY <1>1 DEF FollowWalks
<1>8. \A k \in 0 .. MaxRound(ask) : k # round => label'[k] = label[k] /\ parent'[k] = parent[k]
  BY <1>1 DEF FollowWalks
<1>9. \A s \in Stop \ W : parent'[round][s] = parent[round][s]
  BY <1>1 DEF FollowWalks
<1>10. \A s \in Stop : best'[s] = IF s \in W THEN WalkArrival(from, s) ELSE best[s]
  BY DEF FollowWalks
<1>11. \A k \in 0 .. MaxRound(ask), s \in Stop : label'[k][s] =< label[k][s]
  <2>. SUFFICES ASSUME NEW k \in 0 .. MaxRound(ask), NEW s \in Stop PROVE label'[k][s] =< label[k][s]
    OBVIOUS
  <2>. HIDE DEF W
  <2>1. label[k][s] \in Nat
    BY LabelsAreTimes
  <2>2. CASE k = round /\ s \in W
    BY <1>3, <1>4, <1>5, <1>7, <2>1, <2>2
  <2>3. CASE ~(k = round /\ s \in W)
    BY <1>7, <2>1, <2>3
  <2>. QED
    BY <2>2, <2>3
<1>. QED
  BY <1>2, <1>3, <1>6, <1>7, <1>8, <1>9, <1>10, <1>11

\* What a scanned stop changes.
LEMMA ScanningIs ==
  ASSUME IInv, ScanStop
  PROVE  LET s == StopAt(scan.route, scan.index)
             arrival == Arrives(scan.route, scan.trip, scan.index)
         IN  /\ UNCHANGED request /\ round' = round /\ bound' = bound
             /\ phase = "ride" /\ phase' = "ride" /\ round > 0 /\ scan # NoScan
             /\ served' = served /\ toScan' = toScan /\ queue' = queue
             /\ scan.route \in DOMAIN tt.routes /\ scan.index \in 1 .. Len(Route(scan.route).stops)
             /\ s \in Stop /\ (scan.trip # 0 => scan.trip \in DOMAIN Route(scan.route).trips)
             /\ scan.trip # 0 => arrival \in Nat
             /\ AlightsHere => scan.trip # 0 /\ arrival < best[s] /\ s \in marked'
             /\ marked \subseteq marked'
             /\ \A k \in 0 .. MaxRound(ask) : \A x \in Stop :
                  label'[k][x] = IF AlightsHere /\ k = round /\ x = s THEN arrival ELSE label[k][x]
             /\ \A k \in 0 .. MaxRound(ask) : k # round => label'[k] = label[k] /\ parent'[k] = parent[k]
             /\ \A x \in Stop : best'[x] = IF AlightsHere /\ x = s THEN arrival ELSE best[x]
             /\ \A k \in 0 .. MaxRound(ask), x \in Stop : label'[k][x] =< label[k][x]
<1>. DEFINE s == StopAt(scan.route, scan.index)
            arrival == Arrives(scan.route, scan.trip, scan.index)
<1>1. /\ IsTimetable(tt) /\ IsAsk(ask) /\ round \in 0 .. MaxRound(ask) /\ round > 0
      /\ label \in [0 .. MaxRound(ask) -> [Stop -> Time]] /\ best \in [Stop -> Time]
      /\ DOMAIN parent = 0 .. MaxRound(ask) /\ DOMAIN parent[round] = Stop
      /\ scan.route \in DOMAIN tt.routes /\ scan.index \in 1 .. Len(Route(scan.route).stops)
      /\ scan.trip # 0 => scan.trip \in DOMAIN Route(scan.route).trips
  BY DEF IInv, TypeOK, ScanStop
<1>2. /\ UNCHANGED request /\ round' = round /\ bound' = bound
      /\ phase = "ride" /\ phase' = "ride" /\ scan # NoScan
      /\ served' = served /\ toScan' = toScan /\ queue' = queue
  BY DEF ScanStop, request
<1>3. s \in Stop
  BY <1>1, StopAtStop
<1>4. scan.trip # 0 => arrival \in Nat
  <2>1. scan.trip # 0 => arrival \in Time
    BY <1>1, ArrivesTime
  <2>. QED
    BY <2>1, TimeAssumption DEF Time
<1>5. AlightsHere => scan.trip # 0 /\ arrival < best[s] /\ s \in marked'
  BY DEF AlightsHere, ScanStop, Alight
<1>6. marked \subseteq marked'
  <2>1. CASE AlightsHere
    BY <2>1 DEF ScanStop, Alight
  <2>2. CASE ~AlightsHere
    BY <2>2 DEF ScanStop, Alight, labels
  <2>. QED
    BY <2>1, <2>2
<1>7. /\ AlightsHere => /\ label' = [label EXCEPT ![round][s] = arrival]
                        /\ best' = [best EXCEPT ![s] = arrival]
                        /\ parent' = [parent EXCEPT ![round][s] =
                                        Rode(scan.route, scan.trip, scan.board, scan.index)]
      /\ ~AlightsHere => label' = label /\ best' = best /\ parent' = parent
  BY DEF ScanStop, Alight, labels
<1>. HIDE DEF s, arrival
<1>8. \A k \in 0 .. MaxRound(ask) : \A x \in Stop :
        label'[k][x] = IF AlightsHere /\ k = round /\ x = s THEN arrival ELSE label[k][x]
  <2>1. CASE AlightsHere
    <3>1. label' = [label EXCEPT ![round][s] = arrival]
      BY <1>7, <2>1
    <3>2. round \in DOMAIN label /\ \A k \in DOMAIN label : DOMAIN label[k] = Stop
      BY <1>1
    <3>. QED
      BY <1>1, <1>3, <2>1, <3>1, <3>2
  <2>2. CASE ~AlightsHere
    BY <1>7, <2>2
  <2>. QED
    BY <2>1, <2>2
<1>9. \A k \in 0 .. MaxRound(ask) : k # round => label'[k] = label[k] /\ parent'[k] = parent[k]
  BY <1>1, <1>7
<1>10. \A x \in Stop : best'[x] = IF AlightsHere /\ x = s THEN arrival ELSE best[x]
  BY <1>1, <1>3, <1>7
<1>11. \A k \in 0 .. MaxRound(ask), x \in Stop : label'[k][x] =< label[k][x]
  <2>. SUFFICES ASSUME NEW k \in 0 .. MaxRound(ask), NEW x \in Stop PROVE label'[k][x] =< label[k][x]
    OBVIOUS
  <2>1. label[k][x] \in Nat /\ best[x] \in Nat
    BY LabelsAreTimes
  <2>2. best[x] =< label[k][x]
    BY DEF IInv, BestIsBest
  <2>. QED
    BY <1>4, <1>5, <1>8, <2>1, <2>2
<1>. QED
  BY <1>1, <1>2, <1>3, <1>4, <1>5, <1>6, <1>8, <1>9, <1>10, <1>11 DEF s, arrival

LEMMA ReachStart == Init => ReachInv
<1>. SUFFICES ASSUME Init PROVE ReachInv
  OBVIOUS
<1>1. /\ phase = "walk" /\ round = 0 /\ marked = ask.from /\ queue = ask.from
      /\ best = label[0] /\ bound = [s \in Stop |-> Infinity]
      /\ IsAsk(ask) /\ MaxRound(ask) \in Nat
  <2>1. ask \in Asks /\ IsAsk(ask)
    BY AsksAssumption DEF Init
  <2>2. MaxRound(ask) \in Nat
    BY <2>1 DEF IsAsk, MaxRound
  <2>. QED
    BY <2>1, <2>2 DEF Init
<1>2. \A s \in Stop : /\ label[0][s] = IF s \in ask.from THEN ask.departure ELSE Infinity
                      /\ parent[0][s] = NoParent
  BY <1>1 DEF Init
<1>3. ask.departure \in Nat /\ ask.departure =< Infinity /\ Infinity \in Nat
  BY <1>1, TimeAssumption DEF IsAsk, Time
<1>4. Attained
  <2>. SUFFICES ASSUME NEW s \in Stop PROVE label[0][s] =< best[s] /\ label[0][s] =< bound[s]
    BY <1>1 DEF Attained
  <2>. QED
    BY <1>1, <1>2, <1>3
<1>5. Departures
  BY <1>2, <1>3 DEF Departures
<1>6. Improved /\ Ended
  BY <1>1, <1>2 DEF Improved, Ended
<1>7. WalksDone
  BY <1>1, <1>2 DEF WalksDone
<1>. QED
  BY <1>4, <1>5, <1>6, <1>7 DEF ReachInv

LEMMA ReachWalking ==
  ASSUME IInv, IInv', ReachInv, NEW from \in Stop, FollowWalks(from)
  PROVE  ReachInv'
<1>. DEFINE W == WalkReaches(from)
<1>1. /\ ask' = ask /\ tt' = tt /\ round' = round /\ bound' = bound /\ phase = "walk" /\ phase' = "walk"
      /\ W \subseteq Stop /\ from \notin W /\ UNCHANGED request
  BY WalkingIs DEF request
<1>2. /\ MaxRound(ask) \in Nat /\ round \in 0 .. MaxRound(ask)
      /\ \A j \in 0 .. round : j \in 0 .. MaxRound(ask)
      /\ \A j \in 0 .. MaxRound(ask) : \A s \in Stop : label[j][s] \in Nat /\ label[j][s] =< Infinity
      /\ \A s \in Stop : best[s] \in Nat /\ bound[s] \in Nat
  BY LabelsAreTimes
<1>3. /\ MaxRound(ask') = MaxRound(ask)
      /\ \A j \in 0 .. MaxRound(ask) : \A s \in Stop : label'[j][s] \in Nat /\ label'[j][s] =< label[j][s]
  <2>1. MaxRound(ask') = MaxRound(ask)
    BY <1>1
  <2>2. label' \in [0 .. MaxRound(ask) -> [Stop -> Time]]
    BY <1>1 DEF IInv, TypeOK
  <2>. QED
    BY <2>1, <2>2, WalkingIs, TimeAssumption DEF Time
<1>4. /\ \A s \in Stop : WalkArrival(from, s) \in Nat /\ WalkArrival(from, s) >= label[round][from]
      /\ \A k \in 0 .. MaxRound(ask) : \A s \in Stop :
           label'[k][s] = IF k = round /\ s \in W THEN WalkArrival(from, s) ELSE label[k][s]
      /\ \A k \in 0 .. MaxRound(ask) : k # round => label'[k] = label[k] /\ parent'[k] = parent[k]
      /\ \A s \in Stop \ W : parent'[round][s] = parent[round][s]
      /\ \A s \in Stop : best'[s] = IF s \in W THEN WalkArrival(from, s) ELSE best[s]
  BY WalkingIs
<1>. HIDE DEF W
<1>5. Attained'
  <2>. SUFFICES ASSUME NEW s \in Stop
                PROVE  /\ \E j \in 0 .. round : label'[j][s] =< best'[s]
                       /\ \E j \in 0 .. round : label'[j][s] =< bound[s]
    BY <1>1 DEF Attained
  <2>1. PICK j \in 0 .. round : label[j][s] =< best[s]
    BY DEF ReachInv, Attained
  <2>2. PICK i \in 0 .. round : label[i][s] =< bound[s]
    BY DEF ReachInv, Attained
  <2>3. label'[i][s] =< bound[s]
    BY <1>2, <1>3, <2>2
  <2>4. CASE s \in W
    <3>1. label'[round][s] = best'[s] /\ round \in 0 .. round
      BY <1>2, <1>4, <2>4
    <3>. QED
      BY <1>2, <1>3, <2>3, <3>1
  <2>5. CASE s \notin W
    <3>1. label'[j][s] =< best'[s]
      BY <1>2, <1>3, <1>4, <2>1, <2>5
    <3>. QED
      BY <2>3, <3>1
  <2>. QED
    BY <2>4, <2>5
<1>6. Departures'
  <2>. SUFFICES ASSUME NEW s \in Stop
                PROVE  /\ label'[0][s] >= ask.departure
                       /\ s \in ask.from => label'[0][s] = ask.departure /\ parent'[0][s] = NoParent
    BY <1>1 DEF Departures
  <2>1. /\ label[0][s] >= ask.departure /\ label[0][from] >= ask.departure
        /\ s \in ask.from => label[0][s] = ask.departure /\ parent[0][s] = NoParent
    BY DEF ReachInv, Departures
  <2>2. 0 \in 0 .. MaxRound(ask) /\ ask.departure \in Nat
    BY <1>2, SearchTypes, TimeAssumption DEF Time
  <2>3. CASE round = 0 /\ s \in W
    <3>1. label'[0][s] = WalkArrival(from, s) /\ WalkArrival(from, s) >= ask.departure
      BY <1>2, <1>4, <2>1, <2>2, <2>3
    <3>2. s \notin ask.from
      <4>1. WalkArrival(from, s) < best[s] /\ best[s] =< label[0][s]
        BY <1>2, <2>2, <2>3 DEF W, WalkReaches, IInv, BestIsBest
      <4>. QED
        BY <1>2, <1>4, <2>1, <2>2, <3>1, <4>1
    <3>. QED
      BY <3>1, <3>2
  <2>4. CASE ~(round = 0 /\ s \in W)
    BY <1>2, <1>4, <2>1, <2>2, <2>4
  <2>. QED
    BY <2>3, <2>4
<1>7. Improved'
  <2>. SUFFICES ASSUME NEW s \in Stop, label'[round][s] # Infinity PROVE s \in marked'
    BY <1>1 DEF Improved
  <2>1. marked' = marked \cup W
    BY DEF FollowWalks, W
  <2>2. s \notin W => label[round][s] # Infinity
    BY <1>2, <1>4
  <2>. QED
    BY <2>1, <2>2 DEF ReachInv, Improved
<1>8. Ended'
  BY <1>1 DEF Ended
<1>9. WalksDone'
  <2>. SUFFICES ASSUME NEW k \in (0 .. round)', NEW s \in Stop, NEW z \in Stop,
                       (label[k][s] # Infinity)', (k = round => s \notin queue)'
                PROVE  Hit(k, z, SatAdd(label[k][s], WalkSeconds(s, z)))'
    BY <1>1 DEF WalksDone
  <2>1. queue' = (queue \ {from}) \cup W
    BY DEF FollowWalks, W
  <2>2. k \in 0 .. round /\ k \in 0 .. MaxRound(ask) /\ label'[k][s] = label[k][s]
    <3>1. k \in 0 .. round /\ (k = round => s \notin queue')
      BY <1>1
    <3>. QED
      BY <1>2, <1>4, <2>1, <3>1
  <2>3. SatAdd(label[k][s], WalkSeconds(s, z)) \in Nat
    <3>1. label[k][s] \in Time /\ WalkSeconds(s, z) \in Time
      BY <2>2, SearchTypes, WalkSecondsTime
    <3>2. SatAdd(label[k][s], WalkSeconds(s, z)) \in Time
      BY <3>1, SatAddTime
    <3>. QED
      BY <3>2, TimeAssumption DEF Time
  <2>4. PICK w \in Nat : w = SatAdd(label[k][s], WalkSeconds(s, z))
    BY <2>3
  <2>a. w = SatAdd(label[k][s], WalkSeconds(s, z))'
    BY <1>1, <2>2, <2>4 DEF WalkSeconds
  <2>. SUFFICES \E j \in 0 .. k : label'[j][z] =< w \/ \E t \in ask.to : label'[j][t] =< w
    BY <1>1, <2>a DEF Hit
  <2>5. CASE k = round /\ s = from
    <3>1. w = WalkArrival(from, z)
      BY <2>4, <2>5 DEF WalkArrival
    <3>2. CASE z \in W
      <4>1. label'[k][z] = w
        BY <1>4, <2>2, <2>5, <3>1, <3>2
      <4>2. k \in 0 .. k
        BY <1>2
      <4>3. \E j \in 0 .. k : label'[j][z] =< w
        BY <4>1, <4>2
      <4>. QED
        BY <4>3
    <3>3. CASE z \notin W
      <4>1. best[z] =< w \/ \E t \in ask.to : bound[t] =< w
        <5>1. ~(BeatsTarget(w, bound) /\ w < best[z])
          BY <3>1, <3>3 DEF W, WalkReaches
        <5>2. w \in Nat /\ best[z] \in Nat /\ \A t \in ask.to : bound[t] \in Nat
          BY <1>2, SearchTypes
        <5>. QED
          BY <5>1, <5>2 DEF BeatsTarget
      <4>2. Hit(round, z, w)
        BY <4>1, BestIsHit DEF ReachInv
      <4>3. Hit(round, z, w)'
        BY <1>1, <1>2, <1>3, <4>2, HitKept
      <4>. QED
        BY <1>1, <2>5, <4>3 DEF Hit
    <3>. QED
      BY <3>2, <3>3
  <2>6. CASE ~(k = round /\ s = from)
    <3>1. label[k][s] # Infinity /\ (k = round => phase # "ride" /\ s \notin queue)
      BY <1>1, <2>1, <2>2, <2>6
    <3>2. Hit(k, z, w)
      BY <2>2, <2>4, <3>1 DEF ReachInv, WalksDone
    <3>3. Hit(k, z, w)'
      BY <1>1, <1>3, <2>2, <3>2, HitKept
    <3>. QED
      BY <1>1, <3>3 DEF Hit
  <2>. QED
    BY <2>5, <2>6
<1>. QED
  BY <1>5, <1>6, <1>7, <1>8, <1>9 DEF ReachInv

LEMMA ReachScanning ==
  ASSUME IInv, IInv', ReachInv, ScanStop
  PROVE  ReachInv'
<1>. DEFINE c == StopAt(scan.route, scan.index)
            arrival == Arrives(scan.route, scan.trip, scan.index)
<1>1. /\ ask' = ask /\ tt' = tt /\ round' = round /\ bound' = bound /\ phase = "ride" /\ phase' = "ride"
      /\ c \in Stop /\ UNCHANGED request /\ served' = served /\ round > 0 /\ marked \subseteq marked'
      /\ AlightsHere => arrival \in Nat /\ c \in marked'
  BY ScanningIs DEF request
<1>2. /\ MaxRound(ask) \in Nat /\ round \in 0 .. MaxRound(ask)
      /\ \A j \in 0 .. round : j \in 0 .. MaxRound(ask)
      /\ \A j \in 0 .. MaxRound(ask) : \A s \in Stop : label[j][s] \in Nat /\ label[j][s] =< Infinity
      /\ \A s \in Stop : best[s] \in Nat /\ bound[s] \in Nat
  BY LabelsAreTimes
<1>3. /\ MaxRound(ask') = MaxRound(ask)
      /\ \A j \in 0 .. MaxRound(ask) : \A s \in Stop : label'[j][s] \in Nat /\ label'[j][s] =< label[j][s]
  <2>1. MaxRound(ask') = MaxRound(ask)
    BY <1>1
  <2>2. label' \in [0 .. MaxRound(ask) -> [Stop -> Time]]
    BY <1>1 DEF IInv, TypeOK
  <2>. QED
    BY <2>1, <2>2, ScanningIs, TimeAssumption DEF Time
<1>4. /\ \A k \in 0 .. MaxRound(ask) : \A x \in Stop :
           label'[k][x] = IF AlightsHere /\ k = round /\ x = c THEN arrival ELSE label[k][x]
      /\ \A k \in 0 .. MaxRound(ask) : k # round => label'[k] = label[k] /\ parent'[k] = parent[k]
      /\ \A x \in Stop : best'[x] = IF AlightsHere /\ x = c THEN arrival ELSE best[x]
  BY ScanningIs
<1>. HIDE DEF c, arrival
<1>5. Attained'
  <2>. SUFFICES ASSUME NEW s \in Stop
                PROVE  /\ \E j \in 0 .. round : label'[j][s] =< best'[s]
                       /\ \E j \in 0 .. round : label'[j][s] =< bound[s]
    BY <1>1 DEF Attained
  <2>1. PICK j \in 0 .. round : label[j][s] =< best[s]
    BY DEF ReachInv, Attained
  <2>2. PICK i \in 0 .. round : label[i][s] =< bound[s]
    BY DEF ReachInv, Attained
  <2>3. label'[i][s] =< bound[s]
    BY <1>2, <1>3, <2>2
  <2>4. CASE AlightsHere /\ s = c
    <3>1. label'[round][s] = best'[s] /\ round \in 0 .. round
      BY <1>2, <1>4, <2>4
    <3>. QED
      BY <1>2, <1>3, <2>3, <3>1
  <2>5. CASE ~(AlightsHere /\ s = c)
    <3>1. label'[j][s] =< best'[s]
      BY <1>2, <1>3, <1>4, <2>1, <2>5
    <3>. QED
      BY <2>3, <3>1
  <2>. QED
    BY <2>4, <2>5
<1>6. Departures'
  BY <1>1, <1>2, <1>4 DEF ReachInv, Departures
<1>7. Improved'
  <2>. SUFFICES ASSUME NEW s \in Stop
                PROVE  /\ label'[round][s] # Infinity => s \in marked'
                       /\ label'[round - 1][s] # Infinity => s \in served'
    BY <1>1 DEF Improved
  <2>1. label'[round - 1] = label[round - 1]
    BY <1>1, <1>2, <1>4
  <2>2. label'[round][s] # label[round][s] => s \in marked'
    BY <1>1, <1>2, <1>4
  <2>. QED
    BY <1>1, <2>1, <2>2 DEF ReachInv, Improved
<1>8. Ended'
  BY <1>1 DEF Ended
<1>9. WalksDone'
  <2>. SUFFICES ASSUME NEW k \in (0 .. round)', NEW s \in Stop, NEW z \in Stop,
                       (label[k][s] # Infinity)', k # round
                PROVE  Hit(k, z, SatAdd(label[k][s], WalkSeconds(s, z)))'
    BY <1>1 DEF WalksDone
  <2>1. k \in 0 .. round /\ k \in 0 .. MaxRound(ask) /\ label'[k][s] = label[k][s]
    BY <1>1, <1>2, <1>4
  <2>2. PICK w \in Nat : w = SatAdd(label[k][s], WalkSeconds(s, z))
    <3>1. label[k][s] \in Time /\ WalkSeconds(s, z) \in Time
      BY <2>1, SearchTypes, WalkSecondsTime
    <3>2. SatAdd(label[k][s], WalkSeconds(s, z)) \in Time
      BY <3>1, SatAddTime
    <3>. QED
      BY <3>2, TimeAssumption DEF Time
  <2>3. w = SatAdd(label[k][s], WalkSeconds(s, z))'
    BY <1>1, <2>1, <2>2 DEF WalkSeconds
  <2>4. Hit(k, z, w)
    BY <2>1, <2>2 DEF ReachInv, WalksDone
  <2>5. Hit(k, z, w)'
    BY <1>1, <1>3, <2>1, <2>4, HitKept
  <2>. QED
    BY <2>3, <2>5 DEF Hit
<1>. QED
  BY <1>5, <1>6, <1>7, <1>8, <1>9 DEF ReachInv

LEMMA HitSame ==
  ASSUME UNCHANGED <<ask, label>>, NEW k, NEW s, NEW time
  PROVE  Hit(k, s, time)' <=> Hit(k, s, time)
BY DEF Hit

LEMMA StillAttained ==
  ASSUME IInv, ReachInv, UNCHANGED <<tt, ask, label, best, parent>>,
         round' \in Nat, round' >= round, bound' \in {bound, best}
  PROVE  Attained' /\ Departures'
<1>1. Departures'
  BY DEF ReachInv, Departures
<1>2. Attained'
  <2>. SUFFICES ASSUME NEW s \in Stop
                PROVE  /\ \E j \in 0 .. round' : label[j][s] =< best[s]
                       /\ \E j \in 0 .. round' : label[j][s] =< bound'[s]
    BY DEF Attained
  <2>1. PICK j \in 0 .. round : label[j][s] =< best[s]
    BY DEF ReachInv, Attained
  <2>2. PICK i \in 0 .. round : label[i][s] =< bound[s]
    BY DEF ReachInv, Attained
  <2>3. j \in 0 .. round' /\ i \in 0 .. round'
    BY LabelsAreTimes
  <2>4. bound'[s] = bound[s] \/ bound'[s] = best[s]
    OBVIOUS
  <2>. QED
    BY <2>1, <2>2, <2>3, <2>4
<1>. QED
  BY <1>1, <1>2

LEMMA StillWalked ==
  ASSUME IInv, ReachInv, UNCHANGED <<tt, ask, label>>,
         \A k \in 0 .. round' : \A s \in Stop :
           label[k][s] # Infinity /\ (k = round' => phase' # "ride" /\ s \notin queue') =>
             k \in 0 .. round /\ (k = round => phase # "ride" /\ s \notin queue)
  PROVE  WalksDone'
<1>. SUFFICES ASSUME NEW k \in (0 .. round)', NEW s \in Stop, NEW z \in Stop,
                     label[k][s] # Infinity, k = round' => phase' # "ride" /\ s \notin queue'
              PROVE  Hit(k, z, SatAdd(label[k][s], WalkSeconds(s, z)))'
  BY DEF WalksDone
<1>1. Hit(k, z, SatAdd(label[k][s], WalkSeconds(s, z)))
  BY DEF ReachInv, WalksDone
<1>2. SatAdd(label[k][s], WalkSeconds(s, z))' = SatAdd(label[k][s], WalkSeconds(s, z))
  BY DEF WalkSeconds
<1>. QED
  BY <1>1, <1>2 DEF Hit

LEMMA ReachOther ==
  ASSUME IInv, IInv', ReachInv, NextRound \/ Finish \/ WalkOn \/ UNCHANGED vars
  PROVE  ReachInv'
<1>1. MaxRound(ask) \in Nat /\ round \in 0 .. MaxRound(ask) /\ \A j \in 0 .. round : j \in 0 .. MaxRound(ask)
  BY LabelsAreTimes
<1>2. CASE NextRound
  <2>1. /\ UNCHANGED <<tt, ask, label, best, parent, queue>> /\ round' = round + 1 /\ bound' = best
        /\ phase = "walk" /\ phase' = "ride" /\ queue = {} /\ served' = marked
    BY <1>2 DEF NextRound
  <2>2. Attained' /\ Departures'
    BY <1>1, <2>1, StillAttained
  <2>3. Improved'
    <3>1. \A s \in Stop : label[round + 1][s] = Infinity
      <4>1. round + 1 \in 0 .. MaxRound(ask)
        BY <1>1, <1>2 DEF NextRound
      <4>. QED
        BY <1>1, <4>1 DEF IInv, RoundsAhead
    <3>2. (round + 1) - 1 = round
      BY <1>1
    <3>. QED
      BY <2>1, <3>1, <3>2 DEF ReachInv, Improved
  <2>4. Ended'
    BY <2>1 DEF Ended
  <2>5. WalksDone'
    BY <1>1, <2>1, StillWalked
  <2>. QED
    BY <2>2, <2>3, <2>4, <2>5 DEF ReachInv
<1>3. CASE Finish
  <2>1. /\ UNCHANGED <<tt, ask, label, best, parent, queue, marked, served>> /\ round' = round /\ bound' = bound
        /\ phase = "walk" /\ phase' = "done" /\ queue = {} /\ (marked = {} \/ round = MaxRound(ask))
    BY <1>3 DEF Finish
  <2>2. Attained' /\ Departures'
    BY <1>1, <2>1, StillAttained
  <2>3. Improved' /\ Ended'
    BY <2>1 DEF ReachInv, Improved, Ended
  <2>4. WalksDone'
    BY <1>1, <2>1, StillWalked
  <2>. QED
    BY <2>2, <2>3, <2>4 DEF ReachInv
<1>4. CASE WalkOn
  <2>1. /\ UNCHANGED <<tt, ask, label, best, parent, marked, served>> /\ round' = round /\ bound' = best
        /\ phase = "ride" /\ phase' = "walk" /\ queue' = marked
    BY <1>4 DEF WalkOn, labels
  <2>2. Attained' /\ Departures'
    BY <1>1, <2>1, StillAttained
  <2>3. Improved' /\ Ended'
    BY <2>1 DEF ReachInv, Improved, Ended
  <2>4. \A s \in Stop : label[round][s] # Infinity => s \in marked
    BY DEF ReachInv, Improved
  <2>5. WalksDone'
    BY <1>1, <2>1, <2>4, StillWalked
  <2>. QED
    BY <2>2, <2>3, <2>5 DEF ReachInv
<1>5. CASE UNCHANGED vars
  <2>1. UNCHANGED <<tt, ask, label, best, parent, queue, marked, served, phase>> /\ round' = round /\ bound' = bound
    BY <1>5 DEF vars
  <2>2. Attained' /\ Departures'
    BY <1>1, <2>1, StillAttained
  <2>3. Improved' /\ Ended'
    BY <2>1 DEF ReachInv, Improved, Ended
  <2>4. WalksDone'
    BY <1>1, <2>1, StillWalked
  <2>. QED
    BY <2>2, <2>3, <2>4 DEF ReachInv
<1>. QED
  BY <1>2, <1>3, <1>4, <1>5

LEMMA ReachOpening ==
  ASSUME IInv, IInv', ReachInv, NEW r \in toScan, OpenRoute(r)
  PROVE  ReachInv'
<1>1. MaxRound(ask) \in Nat /\ round \in 0 .. MaxRound(ask) /\ \A j \in 0 .. round : j \in 0 .. MaxRound(ask)
  BY LabelsAreTimes
<1>2. UNCHANGED <<tt, ask, label, best, parent, queue, marked, served, phase>> /\ round' = round /\ bound' = bound
  BY DEF OpenRoute, labels
<1>3. Attained' /\ Departures'
  BY <1>1, <1>2, StillAttained
<1>4. Improved' /\ Ended'
  BY <1>2 DEF ReachInv, Improved, Ended
<1>5. WalksDone'
  BY <1>1, <1>2, StillWalked
<1>. QED
  BY <1>3, <1>4, <1>5 DEF ReachInv

LEMMA ReachHolds == Spec => []ReachInv
<1>1. Init => ReachInv
  BY ReachStart
<1>2. IInv /\ IInv' /\ ReachInv /\ [Next]_vars => ReachInv'
  BY ReachWalking, ReachScanning, ReachOther, ReachOpening DEF Next
<1>. QED
  BY <1>1, <1>2, SearchInvariant, PTL DEF Spec

\* Without delays times are those of the timetable.
LEMMA OnTime ==
  ASSUME IInv, Regular, NEW r \in DOMAIN tt.routes, NEW n \in DOMAIN Route(r).trips,
         NEW i \in 1 .. Len(Route(r).stops)
  PROVE  /\ Leaves(r, n, i) = Route(r).trips[n].calls[i].departure
         /\ Arrives(r, n, i) = Route(r).trips[n].calls[i].arrival
         /\ Leaves(r, n, i) \in Nat /\ Arrives(r, n, i) \in Nat
         /\ Leaves(r, n, i) =< Infinity /\ Arrives(r, n, i) =< Infinity
<1>. DEFINE trip == tt.routes[r].trips[n]
<1>0. IsTimetable(tt)
  BY SearchTypes
<1>1. /\ trip.id \in TripId /\ trip.calls[i].stop \in Stop
      /\ trip.calls[i].arrival \in Time /\ trip.calls[i].departure \in Time
  <2>1. IsRoute(Route(r))
    BY <1>0 DEF IsTimetable, Route
  <2>2. trip = Route(r).trips[n]
    BY DEF Route
  <2>. HIDE DEF trip
  <2>. QED
    BY <2>1, <2>2 DEF IsRoute
<1>2. ask.realtime.delay[trip.id][trip.calls[i].stop] = 0
  <2>1. \A t \in TripId : \A s \in Stop : ask.realtime.delay[t][s] = 0
    BY DEF Regular
  <2>. HIDE DEF trip
  <2>. QED
    BY <1>1, <2>1
<1>3. ASSUME NEW x \in Time PROVE ApplyDelay(x, 0) = x
  BY <1>3, TimeAssumption DEF ApplyDelay, SatAdd, Time
<1>4. Leaves(r, n, i) = trip.calls[i].departure /\ Arrives(r, n, i) = trip.calls[i].arrival
  BY <1>1, <1>2, <1>3 DEF Leaves, Arrives, EffectiveDeparture, EffectiveArrival
<1>5. /\ trip.calls[i].arrival \in Nat /\ trip.calls[i].arrival =< Infinity
      /\ trip.calls[i].departure \in Nat /\ trip.calls[i].departure =< Infinity
  <2>. HIDE DEF trip
  <2>. QED
    BY <1>1, TimeAssumption DEF Time
<1>6. trip = Route(r).trips[n]
  BY DEF Route
<1>. HIDE DEF trip
<1>. QED
  BY <1>4, <1>5, <1>6

LEMMA StopsAreNumbered ==
  ASSUME IInv, NEW r \in DOMAIN tt.routes
  PROVE  DOMAIN Route(r).stops = 1 .. Len(Route(r).stops) /\ Len(Route(r).stops) \in Nat
<1>1. Route(r).stops \in Seq(Stop)
  BY SearchTypes DEF IsTimetable, IsRoute, Route
<1>. QED
  BY <1>1

\* A trip with a smaller number is never behind.
LEMMA SmallerIsNoLater ==
  ASSUME IInv, Regular, NoneOvertakes(tt), NEW r \in DOMAIN tt.routes,
         NEW n \in DOMAIN Route(r).trips, NEW m \in DOMAIN Route(r).trips, n =< m,
         NEW i \in 1 .. Len(Route(r).stops)
  PROVE  NoLater(r, n, m, i)
<1>. SUFFICES ASSUME NEW j \in i .. Len(Route(r).stops)
              PROVE  Arrives(r, n, j) =< Arrives(r, m, j) /\ Leaves(r, n, j) =< Leaves(r, m, j)
  BY DEF NoLater
<1>1. j \in 1 .. Len(Route(r).stops)
  BY StopsAreNumbered
<1>2. n \in Nat /\ m \in Nat
  BY DEF NoneOvertakes, Route
<1>3. CASE n = m
  BY <1>1, <1>3, OnTime
<1>4. CASE n < m
  <2>1. /\ Route(r).trips[n].calls[j].arrival =< Route(r).trips[m].calls[j].arrival
        /\ Route(r).trips[n].calls[j].departure =< Route(r).trips[m].calls[j].departure
    BY <1>1, <1>4 DEF NoneOvertakes, Route
  <2>. QED
    BY <1>1, <2>1, OnTime
<1>. QED
  BY <1>2, <1>3, <1>4

LEMMA NoLaterThrough ==
  ASSUME IInv, Regular, NEW r \in DOMAIN tt.routes, NEW n \in DOMAIN Route(r).trips,
         NEW m \in DOMAIN Route(r).trips, NEW t \in DOMAIN Route(r).trips,
         NEW i \in 1 .. Len(Route(r).stops), NEW h \in i .. Len(Route(r).stops),
         NoLater(r, n, m, i), NoLater(r, m, t, i)
  PROVE  NoLater(r, n, t, h)
<1>. SUFFICES ASSUME NEW j \in h .. Len(Route(r).stops)
              PROVE  Arrives(r, n, j) =< Arrives(r, t, j) /\ Leaves(r, n, j) =< Leaves(r, t, j)
  BY DEF NoLater
<1>1. j \in 1 .. Len(Route(r).stops) /\ j \in i .. Len(Route(r).stops)
  BY StopsAreNumbered
<1>2. /\ Arrives(r, n, j) =< Arrives(r, m, j) /\ Leaves(r, n, j) =< Leaves(r, m, j)
      /\ Arrives(r, m, j) =< Arrives(r, t, j) /\ Leaves(r, m, j) =< Leaves(r, t, j)
  BY <1>1 DEF NoLater
<1>3. /\ Arrives(r, n, j) \in Nat /\ Arrives(r, m, j) \in Nat /\ Arrives(r, t, j) \in Nat
      /\ Leaves(r, n, j) \in Nat /\ Leaves(r, m, j) \in Nat /\ Leaves(r, t, j) \in Nat
  BY <1>1, OnTime
<1>. QED
  BY <1>2, <1>3

LEMMA CatchableAreTrips ==
  ASSUME NEW r, NEW i, NEW ready
  PROVE  Catchable(r, i, ready) \subseteq DOMAIN Route(r).trips
BY DEF Catchable, Verified

\* The trip that leaves first is never behind another one that can be caught.
LEMMA EarliestLeads ==
  ASSUME IInv, Regular, NoneOvertakes(tt), NEW r \in DOMAIN tt.routes,
         NEW i \in 1 .. Len(Route(r).stops), NEW ready,
         NEW n \in Earliest(r, i, ready), NEW m \in Catchable(r, i, ready)
  PROVE  NoLater(r, n, m, i) /\ Leaves(r, n, i) =< Leaves(r, m, i)
<1>1. n \in Catchable(r, i, ready) /\ LeavesBefore(r, i, n, m)
  BY DEF Earliest
<1>2. n \in DOMAIN Route(r).trips /\ m \in DOMAIN Route(r).trips
  BY <1>1, CatchableAreTrips
<1>3. n \in Nat /\ m \in Nat
  BY <1>2 DEF NoneOvertakes, Route
<1>4. /\ Leaves(r, n, i) = Route(r).trips[n].calls[i].departure
      /\ Leaves(r, m, i) = Route(r).trips[m].calls[i].departure
      /\ Leaves(r, n, i) \in Nat /\ Leaves(r, m, i) \in Nat
  BY <1>2, OnTime
<1>5. Leaves(r, n, i) < Leaves(r, m, i) \/ (Leaves(r, n, i) = Leaves(r, m, i) /\ n =< m)
  BY <1>1, <1>4 DEF LeavesBefore
<1>6. n =< m
  <2>1. SUFFICES ASSUME m < n PROVE FALSE
    BY <1>3
  <2>2. Leaves(r, m, i) =< Leaves(r, n, i)
    <3>1. Route(r).trips[m].calls[i].departure =< Route(r).trips[n].calls[i].departure
      BY <1>2, <2>1 DEF NoneOvertakes, Route
    <3>. QED
      BY <1>4, <3>1
  <2>. QED
    BY <1>3, <1>4, <1>5, <2>1, <2>2
<1>. QED
  BY <1>2, <1>4, <1>5, <1>6, SmallerIsNoLater

LEMMA OneIsEarliest ==
  ASSUME IInv, Regular, NoneOvertakes(tt), NEW r \in DOMAIN tt.routes,
         NEW i \in 1 .. Len(Route(r).stops), NEW ready, Catchable(r, i, ready) # {}
  PROVE  Earliest(r, i, ready) # {}
<1>. DEFINE C == Catchable(r, i, ready)
            times == {Leaves(r, n, i) : n \in C}
<1>1. C \subseteq DOMAIN Route(r).trips /\ C # {}
  BY CatchableAreTrips
<1>2. C \subseteq Nat
  BY <1>1 DEF NoneOvertakes, Route
<1>3. \A n \in C : /\ Leaves(r, n, i) \in Nat
                   /\ Leaves(r, n, i) = Route(r).trips[n].calls[i].departure
  BY <1>1, OnTime
<1>4. PICK n \in C : \A m \in C : Leaves(r, n, i) =< Leaves(r, m, i)
  <2>1. times \subseteq Nat /\ times # {}
    BY <1>1, <1>3
  <2>2. \E x \in times : \A y \in times : x =< y
    <3>. HIDE DEF times
    <3>. QED
      BY <2>1, LeastNumber
  <2>. QED
    BY <2>2
<1>. DEFINE same == {m \in C : Leaves(r, m, i) = Leaves(r, n, i)}
<1>5. PICK k \in same : \A m \in same : k =< m
  <2>1. same \subseteq Nat /\ same # {}
    BY <1>2
  <2>. HIDE DEF same
  <2>. QED
    BY <2>1, LeastNumber
<1>6. ASSUME NEW m \in C PROVE LeavesBefore(r, i, k, m)
  <2>1. Leaves(r, k, i) =< Leaves(r, m, i) /\ Leaves(r, k, i) \in Nat /\ Leaves(r, m, i) \in Nat
    BY <1>3, <1>4, <1>5
  <2>2. CASE Leaves(r, k, i) = Leaves(r, m, i)
    <3>1. m \in same /\ k \in C
      BY <1>5, <2>2
    <3>2. Route(r).trips[k].calls[i].departure = Route(r).trips[m].calls[i].departure /\ k =< m
      BY <1>3, <1>5, <2>2, <3>1
    <3>. QED
      BY <2>2, <3>2 DEF LeavesBefore
  <2>3. CASE Leaves(r, k, i) < Leaves(r, m, i)
    BY <2>3 DEF LeavesBefore
  <2>. QED
    BY <2>1, <2>2, <2>3
<1>7. k \in Earliest(r, i, ready)
  BY <1>5, <1>6 DEF Earliest
<1>. QED
  BY <1>7

\* Boarding depends on the round before only.
LEMMA BoardingSame ==
  ASSUME NEW k, NEW r, NEW n, NEW i,
         UNCHANGED request, label'[k] = label[k], parent'[k] = parent[k]
  PROVE  CanBoard(k, r, n, i)' <=> CanBoard(k, r, n, i)
BY DEF CanBoard, Ready, Slack, StopAt, Route, Leaves, request

LEMMA CanBoardIs ==
  ASSUME NEW k, NEW r, NEW n \in DOMAIN Route(r).trips, NEW i
  PROVE  CanBoard(k, r, n, i) <=>
           label[k][StopAt(r, i)] # Infinity /\ n \in Catchable(r, i, Ready(k, StopAt(r, i)))
BY DEF CanBoard, Catchable, Verified

LEMMA RegularSame ==
  ASSUME UNCHANGED request
  PROVE  (Regular <=> Regular') /\ (NoneOvertakes(tt) <=> NoneOvertakes(tt)')
BY DEF Regular, RunsOn, Route, NoneOvertakes, request

LEMMA NoLaterSame ==
  ASSUME UNCHANGED request, NEW r, NEW n, NEW m, NEW i
  PROVE  NoLater(r, n, m, i)' <=> NoLater(r, n, m, i)
BY DEF NoLater, Route, Arrives, Leaves, request

\* A place of a route that was scanned stays reached.
LEMMA RidesKept ==
  ASSUME IInv, IInv', RidesDone, Regular, UNCHANGED request,
         NEW k \in 0 .. MaxRound(ask), k + 1 \in 0 .. MaxRound(ask), k < round,
         NEW r \in DOMAIN tt.routes, NEW n \in DOMAIN Route(r).trips,
         NEW b \in 1 .. Len(Route(r).stops), NEW i \in 1 .. Len(Route(r).stops), b < i,
         label'[k] = label[k], parent'[k] = parent[k],
         \A j \in 0 .. MaxRound(ask), x \in Stop : label'[j][x] =< label[j][x],
         IsAllowed(r), CanBoard(k, r, n, b)', IsScanned(k, r, i)
  PROVE  Hit(k + 1, StopAt(r, i), Arrives(r, n, i))'
<1>1. CanBoard(k, r, n, b)
  BY BoardingSame
<1>2. k \in 0 .. round - 1
  BY LabelsAreTimes
<1>3. Hit(k + 1, StopAt(r, i), Arrives(r, n, i))
  BY <1>1, <1>2 DEF RidesDone
<1>4. Arrives(r, n, i) \in Int /\ StopAt(r, i) \in Stop
  BY OnTime, StopAtStop, SearchTypes
<1>5. PICK s \in Stop, t \in Int : s = StopAt(r, i) /\ t = Arrives(r, n, i)
  BY <1>4
<1>6. Hit(k + 1, s, t)'
  BY <1>3, <1>5, HitKept
<1>7. s = StopAt(r, i)' /\ t = Arrives(r, n, i)'
  BY <1>5 DEF StopAt, Arrives, Route, request
<1>. QED
  BY <1>6, <1>7 DEF Hit

LEMMA RidingStart ==
  ASSUME Init, \A t \in Timetables : NoneOvertakes(t)
  PROVE  RidingInv
<1>1. tt \in Timetables /\ round = 0 /\ scan = NoScan
  BY DEF Init
<1>2. RidesDone
  BY <1>1 DEF RidesDone
<1>3. ScanIsFirst
  BY <1>1 DEF ScanIsFirst
<1>. QED
  BY <1>1, <1>2, <1>3 DEF RidingInv

\* A walk, and the other steps that scan nothing.
LEMMA RidingWalk ==
  ASSUME IInv, IInv', ReachInv, RidingInv, NEW from \in Stop, FollowWalks(from)
  PROVE  RidingInv'
<1>1. /\ UNCHANGED request /\ round' = round /\ phase = "walk" /\ phase' = "walk"
      /\ \A k \in 0 .. MaxRound(ask) : k # round => label'[k] = label[k] /\ parent'[k] = parent[k]
      /\ \A k \in 0 .. MaxRound(ask), s \in Stop : label'[k][s] =< label[k][s]
  BY WalkingIs
<1>2. scan = NoScan /\ scan' = NoScan
  BY <1>1 DEF FollowWalks, IInv, TypeOK
<1>3. SUFFICES ASSUME Regular PROVE RidesDone' /\ ScanIsFirst'
  BY <1>1, RegularSame DEF RidingInv
<1>4. RidesDone /\ ScanIsFirst
  BY <1>3 DEF RidingInv
<1>5. ScanIsFirst'
  BY <1>2 DEF ScanIsFirst
<1>6. RidesDone'
  <2>. SUFFICES ASSUME NEW k \in 0 .. round - 1, NEW r \in DOMAIN tt.routes,
                       NEW n \in DOMAIN Route(r).trips,
                       NEW b \in 1 .. Len(Route(r).stops), NEW i \in 1 .. Len(Route(r).stops),
                       IsAllowed(r), b < i, CanBoard(k, r, n, b)'
                PROVE  Hit(k + 1, StopAt(r, i), Arrives(r, n, i))'
    BY <1>1 DEF RidesDone, request, Route, IsAllowed
  <2>1. k \in 0 .. MaxRound(ask) /\ k + 1 \in 0 .. MaxRound(ask) /\ k < round
    BY LabelsAreTimes
  <2>2. IsScanned(k, r, i)
    BY <1>1 DEF IsScanned
  <2>. QED
    BY <1>1, <1>3, <1>4, <2>1, <2>2, RidesKept
<1>. QED
  BY <1>5, <1>6

LEMMA RidingOther ==
  ASSUME IInv, IInv', ReachInv, RidingInv, NextRound \/ Finish \/ WalkOn \/ UNCHANGED vars
  PROVE  RidingInv'
<1>1. /\ UNCHANGED request /\ UNCHANGED <<label, parent, scan>>
      /\ NextRound \/ (round' = round /\ (phase' # "ride" \/ UNCHANGED vars))
  BY DEF NextRound, Finish, WalkOn, vars, request, labels
<1>2. SUFFICES ASSUME Regular PROVE RidesDone' /\ ScanIsFirst'
  BY <1>1, RegularSame DEF RidingInv
<1>3. RidesDone /\ ScanIsFirst
  BY <1>2 DEF RidingInv
<1>4. \A j \in 0 .. MaxRound(ask), x \in Stop : label'[j][x] =< label[j][x]
  BY <1>1, LabelsAreTimes
<1>5. ScanIsFirst'
  <2>1. CASE UNCHANGED vars
    <3>. SUFFICES ASSUME scan # NoScan, NEW n \in DOMAIN Route(scan.route).trips,
                         NEW b \in 1 .. scan.index - 1, CanBoard(round - 1, scan.route, n, b)'
                  PROVE  scan.trip # 0 /\ NoLater(scan.route, scan.trip, n, scan.index)'
      BY <2>1 DEF ScanIsFirst, vars, Route
    <3>1. CanBoard(round - 1, scan.route, n, b)
      BY <2>1 DEF vars, CanBoard, Ready, Slack, StopAt, Route, Leaves
    <3>2. scan.trip # 0 /\ NoLater(scan.route, scan.trip, n, scan.index)
      BY <1>3, <3>1 DEF ScanIsFirst
    <3>. QED
      BY <1>1, <2>1, <3>2 DEF NoLater, Route, Arrives, Leaves, vars
  <2>2. CASE ~ UNCHANGED vars
    <3>1. scan' = NoScan
      BY <1>1, <2>2 DEF NextRound, Finish, WalkOn, IInv, TypeOK
    <3>. QED
      BY <3>1 DEF ScanIsFirst
  <2>. QED
    BY <2>1, <2>2
<1>6. RidesDone'
  <2>. SUFFICES ASSUME NEW k \in (0 .. round - 1)', NEW r \in DOMAIN tt.routes,
                       NEW n \in DOMAIN Route(r).trips,
                       NEW b \in 1 .. Len(Route(r).stops), NEW i \in 1 .. Len(Route(r).stops),
                       IsAllowed(r), b < i, CanBoard(k, r, n, b)', IsScanned(k, r, i)'
                PROVE  Hit(k + 1, StopAt(r, i), Arrives(r, n, i))'
    BY <1>1 DEF RidesDone, request, Route, IsAllowed
  <2>1. round \in 0 .. MaxRound(ask) /\ MaxRound(ask) \in Nat
    BY LabelsAreTimes
  <2>2. ~(NextRound /\ k = round)
    <3>. SUFFICES ASSUME NextRound, k = round PROVE FALSE
      OBVIOUS
    <3>1. CanBoard(round, r, n, b)
      BY <1>1, BoardingSame
    <3>2. StopAt(r, b) \in marked
      <4>1. StopAt(r, b) \in Stop
        BY StopAtStop, SearchTypes
      <4>. QED
        BY <3>1, <4>1 DEF CanBoard, ReachInv, Improved
    <3>3. r \in toScan'
      <4>1. b \in DOMAIN Route(r).stops
        BY StopsAreNumbered
      <4>. QED
        BY <3>2, <4>1 DEF NextRound
    <3>4. k + 1 = round' /\ phase' = "ride"
      BY DEF NextRound
    <3>. QED
      BY <3>3, <3>4 DEF IsScanned
  <2>3. k \in 0 .. MaxRound(ask) /\ k + 1 \in 0 .. MaxRound(ask) /\ k < round
    BY <1>1, <2>1, <2>2 DEF NextRound
  <2>4. IsScanned(k, r, i)
    <3>1. CASE NextRound \/ Finish
      BY <3>1 DEF IsScanned, NextRound, Finish
    <3>2. CASE WalkOn
      <4>1. toScan = {} /\ scan.route = 0 /\ r # 0
        BY <3>2, SearchTypes DEF WalkOn, NoScan, Scanning, IsTimetable
      <4>. QED
        BY <4>1 DEF IsScanned
    <3>3. CASE UNCHANGED vars
      BY <3>3 DEF IsScanned, vars
    <3>. QED
      BY <3>1, <3>2, <3>3
  <2>. QED
    BY <1>1, <1>2, <1>3, <1>4, <2>3, <2>4, RidesKept
<1>. QED
  BY <1>5, <1>6

\* A route is opened at the first stop from which one can ride.
LEMMA RidingOpen ==
  ASSUME IInv, IInv', ReachInv, RidingInv, NEW q \in toScan, OpenRoute(q)
  PROVE  RidingInv'
<1>1. /\ UNCHANGED request /\ UNCHANGED <<label, parent, round, phase>>
      /\ phase = "ride" /\ scan = NoScan /\ toScan' = toScan \ {q}
      /\ \/ IsAllowed(q) /\ \E i \in 1 .. Len(Route(q).stops) :
                               FirstServed(q, i) /\ scan' = Scanning(q, i, 0, 0)
         \/ ~IsAllowed(q) /\ scan' = scan
  BY DEF OpenRoute, request, labels
<1>2. SUFFICES ASSUME Regular PROVE RidesDone' /\ ScanIsFirst'
  BY <1>1, RegularSame DEF RidingInv
<1>3. RidesDone /\ ScanIsFirst
  BY <1>2 DEF RidingInv
<1>4. \A j \in 0 .. MaxRound(ask), x \in Stop : label'[j][x] =< label[j][x]
  BY <1>1, LabelsAreTimes
<1>5. q \in DOMAIN tt.routes
  BY DEF IInv, TypeOK
<1>6. ASSUME NEW n, NEW b \in 1 .. Len(Route(q).stops), IsAllowed(q), scan'.route = q, b < scan'.index,
             CanBoard(round - 1, q, n, b)'
      PROVE  FALSE
  <2>1. PICK i \in 1 .. Len(Route(q).stops) : FirstServed(q, i) /\ scan' = Scanning(q, i, 0, 0)
    BY <1>1, <1>6
  <2>2. b \in 1 .. i - 1
    BY <1>6, <2>1, StopsAreNumbered DEF Scanning
  <2>3. StopAt(q, b) \notin served /\ StopAt(q, b) \in Stop
    BY <1>5, <2>1, <2>2, StopAtStop, SearchTypes DEF FirstServed
  <2>4. CanBoard(round - 1, q, n, b)
    BY <1>1, <1>6 DEF CanBoard, Ready, Slack, StopAt, Route, Leaves, request
  <2>. QED
    BY <1>1, <2>3, <2>4 DEF CanBoard, ReachInv, Improved
<1>7. ScanIsFirst'
  <2>. SUFFICES ASSUME scan' # NoScan, NEW b \in (1 .. scan.index - 1)', NEW n,
                       CanBoard(round - 1, scan.route, n, b)'
                PROVE  FALSE
    BY DEF ScanIsFirst
  <2>1. PICK i \in 1 .. Len(Route(q).stops) : IsAllowed(q) /\ scan' = Scanning(q, i, 0, 0)
    BY <1>1
  <2>2. scan'.route = q /\ scan'.index = i /\ b < i /\ b \in 1 .. Len(Route(q).stops)
    BY <1>5, <2>1, StopsAreNumbered DEF Scanning
  <2>3. CanBoard(round - 1, q, n, b)'
    BY <2>2
  <2>. QED
    BY <1>6, <2>1, <2>2, <2>3
<1>8. RidesDone'
  <2>. SUFFICES ASSUME NEW k \in (0 .. round - 1)', NEW r \in DOMAIN tt.routes,
                       NEW n \in DOMAIN Route(r).trips,
                       NEW b \in 1 .. Len(Route(r).stops), NEW i \in 1 .. Len(Route(r).stops),
                       IsAllowed(r), b < i, CanBoard(k, r, n, b)', IsScanned(k, r, i)'
                PROVE  Hit(k + 1, StopAt(r, i), Arrives(r, n, i))'
    BY <1>1 DEF RidesDone, request, Route, IsAllowed
  <2>1. k \in 0 .. MaxRound(ask) /\ k + 1 \in 0 .. MaxRound(ask) /\ k < round
    BY <1>1, LabelsAreTimes
  <2>2. IsScanned(k, r, i)
    <3>. SUFFICES ASSUME k + 1 = round, phase = "ride" PROVE r \notin toScan /\ scan.route # r
      BY DEF IsScanned
    <3>1. r \notin toScan' /\ (scan'.route = r => i < scan'.index)
      BY <1>1 DEF IsScanned
    <3>2. r # q
      <4>. SUFFICES ASSUME r = q PROVE FALSE
        OBVIOUS
      <4>1. scan'.route = q
        BY <1>1 DEF Scanning
      <4>2. PICK i0 \in 1 .. Len(Route(q).stops) : scan' = Scanning(q, i0, 0, 0)
        BY <1>1
      <4>3. b < scan'.index
        BY <3>1, <4>1, <4>2, StopsAreNumbered DEF Scanning
      <4>4. k = round - 1
        BY LabelsAreTimes
      <4>5. CanBoard(round - 1, q, n, b)'
        BY <1>1, <4>4
      <4>. QED
        BY <1>6, <4>1, <4>3, <4>5
    <3>3. scan.route = 0 /\ r # 0
      BY <1>1, SearchTypes DEF NoScan, Scanning, IsTimetable
    <3>. QED
      BY <1>1, <3>1, <3>2, <3>3
  <2>. QED
    BY <1>1, <1>2, <1>3, <1>4, <2>1, <2>2, RidesKept
<1>. QED
  BY <1>7, <1>8

LEMMA NoLaterOn ==
  ASSUME IInv, NEW r \in DOMAIN tt.routes, NEW n, NEW m,
         NEW i \in 1 .. Len(Route(r).stops), NoLater(r, n, m, i)
  PROVE  NoLater(r, n, m, i + 1)
<1>1. \A j \in i + 1 .. Len(Route(r).stops) : j \in i .. Len(Route(r).stops)
  BY StopsAreNumbered
<1>. QED
  BY <1>1 DEF NoLater

\* Trips that leave a stop together go on together.
LEMMA TiedGoOn ==
  ASSUME IInv, Regular, NEW r \in DOMAIN tt.routes,
         NEW n \in DOMAIN Route(r).trips, NEW m \in DOMAIN Route(r).trips,
         NEW i \in 1 .. Len(Route(r).stops), Leaves(r, n, i) = Leaves(r, m, i)
  PROVE  NoLater(r, n, m, i + 1)
<1>. SUFFICES ASSUME NEW j \in i + 1 .. Len(Route(r).stops)
              PROVE  Arrives(r, n, j) =< Arrives(r, m, j) /\ Leaves(r, n, j) =< Leaves(r, m, j)
  BY DEF NoLater
<1>1. j \in 1 .. Len(Route(r).stops) /\ i < j
  BY StopsAreNumbered
<1>2. j \in DOMAIN Route(r).stops /\ i \in DOMAIN Route(r).stops
  BY <1>1, StopsAreNumbered
<1>3. Route(r).trips[n].calls[i].departure = Route(r).trips[m].calls[i].departure
  BY OnTime
<1>4. /\ Route(r).trips[n].calls[j].arrival = Route(r).trips[m].calls[j].arrival
      /\ Route(r).trips[n].calls[j].departure = Route(r).trips[m].calls[j].departure
  <2>1. RunsOn(Route(r))
    BY DEF Regular
  <2>. QED
    BY <1>1, <1>2, <1>3, <2>1 DEF RunsOn
<1>5. /\ Arrives(r, n, j) = Arrives(r, m, j) /\ Leaves(r, n, j) = Leaves(r, m, j)
      /\ Arrives(r, n, j) \in Nat /\ Leaves(r, n, j) \in Nat
  BY <1>1, <1>4, OnTime
<1>. QED
  BY <1>5

\* The trip on which a scan leaves a stop is not behind any that could be boarded so far.
LEMMA ScanLeads ==
  ASSUME IInv, Regular, NoneOvertakes(tt), ScanIsFirst, scan # NoScan,
         scan.route \in DOMAIN tt.routes, scan.index \in 1 .. Len(Route(scan.route).stops),
         NEW t,
         \/ t \in DOMAIN Route(scan.route).trips /\ BoardsHere(t)
         \/ t = scan.trip /\ \A n \in DOMAIN Route(scan.route).trips : ~BoardsHere(n),
         NEW n \in DOMAIN Route(scan.route).trips, NEW b \in 1 .. scan.index,
         CanBoard(round - 1, scan.route, n, b)
  PROVE  t # 0 /\ NoLater(scan.route, t, n, scan.index + 1)
<1>. DEFINE r == scan.route
            i == scan.index
            ready == Ready(round - 1, StopAt(r, i))
<1>1. /\ r \in DOMAIN tt.routes /\ i \in 1 .. Len(Route(r).stops) /\ 0 \notin DOMAIN Route(r).trips
      /\ scan.trip # 0 => scan.trip \in DOMAIN Route(r).trips
      /\ DOMAIN Route(r).trips \subseteq Nat
  <2>1. scan.trip # 0 => scan.trip \in DOMAIN Route(r).trips
    BY DEF IInv, TypeOK
  <2>. QED
    BY <2>1, SearchTypes DEF IsTimetable, Route, NoneOvertakes
<1>2. \A m \in DOMAIN Route(r).trips :
        BoardsHere(m) <=> /\ label[round - 1][StopAt(r, i)] # Infinity /\ m \in Earliest(r, i, ready)
                          /\ scan.trip # 0 => Leaves(r, m, i) < Leaves(r, scan.trip, i)
  BY DEF BoardsHere
<1>3. b < i => scan.trip # 0 /\ NoLater(r, scan.trip, n, i)
  <2>. SUFFICES ASSUME b < i PROVE scan.trip # 0 /\ NoLater(r, scan.trip, n, i)
    OBVIOUS
  <2>1. b \in 1 .. i - 1
    BY <1>1, StopsAreNumbered
  <2>. QED
    BY <2>1 DEF ScanIsFirst
<1>4. b = i => label[round - 1][StopAt(r, i)] # Infinity /\ n \in Catchable(r, i, ready)
  BY CanBoardIs
<1>5. b < i \/ b = i
  BY <1>1, StopsAreNumbered
<1>6. \A m \in Earliest(r, i, ready) : m \in DOMAIN Route(r).trips
  BY CatchableAreTrips DEF Earliest
<1>7. \A m, l \in DOMAIN Route(r).trips : Leaves(r, m, i) \in Nat /\ Leaves(r, l, i) \in Nat /\ m \in Nat /\ l \in Nat
  BY <1>1, OnTime
<1>8. \A j \in i .. Len(Route(r).stops) : j \in 1 .. Len(Route(r).stops)
  BY <1>1, StopsAreNumbered
<1>9. i \in i .. Len(Route(r).stops)
  BY <1>1, StopsAreNumbered
<1>10. n \in DOMAIN Route(r).trips
  OBVIOUS
<1>11. CASE t \in DOMAIN Route(r).trips /\ BoardsHere(t)
  <2>1. NoLater(r, t, n, i)
    <3>1. CASE b = i
      BY <1>1, <1>2, <1>4, <1>11, <3>1, EarliestLeads
    <3>2. CASE b < i
      <4>1. scan.trip \in DOMAIN Route(r).trips /\ NoLater(r, scan.trip, n, i)
            /\ Leaves(r, t, i) < Leaves(r, scan.trip, i)
        BY <1>1, <1>2, <1>3, <1>11, <3>2
      <4>2. t =< scan.trip
        <5>1. SUFFICES ASSUME scan.trip =< t PROVE FALSE
          BY <1>7, <1>11, <4>1
        <5>2. NoLater(r, scan.trip, t, i)
          BY <1>1, <1>11, <4>1, <5>1, SmallerIsNoLater
        <5>3. Leaves(r, scan.trip, i) =< Leaves(r, t, i)
          BY <1>9, <5>2 DEF NoLater
        <5>. QED
          BY <1>7, <1>11, <4>1, <5>3
      <4>3. NoLater(r, t, scan.trip, i)
        BY <1>1, <1>11, <4>1, <4>2, SmallerIsNoLater
      <4>. HIDE DEF r, i, ready
      <4>. QED
        BY <1>1, <1>9, <1>10, <1>11, <4>1, <4>3, NoLaterThrough
    <3>. QED
      BY <1>5, <3>1, <3>2
  <2>. QED
    BY <1>1, <1>11, <2>1, NoLaterOn
<1>12. CASE t = scan.trip /\ \A m \in DOMAIN Route(r).trips : ~BoardsHere(m)
  <2>1. CASE b < i
    BY <1>1, <1>3, <1>12, <2>1, NoLaterOn
  <2>2. CASE b = i
    <3>1. PICK m : m \in Earliest(r, i, ready)
      BY <1>1, <1>4, <2>2, OneIsEarliest
    <3>2. /\ m \in DOMAIN Route(r).trips /\ scan.trip # 0 /\ scan.trip \in DOMAIN Route(r).trips
          /\ ~(Leaves(r, m, i) < Leaves(r, scan.trip, i))
      BY <1>1, <1>2, <1>4, <1>6, <1>12, <2>2, <3>1
    <3>3. NoLater(r, m, n, i + 1)
      BY <1>1, <1>4, <2>2, <3>1, EarliestLeads, NoLaterOn
    <3>4. NoLater(r, scan.trip, m, i + 1)
      <4>1. CASE scan.trip =< m
        BY <1>1, <3>2, <4>1, SmallerIsNoLater, NoLaterOn
      <4>2. CASE m =< scan.trip
        <5>1. NoLater(r, m, scan.trip, i)
          BY <1>1, <3>2, <4>2, SmallerIsNoLater
        <5>2. Leaves(r, m, i) =< Leaves(r, scan.trip, i)
          BY <1>9, <5>1 DEF NoLater
        <5>3. Leaves(r, scan.trip, i) = Leaves(r, m, i)
          BY <1>7, <3>2, <5>2
        <5>. QED
          BY <1>1, <3>2, <5>3, TiedGoOn
      <4>. QED
        BY <1>7, <3>2, <4>1, <4>2
    <3>5. NoLater(r, scan.trip, n, i + 1)
      <4>. SUFFICES ASSUME NEW j \in i + 1 .. Len(Route(r).stops)
                    PROVE  Arrives(r, scan.trip, j) =< Arrives(r, n, j) /\ Leaves(r, scan.trip, j) =< Leaves(r, n, j)
        BY DEF NoLater
      <4>1. j \in 1 .. Len(Route(r).stops)
        BY <1>1, StopsAreNumbered
      <4>2. /\ Arrives(r, n, j) \in Nat /\ Arrives(r, m, j) \in Nat /\ Arrives(r, scan.trip, j) \in Nat
            /\ Leaves(r, n, j) \in Nat /\ Leaves(r, m, j) \in Nat /\ Leaves(r, scan.trip, j) \in Nat
        BY <1>1, <1>10, <3>2, <4>1, OnTime
      <4>. QED
        BY <3>3, <3>4, <4>2 DEF NoLater
    <3>. QED
      BY <1>12, <3>2, <3>5
  <2>. QED
    BY <1>5, <2>1, <2>2
<1>. QED
  BY <1>11, <1>12

LEMMA RidingScan ==
  ASSUME IInv, IInv', ReachInv, RidingInv, ScanStop
  PROVE  RidingInv'
<1>. DEFINE c == StopAt(scan.route, scan.index)
            arrival == Arrives(scan.route, scan.trip, scan.index)
<1>1. /\ UNCHANGED request /\ round' = round /\ bound' = bound
      /\ phase = "ride" /\ phase' = "ride" /\ round > 0 /\ scan # NoScan /\ toScan' = toScan
      /\ scan.route \in DOMAIN tt.routes /\ scan.index \in 1 .. Len(Route(scan.route).stops)
      /\ c \in Stop /\ (scan.trip # 0 => scan.trip \in DOMAIN Route(scan.route).trips /\ arrival \in Nat)
      /\ \A k \in 0 .. MaxRound(ask) : \A x \in Stop :
           label'[k][x] = IF AlightsHere /\ k = round /\ x = c THEN arrival ELSE label[k][x]
      /\ \A k \in 0 .. MaxRound(ask) : k # round => label'[k] = label[k] /\ parent'[k] = parent[k]
      /\ \A k \in 0 .. MaxRound(ask), x \in Stop : label'[k][x] =< label[k][x]
  BY ScanningIs
<1>2. SUFFICES ASSUME Regular PROVE RidesDone' /\ ScanIsFirst'
  BY <1>1, RegularSame DEF RidingInv
<1>3. RidesDone /\ ScanIsFirst /\ NoneOvertakes(tt)
  BY <1>2 DEF RidingInv
<1>4. /\ round \in 0 .. MaxRound(ask) /\ MaxRound(ask) \in Nat
      /\ round - 1 \in 0 .. MaxRound(ask) /\ round - 1 # round
  BY <1>1, LabelsAreTimes
<1>5. PICK t, b : /\ \/ t \in DOMAIN Route(scan.route).trips /\ BoardsHere(t)
                     \/ t = scan.trip /\ \A n \in DOMAIN Route(scan.route).trips : ~BoardsHere(n)
                  /\ ToNextStop(t, b)
  BY DEF ScanStop
<1>6. scan' = IF scan.index = Len(Route(scan.route).stops) THEN NoScan
              ELSE Scanning(scan.route, scan.index + 1, t, b)
  BY <1>5 DEF ToNextStop
<1>7. ScanIsFirst'
  <2>. SUFFICES ASSUME scan' # NoScan, NEW n \in DOMAIN Route(scan.route)'.trips, NEW h \in (1 .. scan.index - 1)',
                       CanBoard(round - 1, scan.route, n, h)'
                PROVE  (scan.trip # 0 /\ NoLater(scan.route, scan.trip, n, scan.index))'
    BY DEF ScanIsFirst
  <2>1. scan'.route = scan.route /\ scan'.index = scan.index + 1 /\ scan'.trip = t
    BY <1>6 DEF Scanning
  <2>2. h \in 1 .. scan.index /\ n \in DOMAIN Route(scan.route).trips
    BY <1>1, <2>1, StopsAreNumbered DEF Route, request
  <2>3. CanBoard(round - 1, scan.route, n, h)
    BY <1>1, <1>4, <2>1 DEF CanBoard, Ready, Slack, StopAt, Route, Leaves, request
  <2>4. t # 0 /\ NoLater(scan.route, t, n, scan.index + 1)
    BY <1>1, <1>2, <1>3, <1>5, <2>2, <2>3, ScanLeads
  <2>. QED
    BY <1>1, <2>1, <2>4 DEF NoLater, Route, Arrives, Leaves, request
<1>8. RidesDone'
  <2>. SUFFICES ASSUME NEW k \in (0 .. round - 1)', NEW r \in DOMAIN tt.routes,
                       NEW n \in DOMAIN Route(r).trips,
                       NEW h \in 1 .. Len(Route(r).stops), NEW i \in 1 .. Len(Route(r).stops),
                       IsAllowed(r), h < i, CanBoard(k, r, n, h)', IsScanned(k, r, i)'
                PROVE  Hit(k + 1, StopAt(r, i), Arrives(r, n, i))'
    BY <1>1 DEF RidesDone, request, Route, IsAllowed
  <2>1. k \in 0 .. MaxRound(ask) /\ k + 1 \in 0 .. MaxRound(ask) /\ k < round /\ k # round
    BY <1>1, <1>4
  <2>2. label'[k] = label[k] /\ parent'[k] = parent[k]
    BY <1>1, <2>1
  <2>3. CASE IsScanned(k, r, i)
    BY <1>1, <1>2, <1>3, <2>1, <2>2, <2>3, RidesKept
  <2>4. CASE ~IsScanned(k, r, i)
    <3>1. k + 1 = round /\ (r \in toScan \/ (scan.route = r /\ ~(i < scan.index)))
      BY <2>4 DEF IsScanned
    <3>2. r \notin toScan /\ (scan'.route = r => i < scan'.index)
      BY <1>1, <3>1 DEF IsScanned
    <3>3. scan.route = r /\ i = scan.index
      <4>1. scan.route = r /\ ~(i < scan.index)
        BY <3>1, <3>2
      <4>2. scan.index = Len(Route(scan.route).stops) \/ i < scan.index + 1
        BY <1>6, <3>2, <4>1 DEF Scanning
      <4>. QED
        BY <1>1, <4>1, <4>2, StopsAreNumbered
    <3>4. CanBoard(round - 1, r, n, h)
      <4>1. k = round - 1
        BY <1>1, <1>4, <3>1
      <4>2. CanBoard(k, r, n, h)
        BY <1>1, <2>2, BoardingSame
      <4>. QED
        BY <4>1, <4>2
    <3>5. scan.trip # 0 /\ NoLater(r, scan.trip, n, i)
      <4>1. h \in 1 .. scan.index - 1
        BY <1>1, <3>3, StopsAreNumbered
      <4>. QED
        BY <1>1, <1>3, <3>3, <3>4, <4>1 DEF ScanIsFirst
    <3>6. arrival =< Arrives(r, n, i) /\ arrival \in Nat /\ Arrives(r, n, i) \in Nat
      <4>1. i \in i .. Len(Route(r).stops)
        BY <1>1, <3>3, StopsAreNumbered
      <4>2. Arrives(r, n, i) \in Nat
        BY <1>2, OnTime
      <4>. QED
        BY <1>1, <3>3, <3>5, <4>1, <4>2 DEF NoLater
    <3>7. PICK s \in Stop, x \in Nat, y \in Nat : s = c /\ x = arrival /\ y = Arrives(r, n, i) /\ x =< y
      BY <1>1, <3>6
    <3>8. Hit(round, s, y)'
      <4>1. CASE AlightsHere
        <5>1. label'[round][s] =< y
          BY <1>1, <1>4, <3>7, <4>1
        <5>. QED
          BY <1>1, <1>4, <5>1 DEF Hit
      <4>2. CASE ~AlightsHere
        <5>1. Route(scan.route).trips[scan.trip].calls[scan.index].dropOff
          <6>1. scan.index \in DOMAIN Route(scan.route).stops /\ scan.trip \in DOMAIN Route(scan.route).trips
            BY <1>1, <3>5, StopsAreNumbered
          <6>. QED
            BY <1>1, <1>2, <6>1 DEF Regular
        <5>2. ~BeatsTarget(x, bound) \/ ~(x < best[s])
          BY <3>5, <3>7, <4>2, <5>1 DEF AlightsHere
        <5>3. best[s] =< y \/ \E z \in ask.to : bound[z] =< y
          <6>1. best[s] \in Nat /\ \A z \in ask.to : bound[z] \in Nat
            <7>1. ask.to \subseteq Stop
              BY SearchTypes
            <7>. QED
              BY <3>7, <7>1, LabelsAreTimes
          <6>. QED
            BY <3>7, <5>2, <6>1 DEF BeatsTarget
        <5>4. Hit(round, s, y)
          BY <5>3, BestIsHit DEF ReachInv
        <5>5. PICK j \in 0 .. MaxRound(ask) : j = round
          BY <1>4
        <5>6. Hit(j, s, y)'
          BY <1>1, <5>4, <5>5, HitKept
        <5>. QED
          BY <1>1, <5>5, <5>6
      <4>. QED
        BY <4>1, <4>2
    <3>9. s = StopAt(r, i)' /\ y = Arrives(r, n, i)'
      BY <1>1, <3>3, <3>7 DEF StopAt, Route, Arrives, request
    <3>. QED
      BY <1>1, <3>1, <3>8, <3>9 DEF Hit
  <2>. QED
    BY <2>3, <2>4
<1>. QED
  BY <1>7, <1>8

LEMMA RidingHolds ==
  ASSUME \A t \in Timetables : NoneOvertakes(t)
  PROVE  Spec => []RidingInv
<1>1. Init => RidingInv
  BY RidingStart
<1>2. IInv /\ IInv' /\ ReachInv /\ RidingInv /\ [Next]_vars => RidingInv'
  BY RidingWalk, RidingOther, RidingOpen, RidingScan DEF Next
<1>. QED
  BY <1>1, <1>2, SearchInvariant, ReachHolds, PTL DEF Spec

\* When the search is over, walks and rides were followed from every label.
AllWalked ==
  \A k \in Rounds : \A s, z \in Stop :
    label[k][s] # Infinity => Hit(k, z, SatAdd(label[k][s], WalkSeconds(s, z)))
AllRidden ==
  \A k \in Rounds : k + 1 \in Rounds =>
    \A r \in DOMAIN tt.routes : \A n \in DOMAIN Route(r).trips : \A b, i \in 1 .. Len(Route(r).stops) :
      IsAllowed(r) /\ b < i /\ CanBoard(k, r, n, b) => Hit(k + 1, StopAt(r, i), Arrives(r, n, i))

LEMMA AllFollowed ==
  ASSUME IInv, ReachInv, RidingInv, Regular, phase = "done"
  PROVE  AllWalked /\ AllRidden
<1>1. /\ queue = {} /\ (marked = {} \/ round = MaxRound(ask)) /\ WalksDone /\ Improved /\ RidesDone
  BY DEF ReachInv, RidingInv, Ended
<1>2. MaxRound(ask) \in Nat /\ round \in 0 .. MaxRound(ask)
  BY LabelsAreTimes
<1>3. \A k \in Rounds : \A s \in Stop : label[k][s] # Infinity => k \in 0 .. round
  BY <1>2 DEF Rounds, IInv, RoundsAhead
<1>4. AllWalked
  BY <1>1, <1>3 DEF AllWalked, WalksDone
<1>5. AllRidden
  <2>. SUFFICES ASSUME NEW k \in Rounds, k + 1 \in Rounds, NEW r \in DOMAIN tt.routes,
                       NEW n \in DOMAIN Route(r).trips,
                       NEW b \in 1 .. Len(Route(r).stops), NEW i \in 1 .. Len(Route(r).stops),
                       IsAllowed(r), b < i, CanBoard(k, r, n, b)
                PROVE  Hit(k + 1, StopAt(r, i), Arrives(r, n, i))
    BY DEF AllRidden
  <2>1. StopAt(r, b) \in Stop /\ label[k][StopAt(r, b)] # Infinity
    BY StopAtStop, SearchTypes DEF CanBoard
  <2>2. k \in 0 .. round
    BY <1>3, <2>1
  <2>3. k # round
    <3>. SUFFICES ASSUME k = round PROVE FALSE
      OBVIOUS
    <3>1. marked = {}
      BY <1>1, <1>2 DEF Rounds
    <3>. QED
      BY <1>1, <2>1, <3>1 DEF Improved
  <2>4. k \in 0 .. round - 1 /\ IsScanned(k, r, i)
    BY <1>2, <2>2, <2>3 DEF IsScanned
  <2>. QED
    BY <1>1, <2>4 DEF RidesDone
<1>. QED
  BY <1>4, <1>5

-----------------------------------------------------------------------------
(* The places of all journeys, as sequences of steps.                      *)

\* One walk more, and one ride more.
WalkOnce(places) == places \cup {x \in Onward(places) : x.time < Infinity}
Starts == {Place(s, ask.departure, "start") : s \in ask.from}
RideOnce(places) == UNION {RidesFrom(x, r) : x \in places, r \in {q \in DOMAIN tt.routes : IsAllowed(q)}}

LEMMA OnFootIs ==
  ASSUME NEW places
  PROVE  /\ Cardinality(Stop) \in Nat
         /\ \E far : /\ far[0] = places /\ OnFoot(places) = far[Cardinality(Stop)]
                     /\ \A n \in 1 .. Cardinality(Stop) : far[n] = WalkOnce(far[n - 1])
<1>. DEFINE N == Cardinality(Stop)
            Goes(g, m) == \A n \in 0 .. m : g[n] = IF n = 0 THEN places ELSE WalkOnce(g[n - 1])
            Far == {m \in 0 .. N : \E g : Goes(g, m)}
            R == CHOOSE g : g = [n \in 0 .. N |-> IF n = 0 THEN places ELSE WalkOnce(g[n - 1])]
<1>1. OnFoot(places) = R[N]
  BY DEF OnFoot, WalkOnce
<1>2. N \in Nat
  BY StopAssumption, FS_CardinalityType
<1>. HIDE DEF N, R
<1>3. 0 \in Far
  <2>1. Goes([n \in {0} |-> places], 0)
    OBVIOUS
  <2>. HIDE DEF Goes
  <2>2. \E g : Goes(g, 0)
    BY <2>1, Zenon
  <2>. QED
    BY <1>2, <2>2
<1>4. ASSUME NEW m \in Far, m \in 0 .. N - 1 PROVE m + 1 \in Far
  <2>1. PICK g : Goes(g, m)
    OBVIOUS
  <2>. DEFINE h == [n \in 0 .. m + 1 |-> IF n = m + 1 THEN WalkOnce(g[m]) ELSE g[n]]
  <2>2. m \in Nat
    BY <1>2, <1>4
  <2>3. ASSUME NEW n \in 0 .. m + 1
        PROVE  h[n] = IF n = 0 THEN places ELSE WalkOnce(h[n - 1])
    <3>1. CASE n = m + 1
      <4>1. n - 1 = m /\ n # 0 /\ h[m] = g[m] /\ h[n] = WalkOnce(g[m])
        BY <2>2, <3>1
      <4>. QED
        BY <4>1
    <3>2. CASE n # m + 1
      <4>1. n \in 0 .. m /\ (n # 0 => n - 1 \in 0 .. m)
        BY <2>2, <3>2
      <4>2. h[n] = g[n] /\ (n # 0 => h[n - 1] = g[n - 1])
        BY <2>2, <4>1
      <4>. QED
        BY <2>1, <4>1, <4>2
    <3>. QED
      BY <3>1, <3>2
  <2>. HIDE DEF h
  <2>4. Goes(h, m + 1)
    BY <2>3
  <2>. HIDE DEF Goes
  <2>5. \E f : Goes(f, m + 1)
    BY <2>4, Zenon
  <2>6. m + 1 \in 0 .. N
    BY <1>2, <1>4
  <2>. QED
    BY <2>5, <2>6
<1>5. N \in Far
  <2>. HIDE DEF Far
  <2>1. \A n \in 0 .. N : n \in Far
    BY <1>2, <1>3, <1>4, Climbing
  <2>. QED
    BY <1>2, <2>1
<1>6. PICK g : Goes(g, N)
  BY <1>5
<1>. DEFINE f == [n \in 0 .. N |-> g[n]]
<1>7. f = [n \in 0 .. N |-> IF n = 0 THEN places ELSE WalkOnce(f[n - 1])]
  <2>1. ASSUME NEW n \in 0 .. N PROVE f[n] = IF n = 0 THEN places ELSE WalkOnce(f[n - 1])
    <3>1. f[n] = IF n = 0 THEN places ELSE WalkOnce(g[n - 1])
      BY <1>6
    <3>2. n # 0 => f[n - 1] = g[n - 1]
      BY <1>2
    <3>. QED
      BY <3>1, <3>2
  <2>2. f = [n \in 0 .. N |-> f[n]]
    OBVIOUS
  <2>. HIDE DEF f
  <2>. QED
    BY <2>1, <2>2
<1>. HIDE DEF f
<1>8. R = [n \in 0 .. N |-> IF n = 0 THEN places ELSE WalkOnce(R[n - 1])]
  BY <1>7 DEF R
<1>9. \A n \in 0 .. N : R[n] = IF n = 0 THEN places ELSE WalkOnce(R[n - 1])
  BY <1>8
<1>10. R[0] = places /\ \A n \in 1 .. N : R[n] = WalkOnce(R[n - 1])
  BY <1>2, <1>9
<1>11. \E far : /\ far[0] = places /\ OnFoot(places) = far[N]
                /\ \A n \in 1 .. N : far[n] = WalkOnce(far[n - 1])
  BY <1>1, <1>10
<1>. QED
  BY <1>2, <1>11 DEF N

LEMMA PlacesAre ==
  ASSUME MaxRound(ask) \in Nat
  PROVE  /\ PlacesAfter[0] = OnFoot(Starts)
         /\ \A k \in 1 .. MaxRound(ask) : PlacesAfter[k] = OnFoot(RideOnce(PlacesAfter[k - 1]))
<1>. DEFINE N == MaxRound(ask)
            Then(p) == OnFoot(RideOnce(p))
            Goes(g, m) == \A n \in 0 .. m : g[n] = IF n = 0 THEN OnFoot(Starts) ELSE Then(g[n - 1])
            Far == {m \in 0 .. N : \E g : Goes(g, m)}
<1>1. PlacesAfter = CHOOSE g : g = [n \in 0 .. N |-> IF n = 0 THEN OnFoot(Starts) ELSE Then(g[n - 1])]
  BY DEF PlacesAfter, Starts, RideOnce, Rounds
<1>2. N \in Nat
  OBVIOUS
<1>. HIDE DEF N, Then
<1>3. 0 \in Far
  <2>1. Goes([n \in {0} |-> OnFoot(Starts)], 0)
    OBVIOUS
  <2>. HIDE DEF Goes
  <2>2. \E g : Goes(g, 0)
    BY <2>1, Zenon
  <2>. QED
    BY <1>2, <2>2
<1>4. ASSUME NEW m \in Far, m \in 0 .. N - 1 PROVE m + 1 \in Far
  <2>1. PICK g : Goes(g, m)
    OBVIOUS
  <2>. DEFINE h == [n \in 0 .. m + 1 |-> IF n = m + 1 THEN Then(g[m]) ELSE g[n]]
  <2>2. m \in Nat
    BY <1>2, <1>4
  <2>3. ASSUME NEW n \in 0 .. m + 1
        PROVE  h[n] = IF n = 0 THEN OnFoot(Starts) ELSE Then(h[n - 1])
    <3>1. CASE n = m + 1
      <4>1. n - 1 = m /\ n # 0 /\ h[m] = g[m] /\ h[n] = Then(g[m])
        BY <2>2, <3>1
      <4>. QED
        BY <4>1
    <3>2. CASE n # m + 1
      <4>1. n \in 0 .. m /\ (n # 0 => n - 1 \in 0 .. m)
        BY <2>2, <3>2
      <4>2. h[n] = g[n] /\ (n # 0 => h[n - 1] = g[n - 1])
        BY <2>2, <4>1
      <4>. QED
        BY <2>1, <4>1, <4>2
    <3>. QED
      BY <3>1, <3>2
  <2>. HIDE DEF h
  <2>4. Goes(h, m + 1)
    BY <2>3
  <2>. HIDE DEF Goes
  <2>5. \E f : Goes(f, m + 1)
    BY <2>4, Zenon
  <2>6. m + 1 \in 0 .. N
    BY <1>2, <1>4
  <2>. QED
    BY <2>5, <2>6
<1>5. N \in Far
  <2>. HIDE DEF Far
  <2>1. \A n \in 0 .. N : n \in Far
    BY <1>2, <1>3, <1>4, Climbing
  <2>. QED
    BY <1>2, <2>1
<1>6. PICK g : Goes(g, N)
  BY <1>5
<1>. DEFINE f == [n \in 0 .. N |-> g[n]]
<1>7. f = [n \in 0 .. N |-> IF n = 0 THEN OnFoot(Starts) ELSE Then(f[n - 1])]
  <2>1. ASSUME NEW n \in 0 .. N PROVE f[n] = IF n = 0 THEN OnFoot(Starts) ELSE Then(f[n - 1])
    <3>1. f[n] = IF n = 0 THEN OnFoot(Starts) ELSE Then(g[n - 1])
      BY <1>6
    <3>2. n # 0 => f[n - 1] = g[n - 1]
      BY <1>2
    <3>. QED
      BY <3>1, <3>2
  <2>2. f = [n \in 0 .. N |-> f[n]]
    OBVIOUS
  <2>. HIDE DEF f
  <2>. QED
    BY <2>1, <2>2
<1>. HIDE DEF f
<1>8. PlacesAfter = [n \in 0 .. N |-> IF n = 0 THEN OnFoot(Starts) ELSE Then(PlacesAfter[n - 1])]
  BY <1>1, <1>7
<1>9. \A n \in 0 .. N : PlacesAfter[n] = IF n = 0 THEN OnFoot(Starts) ELSE Then(PlacesAfter[n - 1])
  BY <1>8
<1>10. PlacesAfter[0] = OnFoot(Starts) /\ \A n \in 1 .. N : PlacesAfter[n] = Then(PlacesAfter[n - 1])
  BY <1>2, <1>9
<1>. QED
  BY <1>10 DEF N, Then

\* A place that no label comes behind.
Covered(k, x) ==
  /\ x.stop \in Stop /\ x.time \in Nat /\ x.time =< Infinity
  /\ x.means \in {"start", "walk", "ride"}
  /\ x.means = "start" => k = 0 /\ x.time = ask.departure /\ x.stop \in ask.from
  /\ x.time = Infinity \/ Hit(k, x.stop, x.time)

LEMMA WalksAreCovered ==
  ASSUME IInv, AllWalked, NEW k \in Rounds, NEW places, \A x \in places : Covered(k, x),
         NEW y \in WalkOnce(places)
  PROVE  Covered(k, y)
<1>1. CASE y \in places
  BY <1>1
<1>2. CASE y \notin places
  <2>1. y \in Onward(places) /\ y.time < Infinity
    BY <1>2 DEF WalkOnce
  <2>2. PICK x \in places, s \in Stop : y = Place(s, SatAdd(x.time, WalkSeconds(x.stop, s)), "walk")
    BY <2>1 DEF Onward
  <2>3. y.stop = s /\ y.means = "walk" /\ y.time = SatAdd(x.time, WalkSeconds(x.stop, s))
    BY <2>2 DEF Place
  <2>4. Covered(k, x)
    OBVIOUS
  <2>5. x.stop \in Stop /\ x.time \in Time /\ WalkSeconds(x.stop, s) \in Time
    BY <2>4, WalkSecondsTime, SearchTypes, TimeAssumption DEF Covered, Time
  <2>6. y.time \in Time /\ x.time =< y.time /\ y.time \in Nat /\ x.time \in Nat /\ x.time < Infinity
        /\ y.time =< Infinity
    <3>1. y.time \in Time /\ y.time >= x.time
      BY <2>3, <2>5, SatAddTime
    <3>. QED
      BY <2>1, <2>5, <3>1, TimeAssumption DEF Time
  <2>7. PICK j \in 0 .. k : label[j][x.stop] =< x.time \/ \E t \in ask.to : label[j][t] =< x.time
    BY <2>4, <2>6 DEF Covered, Hit
  <2>8. j \in 0 .. MaxRound(ask) /\ k \in 0 .. MaxRound(ask) /\ j \in Rounds
    BY LabelsAreTimes DEF Rounds
  <2>9. CASE label[j][x.stop] =< x.time
    <3>1. label[j][x.stop] \in Time /\ label[j][x.stop] # Infinity
      BY <2>5, <2>6, <2>8, <2>9, LabelsAreTimes DEF Time
    <3>2. Hit(j, s, SatAdd(label[j][x.stop], WalkSeconds(x.stop, s)))
      BY <2>5, <2>8, <3>1 DEF AllWalked
    <3>3. SatAdd(label[j][x.stop], WalkSeconds(x.stop, s)) =< y.time
      BY <2>3, <2>5, <2>9, <3>1, SatAddMonotone
    <3>4. SatAdd(label[j][x.stop], WalkSeconds(x.stop, s)) \in Int /\ y.time \in Int
      <4>1. SatAdd(label[j][x.stop], WalkSeconds(x.stop, s)) \in Time
        BY <2>5, <3>1, SatAddTime
      <4>. QED
        BY <2>6, <4>1 DEF Time
    <3>5. Hit(k, s, y.time)
      BY <2>8, <3>2, <3>3, <3>4, HitLater
    <3>. QED
      BY <2>3, <2>6, <3>5 DEF Covered
  <2>10. CASE \E t \in ask.to : label[j][t] =< x.time
    <3>1. PICK t \in ask.to : label[j][t] =< x.time
      BY <2>10
    <3>2. label[j][t] \in Nat
      BY <2>8, LabelsAreTimes, SearchTypes
    <3>3. label[j][t] =< y.time
      BY <2>6, <3>1, <3>2
    <3>4. Hit(k, s, y.time)
      BY <3>3 DEF Hit
    <3>. QED
      BY <2>3, <2>6, <3>4 DEF Covered
  <2>. QED
    BY <2>7, <2>9, <2>10
<1>. QED
  BY <1>1, <1>2

LEMMA FootIsCovered ==
  ASSUME IInv, AllWalked, NEW k \in Rounds, NEW places, \A x \in places : Covered(k, x)
  PROVE  \A y \in OnFoot(places) : Covered(k, y)
<1>. DEFINE N == Cardinality(Stop)
<1>1. N \in Nat
  BY OnFootIs
<1>2. PICK far : /\ far[0] = places /\ OnFoot(places) = far[N]
                 /\ \A n \in 1 .. N : far[n] = WalkOnce(far[n - 1])
  BY OnFootIs
<1>. DEFINE S == {n \in 0 .. N : \A x \in far[n] : Covered(k, x)}
<1>. HIDE DEF N
<1>3. 0 \in S
  BY <1>1, <1>2
<1>4. ASSUME NEW n \in S, n \in 0 .. N - 1 PROVE n + 1 \in S
  <2>1. far[n + 1] = WalkOnce(far[n]) /\ n + 1 \in 0 .. N
    <3>1. n + 1 \in 1 .. N /\ (n + 1) - 1 = n
      BY <1>1, <1>4
    <3>. QED
      BY <1>2, <3>1
  <2>2. \A x \in far[n] : Covered(k, x)
    OBVIOUS
  <2>3. \A x \in far[n + 1] : Covered(k, x)
    BY <2>1, <2>2, WalksAreCovered
  <2>. QED
    BY <2>1, <2>3
<1>5. N \in S
  <2>. HIDE DEF S
  <2>1. \A n \in 0 .. N : n \in S
    BY <1>1, <1>3, <1>4, Climbing
  <2>. QED
    BY <1>1, <2>1
<1>. QED
  BY <1>2, <1>5

\* In a regular timetable changing takes no time but the traveller's own margin.
LEMMA MarginIs ==
  ASSUME IInv, Regular, NEW x, x.stop \in Stop, x.means \in {"start", "walk", "ride"}
  PROVE  /\ ask.buffer \in Time
         /\ Margin(x) = IF x.means = "start" THEN 0 ELSE ask.buffer
<1>1. ask.buffer \in Time /\ ask.minTransfer = 0 /\ tt.change[x.stop] \in {0, Infinity}
  BY SearchTypes DEF IsAsk, Regular
<1>2. SatAdd(0, ask.buffer) = ask.buffer
  BY <1>1, TimeAssumption DEF SatAdd, Time
<1>. QED
  BY <1>1, <1>2 DEF Margin

LEMMA SlackIs ==
  ASSUME IInv, ReachInv, Regular, NEW k, NEW s \in Stop
  PROVE  /\ Slack(k, s) \in {0, ask.buffer}
         /\ k = 0 /\ s \in ask.from => Slack(k, s) = 0
<1>1. ask.buffer \in Time /\ ask.minTransfer = 0 /\ tt.change[s] \in {0, Infinity}
  BY SearchTypes DEF IsAsk, Regular
<1>2. SatAdd(0, ask.buffer) = ask.buffer
  BY <1>1, TimeAssumption DEF SatAdd, Time
<1>3. k = 0 /\ s \in ask.from => parent[k][s].kind = "none"
  BY DEF ReachInv, Departures, NoParent
<1>. QED
  BY <1>1, <1>2, <1>3 DEF Slack

LEMMA InTime ==
  ASSUME IInv, ReachInv, Regular, NEW k \in Rounds, NEW x, Covered(k, x), x.time # Infinity
  PROVE  \/ \E h \in 0 .. k : \E t \in ask.to : label[h][t] =< x.time
         \/ \E h \in 0 .. k : label[h][x.stop] =< x.time /\ Ready(h, x.stop) =< SatAdd(x.time, Margin(x))
<1>1. /\ x.stop \in Stop /\ x.time \in Time /\ x.time \in Nat
      /\ x.means \in {"start", "walk", "ride"}
  BY TimeAssumption DEF Covered, Time
<1>2. PICK h \in 0 .. k : label[h][x.stop] =< x.time \/ \E t \in ask.to : label[h][t] =< x.time
  BY DEF Covered, Hit
<1>3. \A j \in 0 .. k : j \in 0 .. MaxRound(ask)
  BY LabelsAreTimes DEF Rounds
<1>4. ask.buffer \in Time /\ 0 \in Time
  BY <1>1, MarginIs, TimeAssumption DEF Time
<1>5. \A j \in 0 .. k : label[j][x.stop] \in Time
  BY <1>1, <1>3, SearchTypes
<1>6. CASE x.means = "start"
  <2>1. k = 0 /\ x.time = ask.departure /\ x.stop \in ask.from
    BY <1>6 DEF Covered
  <2>2. label[0][x.stop] = x.time /\ Slack(0, x.stop) = 0 /\ Margin(x) = 0
    BY <1>1, <1>6, <2>1, SlackIs, MarginIs DEF ReachInv, Departures
  <2>3. SatAdd(x.time, 0) =< SatAdd(x.time, 0) /\ x.time =< x.time /\ 0 \in 0 .. k
    <3>1. SatAdd(x.time, 0) \in Nat
      <4>1. SatAdd(x.time, 0) \in Time
        BY <1>1, <1>4, SatAddTime
      <4>. QED
        BY <4>1, TimeAssumption DEF Time
    <3>. QED
      BY <1>1, <2>1, <3>1
  <2>. QED
    BY <2>2, <2>3 DEF Ready
<1>7. CASE x.means # "start" /\ label[h][x.stop] =< x.time
  <2>1. Margin(x) = ask.buffer /\ Slack(h, x.stop) \in {0, ask.buffer}
    BY <1>1, <1>7, SlackIs, MarginIs
  <2>2. SatAdd(label[h][x.stop], 0) =< SatAdd(label[h][x.stop], ask.buffer)
    BY <1>4, <1>5, TimeAssumption DEF SatAdd, Time
  <2>3. SatAdd(label[h][x.stop], ask.buffer) =< SatAdd(x.time, ask.buffer)
    BY <1>1, <1>4, <1>5, <1>7, SatAddMonotone
  <2>4. /\ SatAdd(label[h][x.stop], 0) \in Nat /\ SatAdd(label[h][x.stop], ask.buffer) \in Nat
        /\ SatAdd(x.time, ask.buffer) \in Nat
    <3>1. /\ SatAdd(label[h][x.stop], 0) \in Time /\ SatAdd(label[h][x.stop], ask.buffer) \in Time
          /\ SatAdd(x.time, ask.buffer) \in Time
      BY <1>1, <1>4, <1>5, SatAddTime
    <3>. QED
      BY <3>1, TimeAssumption DEF Time
  <2>5. Ready(h, x.stop) =< SatAdd(x.time, Margin(x))
    BY <2>1, <2>2, <2>3, <2>4 DEF Ready
  <2>. QED
    BY <1>7, <2>5
<1>. QED
  BY <1>2, <1>6, <1>7

LEMMA RidesAreCovered ==
  ASSUME IInv, ReachInv, Regular, AllRidden, NEW k \in Rounds, k + 1 \in Rounds,
         NEW places, \A x \in places : Covered(k, x), NEW y \in RideOnce(places)
  PROVE  Covered(k + 1, y)
<1>1. PICK x \in places, r \in DOMAIN tt.routes : IsAllowed(r) /\ y \in RidesFrom(x, r)
  BY DEF RideOnce
<1>2. PICK ride \in RidesOf(r) :
        /\ StopAt(r, ride[2]) = x.stop /\ Leaves(r, ride[1], ride[2]) >= SatAdd(x.time, Margin(x))
        /\ y = Place(StopAt(r, ride[3]), Arrives(r, ride[1], ride[3]), "ride")
  BY <1>1 DEF RidesFrom
<1>3. PICK n, b, i : n = ride[1] /\ b = ride[2] /\ i = ride[3]
  OBVIOUS
<1>4. /\ n \in DOMAIN Route(r).trips /\ (ask.unverified \/ Route(r).trips[n].verified)
      /\ b \in 1 .. Len(Route(r).stops) /\ i \in 1 .. Len(Route(r).stops) /\ b < i
      /\ Route(r).trips[n].calls[b].pickup
  BY <1>2, <1>3 DEF RidesOf, Verified
<1>5. /\ StopAt(r, b) = x.stop /\ Leaves(r, n, b) >= SatAdd(x.time, Margin(x))
      /\ y.stop = StopAt(r, i) /\ y.time = Arrives(r, n, i) /\ y.means = "ride"
  BY <1>2, <1>3 DEF Place
<1>6. Covered(k, x)
  OBVIOUS
<1>7. /\ x.stop \in Stop /\ x.time \in Time /\ x.time \in Nat /\ y.stop \in Stop
      /\ x.means \in {"start", "walk", "ride"}
  BY <1>1, <1>4, <1>5, <1>6, StopAtStop, SearchTypes, TimeAssumption DEF Covered, Time
<1>8. SatAdd(x.time, Margin(x)) >= x.time /\ SatAdd(x.time, Margin(x)) \in Nat
  <2>1. Margin(x) \in Time
    BY <1>7, MarginIs, TimeAssumption DEF Time
  <2>2. SatAdd(x.time, Margin(x)) \in Time /\ SatAdd(x.time, Margin(x)) >= x.time
    BY <1>7, <2>1, SatAddTime
  <2>. QED
    BY <2>2, TimeAssumption DEF Time
<1>9. /\ Leaves(r, n, b) \in Nat /\ Arrives(r, n, i) \in Nat /\ Arrives(r, n, i) =< Infinity
      /\ Leaves(r, n, b) =< Arrives(r, n, i)
  <2>1. /\ Leaves(r, n, b) = Route(r).trips[n].calls[b].departure
        /\ Arrives(r, n, i) = Route(r).trips[n].calls[i].arrival
        /\ Leaves(r, n, b) \in Nat /\ Arrives(r, n, i) \in Nat /\ Arrives(r, n, i) =< Infinity
    BY <1>4, OnTime
  <2>2. Route(r).trips[n].calls[b].departure =< Route(r).trips[n].calls[i].arrival
    <3>1. b \in DOMAIN Route(r).stops /\ i \in DOMAIN Route(r).stops
      BY <1>4, StopsAreNumbered
    <3>2. RunsOn(Route(r))
      BY DEF Regular
    <3>. QED
      BY <1>4, <3>1, <3>2 DEF RunsOn
  <2>. QED
    BY <2>1, <2>2
<1>10. x.time =< y.time /\ y.time \in Nat /\ y.time =< Infinity
  BY <1>5, <1>7, <1>8, <1>9
<1>11. /\ k + 1 \in 0 .. MaxRound(ask) /\ k \in Nat
       /\ \A h \in 0 .. k : /\ h \in Rounds /\ h + 1 \in Rounds /\ h \in 0 .. MaxRound(ask)
                            /\ h \in 0 .. k + 1 /\ h + 1 \in 0 .. k + 1
  BY LabelsAreTimes DEF Rounds
<1>12. CASE x.time = Infinity
  <2>1. y.time = Infinity
    BY <1>7, <1>10, <1>12
  <2>. QED
    BY <1>5, <1>7, <1>10, <2>1 DEF Covered
<1>13. CASE x.time # Infinity /\ \E h \in 0 .. k : \E t \in ask.to : label[h][t] =< x.time
  <2>1. PICK h \in 0 .. k, t \in ask.to : label[h][t] =< x.time
    BY <1>13
  <2>2. label[h][t] \in Nat
    BY <1>11, LabelsAreTimes, SearchTypes
  <2>3. label[h][t] =< y.time
    BY <1>7, <1>10, <2>1, <2>2
  <2>4. Hit(k + 1, y.stop, y.time)
    BY <1>11, <2>3 DEF Hit
  <2>. QED
    BY <1>5, <1>7, <1>10, <2>4 DEF Covered
<1>14. CASE x.time # Infinity /\ \E h \in 0 .. k : /\ label[h][x.stop] =< x.time
                                                   /\ Ready(h, x.stop) =< SatAdd(x.time, Margin(x))
  <2>1. PICK h \in 0 .. k : label[h][x.stop] =< x.time /\ Ready(h, x.stop) =< SatAdd(x.time, Margin(x))
    BY <1>14
  <2>2. label[h][x.stop] # Infinity
    BY <1>6, <1>7, <1>14, <2>1, TimeAssumption DEF Covered
  <2>3. Ready(h, x.stop) \in Int
    <3>1. label[h][x.stop] \in Time
      BY <1>7, <1>11, SearchTypes
    <3>2. Slack(h, x.stop) \in Time
      <4>1. Slack(h, x.stop) \in {0, ask.buffer} /\ ask.buffer \in Time
        BY <1>7, SlackIs, MarginIs
      <4>. QED
        BY <4>1, TimeAssumption DEF Time
    <3>3. Ready(h, x.stop) \in Time
      BY <3>1, <3>2, SatAddTime DEF Ready
    <3>. QED
      BY <3>3 DEF Time
  <2>4. Leaves(r, n, b) >= Ready(h, StopAt(r, b))
    BY <1>5, <1>8, <1>9, <2>1, <2>3
  <2>5. CanBoard(h, r, n, b)
    BY <1>4, <1>5, <2>2, <2>4 DEF CanBoard
  <2>6. Hit(h + 1, StopAt(r, i), Arrives(r, n, i))
    BY <1>1, <1>4, <1>11, <2>5 DEF AllRidden
  <2>7. Hit(k + 1, y.stop, y.time)
    <3>1. h + 1 \in 0 .. k + 1 /\ y.time =< y.time /\ y.time \in Int
      BY <1>10, <1>11
    <3>. QED
      BY <1>5, <1>7, <1>11, <2>6, <3>1, HitLater
  <2>. QED
    BY <1>5, <1>7, <1>10, <2>7 DEF Covered
<1>. QED
  BY <1>6, <1>12, <1>13, <1>14, InTime

\* No journey at all is before the labels.
LEMMA PlacesAreCovered ==
  ASSUME IInv, ReachInv, Regular, AllWalked, AllRidden
  PROVE  \A k \in Rounds : \A x \in PlacesAfter[k] : Covered(k, x)
<1>. DEFINE N == MaxRound(ask)
            S == {k \in 0 .. N : \A x \in PlacesAfter[k] : Covered(k, x)}
<1>1. N \in Nat
  BY LabelsAreTimes
<1>2. /\ PlacesAfter[0] = OnFoot(Starts)
      /\ \A k \in 1 .. N : PlacesAfter[k] = OnFoot(RideOnce(PlacesAfter[k - 1]))
  BY <1>1, PlacesAre
<1>3. 0 \in S
  <2>1. ASSUME NEW x \in Starts PROVE Covered(0, x)
    <3>1. PICK s \in ask.from : x = Place(s, ask.departure, "start")
      BY DEF Starts
    <3>2. x.stop = s /\ x.time = ask.departure /\ x.means = "start" /\ s \in Stop
      BY <3>1, SearchTypes DEF Place
    <3>3. x.time \in Nat /\ x.time =< Infinity
      BY <3>2, SearchTypes, TimeAssumption DEF Time
    <3>4. label[0][s] =< x.time
      BY <3>2, <3>3 DEF ReachInv, Departures
    <3>5. Hit(0, s, x.time)
      BY <3>4 DEF Hit
    <3>. QED
      BY <3>2, <3>3, <3>5 DEF Covered
  <2>2. 0 \in Rounds
    BY <1>1 DEF Rounds
  <2>. QED
    BY <1>1, <1>2, <2>1, <2>2, FootIsCovered
<1>4. ASSUME NEW k \in S, k \in 0 .. N - 1 PROVE k + 1 \in S
  <2>1. k \in Rounds /\ k + 1 \in Rounds /\ k + 1 \in 0 .. N
    BY <1>1, <1>4 DEF Rounds
  <2>2. PlacesAfter[k + 1] = OnFoot(RideOnce(PlacesAfter[k]))
    <3>1. k + 1 \in 1 .. N /\ (k + 1) - 1 = k
      BY <1>1, <1>4
    <3>. QED
      BY <1>2, <3>1
  <2>3. \A y \in RideOnce(PlacesAfter[k]) : Covered(k + 1, y)
    BY <2>1, RidesAreCovered
  <2>4. \A y \in PlacesAfter[k + 1] : Covered(k + 1, y)
    BY <2>1, <2>2, <2>3, FootIsCovered
  <2>. QED
    BY <2>1, <2>4
<1>. HIDE DEF N
<1>5. \A k \in 0 .. N : k \in S
  <2>. HIDE DEF S
  <2>. QED
    BY <1>1, <1>3, <1>4, Climbing
<1>. QED
  BY <1>5 DEF Rounds, N

\* A place as early as the label of a stop, reached by the same means.
MeansOf(k, s) ==
  CASE parent[k][s].kind = "walk" -> "walk"
    [] parent[k][s].kind = "ride" -> "ride"
    [] OTHER -> "start"

Matched(k, s, places) ==
  \E x \in places : x.stop = s /\ x.means = MeansOf(k, s) /\ x.time \in Nat /\ x.time =< label[k][s]

\* The margin of a journey is the one the search counts with.
LEMMA MatchedIsReady ==
  ASSUME IInv, NEW k \in Rounds, NEW s \in Stop, label[k][s] # Infinity,
         NEW x, x.stop = s, x.means = MeansOf(k, s), x.time \in Nat, x.time =< label[k][s]
  PROVE  /\ SatAdd(x.time, Margin(x)) =< Ready(k, s)
         /\ SatAdd(x.time, Margin(x)) \in Nat /\ Ready(k, s) \in Nat
<1>1. /\ ask.buffer \in Time /\ ask.minTransfer \in Time /\ tt.change[s] \in Time /\ 0 \in Time
  <2>1. tt.change \in [Stop -> Time]
    BY SearchTypes DEF IsTimetable
  <2>. QED
    BY <2>1, SearchTypes, TimeAssumption DEF IsAsk, Time
<1>2. IsReached(k, s)
  BY DEF IInv, LegsAreCaught, Rounds
<1>3. Margin(x) = Slack(k, s) /\ Slack(k, s) \in Time
  <2>1. /\ SatAdd(tt.change[s], ask.buffer) \in Time /\ SatAdd(ask.minTransfer, ask.buffer) \in Time
    BY <1>1, SatAddTime
  <2>2. CASE parent[k][s] = NoParent /\ k = 0
    <3>1. MeansOf(k, s) = "start"
      BY <2>2 DEF MeansOf, NoParent
    <3>. QED
      BY <1>1, <2>2, <3>1 DEF Margin, Slack, NoParent
  <2>3. CASE parent[k][s].kind = "walk"
    <3>1. MeansOf(k, s) = "walk"
      BY <2>3 DEF MeansOf
    <3>. QED
      BY <1>1, <2>3, <3>1 DEF Margin, Slack
  <2>4. CASE parent[k][s].kind = "ride"
    <3>1. MeansOf(k, s) = "ride"
      BY <2>4 DEF MeansOf
    <3>. QED
      BY <1>1, <2>1, <2>4, <3>1 DEF Margin, Slack
  <2>. QED
    BY <1>2, <2>2, <2>3, <2>4 DEF IsReached
<1>4. label[k][s] \in Time /\ x.time \in Time
  <2>1. label[k][s] \in Time
    BY SearchTypes DEF Rounds
  <2>. QED
    BY <2>1, TimeAssumption DEF Time
<1>5. SatAdd(x.time, Slack(k, s)) =< SatAdd(label[k][s], Slack(k, s))
  BY <1>3, <1>4, SatAddMonotone
<1>6. SatAdd(x.time, Slack(k, s)) \in Time /\ SatAdd(label[k][s], Slack(k, s)) \in Time
  BY <1>3, <1>4, SatAddTime
<1>. QED
  BY <1>3, <1>5, <1>6, TimeAssumption DEF Ready, Time

\* One walk leads on from a stop that is matched.
LEMMA MatchedOnFoot ==
  ASSUME IInv, NEW k \in Rounds, NEW s \in Stop, label[k][s] # Infinity, parent[k][s].kind = "walk",
         NEW places, Matched(k, parent[k][s].from, places)
  PROVE  Matched(k, s, WalkOnce(places))
<1>. DEFINE p == parent[k][s].from
<1>1. /\ p \in Stop /\ SatAdd(label[k][p], WalkSeconds(p, s)) =< label[k][s]
  <2>1. IsReached(k, s)
    BY DEF IInv, LegsAreCaught, Rounds
  <2>. QED
    BY <2>1 DEF IsReached, NoParent
<1>2. PICK x \in places : x.stop = p /\ x.time \in Nat /\ x.time =< label[k][p]
  BY DEF Matched
<1>3. /\ label[k][p] \in Time /\ label[k][s] \in Time /\ x.time \in Time /\ WalkSeconds(p, s) \in Time
  <2>1. label[k][p] \in Time /\ label[k][s] \in Time /\ WalkSeconds(p, s) \in Time
    BY <1>1, SearchTypes, WalkSecondsTime DEF Rounds
  <2>. QED
    BY <1>2, <2>1, TimeAssumption DEF Time
<1>. DEFINE w == SatAdd(x.time, WalkSeconds(p, s))
            y == Place(s, w, "walk")
<1>4. w =< SatAdd(label[k][p], WalkSeconds(p, s))
  BY <1>2, <1>3, SatAddMonotone
<1>5. w \in Time /\ SatAdd(label[k][p], WalkSeconds(p, s)) \in Time
  BY <1>3, SatAddTime
<1>6. y \in Onward(places)
  BY <1>2 DEF Onward
<1>7. y.stop = s /\ y.time = w /\ y.means = "walk" /\ MeansOf(k, s) = "walk"
  BY DEF Place, MeansOf
<1>. HIDE DEF p, w, y
<1>8. w \in Nat /\ w =< label[k][s] /\ w < Infinity
  BY <1>1, <1>3, <1>4, <1>5, TimeAssumption DEF Time
<1>9. y \in WalkOnce(places)
  BY <1>6, <1>7, <1>8 DEF WalkOnce
<1>. QED
  BY <1>7, <1>8, <1>9 DEF Matched

\* Following walks as often as there are stops reaches every stop that is reached on foot.
LEMMA FootIsMatched ==
  ASSUME IInv, WalksLeadBack, NEW k \in Rounds, NEW places,
         \A s \in Stop : label[k][s] # Infinity /\ parent[k][s].kind # "walk" => Matched(k, s, places)
  PROVE  \A s \in Stop : label[k][s] # Infinity => Matched(k, s, OnFoot(places))
<1>. DEFINE N == Cardinality(Stop)
            L == {s \in Stop : label[k][s] # Infinity}
            A(X) == {s \in L : Matched(k, s, X)}
<1>1. N \in Nat
  BY OnFootIs
<1>2. PICK far : /\ far[0] = places /\ OnFoot(places) = far[N]
                 /\ \A n \in 1 .. N : far[n] = WalkOnce(far[n - 1])
  BY OnFootIs
<1>. DEFINE Grown(n) == /\ \A s \in L : parent[k][s].kind # "walk" => s \in A(far[n])
                        /\ A(far[n]) = L \/ Cardinality(A(far[n])) >= n
            S == {n \in 0 .. N : Grown(n)}
<1>3. \A X : A(X) \subseteq L /\ L \subseteq Stop
  OBVIOUS
<1>4. \A X : IsFiniteSet(A(X)) /\ Cardinality(A(X)) \in Nat
  BY <1>3, StopAssumption, FS_Subset, FS_CardinalityType
<1>5. \A X : A(X) \subseteq A(WalkOnce(X))
  BY DEF Matched, WalkOnce
<1>. HIDE DEF N
<1>6. 0 \in S
  <2>1. \A s \in L : parent[k][s].kind # "walk" => s \in A(far[0])
    BY <1>2
  <2>2. Cardinality(A(far[0])) >= 0
    BY <1>4
  <2>. QED
    BY <1>1, <2>1, <2>2
<1>7. ASSUME NEW n \in S, n \in 0 .. N - 1 PROVE n + 1 \in S
  <2>1. far[n + 1] = WalkOnce(far[n]) /\ n + 1 \in 0 .. N /\ n \in Nat
    <3>1. n + 1 \in 1 .. N /\ (n + 1) - 1 = n
      BY <1>1, <1>7
    <3>. QED
      BY <1>2, <3>1
  <2>2. Grown(n)
    OBVIOUS
  <2>3. A(far[n]) \subseteq A(far[n + 1])
    BY <1>5, <2>1
  <2>4. \A s \in L : parent[k][s].kind # "walk" => s \in A(far[n + 1])
    BY <2>2, <2>3
  <2>5. A(far[n + 1]) = L \/ Cardinality(A(far[n + 1])) >= n + 1
    <3>1. CASE A(far[n]) = L
      BY <1>3, <2>3, <3>1
    <3>2. CASE A(far[n]) # L
      <4>. DEFINE C == L \ A(far[n])
      <4>1. C # {} /\ C \subseteq Stop /\ \A s \in C : label[k][s] # Infinity
        BY <1>3, <3>2
      <4>2. PICK s \in C : ~(parent[k][s].kind = "walk" /\ parent[k][s].from \in C)
        BY <4>1 DEF WalksLeadBack, Rounds
      <4>3. parent[k][s].kind = "walk" /\ s \in L /\ s \notin A(far[n])
        BY <2>2, <4>2
      <4>4. parent[k][s].from \in L
        <5>1. IsReached(k, s)
          BY <4>3 DEF IInv, LegsAreCaught, Rounds
        <5>2. /\ parent[k][s].from \in Stop
              /\ SatAdd(label[k][parent[k][s].from], WalkSeconds(parent[k][s].from, s)) =< label[k][s]
          BY <4>3, <5>1 DEF IsReached, NoParent
        <5>3. label[k][parent[k][s].from] # Infinity
          <6>1. /\ label[k][parent[k][s].from] \in Time /\ label[k][s] \in Time
                /\ WalkSeconds(parent[k][s].from, s) \in Time
            BY <4>3, <5>2, SearchTypes, WalkSecondsTime DEF Rounds
          <6>2. /\ SatAdd(label[k][parent[k][s].from], WalkSeconds(parent[k][s].from, s)) \in Time
                /\ SatAdd(label[k][parent[k][s].from], WalkSeconds(parent[k][s].from, s))
                     >= label[k][parent[k][s].from]
            BY <6>1, SatAddTime
          <6>. QED
            BY <4>3, <5>2, <6>1, <6>2, TimeAssumption DEF Time
        <5>. QED
          BY <5>2, <5>3
      <4>5. Matched(k, parent[k][s].from, far[n])
        BY <4>2, <4>3, <4>4
      <4>6. s \in A(far[n + 1])
        BY <2>1, <4>3, <4>5, MatchedOnFoot
      <4>. HIDE DEF A
      <4>7. /\ IsFiniteSet(A(far[n]) \cup {s})
            /\ Cardinality(A(far[n]) \cup {s}) = Cardinality(A(far[n])) + 1
        BY <1>4, <4>3, FS_AddElement
      <4>8. Cardinality(A(far[n]) \cup {s}) =< Cardinality(A(far[n + 1]))
        BY <1>4, <2>3, <4>6, FS_Subset
      <4>9. Cardinality(A(far[n])) >= n
        BY <2>2, <3>2
      <4>. QED
        BY <1>4, <2>1, <4>7, <4>8, <4>9
    <3>. QED
      BY <3>1, <3>2
  <2>. QED
    BY <2>1, <2>4, <2>5
<1>8. Grown(N)
  <2>1. \A n \in 0 .. N : n \in S
    <3>. HIDE DEF S
    <3>. QED
      BY <1>1, <1>6, <1>7, Climbing
  <2>. QED
    BY <1>1, <2>1
<1>9. A(far[N]) = L
  <2>1. SUFFICES ASSUME Cardinality(A(far[N])) >= Cardinality(Stop) PROVE A(far[N]) = L
    BY <1>8 DEF N
  <2>2. A(far[N]) \subseteq Stop
    BY <1>3
  <2>. HIDE DEF A
  <2>3. Cardinality(A(far[N])) =< Cardinality(Stop) /\ Cardinality(Stop) \in Nat
        /\ (Cardinality(Stop) = Cardinality(A(far[N])) => Stop = A(far[N]))
    BY <2>2, StopAssumption, FS_Subset, FS_CardinalityType
  <2>4. A(far[N]) = Stop
    BY <1>4, <2>1, <2>3
  <2>. QED
    BY <1>3, <2>4
<1>. QED
  BY <1>2, <1>9

\* Every label is the time of a journey.
LEMMA LabelsAreMatched ==
  ASSUME IInv, WalksLeadBack
  PROVE  \A k \in Rounds : \A s \in Stop : label[k][s] # Infinity => Matched(k, s, PlacesAfter[k])
<1>. DEFINE N == MaxRound(ask)
            S == {k \in 0 .. N : \A s \in Stop : label[k][s] # Infinity => Matched(k, s, PlacesAfter[k])}
<1>1. N \in Nat
  BY LabelsAreTimes
<1>2. /\ PlacesAfter[0] = OnFoot(Starts)
      /\ \A k \in 1 .. N : PlacesAfter[k] = OnFoot(RideOnce(PlacesAfter[k - 1]))
  BY <1>1, PlacesAre
<1>3. 0 \in S
  <2>1. 0 \in Rounds /\ 0 \in 0 .. N
    BY <1>1 DEF Rounds
  <2>2. ASSUME NEW s \in Stop, label[0][s] # Infinity, parent[0][s].kind # "walk"
        PROVE  Matched(0, s, Starts)
    <3>1. IsReached(0, s)
      BY <2>1, <2>2 DEF IInv, LegsAreCaught, Rounds
    <3>2. parent[0][s] = NoParent /\ s \in ask.from /\ label[0][s] = ask.departure
      BY <2>2, <3>1 DEF IsReached
    <3>3. Place(s, ask.departure, "start") \in Starts
      BY <3>2 DEF Starts
    <3>4. MeansOf(0, s) = "start"
      BY <3>2 DEF MeansOf, NoParent
    <3>5. ask.departure \in Nat
      BY SearchTypes, TimeAssumption DEF Time
    <3>. QED
      BY <3>2, <3>3, <3>4, <3>5 DEF Matched, Place
  <2>. QED
    BY <1>2, <2>1, <2>2, FootIsMatched
<1>4. ASSUME NEW k \in S, k \in 0 .. N - 1 PROVE k + 1 \in S
  <2>1. k \in Rounds /\ k + 1 \in Rounds /\ k + 1 \in 0 .. N /\ (k + 1) - 1 = k /\ k + 1 # 0
    BY <1>1, <1>4 DEF Rounds
  <2>2. PlacesAfter[k + 1] = OnFoot(RideOnce(PlacesAfter[k]))
    <3>1. k + 1 \in 1 .. N
      BY <1>1, <1>4
    <3>. QED
      BY <1>2, <2>1, <3>1
  <2>3. ASSUME NEW s \in Stop, label[k + 1][s] # Infinity, parent[k + 1][s].kind # "walk"
        PROVE  Matched(k + 1, s, RideOnce(PlacesAfter[k]))
    <3>. DEFINE p == parent[k + 1][s]
    <3>1. IsReached(k + 1, s)
      BY <2>1, <2>3 DEF IInv, LegsAreCaught, Rounds
    <3>2. /\ p.kind = "ride" /\ p.route \in DOMAIN tt.routes /\ IsAllowed(p.route)
          /\ p.trip \in DOMAIN Route(p.route).trips
          /\ p.board \in 1 .. Len(Route(p.route).stops) /\ p.alight \in 1 .. Len(Route(p.route).stops)
          /\ p.board < p.alight /\ StopAt(p.route, p.alight) = s
          /\ CanBoard(k, p.route, p.trip, p.board)
          /\ Route(p.route).trips[p.trip].calls[p.alight].dropOff
          /\ label[k + 1][s] = Arrives(p.route, p.trip, p.alight)
      BY <2>1, <2>3, <3>1 DEF IsReached
    <3>3. PICK r, n, b, i : r = p.route /\ n = p.trip /\ b = p.board /\ i = p.alight
      OBVIOUS
    <3>4. /\ r \in DOMAIN tt.routes /\ IsAllowed(r) /\ n \in DOMAIN Route(r).trips
          /\ b \in 1 .. Len(Route(r).stops) /\ i \in 1 .. Len(Route(r).stops)
          /\ b < i /\ StopAt(r, i) = s /\ CanBoard(k, r, n, b)
          /\ Route(r).trips[n].calls[i].dropOff /\ label[k + 1][s] = Arrives(r, n, i)
      BY <3>2, <3>3
    <3>5. MeansOf(k + 1, s) = "ride"
      BY <3>2 DEF MeansOf
    <3>. HIDE DEF p
    <3>6. PICK z \in Stop : z = StopAt(r, b)
      BY <3>4, StopAtStop, SearchTypes
    <3>7. label[k][z] # Infinity /\ Leaves(r, n, b) >= Ready(k, z)
      BY <3>4, <3>6 DEF CanBoard
    <3>8. PICK x \in PlacesAfter[k] : x.stop = z /\ x.means = MeansOf(k, z) /\ x.time \in Nat /\ x.time =< label[k][z]
      BY <3>7 DEF Matched
    <3>9. SatAdd(x.time, Margin(x)) =< Ready(k, z) /\ SatAdd(x.time, Margin(x)) \in Nat /\ Ready(k, z) \in Nat
      BY <2>1, <3>7, <3>8, MatchedIsReady
    <3>10. Leaves(r, n, b) \in Int
      BY <3>4, LeavesTime, SearchTypes DEF Time
    <3>11. Leaves(r, n, b) >= SatAdd(x.time, Margin(x))
      BY <3>7, <3>9, <3>10
    <3>12. <<n, b, i>> \in RidesOf(r)
      <4>1. n \in Verified(Route(r), ask.unverified) /\ Route(r).trips[n].calls[b].pickup
        BY <3>4 DEF CanBoard, Verified
      <4>. QED
        BY <3>4, <4>1 DEF RidesOf
    <3>13. Place(s, label[k + 1][s], "ride") \in RidesFrom(x, r)
      BY <3>4, <3>6, <3>8, <3>11, <3>12 DEF RidesFrom
    <3>14. Place(s, label[k + 1][s], "ride") \in RideOnce(PlacesAfter[k])
      BY <3>4, <3>13 DEF RideOnce
    <3>15. label[k + 1][s] \in Nat /\ label[k + 1][s] =< label[k + 1][s]
      BY <2>1, LabelsAreTimes DEF Rounds
    <3>. QED
      BY <3>5, <3>14, <3>15 DEF Matched, Place
  <2>. QED
    BY <2>1, <2>2, <2>3, FootIsMatched
<1>. HIDE DEF N
<1>5. \A k \in 0 .. N : k \in S
  <2>. HIDE DEF S
  <2>. QED
    BY <1>1, <1>3, <1>4, Climbing
<1>. QED
  BY <1>5 DEF Rounds, N

\* Sets that come before each other have the same first element.
LEMMA SameSmallest ==
  ASSUME NEW S, NEW T, S \subseteq Nat, T \subseteq Nat,
         \A x \in S : x < Infinity => \E y \in T : y =< x,
         \A y \in T : y < Infinity => \E x \in S : x =< y
  PROVE  Smallest(S) = Smallest(T)
<1>1. ASSUME NEW X, X \subseteq Nat
      PROVE  /\ Smallest(X) \in {Infinity} \cup X
             /\ \A y \in {Infinity} \cup X : Smallest(X) =< y
  <2>1. \E x \in {Infinity} \cup X : \A y \in {Infinity} \cup X : x =< y
    BY <1>1, TimeAssumption, LeastNumber
  <2>. QED
    BY <2>1 DEF Smallest, Min
<1>2. /\ Smallest(S) \in Nat /\ Smallest(T) \in Nat /\ Infinity \in Nat
      /\ Smallest(S) =< Infinity /\ Smallest(T) =< Infinity
      /\ Smallest(S) \in {Infinity} \cup S /\ Smallest(T) \in {Infinity} \cup T
      /\ (\A y \in S : Smallest(S) =< y) /\ (\A y \in T : Smallest(T) =< y)
  BY <1>1, TimeAssumption
<1>3. Smallest(T) =< Smallest(S)
  <2>1. SUFFICES ASSUME Smallest(S) < Infinity PROVE Smallest(T) =< Smallest(S)
    BY <1>2
  <2>2. Smallest(S) \in S
    BY <1>2, <2>1
  <2>3. PICK y \in T : y =< Smallest(S)
    BY <2>1, <2>2
  <2>4. Smallest(T) =< y /\ y \in Nat
    BY <1>2
  <2>. QED
    BY <1>2, <2>3, <2>4
<1>4. Smallest(S) =< Smallest(T)
  <2>1. SUFFICES ASSUME Smallest(T) < Infinity PROVE Smallest(S) =< Smallest(T)
    BY <1>2
  <2>2. Smallest(T) \in T
    BY <1>2, <2>1
  <2>3. PICK y \in S : y =< Smallest(T)
    BY <2>1, <2>2
  <2>4. Smallest(S) =< y /\ y \in Nat
    BY <1>2
  <2>. QED
    BY <1>2, <2>3, <2>4
<1>. QED
  BY <1>2, <1>3, <1>4

LEMMA NothingIsMissed ==
  ASSUME IInv, ReachInv, RidingInv, WalksLeadBack
  PROVE  EarliestArrival
<1>. SUFFICES ASSUME Regular, phase = "done", NEW k \in Rounds
              PROVE  Smallest({label[x[1]][x[2]] : x \in (0 .. k) \X ask.to})
                       = Smallest({x.time : x \in {y \in UNION {PlacesAfter[j] : j \in 0 .. k} : y.stop \in ask.to}})
  BY DEF EarliestArrival, FindsEarliest
<1>. DEFINE L == {label[x[1]][x[2]] : x \in (0 .. k) \X ask.to}
            P == {x.time : x \in {y \in UNION {PlacesAfter[j] : j \in 0 .. k} : y.stop \in ask.to}}
<1>1. /\ ask.to \subseteq Stop
      /\ \A j \in 0 .. k : /\ j \in Rounds
                           /\ \A s \in Stop : label[j][s] \in Nat /\ label[j][s] =< Infinity
      /\ \A j \in 0 .. k : \A h \in 0 .. j : h \in 0 .. k
  BY LabelsAreTimes, SearchTypes DEF Rounds
<1>2. AllWalked /\ AllRidden
  BY AllFollowed
<1>3. \A j \in 0 .. k : \A x \in PlacesAfter[j] : Covered(j, x)
  BY <1>1, <1>2, PlacesAreCovered
<1>4. \A j \in 0 .. k : \A s \in Stop : label[j][s] # Infinity => Matched(j, s, PlacesAfter[j])
  BY <1>1, LabelsAreMatched
<1>5. L \subseteq Nat
  BY <1>1
<1>6. P \subseteq Nat
  BY <1>3 DEF Covered
<1>7. ASSUME NEW x \in L, x < Infinity PROVE \E y \in P : y =< x
  <2>1. PICK j \in 0 .. k, t \in ask.to : x = label[j][t]
    OBVIOUS
  <2>2. Matched(j, t, PlacesAfter[j])
    <3>1. label[j][t] # Infinity
      BY <1>1, <1>7, <2>1
    <3>. QED
      BY <1>1, <1>4, <3>1
  <2>3. PICK y \in PlacesAfter[j] : y.stop = t /\ y.time =< x
    BY <2>1, <2>2 DEF Matched
  <2>4. y.time \in P
    BY <2>3
  <2>. QED
    BY <2>3, <2>4
<1>8. ASSUME NEW y \in P, y < Infinity PROVE \E x \in L : x =< y
  <2>1. PICK j \in 0 .. k : \E x \in PlacesAfter[j] : x.stop \in ask.to /\ y = x.time
    OBVIOUS
  <2>2. PICK x \in PlacesAfter[j] : x.stop \in ask.to /\ y = x.time
    BY <2>1
  <2>3. Hit(j, x.stop, y)
    <3>1. y # Infinity
      BY <1>6, <1>8, TimeAssumption
    <3>. QED
      BY <1>3, <2>2, <3>1 DEF Covered
  <2>4. PICK h \in 0 .. j, t \in ask.to : label[h][t] =< y
    BY <2>2, <2>3 DEF Hit
  <2>5. h \in 0 .. k
    BY <1>1
  <2>6. label[h][t] \in L
    <3>1. <<h, t>> \in (0 .. k) \X ask.to
      BY <2>5
    <3>. QED
      BY <3>1
  <2>. QED
    BY <2>4, <2>6
<1>. HIDE DEF L, P
<1>9. Smallest(L) = Smallest(P)
  BY <1>5, <1>6, <1>7, <1>8, SameSmallest
<1>. QED
  BY <1>9 DEF L, P

\* For every number of rides the search finds the earliest arrival there is, where the trips of
\* every route are numbered so that none overtakes another: no journey is lost because trips are
\* kept in chains, only one of a chain is ridden, or late labels are dropped.
THEOREM EarliestIsFound ==
  ASSUME \A t \in Timetables : NoneOvertakes(t)
  PROVE  Spec => []EarliestArrival
<1>1. Spec => []RidingInv
  BY RidingHolds
<1>2. IInv /\ ReachInv /\ RidingInv /\ WalksLeadBack => EarliestArrival
  BY NothingIsMissed
<1>. QED
  BY <1>1, <1>2, SearchInvariant, ReachHolds, WalksEnd, PTL

=============================================================================

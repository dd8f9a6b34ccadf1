----------------------------- MODULE MCPlanning -----------------------------
(* What a question for journeys is answered from: candidates of two small    *)
(* timetables between the stops o and d with a change at x, the walks that    *)
(* the router confirms, and the realtime data.  A behaviour moves one of the  *)
(* three parts, which part names, and the others stay as they began.          *)
EXTENDS JourneySearch, WalkingAccess, RealtimeOverlay

VARIABLE part

ASSUME WalkingAssumption /\ OverlayAssumption

-----------------------------------------------------------------------------
Stops == {"o", "o2", "x", "d"}
MCAreaOf == [s \in Stops |-> IF s = "o2" THEN "o" ELSE s]
MCStationOf == [s \in Stops |-> s]
MCLines == {"1", "2", "3", "4", "5", "1b", "foot"}
MCPublicOf == [l \in MCLines |-> l]
MCCarrierOf == [l \in MCLines |-> IF l \in {"2", "5"} THEN "other" ELSE "city"]
MCPriorityOf == [l \in MCLines |-> CASE l = "1b" -> 20 [] l = "foot" -> 1000 [] OTHER -> 10]

Leg(line, trip, from, to, departure, arrival) ==
  [line |-> line, trip |-> trip, from |-> from, to |-> to,
   departure |-> departure, arrival |-> arrival, excused |-> FALSE]
Plan(legs, walk) == [legs |-> legs, walk |-> walk]

MCTrips == {"a", "b", "c1", "c2", "e", "f", "g", "h"}
A == Plan(<<Leg("1", "a", "o", "d", 105, 125)>>, 0)
B == Plan(<<Leg("2", "b", "o", "d", 105, 128)>>, 0)
C == Plan(<<Leg("3", "c1", "o", "x", 110, 116), Leg("4", "c2", "x", "d", 121, 124)>>, 0)
D == Plan(<<Leg("foot", "none", "o", "x", 103, 108), Leg("4", "e", "x", "d", 108, 122)>>, 4)
F == Plan(<<Leg("5", "f", "o", "d", 104, 120)>>, 0)
\* A as another feed has it, and a later ride.
G == Plan(<<Leg("1b", "g", "o2", "d", 105, 125)>>, 0)
H == Plan(<<Leg("2", "h", "o", "d", 130, 150)>>, 0)
Early(plan) == [plan EXCEPT !.legs = [n \in DOMAIN @ |->
   [@[n] EXCEPT !.departure = @ - 90, !.arrival = @ - 90]]]

Conf(most, duration, carriers, same) ==
  [maxResults |-> most, arrivalWeight |-> 1, durationWeight |-> duration, transferPenalty |-> 0,
   simplest |-> TRUE, eachChanges |-> TRUE, carriers |-> carriers, dominance |-> TRUE,
   sameCarrier |-> same]
MCConfs == {Conf(1, 0, TRUE, FALSE), Conf(3, 0, FALSE, FALSE), Conf(2, 0, TRUE, TRUE),
            Conf(3, 2, TRUE, FALSE)}

OnTime == [t \in MCTrips |-> 0]
Late == [OnTime EXCEPT !["a"] = 6, !["e"] = 10, !["c1"] = -1]

Question(departure, today, tomorrow, late, conf) ==
  [departure |-> departure, today |-> today, tomorrow |-> tomorrow, late |-> late, conf |-> conf]

MCQueries ==
  {Question(100, today, {Early(B), Early(F)}, late, conf) :
     today \in UNION {kSubset(n, {A, B, C, D, F, G, H}) : n \in 0 .. 4},
     late \in {OnTime, Late}, conf \in MCConfs}
  \cup {Question(104, today, {Early(B), Early(F)}, late, conf) :
          today \in UNION {kSubset(n, {B, C, D, F}) : n \in 1 .. 3},
          late \in {OnTime, Late}, conf \in MCConfs}
  \cup {Question(departure, {F}, {Early(F), B}, OnTime, conf) : departure \in {100, 140}, conf \in MCConfs}

-----------------------------------------------------------------------------
\* A walk for everybody, one too long for a change, and a pair without a way.
MCWayOf == [p \in Pairs |-> CASE p = 1 -> "near" [] p = 2 -> "middle" [] OTHER -> "no route"]

\* What the operator says of a trip on two days and of the vehicle.
Snapshot(today, tomorrow, car) == [trip |-> <<today, tomorrow>>, car |-> car]
MCFeeds == {Snapshot("late", "cancelled", "nothing"), Snapshot("nothing", "late", "cancelled")}

-----------------------------------------------------------------------------
MCInit ==
  /\ part \in {"search", "walks", "realtime"}
  /\ Init /\ AccessInit /\ OverlayInit
  /\ part # "search" => query = CHOOSE q \in Queries : TRUE

MCNext ==
  \/ /\ part = "search" /\ Next
     /\ UNCHANGED <<part, accessVars, overlayVars>>
  \/ /\ part = "walks" /\ AccessNext
     /\ UNCHANGED <<part, vars, overlayVars>>
  \/ /\ part = "realtime" /\ OverlayNext
     /\ UNCHANGED <<part, vars, accessVars>>

MCSpec == MCInit /\ [][MCNext]_<<part, vars, accessVars, overlayVars>>

\* Types of the variables.
MCTypeOK == AccessTypeOK /\ OverlayTypeOK
=============================================================================

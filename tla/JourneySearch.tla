---------------------------- MODULE JourneySearch ----------------------------
(***************************************************************************)
(* One question for journeys (query_journeys_profiled_db in                *)
(* services/api/src/lib.rs and the searches it calls): the probes of the   *)
(* day's timetable, the fallbacks to unverified services, to direct        *)
(* connections and to the next day, the choice of verified services, and   *)
(* the selection before and after the geometry of the legs is known.       *)
(*                                                                         *)
(* What the search over a timetable finds for one departure is Raptor's;   *)
(* here it is, of the itineraries that can be caught, the earliest for     *)
(* every number of changes (Probe).                                        *)
(***************************************************************************)
EXTENDS JourneyRanking

CONSTANTS
  Queries,     \* the questions (see the variable query)
  Unverified,  \* trips of feeds that have no calendar
  Brittle,     \* trips whose shape may be unusable
  Day,         \* SERVICE_DAY_SECONDS
  NextFrom,    \* next_day_search_from_seconds
  Window,      \* range_search_window_seconds
  MaxProbes    \* max_range_departures

\* A leg between two stops, a ride or a walk.
IsLeg(leg) ==
  leg \in [line : DOMAIN PublicOf, trip : {leg.trip}, from : DOMAIN StationOf,
           to : DOMAIN StationOf, departure : Int, arrival : Int, excused : BOOLEAN]

\* What may be travelled, by the vehicles whose delays are known.
IsItinerary(i, late) ==
  /\ i.walk \in Nat /\ i.legs \in Seq(Range(i.legs)) /\ i.legs # <<>>
  /\ \A leg \in Range(i.legs) : IsLeg(leg) /\ (Walked(leg) \/ leg.trip \in DOMAIN late)

\* RoutingAlgorithmConfig, with whole weights
Configurations ==
  [maxResults : 1 .. 20, arrivalWeight : Nat, durationWeight : Nat, transferPenalty : Nat,
   simplest : BOOLEAN, eachChanges : BOOLEAN, carriers : BOOLEAN, dominance : BOOLEAN,
   sameCarrier : BOOLEAN]

ASSUME SearchAssumption ==
  /\ Day \in Nat /\ NextFrom \in Nat /\ Window \in Nat /\ MaxProbes \in Nat \ {0}
  /\ \A q \in Queries :
       /\ q.departure \in Nat /\ q.conf \in Configurations /\ q.late \in [DOMAIN q.late -> Int]
       /\ IsFiniteSet(q.today) /\ IsFiniteSet(q.tomorrow)
       /\ \A i \in q.today \cup q.tomorrow : IsItinerary(i, q.late)

VARIABLES
  query,     \* [departure, today, tomorrow, late, conf]: when to leave, the itineraries
             \* of the two timetables, the delay of every trip, the configuration
  stage,     \* what is done next
  search,    \* of a day's timetable: [tomorrow, unverified, found, avoid, passes]
  journeys,  \* the candidates so far
  legacy,    \* a search with unverified services was tried
  gathered,  \* the candidates before any is rejected
  unique,    \* the candidates left after dedupe_relevant_journeys
  broken     \* trips whose shape turned out to be unusable

vars == <<query, stage, search, journeys, legacy, gathered, unique, broken>>

-----------------------------------------------------------------------------
(* Journeys of an itinerary.  The legs of rides keep their scheduled times,*)
(* walks begin when the vehicle before them really arrives, and the        *)
(* journey itself has effective times.                                     *)

Rides(legs) == {n \in DOMAIN legs : ~Walked(legs[n])}

\* How much later than planned leg n begins: a walk is as late as the ride before it.
Shift(legs, n, late) ==
  LET before == {m \in Rides(legs) : m =< n} IN
  IF before = {} THEN 0 ELSE late[legs[Max(before)].trip]

Moved(leg, by) == [leg EXCEPT !.departure = @ + by, !.arrival = @ + by]

Timed(itinerary, late) ==
  LET legs == itinerary.legs
      last == Len(legs)
      real == [n \in DOMAIN legs |->
                 IF Walked(legs[n]) THEN Moved(legs[n], Shift(legs, n, late))
                 ELSE [legs[n] EXCEPT !.excused = @ \/ late[legs[n].trip] # 0]]
  IN  [legs |-> real,
       departure |-> legs[1].departure + Shift(legs, 1, late),
       arrival   |-> legs[last].arrival + Shift(legs, last, late),
       changes   |-> Cardinality(Rides(legs)) - 1,
       walk      |-> itinerary.walk]

\* When the traveller has to be ready: walks to a late vehicle can begin later.
LatestStart(itinerary, late) ==
  itinerary.legs[1].departure
    + (IF Rides(itinerary.legs) = {} THEN 0 ELSE late[itinerary.legs[Min(Rides(itinerary.legs))].trip])

\* Every vehicle really leaves when the traveller can be there, with the time for a
\* change, which a station may shorten ("excused").
IsCaught(itinerary, late) ==
  LET legs == itinerary.legs
      change(n) == IF Walked(legs[n - 1]) \/ legs[n].excused THEN 0 ELSE MinChange
  IN  \A n \in Rides(legs) \ {1} :
        legs[n].departure + Shift(legs, n, late)
          >= legs[n - 1].arrival + Shift(legs, n - 1, late) + change(n)

TripsOf(j) == {j.legs[n].trip : n \in Rides(j.legs)}
LinesOf(j) == {j.legs[n].line : n \in Rides(j.legs)}

IsVerified(j) == TripsOf(j) \cap Unverified = {}

-----------------------------------------------------------------------------
(* Searches of one timetable.  "ask" has the itineraries it holds, the     *)
(* departure, the delays and whether unverified services may be used.      *)

Usable(ask) == {i \in ask.pool : ask.unverified \/ IsVerified(i)}

\* One run of the search: raptor_with_stats_excluding_routes.
Probe(ask, from, excluded) ==
  LET can == {Timed(i, ask.late) : i \in {k \in Usable(ask) : IsCaught(k, ask.late)
                                                             /\ LatestStart(k, ask.late) >= from}}
      open == {j \in can : LinesOf(j) # {} /\ LinesOf(j) \cap excluded = {}}
      earliest(n) == {j \in open : /\ j.changes = n
                                   /\ \A k \in open : k.changes =< n => j.arrival =< k.arrival
                                   /\ \A k \in open : k.changes < n => j.arrival < k.arrival}
      found == {CHOOSE j \in earliest(n) : TRUE :
                  n \in {m \in {k.changes : k \in open} : earliest(m) # {}}}
  IN  Listed(found, [j \in found |-> ByArrival(j)])

Times(S) == Listed(S, [t \in S |-> <<t>>])

\* departure_times_from_stops
Departures(ask, most) ==
  LET leaving == {i.legs[1].departure : i \in Usable(ask)}
      all == {ask.departure} \cup (leaving \cap (ask.departure .. ask.departure + Window))
  IN  IF Window = 0 \/ most = 1 THEN <<ask.departure>>
      ELSE EvenlySpaced(Times(all), most)

\* direct_journeys; its limit is beyond any instance
DirectServices(ask) ==
  LET rides == {Timed(i, ask.late) : i \in {k \in Usable(ask) : Len(k.legs) = 1}}
      open == {j \in rides : j.departure \in ask.departure .. ask.departure + Window}
  IN  Listed(open, [j \in open |-> ByDeparture(j)])

\* run_raptor_searches
Probes(ask, times, excluded) ==
  FlattenSeq([n \in DOMAIN times |-> Probe(ask, times[n], excluded)])

Floor(conf) == IF conf.maxResults < 3 THEN conf.maxResults ELSE 3

\* distinct_raptor_candidate_count
DistinctRoutes(s) ==
  IF s = <<>> THEN 0
  ELSE LET best == FirstBy(s, Arrivals(s)) IN
       Cardinality({RouteSignature(j) : j \in {k \in Range(s) :
         RouteSignature(k) = RouteSignature(best) \/ IsReasonable(k, best)}})

\* The legs of the best of a pass, in order, that are not excluded yet.
NewLines(s, excluded) ==
  LET best == FirstBy(s, Arrivals(s)) IN
  Among([n \in DOMAIN best.legs |-> best.legs[n].line], LinesOf(best) \ excluded)

\* should_expand_raptor_range
Few(s) == DistinctRoutes(s) < Floor(query.conf)

\* The question for a day's timetable: the next day is searched from its beginning, with the
\* delays of the day asked for.
Ask ==
  [pool |-> IF search.tomorrow THEN query.tomorrow ELSE query.today,
   departure |-> IF search.tomorrow THEN 0 ELSE query.departure,
   late |-> query.late, unverified |-> search.unverified]

HasUnverified(pool) == \E i \in pool : ~IsVerified(i)

-----------------------------------------------------------------------------

NewSearch(tomorrow, unverified) ==
  [tomorrow |-> tomorrow, unverified |-> unverified, found |-> <<>>, avoid |-> {}, passes |-> 0]

Init ==
  /\ query \in Queries
  /\ stage = "probe" /\ search = NewSearch(FALSE, FALSE)
  /\ journeys = <<>> /\ legacy = FALSE
  /\ gathered = <<>> /\ unique = <<>> /\ broken = {}

\* The departure asked for, the direct services, and the departures of the window.
\* With few lines among them, those of the best are avoided next.
ProbeWindow ==
  /\ stage = "probe"
  /\ \E start \in {Departures(Ask, 1)} :
       \E rest \in {Among(Departures(Ask, MaxProbes), Range(Departures(Ask, MaxProbes)) \ Range(start))} :
         \E found \in {Probes(Ask, start, {}) \o DirectServices(Ask) \o Probes(Ask, rest, {})} :
           search' = [search EXCEPT !.found = found,
                        !.avoid = IF found # <<>> /\ Few(found)
                                  THEN LinesOf(FirstBy(found, Arrivals(found))) ELSE {}]
  /\ stage' = "alternatives"
  /\ UNCHANGED <<query, journeys, legacy, gathered, unique, broken>>

\* The same departures without some lines, up to twice: the second time a line of the
\* best of the first is avoided too.
ProbeAlternatives ==
  /\ stage = "alternatives" /\ search.avoid # {}
  /\ \E again \in {Probes(Ask, Departures(Ask, MaxProbes), search.avoid)} :
       \E new \in {IF again = <<>> THEN <<>> ELSE NewLines(again, search.avoid)} :
         search' = [search EXCEPT !.found = @ \o again, !.passes = @ + 1,
                      !.avoid = IF search.passes = 0 /\ new # <<>> /\ Few(search.found \o again)
                                THEN @ \cup {new[1]} ELSE {}]
  /\ UNCHANGED <<query, stage, journeys, legacy, gathered, unique, broken>>

Probed == stage = "alternatives" /\ search.avoid = {}

\* Without a candidate the day is searched again with unverified services, if there are any.
NeedsUnverified == search.found = <<>> /\ ~search.unverified /\ HasUnverified(Ask.pool)

SearchUnverified ==
  /\ Probed /\ NeedsUnverified
  /\ search' = NewSearch(search.tomorrow, TRUE) /\ stage' = "probe"
  /\ UNCHANGED <<query, journeys, legacy, gathered, unique, broken>>

Searched(tomorrow) == Probed /\ ~NeedsUnverified /\ search.tomorrow = tomorrow

\* Two probes run at a time and either may end first: candidates come in either order.
Search ==
  /\ Searched(FALSE)
  /\ journeys' \in {search.found, Reverse(search.found)}
  /\ legacy' = search.unverified
  /\ stage' = "departed"
  /\ UNCHANGED <<query, search, gathered, unique, broken>>

DiscardDeparted ==
  /\ stage = "departed"
  /\ journeys' = Among(journeys, {j \in Range(journeys) : j.departure >= query.departure})
  /\ stage' = "direct"
  /\ UNCHANGED <<query, search, legacy, gathered, unique, broken>>

\* The schedule of direct connections, without delays, verified ones first
\* (direct_journeys_db).
DirectFallback ==
  /\ stage = "direct"
  /\ LET onTime == [t \in DOMAIN query.late |-> 0]
         direct == {i \in query.today : Len(i.legs) = 1 /\ Rides(i.legs) # {}
                                        /\ i.legs[1].departure >= query.departure}
         order(i) == <<IF IsVerified(i) THEN 0 ELSE 1, i.legs[1].arrival, i.legs[1].departure>>
         listed == UpTo(Listed(direct, [i \in direct |-> order(i)]), query.conf.maxResults)
     IN  journeys' = IF journeys # <<>> THEN journeys
                     ELSE [n \in DOMAIN listed |-> Timed(listed[n], onTime)]
  /\ stage' = "next day"
  /\ UNCHANGED <<query, search, legacy, gathered, unique, broken>>

\* shift_journey_service_day
NextDay(j) ==
  [j EXCEPT !.departure = @ + Day, !.arrival = @ + Day,
            !.legs = [n \in DOMAIN @ |-> Moved(@[n], Day)]]

Gather(found) ==
  /\ journeys' = found /\ gathered' = found
  /\ stage' = "prefer"
  /\ UNCHANGED <<query, search, unique, broken>>

IsEvening == query.departure >= NextFrom

\* Late in the day the next one is searched too, unless there is enough already;
\* earlier for want of anything else.
SearchTomorrow ==
  /\ stage = "next day"
  /\ IF IsEvening THEN Len(journeys) < Floor(query.conf) ELSE journeys = <<>>
  /\ search' = NewSearch(TRUE, FALSE) /\ stage' = "probe"
  /\ UNCHANGED <<query, journeys, legacy, gathered, unique, broken>>

IncludeNextDay ==
  /\ Searched(TRUE) /\ IsEvening
  /\ Gather(journeys \o [n \in DOMAIN search.found |-> NextDay(search.found[n])])
  /\ legacy' = (legacy \/ search.unverified)

\* Up to the same time of the day.
FallBackToNextDay ==
  /\ Searched(TRUE) /\ ~IsEvening
  /\ LET early == Among(search.found, {j \in Range(search.found) : j.departure < query.departure})
     IN  Gather([n \in DOMAIN early |-> NextDay(early[n])])
  /\ legacy' = (legacy \/ search.unverified)

\* Not needed, or the timetable of the next day is not in memory yet.
NoNextDay ==
  /\ stage = "next day"
  /\ Gather(journeys) /\ UNCHANGED legacy

\* Fault: unverified services stay beside verified ones.
PreferVerified_Never(s, tried) == s

\* prefer_calendar_verified_journeys; without a search for them no trip counts as unverified.
PreferVerified(s, tried) ==
  LET verified == Among(s, {j \in Range(s) : ~tried \/ IsVerified(j)})
  IN  IF verified = <<>> THEN s ELSE verified

Prefer ==
  /\ stage = "prefer"
  /\ journeys' = PreferVerified(journeys, legacy)
  /\ stage' = "dedupe"
  /\ UNCHANGED <<query, search, legacy, gathered, unique, broken>>

Dedupe ==
  /\ stage = "dedupe"
  /\ journeys' = DedupeRelevant(journeys) /\ unique' = journeys'
  /\ stage' = "preselect"
  /\ UNCHANGED <<query, search, legacy, gathered, broken>>

Preselect ==
  /\ stage = "preselect"
  /\ journeys' = Ranked(journeys, Preselection(query.conf))
  /\ stage' = "geometry"
  /\ UNCHANGED <<query, search, legacy, gathered, unique, broken>>

HasGeometry(j, without) == TripsOf(j) \cap without = {}

\* attach_journey_geometries_db: a candidate without a shape for every leg goes.
AttachGeometries ==
  /\ stage = "geometry"
  /\ broken' \in SUBSET Brittle
  /\ journeys' = Among(journeys, {j \in Range(journeys) : HasGeometry(j, broken')})
  /\ stage' = "rank"
  /\ UNCHANGED <<query, search, legacy, gathered, unique>>

FinalRank ==
  /\ stage = "rank"
  /\ journeys' = Ranked(journeys, query.conf)
  /\ stage' = "answered"
  /\ UNCHANGED <<query, search, legacy, gathered, unique, broken>>

Next ==
  \/ ProbeWindow \/ ProbeAlternatives \/ SearchUnverified \/ Search
  \/ DiscardDeparted \/ DirectFallback
  \/ SearchTomorrow \/ IncludeNextDay \/ FallBackToNextDay \/ NoNextDay
  \/ Prefer \/ Dedupe \/ Preselect \/ AttachGeometries \/ FinalRank

Spec == Init /\ [][Next]_vars

-----------------------------------------------------------------------------
(* What the answer promises.                                               *)

Valid(s) == {j \in Range(s) : HasGeometry(j, broken)}

\* The preselection has room for every candidate.
AllFit == Len(unique) =< 2 * query.conf.maxResults

\* A candidate that makes sense and has its geometry is missing from an answer that
\* has room for it only if the answer has one that is at least as good: one that
\* dominates it, or the same rides on other platforms.  A better candidate that
\* turns out to have no geometry takes nothing with it (docs/routing-spec.md:80-84).
FallbackSurvives ==
  (stage = "answered" /\ AllFit /\ Len(journeys) < query.conf.maxResults) =>
    \A j \in Valid(unique) :
      \E k \in Range(journeys) :
        Identity(k) = Identity(j) \/ (query.conf.dominance /\ Dominates(k, j, query.conf))

\* While arrival alone is weighed, no candidate with its geometry arrives before the
\* first result, even if only one is asked for, and it is the one called the fastest.
EarliestIsFirst ==
  (/\ stage = "answered" /\ AllFit /\ Valid(unique) # {}
   /\ query.conf.durationWeight = 0 /\ query.conf.transferPenalty = 0) =>
      /\ journeys # <<>> /\ Fastest(journeys).arrival = journeys[1].arrival
      /\ \A j \in Valid(unique) : journeys[1].arrival =< j.arrival

\* A result with an unverified service means that the search found no verified
\* candidate for that day or the next (docs/routing-spec.md:40-42), as long as no
\* vehicle is late: a late one may be found, dropped as departed and so hide that
\* the direct fallback offers an unverified service.
VerifiedFirst ==
  (stage = "answered" /\ \A t \in DOMAIN query.late : query.late[t] = 0) =>
    ((\E j \in Range(journeys) : ~IsVerified(j)) => \A j \in Range(gathered) : ~IsVerified(j))

\* "Effective delayed arrival and departure times determine ... which candidate arrives
\* first" (docs/routing-spec.md:143-147): a journey the search has found for the
\* day, with geometry for every leg, is not dropped for being late.
LateIsOffered ==
  (stage = "answered" /\ AllFit /\ Valid(gathered) # {}) => journeys # <<>>
=============================================================================

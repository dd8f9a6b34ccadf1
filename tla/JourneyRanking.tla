--------------------------- MODULE JourneyRanking ---------------------------
(***************************************************************************)
(* Which of the journeys a search has found are shown, and in which order  *)
(* (services/api/src/lib.rs): the check that a candidate makes sense, the  *)
(* removal of candidates that look the same, Pareto dominance, the slots   *)
(* reserved for alternatives and the final ranking.                        *)
(*                                                                         *)
(* A journey is a sequence of legs with the times, changes and metres the  *)
(* search gives it.  Stops, lines and trips are values; texts, modes and   *)
(* geometry are left out.                                                  *)
(***************************************************************************)
EXTENDS Integers, Sequences, FiniteSets, SequencesExt, Retention

CONSTANTS
  OnFoot,      \* the line of a leg that is walked
  AreaOf,      \* stop_signature: stops of an area look the same to a passenger
  StationOf,   \* canonical_journey_stop_id: the station of a platform
  PublicOf,    \* public_route_key: the line without the year of its timetable
  CarrierOf,   \* journey_carrier_keys_db: who runs a line
  PriorityOf,  \* routes.source_priority: the feed preferred of two is the smaller
  MinChange,   \* min_transfer_seconds
  MaxWait,     \* max_transfer_wait_seconds
  Slack        \* REASONABLE_ALTERNATIVE_SLACK_SECONDS

\* A line has a key of its own, unlike a walk, and the platforms of a station are in one area.
ASSUME NamesAssumption ==
  /\ OnFoot \in DOMAIN PublicOf /\ PriorityOf \in [DOMAIN PublicOf -> Int]
  /\ \A l \in DOMAIN PublicOf : PublicOf[l] = PublicOf[OnFoot] => l = OnFoot
  /\ \A s, t \in DOMAIN StationOf : StationOf[s] = StationOf[t] => AreaOf[s] = AreaOf[t]

Walked(leg) == leg.line = OnFoot
Duration(j) == j.arrival - j.departure

-----------------------------------------------------------------------------
(* Sequences.  The keys of a sequence are a sequence of the same length.   *)

\* The elements that are in S.
Among(s, S) == Kept(s, {n \in DOMAIN s : s[n] \in S})

\* The first element of every key.
FirstOfEach(s, keys) == Kept(s, {n \in DOMAIN s : \A m \in 1 .. n - 1 : keys[m] # keys[n]})

Less(k, l) ==
  \E i \in DOMAIN k : k[i] < l[i] /\ \A h \in 1 .. i - 1 : k[h] = l[h]

\* A stable sort: how many elements are not after the one at n.
NotAfter(keys, m, n) == Less(keys[m], keys[n]) \/ (keys[m] = keys[n] /\ m =< n)
Places(keys) == [n \in DOMAIN keys |-> Cardinality({m \in DOMAIN keys : NotAfter(keys, m, n)})]
SortedBy(s, keys) ==
  LET places == Places(keys) IN
  [i \in DOMAIN s |-> s[CHOOSE n \in DOMAIN s : places[n] = i]]

FirstBy(s, keys) == SortedBy(s, keys)[1]

\* The elements of a set in the order of their keys.
Listed(S, keyOf) ==
  LET s == SetToSeq(S) IN SortedBy(s, [n \in DOMAIN s |-> keyOf[s[n]]])

UpTo(s, n) == SubSeq(s, 1, IF n < Len(s) THEN n ELSE Len(s))

\* An even sample with both ends (evenly_spaced_journey_refs).
EvenlySpaced(s, limit) ==
  CASE limit = 0 -> <<>>
    [] limit # 0 /\ Len(s) =< limit -> s
    [] limit = 1 /\ Len(s) > 1 -> <<s[1]>>
    [] OTHER -> [n \in 1 .. limit |-> s[((n - 1) * (Len(s) - 1)) \div (limit - 1) + 1]]

-----------------------------------------------------------------------------
(* Candidates that make sense, one of those that look the same.            *)

\* A change takes at least the general time, unless the search has used the
\* station's own one or has boarded by the effective times ("excused").
Connects(leg, next) ==
  LET wait == next.departure - leg.arrival IN
  /\ wait \in 0 .. MaxWait
  /\ AreaOf[leg.to] = AreaOf[next.from]
  /\ \/ Walked(leg) \/ Walked(next)
     \/ wait >= MinChange \/ leg.excused \/ next.excused

IsRelevant(j) ==
  LET legs == j.legs
      rides == {n \in DOMAIN legs : ~Walked(legs[n])}
  IN  /\ legs # <<>>
      /\ legs[1].departure = j.departure /\ Last(legs).arrival = j.arrival
      /\ j.arrival >= j.departure
      /\ \A n \in DOMAIN legs : legs[n].arrival >= legs[n].departure
      /\ \A n \in rides : AreaOf[legs[n].from] # AreaOf[legs[n].to]
      /\ \A m, n \in rides : m # n => legs[m].trip # legs[n].trip
      /\ \A n \in 1 .. Len(legs) - 1 : Connects(legs[n], legs[n + 1])

\* What a passenger sees; of the walks to the first vehicle only how long they take.
VisibleKey(j) ==
  LET leading(n) == \A m \in 1 .. n : Walked(j.legs[m])
      times(n) == IF leading(n) THEN <<j.legs[n].arrival - j.legs[n].departure>>
                  ELSE <<j.legs[n].departure, j.legs[n].arrival>>
  IN  [n \in DOMAIN j.legs |-> <<AreaOf[j.legs[n].from], AreaOf[j.legs[n].to], times(n)>>]

FeedPriority(j) ==
  LET sum[n \in 0 .. Len(j.legs)] == IF n = 0 THEN 0 ELSE sum[n - 1] + PriorityOf[j.legs[n].line]
  IN  <<sum[Len(j.legs)]>>

DedupeRelevant(s) ==
  LET relevant == Among(s, {j \in Range(s) : IsRelevant(j)})
      sorted == SortedBy(relevant, [n \in DOMAIN relevant |-> FeedPriority(relevant[n])])
  IN  FirstOfEach(sorted, [n \in DOMAIN sorted |-> VisibleKey(sorted[n])])

-----------------------------------------------------------------------------
(* Keys and orders.  "conf" is the RoutingAlgorithmConfig.                 *)

\* journey_identity_key
Identity(j) ==
  [n \in DOMAIN j.legs |->
     <<PublicOf[j.legs[n].line], StationOf[j.legs[n].from], StationOf[j.legs[n].to],
       j.legs[n].departure, j.legs[n].arrival>>]

RouteSignature(j) == [n \in DOMAIN j.legs |-> PublicOf[j.legs[n].line]]

\* Nobody runs a walk: {} where the code has no signature.
CarrierSignature(j) == {CarrierOf[leg.line] : leg \in {l \in Range(j.legs) : ~Walked(l)}}

Score(j, conf) ==
  j.arrival * conf.arrivalWeight + Duration(j) * conf.durationWeight
    + j.changes * conf.transferPenalty

\* Fault: a short journey before one that arrives earlier.
Rank_Duration(j, conf) ==
  <<Duration(j), Score(j, conf), j.arrival, j.changes, j.departure>>

Rank(j, conf) == <<Score(j, conf), j.arrival, Duration(j), j.changes, j.departure>>

Simplicity(j) == <<j.changes, j.walk, j.arrival, Duration(j), j.departure>>
ByArrival(j) == <<j.arrival, j.changes>>
ByDeparture(j) == <<j.departure, j.arrival, j.changes, j.walk, Duration(j)>>

\* The keys of the journeys of a sequence.
Ranks(s, conf) == [n \in DOMAIN s |-> Rank(s[n], conf)]
Changes(s) == [n \in DOMAIN s |-> s[n].changes]
Identities(s) == [n \in DOMAIN s |-> Identity(s[n])]
Signatures(s) == [n \in DOMAIN s |-> RouteSignature(s[n])]
Arrivals(s) == [n \in DOMAIN s |-> ByArrival(s[n])]

NoWorse(better, j) ==
  /\ better.departure >= j.departure /\ better.arrival =< j.arrival
  /\ better.changes =< j.changes /\ better.walk =< j.walk

TimeDominates(better, j) ==
  /\ NoWorse(better, j)
  /\ \/ better.departure > j.departure \/ better.arrival < j.arrival
     \/ better.changes < j.changes \/ better.walk < j.walk

Dominates(better, j, conf) ==
  /\ conf.sameCarrier => /\ CarrierSignature(better) # {}
                         /\ CarrierSignature(better) = CarrierSignature(j)
  /\ TimeDominates(better, j)

Frontier(s, conf) ==
  Among(s, {j \in Range(s) : \A other \in Range(s) : ~Dominates(other, j, conf)})

IsReasonable(j, best) ==
  /\ RouteSignature(j) # RouteSignature(best)
  /\ j.arrival =< best.arrival + Slack
  /\ Duration(j) =< Duration(best) + Slack
  /\ j.changes =< best.changes + 2

BestPerCarrier(s, conf) ==
  LET run == Among(s, {j \in Range(s) : CarrierSignature(j) # {}})
      sorted == SortedBy(run, Ranks(run, conf))
  IN  FirstOfEach(sorted, [n \in DOMAIN sorted |-> CarrierSignature(sorted[n])])

\* The best of every number of changes.
BestPerChanges(s, conf) ==
  LET sorted == SortedBy(s, [n \in DOMAIN s |-> <<s[n].changes>> \o Rank(s[n], conf)])
  IN  FirstOfEach(sorted, Changes(sorted))

\* remove_dominated_journeys: the frontier, and the exceptions the configuration asks for.
RemoveDominated(s, conf) ==
  LET frontier == Range(Frontier(s, conf))
      fewer == Among(s, {j \in Range(s) : \A f \in frontier : j.changes < f.changes})
      each == BestPerChanges(fewer, conf)
      simplest == IF conf.simplest /\ fewer # <<>> THEN {each[1]} ELSE {}
      carriers == IF conf.carriers THEN Range(BestPerCarrier(s, conf)) ELSE {}
      kept == {Identity(j) : j \in frontier \cup simplest \cup carriers
                                   \cup (IF conf.eachChanges THEN Range(each) ELSE {})}
  IN  Among(s, {j \in Range(s) : Identity(j) \in kept})

-----------------------------------------------------------------------------
(* The results.                                                            *)

Keys(s) == {Identity(j) : j \in Range(s)}

\* Of those offered the ones not there yet, each once.
New(selected, offered) ==
  LET new == Among(offered, {j \in Range(offered) : Identity(j) \notin Keys(selected)})
  IN  FirstOfEach(new, Identities(new))

\* push_ranked_journey, as long as there is room.
Push(selected, offered, most) == selected \o UpTo(New(selected, offered), most - Len(selected))

(* ranked_journey_results_with_carriers fills the room in turn: with the   *)
(* best and the simplest, the best of every number of changes, of some     *)
(* carriers and some other lines, a sample of the frontier, and the rest.  *)

\* alternative_slot_limit
Slots(most) == LET third == (most + 2) \div 3 IN IF third > 4 THEN 4 ELSE third

BestAndSimplest(candidates, conf) ==
  LET best == Push(<<>>, <<candidates[1]>>, conf.maxResults)
      simplest == FirstBy(candidates, [n \in DOMAIN candidates |-> Simplicity(candidates[n])])
  IN  IF conf.simplest THEN Push(best, <<simplest>>, conf.maxResults) ELSE best

WithChanges(selected, candidates, conf) ==
  IF conf.eachChanges
  THEN Push(selected, BestPerChanges(candidates, conf), conf.maxResults) ELSE selected

WithCarriers(selected, candidates, conf) ==
  LET some == UpTo(BestPerCarrier(candidates, conf), Slots(conf.maxResults)) IN
  IF conf.carriers THEN Push(selected, some, conf.maxResults) ELSE selected

\* The best of every line that is not selected and no worse than is reasonable.
OtherLines(selected, candidates, conf) ==
  LET best == FirstBy(candidates, Arrivals(candidates))
      near == Among(candidates, {j \in Range(candidates) :
                                   \/ RouteSignature(j) = RouteSignature(best)
                                   \/ IsReasonable(j, best)})
      ranked == SortedBy(near, Ranks(near, conf))
      lines == FirstOfEach(ranked, Signatures(ranked))
      shown == {RouteSignature(j) : j \in Range(selected)}
  IN  Among(lines, {j \in Range(lines) : RouteSignature(j) \notin shown})

WithOtherLines(selected, candidates, conf) ==
  LET some == UpTo(OtherLines(selected, candidates, conf), Slots(conf.maxResults)) IN
  IF conf.simplest \/ conf.eachChanges THEN Push(selected, some, conf.maxResults) ELSE selected

\* As many of the frontier, evenly, as fit beside those selected.
Sample(selected, candidates, conf) ==
  LET undominated == Frontier(candidates, conf)
      frontier == SortedBy(undominated, [n \in DOMAIN undominated |-> ByDeparture(undominated[n])])
      reserved == Cardinality({n \in DOMAIN frontier : Identity(frontier[n]) \in Keys(selected)})
      room == conf.maxResults - Len(selected)
      spaced == EvenlySpaced(frontier, room + reserved)
      new == Among(spaced, {j \in Range(spaced) : Identity(j) \notin Keys(selected)})
  IN  EvenlySpaced(new, room)

Selected(candidates, conf) ==
  LET best == BestAndSimplest(candidates, conf)
      perChanges == WithChanges(best, candidates, conf)
      perCarrier == WithCarriers(perChanges, candidates, conf)
      perLine == WithOtherLines(perCarrier, candidates, conf)
      sampled == Push(perLine, Sample(perLine, candidates, conf), conf.maxResults)
      all == Push(sampled, candidates, conf.maxResults)
  IN  SortedBy(all, Ranks(all, conf))

\* What is ranked: in order, and the same rides once.
Candidates(s, conf) ==
  LET kept == IF conf.dominance THEN RemoveDominated(s, conf) ELSE s
      sorted == SortedBy(kept, Ranks(kept, conf))
  IN  FirstOfEach(sorted, Identities(sorted))

\* ranked_journey_results
Ranked(s, conf) ==
  LET candidates == Candidates(s, conf) IN
  IF candidates = <<>> THEN <<>> ELSE Selected(candidates, conf)

\* The one of the results called "nejrychlejsi".
Fastest(results) ==
  FirstBy(results, [n \in DOMAIN results |->
    <<results[n].arrival, Duration(results[n]), results[n].changes, results[n].departure>>])

\* Fault: dominated candidates go before their geometry is known.
Preselection_Dominance(conf) == [conf EXCEPT !.maxResults = 2 * @]

\* geometry_preselection_config: 40 at most, twice what may be configured
Preselection(conf) == [conf EXCEPT !.maxResults = 2 * @, !.dominance = FALSE]
=============================================================================

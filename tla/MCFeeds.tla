------------------------------ MODULE MCFeeds ------------------------------
(* The archives that are downloaded, the schedule that is imported from them  *)
(* and served from memory, and the stops of two feeds that are merged.  The   *)
(* import takes a whole archive, which is what the downloads promise, and a   *)
(* timetable is built again after every repair, so a behaviour moves one of   *)
(* the three parts, which part names, and the others stay as they began.      *)
EXTENDS RoutingSnapshot, RawRuns, StopMerges, TLC

CONSTANTS f1, f2, a, b

VARIABLE part

-----------------------------------------------------------------------------
\* The second version changes a line and drops the other.
MCCallsOf == [f \in Files |-> IF f = f1 THEN (a :> 1 @@ b :> 1) ELSE (a :> 2)]

MCFirstOf == [f \in Files |-> {a}]

\* Stops 1 and 2 are one place to two feeds, and 3 is near; 4 and 5 end their trips.
MCFeedOf == <<"x", "y", "y", "x", "y">>
MCPriorityOf == <<2, 2, 1, 2, 2>>
MCPlaceOf == <<"square", "square", "corner", "north", "south">>
MCNearOf == <<"square", "square", "square", "north", "south">>

Dataset(stops, trips) == [stops |-> stops, calls |-> trips]
First ==
  ("x" :> <<Dataset({1, 4}, "p" :> <<1, 4>>)>>)
  @@ ("y" :> <<Dataset({2, 3, 5}, "q" :> <<2, 5>> @@ "r" :> <<3, 5>>)>>)

\* The second version has a trip that calls at both 2 and 3, and a third drops 3.
MCVersions == [First EXCEPT !["y"] = Append(@, Dataset({2, 3, 5}, "q" :> <<2, 3, 5>>))]
MCDropped == [MCVersions EXCEPT !["y"] = Append(@, Dataset({2, 5}, "q" :> <<2, 5>>))]

-----------------------------------------------------------------------------
MCInit ==
  /\ part \in {"schedule", "archives", "stops"}
  /\ Init /\ RawInit /\ MergesInit
  /\ part # "schedule" => published = f1

MCNext ==
  \/ /\ part = "schedule" /\ Next
     /\ UNCHANGED <<part, rawVars, stopVars>>
  \/ /\ part = "archives" /\ RawNext
     /\ UNCHANGED <<part, vars, stopVars>>
  \/ /\ part = "stops" /\ MergesNext
     /\ UNCHANGED <<part, vars, rawVars>>

MCVars == <<part, vars, rawVars, stopVars>>

MCSpec ==
  /\ MCInit /\ [][MCNext]_MCVars
  /\ part = "schedule" => Fairness
  /\ part = "archives" => RawFairness

\* Types of the variables.
MCTypeOK == TypeOK /\ RawTypeOK /\ MergesTypeOK

\* The published schedule comes to be imported ...
MCEventuallyImported == part = "schedule" => EventuallyImported

\* ... and served ...
MCEventuallyServed == part = "schedule" => EventuallyServed

\* ... and the published archives to be fetched.
MCEventuallyFetched == part = "archives" => EventuallyFetched
=============================================================================

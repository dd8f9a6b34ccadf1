--------------------------- MODULE RealtimeOverlay ---------------------------
(***************************************************************************)
(* Realtime data from the operator's feed to the answer of a search        *)
(* (services/realtime-worker/src/main.rs, services/api/src/lib.rs).        *)
(*                                                                         *)
(* Three loops of the worker fetch the feed and upsert their own rows of   *)
(* realtime_updates: "updates" a row of every stop time or cancelled trip, *)
(* "summaries" one row of a trip, "vehicles" one of a vehicle.  Nothing    *)
(* deletes a row that the feed no longer carries: it dies of its age.  A   *)
(* search plans with a cached copy of the summaries and then annotates the *)
(* legs with every row that is still valid.  data_source_syncs, which only *)
(* reports on the loops, is left out.                                      *)
(*                                                                         *)
(* One trip that runs on several dates, and one vehicle.  Time is counted  *)
(* in ages: ticks since the feed made the snapshot a row was taken from;   *)
(* midnight comes when it likes.                                           *)
(***************************************************************************)
EXTENDS Naturals, FiniteSets

CONSTANTS
  Dates,        \* service dates, consecutive naturals
  StopLife,     \* ticks a stop, trip or vehicle row is valid (90 s)
  SummaryLife,  \* ticks a summary row is valid (5 min)
  CacheLife,    \* ticks the cached copy of the summaries is used (90 s)
  Feeds,        \* the contents a snapshot may have
  MaxSnapshots, MaxTicks,   \* bounds
  Absent

\* What the model asks of its parameters.
OverlayAssumption ==
  /\ Dates \subseteq Nat \ {0} /\ IsFiniteSet(Dates)
  /\ {StopLife, SummaryLife, CacheLife} \subseteq Nat
  /\ StopLife =< SummaryLife
  /\ \A f \in Feeds : f.trip \in [Dates -> {"nothing", "late", "cancelled"}]
  /\ \A f \in Feeds : f.car \in {"nothing", "late", "cancelled"}

\* Ages are counted up to Old: whatever is older is as good as this old.
Old == SummaryLife + CacheLife + 1
Older(age) == IF age < Old THEN age + 1 ELSE Old

Says == {"nothing", "late", "cancelled"}
Loops == {"updates", "summaries", "vehicles"}

\* A row without a service date, and what the vehicle says of the trip it runs.
Undated == 0

VARIABLES
  feed,    \* what the operator publishes: [trip : [Dates -> Says], car : Says, age]
  heard,   \* history: age of the youngest snapshot that said so of a date, or undated
  updates, \* realtime_updates by source_entity_id
  pass,    \* the pass of each loop: what it took from the feed and has yet to write
  serviceDate,   \* the date in Prague
  cache,   \* routing_realtime_cache: Absent or [date, late, age]
  snapshots, ticks   \* how many there were

overlayVars == <<feed, heard, updates, pass, serviceDate, cache, snapshots, ticks>>

Entities == ({"trip", "stop"} \X Dates) \cup {<<"summary", Undated>>, <<"vehicle", Undated>>}

Record(entity, date, say, life, age) ==
  [entity |-> entity, date |-> date, say |-> say, life |-> life, age |-> age]

(***************************************************************************)
(* What the loops make of a snapshot                                       *)
(***************************************************************************)

\* A row is dated by the snapshot, however long the fetch and the writes take.
Stamp(f) == f.age

\* A delay comes with the stop times of the trip; a trip that does not run has none.
TripRecords(f) ==
  {Record(<<IF f.trip[d] = "late" THEN "stop" ELSE "trip", d>>, d, f.trip[d], StopLife, Stamp(f)) :
     d \in {x \in Dates : f.trip[x] # "nothing"}}

\* A summary's key has no date, so a trip has the summary of one of its dates.  A record replaces
\* the summary when it brings a delay or a cancellation that this one lacks; the entities of the
\* feed come in any order, and each record is the last to do so in one of them.
SummaryRecords(f) ==
  {{[r EXCEPT !.entity = <<"summary", Undated>>, !.life = SummaryLife]} : r \in TripRecords(f)}

VehicleRecords(f) ==
  {Record(<<"vehicle", Undated>>, Undated, f.car, StopLife, Stamp(f)) : x \in {f.car} \ {"nothing"}}

\* The sets of records a pass of the loop may take from the snapshot.
RecordsOf(l, f) ==
  CASE l = "updates" -> {TripRecords(f)}
    [] l = "vehicles" -> {VehicleRecords(f)}
    [] l = "summaries" -> IF TripRecords(f) = {} THEN {{}} ELSE SummaryRecords(f)

Asleep == [at |-> "asleep", left |-> {}]

(***************************************************************************)
(* The worker                                                              *)
(***************************************************************************)
OverlayInit ==
  /\ feed = [trip |-> [d \in Dates |-> "nothing"], car |-> "nothing", age |-> 0]
  /\ snapshots = 0
  /\ ticks = 0
  /\ heard = [x \in {"late", "cancelled"} |-> [d \in Dates \cup {Undated} |-> Old]]
  /\ updates = [e \in Entities |-> Absent]
  /\ pass = [l \in Loops |-> Asleep]
  /\ serviceDate \in Dates
  /\ cache = Absent

\* The operator publishes a new snapshot.
Publish(trip, car) ==
  /\ snapshots < MaxSnapshots
  /\ snapshots' = snapshots + 1
  /\ feed' = [trip |-> trip, car |-> car, age |-> 0]
  /\ heard' = [x \in DOMAIN heard |->
       [d \in Dates \cup {Undated} |->
          IF (IF d = Undated THEN car ELSE trip[d]) = x THEN 0 ELSE heard[x][d]]]
  /\ UNCHANGED <<updates, pass, serviceDate, cache, ticks>>

\* The feed is fetched and decoded.
Take(l) ==
  /\ pass[l].at = "asleep"
  /\ \E records \in RecordsOf(l, feed) :
       pass' = [pass EXCEPT ![l] = [at |-> "writing", left |-> records]]
  /\ UNCHANGED <<feed, heard, updates, serviceDate, cache, snapshots, ticks>>

\* The rows are written chunk by chunk in the order of their keys, each over what the row held.
Persist(l) ==
  /\ pass[l].at = "writing"
  /\ pass[l].left # {}
  /\ LET r == CHOOSE x \in pass[l].left : TRUE IN
       /\ updates' = [updates EXCEPT ![r.entity] = r]
       /\ pass' = [pass EXCEPT ![l].left = @ \ {r}]
  /\ UNCHANGED <<feed, heard, serviceDate, cache, snapshots, ticks>>

\* Rows that ended long ago are deleted by the loop of the trip updates, unless the database is
\* busy.
Deleted(busy) == {e \in Entities : ~busy /\ updates[e] # Absent /\ updates[e].age = Old}

Done(l) == pass[l].left = {}

\* The pass has written everything.
Finish(l) ==
  /\ pass[l].at = "writing" /\ Done(l)
  /\ \E busy \in BOOLEAN :
       updates' = [e \in Entities |-> IF l = "updates" /\ e \in Deleted(busy) THEN Absent ELSE updates[e]]
  /\ pass' = [pass EXCEPT ![l] = Asleep]
  /\ UNCHANGED <<feed, heard, serviceDate, cache, snapshots, ticks>>

\* A fetch, a chunk or the storage check fails: what was written stays.
Fail(l) ==
  /\ pass' = [pass EXCEPT ![l] = Asleep]
  /\ UNCHANGED <<feed, heard, updates, serviceDate, cache, snapshots, ticks>>

(***************************************************************************)
(* The API process                                                         *)
(***************************************************************************)

\* Fault: a row is used whatever its age.
StillValid_Ever(r) == r # Absent
StillValid(r) == r # Absent /\ r.age =< r.life

\* Fault: the summaries are read for every date.
Delayed_AnyDate(date) ==
  LET r == updates[<<"summary", Undated>>] IN StillValid(r) /\ r.say = "late"
\* The summary that planning reads: of the very date, with a delay.
Delayed(date) ==
  LET r == updates[<<"summary", Undated>>] IN StillValid(r) /\ r.say = "late" /\ r.date = date

\* The background refresh replaces the cached delays by those of the date it is; one that fails
\* keeps them.
Refresh ==
  /\ cache' = [date |-> serviceDate, late |-> Delayed(serviceDate), age |-> 0]
  /\ UNCHANGED <<feed, heard, updates, pass, serviceDate, snapshots, ticks>>

\* The copy is used by questions for the date it was read for.
Cached(date) == cache # Absent /\ cache.date = date /\ cache.age < CacheLife

\* The dates whose timetables a question for that date may search: when it is late, or nothing
\* was found, it goes on to the next.
SearchedDates(date) == {date, date + 1} \cap Dates

\* The dates of those whose ride is planned with the delay: the delays that are passed on to the
\* second search are the same, and carry no date.
Planned(date) == {d \in SearchedDates(date) : Cached(date) /\ cache.late}

\* The rows that the legs of an answer for that date are annotated with, whichever day they run:
\* those of the date and of the day after, and those without a date.
Annotating(date) ==
  {updates[e] : e \in {x \in Entities : StillValid(updates[x]) /\ updates[x].date \in {date, date + 1, Undated}}}

\* The delay is that of the stop's row, or else of the row that is newest.
Newest(rs) == {r \in rs : \A q \in rs : r.age =< q.age}
LateLeg(rs) ==
  LET stops == {r \in rs : r.entity[1] = "stop"}
  IN  \E r \in Newest(IF stops # {} THEN stops ELSE rs) : r.say = "late"

\* How the legs of an answer for that date would be shown now.
Shown(date) ==
  [cancelled |-> \E r \in Annotating(date) : r.say = "cancelled",
   late      |-> LateLeg(Annotating(date))]

Tick ==
  /\ ticks < MaxTicks
  /\ ticks' = ticks + 1
  /\ feed' = [feed EXCEPT !.age = Older(@)]
  /\ heard' = [x \in DOMAIN heard |-> [d \in Dates \cup {Undated} |-> Older(heard[x][d])]]
  /\ updates' = [e \in Entities |-> IF updates[e] = Absent THEN Absent ELSE [updates[e] EXCEPT !.age = Older(@)]]
  /\ pass' = [l \in Loops |-> [pass[l] EXCEPT
       !.left = {[r EXCEPT !.age = Older(@)] : r \in @}]]
  /\ cache' = IF cache = Absent THEN Absent ELSE [cache EXCEPT !.age = Older(@)]
  /\ UNCHANGED <<serviceDate, snapshots>>

Midnight ==
  /\ serviceDate + 1 \in Dates
  /\ serviceDate' = serviceDate + 1
  /\ UNCHANGED <<feed, heard, updates, pass, cache, snapshots, ticks>>

OverlayNext ==
  \/ \E f \in Feeds : Publish(f.trip, f.car)
  \/ \E l \in Loops : Take(l) \/ Persist(l) \/ Finish(l) \/ Fail(l)
  \/ Refresh
  \/ Tick
  \/ Midnight

OverlaySpec == OverlayInit /\ [][OverlayNext]_overlayVars

(***************************************************************************)
(* Properties                                                              *)
(***************************************************************************)
\* Rows, records and ages have their types, and a row stands under its own key.
OverlayTypeOK ==
  /\ feed.trip \in [Dates -> Says] /\ feed.car \in Says /\ feed.age \in 0..Old
  /\ \A e \in Entities : updates[e] # Absent =>
       updates[e].entity = e /\ updates[e].say \in Says /\ updates[e].age \in 0 .. Old
  /\ serviceDate \in Dates
  /\ cache = Absent \/ (cache.date \in Dates /\ cache.late \in BOOLEAN /\ cache.age \in 0..Old)

Heard(say, dates, age) == \E d \in dates : heard[say][d] =< age

\* A leg of an answer is shown late or cancelled only when the operator said so of the trip, for
\* the date asked for or the day after (whichever of the two the leg runs), or of the vehicle, in
\* a snapshot that was made within the validity of a row: however slow the fetches and the
\* writes, and whatever part of a pass failed.
ShownWasSaid ==
  \A date \in Dates :
    LET dates == SearchedDates(date) \cup {Undated}
    IN  /\ Shown(date).cancelled => Heard("cancelled", dates, SummaryLife)
        /\ Shown(date).late => Heard("late", dates, SummaryLife)

\* The operator said that the trip is late of one of the dates, in a snapshot within the validity
\* of a summary and the life of the cache.
LatelyLate(dates) == Heard("late", dates, SummaryLife + CacheLife - 1)

\* A search plans with a delay only when the operator lately said so of the very date that is
\* asked for, also when midnight passes between the copy and the question.  The rides of the day
\* after, if it goes on to them, are planned with the same delay: an exception to what follows.
PlannedWasSaid ==
  \A date \in Dates : Planned(date) # {} => LatelyLate({date})

\* A ride is planned with a delay only when the operator lately said so of the date it runs.
\* Violated: a trip that runs on both days is planned on the second with the delay of the first.
RideWasSaidLate ==
  \A date \in Dates : \A d \in Planned(date) : LatelyLate({d})

=============================================================================

----------------------------- MODULE StopMerges -----------------------------
(***************************************************************************)
(* Stops that several feeds know, or one feed twice, are merged: a mapping *)
(* of a duplicate to its canonical stop is kept in manual_stop_matches,    *)
(* and applying it moves what refers to the duplicate and deactivates it   *)
(* (migrations 0016 to 0018).  An administrator confirms mappings, the     *)
(* database finds safe ones by itself, and an import, which brings the     *)
(* duplicates and their calls back, applies all of them again              *)
(* (services/data-pipeline/src/main.rs).                                   *)
(*                                                                         *)
(* Favourites, links and all else that refers to a stop move as calls do   *)
(* and are left out.                                                       *)
(***************************************************************************)
EXTENDS Naturals, Sequences, FiniteSets, Functions, Retention

CONSTANTS
    Stops,       \* stop ids, in their order
    FeedOf,      \* the feed of a stop
    PriorityOf,  \* its source_priority
    PlaceOf,     \* name and coordinates, and what exact duplicates agree in
    NearOf,      \* public name, locality, type and direction, within 120 m of each other
    Versions,    \* of a feed: a sequence of [stops, calls], calls by trip
    NoStop

Feeds == {FeedOf[s] : s \in Stops}
TripsOf(f) == UNION {DOMAIN Versions[f][n].calls : n \in DOMAIN Versions[f]}
Trips == UNION {TripsOf(f) : f \in Feeds}

ASSUME MergesAssumption ==
    /\ Stops \subseteq Nat /\ Stops # {} /\ IsFiniteSet(Stops) /\ NoStop \notin Stops
    /\ IsFiniteSet(Trips)
    /\ \A s \in Stops : PriorityOf[s] \in Nat
    /\ \A f \in Feeds :
         /\ Versions[f] \in Seq({Versions[f][n] : n \in DOMAIN Versions[f]}) /\ Len(Versions[f]) > 0
         /\ \A n \in DOMAIN Versions[f] :
              /\ Versions[f][n].stops \subseteq Stops
              /\ \A t \in DOMAIN Versions[f][n].calls :
                   Versions[f][n].calls[t] \in Seq({s \in Versions[f][n].stops : FeedOf[s] = f})

VARIABLES
    listed,   \* of a feed: the version its operator publishes
    taken,    \* the version of its latest import, 0 before there is one
    stage,    \* what that import does next
    current,  \* stops stamped by the latest import of their feed
    active,   \* stops that is_active is true of
    called,   \* of a trip: the stops its stop_times have, in order
    match     \* of a stop: the target of its confirmed mapping

stopVars == <<listed, taken, stage, current, active, called, match>>

Version(f) == Versions[f][taken[f]]

MergesTypeOK ==
    /\ listed \in [Feeds -> Nat] /\ taken \in [Feeds -> Nat]
    /\ \A f \in Feeds : listed[f] \in DOMAIN Versions[f] /\ taken[f] <= listed[f]
    /\ stage \in [Feeds -> {"stops", "calls", "prune", "repair", "merge", "idle", "failed"}]
    /\ current \subseteq Stops /\ active \subseteq Stops
    /\ called \in [Trips -> Seq(Stops)]
    /\ match \in [Stops -> Stops \cup {NoStop}]

MergesInit ==
    /\ listed = [f \in Feeds |-> 1]
    /\ taken = [f \in Feeds |-> 0]
    /\ stage = [f \in Feeds |-> "idle"]
    /\ current = {} /\ active = {}
    /\ called = [t \in Trips |-> <<>>]
    /\ match = [s \in Stops |-> NoStop]

-----------------------------------------------------------------------------
(* The database's functions.  data has the stops that are active, the      *)
(* calls and the mappings.                                                 *)

Data == [active |-> active, calls |-> called, match |-> match]

Keep(data) == active' = data.active /\ called' = data.calls /\ match' = data.match

Merged(data) == {s \in Stops : data.match[s] # NoStop}

\* One turn of the loop of cesta_apply_confirmed_stop_merges.
MoveStop(data, s) ==
    [data EXCEPT !.active = @ \ {s},
                 !.calls = [t \in Trips |-> [n \in DOMAIN @[t] |->
                              IF @[t][n] = s THEN data.match[s] ELSE @[t][n]]]]

\* The n-th of some stops, by id.
Nth(n, some) == CHOOSE s \in some : Place(s, some) = n

\* The loop, and what its turns leave of the data.
Turns(data) ==
    LET after[n \in 0 .. Cardinality(Merged(data))] ==
          IF n = 0 THEN data ELSE MoveStop(after[n - 1], Nth(n, Merged(data)))
    IN  after

ApplyMerges(data) == Turns(data)[Cardinality(Merged(data))]

\* A trip calls at two of them.
Conflict(data, group) ==
    \E t \in Trips : Cardinality(Range(data.calls[t]) \cap group) > 1

\* How often trips call at a stop.
Usage(data) ==
    [s \in Stops |-> Cardinality({c \in UNION {{t} \X DOMAIN data.calls[t] : t \in Trips} :
                                   data.calls[c[1]][c[2]] = s})]

\* The direction of travel is measured where a vehicle goes on to another stop.
Directed(data, s) ==
    \E t \in Trips : \E n \in DOMAIN data.calls[t] : data.calls[t][n] = s /\ n < Len(data.calls[t])

\* The canonical stop of a group: by priority, then by use, then by id.
Best(group, use) ==
    CHOOSE s \in group : \A r \in group \ {s} :
        \/ PriorityOf[s] < PriorityOf[r]
        \/ /\ PriorityOf[s] = PriorityOf[r]
           /\ use[s] > use[r] \/ (use[s] = use[r] /\ s < r)

\* Members of a group of safe duplicates are mapped to its best stop, and when any
\* is, all mappings are applied.
Deduplicate(data, groups, use) ==
    LET safe == {g \in groups : Cardinality(g) > 1 /\ ~Conflict(data, g)}
        best == [s \in UNION safe |-> Best(CHOOSE g \in safe : s \in g, use)]
        new == {s \in UNION safe : data.match[s] = NoStop /\ s # best[s]}
    IN  IF new = {} THEN data
        ELSE ApplyMerges([data EXCEPT !.match = [s \in Stops |-> IF s \in new THEN best[s] ELSE @[s]]])

\* cesta_apply_safe_stop_deduplication: one stop of each feed in the same place.
DeduplicateExact(data) ==
    LET at(p) == {s \in data.active : PlaceOf[s] = p}
        apart(g) == \A r, s \in g : r # s => FeedOf[r] # FeedOf[s]
    IN  Deduplicate(data, {g \in {at(PlaceOf[s]) : s \in Stops} : apart(g)}, [s \in Stops |-> 0])

\* cesta_apply_safe_nearby_direction_deduplication: also those of one feed.
DeduplicateNearby(data) ==
    LET near(c) == {s \in data.active : NearOf[s] = c /\ Directed(data, s)}
    IN  Deduplicate(data, {near(NearOf[s]) : s \in Stops}, Usage(data))

\* cesta_apply_safe_data_repairs
SafeRepairs(data) == DeduplicateNearby(DeduplicateExact(data))

-----------------------------------------------------------------------------
(* The administrator.  The advisory lock lets one request at a time in,    *)
(* and the stops it locks keep imports from touching them, so each is one  *)
(* step.                                                                   *)

ApplySafeRepairs ==
    /\ Keep(SafeRepairs(Data))
    /\ UNCHANGED <<listed, taken, stage, current>>

\* Nobody else decided about the stops: neither is the canonical one a duplicate, nor is
\* a duplicate canonical or mapped elsewhere.
Conflicting(canonical, duplicates) ==
    \/ match[canonical] # NoStop
    \/ \E s \in Stops : match[s] \in duplicates
    \/ \E s \in duplicates : match[s] \notin {NoStop, canonical}

Compatible(group) ==
    \/ \A r, s \in group : PlaceOf[r] = PlaceOf[s]
    \/ \A r, s \in group : NearOf[r] = NearOf[s] /\ Directed(Data, r)

ConfirmMerge(canonical, duplicates) ==
    LET group == duplicates \cup {canonical} IN
    /\ duplicates # {} /\ canonical \notin duplicates
    /\ group \subseteq active
    /\ Compatible(group) /\ ~Conflict(Data, group) /\ ~Conflicting(canonical, duplicates)
    /\ Keep(ApplyMerges([Data EXCEPT !.match =
              [s \in Stops |-> IF s \in duplicates THEN canonical ELSE @[s]]]))
    /\ UNCHANGED <<listed, taken, stage, current>>

-----------------------------------------------------------------------------
(* The import of a feed.  It takes no lock and has no transaction.         *)

PublishDataset(f) ==
    /\ listed[f] < Len(Versions[f])
    /\ listed' = [listed EXCEPT ![f] = @ + 1]
    /\ UNCHANGED <<taken, stage, current, active, called, match>>

Stage(f, now, next) == stage[f] = now /\ stage' = [stage EXCEPT ![f] = next]

BeginImport(f) ==
    /\ \/ Stage(f, "idle", "stops") /\ taken[f] # listed[f]
       \/ Stage(f, "failed", "stops")
    /\ taken' = [taken EXCEPT ![f] = listed[f]]
    /\ current' = {s \in current : FeedOf[s] # f}
    /\ UNCHANGED <<listed, active, called, match>>

\* Every stop of the dataset is active, whatever it was.
ImportStops(f) ==
    /\ Stage(f, "stops", "calls")
    /\ active' = active \cup Version(f).stops
    /\ current' = current \cup Version(f).stops
    /\ UNCHANGED <<listed, taken, called, match>>

ImportCalls(f) ==
    /\ Stage(f, "calls", "prune")
    /\ called' = [t \in Trips |-> IF t \in DOMAIN Version(f).calls THEN Version(f).calls[t]
                                 ELSE called[t]]
    /\ UNCHANGED <<listed, taken, current, active, match>>

\* prune_stale_feed_schedule_rows: what the dataset has no more goes, but for stops
\* that the feed's own trips still call at.
PruneStops(f) ==
    /\ Stage(f, "prune", "repair")
    /\ called' = [t \in Trips |-> IF t \in TripsOf(f) \ DOMAIN Version(f).calls THEN <<>> ELSE called[t]]
    /\ LET own == {s \in Stops : FeedOf[s] = f}
           served == own \cap UNION {Range(called'[t]) : t \in TripsOf(f)}
       IN  /\ current' = current \cup served
           /\ active' = (active \cup served) \ (own \ current')
    /\ UNCHANGED <<listed, taken, match>>

RepairImported(f) ==
    /\ Stage(f, "repair", "merge")
    /\ Keep(SafeRepairs(Data))
    /\ UNCHANGED <<listed, taken, current>>

\* Fault: the mappings are only applied where new ones are found.
Reapply_New(f) ==
    /\ Stage(f, "merge", "idle")
    /\ UNCHANGED <<listed, taken, current, active, called, match>>

Reapply(f) ==
    /\ Stage(f, "merge", "idle")
    /\ Keep(ApplyMerges(Data))
    /\ UNCHANGED <<listed, taken, current>>

\* A statement fails; what was written stays.
FailImport(f) ==
    /\ stage[f] \notin {"idle", "failed"}
    /\ stage' = [stage EXCEPT ![f] = "failed"]
    /\ UNCHANGED <<listed, taken, current, active, called, match>>

MergesNext ==
    \/ ApplySafeRepairs
    \/ \E canonical \in Stops, duplicates \in SUBSET Stops : ConfirmMerge(canonical, duplicates)
    \/ \E f \in Feeds :
         \/ PublishDataset(f) \/ BeginImport(f) \/ ImportStops(f) \/ ImportCalls(f) \/ PruneStops(f)
         \/ RepairImported(f) \/ Reapply(f) \/ FailImport(f)

MergesSpec == MergesInit /\ [][MergesNext]_stopVars

-----------------------------------------------------------------------------

ImportsDone == \A f \in Feeds : stage[f] = "idle"

\* A canonical stop is itself a duplicate, which only safe repairs bring about: they
\* look for a mapping of the duplicate, not for mappings to it.
Chained == \E s \in Merged(Data) : match[match[s]] # NoStop

\* With imports complete no duplicate is active and no trip calls at one.
Lasts == \A s \in Merged(Data) : s \notin active /\ \A t \in Trips : s \notin Range(called[t])

\* A merge outlives every import, but for chains: an import that brings the duplicate at
\* the end of one back moves its calls no further than the next.
MergesLast == (ImportsDone /\ ~Chained) => Lasts

\* "The data pipeline re-applies conservative repairs and confirmed mappings after each
\* import, preventing a later source refresh from silently undoing an administrator
\* decision" (docs/data-quality.md:69-71).
DecisionsLast == ImportsDone => Lasts

\* "A stop referenced by the latest enabled-feed schedule must remain routable even when
\* the upstream stops file omits or supersedes its platform row" (migration 0023).
CalledStopsAreActive ==
    ImportsDone => \A t \in Trips : Range(called[t]) \subseteq active
=============================================================================

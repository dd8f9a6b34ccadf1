----------------------------- MODULE FeedImport -----------------------------
(***************************************************************************)
(* The import of a schedule feed into PostgreSQL, as the data pipeline     *)
(* does it (services/data-pipeline/src/main.rs): no transaction spans an   *)
(* import, every statement and every batch is visible at once, and what    *)
(* guards the schedule is the row of import_runs, the keys the run has     *)
(* seen, and the order of the statements.                                  *)
(*                                                                         *)
(* A line stands for a route with a trip, the calls of the trip and its    *)
(* calendar.  Agencies, stops, routes, transfers and calendars are rows    *)
(* stamped with the run that wrote them last; trips, calls and shapes have *)
(* their keys in schedule_import_seen_keys.  The identifier of a run is    *)
(* fresh when no row and no run in force carries it.                       *)
(***************************************************************************)
EXTENDS Naturals, Sequences, FiniteSets, SequencesExt, Retention

CONSTANTS
    Lines,          \* routes of the feed, each with one trip
    Files,          \* versions of the published archive (their checksums)
    CallsOf,        \* per version, the calls of the lines it holds
    Runs,           \* identifiers of import runs
    Importers,      \* processes that import this feed
    Forced,         \* those started with --force-db-export
    Limited,        \* those started with --limit-rows
    FirstOf,        \* per version, the lines that fit in the limit
    Followed,       \* lines with a trip that a journey subscription refers to
    RunsKept,       \* DB_IMPORT_RUNS_TO_KEEP
    None,           \* no row
    MaxChanges,     \* bound: new versions published
    MaxFaults,      \* bound: imports cut off, tables lost
    Slow,           \* whether an import may be at work for over two hours
    Reconnects      \* whether an import goes on after the database restarted

LinesOf(f) == DOMAIN CallsOf[f]

\* A row of calls: what they say, and the run that wrote it.
Call == [says : UNION {{CallsOf[f][l] : l \in LinesOf(f)} : f \in Files}, run : Runs]

ASSUME FeedAssumption ==
    /\ None \notin Runs
    /\ \A f \in Files : DOMAIN CallsOf[f] \subseteq Lines
    /\ \A f \in Files : FirstOf[f] \subseteq DOMAIN CallsOf[f]
    /\ Forced \subseteq Importers /\ Limited \subseteq Importers
    /\ RunsKept \in Nat \ {0}
    /\ None \notin Files /\ None \notin Call

VARIABLES
    published,      \* the version the publisher serves
    route,          \* routes and calendars: the run that wrote the row
    service,
    trip,           \* trips: import_run_id of the row
    calls,          \* stop_times of the trip: what they say, and their run
    runs,           \* import_runs: the file and the status
    finished,       \* the successful runs, by finished_at
    seen,           \* schedule_import_seen_keys
    repairs,        \* completed data_repair_runs
    importer,       \* where each process is
    changes, faults

feedVars == <<published, route, service, trip, calls, runs, finished, seen,
              repairs, importer, changes, faults>>

\* What an importer reads of the archive.
Read(p, f) == IF p \in Limited THEN FirstOf[f] ELSE LinesOf(f)

Resting == [at |-> "resting", file |-> None, run |-> None, left |-> {}]

Steps == {"resting", "checking", "registering", "preparing", "routes", "trips",
          "calls", "calendars", "calls prune", "trips prune", "stamped prune",
          "clearing", "repairing", "succeeding", "retaining"}

ImportRun == [file : Files \cup {None}, complete : BOOLEAN \cup {None},
              status : {"none", "running", "old", "failed", "success"}]

Importer == [at : Steps, file : Files \cup {None}, run : Runs \cup {None}, left : SUBSET Lines]

FeedTypeOK ==
    /\ published \in Files
    /\ route \in [Lines -> Runs \cup {None}]
    /\ service \in [Lines -> Runs \cup {None}]
    /\ trip \in [Lines -> Runs \cup {None}]
    /\ calls \in [Lines -> Call \cup {None}]
    /\ runs \in [Runs -> ImportRun]
    /\ finished \in Seq(Runs)
    /\ seen \subseteq (Runs \X {"trip", "calls"} \X Lines)
    /\ repairs \in Nat
    /\ importer \in [Importers -> Importer]

FeedInit ==
    /\ published \in Files
    /\ route = [l \in Lines |-> None]
    /\ service = route
    /\ trip = route
    /\ calls = route
    /\ runs = [r \in Runs |-> [file |-> None, complete |-> None, status |-> "none"]]
    /\ finished = <<>>
    /\ seen = {}
    /\ repairs = 0
    /\ importer = [p \in Importers |-> Resting]
    /\ changes = 0
    /\ faults = 0

-----------------------------------------------------------------------------
(* What the database says.                                                 *)

\* Rows stamped with a run, and runs in force, keep its identifier taken.
Stamps == {route[l] : l \in Lines} \cup {service[l] : l \in Lines}
          \cup {trip[l] : l \in Lines}
          \cup {calls[l].run : l \in {k \in Lines : calls[k] # None}}

InForce(r) == runs[r].status \in {"running", "old", "success"}

Fresh == {r \in Runs : ~InForce(r) /\ r \notin Stamps /\ \A k \in seen : k[1] # r}

\* The last successful run of a version, None without one.
LastRunOf(f) ==
    LET newest == NewestIn({i \in DOMAIN finished : runs[finished[i]].file = f})
    IN IF newest = 0 THEN None ELSE finished[newest]

\* The schedule of a version is there, written by its last successful run.
HasCoreSchedule(r) ==
    /\ \E l \in Lines : trip[l] # None
    /\ \E l \in Lines : calls[l] # None
    /\ \A l \in Lines : trip[l] \in {None, r}

\* Fault: the checksum alone decides.
ChecksumUnchanged_Only(f) == LastRunOf(f) # None

\* The rest of database_import_skip_reason: the calendars must be there too.
ChecksumUnchanged(f) ==
    /\ LastRunOf(f) # None
    /\ runs[LastRunOf(f)].complete # FALSE
    /\ HasCoreSchedule(LastRunOf(f))
    /\ \E l \in Lines : service[l] # None

\* The published schedule is what the rows say.
Holds(f) ==
    \A l \in Lines :
        IF l \in LinesOf(f)
        THEN /\ None \notin {route[l], trip[l], service[l], calls[l]}
             /\ calls[l].says = CallsOf[f][l]
        ELSE trip[l] = None /\ calls[l] = None

-----------------------------------------------------------------------------
(* One import.                                                             *)

At(p, step) == importer[p].at = step

Go(p, step) == importer' = [importer EXCEPT ![p].at = step]

GoWith(p, step, left) ==
    importer' = [importer EXCEPT ![p].at = step, ![p].left = left]

\* The import ends with an error: its run is left as it is.
Abandon(p) == importer' = [importer EXCEPT ![p] = Resting]

\* The scheduler's pass, or the command, takes the current download.
Fetch(p) ==
    /\ At(p, "resting")
    /\ importer' = [importer EXCEPT ![p].file = published,
                        ![p].at = IF p \in Forced THEN "registering" ELSE "checking"]
    /\ UNCHANGED <<published, route, service, trip, calls, runs, finished, seen,
                   repairs, changes, faults>>

\* Runs that have been running for two hours are taken to be lost.
Recovered ==
    [r \in Runs |-> IF runs[r].status = "old"
                    THEN [runs[r] EXCEPT !.status = "failed"] ELSE runs[r]]

Check(p) ==
    /\ At(p, "checking")
    /\ runs' = Recovered
    /\ IF \/ \E r \in Runs : runs'[r].status \in {"running", "old"}
          \/ ChecksumUnchanged(importer[p].file)
       THEN Abandon(p)
       ELSE Go(p, "registering")
    /\ UNCHANGED <<published, route, service, trip, calls, finished, seen,
                   repairs, changes, faults>>

Register(p) ==
    /\ At(p, "registering")
    /\ Fresh # {}
    /\ LET r == CHOOSE r \in Fresh : TRUE IN
        /\ runs' = [runs EXCEPT ![r] = 
            [file |-> importer[p].file, complete |-> p \notin Limited, status |-> "running"]]
        /\ importer' = [importer EXCEPT ![p].at = "preparing", ![p].run = r]
    /\ UNCHANGED <<published, route, service, trip, calls, finished, seen,
                   repairs, changes, faults>>

\* The keys of runs that are not running any more are dropped, of every feed.
Prepare(p) ==
    /\ At(p, "preparing")
    /\ seen' = {k \in seen : k[1] # importer[p].run
                             /\ runs[k[1]].status \in {"running", "old"}}
    /\ Go(p, "routes")
    /\ UNCHANGED <<published, route, service, trip, calls, runs, finished,
                   repairs, changes, faults>>

Stamped(rows, p) ==
    [l \in Lines |-> IF l \in Read(p, importer[p].file) THEN importer[p].run ELSE rows[l]]

WriteRoutes(p) ==
    /\ At(p, "routes")
    /\ route' = Stamped(route, p)
    /\ GoWith(p, "trips", Read(p, importer[p].file))
    /\ UNCHANGED <<published, service, trip, calls, runs, finished, seen,
                   repairs, changes, faults>>

\* A batch of trips: the keys and the rows in one statement.  Without its
\* route, which a concurrent import may have deleted, the statement fails.
FlushTrips(p) ==
    /\ At(p, "trips")
    /\ \E l \in importer[p].left :
        IF route[l] = None
        THEN Abandon(p) /\ UNCHANGED <<trip, seen>>
        ELSE /\ trip' = [trip EXCEPT ![l] = importer[p].run]
             /\ seen' = seen \cup {<<importer[p].run, "trip", l>>}
             /\ IF importer[p].left = {l}
                THEN GoWith(p, "calls", Read(p, importer[p].file))
                ELSE GoWith(p, "trips", importer[p].left \ {l})
    /\ UNCHANGED <<published, route, service, calls, runs, finished, repairs,
                   changes, faults>>

\* Calls that say the same keep the run that wrote them.
Upserted(row, says, r) ==
    IF row # None /\ row.says = says THEN row ELSE [says |-> says, run |-> r]

\* Fault: only the rows that the statement changes count as seen.
SeenCalls_Changed(p, l) ==
    IF calls[l] # None /\ calls[l].says = CallsOf[importer[p].file][l] THEN {}
    ELSE {<<importer[p].run, "calls", l>>}

SeenCalls(p, l) == {<<importer[p].run, "calls", l>>}

FlushCalls(p) ==
    /\ At(p, "calls")
    /\ \E l \in importer[p].left :
        IF trip[l] = None
        THEN Abandon(p) /\ UNCHANGED <<calls, seen>>
        ELSE /\ calls' = [calls EXCEPT ![l] =
                    Upserted(@, CallsOf[importer[p].file][l], importer[p].run)]
             /\ seen' = seen \cup SeenCalls(p, l)
             /\ IF importer[p].left = {l}
                THEN GoWith(p, "calendars", {})
                ELSE GoWith(p, "calls", importer[p].left \ {l})
    /\ UNCHANGED <<published, route, service, trip, runs, finished, repairs,
                   changes, faults>>

\* The transfers and the calendars.
WriteCalendars(p) ==
    /\ At(p, "calendars")
    /\ service' = Stamped(service, p)
    /\ Go(p, "calls prune")
    /\ UNCHANGED <<published, route, trip, calls, runs, finished, seen,
                   repairs, changes, faults>>

\* Calls the run has not seen go, whichever import wrote them.
PruneCalls(p) ==
    /\ At(p, "calls prune")
    /\ IF p \in Limited
       THEN Go(p, "clearing") /\ UNCHANGED calls
       ELSE /\ calls' = [l \in Lines |->
                IF <<importer[p].run, "calls", l>> \in seen THEN calls[l] ELSE None]
            /\ Go(p, "trips prune")
    /\ UNCHANGED <<published, route, service, trip, runs, finished, seen,
                   repairs, changes, faults>>

\* A trip that calls or a subscription refer to cannot be deleted: the
\* statement, and with it the import, fails.
PruneTrips(p) ==
    /\ At(p, "trips prune")
    /\ LET gone == {l \in Lines : trip[l] # None
                                  /\ <<importer[p].run, "trip", l>> \notin seen}
       IN IF \E l \in gone : l \in Followed \/ calls[l] # None
          THEN Abandon(p) /\ UNCHANGED trip
          ELSE /\ trip' = [l \in Lines |-> IF l \in gone THEN None ELSE trip[l]]
               /\ Go(p, "stamped prune")
    /\ UNCHANGED <<published, route, service, calls, runs, finished, seen,
                   repairs, changes, faults>>

\* Rows that another run has stamped last.
PruneStamped(p) ==
    /\ At(p, "stamped prune")
    /\ LET kept(rows) == [l \in Lines |->
                IF rows[l] = importer[p].run THEN rows[l] ELSE None]
       IN IF \E l \in Lines : kept(route)[l] = None /\ trip[l] # None
          THEN Abandon(p) /\ UNCHANGED <<route, service>>
          ELSE /\ route' = kept(route)
               /\ service' = kept(service)
               /\ Go(p, "clearing")
    /\ UNCHANGED <<published, trip, calls, runs, finished, seen, repairs,
                   changes, faults>>

Clear(p) ==
    /\ At(p, "clearing")
    /\ seen' = {k \in seen : k[1] # importer[p].run}
    /\ Go(p, "repairing")
    /\ UNCHANGED <<published, route, service, trip, calls, runs, finished,
                   repairs, changes, faults>>

Repair(p) ==
    /\ At(p, "repairing")
    /\ repairs' = repairs + 1
    /\ Go(p, "succeeding")
    /\ UNCHANGED <<published, route, service, trip, calls, runs, finished, seen,
                   changes, faults>>

\* The summary of the run is replaced, and complete_dataset is not in it.
Succeed(p) ==
    /\ At(p, "succeeding")
    /\ LET r == importer[p].run
       IN /\ runs' = [runs EXCEPT ![r].status = "success", ![r].complete = None]
          /\ finished' = Append(finished, r)
    /\ Go(p, "retaining")
    /\ UNCHANGED <<published, route, service, trip, calls, seen, repairs,
                   changes, faults>>

\* The runs that are no longer kept, and that no row refers to, are deleted.
Retain(p) ==
    /\ At(p, "retaining")
    /\ LET kept == {finished[i] : i \in {j \in DOMAIN finished : j + RunsKept > Len(finished)}}
           gone == {r \in Runs : runs[r].status \in {"failed", "success"}
                                 /\ r \notin kept /\ r \notin Stamps}
       IN IF p \in Limited
          THEN UNCHANGED <<runs, finished>>
          ELSE /\ finished' = Kept(finished, {i \in DOMAIN finished : finished[i] \notin gone})
               /\ runs' = [r \in Runs |-> IF r \in gone
                    THEN [file |-> None, complete |-> None, status |-> "none"] ELSE runs[r]]
    /\ Abandon(p)
    /\ UNCHANGED <<published, route, service, trip, calls, seen, repairs,
                   changes, faults>>

Import(p) ==
    \/ Fetch(p) \/ Check(p) \/ Register(p) \/ Prepare(p)
    \/ WriteRoutes(p) \/ FlushTrips(p) \/ FlushCalls(p) \/ WriteCalendars(p)
    \/ PruneCalls(p) \/ PruneTrips(p) \/ PruneStamped(p)
    \/ Clear(p) \/ Repair(p) \/ Succeed(p) \/ Retain(p)

-----------------------------------------------------------------------------
(* What goes on around it.                                                 *)

\* A new version, or the one before again.
Publish ==
    /\ changes < MaxChanges
    /\ \E f \in Files \ {published} : published' = f
    /\ changes' = changes + 1
    /\ UNCHANGED <<route, service, trip, calls, runs, finished, seen, repairs,
                   importer, faults>>

\* Two hours pass.
Age(r) ==
    /\ runs[r].status = "running"
    /\ Slow \/ \A p \in Importers : importer[p].run # r
    /\ runs' = [runs EXCEPT ![r].status = "old"]
    /\ UNCHANGED <<published, route, service, trip, calls, finished, seen,
                   repairs, importer, changes, faults>>

\* No room on the volume, a lost connection, a killed process.
CutOff(p) ==
    /\ ~At(p, "resting")
    /\ faults < MaxFaults
    /\ faults' = faults + 1
    /\ Abandon(p)
    /\ UNCHANGED <<published, route, service, trip, calls, runs, finished, seen,
                   repairs, changes>>

\* PostgreSQL restarts after a crash: the table of seen keys is unlogged, and
\* an import that was between two statements takes another connection.
DatabaseCrash ==
    /\ faults < MaxFaults
    /\ faults' = faults + 1
    /\ seen' = {}
    /\ IF Reconnects THEN UNCHANGED importer
       ELSE importer' = [p \in Importers |-> Resting]
    /\ UNCHANGED <<published, route, service, trip, calls, runs, finished,
                   repairs, changes>>

\* Storage recovery: the regenerable rows of a table are dropped.
Lose ==
    /\ faults < MaxFaults
    /\ \A p \in Importers : At(p, "resting")
    /\ faults' = faults + 1
    /\ calls' = [l \in Lines |-> None]
    /\ UNCHANGED <<published, route, service, trip, runs, finished, seen,
                   repairs, importer, changes>>

FeedNext ==
    \/ \E p \in Importers : Import(p) \/ CutOff(p)
    \/ \E r \in Runs : Age(r)
    \/ Publish \/ DatabaseCrash \/ Lose

FeedFairness ==
    /\ \A p \in Importers : WF_feedVars(Import(p))
    /\ \A r \in Runs : WF_feedVars(Age(r))

FeedSpec == FeedInit /\ [][FeedNext]_feedVars /\ FeedFairness

-----------------------------------------------------------------------------
(* Properties.                                                             *)

\* An unchanged download is skipped only while the schedule it holds is what
\* the rows say (database_import_skip_reason).
SkipIsRight ==
    \A p \in Importers :
        At(p, "checking") /\ ChecksumUnchanged(importer[p].file)
            => Holds(importer[p].file)

\* A run that ends with success leaves the rows of its version and no others
\* (prune_stale_feed_schedule_rows and what comes before it).
SuccessIsWhole ==
    \A p \in Importers :
        At(p, "retaining") /\ p \notin Limited => Holds(importer[p].file)

\* Whatever is cut off, lost or published, the schedule comes to be the one
\* that the publisher serves (run_schedule_scheduler, and the stale rule).
EventuallyImported == <>[](Holds(published))

-----------------------------------------------------------------------------
(* The invariant behind SkipIsRight and SuccessIsWhole, for one importer   *)
(* that takes the whole of a version and is cut off with the database.     *)

Alone == (\A p, q \in Importers : p = q) /\ Limited = {} /\ ~Reconnects

\* The lines of the version whose trips, or calls, the import has written.
TripsIn(p) ==
    IF importer[p].at \in {"preparing", "routes"} THEN {}
    ELSE IF At(p, "trips") THEN LinesOf(importer[p].file) \ importer[p].left
    ELSE LinesOf(importer[p].file)

CallsIn(p) ==
    IF importer[p].at \in {"preparing", "routes", "trips"} THEN {}
    ELSE IF At(p, "calls") THEN LinesOf(importer[p].file) \ importer[p].left
    ELSE LinesOf(importer[p].file)

\* The steps of an import, from some of them on.
FromClearing == {"clearing", "repairing", "succeeding", "retaining"}
FromStamped == {"stamped prune"} \cup FromClearing
FromTrips == {"trips prune"} \cup FromStamped
FromPrune == {"calls prune"} \cup FromTrips
FromCalls == {"calls", "calendars"} \cup FromPrune
Working == {"preparing", "routes", "trips"} \cup FromCalls

\* An import has a version and a run of its own.
RunOK(p) ==
    /\ ~At(p, "resting") => importer[p].file \in Files
    /\ importer[p].at \in Working =>
        /\ importer[p].run \in Runs
        /\ runs[importer[p].run].file = importer[p].file
        /\ ~At(p, "retaining") => runs[importer[p].run].status \in {"running", "old"}

\* It has written the rows it has come past, and knows them by their keys.
RowsOK(p) ==
    importer[p].at \in Working =>
        /\ \A l \in TripsIn(p) : trip[l] = importer[p].run
        /\ \A l \in CallsIn(p) :
             calls[l] # None /\ calls[l].says = CallsOf[importer[p].file][l]
        /\ importer[p].at \notin FromClearing => \A l \in Lines :
             /\ <<importer[p].run, "trip", l>> \in seen <=> l \in TripsIn(p)
             /\ <<importer[p].run, "calls", l>> \in seen <=> l \in CallsIn(p)
        /\ importer[p].at \in {"trips", "calls"} =>
             importer[p].left \subseteq LinesOf(importer[p].file)

\* What its later steps leave of the rows.
TablesOK(p) ==
    LET own == LinesOf(importer[p].file) IN
    /\ importer[p].at \in {"trips"} \cup FromCalls =>
         \A l \in own : route[l] = importer[p].run
    /\ importer[p].at \in FromCalls => own # {}
    /\ importer[p].at \in FromPrune => \A l \in own : service[l] = importer[p].run
    /\ importer[p].at \in FromTrips => \A l \in Lines \ own : calls[l] = None
    /\ importer[p].at \in FromStamped => \A l \in Lines \ own : trip[l] = None

\* While nothing but the trips of a successful run are there, and calls, they are the
\* schedule it imported.
HistoryOK ==
    /\ \A i \in DOMAIN finished : runs[finished[i]].status = "success"
    /\ \A l \in Lines : trip[l] # None => route[l] # None
    /\ \A r \in Runs : runs[r].status = "success" =>
        /\ runs[r].file \in Files /\ LinesOf(runs[r].file) # {}
        /\ HasCoreSchedule(r) => Holds(runs[r].file)

FeedInv ==
    /\ FeedTypeOK /\ Alone /\ HistoryOK
    /\ \A p \in Importers : RunOK(p) /\ RowsOK(p) /\ TablesOK(p)

=============================================================================

-------------------------- MODULE RoutingSnapshot --------------------------
(***************************************************************************)
(* The timetable the API searches in memory, for one service date          *)
(* (services/api/src/lib.rs).  It is kept under the revision of the data,  *)
(* read before the timetable is looked up, loaded from a snapshot on disk  *)
(* or built from the rows of the feed, while imports change those rows.    *)
(* A caller is a search or the background warmer.                          *)
(***************************************************************************)
EXTENDS FeedImport

CONSTANTS
    Searches,       \* requests that need the timetable
    Warmer,         \* the background task
    MaxToggles      \* bound: times an administrator changes source_feeds.enabled

ASSUME SnapshotAssumption == Warmer \notin Searches

Callers == Searches \cup {Warmer}

VARIABLES
    enabled,        \* source_feeds.enabled
    memory,         \* the cells of RaptorCache: revision and timetable, or Empty
    files,          \* the snapshots, the last written one last
    caller,         \* where each caller is
    toggles

snapshotVars == <<enabled, memory, files, caller, toggles>>
vars == <<feedVars, snapshotVars>>

\* A cell that is being filled.
Empty == {None}

Aside == [at |-> "aside", token |-> None, found |-> Empty]

\* A revision, and a timetable kept under one.
Tokens == (Runs \cup {None}) \X Nat \X BOOLEAN

Timetables == SUBSET ((Lines \X {c.says : c \in Call}) \cup {None})

Cells == [token : Tokens, timetable : Timetables]

TypeOK ==
    /\ FeedTypeOK
    /\ enabled \in BOOLEAN
    /\ memory \subseteq Cells
    /\ files \in Seq(Cells)
    /\ caller \in [Callers -> [at : {"aside", "looking", "building", "writing", "ensuring"},
                               token : Tokens \cup {None}, found : Timetables]]
    /\ toggles \in Nat

Init ==
    /\ FeedInit
    /\ enabled = TRUE
    /\ memory = {}
    /\ files = <<>>
    /\ caller = [q \in Callers |-> Aside]
    /\ toggles = 0

-----------------------------------------------------------------------------

LastSuccess == IF finished = <<>> THEN None ELSE Last(finished)

\* Fault: the revision is the time of the last repairs only.
Revision_Repairs == <<None, repairs, enabled>>

\* The token: the last successful run, the last repairs, the enabled feeds.
Revision == <<LastSuccess, repairs, enabled>>

\* The calls of the trips that the last successful run has written.
Timetable ==
    {<<l, calls[l].says>> : l \in {k \in Lines :
        /\ enabled
        /\ LastSuccess # None
        /\ trip[k] = LastSuccess
        /\ route[k] # None
        /\ calls[k] # None
        /\ service[k] # None \/ \A m \in Lines : service[m] = None}}

Cell(token) == {c \in memory : c.token = token}

Filled(token) == \E c \in Cell(token) : c.timetable # Empty

InMemory(token) == (CHOOSE c \in Cell(token) : TRUE).timetable

\* Where the snapshot of a revision is among them.
Snapshot(token) == {n \in DOMAIN files : files[n].token = token}

Written(token, timetable) ==
    Append(Kept(files, DOMAIN files \ Snapshot(token)),
           [token |-> token, timetable |-> timetable])

Turn(q, step, found) ==
    caller' = [caller EXCEPT ![q].at = step, ![q].found = found]

\* The warmer goes on to its snapshot file, a search with its journeys.
Served(q, timetable) ==
    IF q = Warmer THEN Turn(q, "ensuring", timetable)
    ELSE caller' = [caller EXCEPT ![q] = Aside]

ReadRevision(q) ==
    /\ caller[q].at = "aside"
    /\ caller' = [caller EXCEPT ![q] = [at |-> "looking", token |-> Revision, found |-> Empty]]
    /\ UNCHANGED <<feedVars, enabled, memory, files, toggles>>

\* A cell that a caller of another revision has dropped is filled for nobody.
Fill(token, timetable) ==
    IF Cell(token) = {} THEN memory
    ELSE (memory \ Cell(token)) \cup {[token |-> token, timetable |-> timetable]}

\* Fault: the newest snapshot will do, whatever revision it was written for.
Usable_Newest(token) == DOMAIN files

\* The snapshot of the revision.
Usable(token) == Snapshot(token)

\* Cells of other revisions are dropped.  One caller at a time fills a cell,
\* with the snapshot or else from the rows.
LookUp(q) ==
    /\ caller[q].at = "looking"
    /\ LET token == caller[q].token
           kept(timetable) == memory' = {[token |-> token, timetable |-> timetable]}
       IN /\ Cell(token) # {} /\ ~Filled(token) => \A o \in Callers :
                caller[o].at \in {"building", "writing"} => caller[o].token # token
          /\ IF Filled(token)
             THEN kept(InMemory(token)) /\ Served(q, InMemory(token))
             ELSE IF Usable(token) # {}
             THEN /\ kept(files[NewestIn(Usable(token))].timetable)
                  /\ Served(q, files[NewestIn(Usable(token))].timetable)
             ELSE kept(Empty) /\ Turn(q, "building", Empty)
    /\ UNCHANGED <<feedVars, enabled, files, toggles>>

Build(q) ==
    /\ caller[q].at = "building"
    /\ Turn(q, "writing", Timetable)
    /\ UNCHANGED <<feedVars, enabled, memory, files, toggles>>

\* The snapshot may not be written: the search goes on from memory.
Write(q) ==
    /\ caller[q].at = "writing"
    /\ \/ files' = Written(caller[q].token, caller[q].found)
       \/ UNCHANGED files
    /\ memory' = Fill(caller[q].token, caller[q].found)
    /\ Served(q, caller[q].found)
    /\ UNCHANGED <<feedVars, enabled, toggles>>

\* A timetable that is in memory and has no snapshot gets one, and of the
\* revisions of a date the snapshot written last is kept.
Ensure(q) ==
    /\ caller[q].at = "ensuring"
    /\ files' = <<IF Snapshot(caller[q].token) = {}
                  THEN [token |-> caller[q].token, timetable |-> caller[q].found]
                  ELSE Last(files)>>
    /\ caller' = [caller EXCEPT ![q] = Aside]
    /\ UNCHANGED <<feedVars, enabled, memory, toggles>>

Proceed(q) == LookUp(q) \/ Build(q) \/ Write(q) \/ Ensure(q)

\* The API starts again, with what is on disk.
Restart ==
    /\ faults < MaxFaults
    /\ faults' = faults + 1
    /\ memory' = {}
    /\ caller' = [q \in Callers |-> Aside]
    /\ UNCHANGED <<published, route, service, trip, calls, runs, finished, seen,
                   repairs, importer, changes, enabled, files, toggles>>

\* admin_source_feed_patch
Toggle ==
    /\ toggles < MaxToggles
    /\ toggles' = toggles + 1
    /\ enabled' = ~enabled
    /\ UNCHANGED <<feedVars, memory, files, caller>>

Next ==
    \/ FeedNext /\ UNCHANGED snapshotVars
    \/ \E q \in Callers : ReadRevision(q) \/ Proceed(q)
    \/ Restart
    \/ Toggle

Fairness ==
    /\ FeedFairness
    /\ WF_vars(ReadRevision(Warmer))
    /\ \A q \in Callers : WF_vars(Proceed(q))

Spec == Init /\ [][Next]_vars /\ Fairness

-----------------------------------------------------------------------------

\* No import is at work, and the last that succeeded is the last that wrote.
Settled ==
    /\ finished # <<>>
    /\ \A p \in Importers :
        importer[p].at \in {"resting", "checking", "registering", "retaining"}
    /\ \A l \in Lines : trip[l] \in {None, LastSuccess}
    /\ Holds(runs[LastSuccess].file)

\* Once an import is through, a timetable kept under the revision of the data,
\* in memory or on disk, is the whole schedule: what was built of the rows
\* while they were being replaced is under another revision
\* (raptor_timetable_cached_for_revision_db, routing_data_revision).
CurrentTimetableIsWhole ==
    Settled =>
        \A c \in memory \cup ToSet(files) :
            c.token = Revision /\ c.timetable # Empty => c.timetable = Timetable

\* The searches come to be answered from the schedule that is published
\* (warm_raptor_timetables).
EventuallyServed ==
    <>[](enabled => \E c \in Cell(Revision) :
        c.timetable = {<<l, CallsOf[published][l]>> : l \in LinesOf(published)})

-----------------------------------------------------------------------------
(* The invariant behind CurrentTimetableIsWhole, while source_feeds.enabled *)
(* changes once at most: a second change gives a revision its name again.   *)

\* The schedule of the last successful run is there, and nothing else.
WholeSchedule ==
    /\ finished # <<>>
    /\ \A l \in Lines : trip[l] \in {None, LastSuccess}
    /\ Holds(runs[LastSuccess].file)

\* The timetables in memory, on disk and in the hands of a caller.
Held ==
    memory \cup ToSet(files)
    \cup {[token |-> caller[q].token, timetable |-> caller[q].found] :
             q \in {c \in Callers : caller[c].at # "aside"}}

\* A revision that has been read does not come back: its repairs are past,
\* the run that is about to succeed is not its run, and a feed that is
\* disabled stays so.
NotAhead(token) ==
    /\ token \in Tokens
    /\ token[2] <= repairs
    /\ \A p \in Importers :
         At(p, "succeeding") /\ token[2] = repairs => token[1] # importer[p].run
    /\ token[3] \/ toggles # 0

\* What is kept under the revision of a complete schedule is that schedule.
IsCurrent(c) ==
    c.token = Revision /\ WholeSchedule /\ c.timetable # Empty => c.timetable = Timetable

SnapshotInv ==
    /\ FeedInv /\ TypeOK
    /\ enabled <=> toggles = 0
    /\ \A c \in Held : NotAhead(c.token) /\ IsCurrent(c)

=============================================================================

---------------------------- MODULE WalkingAccess ----------------------------
(***************************************************************************)
(* Walks that the pedestrian router has confirmed (services/api/src/lib.rs,*)
(* nearby_journey_transfers_db, walking_route_cached_db and                *)
(* implicit_station_transfers_db): the walks near an endpoint of a         *)
(* question, kept in memory per revision of the timetable data, and the    *)
(* walks between the stops of a station that go into a timetable.  Both    *)
(* ask the router through the table pedestrian_route_cache, with limits of *)
(* their own.                                                              *)
(***************************************************************************)
EXTENDS Integers, FiniteSets

CONSTANTS
  Tasks,      \* questions for the walks near a place
  Builds,     \* builds of a timetable
  Pairs,      \* ordered pairs of points near each other in a straight line
  WayOf,      \* pair -> what the router answers: see Verdicts
  Revisions,  \* how often the revision of the timetable data changes
  MaxOutages, \* bound on the outages of the router
  None

\* "near" and "middle" are walks, the first within MAX_INTERCHANGE_WALKING_DISTANCE_M,
\* both within MAX_ENDPOINT_WALKING_DISTANCE_M; "beyond" exceeds both.
Walks == {"near", "middle", "beyond"}
Verdicts == Walks \cup {"no route"}

\* What the model asks of its parameters.
WalkingAssumption ==
  /\ WayOf \in [Pairs -> Verdicts] /\ Revisions \in Nat /\ MaxOutages \in Nat
  /\ Tasks \cap Builds = {} /\ None \notin Tasks \cup Pairs

Workers == Tasks \cup Builds

VARIABLES
  up,        \* the router answers
  outages,   \* how often it stopped
  revision,  \* routing_data_revision
  walked,    \* pedestrian_route_cache: pair -> verdict, or None
  map,       \* EndpointAccessCache: revision -> the cell (named after its creator), or None
  cell,      \* OnceCell: [full, walks, failed], failed if a pair was refused by an outage
  task,      \* worker -> [at, revision, cell, todo, pair, told, walks, failed]
  answer     \* worker -> the walks it was given, or None

accessVars == <<up, outages, revision, walked, map, cell, task, answer>>

Empty == [full |-> FALSE, walks |-> {}, failed |-> FALSE]
Unasked == [at |-> "idle", revision |-> 0, cell |-> None, todo |-> Pairs, pair |-> None,
         told |-> None, walks |-> {}, failed |-> FALSE]

AccessInit ==
  /\ up = TRUE /\ outages = 0 /\ revision = 0
  /\ walked = [p \in Pairs |-> None]
  /\ map = [r \in 0 .. Revisions |-> None]
  /\ cell = [t \in Tasks |-> Empty]
  /\ task = [w \in Workers |-> Unasked]
  /\ answer = [w \in Workers |-> None]

AccessTypeOK ==
  /\ up \in BOOLEAN /\ outages \in 0 .. MaxOutages /\ revision \in 0 .. Revisions
  /\ walked \in [Pairs -> Verdicts \cup {None}]
  /\ map \in [0 .. Revisions -> Tasks \cup {None}]
  /\ \A w \in Workers : /\ task[w].at \in {"idle", "key", "cell", "look", "ask", "store", "done"}
                        /\ task[w].walks \subseteq Pairs /\ task[w].todo \subseteq Pairs
                        /\ answer[w] = None \/ answer[w] \subseteq Pairs

-----------------------------------------------------------------------------
(* The memory.                                                             *)

\* A question reads the revision before it looks for the cell.
Begin(t) ==
  /\ task[t].at = "idle"
  /\ task' = [task EXCEPT ![t].at = "key", ![t].revision = revision]
  /\ UNCHANGED <<up, outages, revision, walked, map, cell, answer>>

\* Cells of other revisions, older or newer, are dropped; whoever holds one keeps it.
FindCell(t) ==
  LET r == task[t].revision
      own == IF map[r] = None THEN t ELSE map[r]
  IN  /\ task[t].at = "key"
      /\ map' = [s \in DOMAIN map |-> IF s = r THEN own ELSE None]
      /\ task' = [task EXCEPT ![t].at = "cell", ![t].cell = own]
      /\ UNCHANGED <<up, outages, revision, walked, cell, answer>>

Give(w, walks) == answer' = [answer EXCEPT ![w] = IF @ = None THEN walks ELSE @]

Hit(t) ==
  /\ task[t].at = "cell" /\ cell[task[t].cell].full
  /\ Give(t, cell[task[t].cell].walks)
  /\ task' = [task EXCEPT ![t].at = "done"]
  /\ UNCHANGED <<up, outages, revision, walked, map, cell>>

\* One at a time fills a cell, the others wait for it (get_or_try_init).
Filling(c) == \E t \in Tasks : task[t].cell = c /\ task[t].at \in {"look", "ask", "store"}

Fill(t) ==
  /\ task[t].at = "cell" /\ ~cell[task[t].cell].full /\ ~Filling(task[t].cell)
  /\ task' = [task EXCEPT ![t].at = "look"]
  /\ UNCHANGED <<up, outages, revision, walked, map, cell, answer>>

\* A timetable is built without the memory.
Build(b) ==
  /\ task[b].at = "idle"
  /\ task' = [task EXCEPT ![b].at = "look"]
  /\ UNCHANGED <<up, outages, revision, walked, map, cell, answer>>

-----------------------------------------------------------------------------
(* One pair after another.                                                 *)

WithinLimit(w, verdict) ==
  verdict \in (IF w \in Builds THEN {"near"} ELSE {"near", "middle"})

Decided(w, p, verdict) ==
  task' = [task EXCEPT ![w].at = "look", ![w].pair = None, ![w].told = None, ![w].todo = @ \ {p},
             ![w].walks = IF WithinLimit(w, verdict) THEN @ \cup {p} ELSE @]

\* A row that has not expired decides.
LookUp(w) ==
  /\ task[w].at = "look" /\ task[w].todo # {}
  /\ LET p == CHOOSE q \in task[w].todo : TRUE IN
     IF walked[p] # None THEN Decided(w, p, walked[p])
     ELSE task' = [task EXCEPT ![w].at = "ask", ![w].pair = p]
  /\ UNCHANGED <<up, outages, revision, walked, map, cell, answer>>

\* The router is asked up to three times; without an answer the pair is passed over
\* and nothing is stored.
AskRouter(w) ==
  /\ task[w].at = "ask"
  /\ task' = IF up THEN [task EXCEPT ![w].at = "store", ![w].told = WayOf[task[w].pair]]
             ELSE [task EXCEPT ![w].at = "look", ![w].todo = @ \ {task[w].pair},
                               ![w].pair = None, ![w].failed = TRUE]
  /\ UNCHANGED <<up, outages, revision, walked, map, cell, answer>>

\* What is stored is the way itself; only the answer depends on the limit.
Store(w) ==
  /\ task[w].at = "store"
  /\ LET p == task[w].pair IN
     /\ walked' = [walked EXCEPT ![p] = task[w].told]
     /\ Decided(w, p, task[w].told)
  /\ UNCHANGED <<up, outages, revision, map, cell, answer>>

\* The walks found stay in memory, those missed in an outage included.
Filled(t) ==
  /\ t \in Tasks /\ task[t].at = "look" /\ task[t].todo = {}
  /\ cell' = [cell EXCEPT ![task[t].cell] =
                [full |-> TRUE, walks |-> task[t].walks, failed |-> task[t].failed]]
  /\ Give(t, task[t].walks)
  /\ task' = [task EXCEPT ![t].at = "done"]
  /\ UNCHANGED <<up, outages, revision, walked, map>>

\* Fault: what could be confirmed is published.
MayPublish_Always(b) == TRUE

MayPublish(b) == ~task[b].failed

\* A build that could not verify a pair fails.
Built(b) ==
  /\ b \in Builds /\ task[b].at = "look" /\ task[b].todo = {}
  /\ answer' = [answer EXCEPT ![b] = IF MayPublish(b) THEN task[b].walks ELSE None]
  /\ task' = [task EXCEPT ![b].at = "done"]
  /\ UNCHANGED <<up, outages, revision, walked, map, cell>>

\* The question goes on without walks after ROUTING_ENDPOINT_ACCESS_BUDGET_MILLIS; the
\* search for them does not stop.
GiveUp(t) ==
  /\ task[t].at \notin {"idle", "done"} /\ answer[t] = None
  /\ Give(t, {})
  /\ UNCHANGED <<up, outages, revision, walked, map, cell, task>>

-----------------------------------------------------------------------------
(* The world.                                                              *)

Outage ==
  /\ up /\ outages < MaxOutages
  /\ up' = FALSE /\ outages' = outages + 1
  /\ UNCHANGED <<revision, walked, map, cell, task, answer>>

Restored ==
  /\ ~up /\ up' = TRUE
  /\ UNCHANGED <<outages, revision, walked, map, cell, task, answer>>

Import ==
  /\ revision < Revisions /\ revision' = revision + 1
  /\ UNCHANGED <<up, outages, walked, map, cell, task, answer>>

Expire(p) ==
  /\ walked[p] # None /\ walked' = [walked EXCEPT ![p] = None]
  /\ UNCHANGED <<up, outages, revision, map, cell, task, answer>>

AccessNext ==
  \/ \E t \in Tasks : Begin(t) \/ FindCell(t) \/ Hit(t) \/ Fill(t) \/ Filled(t) \/ GiveUp(t)
  \/ \E b \in Builds : Build(b) \/ Built(b)
  \/ \E w \in Workers : LookUp(w) \/ AskRouter(w) \/ Store(w)
  \/ Outage \/ Restored \/ Import \/ \E p \in Pairs : Expire(p)

AccessSpec == AccessInit /\ [][AccessNext]_accessVars

-----------------------------------------------------------------------------

\* A timetable that is published has every walk between the stops of its stations
\* that the router confirms within the limit, and no other, whatever other requests
\* left in the table and however long the router was away (docs/routing-spec.md:132-134).
GraphIsWhole ==
  \A b \in Builds : answer[b] # None => answer[b] = {p \in Pairs : WayOf[p] = "near"}

\* Walks in memory are within the limit of an endpoint, and one is missing only if
\* the router was away while the cell was filled.
MemoryIsWhole ==
  \A t \in Tasks : cell[t].full =>
    /\ cell[t].walks \subseteq {p \in Pairs : WayOf[p] \in {"near", "middle"}}
    /\ ~cell[t].failed => {p \in Pairs : WayOf[p] \in {"near", "middle"}} \subseteq cell[t].walks
=============================================================================

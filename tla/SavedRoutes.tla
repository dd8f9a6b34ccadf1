---------------------------- MODULE SavedRoutes ----------------------------
(***************************************************************************)
(* The saved routes of one account and the phones that synchronise them,   *)
(* as the handlers in controllers/account.rs and the trigger of migration  *)
(* 0036 keep them.  A statement takes its now() when it begins and is seen *)
(* when it commits; a phone writes with the version it has last seen and   *)
(* reads what changed since the server_time of its last read.              *)
(***************************************************************************)
EXTENDS Naturals, FiniteSets

CONSTANTS
    Phones,         \* devices of the account
    Routes,         \* identifiers that can be given out (bound)
    Contents,       \* what a saved route may say
    Limit,          \* 100 live routes in the code
    MaxClock,       \* bound on the clock
    MaxRowVersion      \* bound on the version of a row

\* What the model asks of its parameters.
RoutesAssumption ==
    /\ Contents # {} /\ Limit \in Nat \ {0} /\ MaxClock \in Nat /\ MaxRowVersion \in Nat \ {0}

VARIABLES
    clock,
    row,            \* saved_routes: content, version, updated_at, deleted_at
    copy,           \* what each phone knows of a route
    cursor,         \* the server_time a phone passes as since
    call            \* the statement a phone's request is in

routeVars == <<clock, row, copy, cursor, call>>

NoRoute == [state |-> "none"]
NoCall == [op |-> "idle"]
Live(r) == row[r].state = "live"

\* Types of the variables.
RoutesTypeOK ==
    /\ clock \in 0 .. MaxClock
    /\ \A r \in Routes : row[r].state \in {"none", "live", "deleted"}
    /\ cursor \in [Phones -> 0 .. MaxClock]
    /\ \A p \in Phones, r \in Routes :
         copy[p][r] # NoRoute => copy[p][r].version \in 1 .. MaxRowVersion

RoutesInit ==
    /\ clock = 1
    /\ row = [r \in Routes |-> NoRoute]
    /\ copy = [p \in Phones |-> [r \in Routes |-> NoRoute]]
    /\ cursor = [p \in Phones |-> 0]
    /\ call = [p \in Phones |-> NoCall]

Tick == clock < MaxClock /\ clock' = clock + 1 /\ UNCHANGED <<row, copy, cursor, call>>

CallStarts(p, state) ==
    /\ call[p].op = "idle"
    /\ call' = [call EXCEPT ![p] = state]
    /\ UNCHANGED <<clock, row, copy, cursor>>

\* The row is written and returned to the phone that wrote it.
Writes(p, r, new) ==
    /\ row' = [row EXCEPT ![r] = new]
    /\ copy' = [copy EXCEPT ![p][r] = new]
    /\ call' = [call EXCEPT ![p] = NoCall]
    /\ UNCHANGED <<clock, cursor>>

Conflict(p) ==
    /\ call' = [call EXCEPT ![p] = NoCall]
    /\ UNCHANGED <<clock, row, copy, cursor>>

\* create_saved_route counts the live routes in a statement of its own.
CountRoutes(p, content) ==
    /\ Cardinality({r \in Routes : Live(r)}) < Limit
    /\ CallStarts(p, [op |-> "create", content |-> content, now |-> clock])

InsertRoute(p, r) ==
    /\ call[p].op = "create" /\ row[r] = NoRoute
    /\ \E now \in call[p].now .. clock :
         Writes(p, r, [state |-> "live", content |-> call[p].content,
                       version |-> 1, at |-> now])

\* Fault: the trigger only notes the time.
Touched_Time(old, new, now) == [new EXCEPT !.at = now]

\* The trigger: a new updated_at always, a new version when something changes.
Touched(old, new, now) ==
    [new EXCEPT !.at = now,
                !.version = IF new.content # old.content \/ new.state # old.state
                            THEN old.version + 1 ELSE old.version]

\* WHERE version = expected AND deleted_at IS NULL
Matches(r, expected) == Live(r) /\ row[r].version = expected

\* An update or a deletion begins with the version the phone knows.
StartWrite(p, r, state, content) ==
    /\ copy[p][r] # NoRoute /\ copy[p][r].version < MaxRowVersion
    /\ CallStarts(p, [op |-> "write", route |-> r, state |-> state, content |-> content,
                  expected |-> copy[p][r].version, now |-> clock])

CommitWrite(p) ==
    /\ call[p].op = "write"
    /\ LET r == call[p].route IN
         IF Matches(r, call[p].expected)
         THEN Writes(p, r, Touched(row[r],
                [row[r] EXCEPT !.state = call[p].state,
                               !.content = IF call[p].state = "deleted" THEN @
                                           ELSE call[p].content],
                call[p].now))
         ELSE Conflict(p)

\* list_saved_routes: one query over what is committed, changed since the
\* cursor; a first read leaves tombstones out ...
Changed(p) ==
    {r \in Routes : /\ row[r] # NoRoute
                    /\ cursor[p] = 0 => Live(r)
                    /\ row[r].at > cursor[p]}

ReadRoutes(p) ==
    CallStarts(p, [op |-> "list", rows |-> [r \in Changed(p) |-> row[r]]])

\* ... and server_time is taken after it.
AnswerList(p) ==
    /\ call[p].op = "list"
    /\ copy' = [copy EXCEPT ![p] = [r \in Routes |->
         IF r \in DOMAIN call[p].rows THEN call[p].rows[r] ELSE copy[p][r]]]
    /\ cursor' = [cursor EXCEPT ![p] = clock]
    /\ call' = [call EXCEPT ![p] = NoCall]
    /\ UNCHANGED <<clock, row>>

RoutesNext ==
    \/ Tick
    \/ \E p \in Phones :
         \/ \E content \in Contents : CountRoutes(p, content)
         \/ \E r \in Routes :
              \/ InsertRoute(p, r)
              \/ \E content \in Contents : StartWrite(p, r, "live", content)
              \/ StartWrite(p, r, "deleted", CHOOSE c \in Contents : TRUE)
         \/ CommitWrite(p) \/ ReadRoutes(p) \/ AnswerList(p)

RoutesSpec == RoutesInit /\ [][RoutesNext]_routeVars

-----------------------------------------------------------------------------
\* A version stands for one content: a phone that holds the current version
\* of a route holds what the server holds, so that a write it makes under
\* expected_version cannot overwrite a change it has not seen.
VersionNamesContent ==
    \A p \in Phones, r \in Routes :
      copy[p][r] # NoRoute /\ copy[p][r].version = row[r].version =>
        copy[p][r].content = row[r].content /\ copy[p][r].state = row[r].state

\* docs/auth.md: routes are persisted complete across devices and incremental
\* reads accept since.  A phone whose cursor has passed a change has it; a
\* change between the query and server_time is never sent.
SyncIsComplete ==
    \A p \in Phones, r \in Routes :
      row[r] # NoRoute /\ call[p] = NoCall /\ row[r].at < cursor[p] =>
        copy[p][r] # NoRoute /\ copy[p][r].version = row[r].version
=============================================================================

# Cesta API: TLA+ models, model checking and proofs

Cesta API is the backend of a Czech public transport app: a Rust web service
(`services/api`), a data pipeline that imports timetables (`services/data-pipeline`), a
worker that imports realtime data and sends push notifications
(`services/realtime-worker`) and libraries for routing and GTFS (`crates/`), all around
one PostgreSQL database. This directory holds TLA+ models of its stateful and algorithmic
parts, the TLC configurations that check them and machine-checked proofs about them.

Contents: [inventory](#inventory), [plan](#plan), [modules](#modules),
[runs](#runs), [proofs](#proofs), [limits](#limits).

## Inventory

### Components, their state, their operations

| component | code | state | operations that change it |
|---|---|---|---|
| Ticket orders | `services/api/src/ticketing.rs` | `cd_ticketing_orders`, `_documents`, `_tickets`; a copy of each in every process (`MemoryStore`); a local mutex per order; the booking at ČD and the checkout session at the payment provider | create, refresh quote, select offer, reservations / bicycles / dogs, cancel, checkout, complete |
| Idempotency keys | `ticketing.rs`, `idempotent` | `cd_ticketing_idempotency` with a two minute lease; results in memory; a local mutex per key | every commercial mutation runs inside it |
| Refunds | `ticketing.rs`, `refund`, `reconcile_refunds_once` | `cd_ticketing_refunds`, `_refund_cursor`, `returned` of a ticket | refund a ticket; a background task of every process applies ČD's refund events |
| Ticket searches, intents, price annotation | `ticketing.rs` | references of journeys and searches with what ČD calls their connections, in the memory of every process and in `cd_ticketing_journey_refs` and `cd_ticketing_searches`; locations, rate windows | annotate journeys, search, take a journey to its connection, page, choose a connection |
| ČD client | `services/api/src/cd.rs` | none | 31 signed HTTP calls |
| Accounts and sessions | `controllers/account.rs`, `services/auth.rs`, `repositories/users.rs` | `users` (`auth_version`, `deleted_at`), `user_sessions`, `password_reset_tokens`, `auth_attempts`, and copies in memory | register, login, refresh, logout, change / reset password, delete |
| Saved data and devices | `controllers/account.rs`, migration 0036 | saved places, favourites, saved routes with versions and tombstones, devices, subscriptions | create / update / delete with `expected_version` |
| Push delivery | `services/realtime-worker/src/main.rs` | `push_deliveries`, and `enabled` of a device | enqueue after a batch, reclaim after five minutes, claim, send, record or retry |
| Realtime import | `realtime-worker/src/main.rs`, `duk.rs`; read in `services/api/src/lib.rs` | `realtime_updates`, `data_source_syncs`, the API's cached summaries | three loops fetch, deduplicate and upsert in chunks, delete what expired; a search plans with the summaries and annotates its legs with all rows |
| Timetable import | `services/data-pipeline/src/main.rs` | `storage/raw`, `import_runs`, `schedule_import_seen_keys`, the schedule tables | download or use again, import statement by statement, prune, repair, retain |
| GTFS reading, regional mapping | `crates/gtfs-importer`, `crates/geodata-matcher`, `crates/transit-model` | none (pure) | parse, normalise, match, merge |
| Routing core | `crates/routing-core` | the arrays of one search | group trips into routes, look up delays, RAPTOR rounds, direct services, departures to probe, connection scan |
| Timetable in memory | `services/api/src/lib.rs` | timetables under the revision of the data: cells in memory, snapshots on disk | read the revision, load or build and write, warm, drop old ones |
| Journey planning | `services/api/src/lib.rs` | the candidates of one question | probe the day, fall back to unverified services, direct ones and the next day, prefer verified, select, attach geometry, rank |
| Walking routes | `services/api/src/lib.rs` | `pedestrian_route_cache`, the cells of `EndpointAccessCache` | ask the router, store, fill a cell, give up, build the walks of stations |
| Admin and merges | `lib.rs`, `controllers/system.rs`, migrations 0016-0018 | `manual_stop_matches`, stops and the rows that refer to them; switches of feeds and algorithms | merge on demand, merge what is safe, apply again after an import |
| HTTP limits | `services/api/src/http` | per-address windows, semaphores | admit, refuse, time out reads |
| Database start | `infrastructure/database.rs` | `_sqlx_migrations`, advisory lock | migrate once, resume after a stop |
| Telemetry, operations | `telemetry.rs`, `operations.rs` | counters, job reports | record, flush |
| Admin page, tools | `services/api/admin`, `tools/` | browser state | - |

### How they interact

* A commercial request passes `current_user`, then `idempotent` (mutex of the key, memory,
  lease row), then `mutation_guard` (mutex of the order, then a Postgres advisory lock held
  by an open transaction), then loads the order from memory or, failing that, from its row,
  calls ČD or the payment provider and saves: memory first, then the row.
* A search and its pages keep what ČD calls each connection in a record, in memory and then
  in its row; a draft of an order and the detail of a connection read it from there, in
  whichever process they come to, and take no lock.
* The refund task of each process shares `cd_ticketing_tickets` and `_refunds` with the
  request handlers and takes no lock.
* The worker writes `realtime_updates`, then enqueues a push for each subscription touched;
  the API writes devices and subscriptions concurrently.
* The pipeline activates a feed version in the database; the API notices it and rebuilds or
  loads its timetable snapshot, while searches go on with the old one.

### Hard behaviours

Awaits at which a handler may be dropped (a client that disconnects cancels it, no timeout
does: `http/security.rs`); calls that are executed although their answer is lost; two
copies of one truth (memory and row) written one after the other; a lock that lives as long
as a connection; leases that run out under a slow holder; events that are applied before
the row they concern exists; a worker that stops between claiming and sending; snapshots and
caches that outlive what they were built from. `PROJECT.json` lists each with its line
under "hazards".

### What makes each component correct

* Orders: a sale only against a settled payment of the recorded session and amount, at most
  one sale, no payment left without its order, `issued` only with all tickets, the row never
  goes back, handlers serialized, every handler ends, a sale ends up recorded.
* Searches: ČD is asked a price only of what an identifier was shown for, to its user, and a
  connection that was shown can be chosen for as long as its search lasts.
* Idempotency: one execution at a time, one answer per key, the answer belongs to the
  request, a key is freed after a crash.
* Refunds: no event is skipped, the cursor does not go back, a submitted refund is settled
  or rejected in the end.
* Accounts: a refresh token works once, and no session outlives a password change or the
  deletion of its account.
* Saved routes: a version names one content on every phone, so that a write overwrites
  nothing its phone has not seen.
* Push: a notification is sent once more only when the worker cannot know that it arrived, an
  outcome is final, and every notification gets one.
* Imports: a download that is imported is whole; a schedule is skipped only if the rows hold
  it, and is whole after success; merged stops stay merged; searches come to see the result.
* Timetables in memory: what is kept under the revision of the data is the whole schedule.
* Routing: every leg of an answer can be made, more rides mean an earlier arrival, and
  nothing earlier is missed.
* Planning: no step from candidates to results drops one that nothing makes up for, the
  earliest comes first, an unverified service is the last resort.
* Walks and realtime data: a timetable has exactly the walks the router confirms; a delay is
  planned with only if the operator lately said so of the day asked for, and shown only if it
  was said of that day or the next. (Of the day a ride runs would be better, and is not so.)

## Plan

In the order of importance. All groups are built; the list of what is left follows.

1. `TicketOrder`, refining `TicketSale`; proofs of its type, lock, safety and refinement.
2. `Idempotency` and `TicketRefund` (the wrapper and the refunds with their background
   task), with proofs of their safety.
3. `RaptorTimetable`, `Raptor` and `RaptorJourney`: the search as a state machine with its
   invariant proved, its pure parts against reference definitions.
4. `MobileDevices` and `PushDelivery` (the API's handlers and the worker's queue),
   `AccountSessions` and `SavedRoutes`, with proofs of all three.
5. `RawRuns`, `FeedImport`, `RoutingSnapshot` (from a download to the timetable that is
   searched) and `StopMerges`, with proofs of all four.
6. `JourneyRanking`, `JourneySearch` (from the probes to the answer), `WalkingAccess` and
   `RealtimeOverlay`, with proofs of all four.
7. `TicketSearch` (from a journey to the draft of an order), with proofs.

Left, in this order: the pool of database connections, shared by several orders; the limit of
attempts to log in and registration; the matching of realtime identifiers to the schedule; the
locations of a search and their cache.

How they are grouped: a module of state stands for one component; `TicketSale` is the abstract
specification of `TicketOrder`; `PushDelivery` extends `MobileDevices` and `RoutingSnapshot`
extends `FeedImport`, because their actions meet in the same rows; `Raptor` extends
`RaptorTimetable`, `JourneySearch` extends `JourneyRanking`. `MCTicketing`, `MCAccount`,
`MCFeeds` and `MCPlanning` extend modules that share no row and put them together: a variable
`part` says which of them moves in a behaviour, so the states add up instead of multiplying.
`AccountProofs`, `FeedProofs` and `PlanningProofs` extend the same modules, with a
specification, an invariant and theorems for each. `Retention` holds what `RawRuns` and
`FeedImport` say of the runs that are left when old ones are deleted.

## Modules

Every module of state follows one style: a request (or a task) is a record with a program
counter `pc` that names the await it is suspended at; one action is everything the code does
from that await to the next; what can stop the code there is an action of its own and counts
against `MaxFaults`. A statement that was sent and whose answer does not come may have been
executed or not, and both are modelled.

### `TicketOrder`: one order

| model | code (`ticketing.rs`) |
|---|---|
| `row`, `memory[p]`, `req[r].copy` | `cd_ticketing_orders`, `MemoryStore.orders` of process `p`, the handler's `OrderRecord` |
| `LockLocal`, `LockDatabase`, `guard` | `mutation_guard`: tokio mutex, then `pg_advisory_xact_lock` in an open transaction |
| `Load`, `OwnedOrder`, `FirstCall` | `owned_order` and the checks each handler makes first |
| `RefreshQuote` ... `CreateCheckout` | `refresh_quote`, `select_offer`, `mutate_addon`, `cancel_order`, `checkout` |
| `VerifySettled`, `FixOffer`, `SellTickets`, `LookupSold` | the calls of `complete`, in its two branches |
| `Remember`, `SaveRow` | the two halves of `save_order` |
| `PersistTicket`, `PersistIssued` | `persist_issued` |
| `DatabaseFails`, `Drop`, `Crash`, `LoseGuard`, the `Fault("reply")` branches | `db_error`; a dropped handler future; a restart; a dead guard connection; a lost answer |
| `booking`, `session`, `sellCalls` | ČD and the payment provider, as far as the handlers rely on them |

`create_order` is `Init`. Orders share nothing, so one order stands for all of them.

### `TicketSale`: what a customer is promised

Five Booleans and five actions: offered, paid, held, sold, issued. `ImplementsSale` in
`TicketOrder` maps them to sessions, booking, `sellCalls` and `row`.

### `TicketSearch`: from a journey to the draft

| model | code (`ticketing.rs`) |
|---|---|
| `refs[h]`, `refRows`, `unsaved` | `MemoryStore.journey_refs` of process `h`, `cd_ticketing_journey_refs`, the tasks `annotate_journeys` leaves to write them |
| `found[h][s]`, `searchRow[s]`, `ask[q].copy` | `MemoryStore.searches`, `cd_ticketing_searches`, the `SearchRecord` a handler works on |
| `Annotate`, `PersistReference` | `annotate_journeys` and its task |
| `CreateSearch`, `CreateIntent`, `ReadReference` | `create_search`; `create_intent` with the reference from memory or its row |
| `UseSearch`, `ReadSearch`, `Found` | `search_page`, `create_order` and `connection_detail` up to their call: `owned_search` and the look-up of the connection |
| `Answered`, `Memorize`, `Paged`, `Correlated` | ČD's list, its fresh identifiers, the record in memory; a page adds to the map; an intent's list is correlated with its journey |
| `Persist`, `Saved` | `persist_search`, whose `DO UPDATE` writes the map of the copy |
| `Offer` | `create_price_offer` or the detail, of what the record calls the connection |
| `Interrupted`, `StopHost`, `Expire` | a statement that fails or an app that hangs up; a restart; thirty minutes |

`meaning`, `announced`, `shown`, `offered` and `mixed` are the model's: what an identifier
was made for, what answers have carried, what ČD was asked, and which searches were paged
twice at once or by several processes. A statement that was sent is executed at once or not
at all.

### `Idempotency`: one key

`Lock` is the mutex and the look into memory, `Acquire` the `INSERT ... ON CONFLICT` that
claims the row or takes over one whose lease ran out, `ReadEntry` the replay for whoever did
not get it, `Execute` the operation, `StoreResult` and `FreeEntry` what follows its success
or error. `LeaseRunsOut` lets two minutes pass; that somebody still works under the lease is
the fault `"slow"`. A request is an order or ticket and a body; `HashesTarget` says which of
them the endpoint hashes.

### `TicketRefund`: refunds and their reconciliation

| model | code |
|---|---|
| `Begin` ... `PersistRefund` | `refund`: `owned_ticket`, ČD's quote, the submission, the INSERT |
| `ReadCursor`, `Fetch` | the first statement of `reconcile_refunds_once`, `GET /refunds` |
| `UpdateStatus`, `UpdateTicket`, `AddReplacement`, `WriteCursor` | its statements, in order; the task may stop at each |
| `CdSettles`, `CdRejects`, `CdGarbles` | ČD, whose list of events `events` is ordered by id |
| `LookupSold`, `PersistSold` | a `complete` that is repeated while refunds go on |
| `happened` | what the properties make an exception of: see below |

Assumed of ČD: it lists the events after the id it is given in the order of their ids, and
decides about a ticket it knows. The date that goes with the id, the documents of a
replacement, amounts and audit rows are left out.

### `RaptorTimetable`, `Raptor`, `RaptorJourney`: the journey search

`RaptorTimetable` holds what `RaptorTimetable::new`, `RaptorRealtimeData`,
`earliest_catchable_trip`, `direct_journeys` and `departure_times_from_stops` compute: trips
grouped into chains that do not overtake (`PartitionNonOvertaking`), delays and how wide they
are on a route, the first trip to catch, the direct services, the departures to probe.

`Raptor` is `raptor_with_stats_excluding_routes` as a state machine.

| model | code (`crates/routing-core/src/lib.rs`) |
|---|---|
| `label`, `best`, `parent`, `marked` | `rounds`, `best`, `parents`, `marked` |
| `bound` | `best` at the moment `best_target` was computed; `BeatsTarget` compares with its least value over the targets |
| `FollowWalks` | one turn of the loop of `relax_raptor_transfers`: a stop leaves the queue |
| `NextRound`, `OpenRoute`, `ScanStop`, `WalkOn`, `Finish` | the loop over rounds, over `routes_to_scan` and over the stops of one route |
| `Slack`, `Earliest` | the `match` on how the stop was reached; the trip `earliest_catchable_trip` returns |

The order of routes, and of stops in the queue, is left open; the code's is one of them. A
walk table is total, `Infinity` where there is no link. `RaptorJourney` adds what is made of
the labels, `reconstruct_raptor_journey` (`Trail`) and
`align_leading_walk_to_first_transit_departure` (`LeadingWalk`), and the reference
definitions: `PlacesAfter` follows every journey there is without comparing any two.

A timetable (`IsTimetable`) has typed calls, at least two to a trip, and finitely many routes
and trips. `WalksLeadBack` says of the arrays, while they are written, that no walk begins
where it would end; `JourneysAreWhole` says of the journeys read off them that each leads back
to a departure, in as many rides as its round.

### `MobileDevices`, `PushDelivery`: notifications

| model | code |
|---|---|
| `device`, `sub`, `CurrentUser` | `mobile_devices`, `journey_subscriptions`; `current_user` reads the account in a statement of its own |
| `RegisterDevice`, `DeleteDevice`, `CheckDevice`, `InsertSubscription`, `DeleteSubscription`, `DeleteMe`, `Logout` | the handlers of `controllers/account.rs`, one action per statement or transaction |
| `ConnectionIsAtRisk`, `EventsOf` | what a batch's record means for a subscription, in `enqueue_push_events` |
| `ReadSubscriptions`, `InsertPushEvent` | its query, and its INSERT for each event |
| `Reclaim`, `Claim`, `Send`, `AnswerLost`, `Unconfigured`, `Record` | `deliver_next_push`: the UPDATE of rows that have been `sending` for five minutes, the claim, the call of FCM or APNs, the UPDATE with the outcome |
| `Classify`, `WithStatus`, `AfterRetry`, `AfterUnconfigured` | which answers end a delivery, disable the device or count as an attempt |
| `ComeDue`, `Crash` | time until `available_at`; the worker stops |

`accepted`, `unknown` and `refused` count what the provider did; they are the model's.

### `AccountSessions`: the credentials of one account

`Login`, `Refresh`, `ReadUser` and `AuthResponse` are the statements of `login` and
`refresh`: the account is read, the password verified for long, and the session inserted
later. `ChangePassword`, `CompleteReset` and `DeleteMe` write the user and revoke the sessions
there are. `RequestReset` to `DeliverReset` are the statements of `request_password_reset`.
`straddled` records which requests were under way at such a change: they are what
`OldSessionsWereUnderWay` makes an exception of.

### `SavedRoutes`: saved routes of several phones

`CountRoutes` and `InsertRoute` are `create_saved_route`, `StartWrite` and `CommitWrite` an
UPDATE or deletion with `expected_version` (`Touched` is the trigger of migration 0036),
`ReadRoutes` and `AnswerList` the query of `list_saved_routes` and the `server_time` taken
after it. A statement has the time it began and is seen when it commits.

### `RawRuns`: downloads

A pass looks for a run to use again (`Look`, `CanReuse`, `Reuse`), or makes a directory,
links or gets each archive (`Create`, `Link`, `Get`, `Flush`) and writes the manifest last
(`List`); `Prune` drops old directories. `Crash` stops it anywhere; `Outage` takes an archive
away. GGU falls back on what it has (`Fallback`), the others fail.

### `FeedImport` and `RoutingSnapshot`: the schedule and the timetable in memory

`FeedImport` is the import of one feed, an action per statement or batch: `Check` (with
`Recovered`), `Register`, `Prepare`, `WriteRoutes`, `FlushTrips`, `FlushCalls`,
`WriteCalendars`, `PruneCalls`, `PruneTrips`, `PruneStamped`, `Clear`, `Repair`, `Succeed`,
`Retain`. `CutOff` kills the process, `DatabaseCrash` empties the unlogged table of seen keys
(migration 0033), `Age` lets two hours pass. A line stands for a route with its trip, calls
and calendar.

`RoutingSnapshot` adds the API. A caller reads the revision (`ReadRevision`), looks into
memory and onto the disk (`LookUp`), builds from the rows as they are (`Build`), writes the
snapshot (`Write`) and fills the cell of the revision it read (`Ensure`). `Warmer` is the
background task; `Toggle` is the switch of a feed.

### `StopMerges`: merged stops

`match` is `manual_stop_matches`. `ConfirmMerge` is the administrator's merge with its check
of compatibility, `ApplySafeRepairs` what the database merges by itself (exact duplicates,
nearby ones), `ApplyMerges` moves the calls and deactivates the duplicates. An import brings
stops and calls back in steps (`ImportStops`, `ImportCalls`, `Prune`) and applies the merges
again (`RepairImported`, `Reapply`), beside the other feed's import, and may fail between.
What loops over the groups of duplicates in turn is written as the state after each of them
(`Nth`, `Turns`).

### `JourneyRanking` and `JourneySearch`: a question

`JourneySearch` takes one question through the stages of `query_journeys_profiled_db`:
`ProbeWindow`, `ProbeAlternatives`, `SearchUnverified`, `DiscardDeparted`, `DirectFallback`,
`IncludeNextDay`, `FallBackToNextDay`, `Prefer`, `Dedupe`, `Preselect`, `AttachGeometries`,
`FinalRank`. The questions differ in the timetable, the late vehicles and the configuration.
`JourneyRanking` holds the pure steps: `IsRelevant`, `DedupeRelevant`, `RemoveDominated`,
`Selected`, `Ranked`. A place in a sorted, sampled or deduplicated list is read off by counting
what comes before it. A question (`SearchAssumption`) has finitely many itineraries and a
configuration that the API accepts: up to 20 results, weights that are whole numbers. What the
search over the timetable finds is `Raptor`'s; here it is, for each number of changes, the
earliest of the itineraries that can be caught.

### `WalkingAccess`: confirmed walks

A task reads the revision (`Begin`), finds or makes the cell (`FindCell`), waits for or fills
it (`Hit`, `Fill`, `Filled`), pair by pair (`LookUp`, `AskRouter`, `Store`); its question
goes on without it when the budget is spent (`GiveUp`). A build does the same without the
memory and fails if the router did not answer (`MayPublish`). `Outage`, `Restored`, `Import`
and `Expire` are the world.

### `RealtimeOverlay`: realtime data

Three loops take a snapshot of the feed (`Take`), write their rows chunk by chunk
(`Persist`), delete expired ones and end, or fail between two chunks (`Finish`, `Fail`). The
API refreshes its cached summaries, which it reads for the date it is (`Refresh`, `Delayed`,
`Midnight`), and uses the copy for questions of that date (`Cached`). Such a question may search
the timetables of two dates (`SearchedDates`), and both searches are given the same delays
(`Planned`), as `JourneySearch` has it too: `Ask.late` is that of the query on either day. The
answer is annotated with the rows that are valid (`Annotating`, `Newest`). Time is counted in
ages of what the operator said.

## Runs

| run | instance | shows |
|---|---|---|
| `order_one` | one process, 2 requests, 2 amounts, 4 sessions, 2 tickets, 3 faults of any kind | `SoldWasPaid`, `SoldAtMostOnce`, `PaymentKept`, `IssuedIsComplete`, and that the handlers implement `TicketSale` (`ImplementsSale`) |
| `order_two` | two processes, 2 requests, 1 fault of any kind but a lost guard; and a search, an intent and pages with 2 connections and 1 mishap | `OneMutationAtATime` over processes; `ShownIsKept` |
| `order_live` | one process, 2 requests, 1 fault | `SoldIsRecorded`, `HandlerEnds` |
| `order_stale` | two processes, no fault | **violation** of `ReleaseOnlyDraft` |
| `idempotency_two` | two processes, 2 requests, 2 executions, 2 targets, 2 faults | `OneRunAtATime`, `AnswersAgree`, `AnswerIsMine`, `KeyIsFreed` |
| `refund_two` | two processes, a ticket and its replacement, 2 events, 1 refund, 1 fault | `CursorCovers`, `SettledAtCd`, `LastDecisionStands`, `ReturnsReachRows` |
| `raptor_small` | all choices of 3 of 9 trips, and all 9, on 4 stops; 3 sets of links; 8 requests, 3 feeds of delays | `ParetoFront`, `JourneysAreWhole`, `EarliestArrival`, `DirectServicesKept` |
| `account` | one device and subscription, two delivery loops, 2 requests of the API, 3 records, 1 fault; 2 sessions, reset tokens and passwords; 2 phones with a route | `RepeatsHaveACause`, `OutcomeIsFinal`, `EventuallyDecided`; `TokensAreSingleUse`, `OldSessionsWereUnderWay`; `VersionNamesContent` |
| `feeds` | two archives of 2 versions, 2 crashes; a feed of 2 lines, a new version, 1 fault, one switch; 5 stops of two feeds, a new version | `ImportedIsWhole`, `MCEventuallyFetched`; `SkipIsRight`, `SuccessIsWhole`, `CurrentTimetableIsWhole`, `MCEventuallyServed`; `MergesLast` |
| `import_followed` | the same feed, a subscription to the line that is dropped, no fault | **violation** of `MCEventuallyImported` |
| `planning` | up to 4 of 7 itineraries of the day, 2 of the next, late vehicles, 4 configurations; 2 questions and a build with 2 pairs and an outage; a trip on 2 days and a vehicle, 2 snapshots | `FallbackSurvives`, `EarliestIsFirst`, `VerifiedFirst`; `GraphIsWhole`; `ShownWasSaid`, `PlannedWasSaid` |
| `planning_late` | the same | **violation** of `LateIsOffered` |

`TicketOrder_listed.cfg` (`IssuedIsListed`), `Idempotency_body.cfg` (`AnswerIsMine`),
`TicketRefund_late.cfg` (`DecisionReachesRefund`), `Raptor_restricted.cfg` (`FindsEarliest`),
`Raptor_early.cfg` (`WalkMeetsVehicle`), `Account_known.cfg` (`SyncIsComplete` and
`DeletedKeepsNoDevice`), `Feeds_limited.cfg` (`SkipIsRight`), `Feeds_merged.cfg`
(`DecisionsLast` and `CalledStopsAreActive`) and `Planning_next.cfg` (`RideWasSaidLate`) are kept
beside these runs; where there are two properties TLC's `-continue` shows both. Each finds the
violation described below.

**Bounds.** Two requests and two processes are what it takes for one to be at work while
another waits, overtakes or holds a stale copy; three faults let an error, the retry and the
retry's retry go wrong. Four sessions allow a checkout whose answer is lost twice and still
leave one unused. Two tickets let `persist_issued` stop between them. Two events and two
processes let one process be an event behind the other and overwrite its cursor. Two
connections let a page lose one while it adds the other, and two slots let a page, an order
and a restart cross; requests meet in the behaviours without journeys (`part = "pages"`) and
come one by one in those with one (`"intents"`). Nine trips hold
what makes the search hard: trips that overtake, a stop called at twice, forbidden boarding and
alighting, an unverified trip, a second mode, a round trip of free walks; three of them at a
time give every combination room, all nine let them interfere.

One subscription raises two kinds of event at once (a delay and an endangered change), which
two loops can claim, reclaim and answer in every order; a fault more only repeats one. Two
sessions and two reset tokens let one be used twice or outlive the other; two phones let one
write what the other has not seen. Two versions of a schedule, of which the second changes a
line and drops the other, with an import that is cut off and its repetition, leave every
mixture of rows there is; two archives and two crashes leave a half download beside an older
whole one. Five stops make a group of three of two feeds, of which two may be merged only
until a trip calls at both. Four itineraries fill and overfill the limits of the selection (at
most three results, six candidates before the geometry); two pairs of points suffice for one
walk to be found in the table while the other is missed. Two days and two snapshots let a row
of one day meet a question of the other, midnight fall between a copy and a question, and an
older row outlive a newer one.

`MaxClock`, `MaxVersion`, `MaxSnapshots`, `MaxTicks`, `Revisions`, `MaxOutages`, `MaxChanges`,
`MaxToggles`, `MaxVersions`, `MaxCrashes`, `MaxFaults` and the sets of identifiers bound what
the code does not. Two values leave a case out, and the proofs name them as hypotheses: with
`MaxToggles = 2` `CurrentTimetableIsWhole` fails, since a feed that is switched off and on
again within one build brings an old revision back (`MaxToggles \in {0, 1}`); and with a second
importer two imports prune each other's rows, which takes two commands started by hand
(`Alone`).

`CHECK_DEADLOCK` is off where a program ends: a search returns, an answer is given, every
notification is decided, the bounded clocks and changes are spent. The proofs remove the
bounds where they reach; see below.

**Fairness.** Handlers run on by themselves (weak fairness of their next step), because
nothing suspends them but the awaits the model has, and every outbound call has a timeout.
tokio's mutex and Postgres' lock queue serve in turn, so a lock is strongly fair. The app
repeats a request it has no answer to (strong fairness of the retry), which `SoldIsRecorded`
and `KeyIsFreed` need and the client contract asks for. The timer of the reconciliation goes
off again and again. Faults, customers, ČD and new requests owe nothing.

The delivery loops of the worker run for ever (weak fairness), and since the claim orders rows
by the time they are due and skips locked ones, no row waits behind others for ever (strong
fairness of its claim). The scheduler repeats a pass that failed, the warmer repeats its pass,
and two hours pass for a run that nobody ends (`Age`). An archive whose server was away comes
back (`Restored`): without that nothing can be fetched. New versions, crashes, database
restarts, switches, and the actions of users owe nothing.

**What the violations show.** The three that are listed:

* `order_stale`: `owned_order` answers from a process' memory that no other process
  refreshes, also under the advisory lock: a cancel in one process releases a booking whose
  checkout another has recorded. One process does not have this problem, which is a theorem
  (`ReleasesAreDrafts`).
* `import_followed`: `journey_subscriptions.trip_id` refers to a trip without `ON DELETE`, and
  subscriptions are only ever marked as ended. When the publisher drops the trip, the DELETE
  of stale trips fails, and so does every later import of the feed.
* `planning_late`: the search gives a journey its effective departure and arrival and its legs
  the scheduled ones. `journey_is_relevant` asks that the two agree and so drops a journey
  whose first or last vehicle is late.

Those kept beside them:

* `TicketOrder_listed`: `save_order` writes memory first. When the UPDATE to `issued` fails,
  every later `complete` returns early from memory, and the list, which reads the table,
  never has the order.
* `Idempotency_body`: the endpoints that hash only their body answer a request for one order
  with the result of another, if the key is used again.
* `TicketRefund_late`: the row of a refund is inserted after ČD has accepted it. An event that
  is reconciled in between updates no row, and the refund stays `requested`.
* `Raptor_restricted`: trips are put on one route by line, mode and stops, whatever their
  drop-off rules, and of a route the search boards the trip that leaves first. If that trip
  lets nobody off at the target, the next one is not looked at. `EarliestArrival` holds where
  that cannot happen (`Regular`): no drop-off rules, no delays, and changing that takes as long
  however the stop was reached. A delay lets a trip overtake on its route, and a label that
  keeps only the arrival forgets that a later walk may need less time to change than an
  earlier ride.
* The same, with `Timetables <- MCTied` (the proof of `EarliestArrival` came upon it): the
  search changes to another trip of the route only if it leaves strictly earlier
  (`lib.rs:917-926`). Of two that leave a stop together it stays on the one it is on, and where
  the other had left when the search boarded, and gets to a later stop first, the earlier
  arrival is missed. `Regular` therefore asks that trips which leave a stop together go on
  together (`RunsOn`).
* `Raptor_early`: the walk is scheduled to end when the timetable says that the vehicle
  leaves, although it was boarded at its real, earlier time.
* `Account_known`: `updated_at` is the time a statement began. A write that commits after
  another phone's query and began before its `server_time` is never sent to that phone
  (`docs/auth.md:18-19` promises complete routes across devices).
* The same: a device that is being registered while its account is deleted stays
  (`docs/auth.md:30-32`).
* `Feeds_limited`: an import with `--limit-rows` ends with success and the checksum of the whole
  file, so the scheduler skips it (`docs/data-sources.md:29-31`).
* `Feeds_merged`: a safe merge maps a canonical stop on; the import that brings the first
  duplicate back moves its calls to the stop in the middle only
  (`docs/data-quality.md:69-71`).
* The same: a canonical stop that its feed drops is deactivated although the trips of
  another feed call at it (migration 0023, lines 1-2).
* `Planning_next`: the cached delays are those of the day asked for and carry no date, and the
  search of the next day's timetable is given them as well (`lib.rs:4618-4631`,
  `lib.rs:4728-4741`). A trip that runs daily is planned tomorrow with today's delay, although
  the operator said nothing of tomorrow, or that it is cancelled.

**Exceptions.** `CursorCovers`, `ReturnedStays` and `ReturnsReachRows` except a repeated
`complete`: its upsert writes `returned` as ČD said it at the look-up, and so can undo an
event that was applied since. `ReturnsReachRows` excepts a malformed event, which stops the
reconciliation of every customer until ČD takes it away. `CursorForward` and
`LastDecisionStands` hold while the tasks of two processes do not overlap; they fail
otherwise, because the cursor is written without a look at what it has become.
`ShownIsKept` excepts searches that were paged twice at once, or by processes in turn: each
page writes back the map it was given, with its own connections added, and so can drop the
other's. `RepeatsHaveACause` allows one more notification for each crash or lost answer.
`OldSessionsWereUnderWay` excepts the requests that were under way at the change, `MergesLast`
chains of merges. `CurrentTimetableIsWhole` speaks of the times when no import is at work.
`EarliestIsFirst` asks for a configuration that weighs arrival alone, `VerifiedFirst` for
vehicles on time: a late one may be found, dropped as departed and so hide that what is
offered instead is unverified. `PlannedWasSaid` speaks of the day asked for and so excepts the
rides of the next day, which are planned with the same delays (`Planning_next`).
`ShownWasSaid` counts the day asked for and the day after as one, for the legs of either, as the
query does, and undated rows of a vehicle.

## Proofs

TLAPS checks the theorems for every value of the constants: any number of processes,
requests, sessions, tickets, events and faults. The only assumptions are the `ASSUME`s that
the modules state and TLC evaluates in the runs, and the hypotheses named below. Four modules
state theirs as a definition (`SessionsAssumption`, `RoutesAssumption`, `WalkingAssumption`,
`OverlayAssumption`): a hypothesis of their theorems, which the `MC` module assumes.

| module | theorems | argument |
|---|---|---|
| `TicketOrderProofs` | `TypeCorrect`, `LocalMutexHolds`, `HandlersAreSerialized` | types; of one process' handlers one is past the local mutex; a handler past the advisory lock has it, unless a connection died |
| the same | `InvariantHolds`, `SalesArePaid`, `OneSale`, `PaymentsAreKept`, `IssuedHasTickets`, `RowsMoveForward`, `ReleasesAreDrafts` | see below; hypothesis `OneProcess` |
| the same | `HandlersImplementSale` | each handler step is the `TicketSale` step its action names, or changes nothing `TicketSale` sees; hypothesis `OneProcess` |
| `TicketSearchProofs` | `SearchInductive`, `OffersAreMeant`, `ShownConnectionsStay` | see below |
| `IdempotencyProofs` | `Inductive`, `TypeCorrect`, `OneRun`, `OneAnswer`, `OwnAnswer` | the request that holds the row is alone and the row is as it claimed it; results fit the hash they are kept under; what was answered is stored. `OwnAnswer` assumes that the hash tells requests apart, which is what `Idempotency_body` shows to be missing |
| `TicketRefundProofs` | `Inductive`, `TypeCorrect`, `NothingSkipped`, `NoMoreThanCd`, `LastWordStands`, `ReturnsStay`, `CursorGoesForward` | a reconciliation has applied every event up to `done`, wherever it started and whoever else is at work, so the cursor it writes covers what it says; a decided refund shows the last decision that was passed, and where reconciliations do not overlap a pass that is repeated passes the same ones again, in order |
| `RaptorProofs` | `SearchInvariant`, `NoMissedConnection`, `RidesPayOff` | see below |
| the same | `WalksEnd`, `JourneysLeadBack`, `DirectServicesListed` | see below; the requests' delays are bounded as `RealtimeIsBounded` shows of any updates |
| the same | `EarliestIsFound` | see below; hypothesis `NoneOvertakes` of the timetables, which is what `partition_non_overtaking_trips` makes |
| `AccountProofs` | `Inductive`, `RepeatsAreExplained`, `RetriesAreBounded`, `OutcomesAreFinal` | notifications: a row in a loop's hands is `sending` and its lease runs (`HeldOnce`), so nobody else claims it; what the provider took is known to the row or to the loop that holds it (`TakenIsKnown`); each refusal has used an attempt of its own (`Budget`). Hypothesis `~Slow`: a live loop answers before its lease of five minutes ends, which the 30 s timeout of its HTTP client sees to |
| the same | `SessionsInductive`, `TokensUsedOnce`, `OldSessionsEnd`, `DeletedStaysDeleted` | credentials: a token that was used is dead (`UsedIsDead`), and none comes back to life; a live session is of the current credentials or of a request that was under way when they changed |
| the same | `RoutesInductive`, `VersionsNameContents` | saved routes: what a phone has, or an answer under way carries, is an earlier row of the route (`Earlier`), and the trigger gives a new version whenever content or state change |
| `FeedProofs` | `DownloadsInductive`, `DownloadsAreWhole` | a manifest tells the content of its files (`ManifestsOK`), what a pass reuses was whole (`ReusableOK`), and each archive it is through with is there (`FetchedOK`, `ListedOK`) |
| the same | `ImportInductive`, `ImportSkipsRightly`, `ImportsAreWhole` | see below; hypothesis `Alone` |
| the same | `SnapshotInductive`, `CurrentTimetable` | a revision that was read does not come back (`NotAhead`), and what is kept under the revision of a whole schedule is that schedule (`IsCurrent`); hypotheses `Alone` and `MaxToggles \in {0, 1}` |
| the same | `MergesInductive`, `MergesOutlastImports` | applying the merges moves every call off a duplicate and deactivates it, in whichever order the pairs come; between that and the end of an import nothing brings one back but another import, which applies them again |
| `PlanningProofs` | `PlanInductive`, `FallbacksSurvive`, `EarliestIsTheFirst`, `VerifiedAreFirst` | see below |
| the same | `AccessInductive`, `GraphsAreWhole`, `MemoriesAreWhole` | a row of the table is what the router says of the pair, whoever stored it under whatever limit; a worker has the walks of the pairs behind it, but for those an outage took (`Knows`) |
| the same | `OverlayInductive`, `WhatIsShownWasSaid`, `WhatIsPlannedWasSaid` | a record in a pass was in its snapshot (`FeedIsHeard`), a row says what the operator said, of its date, in a snapshot as young as the row (`RecordsAreBacked`), and so does the copy that planning uses, of the date it was read for (`CacheIsBacked`); that a ride of the next day was itself said to be late does not follow and is false |

The safety of one order cannot be proved from itself: that the one sale was paid for depends
on what the handler that sells has checked, and that on its copy still being what the others
would load. `IInv` therefore says, beside types and the mutex, that the copy of a handler at
work is the process' current one (`CopyIsCurrent`), that this copy is the row or one step
ahead of it (`CopyAhead`), what the checks a handler has passed mean (`HandlerKnows`), that a
session a customer can pay is the one every copy names (`PayableIsKnown`), and that a sale
was recorded before it was sent (`SaleIsRecorded`). It needs `OneProcess` for `CopyIsCurrent`,
and `order_stale` is what happens without it.

For refunds the key is that events are only ever about tickets that were sold or came as the
replacement in an earlier event (`EventsOK`): when the events before it are applied, the row
an event is about exists, so none of its three UPDATEs misses (`AppliedOK`). With that the
cursor may even go back; it never covers an event that was not applied.

For searches every record is traced to what its identifiers were made for (`RecordsAgree`) and
to one user (`OneOwner`), so whoever is asked a price of an identifier names the right
connection. That a shown connection stays needs more: a search that no answer has named is
known to its maker alone (`CreatorsAreAlone`), so nobody else writes its row before; and of a
search that is not `mixed` one request at a time writes, with a copy that holds all that was
shown (`OneWriter`). Then the row and every memory hold it too (`RecordsHold`). A restart may
execute any of the statements that were under way, but of such a search there is one.

For the import it must be said of each step which rows carry its run, which keys it has seen
and what later steps will leave (`RunOK`, `RowsOK`, `TablesOK`): a row of the run is a line
of its version that the import has come to, and once a pruning step is behind it nothing
older is left of that table. `HistoryOK` is what lets an unchanged download be skipped: while
the rows of a successful run are all there, they are its schedule. `Alone` is one importer
that takes whole versions (no `--limit-rows`) and fails when the database restarts under it:
one that went on over a new connection (`Reconnects`) would find its table of seen keys
emptied, and prune what it has just written.

A label of the search can be relied on because of what else is true of the arrays. `best` is
below every label (`BestIsBest`), so an improvement lowers the label of its round too, and a
walk that was possible from the higher label stays possible. Labels of the round before do
not change any more (`RoundsAhead` leaves the later ones empty), so a trip caught there stays
caught (`ScanIsCaught` for the trip being ridden). `bound` is below the labels of all earlier
rounds (`BoundHolds`), so what beats it at a target beats them all. The proof asks nothing of
the timetable but its types.

That a journey read off the arrays leads back to a departure (`JourneysAreWhole`) is more,
because `reconstruct_raptor_journey` follows parents that were written at different times. A
ride's parent lies in the round before, which is no longer written; a walk's lies in the same
round and is never itself reached on foot (`WalksLeadBack`), so at most two steps are spent
in a round and the trail is at its start after `LongestTrail` of them. That the rides
on it are all different is what the count of rides needs.

That nothing earlier is missed (`EarliestArrival`) is proved in two halves. While the search
runs, every walk from a stop that has left the queue (`WalksDone`), and every ride over the part
of a route that was scanned (`RidesDone`), led to a time at which some label, there or at a
target, already is: what was pruned did not beat `bound`, which is itself a label (`Attained`).
For a ride that needs to be known of the one trip a scan is on: it is never behind any other
that could have been boarded on the way (`ScanIsFirst`), since a smaller number on a chain is
never later (`NoneOvertakes`) and a tie goes on together (`RunsOn`). When the search is over the
rounds that were not opened are empty (`RoundsAhead`), so this holds of all of them. The other
half is about the reference definition: no place in `PlacesAfter` is before the labels
(`PlacesAreCovered`), and every label has a place as early (`LabelsAreMatched`). `OnFoot` walks
only as often as there are stops, and that this is enough follows from `WalksLeadBack`: as long
as a stop is missing, one of those missing is a single walk away.

The direct services (`DirectServicesKept`) are those of a window, cut at a limit of which the
first service of each line has its place. The proof counts: a chosen service is one of the first
of its line or has fewer than the limit before it. The window is read off each chain of
a route by a search that stops early; delays may exceed it by no more than `IsRealtime`
allows.

For a question, `PlanInv` says what the candidates of each stage are (`PlanTypes`): journeys of
itineraries of that day, with the times that follow from the delays; that the services looked
for without regard to verification were looked for only when nothing verified was found
(`VerifiedInv`); and that the final list is sorted by the rank it was given (`RankInv`).
`FallbackSurvives` then follows stage by stage. What `RemoveDominated` drops is dominated by
something that stays, since a finite set has a greatest element; after `DedupeRelevant` no two
journeys look alike, so the preselection drops nothing when all fit and otherwise keeps the
earliest at each number of changes; what an unusable shape takes away is named. The best by
rank is the first that `Selected` takes and the first of the sorted list (`EarliestIsFirst`).

## Limits

Only model-checked: liveness (`SoldIsRecorded`, `HandlerEnds`, `KeyIsFreed`,
`ReturnsReachRows`, `EventuallyDecided`, `MCEventuallyServed`, `MCEventuallyFetched`), since
fairness and `ENABLED` are beyond the prover. `FindsEarliest`, which `EarliestArrival` says of
regular timetables, is false of others, and how far it then misses is not said.
Where a proof does need induction over data, it takes the least element of a set of
numbers, or a finite set's greatest, in its place: the library's induction theorems cannot be
used.
`OfferedWasMeant` is the converse: a theorem that no run lists, as a part of `SearchInv`,
which TLC has checked on the same instance.

Not modelled:

* bodies, prices, customers, formatting and signatures; the rate windows; audit rows;
* the pool of database connections: a statement that times out on it is a `DatabaseFails`
  step of `TicketOrder`;
* ČD's own state beyond what is named above, and its client, whose calls are the actions of
  the order and refund handlers;
* time, except for leases, ages and the order of departures;
* the locations of a search and their cache, passenger types, ČD's handle of a search (one with
  the search);
* registration, the profile, the limit of attempts, saved places and favourites, which are
  single statements of one row; the mode without a database;
* migrations and other repairs within an import, line geodata, cities, MOTIS, validation issues;
* the identifiers by which IDS JMK and DUK name trips, decoding, `data_source_syncs`;
* the resolution of places, the presentation of legs, warnings and geometry; ties between
  journeys that a hash map orders; the connection scan and the one-transfer query, which serve
  development fixtures only; the walking cache switched off;
* reading of GTFS and regional matching (pure functions of files), HTTP limits, database
  start, telemetry, offline packs, the admin page and the tools. `PROJECT.json` gives each
  component's status and reason.

Of `RawRuns`, `Torn = TRUE` lets a manifest itself be cut short, which makes every later pass
fail at reading it; the `feeds` run has manifests written whole.

---------------------------- MODULE TicketSearch ----------------------------
(***************************************************************************)
(* From a journey to the draft of an order (services/api/src/ticketing.rs): *)
(* the references that journeys are annotated with, the searches at CD and *)
(* the connections they list.  The app only sees opaque identifiers; what  *)
(* CD calls a connection stays in the record of the search, which is in    *)
(* the memory of every process that has answered a page of it, and in      *)
(* cd_ticketing_searches.                                                  *)
(*                                                                         *)
(* A handler may stop at every await, like those of TicketOrder, which     *)
(* goes on from the draft.  The locations, the bodies and the handle of CD, *)
(* which is one with the search, are abstracted away.                      *)
(***************************************************************************)
EXTENDS Naturals, FiniteSets

CONSTANTS
  Hosts,         \* API processes that share the database
  Travellers,    \* signed-in users
  Journeys,      \* journey references
  Searches,      \* identifiers of searches
  Connections,   \* opaque identifiers of connections
  Numbers,       \* what CD calls the connections of a search
  Slots,         \* concurrent requests; a slot is reused
  Fit,           \* Fit[j][n]: how connection n differs from journey j
  Tolerance,     \* CD_TICKET_CORRELATION_TOLERANCE_MINUTES
  Absent,        \* no record, no row, no identifier
  MaxMishaps     \* bound: processes that stop, statements that fail, answers lost

\* Minutes between the departures, between the arrivals, trains not matched.
Differences == [departs : Nat, arrives : Nat, unmatched : Nat]

VARIABLES
  refs,          \* refs[h]: the references in h's memory
  refRows,       \* the references in cd_ticketing_journey_refs
  unsaved,       \* references that a task of a process has still to write
  found,         \* found[h][s]: the record of search s in h's memory
  searchRow,     \* searchRow[s]: its row
  ask,           \* ask[q]: the handler in slot q
  over,          \* what was made more than thirty minutes ago
  meaning,       \* meaning[c]: what identifier c was made for
  announced,     \* searches whose identifier an answer has carried
  shown,         \* connections whose identifier an answer has carried
  offered,       \* what CD was asked a price of
  mixed,         \* searches paged twice at once, or by several processes
  mishaps

searchVars == <<refs, refRows, unsaved, found, searchRow, ask, over, meaning,
                announced, shown, offered, mixed, mishaps>>

\* A SearchRecord: the owner, and what CD calls the connections that were listed.
Map == [Connections -> Numbers \cup {Absent}]

Record == [user : Travellers, map : Map]

Meaning == [user : Travellers, search : Searches, number : Numbers]

ASSUME SearchAssumption ==
  /\ Fit \in [Journeys -> [Numbers -> Differences]] /\ Tolerance \in Nat /\ MaxMishaps \in Nat
  /\ Absent \notin Connections \cup Numbers \cup Searches \cup Hosts \cup Slots
  /\ Absent \notin Record \cup Meaning /\ Travellers # {}

Ask == [at : {"idle", "referring", "loading", "asking", "saving", "offering"},
        kind : {"search", "intent", "page", "order"},
        host : Hosts \cup {Absent}, user : Travellers \cup {Absent},
        journey : Journeys \cup {Absent}, search : Searches \cup {Absent},
        copy : Record \cup {Absent},          \* the record it works on
        want : Connections \cup {Absent},     \* the connection it is about
        new : SUBSET Connections]             \* what it will show

Unasked == [at |-> "idle", kind |-> "search", host |-> Absent, user |-> Absent,
            journey |-> Absent, search |-> Absent, copy |-> Absent, want |-> Absent,
            new |-> {}]

SearchTypeOK ==
  /\ refs \in [Hosts -> SUBSET Journeys] /\ refRows \subseteq Journeys
  /\ unsaved \subseteq Hosts \X Journeys
  /\ found \in [Hosts -> [Searches -> Record \cup {Absent}]]
  /\ searchRow \in [Searches -> Record \cup {Absent}]
  /\ ask \in [Slots -> Ask]
  /\ \A q \in Slots : ask[q].at # "idle" => ask[q].host \in Hosts /\ ask[q].user \in Travellers
  /\ over \subseteq Journeys \cup Searches
  /\ meaning \in [Connections -> Meaning \cup {Absent}]
  /\ announced \subseteq Searches /\ shown \subseteq Connections
  /\ offered \subseteq [user : Travellers, search : Searches,
                        connection : Connections, number : Numbers]
  /\ mixed \subseteq Searches
  /\ mishaps \in 0 .. MaxMishaps

SearchInit ==
  /\ refs = [h \in Hosts |-> {}] /\ refRows = {} /\ unsaved = {}
  /\ found = [h \in Hosts |-> [s \in Searches |-> Absent]]
  /\ searchRow = [s \in Searches |-> Absent]
  /\ ask = [q \in Slots |-> Unasked]
  /\ over = {}
  /\ meaning = [c \in Connections |-> Absent]
  /\ announced = {} /\ shown = {} /\ offered = {} /\ mixed = {} /\ mishaps = 0

-----------------------------------------------------------------------------
Mishap == mishaps < MaxMishaps /\ mishaps' = mishaps + 1

Unused == {c \in Connections : meaning[c] = Absent}

Identifiers(map) == {c \in Connections : map[c] # Absent}

\* What public_connections makes of a list of CD's: a fresh identifier for each.
Listings == {list \in Map : Identifiers(list) \subseteq Unused}

\* The connection of a list that is the journey: the closest, if no other is as close.
Correlated(j, list) ==
  LET fit(c) == Fit[j][list[c]]
      near == {c \in Identifiers(list) : fit(c).departs <= Tolerance /\ fit(c).arrives <= Tolerance}
      score(c) == fit(c).departs + fit(c).arrives + 5 * fit(c).unmatched
  IN {c \in near : \A d \in near \ {c} : score(c) < score(d)}

Done(q) == ask' = [ask EXCEPT ![q] = Unasked]

Wait(q, point) == ask' = [ask EXCEPT ![q].at = point]

-----------------------------------------------------------------------------
(* The references of journeys. *)

\* annotate_journeys: the reference is in memory before the answer; what is over
\* leaves it, and a task of its own writes the row.
Annotate(h, j) ==
  /\ j \notin over \cup refRows /\ \A q \in Slots : ask[q].journey # j
  /\ \A g \in Hosts : j \notin refs[g] /\ <<g, j>> \notin unsaved
  /\ refs' = [refs EXCEPT ![h] = (@ \ over) \cup {j}]
  /\ unsaved' = unsaved \cup {<<h, j>>}
  /\ UNCHANGED <<refRows, found, searchRow, ask, over, meaning, announced, shown,
                 offered, mixed, mishaps>>

\* A row that cannot be written is logged and given up.
PersistReference(h, j) ==
  /\ <<h, j>> \in unsaved
  /\ unsaved' = unsaved \ {<<h, j>>}
  /\ \/ refRows' = refRows \cup {j} /\ UNCHANGED mishaps
     \/ Mishap /\ UNCHANGED refRows
  /\ UNCHANGED <<refs, found, searchRow, ask, over, meaning, announced, shown,
                 offered, mixed>>

-----------------------------------------------------------------------------
(* The requests. *)

Accept(q, new) ==
  /\ ask[q].at = "idle"
  /\ ask' = [ask EXCEPT ![q] = new]

\* create_search.
CreateSearch(q, h, u) ==
  /\ Accept(q, [Unasked EXCEPT !.at = "asking", !.kind = "search", !.host = h, !.user = u])
  /\ UNCHANGED <<refs, refRows, unsaved, found, searchRow, over, meaning,
                 announced, shown, offered, mixed, mishaps>>

\* create_intent, with a reference that the app was given: memory, and then the row.
CreateIntent(q, h, u, j) ==
  /\ Accept(q, [Unasked EXCEPT !.at = IF j \in refs[h] \ over THEN "asking" ELSE "referring",
                              !.kind = "intent", !.host = h, !.user = u, !.journey = j])
  /\ UNCHANGED <<refs, refRows, unsaved, found, searchRow, over, meaning,
                 announced, shown, offered, mixed, mishaps>>

ReadReference(q) ==
  /\ ask[q].at = "referring"
  /\ IF ask[q].journey \in refRows \ over THEN Wait(q, "asking") ELSE Done(q)
  /\ UNCHANGED <<refs, refRows, unsaved, found, searchRow, over, meaning,
                 announced, shown, offered, mixed, mishaps>>

\* The owner's, in its thirty minutes.
Owned(record, u, s) == record # Absent /\ record.user = u /\ s \notin over

\* Another page of the search is under way, or another process remembers it.
Crossed(q, h, s) ==
  \/ \E r \in Slots \ {q} : ask[r].kind = "page" /\ ask[r].search = s
                            /\ ask[r].at \in {"asking", "saving"}
  \/ \E g \in Hosts \ {h} : found[g][s] # Absent

\* owned_search has given a record, and the connection named is looked up in it.
Found(q, new, record) ==
  LET known == new.want = Absent \/ new.want \in Identifiers(record.map)
      next == IF new.kind = "page" THEN "asking" ELSE "offering"
  IN IF Owned(record, new.user, new.search) /\ known
     THEN /\ ask' = [ask EXCEPT ![q] = [new EXCEPT !.at = next, !.copy = record]]
          /\ mixed' = IF new.kind = "page" /\ Crossed(q, new.host, new.search)
                      THEN mixed \cup {new.search} ELSE mixed
     ELSE Done(q) /\ UNCHANGED mixed

\* search_page, and create_order or connection_detail, for a search the app has been
\* told of: the record in memory decides, and without one the row.
UseSearch(q, h, u, s, kind, c) ==
  LET new == [Unasked EXCEPT !.kind = kind, !.host = h, !.user = u, !.search = s, !.want = c]
  IN /\ ask[q].at = "idle" /\ s \in announced
     /\ c = Absent => kind = "page"
     /\ IF found[h][s] # Absent
        THEN Found(q, new, found[h][s])
        ELSE ask' = [ask EXCEPT ![q] = [new EXCEPT !.at = "loading"]] /\ UNCHANGED mixed
     /\ UNCHANGED <<refs, refRows, unsaved, found, searchRow, over, meaning,
                    announced, shown, offered, mishaps>>

ReadSearch(q) ==
  /\ ask[q].at = "loading"
  /\ IF searchRow[ask[q].search] # Absent
     THEN Found(q, ask[q], searchRow[ask[q].search])
     ELSE Done(q) /\ UNCHANGED mixed
  /\ UNCHANGED <<refs, refRows, unsaved, found, searchRow, over, meaning,
                 announced, shown, offered, mishaps>>

\* The record goes to memory at once, and from there to the row.
Memorize(q, s, record, want, list) ==
  /\ found' = [found EXCEPT ![ask[q].host][s] = record]
  /\ ask' = [ask EXCEPT ![q] = [ask[q] EXCEPT !.at = "saving", !.search = s, !.copy = record,
                                              !.want = want, !.new = Identifiers(list)]]
  /\ meaning' = [c \in Connections |->
        IF list[c] = Absent THEN meaning[c]
        ELSE [user |-> record.user, search |-> s, number |-> list[c]]]

\* Nobody has used the identifier.
Fresh(s) ==
  /\ s \notin announced \cup over /\ searchRow[s] = Absent
  /\ \A h \in Hosts : found[h][s] = Absent
  /\ \A q \in Slots : ask[q].search # s
  /\ \A c \in Connections : meaning[c] # Absent => meaning[c].search # s

\* Fault: a page takes the place of what was listed before.
Paged_Replaced(record, list) == [record EXCEPT !.map = list]

\* A page adds to what was listed before.
Paged(record, list) ==
  [record EXCEPT !.map = [c \in Connections |-> IF list[c] = Absent THEN record.map[c] ELSE list[c]]]

\* CD answers: a list, or an error, or none that is the journey.
Answered(q) ==
  /\ ask[q].at = "asking"
  /\ \/ \E list \in Listings :
          \/ /\ ask[q].kind = "page"
             /\ Memorize(q, ask[q].search, Paged(ask[q].copy, list), ask[q].want, list)
          \/ /\ ask[q].kind = "search"
             /\ \E s \in Searches :
                  Fresh(s) /\ Memorize(q, s, [user |-> ask[q].user, map |-> list], Absent, list)
          \/ /\ ask[q].kind = "intent"
             /\ \E s \in Searches, c \in Correlated(ask[q].journey, list) :
                  Fresh(s) /\ Memorize(q, s, [user |-> ask[q].user, map |-> list], c, list)
     \/ Done(q) /\ UNCHANGED <<found, meaning>>
  /\ UNCHANGED <<refs, refRows, unsaved, searchRow, over, announced, shown,
                 offered, mixed, mishaps>>

\* What the INSERT, or its DO UPDATE, makes of the row.
Saved(q) ==
  IF searchRow[ask[q].search] = Absent THEN ask[q].copy
  ELSE [searchRow[ask[q].search] EXCEPT !.map = ask[q].copy.map]

\* persist_search.  A search or a page is answered, an intent goes on to its price.
Persist(q) ==
  /\ ask[q].at = "saving"
  /\ searchRow' = [searchRow EXCEPT ![ask[q].search] = Saved(q)]
  /\ IF ask[q].kind = "intent"
     THEN Wait(q, "offering") /\ UNCHANGED <<announced, shown>>
     ELSE /\ Done(q)
          /\ announced' = announced \cup {ask[q].search}
          /\ shown' = shown \cup ask[q].new
  /\ UNCHANGED <<refs, refRows, unsaved, found, over, meaning, offered, mixed, mishaps>>

\* create_price_offer, or the detail of the connection.  An intent that comes to its
\* order names its search and its connection.
Offer(q) ==
  /\ ask[q].at = "offering"
  /\ offered' = offered \cup {[user |-> ask[q].user, search |-> ask[q].search,
                              connection |-> ask[q].want,
                              number |-> ask[q].copy.map[ask[q].want]]}
  /\ Done(q)
  /\ \/ UNCHANGED <<announced, shown>>
     \/ /\ ask[q].kind = "intent"
        /\ announced' = announced \cup {ask[q].search}
        /\ shown' = shown \cup {ask[q].want}
  /\ UNCHANGED <<refs, refRows, unsaved, found, searchRow, over, meaning, mixed, mishaps>>

-----------------------------------------------------------------------------
(* What goes wrong, and time. *)

\* A statement fails or the app hangs up; what was sent may have been executed, at once.
Interrupted(q) ==
  /\ ask[q].at # "idle"
  /\ Mishap
  /\ \/ UNCHANGED searchRow
     \/ /\ ask[q].at = "saving"
        /\ searchRow' = [searchRow EXCEPT ![ask[q].search] = Saved(q)]
  /\ Done(q)
  /\ UNCHANGED <<refs, refRows, unsaved, found, over, meaning, announced, shown,
                 offered, mixed>>

\* A process stops and starts again: of what it had sent, last was executed last.
StopHost(h) ==
  /\ Mishap
  /\ \E last \in [Searches -> Slots \cup {Absent}] :
       /\ \A s \in Searches : last[s] # Absent =>
            ask[last[s]].at = "saving" /\ ask[last[s]].host = h /\ ask[last[s]].search = s
       /\ searchRow' = [s \in Searches |-> IF last[s] = Absent THEN searchRow[s] ELSE Saved(last[s])]
  /\ refs' = [refs EXCEPT ![h] = {}]
  /\ unsaved' = {w \in unsaved : w[1] # h}
  /\ found' = [found EXCEPT ![h] = [s \in Searches |-> Absent]]
  /\ ask' = [q \in Slots |-> IF ask[q].host = h THEN Unasked ELSE ask[q]]
  /\ UNCHANGED <<refRows, over, meaning, announced, shown, offered, mixed>>

\* Thirty minutes.
Expire(x) ==
  /\ x \in announced \cup refRows \cup UNION {refs[h] : h \in Hosts}
  /\ over' = over \cup {x}
  /\ UNCHANGED <<refs, refRows, unsaved, found, searchRow, ask, meaning, announced,
                 shown, offered, mixed, mishaps>>

SearchNext ==
  \/ \E h \in Hosts, j \in Journeys : Annotate(h, j) \/ PersistReference(h, j)
  \/ \E q \in Slots, h \in Hosts, u \in Travellers :
       \/ CreateSearch(q, h, u)
       \/ \E j \in Journeys : CreateIntent(q, h, u, j)
       \/ \E s \in Searches, c \in shown \cup {Absent}, kind \in {"page", "order"} :
            UseSearch(q, h, u, s, kind, c)
  \/ \E q \in Slots :
       ReadReference(q) \/ ReadSearch(q) \/ Answered(q) \/ Persist(q) \/ Offer(q) \/ Interrupted(q)
  \/ \E h \in Hosts : StopHost(h)
  \/ \E x \in Journeys \cup Searches : Expire(x)

SearchSpec == SearchInit /\ [][SearchNext]_searchVars

-----------------------------------------------------------------------------
(* Properties. *)

\* What CD is asked a price of is what the identifier was shown for, to the user it
\* was shown to, whichever process answers ("opaque and user-scoped",
\* docs/cd_ticket_api_backend_integration.md:90).
OfferedWasMeant ==
  \A o \in offered :
    meaning[o.connection] = [user |-> o.user, search |-> o.search, number |-> o.number]

\* A connection that was shown can be chosen for as long as its search lasts, over
\* failed pages, hung-up apps and restarts: it is in the row, and wherever the search
\* is remembered.  The exceptions are pages that run at once or at processes in turn,
\* which write back an older map (search_page).
ShownIsKept ==
  \A c \in shown : LET s == meaning[c].search IN
    s \notin mixed =>
      /\ searchRow[s] # Absent /\ searchRow[s].map[c] = meaning[c].number
      /\ \A h \in Hosts : found[h][s] # Absent => found[h][s].map[c] = meaning[c].number

-----------------------------------------------------------------------------
(* The inductive invariant behind the two.                                 *)

UnderWay(q, s) == ask[q].search = s /\ ask[q].at \in {"asking", "saving"}

\* A record says of its search what its identifiers were made for, by m.
Agrees(record, s, m) ==
  record # Absent => \A c \in Identifiers(record.map) :
    m[c] = [user |-> record.user, search |-> s, number |-> record.map[c]]

RecordsAgree ==
  /\ \A s \in Searches :
       /\ Agrees(searchRow[s], s, meaning)
       /\ \A h \in Hosts : Agrees(found[h][s], s, meaning)
  /\ \A q \in Slots :
       /\ ask[q].copy # Absent =>
            /\ ask[q].search \in Searches /\ ask[q].copy.user = ask[q].user
            /\ Agrees(ask[q].copy, ask[q].search, meaning)
       /\ ask[q].at = "saving" \/ (ask[q].at = "asking" /\ ask[q].kind = "page") =>
            ask[q].copy # Absent

\* All records of a search are one user's.
Owns(u, s) ==
  /\ searchRow[s] # Absent => searchRow[s].user = u
  /\ \A h \in Hosts : found[h][s] # Absent => found[h][s].user = u
  /\ \A q \in Slots : ask[q].search = s /\ ask[q].copy # Absent => ask[q].copy.user = u
OneOwner == \A s \in Searches : \E u \in Travellers : Owns(u, s)

\* What was shown was made for a search that the app knows.
ShownIsAnnounced ==
  /\ \A c \in shown : meaning[c] # Absent /\ meaning[c].search \in announced
  /\ mixed \subseteq announced
  /\ \A q \in Slots : ask[q].kind \in {"page", "order"} => ask[q].search \in announced

\* Nobody but the request that makes a search knows it.
CreatorsAreAlone ==
  \A q \in Slots : ask[q].kind \in {"search", "intent"} /\ ask[q].search # Absent =>
    /\ ask[q].at \in {"saving", "offering"} /\ ask[q].search \notin announced
    /\ \A r \in Slots \ {q} : ask[r].search # ask[q].search

\* What will be asked a price of is in the record; an intent's is in every record.
ChoiceIsListed ==
  \A q \in Slots :
    /\ ask[q].kind = "order" => ask[q].want # Absent /\ ask[q].at \notin {"asking", "saving"}
    /\ ask[q].at = "offering" \/ (ask[q].at = "saving" /\ ask[q].kind = "intent") =>
         ask[q].copy # Absent /\ ask[q].want \in Identifiers(ask[q].copy.map)
    /\ ask[q].kind = "intent" /\ ask[q].at = "offering" =>
         /\ searchRow[ask[q].search] # Absent
         /\ ask[q].want \in Identifiers(searchRow[ask[q].search].map)
         /\ \A h \in Hosts : found[h][ask[q].search] # Absent =>
              ask[q].want \in Identifiers(found[h][ask[q].search].map)

\* A request that reads a row has no record yet.
ReadersAreEmpty ==
  \A q \in Slots :
    /\ ask[q].at = "referring" => ask[q].kind = "intent" /\ ask[q].copy = Absent
    /\ ask[q].at = "loading" => ask[q].kind \in {"page", "order"} /\ ask[q].copy = Absent

\* What will be shown is in the record that is being written.
NewIsListed ==
  \A q \in Slots : ask[q].at = "saving" => ask[q].new \subseteq Identifiers(ask[q].copy.map)

Holds(record, s) == \A c \in shown : meaning[c].search = s => record.map[c] # Absent

\* A search that is not mixed has one writer at a time, whose copy is whole.
OneWriter ==
  \A s \in Searches \ mixed, q \in Slots : UnderWay(q, s) =>
    /\ ask[q].copy # Absent /\ Holds(ask[q].copy, s)
    /\ \A r \in Slots \ {q} : ~ UnderWay(r, s)
    /\ \A h \in Hosts \ {ask[q].host} : found[h][s] = Absent
    /\ ask[q].at = "saving" => found[ask[q].host][s] = ask[q].copy

RecordsHold ==
  \A s \in Searches \ mixed :
    /\ s \in announced => searchRow[s] # Absent /\ Holds(searchRow[s], s)
    /\ \A h \in Hosts : found[h][s] # Absent => Holds(found[h][s], s)

SearchInv ==
  /\ SearchTypeOK /\ RecordsAgree /\ OneOwner /\ ShownIsAnnounced /\ CreatorsAreAlone
  /\ ChoiceIsListed /\ ReadersAreEmpty /\ NewIsListed /\ OneWriter /\ RecordsHold
  /\ OfferedWasMeant
=============================================================================

------------------------- MODULE TicketSearchProofs -------------------------
(***************************************************************************)
(* Proofs about TicketSearch, for any number of processes, users, searches,*)
(* connections and requests, and every stop, failed statement and lost     *)
(* answer: what CD is asked a price of is what the app's identifier was    *)
(* shown for, and a connection that was shown can be chosen.               *)
(*                                                                         *)
(* SearchInv is inductive.  Its steps fall into four kinds: those that     *)
(* only begin or end requests without a record (Calm), those that give a   *)
(* request the record it asked for (Given), those that put a list of CD's  *)
(* into memory (Made) and those that write the row (IntentSaved) or answer *)
(* the app (Told).  A lemma per part of the invariant deals with each.     *)
(***************************************************************************)
EXTENDS TicketSearch, TLAPS

\* What was found of a record lasts, as meanings are only added.
LEMMA AgreesGrows ==
  ASSUME NEW record \in Record \cup {Absent}, NEW s \in Searches, NEW m, NEW n,
         Agrees(record, s, m), \A c \in Connections : m[c] # Absent => n[c] = m[c]
  PROVE  Agrees(record, s, n)
<1>1. SUFFICES ASSUME record # Absent, NEW c \in Identifiers(record.map)
               PROVE  n[c] = [user |-> record.user, search |-> s, number |-> record.map[c]]
  BY DEF Agrees
<1>2. record.user \in Travellers /\ c \in Connections /\ record.map[c] \in Numbers
  BY <1>1 DEF Record, Map, Identifiers
<1>3. [user |-> record.user, search |-> s, number |-> record.map[c]] \in Meaning
  BY <1>2 DEF Meaning
<1>4. m[c] = [user |-> record.user, search |-> s, number |-> record.map[c]] /\ m[c] # Absent
  BY <1>1, <1>3, SearchAssumption DEF Agrees
<1>. QED
  BY <1>2, <1>4

\* The request in a slot is replaced by a well-typed one.
LEMMA SlotReplaced ==
  ASSUME SearchTypeOK, NEW q \in Slots, NEW new \in Ask, ask' = [ask EXCEPT ![q] = new],
         new.at # "idle" => new.host \in Hosts /\ new.user \in Travellers
  PROVE  /\ ask' \in [Slots -> Ask]
         /\ ask'[q] = new
         /\ \A r \in Slots \ {q} : ask'[r] = ask[r]
         /\ \A r \in Slots : ask'[r].at # "idle" => ask'[r].host \in Hosts /\ ask'[r].user \in Travellers
<1>1. ask \in [Slots -> Ask]
  BY DEF SearchTypeOK
<1>2. ask' \in [Slots -> Ask] /\ ask'[q] = new /\ \A r \in Slots \ {q} : ask'[r] = ask[r]
  BY <1>1
<1>3. ASSUME NEW r \in Slots, ask'[r].at # "idle"
      PROVE  ask'[r].host \in Hosts /\ ask'[r].user \in Travellers
  <2>1. CASE r = q
    BY <1>2, <1>3, <2>1
  <2>2. CASE r # q
    BY <1>2, <1>3, <2>2 DEF SearchTypeOK
  <2>. QED
    BY <2>1, <2>2
<1>. QED
  BY <1>2, <1>3

LEMMA IdleType == Unasked \in Ask /\ Unasked.at = "idle" /\ Unasked.kind = "search"
                  /\ Unasked.copy = Absent /\ Unasked.search = Absent
BY DEF Unasked, Ask

\* The parts of a request.
LEMMA AskParts ==
  ASSUME SearchTypeOK, NEW q \in Slots
  PROVE  /\ ask[q] \in Ask
         /\ ask[q].at \in {"idle", "referring", "loading", "asking", "saving", "offering"}
         /\ ask[q].kind \in {"search", "intent", "page", "order"}
         /\ ask[q].search \in Searches \cup {Absent} /\ ask[q].copy \in Record \cup {Absent}
         /\ ask[q].want \in Connections \cup {Absent} /\ ask[q].new \subseteq Connections
         /\ ask[q].at # "idle" => ask[q].host \in Hosts /\ ask[q].user \in Travellers
<1>1. ask[q] \in Ask
  BY DEF SearchTypeOK
<1>. QED
  BY <1>1 DEF Ask, SearchTypeOK

\* A row that is written becomes the copy that was sent.
LEMMA SavedIsCopy ==
  ASSUME SearchInv, NEW q \in Slots, ask[q].at = "saving"
  PROVE  ask[q].copy \in Record /\ ask[q].search \in Searches /\ Saved(q) = ask[q].copy
<1>1. ask[q].copy # Absent /\ ask[q].search \in Searches
  BY DEF SearchInv, RecordsAgree
<1>2. ask[q].copy \in Record
  BY <1>1, AskParts DEF SearchInv
<1>3. CASE searchRow[ask[q].search] # Absent
  <2>1. searchRow[ask[q].search] \in Record
    BY <1>1, <1>3 DEF SearchInv, SearchTypeOK
  <2>2. searchRow[ask[q].search].user = ask[q].copy.user
    BY <1>1, <1>3 DEF SearchInv, OneOwner, Owns
  <2>3. ASSUME NEW r \in Record, NEW c \in Record, r.user = c.user
        PROVE  [r EXCEPT !.map = c.map] = c
    BY <2>3 DEF Record
  <2>. QED
    BY <1>2, <1>3, <2>1, <2>2, <2>3, <1>1 DEF Saved
<1>. QED
  BY <1>1, <1>2, <1>3 DEF Saved

-----------------------------------------------------------------------------
(* Types. *)

LEMMA NewTyped ==
  ASSUME NEW h \in Hosts, NEW u \in Travellers
  PROVE  /\ [Unasked EXCEPT !.at = "asking", !.kind = "search", !.host = h, !.user = u] \in Ask
         /\ \A j \in Journeys, p \in {"asking", "referring"} :
              [Unasked EXCEPT !.at = p, !.kind = "intent", !.host = h, !.user = u,
                              !.journey = j] \in Ask
         /\ \A s \in Searches, k \in {"page", "order"}, c \in Connections \cup {Absent} :
              [Unasked EXCEPT !.kind = k, !.host = h, !.user = u, !.search = s, !.want = c] \in Ask
BY DEF Unasked, Ask

Points == {"idle", "referring", "loading", "asking", "saving", "offering"}

\* A request that goes on.
LEMMA GoesOn ==
  ASSUME NEW a \in Ask, NEW p \in Points
  PROVE  LET b == [a EXCEPT !.at = p] IN
         /\ b \in Ask /\ b.at = p /\ b.host = a.host /\ b.user = a.user /\ b.kind = a.kind
         /\ b.search = a.search /\ b.copy = a.copy /\ b.want = a.want /\ b.new = a.new
BY DEF Ask, Points

-----------------------------------------------------------------------------
(* Steps that only end requests, or begin them.                             *)

\* A request that has no record yet.
Harmless(a) ==
  /\ a \in Ask /\ a.copy = Absent /\ a.at \notin {"saving", "offering"}
  /\ a.kind \in {"search", "intent"} => a.search = Absent
  /\ a.kind \in {"page", "order"} => a.at = "loading" /\ a.search \in announced
  /\ a.kind = "order" => a.want # Absent
  /\ a.at = "referring" => a.kind = "intent"
  /\ a.at = "loading" => a.kind \in {"page", "order"}

Calm ==
  /\ \A q \in Slots : ask'[q] = ask[q] \/ Harmless(ask'[q])
  /\ \A h \in Hosts, s \in Searches :
       \/ found'[h][s] = found[h][s]
       \/ found'[h][s] = Absent /\ \A q \in Slots : ask[q].host = h => Harmless(ask'[q])
  /\ \A s \in Searches :
       \/ searchRow'[s] = searchRow[s]
       \/ \E q \in Slots : ask[q].at = "saving" /\ ask[q].search = s /\ searchRow'[s] = ask[q].copy
  /\ meaning' = meaning /\ announced' = announced /\ shown' = shown /\ mixed' = mixed

LEMMA CalmAgrees == ASSUME SearchInv, Calm PROVE RecordsAgree'
<1>1. ASSUME NEW s \in Searches PROVE Agrees(searchRow'[s], s, meaning')
  <2>1. CASE searchRow'[s] = searchRow[s]
    BY <2>1 DEF SearchInv, RecordsAgree, Calm
  <2>2. ASSUME NEW q \in Slots, ask[q].at = "saving", ask[q].search = s,
               searchRow'[s] = ask[q].copy
        PROVE  Agrees(searchRow'[s], s, meaning')
    BY <2>2 DEF SearchInv, RecordsAgree, Calm
  <2>. QED
    BY <2>1, <2>2 DEF Calm
<1>2. ASSUME NEW s \in Searches, NEW h \in Hosts PROVE Agrees(found'[h][s], s, meaning')
  <2>1. CASE found'[h][s] = found[h][s]
    BY <2>1 DEF SearchInv, RecordsAgree, Calm
  <2>2. CASE found'[h][s] = Absent
    BY <2>2 DEF Agrees
  <2>. QED
    BY <2>1, <2>2 DEF Calm
<1>3. ASSUME NEW q \in Slots
      PROVE  /\ ask'[q].copy # Absent =>
                  /\ ask'[q].search \in Searches /\ ask'[q].copy.user = ask'[q].user
                  /\ Agrees(ask'[q].copy, ask'[q].search, meaning')
             /\ ask'[q].at = "saving" \/ (ask'[q].at = "asking" /\ ask'[q].kind = "page") =>
                  ask'[q].copy # Absent
  <2>1. CASE ask'[q] = ask[q]
    BY <2>1 DEF SearchInv, RecordsAgree, Calm
  <2>2. CASE Harmless(ask'[q])
    BY <2>2 DEF Harmless
  <2>. QED
    BY <2>1, <2>2 DEF Calm
<1>. QED
  BY <1>1, <1>2, <1>3 DEF RecordsAgree

LEMMA CalmOwner == ASSUME SearchInv, Calm PROVE OneOwner'
<1>1. SUFFICES ASSUME NEW s \in Searches PROVE \E u \in Travellers : Owns(u, s)'
  BY DEF OneOwner
<1>2. PICK u \in Travellers : Owns(u, s)
  BY DEF SearchInv, OneOwner
<1>3. searchRow'[s] # Absent => searchRow'[s].user = u
  BY <1>2 DEF Calm, Owns
<1>4. ASSUME NEW h \in Hosts PROVE found'[h][s] # Absent => found'[h][s].user = u
  BY <1>2 DEF Calm, Owns
<1>5. ASSUME NEW q \in Slots
      PROVE  ask'[q].search = s /\ ask'[q].copy # Absent => ask'[q].copy.user = u
  BY <1>2 DEF Calm, Owns, Harmless
<1>. QED
  BY <1>3, <1>4, <1>5 DEF Owns

LEMMA CalmAnnounced == ASSUME SearchInv, Calm PROVE ShownIsAnnounced'
<1>1. ASSUME NEW q \in Slots
      PROVE  ask'[q].kind \in {"page", "order"} => ask'[q].search \in announced'
  BY DEF Calm, Harmless, SearchInv, ShownIsAnnounced
<1>. QED
  BY <1>1 DEF Calm, SearchInv, ShownIsAnnounced

LEMMA CalmCreators == ASSUME SearchInv, Calm PROVE CreatorsAreAlone'
<1>1. SUFFICES ASSUME NEW q \in Slots, ask'[q].kind \in {"search", "intent"}, ask'[q].search # Absent
               PROVE  /\ ask'[q].at \in {"saving", "offering"} /\ ask'[q].search \notin announced'
                      /\ \A r \in Slots \ {q} : ask'[r].search # ask'[q].search
  BY DEF CreatorsAreAlone
<1>2. ask'[q] = ask[q]
  BY <1>1 DEF Calm, Harmless
<1>3. /\ ask[q].at \in {"saving", "offering"} /\ ask[q].search \notin announced
      /\ \A r \in Slots \ {q} : ask[r].search # ask[q].search
  BY <1>1, <1>2 DEF SearchInv, CreatorsAreAlone
<1>4. ASSUME NEW r \in Slots \ {q} PROVE ask'[r].search # ask'[q].search
  <2>1. CASE ask'[r] = ask[r]
    BY <1>2, <1>3, <2>1
  <2>2. CASE Harmless(ask'[r])
    BY <1>1, <1>2, <1>3, <2>2 DEF Harmless, Ask
  <2>. QED
    BY <2>1, <2>2 DEF Calm
<1>. QED
  BY <1>2, <1>3, <1>4 DEF Calm

LEMMA CalmChoice == ASSUME SearchInv, Calm PROVE ChoiceIsListed'
<1>1. ASSUME NEW q \in Slots
      PROVE  /\ ask'[q].kind = "order" =>
                  ask'[q].want # Absent /\ ask'[q].at \notin {"asking", "saving"}
             /\ ask'[q].at = "offering" \/ (ask'[q].at = "saving" /\ ask'[q].kind = "intent") =>
                  ask'[q].copy # Absent /\ ask'[q].want \in Identifiers(ask'[q].copy.map)
  BY DEF Calm, Harmless, SearchInv, ChoiceIsListed
<1>2. ASSUME NEW q \in Slots, ask'[q].kind = "intent", ask'[q].at = "offering"
      PROVE  /\ searchRow'[ask'[q].search] # Absent
             /\ ask'[q].want \in Identifiers(searchRow'[ask'[q].search].map)
             /\ \A h \in Hosts : found'[h][ask'[q].search] # Absent =>
                  ask'[q].want \in Identifiers(found'[h][ask'[q].search].map)
  <2>1. ask'[q] = ask[q]
    BY <1>2 DEF Calm, Harmless
  <2>2. ask[q].search \in Searches
    BY <1>2, <2>1 DEF SearchInv, ChoiceIsListed, RecordsAgree
  <2>3. \A r \in Slots \ {q} : ask[r].search # ask[q].search
    BY <1>2, <2>1, <2>2, SearchAssumption DEF SearchInv, CreatorsAreAlone
  <2>4. searchRow'[ask[q].search] = searchRow[ask[q].search]
    BY <1>2, <2>1, <2>2, <2>3 DEF Calm
  <2>5. ASSUME NEW h \in Hosts, found'[h][ask[q].search] # Absent
        PROVE  ask[q].want \in Identifiers(found'[h][ask[q].search].map)
    BY <1>2, <2>1, <2>2, <2>5 DEF Calm, SearchInv, ChoiceIsListed
  <2>. QED
    BY <1>2, <2>1, <2>4, <2>5 DEF SearchInv, ChoiceIsListed
<1>. QED
  BY <1>1, <1>2 DEF ChoiceIsListed

LEMMA CalmWriter == ASSUME SearchInv, Calm PROVE OneWriter'
<1>1. SUFFICES ASSUME NEW s \in Searches \ mixed', NEW q \in Slots, UnderWay(q, s)'
               PROVE  (/\ ask[q].copy # Absent /\ Holds(ask[q].copy, s)
                       /\ \A r \in Slots \ {q} : ~ UnderWay(r, s)
                       /\ \A h \in Hosts \ {ask[q].host} : found[h][s] = Absent
                       /\ ask[q].at = "saving" => found[ask[q].host][s] = ask[q].copy)'
  BY DEF OneWriter
<1>2. ASSUME NEW r \in Slots, UnderWay(r, s)' PROVE ask'[r] = ask[r] /\ UnderWay(r, s)
  BY <1>2, SearchAssumption DEF Calm, Harmless, UnderWay, Ask
<1>3. ask'[q] = ask[q] /\ UnderWay(q, s) /\ s \in Searches \ mixed
  BY <1>1, <1>2 DEF Calm
<1>4. /\ ask[q].copy # Absent /\ Holds(ask[q].copy, s)
      /\ \A r \in Slots \ {q} : ~ UnderWay(r, s)
      /\ \A h \in Hosts \ {ask[q].host} : found[h][s] = Absent
      /\ ask[q].at = "saving" => found[ask[q].host][s] = ask[q].copy
  BY <1>3 DEF SearchInv, OneWriter
<1>5. Holds(ask[q].copy, s)'
  BY <1>3, <1>4 DEF Holds, Calm
<1>6. \A r \in Slots \ {q} : ~ UnderWay(r, s)'
  BY <1>2, <1>4
<1>7. \A h \in Hosts \ {ask[q].host} : found'[h][s] = Absent
  BY <1>3, <1>4 DEF Calm
<1>8. ASSUME ask[q].at = "saving" PROVE found'[ask[q].host][s] = ask[q].copy
  <2>1. ask[q].host \in Hosts
    BY <1>8, AskParts DEF SearchInv
  <2>2. ~ Harmless(ask'[q])
    BY <1>3, <1>8 DEF Harmless
  <2>. QED
    BY <1>3, <1>4, <1>8, <2>1, <2>2 DEF Calm
<1>. QED
  BY <1>3, <1>4, <1>5, <1>6, <1>7, <1>8

LEMMA CalmHold == ASSUME SearchInv, Calm PROVE RecordsHold'
<1>1. ASSUME NEW s \in Searches \ mixed', s \in announced'
      PROVE  searchRow'[s] # Absent /\ Holds(searchRow[s], s)'
  <2>1. s \in Searches \ mixed /\ s \in announced
    BY <1>1 DEF Calm
  <2>2. CASE searchRow'[s] = searchRow[s]
    BY <2>1, <2>2 DEF SearchInv, RecordsHold, Holds, Calm
  <2>3. ASSUME NEW q \in Slots, ask[q].at = "saving", ask[q].search = s,
               searchRow'[s] = ask[q].copy
        PROVE  searchRow'[s] # Absent /\ Holds(searchRow[s], s)'
    <3>1. ask[q].copy # Absent /\ Holds(ask[q].copy, s)
      BY <2>1, <2>3 DEF SearchInv, OneWriter, UnderWay
    <3>. QED
      BY <2>3, <3>1 DEF Holds, Calm
  <2>. QED
    BY <2>1, <2>2, <2>3 DEF Calm
<1>2. ASSUME NEW s \in Searches \ mixed', NEW h \in Hosts, found'[h][s] # Absent
      PROVE  Holds(found[h][s], s)'
  BY <1>2 DEF SearchInv, RecordsHold, Holds, Calm
<1>. QED
  BY <1>1, <1>2 DEF RecordsHold

LEMMA CalmReaders == ASSUME SearchInv, Calm PROVE ReadersAreEmpty' /\ NewIsListed'
<1>1. ASSUME NEW q \in Slots
      PROVE  /\ ask'[q].at = "referring" => ask'[q].kind = "intent" /\ ask'[q].copy = Absent
             /\ ask'[q].at = "loading" => ask'[q].kind \in {"page", "order"} /\ ask'[q].copy = Absent
             /\ ask'[q].at = "saving" => ask'[q].new \subseteq Identifiers(ask'[q].copy.map)
  <2>1. CASE ask'[q] = ask[q]
    BY <2>1 DEF SearchInv, ReadersAreEmpty, NewIsListed
  <2>2. CASE Harmless(ask'[q])
    BY <2>2 DEF Harmless
  <2>. QED
    BY <2>1, <2>2 DEF Calm
<1>. QED
  BY <1>1 DEF ReadersAreEmpty, NewIsListed

LEMMA CalmKeeps ==
  ASSUME SearchInv, Calm, SearchTypeOK', OfferedWasMeant' PROVE SearchInv'
BY CalmAgrees, CalmOwner, CalmAnnounced, CalmCreators, CalmChoice, CalmReaders, CalmWriter,
   CalmHold
   DEF SearchInv

-----------------------------------------------------------------------------
(* A request is given its record: owned_search.                             *)

\* What a request that has been given the record looks like.
Given(q, new, record) ==
  /\ ask'[q].copy = record /\ ask'[q].search = new.search /\ ask'[q].kind = new.kind
  /\ ask'[q].user = new.user /\ ask'[q].host = new.host /\ ask'[q].want = new.want
  /\ ask'[q].at = (IF new.kind = "page" THEN "asking" ELSE "offering")
  /\ new.want = Absent \/ new.want \in Identifiers(record.map)
  /\ record.user = new.user
  /\ \A r \in Slots \ {q} : ask'[r] = ask[r]
  /\ mixed' = IF new.kind = "page" /\ Crossed(q, new.host, new.search)
              THEN mixed \cup {new.search} ELSE mixed

\* What may ask for a record, and the record it is given.
Deserved(q, new, record) ==
  /\ new \in Ask /\ new.copy = Absent /\ new.kind \in {"page", "order"}
  /\ new.kind = "order" => new.want # Absent
  /\ new.search \in announced /\ new.host \in Hosts /\ new.user \in Travellers
  /\ record \in Record /\ Agrees(record, new.search, meaning)
  /\ \A u \in Travellers : Owns(u, new.search) => record.user = u
  /\ new.search \notin mixed => Holds(record, new.search)
  /\ UNCHANGED <<found, searchRow, meaning, announced, shown, offered>>

LEMMA FoundEffect ==
  ASSUME SearchTypeOK, NEW q \in Slots, NEW new, NEW record, Deserved(q, new, record),
         Found(q, new, record)
  PROVE  /\ ask' \in [Slots -> Ask] /\ mixed' \subseteq Searches
         /\ \A r \in Slots : ask'[r].at # "idle" => ask'[r].host \in Hosts /\ ask'[r].user \in Travellers
         /\ \/ Given(q, new, record)
            \/ /\ ask'[q] = Unasked /\ mixed' = mixed
               /\ \A r \in Slots \ {q} : ask'[r] = ask[r]
<1>. DEFINE next == IF new.kind = "page" THEN "asking" ELSE "offering"
            a == [new EXCEPT !.at = next, !.copy = record]
<1>0. new \in Ask /\ record \in Record /\ new.search \in Searches
  BY DEF Deserved, SearchTypeOK
<1>1. CASE Owned(record, new.user, new.search)
             /\ (new.want = Absent \/ new.want \in Identifiers(record.map))
  <2>1. ask' = [ask EXCEPT ![q] = a]
    BY <1>1 DEF Found
  <2>2. /\ a \in Ask /\ a.at = next /\ a.copy = record /\ a.host = new.host /\ a.user = new.user
        /\ a.kind = new.kind /\ a.search = new.search /\ a.want = new.want
    <3>1. next \in Points
      BY DEF Points
    <3>. HIDE DEF next
    <3>. QED
      BY <1>0, <3>1 DEF Ask, Points
  <2>3. a.host \in Hosts /\ a.user \in Travellers
    BY <2>2 DEF Deserved
  <2>. HIDE DEF a
  <2>4. /\ ask' \in [Slots -> Ask] /\ ask'[q] = a
        /\ \A r \in Slots \ {q} : ask'[r] = ask[r]
        /\ \A r \in Slots : ask'[r].at # "idle" => ask'[r].host \in Hosts /\ ask'[r].user \in Travellers
    BY <2>1, <2>2, <2>3, SlotReplaced
  <2>5. mixed' = IF new.kind = "page" /\ Crossed(q, new.host, new.search)
                 THEN mixed \cup {new.search} ELSE mixed
    BY <1>1 DEF Found
  <2>6. mixed' \subseteq Searches
    BY <1>0, <2>5 DEF SearchTypeOK
  <2>7. record.user = new.user
    BY <1>1 DEF Owned
  <2>8. Given(q, new, record)
    BY <1>1, <2>2, <2>4, <2>5, <2>7 DEF Given
  <2>. QED
    BY <2>4, <2>6, <2>8
<1>2. CASE ~ (Owned(record, new.user, new.search)
              /\ (new.want = Absent \/ new.want \in Identifiers(record.map)))
  <2>1. ask' = [ask EXCEPT ![q] = Unasked] /\ mixed' = mixed
    BY <1>2 DEF Found, Done
  <2>2. /\ ask' \in [Slots -> Ask] /\ ask'[q] = Unasked
        /\ \A r \in Slots \ {q} : ask'[r] = ask[r]
        /\ \A r \in Slots : ask'[r].at # "idle" => ask'[r].host \in Hosts /\ ask'[r].user \in Travellers
    BY <2>1, IdleType, SlotReplaced
  <2>3. mixed' \subseteq Searches
    BY <2>1 DEF SearchTypeOK
  <2>. QED
    BY <2>1, <2>2, <2>3
<1>. QED
  BY <1>1, <1>2

\* A slot that is idle is harmless, and so is every step that only empties slots.
LEMMA IdleIsHarmless == Harmless(Unasked)
BY IdleType DEF Harmless

LEMMA GivenAgrees ==
  ASSUME SearchInv, NEW q \in Slots, NEW new, NEW record, Deserved(q, new, record),
         Given(q, new, record)
  PROVE  RecordsAgree' /\ OneOwner' /\ ShownIsAnnounced'
<1>0. record # Absent /\ new.search \in Searches /\ record \in Record
  BY SearchAssumption DEF Deserved, SearchInv, SearchTypeOK
<1>. UNCHANGED <<found, searchRow, meaning, announced, shown>>
  BY DEF Deserved
<1>1. ASSUME NEW r \in Slots
      PROVE  /\ ask'[r].copy # Absent =>
                  /\ ask'[r].search \in Searches /\ ask'[r].copy.user = ask'[r].user
                  /\ Agrees(ask'[r].copy, ask'[r].search, meaning')
             /\ ask'[r].at = "saving" \/ (ask'[r].at = "asking" /\ ask'[r].kind = "page") =>
                  ask'[r].copy # Absent
  <2>1. CASE r = q
    BY <1>0, <2>1 DEF Given, Deserved
  <2>2. CASE r # q
    BY <2>2 DEF Given, SearchInv, RecordsAgree
  <2>. QED
    BY <2>1, <2>2
<1>2. RecordsAgree'
  BY <1>1 DEF RecordsAgree, SearchInv
<1>3. ASSUME NEW s \in Searches PROVE \E u \in Travellers : Owns(u, s)'
  <2>1. PICK u \in Travellers : Owns(u, s)
    BY DEF SearchInv, OneOwner
  <2>2. ASSUME NEW r \in Slots, ask'[r].search = s, ask'[r].copy # Absent
        PROVE  ask'[r].copy.user = u
    <3>1. CASE r = q
      BY <2>1, <2>2, <3>1 DEF Given, Deserved
    <3>2. CASE r # q
      BY <2>1, <2>2, <3>2 DEF Given, Owns
    <3>. QED
      BY <3>1, <3>2
  <2>. QED
    BY <2>1, <2>2 DEF Owns
<1>4. ASSUME NEW r \in Slots
      PROVE  ask'[r].kind \in {"page", "order"} => ask'[r].search \in announced'
  <2>1. CASE r = q
    BY <2>1 DEF Given, Deserved
  <2>2. CASE r # q
    BY <2>2 DEF Given, SearchInv, ShownIsAnnounced
  <2>. QED
    BY <2>1, <2>2
<1>5. mixed' \subseteq announced'
  BY DEF Given, Deserved, SearchInv, ShownIsAnnounced
<1>. QED
  BY <1>2, <1>3, <1>4, <1>5 DEF OneOwner, ShownIsAnnounced, SearchInv

LEMMA GivenListed ==
  ASSUME SearchInv, NEW q \in Slots, NEW new, NEW record, Deserved(q, new, record),
         Given(q, new, record)
  PROVE  CreatorsAreAlone' /\ ChoiceIsListed' /\ RecordsHold'
<1>0. record # Absent /\ new.kind \in {"page", "order"} /\ new.search \in announced
  BY SearchAssumption DEF Deserved, SearchInv, SearchTypeOK
<1>. UNCHANGED <<found, searchRow, meaning, announced, shown>>
  BY DEF Deserved
<1>1. ASSUME NEW c \in Slots, ask'[c].kind \in {"search", "intent"}, ask'[c].search # Absent
      PROVE  /\ ask'[c].at \in {"saving", "offering"} /\ ask'[c].search \notin announced'
             /\ \A r \in Slots \ {c} : ask'[r].search # ask'[c].search
  <2>1. c # q /\ ask'[c] = ask[c]
    BY <1>0, <1>1 DEF Given
  <2>2. /\ ask[c].at \in {"saving", "offering"} /\ ask[c].search \notin announced
        /\ \A r \in Slots \ {c} : ask[r].search # ask[c].search
    BY <1>1, <2>1 DEF SearchInv, CreatorsAreAlone
  <2>. QED
    BY <1>0, <2>1, <2>2 DEF Given
<1>2. ASSUME NEW r \in Slots
      PROVE  /\ ask'[r].kind = "order" =>
                  ask'[r].want # Absent /\ ask'[r].at \notin {"asking", "saving"}
             /\ ask'[r].at = "offering" \/ (ask'[r].at = "saving" /\ ask'[r].kind = "intent") =>
                  ask'[r].copy # Absent /\ ask'[r].want \in Identifiers(ask'[r].copy.map)
             /\ ask'[r].kind = "intent" /\ ask'[r].at = "offering" =>
                  /\ searchRow'[ask'[r].search] # Absent
                  /\ ask'[r].want \in Identifiers(searchRow'[ask'[r].search].map)
                  /\ \A h \in Hosts : found'[h][ask'[r].search] # Absent =>
                       ask'[r].want \in Identifiers(found'[h][ask'[r].search].map)
  <2>1. CASE r = q
    BY <1>0, <2>1 DEF Given, Deserved
  <2>2. CASE r # q
    BY <2>2 DEF Given, SearchInv, ChoiceIsListed
  <2>. QED
    BY <2>1, <2>2
<1>3. mixed \subseteq mixed'
  BY DEF Given
<1>4. RecordsHold'
  BY <1>3 DEF SearchInv, RecordsHold, Holds
<1>. QED
  BY <1>1, <1>2, <1>4 DEF CreatorsAreAlone, ChoiceIsListed

LEMMA GivenWriter ==
  ASSUME SearchInv, NEW q \in Slots, NEW new, NEW record, Deserved(q, new, record),
         Given(q, new, record)
  PROVE  OneWriter'
<1>0. record # Absent /\ new.kind \in {"page", "order"} /\ new.search \in announced
  BY SearchAssumption DEF Deserved, SearchInv, SearchTypeOK
<1>. UNCHANGED <<found, searchRow, meaning, announced, shown>>
  BY DEF Deserved
<1>1. SUFFICES ASSUME NEW s \in Searches \ mixed', NEW p \in Slots, UnderWay(p, s)'
               PROVE  (/\ ask[p].copy # Absent /\ Holds(ask[p].copy, s)
                       /\ \A r \in Slots \ {p} : ~ UnderWay(r, s)
                       /\ \A h \in Hosts \ {ask[p].host} : found[h][s] = Absent
                       /\ ask[p].at = "saving" => found[ask[p].host][s] = ask[p].copy)'
  BY DEF OneWriter
<1>2. s \in Searches \ mixed
  BY <1>1 DEF Given
\* A page of an announced search is under way: it is a page.
<1>3. ASSUME NEW r \in Slots \ {q}, UnderWay(r, new.search) PROVE ask[r].kind = "page"
  BY <1>0, <1>3, AskParts, SearchAssumption
     DEF SearchInv, CreatorsAreAlone, ChoiceIsListed, UnderWay, Deserved, SearchTypeOK
<1>4. ASSUME new.kind = "page", new.search = s
      PROVE  /\ \A r \in Slots \ {q} : ~ UnderWay(r, s)
             /\ \A h \in Hosts \ {new.host} : found[h][s] = Absent
  <2>1. ~ Crossed(q, new.host, s)
    BY <1>1, <1>4 DEF Given
  <2>. QED
    BY <1>3, <1>4, <2>1 DEF Crossed, UnderWay
<1>5. ASSUME NEW r \in Slots \ {q} PROVE UnderWay(r, s)' <=> UnderWay(r, s)
  BY DEF UnderWay, Given
<1>6. CASE p = q
  <2>1. new.kind = "page" /\ new.search = s /\ ask'[q].at = "asking"
    BY <1>1, <1>6 DEF Given, UnderWay
  <2>2. Holds(ask[p].copy, s)'
    BY <1>2, <1>6, <2>1 DEF Given, Deserved, Holds
  <2>3. \A h \in Hosts \ {ask'[q].host} : found'[h][s] = Absent
    BY <1>4, <2>1 DEF Given
  <2>4. \A r \in Slots \ {q} : ~ UnderWay(r, s)'
    BY <1>4, <1>5, <2>1
  <2>. QED
    BY <1>0, <1>6, <2>1, <2>2, <2>3, <2>4 DEF Given
<1>7. CASE p # q
  <2>1. ask'[p] = ask[p] /\ UnderWay(p, s)
    BY <1>1, <1>5, <1>7 DEF Given
  <2>2. /\ ask[p].copy # Absent /\ Holds(ask[p].copy, s)
        /\ \A r \in Slots \ {p} : ~ UnderWay(r, s)
        /\ \A h \in Hosts \ {ask[p].host} : found[h][s] = Absent
        /\ ask[p].at = "saving" => found[ask[p].host][s] = ask[p].copy
    BY <1>2, <2>1 DEF SearchInv, OneWriter
  <2>3. ~ UnderWay(q, s)'
    <3>1. SUFFICES ASSUME UnderWay(q, s)' PROVE FALSE
      OBVIOUS
    <3>2. new.kind = "page" /\ new.search = s
      BY <3>1 DEF Given, UnderWay
    <3>. QED
      BY <1>4, <1>7, <2>1, <3>2
  <2>4. \A r \in Slots \ {p} : ~ UnderWay(r, s)'
    BY <1>5, <2>2, <2>3
  <2>5. Holds(ask[p].copy, s)'
    BY <2>1, <2>2 DEF Holds
  <2>. QED
    BY <2>1, <2>2, <2>4, <2>5
<1>. QED
  BY <1>6, <1>7

-----------------------------------------------------------------------------
(* CD has answered: the record goes to memory.                              *)

\* The record made of an answer, for a page or for a search that is new.
Made(q, s, record, want, list) ==
  /\ s \in Searches /\ record \in Record /\ list \in Listings
  /\ want \in Connections \cup {Absent}
  /\ ask[q].at = "asking" /\ record.user = ask[q].user
  /\ \A c \in Connections : list[c] # Absent => record.map[c] = list[c]
  /\ \A c \in Connections : list[c] = Absent /\ record.map[c] # Absent =>
       meaning[c] = [user |-> record.user, search |-> s, number |-> record.map[c]]
  /\ \/ /\ ask[q].kind = "page" /\ ask[q].search = s
        /\ \A c \in Identifiers(ask[q].copy.map) : record.map[c] # Absent
     \/ /\ ask[q].kind \in {"search", "intent"} /\ Fresh(s)
        /\ ask[q].kind = "intent" => want \in Identifiers(list)
  /\ Memorize(q, s, record, want, list)
  /\ UNCHANGED <<searchRow, announced, shown, mixed, offered>>

\* What it comes to.
LEMMA MadeEffect ==
  ASSUME SearchInv, NEW q \in Slots, NEW s, NEW record, NEW want, NEW list,
         Made(q, s, record, want, list)
  PROVE  /\ ask' \in [Slots -> Ask]
         /\ \A r \in Slots : ask'[r].at # "idle" => ask'[r].host \in Hosts /\ ask'[r].user \in Travellers
         /\ ask'[q].at = "saving" /\ ask'[q].search = s /\ ask'[q].copy = record
         /\ ask'[q].want = want /\ ask'[q].new = Identifiers(list)
         /\ ask'[q].host = ask[q].host /\ ask'[q].user = ask[q].user /\ ask'[q].kind = ask[q].kind
         /\ ask[q].host \in Hosts /\ ask[q].user \in Travellers
         /\ \A r \in Slots \ {q} : ask'[r] = ask[r]
         /\ found' \in [Hosts -> [Searches -> Record \cup {Absent}]]
         /\ found'[ask[q].host][s] = record
         /\ \A h \in Hosts, t \in Searches :
              h # ask[q].host \/ t # s => found'[h][t] = found[h][t]
         /\ meaning' \in [Connections -> Meaning \cup {Absent}]
         /\ \A c \in Connections : meaning[c] # Absent => meaning'[c] = meaning[c]
         /\ \A c \in Connections : record.map[c] # Absent =>
              meaning'[c] = [user |-> record.user, search |-> s, number |-> record.map[c]]
<1>0. /\ s \in Searches /\ record \in Record /\ list \in Listings /\ ask[q].at = "asking"
      /\ want \in Connections \cup {Absent} /\ SearchTypeOK
  BY DEF Made, SearchInv
<1>1. ask[q] \in Ask /\ ask[q].host \in Hosts /\ ask[q].user \in Travellers
  BY <1>0, AskParts
<1>2. list \in Map /\ Identifiers(list) \subseteq Connections
  BY <1>0 DEF Listings, Identifiers
<1>. DEFINE a == [ask[q] EXCEPT !.at = "saving", !.search = s, !.copy = record,
                                !.want = want, !.new = Identifiers(list)]
<1>3. /\ a \in Ask /\ a.at = "saving" /\ a.search = s /\ a.copy = record /\ a.want = want
      /\ a.new = Identifiers(list) /\ a.host = ask[q].host /\ a.user = ask[q].user
      /\ a.kind = ask[q].kind
  <2>1. ASSUME NEW b \in Ask, NEW n, n \subseteq Connections
        PROVE  LET d == [b EXCEPT !.at = "saving", !.search = s, !.copy = record,
                                  !.want = want, !.new = n] IN
               /\ d \in Ask /\ d.at = "saving" /\ d.search = s /\ d.copy = record /\ d.want = want
               /\ d.new = n /\ d.host = b.host /\ d.user = b.user /\ d.kind = b.kind
    BY <1>0, <2>1 DEF Ask
  <2>. QED
    BY <1>1, <1>2, <2>1
<1>4. ask' = [ask EXCEPT ![q] = a]
  BY DEF Made, Memorize
<1>. HIDE DEF a
<1>5. /\ ask' \in [Slots -> Ask] /\ ask'[q] = a /\ \A r \in Slots \ {q} : ask'[r] = ask[r]
      /\ \A r \in Slots : ask'[r].at # "idle" => ask'[r].host \in Hosts /\ ask'[r].user \in Travellers
  BY <1>0, <1>1, <1>3, <1>4, SlotReplaced
<1>6. /\ found' \in [Hosts -> [Searches -> Record \cup {Absent}]]
      /\ found'[ask[q].host][s] = record
      /\ \A h \in Hosts, t \in Searches :
           h # ask[q].host \/ t # s => found'[h][t] = found[h][t]
  <2>1. found \in [Hosts -> [Searches -> Record \cup {Absent}]]
    BY <1>0 DEF SearchTypeOK
  <2>2. found' = [found EXCEPT ![ask[q].host][s] = record]
    BY DEF Made, Memorize
  <2>. QED
    BY <1>0, <1>1, <2>1, <2>2
<1>7. meaning' = [c \in Connections |->
        IF list[c] = Absent THEN meaning[c]
        ELSE [user |-> record.user, search |-> s, number |-> list[c]]]
  BY DEF Made, Memorize
<1>8. meaning' \in [Connections -> Meaning \cup {Absent}]
  <2>1. ASSUME NEW c \in Connections PROVE meaning'[c] \in Meaning \cup {Absent}
    <3>1. CASE list[c] = Absent
      BY <1>0, <1>7, <3>1 DEF SearchTypeOK
    <3>2. CASE list[c] # Absent
      <4>1. list[c] \in Numbers /\ record.user \in Travellers
        BY <1>0, <1>2, <3>2 DEF Map, Record
      <4>. QED
        BY <1>0, <1>7, <3>2, <4>1 DEF Meaning
    <3>. QED
      BY <3>1, <3>2
  <2>. QED
    BY <1>7, <2>1
<1>9. \A c \in Connections : meaning[c] # Absent => meaning'[c] = meaning[c]
  BY <1>0, <1>7 DEF Listings, Identifiers, Unused
<1>10. \A c \in Connections : record.map[c] # Absent =>
         meaning'[c] = [user |-> record.user, search |-> s, number |-> record.map[c]]
  BY <1>7 DEF Made
<1>. QED
  BY <1>1, <1>3, <1>5, <1>6, <1>8, <1>9, <1>10

LEMMA MadeAgrees ==
  ASSUME SearchInv, NEW q \in Slots, NEW s, NEW record, NEW want, NEW list,
         Made(q, s, record, want, list)
  PROVE  RecordsAgree'
<1>0. s \in Searches /\ record \in Record /\ record # Absent /\ record.user = ask[q].user
  BY SearchAssumption DEF Made
<1>1. \A c \in Connections : meaning[c] # Absent => meaning'[c] = meaning[c]
  BY MadeEffect
<1>2. Agrees(record, s, meaning')
  BY <1>0, MadeEffect DEF Agrees, Identifiers
<1>3. ASSUME NEW t \in Searches PROVE Agrees(searchRow'[t], t, meaning')
  <2>1. searchRow'[t] = searchRow[t] /\ searchRow[t] \in Record \cup {Absent}
    BY DEF Made, SearchInv, SearchTypeOK
  <2>2. Agrees(searchRow[t], t, meaning)
    BY DEF SearchInv, RecordsAgree
  <2>. QED
    BY <1>1, <2>1, <2>2, AgreesGrows
<1>4. ASSUME NEW t \in Searches, NEW h \in Hosts PROVE Agrees(found'[h][t], t, meaning')
  <2>1. CASE h = ask[q].host /\ t = s
    BY <1>2, <2>1, MadeEffect
  <2>2. CASE h # ask[q].host \/ t # s
    <3>1. found'[h][t] = found[h][t]
      BY <2>2, MadeEffect
    <3>2. found[h][t] \in Record \cup {Absent} /\ Agrees(found[h][t], t, meaning)
      BY DEF SearchInv, SearchTypeOK, RecordsAgree
    <3>. QED
      BY <1>1, <3>1, <3>2, AgreesGrows
  <2>. QED
    BY <2>1, <2>2
<1>5. ASSUME NEW r \in Slots
      PROVE  /\ ask'[r].copy # Absent =>
                  /\ ask'[r].search \in Searches /\ ask'[r].copy.user = ask'[r].user
                  /\ Agrees(ask'[r].copy, ask'[r].search, meaning')
             /\ ask'[r].at = "saving" \/ (ask'[r].at = "asking" /\ ask'[r].kind = "page") =>
                  ask'[r].copy # Absent
  <2>1. CASE r = q
    BY <1>0, <1>2, <2>1, MadeEffect
  <2>2. CASE r # q
    <3>1. ask'[r] = ask[r]
      BY <2>2, MadeEffect
    <3>2. ask[r].copy \in Record \cup {Absent}
      BY AskParts DEF SearchInv
    <3>3. ASSUME ask[r].copy # Absent PROVE Agrees(ask[r].copy, ask[r].search, meaning')
      <4>1. ask[r].search \in Searches /\ Agrees(ask[r].copy, ask[r].search, meaning)
        BY <3>3 DEF SearchInv, RecordsAgree
      <4>. QED
        BY <1>1, <3>2, <4>1, AgreesGrows
    <3>. QED
      BY <3>1, <3>3 DEF SearchInv, RecordsAgree
  <2>. QED
    BY <2>1, <2>2
<1>. QED
  BY <1>3, <1>4, <1>5 DEF RecordsAgree

LEMMA MadeOwner ==
  ASSUME SearchInv, NEW q \in Slots, NEW s, NEW record, NEW want, NEW list,
         Made(q, s, record, want, list)
  PROVE  OneOwner'
<1>0. /\ s \in Searches /\ record \in Record /\ record # Absent /\ record.user = ask[q].user
      /\ record.user \in Travellers /\ searchRow' = searchRow
  <2>1. /\ s \in Searches /\ record \in Record /\ record.user = ask[q].user
        /\ searchRow' = searchRow
    BY DEF Made
  <2>2. ask[q].user \in Travellers
    BY MadeEffect, Zenon
  <2>. QED
    BY <2>1, <2>2, SearchAssumption
<1>1. SUFFICES ASSUME NEW t \in Searches PROVE \E u \in Travellers : Owns(u, t)'
  BY DEF OneOwner
<1>2. CASE t # s
  <2>1. PICK u \in Travellers : Owns(u, t)
    BY DEF SearchInv, OneOwner
  <2>2. /\ \A h \in Hosts : found'[h][t] = found[h][t]
        /\ \A r \in Slots : ask'[r].search = t => ask'[r] = ask[r]
    BY <1>2, MadeEffect
  <2>. QED
    BY <1>0, <2>1, <2>2 DEF Owns
<1>3. ASSUME t = s, Owns(record.user, s) PROVE Owns(record.user, s)'
  <2>1. \A h \in Hosts : found'[h][s] = found[h][s] \/ found'[h][s] = record
    BY <1>0, MadeEffect
  <2>2. \A r \in Slots : ask'[r] = ask[r] \/ ask'[r].copy = record
    BY MadeEffect
  <2>. QED
    BY <1>0, <1>3, <2>1, <2>2 DEF Owns
<1>4. CASE t = s
  <2>1. CASE ask[q].kind = "page" /\ ask[q].search = s
    <3>1. ask[q].copy # Absent /\ ask[q].copy.user = record.user
      BY <1>0, <2>1 DEF SearchInv, RecordsAgree, Made
    <3>2. PICK u \in Travellers : Owns(u, s)
      BY <1>0 DEF SearchInv, OneOwner
    <3>3. u = record.user
      BY <2>1, <3>1, <3>2 DEF Owns
    <3>. QED
      BY <1>0, <1>3, <1>4, <3>2, <3>3
  <2>2. CASE Fresh(s)
    <3>1. Owns(record.user, s)
      BY <2>2 DEF Fresh, Owns
    <3>. QED
      BY <1>0, <1>3, <1>4, <3>1
  <2>. QED
    BY <2>1, <2>2 DEF Made
<1>. QED
  BY <1>2, <1>4

LEMMA MadeListed ==
  ASSUME SearchInv, NEW q \in Slots, NEW s, NEW record, NEW want, NEW list,
         Made(q, s, record, want, list)
  PROVE  ShownIsAnnounced' /\ CreatorsAreAlone' /\ ChoiceIsListed'
<1>0. /\ s \in Searches /\ record \in Record /\ record # Absent
      /\ UNCHANGED <<searchRow, announced, shown, mixed>>
  BY SearchAssumption DEF Made
<1>1. \A r \in Slots \ {q} : ask[r].kind \in {"search", "intent"} /\ ask[r].search # Absent =>
        ask[r].search # s
  BY DEF Made, Fresh, SearchInv, CreatorsAreAlone
<1>2. ShownIsAnnounced'
  <2>1. ASSUME NEW c \in shown PROVE meaning'[c] = meaning[c]
    BY MadeEffect DEF SearchInv, ShownIsAnnounced, SearchTypeOK
  <2>2. ASSUME NEW r \in Slots
        PROVE  ask'[r].kind \in {"page", "order"} => ask'[r].search \in announced'
    <3>1. CASE r = q
      BY <1>0, <3>1, MadeEffect DEF Made, SearchInv, ShownIsAnnounced
    <3>2. CASE r # q
      BY <1>0, <3>2, MadeEffect DEF SearchInv, ShownIsAnnounced
    <3>. QED
      BY <3>1, <3>2
  <2>. QED
    BY <1>0, <2>1, <2>2 DEF SearchInv, ShownIsAnnounced
<1>3. CreatorsAreAlone'
  <2>1. ASSUME NEW p \in Slots, ask'[p].kind \in {"search", "intent"}, ask'[p].search # Absent
        PROVE  /\ ask'[p].at \in {"saving", "offering"} /\ ask'[p].search \notin announced'
               /\ \A r \in Slots \ {p} : ask'[r].search # ask'[p].search
    <3>1. CASE p = q
      <4>1. ask[q].kind \in {"search", "intent"}
        BY <2>1, <3>1, MadeEffect
      <4>2. Fresh(s)
        BY <4>1 DEF Made
      <4>. QED
        BY <1>0, <3>1, <4>2, MadeEffect DEF Fresh
    <3>2. CASE p # q
      <4>1. ask'[p] = ask[p]
        BY <3>2, MadeEffect
      <4>2. /\ ask[p].at \in {"saving", "offering"} /\ ask[p].search \notin announced
            /\ \A r \in Slots \ {p} : ask[r].search # ask[p].search
        BY <2>1, <4>1 DEF SearchInv, CreatorsAreAlone
      <4>3. ask[p].search # s
        BY <1>1, <2>1, <3>2, <4>1
      <4>. QED
        BY <1>0, <4>1, <4>2, <4>3, MadeEffect
    <3>. QED
      BY <3>1, <3>2
  <2>. QED
    BY <2>1 DEF CreatorsAreAlone
<1>4. ASSUME NEW r \in Slots
      PROVE  /\ ask'[r].kind = "order" =>
                  ask'[r].want # Absent /\ ask'[r].at \notin {"asking", "saving"}
             /\ ask'[r].at = "offering" \/ (ask'[r].at = "saving" /\ ask'[r].kind = "intent") =>
                  ask'[r].copy # Absent /\ ask'[r].want \in Identifiers(ask'[r].copy.map)
             /\ ask'[r].kind = "intent" /\ ask'[r].at = "offering" =>
                  /\ searchRow'[ask'[r].search] # Absent
                  /\ ask'[r].want \in Identifiers(searchRow'[ask'[r].search].map)
                  /\ \A h \in Hosts : found'[h][ask'[r].search] # Absent =>
                       ask'[r].want \in Identifiers(found'[h][ask'[r].search].map)
  <2>1. CASE r = q
    <3>1. ask[q].kind = "intent" => want \in Identifiers(record.map)
      BY DEF Made, Identifiers
    <3>2. ask[q].kind # "order"
      BY DEF Made
    <3>. QED
      BY <1>0, <2>1, <3>1, <3>2, MadeEffect
  <2>2. CASE r # q
    <3>1. ask'[r] = ask[r]
      BY <2>2, MadeEffect
    <3>2. ASSUME ask[r].kind = "intent", ask[r].at = "offering"
          PROVE  ask[r].search \in Searches \ {s}
      BY <1>1, <2>2, <3>2, SearchAssumption DEF SearchInv, ChoiceIsListed, RecordsAgree
    <3>3. ASSUME ask[r].kind = "intent", ask[r].at = "offering", NEW h \in Hosts
          PROVE  found'[h][ask[r].search] = found[h][ask[r].search]
      BY <3>2, <3>3, MadeEffect
    <3>. QED
      BY <1>0, <3>1, <3>3 DEF SearchInv, ChoiceIsListed
  <2>. QED
    BY <2>1, <2>2
<1>. QED
  BY <1>2, <1>3, <1>4 DEF ChoiceIsListed

LEMMA MadeWriter ==
  ASSUME SearchInv, NEW q \in Slots, NEW s, NEW record, NEW want, NEW list,
         Made(q, s, record, want, list)
  PROVE  OneWriter' /\ RecordsHold'
<1>0. /\ s \in Searches /\ record \in Record /\ record # Absent /\ ask[q].at = "asking"
      /\ UNCHANGED <<searchRow, announced, shown, mixed>>
  BY SearchAssumption DEF Made
<1>1. \A c \in shown : meaning'[c] = meaning[c] /\ meaning[c].search \in announced
  BY MadeEffect DEF SearchInv, ShownIsAnnounced, SearchTypeOK
\* Nobody else is at work on the search, or remembers it.
<1>2. ASSUME s \notin mixed
      PROVE  /\ \A r \in Slots \ {q} : ~ UnderWay(r, s)
             /\ \A h \in Hosts \ {ask[q].host} : found[h][s] = Absent
             /\ Holds(record, s)'
  <2>1. CASE ask[q].kind = "page" /\ ask[q].search = s
    <3>1. UnderWay(q, s)
      BY <1>0, <2>1 DEF UnderWay
    <3>2. /\ Holds(ask[q].copy, s) /\ \A r \in Slots \ {q} : ~ UnderWay(r, s)
          /\ \A h \in Hosts \ {ask[q].host} : found[h][s] = Absent
      BY <1>0, <1>2, <3>1 DEF SearchInv, OneWriter
    <3>3. \A c \in Identifiers(ask[q].copy.map) : record.map[c] # Absent
      BY <2>1, <1>0 DEF Made, Fresh
    <3>4. shown \subseteq Connections
      BY DEF SearchInv, SearchTypeOK
    <3>5. Holds(record, s)'
      BY <1>0, <1>1, <3>2, <3>3, <3>4 DEF Holds, Identifiers
    <3>. QED
      BY <3>2, <3>5
  <2>2. CASE Fresh(s)
    BY <1>0, <1>1, <2>2 DEF Fresh, UnderWay, Holds
  <2>. QED
    BY <2>1, <2>2 DEF Made
<1>3. ASSUME NEW t \in Searches \ mixed', NEW p \in Slots, UnderWay(p, t)'
      PROVE  (/\ ask[p].copy # Absent /\ Holds(ask[p].copy, t)
              /\ \A r \in Slots \ {p} : ~ UnderWay(r, t)
              /\ \A h \in Hosts \ {ask[p].host} : found[h][t] = Absent
              /\ ask[p].at = "saving" => found[ask[p].host][t] = ask[p].copy)'
  <2>0. t \in Searches \ mixed
    BY <1>0, <1>3
  <2>1. CASE p = q
    <3>1. t = s
      BY <1>3, <2>1, MadeEffect DEF UnderWay
    <3>2. \A r \in Slots \ {q} : ~ UnderWay(r, t)'
      BY <1>2, <2>0, <3>1, MadeEffect DEF UnderWay
    <3>3. \A h \in Hosts \ {ask[q].host} : found'[h][t] = Absent
      BY <1>2, <2>0, <3>1, MadeEffect
    <3>4. Holds(ask[p].copy, t)'
      <4>1. Holds(record, s)'
        BY <1>2, <2>0, <3>1
      <4>2. ask'[q].copy = record
        BY MadeEffect
      <4>. QED
        BY <2>1, <3>1, <4>1, <4>2 DEF Holds
    <3>5. Identifiers(list) \subseteq Identifiers(record.map)
      BY DEF Identifiers, Made
    <3>. QED
      BY <1>0, <2>1, <3>1, <3>2, <3>3, <3>4, <3>5, MadeEffect
  <2>2. CASE p # q
    <3>1. ask'[p] = ask[p] /\ UnderWay(p, t)
      BY <1>3, <2>2, MadeEffect DEF UnderWay
    <3>2. t # s
      BY <1>2, <2>0, <2>2, <3>1
    <3>3. /\ ask[p].copy # Absent /\ Holds(ask[p].copy, t)
          /\ \A r \in Slots \ {p} : ~ UnderWay(r, t)
          /\ \A h \in Hosts \ {ask[p].host} : found[h][t] = Absent
          /\ ask[p].at = "saving" => found[ask[p].host][t] = ask[p].copy
      BY <2>0, <3>1 DEF SearchInv, OneWriter
    <3>4. ~ UnderWay(q, t)'
      BY <3>2, MadeEffect DEF UnderWay
    <3>5. \A r \in Slots \ {p, q} : UnderWay(r, t)' <=> UnderWay(r, t)
      BY MadeEffect DEF UnderWay
    <3>6. \A h \in Hosts : found'[h][t] = found[h][t]
      BY <3>2, MadeEffect
    <3>7. Holds(ask[p].copy, t)'
      BY <1>0, <1>1, <3>1, <3>3 DEF Holds
    <3>8. ask[p].at = "saving" => ask[p].host \in Hosts
      BY AskParts DEF SearchInv
    <3>. QED
      BY <3>1, <3>3, <3>4, <3>5, <3>6, <3>7, <3>8
  <2>. QED
    BY <2>1, <2>2
<1>4. ASSUME NEW t \in Searches \ mixed', t \in announced'
      PROVE  searchRow'[t] # Absent /\ Holds(searchRow[t], t)'
  BY <1>0, <1>1, <1>4 DEF SearchInv, RecordsHold, Holds
<1>5. ASSUME NEW t \in Searches \ mixed', NEW h \in Hosts, found'[h][t] # Absent
      PROVE  Holds(found[h][t], t)'
  <2>1. CASE h = ask[q].host /\ t = s
    <3>1. Holds(record, s)' /\ found'[h][t] = record
      BY <1>0, <1>2, <1>5, <2>1, MadeEffect
    <3>. QED
      BY <2>1, <3>1 DEF Holds
  <2>2. CASE h # ask[q].host \/ t # s
    <3>1. found'[h][t] = found[h][t]
      BY <2>2, MadeEffect
    <3>. QED
      BY <1>0, <1>1, <1>5, <3>1 DEF SearchInv, RecordsHold, Holds
  <2>. QED
    BY <2>1, <2>2
<1>. QED
  BY <1>3, <1>4, <1>5 DEF OneWriter, RecordsHold

-----------------------------------------------------------------------------
(* The row is written, and the answer given.                                *)

\* An intent's record is in its row.
IntentSaved(q) ==
  /\ ask[q].at = "saving" /\ ask[q].kind = "intent"
  /\ searchRow' = [searchRow EXCEPT ![ask[q].search] = ask[q].copy]
  /\ ask' = [ask EXCEPT ![q].at = "offering"]
  /\ UNCHANGED <<found, meaning, announced, shown, mixed, offered>>

LEMMA IntentSavedEffect ==
  ASSUME SearchInv, NEW q \in Slots, IntentSaved(q)
  PROVE  /\ ask' \in [Slots -> Ask] /\ ask[q].host \in Hosts /\ ask[q].user \in Travellers
         /\ \A r \in Slots : ask'[r].at # "idle" => ask'[r].host \in Hosts /\ ask'[r].user \in Travellers
         /\ \A r \in Slots \ {q} : ask'[r] = ask[r]
         /\ ask'[q].at = "offering" /\ ask'[q].kind = "intent" /\ ask'[q].copy = ask[q].copy
         /\ ask'[q].search = ask[q].search /\ ask'[q].want = ask[q].want
         /\ ask'[q].user = ask[q].user /\ ask'[q].host = ask[q].host
         /\ ask[q].search \in Searches /\ ask[q].copy \in Record /\ ask[q].copy # Absent
         /\ searchRow'[ask[q].search] = ask[q].copy
         /\ \A s \in Searches \ {ask[q].search} : searchRow'[s] = searchRow[s]
<1>1. ask[q] \in Ask /\ ask[q].host \in Hosts /\ ask[q].user \in Travellers
  BY AskParts DEF SearchInv, IntentSaved
<1>2. ask[q].search \in Searches /\ ask[q].copy \in Record /\ ask[q].copy # Absent
  BY SavedIsCopy, SearchAssumption DEF IntentSaved
<1>. DEFINE a == [ask[q] EXCEPT !.at = "offering"]
<1>3. /\ a \in Ask /\ a.at = "offering" /\ a.kind = ask[q].kind /\ a.copy = ask[q].copy
      /\ a.search = ask[q].search /\ a.want = ask[q].want /\ a.user = ask[q].user
      /\ a.host = ask[q].host
  <2>1. "offering" \in Points
    BY DEF Points
  <2>. QED
    BY <1>1, <2>1, GoesOn
<1>4. ask' = [ask EXCEPT ![q] = a]
  BY DEF IntentSaved
<1>. HIDE DEF a
<1>5. /\ ask' \in [Slots -> Ask] /\ ask'[q] = a /\ \A r \in Slots \ {q} : ask'[r] = ask[r]
      /\ \A r \in Slots : ask'[r].at # "idle" => ask'[r].host \in Hosts /\ ask'[r].user \in Travellers
  BY <1>1, <1>3, <1>4, SlotReplaced DEF SearchInv
<1>6. /\ searchRow'[ask[q].search] = ask[q].copy
      /\ \A s \in Searches \ {ask[q].search} : searchRow'[s] = searchRow[s]
  BY <1>2 DEF IntentSaved, SearchInv, SearchTypeOK
<1>. QED
  BY <1>1, <1>2, <1>3, <1>5, <1>6 DEF IntentSaved

LEMMA IntentSavedKeeps ==
  ASSUME SearchInv, NEW q \in Slots, IntentSaved(q)
  PROVE  /\ RecordsAgree' /\ OneOwner' /\ ShownIsAnnounced' /\ CreatorsAreAlone'
         /\ ChoiceIsListed' /\ OneWriter' /\ RecordsHold'
<1>. UNCHANGED <<found, meaning, announced, shown, mixed>>
  BY DEF IntentSaved
<1>. DEFINE s == ask[q].search
<1>1. /\ s \in Searches /\ s \notin announced /\ s \notin mixed
      /\ \A r \in Slots \ {q} : ask[r].search # s
  <2>0. s \in Searches /\ ask[q].kind = "intent"
    BY IntentSavedEffect, Zenon DEF IntentSaved
  <2>1. s \in Searches /\ s # Absent /\ ask[q].kind = "intent"
    BY <2>0, SearchAssumption
  <2>2. s \notin announced /\ \A r \in Slots \ {q} : ask[r].search # s
    BY <2>1 DEF SearchInv, CreatorsAreAlone
  <2>. QED
    BY <2>1, <2>2 DEF SearchInv, ShownIsAnnounced
<1>2. RecordsAgree'
  <2>1. ASSUME NEW t \in Searches PROVE Agrees(searchRow'[t], t, meaning')
    <3>1. CASE t = s
      BY <3>1, IntentSavedEffect DEF SearchInv, RecordsAgree
    <3>2. CASE t # s
      BY <3>2, IntentSavedEffect DEF SearchInv, RecordsAgree
    <3>. QED
      BY <3>1, <3>2
  <2>2. ASSUME NEW r \in Slots
        PROVE  /\ ask'[r].copy # Absent =>
                    /\ ask'[r].search \in Searches /\ ask'[r].copy.user = ask'[r].user
                    /\ Agrees(ask'[r].copy, ask'[r].search, meaning')
               /\ ask'[r].at = "saving" \/ (ask'[r].at = "asking" /\ ask'[r].kind = "page") =>
                    ask'[r].copy # Absent
    <3>1. CASE r = q
      BY <3>1, IntentSavedEffect DEF SearchInv, RecordsAgree
    <3>2. CASE r # q
      BY <3>2, IntentSavedEffect DEF SearchInv, RecordsAgree
    <3>. QED
      BY <3>1, <3>2
  <2>. QED
    BY <2>1, <2>2 DEF RecordsAgree, SearchInv
<1>3. OneOwner'
  <2>1. ASSUME NEW t \in Searches PROVE \E u \in Travellers : Owns(u, t)'
    <3>1. PICK u \in Travellers : Owns(u, t)
      BY DEF SearchInv, OneOwner
    <3>2. searchRow'[t] # Absent => searchRow'[t].user = u
      BY <3>1, IntentSavedEffect DEF Owns
    <3>3. \A r \in Slots : ask'[r].search = ask[r].search /\ ask'[r].copy = ask[r].copy
      BY IntentSavedEffect
    <3>. QED
      BY <3>1, <3>2, <3>3 DEF Owns
  <2>. QED
    BY <2>1 DEF OneOwner
<1>4. \A r \in Slots : ask'[r].search = ask[r].search /\ ask'[r].kind = ask[r].kind
                       /\ ask'[r].want = ask[r].want /\ ask'[r].copy = ask[r].copy
  BY IntentSavedEffect DEF IntentSaved
<1>5. ShownIsAnnounced' /\ CreatorsAreAlone'
  <2>1. ASSUME NEW r \in Slots, ask[r].at \in {"saving", "offering"}
        PROVE  ask'[r].at \in {"saving", "offering"}
    BY <2>1, IntentSavedEffect
  <2>. QED
    BY <1>4, <2>1 DEF SearchInv, ShownIsAnnounced, CreatorsAreAlone
<1>6. ASSUME NEW r \in Slots
      PROVE  /\ ask'[r].kind = "order" =>
                  ask'[r].want # Absent /\ ask'[r].at \notin {"asking", "saving"}
             /\ ask'[r].at = "offering" \/ (ask'[r].at = "saving" /\ ask'[r].kind = "intent") =>
                  ask'[r].copy # Absent /\ ask'[r].want \in Identifiers(ask'[r].copy.map)
             /\ ask'[r].kind = "intent" /\ ask'[r].at = "offering" =>
                  /\ searchRow'[ask'[r].search] # Absent
                  /\ ask'[r].want \in Identifiers(searchRow'[ask'[r].search].map)
                  /\ \A h \in Hosts : found'[h][ask'[r].search] # Absent =>
                       ask'[r].want \in Identifiers(found'[h][ask'[r].search].map)
  <2>1. CASE r = q
    <3>1. ask[q].want \in Identifiers(ask[q].copy.map)
      BY DEF SearchInv, ChoiceIsListed, IntentSaved
    <3>2. UnderWay(q, s)
      BY DEF UnderWay, IntentSaved
    <3>3. /\ \A h \in Hosts \ {ask[q].host} : found[h][s] = Absent
          /\ found[ask[q].host][s] = ask[q].copy
      BY <1>1, <3>2 DEF SearchInv, OneWriter, IntentSaved
    <3>. QED
      BY <2>1, <3>1, <3>3, IntentSavedEffect
  <2>2. CASE r # q
    <3>1. ask'[r] = ask[r] /\ ask[r].search # s
      BY <1>1, <2>2, IntentSavedEffect
    <3>2. ASSUME ask[r].kind = "intent", ask[r].at = "offering"
          PROVE  searchRow'[ask[r].search] = searchRow[ask[r].search]
      <4>1. ask[r].search \in Searches
        BY <3>2 DEF SearchInv, ChoiceIsListed, RecordsAgree
      <4>. QED
        BY <3>1, <4>1, IntentSavedEffect
    <3>. QED
      BY <3>1, <3>2 DEF SearchInv, ChoiceIsListed
  <2>. QED
    BY <2>1, <2>2
<1>7. ASSUME NEW t \in Searches \ mixed', NEW p \in Slots, UnderWay(p, t)'
      PROVE  (/\ ask[p].copy # Absent /\ Holds(ask[p].copy, t)
              /\ \A r \in Slots \ {p} : ~ UnderWay(r, t)
              /\ \A h \in Hosts \ {ask[p].host} : found[h][t] = Absent
              /\ ask[p].at = "saving" => found[ask[p].host][t] = ask[p].copy)'
  <2>1. \A r \in Slots : UnderWay(r, t)' => r # q /\ ask'[r] = ask[r] /\ UnderWay(r, t)
    BY IntentSavedEffect DEF UnderWay
  <2>2. /\ ask[p].copy # Absent /\ Holds(ask[p].copy, t)
        /\ \A r \in Slots \ {p} : ~ UnderWay(r, t)
        /\ \A h \in Hosts \ {ask[p].host} : found[h][t] = Absent
        /\ ask[p].at = "saving" => found[ask[p].host][t] = ask[p].copy
    BY <1>7, <2>1 DEF SearchInv, OneWriter
  <2>3. Holds(ask[p].copy, t)'
    BY <1>7, <2>1, <2>2 DEF Holds
  <2>. QED
    BY <1>7, <2>1, <2>2, <2>3
<1>8. RecordsHold'
  <2>1. ASSUME NEW t \in Searches \ mixed', t \in announced'
        PROVE  searchRow'[t] # Absent /\ Holds(searchRow[t], t)'
    <3>1. searchRow'[t] = searchRow[t]
      BY <1>1, <2>1, IntentSavedEffect
    <3>. QED
      BY <2>1, <3>1 DEF SearchInv, RecordsHold, Holds
  <2>2. ASSUME NEW t \in Searches \ mixed', NEW h \in Hosts, found'[h][t] # Absent
        PROVE  Holds(found[h][t], t)'
    BY <2>2 DEF SearchInv, RecordsHold, Holds
  <2>. QED
    BY <2>1, <2>2 DEF RecordsHold
<1>. QED
  BY <1>2, <1>3, <1>5, <1>6, <1>7, <1>8 DEF ChoiceIsListed, OneWriter

\* The app is told of a search, and of connections that are in every record of it.
Told(q, s, more) ==
  /\ s = ask[q].search /\ s \in Searches
  /\ ask[q].at \in {"saving", "offering"}
  /\ ask[q].copy \in Record /\ more \subseteq Identifiers(ask[q].copy.map)
  /\ ask' \in [Slots -> Ask] /\ ask'[q] = Unasked /\ \A r \in Slots \ {q} : ask'[r] = ask[r]
  /\ announced' = announced \cup {s} /\ shown' = shown \cup more
  /\ \A t \in Searches \ {s} : searchRow'[t] = searchRow[t]
  /\ searchRow'[s] \in {searchRow[s], ask[q].copy}
  /\ s \notin mixed =>
       /\ searchRow'[s] # Absent /\ Holds(searchRow'[s], s)
       /\ more \subseteq Identifiers(searchRow'[s].map)
       /\ \A h \in Hosts : found[h][s] # Absent => more \subseteq Identifiers(found[h][s].map)
       /\ \A r \in Slots \ {q} : ~ UnderWay(r, s)
  /\ UNCHANGED <<found, meaning, mixed>>

LEMMA ToldMeans ==
  ASSUME SearchInv, NEW q \in Slots, NEW s, NEW more, Told(q, s, more)
  PROVE  /\ \A c \in more : c \in Connections /\ meaning[c] # Absent /\ meaning[c].search = s
         /\ \A r \in Slots \ {q} : ask[r].kind \in {"search", "intent"} => ask[r].search # s
<1>1. ask[q].copy # Absent /\ s \in Searches /\ s # Absent
  BY SearchAssumption DEF Told
<1>2. Agrees(ask[q].copy, s, meaning)
  BY <1>1 DEF SearchInv, RecordsAgree, Told
<1>3. ASSUME NEW c \in more
      PROVE  c \in Connections /\ meaning[c] # Absent /\ meaning[c].search = s
  <2>1. /\ c \in Identifiers(ask[q].copy.map) /\ c \in Connections
        /\ ask[q].copy.map[c] \in Numbers /\ ask[q].copy.user \in Travellers
    BY DEF Told, Identifiers, Record, Map
  <2>2. meaning[c] = [user |-> ask[q].copy.user, search |-> s, number |-> ask[q].copy.map[c]]
    BY <1>1, <1>2, <2>1 DEF Agrees
  <2>3. meaning[c] \in Meaning
    BY <1>1, <2>1, <2>2 DEF Meaning
  <2>. QED
    BY <2>1, <2>2, <2>3, SearchAssumption
<1>4. ASSUME NEW r \in Slots \ {q}, ask[r].kind \in {"search", "intent"} PROVE ask[r].search # s
  <2>1. CASE ask[r].search = Absent
    BY <1>1, <2>1
  <2>2. CASE ask[r].search # Absent
    BY <1>4, <2>2 DEF SearchInv, CreatorsAreAlone, Told
  <2>. QED
    BY <2>1, <2>2
<1>. QED
  BY <1>3, <1>4

LEMMA ToldAgrees ==
  ASSUME SearchInv, NEW q \in Slots, NEW s, NEW more, Told(q, s, more)
  PROVE  RecordsAgree' /\ OneOwner' /\ ShownIsAnnounced'
<1>. UNCHANGED <<found, meaning, mixed>>
  BY DEF Told
<1>0. ask[q].copy # Absent /\ s \in Searches /\ s = ask[q].search
  BY SearchAssumption DEF Told
<1>1. RecordsAgree'
  <2>1. ASSUME NEW t \in Searches PROVE Agrees(searchRow'[t], t, meaning')
    <3>1. CASE searchRow'[t] = searchRow[t]
      BY <3>1 DEF SearchInv, RecordsAgree
    <3>2. CASE t = s /\ searchRow'[t] = ask[q].copy
      BY <1>0, <3>2 DEF SearchInv, RecordsAgree
    <3>. QED
      BY <3>1, <3>2 DEF Told
  <2>2. ASSUME NEW r \in Slots
        PROVE  /\ ask'[r].copy # Absent =>
                    /\ ask'[r].search \in Searches /\ ask'[r].copy.user = ask'[r].user
                    /\ Agrees(ask'[r].copy, ask'[r].search, meaning')
               /\ ask'[r].at = "saving" \/ (ask'[r].at = "asking" /\ ask'[r].kind = "page") =>
                    ask'[r].copy # Absent
    <3>1. CASE r = q
      BY <3>1, IdleType DEF Told
    <3>2. CASE r # q
      BY <3>2 DEF Told, SearchInv, RecordsAgree
    <3>. QED
      BY <3>1, <3>2
  <2>. QED
    BY <2>1, <2>2 DEF RecordsAgree, SearchInv
<1>2. ASSUME NEW t \in Searches PROVE \E u \in Travellers : Owns(u, t)'
  <2>1. PICK u \in Travellers : Owns(u, t)
    BY DEF SearchInv, OneOwner
  <2>2. searchRow'[t] # Absent => searchRow'[t].user = u
    BY <1>0, <2>1 DEF Owns, Told
  <2>3. \A r \in Slots : ask'[r] = ask[r] \/ ask'[r].copy = Absent
    BY IdleType DEF Told
  <2>. QED
    BY <2>1, <2>2, <2>3 DEF Owns
<1>3. ASSUME NEW r \in Slots
      PROVE  ask'[r].kind \in {"page", "order"} => ask'[r].search \in announced'
  BY IdleType DEF Told, SearchInv, ShownIsAnnounced
<1>4. \A c \in shown' : meaning[c] # Absent /\ meaning[c].search \in announced'
  BY ToldMeans DEF Told, SearchInv, ShownIsAnnounced
<1>. QED
  BY <1>1, <1>2, <1>3, <1>4 DEF OneOwner, ShownIsAnnounced, SearchInv, Told

LEMMA ToldListed ==
  ASSUME SearchInv, NEW q \in Slots, NEW s, NEW more, Told(q, s, more)
  PROVE  CreatorsAreAlone' /\ ChoiceIsListed'
<1>. UNCHANGED <<found, meaning, mixed>>
  BY DEF Told
<1>1. ASSUME NEW p \in Slots, ask'[p].kind \in {"search", "intent"}, ask'[p].search # Absent
      PROVE  /\ ask'[p].at \in {"saving", "offering"} /\ ask'[p].search \notin announced'
             /\ \A r \in Slots \ {p} : ask'[r].search # ask'[p].search
  <2>1. p # q /\ ask'[p] = ask[p]
    BY <1>1, IdleType DEF Told
  <2>2. /\ ask[p].at \in {"saving", "offering"} /\ ask[p].search \notin announced
        /\ \A r \in Slots \ {p} : ask[r].search # ask[p].search
    BY <1>1, <2>1 DEF SearchInv, CreatorsAreAlone
  <2>3. ask'[p].search \notin announced'
    BY <2>1, <2>2 DEF Told
  <2>4. ASSUME NEW r \in Slots \ {p} PROVE ask'[r].search # ask'[p].search
    BY <1>1, <2>1, <2>2, IdleType DEF Told
  <2>. QED
    BY <2>1, <2>2, <2>3, <2>4
<1>2. ASSUME NEW r \in Slots
      PROVE  /\ ask'[r].kind = "order" =>
                  ask'[r].want # Absent /\ ask'[r].at \notin {"asking", "saving"}
             /\ ask'[r].at = "offering" \/ (ask'[r].at = "saving" /\ ask'[r].kind = "intent") =>
                  ask'[r].copy # Absent /\ ask'[r].want \in Identifiers(ask'[r].copy.map)
             /\ ask'[r].kind = "intent" /\ ask'[r].at = "offering" =>
                  /\ searchRow'[ask'[r].search] # Absent
                  /\ ask'[r].want \in Identifiers(searchRow'[ask'[r].search].map)
                  /\ \A h \in Hosts : found'[h][ask'[r].search] # Absent =>
                       ask'[r].want \in Identifiers(found'[h][ask'[r].search].map)
  <2>1. CASE r = q
    BY <2>1, IdleType DEF Told
  <2>2. CASE r # q
    <3>1. ask'[r] = ask[r]
      BY <2>2 DEF Told
    <3>2. ASSUME ask[r].kind = "intent", ask[r].at = "offering"
          PROVE  searchRow'[ask[r].search] = searchRow[ask[r].search]
      <4>1. ask[r].search \in Searches
        BY <3>2 DEF SearchInv, ChoiceIsListed, RecordsAgree
      <4>2. ask[r].search # s
        BY <2>2, <3>2, ToldMeans
      <4>. QED
        BY <4>1, <4>2 DEF Told
    <3>. QED
      BY <3>1, <3>2 DEF SearchInv, ChoiceIsListed
  <2>. QED
    BY <2>1, <2>2
<1>. QED
  BY <1>1, <1>2 DEF CreatorsAreAlone, ChoiceIsListed

LEMMA ToldWriter ==
  ASSUME SearchInv, NEW q \in Slots, NEW s, NEW more, Told(q, s, more)
  PROVE  OneWriter' /\ RecordsHold'
<1>. UNCHANGED <<found, meaning, mixed>>
  BY DEF Told
<1>0. shown' = shown \cup more /\ announced' = announced \cup {s}
  BY DEF Told
<1>2. ASSUME NEW t \in Searches \ mixed', NEW p \in Slots, UnderWay(p, t)'
      PROVE  (/\ ask[p].copy # Absent /\ Holds(ask[p].copy, t)
              /\ \A r \in Slots \ {p} : ~ UnderWay(r, t)
              /\ \A h \in Hosts \ {ask[p].host} : found[h][t] = Absent
              /\ ask[p].at = "saving" => found[ask[p].host][t] = ask[p].copy)'
  <2>1. ASSUME NEW r \in Slots, UnderWay(r, t)'
        PROVE  r # q /\ ask'[r] = ask[r] /\ UnderWay(r, t)
    BY <2>1, IdleType DEF UnderWay, Told
  <2>2. ask'[p] = ask[p] /\ UnderWay(p, t) /\ t # s
    BY <1>2, <2>1 DEF Told
  <2>3. /\ ask[p].copy # Absent /\ Holds(ask[p].copy, t)
        /\ \A r \in Slots \ {p} : ~ UnderWay(r, t)
        /\ \A h \in Hosts \ {ask[p].host} : found[h][t] = Absent
        /\ ask[p].at = "saving" => found[ask[p].host][t] = ask[p].copy
    BY <1>2, <2>2 DEF SearchInv, OneWriter
  <2>4. Holds(ask[p].copy, t)'
    BY <1>0, <2>2, <2>3, ToldMeans DEF Holds
  <2>. QED
    BY <2>1, <2>2, <2>3, <2>4
<1>3. ASSUME NEW t \in Searches \ mixed', t \in announced'
      PROVE  searchRow'[t] # Absent /\ Holds(searchRow[t], t)'
  <2>1. CASE t = s
    <3>1. /\ searchRow'[s] # Absent /\ Holds(searchRow'[s], s)
          /\ more \subseteq Identifiers(searchRow'[s].map)
      BY <1>3, <2>1 DEF Told
    <3>. QED
      BY <1>0, <2>1, <3>1 DEF Holds, Identifiers
  <2>2. CASE t # s
    <3>1. searchRow'[t] = searchRow[t] /\ t \in announced
      BY <1>0, <1>3, <2>2 DEF Told
    <3>2. searchRow[t] # Absent /\ Holds(searchRow[t], t)
      BY <1>3, <3>1 DEF SearchInv, RecordsHold
    <3>. QED
      BY <1>0, <2>2, <3>1, <3>2, ToldMeans DEF Holds
  <2>. QED
    BY <2>1, <2>2
<1>4. ASSUME NEW t \in Searches \ mixed', NEW h \in Hosts, found'[h][t] # Absent
      PROVE  Holds(found[h][t], t)'
  <2>1. Holds(found[h][t], t)
    BY <1>4 DEF SearchInv, RecordsHold
  <2>2. CASE t = s
    <3>1. more \subseteq Identifiers(found[h][s].map)
      BY <1>4, <2>2 DEF Told
    <3>. QED
      BY <1>0, <2>1, <2>2, <3>1 DEF Holds, Identifiers
  <2>3. CASE t # s
    BY <1>0, <2>1, <2>3, ToldMeans DEF Holds
  <2>. QED
    BY <2>2, <2>3
<1>. QED
  BY <1>2, <1>3, <1>4 DEF OneWriter, RecordsHold

-----------------------------------------------------------------------------
(* The actions.                                                             *)

\* What was offered stays as it was meant.
LEMMA OffersLast ==
  ASSUME SearchInv, offered' = offered,
         \A c \in Connections : meaning[c] # Absent => meaning'[c] = meaning[c]
  PROVE  OfferedWasMeant'
<1>1. SUFFICES ASSUME NEW o \in offered
               PROVE  meaning'[o.connection] = [user |-> o.user, search |-> o.search, number |-> o.number]
  BY DEF OfferedWasMeant
<1>2. o \in [user : Travellers, search : Searches, connection : Connections, number : Numbers]
  BY DEF SearchInv, SearchTypeOK
<1>3. [user |-> o.user, search |-> o.search, number |-> o.number] \in Meaning /\ o.connection \in Connections
  BY <1>2 DEF Meaning
<1>4. meaning[o.connection] = [user |-> o.user, search |-> o.search, number |-> o.number]
  BY DEF SearchInv, OfferedWasMeant
<1>. QED
  BY <1>3, <1>4, SearchAssumption

LEMMA MishapTyped == mishaps \in 0 .. MaxMishaps /\ Mishap => mishaps' \in 0 .. MaxMishaps
BY SearchAssumption DEF Mishap

\* Steps in which nothing happens to a search.
LEMMA ReferenceSteps ==
  ASSUME SearchInv,
         \/ \E h \in Hosts, j \in Journeys : Annotate(h, j) \/ PersistReference(h, j)
         \/ \E x \in Journeys \cup Searches : Expire(x)
  PROVE  SearchInv'
<1>1. UNCHANGED <<found, searchRow, ask, meaning, announced, shown, offered, mixed>>
  BY DEF Annotate, PersistReference, Expire
<1>2. Calm
  BY <1>1 DEF Calm
<1>3. OfferedWasMeant'
  BY <1>1, OffersLast
<1>4. SearchTypeOK'
  <2>1. ASSUME NEW h \in Hosts, NEW j \in Journeys, Annotate(h, j) PROVE SearchTypeOK'
    <3>1. refs' \in [Hosts -> SUBSET Journeys] /\ unsaved' \subseteq Hosts \X Journeys
      BY <2>1 DEF Annotate, SearchInv, SearchTypeOK
    <3>2. UNCHANGED <<refRows, found, searchRow, ask, over, meaning, announced, shown,
                      offered, mixed, mishaps>>
      BY <2>1 DEF Annotate
    <3>. QED
      BY <3>1, <3>2 DEF SearchInv, SearchTypeOK
  <2>2. ASSUME NEW h \in Hosts, NEW j \in Journeys, PersistReference(h, j) PROVE SearchTypeOK'
    <3>1. mishaps' \in 0 .. MaxMishaps
      BY <2>2, MishapTyped DEF PersistReference, SearchInv, SearchTypeOK
    <3>2. refRows' \subseteq Journeys /\ unsaved' \subseteq Hosts \X Journeys
      BY <2>2 DEF PersistReference, SearchInv, SearchTypeOK
    <3>3. refs' = refs /\ over' = over
      BY <2>2 DEF PersistReference
    <3>. QED
      BY <1>1, <3>1, <3>2, <3>3 DEF SearchInv, SearchTypeOK
  <2>3. ASSUME NEW x \in Journeys \cup Searches, Expire(x) PROVE SearchTypeOK'
    BY <1>1, <2>3 DEF Expire, SearchInv, SearchTypeOK
  <2>. QED
    BY <2>1, <2>2, <2>3
<1>. QED
  BY <1>2, <1>3, <1>4, CalmKeeps

\* A slot takes, or loses, a request that has no record.
LEMMA HarmlessStep ==
  ASSUME SearchInv, NEW q \in Slots, NEW a, Harmless(a), ask' = [ask EXCEPT ![q] = a],
         a.at # "idle" => a.host \in Hosts /\ a.user \in Travellers,
         UNCHANGED <<refs, refRows, unsaved, found, searchRow, over, meaning, announced,
                     shown, offered, mixed, mishaps>>
  PROVE  SearchInv'
<1>1. /\ ask' \in [Slots -> Ask] /\ ask'[q] = a /\ \A r \in Slots \ {q} : ask'[r] = ask[r]
      /\ \A r \in Slots : ask'[r].at # "idle" => ask'[r].host \in Hosts /\ ask'[r].user \in Travellers
  <2>1. a \in Ask
    BY DEF Harmless
  <2>. QED
    BY <2>1, SlotReplaced DEF SearchInv
<1>2. Calm
  BY <1>1 DEF Calm
<1>3. SearchTypeOK'
  BY <1>1 DEF SearchInv, SearchTypeOK
<1>4. OfferedWasMeant'
  BY OffersLast
<1>. QED
  BY <1>2, <1>3, <1>4, CalmKeeps

LEMMA BeginSteps ==
  ASSUME SearchInv, NEW q \in Slots, NEW h \in Hosts, NEW u \in Travellers,
         CreateSearch(q, h, u) \/ \E j \in Journeys : CreateIntent(q, h, u, j)
  PROVE  SearchInv'
<1>1. CASE CreateSearch(q, h, u)
  <2>. DEFINE a == [Unasked EXCEPT !.at = "asking", !.kind = "search", !.host = h, !.user = u]
  <2>1. a \in Ask
    BY NewTyped
  <2>2. /\ a.at = "asking" /\ a.kind = "search" /\ a.host = h /\ a.user = u
        /\ a.copy = Absent /\ a.search = Absent
    BY DEF Unasked
  <2>3. ask' = [ask EXCEPT ![q] = a]
    BY <1>1 DEF CreateSearch, Accept
  <2>. HIDE DEF a
  <2>4. Harmless(a)
    BY <2>1, <2>2 DEF Harmless
  <2>. QED
    BY <1>1, <2>2, <2>3, <2>4, HarmlessStep DEF CreateSearch
<1>2. ASSUME NEW j \in Journeys, CreateIntent(q, h, u, j) PROVE SearchInv'
  <2>. DEFINE p == IF j \in refs[h] \ over THEN "asking" ELSE "referring"
              a == [Unasked EXCEPT !.at = p, !.kind = "intent", !.host = h, !.user = u,
                                   !.journey = j]
  <2>0. p \in {"asking", "referring"}
    OBVIOUS
  <2>3. ask' = [ask EXCEPT ![q] = a]
    BY <1>2 DEF CreateIntent, Accept
  <2>. HIDE DEF p
  <2>1. a \in Ask
    BY <2>0 DEF Unasked, Ask
  <2>2. /\ a.at = p /\ a.kind = "intent" /\ a.host = h /\ a.user = u
        /\ a.copy = Absent /\ a.search = Absent
    BY DEF Unasked
  <2>. HIDE DEF a
  <2>4. Harmless(a)
    BY <2>0, <2>1, <2>2 DEF Harmless
  <2>. QED
    BY <1>2, <2>2, <2>3, <2>4, HarmlessStep DEF CreateIntent
<1>. QED
  BY <1>1, <1>2

\* A slot that takes anything else than a reading request keeps the readers empty.
LEMMA ReadersKept ==
  ASSUME SearchInv, NEW q \in Slots, ask'[q].at \notin {"referring", "loading"},
         ask'[q].at = "saving" => ask'[q].new \subseteq Identifiers(ask'[q].copy.map),
         \A r \in Slots \ {q} : ask'[r] = ask[r]
  PROVE  ReadersAreEmpty' /\ NewIsListed'
<1>1. ASSUME NEW r \in Slots
      PROVE  /\ ask'[r].at = "referring" => ask'[r].kind = "intent" /\ ask'[r].copy = Absent
             /\ ask'[r].at = "loading" => ask'[r].kind \in {"page", "order"} /\ ask'[r].copy = Absent
             /\ ask'[r].at = "saving" => ask'[r].new \subseteq Identifiers(ask'[r].copy.map)
  <2>1. CASE r = q
    BY <2>1
  <2>2. CASE r # q
    BY <2>2 DEF SearchInv, ReadersAreEmpty, NewIsListed
  <2>. QED
    BY <2>1, <2>2
<1>. QED
  BY <1>1 DEF ReadersAreEmpty, NewIsListed

LEMMA ReferenceRead ==
  ASSUME SearchInv, NEW q \in Slots, ReadReference(q) PROVE SearchInv'
<1>1. /\ ask[q] \in Ask /\ ask[q].at = "referring"
      /\ ask[q].host \in Hosts /\ ask[q].user \in Travellers
  BY AskParts DEF ReadReference, SearchInv
\* Only an intent refers, and it has no search yet.
<1>2. CASE ask' = [ask EXCEPT ![q].at = "asking"]
  <2>. DEFINE a == [ask[q] EXCEPT !.at = "asking"]
  <2>0. "asking" \in Points
    BY DEF Points
  <2>1. /\ a \in Ask /\ a.at = "asking" /\ a.host = ask[q].host /\ a.user = ask[q].user
        /\ a.kind = ask[q].kind /\ a.search = ask[q].search /\ a.copy = ask[q].copy
    BY <1>1, <2>0, GoesOn
  <2>2. ask' = [ask EXCEPT ![q] = a]
    BY <1>2
  <2>. HIDE DEF a
  <2>3. Harmless(a)
    BY <1>1, <2>1 DEF Harmless, SearchInv, ReadersAreEmpty, CreatorsAreAlone
  <2>. QED
    BY <1>1, <2>1, <2>2, <2>3, HarmlessStep DEF ReadReference
<1>3. CASE ask' = [ask EXCEPT ![q] = Unasked]
  BY <1>3, IdleType, IdleIsHarmless, HarmlessStep DEF ReadReference
<1>. QED
  BY <1>2, <1>3 DEF ReadReference, Wait, Done

\* What owned_search gives a request, from memory or from the row.
LEMMA GivenStep ==
  ASSUME SearchInv, NEW q \in Slots, NEW new, NEW record, Deserved(q, new, record),
         Found(q, new, record),
         UNCHANGED <<refs, refRows, unsaved, over, mishaps>>
  PROVE  SearchInv'
<1>. UNCHANGED <<found, searchRow, meaning, announced, shown, offered>>
  BY DEF Deserved
<1>1. /\ ask' \in [Slots -> Ask] /\ mixed' \subseteq Searches
      /\ \A r \in Slots : ask'[r].at # "idle" => ask'[r].host \in Hosts /\ ask'[r].user \in Travellers
      /\ \/ Given(q, new, record)
         \/ /\ ask'[q] = Unasked /\ mixed' = mixed
            /\ \A r \in Slots \ {q} : ask'[r] = ask[r]
  BY FoundEffect DEF SearchInv
<1>2. SearchTypeOK'
  BY <1>1 DEF SearchInv, SearchTypeOK
<1>3. OfferedWasMeant'
  BY OffersLast
<1>4. CASE Given(q, new, record)
  <2>1. ReadersAreEmpty' /\ NewIsListed'
    <3>1. ask'[q].at \notin {"referring", "loading", "saving"} /\ \A r \in Slots \ {q} : ask'[r] = ask[r]
      BY <1>4 DEF Given
    <3>. QED
      BY <3>1, ReadersKept
  <2>. QED
    BY <1>2, <1>3, <1>4, <2>1, GivenAgrees, GivenListed, GivenWriter DEF SearchInv
<1>5. CASE /\ ask'[q] = Unasked /\ mixed' = mixed
           /\ \A r \in Slots \ {q} : ask'[r] = ask[r]
  <2>1. Calm
    BY <1>5, IdleIsHarmless DEF Calm
  <2>. QED
    BY <1>2, <1>3, <2>1, CalmKeeps
<1>. QED
  BY <1>1, <1>4, <1>5

LEMMA UseSteps ==
  ASSUME SearchInv, NEW q \in Slots, NEW h \in Hosts, NEW u \in Travellers, NEW s \in Searches,
         NEW c \in shown \cup {Absent}, NEW kind \in {"page", "order"},
         UseSearch(q, h, u, s, kind, c)
  PROVE  SearchInv'
<1>. DEFINE new == [Unasked EXCEPT !.kind = kind, !.host = h, !.user = u, !.search = s, !.want = c]
<1>0. c \in Connections \cup {Absent} /\ s \in announced /\ (kind = "order" => c # Absent)
  BY DEF UseSearch, SearchInv, SearchTypeOK
<1>1. new \in Ask
  BY <1>0, NewTyped
<1>2. /\ new.kind = kind /\ new.host = h /\ new.user = u /\ new.search = s /\ new.want = c
      /\ new.copy = Absent
  BY DEF Unasked
<1>3. CASE found[h][s] # Absent
  <2>1. Found(q, new, found[h][s])
    BY <1>3 DEF UseSearch
  <2>. HIDE DEF new
  <2>2. Deserved(q, new, found[h][s])
    <3>1. found[h][s] \in Record /\ Agrees(found[h][s], s, meaning)
      BY <1>3 DEF SearchInv, SearchTypeOK, RecordsAgree
    <3>2. \A v \in Travellers : Owns(v, s) => found[h][s].user = v
      BY <1>3 DEF Owns
    <3>3. s \notin mixed => Holds(found[h][s], s)
      BY <1>3 DEF SearchInv, RecordsHold
    <3>4. UNCHANGED <<found, searchRow, meaning, announced, shown, offered>>
      BY DEF UseSearch
    <3>. QED
      BY <1>0, <1>1, <1>2, <3>1, <3>2, <3>3, <3>4 DEF Deserved
  <2>3. UNCHANGED <<refs, refRows, unsaved, over, mishaps>>
    BY DEF UseSearch
  <2>. QED
    BY <2>1, <2>2, <2>3, GivenStep
<1>4. CASE found[h][s] = Absent
  <2>. DEFINE a == [new EXCEPT !.at = "loading"]
  <2>1. ask' = [ask EXCEPT ![q] = a] /\ mixed' = mixed
    BY <1>4 DEF UseSearch
  <2>. HIDE DEF new
  <2>2. "loading" \in Points
    BY DEF Points
  <2>3. /\ a \in Ask /\ a.at = "loading" /\ a.kind = kind /\ a.host = h /\ a.user = u
        /\ a.search = s /\ a.want = c /\ a.copy = Absent
    BY <1>1, <1>2, <2>2, GoesOn
  <2>. HIDE DEF a
  <2>4. Harmless(a)
    BY <1>0, <2>3 DEF Harmless
  <2>5. UNCHANGED <<refs, refRows, unsaved, found, searchRow, over, meaning, announced,
                    shown, offered, mixed, mishaps>>
    BY <2>1 DEF UseSearch
  <2>. QED
    BY <2>1, <2>3, <2>4, <2>5, HarmlessStep
<1>. QED
  BY <1>3, <1>4

LEMMA SearchRead ==
  ASSUME SearchInv, NEW q \in Slots, ReadSearch(q) PROVE SearchInv'
<1>. DEFINE s == ask[q].search
            record == searchRow[s]
<1>0. /\ ask[q].at = "loading" /\ ask[q].kind \in {"page", "order"} /\ ask[q].copy = Absent
      /\ ask[q] \in Ask /\ ask[q].host \in Hosts /\ ask[q].user \in Travellers
      /\ s \in announced /\ s \in Searches
      /\ ask[q].kind = "order" => ask[q].want # Absent
  BY AskParts DEF ReadSearch, SearchInv, SearchTypeOK, ReadersAreEmpty, ShownIsAnnounced,
     ChoiceIsListed
<1>1. /\ UNCHANGED <<refs, refRows, unsaved, over, mishaps>>
      /\ UNCHANGED <<found, searchRow, meaning, announced, shown, offered>>
  BY DEF ReadSearch
<1>2. CASE record # Absent
  <2>1. Found(q, ask[q], record)
    BY <1>2 DEF ReadSearch
  <2>2. Deserved(q, ask[q], record)
    <3>1. record \in Record /\ Agrees(record, s, meaning)
      BY <1>0, <1>2 DEF SearchInv, SearchTypeOK, RecordsAgree
    <3>2. \A v \in Travellers : Owns(v, s) => record.user = v
      BY <1>2 DEF Owns
    <3>3. s \notin mixed => Holds(record, s)
      BY <1>0 DEF SearchInv, RecordsHold
    <3>. QED
      BY <1>0, <1>1, <3>1, <3>2, <3>3 DEF Deserved
  <2>. HIDE DEF record
  <2>. QED
    BY <1>1, <2>1, <2>2, GivenStep
<1>3. CASE record = Absent
  <2>1. ask' = [ask EXCEPT ![q] = Unasked] /\ mixed' = mixed
    BY <1>3 DEF ReadSearch, Done
  <2>. QED
    BY <1>1, <2>1, IdleType, IdleIsHarmless, HarmlessStep
<1>. QED
  BY <1>2, <1>3

LEMMA MadeStep ==
  ASSUME SearchInv, NEW q \in Slots, NEW s, NEW record, NEW want, NEW list,
         Made(q, s, record, want, list), UNCHANGED <<refs, refRows, unsaved, over, mishaps>>
  PROVE  SearchInv'
<1>1. UNCHANGED <<searchRow, announced, shown, mixed, offered>>
  BY DEF Made
<1>2. SearchTypeOK'
  <2>1. /\ ask' \in [Slots -> Ask] /\ found' \in [Hosts -> [Searches -> Record \cup {Absent}]]
        /\ \A r \in Slots : ask'[r].at # "idle" => ask'[r].host \in Hosts /\ ask'[r].user \in Travellers
        /\ meaning' \in [Connections -> Meaning \cup {Absent}]
    BY MadeEffect
  <2>. QED
    BY <1>1, <2>1 DEF SearchInv, SearchTypeOK
<1>3. OfferedWasMeant'
  <2>1. \A c \in Connections : meaning[c] # Absent => meaning'[c] = meaning[c]
    BY MadeEffect
  <2>. QED
    BY <1>1, <2>1, OffersLast
<1>4. ReadersAreEmpty' /\ NewIsListed'
  <2>1. ask'[q].at = "saving" /\ \A r \in Slots \ {q} : ask'[r] = ask[r]
    BY MadeEffect
  <2>2. Identifiers(list) \subseteq Identifiers(record.map)
    BY DEF Made, Identifiers
  <2>3. ask'[q].new \subseteq Identifiers(ask'[q].copy.map)
    BY <2>2, MadeEffect
  <2>. QED
    BY <2>1, <2>3, ReadersKept
<1>. QED
  BY <1>2, <1>3, <1>4, MadeAgrees, MadeOwner, MadeListed, MadeWriter DEF SearchInv

LEMMA AnsweredStep ==
  ASSUME SearchInv, NEW q \in Slots, Answered(q) PROVE SearchInv'
<1>0. /\ ask[q].at = "asking" /\ ask[q] \in Ask /\ ask[q].user \in Travellers
      /\ ask[q].want \in Connections \cup {Absent} /\ ask[q].copy \in Record \cup {Absent}
  BY AskParts DEF Answered, SearchInv
<1>1. /\ UNCHANGED <<refs, refRows, unsaved, over, mishaps>>
      /\ UNCHANGED <<searchRow, announced, shown, mixed, offered>>
  BY DEF Answered
<1>2. ASSUME NEW list \in Listings, ask[q].kind = "page",
             Memorize(q, ask[q].search, Paged(ask[q].copy, list), ask[q].want, list)
      PROVE  SearchInv'
  <2>. DEFINE s == ask[q].search
              record == Paged(ask[q].copy, list)
  <2>1. ask[q].copy \in Record /\ s \in Searches /\ ask[q].copy.user = ask[q].user
    BY <1>0, <1>2 DEF SearchInv, RecordsAgree
  <2>2. list \in Map
    BY DEF Listings
  <2>3. /\ record \in Record /\ record.user = ask[q].user
        /\ \A c \in Connections :
             record.map[c] = IF list[c] = Absent THEN ask[q].copy.map[c] ELSE list[c]
    <3>1. ASSUME NEW old \in Record
          PROVE  LET p == Paged(old, list) IN
                 /\ p \in Record /\ p.user = old.user
                 /\ \A c \in Connections :
                      p.map[c] = IF list[c] = Absent THEN old.map[c] ELSE list[c]
      <4>. DEFINE map == [c \in Connections |-> IF list[c] = Absent THEN old.map[c] ELSE list[c]]
      <4>1. map \in Map
        BY <2>2 DEF Record, Map
      <4>. HIDE DEF map
      <4>2. LET p == [old EXCEPT !.map = map] IN p \in Record /\ p.user = old.user /\ p.map = map
        BY <4>1 DEF Record
      <4>. QED
        BY <4>2 DEF Paged, map
    <3>. QED
      BY <2>1, <3>1
  <2>4. Agrees(ask[q].copy, s, meaning) /\ ask[q].copy # Absent
    BY <2>1, SearchAssumption DEF SearchInv, RecordsAgree
  <2>. HIDE DEF record
  <2>5. \A c \in Connections : list[c] = Absent /\ record.map[c] # Absent =>
          meaning[c] = [user |-> record.user, search |-> s, number |-> record.map[c]]
    BY <2>1, <2>3, <2>4 DEF Agrees, Identifiers
  <2>6. \A c \in Identifiers(ask[q].copy.map) : record.map[c] # Absent
    BY <2>3 DEF Identifiers
  <2>7. \A c \in Connections : list[c] # Absent => record.map[c] = list[c]
    BY <2>3
  <2>8. Memorize(q, s, record, ask[q].want, list)
    BY <1>2 DEF record
  <2>9. Made(q, s, record, ask[q].want, list)
    BY <1>0, <1>1, <1>2, <2>1, <2>3, <2>5, <2>6, <2>7, <2>8 DEF Made
  <2>. HIDE DEF s
  <2>. QED
    BY <1>1, <2>9, MadeStep
<1>3. ASSUME NEW list \in Listings, NEW s \in Searches, Fresh(s),
             NEW want \in Connections \cup {Absent},
             ask[q].kind \in {"search", "intent"},
             ask[q].kind = "intent" => want \in Identifiers(list),
             Memorize(q, s, [user |-> ask[q].user, map |-> list], want, list)
      PROVE  SearchInv'
  <2>. DEFINE record == [user |-> ask[q].user, map |-> list]
  <2>1. record \in Record /\ record.user = ask[q].user /\ record.map = list
    BY <1>0 DEF Record, Listings
  <2>2. Memorize(q, s, record, want, list)
    BY <1>3
  <2>. HIDE DEF record
  <2>3. Made(q, s, record, want, list)
    BY <1>0, <1>1, <1>3, <2>1, <2>2 DEF Made
  <2>. QED
    BY <1>1, <2>3, MadeStep
<1>4. ASSUME NEW list \in Listings, ask[q].kind = "search", NEW s \in Searches, Fresh(s),
             Memorize(q, s, [user |-> ask[q].user, map |-> list], Absent, list)
      PROVE  SearchInv'
  BY <1>3, <1>4
<1>5. ASSUME NEW list \in Listings, ask[q].kind = "intent", NEW s \in Searches, Fresh(s),
             NEW c \in Correlated(ask[q].journey, list),
             Memorize(q, s, [user |-> ask[q].user, map |-> list], c, list)
      PROVE  SearchInv'
  <2>1. c \in Identifiers(list) /\ c \in Connections
    BY DEF Correlated, Identifiers
  <2>. QED
    BY <1>3, <1>5, <2>1
<1>6. CASE Done(q) /\ UNCHANGED <<found, meaning>>
  <2>1. ask' = [ask EXCEPT ![q] = Unasked]
    BY <1>6 DEF Done
  <2>. QED
    BY <1>1, <1>6, <2>1, IdleType, IdleIsHarmless, HarmlessStep
<1>. QED
  BY <1>2, <1>4, <1>5, <1>6 DEF Answered

LEMMA PersistStep ==
  ASSUME SearchInv, NEW q \in Slots, Persist(q) PROVE SearchInv'
<1>. DEFINE s == ask[q].search
<1>0. /\ ask[q].at = "saving" /\ s \in Searches /\ ask[q].copy \in Record /\ ask[q].copy # Absent
      /\ Saved(q) = ask[q].copy /\ ask[q].new \subseteq Connections
  BY SavedIsCopy, AskParts, SearchAssumption DEF Persist, SearchInv
<1>1. /\ UNCHANGED <<refs, refRows, unsaved, over, mishaps>>
      /\ UNCHANGED <<found, meaning, mixed, offered>>
      /\ searchRow' = [searchRow EXCEPT ![s] = ask[q].copy]
  BY <1>0 DEF Persist
<1>2. /\ searchRow' \in [Searches -> Record \cup {Absent}] /\ searchRow'[s] = ask[q].copy
      /\ \A t \in Searches \ {s} : searchRow'[t] = searchRow[t]
  BY <1>0, <1>1 DEF SearchInv, SearchTypeOK
<1>3. OfferedWasMeant'
  BY <1>1, OffersLast
<1>4. CASE ask[q].kind = "intent"
  <2>1. IntentSaved(q)
    BY <1>0, <1>1, <1>4 DEF Persist, Wait, IntentSaved
  <2>2. SearchTypeOK'
    <3>1. /\ ask' \in [Slots -> Ask]
          /\ \A r \in Slots : ask'[r].at # "idle" => ask'[r].host \in Hosts /\ ask'[r].user \in Travellers
      BY <2>1, IntentSavedEffect
    <3>2. announced' = announced /\ shown' = shown
      BY <1>4 DEF Persist
    <3>. QED
      BY <1>1, <1>2, <3>1, <3>2 DEF SearchInv, SearchTypeOK
  <2>3. ReadersAreEmpty' /\ NewIsListed'
    <3>1. ask'[q].at = "offering" /\ \A r \in Slots \ {q} : ask'[r] = ask[r]
      BY <2>1, IntentSavedEffect
    <3>. QED
      BY <3>1, ReadersKept
  <2>. QED
    BY <1>3, <2>1, <2>2, <2>3, IntentSavedKeeps DEF SearchInv
<1>5. CASE ask[q].kind # "intent"
  <2>1. /\ ask' \in [Slots -> Ask] /\ ask'[q] = Unasked /\ \A r \in Slots \ {q} : ask'[r] = ask[r]
        /\ \A r \in Slots : ask'[r].at # "idle" => ask'[r].host \in Hosts /\ ask'[r].user \in Travellers
    BY <1>5, IdleType, SlotReplaced DEF Persist, Done, SearchInv
  <2>2. announced' = announced \cup {s} /\ shown' = shown \cup ask[q].new
    BY <1>5 DEF Persist
\* The row that is written holds the new connections beside the old.
  <2>3. ASSUME s \notin mixed
        PROVE  /\ Holds(ask[q].copy, s)
               /\ \A h \in Hosts : found[h][s] # Absent => found[h][s] = ask[q].copy
               /\ \A r \in Slots \ {q} : ~ UnderWay(r, s)
    <3>1. UnderWay(q, s)
      BY <1>0 DEF UnderWay
    <3>. QED
      BY <1>0, <2>3, <3>1 DEF SearchInv, OneWriter
  <2>4. SearchTypeOK'
    BY <1>0, <1>1, <1>2, <2>1, <2>2 DEF SearchInv, SearchTypeOK
  <2>5. ReadersAreEmpty' /\ NewIsListed'
    BY <2>1, IdleType, ReadersKept
  <2>6. ask[q].new \subseteq Identifiers(ask[q].copy.map)
    BY <1>0 DEF SearchInv, NewIsListed
  <2>7. Told(q, s, ask[q].new)
    BY <1>0, <1>1, <1>2, <2>1, <2>2, <2>3, <2>6 DEF Told
  <2>. HIDE DEF s
  <2>. QED
    BY <1>3, <2>4, <2>5, <2>7, ToldAgrees, ToldListed, ToldWriter DEF SearchInv
<1>. QED
  BY <1>4, <1>5

LEMMA OfferStep ==
  ASSUME SearchInv, NEW q \in Slots, Offer(q) PROVE SearchInv'
<1>. DEFINE s == ask[q].search
            c == ask[q].want
            o == [user |-> ask[q].user, search |-> s, connection |-> c,
                  number |-> ask[q].copy.map[c]]
<1>0. /\ ask[q].at = "offering" /\ ask[q].user \in Travellers /\ ask[q].copy # Absent
      /\ ask[q].copy \in Record /\ c \in Identifiers(ask[q].copy.map)
  BY AskParts DEF Offer, SearchInv, ChoiceIsListed
<1>1. /\ s \in Searches /\ ask[q].copy.user = ask[q].user
      /\ Agrees(ask[q].copy, s, meaning)
  BY <1>0 DEF SearchInv, RecordsAgree
<1>2. c \in Connections /\ ask[q].copy.map[c] \in Numbers
  BY <1>0 DEF Identifiers, Record, Map
<1>3. /\ UNCHANGED <<refs, refRows, unsaved, over, mishaps>>
      /\ UNCHANGED <<found, searchRow, meaning, mixed>>
      /\ offered' = offered \cup {o} /\ ask' = [ask EXCEPT ![q] = Unasked]
  BY DEF Offer, Done
<1>4. /\ ask' \in [Slots -> Ask] /\ ask'[q] = Unasked /\ \A r \in Slots \ {q} : ask'[r] = ask[r]
      /\ \A r \in Slots : ask'[r].at # "idle" => ask'[r].host \in Hosts /\ ask'[r].user \in Travellers
  BY <1>3, IdleType, SlotReplaced DEF SearchInv
\* The identifier means what the record says, and the record is the user's.
<1>5. OfferedWasMeant'
  <2>1. meaning[c] = [user |-> ask[q].user, search |-> s, number |-> ask[q].copy.map[c]]
    BY <1>0, <1>1 DEF Agrees
  <2>2. ASSUME NEW p \in offered'
        PROVE  meaning'[p.connection] = [user |-> p.user, search |-> p.search, number |-> p.number]
    BY <1>3, <2>1, <2>2 DEF SearchInv, OfferedWasMeant
  <2>. QED
    BY <2>2 DEF OfferedWasMeant
<1>6. offered' \subseteq [user : Travellers, search : Searches, connection : Connections, number : Numbers]
  <2>1. o \in [user : Travellers, search : Searches, connection : Connections, number : Numbers]
    BY <1>0, <1>1, <1>2
  <2>. HIDE DEF o
  <2>. QED
    BY <1>3, <2>1 DEF SearchInv, SearchTypeOK
<1>. HIDE DEF o, c
<1>7. CASE UNCHANGED <<announced, shown>>
  <2>1. SearchTypeOK'
    BY <1>3, <1>4, <1>6, <1>7 DEF SearchInv, SearchTypeOK
  <2>2. Calm
    BY <1>3, <1>4, <1>7, IdleIsHarmless DEF Calm
  <2>. QED
    BY <1>5, <2>1, <2>2, CalmKeeps
\* An intent that comes to its order: its search is told for the first time.
<1>8. CASE /\ ask[q].kind = "intent"
           /\ announced' = announced \cup {s} /\ shown' = shown \cup {c}
  <2>1. SearchTypeOK'
    BY <1>1, <1>2, <1>3, <1>4, <1>6, <1>8 DEF SearchInv, SearchTypeOK
  <2>2. s \notin announced /\ \A r \in Slots \ {q} : ask[r].search # s
    BY <1>1, <1>8, SearchAssumption DEF SearchInv, CreatorsAreAlone
  <2>3. /\ searchRow[s] # Absent /\ c \in Identifiers(searchRow[s].map)
        /\ \A h \in Hosts : found[h][s] # Absent => c \in Identifiers(found[h][s].map)
    BY <1>0, <1>8 DEF SearchInv, ChoiceIsListed, c
  <2>4. Holds(searchRow[s], s)
    BY <2>2 DEF Holds, SearchInv, ShownIsAnnounced
  <2>5. \A r \in Slots \ {q} : ~ UnderWay(r, s)
    BY <2>2 DEF UnderWay
  <2>6. ReadersAreEmpty' /\ NewIsListed'
    BY <1>4, IdleType, ReadersKept
  <2>7. Told(q, s, {c})
    BY <1>0, <1>1, <1>3, <1>4, <1>8, <2>3, <2>4, <2>5 DEF Told
  <2>. HIDE DEF s
  <2>. QED
    BY <1>5, <2>1, <2>6, <2>7, ToldAgrees, ToldListed, ToldWriter DEF SearchInv
<1>. QED
  BY <1>7, <1>8 DEF Offer, c

LEMMA InterruptedStep ==
  ASSUME SearchInv, NEW q \in Slots, Interrupted(q) PROVE SearchInv'
<1>1. /\ UNCHANGED <<refs, refRows, unsaved, over>>
      /\ UNCHANGED <<found, meaning, announced, shown, offered, mixed>>
      /\ ask' = [ask EXCEPT ![q] = Unasked]
  BY DEF Interrupted, Done
<1>2. /\ ask' \in [Slots -> Ask] /\ ask'[q] = Unasked /\ \A r \in Slots \ {q} : ask'[r] = ask[r]
      /\ \A r \in Slots : ask'[r].at # "idle" => ask'[r].host \in Hosts /\ ask'[r].user \in Travellers
  BY <1>1, IdleType, SlotReplaced DEF SearchInv
<1>3. mishaps' \in 0 .. MaxMishaps
  BY MishapTyped DEF Interrupted, SearchInv, SearchTypeOK
<1>4. /\ searchRow' \in [Searches -> Record \cup {Absent}]
      /\ \A s \in Searches :
           \/ searchRow'[s] = searchRow[s]
           \/ ask[q].at = "saving" /\ ask[q].search = s /\ searchRow'[s] = ask[q].copy
  <2>1. CASE UNCHANGED searchRow
    BY <2>1 DEF SearchInv, SearchTypeOK
  <2>2. CASE ask[q].at = "saving" /\ searchRow' = [searchRow EXCEPT ![ask[q].search] = Saved(q)]
    BY <2>2, SavedIsCopy DEF SearchInv, SearchTypeOK
  <2>. QED
    BY <2>1, <2>2 DEF Interrupted
<1>5. Calm
  BY <1>1, <1>2, <1>4, IdleIsHarmless DEF Calm
<1>6. SearchTypeOK'
  BY <1>1, <1>2, <1>3, <1>4 DEF SearchInv, SearchTypeOK
<1>7. OfferedWasMeant'
  BY <1>1, OffersLast
<1>. QED
  BY <1>5, <1>6, <1>7, CalmKeeps

LEMMA StopHostStep ==
  ASSUME SearchInv, NEW h \in Hosts, StopHost(h) PROVE SearchInv'
<1>1. /\ UNCHANGED <<refRows, over>>
      /\ UNCHANGED <<meaning, announced, shown, offered, mixed>>
  BY DEF StopHost
<1>2. /\ refs' \in [Hosts -> SUBSET Journeys] /\ unsaved' \subseteq Hosts \X Journeys
      /\ mishaps' \in 0 .. MaxMishaps
  <2>1. refs' \in [Hosts -> SUBSET Journeys]
    BY DEF StopHost, SearchInv, SearchTypeOK
  <2>2. unsaved' \subseteq Hosts \X Journeys
    BY DEF StopHost, SearchInv, SearchTypeOK
  <2>3. mishaps' \in 0 .. MaxMishaps
    BY MishapTyped DEF StopHost, SearchInv, SearchTypeOK
  <2>. QED
    BY <2>1, <2>2, <2>3
<1>3. /\ ask' \in [Slots -> Ask]
      /\ \A q \in Slots : ask'[q] = IF ask[q].host = h THEN Unasked ELSE ask[q]
  <2>1. ask' = [q \in Slots |-> IF ask[q].host = h THEN Unasked ELSE ask[q]]
    BY DEF StopHost
  <2>2. \A q \in Slots : ask[q] \in Ask
    BY AskParts DEF SearchInv
  <2>. QED
    BY <2>1, <2>2, IdleType, Zenon
<1>4. \A q \in Slots : ask'[q].at # "idle" => ask'[q].host \in Hosts /\ ask'[q].user \in Travellers
  BY <1>3, IdleType DEF SearchInv, SearchTypeOK
<1>5. /\ found' \in [Hosts -> [Searches -> Record \cup {Absent}]]
      /\ \A s \in Searches : found'[h][s] = Absent
      /\ \A g \in Hosts \ {h}, s \in Searches : found'[g][s] = found[g][s]
  BY DEF StopHost, SearchInv, SearchTypeOK
<1>6. /\ searchRow' \in [Searches -> Record \cup {Absent}]
      /\ \A s \in Searches :
           \/ searchRow'[s] = searchRow[s]
           \/ \E q \in Slots : ask[q].at = "saving" /\ ask[q].search = s /\ searchRow'[s] = ask[q].copy
  <2>1. PICK last \in [Searches -> Slots \cup {Absent}] :
          /\ \A s \in Searches : last[s] # Absent =>
               ask[last[s]].at = "saving" /\ ask[last[s]].host = h /\ ask[last[s]].search = s
          /\ searchRow' = [s \in Searches |-> IF last[s] = Absent THEN searchRow[s] ELSE Saved(last[s])]
    BY DEF StopHost
  <2>2. ASSUME NEW s \in Searches
        PROVE  /\ searchRow'[s] \in Record \cup {Absent}
               /\ \/ searchRow'[s] = searchRow[s]
                  \/ \E q \in Slots : ask[q].at = "saving" /\ ask[q].search = s /\ searchRow'[s] = ask[q].copy
    <3>1. CASE last[s] = Absent
      BY <2>1, <3>1 DEF SearchInv, SearchTypeOK
    <3>2. CASE last[s] # Absent
      <4>1. last[s] \in Slots /\ ask[last[s]].at = "saving" /\ ask[last[s]].search = s
        BY <2>1, <3>2
      <4>2. ask[last[s]].copy \in Record /\ Saved(last[s]) = ask[last[s]].copy
        BY <4>1, SavedIsCopy
      <4>3. searchRow'[s] = ask[last[s]].copy
        BY <2>1, <3>2, <4>2
      <4>. QED
        BY <4>1, <4>2, <4>3
    <3>. QED
      BY <3>1, <3>2
  <2>3. searchRow' = [s \in Searches |-> searchRow'[s]]
    BY <2>1
  <2>. QED
    BY <2>2, <2>3
<1>7. Calm
  <2>1. \A q \in Slots : ask'[q] = ask[q] \/ Harmless(ask'[q])
    BY <1>3, IdleIsHarmless
  <2>2. \A q \in Slots : ask[q].host = h => Harmless(ask'[q])
    BY <1>3, IdleIsHarmless
  <2>. QED
    BY <1>1, <1>5, <1>6, <2>1, <2>2 DEF Calm
<1>8. SearchTypeOK'
  BY <1>1, <1>2, <1>3, <1>4, <1>5, <1>6 DEF SearchInv, SearchTypeOK
<1>9. OfferedWasMeant'
  BY <1>1, OffersLast
<1>. QED
  BY <1>7, <1>8, <1>9, CalmKeeps

-----------------------------------------------------------------------------
(* The specification.                                                       *)

LEMMA SearchInitially == SearchInit => SearchInv
<1>. SUFFICES ASSUME SearchInit PROVE SearchInv
  OBVIOUS
<1>1. SearchTypeOK
  BY IdleType, SearchAssumption DEF SearchInit, SearchTypeOK
<1>2. /\ \A q \in Slots : ask[q] = Unasked
      /\ \A s \in Searches : searchRow[s] = Absent /\ \A h \in Hosts : found[h][s] = Absent
      /\ announced = {} /\ shown = {} /\ offered = {} /\ mixed = {}
  BY DEF SearchInit
<1>3. RecordsAgree
  BY <1>2, IdleType DEF RecordsAgree, Agrees
<1>4. OneOwner
  BY <1>2, IdleType, SearchAssumption DEF OneOwner, Owns
<1>5. ShownIsAnnounced /\ CreatorsAreAlone
  BY <1>2, IdleType DEF ShownIsAnnounced, CreatorsAreAlone
<1>6. ChoiceIsListed /\ ReadersAreEmpty /\ NewIsListed
  BY <1>2, IdleType DEF ChoiceIsListed, ReadersAreEmpty, NewIsListed
<1>7. OneWriter /\ RecordsHold /\ OfferedWasMeant
  BY <1>2, IdleType DEF OneWriter, RecordsHold, OfferedWasMeant, UnderWay
<1>. QED
  BY <1>1, <1>3, <1>4, <1>5, <1>6, <1>7 DEF SearchInv

LEMMA SearchSteps == SearchInv /\ [SearchNext]_searchVars => SearchInv'
<1>. SUFFICES ASSUME SearchInv, [SearchNext]_searchVars PROVE SearchInv'
  OBVIOUS
<1>1. CASE \E h \in Hosts, j \in Journeys : Annotate(h, j) \/ PersistReference(h, j)
  BY <1>1, ReferenceSteps
<1>2. ASSUME NEW q \in Slots, NEW h \in Hosts, NEW u \in Travellers,
             CreateSearch(q, h, u) \/ \E j \in Journeys : CreateIntent(q, h, u, j)
      PROVE  SearchInv'
  BY <1>2, BeginSteps
<1>3. ASSUME NEW q \in Slots, NEW h \in Hosts, NEW u \in Travellers, NEW s \in Searches,
             NEW c \in shown \cup {Absent}, NEW kind \in {"page", "order"},
             UseSearch(q, h, u, s, kind, c)
      PROVE  SearchInv'
  BY <1>3, UseSteps
<1>4. ASSUME NEW q \in Slots, ReadReference(q) \/ ReadSearch(q) PROVE SearchInv'
  BY <1>4, ReferenceRead, SearchRead
<1>5. ASSUME NEW q \in Slots, Answered(q) \/ Persist(q) PROVE SearchInv'
  BY <1>5, AnsweredStep, PersistStep
<1>6. ASSUME NEW q \in Slots, Offer(q) \/ Interrupted(q) PROVE SearchInv'
  BY <1>6, OfferStep, InterruptedStep
<1>7. ASSUME NEW h \in Hosts, StopHost(h) PROVE SearchInv'
  BY <1>7, StopHostStep
<1>8. CASE \E x \in Journeys \cup Searches : Expire(x)
  BY <1>8, ReferenceSteps
<1>9. CASE UNCHANGED searchVars
  <2>1. /\ UNCHANGED <<refs, refRows, unsaved, over, mishaps>>
        /\ UNCHANGED <<found, searchRow, ask, meaning, announced, shown, offered, mixed>>
    BY <1>9 DEF searchVars
  <2>2. Calm
    BY <2>1 DEF Calm
  <2>3. SearchTypeOK' /\ OfferedWasMeant'
    BY <2>1, OffersLast DEF SearchInv, SearchTypeOK
  <2>. QED
    BY <2>2, <2>3, CalmKeeps
<1>. QED
  BY <1>1, <1>2, <1>3, <1>4, <1>5, <1>6, <1>7, <1>8, <1>9 DEF SearchNext

\* The records of the searches: what the identifiers in them mean, whose they are, who
\* may write them, and that they hold what was shown.
THEOREM SearchInductive == SearchSpec => []SearchInv
<1>1. SearchInit => SearchInv
  BY SearchInitially
<1>2. SearchInv /\ [SearchNext]_searchVars => SearchInv'
  BY SearchSteps
<1>. QED
  BY <1>1, <1>2, PTL DEF SearchSpec

\* CD is asked a price of what the identifier was shown for, to the user it was shown to,
\* whichever process answers and whatever was lost in between (create_order, create_intent).
THEOREM OffersAreMeant == SearchSpec => []OfferedWasMeant
<1>1. SearchInv => OfferedWasMeant
  BY DEF SearchInv
<1>. QED
  BY <1>1, SearchInductive, PTL

\* A connection that was shown is in the row of its search, and wherever the search is
\* remembered, over failed pages, hung-up apps and restarts (search_page, persist_search).
THEOREM ShownConnectionsStay == SearchSpec => []ShownIsKept
<1>1. ASSUME SearchInv PROVE ShownIsKept
  <2>. SUFFICES ASSUME NEW c \in shown, meaning[c].search \notin mixed
                PROVE  /\ searchRow[meaning[c].search] # Absent
                       /\ searchRow[meaning[c].search].map[c] = meaning[c].number
                       /\ \A h \in Hosts : found[h][meaning[c].search] # Absent =>
                            found[h][meaning[c].search].map[c] = meaning[c].number
    BY DEF ShownIsKept
  <2>. DEFINE s == meaning[c].search
  <2>1. c \in Connections /\ s \in announced /\ s \in Searches \ mixed
    BY <1>1 DEF SearchInv, ShownIsAnnounced, SearchTypeOK
  <2>2. /\ searchRow[s] # Absent /\ Holds(searchRow[s], s)
        /\ \A h \in Hosts : found[h][s] # Absent => Holds(found[h][s], s)
    BY <1>1, <2>1 DEF SearchInv, RecordsHold
  <2>3. /\ Agrees(searchRow[s], s, meaning)
        /\ \A h \in Hosts : Agrees(found[h][s], s, meaning)
    BY <1>1, <2>1 DEF SearchInv, RecordsAgree
  <2>4. ASSUME NEW record, record # Absent, Holds(record, s), Agrees(record, s, meaning)
        PROVE  record.map[c] = meaning[c].number
    <3>1. c \in Identifiers(record.map)
      BY <2>1, <2>4 DEF Holds, Identifiers
    <3>2. meaning[c] = [user |-> record.user, search |-> s, number |-> record.map[c]]
      BY <2>4, <3>1 DEF Agrees
    <3>. HIDE DEF s
    <3>. QED
      BY <3>2
  <2>. QED
    BY <2>2, <2>3, <2>4
<1>. QED
  BY <1>1, SearchInductive, PTL
=============================================================================

----------------------------- MODULE TicketRefund -----------------------------
(***************************************************************************)
(* Refunds of sold tickets (services/api/src/ticketing.rs): the `refund`    *)
(* endpoint and the task that reconciles with CD what became of them.      *)
(*                                                                         *)
(* `refund` looks at the process' copy of the ticket, asks CD whether it   *)
(* can be refunded, submits the refund and only then writes its row.  CD   *)
(* decides later and says so in a list of events.  In every process        *)
(* `reconcile_refunds_once` reads a shared cursor, fetches the events      *)
(* after it, applies each in three statements that no transaction holds    *)
(* together, and writes the cursor.                                        *)
(*                                                                         *)
(* Requests with one Idempotency-Key are Idempotency's; those here have    *)
(* keys of their own.  The audit row that ends `refund` is left out.       *)
(***************************************************************************)
EXTENDS Naturals, Sequences

CONSTANTS
  Replicas,    \* API processes that share the database
  Seller,      \* the one that sold the tickets
  Requests,    \* slots for concurrent refund requests
  Tickets,     \* tickets of an order, sold or to come as replacements
  Sold,        \* the tickets that complete has persisted
  Refunds,     \* refund rows (bound)
  None,        \* no row, no ticket, no process
  MaxEvents,   \* bound on the events of CD
  MaxFaults    \* bound on the number of faults in a behaviour

\* What the properties make an exception of: an event CD got wrong, a complete that is
\* repeated, reconciliations of two processes at the same time.
Exceptions == {"malformed", "reissue", "overlap"}

ASSUME RefundAssumption ==
  /\ Seller \in Replicas /\ Sold \subseteq Tickets
  /\ None \notin Tickets \cup Replicas
  /\ MaxEvents \in Nat /\ MaxFaults \in Nat

VARIABLES
  cd,          \* cd[t]: what CD knows of the ticket
  events,      \* CD's refund events; the id of an event is its place
  row,         \* row[t]: the ticket's row in cd_ticketing_tickets
  refund,      \* refund[i]: a row of cd_ticketing_refunds
  cursor,      \* last_event_id of cd_ticketing_refund_cursor, 0 for NULL
  memory,      \* memory[p]: the tickets that process p sold and remembers
  req,         \* req[r]: the refund request in slot r
  rec,         \* rec[p]: the reconciliation of process p
  lookup,      \* what a repeated complete has yet to write: ticket -> isReturned
  faults,      \* the number of faults so far
  happened     \* the exceptions so far

vars == <<cd, events, row, refund, cursor, memory, req, rec, lookup, faults, happened>>

-----------------------------------------------------------------------------
CdStates == {"none", "valid", "pending", "returned"}
RowStates == {"absent", "valid", "returned"}
Decisions == {"settled", "rejected"}

\* A malformed event lacks its id or its ticket.
Event == [ticket : Tickets, kind : Decisions \cup {"malformed"}, new : Tickets \cup {None}]

RefundRow == [ticket : Tickets, status : {"requested"} \cup Decisions]

Request == [pc : {"idle", "load", "quote", "submit", "persist"},
            at : Replicas \cup {None},
            ticket : Tickets \cup {None}]

\* A reconciliation has applied the events up to `done` of those up to `last`.
Reconciliation == [pc : {"idle", "fetch", "status", "ticket", "replace", "cursor"},
                   done : 0..MaxEvents, last : 0..MaxEvents]

NoRequest == [pc |-> "idle", at |-> None, ticket |-> None]
NoReconciliation == [pc |-> "idle", done |-> 0, last |-> 0]

Nothing == <<>>

TypeOK ==
  /\ cd \in [Tickets -> CdStates]
  /\ events \in Seq(Event) /\ Len(events) <= MaxEvents
  /\ row \in [Tickets -> RowStates]
  /\ refund \in [Refunds -> RefundRow \cup {None}]
  /\ cursor \in 0..Len(events)
  /\ memory \in [Replicas -> SUBSET Sold]
  /\ req \in [Requests -> Request]
  /\ rec \in [Replicas -> Reconciliation]
  /\ \A p \in Replicas : rec[p].done <= rec[p].last /\ rec[p].last <= Len(events)
  /\ DOMAIN lookup \subseteq Sold /\ lookup \in [DOMAIN lookup -> BOOLEAN]
  /\ faults \in 0..MaxFaults
  /\ happened \subseteq Exceptions

\* complete has sold the tickets, and the process it ran in remembers them.
Init ==
  /\ cd = [t \in Tickets |-> IF t \in Sold THEN "valid" ELSE "none"]
  /\ events = <<>>
  /\ row = [t \in Tickets |-> IF t \in Sold THEN "valid" ELSE "absent"]
  /\ refund = [i \in Refunds |-> None]
  /\ cursor = 0
  /\ memory = [p \in Replicas |-> IF p = Seller THEN Sold ELSE {}]
  /\ req = [r \in Requests |-> NoRequest]
  /\ rec = [p \in Replicas |-> NoReconciliation]
  /\ lookup = Nothing
  /\ faults = 0
  /\ happened = {}

-----------------------------------------------------------------------------
\* A fault happens in this step.
Fault == faults < MaxFaults /\ faults' = faults + 1

Finish(r) == req' = [req EXCEPT ![r] = NoRequest]

Goto(r, pc) == req' = [req EXCEPT ![r].pc = pc]

Stop(p) == rec' = [rec EXCEPT ![p] = NoReconciliation]

Proceed(p, pc) == rec' = [rec EXCEPT ![p].pc = pc]

-----------------------------------------------------------------------------
(* CD, as far as the code relies on it.                                       *)

Append1(t, kind, new) == events' = Append(events, [ticket |-> t, kind |-> kind, new |-> new])

\* The ticket is returned, at the counter or as requested; CD may sell a new one for
\* the part of it that is still used.
CdSettles(t) ==
  /\ cd[t] \in {"valid", "pending"}
  /\ Len(events) < MaxEvents
  /\ \/ /\ Append1(t, "settled", None)
        /\ cd' = [cd EXCEPT ![t] = "returned"]
     \/ \E new \in Tickets :
          /\ cd[new] = "none"
          /\ Append1(t, "settled", new)
          /\ cd' = [cd EXCEPT ![t] = "returned", ![new] = "valid"]
  /\ UNCHANGED <<row, refund, cursor, memory, req, rec, lookup, faults, happened>>

CdRejects(t) ==
  /\ cd[t] = "pending"
  /\ Len(events) < MaxEvents
  /\ Append1(t, "rejected", None)
  /\ cd' = [cd EXCEPT ![t] = "valid"]
  /\ UNCHANGED <<row, refund, cursor, memory, req, rec, lookup, faults, happened>>

CdGarbles(t) ==
  /\ cd[t] # "none"
  /\ Len(events) < MaxEvents
  /\ Append1(t, "malformed", None)
  /\ Fault /\ happened' = happened \cup {"malformed"}
  /\ UNCHANGED <<cd, row, refund, cursor, memory, req, rec, lookup>>

-----------------------------------------------------------------------------
(* The refund endpoint. No lock of the ticket is taken.                       *)

\* The app names a ticket it has seen in a list of the order's rows.
Begin(r, p, t) ==
  /\ req[r].pc = "idle"
  /\ row[t] # "absent"
  /\ req' = [req EXCEPT ![r] = [pc |-> "load", at |-> p, ticket |-> t]]
  /\ UNCHANGED <<cd, events, row, refund, cursor, memory, rec, lookup, faults, happened>>

\* owned_ticket: the process' own copy, as it was sold, before the row.
Returned(p, t) == t \notin memory[p] /\ row[t] = "returned"

Load(r) ==
  /\ req[r].pc = "load"
  /\ IF Returned(req[r].at, req[r].ticket) THEN Finish(r) ELSE Goto(r, "quote")
  /\ UNCHANGED <<cd, events, row, refund, cursor, memory, rec, lookup, faults, happened>>

\* CD has errors in its quote for a ticket that is returned or being refunded.
Quote(r) ==
  /\ req[r].pc = "quote"
  /\ IF cd[req[r].ticket] = "valid" THEN Goto(r, "submit") ELSE Finish(r)
  /\ UNCHANGED <<cd, events, row, refund, cursor, memory, rec, lookup, faults, happened>>

\* What the signed POST does at CD: a refund that is pending may be submitted again.
Submitted(t) == IF cd[t] = "valid" THEN [cd EXCEPT ![t] = "pending"] ELSE cd

Submit(r) ==
  /\ req[r].pc = "submit"
  /\ IF cd[req[r].ticket] \in {"valid", "pending"} THEN Goto(r, "persist") ELSE Finish(r)
  /\ cd' = Submitted(req[r].ticket)
  /\ UNCHANGED <<events, row, refund, cursor, memory, rec, lookup, faults, happened>>

Insert(t) ==
  \E i \in Refunds :
    /\ refund[i] = None
    /\ refund' = [refund EXCEPT ![i] = [ticket |-> t, status |-> "requested"]]

PersistRefund(r) ==
  /\ req[r].pc = "persist"
  /\ Insert(req[r].ticket)
  /\ Finish(r)
  /\ UNCHANGED <<cd, events, row, cursor, memory, rec, lookup, faults, happened>>

\* A request ends early, and nobody knows whether what it had sent was carried out:
\* CD's answer is lost, a statement fails, or the client disconnects.
RequestLost(r) ==
  /\ req[r].pc # "idle"
  /\ Fault
  /\ Finish(r)
  /\ IF req[r].pc = "submit" THEN cd' \in {cd, Submitted(req[r].ticket)} ELSE UNCHANGED cd
  /\ IF req[r].pc = "persist" THEN UNCHANGED refund \/ Insert(req[r].ticket)
                              ELSE UNCHANGED refund
  /\ UNCHANGED <<events, row, cursor, memory, rec, lookup, happened>>

-----------------------------------------------------------------------------
(* reconcile_refunds_once, one task in each process.                          *)

ReadCursor(p) ==
  /\ rec[p].pc = "idle"
  /\ rec' = [rec EXCEPT ![p] = [pc |-> "fetch", done |-> cursor, last |-> cursor]]
  /\ happened' = IF \E q \in Replicas : rec[q].pc # "idle"
                 THEN happened \cup {"overlap"} ELSE happened
  /\ UNCHANGED <<cd, events, row, refund, cursor, memory, req, lookup, faults>>

\* What is next when the events up to `done` have been applied.
Following(done, last) == IF done = last THEN "cursor" ELSE "status"

\* CD lists events after the cursor, oldest first; how many is its choice.
Fetch(p) ==
  /\ rec[p].pc = "fetch"
  /\ \E last \in rec[p].done..Len(events) :
       /\ last = rec[p].done => last = Len(events)
       /\ rec' = [rec EXCEPT ![p].last = last, ![p].pc = Following(rec[p].done, last)]
  /\ UNCHANGED <<cd, events, row, refund, cursor, memory, req, lookup, faults, happened>>

Current(p) == events[rec[p].done + 1]

\* Fault: every event settles the refund.
WithStatus_AlwaysSettled(e) ==
  [i \in Refunds |-> IF refund[i] # None /\ refund[i].ticket = e.ticket
                     THEN [refund[i] EXCEPT !.status = "settled"] ELSE refund[i]]

\* The UPDATE joins the ticket's row: every refund of the ticket gets the decision.
WithStatus(e) ==
  [i \in Refunds |-> IF refund[i] # None /\ refund[i].ticket = e.ticket /\ row[e.ticket] # "absent"
                     THEN [refund[i] EXCEPT !.status = e.kind] ELSE refund[i]]

UpdateStatus(p) ==
  LET e == Current(p) IN
  /\ rec[p].pc = "status"
  /\ IF e.kind = "malformed"
     THEN Stop(p) /\ UNCHANGED refund
     ELSE refund' = WithStatus(e) /\ Proceed(p, "ticket")
  /\ UNCHANGED <<cd, events, row, cursor, memory, req, lookup, faults, happened>>

\* Fault: a rejected refund returns the ticket too.
WithTicket_Rejected(e) ==
  IF row[e.ticket] = "absent" THEN row ELSE [row EXCEPT ![e.ticket] = "returned"]

WithTicket(e) ==
  IF e.kind = "rejected" \/ row[e.ticket] = "absent"
  THEN row ELSE [row EXCEPT ![e.ticket] = "returned"]

UpdateTicket(p) ==
  /\ rec[p].pc = "ticket"
  /\ row' = WithTicket(Current(p))
  /\ Proceed(p, "replace")
  /\ UNCHANGED <<cd, events, refund, cursor, memory, req, lookup, faults, happened>>

\* The replacement belongs to the owner of the ticket, found in its row. A replacement
\* that is there already keeps its `returned`.
WithReplacement(e) ==
  IF e.new = None \/ row[e.ticket] = "absent" THEN row
  ELSE [row EXCEPT ![e.new] = IF @ = "absent" THEN "valid" ELSE @]

AddReplacement(p) ==
  /\ rec[p].pc = "replace"
  /\ row' = WithReplacement(Current(p))
  /\ rec' = [rec EXCEPT ![p].done = @ + 1,
                        ![p].pc = Following(rec[p].done + 1, rec[p].last)]
  /\ UNCHANGED <<cd, events, refund, cursor, memory, req, lookup, faults, happened>>

\* Fault: the cursor goes to the newest event there is.
NewCursor_Newest(p) == Len(events)

\* The highest id applied, or the cursor that was read when there was no event.
NewCursor(p) == rec[p].done

WriteCursor(p) ==
  /\ rec[p].pc = "cursor"
  /\ cursor' = NewCursor(p)
  /\ Stop(p)
  /\ UNCHANGED <<cd, events, row, refund, memory, req, lookup, faults, happened>>

\* What the reconciliation's next statement makes of the database, when it is lost:
\* all of it or nothing.
StatementLost(p) ==
  \/ UNCHANGED <<row, refund, cursor>>
  \/ /\ rec[p].pc = "status" /\ Current(p).kind # "malformed"
     /\ refund' = WithStatus(Current(p)) /\ UNCHANGED <<row, cursor>>
  \/ rec[p].pc = "ticket" /\ row' = WithTicket(Current(p)) /\ UNCHANGED <<refund, cursor>>
  \/ rec[p].pc = "replace" /\ row' = WithReplacement(Current(p)) /\ UNCHANGED <<refund, cursor>>
  \/ rec[p].pc = "cursor" /\ cursor' = NewCursor(p) /\ UNCHANGED <<row, refund>>

\* CD does not answer, or a statement fails: the task gives up until its timer goes off.
ReconciliationLost(p) ==
  /\ rec[p].pc # "idle"
  /\ Fault
  /\ StatementLost(p)
  /\ Stop(p)
  /\ UNCHANGED <<cd, events, memory, req, lookup, happened>>

-----------------------------------------------------------------------------
(* A repeated complete, and a crash.                                          *)

\* complete is repeated because the order's row did not become issued. It asks CD for
\* the sold tickets, and upserts what CD said of them.
LookupSold ==
  /\ lookup = Nothing
  /\ Fault /\ happened' = happened \cup {"reissue"}
  /\ lookup' = [t \in Sold |-> cd[t] = "returned"]
  /\ UNCHANGED <<cd, events, row, refund, cursor, memory, req, rec>>

PersistSold(t) ==
  /\ t \in DOMAIN lookup
  /\ row' = [row EXCEPT ![t] = IF lookup[t] THEN "returned" ELSE "valid"]
  /\ lookup' = [s \in DOMAIN lookup \ {t} |-> lookup[s]]
  /\ UNCHANGED <<cd, events, refund, cursor, memory, req, rec, faults, happened>>

\* Process p crashes and starts again. The statement that its reconciliation had sent is
\* carried out or not; of its requests the same is said by RequestLost.
Crash(p) ==
  /\ Fault
  /\ StatementLost(p)
  /\ Stop(p)
  /\ memory' = [memory EXCEPT ![p] = {}]
  /\ req' = [r \in Requests |-> IF req[r].at = p THEN NoRequest ELSE req[r]]
  /\ UNCHANGED <<cd, events, lookup, happened>>

-----------------------------------------------------------------------------
Handle(r) == Load(r) \/ Quote(r) \/ Submit(r) \/ PersistRefund(r)

Reconcile(p) ==
  \/ ReadCursor(p) \/ Fetch(p) \/ UpdateStatus(p) \/ UpdateTicket(p)
  \/ AddReplacement(p) \/ WriteCursor(p)

Next ==
  \/ \E t \in Tickets : CdSettles(t) \/ CdRejects(t) \/ CdGarbles(t) \/ PersistSold(t)
  \/ \E r \in Requests :
       \/ \E p \in Replicas, t \in Tickets : Begin(r, p, t)
       \/ Handle(r)
       \/ RequestLost(r)
  \/ \E p \in Replicas :
       Reconcile(p) \/ Crash(p) \/ ReconciliationLost(p)
  \/ LookupSold

Spec == Init /\ [][Next]_vars

\* The timer of every process goes off again and again, requests run on by themselves,
\* and a repeated complete writes what it has read.
FairSpec ==
  /\ Spec
  /\ \A p \in Replicas : WF_vars(Reconcile(p))
  /\ \A r \in Requests : WF_vars(Handle(r))
  /\ WF_vars(\E t \in Sold : PersistSold(t))

-----------------------------------------------------------------------------
(* Properties. *)

\* The events up to the k-th have been applied.
Covered(k) ==
  \A i \in 1..k :
    events[i].kind = "settled" =>
      /\ row[events[i].ticket] = "returned"
      /\ events[i].new # None => row[events[i].new] # "absent"

\* No event is skipped: behind the cursor, every ticket CD has taken back is returned in
\* its row and its replacement is there, although a process may stop between any two of
\* the statements that apply an event, and others read and write the same cursor.
CursorCovers == "reissue" \notin happened => Covered(cursor)

\* The database never says more than CD: a ticket is returned and a refund settled only
\* when CD has taken the ticket back.
SettledAtCd ==
  /\ \A t \in Tickets : row[t] = "returned" => cd[t] = "returned"
  /\ \A i \in Refunds :
       refund[i] # None /\ refund[i].status = "settled" => cd[refund[i].ticket] = "returned"

\* A returned ticket stays returned, however often and by however many processes an
\* event is applied again; only a complete that is repeated meanwhile may undo it.
ReturnedStays ==
  [][\A t \in Tickets :
       row[t] = "returned" /\ "reissue" \notin happened => row'[t] = "returned"]_vars

\* Where reconciliations do not overlap, the cursor never goes back.
CursorForward == []["overlap" \notin happened => cursor' >= cursor]_vars

\* The last well-formed event of a ticket.
LastDecision(t) ==
  LET own == {i \in 1..Len(events) : events[i].ticket = t /\ events[i].kind \in Decisions}
  IN  CHOOSE k \in Decisions :
        \E i \in own : events[i].kind = k /\ \A j \in own : j <= i

\* Where reconciliations do not overlap, a decided refund shows CD's last word on its
\* ticket once all events are behind the cursor, though some were applied twice.
LastDecisionStands ==
  "overlap" \notin happened /\ cursor = Len(events) =>
    \A i \in Refunds :
      refund[i] # None /\ refund[i].status # "requested"
        => refund[i].status = LastDecision(refund[i].ticket)

\* Every ticket CD takes back becomes returned in its row, after any faults, unless a
\* malformed event holds the cursor or a repeated complete undoes it.
ReturnsReachRows ==
  \A t \in Tickets :
    cd[t] = "returned" ~>
      (row[t] = "returned" \/ happened \cap {"malformed", "reissue"} # {})

\* A refund that CD has decided does not stay requested.
DecisionReachesRefund ==
  \A i \in Refunds :
    (refund[i] # None /\ cd[refund[i].ticket] = "returned")
      ~> (refund[i] # None /\ refund[i].status # "requested")

-----------------------------------------------------------------------------
(* The inductive invariant behind the safety properties.                      *)

\* CD knows a ticket that was sold, or that replaced one in an event before the k-th.
KnownBefore(t, k) ==
  t \in Sold \/ \E j \in 1..(k - 1) : events[j].kind = "settled" /\ events[j].new = t

\* CD's events are about tickets it knew, and a settled ticket is gone for good.
EventsOK ==
  /\ \A t \in Tickets : cd[t] # "none" => KnownBefore(t, Len(events) + 1)
  /\ \A i \in 1..Len(events) :
       /\ events[i].kind \in Decisions => KnownBefore(events[i].ticket, i)
       /\ events[i].kind = "settled" => cd[events[i].ticket] = "returned"

\* What a repeated complete is about to write is still true when it says returned.
LookupOK ==
  \A t \in DOMAIN lookup : "reissue" \in happened /\ (lookup[t] => cd[t] = "returned")

\* A request names a ticket. A reconciliation is at one of its events, and past the
\* check that it is well formed.
ProgressOK ==
  /\ \A r \in Requests : req[r].pc # "idle" => req[r].ticket \in Tickets
  /\ \A p \in Replicas :
       /\ rec[p].pc \in {"status", "ticket", "replace"} => rec[p].done < rec[p].last
       /\ rec[p].pc \in {"ticket", "replace"} => Current(p).kind \in Decisions

\* It has applied what it says, and the ticket of the event it is in the middle of is
\* returned before its replacement is added.
AppliedOK ==
  /\ \A t \in Sold : row[t] # "absent"
  /\ "reissue" \notin happened =>
       /\ Covered(cursor)
       /\ \A p \in Replicas :
            /\ Covered(rec[p].done)
            /\ rec[p].pc = "replace" /\ Current(p).kind = "settled"
                 => row[Current(p).ticket] = "returned"

\* Without an overlap one reconciliation at most is at work, from the cursor onwards.
OverlapOK ==
  "overlap" \notin happened =>
    \A p \in Replicas : rec[p].pc # "idle" =>
      cursor <= rec[p].done /\ \A q \in Replicas : rec[q].pc # "idle" => q = p

\* Requests and refunds are of tickets that have a row.
RowsOK ==
  /\ \A r \in Requests : req[r].pc # "idle" => row[req[r].ticket] # "absent"
  /\ \A i \in Refunds : refund[i] # None => row[refund[i].ticket] # "absent"

IsDecision(j, t) == events[j].ticket = t /\ events[j].kind \in Decisions

\* The events whose decision has been written, up to this one.
Reached(p) == rec[p].done + (IF rec[p].pc \in {"ticket", "replace"} THEN 1 ELSE 0)

Passed(j) == j <= cursor \/ \E p \in Replicas : rec[p].pc # "idle" /\ j <= Reached(p)

\* A decided refund shows one of CD's decisions on its ticket, and of the later ones none
\* is behind the cursor or the reconciliation at work: those were applied before a pass
\* was given up, or never.
DecisionsOK ==
  "overlap" \notin happened =>
    \A i \in Refunds : refund[i] # None /\ refund[i].status # "requested" =>
      \E m \in 1..Len(events) :
        /\ IsDecision(m, refund[i].ticket) /\ refund[i].status = events[m].kind
        /\ \A j \in 1..Len(events) : IsDecision(j, refund[i].ticket) /\ Passed(j) => j <= m

IInv ==
  /\ TypeOK /\ ProgressOK /\ EventsOK /\ LookupOK /\ AppliedOK /\ SettledAtCd /\ OverlapOK
  /\ RowsOK /\ DecisionsOK

=============================================================================

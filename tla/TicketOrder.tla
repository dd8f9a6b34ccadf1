----------------------------- MODULE TicketOrder -----------------------------
(***************************************************************************)
(* The life of one CD ticket order (services/api/src/ticketing.rs): the    *)
(* mutation handlers of one order, run by the API processes that share one *)
(* database, against the CD ticket API and the payment provider.           *)
(*                                                                         *)
(* An order lives in three places: the database row, the copy every        *)
(* process keeps in `MemoryStore.orders`, and the copy a handler took when *)
(* it loaded the order.  A handler works under `mutation_guard` (a local   *)
(* mutex and then a Postgres advisory lock) and may stop at every await:   *)
(* the process crashes, the client disconnects and the handler is dropped, *)
(* a statement fails, the answer of an upstream call is lost, or the       *)
(* connection that holds the advisory lock dies.                           *)
(*                                                                         *)
(* Orders do not interact here (locks, rows and bookings are per order),   *)
(* so the module follows one order.  The quote, the customer, the version  *)
(* counter and the reply bodies are abstracted away.                       *)
(***************************************************************************)
EXTENDS Naturals

CONSTANTS
  Replicas,    \* API processes that share the database
  Requests,    \* slots for concurrent mutation requests; a slot is reused
  Amounts,     \* amounts in hellers that an offer can have
  Sessions,    \* checkout sessions the payment provider can hand out (bound)
  Tickets,     \* the tickets of the booking
  None,        \* the absent value (Option::None, no copy in memory)
  FaultKinds,  \* which faults can occur, a subset of AllFaults
  MaxFaults    \* bound on the number of faults in a behaviour

AllFaults == {"crash", "drop", "database", "reply", "guard"}

ASSUME FaultAssumption == FaultKinds \subseteq AllFaults /\ MaxFaults \in Nat

VARIABLES
  row,         \* the order's row in cd_ticketing_orders
  memory,      \* memory[p]: the copy in p's MemoryStore.orders, or None
  req,         \* req[r]: the handler running in slot r
  session,     \* session[s]: the provider's checkout session s
  booking,     \* the booking at CD
  sellCalls,   \* how often sell_tickets was sent for the booking
  ticketRows,  \* tickets of the order that are in cd_ticketing_tickets
  faults       \* faults so far

store == <<row, memory, ticketRows>>
upstream == <<session, booking, sellCalls>>
vars == <<row, memory, req, session, booking, sellCalls, ticketRows, faults>>

-----------------------------------------------------------------------------
Status ==
  {"draft", "checkout_pending", "paid", "issuance_failed", "issued", "cancelled"}

\* The fields of OrderRecord that the handlers decide on.
Order == [status : Status,
          amount : Amounts \cup {None},
          session : Sessions \cup {None}]

Edits == {"refresh_quote", "select_offer", "set_add_on", "cancel_order", "checkout"}
Kinds == Edits \cup {"complete"}

\* Option::None is none of the values it stands beside.
ASSUME NoneAssumption == None \notin Order \cup Replicas \cup Sessions

\* Where a handler can be suspended. "local" and "database" wait for the two
\* halves of the guard, "load" for the order, the others for the call or the
\* statement they are named after.
Points == {"idle", "local", "database", "load", "call", "verify", "fix", "sell",
           "lookup", "persist", "row", "audit"}

Handler == [pc : Points,
            kind : Kinds \cup {None},
            at : Replicas \cup {None},
            guard : BOOLEAN,             \* its connection holds the advisory lock
            copy : Order \cup {None}]    \* its `OrderRecord`

Idle == [pc |-> "idle", kind |-> None, at |-> None, guard |-> FALSE, copy |-> None]

SessionStates == {"unused", "created", "delivered", "settled"}

TypeOK ==
  /\ row \in Order
  /\ memory \in [Replicas -> Order \cup {None}]
  /\ req \in [Requests -> Handler]
  /\ session \in [Sessions -> [state : SessionStates, amount : Amounts \cup {None}]]
  /\ booking \in {"offered", "released", "fixed", "sold"}
  /\ sellCalls \in Nat
  /\ ticketRows \subseteq Tickets
  /\ faults \in 0..MaxFaults

\* create_order has run in process p: its quote may or may not carry a price.
Init ==
  /\ row \in [status : {"draft"}, amount : Amounts \cup {None}, session : {None}]
  /\ \E p \in Replicas : memory = [q \in Replicas |-> IF q = p THEN row ELSE None]
  /\ req = [r \in Requests |-> Idle]
  /\ session = [s \in Sessions |-> [state |-> "unused", amount |-> None]]
  /\ booking = "offered"
  /\ sellCalls = 0
  /\ ticketRows = {}
  /\ faults = 0

-----------------------------------------------------------------------------
\* A fault of kind k happens in this step.
Fault(k) == k \in FaultKinds /\ faults < MaxFaults /\ faults' = faults + 1

\* The handler returns or is dropped; with its `OrderMutationGuard` both locks go.
Finish(r) == req' = [req EXCEPT ![r] = Idle]

Goto(r, pc) == req' = [req EXCEPT ![r] = [@ EXCEPT !.pc = pc]]

\* p's local mutex of the order is free: no handler of p is past "local".
LocalFree(p) == \A q \in Requests : req[q].at = p => req[q].pc = "local"

\* No open transaction holds the order's advisory lock.
DatabaseFree == \A q \in Requests : ~ req[q].guard

\* owned_order: the process' memory first, the row only when memory has none.
OwnedOrder(p) == IF memory[p] = None THEN row ELSE memory[p]

\* Fault: an order in checkout counts as a draft.
RequireDraft_Pending(o) == o.status \in {"draft", "checkout_pending"}

RequireDraft(o) == o.status = "draft"

\* Fault: complete takes up no order whose issuance failed, and does not look for its
\* session.
FirstCall_PaidOnly(k, o) ==
  CASE k \in Edits /\ RequireDraft(o) /\ (k = "checkout" => o.amount # None) -> "call"
    [] k = "complete" /\ o.status = "checkout_pending"                       -> "verify"
    [] k = "complete" /\ o.status = "paid"                                   -> "lookup"
    [] OTHER                                                                 -> "idle"

\* What a handler does once it has loaded o: its first call, or an early return.
FirstCall(k, o) ==
  CASE /\ k \in Edits
       /\ RequireDraft(o)
       /\ k = "checkout" => o.amount # None            -> "call"
    [] /\ k = "complete"
       /\ o.status = "checkout_pending"
       /\ o.amount # None /\ o.session # None          -> "verify"
    [] /\ k = "complete"
       /\ o.status \in {"paid", "issuance_failed"}     -> "lookup"
    [] OTHER                                           -> "idle"

-----------------------------------------------------------------------------
(* A request arrives and takes the guard. *)

Begin(r, k, p) ==
  /\ req[r].pc = "idle"
  /\ req' = [req EXCEPT ![r] = [Idle EXCEPT !.pc = "local", !.kind = k, !.at = p]]
  /\ UNCHANGED <<store, upstream, faults>>

LockLocal(r) ==
  /\ req[r].pc = "local"
  /\ LocalFree(req[r].at)
  /\ Goto(r, "database")
  /\ UNCHANGED <<store, upstream, faults>>

\* Fault: the advisory lock is not taken.
LockDatabase_Unguarded(r) ==
  /\ req[r].pc = "database"
  /\ req' = [req EXCEPT ![r] = [@ EXCEPT !.pc = "load", !.guard = TRUE]]
  /\ UNCHANGED <<store, upstream, faults>>

LockDatabase(r) ==
  /\ req[r].pc = "database"
  /\ DatabaseFree
  /\ req' = [req EXCEPT ![r] = [@ EXCEPT !.pc = "load", !.guard = TRUE]]
  /\ UNCHANGED <<store, upstream, faults>>

Load(r) ==
  LET o == OwnedOrder(req[r].at)
      next == FirstCall(req[r].kind, o)
  IN
  /\ req[r].pc = "load"
  /\ IF next = "idle"
     THEN Finish(r)
     ELSE req' = [req EXCEPT ![r] = [@ EXCEPT !.pc = next, !.copy = o]]
  /\ UNCHANGED <<store, upstream, faults>>

-----------------------------------------------------------------------------
(* The calls to CD and to the payment provider. An answer that reports an    *)
(* error ends the handler at once and leaves every copy of the order alone,  *)
(* whether or not the upstream system has executed the call.                 *)

\* The first half of save_order: the process' copy becomes o, the row is next.
\* Nothing but the answer of the call lies between the call and this write, so
\* both are one step: a stop in between is an answer that was lost.
Remember(r, o) ==
  /\ memory' = [memory EXCEPT ![req[r].at] = o]
  /\ req' = [req EXCEPT ![r] = [@ EXCEPT !.pc = "row", !.copy = o]]

\* refresh_quote takes the amount of the answer, even when it has none.
RefreshQuote(r) ==
  /\ req[r].pc = "call" /\ req[r].kind = "refresh_quote"
  /\ booking # "released"
  /\ \E a \in Amounts \cup {None} : Remember(r, [req[r].copy EXCEPT !.amount = a])
  /\ UNCHANGED <<row, ticketRows, upstream, faults>>

\* select_offer keeps the old amount when the answer has none.
SelectOffer(r) ==
  /\ req[r].pc = "call" /\ req[r].kind = "select_offer"
  /\ booking # "released"
  /\ \E a \in Amounts \cup {req[r].copy.amount} :
       Remember(r, [req[r].copy EXCEPT !.amount = a])
  /\ UNCHANGED <<row, ticketRows, upstream, faults>>

\* Reservations, bicycles and dogs change the booking at CD and no copy of the order.
SetAddOn(r) ==
  /\ req[r].pc = "call" /\ req[r].kind = "set_add_on"
  /\ booking # "released"
  /\ Finish(r)
  /\ UNCHANGED <<store, upstream, faults>>

EditOffer(r) == RefreshQuote(r) \/ SelectOffer(r) \/ SetAddOn(r)

ReleaseOffer(r) ==
  /\ req[r].pc = "call" /\ req[r].kind = "cancel_order"
  /\ booking # "sold"
  /\ booking' = "released"
  /\ \/ /\ Remember(r, [req[r].copy EXCEPT !.status = "cancelled"])
        /\ UNCHANGED faults
     \/ /\ Fault("reply")
        /\ Finish(r)
        /\ UNCHANGED memory
  /\ UNCHANGED <<row, ticketRows, session, sellCalls>>

CreateCheckout(r) ==
  LET o == req[r].copy IN
  /\ req[r].pc = "call" /\ req[r].kind = "checkout"
  /\ \E s \in Sessions :
       /\ session[s].state = "unused"
       /\ session' = [session EXCEPT ![s] = [state |-> "created", amount |-> o.amount]]
       /\ \/ /\ Remember(r, [o EXCEPT !.status = "checkout_pending", !.session = s])
             /\ UNCHANGED faults
          \/ /\ Fault("reply")
             /\ Finish(r)
             /\ UNCHANGED memory
  /\ UNCHANGED <<row, ticketRows, booking, sellCalls>>

\* Fault: the session's status is not looked at.
VerifySettled_AnyStatus(r) ==
  /\ req[r].pc = "verify"
  /\ session[req[r].copy.session].amount = req[r].copy.amount
  /\ Goto(r, "fix")
  /\ UNCHANGED <<store, upstream, faults>>

\* The provider's answer must name the order's session, its amount and "settled".
VerifySettled(r) ==
  /\ req[r].pc = "verify"
  /\ session[req[r].copy.session] =
       [state |-> "settled", amount |-> req[r].copy.amount]
  /\ Goto(r, "fix")
  /\ UNCHANGED <<store, upstream, faults>>

FixOffer(r) ==
  /\ req[r].pc = "fix"
  /\ booking \in {"offered", "fixed"}
  /\ booking' = "fixed"
  /\ \/ /\ Remember(r, [req[r].copy EXCEPT !.status = "paid"])
        /\ UNCHANGED faults
     \/ /\ Fault("reply")
        /\ Finish(r)
        /\ UNCHANGED memory
  /\ UNCHANGED <<row, ticketRows, session, sellCalls>>

\* CD issues the tickets, or refuses, or issues them and the answer is lost. The
\* answer of a sale is taken to name every ticket that CD has issued.
SellTickets(r) ==
  LET failed == [req[r].copy EXCEPT !.status = "issuance_failed"] IN
  /\ req[r].pc = "sell"
  /\ sellCalls' = sellCalls + 1
  /\ \/ /\ booking = "fixed"
        /\ booking' = "sold"
        /\ \/ Goto(r, "persist") /\ UNCHANGED <<memory, faults>>
           \/ Fault("reply") /\ Remember(r, failed)
     \/ Remember(r, failed) /\ UNCHANGED <<booking, faults>>
  /\ UNCHANGED <<row, ticketRows, session>>

\* Fault: a booking that is not found as sold is sold again.
LookupSold_Resell(r) ==
  /\ req[r].pc = "lookup"
  /\ Goto(r, IF booking = "sold" THEN "persist" ELSE "sell")
  /\ UNCHANGED <<store, upstream, faults>>

\* A completed payment is never sold again: sold_tickets tells what CD has issued.
LookupSold(r) ==
  /\ req[r].pc = "lookup"
  /\ IF booking = "sold" THEN Goto(r, "persist") ELSE Finish(r)
  /\ UNCHANGED <<store, upstream, faults>>

\* An upstream call is refused, or cannot be made. CD may refuse the calls on a
\* draft or on a booking it does not hold for any reason; that the provider or
\* the look-up of sold tickets cannot be reached is a fault.
CallRefused(r) ==
  /\ \/ req[r].pc \in {"call", "fix"} /\ UNCHANGED faults
     \/ /\ req[r].pc = "verify"
        /\ session[req[r].copy.session] #
             [state |-> "settled", amount |-> req[r].copy.amount]
        /\ UNCHANGED faults
     \/ req[r].pc \in {"verify", "lookup"} /\ Fault("reply")
  /\ Finish(r)
  /\ UNCHANGED <<store, upstream>>

-----------------------------------------------------------------------------
(* What is written to the database, and how the handler ends. *)

\* persist_issued inserts the documents and tickets one statement at a time.
\* The inserts are upserts: a ticket that is there already is left as it is.
PersistTicket(r) ==
  /\ req[r].pc = "persist"
  /\ \E t \in Tickets \ ticketRows : ticketRows' = ticketRows \cup {t}
  /\ UNCHANGED <<row, memory, req, upstream, faults>>

\* Fault: the order is issued before all its tickets are stored.
PersistIssued_Early(r) ==
  /\ req[r].pc = "persist"
  /\ Remember(r, [req[r].copy EXCEPT !.status = "issued"])
  /\ UNCHANGED <<row, ticketRows, upstream, faults>>

\* After the last insert the order is issued.
PersistIssued(r) ==
  /\ req[r].pc = "persist"
  /\ ticketRows = Tickets
  /\ Remember(r, [req[r].copy EXCEPT !.status = "issued"])
  /\ UNCHANGED <<row, ticketRows, upstream, faults>>

\* The handler goes on after save_order: checkout and cancel_order write an audit
\* event, complete sells the tickets once the order is paid.
AfterSave(r) ==
  CASE req[r].kind \in {"checkout", "cancel_order"}                        -> "audit"
    [] req[r].kind = "complete" /\ req[r].copy.status = "paid"            -> "sell"
    [] OTHER                                                              -> "idle"

\* Fault: the save waits for the mutex its own handler holds.
SaveRow_Relocks(r) ==
  /\ req[r].pc = "row"
  /\ LocalFree(req[r].at)
  /\ row' = req[r].copy
  /\ IF AfterSave(r) = "idle" THEN Finish(r) ELSE Goto(r, AfterSave(r))
  /\ UNCHANGED <<memory, ticketRows, upstream, faults>>

\* The second half of save_order. There is no check of the row's version.
SaveRow(r) ==
  /\ req[r].pc = "row"
  /\ row' = req[r].copy
  /\ IF AfterSave(r) = "idle" THEN Finish(r) ELSE Goto(r, AfterSave(r))
  /\ UNCHANGED <<memory, ticketRows, upstream, faults>>

\* The audit event is written and the answer goes out: the answer of checkout
\* is the only way the customer learns the session's address. The audit events of
\* complete have no step of their own: no state lies behind them, and a failure
\* of the one before "fix" is the CallRefused there.
Audit(r) ==
  /\ req[r].pc = "audit"
  /\ IF req[r].kind = "checkout"
     THEN session' = [session EXCEPT ![req[r].copy.session].state = "delivered"]
     ELSE UNCHANGED session
  /\ Finish(r)
  /\ UNCHANGED <<store, booking, sellCalls, faults>>

\* The UPDATE of the row that the handlers in S have sent and not heard of: when
\* the answer does not come, it may have been executed all the same.
SentRows(S) == {req[r].copy : r \in {q \in S : req[q].pc = "row"}}

\* A statement fails: a handler that waits for one returns a database error.
DatabaseFails(r) ==
  /\ \/ req[r].pc \in {"database", "persist", "row", "audit"}
     \/ req[r].pc = "load" /\ memory[req[r].at] = None
  /\ Fault("database")
  /\ row' \in {row} \cup SentRows({r})
  /\ Finish(r)
  /\ UNCHANGED <<memory, ticketRows, upstream>>

-----------------------------------------------------------------------------
(* The customer, and the faults that hit a handler from outside. *)

\* The customer opens a session whose address the app has, and pays its amount.
CustomerPays(s) ==
  /\ session[s].state = "delivered"
  /\ session' = [session EXCEPT ![s].state = "settled"]
  /\ UNCHANGED <<store, req, booking, sellCalls, faults>>

\* The client disconnects and the server drops the handler at its await.
Drop(r) ==
  /\ req[r].pc # "idle"
  /\ Fault("drop")
  /\ row' \in {row} \cup SentRows({r})
  /\ Finish(r)
  /\ UNCHANGED <<memory, ticketRows, upstream>>

\* Process p crashes and starts again with an empty memory.
Crash(p) ==
  /\ Fault("crash")
  /\ memory' = [memory EXCEPT ![p] = None]
  /\ row' \in {row} \cup SentRows({r \in Requests : req[r].at = p})
  /\ req' = [r \in Requests |-> IF req[r].at = p THEN Idle ELSE req[r]]
  /\ UNCHANGED <<ticketRows, upstream>>

\* The connection under the guard's transaction dies: Postgres frees the advisory
\* lock, and the handler, which never uses that transaction again, goes on.
LoseGuard(r) ==
  /\ req[r].guard
  /\ Fault("guard")
  /\ req' = [req EXCEPT ![r] = [@ EXCEPT !.guard = FALSE]]
  /\ UNCHANGED <<store, upstream>>

-----------------------------------------------------------------------------
\* The steps a handler takes by itself once it has the guard.
Work(r) ==
  \/ Load(r)
  \/ EditOffer(r) \/ ReleaseOffer(r) \/ CreateCheckout(r)
  \/ VerifySettled(r) \/ FixOffer(r) \/ SellTickets(r) \/ LookupSold(r)
  \/ CallRefused(r)
  \/ PersistTicket(r) \/ PersistIssued(r) \/ SaveRow(r) \/ Audit(r)

Next ==
  \/ \E r \in Requests :
       \/ \E k \in Kinds, p \in Replicas : Begin(r, k, p)
       \/ LockLocal(r) \/ LockDatabase(r)
       \/ Work(r)
       \/ DatabaseFails(r) \/ Drop(r) \/ LoseGuard(r)
  \/ \E p \in Replicas : Crash(p)
  \/ \E s \in Sessions : CustomerPays(s)

Spec == Init /\ [][Next]_vars

\* A handler runs on by itself; tokio's mutex and Postgres' lock queue are first
\* come, first served, so a waiter that the lock becomes free for again and again
\* gets it. Faults, customers and new requests are never owed.
HandlerFairness ==
  \A r \in Requests :
    /\ WF_vars(Work(r))
    /\ SF_vars(LockLocal(r))
    /\ SF_vars(LockDatabase(r))

\* The app calls complete again after an error or a lost answer.
ClientRetries ==
  SF_vars(\E r \in Requests, p \in Replicas : Begin(r, "complete", p))

FairSpec == Spec /\ HandlerFairness /\ ClientRetries

-----------------------------------------------------------------------------
(* Properties. *)

\* Statuses an order has once its payment was verified.
PaidStatus == {"paid", "issuance_failed", "issued"}

\* Sessions the customer can pay or has paid.
Payable(s) == session[s].state \in {"delivered", "settled"}

\* A ticket is only ever sold against a settled session that the order's row
\* names, for the amount the row names: `complete` verifies the payment before
\* sell_tickets, and the row it sells for is saved first.
SoldWasPaid ==
  sellCalls > 0 =>
    /\ row.status \in PaidStatus
    /\ row.session # None
    /\ session[row.session] = [state |-> "settled", amount |-> row.amount]

\* sell_tickets is sent at most once for a booking, whatever fails in between and
\* however often the app calls complete.
SoldAtMostOnce == sellCalls <= 1

\* There is never more than one session the customer could pay, and it is the one
\* the order's row will be completed with: no payment is left behind.
PaymentKept ==
  \A s \in Sessions :
    Payable(s) => row.session = s /\ row.status \in {"checkout_pending"} \cup PaidStatus

\* An order that says "issued" has every ticket of the booking in the database.
IssuedIsComplete ==
  row.status = "issued" => booking = "sold" /\ ticketRows = Tickets

\* The row's status only moves forward along the life of an order: a late write of
\* a handler, or a restart, never takes back what another handler recorded.
MayFollow(st, new) ==
  \/ new = st
  \/ st = "draft" /\ new \in {"cancelled", "checkout_pending"}
  \/ st = "checkout_pending" /\ new = "paid"
  \/ st = "paid" /\ new \in {"issuance_failed", "issued"}
  \/ st = "issuance_failed" /\ new = "issued"
RowMovesForward == [][MayFollow(row.status, row'.status)]_vars

\* A booking is released for a draft only ("cancels/releases an editable draft",
\* docs/cd-ticketing-frontend-handoff.md): never once a checkout is recorded.
ReleaseOnlyDraft ==
  [][booking # "released" /\ booking' = "released" => row.status = "draft"]_vars

\* While the connections that hold the advisory lock live, one handler at a time
\* works on the order, over all processes: mutation_guard serializes them.
Working(r) == req[r].pc \notin {"idle", "local", "database"}
OneMutationAtATime ==
  "guard" \notin FaultKinds =>
    \A q, r \in Requests : Working(q) /\ Working(r) => q = r

\* Tickets that CD has sold end up in the database, if the app keeps calling
\* complete: a sale survives a lost answer, a crash or a failed insert.
SoldIsRecorded == (booking = "sold") ~> (ticketRows = Tickets)

\* An order that a process holds as issued is listed with status "issued" in the
\* end: list_orders reads the database, the handlers read the process' memory.
IssuedIsListed ==
  (\E p \in Replicas : memory[p] # None /\ memory[p].status = "issued")
    ~> (row.status = "issued")

\* Every handler ends: no one waits for a guard for ever.
HandlerEnds == \A r \in Requests : (req[r].pc # "idle") ~> (req[r].pc = "idle")

-----------------------------------------------------------------------------
\* What the handlers of one process promise the customer, as TicketSale states it.
Sale == INSTANCE TicketSale WITH
          offered <- \E s \in Sessions : Payable(s),
          paid    <- \E s \in Sessions : session[s].state = "settled",
          held    <- booking # "released",
          sold    <- sellCalls > 0,
          issued  <- row.status = "issued"

\* The handlers implement the sale: see TicketSale.
ImplementsSale == Sale!Spec

-----------------------------------------------------------------------------
(* The inductive invariant behind the safety properties of one process.      *)

Loaded == {"call", "verify", "fix", "sell", "lookup", "persist", "row", "audit"}

\* The process' local mutex: of its handlers, one at most is past "local".
LocalMutex ==
  \A q, r \in Requests :
    /\ req[q].pc \notin {"idle", "local"} /\ req[r].pc \notin {"idle", "local"}
    /\ req[q].at = req[r].at
    => q = r

\* A handler belongs to a process and a kind of request, and has an order to work
\* on once it has loaded it.
HandlersOK ==
  \A r \in Requests :
    /\ req[r].pc # "idle" => req[r].at \in Replicas /\ req[r].kind \in Kinds
    /\ req[r].pc \in Loaded => req[r].copy \in Order

\* The copy of a handler at work is what the next handler of its process would load.
CopyIsCurrent ==
  \A r \in Requests :
    /\ req[r].pc \in Loaded => req[r].copy = OwnedOrder(req[r].at)
    /\ req[r].pc \in {"sell", "row", "audit"} => memory[req[r].at] # None
    /\ req[r].pc \in {"sell", "audit"} => req[r].copy = row

\* What the checks a handler has passed say of its kind and its copy.
HandlerKnows(r) ==
  LET o == req[r].copy IN
  /\ req[r].pc = "call" =>
       /\ req[r].kind \in Edits
       /\ o.status = "draft"
       /\ req[r].kind = "checkout" => o.amount # None
  /\ req[r].pc \in {"verify", "fix"} =>
       req[r].kind = "complete" /\ o.status = "checkout_pending"
  /\ req[r].pc = "fix" => session[o.session].state = "settled"
  /\ req[r].pc = "sell" =>
       req[r].kind = "complete" /\ o.status = "paid" /\ sellCalls = 0
  /\ req[r].pc \in {"lookup", "persist"} =>
       req[r].kind = "complete" /\ o.status \in {"paid", "issuance_failed"}
  /\ req[r].pc = "persist" => booking = "sold"
  /\ req[r].pc = "row" /\ req[r].kind = "complete" /\ o.status = "paid" => sellCalls = 0
  /\ req[r].pc \in {"row", "audit"} /\ req[r].kind = "checkout" =>
       o.status = "checkout_pending" /\ session[o.session].state = "created"

\* What the status of an order record says of the world.
OrderOK(o) ==
  /\ o.status \in {"checkout_pending"} \cup PaidStatus =>
       /\ o.session \in Sessions
       /\ session[o.session].state # "unused"
       /\ session[o.session].amount = o.amount
  /\ o.status \in PaidStatus =>
       /\ session[o.session].state = "settled"
       /\ booking \in {"fixed", "sold"}
  /\ o.status = "issued" => booking = "sold" /\ ticketRows = Tickets

\* The process' copy is the row or one step ahead of it, and both are truthful.
CopyAhead ==
  /\ OrderOK(row)
  /\ \A p \in Replicas :
       /\ OrderOK(OwnedOrder(p))
       /\ MayFollow(row.status, OwnedOrder(p).status)

\* A session the customer can pay is the one every copy of the order names.
PayableIsKnown ==
  \A s \in Sessions, p \in Replicas :
    Payable(s) => row.session = s /\ OwnedOrder(p).session = s
                  /\ row.status \in {"checkout_pending"} \cup PaidStatus

\* The one sell_tickets was sent after the row said so, and only it sells.
SaleIsRecorded ==
  /\ sellCalls <= 1
  /\ sellCalls > 0 => row.status \in PaidStatus
  /\ booking = "sold" => sellCalls > 0

IInv ==
  /\ TypeOK
  /\ HandlersOK
  /\ LocalMutex
  /\ CopyIsCurrent
  /\ \A r \in Requests : HandlerKnows(r)
  /\ CopyAhead
  /\ PayableIsKnown
  /\ SaleIsRecorded

=============================================================================

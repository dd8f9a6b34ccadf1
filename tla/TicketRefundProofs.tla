-------------------------- MODULE TicketRefundProofs --------------------------
(***************************************************************************)
(* TicketRefund for any number of processes, requests, tickets, events and *)
(* faults: its types, that the cursor never passes an event that was not   *)
(* applied, that the database says no more than CD, that a returned ticket *)
(* stays returned, and that while reconciliations do not overlap the       *)
(* cursor does not go back and a refund shows CD's last decision.          *)
(*                                                                         *)
(* IInv is inductive.  Its parts are proved one after the other, each from *)
(* the ones before it.                                                     *)
(***************************************************************************)
EXTENDS TicketRefund, TLAPS

USE DEF vars

-----------------------------------------------------------------------------
(* Lemmas about the state's parts. *)

TypeInv == TypeOK /\ ProgressOK

\* Writing one slot leaves the others alone.
LEMMA RecUpdate ==
  ASSUME TypeOK, NEW p \in Replicas, NEW v, rec' = [rec EXCEPT ![p] = v]
  PROVE  rec'[p] = v /\ \A q \in Replicas : q # p => rec'[q] = rec[q]
  BY DEF TypeOK

LEMMA IdleTypes ==
  /\ NoRequest \in Request /\ NoReconciliation \in Reconciliation
  /\ NoRequest.pc = "idle"
  /\ NoReconciliation.pc = "idle" /\ NoReconciliation.done = 0 /\ NoReconciliation.last = 0
  BY RefundAssumption DEF NoRequest, NoReconciliation, Request, Reconciliation

\* What is proved of a request's slot, and of a reconciliation's, on its own.
RequestsNamed == \A r \in Requests : req[r].pc # "idle" => req[r].ticket \in Tickets

RecsProgress ==
  \A p \in Replicas :
    /\ rec[p].pc \in {"status", "ticket", "replace"} => rec[p].done < rec[p].last
    /\ rec[p].pc \in {"ticket", "replace"} => Current(p).kind \in Decisions

\* A request changes one slot and keeps its shape.
LEMMA RequestMoves ==
  ASSUME TypeInv, NEW r \in Requests, NEW pc \in {"quote", "submit", "persist"},
         req[r].pc # "idle", Goto(r, pc) \/ Finish(r)
  PROVE  req' \in [Requests -> Request] /\ RequestsNamed'
<1>1. PICK v : v = [req[r] EXCEPT !.pc = pc]
  OBVIOUS
<1>2. v \in Request /\ v.ticket \in Tickets
  BY <1>1 DEF TypeInv, TypeOK, ProgressOK, Request
<1>3. CASE req' = [req EXCEPT ![r] = v]
  <2>1. \A q \in Requests : req'[q] = IF q = r THEN v ELSE req[q]
    BY <1>3 DEF TypeInv, TypeOK
  <2>. QED
    BY <1>2, <1>3, <2>1 DEF TypeInv, TypeOK, ProgressOK, RequestsNamed
<1>4. CASE Finish(r)
  <2>1. \A q \in Requests : req'[q] = IF q = r THEN NoRequest ELSE req[q]
    BY <1>4 DEF Finish, TypeInv, TypeOK
  <2>. QED
    BY <1>4, <2>1, IdleTypes DEF Finish, TypeInv, TypeOK, ProgressOK, RequestsNamed
<1>. QED
  BY <1>1, <1>3, <1>4 DEF Goto

\* A new event is the last one, and the others stay where they are.
LEMMA EventsGrow ==
  ASSUME TypeOK, NEW t \in Tickets, NEW kind \in Decisions \cup {"malformed"},
         NEW new \in Tickets \cup {None}, Len(events) < MaxEvents, Append1(t, kind, new)
  PROVE  /\ events' \in Seq(Event) /\ Len(events') = Len(events) + 1 /\ Len(events') <= MaxEvents
         /\ \A i \in 1..Len(events) : events'[i] = events[i]
         /\ events'[Len(events')] = [ticket |-> t, kind |-> kind, new |-> new]
<1>1. [ticket |-> t, kind |-> kind, new |-> new] \in Event
  BY DEF Event
<1>. QED
  BY <1>1, RefundAssumption DEF TypeOK, Append1

\* CD's events, one by one.
LEMMA EventsAre ==
  ASSUME TypeOK
  PROVE  /\ Len(events) \in Nat
         /\ \A i \in 1..Len(events) : events[i] \in Event /\ events[i].ticket \in Tickets
<1>1. events \in Seq(Event)
  BY DEF TypeOK
<1>2. \A i \in 1..Len(events) : events[i] \in Event
  BY <1>1
<1>. QED
  BY <1>1, <1>2 DEF Event

\* The event that a reconciliation is at.
LEMMA CurrentType ==
  ASSUME TypeInv, NEW p \in Replicas, rec[p].pc \in {"status", "ticket", "replace"}
  PROVE  /\ Current(p) \in Event /\ rec[p].done + 1 \in 1..Len(events)
         /\ rec[p].done \in Nat /\ rec[p].last \in Nat /\ rec[p].done < rec[p].last
  BY RefundAssumption DEF TypeInv, TypeOK, ProgressOK, Current, Reconciliation

\* Nothing that a row says of a ticket is taken back.
RowKeeps ==
  \A t \in Tickets :
    /\ row[t] = "returned" => row'[t] = "returned"
    /\ row[t] # "absent" => row'[t] # "absent"

LEMMA TicketRow ==
  ASSUME TypeOK, NEW e \in Event, row' = WithTicket(e)
  PROVE  row' \in [Tickets -> RowStates] /\ RowKeeps
  BY DEF TypeOK, RowStates, Event, WithTicket, RowKeeps

LEMMA ReplacementRow ==
  ASSUME TypeOK, NEW e \in Event, row' = WithReplacement(e)
  PROVE  /\ row' \in [Tickets -> RowStates] /\ RowKeeps
         /\ \A t \in Tickets : row'[t] = "returned" => row[t] = "returned"
  BY DEF TypeOK, RowStates, Event, WithReplacement, RowKeeps

LEMMA StatusRefunds ==
  ASSUME TypeOK, NEW e \in Event, e.kind \in Decisions, refund' = WithStatus(e)
  PROVE  /\ refund' \in [Refunds -> RefundRow \cup {None}]
         /\ \A i \in Refunds :
              \/ refund'[i] = refund[i]
              \/ /\ refund[i] # None /\ refund[i].ticket = e.ticket
                 /\ refund'[i] = [refund[i] EXCEPT !.status = e.kind]
  BY DEF TypeOK, RefundRow, Decisions, WithStatus

\* What a statement of a reconciliation, carried out or lost, can change.
LEMMA StatementTypes ==
  ASSUME TypeInv, NEW p \in Replicas, StatementLost(p)
  PROVE  /\ row' \in [Tickets -> RowStates] /\ refund' \in [Refunds -> RefundRow \cup {None}]
         /\ cursor' \in 0..Len(events) /\ RowKeeps
         /\ cursor' = cursor \/ (rec[p].pc = "cursor" /\ cursor' = rec[p].done)
<1>1. CASE UNCHANGED <<row, refund, cursor>>
  BY <1>1 DEF TypeInv, TypeOK, RowKeeps
<1>2. CASE /\ rec[p].pc = "status" /\ Current(p).kind # "malformed"
           /\ refund' = WithStatus(Current(p)) /\ UNCHANGED <<row, cursor>>
  <2>1. Current(p) \in Event /\ Current(p).kind \in Decisions
    BY <1>2, CurrentType DEF Event
  <2>. QED
    BY <1>2, <2>1, StatusRefunds DEF TypeInv, TypeOK, RowKeeps
<1>3. CASE rec[p].pc = "ticket" /\ row' = WithTicket(Current(p)) /\ UNCHANGED <<refund, cursor>>
  BY <1>3, CurrentType, TicketRow DEF TypeInv, TypeOK
<1>4. CASE rec[p].pc = "replace" /\ row' = WithReplacement(Current(p))
           /\ UNCHANGED <<refund, cursor>>
  BY <1>4, CurrentType, ReplacementRow DEF TypeInv, TypeOK
<1>5. CASE rec[p].pc = "cursor" /\ cursor' = NewCursor(p) /\ UNCHANGED <<row, refund>>
  BY <1>5, RefundAssumption DEF NewCursor, TypeInv, TypeOK, Reconciliation, RowKeeps
<1>. QED
  BY <1>1, <1>2, <1>3, <1>4, <1>5 DEF StatementLost

\* A reconciliation that ends, or goes on at a place that fits its progress.
LEMMA RecMoves ==
  ASSUME TypeInv, NEW p \in Replicas, NEW v \in Reconciliation, rec' = [rec EXCEPT ![p] = v],
         v.done <= v.last, v.last <= Len(events), events' = events,
         v.pc \in {"status", "ticket", "replace"} => v.done < v.last,
         v.pc \in {"ticket", "replace"} => events[v.done + 1].kind \in Decisions
  PROVE  /\ rec' \in [Replicas -> Reconciliation] /\ RecsProgress'
         /\ \A q \in Replicas : rec'[q].done <= rec'[q].last /\ rec'[q].last <= Len(events)
<1>1. rec'[p] = v /\ \A q \in Replicas : q # p => rec'[q] = rec[q]
  BY RecUpdate DEF TypeInv
<1>2. rec' \in [Replicas -> Reconciliation]
  BY DEF TypeInv, TypeOK
<1>3. \A q \in Replicas : rec'[q].done <= rec'[q].last /\ rec'[q].last <= Len(events)
  BY <1>1 DEF TypeInv, TypeOK
<1>4. RecsProgress'
  BY <1>1 DEF TypeInv, ProgressOK, RecsProgress, Current
<1>. QED
  BY <1>2, <1>3, <1>4

LEMMA RecStops ==
  ASSUME TypeInv, NEW p \in Replicas, Stop(p), events' = events
  PROVE  /\ rec' \in [Replicas -> Reconciliation] /\ RecsProgress'
         /\ \A q \in Replicas : rec'[q].done <= rec'[q].last /\ rec'[q].last <= Len(events)
<1>1. PICK v : v = NoReconciliation
  OBVIOUS
<1>2. v \in Reconciliation /\ v.pc = "idle" /\ v.done <= v.last
  BY <1>1, IdleTypes
<1>3. v.last <= Len(events) /\ rec' = [rec EXCEPT ![p] = v]
  BY <1>1, IdleTypes DEF Stop, TypeInv, TypeOK
<1>. QED
  BY <1>2, <1>3, RecMoves

\* A new event changes nothing for the reconciliations at work.
LEMMA EventsTypes ==
  ASSUME TypeInv, NEW t \in Tickets, NEW kind \in Decisions \cup {"malformed"},
         NEW new \in Tickets \cup {None}, Len(events) < MaxEvents, Append1(t, kind, new),
         NEW c \in [Tickets -> CdStates], cd' = c, faults' \in 0..MaxFaults,
         happened' \subseteq Exceptions,
         UNCHANGED <<row, refund, cursor, memory, req, rec, lookup>>
  PROVE  TypeInv'
<1>1. /\ events' \in Seq(Event) /\ Len(events') = Len(events) + 1 /\ Len(events') <= MaxEvents
      /\ \A i \in 1..Len(events) : events'[i] = events[i]
  BY EventsGrow DEF TypeInv
<1>2. TypeOK'
  <2>1. cursor' \in 0..Len(events')
    BY <1>1 DEF TypeInv, TypeOK
  <2>2. \A p \in Replicas : rec[p].done <= rec[p].last /\ rec[p].last <= Len(events')
    BY <1>1 DEF TypeInv, TypeOK, Reconciliation
  <2>. QED
    BY <1>1, <2>1, <2>2 DEF TypeInv, TypeOK
<1>3. ProgressOK'
  BY <1>1, CurrentType DEF TypeInv, ProgressOK, Current
<1>. QED
  BY <1>2, <1>3 DEF TypeInv

\* The steps that leave the reconciliations and CD's events alone, and those that leave
\* the requests and CD alone.
LEMMA RequestStep ==
  ASSUME TypeInv, req' \in [Requests -> Request], RequestsNamed',
         cd' \in [Tickets -> CdStates], refund' \in [Refunds -> RefundRow \cup {None}],
         faults' \in 0..MaxFaults,
         UNCHANGED <<events, row, cursor, memory, rec, lookup, happened>>
  PROVE  TypeInv'
<1>1. TypeOK'
  BY DEF TypeInv, TypeOK
<1>2. RecsProgress'
  BY DEF TypeInv, ProgressOK, RecsProgress, Current
<1>. QED
  BY <1>1, <1>2 DEF TypeInv, ProgressOK, RequestsNamed, RecsProgress

LEMMA ReconcileStep ==
  ASSUME TypeInv, rec' \in [Replicas -> Reconciliation], RecsProgress',
         \A q \in Replicas : rec'[q].done <= rec'[q].last /\ rec'[q].last <= Len(events),
         row' \in [Tickets -> RowStates], refund' \in [Refunds -> RefundRow \cup {None}],
         cursor' \in 0..Len(events), faults' \in 0..MaxFaults, happened' \subseteq Exceptions,
         UNCHANGED <<cd, events, memory, req, lookup>>
  PROVE  TypeInv'
<1>1. TypeOK'
  BY DEF TypeInv, TypeOK
<1>2. RequestsNamed'
  BY DEF TypeInv, ProgressOK, RequestsNamed
<1>. QED
  BY <1>1, <1>2 DEF TypeInv, ProgressOK, RequestsNamed, RecsProgress

THEOREM TypeStep == TypeInv /\ [Next]_vars => TypeInv'
<1>. SUFFICES ASSUME TypeInv, [Next]_vars PROVE TypeInv'
  OBVIOUS
<1>. USE RefundAssumption
<1>1. ASSUME NEW t \in Tickets, CdSettles(t) PROVE TypeInv'
  <2>1. CASE Append1(t, "settled", None) /\ cd' = [cd EXCEPT ![t] = "returned"]
    <3>1. PICK c : c = [cd EXCEPT ![t] = "returned"]
      OBVIOUS
    <3>2. c \in [Tickets -> CdStates]
      BY <3>1 DEF TypeInv, TypeOK, CdStates
    <3>. QED
      BY <1>1, <2>1, <3>1, <3>2, EventsTypes DEF CdSettles, Decisions, TypeInv, TypeOK
  <2>2. ASSUME NEW new \in Tickets, Append1(t, "settled", new),
               cd' = [cd EXCEPT ![t] = "returned", ![new] = "valid"]
        PROVE  TypeInv'
    <3>1. PICK c : c = [cd EXCEPT ![t] = "returned", ![new] = "valid"]
      OBVIOUS
    <3>2. c \in [Tickets -> CdStates]
      BY <3>1 DEF TypeInv, TypeOK, CdStates
    <3>. QED
      BY <1>1, <2>2, <3>1, <3>2, EventsTypes DEF CdSettles, Decisions, TypeInv, TypeOK
  <2>. QED
    BY <1>1, <2>1, <2>2 DEF CdSettles
<1>2. ASSUME NEW t \in Tickets, CdRejects(t) PROVE TypeInv'
  <2>1. PICK c : c = [cd EXCEPT ![t] = "valid"]
    OBVIOUS
  <2>2. c \in [Tickets -> CdStates]
    BY <2>1 DEF TypeInv, TypeOK, CdStates
  <2>. QED
    BY <1>2, <2>1, <2>2, EventsTypes DEF CdRejects, Decisions, TypeInv, TypeOK
<1>3. ASSUME NEW t \in Tickets, CdGarbles(t) PROVE TypeInv'
  <2>1. PICK c : c = cd
    OBVIOUS
  <2>2. c \in [Tickets -> CdStates] /\ cd' = c
    BY <1>3, <2>1 DEF CdGarbles, TypeInv, TypeOK
  <2>3. faults' \in 0..MaxFaults /\ happened' \subseteq Exceptions
    BY <1>3 DEF CdGarbles, Fault, Exceptions, TypeInv, TypeOK
  <2>. QED
    BY <1>3, <2>2, <2>3, EventsTypes DEF CdGarbles
<1>4. ASSUME NEW t \in Tickets, PersistSold(t) PROVE TypeInv'
  <2>1. t \in Sold /\ row' \in [Tickets -> RowStates]
    BY <1>4 DEF PersistSold, TypeInv, TypeOK, RowStates
  <2>2. DOMAIN lookup' \subseteq Sold /\ lookup' \in [DOMAIN lookup' -> BOOLEAN]
    BY <1>4 DEF PersistSold, TypeInv, TypeOK
  <2>. QED
    BY <1>4, <2>1, <2>2 DEF PersistSold, TypeInv, TypeOK, ProgressOK, Current
<1>5. ASSUME NEW r \in Requests, NEW p \in Replicas, NEW t \in Tickets, Begin(r, p, t)
      PROVE  TypeInv'
  <2>1. PICK v : v = [pc |-> "load", at |-> p, ticket |-> t]
    OBVIOUS
  <2>2. v \in Request /\ v.ticket = t /\ req' = [req EXCEPT ![r] = v]
    BY <1>5, <2>1 DEF Begin, Request
  <2>3. req' \in [Requests -> Request] /\ RequestsNamed'
    BY <2>2 DEF TypeInv, TypeOK, ProgressOK, RequestsNamed
  <2>. QED
    BY <1>5, <2>3, RequestStep DEF Begin, TypeInv, TypeOK
<1>6. ASSUME NEW r \in Requests, Load(r) \/ Quote(r) PROVE TypeInv'
  <2>1. req' \in [Requests -> Request] /\ RequestsNamed'
    BY <1>6, RequestMoves DEF Load, Quote
  <2>. QED
    BY <1>6, <2>1, RequestStep DEF Load, Quote, TypeInv, TypeOK
<1>7. ASSUME NEW r \in Requests, Submit(r) PROVE TypeInv'
  <2>1. req' \in [Requests -> Request] /\ RequestsNamed'
    BY <1>7, RequestMoves DEF Submit
  <2>2. cd' \in [Tickets -> CdStates]
    BY <1>7 DEF Submit, Submitted, TypeInv, TypeOK, CdStates
  <2>. QED
    BY <1>7, <2>1, <2>2, RequestStep DEF Submit, TypeInv, TypeOK
<1>8. ASSUME NEW r \in Requests, PersistRefund(r) \/ RequestLost(r) PROVE TypeInv'
  <2>1. req' \in [Requests -> Request] /\ RequestsNamed'
    BY <1>8, RequestMoves DEF PersistRefund, RequestLost
  <2>2. cd' \in [Tickets -> CdStates]
    BY <1>8 DEF PersistRefund, RequestLost, Submitted, TypeInv, TypeOK, CdStates
  <2>3. refund' \in [Refunds -> RefundRow \cup {None}]
    <3>1. req[r].pc = "persist" => req[r].ticket \in Tickets
      BY DEF TypeInv, ProgressOK
    <3>. QED
      BY <1>8, <3>1 DEF PersistRefund, RequestLost, Insert, RefundRow, TypeInv, TypeOK
  <2>4. faults' \in 0..MaxFaults
    BY <1>8 DEF PersistRefund, RequestLost, Fault, TypeInv, TypeOK
  <2>. QED
    BY <1>8, <2>1, <2>2, <2>3, <2>4, RequestStep DEF PersistRefund, RequestLost
<1>9. ASSUME NEW p \in Replicas, ReadCursor(p) PROVE TypeInv'
  <2>1. PICK v : v = [pc |-> "fetch", done |-> cursor, last |-> cursor]
    OBVIOUS
  <2>2. v \in Reconciliation /\ v.pc = "fetch" /\ v.done <= v.last /\ v.last <= Len(events)
    BY <2>1 DEF Reconciliation, TypeInv, TypeOK
  <2>3. happened' \subseteq Exceptions
    BY <1>9 DEF ReadCursor, Exceptions, TypeInv, TypeOK
  <2>. QED
    BY <1>9, <2>1, <2>2, <2>3, RecMoves, ReconcileStep DEF ReadCursor, TypeInv, TypeOK
<1>10. ASSUME NEW p \in Replicas, Fetch(p) PROVE TypeInv'
  <2>1. PICK last \in rec[p].done..Len(events) :
          rec' = [rec EXCEPT ![p].last = last, ![p].pc = Following(rec[p].done, last)]
    BY <1>10 DEF Fetch
  <2>2. PICK v : v = [rec[p] EXCEPT !.last = last, !.pc = Following(rec[p].done, last)]
    OBVIOUS
  <2>3. last \in 0..MaxEvents /\ rec[p].done <= last
    BY <2>1 DEF TypeInv, TypeOK, Reconciliation
  <2>4. /\ v \in Reconciliation /\ v.done = rec[p].done /\ v.last = last
        /\ v.pc = Following(rec[p].done, last)
    BY <2>2, <2>3 DEF TypeInv, TypeOK, Reconciliation, Following
  <2>5. rec' = [rec EXCEPT ![p] = v]
    BY <2>1, <2>2 DEF TypeInv, TypeOK
  <2>6. v.pc \in {"status", "ticket", "replace"} => v.done < v.last
    BY <2>3, <2>4 DEF Following, TypeInv, TypeOK, Reconciliation
  <2>7. v.pc \notin {"ticket", "replace"} /\ v.last <= Len(events)
    BY <2>1, <2>4 DEF Following
  <2>. QED
    BY <1>10, <2>3, <2>4, <2>5, <2>6, <2>7, RecMoves, ReconcileStep DEF Fetch, TypeInv, TypeOK
<1>11. ASSUME NEW p \in Replicas, UpdateStatus(p) PROVE TypeInv'
  <2>1. Current(p) \in Event /\ rec[p].pc = "status"
    BY <1>11, CurrentType DEF UpdateStatus
  <2>2. CASE Stop(p) /\ UNCHANGED refund
    BY <1>11, <2>2, RecStops, ReconcileStep DEF UpdateStatus, TypeInv, TypeOK
  <2>3. CASE Current(p).kind # "malformed" /\ refund' = WithStatus(Current(p))
             /\ Proceed(p, "ticket")
    <3>1. Current(p).kind \in Decisions
      BY <2>1, <2>3 DEF Event
    <3>2. refund' \in [Refunds -> RefundRow \cup {None}]
      BY <2>1, <2>3, <3>1, StatusRefunds DEF TypeInv
    <3>3. PICK v : v = [rec[p] EXCEPT !.pc = "ticket"]
      OBVIOUS
    <3>4. v \in Reconciliation /\ v.done = rec[p].done /\ v.last = rec[p].last
          /\ rec' = [rec EXCEPT ![p] = v]
      BY <2>3, <3>3 DEF Proceed, TypeInv, TypeOK, Reconciliation
    <3>5. v.done < v.last /\ v.last <= Len(events) /\ events[v.done + 1].kind \in Decisions
      BY <2>1, <3>1, <3>4 DEF Current, TypeInv, TypeOK, ProgressOK
    <3>. QED
      BY <1>11, <3>2, <3>4, <3>5, CurrentType, <2>1, RecMoves, ReconcileStep
      DEF UpdateStatus, TypeInv, TypeOK
  <2>. QED
    BY <1>11, <2>2, <2>3 DEF UpdateStatus
<1>12. ASSUME NEW p \in Replicas, UpdateTicket(p) PROVE TypeInv'
  <2>1. Current(p) \in Event /\ Current(p).kind \in Decisions
    BY <1>12, CurrentType DEF UpdateTicket, TypeInv, ProgressOK
  <2>2. row' \in [Tickets -> RowStates]
    BY <1>12, <2>1, TicketRow DEF UpdateTicket, TypeInv
  <2>3. PICK v : v = [rec[p] EXCEPT !.pc = "replace"]
    OBVIOUS
  <2>4. v \in Reconciliation /\ v.done = rec[p].done /\ v.last = rec[p].last
        /\ rec' = [rec EXCEPT ![p] = v]
    BY <1>12, <2>3 DEF UpdateTicket, Proceed, TypeInv, TypeOK, Reconciliation
  <2>5. v.done < v.last /\ v.last <= Len(events) /\ events[v.done + 1].kind \in Decisions
    BY <1>12, <2>1, <2>4 DEF UpdateTicket, Current, TypeInv, TypeOK, ProgressOK
  <2>. QED
    BY <1>12, <2>2, <2>4, <2>5, CurrentType, RecMoves, ReconcileStep
    DEF UpdateTicket, TypeInv, TypeOK
<1>13. ASSUME NEW p \in Replicas, AddReplacement(p) PROVE TypeInv'
  <2>1. Current(p) \in Event /\ rec[p].done \in Nat /\ rec[p].last \in Nat
        /\ rec[p].done < rec[p].last
    BY <1>13, CurrentType DEF AddReplacement
  <2>2. row' \in [Tickets -> RowStates]
    BY <1>13, <2>1, ReplacementRow DEF AddReplacement, TypeInv
  <2>3. PICK v : v = [rec[p] EXCEPT !.done = rec[p].done + 1,
                                    !.pc = Following(rec[p].done + 1, rec[p].last)]
    OBVIOUS
  <2>4. rec' = [rec EXCEPT ![p] = v]
    BY <1>13, <2>3 DEF AddReplacement, TypeInv, TypeOK
  <2>5. /\ v \in Reconciliation /\ v.done = rec[p].done + 1 /\ v.last = rec[p].last
        /\ v.pc = Following(rec[p].done + 1, rec[p].last)
    <3>1. rec[p].done + 1 \in 0..MaxEvents
      BY <2>1 DEF TypeInv, TypeOK, Reconciliation
    <3>2. Following(rec[p].done + 1, rec[p].last) \in {"cursor", "status"}
      BY DEF Following
    <3>. QED
      BY <2>3, <3>1, <3>2 DEF TypeInv, TypeOK, Reconciliation
  <2>6. v.done <= v.last /\ (v.pc = "status" => v.done < v.last)
        /\ v.pc \notin {"ticket", "replace"} /\ v.last <= Len(events)
    BY <2>1, <2>5 DEF Following, TypeInv, TypeOK
  <2>. QED
    BY <1>13, <2>2, <2>4, <2>5, <2>6, RecMoves, ReconcileStep DEF AddReplacement, TypeInv, TypeOK
<1>14. ASSUME NEW p \in Replicas, WriteCursor(p) PROVE TypeInv'
  <2>1. cursor' \in 0..Len(events)
    BY <1>14 DEF WriteCursor, NewCursor, TypeInv, TypeOK, Reconciliation
  <2>. QED
    BY <1>14, <2>1, RecStops, ReconcileStep DEF WriteCursor, TypeInv, TypeOK
<1>15. ASSUME NEW p \in Replicas, ReconciliationLost(p) PROVE TypeInv'
  <2>1. faults' \in 0..MaxFaults
    BY <1>15 DEF ReconciliationLost, Fault, TypeInv, TypeOK
  <2>. QED
    BY <1>15, <2>1, RecStops, StatementTypes, ReconcileStep
    DEF ReconciliationLost, TypeInv, TypeOK
<1>16. ASSUME NEW p \in Replicas, Crash(p) PROVE TypeInv'
  <2>1. faults' \in 0..MaxFaults
    BY <1>16 DEF Crash, Fault, TypeInv, TypeOK
  <2>2. memory' \in [Replicas -> SUBSET Sold]
    BY <1>16 DEF Crash, TypeInv, TypeOK
  <2>3. req' \in [Requests -> Request] /\ RequestsNamed'
    BY <1>16, IdleTypes DEF Crash, TypeInv, TypeOK, ProgressOK, RequestsNamed
  <2>4. /\ rec' \in [Replicas -> Reconciliation] /\ RecsProgress'
        /\ \A q \in Replicas : rec'[q].done <= rec'[q].last /\ rec'[q].last <= Len(events)
    BY <1>16, RecStops DEF Crash
  <2>5. /\ row' \in [Tickets -> RowStates] /\ refund' \in [Refunds -> RefundRow \cup {None}]
        /\ cursor' \in 0..Len(events)
    BY <1>16, StatementTypes DEF Crash
  <2>6. UNCHANGED <<cd, events, lookup, happened>>
    BY <1>16 DEF Crash
  <2>. QED
    BY <2>1, <2>2, <2>3, <2>4, <2>5, <2>6
    DEF TypeInv, TypeOK, ProgressOK, RequestsNamed, RecsProgress
<1>17. ASSUME LookupSold PROVE TypeInv'
  <2>1. DOMAIN lookup' \subseteq Sold /\ lookup' \in [DOMAIN lookup' -> BOOLEAN]
    BY <1>17 DEF LookupSold
  <2>2. faults' \in 0..MaxFaults /\ happened' \subseteq Exceptions
    BY <1>17 DEF LookupSold, Fault, Exceptions, TypeInv, TypeOK
  <2>. QED
    BY <1>17, <2>1, <2>2 DEF LookupSold, TypeInv, TypeOK, ProgressOK, Current
<1>18. CASE UNCHANGED vars
  BY <1>18 DEF TypeInv, TypeOK, ProgressOK, Current
<1>. QED
  BY <1>1, <1>2, <1>3, <1>4, <1>5, <1>6, <1>7, <1>8, <1>9, <1>10, <1>11, <1>12, <1>13, <1>14,
     <1>15, <1>16, <1>17, <1>18
  DEF Next, Handle, Reconcile

-----------------------------------------------------------------------------
(* CD's events, and that the database says no more than CD. *)

CdInv == EventsOK /\ LookupOK /\ SettledAtCd

\* CD forgets no ticket and no return.
CdKeeps ==
  \A t \in Tickets :
    /\ cd[t] = "returned" => cd'[t] = "returned"
    /\ cd'[t] # "none" => cd[t] # "none"

\* An event adds to what CD knows: what it knew before, it still knew before.
LEMMA EventsStep ==
  ASSUME TypeInv, EventsOK, NEW t \in Tickets, NEW kind \in Decisions \cup {"malformed"},
         NEW new \in Tickets \cup {None}, cd[t] # "none",
         Len(events) < MaxEvents, Append1(t, kind, new),
         kind = "settled" => cd'[t] = "returned",
         \A s \in Tickets : cd[s] = "returned" => cd'[s] = "returned",
         \A s \in Tickets : cd'[s] # "none" => cd[s] # "none" \/ (kind = "settled" /\ s = new)
  PROVE  EventsOK'
<1>1. /\ Len(events) \in Nat /\ Len(events') = Len(events) + 1
      /\ \A i \in 1..Len(events) : events'[i] = events[i]
      /\ events'[Len(events')] = [ticket |-> t, kind |-> kind, new |-> new]
  BY EventsGrow, EventsAre DEF TypeInv
<1>2. ASSUME NEW s \in Tickets, NEW k \in 1..(Len(events) + 1), KnownBefore(s, k)
      PROVE  KnownBefore(s, k)'
  BY <1>1, <1>2 DEF KnownBefore
<1>3. ASSUME NEW s \in Tickets, cd'[s] # "none"
      PROVE  s \in Sold
             \/ \E j \in 1..Len(events') : events'[j].kind = "settled" /\ events'[j].new = s
  <2>1. CASE cd[s] # "none"
    <3>1. KnownBefore(s, Len(events) + 1)
      BY <2>1 DEF EventsOK
    <3>. QED
      BY <1>1, <3>1 DEF KnownBefore
  <2>2. CASE kind = "settled" /\ s = new
    BY <1>1, <2>2
  <2>. QED
    BY <1>3, <2>1, <2>2
<1>4. ASSUME NEW i \in 1..Len(events'), events'[i].kind \in Decisions
      PROVE  events'[i].ticket \in Sold
             \/ \E j \in 1..(i - 1) :
                  events'[j].kind = "settled" /\ events'[j].new = events'[i].ticket
  <2>1. CASE i \in 1..Len(events)
    <3>1. KnownBefore(events[i].ticket, i)
      BY <1>1, <1>4, <2>1 DEF EventsOK
    <3>. QED
      BY <1>1, <2>1, <3>1 DEF KnownBefore
  <2>2. CASE i = Len(events')
    <3>1. KnownBefore(t, Len(events) + 1)
      BY DEF EventsOK
    <3>. QED
      BY <1>1, <2>2, <3>1 DEF KnownBefore
  <2>. QED
    BY <1>1, <2>1, <2>2
<1>5. ASSUME NEW i \in 1..Len(events'), events'[i].kind = "settled"
      PROVE  cd'[events'[i].ticket] = "returned"
  <2>1. CASE i \in 1..Len(events)
    <3>1. events[i] \in Event /\ events[i].ticket \in Tickets
      BY <2>1, EventsAre DEF TypeInv
    <3>. QED
      BY <1>1, <1>5, <2>1, <3>1 DEF EventsOK
  <2>2. CASE i = Len(events')
    BY <1>1, <1>5, <2>2
  <2>. QED
    BY <1>1, <2>1, <2>2
<1>6. Len(events') + 1 - 1 = Len(events')
  BY <1>1
<1>. QED
  BY <1>3, <1>4, <1>5, <1>6 DEF EventsOK, KnownBefore

\* No event, and CD forgets nothing.
LEMMA CdQuiet ==
  ASSUME TypeInv, EventsOK, CdKeeps, UNCHANGED events
  PROVE  EventsOK'
<1>1. \A i \in 1..Len(events) : events[i].ticket \in Tickets
  BY EventsAre DEF TypeInv
<1>. QED
  BY <1>1 DEF EventsOK, CdKeeps, KnownBefore

\* A statement of a reconciliation says what the event says.
LEMMA StatementSettled ==
  ASSUME TypeInv, EventsOK, SettledAtCd, UNCHANGED cd, NEW p \in Replicas, StatementLost(p)
  PROVE  SettledAtCd'
<1>1. CASE UNCHANGED <<row, refund, cursor>>
  BY <1>1 DEF SettledAtCd
<1>. DEFINE e == Current(p)
<1>2. ASSUME rec[p].pc \in {"status", "ticket", "replace"}
      PROVE  /\ e \in Event /\ e.ticket \in Tickets
             /\ e.kind = "settled" => cd[e.ticket] = "returned"
  BY <1>2, CurrentType DEF EventsOK, Event, Current
<1>3. CASE /\ rec[p].pc = "status" /\ Current(p).kind # "malformed"
           /\ refund' = WithStatus(e) /\ UNCHANGED <<row, cursor>>
  <2>1. e.kind \in Decisions
    BY <1>2, <1>3 DEF Event
  <2>2. \A i \in Refunds :
          \/ refund'[i] = refund[i]
          \/ /\ refund[i] # None /\ refund[i].ticket = e.ticket
             /\ refund'[i] = [refund[i] EXCEPT !.status = e.kind]
    BY <1>2, <1>3, <2>1, StatusRefunds DEF TypeInv
  <2>3. \A i \in Refunds :
          refund'[i] # None /\ refund'[i].status = "settled" => cd[refund'[i].ticket] = "returned"
    <3>1. SUFFICES ASSUME NEW i \in Refunds, refund'[i] # None, refund'[i].status = "settled"
                   PROVE  cd[refund'[i].ticket] = "returned"
      OBVIOUS
    <3>2. CASE refund'[i] = refund[i]
      BY <3>1, <3>2 DEF SettledAtCd
    <3>3. CASE /\ refund[i] # None /\ refund[i].ticket = e.ticket
               /\ refund'[i] = [refund[i] EXCEPT !.status = e.kind]
      <4>1. refund'[i].ticket = e.ticket /\ refund'[i].status = e.kind
        BY <3>3 DEF TypeInv, TypeOK, RefundRow
      <4>. QED
        BY <1>2, <1>3, <3>1, <4>1
    <3>. QED
      BY <2>2, <3>2, <3>3
  <2>. QED
    BY <1>3, <2>3 DEF SettledAtCd
<1>4. CASE rec[p].pc = "ticket" /\ row' = WithTicket(e) /\ UNCHANGED <<refund, cursor>>
  <2>1. e.kind \in Decisions
    BY <1>4 DEF TypeInv, ProgressOK
  <2>2. e.kind # "settled" => row' = row
    BY <1>4, <2>1 DEF WithTicket, Decisions
  <2>3. \A t \in Tickets : t # e.ticket => row'[t] = row[t]
    BY <1>4 DEF WithTicket, TypeInv, TypeOK
  <2>. QED
    BY <1>2, <1>4, <2>2, <2>3 DEF SettledAtCd
<1>5. CASE rec[p].pc = "replace" /\ row' = WithReplacement(e) /\ UNCHANGED <<refund, cursor>>
  BY <1>2, <1>5, ReplacementRow DEF SettledAtCd, TypeInv
<1>6. CASE rec[p].pc = "cursor" /\ UNCHANGED <<row, refund>>
  BY <1>6 DEF SettledAtCd
<1>. QED
  BY <1>1, <1>3, <1>4, <1>5, <1>6 DEF StatementLost

\* What a reconciliation's statements do is what they do when they are lost, or more.
LEMMA Statements ==
  ASSUME TypeInv, NEW p \in Replicas,
         Reconcile(p) \/ ReconciliationLost(p) \/ Crash(p)
  PROVE  StatementLost(p) /\ UNCHANGED <<cd, events, lookup>> /\ happened \subseteq happened'
<1>1. CASE ReadCursor(p) \/ Fetch(p)
  BY <1>1 DEF ReadCursor, Fetch, StatementLost
<1>2. CASE UpdateStatus(p)
  BY <1>2 DEF UpdateStatus, StatementLost
<1>3. CASE UpdateTicket(p) \/ AddReplacement(p) \/ WriteCursor(p)
  BY <1>3 DEF UpdateTicket, AddReplacement, WriteCursor, StatementLost
<1>4. CASE ReconciliationLost(p) \/ Crash(p)
  BY <1>4 DEF ReconciliationLost, Crash
<1>. QED
  BY <1>1, <1>2, <1>3, <1>4 DEF Reconcile

THEOREM CdStep == TypeInv /\ TypeInv' /\ CdInv /\ [Next]_vars => CdInv'
<1>. SUFFICES ASSUME TypeInv, TypeInv', CdInv, [Next]_vars PROVE CdInv'
  OBVIOUS
<1>1. ASSUME EventsOK', \A t \in Tickets : cd[t] = "returned" => cd'[t] = "returned",
             UNCHANGED <<row, refund, lookup>>, happened \subseteq happened'
      PROVE  CdInv'
  <2>1. LookupOK'
    BY <1>1, RefundAssumption DEF CdInv, LookupOK, TypeInv, TypeOK
  <2>2. SettledAtCd'
    BY <1>1 DEF CdInv, SettledAtCd, TypeInv, TypeOK, RefundRow
  <2>. QED
    BY <1>1, <2>1, <2>2 DEF CdInv
<1>2. ASSUME NEW t \in Tickets, CdSettles(t) PROVE CdInv'
  <2>1. PICK new \in Tickets \cup {None} :
          /\ Append1(t, "settled", new)
          /\ cd'[t] = "returned"
          /\ \A s \in Tickets : cd[s] = "returned" => cd'[s] = "returned"
          /\ \A s \in Tickets : cd'[s] # "none" => cd[s] # "none" \/ s = new
    BY <1>2 DEF CdSettles, TypeInv, TypeOK
  <2>2. EventsOK'
    BY <1>2, <2>1, EventsStep DEF CdSettles, CdInv, Decisions
  <2>. QED
    BY <1>1, <1>2, <2>1, <2>2 DEF CdSettles
<1>3. ASSUME NEW t \in Tickets, CdRejects(t) PROVE CdInv'
  <2>1. /\ \A s \in Tickets : cd[s] = "returned" => cd'[s] = "returned"
        /\ \A s \in Tickets : cd'[s] # "none" => cd[s] # "none"
    BY <1>3 DEF CdRejects, TypeInv, TypeOK
  <2>2. EventsOK'
    BY <1>3, <2>1, EventsStep DEF CdRejects, CdInv, Decisions
  <2>. QED
    BY <1>1, <1>3, <2>1, <2>2 DEF CdRejects
<1>4. ASSUME NEW t \in Tickets, CdGarbles(t) PROVE CdInv'
  <2>1. EventsOK'
    BY <1>4, EventsStep DEF CdGarbles, CdInv
  <2>. QED
    BY <1>1, <1>4, <2>1 DEF CdGarbles
<1>5. ASSUME NEW t \in Tickets, PersistSold(t) PROVE CdInv'
  <2>1. EventsOK'
    BY <1>5, CdQuiet DEF PersistSold, CdInv, CdKeeps
  <2>2. t \in Sold /\ \A s \in Tickets : s # t => row'[s] = row[s]
    BY <1>5 DEF PersistSold, TypeInv, TypeOK
  <2>3. row'[t] = "returned" => lookup[t]
    BY <1>5 DEF PersistSold, TypeInv, TypeOK
  <2>4. SettledAtCd'
    BY <1>5, <2>2, <2>3 DEF PersistSold, CdInv, SettledAtCd, LookupOK
  <2>5. LookupOK'
    BY <1>5 DEF PersistSold, CdInv, LookupOK
  <2>. QED
    BY <2>1, <2>4, <2>5 DEF CdInv
<1>6. ASSUME NEW r \in Requests, Load(r) \/ Quote(r)
                 \/ \E p \in Replicas, t \in Tickets : Begin(r, p, t)
      PROVE  CdInv'
  <2>1. UNCHANGED <<cd, events, row, refund, lookup, happened>>
    BY <1>6 DEF Load, Quote, Begin
  <2>. QED
    BY <1>1, <2>1, CdQuiet DEF CdInv, CdKeeps
<1>7. ASSUME NEW r \in Requests, Submit(r) \/ PersistRefund(r) \/ RequestLost(r) PROVE CdInv'
  <2>1. /\ CdKeeps /\ UNCHANGED <<events, row, lookup, happened>>
        /\ req[r].ticket \in Tickets /\ (UNCHANGED refund \/ Insert(req[r].ticket))
    BY <1>7 DEF Submit, PersistRefund, RequestLost, Submitted, CdKeeps, TypeInv, TypeOK, ProgressOK
  <2>2. EventsOK'
    BY <2>1, CdQuiet DEF CdInv
  <2>3. LookupOK'
    BY <2>1, RefundAssumption DEF CdInv, CdKeeps, LookupOK, TypeInv, TypeOK
  <2>4. \A i \in Refunds : refund'[i] = refund[i]
          \/ refund'[i] = [ticket |-> req[r].ticket, status |-> "requested"]
    BY <2>1 DEF Insert, TypeInv, TypeOK
  <2>5. SettledAtCd'
    BY <2>1, <2>4 DEF CdInv, CdKeeps, SettledAtCd, TypeInv, TypeOK, RefundRow
  <2>. QED
    BY <2>2, <2>3, <2>5 DEF CdInv
<1>8. ASSUME NEW p \in Replicas, Reconcile(p) \/ ReconciliationLost(p) \/ Crash(p) PROVE CdInv'
  <2>1. StatementLost(p) /\ UNCHANGED <<cd, events, lookup>> /\ happened \subseteq happened'
    BY <1>8, Statements
  <2>2. EventsOK'
    BY <2>1, CdQuiet DEF CdInv, CdKeeps
  <2>3. LookupOK'
    BY <2>1 DEF CdInv, LookupOK
  <2>. QED
    BY <2>1, <2>2, <2>3, StatementSettled DEF CdInv
<1>9. ASSUME LookupSold PROVE CdInv'
  <2>1. UNCHANGED <<cd, events, row, refund>> /\ "reissue" \in happened'
    BY <1>9 DEF LookupSold
  <2>2. EventsOK'
    BY <2>1, CdQuiet DEF CdInv, CdKeeps
  <2>3. LookupOK'
    BY <1>9, <2>1 DEF LookupSold, LookupOK
  <2>4. SettledAtCd'
    BY <2>1 DEF CdInv, SettledAtCd
  <2>. QED
    BY <2>2, <2>3, <2>4 DEF CdInv
<1>10. ASSUME UNCHANGED vars PROVE CdInv'
  <2>1. UNCHANGED <<cd, events, row, refund, lookup, happened>>
    BY <1>10
  <2>. QED
    BY <1>1, <2>1, CdQuiet DEF CdInv, CdKeeps
<1>. QED
  BY <1>2, <1>3, <1>4, <1>5, <1>6, <1>7, <1>8, <1>9, <1>10 DEF Next, Handle

-----------------------------------------------------------------------------
(* What has been applied. *)

\* An event is applied in the rows of the next state.
AppliedNext(e) ==
  e.kind = "settled" =>
    row'[e.ticket] = "returned" /\ (e.new # None => row'[e.new] # "absent")

\* A ticket that CD has an event of has a row once the events before are applied.
LEMMA TicketHasRow ==
  ASSUME TypeInv, EventsOK, AppliedOK, "reissue" \notin happened, NEW p \in Replicas,
         rec[p].pc \in {"ticket", "replace"}
  PROVE  row[Current(p).ticket] # "absent"
<1>. DEFINE t == Current(p).ticket
<1>1. /\ Current(p) \in Event /\ rec[p].done \in Nat /\ rec[p].done + 1 \in 1..Len(events)
      /\ Current(p).kind \in Decisions
  BY CurrentType DEF TypeInv, ProgressOK
<1>2. t \in Tickets
  BY <1>1 DEF Event
<1>3. KnownBefore(t, rec[p].done + 1)
  BY <1>1 DEF EventsOK, Current
<1>4. CASE t \in Sold
  BY <1>4 DEF AppliedOK
<1>5. ASSUME NEW j \in 1..rec[p].done, events[j].kind = "settled", events[j].new = t
      PROVE  row[t] # "absent"
  BY <1>2, <1>5, RefundAssumption DEF AppliedOK, Covered
<1>. QED
  BY <1>1, <1>3, <1>4, <1>5 DEF KnownBefore

\* Rows say no less than before, and a reconciliation has applied what it had, what the
\* cursor had, or one event more.
LEMMA AppliedStep ==
  ASSUME TypeInv, AppliedOK, RowKeeps, happened \subseteq happened',
         \A i \in 1..Len(events) : events'[i] = events[i],
         cursor' = cursor \/ \E p \in Replicas : cursor' = rec[p].done,
         \A p \in Replicas :
           \/ rec'[p].done \in {0, rec[p].done, cursor}
           \/ /\ rec'[p].done = rec[p].done + 1 /\ rec[p].done < Len(events)
              /\ "reissue" \notin happened => AppliedNext(events[rec[p].done + 1]),
         \A p \in Replicas : rec'[p].pc = "replace" =>
           \/ rec'[p] = rec[p]
           \/ /\ rec[p].pc = "ticket" /\ rec'[p].done = rec[p].done
              /\ "reissue" \notin happened /\ Current(p).kind = "settled"
                   => row'[Current(p).ticket] = "returned"
  PROVE  AppliedOK'
<1>1. \A t \in Sold : row'[t] # "absent"
  BY RefundAssumption DEF AppliedOK, RowKeeps
<1>. SUFFICES ASSUME "reissue" \notin happened' PROVE AppliedOK'
  BY <1>1 DEF AppliedOK
<1>2. Len(events) \in Nat /\ \A i \in 1..Len(events) : events[i] \in Event
  BY EventsAre DEF TypeInv
<1>3. cursor \in 0..Len(events) /\ \A p \in Replicas : rec[p].done \in 0..Len(events)
  BY <1>2 DEF TypeInv, TypeOK, Reconciliation
<1>4. ASSUME NEW k \in 0..Len(events), Covered(k)
      PROVE  \A i \in 1..k : events'[i] = events[i] /\ AppliedNext(events'[i])
  <2>. SUFFICES ASSUME NEW i \in 1..k PROVE events'[i] = events[i] /\ AppliedNext(events[i])
    OBVIOUS
  <2>1. i \in 1..Len(events) /\ events[i].ticket \in Tickets
        /\ (events[i].new # None => events[i].new \in Tickets)
    BY <1>2 DEF Event
  <2>. QED
    BY <1>4, <2>1 DEF Covered, RowKeeps, AppliedNext
<1>5. Covered(cursor) /\ \A p \in Replicas : Covered(rec[p].done)
  BY DEF AppliedOK
<1>6. \A i \in 1..cursor' : AppliedNext(events'[i])
  BY <1>3, <1>4, <1>5
<1>7. ASSUME NEW p \in Replicas PROVE \A i \in 1..rec'[p].done : AppliedNext(events'[i])
  <2>1. CASE rec'[p].done \in {0, rec[p].done, cursor}
    BY <1>3, <1>4, <1>5, <2>1
  <2>2. CASE /\ rec'[p].done = rec[p].done + 1 /\ rec[p].done < Len(events)
             /\ AppliedNext(events[rec[p].done + 1])
    BY <1>2, <1>3, <1>4, <1>5, <2>2
  <2>. QED
    BY <2>1, <2>2
<1>8. ASSUME NEW p \in Replicas, rec'[p].pc = "replace", events'[rec'[p].done + 1].kind = "settled"
      PROVE  row'[events'[rec'[p].done + 1].ticket] = "returned"
  <2>0. rec'[p].done = rec[p].done /\ rec[p].pc \in {"ticket", "replace"}
    BY <1>8
  <2>1. events'[rec'[p].done + 1] = Current(p)
        /\ Current(p).ticket \in Tickets
    BY <2>0, CurrentType DEF Event, Current
  <2>2. CASE rec'[p] = rec[p]
    BY <1>8, <2>0, <2>1, <2>2 DEF AppliedOK, RowKeeps, Current
  <2>3. CASE rec'[p] # rec[p]
    BY <1>8, <2>0, <2>1, <2>3
  <2>. QED
    BY <2>2, <2>3
<1>. QED
  BY <1>1, <1>6, <1>7, <1>8 DEF AppliedOK, Covered, AppliedNext, Current

\* How a reconciliation's slot moves.
LEMMA RecEffects ==
  ASSUME TypeInv, NEW p \in Replicas,
         Reconcile(p) \/ ReconciliationLost(p) \/ Crash(p)
  PROVE  /\ \A q \in Replicas : q # p => rec'[q] = rec[q]
         /\ UpdateTicket(p) => rec'[p].done = rec[p].done /\ rec'[p].pc = "replace"
         /\ AddReplacement(p) => rec'[p].done = rec[p].done + 1 /\ rec'[p].pc \in {"cursor", "status"}
         /\ ReadCursor(p) => rec'[p].done = cursor /\ rec'[p].pc = "fetch"
         /\ Fetch(p) => rec'[p].done = rec[p].done /\ rec'[p].pc \in {"cursor", "status"}
         /\ UpdateStatus(p) => rec'[p].done \in {0, rec[p].done} /\ rec'[p].pc \in {"idle", "ticket"}
                                /\ (rec'[p].pc = "ticket" => rec'[p].done = rec[p].done)
         /\ WriteCursor(p) \/ ReconciliationLost(p) \/ Crash(p) =>
              rec'[p].done = 0 /\ rec'[p].pc = "idle"
<1>1. \A q \in Replicas : q # p => rec'[q] = rec[q]
  BY DEF Reconcile, ReadCursor, Fetch, UpdateStatus, UpdateTicket, AddReplacement, WriteCursor,
         ReconciliationLost, Crash, Stop, Proceed, TypeInv, TypeOK
<1>2. ASSUME NEW v, rec' = [rec EXCEPT ![p] = v] PROVE rec'[p] = v
  BY <1>2 DEF TypeInv, TypeOK
<1>3. Stop(p) => rec'[p].done = 0 /\ rec'[p].pc = "idle"
  BY <1>2, IdleTypes DEF Stop
<1>4. rec[p] \in Reconciliation /\ \A a, b : Following(a, b) \in {"cursor", "status"}
  BY DEF Following, TypeInv, TypeOK
<1>5. ASSUME NEW pc, Proceed(p, pc) PROVE rec'[p].done = rec[p].done /\ rec'[p].pc = pc
  <2>1. PICK v : v = [rec[p] EXCEPT !.pc = pc]
    OBVIOUS
  <2>2. v.done = rec[p].done /\ v.pc = pc
    BY <1>4, <2>1 DEF Reconciliation
  <2>3. rec' = [rec EXCEPT ![p] = v]
    BY <1>5, <2>1 DEF Proceed, TypeInv, TypeOK
  <2>. QED
    BY <1>2, <2>2, <2>3
<1>6. UpdateTicket(p) => rec'[p].done = rec[p].done /\ rec'[p].pc = "replace"
  BY <1>5 DEF UpdateTicket
<1>7. AddReplacement(p) => rec'[p].done = rec[p].done + 1 /\ rec'[p].pc \in {"cursor", "status"}
  <2>1. PICK v : v = [rec[p] EXCEPT !.done = rec[p].done + 1,
                                    !.pc = Following(rec[p].done + 1, rec[p].last)]
    OBVIOUS
  <2>2. v.done = rec[p].done + 1 /\ v.pc \in {"cursor", "status"}
    BY <1>4, <2>1 DEF Reconciliation
  <2>3. AddReplacement(p) => rec' = [rec EXCEPT ![p] = v]
    BY <2>1 DEF AddReplacement, TypeInv, TypeOK
  <2>. QED
    BY <1>2, <2>2, <2>3
<1>8. ReadCursor(p) => rec'[p].done = cursor /\ rec'[p].pc = "fetch"
  <2>1. PICK v : v = [pc |-> "fetch", done |-> cursor, last |-> cursor]
    OBVIOUS
  <2>2. v.done = cursor /\ v.pc = "fetch" /\ (ReadCursor(p) => rec' = [rec EXCEPT ![p] = v])
    BY <2>1 DEF ReadCursor
  <2>. QED
    BY <1>2, <2>2
<1>9. Fetch(p) => rec'[p].done = rec[p].done /\ rec'[p].pc \in {"cursor", "status"}
  <2>1. SUFFICES ASSUME NEW last, rec' = [rec EXCEPT ![p].last = last,
                                         ![p].pc = Following(rec[p].done, last)]
                 PROVE  rec'[p].done = rec[p].done /\ rec'[p].pc \in {"cursor", "status"}
    BY DEF Fetch
  <2>2. PICK v : v = [rec[p] EXCEPT !.last = last, !.pc = Following(rec[p].done, last)]
    OBVIOUS
  <2>3. v.done = rec[p].done /\ v.pc \in {"cursor", "status"}
    BY <1>4, <2>2 DEF Reconciliation
  <2>4. rec' = [rec EXCEPT ![p] = v]
    BY <2>1, <2>2 DEF TypeInv, TypeOK
  <2>. QED
    BY <1>2, <2>3, <2>4
<1>10. UpdateStatus(p) => rec'[p].done \in {0, rec[p].done} /\ rec'[p].pc \in {"idle", "ticket"}
                         /\ (rec'[p].pc = "ticket" => rec'[p].done = rec[p].done)
  <2>1. UpdateStatus(p) => Stop(p) \/ Proceed(p, "ticket")
    BY DEF UpdateStatus
  <2>. QED
    BY <1>3, <1>5, <2>1
<1>11. WriteCursor(p) \/ ReconciliationLost(p) \/ Crash(p) =>
         rec'[p].done = 0 /\ rec'[p].pc = "idle"
  BY <1>3 DEF WriteCursor, ReconciliationLost, Crash
<1>. QED
  BY <1>1, <1>6, <1>7, <1>8, <1>9, <1>10, <1>11

THEOREM AppliedTheorem == TypeInv /\ CdInv /\ AppliedOK /\ [Next]_vars => AppliedOK'
<1>. SUFFICES ASSUME TypeInv, CdInv, AppliedOK, [Next]_vars PROVE AppliedOK'
  OBVIOUS
<1>1. ASSUME UNCHANGED <<row, rec, cursor>>, happened \subseteq happened',
             \A i \in 1..Len(events) : events'[i] = events[i]
      PROVE  AppliedOK'
  BY <1>1, AppliedStep DEF RowKeeps
<1>2. ASSUME NEW t \in Tickets, CdSettles(t) \/ CdRejects(t) \/ CdGarbles(t) PROVE AppliedOK'
  <2>1. PICK kind \in Decisions \cup {"malformed"}, new \in Tickets \cup {None} :
          Append1(t, kind, new)
    BY <1>2 DEF CdSettles, CdRejects, CdGarbles, Decisions
  <2>2. \A i \in 1..Len(events) : events'[i] = events[i]
    BY <1>2, <2>1, EventsGrow DEF CdSettles, CdRejects, CdGarbles, TypeInv
  <2>3. UNCHANGED <<row, rec, cursor>> /\ happened \subseteq happened'
    BY <1>2 DEF CdSettles, CdRejects, CdGarbles
  <2>. QED
    BY <1>1, <2>2, <2>3
<1>3. ASSUME NEW t \in Tickets, PersistSold(t) PROVE AppliedOK'
  <2>1. "reissue" \in happened' /\ \A s \in Sold : row'[s] # "absent"
    BY <1>3, RefundAssumption
    DEF PersistSold, CdInv, LookupOK, AppliedOK, TypeInv, TypeOK
  <2>. QED
    BY <2>1 DEF AppliedOK
<1>4. ASSUME NEW r \in Requests,
             Handle(r) \/ RequestLost(r) \/ \E p \in Replicas, t \in Tickets : Begin(r, p, t)
      PROVE  AppliedOK'
  <2>1. UNCHANGED <<events, row, rec, cursor, happened>>
    BY <1>4 DEF Handle, Load, Quote, Submit, PersistRefund, RequestLost, Begin
  <2>. QED
    BY <1>1, <2>1
<1>5. ASSUME NEW p \in Replicas, Reconcile(p) \/ ReconciliationLost(p) \/ Crash(p)
      PROVE  AppliedOK'
  <2>1. StatementLost(p) /\ UNCHANGED events /\ happened \subseteq happened'
    BY <1>5, Statements
  <2>2. RowKeeps /\ (cursor' = cursor \/ cursor' = rec[p].done)
    BY <2>1, StatementTypes
  <2>3. \A q \in Replicas : q # p => rec'[q] = rec[q]
    BY <1>5, RecEffects
  <2>4. CASE UpdateTicket(p)
    <3>1. rec'[p].done = rec[p].done /\ rec[p].pc = "ticket"
      BY <2>4, RecEffects DEF UpdateTicket, Reconcile
    <3>2. "reissue" \notin happened /\ Current(p).kind = "settled"
            => row'[Current(p).ticket] = "returned"
      <4>1. SUFFICES ASSUME "reissue" \notin happened, Current(p).kind = "settled"
                     PROVE  row'[Current(p).ticket] = "returned"
        OBVIOUS
      <4>2. row[Current(p).ticket] # "absent" /\ Current(p).ticket \in Tickets
        BY <3>1, <4>1, TicketHasRow, CurrentType DEF CdInv, Event
      <4>. QED
        BY <2>4, <4>1, <4>2 DEF UpdateTicket, WithTicket, TypeInv, TypeOK
    <3>. QED
      BY <2>1, <2>2, <2>3, <3>1, <3>2, AppliedStep
  <2>5. CASE AddReplacement(p)
    <3>1. rec'[p].done = rec[p].done + 1 /\ rec'[p].pc # "replace" /\ rec[p].pc = "replace"
      BY <2>5, RecEffects DEF AddReplacement, Reconcile
    <3>2. Current(p) \in Event /\ rec[p].done < Len(events)
      BY <3>1, CurrentType, EventsAre DEF TypeInv
    <3>3. "reissue" \notin happened => AppliedNext(Current(p))
      <4>1. SUFFICES ASSUME "reissue" \notin happened, Current(p).kind = "settled"
                     PROVE  AppliedNext(Current(p))
        BY DEF AppliedNext
      <4>2. row[Current(p).ticket] = "returned"
        BY <3>1, <4>1 DEF AppliedOK
      <4>3. row'[Current(p).ticket] = "returned"
        BY <2>2, <3>2, <4>2 DEF RowKeeps, Event
      <4>4. Current(p).new # None => row'[Current(p).new] # "absent"
        BY <2>5, <3>2, <4>2 DEF AddReplacement, WithReplacement, Event, TypeInv, TypeOK
      <4>. QED
        BY <4>3, <4>4 DEF AppliedNext
    <3>. QED
      BY <2>1, <2>2, <2>3, <3>1, <3>2, <3>3, AppliedStep DEF Current
  <2>6. CASE ReadCursor(p) \/ Fetch(p) \/ UpdateStatus(p) \/ WriteCursor(p)
             \/ ReconciliationLost(p) \/ Crash(p)
    <3>1. rec'[p].done \in {0, rec[p].done, cursor} /\ rec'[p].pc # "replace"
      BY <2>6, RecEffects DEF Reconcile
    <3>. QED
      BY <2>1, <2>2, <2>3, <3>1, AppliedStep
  <2>. QED
    BY <1>5, <2>4, <2>5, <2>6 DEF Reconcile
<1>6. ASSUME LookupSold PROVE AppliedOK'
  BY <1>1, <1>6 DEF LookupSold
<1>7. ASSUME UNCHANGED vars PROVE AppliedOK'
  <2>1. UNCHANGED <<events, row, rec, cursor, happened>>
    BY <1>7
  <2>. QED
    BY <1>1, <2>1
<1>. QED
  BY <1>2, <1>3, <1>4, <1>5, <1>6, <1>7 DEF Next

-----------------------------------------------------------------------------
(* Reconciliations that do not overlap. *)

THEOREM OverlapStep == TypeInv /\ OverlapOK /\ [Next]_vars => OverlapOK'
<1>. SUFFICES ASSUME TypeInv, OverlapOK, [Next]_vars PROVE OverlapOK'
  OBVIOUS
<1>1. CASE UNCHANGED <<rec, cursor>> /\ happened \subseteq happened'
  BY <1>1 DEF OverlapOK
<1>2. ASSUME NEW p \in Replicas, Reconcile(p) \/ ReconciliationLost(p) \/ Crash(p)
      PROVE  OverlapOK'
  <2>1. \A q \in Replicas : q # p => rec'[q] = rec[q]
    BY <1>2, RecEffects
  <2>2. happened \subseteq happened'
    BY <1>2, Statements
  <2>3. cursor \in Nat /\ \A q \in Replicas : rec[q].done \in Nat
    BY EventsAre DEF TypeInv, TypeOK, Reconciliation
  <2>4. CASE ReadCursor(p)
    <3>1. /\ rec'[p].done = cursor /\ cursor' = cursor
          /\ "overlap" \notin happened' => \A q \in Replicas : rec[q].pc = "idle"
      BY <2>4, RecEffects DEF ReadCursor, Reconcile
    <3>. QED
      BY <2>1, <2>3, <3>1 DEF OverlapOK
  <2>5. CASE Fetch(p) \/ UpdateStatus(p) \/ UpdateTicket(p) \/ AddReplacement(p)
    <3>1. rec[p].pc # "idle" /\ cursor' = cursor
      BY <2>5 DEF Fetch, UpdateStatus, UpdateTicket, AddReplacement
    <3>2. rec'[p].pc # "idle" => rec'[p].done \in {rec[p].done, rec[p].done + 1}
      BY <2>5, RecEffects DEF Reconcile
    <3>. QED
      BY <2>1, <2>2, <2>3, <3>1, <3>2 DEF OverlapOK
  <2>6. CASE WriteCursor(p) \/ ReconciliationLost(p) \/ Crash(p)
    <3>1. rec'[p].pc = "idle"
      BY <2>6, RecEffects DEF Reconcile
    <3>2. cursor' = cursor \/ rec[p].pc = "cursor"
      BY <2>6, Statements, StatementTypes DEF Reconcile
    <3>. QED
      BY <2>1, <2>2, <3>1, <3>2 DEF OverlapOK
  <2>. QED
    BY <1>2, <2>4, <2>5, <2>6 DEF Reconcile
<1>3. ASSUME NEW t \in Tickets, CdSettles(t) \/ CdRejects(t) \/ CdGarbles(t) \/ PersistSold(t)
      PROVE  UNCHANGED <<rec, cursor>> /\ happened \subseteq happened'
  BY <1>3 DEF CdSettles, CdRejects, CdGarbles, PersistSold
<1>4. ASSUME NEW r \in Requests,
             Handle(r) \/ RequestLost(r) \/ \E p \in Replicas, t \in Tickets : Begin(r, p, t)
      PROVE  UNCHANGED <<rec, cursor>> /\ happened \subseteq happened'
  BY <1>4 DEF Handle, Load, Quote, Submit, PersistRefund, RequestLost, Begin
<1>5. LookupSold \/ UNCHANGED vars => UNCHANGED <<rec, cursor>> /\ happened \subseteq happened'
  BY DEF LookupSold
<1>. QED
  BY <1>1, <1>2, <1>3, <1>4, <1>5 DEF Next

-----------------------------------------------------------------------------
(* The rows of requests and refunds, and the decisions they show. *)

\* Rows stay, requests and refunds keep their ticket or name one that has a row.
LEMMA RowsMove ==
  ASSUME TypeInv, RowsOK,
         \A t \in Tickets : row[t] # "absent" => row'[t] # "absent",
         \A r \in Requests : req'[r].pc # "idle" =>
           \/ req[r].pc # "idle" /\ req'[r].ticket = req[r].ticket
           \/ row'[req'[r].ticket] # "absent",
         \A i \in Refunds : refund'[i] # None =>
           \/ refund[i] # None /\ refund'[i].ticket = refund[i].ticket
           \/ row'[refund'[i].ticket] # "absent"
  PROVE  RowsOK'
<1>1. \A r \in Requests : req[r].pc # "idle" => req[r].ticket \in Tickets
  BY DEF TypeInv, ProgressOK
<1>2. \A i \in Refunds : refund[i] # None => refund[i].ticket \in Tickets
  BY DEF TypeInv, TypeOK, RefundRow
<1>. QED
  BY <1>1, <1>2 DEF RowsOK

\* What a request's step makes of its slot.
LEMMA RequestSlot ==
  ASSUME TypeInv, NEW r \in Requests, NEW pc, Goto(r, pc) \/ Finish(r), req[r].pc # "idle"
  PROVE  \A q \in Requests : req'[q].pc # "idle" =>
           req[q].pc # "idle" /\ req'[q].ticket = req[q].ticket
<1>1. PICK v : v = [req[r] EXCEPT !.pc = pc]
  OBVIOUS
<1>2. v.ticket = req[r].ticket
  BY <1>1 DEF TypeInv, TypeOK, Request
<1>3. CASE req' = [req EXCEPT ![r] = v]
  BY <1>2, <1>3 DEF TypeInv, TypeOK
<1>4. CASE Finish(r)
  BY <1>4, IdleTypes DEF Finish, TypeInv, TypeOK
<1>. QED
  BY <1>1, <1>3, <1>4 DEF Goto

THEOREM RowsStep == TypeInv /\ RowsOK /\ [Next]_vars => RowsOK'
<1>. SUFFICES ASSUME TypeInv, RowsOK, [Next]_vars PROVE RowsOK'
  OBVIOUS
<1>1. CASE UNCHANGED <<row, req, refund>>
  BY <1>1, RowsMove
<1>2. ASSUME NEW t \in Tickets, PersistSold(t) PROVE RowsOK'
  <2>1. \A s \in Tickets : row[s] # "absent" => row'[s] # "absent"
    BY <1>2 DEF PersistSold, TypeInv, TypeOK
  <2>2. UNCHANGED <<req, refund>>
    BY <1>2 DEF PersistSold
  <2>. QED
    BY <2>1, <2>2, RowsMove
<1>3. ASSUME NEW r \in Requests, NEW p \in Replicas, NEW t \in Tickets, Begin(r, p, t)
      PROVE  RowsOK'
  <2>1. PICK v : v = [pc |-> "load", at |-> p, ticket |-> t]
    OBVIOUS
  <2>2. v.ticket = t /\ req' = [req EXCEPT ![r] = v] /\ row[t] # "absent"
        /\ UNCHANGED <<row, refund>>
    BY <1>3, <2>1 DEF Begin
  <2>3. \A q \in Requests : req'[q] = IF q = r THEN v ELSE req[q]
    BY <2>2 DEF TypeInv, TypeOK
  <2>. QED
    BY <2>2, <2>3, RowsMove
<1>4. ASSUME NEW r \in Requests, Handle(r) \/ RequestLost(r) PROVE RowsOK'
  <2>1. /\ req[r].pc # "idle" /\ UNCHANGED row
        /\ Finish(r) \/ Goto(r, "quote") \/ Goto(r, "submit") \/ Goto(r, "persist")
    BY <1>4 DEF Handle, Load, Quote, Submit, PersistRefund, RequestLost
  <2>2. \A q \in Requests : req'[q].pc # "idle" =>
          req[q].pc # "idle" /\ req'[q].ticket = req[q].ticket
    BY <2>1, RequestSlot
  <2>3. UNCHANGED refund \/ Insert(req[r].ticket)
    BY <1>4 DEF Handle, Load, Quote, Submit, PersistRefund, RequestLost
  <2>4. row[req[r].ticket] # "absent"
    BY <2>1 DEF RowsOK
  <2>5. \A i \in Refunds : refund'[i] = refund[i]
          \/ refund'[i] = [ticket |-> req[r].ticket, status |-> "requested"]
    BY <2>3 DEF Insert, TypeInv, TypeOK
  <2>. QED
    BY <2>1, <2>2, <2>4, <2>5, RowsMove
<1>5. ASSUME NEW p \in Replicas, Reconcile(p) \/ ReconciliationLost(p) \/ Crash(p) PROVE RowsOK'
  <2>1. StatementLost(p)
    BY <1>5, Statements
  <2>2. \A t \in Tickets : row[t] # "absent" => row'[t] # "absent"
    BY <2>1, StatementTypes DEF RowKeeps
  <2>3. \A i \in Refunds : refund'[i] # None =>
          refund[i] # None /\ refund'[i].ticket = refund[i].ticket
    <3>1. refund' = refund \/ (rec[p].pc = "status" /\ Current(p).kind # "malformed"
                               /\ refund' = WithStatus(Current(p)))
      BY <2>1 DEF StatementLost
    <3>2. rec[p].pc = "status" /\ Current(p).kind # "malformed" =>
            Current(p) \in Event /\ Current(p).kind \in Decisions
      BY CurrentType DEF Event
    <3>3. \A i \in Refunds :
            \/ refund'[i] = refund[i]
            \/ refund[i] # None /\ refund'[i] = [refund[i] EXCEPT !.status = Current(p).kind]
      BY <3>1, <3>2, StatusRefunds DEF TypeInv
    <3>4. ASSUME NEW i \in Refunds, refund[i] # None,
                 refund'[i] = [refund[i] EXCEPT !.status = Current(p).kind]
          PROVE  refund'[i].ticket = refund[i].ticket
      BY <3>4 DEF TypeInv, TypeOK, RefundRow
    <3>. QED
      BY <3>3, <3>4
  <2>4. \A r \in Requests : req'[r] = req[r] \/ req'[r] = NoRequest
    BY <1>5 DEF Reconcile, ReadCursor, Fetch, UpdateStatus, UpdateTicket, AddReplacement,
                WriteCursor, ReconciliationLost, Crash
  <2>. QED
    BY <2>2, <2>3, <2>4, IdleTypes, RowsMove
<1>6. ASSUME NEW t \in Tickets, CdSettles(t) \/ CdRejects(t) \/ CdGarbles(t)
      PROVE  UNCHANGED <<row, req, refund>>
  BY <1>6 DEF CdSettles, CdRejects, CdGarbles
<1>7. LookupSold \/ UNCHANGED vars => UNCHANGED <<row, req, refund>>
  BY DEF LookupSold
<1>. QED
  BY <1>1, <1>2, <1>3, <1>4, <1>5, <1>6, <1>7 DEF Next

\* What has been passed has happened.
LEMMA PassedWithin ==
  ASSUME TypeInv, NEW j \in Nat, Passed(j)
  PROVE  j <= Len(events)
<1>1. Len(events) \in Nat /\ cursor \in 0..Len(events)
  BY EventsAre DEF TypeInv, TypeOK
<1>2. ASSUME NEW p \in Replicas PROVE Reached(p) \in Nat /\ Reached(p) <= Len(events)
  <2>1. /\ rec[p].done \in Nat /\ rec[p].last \in Nat
        /\ rec[p].done <= rec[p].last /\ rec[p].last <= Len(events)
        /\ rec[p].pc \in {"ticket", "replace"} => rec[p].done < rec[p].last
    BY RefundAssumption DEF TypeInv, TypeOK, ProgressOK, Reconciliation
  <2>. QED
    BY <1>1, <2>1 DEF Reached
<1>. QED
  BY <1>1, <1>2 DEF Passed

\* Steps that pass no event and show no new decision.
LEMMA DecisionsKept ==
  ASSUME TypeInv, DecisionsOK, happened \subseteq happened',
         Len(events') \in Nat, Len(events) <= Len(events'),
         \A i \in 1..Len(events) : events'[i] = events[i],
         "overlap" \notin happened' => \A j \in Nat : Passed(j)' => Passed(j),
         \A i \in Refunds :
           refund'[i] = refund[i] \/ refund'[i] = None \/ refund'[i].status = "requested"
  PROVE  DecisionsOK'
<1>1. SUFFICES ASSUME "overlap" \notin happened', NEW i \in Refunds, refund'[i] # None,
                      refund'[i].status # "requested", NEW t, t = refund[i].ticket
               PROVE  \E m \in 1..Len(events') :
                        /\ IsDecision(m, t)' /\ refund'[i].status = events'[m].kind
                        /\ \A j \in 1..Len(events') : IsDecision(j, t)' /\ Passed(j)' => j <= m
  <2>1. ASSUME NEW i \in Refunds, refund'[i] # None, refund'[i].status # "requested"
        PROVE  refund'[i] = refund[i]
    BY <2>1
  <2>. QED
    BY <2>1 DEF DecisionsOK
<1>2. PICK m \in 1..Len(events) :
        /\ IsDecision(m, t) /\ refund[i].status = events[m].kind
        /\ \A j \in 1..Len(events) : IsDecision(j, t) /\ Passed(j) => j <= m
  BY <1>1 DEF DecisionsOK
<1>3. ASSUME NEW j \in 1..Len(events'), IsDecision(j, t)', Passed(j)'
      PROVE  j <= m
  <2>1. Passed(j)
    BY <1>1, <1>3
  <2>2. j \in 1..Len(events)
    BY <2>1, PassedWithin, EventsAre DEF TypeInv
  <2>3. IsDecision(j, t)
    BY <1>3, <2>2 DEF IsDecision
  <2>. QED
    BY <1>2, <2>1, <2>2, <2>3
<1>4. m \in 1..Len(events') /\ IsDecision(m, t)' /\ refund'[i].status = events'[m].kind
  BY <1>1, <1>2, EventsAre DEF IsDecision, TypeInv
<1>. QED
  BY <1>3, <1>4

\* The decision of the event at hand is written on the refunds of its ticket. It is the
\* last one that was passed.
LEMMA DecisionWritten ==
  ASSUME TypeInv, RowsOK, OverlapOK, DecisionsOK, NEW p \in Replicas,
         rec[p].pc = "status", Current(p).kind \in Decisions,
         refund' = WithStatus(Current(p)), UNCHANGED <<events, cursor>>,
         happened \subseteq happened', \A q \in Replicas : q # p => rec'[q] = rec[q],
         rec'[p].pc # "idle" => Reached(p)' = rec[p].done + 1
  PROVE  DecisionsOK'
<1>. DEFINE now == rec[p].done + 1
<1>1. /\ Current(p) \in Event /\ now \in 1..Len(events) /\ rec[p].done \in Nat
      /\ Current(p) = events[now] /\ Len(events) \in Nat
  BY CurrentType, EventsAre DEF TypeInv, Current
<1>. HIDE DEF now
<1>. SUFFICES ASSUME "overlap" \notin happened' PROVE DecisionsOK'
  BY DEF DecisionsOK
<1>2. /\ cursor < now
      /\ \A q \in Replicas : rec[q].pc # "idle" => q = p
  BY <1>1 DEF OverlapOK, TypeInv, TypeOK, now
<1>3. ASSUME NEW j \in 1..Len(events), Passed(j)' PROVE j <= now /\ (j # now => Passed(j))
  <2>1. j <= now
    BY <1>1, <1>2, <1>3 DEF Passed, TypeInv, TypeOK, now
  <2>2. j # now => j <= rec[p].done
    BY <1>1, <2>1 DEF now
  <2>3. Reached(p) = rec[p].done
    BY <1>1 DEF Reached
  <2>. QED
    BY <2>1, <2>2, <2>3 DEF Passed
<1>4. ASSUME NEW i \in Refunds, refund'[i] # None, refund'[i].status # "requested",
             NEW t, t = refund'[i].ticket
      PROVE  \E m \in 1..Len(events) :
               /\ IsDecision(m, t) /\ refund'[i].status = events[m].kind
               /\ \A j \in 1..Len(events) : IsDecision(j, t) /\ Passed(j)' => j <= m
  <2>1. CASE refund[i] # None /\ refund[i].ticket = Current(p).ticket
    <3>1. row[Current(p).ticket] # "absent" /\ refund[i] \in RefundRow
      BY <2>1 DEF RowsOK, TypeInv, TypeOK
    <3>2. refund'[i] = [refund[i] EXCEPT !.status = Current(p).kind]
      BY <2>1, <3>1 DEF WithStatus
    <3>3. refund'[i].ticket = Current(p).ticket /\ refund'[i].status = Current(p).kind
      BY <2>1, <3>1, <3>2 DEF RefundRow
    <3>4. IsDecision(now, t) /\ refund'[i].status = events[now].kind
      BY <1>1, <1>4, <3>3 DEF IsDecision
    <3>. QED
      BY <1>1, <1>3, <3>4
  <2>2. CASE ~(refund[i] # None /\ refund[i].ticket = Current(p).ticket)
    <3>1. refund'[i] = refund[i]
      BY <2>2 DEF WithStatus
    <3>2. refund[i] # None /\ t = refund[i].ticket /\ ~IsDecision(now, t)
      BY <1>1, <1>4, <2>2, <3>1 DEF IsDecision
    <3>3. PICK m \in 1..Len(events) :
            /\ IsDecision(m, t) /\ refund[i].status = events[m].kind
            /\ \A j \in 1..Len(events) : IsDecision(j, t) /\ Passed(j) => j <= m
      BY <1>4, <3>1, <3>2 DEF DecisionsOK
    <3>4. \A j \in 1..Len(events) : IsDecision(j, t) /\ Passed(j)' => j <= m
      BY <1>3, <3>2, <3>3
    <3>. QED
      BY <3>1, <3>3, <3>4
  <2>. QED
    BY <2>1, <2>2
<1>. QED
  BY <1>4 DEF DecisionsOK, IsDecision

\* How far a reconciliation gets in a step that writes no decision.
LEMMA ReachedMoves ==
  ASSUME TypeInv, NEW p \in Replicas,
         ReadCursor(p) \/ Fetch(p) \/ UpdateTicket(p) \/ AddReplacement(p)
  PROVE  /\ cursor' = cursor /\ refund' = refund
         /\ Reached(p)' = IF ReadCursor(p) THEN cursor ELSE Reached(p)
         /\ ~ReadCursor(p) => rec[p].pc # "idle"
<1>1. cursor' = cursor /\ refund' = refund
  BY DEF ReadCursor, Fetch, UpdateTicket, AddReplacement
<1>2. rec[p].done \in Nat /\ cursor \in Nat
  BY EventsAre DEF TypeInv, TypeOK, Reconciliation
<1>3. CASE ReadCursor(p)
  <2>1. rec'[p].done = cursor /\ rec'[p].pc = "fetch"
    BY <1>3, RecEffects DEF Reconcile
  <2>. QED
    BY <1>1, <1>2, <1>3, <2>1 DEF Reached
<1>4. CASE Fetch(p)
  <2>1. rec'[p].done = rec[p].done /\ rec'[p].pc \in {"cursor", "status"}
    BY <1>4, RecEffects DEF Reconcile
  <2>. QED
    BY <1>1, <1>2, <1>4, <2>1 DEF Reached, Fetch, ReadCursor
<1>5. CASE UpdateTicket(p)
  <2>1. rec'[p].done = rec[p].done /\ rec'[p].pc = "replace"
    BY <1>5, RecEffects DEF Reconcile
  <2>. QED
    BY <1>1, <1>2, <1>5, <2>1 DEF Reached, UpdateTicket, ReadCursor
<1>6. CASE AddReplacement(p)
  <2>1. rec'[p].done = rec[p].done + 1 /\ rec'[p].pc \in {"cursor", "status"}
    BY <1>6, RecEffects DEF Reconcile
  <2>. QED
    BY <1>1, <1>2, <1>6, <2>1 DEF Reached, AddReplacement, ReadCursor
<1>. QED
  BY <1>3, <1>4, <1>5, <1>6

THEOREM DecisionsStep ==
  TypeInv /\ RowsOK /\ OverlapOK /\ DecisionsOK /\ [Next]_vars => DecisionsOK'
<1>. SUFFICES ASSUME TypeInv, RowsOK, OverlapOK, DecisionsOK, [Next]_vars PROVE DecisionsOK'
  OBVIOUS
<1>0. Len(events) \in Nat
  BY EventsAre DEF TypeInv
<1>1. ASSUME UNCHANGED <<cursor, rec>>, happened \subseteq happened',
             Len(events') \in Nat, Len(events) <= Len(events'),
             \A i \in 1..Len(events) : events'[i] = events[i],
             \A i \in Refunds : refund'[i] = refund[i] \/ refund'[i].status = "requested"
      PROVE  DecisionsOK'
  <2>1. \A j \in Nat : Passed(j)' => Passed(j)
    BY <1>1 DEF Passed, Reached
  <2>. QED
    BY <1>1, <2>1, DecisionsKept
<1>2. ASSUME NEW t \in Tickets, CdSettles(t) \/ CdRejects(t) \/ CdGarbles(t) PROVE DecisionsOK'
  <2>1. PICK kind \in Decisions \cup {"malformed"}, new \in Tickets \cup {None} :
          Append1(t, kind, new)
    BY <1>2 DEF CdSettles, CdRejects, CdGarbles, Decisions
  <2>2. /\ \A i \in 1..Len(events) : events'[i] = events[i]
        /\ Len(events') = Len(events) + 1
    BY <1>2, <2>1, EventsGrow DEF CdSettles, CdRejects, CdGarbles, TypeInv
  <2>3. UNCHANGED <<refund, rec, cursor>> /\ happened \subseteq happened'
    BY <1>2 DEF CdSettles, CdRejects, CdGarbles
  <2>. QED
    BY <1>0, <1>1, <2>2, <2>3
<1>3. ASSUME NEW r \in Requests,
             Handle(r) \/ RequestLost(r) \/ \E p \in Replicas, t \in Tickets : Begin(r, p, t)
      PROVE  DecisionsOK'
  <2>1. /\ UNCHANGED <<events, rec, cursor, happened>>
        /\ UNCHANGED refund \/ Insert(req[r].ticket)
    BY <1>3 DEF Handle, Load, Quote, Submit, PersistRefund, RequestLost, Begin
  <2>2. \A i \in Refunds : refund'[i] = refund[i] \/ refund'[i].status = "requested"
    BY <2>1 DEF Insert, TypeInv, TypeOK
  <2>. QED
    BY <1>0, <1>1, <2>1, <2>2
<1>4. ASSUME NEW t \in Tickets, PersistSold(t) PROVE DecisionsOK'
  <2>1. UNCHANGED <<events, rec, cursor, refund, happened>>
    BY <1>4 DEF PersistSold
  <2>. QED
    BY <1>0, <1>1, <2>1
<1>5. ASSUME NEW p \in Replicas, Reconcile(p) \/ ReconciliationLost(p) \/ Crash(p)
      PROVE  DecisionsOK'
  <2>1. /\ StatementLost(p) /\ UNCHANGED events /\ happened \subseteq happened'
        /\ \A q \in Replicas : q # p => rec'[q] = rec[q]
    BY <1>5, Statements, RecEffects
  <2>2. ASSUME refund' = refund,
               "overlap" \notin happened' => \A j \in Nat : Passed(j)' => Passed(j)
        PROVE  DecisionsOK'
    BY <1>0, <2>1, <2>2, DecisionsKept
  <2>3. CASE ReadCursor(p) \/ Fetch(p) \/ UpdateTicket(p) \/ AddReplacement(p)
    <3>1. /\ cursor' = cursor /\ refund' = refund
          /\ Reached(p)' = IF ReadCursor(p) THEN cursor ELSE Reached(p)
          /\ ~ReadCursor(p) => rec[p].pc # "idle"
      BY <2>3, ReachedMoves
    <3>2. \A q \in Replicas : q # p /\ rec'[q].pc # "idle" =>
            rec[q].pc # "idle" /\ Reached(q)' = Reached(q)
      BY <2>1 DEF Reached
    <3>3. \A j \in Nat : Passed(j)' => Passed(j)
      BY <3>1, <3>2 DEF Passed
    <3>. QED
      BY <2>2, <3>1, <3>3
  <2>4. ASSUME rec'[p].pc = "idle", refund' = refund PROVE DecisionsOK'
    <3>1. cursor' = cursor \/ (rec[p].pc = "cursor" /\ cursor' = rec[p].done)
      BY <2>1, StatementTypes
    <3>2. rec[p].pc = "cursor" => Reached(p) = rec[p].done
      BY DEF Reached, TypeInv, TypeOK, Reconciliation
    <3>3. \A q \in Replicas : rec'[q].pc # "idle" =>
            rec[q].pc # "idle" /\ Reached(q)' = Reached(q)
      BY <2>1, <2>4 DEF Reached
    <3>4. \A j \in Nat : Passed(j)' => Passed(j)
      BY <3>1, <3>2, <3>3 DEF Passed
    <3>. QED
      BY <2>2, <2>4, <3>4
  <2>5. ASSUME rec[p].pc = "status", Current(p).kind # "malformed",
               refund' = WithStatus(Current(p)), UNCHANGED cursor,
               rec'[p].pc # "idle" => rec'[p].pc = "ticket" /\ rec'[p].done = rec[p].done
        PROVE  DecisionsOK'
    <3>1. Current(p).kind \in Decisions
      BY <2>5, CurrentType DEF Event
    <3>2. rec'[p].pc # "idle" => Reached(p)' = rec[p].done + 1
      BY <2>5 DEF Reached
    <3>. QED
      BY <2>1, <2>5, <3>1, <3>2, DecisionWritten
  <2>6. CASE UpdateStatus(p)
    <3>1. rec'[p].pc = "idle" \/ (rec'[p].pc = "ticket" /\ rec'[p].done = rec[p].done)
      BY <2>6, RecEffects DEF Reconcile
    <3>2. CASE Current(p).kind = "malformed"
      <4>1. Stop(p) /\ refund' = refund
        BY <2>6, <3>2 DEF UpdateStatus
      <4>2. rec'[p].pc = "idle"
        BY <4>1, RecUpdate, IdleTypes DEF Stop, TypeInv
      <4>. QED
        BY <2>4, <4>1, <4>2
    <3>3. CASE Current(p).kind # "malformed"
      <4>1. rec[p].pc = "status" /\ refund' = WithStatus(Current(p)) /\ UNCHANGED cursor
        BY <2>6, <3>3 DEF UpdateStatus
      <4>. QED
        BY <2>5, <3>1, <3>3, <4>1
    <3>. QED
      BY <3>2, <3>3
  <2>7. CASE WriteCursor(p) \/ ReconciliationLost(p) \/ Crash(p)
    <3>1. rec'[p].pc = "idle"
      BY <1>5, <2>7, RecEffects
    <3>2. CASE refund' = refund
      BY <2>4, <3>1, <3>2
    <3>3. CASE /\ rec[p].pc = "status" /\ Current(p).kind # "malformed"
               /\ refund' = WithStatus(Current(p)) /\ UNCHANGED <<row, cursor>>
      BY <2>5, <3>1, <3>3
    <3>. QED
      BY <2>1, <3>2, <3>3 DEF StatementLost
  <2>. QED
    BY <1>5, <2>3, <2>6, <2>7 DEF Reconcile
<1>6. CASE UNCHANGED vars
  <2>1. UNCHANGED <<events, rec, cursor, refund, happened>>
    BY <1>6
  <2>. QED
    BY <1>0, <1>1, <2>1
<1>7. LookupSold => DecisionsOK'
  <2>1. LookupSold => UNCHANGED <<events, rec, cursor, refund>> /\ happened \subseteq happened'
    BY DEF LookupSold
  <2>. QED
    BY <1>0, <1>1, <2>1
<1>. QED
  BY <1>2, <1>3, <1>4, <1>5, <1>6, <1>7 DEF Next

-----------------------------------------------------------------------------
(* The theorems of the specification. *)

LEMMA InitIInv == Init => IInv
<1>. SUFFICES ASSUME Init PROVE IInv
  OBVIOUS
<1>. USE RefundAssumption
<1>1. /\ events = <<>> /\ Len(events) = 0 /\ events \in Seq(Event) /\ cursor = 0
      /\ DOMAIN lookup = {} /\ lookup \in [DOMAIN lookup -> BOOLEAN]
  BY DEF Init, Nothing
<1>2. \A p \in Replicas : rec[p].pc = "idle" /\ rec[p].done = 0 /\ rec[p].last = 0
  BY IdleTypes DEF Init
<1>3. TypeOK
  <2>1. req \in [Requests -> Request] /\ rec \in [Replicas -> Reconciliation]
    BY IdleTypes DEF Init
  <2>2. cd \in [Tickets -> CdStates] /\ row \in [Tickets -> RowStates]
        /\ refund \in [Refunds -> RefundRow \cup {None}] /\ memory \in [Replicas -> SUBSET Sold]
    BY DEF Init, CdStates, RowStates
  <2>3. faults \in 0..MaxFaults /\ happened \subseteq Exceptions
    BY DEF Init
  <2>. QED
    BY <1>1, <1>2, <2>1, <2>2, <2>3 DEF TypeOK
<1>4. ProgressOK /\ OverlapOK
  BY <1>2, IdleTypes DEF Init, ProgressOK, OverlapOK
<1>5. \A t \in Tickets : row[t] # "returned" /\ (cd[t] # "none" => t \in Sold)
      /\ (t \in Sold => row[t] # "absent")
  BY DEF Init
<1>6. \A i \in Refunds : refund[i] = None
  BY DEF Init
<1>7. EventsOK /\ LookupOK /\ SettledAtCd
  BY <1>1, <1>5, <1>6 DEF EventsOK, KnownBefore, LookupOK, SettledAtCd
<1>8. AppliedOK
  BY <1>1, <1>2, <1>5 DEF AppliedOK, Covered
<1>9. RowsOK /\ DecisionsOK
  <2>1. \A r \in Requests : req[r].pc = "idle"
    BY IdleTypes DEF Init
  <2>. QED
    BY <1>6, <2>1 DEF RowsOK, DecisionsOK
<1>. QED
  BY <1>3, <1>4, <1>7, <1>8, <1>9 DEF IInv

LEMMA IInvParts ==
  IInv <=> TypeInv /\ CdInv /\ AppliedOK /\ OverlapOK /\ RowsOK /\ DecisionsOK
  BY DEF IInv, TypeInv, CdInv

\* Every reachable state satisfies the inductive invariant: CD's events are about tickets
\* it knew, every reconciliation has applied what it says, the rows say no more than CD,
\* and a decided refund shows the last decision that was passed.
THEOREM Inductive == Spec => []IInv
<1>1. IInv /\ [Next]_vars => IInv'
  <2>1. SUFFICES ASSUME IInv, [Next]_vars PROVE IInv'
    OBVIOUS
  <2>2. TypeInv' /\ CdInv' /\ AppliedOK' /\ OverlapOK' /\ RowsOK' /\ DecisionsOK'
    BY <2>1, IInvParts, TypeStep, CdStep, AppliedTheorem, OverlapStep, RowsStep, DecisionsStep
  <2>. QED
    BY <2>2 DEF IInv, TypeInv, CdInv
<1>. QED
  BY InitIInv, <1>1, PTL DEF Spec

\* The tickets, refunds, cursor, requests and reconciliations keep their types.
THEOREM TypeCorrect == Spec => []TypeOK
<1>1. IInv => TypeOK
  BY DEF IInv
<1>. QED
  BY Inductive, <1>1, PTL

\* For any number of processes that reconcile with one cursor, and whatever stops them
\* between two statements: behind the cursor every ticket CD has taken back is returned
\* and its replacement is there, unless a complete was repeated.
THEOREM NothingSkipped == Spec => []CursorCovers
<1>1. IInv => CursorCovers
  BY DEF IInv, AppliedOK, CursorCovers
<1>. QED
  BY Inductive, <1>1, PTL

\* The database calls a ticket returned or a refund settled only when CD has taken the
\* ticket back, whatever order requests, reconciliations and faults come in.
THEOREM NoMoreThanCd == Spec => []SettledAtCd
<1>1. IInv => SettledAtCd
  BY DEF IInv
<1>. QED
  BY Inductive, <1>1, PTL

\* Where reconciliations do not overlap, and whatever stops them and makes them apply
\* events again: when the cursor has reached the last event, a decided refund shows CD's
\* last word on its ticket.
THEOREM LastWordStands == Spec => []LastDecisionStands
<1>1. ASSUME IInv PROVE LastDecisionStands
  <2>1. SUFFICES ASSUME "overlap" \notin happened, cursor = Len(events), NEW i \in Refunds,
                        refund[i] # None, refund[i].status # "requested"
                 PROVE  refund[i].status = LastDecision(refund[i].ticket)
    BY DEF LastDecisionStands
  <2>. DEFINE t == refund[i].ticket
              own == {j \in 1..Len(events) : events[j].ticket = t /\ events[j].kind \in Decisions}
              Last(k) == \E j \in own : events[j].kind = k /\ \A l \in own : l <= j
  <2>2. PICK m \in 1..Len(events) :
          /\ IsDecision(m, t) /\ refund[i].status = events[m].kind
          /\ \A j \in 1..Len(events) : IsDecision(j, t) /\ Passed(j) => j <= m
    BY <1>1, <2>1 DEF IInv, DecisionsOK
  <2>3. \A j \in 1..Len(events) : Passed(j)
    BY <2>1 DEF Passed
  <2>4. m \in own /\ \A j \in own : j <= m
    BY <2>2, <2>3 DEF IsDecision
  <2>5. events[m].kind \in Decisions /\ Last(events[m].kind)
    BY <2>4
  <2>6. \A k : Last(k) => k = events[m].kind
    <3>1. Len(events) \in Nat
      BY <1>1, EventsAre DEF IInv
    <3>. QED
      BY <2>4, <3>1
  <2>7. (CHOOSE k \in Decisions : Last(k)) = events[m].kind
    <3>. HIDE DEF Last
    <3>. QED
      BY <2>5, <2>6
  <2>. QED
    BY <2>2, <2>7 DEF LastDecision
<1>. QED
  BY Inductive, <1>1, PTL

\* Applying events again, by any number of processes, never takes back that a ticket is
\* returned; only a repeated complete can.
THEOREM ReturnsStay == Spec => ReturnedStays
<1>1. IInv /\ [Next]_vars =>
        [\A t \in Tickets :
           row[t] = "returned" /\ "reissue" \notin happened => row'[t] = "returned"]_vars
  <2>1. SUFFICES ASSUME IInv, Next, NEW t \in Tickets, row[t] = "returned",
                        "reissue" \notin happened
                 PROVE  row'[t] = "returned"
    OBVIOUS
  <2>2. ASSUME NEW p \in Replicas, Reconcile(p) \/ ReconciliationLost(p) \/ Crash(p)
        PROVE  row'[t] = "returned"
    BY <2>1, <2>2, IInvParts, Statements, StatementTypes DEF RowKeeps
  <2>3. ASSUME NEW s \in Tickets, CdSettles(s) \/ CdRejects(s) \/ CdGarbles(s)
        PROVE  row' = row
    BY <2>3 DEF CdSettles, CdRejects, CdGarbles
  <2>4. ASSUME NEW s \in Tickets, PersistSold(s) PROVE FALSE
    BY <2>1, <2>4 DEF PersistSold, IInv, LookupOK
  <2>5. ASSUME NEW r \in Requests,
               Handle(r) \/ RequestLost(r) \/ \E p \in Replicas, s \in Tickets : Begin(r, p, s)
        PROVE  row' = row
    BY <2>5 DEF Handle, Load, Quote, Submit, PersistRefund, RequestLost, Begin
  <2>6. LookupSold => row' = row
    BY DEF LookupSold
  <2>. QED
    BY <2>1, <2>2, <2>3, <2>4, <2>5, <2>6 DEF Next
<1>. QED
  BY Inductive, <1>1, PTL DEF Spec, ReturnedStays

\* Where reconciliations do not overlap, the cursor never goes back.
THEOREM CursorGoesForward == Spec => CursorForward
<1>1. IInv /\ [Next]_vars => ["overlap" \notin happened => cursor' >= cursor]_vars
  <2>1. SUFFICES ASSUME IInv, Next, "overlap" \notin happened PROVE cursor' >= cursor
    OBVIOUS
  <2>2. cursor \in Nat
    BY <2>1, EventsAre DEF IInv, TypeOK
  <2>3. ASSUME NEW p \in Replicas, Reconcile(p) \/ ReconciliationLost(p) \/ Crash(p)
        PROVE  cursor' >= cursor
    <3>1. cursor' = cursor \/ (rec[p].pc = "cursor" /\ cursor' = rec[p].done)
      BY <2>1, <2>3, IInvParts, Statements, StatementTypes
    <3>2. rec[p].done \in Nat
      BY <2>1 DEF IInv, TypeOK, Reconciliation
    <3>. QED
      BY <2>1, <2>2, <3>1, <3>2 DEF IInv, OverlapOK
  <2>4. ASSUME NEW s \in Tickets,
               CdSettles(s) \/ CdRejects(s) \/ CdGarbles(s) \/ PersistSold(s)
        PROVE  cursor' = cursor
    BY <2>4 DEF CdSettles, CdRejects, CdGarbles, PersistSold
  <2>5. ASSUME NEW r \in Requests,
               Handle(r) \/ RequestLost(r) \/ \E p \in Replicas, s \in Tickets : Begin(r, p, s)
        PROVE  cursor' = cursor
    BY <2>5 DEF Handle, Load, Quote, Submit, PersistRefund, RequestLost, Begin
  <2>6. LookupSold => cursor' = cursor
    BY DEF LookupSold
  <2>. QED
    BY <2>1, <2>2, <2>3, <2>4, <2>5, <2>6 DEF Next
<1>. QED
  BY Inductive, <1>1, PTL DEF Spec, CursorForward

=============================================================================

-------------------------- MODULE TicketOrderProofs --------------------------
(***************************************************************************)
(* Proofs about TicketOrder, for every number of requests, amounts,        *)
(* sessions, tickets and faults.                                           *)
(***************************************************************************)
EXTENDS TicketOrder, TLAPS

TypeInv == TypeOK /\ HandlersOK

-----------------------------------------------------------------------------
(* What the building blocks of the actions do to the handlers.              *)

\* A slot whose new handler is well-formed leaves all handlers well-formed.
LEMMA SlotUpdate ==
  ASSUME TypeInv, NEW r \in Requests, NEW h \in Handler,
         req' = [req EXCEPT ![r] = h],
         h.pc # "idle" => h.at \in Replicas /\ h.kind \in Kinds,
         h.pc \in Loaded => h.copy \in Order
  PROVE  req' \in [Requests -> Handler] /\ HandlersOK'
<1>. USE DEF TypeInv, TypeOK
<1>1. req' \in [Requests -> Handler]
  OBVIOUS
<1>2. ASSUME NEW q \in Requests
      PROVE  /\ req'[q].pc # "idle" => req'[q].at \in Replicas /\ req'[q].kind \in Kinds
             /\ req'[q].pc \in Loaded => req'[q].copy \in Order
  BY <1>2 DEF HandlersOK
<1>. QED
  BY <1>1, <1>2 DEF HandlersOK

LEMMA FinishType ==
  ASSUME TypeInv, NEW r \in Requests, Finish(r)
  PROVE  req' \in [Requests -> Handler] /\ HandlersOK'
<1>1. Idle \in Handler /\ Idle.pc = "idle"
  BY DEF Idle, Handler, Points
<1>. QED
  BY <1>1, SlotUpdate DEF Finish, Loaded

\* Goto moves a handler on; it needs an order to move to a point after "load".
LEMMA GotoType ==
  ASSUME TypeInv, NEW r \in Requests, NEW pc \in Points, Goto(r, pc),
         req[r].pc # "idle", pc \in Loaded => req[r].pc \in Loaded
  PROVE  req' \in [Requests -> Handler] /\ HandlersOK'
<1>. DEFINE h == [req[r] EXCEPT !.pc = pc]
<1>1. /\ h \in Handler
      /\ h.pc = pc /\ h.at = req[r].at /\ h.kind = req[r].kind /\ h.copy = req[r].copy
  BY DEF TypeInv, TypeOK, Handler
<1>2. req' = [req EXCEPT ![r] = h]
  BY DEF Goto, TypeInv, TypeOK
<1>3. /\ h.pc # "idle" => h.at \in Replicas /\ h.kind \in Kinds
      /\ h.pc \in Loaded => h.copy \in Order
  BY <1>1 DEF TypeInv, HandlersOK
<1>. HIDE DEF h
<1>. QED
  BY <1>1, <1>2, <1>3, SlotUpdate

\* Remember, the first half of save_order, stores an order in both copies.
LEMMA RememberType ==
  ASSUME TypeInv, NEW r \in Requests, NEW o \in Order,
         req[r].pc # "idle", Remember(r, o)
  PROVE  /\ memory' \in [Replicas -> Order \cup {None}]
         /\ req' \in [Requests -> Handler]
         /\ HandlersOK'
<1>. DEFINE h == [req[r] EXCEPT !.pc = "row", !.copy = o]
<1>1. /\ h \in Handler
      /\ h.pc = "row" /\ h.at = req[r].at /\ h.kind = req[r].kind /\ h.copy = o
  BY DEF TypeInv, TypeOK, Handler, Points
<1>2. req' = [req EXCEPT ![r] = h]
  BY DEF Remember, TypeInv, TypeOK
<1>3. h.at \in Replicas /\ h.kind \in Kinds
  BY <1>1 DEF TypeInv, HandlersOK
<1>4. memory' \in [Replicas -> Order \cup {None}]
  BY <1>1, <1>3 DEF TypeInv, TypeOK, Remember
<1>. HIDE DEF h
<1>. QED
  BY <1>1, <1>2, <1>3, <1>4, SlotUpdate

-----------------------------------------------------------------------------
(* Type correctness. *)

LEMMA InitType == Init => TypeInv
<1>1. Idle \in Handler
  BY DEF Idle, Handler, Points
<1>2. ASSUME Init PROVE TypeOK
  BY <1>1, <1>2, FaultAssumption DEF Init, TypeOK, Order, Status, SessionStates
<1>3. ASSUME Init PROVE HandlersOK
  BY <1>3 DEF Init, HandlersOK, Idle, Loaded
<1>. QED
  BY <1>2, <1>3 DEF TypeInv

\* The changes of an order record that the handlers make.
LEMMA OrderUpdates ==
  ASSUME NEW o \in Order
  PROVE  /\ \A st \in Status : [o EXCEPT !.status = st] \in Order
         /\ \A a \in Amounts \cup {None} : [o EXCEPT !.amount = a] \in Order
         /\ \A s \in Sessions :
              [o EXCEPT !.status = "checkout_pending", !.session = s] \in Order
  BY DEF Order, Status

LEMMA FaultType ==
  ASSUME TypeInv, NEW k, Fault(k)
  PROVE  faults' \in 0..MaxFaults
  BY FaultAssumption DEF TypeInv, TypeOK, Fault

LEMMA StepType == TypeInv /\ [Next]_vars => TypeInv'
<1>. SUFFICES ASSUME TypeInv, [Next]_vars PROVE TypeInv'
  OBVIOUS
<1>. USE DEF TypeInv, store, upstream
<1>1. ASSUME NEW r \in Requests, NEW k \in Kinds, NEW p \in Replicas, Begin(r, k, p)
      PROVE  TypeInv'
  <2>. DEFINE h == [Idle EXCEPT !.pc = "local", !.kind = k, !.at = p]
  <2>1. h \in Handler /\ h.pc = "local" /\ h.kind = k /\ h.at = p
    BY DEF Idle, Handler, Points
  <2>2. req' = [req EXCEPT ![r] = h]
    BY <1>1 DEF Begin
  <2>. HIDE DEF h
  <2>3. req' \in [Requests -> Handler] /\ HandlersOK'
    BY <2>1, <2>2, SlotUpdate DEF Loaded
  <2>. QED
    BY <1>1, <2>3 DEF Begin, TypeOK
<1>2. ASSUME NEW r \in Requests, LockLocal(r) PROVE TypeInv'
  <2>1. req' \in [Requests -> Handler] /\ HandlersOK'
    BY <1>2, GotoType DEF LockLocal, Points, Loaded
  <2>. QED
    BY <1>2, <2>1 DEF LockLocal, TypeOK
<1>3. ASSUME NEW r \in Requests, LockDatabase(r) PROVE TypeInv'
  <2>. DEFINE h == [req[r] EXCEPT !.pc = "load", !.guard = TRUE]
  <2>1. h \in Handler /\ h.pc = "load" /\ h.kind = req[r].kind /\ h.at = req[r].at
    BY DEF TypeOK, Handler, Points
  <2>2. req' = [req EXCEPT ![r] = h]
    BY <1>3 DEF LockDatabase
  <2>3. h.at \in Replicas /\ h.kind \in Kinds
    BY <1>3, <2>1 DEF LockDatabase, HandlersOK
  <2>. HIDE DEF h
  <2>4. req' \in [Requests -> Handler] /\ HandlersOK'
    BY <2>1, <2>2, <2>3, SlotUpdate DEF Loaded
  <2>. QED
    BY <1>3, <2>4 DEF LockDatabase, TypeOK
<1>4. ASSUME NEW r \in Requests, LoseGuard(r) PROVE TypeInv'
  <2>. DEFINE h == [req[r] EXCEPT !.guard = FALSE]
  <2>1. /\ h \in Handler /\ h.pc = req[r].pc /\ h.kind = req[r].kind
        /\ h.at = req[r].at /\ h.copy = req[r].copy
    BY DEF TypeOK, Handler
  <2>2. req' = [req EXCEPT ![r] = h]
    BY <1>4 DEF LoseGuard
  <2>3. /\ h.pc # "idle" => h.at \in Replicas /\ h.kind \in Kinds
        /\ h.pc \in Loaded => h.copy \in Order
    BY <2>1 DEF HandlersOK
  <2>. HIDE DEF h
  <2>4. req' \in [Requests -> Handler] /\ HandlersOK'
    BY <2>1, <2>2, <2>3, SlotUpdate
  <2>. QED
    BY <1>4, <2>4, FaultType DEF LoseGuard, TypeOK
<1>5. ASSUME NEW r \in Requests, Load(r) PROVE TypeInv'
  <2>. DEFINE o == OwnedOrder(req[r].at)
              next == FirstCall(req[r].kind, o)
  <2>1. req[r].at \in Replicas /\ req[r].kind \in Kinds /\ req[r].pc = "load"
    BY <1>5 DEF Load, HandlersOK
  <2>2. o \in Order
    BY <2>1 DEF OwnedOrder, TypeOK
  <2>3. next \in {"call", "verify", "lookup", "idle"}
    BY DEF FirstCall
  <2>4. req' \in [Requests -> Handler] /\ HandlersOK'
    <3>1. CASE next = "idle"
      BY <1>5, <3>1, FinishType DEF Load
    <3>2. CASE next # "idle"
      <4>. DEFINE h == [req[r] EXCEPT !.pc = next, !.copy = o]
      <4>1. req' = [req EXCEPT ![r] = h]
        BY <1>5, <3>2 DEF Load
      <4>. HIDE DEF o, next
      <4>2. req[r] \in Handler /\ o \in Order \cup {None} /\ next \in Points
        BY <2>2, <2>3 DEF TypeOK, Points
      <4>3. h \in Handler
        BY <4>2, Zenon DEF Handler
      <4>4. h.kind = req[r].kind /\ h.at = req[r].at /\ h.copy = o
        BY <4>2 DEF Handler
      <4>. HIDE DEF h
      <4>. QED
        BY <2>1, <2>2, <4>1, <4>3, <4>4, SlotUpdate
    <3>. QED
      BY <3>1, <3>2
  <2>. QED
    BY <1>5, <2>4 DEF Load, TypeOK
<1>6. ASSUME NEW r \in Requests, EditOffer(r) PROVE TypeInv'
  <2>1. req[r].copy \in Order /\ req[r].copy.amount \in Amounts \cup {None}
    BY <1>6 DEF EditOffer, RefreshQuote, SelectOffer,
      SetAddOn, HandlersOK, Loaded, Order
  <2>2. CASE \E a \in Amounts \cup {None} : Remember(r, [req[r].copy EXCEPT !.amount = a])
    <3>1. PICK a \in Amounts \cup {None} : Remember(r, [req[r].copy EXCEPT !.amount = a])
      BY <2>2
    <3>2. [req[r].copy EXCEPT !.amount = a] \in Order
      BY <2>1, OrderUpdates
    <3>. QED
      BY <1>6, <3>1, <3>2, RememberType DEF EditOffer, RefreshQuote, SelectOffer,
        SetAddOn, TypeOK
  <2>3. CASE Finish(r) /\ UNCHANGED memory
    BY <1>6, <2>3, FinishType DEF EditOffer, RefreshQuote, SelectOffer,
      SetAddOn, TypeOK
  <2>. QED
    BY <1>6, <2>1, <2>2, <2>3 DEF EditOffer, RefreshQuote, SelectOffer,
      SetAddOn
<1>7. ASSUME NEW r \in Requests, ReleaseOffer(r) PROVE TypeInv'
  <2>1. [req[r].copy EXCEPT !.status = "cancelled"] \in Order
    BY <1>7, OrderUpdates DEF ReleaseOffer, HandlersOK, Loaded, Status
  <2>2. CASE Remember(r, [req[r].copy EXCEPT !.status = "cancelled"]) /\ UNCHANGED faults
    BY <1>7, <2>1, <2>2, RememberType DEF ReleaseOffer, TypeOK
  <2>3. CASE Fault("reply") /\ Finish(r) /\ UNCHANGED memory
    BY <1>7, <2>3, FinishType, FaultType DEF ReleaseOffer, TypeOK
  <2>. QED
    BY <1>7, <2>2, <2>3 DEF ReleaseOffer
<1>8. ASSUME NEW r \in Requests, CreateCheckout(r) PROVE TypeInv'
  <2>. DEFINE o == req[r].copy
              o1(s) == [o EXCEPT !.status = "checkout_pending", !.session = s]
  <2>1. o \in Order /\ o.amount \in Amounts \cup {None}
    BY <1>8 DEF CreateCheckout, HandlersOK, Loaded, Order
  <2>2. PICK s \in Sessions :
          /\ session' = [session EXCEPT ![s] = [state |-> "created", amount |-> o.amount]]
          /\ \/ Remember(r, o1(s)) /\ UNCHANGED faults
             \/ Fault("reply") /\ Finish(r) /\ UNCHANGED memory
    BY <1>8 DEF CreateCheckout
  <2>3. o1(s) \in Order
    BY <2>1, OrderUpdates
  <2>4. session' \in [Sessions -> [state : SessionStates, amount : Amounts \cup {None}]]
    BY <2>1, <2>2 DEF TypeOK, SessionStates
  <2>. HIDE DEF o1
  <2>5. CASE Remember(r, o1(s)) /\ UNCHANGED faults
    BY <1>8, <2>3, <2>4, <2>5, RememberType DEF CreateCheckout, TypeOK
  <2>6. CASE Fault("reply") /\ Finish(r) /\ UNCHANGED memory
    BY <1>8, <2>4, <2>6, FinishType, FaultType DEF CreateCheckout, TypeOK
  <2>. QED
    BY <2>2, <2>5, <2>6
<1>9. ASSUME NEW r \in Requests, VerifySettled(r) PROVE TypeInv'
  <2>1. req' \in [Requests -> Handler] /\ HandlersOK'
    BY <1>9, GotoType DEF VerifySettled, Points, Loaded
  <2>. QED
    BY <1>9, <2>1 DEF VerifySettled, TypeOK
<1>10. ASSUME NEW r \in Requests, FixOffer(r) PROVE TypeInv'
  <2>1. [req[r].copy EXCEPT !.status = "paid"] \in Order
    BY <1>10, OrderUpdates DEF FixOffer, HandlersOK, Loaded, Status
  <2>2. CASE Remember(r, [req[r].copy EXCEPT !.status = "paid"]) /\ UNCHANGED faults
    BY <1>10, <2>1, <2>2, RememberType DEF FixOffer, TypeOK
  <2>3. CASE Fault("reply") /\ Finish(r) /\ UNCHANGED memory
    BY <1>10, <2>3, FinishType, FaultType DEF FixOffer, TypeOK
  <2>. QED
    BY <1>10, <2>2, <2>3 DEF FixOffer
<1>11. ASSUME NEW r \in Requests, SellTickets(r) PROVE TypeInv'
  <2>. DEFINE failed == [req[r].copy EXCEPT !.status = "issuance_failed"]
  <2>1. failed \in Order
    BY <1>11, OrderUpdates DEF SellTickets, HandlersOK, Loaded, Status
  <2>2. faults' \in 0..MaxFaults /\ booking' \in {"offered", "released", "fixed", "sold"}
    BY <1>11, FaultType DEF SellTickets, TypeOK
  <2>3. CASE Goto(r, "persist") /\ UNCHANGED memory
    <3>1. req' \in [Requests -> Handler] /\ HandlersOK'
      BY <1>11, <2>3, GotoType DEF SellTickets, Points, Loaded
    <3>. QED
      BY <1>11, <2>2, <2>3, <3>1 DEF SellTickets, TypeOK
  <2>4. CASE Remember(r, failed)
    <3>. HIDE DEF failed
    <3>. QED
      BY <1>11, <2>1, <2>2, <2>4, RememberType DEF SellTickets, TypeOK
  <2>. QED
    BY <1>11, <2>3, <2>4 DEF SellTickets
<1>12. ASSUME NEW r \in Requests, LookupSold(r) PROVE TypeInv'
  <2>1. req' \in [Requests -> Handler] /\ HandlersOK'
    BY <1>12, GotoType, FinishType DEF LookupSold, Points, Loaded
  <2>. QED
    BY <1>12, <2>1 DEF LookupSold, TypeOK
<1>13. ASSUME NEW r \in Requests, CallRefused(r) PROVE TypeInv'
  BY <1>13, FinishType, FaultType DEF CallRefused, TypeOK
<1>14. ASSUME NEW r \in Requests, PersistTicket(r) PROVE TypeInv'
  BY <1>14 DEF PersistTicket, TypeOK, HandlersOK
<1>15. ASSUME NEW r \in Requests, PersistIssued(r) PROVE TypeInv'
  <2>1. [req[r].copy EXCEPT !.status = "issued"] \in Order
    BY <1>15, OrderUpdates DEF PersistIssued, HandlersOK, Loaded, Status
  <2>. QED
    BY <1>15, <2>1, RememberType DEF PersistIssued, TypeOK
<1>16. ASSUME NEW r \in Requests, SaveRow(r) PROVE TypeInv'
  <2>1. req[r].copy \in Order
    BY <1>16 DEF SaveRow, HandlersOK, Loaded
  <2>2. AfterSave(r) \in {"audit", "sell", "idle"}
    BY DEF AfterSave
  <2>3. req' \in [Requests -> Handler] /\ HandlersOK'
    BY <1>16, <2>2, FinishType, GotoType DEF SaveRow, Points, Loaded
  <2>. QED
    BY <1>16, <2>1, <2>3 DEF SaveRow, TypeOK
<1>17. ASSUME NEW r \in Requests, Audit(r) PROVE TypeInv'
  <2>1. session' \in [Sessions -> [state : SessionStates, amount : Amounts \cup {None}]]
    BY <1>17 DEF Audit, TypeOK, SessionStates
  <2>. QED
    BY <1>17, <2>1, FinishType DEF Audit, TypeOK
<1>18. ASSUME NEW r \in Requests, DatabaseFails(r) PROVE TypeInv'
  <2>1. row' \in Order
    BY <1>18 DEF DatabaseFails, SentRows, HandlersOK, Loaded, TypeOK
  <2>. QED
    BY <1>18, <2>1, FinishType, FaultType DEF DatabaseFails, TypeOK
<1>19. ASSUME NEW r \in Requests, Drop(r) PROVE TypeInv'
  <2>1. row' \in Order
    BY <1>19 DEF Drop, SentRows, HandlersOK, Loaded, TypeOK
  <2>. QED
    BY <1>19, <2>1, FinishType, FaultType DEF Drop, TypeOK
<1>20. ASSUME NEW p \in Replicas, Crash(p) PROVE TypeInv'
  <2>1. row' \in Order
    BY <1>20 DEF Crash, SentRows, HandlersOK, Loaded, TypeOK
  <2>2. Idle \in Handler /\ Idle.pc = "idle"
    BY DEF Idle, Handler, Points
  <2>3. req' \in [Requests -> Handler]
    BY <1>20, <2>2 DEF Crash, TypeOK
  <2>4. HandlersOK'
    BY <1>20, <2>2 DEF Crash, HandlersOK, Loaded
  <2>. QED
    BY <1>20, <2>1, <2>3, <2>4, FaultType DEF Crash, TypeOK
<1>21. ASSUME NEW s \in Sessions, CustomerPays(s) PROVE TypeInv'
  <2>1. session' \in [Sessions -> [state : SessionStates, amount : Amounts \cup {None}]]
    BY <1>21 DEF CustomerPays, TypeOK, SessionStates
  <2>. QED
    BY <1>21, <2>1 DEF CustomerPays, TypeOK, HandlersOK
<1>22. CASE UNCHANGED vars
  BY <1>22 DEF vars, TypeOK, HandlersOK
<1>. QED
  BY <1>1, <1>2, <1>3, <1>4, <1>5, <1>6, <1>7, <1>8, <1>9, <1>10, <1>11, <1>12, <1>13,
     <1>14, <1>15, <1>16, <1>17, <1>18, <1>19, <1>20, <1>21, <1>22
  DEF Next, Work

LEMMA TypeInvariant == Spec => []TypeInv
  BY InitType, StepType, PTL DEF Spec

\* Every variable keeps to its values, whatever fails: in particular a handler never
\* writes a record that is not an order into the process' memory or the row.
THEOREM TypeCorrect == Spec => []TypeOK
  BY TypeInvariant, PTL DEF TypeInv

-----------------------------------------------------------------------------
(* The locks, for any number of processes.                                  *)

\* A handler past the guard stays past it with its lock, or it is gone.
KeepsGuard(q) ==
  \/ req'[q] = req[q]
  \/ req'[q] = Idle
  \/ Working(q) /\ Working(q)' /\ req'[q].at = req[q].at /\ req'[q].guard = req[q].guard

\* The slots other than r keep their handlers.
OnlySlot(r) == \A q \in Requests \ {r} : req'[q] = req[q]

\* All a step can do to the locks: ask for the guard, take a half of it, lose the
\* advisory lock, or keep what is held.
LEMMA LockSteps ==
  ASSUME TypeInv, [Next]_vars
  PROVE  \/ \E r \in Requests :
              /\ OnlySlot(r)
              /\ \/ req'[r].pc = "local" /\ ~ req'[r].guard
                 \/ LockLocal(r) /\ req'[r] = [req[r] EXCEPT !.pc = "database"]
                 \/ LockDatabase(r)
                      /\ req'[r] = [req[r] EXCEPT !.pc = "load", !.guard = TRUE]
                 \/ LoseGuard(r) /\ req'[r] = [req[r] EXCEPT !.guard = FALSE]
         \/ \A q \in Requests : KeepsGuard(q)
<1>. DEFINE Quiet == \A q \in Requests : KeepsGuard(q)
<1>. USE DEF TypeInv
<1>1. ASSUME NEW r \in Requests, Finish(r) PROVE Quiet
  BY <1>1 DEF Finish, TypeOK, KeepsGuard
<1>2. ASSUME NEW r \in Requests, NEW pc \in Points, Goto(r, pc), Working(r),
             pc \notin {"idle", "local", "database"}
      PROVE  Quiet
  BY <1>2 DEF Goto, TypeOK, Handler, KeepsGuard, Working
<1>3. ASSUME NEW r \in Requests, NEW o, Remember(r, o), Working(r) PROVE Quiet
  BY <1>3 DEF Remember, TypeOK, Handler, KeepsGuard, Working
<1>4. ASSUME UNCHANGED req PROVE Quiet
  BY <1>4 DEF KeepsGuard
<1>. HIDE DEF Quiet
<1>5. ASSUME NEW r \in Requests, NEW k \in Kinds, NEW p \in Replicas, Begin(r, k, p)
      PROVE  OnlySlot(r) /\ req'[r].pc = "local" /\ ~ req'[r].guard
  BY <1>5 DEF Begin, TypeOK, Idle, OnlySlot
<1>6. ASSUME NEW r \in Requests, LockLocal(r)
      PROVE  OnlySlot(r) /\ req'[r] = [req[r] EXCEPT !.pc = "database"]
  BY <1>6 DEF LockLocal, Goto, TypeOK, OnlySlot
<1>7. ASSUME NEW r \in Requests, LockDatabase(r)
      PROVE  OnlySlot(r) /\ req'[r] = [req[r] EXCEPT !.pc = "load", !.guard = TRUE]
  BY <1>7 DEF LockDatabase, TypeOK, OnlySlot
<1>8. ASSUME NEW r \in Requests, LoseGuard(r)
      PROVE  OnlySlot(r) /\ req'[r] = [req[r] EXCEPT !.guard = FALSE]
  BY <1>8 DEF LoseGuard, TypeOK, OnlySlot
<1>9. ASSUME NEW r \in Requests, Load(r) PROVE Quiet
  <2>1. CASE Finish(r)
    BY <1>1, <2>1
  <2>2. CASE ~ Finish(r)
    <3>. DEFINE next == FirstCall(req[r].kind, OwnedOrder(req[r].at))
    <3>1. next \in {"call", "verify", "lookup", "idle"}
      BY DEF FirstCall
    <3>. HIDE DEF next
    <3>2. req[r].pc = "load" /\ next # "idle"
          /\ req' = [req EXCEPT ![r] = [@ EXCEPT !.pc = next, !.copy = OwnedOrder(req[r].at)]]
      BY <1>9, <2>2 DEF Load, next
    <3>. QED
      BY <3>1, <3>2 DEF Quiet, TypeOK, Handler, KeepsGuard, Working
  <2>. QED
    BY <2>1, <2>2
<1>10. ASSUME NEW r \in Requests, EditOffer(r) PROVE Quiet
  BY <1>10, <1>1, <1>3 DEF EditOffer, RefreshQuote, SelectOffer,
    SetAddOn, Working
<1>11. ASSUME NEW r \in Requests, ReleaseOffer(r) PROVE Quiet
  BY <1>11, <1>1, <1>3 DEF ReleaseOffer, Working
<1>12. ASSUME NEW r \in Requests, CreateCheckout(r) PROVE Quiet
  BY <1>12, <1>1, <1>3 DEF CreateCheckout, Working
<1>13. ASSUME NEW r \in Requests, VerifySettled(r) PROVE Quiet
  BY <1>13, <1>2 DEF VerifySettled, Working, Points
<1>14. ASSUME NEW r \in Requests, FixOffer(r) PROVE Quiet
  BY <1>14, <1>1, <1>3 DEF FixOffer, Working
<1>15. ASSUME NEW r \in Requests, SellTickets(r) PROVE Quiet
  BY <1>15, <1>2, <1>3 DEF SellTickets, Working, Points
<1>16. ASSUME NEW r \in Requests, LookupSold(r) PROVE Quiet
  BY <1>16, <1>1, <1>2 DEF LookupSold, Working, Points
<1>17. ASSUME NEW r \in Requests, CallRefused(r) PROVE Quiet
  BY <1>17, <1>1 DEF CallRefused
<1>18. ASSUME NEW r \in Requests, PersistTicket(r) PROVE Quiet
  BY <1>18, <1>4 DEF PersistTicket
<1>19. ASSUME NEW r \in Requests, PersistIssued(r) PROVE Quiet
  BY <1>19, <1>3 DEF PersistIssued, Working
<1>20. ASSUME NEW r \in Requests, SaveRow(r) PROVE Quiet
  <2>1. AfterSave(r) \in {"audit", "sell", "idle"}
    BY DEF AfterSave
  <2>. QED
    BY <1>20, <1>1, <1>2, <2>1 DEF SaveRow, Working, Points
<1>21. ASSUME NEW r \in Requests, Audit(r) PROVE Quiet
  BY <1>21, <1>1 DEF Audit
<1>22. ASSUME NEW r \in Requests, DatabaseFails(r) \/ Drop(r) PROVE Quiet
  BY <1>22, <1>1 DEF DatabaseFails, Drop
<1>23. ASSUME NEW p \in Replicas, Crash(p) PROVE Quiet
  BY <1>23 DEF Crash, TypeOK, KeepsGuard, Quiet
<1>24. ASSUME (\E s \in Sessions : CustomerPays(s)) \/ UNCHANGED vars PROVE Quiet
  BY <1>24, <1>4 DEF CustomerPays, store, upstream, vars
<1>. QED
  BY <1>5, <1>6, <1>7, <1>8, <1>9, <1>10, <1>11, <1>12, <1>13, <1>14, <1>15, <1>16,
     <1>17, <1>18, <1>19, <1>20, <1>21, <1>22, <1>23, <1>24
  DEF Next, Work, Quiet

LEMMA LocalMutexStep == TypeInv /\ LocalMutex /\ [Next]_vars => LocalMutex'
<1>. SUFFICES ASSUME TypeInv, LocalMutex, [Next]_vars,
                     NEW q \in Requests, NEW r \in Requests,
                     req'[q].pc \notin {"idle", "local"},
                     req'[r].pc \notin {"idle", "local"},
                     req'[q].at = req'[r].at
              PROVE  q = r
  BY DEF LocalMutex
<1>. DEFINE Past(h) == h.pc \notin {"idle", "local"}
<1>1. req \in [Requests -> Handler]
  BY DEF TypeInv, TypeOK
<1>2. ASSUME NEW u \in Requests, NEW v \in Requests, Past(req[u]), Past(req[v]),
             req[u].at = req[v].at
      PROVE  u = v
  BY <1>2 DEF LocalMutex
<1>3. ASSUME NEW v \in Requests, KeepsGuard(v), Past(req'[v])
      PROVE  Past(req[v]) /\ req'[v].at = req[v].at
  BY <1>3 DEF KeepsGuard, Working, Idle
<1>4. CASE \A v \in Requests : KeepsGuard(v)
  BY <1>2, <1>3, <1>4
<1>5. ASSUME NEW u \in Requests, OnlySlot(u), req'[u].pc = "local" PROVE q = r
  BY <1>2, <1>5 DEF OnlySlot
<1>5a. ASSUME NEW u \in Requests, OnlySlot(u), req'[u].at = req[u].at,
              \/ Past(req'[u]) => Past(req[u])
              \/ \A v \in Requests : req[v].at = req[u].at => ~ Past(req[v])
       PROVE  q = r
  <2>1. \A v \in Requests : v # u => req'[v] = req[v]
    BY <1>5a DEF OnlySlot
  <2>2. CASE q # u /\ r # u
    BY <1>2, <2>1, <2>2
  <2>3. CASE q = u /\ r # u
    BY <1>2, <1>5a, <2>1, <2>3
  <2>4. CASE q # u /\ r = u
    BY <1>2, <1>5a, <2>1, <2>4
  <2>. QED
    BY <2>2, <2>3, <2>4
<1>6. ASSUME NEW u \in Requests, OnlySlot(u), LockLocal(u),
             req'[u] = [req[u] EXCEPT !.pc = "database"]
      PROVE  q = r
  <2>1. req'[u].at = req[u].at
    BY <1>1, <1>6 DEF Handler
  <2>2. \A v \in Requests : req[v].at = req[u].at => ~ Past(req[v])
    BY <1>6 DEF LockLocal, LocalFree
  <2>. QED
    BY <1>5a, <1>6, <2>1, <2>2
<1>7. ASSUME NEW u \in Requests, OnlySlot(u), LockDatabase(u),
             req'[u] = [req[u] EXCEPT !.pc = "load", !.guard = TRUE]
      PROVE  q = r
  <2>1. req'[u].at = req[u].at /\ Past(req[u])
    BY <1>1, <1>7 DEF Handler, LockDatabase
  <2>. QED
    BY <1>5a, <1>7, <2>1
<1>8. ASSUME NEW u \in Requests, OnlySlot(u), LoseGuard(u),
             req'[u] = [req[u] EXCEPT !.guard = FALSE]
      PROVE  q = r
  <2>1. req'[u].at = req[u].at /\ req'[u].pc = req[u].pc
    BY <1>1, <1>8 DEF Handler
  <2>. QED
    BY <1>5a, <1>8, <2>1
<1>. QED
  BY LockSteps, <1>4, <1>5, <1>6, <1>7, <1>8

\* Without a lost connection, the handlers at work hold the advisory lock, which
\* one of them can hold at a time.
GuardInv ==
  "guard" \notin FaultKinds =>
    /\ \A r \in Requests : Working(r) => req[r].guard
    /\ \A q, r \in Requests : req[q].guard /\ req[r].guard => q = r

LEMMA GuardStep == TypeInv /\ GuardInv /\ [Next]_vars => GuardInv'
<1>. SUFFICES ASSUME TypeInv, GuardInv, [Next]_vars, "guard" \notin FaultKinds
              PROVE  /\ \A r \in Requests : Working(r)' => req'[r].guard
                     /\ \A q, r \in Requests : req'[q].guard /\ req'[r].guard => q = r
  BY DEF GuardInv
<1>1. req \in [Requests -> Handler]
  BY DEF TypeInv, TypeOK
<1>2. /\ \A r \in Requests : Working(r) => req[r].guard
      /\ \A q, r \in Requests : req[q].guard /\ req[r].guard => q = r
  BY DEF GuardInv
<1>3. ASSUME NEW v \in Requests, KeepsGuard(v)
      PROVE  /\ Working(v)' => Working(v) /\ req'[v].guard = req[v].guard
             /\ req'[v].guard => req[v].guard
  BY <1>3 DEF KeepsGuard, Working, Idle
<1>4. CASE \A v \in Requests : KeepsGuard(v)
  BY <1>2, <1>3, <1>4
<1>4a. ASSUME NEW u \in Requests, OnlySlot(u), Working(u)' => req'[u].guard,
              \/ req'[u].guard => req[u].guard
              \/ \A q \in Requests : ~ req[q].guard
       PROVE  /\ \A r \in Requests : Working(r)' => req'[r].guard
              /\ \A q, r \in Requests : req'[q].guard /\ req'[r].guard => q = r
  <2>1. ASSUME NEW r \in Requests, r # u
        PROVE  req'[r] = req[r] /\ (Working(r)' <=> Working(r))
    BY <1>4a, <2>1 DEF OnlySlot, Working
  <2>2. ASSUME NEW r \in Requests, Working(r)' PROVE req'[r].guard
    BY <1>2, <1>4a, <2>1, <2>2
  <2>3. ASSUME NEW r \in Requests, r # u, req'[r].guard PROVE req[r].guard
    BY <2>1, <2>3
  <2>4. ASSUME NEW q \in Requests, NEW r \in Requests, req'[q].guard, req'[r].guard
        PROVE  q = r
    BY <1>2, <1>4a, <2>3, <2>4
  <2>. QED
    BY <2>2, <2>4
<1>5. ASSUME NEW u \in Requests, OnlySlot(u), req'[u].pc = "local" /\ ~ req'[u].guard
      PROVE  /\ \A r \in Requests : Working(r)' => req'[r].guard
             /\ \A q, r \in Requests : req'[q].guard /\ req'[r].guard => q = r
  BY <1>4a, <1>5 DEF Working
<1>6. ASSUME NEW u \in Requests, OnlySlot(u), LockLocal(u),
             req'[u] = [req[u] EXCEPT !.pc = "database"]
      PROVE  /\ \A r \in Requests : Working(r)' => req'[r].guard
             /\ \A q, r \in Requests : req'[q].guard /\ req'[r].guard => q = r
  <2>1. req'[u].pc = "database" /\ req'[u].guard = req[u].guard
    BY <1>1, <1>6 DEF Handler
  <2>. QED
    BY <1>4a, <1>6, <2>1 DEF Working
<1>7. ASSUME NEW u \in Requests, OnlySlot(u), LockDatabase(u),
             req'[u] = [req[u] EXCEPT !.pc = "load", !.guard = TRUE]
      PROVE  /\ \A r \in Requests : Working(r)' => req'[r].guard
             /\ \A q, r \in Requests : req'[q].guard /\ req'[r].guard => q = r
  <2>1. req'[u].guard
    BY <1>1, <1>7 DEF Handler
  <2>2. \A q \in Requests : ~ req[q].guard
    BY <1>7 DEF LockDatabase, DatabaseFree
  <2>. QED
    BY <1>4a, <1>7, <2>1, <2>2
<1>8. ASSUME NEW u \in Requests, LoseGuard(u) PROVE FALSE
  BY <1>8 DEF LoseGuard, Fault
<1>. QED
  BY LockSteps, <1>4, <1>5, <1>6, <1>7, <1>8

\* The local mutex alone keeps the handlers of one process apart, whatever fails.
THEOREM LocalMutexHolds == Spec => []LocalMutex
<1>1. Init => LocalMutex
  BY DEF Init, LocalMutex, Idle
<1>. QED
  BY <1>1, TypeInvariant, LocalMutexStep, PTL DEF Spec

\* mutation_guard runs one handler of an order at a time, in all the processes on
\* the database together, as long as no connection that holds a lock is lost: every
\* path out of a handler gives the lock up, and no path works without it.
THEOREM HandlersAreSerialized == Spec => []OneMutationAtATime
<1>1. Init => GuardInv
  BY DEF Init, GuardInv, Idle, Working
<1>2. GuardInv => OneMutationAtATime
  BY DEF GuardInv, OneMutationAtATime
<1>. QED
  BY <1>1, <1>2, TypeInvariant, GuardStep, PTL DEF Spec

-----------------------------------------------------------------------------
(***************************************************************************)
(* Safety when one API process serves the database, as in                  *)
(* docker-compose.yml: every fault may occur, a lost guard connection      *)
(* included, because the process' own mutex is enough.  With two processes *)
(* the properties fail (TicketOrder_stale.cfg).                            *)
(***************************************************************************)
OneProcess == \E p : Replicas = {p}

\* What the handler part and the data part of IInv say.
HandlersKnow == CopyIsCurrent /\ \A r \in Requests : HandlerKnows(r)
DataInv == CopyAhead /\ PayableIsKnown /\ SaleIsRecorded

Base == TypeInv /\ LocalMutex
SafeInv == Base /\ HandlersKnow /\ DataInv

-----------------------------------------------------------------------------
(* Facts about one process.                                                 *)

\* While a handler works, no other is past the local mutex.
LEMMA WorksAlone ==
  ASSUME NEW p, Replicas = {p}, Base,
         NEW r \in Requests, req[r].pc \notin {"idle", "local"},
         NEW q \in Requests, q # r
  PROVE  req[q].pc \in {"idle", "local"}
  BY DEF Base, TypeInv, HandlersOK, LocalMutex

\* So a step that only moves r on has r's new handler to answer for.
LEMMA SoloStep ==
  ASSUME NEW p, Replicas = {p}, Base, TypeInv',
         NEW r \in Requests, req[r].pc \notin {"idle", "local"},
         \A q \in Requests \ {r} : req'[q] = req[q],
         req'[r].pc \in Loaded =>
           /\ req'[r].copy = OwnedOrder(p)'
           /\ req'[r].pc \in {"sell", "row", "audit"} => memory'[p] # None
           /\ req'[r].pc \in {"sell", "audit"} => req'[r].copy = row'
           /\ HandlerKnows(r)'
  PROVE  HandlersKnow'
<1>1. ASSUME NEW q \in Requests, q # r PROVE req'[q].pc \notin Loaded
  BY <1>1, WorksAlone DEF Loaded
<1>2. ASSUME NEW q \in Requests, req'[q].pc \in Loaded
      PROVE  q = r /\ req'[q].at = p
  <2>1. q = r
    BY <1>1, <1>2
  <2>2. req'[q].at \in Replicas
    BY <1>2 DEF TypeInv, HandlersOK, Loaded
  <2>. QED
    BY <2>1, <2>2
<1>3. CopyIsCurrent'
  <2>1. ASSUME NEW q \in Requests, req'[q].pc \in Loaded
        PROVE  /\ req'[q].copy = OwnedOrder(req[q].at)'
               /\ req'[q].pc \in {"sell", "row", "audit"} => memory'[req'[q].at] # None
               /\ req'[q].pc \in {"sell", "audit"} => req'[q].copy = row'
    BY <1>2, <2>1 DEF OwnedOrder
  <2>. QED
    BY <2>1 DEF CopyIsCurrent, Loaded
<1>4. ASSUME NEW q \in Requests PROVE HandlerKnows(q)'
  <2>1. CASE req'[q].pc \in Loaded
    BY <1>2, <2>1
  <2>2. CASE req'[q].pc \notin Loaded
    BY <2>2 DEF HandlerKnows, Loaded
  <2>. QED
    BY <2>1, <2>2
<1>. QED
  BY <1>3, <1>4 DEF HandlersKnow

\* A handler that ends leaves the others as they are: they are not at work.
LEMMA FinishKnows ==
  ASSUME NEW p, Replicas = {p}, Base, TypeInv', NEW r \in Requests,
         req[r].pc \notin {"idle", "local"}, Finish(r)
  PROVE  HandlersKnow'
<1>1. req'[r] = Idle /\ \A q \in Requests \ {r} : req'[q] = req[q]
  BY DEF Finish, Base, TypeInv, TypeOK
<1>2. req'[r].pc \notin Loaded
  BY <1>1 DEF Idle, Loaded
<1>. QED
  BY <1>1, <1>2, SoloStep

\* A step that touches no copy of the order, and no handler that has one.
LEMMA QuietKnows ==
  ASSUME Base, HandlersKnow, UNCHANGED <<store, upstream>>,
         \A q \in Requests : req'[q].pc \in Loaded =>
           /\ req'[q].pc = req[q].pc /\ req'[q].kind = req[q].kind
           /\ req'[q].at = req[q].at /\ req'[q].copy = req[q].copy
  PROVE  HandlersKnow'
<1>. USE DEF store, upstream
<1>1. CopyIsCurrent'
  <2>1. ASSUME NEW q \in Requests, req'[q].pc \in Loaded
        PROVE  /\ req'[q].copy = OwnedOrder(req[q].at)'
               /\ req'[q].pc \in {"sell", "row", "audit"} => memory'[req'[q].at] # None
               /\ req'[q].pc \in {"sell", "audit"} => req'[q].copy = row'
    BY <2>1 DEF OwnedOrder, HandlersKnow, CopyIsCurrent
  <2>. QED
    BY <2>1 DEF CopyIsCurrent, Loaded
<1>2. ASSUME NEW q \in Requests PROVE HandlerKnows(q)'
  <2>1. CASE req'[q].pc \in Loaded
    BY <2>1 DEF HandlersKnow, HandlerKnows
  <2>2. CASE req'[q].pc \notin Loaded
    BY <2>2 DEF HandlerKnows, Loaded
  <2>. QED
    BY <2>1, <2>2
<1>. QED
  BY <1>1, <1>2 DEF HandlersKnow

\* The row catches up with the process' copy, or the copy falls back to the row,
\* or neither: what both say stays true.
LEMMA CopiesMeet ==
  ASSUME NEW p, Replicas = {p}, DataInv, UNCHANGED <<upstream, ticketRows>>,
         row' \in {row, OwnedOrder(p)},
         OwnedOrder(p)' \in {OwnedOrder(p), row'}
  PROVE  DataInv'
<1>. USE DEF upstream
<1>1. OrderOK(row) /\ OrderOK(OwnedOrder(p)) /\ MayFollow(row.status, OwnedOrder(p).status)
  BY DEF DataInv, CopyAhead
<1>2. \A st : MayFollow(st, st)
  BY DEF MayFollow
<1>3. OrderOK(row)' /\ OrderOK(OwnedOrder(p))'
  BY <1>1 DEF OrderOK
<1>4. MayFollow(row'.status, OwnedOrder(p)'.status)
  BY <1>1, <1>2
<1>5. CopyAhead'
  BY <1>3, <1>4 DEF CopyAhead
<1>6. PayableIsKnown'
  <2>1. ASSUME NEW s \in Sessions, Payable(s)'
        PROVE  /\ row'.session = s /\ OwnedOrder(p)'.session = s
               /\ row'.status \in {"checkout_pending"} \cup PaidStatus
    <3>1. /\ row.session = s /\ OwnedOrder(p).session = s
          /\ row.status \in {"checkout_pending"} \cup PaidStatus
      BY <2>1 DEF DataInv, PayableIsKnown, Payable
    <3>2. OwnedOrder(p).status \in {"checkout_pending"} \cup PaidStatus
      BY <1>1, <3>1 DEF MayFollow, PaidStatus
    <3>. QED
      BY <3>1, <3>2
  <2>. QED
    BY <2>1 DEF PayableIsKnown
<1>7. SaleIsRecorded'
  <2>1. row.status \in PaidStatus => OwnedOrder(p).status \in PaidStatus
    BY <1>1 DEF MayFollow, PaidStatus
  <2>. QED
    BY <2>1 DEF DataInv, SaleIsRecorded
<1>. QED
  BY <1>5, <1>6, <1>7 DEF DataInv

\* The process' copy becomes o, the row is still what it was.
LEMMA CopyMovesOn ==
  ASSUME NEW p, Replicas = {p}, DataInv, NEW o,
         row' = row, OwnedOrder(p)' = o,
         MayFollow(row.status, o.status), OrderOK(o)', OrderOK(row)',
         o.session = OwnedOrder(p).session \/ row.status = "draft",
         \A s \in Sessions : Payable(s)' => Payable(s),
         SaleIsRecorded'
  PROVE  DataInv'
<1>1. CopyAhead'
  BY DEF CopyAhead
<1>2. ASSUME NEW s \in Sessions, Payable(s)'
      PROVE  /\ row.session = s /\ o.session = s
             /\ row.status \in {"checkout_pending"} \cup PaidStatus
  BY <1>2 DEF DataInv, PayableIsKnown, PaidStatus
<1>3. PayableIsKnown'
  BY <1>2 DEF PayableIsKnown
<1>. QED
  BY <1>1, <1>3 DEF DataInv

\* What is known of a handler that has loaded the order.
LEMMA AtWork ==
  ASSUME NEW p, Replicas = {p}, SafeInv, NEW r \in Requests, req[r].pc \in Loaded
  PROVE  /\ req[r].at = p /\ req[r].kind \in Kinds
         /\ req[r].copy = OwnedOrder(p) /\ OwnedOrder(p) \in Order
         /\ HandlerKnows(r)
         /\ OrderOK(row) /\ OrderOK(OwnedOrder(p))
         /\ MayFollow(row.status, OwnedOrder(p).status)
<1>1. req[r].at = p /\ req[r].kind \in Kinds
  BY DEF SafeInv, Base, TypeInv, HandlersOK, Loaded
<1>2. req[r].copy = OwnedOrder(p) /\ req[r].copy \in Order
  BY <1>1 DEF SafeInv, Base, TypeInv, HandlersKnow, CopyIsCurrent, HandlersOK
<1>3. HandlerKnows(r)
  BY DEF SafeInv, HandlersKnow
<1>. QED
  BY <1>1, <1>2, <1>3 DEF SafeInv, DataInv, CopyAhead

\* save_order's first half keeps the handler's copy and the process' copy equal.
LEMMA RememberKnows ==
  ASSUME NEW p, Replicas = {p}, SafeInv, TypeInv',
         NEW r \in Requests, req[r].pc \in Loaded,
         NEW o \in Order, Remember(r, o),
         req[r].kind = "complete" /\ o.status = "paid" => sellCalls' = 0,
         req[r].kind = "checkout" =>
           o.status = "checkout_pending" /\ session'[o.session].state = "created"
  PROVE  HandlersKnow' /\ OwnedOrder(p)' = o
<1>1. req[r].at = p
  BY AtWork
<1>2. /\ req'[r].pc = "row" /\ req'[r].copy = o /\ req'[r].kind = req[r].kind
      /\ \A q \in Requests \ {r} : req'[q] = req[q]
  BY DEF Remember, SafeInv, Base, TypeInv, TypeOK, Handler
<1>3. memory'[p] = o
  BY <1>1 DEF Remember, SafeInv, Base, TypeInv, TypeOK
<1>4. memory'[p] # None /\ OwnedOrder(p)' = o
  BY <1>3, NoneAssumption DEF OwnedOrder
<1>5. HandlerKnows(r)'
  BY <1>2 DEF HandlerKnows
<1>6. req[r].pc \notin {"idle", "local"}
  BY DEF Loaded
<1>. QED
  BY <1>2, <1>4, <1>5, <1>6, SoloStep DEF SafeInv

\* A handler moves on to its next call or statement with the copy it has.
LEMMA GotoKnows ==
  ASSUME NEW p, Replicas = {p}, SafeInv, TypeInv',
         NEW r \in Requests, req[r].pc \in Loaded,
         NEW pc \in Loaded, Goto(r, pc), UNCHANGED memory,
         OwnedOrder(p)' = OwnedOrder(p),
         pc \in {"sell", "row", "audit"} => memory[p] # None,
         pc \in {"sell", "audit"} => row' = OwnedOrder(p),
         /\ req'[r].pc = pc /\ req'[r].kind = req[r].kind /\ req'[r].copy = req[r].copy
         => HandlerKnows(r)'
  PROVE  HandlersKnow'
<1>1. /\ req'[r].pc = pc /\ req'[r].copy = req[r].copy /\ req'[r].kind = req[r].kind
      /\ \A q \in Requests \ {r} : req'[q] = req[q]
  BY DEF Goto, SafeInv, Base, TypeInv, TypeOK, Handler
<1>2. req[r].copy = OwnedOrder(p)
  BY AtWork
<1>3. req[r].pc \notin {"idle", "local"}
  BY DEF Loaded
<1>. QED
  BY <1>1, <1>2, <1>3, SoloStep DEF SafeInv

-----------------------------------------------------------------------------
(* The steps of a handler. *)

\* A step that writes neither the row nor the process' copy and calls no one.
LEMMA SameData ==
  ASSUME NEW p, Replicas = {p}, SafeInv, UNCHANGED <<store, upstream>>
  PROVE  DataInv' /\ OwnedOrder(p)' = OwnedOrder(p)
<1>1. OwnedOrder(p)' = OwnedOrder(p)
  BY DEF OwnedOrder, store
<1>. QED
  BY <1>1, CopiesMeet DEF store, SafeInv

LEMMA LoadStep ==
  ASSUME NEW p, Replicas = {p}, SafeInv, TypeInv', NEW r \in Requests, Load(r)
  PROVE  HandlersKnow' /\ DataInv'
<1>. DEFINE o == OwnedOrder(req[r].at)
            next == FirstCall(req[r].kind, o)
<1>1. DataInv' /\ OwnedOrder(p)' = OwnedOrder(p)
  BY SameData DEF Load
<1>2. req[r].at = p /\ req[r].kind \in Kinds /\ req[r].pc = "load"
  BY DEF Load, SafeInv, Base, TypeInv, HandlersOK
<1>3. CASE next = "idle"
  BY <1>1, <1>2, <1>3, FinishKnows DEF Load, SafeInv
<1>4. CASE next # "idle"
  <2>1. \/ next = "call" /\ req[r].kind \in Edits /\ o.status = "draft"
             /\ (req[r].kind = "checkout" => o.amount # None)
        \/ next = "verify" /\ req[r].kind = "complete" /\ o.status = "checkout_pending"
        \/ next = "lookup" /\ req[r].kind = "complete"
             /\ o.status \in {"paid", "issuance_failed"}
    BY <1>4 DEF FirstCall, RequireDraft
  <2>2. req' = [req EXCEPT ![r] = [@ EXCEPT !.pc = next, !.copy = o]]
    BY <1>4 DEF Load
  <2>. HIDE DEF next, o
  <2>3. /\ req'[r].pc = next /\ req'[r].copy = o /\ req'[r].kind = req[r].kind
        /\ \A q \in Requests \ {r} : req'[q] = req[q]
    BY <2>2 DEF SafeInv, Base, TypeInv, TypeOK, Handler
  <2>4. o = OwnedOrder(p)'
    BY <1>1, <1>2 DEF o
  <2>5. HandlerKnows(r)'
    BY <2>1, <2>3 DEF HandlerKnows
  <2>6. HandlersKnow'
    BY <1>2, <2>1, <2>3, <2>4, <2>5, SoloStep DEF SafeInv
  <2>. QED
    BY <1>1, <2>6
<1>. QED
  BY <1>3, <1>4

LEMMA EditOfferStep ==
  ASSUME NEW p, Replicas = {p}, SafeInv, TypeInv', NEW r \in Requests, EditOffer(r)
  PROVE  HandlersKnow' /\ DataInv'
<1>. USE DEF upstream
<1>1. req[r].pc = "call" /\ req[r].pc \in Loaded
  BY DEF EditOffer, RefreshQuote, SelectOffer,
    SetAddOn, Loaded
<1>2. req[r].copy.status = "draft" /\ req[r].copy = OwnedOrder(p) /\ OwnedOrder(p) \in Order
      /\ row.status = "draft" /\ OrderOK(row)
  BY <1>1, AtWork DEF HandlerKnows, MayFollow
<1>3. UNCHANGED <<row, ticketRows, session, booking, sellCalls>>
  BY DEF EditOffer, RefreshQuote, SelectOffer, SetAddOn, store
<1>4. CASE req[r].kind # "set_add_on"
  <2>1. PICK a \in Amounts \cup {None} : Remember(r, [req[r].copy EXCEPT !.amount = a])
    BY <1>2, <1>4 DEF EditOffer, RefreshQuote, SelectOffer,
      SetAddOn, Order
  <2>0. PICK o : o = [req[r].copy EXCEPT !.amount = a]
    OBVIOUS
  <2>2. o \in Order /\ o.status = "draft" /\ o.session = OwnedOrder(p).session
    BY <1>2, <2>0 DEF Order
  <2>3. Remember(r, o) /\ req[r].kind \notin {"complete", "checkout"}
    BY <1>4, <2>0, <2>1 DEF EditOffer, RefreshQuote, SelectOffer,
      SetAddOn
  <2>4. HandlersKnow' /\ OwnedOrder(p)' = o
    BY <1>1, <2>2, <2>3, RememberKnows
  <2>5. OrderOK(o)' /\ OrderOK(row)' /\ MayFollow(row.status, o.status)
    BY <1>2, <1>3, <2>2 DEF OrderOK, MayFollow, PaidStatus
  <2>6. SaleIsRecorded'
    BY <1>3 DEF SafeInv, DataInv, SaleIsRecorded
  <2>7. \A s \in Sessions : Payable(s)' => Payable(s)
    BY <1>3 DEF Payable
  <2>. QED
    BY <1>2, <1>3, <2>4, <2>5, <2>6, <2>7, CopyMovesOn DEF SafeInv
<1>5. CASE req[r].kind = "set_add_on"
  <2>1. Finish(r) /\ UNCHANGED <<store, upstream>>
    BY <1>5 DEF EditOffer, RefreshQuote, SelectOffer,
      SetAddOn, store
  <2>. QED
    BY <1>1, <2>1, SameData, FinishKnows DEF SafeInv
<1>. QED
  BY <1>4, <1>5

LEMMA ReleaseOfferStep ==
  ASSUME NEW p, Replicas = {p}, SafeInv, TypeInv', NEW r \in Requests, ReleaseOffer(r)
  PROVE  HandlersKnow' /\ DataInv'
<1>0. PICK o : o = [req[r].copy EXCEPT !.status = "cancelled"]
  OBVIOUS
<1>1. req[r].pc = "call" /\ req[r].pc \in Loaded /\ req[r].kind = "cancel_order"
  BY DEF ReleaseOffer, Loaded
<1>2. req[r].copy.status = "draft" /\ req[r].copy = OwnedOrder(p) /\ OwnedOrder(p) \in Order
      /\ row.status = "draft" /\ OrderOK(row)
  BY <1>1, AtWork DEF HandlerKnows, MayFollow
<1>3. o \in Order /\ o.status = "cancelled"
  BY <1>0, <1>2 DEF Order, Status
<1>4. OrderOK(o)' /\ OrderOK(row)' /\ MayFollow(row.status, o.status)
  BY <1>2, <1>3 DEF OrderOK, MayFollow, PaidStatus, ReleaseOffer
<1>5. SaleIsRecorded'
  BY DEF ReleaseOffer, SafeInv, DataInv, SaleIsRecorded
<1>6. \A s \in Sessions : Payable(s)' => Payable(s)
  BY DEF ReleaseOffer, Payable
<1>7. CASE Remember(r, o)
  <2>1. HandlersKnow' /\ OwnedOrder(p)' = o
    BY <1>1, <1>3, <1>7, RememberKnows
  <2>. QED
    BY <1>2, <1>4, <1>5, <1>6, <2>1, CopyMovesOn DEF ReleaseOffer, SafeInv
<1>8. CASE Finish(r) /\ UNCHANGED memory
  <2>0. PICK m : m = OwnedOrder(p)
    OBVIOUS
  <2>1. row' = row /\ OwnedOrder(p)' = m
    BY <1>8, <2>0 DEF ReleaseOffer, OwnedOrder
  <2>2. OrderOK(m)'
    BY <1>2, <2>0 DEF OrderOK, PaidStatus
  <2>3. DataInv'
    BY <1>2, <1>4, <1>5, <1>6, <2>0, <2>1, <2>2, CopyMovesOn DEF SafeInv, MayFollow
  <2>. QED
    BY <1>1, <1>8, <2>3, FinishKnows DEF SafeInv
<1>. QED
  BY <1>0, <1>7, <1>8 DEF ReleaseOffer

LEMMA CreateCheckoutStep ==
  ASSUME NEW p, Replicas = {p}, SafeInv, TypeInv', NEW r \in Requests, CreateCheckout(r)
  PROVE  HandlersKnow' /\ DataInv'
<1>. DEFINE c == req[r].copy
<1>1. req[r].pc = "call" /\ req[r].pc \in Loaded /\ req[r].kind = "checkout"
  BY DEF CreateCheckout, Loaded
<1>2. c.status = "draft" /\ c = OwnedOrder(p) /\ OwnedOrder(p) \in Order
      /\ row.status = "draft" /\ OrderOK(row)
  BY <1>1, AtWork DEF HandlerKnows, MayFollow
<1>3. PICK s \in Sessions :
        /\ session[s].state = "unused"
        /\ session' = [session EXCEPT ![s] = [state |-> "created", amount |-> c.amount]]
        /\ \/ Remember(r, [c EXCEPT !.status = "checkout_pending", !.session = s])
           \/ Finish(r) /\ UNCHANGED memory
  BY DEF CreateCheckout
<1>0. PICK o : o = [c EXCEPT !.status = "checkout_pending", !.session = s]
  OBVIOUS
<1>4. o \in Order /\ o.status = "checkout_pending" /\ o.session = s /\ o.amount = c.amount
  BY <1>0, <1>2 DEF Order, Status
<1>5. session'[s] = [state |-> "created", amount |-> c.amount]
      /\ \A t \in Sessions : t # s => session'[t] = session[t]
  BY <1>3 DEF SafeInv, Base, TypeInv, TypeOK
<1>6. OrderOK(o)' /\ OrderOK(row)' /\ MayFollow(row.status, o.status)
  BY <1>2, <1>4, <1>5 DEF OrderOK, MayFollow, PaidStatus, CreateCheckout
<1>7. SaleIsRecorded'
  BY DEF CreateCheckout, SafeInv, DataInv, SaleIsRecorded
<1>8. \A t \in Sessions : Payable(t)' => Payable(t)
  BY <1>5 DEF Payable
<1>9. CASE Remember(r, o)
  <2>1. HandlersKnow' /\ OwnedOrder(p)' = o
    BY <1>1, <1>4, <1>5, <1>9, RememberKnows
  <2>. QED
    BY <1>2, <1>6, <1>7, <1>8, <2>1, CopyMovesOn DEF CreateCheckout, SafeInv
<1>10. CASE Finish(r) /\ UNCHANGED memory
  <2>0. PICK m : m = OwnedOrder(p)
    OBVIOUS
  <2>1. row' = row /\ OwnedOrder(p)' = m
    BY <1>10, <2>0 DEF CreateCheckout, OwnedOrder
  <2>2. OrderOK(m)'
    BY <1>2, <2>0 DEF OrderOK, PaidStatus
  <2>3. DataInv'
    BY <1>2, <1>6, <1>7, <1>8, <2>0, <2>1, <2>2, CopyMovesOn DEF SafeInv, MayFollow
  <2>. QED
    BY <1>1, <1>10, <2>3, FinishKnows DEF SafeInv
<1>. QED
  BY <1>0, <1>3, <1>9, <1>10

LEMMA VerifySettledStep ==
  ASSUME NEW p, Replicas = {p}, SafeInv, TypeInv', NEW r \in Requests, VerifySettled(r)
  PROVE  HandlersKnow' /\ DataInv'
<1>1. req[r].pc = "verify" /\ req[r].pc \in Loaded
  BY DEF VerifySettled, Loaded
<1>2. req[r].kind = "complete" /\ req[r].copy.status = "checkout_pending"
  BY <1>1, AtWork DEF HandlerKnows
<1>3. session'[req[r].copy.session].state = "settled"
  BY DEF VerifySettled, upstream
<1>4. DataInv' /\ OwnedOrder(p)' = OwnedOrder(p)
  BY SameData DEF VerifySettled
<1>5. /\ req'[r].pc = "fix" /\ req'[r].kind = req[r].kind /\ req'[r].copy = req[r].copy
      => HandlerKnows(r)'
  BY <1>2, <1>3 DEF HandlerKnows
<1>6. HandlersKnow'
  BY <1>1, <1>4, <1>5, GotoKnows DEF VerifySettled, store, Loaded
<1>. QED
  BY <1>4, <1>6

LEMMA FixOfferStep ==
  ASSUME NEW p, Replicas = {p}, SafeInv, TypeInv', NEW r \in Requests, FixOffer(r)
  PROVE  HandlersKnow' /\ DataInv'
<1>0. PICK o : o = [req[r].copy EXCEPT !.status = "paid"]
  OBVIOUS
<1>1. req[r].pc = "fix" /\ req[r].pc \in Loaded
  BY DEF FixOffer, Loaded
<1>2. /\ req[r].kind = "complete" /\ req[r].copy.status = "checkout_pending"
      /\ session[req[r].copy.session].state = "settled"
      /\ req[r].copy = OwnedOrder(p) /\ OwnedOrder(p) \in Order
      /\ row.status \in {"draft", "checkout_pending"}
      /\ OrderOK(row) /\ OrderOK(OwnedOrder(p))
  BY <1>1, AtWork DEF HandlerKnows, MayFollow
<1>2a. row.status = "checkout_pending"
  <2>1. Payable(req[r].copy.session) /\ req[r].copy.session \in Sessions
    BY <1>2 DEF Payable, OrderOK
  <2>2. row.status \in {"checkout_pending"} \cup PaidStatus
    BY <2>1 DEF SafeInv, DataInv, PayableIsKnown
  <2>. QED
    BY <1>2, <2>2 DEF PaidStatus
<1>3. /\ o \in Order /\ o.status = "paid"
      /\ o.session = req[r].copy.session /\ o.amount = req[r].copy.amount
  BY <1>0, <1>2 DEF Order, Status
<1>4. OrderOK(o)' /\ OrderOK(row)'
  BY <1>2, <1>3 DEF OrderOK, PaidStatus, FixOffer
<1>5. sellCalls' = 0 /\ SaleIsRecorded'
  BY <1>2 DEF FixOffer, SafeInv, DataInv, SaleIsRecorded, PaidStatus, Base, TypeInv, TypeOK
<1>6. \A s \in Sessions : Payable(s)' => Payable(s)
  BY DEF FixOffer, Payable
<1>7. CASE Remember(r, o)
  <2>1. HandlersKnow' /\ OwnedOrder(p)' = o
    BY <1>1, <1>2, <1>3, <1>5, <1>7, RememberKnows
  <2>. QED
    BY <1>2, <1>2a, <1>3, <1>4, <1>5, <1>6, <2>1, CopyMovesOn DEF FixOffer, SafeInv, MayFollow
<1>8. CASE Finish(r) /\ UNCHANGED memory
  <2>0. PICK m : m = OwnedOrder(p)
    OBVIOUS
  <2>1. row' = row /\ OwnedOrder(p)' = m
    BY <1>8, <2>0 DEF FixOffer, OwnedOrder
  <2>2. OrderOK(m)' /\ MayFollow(row.status, m.status)
    BY <1>1, <1>2, <2>0, AtWork DEF OrderOK, PaidStatus, FixOffer
  <2>3. DataInv'
    BY <1>2, <1>4, <1>5, <1>6, <2>0, <2>1, <2>2, CopyMovesOn DEF SafeInv
  <2>. QED
    BY <1>1, <1>8, <2>3, FinishKnows DEF SafeInv
<1>. QED
  BY <1>0, <1>7, <1>8 DEF FixOffer

LEMMA SellTicketsStep ==
  ASSUME NEW p, Replicas = {p}, SafeInv, TypeInv', NEW r \in Requests, SellTickets(r)
  PROVE  HandlersKnow' /\ DataInv'
<1>0. PICK o : o = [req[r].copy EXCEPT !.status = "issuance_failed"]
  OBVIOUS
<1>0a. PICK m : m = OwnedOrder(p)
  OBVIOUS
<1>1. req[r].pc = "sell" /\ req[r].pc \in Loaded
  BY DEF SellTickets, Loaded
<1>2. /\ req[r].kind = "complete" /\ req[r].copy.status = "paid" /\ sellCalls = 0
      /\ req[r].copy = m /\ m \in Order /\ row = m
      /\ OrderOK(row)
  BY <1>0a, <1>1, AtWork DEF HandlerKnows, SafeInv, HandlersKnow, CopyIsCurrent
<1>3. /\ o \in Order /\ o.status = "issuance_failed"
      /\ o.session = m.session /\ o.amount = m.amount
  BY <1>0, <1>2 DEF Order, Status
<1>4. booking \in {"fixed", "sold"} /\ booking' \in {"fixed", "sold"}
  BY <1>2 DEF OrderOK, PaidStatus, SellTickets
<1>5. OrderOK(o)' /\ OrderOK(m)' /\ OrderOK(row)'
  BY <1>2, <1>3, <1>4 DEF OrderOK, PaidStatus, SellTickets
<1>6. sellCalls' = 1 /\ SaleIsRecorded'
  BY <1>2 DEF SellTickets, SaleIsRecorded, PaidStatus
<1>7. \A s \in Sessions : Payable(s)' => Payable(s)
  BY DEF SellTickets, Payable
<1>8. CASE Remember(r, o)
  <2>1. HandlersKnow' /\ OwnedOrder(p)' = o
    BY <1>1, <1>2, <1>3, <1>8, RememberKnows
  <2>. QED
    BY <1>0a, <1>2, <1>3, <1>5, <1>6, <1>7, <2>1, CopyMovesOn
    DEF SellTickets, SafeInv, MayFollow
<1>9. CASE Goto(r, "persist") /\ UNCHANGED memory /\ booking' = "sold"
  <2>1. OwnedOrder(p)' = m
    BY <1>0a, <1>9 DEF OwnedOrder, SellTickets
  <2>2. DataInv'
    BY <1>0a, <1>2, <1>5, <1>6, <1>7, <2>1, CopyMovesOn DEF SellTickets, SafeInv, MayFollow
  <2>3. /\ req'[r].pc = "persist" /\ req'[r].kind = req[r].kind /\ req'[r].copy = req[r].copy
        => HandlerKnows(r)'
    BY <1>2, <1>9 DEF HandlerKnows
  <2>4. HandlersKnow'
    BY <1>0a, <1>1, <1>9, <2>1, <2>3, GotoKnows DEF Loaded
  <2>. QED
    BY <2>2, <2>4
<1>. QED
  BY <1>0, <1>8, <1>9 DEF SellTickets

LEMMA LookupSoldStep ==
  ASSUME NEW p, Replicas = {p}, SafeInv, TypeInv', NEW r \in Requests, LookupSold(r)
  PROVE  HandlersKnow' /\ DataInv'
<1>1. req[r].pc = "lookup" /\ req[r].pc \in Loaded
  BY DEF LookupSold, Loaded
<1>2. DataInv' /\ OwnedOrder(p)' = OwnedOrder(p)
  BY SameData DEF LookupSold
<1>3. CASE booking = "sold"
  <2>1. /\ req'[r].pc = "persist" /\ req'[r].kind = req[r].kind /\ req'[r].copy = req[r].copy
        => HandlerKnows(r)'
    BY <1>1, <1>3, AtWork DEF HandlerKnows, LookupSold, upstream
  <2>. QED
    BY <1>1, <1>2, <1>3, <2>1, GotoKnows DEF LookupSold, store, Loaded
<1>4. CASE booking # "sold"
  BY <1>1, <1>2, <1>4, FinishKnows DEF LookupSold, SafeInv
<1>. QED
  BY <1>3, <1>4

LEMMA PersistTicketStep ==
  ASSUME NEW p, Replicas = {p}, SafeInv, TypeInv', NEW r \in Requests, PersistTicket(r)
  PROVE  HandlersKnow' /\ DataInv'
<1>. USE DEF upstream
<1>0. PICK m : m = OwnedOrder(p)
  OBVIOUS
<1>1. req[r].pc = "persist" /\ req[r].pc \in Loaded
  BY DEF PersistTicket, Loaded
<1>2. OwnedOrder(p)' = m
  BY <1>0 DEF PersistTicket, OwnedOrder
<1>3. /\ m.status \in {"paid", "issuance_failed"} /\ row.status # "issued"
      /\ OrderOK(row) /\ OrderOK(m) /\ MayFollow(row.status, m.status)
  BY <1>0, <1>1, AtWork DEF HandlerKnows, MayFollow
<1>4. OrderOK(row)' /\ OrderOK(m)'
  BY <1>3 DEF OrderOK, PersistTicket
<1>5. SaleIsRecorded' /\ \A s \in Sessions : Payable(s)' => Payable(s)
  BY DEF PersistTicket, SaleIsRecorded, Payable, SafeInv, DataInv
<1>6. DataInv'
  BY <1>0, <1>2, <1>3, <1>4, <1>5, CopyMovesOn DEF PersistTicket, SafeInv
<1>7. HandlersKnow'
  BY DEF SafeInv, HandlersKnow, CopyIsCurrent, HandlerKnows, PersistTicket, OwnedOrder
<1>. QED
  BY <1>6, <1>7

LEMMA PersistIssuedStep ==
  ASSUME NEW p, Replicas = {p}, SafeInv, TypeInv', NEW r \in Requests, PersistIssued(r)
  PROVE  HandlersKnow' /\ DataInv'
<1>. USE DEF upstream
<1>0. PICK o : o = [req[r].copy EXCEPT !.status = "issued"]
  OBVIOUS
<1>1. req[r].pc = "persist" /\ req[r].pc \in Loaded
  BY DEF PersistIssued, Loaded
<1>2. /\ req[r].kind = "complete" /\ req[r].copy.status \in {"paid", "issuance_failed"}
      /\ booking = "sold"
      /\ req[r].copy = OwnedOrder(p) /\ OwnedOrder(p) \in Order
      /\ OrderOK(row) /\ OrderOK(OwnedOrder(p))
      /\ MayFollow(row.status, OwnedOrder(p).status)
  BY <1>1, AtWork DEF HandlerKnows
<1>3. row.status \in {"paid", "issuance_failed"}
  BY <1>2 DEF SafeInv, DataInv, SaleIsRecorded, MayFollow, PaidStatus
<1>4. /\ o \in Order /\ o.status = "issued"
      /\ o.session = req[r].copy.session /\ o.amount = req[r].copy.amount
  BY <1>0, <1>2 DEF Order, Status
<1>5. Remember(r, o)
  BY <1>0 DEF PersistIssued
<1>6. HandlersKnow' /\ OwnedOrder(p)' = o
  BY <1>1, <1>2, <1>4, <1>5, RememberKnows
<1>7. OrderOK(o)' /\ OrderOK(row)'
  BY <1>2, <1>4 DEF OrderOK, PaidStatus, PersistIssued
<1>8. SaleIsRecorded' /\ \A s \in Sessions : Payable(s)' => Payable(s)
  BY DEF PersistIssued, SaleIsRecorded, Payable, SafeInv, DataInv
<1>. QED
  BY <1>2, <1>3, <1>4, <1>6, <1>7, <1>8, CopyMovesOn DEF PersistIssued, SafeInv, MayFollow

LEMMA SaveRowStep ==
  ASSUME NEW p, Replicas = {p}, SafeInv, TypeInv', NEW r \in Requests, SaveRow(r)
  PROVE  HandlersKnow' /\ DataInv'
<1>1. req[r].pc = "row" /\ req[r].pc \in Loaded
  BY DEF SaveRow, Loaded
<1>2. req[r].copy = OwnedOrder(p) /\ memory[p] # None
  BY <1>1, AtWork DEF SafeInv, HandlersKnow, CopyIsCurrent
<1>3. OwnedOrder(p)' = OwnedOrder(p) /\ row' = OwnedOrder(p)
  BY <1>2 DEF SaveRow, OwnedOrder
<1>4. DataInv'
  BY <1>3, CopiesMeet DEF SaveRow, SafeInv
<1>5. CASE AfterSave(r) = "idle"
  BY <1>1, <1>4, <1>5, FinishKnows DEF SaveRow, SafeInv
<1>6. CASE AfterSave(r) # "idle"
  <2>1. \/ AfterSave(r) = "audit" /\ req[r].kind \in {"checkout", "cancel_order"}
        \/ AfterSave(r) = "sell" /\ req[r].kind = "complete" /\ req[r].copy.status = "paid"
    BY <1>6 DEF AfterSave
  <2>2. Goto(r, AfterSave(r)) /\ UNCHANGED memory
    BY <1>6 DEF SaveRow
  <2>3. HandlerKnows(r)
    BY <1>1, AtWork
  <2>4. PICK pc : pc = AfterSave(r)
    OBVIOUS
  <2>5. /\ req'[r].pc = pc /\ req'[r].kind = req[r].kind /\ req'[r].copy = req[r].copy
        => HandlerKnows(r)'
    BY <1>1, <2>1, <2>3, <2>4 DEF HandlerKnows, SaveRow, upstream
  <2>. QED
    BY <1>1, <1>2, <1>3, <1>4, <2>1, <2>2, <2>4, <2>5, GotoKnows DEF Loaded
<1>. QED
  BY <1>5, <1>6

LEMMA AuditStep ==
  ASSUME NEW p, Replicas = {p}, SafeInv, TypeInv', NEW r \in Requests, Audit(r)
  PROVE  HandlersKnow' /\ DataInv'
<1>1. req[r].pc = "audit" /\ req[r].pc \in Loaded
  BY DEF Audit, Loaded
<1>2. HandlersKnow'
  BY <1>1, FinishKnows DEF Audit, SafeInv
<1>3. CASE req[r].kind # "checkout"
  BY <1>2, <1>3, SameData DEF Audit, store, upstream
<1>4. CASE req[r].kind = "checkout"
  <2>0. PICK m : m = OwnedOrder(p)
    OBVIOUS
  <2>1. m.status = "checkout_pending" /\ req[r].copy = m /\ row = m /\ OrderOK(m)
    BY <1>1, <1>4, <2>0, AtWork DEF HandlerKnows, SafeInv, HandlersKnow, CopyIsCurrent
  <2>2. row' = m /\ OwnedOrder(p)' = m
    BY <2>0, <2>1 DEF Audit, OwnedOrder, store
  <2>3. m.session \in Sessions /\ session[m.session].amount = m.amount
    BY <2>1 DEF OrderOK
  <2>4. session' = [session EXCEPT ![m.session].state = "delivered"]
    BY <1>4, <2>1 DEF Audit
  <2>5. /\ session'[m.session].state = "delivered" /\ session'[m.session].amount = m.amount
        /\ \A s \in Sessions : s # m.session => session'[s] = session[s]
    BY <2>3, <2>4 DEF SafeInv, Base, TypeInv, TypeOK
  <2>6. OrderOK(m)' /\ MayFollow(m.status, m.status)
    BY <2>1, <2>3, <2>5 DEF OrderOK, PaidStatus, MayFollow
  <2>7. ASSUME NEW s \in Sessions, Payable(s)' PROVE m.session = s
    <3>1. CASE s # m.session
      <4>1. Payable(s)
        BY <2>5, <2>7, <3>1 DEF Payable
      <4>. QED
        BY <2>1, <4>1 DEF SafeInv, DataInv, PayableIsKnown
    <3>. QED
      BY <3>1
  <2>8. PayableIsKnown'
    BY <2>1, <2>2, <2>7 DEF PayableIsKnown
  <2>9. CopyAhead'
    BY <2>2, <2>6 DEF CopyAhead
  <2>10. SaleIsRecorded'
    BY DEF Audit, SafeInv, DataInv, SaleIsRecorded, store
  <2>. QED
    BY <1>2, <2>8, <2>9, <2>10 DEF DataInv
<1>. QED
  BY <1>3, <1>4

\* A handler that is torn down may leave its UPDATE of the row behind.
LEMMA SentRowsAreCurrent ==
  ASSUME NEW p, Replicas = {p}, SafeInv, NEW S \in SUBSET Requests,
         row' \in {row} \cup SentRows(S)
  PROVE  row' \in {row, OwnedOrder(p)}
<1>1. ASSUME NEW r \in S, req[r].pc = "row" PROVE req[r].copy = OwnedOrder(p)
  BY <1>1, AtWork DEF Loaded
<1>. QED
  BY <1>1 DEF SentRows

\* It leaves no trace in the other handlers, even when it was not at work yet.
LEMMA TornDown ==
  ASSUME NEW p, Replicas = {p}, SafeInv, TypeInv', NEW r \in Requests,
         req[r].pc # "idle", Finish(r), row' \in {row} \cup SentRows({r}),
         UNCHANGED <<memory, ticketRows, upstream>>
  PROVE  HandlersKnow' /\ DataInv'
<1>1. row' \in {row, OwnedOrder(p)}
  BY SentRowsAreCurrent
<1>2. OwnedOrder(p)' \in {OwnedOrder(p), row'}
  BY DEF OwnedOrder
<1>3. DataInv'
  BY <1>1, <1>2, CopiesMeet DEF SafeInv
<1>4. CASE req[r].pc # "local"
  BY <1>3, <1>4, FinishKnows DEF SafeInv
<1>5. CASE req[r].pc = "local"
  <2>1. UNCHANGED <<store, upstream>>
    BY <1>5 DEF SentRows, store
  <2>2. \A q \in Requests : req'[q] = req[q] \/ req'[q].pc \notin Loaded
    BY DEF Finish, SafeInv, Base, TypeInv, TypeOK, Idle, Loaded
  <2>. QED
    BY <1>3, <2>1, <2>2, QuietKnows DEF SafeInv
<1>. QED
  BY <1>4, <1>5

LEMMA CrashStep ==
  ASSUME NEW p, Replicas = {p}, SafeInv, TypeInv', Crash(p)
  PROVE  HandlersKnow' /\ DataInv'
<1>1. row' \in {row, OwnedOrder(p)}
  BY SentRowsAreCurrent DEF Crash
<1>2. OwnedOrder(p)' = row'
  BY DEF Crash, OwnedOrder, SafeInv, Base, TypeInv, TypeOK
<1>3. DataInv'
  BY <1>1, <1>2, CopiesMeet DEF Crash, SafeInv
<1>4. ASSUME NEW q \in Requests PROVE req'[q].pc \notin Loaded
  BY DEF Crash, SafeInv, Base, TypeInv, HandlersOK, Idle, Loaded
<1>5. HandlersKnow'
  BY <1>4 DEF HandlersKnow, CopyIsCurrent, HandlerKnows, Loaded
<1>. QED
  BY <1>3, <1>5

LEMMA CustomerPaysStep ==
  ASSUME NEW p, Replicas = {p}, SafeInv, NEW s \in Sessions, CustomerPays(s)
  PROVE  HandlersKnow' /\ DataInv'
<1>. USE DEF store
<1>1. \A t \in Sessions :
        /\ session'[t].amount = session[t].amount
        /\ session'[t].state = IF t = s THEN "settled" ELSE session[t].state
        /\ Payable(t)' => Payable(t)
  BY DEF CustomerPays, Payable, SafeInv, Base, TypeInv, TypeOK
<1>2. OwnedOrder(p)' = OwnedOrder(p)
  BY DEF CustomerPays, OwnedOrder
<1>3. ASSUME NEW o, OrderOK(o) PROVE OrderOK(o)'
  BY <1>1, <1>3 DEF OrderOK, CustomerPays, PaidStatus
<1>4. CopyAhead'
  BY <1>2, <1>3 DEF SafeInv, DataInv, CopyAhead, CustomerPays
<1>5. PayableIsKnown' /\ SaleIsRecorded'
  BY <1>1, <1>2 DEF SafeInv, DataInv, PayableIsKnown, SaleIsRecorded, CustomerPays
<1>6. ASSUME NEW q \in Requests PROVE HandlerKnows(q)'
  <2>1. HandlerKnows(q)
    BY DEF SafeInv, HandlersKnow
  <2>2. req[q].pc = "fix" => req[q].copy.session \in Sessions
    <3>1. ASSUME req[q].pc = "fix" PROVE req[q].copy.session \in Sessions
      <4>1. req[q].pc \in Loaded
        BY <3>1 DEF Loaded
      <4>2. OrderOK(req[q].copy)
        BY <4>1, AtWork
      <4>3. req[q].copy.status = "checkout_pending"
        BY <2>1, <3>1 DEF HandlerKnows
      <4>. QED
        BY <4>2, <4>3 DEF OrderOK
    <3>. QED
      BY <3>1
  <2>3. req[q].pc = "fix" => session'[req[q].copy.session].state = "settled"
    BY <1>1, <2>1, <2>2 DEF HandlerKnows
  <2>4. /\ req[q].pc \in {"row", "audit"} /\ req[q].kind = "checkout"
        => session'[req[q].copy.session].state = "created"
    <3>1. ASSUME req[q].pc \in {"row", "audit"}, req[q].kind = "checkout"
          PROVE  /\ req[q].copy.session \in Sessions
                 /\ session[req[q].copy.session].state = "created"
      BY <2>1, <3>1, AtWork DEF Loaded, HandlerKnows, OrderOK
    <3>. QED
      BY <1>1, <3>1 DEF CustomerPays
  <2>. QED
    BY <2>1, <2>3, <2>4 DEF HandlerKnows, CustomerPays
<1>7. CopyIsCurrent'
  BY DEF SafeInv, HandlersKnow, CopyIsCurrent, CustomerPays, OwnedOrder
<1>. QED
  BY <1>4, <1>5, <1>6, <1>7 DEF HandlersKnow, DataInv

\* Steps of handlers that have no order yet, and the loss of the advisory lock.
LEMMA QuietStep ==
  ASSUME NEW p, Replicas = {p}, SafeInv, TypeInv', NEW r \in Requests,
         \/ \E k \in Kinds : Begin(r, k, p)
         \/ LockLocal(r) \/ LockDatabase(r) \/ LoseGuard(r)
  PROVE  HandlersKnow' /\ DataInv'
<1>1. UNCHANGED <<store, upstream>>
  BY DEF Begin, LockLocal, LockDatabase, LoseGuard
<1>2. ASSUME NEW q \in Requests, req'[q].pc \in Loaded
      PROVE  /\ req'[q].pc = req[q].pc /\ req'[q].kind = req[q].kind
             /\ req'[q].at = req[q].at /\ req'[q].copy = req[q].copy
  <2>1. CASE q # r
    BY <2>1 DEF Begin, LockLocal, LockDatabase, LoseGuard, Goto, SafeInv, Base, TypeInv, TypeOK
  <2>2. CASE q = r
    <3>1. req \in [Requests -> Handler]
      BY DEF SafeInv, Base, TypeInv, TypeOK
    <3>2. CASE LoseGuard(r)
      BY <2>2, <3>1, <3>2 DEF LoseGuard, Handler
    <3>3. CASE LockLocal(r) \/ LockDatabase(r)
      <4>1. \E pc \in {"database", "load"}, g \in BOOLEAN :
              \/ req' = [req EXCEPT ![r].pc = pc]
              \/ req' = [req EXCEPT ![r].pc = pc, ![r].guard = g]
        BY <3>3 DEF LockLocal, LockDatabase, Goto
      <4>2. req'[r].pc \in {"database", "load"}
        BY <3>1, <4>1 DEF Handler
      <4>. QED
        BY <1>2, <2>2, <4>2 DEF Loaded
    <3>4. CASE \E k \in Kinds : Begin(r, k, p)
      BY <1>2, <2>2, <3>1, <3>4 DEF Begin, Idle, Loaded
    <3>. QED
      BY <3>2, <3>3, <3>4
  <2>. QED
    BY <2>1, <2>2
<1>. QED
  BY <1>1, <1>2, QuietKnows, SameData DEF SafeInv

-----------------------------------------------------------------------------
(* The invariant. *)

LEMMA SafeInit == ASSUME OneProcess, Init PROVE SafeInv
<1>1. PICK p : Replicas = {p}
  BY DEF OneProcess
<1>2. Base
  BY InitType DEF Base, Init, LocalMutex, Idle
<1>3. HandlersKnow
  BY DEF Init, Idle, HandlersKnow, CopyIsCurrent, HandlerKnows, Loaded
<1>4. row.status = "draft" /\ memory[p] = row
  BY <1>1 DEF Init
<1>5. OwnedOrder(p) = row
  BY <1>4 DEF OwnedOrder
<1>6. OrderOK(row) /\ MayFollow(row.status, row.status)
  BY <1>4 DEF OrderOK, PaidStatus, MayFollow
<1>7. CopyAhead
  BY <1>1, <1>5, <1>6 DEF CopyAhead
<1>8. PayableIsKnown /\ SaleIsRecorded
  BY DEF Init, PayableIsKnown, Payable, SaleIsRecorded
<1>. QED
  BY <1>2, <1>3, <1>7, <1>8 DEF SafeInv, DataInv

LEMMA SafeStep == ASSUME OneProcess, SafeInv, [Next]_vars PROVE SafeInv'
<1>1. PICK p : Replicas = {p}
  BY DEF OneProcess
<1>2. TypeInv' /\ LocalMutex'
  BY StepType, LocalMutexStep DEF SafeInv, Base
<1>3. ASSUME NEW r \in Requests, Work(r) PROVE HandlersKnow' /\ DataInv'
  <2>1. CASE CallRefused(r)
    <3>1. Finish(r) /\ UNCHANGED <<store, upstream>> /\ req[r].pc \notin {"idle", "local"}
      BY <2>1 DEF CallRefused
    <3>. QED
      BY <1>1, <1>2, <3>1, SameData, FinishKnows DEF SafeInv
  <2>. QED
    BY <1>1, <1>2, <1>3, <2>1, LoadStep, EditOfferStep, ReleaseOfferStep, CreateCheckoutStep,
       VerifySettledStep, FixOfferStep, SellTicketsStep, LookupSoldStep,
       PersistTicketStep, PersistIssuedStep, SaveRowStep, AuditStep
    DEF Work
<1>4. ASSUME NEW r \in Requests, DatabaseFails(r) \/ Drop(r)
      PROVE  HandlersKnow' /\ DataInv'
  BY <1>1, <1>2, <1>4, TornDown DEF DatabaseFails, Drop
<1>5. ASSUME UNCHANGED vars PROVE HandlersKnow' /\ DataInv'
  <2>1. UNCHANGED <<store, upstream>> /\ req' = req
    BY <1>5 DEF vars, store, upstream
  <2>. QED
    BY <1>1, <1>2, <2>1, SameData, QuietKnows DEF SafeInv, Base
<1>6. ASSUME NEW q \in Replicas, Crash(q) PROVE HandlersKnow' /\ DataInv'
  BY <1>1, <1>2, <1>6, CrashStep
<1>7. ASSUME NEW r \in Requests,
             \/ \E k \in Kinds, q \in Replicas : Begin(r, k, q)
             \/ LockLocal(r) \/ LockDatabase(r) \/ LoseGuard(r)
      PROVE  HandlersKnow' /\ DataInv'
  BY <1>1, <1>2, <1>7, QuietStep
<1>8. ASSUME NEW s \in Sessions, CustomerPays(s) PROVE HandlersKnow' /\ DataInv'
  BY <1>1, <1>2, <1>8, CustomerPaysStep
<1>9. HandlersKnow' /\ DataInv'
  <2>1. CASE \E r \in Requests :
               \/ \E k \in Kinds, q \in Replicas : Begin(r, k, q)
               \/ LockLocal(r) \/ LockDatabase(r) \/ LoseGuard(r)
    BY <1>7, <2>1
  <2>2. CASE \E r \in Requests : Work(r) \/ DatabaseFails(r) \/ Drop(r)
    BY <1>3, <1>4, <2>2
  <2>3. CASE (\E q \in Replicas : Crash(q)) \/ (\E s \in Sessions : CustomerPays(s))
    BY <1>6, <1>8, <2>3
  <2>. QED
    BY <1>5, <2>1, <2>2, <2>3 DEF Next
<1>. QED
  BY <1>2, <1>9 DEF SafeInv, Base

LEMMA SafeInvariant == ASSUME OneProcess PROVE Spec => []SafeInv
<1>1. Init => SafeInv
  BY SafeInit
<1>2. SafeInv /\ [Next]_vars => SafeInv'
  BY SafeStep
<1>. QED
  BY <1>1, <1>2, PTL DEF Spec

\* The invariant that the runs check is this one, part by part.
THEOREM InvariantHolds == ASSUME OneProcess PROVE Spec => []IInv
<1>1. SafeInv => IInv
  BY DEF SafeInv, Base, TypeInv, HandlersKnow, DataInv, IInv
<1>. QED
  BY <1>1, SafeInvariant, PTL

-----------------------------------------------------------------------------
(* The properties. *)

\* No ticket is sold that was not paid for, for the amount and with the session the
\* order names.
THEOREM SalesArePaid == ASSUME OneProcess PROVE Spec => []SoldWasPaid
<1>1. SafeInv => SoldWasPaid
  <2>. SUFFICES ASSUME SafeInv, sellCalls > 0
                PROVE  /\ row.status \in PaidStatus /\ row.session # None
                       /\ session[row.session] = [state |-> "settled", amount |-> row.amount]
    BY DEF SoldWasPaid
  <2>1. row.status \in PaidStatus
    BY DEF SafeInv, DataInv, SaleIsRecorded
  <2>2. /\ row.session \in Sessions
        /\ session[row.session].state = "settled" /\ session[row.session].amount = row.amount
    BY <2>1 DEF SafeInv, DataInv, CopyAhead, OrderOK
  <2>3. session[row.session] \in [state : SessionStates, amount : Amounts \cup {None}]
    BY <2>2 DEF SafeInv, Base, TypeInv, TypeOK
  <2>. QED
    BY <2>1, <2>2, <2>3, NoneAssumption
<1>. QED
  BY <1>1, SafeInvariant, PTL

\* sell_tickets is sent once, through every crash, retry and lost answer.
THEOREM OneSale == ASSUME OneProcess PROVE Spec => []SoldAtMostOnce
<1>1. SafeInv => SoldAtMostOnce
  BY DEF SafeInv, DataInv, SaleIsRecorded, SoldAtMostOnce
<1>. QED
  BY <1>1, SafeInvariant, PTL

\* What the customer can pay is what the order will be completed with.
THEOREM PaymentsAreKept == ASSUME OneProcess PROVE Spec => []PaymentKept
<1>1. ASSUME OneProcess, SafeInv PROVE PaymentKept
  <2>1. PICK p : Replicas = {p}
    BY <1>1 DEF OneProcess
  <2>. QED
    BY <1>1, <2>1 DEF SafeInv, DataInv, PayableIsKnown, PaymentKept
<1>. QED
  BY <1>1, SafeInvariant, PTL

\* An issued order has all its tickets in the database.
THEOREM IssuedHasTickets == ASSUME OneProcess PROVE Spec => []IssuedIsComplete
<1>1. SafeInv => IssuedIsComplete
  BY DEF SafeInv, DataInv, CopyAhead, OrderOK, IssuedIsComplete
<1>. QED
  BY <1>1, SafeInvariant, PTL

\* Every write of the row is a move forward in the order's life.
THEOREM RowsMoveForward == ASSUME OneProcess PROVE Spec => RowMovesForward
<1>1. ASSUME OneProcess, SafeInv, [Next]_vars PROVE MayFollow(row.status, row'.status)
  <2>1. PICK p : Replicas = {p}
    BY <1>1 DEF OneProcess
  <2>2. MayFollow(row.status, row.status) /\ MayFollow(row.status, OwnedOrder(p).status)
    BY <1>1, <2>1 DEF SafeInv, DataInv, CopyAhead, MayFollow
  <2>3. row' \in {row, OwnedOrder(p)}
    <3>1. ASSUME NEW r \in Requests, SaveRow(r) PROVE row' = OwnedOrder(p)
      BY <1>1, <2>1, <3>1, AtWork DEF SaveRow, Loaded
    <3>2. ASSUME NEW r \in Requests, DatabaseFails(r) \/ Drop(r)
          PROVE  row' \in {row, OwnedOrder(p)}
      BY <1>1, <2>1, <3>2, SentRowsAreCurrent DEF DatabaseFails, Drop
    <3>3. ASSUME NEW q \in Replicas, Crash(q) PROVE row' \in {row, OwnedOrder(p)}
      BY <1>1, <2>1, <3>3, SentRowsAreCurrent DEF Crash
    <3>. QED
      BY <1>1, <3>1, <3>2, <3>3
      DEF Next, Work, Begin, LockLocal, LockDatabase, LoseGuard, Load, EditOffer, RefreshQuote, SelectOffer,
        SetAddOn, ReleaseOffer,
          CreateCheckout, VerifySettled, FixOffer, SellTickets, LookupSold, CallRefused,
          PersistTicket, PersistIssued, Audit, CustomerPays, store, vars
  <2>. QED
    BY <2>2, <2>3
<1>. QED
  BY <1>1, SafeInvariant, PTL DEF RowMovesForward, Spec

\* CD is asked to release a booking for a draft only.
THEOREM ReleasesAreDrafts == ASSUME OneProcess PROVE Spec => ReleaseOnlyDraft
<1>1. ASSUME OneProcess, SafeInv, [Next]_vars, booking # "released", booking' = "released"
      PROVE  row.status = "draft"
  <2>1. PICK p : Replicas = {p}
    BY <1>1 DEF OneProcess
  <2>2. PICK r \in Requests : ReleaseOffer(r)
    BY <1>1
    DEF Next, Work, Begin, LockLocal, LockDatabase, LoseGuard, Load, EditOffer, RefreshQuote, SelectOffer,
      SetAddOn, DatabaseFails,
        CreateCheckout, VerifySettled, FixOffer, SellTickets, LookupSold, CallRefused, Drop,
        PersistTicket, PersistIssued, SaveRow, Audit, CustomerPays, Crash, upstream, vars
  <2>. QED
    BY <1>1, <2>1, <2>2, AtWork DEF ReleaseOffer, Loaded, HandlerKnows, MayFollow
<1>. QED
  BY <1>1, SafeInvariant, PTL DEF ReleaseOnlyDraft, Spec

-----------------------------------------------------------------------------
(***************************************************************************)
(* The handlers of one process implement TicketSale: every step of theirs  *)
(* is a step of the sale, or changes nothing a customer is promised.       *)
(***************************************************************************)

\* The variables of TicketSale, as the refinement mapping gives them.
Offered == \E s \in Sessions : Payable(s)
Paid == \E s \in Sessions : session[s].state = "settled"
Held == booking # "released"
Sold == sellCalls > 0
Issued == row.status = "issued"

saleVars == <<Offered, Paid, Held, Sold, Issued>>

-----------------------------------------------------------------------------
(* Which steps touch which promise.                                         *)

\* The row becomes issued only after the sale, and stays so.
LEMMA IssuedSteps ==
  ASSUME NEW p, Replicas = {p}, SafeInv, row' \in {row, OwnedOrder(p)}
  PROVE  Issued' = Issued \/ (Sold /\ Issued')
<1>1. OrderOK(OwnedOrder(p)) /\ MayFollow(row.status, OwnedOrder(p).status)
  BY DEF SafeInv, DataInv, CopyAhead
<1>2. Issued => Issued'
  BY <1>1 DEF Issued, MayFollow
<1>3. Issued' => Issued \/ Sold
  BY <1>1 DEF Issued, Sold, OrderOK, SafeInv, DataInv, SaleIsRecorded
<1>. QED
  BY <1>2, <1>3 DEF Issued

\* Steps that leave the upstream systems alone.
LEMMA UpstreamSame ==
  ASSUME UNCHANGED upstream
  PROVE  Offered' = Offered /\ Paid' = Paid /\ Held' = Held /\ Sold' = Sold
  BY DEF upstream, Offered, Paid, Held, Sold, Payable

\* Most steps change none of the promises.
LEMMA InternalSteps ==
  ASSUME UNCHANGED <<row, upstream>>
  PROVE  UNCHANGED saleVars
  BY UpstreamSame DEF saleVars, Issued

LEMMA RowSteps ==
  ASSUME NEW p, Replicas = {p}, SafeInv, row' \in {row, OwnedOrder(p)}, UNCHANGED upstream
  PROVE  [Sale!Next]_saleVars
<1>1. CASE Issued' = Issued
  BY <1>1, UpstreamSame DEF saleVars
<1>2. CASE Sold /\ Issued'
  <2>1. Issued' = TRUE
    BY <1>2 DEF Issued
  <2>2. Sale!Issue
    BY <1>2, <2>1, UpstreamSame DEF Sale!Issue, Offered, Paid, Held, Sold, Issued
  <2>. QED
    BY <2>2 DEF Sale!Next
<1>. QED
  BY <1>1, <1>2, IssuedSteps

LEMMA ReleaseSteps ==
  ASSUME NEW p, Replicas = {p}, SafeInv, NEW r \in Requests, ReleaseOffer(r)
  PROVE  Sale!Release
<1>1. row.status = "draft"
  BY AtWork DEF ReleaseOffer, Loaded, HandlerKnows, MayFollow
<1>2. ~ Offered
  BY <1>1 DEF Offered, SafeInv, DataInv, PayableIsKnown, PaidStatus
<1>. QED
  BY <1>2 DEF Sale!Release, Offered, ReleaseOffer, Payable

LEMMA CheckoutSteps ==
  ASSUME NEW p, Replicas = {p}, SafeInv, NEW r \in Requests, CreateCheckout(r)
  PROVE  UNCHANGED saleVars
<1>1. PICK s \in Sessions :
        /\ session[s].state = "unused"
        /\ session' = [session EXCEPT ![s] = [state |-> "created", amount |-> req[r].copy.amount]]
  BY DEF CreateCheckout
<1>2. /\ session[s].state = "unused" /\ session'[s].state = "created"
      /\ \A t \in Sessions : t # s => session'[t] = session[t]
  BY <1>1 DEF SafeInv, Base, TypeInv, TypeOK
<1>3. \A t \in Sessions : /\ Payable(t)' <=> Payable(t)
                          /\ session'[t].state = "settled" <=> session[t].state = "settled"
  BY <1>2 DEF Payable
<1>4. Offered' = Offered /\ Paid' = Paid
  BY <1>3 DEF Offered, Paid
<1>. QED
  BY <1>4 DEF CreateCheckout, saleVars, Held, Sold, Issued

LEMMA FixSteps ==
  ASSUME NEW r \in Requests, FixOffer(r)
  PROVE  UNCHANGED saleVars
  BY DEF FixOffer, saleVars, Offered, Paid, Held, Sold, Issued, Payable

LEMMA SellSteps ==
  ASSUME NEW p, Replicas = {p}, SafeInv, NEW r \in Requests, SellTickets(r)
  PROVE  Sale!Sell
<1>1. req[r].copy.status = "paid" /\ sellCalls = 0 /\ req[r].copy = row /\ OrderOK(row)
  BY AtWork DEF SellTickets, Loaded, HandlerKnows, SafeInv, HandlersKnow, CopyIsCurrent
<1>2. Paid /\ Held
  BY <1>1 DEF OrderOK, PaidStatus, Paid, Held
<1>3. ~ Sold /\ Sold' = TRUE /\ Held' = Held
  BY <1>1, <1>2 DEF Sold, Held, SellTickets
<1>4. Offered' = Offered /\ Paid' = Paid /\ Issued' = Issued
  BY DEF SellTickets, Offered, Paid, Issued, Payable
<1>. QED
  BY <1>2, <1>3, <1>4 DEF Sale!Sell, Offered, Paid, Held, Sold, Issued

\* The answer of checkout offers the session it created, to a customer who has none.
LEMMA AuditSteps ==
  ASSUME NEW p, Replicas = {p}, SafeInv, NEW r \in Requests, Audit(r)
  PROVE  [Sale!Next]_saleVars
<1>1. CASE req[r].kind # "checkout"
  BY <1>1, InternalSteps DEF Audit, store, upstream
<1>2. CASE req[r].kind = "checkout"
  <2>0. PICK s : s = req[r].copy.session
    OBVIOUS
  <2>1. /\ session[s].state = "created" /\ s \in Sessions /\ row.session = s
    BY <1>2, <2>0, AtWork
    DEF Audit, Loaded, HandlerKnows, OrderOK, SafeInv, HandlersKnow, CopyIsCurrent
  <2>2. /\ session'[s].state = "delivered"
        /\ \A t \in Sessions : t # s => session'[t] = session[t]
    BY <1>2, <2>0, <2>1 DEF Audit, SafeInv, Base, TypeInv, TypeOK
  <2>3. ~ Offered
    BY <2>1 DEF Offered, Payable, SafeInv, DataInv, PayableIsKnown
  <2>4. Offered' = TRUE
    BY <2>1, <2>2 DEF Offered, Payable
  <2>5. \A t \in Sessions : session'[t].state = "settled" <=> session[t].state = "settled"
    BY <2>1, <2>2
  <2>6. Paid' = Paid
    BY <2>5 DEF Paid
  <2>7. Sale!Offer
    BY <2>3, <2>4, <2>6 DEF Sale!Offer, Audit, store, Offered, Paid, Held, Sold, Issued
  <2>. QED
    BY <2>7 DEF Sale!Next
<1>. QED
  BY <1>1, <1>2

LEMMA PaySteps ==
  ASSUME SafeInv, NEW s \in Sessions, CustomerPays(s)
  PROVE  Sale!Pay
<1>1. /\ session[s].state = "delivered" /\ session'[s].state = "settled"
      /\ \A t \in Sessions : t # s => session'[t] = session[t]
  BY DEF CustomerPays, SafeInv, Base, TypeInv, TypeOK
<1>2. Offered /\ Offered' = TRUE /\ Paid' = TRUE
  BY <1>1 DEF Offered, Paid, Payable
<1>3. Offered = TRUE
  BY <1>2 DEF Offered
<1>. QED
  BY <1>2, <1>3 DEF Sale!Pay, CustomerPays, store, Offered, Paid, Held, Sold, Issued

-----------------------------------------------------------------------------
LEMMA RefinementInit == ASSUME Init PROVE Sale!Init
<1>1. Offered = FALSE /\ Paid = FALSE
  BY DEF Init, Offered, Paid, Payable
<1>. QED
  BY <1>1 DEF Init, Sale!Init, Offered, Paid

LEMMA RefinementStep ==
  ASSUME OneProcess, SafeInv, [Next]_vars
  PROVE  [Sale!Next]_saleVars
<1>1. PICK p : Replicas = {p}
  BY DEF OneProcess
<1>2. CASE UNCHANGED <<row, upstream>>
  BY <1>2, InternalSteps
<1>3. ASSUME NEW r \in Requests, SaveRow(r) \/ DatabaseFails(r) \/ Drop(r)
      PROVE  [Sale!Next]_saleVars
  <2>1. row' \in {row, OwnedOrder(p)} /\ UNCHANGED upstream
    BY <1>1, <1>3, AtWork, SentRowsAreCurrent DEF SaveRow, DatabaseFails, Drop, Loaded
  <2>. QED
    BY <1>1, <2>1, RowSteps
<1>4. ASSUME NEW q \in Replicas, Crash(q) PROVE [Sale!Next]_saleVars
  <2>1. row' \in {row, OwnedOrder(p)} /\ UNCHANGED upstream
    BY <1>1, <1>4, SentRowsAreCurrent DEF Crash
  <2>. QED
    BY <1>1, <2>1, RowSteps
<1>5. ASSUME NEW r \in Requests, ReleaseOffer(r) \/ SellTickets(r) PROVE [Sale!Next]_saleVars
  BY <1>1, <1>5, ReleaseSteps, SellSteps DEF Sale!Next
<1>6. ASSUME NEW r \in Requests, CreateCheckout(r) \/ FixOffer(r) \/ Audit(r)
      PROVE  [Sale!Next]_saleVars
  BY <1>1, <1>6, CheckoutSteps, FixSteps, AuditSteps
<1>7. ASSUME NEW s \in Sessions, CustomerPays(s) PROVE [Sale!Next]_saleVars
  BY <1>7, PaySteps DEF Sale!Next
<1>8. \/ UNCHANGED <<row, upstream>>
      \/ \E r \in Requests : SaveRow(r) \/ DatabaseFails(r) \/ Drop(r)
      \/ \E q \in Replicas : Crash(q)
      \/ \E r \in Requests : ReleaseOffer(r) \/ SellTickets(r)
      \/ \E r \in Requests : CreateCheckout(r) \/ FixOffer(r) \/ Audit(r)
      \/ \E s \in Sessions : CustomerPays(s)
  BY DEF Next, Work, Begin, LockLocal, LockDatabase, LoseGuard, Load, EditOffer, RefreshQuote, SelectOffer,
    SetAddOn, VerifySettled,
         LookupSold, CallRefused, PersistTicket, PersistIssued, store, upstream, vars
<1>. QED
  BY <1>2, <1>3, <1>4, <1>5, <1>6, <1>7, <1>8

\* One process of handlers, with every crash, lost answer and failed statement, keeps
\* what TicketSale promises.
THEOREM HandlersImplementSale == ASSUME OneProcess PROVE Spec => ImplementsSale
<1>1. Init => Sale!Init
  BY RefinementInit
<1>2. SafeInv /\ [Next]_vars => [Sale!Next]_(Sale!vars)
  BY RefinementStep DEF saleVars, Sale!vars, Offered, Paid, Held, Sold, Issued
<1>. QED
  BY <1>1, <1>2, SafeInvariant, PTL DEF Spec, ImplementsSale, Sale!Spec
=============================================================================

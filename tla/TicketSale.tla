------------------------------ MODULE TicketSale ------------------------------
(***************************************************************************)
(* What the ticketing service promises the customer of one order, without  *)
(* processes, locks, copies or faults (the requirements in                 *)
(* docs/cd_ticket_api_backend_integration.md that the handlers of          *)
(* services/api/src/ticketing.rs are written for): the payment is verified *)
(* before the one signed sale, a booking is released only while the        *)
(* customer has nothing to pay, and an issued order was sold.              *)
(***************************************************************************)

VARIABLES
  offered,  \* the customer has been given a checkout session
  paid,     \* the customer's payment is settled
  held,     \* CD still holds the booking
  sold,     \* the signed sale was sent
  issued    \* the order is recorded as issued

vars == <<offered, paid, held, sold, issued>>

Init ==
  /\ offered = FALSE /\ paid = FALSE /\ sold = FALSE /\ issued = FALSE
  /\ held = TRUE

\* A checkout session is handed out: once.
Offer ==
  /\ ~ offered
  /\ offered' = TRUE
  /\ UNCHANGED <<paid, held, sold, issued>>

Pay ==
  /\ offered
  /\ paid' = TRUE
  /\ UNCHANGED <<offered, held, sold, issued>>

\* The booking goes back to CD, unless the customer can pay for it.
Release ==
  /\ ~ offered
  /\ held' = FALSE
  /\ UNCHANGED <<offered, paid, sold, issued>>

\* The one sale, of a booking that is paid for and still held.
Sell ==
  /\ paid /\ held /\ ~ sold
  /\ sold' = TRUE
  /\ UNCHANGED <<offered, paid, held, issued>>

Issue ==
  /\ sold
  /\ issued' = TRUE
  /\ UNCHANGED <<offered, paid, held, sold>>

Next == Offer \/ Pay \/ Release \/ Sell \/ Issue

Spec == Init /\ [][Next]_vars

=============================================================================

--------------------------- MODULE AccountProofs ---------------------------
(***************************************************************************)
(* What is kept for an account, for any number of requests, tokens, phones, *)
(* routes, subscriptions, reports and delivery loops.                      *)
(*                                                                         *)
(* Push notifications: under every crash and lost answer a notification is *)
(* repeated only where the worker could not know better, temporary refusals *)
(* are bounded by the budget, and an outcome is final.  The one hypothesis, *)
(* ~Slow, is that a live worker answers before its lease ends, as the      *)
(* timeouts of its HTTP client see to.                                     *)
(*                                                                         *)
(* Credentials: a token is exchanged once, and a session that outlives a   *)
(* change of the password, a reset or the deletion of the account belongs  *)
(* to a request that was under way at it.                                  *)
(*                                                                         *)
(* Saved routes: whoever holds the version of a route that the server      *)
(* holds has what the server has, so that a write that expects this        *)
(* version overwrites nothing its phone has not seen.                      *)
(***************************************************************************)
EXTENDS PushDelivery, AccountSessions, SavedRoutes, TLAPS

-----------------------------------------------------------------------------
(* Push notifications: the queue.                                           *)

Statuses == {"none", "pending", "retry", "sending", "delivered", "failed"}
Results == {"delivered", "invalid", "failed", "retry", "unconfigured"}

EventRow == [status : Statuses, attempts : Nat, due : BOOLEAN]

Hand ==
    [at : {"look", "claim"}]
    \cup [at : {"send"}, event : Events, attempts : Nat]
    \cup [at : {"record"}, event : Events, attempts : Nat, result : Results]

TypeInv ==
    /\ account \in [Users -> {"alive", "deleted"}]
    /\ device \in [Devices -> {"none", "enabled", "disabled"}]
    /\ sub \in [Subs -> {"none", "open", "expired", "ended"}]
    /\ client \in [Clients -> Requests]
    /\ delivery \in [Events -> EventRow]
    /\ worker \in [Workers -> Hand]
    /\ batch \subseteq Events
    /\ faults \in Nat
    /\ accepted \in [Events -> Nat]
    /\ unknown \in [Events -> Nat]
    /\ refused \in [Events -> Nat]

\* The account a notification is for was deleted.
Dead(e) == account[OwnerOf(e[1])] = "deleted"

\* Nothing of a deleted account's subscriptions is left or under way.
DeletedIsGone ==
    \A s \in Subs : account[OwnerOf(s)] = "deleted" =>
      /\ sub[s] = "none"
      /\ \A c \in Clients : ~(client[c].op = "create" /\ client[c].on = s)

\* A row is in the hands of one loop, and says so.
HeldOnce(e) ==
    /\ \A v, w \in Workers : Holds(v, e) /\ Holds(w, e) => v = w
    /\ \A w \in Workers : Holds(w, e) =>
         Dead(e) \/ (delivery[e].status = "sending" /\ ~delivery[e].due)

\* What the provider took and the worker knows of is written, or about to be.
TakenIsKnown(e) ==
    /\ accepted[e] <= 1 + unknown[e]
    /\ accepted[e] > unknown[e] =>
         /\ \A w \in Workers : Holds(w, e) =>
              worker[w].at = "record" /\ worker[w].result = "delivered"
         /\ \/ Dead(e)
            \/ delivery[e].status = "delivered"
            \/ \E w \in Workers : Holds(w, e)

\* Each refusal has used an attempt of its own, and one is left to a row that
\* may still be sent.
Budget(e) ==
    /\ refused[e] <= AttemptLimit
    /\ delivery[e].status = "none" => Dead(e) \/ refused[e] = 0
    /\ delivery[e].status \in {"pending", "retry", "sending"} =>
         refused[e] < AttemptLimit /\ refused[e] <= delivery[e].attempts
    /\ \A w \in Workers : Holds(w, e) =>
         /\ refused[e] < AttemptLimit
         /\ \/ Dead(e)
            \/ /\ worker[w].attempts = delivery[e].attempts
               /\ refused[e] < delivery[e].attempts

EventOK(e) ==
    /\ Dead(e) => delivery[e].status = "none"
    /\ HeldOnce(e) /\ TakenIsKnown(e) /\ Budget(e)

IInv == TypeInv /\ DeletedIsGone /\ \A e \in Events : EventOK(e)

-----------------------------------------------------------------------------
(* The data.                                                                *)

\* An event is raised for a subscription.
LEMMA EventSub == \A e \in Events : e[1] \in Subs
<1> SUFFICES ASSUME NEW e \in Events PROVE e[1] \in Subs
  OBVIOUS
<1>1. PICK s \in Subs, r \in Records : e \in EventsOf(s, r)
  BY DEF Events
<1>2. \/ e = <<s, "trip_cancelled">> \/ e = <<s, "significant_delay">>
      \/ e = <<s, "platform_changed", r.stop>> \/ e = <<s, "connection_at_risk">>
  BY <1>1, Zenon DEF EventsOf
<1>. QED
  BY <1>2

LEMMA OwnerIsUser == \A s \in Subs : OwnerOf(s) \in Users
  BY DevicesAssumption DEF OwnerOf, DevicesAssumption

LEMMA HandFacts ==
  ASSUME NEW h \in Hand
  PROVE  /\ h.at \in {"look", "claim", "send", "record"}
         /\ h.at \in {"send", "record"} => h.event \in Events /\ h.attempts \in Nat
         /\ h.at = "record" => h.result \in Results
  BY DEF Hand

LEMMA Hands ==
  /\ [at |-> "look"] \in Hand
  /\ [at |-> "claim"] \in Hand
  /\ \A e \in Events, n \in Nat :
       /\ [at |-> "send", event |-> e, attempts |-> n] \in Hand
       /\ \A result \in Results :
            [at |-> "record", event |-> e, attempts |-> n, result |-> result] \in Hand
  BY DEF Hand

\* A row with one column or all of them written is a row.
LEMMA Rows ==
  /\ NoRow \in EventRow
  /\ \A status \in Statuses, n \in Nat, due \in BOOLEAN :
       [status |-> status, attempts |-> n, due |-> due] \in EventRow
  BY DEF NoRow, EventRow, Statuses

LEMMA RowWrite ==
  ASSUME NEW r \in EventRow
  PROVE  /\ \A status \in Statuses :
              [r EXCEPT !.status = status] \in EventRow
         /\ \A due \in BOOLEAN : [r EXCEPT !.due = due] \in EventRow
  BY Zenon DEF EventRow

LEMMA EventColumns ==
  ASSUME NEW r \in EventRow
  PROVE  /\ r.status \in Statuses /\ r.attempts \in Nat /\ r.due \in BOOLEAN
         /\ \A status \in Statuses :
              /\ [r EXCEPT !.status = status].status = status
              /\ [r EXCEPT !.status = status].attempts = r.attempts
              /\ [r EXCEPT !.status = status].due = r.due
         /\ \A due \in BOOLEAN :
              /\ [r EXCEPT !.due = due].status = r.status
              /\ [r EXCEPT !.due = due].attempts = r.attempts
              /\ [r EXCEPT !.due = due].due = due
  BY DEF EventRow

LEMMA Classified ==
  ASSUME NEW platform, NEW answer
  PROVE  /\ Classify(platform, answer) \in Results
         /\ Classify(platform, answer) = "delivered" <=> answer = "ok"
         /\ Classify(platform, answer) # "unconfigured"
  BY DEF Classify, Results

\* Handing a loop something else leaves the other loops alone.
LEMMA HandUpdate ==
  ASSUME TypeInv, NEW w \in Workers, NEW h \in Hand, worker' = [worker EXCEPT ![w] = h]
  PROVE  /\ worker' \in [Workers -> Hand]
         /\ worker'[w] = h
         /\ \A v \in Workers : v # w => worker'[v] = worker[v]
         /\ \A v \in Workers, e \in Events : v # w => (Holds(v, e)' <=> Holds(v, e))
  BY DEF TypeInv, Holds

\* A notification whose row, counts and holders a step leaves alone.
LEMMA Untouched ==
  ASSUME NEW e \in Events, EventOK(e), Dead(e)' <=> Dead(e),
         delivery'[e] = delivery[e], accepted'[e] = accepted[e],
         unknown'[e] = unknown[e], refused'[e] = refused[e],
         \A w \in Workers : Holds(w, e)' <=> Holds(w, e),
         \A w \in Workers : Holds(w, e) => worker'[w] = worker[w]
  PROVE  EventOK(e)'
<1>1. HeldOnce(e)'
  BY DEF EventOK, HeldOnce
<1>2. TakenIsKnown(e)'
  BY DEF EventOK, TakenIsKnown
<1>3. Budget(e)'
  BY DEF EventOK, Budget
<1>. QED
  BY <1>1, <1>2, <1>3 DEF EventOK

LEMMA InitOK == Init => IInv
<1> SUFFICES ASSUME Init PROVE IInv
  OBVIOUS
<1>. USE DEF Init, DevicesInit
<1>1. TypeInv
  <2>1. Idle \in Requests
    BY DEF Requests
  <2>2. faults = 0 /\ batch = {} /\ Waiting \in Hand /\ NoRow \in EventRow
    BY Hands, Rows DEF Waiting
  <2>. QED
    BY <2>1, <2>2 DEF TypeInv
<1>2. DeletedIsGone
  BY OwnerIsUser DEF DeletedIsGone
<1>3. ASSUME NEW e \in Events PROVE EventOK(e)
  <2>1. \A w \in Workers : ~Holds(w, e)
    BY DEF Holds, Waiting
  <2>2. ~Dead(e)
    BY EventSub, OwnerIsUser DEF Dead
  <2>3. delivery[e].status = "none" /\ accepted[e] = 0 /\ unknown[e] = 0 /\ refused[e] = 0
    BY DEF NoRow
  <2>. QED
    BY <2>1, <2>2, <2>3, PushAssumption
       DEF EventOK, HeldOnce, TakenIsKnown, Budget, PushAssumption
<1>. QED
  BY <1>1, <1>2, <1>3 DEF IInv

-----------------------------------------------------------------------------
(* The handlers of the API.                                                 *)

LEMMA Ended ==
  ASSUME TypeInv, NEW S
  PROVE  /\ EndedIn(S) \in [Subs -> {"none", "open", "expired", "ended"}]
         /\ \A s \in Subs : sub[s] = "none" => EndedIn(S)[s] = "none"
  BY DEF TypeInv, EndedIn

LEMMA ClientUpdate ==
  ASSUME TypeInv, NEW c \in Clients, NEW r \in Requests,
         client' = [client EXCEPT ![c] = r]
  PROVE  /\ client' \in [Clients -> Requests]
         /\ client'[c] = r
         /\ \A k \in Clients : k # c => client'[k] = client[k]
  BY DEF TypeInv

LEMMA IdleRequest == Idle \in Requests /\ Idle.op = "idle"
  BY DEF Idle, Requests

LEMMA Checked ==
  ASSUME NEW r \in Requests, r.op = "create"
  PROVE  /\ r.on \in Subs
         /\ [r EXCEPT !.checked = TRUE] \in Requests
         /\ [r EXCEPT !.checked = TRUE].op = "create"
         /\ [r EXCEPT !.checked = TRUE].on = r.on
<1>1. r \in [op : {"create"}, on : Subs, checked : BOOLEAN]
  BY DEF Requests, Idle
<1>2. [r EXCEPT !.checked = TRUE] \in [op : {"create"}, on : Subs, checked : BOOLEAN]
  BY <1>1, Zenon
<1>3. [r EXCEPT !.checked = TRUE] \in Requests
  BY <1>2, Zenon DEF Requests
<1>. QED
  BY <1>1, <1>3

\* Devices, subscriptions and requests may change as long as a deleted account
\* gets nothing back; the queue stays as it is.
LEMMA DevicesChange ==
  ASSUME IInv, UNCHANGED account, UNCHANGED pushVars,
         device' \in [Devices -> {"none", "enabled", "disabled"}],
         sub' \in [Subs -> {"none", "open", "expired", "ended"}],
         client' \in [Clients -> Requests],
         \A s \in Subs : account[OwnerOf(s)] = "deleted" => sub'[s] = "none",
         \A c \in Clients : client'[c].op = "create" =>
           \/ client[c].op = "create" /\ client[c].on = client'[c].on
           \/ account[OwnerOf(client'[c].on)] # "deleted"
  PROVE  IInv'
<1>. USE DEF IInv, pushVars, history
<1>1. TypeInv'
  BY DEF TypeInv
<1>2. DeletedIsGone'
  BY DEF DeletedIsGone
<1>3. ASSUME NEW e \in Events PROVE EventOK(e)'
  <2>1. /\ \A w \in Workers : Holds(w, e)' <=> Holds(w, e)
        /\ Dead(e)' <=> Dead(e)
    BY DEF Holds, Dead
  <2>. QED
    BY <2>1, Untouched
<1>. QED
  BY <1>1, <1>2, <1>3

LEMMA DevicesKeep ==
  ASSUME IInv, DevicesStep, UNCHANGED pushVars
  PROVE  IInv'
<1>. USE IdleRequest
<1>. TypeInv /\ DeletedIsGone
  BY DEF IInv
<1>1. ASSUME NEW c \in Clients, NEW r \in Authenticated, CurrentUser(c, r) PROVE IInv'
  <2>1. r \in Requests /\ client' = [client EXCEPT ![c] = r]
        /\ account[Caller(r)] = "alive" /\ UNCHANGED <<account, device, sub>>
    BY <1>1 DEF CurrentUser, Authenticated
  <2>2. r.op = "create" => Caller(r) = OwnerOf(r.on)
    BY DEF Caller
  <2>3. /\ client' \in [Clients -> Requests]
        /\ client'[c] = r /\ \A k \in Clients : k # c => client'[k] = client[k]
    BY <2>1, ClientUpdate
  <2>4. \A s \in Subs : account[OwnerOf(s)] = "deleted" => sub'[s] = "none"
    BY <2>1 DEF DeletedIsGone
  <2>5. ASSUME NEW k \in Clients, client'[k].op = "create"
        PROVE  \/ client[k].op = "create" /\ client[k].on = client'[k].on
               \/ account[OwnerOf(client'[k].on)] # "deleted"
    BY <2>1, <2>2, <2>3, <2>5
  <2>. QED
    BY <2>1, <2>3, <2>4, <2>5, DevicesChange DEF TypeInv
<1>2. ASSUME NEW c \in Clients, Answered(c), UNCHANGED account,
             device' \in [Devices -> {"none", "enabled", "disabled"}],
             sub' \in [Subs -> {"none", "open", "expired", "ended"}],
             \A s \in Subs : account[OwnerOf(s)] = "deleted" => sub'[s] = "none"
      PROVE  IInv'
  <2>1. /\ client' \in [Clients -> Requests]
        /\ client'[c] = Idle /\ \A k \in Clients : k # c => client'[k] = client[k]
    BY <1>2, ClientUpdate DEF Answered
  <2>2. ASSUME NEW k \in Clients, client'[k].op = "create"
        PROVE  client[k].op = "create" /\ client[k].on = client'[k].on
    BY <2>1, <2>2
  <2>. QED
    BY <1>2, <2>1, <2>2, DevicesChange
<1>3. \A s \in Subs : account[OwnerOf(s)] = "deleted" => sub[s] = "none"
  BY DEF DeletedIsGone
<1>4. ASSUME NEW c \in Clients, RegisterDevice(c) PROVE IInv'
  <2>1. device' \in [Devices -> {"none", "enabled", "disabled"}]
    BY <1>4 DEF RegisterDevice, TypeInv
  <2>. QED
    BY <1>2, <1>3, <1>4, <2>1 DEF RegisterDevice, TypeInv
<1>5. ASSUME NEW c \in Clients, DeleteDevice(c) PROVE IInv'
  <2>1. /\ device' \in [Devices -> {"none", "enabled", "disabled"}]
        /\ \/ sub' = sub
           \/ \E S \in {SubsOn(d) : d \in {client[c].on}} : sub' = EndedIn(S)
    BY <1>5 DEF DeleteDevice, TypeInv
  <2>2. /\ sub' \in [Subs -> {"none", "open", "expired", "ended"}]
        /\ \A s \in Subs : sub[s] = "none" => sub'[s] = "none"
    BY <2>1, Ended DEF TypeInv
  <2>3. Answered(c) /\ UNCHANGED account
    BY <1>5 DEF DeleteDevice
  <2>. QED
    BY <1>2, <1>3, <2>1, <2>2, <2>3
<1>6. ASSUME NEW c \in Clients, CheckDevice(c) PROVE IInv'
  <2>1. CASE Answered(c)
    BY <1>2, <1>3, <1>6, <2>1 DEF CheckDevice, TypeInv
  <2>2. CASE client' = [client EXCEPT ![c].checked = TRUE]
    <3>1. client[c] \in Requests /\ client[c].op = "create"
      BY <1>6 DEF CheckDevice, TypeInv
    <3>. DEFINE r == [client[c] EXCEPT !.checked = TRUE]
    <3>2. client' = [client EXCEPT ![c] = r]
      BY <2>2 DEF TypeInv
    <3>3. r \in Requests /\ r.op = "create" /\ r.on = client[c].on
      BY <3>1, Checked
    <3>. HIDE DEF r
    <3>4. /\ client' \in [Clients -> Requests]
          /\ client'[c] = r /\ \A k \in Clients : k # c => client'[k] = client[k]
      BY <3>2, <3>3, ClientUpdate
    <3>5. ASSUME NEW k \in Clients, client'[k].op = "create"
          PROVE  client[k].op = "create" /\ client[k].on = client'[k].on
      BY <3>1, <3>3, <3>4, <3>5
    <3>. QED
      BY <1>3, <1>6, <3>4, <3>5, DevicesChange DEF CheckDevice, TypeInv
  <2>. QED
    BY <1>6, <2>1, <2>2 DEF CheckDevice
<1>7. ASSUME NEW c \in Clients, InsertSubscription(c) PROVE IInv'
  <2>1. client[c].on \in Subs /\ account[OwnerOf(client[c].on)] # "deleted"
    <3>1. client[c] \in Requests /\ client[c].op = "create"
      BY <1>7 DEF InsertSubscription, TypeInv
    <3>. QED
      BY <3>1, Checked DEF DeletedIsGone
  <2>2. sub' = [sub EXCEPT ![client[c].on] = "open"]
        /\ Answered(c) /\ UNCHANGED <<account, device>>
    BY <1>7 DEF InsertSubscription
  <2>3. /\ sub' \in [Subs -> {"none", "open", "expired", "ended"}]
        /\ \A s \in Subs : account[OwnerOf(s)] = "deleted" => sub'[s] = "none"
    BY <1>3, <2>1, <2>2 DEF TypeInv
  <2>. QED
    BY <1>2, <2>2, <2>3 DEF TypeInv
<1>8. ASSUME NEW c \in Clients, DeleteSubscription(c) PROVE IInv'
  BY <1>2, <1>3, <1>8, Ended DEF DeleteSubscription, TypeInv
<1>9. ASSUME NEW u \in Users, Logout(u) PROVE IInv'
  BY <1>3, <1>9, Ended, DevicesChange DEF Logout, TypeInv
<1>10. ASSUME NEW s \in Subs, Expire(s) PROVE IInv'
  <2>1. /\ sub' \in [Subs -> {"none", "open", "expired", "ended"}]
        /\ \A q \in Subs : sub[q] = "none" => sub'[q] = "none"
    BY <1>10 DEF Expire, TypeInv
  <2>. QED
    BY <1>3, <1>10, <2>1, DevicesChange DEF Expire, TypeInv
<1>. QED
  BY <1>1, <1>4, <1>5, <1>6, <1>7, <1>8, <1>9, <1>10 DEF DevicesStep

\* The deletion of an account: its notifications are dead, the others untouched.
LEMMA DeleteAccountKeeps ==
  ASSUME IInv, NEW c \in Clients, DeleteAccount(c)
  PROVE  IInv'
<1>. TypeInv /\ DeletedIsGone
  BY DEF IInv
<1>. DEFINE u == client[c].on
<1>1. client[c] \in Requests /\ client[c].op = "delete"
  BY DEF DeleteAccount, DeleteMe, TypeInv
<1>2. u \in Users
  BY <1>1 DEF Requests, Idle
<1>. HIDE DEF u
<1>3. /\ account' = [account EXCEPT ![u] = "deleted"]
      /\ device' = [d \in Devices |-> IF UserOf[d] = u THEN "none" ELSE device[d]]
      /\ sub' = [s \in Subs |-> IF OwnerOf(s) = u THEN "none" ELSE sub[s]]
      /\ client' = [k \in Clients |->
           IF \/ k = c
              \/ client[k].op \in {"disable", "end", "create"} /\ Caller(client[k]) = u
           THEN Idle ELSE client[k]]
      /\ delivery' = [e \in Events |-> IF OwnerOf(e[1]) = u THEN NoRow ELSE delivery[e]]
      /\ UNCHANGED <<worker, batch, faults, accepted, unknown, refused>>
  BY DEF DeleteAccount, DeleteMe, history, u
<1>4. TypeInv'
  <2>1. /\ account' \in [Users -> {"alive", "deleted"}]
        /\ device' \in [Devices -> {"none", "enabled", "disabled"}]
        /\ sub' \in [Subs -> {"none", "open", "expired", "ended"}]
    BY <1>3 DEF TypeInv
  <2>2. client' \in [Clients -> Requests]
    BY <1>3, IdleRequest DEF TypeInv
  <2>3. delivery' \in [Events -> EventRow]
    BY <1>3, Rows DEF TypeInv
  <2>. QED
    BY <1>3, <2>1, <2>2, <2>3 DEF TypeInv
<1>5. DeletedIsGone'
  <2>. SUFFICES ASSUME NEW s \in Subs, account'[OwnerOf(s)] = "deleted"
                PROVE  /\ sub'[s] = "none"
                       /\ \A k \in Clients :
                            ~(client'[k].op = "create" /\ client'[k].on = s)
    BY DEF DeletedIsGone, OwnerOf
  <2>1. account[OwnerOf(s)] = "deleted" \/ OwnerOf(s) = u
    BY <1>2, <1>3, OwnerIsUser DEF TypeInv
  <2>2. sub'[s] = "none"
    BY <1>3, <2>1 DEF DeletedIsGone
  <2>3. ASSUME NEW k \in Clients, client'[k].op = "create", client'[k].on = s PROVE FALSE
    <3>1. client'[k] = client[k] /\ ~(client[k].op = "create" /\ Caller(client[k]) = u)
      BY <1>3, <2>3, IdleRequest
    <3>2. Caller(client[k]) = OwnerOf(s)
      BY <2>3, <3>1 DEF Caller
    <3>. QED
      BY <2>1, <2>3, <3>1, <3>2 DEF DeletedIsGone
  <2>. QED
    BY <2>2, <2>3
<1>6. ASSUME NEW e \in Events PROVE EventOK(e)'
  <2>1. e[1] \in Subs /\ OwnerOf(e[1]) \in Users /\ EventOK(e)
    BY EventSub, OwnerIsUser DEF IInv
  <2>2. \A w \in Workers : (Holds(w, e)' <=> Holds(w, e)) /\ worker'[w] = worker[w]
    BY <1>3 DEF Holds
  <2>3. OwnerOf(e[1])' = OwnerOf(e[1])
    BY DEF OwnerOf
  <2>4. CASE OwnerOf(e[1]) = u
    <3>1. Dead(e)' /\ delivery'[e].status = "none"
      BY <1>2, <1>3, <2>3, <2>4 DEF Dead, NoRow, TypeInv
    <3>2. HeldOnce(e)'
      BY <2>1, <2>2, <3>1 DEF EventOK, HeldOnce
    <3>3. TakenIsKnown(e)'
      BY <1>3, <2>1, <2>2, <3>1 DEF EventOK, TakenIsKnown
    <3>4. Budget(e)'
      BY <1>3, <2>1, <2>2, <3>1 DEF EventOK, Budget
    <3>. QED
      BY <3>1, <3>2, <3>3, <3>4 DEF EventOK
  <2>5. CASE OwnerOf(e[1]) # u
    <3>1. (Dead(e)' <=> Dead(e)) /\ delivery'[e] = delivery[e]
      BY <1>3, <2>1, <2>3, <2>5 DEF Dead, TypeInv
    <3>. QED
      BY <1>3, <2>1, <2>2, <3>1, Untouched
  <2>. QED
    BY <2>4, <2>5
<1>. QED
  BY <1>4, <1>5, <1>6 DEF IInv

-----------------------------------------------------------------------------
(* The queue.                                                               *)

\* A step on one notification has that notification to answer for.
LEMMA OneEvent ==
  ASSUME IInv, TypeInv', UNCHANGED <<account, client>>,
         \A s \in Subs : sub[s] = "none" => sub'[s] = "none",
         NEW e \in Events, EventOK(e)',
         \A f \in Events : f # e =>
           /\ delivery'[f] = delivery[f] /\ accepted'[f] = accepted[f]
           /\ unknown'[f] = unknown[f] /\ refused'[f] = refused[f]
           /\ \A w \in Workers :
                (Holds(w, f)' <=> Holds(w, f)) /\ (Holds(w, f) => worker'[w] = worker[w])
  PROVE  IInv'
<1>1. DeletedIsGone'
  BY DEF IInv, DeletedIsGone
<1>2. ASSUME NEW f \in Events, f # e PROVE EventOK(f)'
  <2>1. Dead(f)' <=> Dead(f)
    BY DEF Dead
  <2>. QED
    BY <1>2, <2>1, Untouched DEF IInv
<1>. QED
  BY <1>1, <1>2 DEF IInv

\* A step that changes no row, no count and nothing in a loop's hands.
LEMMA NoEvent ==
  ASSUME IInv, TypeInv', UNCHANGED <<deviceVars, delivery, accepted, unknown, refused>>,
         \A e \in Events, w \in Workers :
           (Holds(w, e)' <=> Holds(w, e)) /\ (Holds(w, e) => worker'[w] = worker[w])
  PROVE  IInv'
<1>1. DeletedIsGone'
  BY DEF IInv, DeletedIsGone, deviceVars
<1>2. ASSUME NEW e \in Events PROVE EventOK(e)'
  <2>1. Dead(e)' <=> Dead(e)
    BY DEF Dead, deviceVars
  <2>. QED
    BY <2>1, Untouched DEF IInv
<1>. QED
  BY <1>1, <1>2 DEF IInv

LEMMA ReadKeeps ==
  ASSUME IInv, NEW r \in Records, ReadSubscriptions(r)
  PROVE  IInv'
<1>1. batch' \subseteq Events
  BY DEF ReadSubscriptions, Events
<1>2. UNCHANGED <<deviceVars, delivery, worker, faults, accepted, unknown, refused>>
  BY DEF ReadSubscriptions, history
<1>3. TypeInv'
  BY <1>1, <1>2 DEF IInv, TypeInv, deviceVars
<1>4. \A e \in Events, w \in Workers : Holds(w, e)' <=> Holds(w, e)
  BY <1>2 DEF Holds
<1>. QED
  BY <1>2, <1>3, <1>4, NoEvent

LEMMA InsertKeeps ==
  ASSUME IInv, NEW e \in Events, InsertPushEvent(e)
  PROVE  IInv'
<1>. TypeInv
  BY DEF IInv
<1>1. /\ batch' \subseteq Events
      /\ UNCHANGED <<deviceVars, worker, faults, accepted, unknown, refused>>
  BY DEF InsertPushEvent, history, TypeInv
<1>2. \A f \in Events, w \in Workers : Holds(w, f)' <=> Holds(w, f)
  BY <1>1 DEF Holds
<1>3. CASE delivery' = delivery
  <2>1. TypeInv'
    BY <1>1, <1>3 DEF TypeInv, deviceVars
  <2>. QED
    BY <1>1, <1>2, <1>3, <2>1, NoEvent
<1>4. CASE delivery' # delivery
  <2>. DEFINE entry == [status |-> "pending", attempts |-> 0, due |-> TRUE]
  <2>1. /\ sub[e[1]] # "none" /\ delivery[e].status = "none"
        /\ delivery' = [delivery EXCEPT ![e] = entry]
    BY <1>4 DEF InsertPushEvent
  <2>2. entry \in EventRow /\ entry.status = "pending" /\ entry.attempts = 0
    BY Rows DEF Statuses
  <2>. HIDE DEF entry
  <2>3. TypeInv'
    BY <1>1, <2>1, <2>2 DEF TypeInv, deviceVars
  <2>4. /\ delivery'[e] = entry
        /\ \A f \in Events : f # e => delivery'[f] = delivery[f]
    BY <2>1 DEF TypeInv
  <2>5. ~Dead(e) /\ ~Dead(e)' /\ EventOK(e)
    BY <1>1, <2>1, EventSub DEF IInv, DeletedIsGone, Dead, deviceVars, OwnerOf
  <2>6. \A w \in Workers : ~Holds(w, e)
    BY <2>1, <2>5 DEF EventOK, HeldOnce
  <2>7. accepted'[e] <= unknown'[e]
    BY <1>1, <2>1, <2>5, <2>6 DEF EventOK, TakenIsKnown, TypeInv
  <2>8. refused'[e] = 0
    BY <1>1, <2>1, <2>5 DEF EventOK, Budget
  <2>9. EventOK(e)'
    <3>1. \A w \in Workers : ~Holds(w, e)'
      BY <1>2, <2>6
    <3>2. HeldOnce(e)'
      BY <3>1 DEF HeldOnce
    <3>3. TakenIsKnown(e)'
      BY <2>7, <2>3 DEF TakenIsKnown, TypeInv
    <3>4. Budget(e)'
      BY <2>2, <2>4, <2>8, <3>1, PushAssumption DEF Budget, PushAssumption
    <3>. QED
      BY <2>5, <3>2, <3>3, <3>4 DEF EventOK
  <2>. QED
    BY <1>1, <1>2, <2>3, <2>4, <2>9, OneEvent DEF deviceVars
<1>. QED
  BY <1>3, <1>4

LEMMA ComeDueKeeps ==
  ASSUME IInv, ~Slow, NEW e \in Events, ComeDue(e)
  PROVE  IInv'
<1>. TypeInv
  BY DEF IInv
<1>. DEFINE entry == [delivery[e] EXCEPT !.due = TRUE]
<1>1. delivery' = [delivery EXCEPT ![e] = entry]
  BY DEF ComeDue
<1>2. /\ entry \in EventRow
      /\ entry.status = delivery[e].status /\ entry.attempts = delivery[e].attempts
  BY RowWrite, EventColumns DEF TypeInv
<1>. HIDE DEF entry
<1>3. UNCHANGED <<deviceVars, worker, batch, faults, accepted, unknown, refused>>
  BY DEF ComeDue, history
<1>4. TypeInv'
  BY <1>1, <1>2, <1>3 DEF TypeInv, deviceVars
<1>5. /\ delivery'[e] = entry
      /\ \A f \in Events : f # e => delivery'[f] = delivery[f]
  BY <1>1 DEF TypeInv
<1>6. \A f \in Events, w \in Workers : Holds(w, f)' <=> Holds(w, f)
  BY <1>3 DEF Holds
<1>7. EventOK(e)'
  <2>1. EventOK(e) /\ (Dead(e)' <=> Dead(e))
    BY <1>3 DEF IInv, Dead, deviceVars
  <2>2. \A w \in Workers : ~Holds(w, e)
    BY <2>1 DEF ComeDue, EventOK, HeldOnce
  <2>3. HeldOnce(e)'
    BY <1>6, <2>2 DEF HeldOnce
  <2>4. TakenIsKnown(e)'
    BY <1>2, <1>3, <1>5, <1>6, <2>1, <2>2 DEF EventOK, TakenIsKnown
  <2>5. Budget(e)'
    BY <1>2, <1>3, <1>5, <1>6, <2>1, <2>2 DEF EventOK, Budget
  <2>. QED
    BY <1>2, <1>5, <2>1, <2>3, <2>4, <2>5 DEF EventOK
<1>. QED
  BY <1>3, <1>4, <1>5, <1>6, <1>7, OneEvent DEF deviceVars

\* A loop that had nothing in its hands and takes nothing.
LEMMA EmptyHands ==
  ASSUME TypeInv, NEW w \in Workers, NEW h \in Hand, worker' = [worker EXCEPT ![w] = h],
         worker[w].at \in {"look", "claim"}, h.at \in {"look", "claim"}
  PROVE  /\ worker' \in [Workers -> Hand]
         /\ \A v \in Workers, e \in Events :
              (Holds(v, e)' <=> Holds(v, e)) /\ (Holds(v, e) => worker'[v] = worker[v])
<1>1. /\ worker' \in [Workers -> Hand] /\ worker'[w] = h
      /\ \A v \in Workers : v # w => worker'[v] = worker[v]
  BY HandUpdate
<1>2. ASSUME NEW v \in Workers, NEW e \in Events
      PROVE  (Holds(v, e)' <=> Holds(v, e)) /\ (Holds(v, e) => worker'[v] = worker[v])
  BY <1>1 DEF Holds
<1>. QED
  BY <1>1, <1>2

\* A row offered again is in nobody's hands, or the lease would not be over.
LEMMA ReclaimKeeps ==
  ASSUME IInv, NEW w \in Workers, Reclaim(w)
  PROVE  IInv'
<1>. TypeInv
  BY DEF IInv
<1>1. /\ worker' \in [Workers -> Hand]
      /\ \A v \in Workers, e \in Events :
           (Holds(v, e)' <=> Holds(v, e)) /\ (Holds(v, e) => worker'[v] = worker[v])
  <2>1. [at |-> "claim"] \in Hand
    BY Hands
  <2>. QED
    BY <2>1, EmptyHands DEF Reclaim
<1>2. UNCHANGED <<deviceVars, batch, faults, accepted, unknown, refused>>
  BY DEF Reclaim, history
<1>3. ASSUME NEW e \in Events
      PROVE  /\ delivery'[e] \in EventRow
             /\ \/ delivery'[e] = delivery[e]
                \/ /\ delivery[e].status = "sending" /\ delivery[e].due
                   /\ delivery'[e].status = "retry"
                   /\ delivery'[e].attempts = delivery[e].attempts
  <2>. DEFINE entry == [delivery[e] EXCEPT !.status = "retry"]
  <2>1. /\ entry \in EventRow /\ entry.status = "retry" /\ entry.attempts = delivery[e].attempts
        /\ delivery[e] \in EventRow
    <3>1. delivery[e] \in EventRow /\ "retry" \in Statuses
      BY DEF TypeInv, Statuses
    <3>. QED
      BY <3>1, RowWrite, EventColumns
  <2>2. delivery'[e] = IF delivery[e].status = "sending" /\ delivery[e].due
                       THEN entry ELSE delivery[e]
    BY DEF Reclaim, Reclaimed
  <2>. HIDE DEF entry
  <2>. QED
    BY <2>1, <2>2
<1>4. TypeInv'
  <2>1. delivery' \in [Events -> EventRow]
    BY <1>3 DEF Reclaim, Reclaimed
  <2>. QED
    BY <1>1, <1>2, <2>1 DEF TypeInv, deviceVars
<1>5. DeletedIsGone'
  BY <1>2 DEF IInv, DeletedIsGone, deviceVars
<1>6. ASSUME NEW e \in Events PROVE EventOK(e)'
  <2>1. EventOK(e) /\ (Dead(e)' <=> Dead(e))
    BY <1>2 DEF IInv, Dead, deviceVars
  <2>2. CASE delivery'[e] = delivery[e]
    BY <1>1, <1>2, <2>1, <2>2, Untouched
  <2>3. CASE delivery'[e] # delivery[e]
    <3>1. /\ delivery[e].status = "sending" /\ delivery[e].due
          /\ delivery'[e].status = "retry"
          /\ delivery'[e].attempts = delivery[e].attempts
      BY <1>3, <2>3
    <3>2. \A v \in Workers : ~Holds(v, e) /\ ~Holds(v, e)'
      BY <1>1, <2>1, <3>1 DEF EventOK, HeldOnce
    <3>3. HeldOnce(e)'
      BY <3>2 DEF HeldOnce
    <3>4. TakenIsKnown(e)'
      BY <1>2, <2>1, <3>1, <3>2 DEF EventOK, TakenIsKnown
    <3>5. Budget(e)'
      BY <1>2, <2>1, <3>1, <3>2 DEF EventOK, Budget
    <3>. QED
      BY <2>1, <3>1, <3>3, <3>4, <3>5 DEF EventOK
  <2>. QED
    BY <2>2, <2>3
<1>. QED
  BY <1>4, <1>5, <1>6 DEF IInv

LEMMA NothingDueKeeps ==
  ASSUME IInv, NEW w \in Workers, NothingDue(w)
  PROVE  IInv'
<1>1. TypeInv /\ Waiting \in Hand /\ Waiting.at = "look"
  BY Hands DEF IInv, Waiting
<1>2. /\ worker' \in [Workers -> Hand]
      /\ \A v \in Workers, e \in Events :
           (Holds(v, e)' <=> Holds(v, e)) /\ (Holds(v, e) => worker'[v] = worker[v])
  BY <1>1, EmptyHands DEF NothingDue
<1>3. UNCHANGED <<deviceVars, delivery, batch, faults, accepted, unknown, refused>>
  BY DEF NothingDue, history
<1>4. TypeInv'
  BY <1>1, <1>2, <1>3 DEF TypeInv, deviceVars
<1>. QED
  BY <1>2, <1>3, <1>4, NoEvent

\* What is claimed is in nobody's hands, and nobody knows it as taken.
LEMMA ClaimKeeps ==
  ASSUME IInv, NEW w \in Workers, NEW e \in Events, Claim(w, e)
  PROVE  IInv'
<1>. TypeInv
  BY DEF IInv
<1>. DEFINE n == delivery[e].attempts + 1
            entry == [status |-> "sending", attempts |-> n, due |-> FALSE]
            h == [at |-> "send", event |-> e, attempts |-> n]
<1>1. /\ worker[w].at = "claim"
      /\ delivery[e].status \in {"pending", "retry"}
      /\ delivery' = [delivery EXCEPT ![e] = entry]
      /\ worker' = [worker EXCEPT ![w] = h]
      /\ UNCHANGED <<deviceVars, batch, faults, accepted, unknown, refused>>
  BY DEF Claim, Claimable, history
<1>2. n \in Nat /\ n = delivery[e].attempts + 1 /\ delivery[e].attempts \in Nat
  BY EventColumns DEF TypeInv
<1>3. entry \in EventRow /\ entry.status = "sending" /\ ~entry.due /\ entry.attempts = n
  BY <1>2, Rows DEF Statuses
<1>4. h \in Hand /\ h.at = "send" /\ h.event = e /\ h.attempts = n
  BY <1>2, Hands
<1>. HIDE DEF n, entry, h
<1>5. /\ worker' \in [Workers -> Hand] /\ worker'[w] = h
      /\ \A v \in Workers : v # w => worker'[v] = worker[v]
      /\ \A v \in Workers, f \in Events : v # w => (Holds(v, f)' <=> Holds(v, f))
  BY <1>1, <1>4, HandUpdate
<1>6. \A f \in Events : ~Holds(w, f) /\ (Holds(w, f)' <=> f = e)
  BY <1>1, <1>4, <1>5 DEF Holds
<1>7. TypeInv'
  BY <1>1, <1>3, <1>5 DEF TypeInv, deviceVars
<1>8. /\ delivery'[e] = entry
      /\ \A f \in Events : f # e => delivery'[f] = delivery[f]
  BY <1>1 DEF TypeInv
<1>9. EventOK(e)'
  <2>1. EventOK(e) /\ ~Dead(e) /\ ~Dead(e)'
    BY <1>1 DEF IInv, EventOK, Dead, deviceVars
  <2>2. \A v \in Workers : ~Holds(v, e) /\ (Holds(v, e)' <=> v = w)
    BY <1>1, <1>5, <1>6, <2>1 DEF EventOK, HeldOnce
  <2>3. HeldOnce(e)'
    BY <1>3, <1>8, <2>2 DEF HeldOnce
  <2>4. TakenIsKnown(e)'
    <3>1. accepted[e] <= unknown[e]
      BY <1>1, <2>1, <2>2 DEF EventOK, TakenIsKnown, TypeInv
    <3>. QED
      BY <1>1, <3>1 DEF TakenIsKnown, TypeInv
  <2>5. Budget(e)'
    <3>1. refused[e] < AttemptLimit /\ refused[e] < n
      BY <1>1, <1>2, <2>1 DEF EventOK, Budget, TypeInv
    <3>. QED
      BY <1>1, <1>2, <1>3, <1>4, <1>5, <1>8, <2>2, <3>1, PushAssumption
         DEF Budget, TypeInv, PushAssumption
  <2>. QED
    BY <2>1, <2>3, <2>4, <2>5 DEF EventOK
<1>10. ASSUME NEW f \in Events, f # e
       PROVE  \A v \in Workers :
                (Holds(v, f)' <=> Holds(v, f)) /\ (Holds(v, f) => worker'[v] = worker[v])
  BY <1>5, <1>6, <1>10
<1>. QED
  BY <1>1, <1>7, <1>8, <1>9, <1>10, OneEvent DEF deviceVars

\* A loop that sends learns something; if the provider took the notification and
\* the loop knows, it is the first time.
LEMMA LearnKeeps ==
  ASSUME IInv, NEW w \in Workers, worker[w].at = "send",
         NEW result \in Results, Learns(w, result),
         UNCHANGED <<deviceVars, delivery, batch, refused>>, faults' \in Nat,
         NEW e \in Events, e = worker[w].event,
         accepted' \in [Events -> Nat], unknown' \in [Events -> Nat],
         \A f \in Events : f # e => accepted'[f] = accepted[f] /\ unknown'[f] = unknown[f],
         \/ accepted'[e] = accepted[e] /\ unknown'[e] = unknown[e]
         \/ accepted'[e] = accepted[e] + 1 /\ unknown'[e] = unknown[e] + 1
         \/ /\ accepted'[e] = accepted[e] + 1 /\ unknown'[e] = unknown[e]
            /\ result = "delivered"
  PROVE  IInv'
<1>. TypeInv
  BY DEF IInv
<1>. DEFINE n == worker[w].attempts
            h == [at |-> "record", event |-> e, attempts |-> n, result |-> result]
<1>1. n \in Nat /\ worker' = [worker EXCEPT ![w] = h]
  BY HandFacts DEF TypeInv, Learns
<1>2. h \in Hand /\ h.at = "record" /\ h.event = e /\ h.attempts = worker[w].attempts
      /\ h.result = result
  BY <1>1, Hands
<1>. HIDE DEF n, h
<1>3. /\ worker' \in [Workers -> Hand] /\ worker'[w] = h
      /\ \A v \in Workers : v # w => worker'[v] = worker[v]
      /\ \A v \in Workers, f \in Events : v # w => (Holds(v, f)' <=> Holds(v, f))
  BY <1>1, <1>2, HandUpdate
<1>4. \A f \in Events : (Holds(w, f)' <=> f = e) /\ (Holds(w, f) <=> f = e)
  BY <1>2, <1>3 DEF Holds
<1>5. TypeInv'
  BY <1>3 DEF TypeInv, deviceVars
<1>6. EventOK(e)'
  <2>1. EventOK(e) /\ (Dead(e)' <=> Dead(e))
    BY DEF IInv, Dead, deviceVars
  <2>2. \A v \in Workers : (Holds(v, e)' <=> v = w) /\ (Holds(v, e) <=> v = w)
    BY <1>3, <1>4, <2>1 DEF EventOK, HeldOnce
  <2>3. HeldOnce(e)'
    BY <2>1, <2>2 DEF EventOK, HeldOnce
  <2>4. TakenIsKnown(e)'
    <3>1. accepted[e] <= unknown[e]
      BY <2>1, <2>2 DEF EventOK, TakenIsKnown, TypeInv
    <3>. QED
      BY <1>2, <1>3, <2>2, <3>1 DEF TakenIsKnown, TypeInv
  <2>5. Budget(e)'
    BY <1>2, <1>3, <2>1, <2>2 DEF EventOK, Budget
  <2>. QED
    BY <2>1, <2>3, <2>4, <2>5 DEF EventOK
<1>7. ASSUME NEW f \in Events, f # e
      PROVE  \A v \in Workers :
               (Holds(v, f)' <=> Holds(v, f)) /\ (Holds(v, f) => worker'[v] = worker[v])
  BY <1>3, <1>4, <1>7
<1>. QED
  BY <1>5, <1>6, <1>7, OneEvent DEF deviceVars

LEMMA SendKeeps ==
  ASSUME IInv, NEW w \in Workers,
         \/ \E answer \in Refusals \cup {"ok"} : Send(w, answer)
         \/ AnswerLost(w)
         \/ Unconfigured(w)
  PROVE  IInv'
<1>. TypeInv
  BY DEF IInv
<1>. DEFINE e == worker[w].event
<1>0. worker[w].at = "send" /\ e \in Events
  BY HandFacts DEF TypeInv, Send, AnswerLost, Unconfigured
<1>1. ASSUME NEW answer \in Refusals \cup {"ok"}, Send(w, answer) PROVE IInv'
  <2>. DEFINE result == Classify(PlatformOf[DeviceOf[e[1]]], answer)
  <2>1. result \in Results /\ (result = "delivered" <=> answer = "ok")
    BY Classified
  <2>2. /\ Learns(w, result)
        /\ accepted' = IF answer = "ok" THEN [accepted EXCEPT ![e] = @ + 1] ELSE accepted
        /\ UNCHANGED <<deviceVars, delivery, batch, faults, unknown, refused>>
    BY <1>1 DEF Send
  <2>. HIDE DEF result, e
  <2>3. /\ accepted' \in [Events -> Nat] /\ unknown' \in [Events -> Nat]
        /\ \A f \in Events : f # e => accepted'[f] = accepted[f] /\ unknown'[f] = unknown[f]
        /\ \/ accepted'[e] = accepted[e] /\ unknown'[e] = unknown[e]
           \/ accepted'[e] = accepted[e] + 1 /\ unknown'[e] = unknown[e]
              /\ result = "delivered"
    BY <1>0, <2>1, <2>2 DEF TypeInv
  <2>4. faults' \in Nat
    BY <2>2 DEF TypeInv
  <2>. QED
    BY <1>0, <2>1, <2>2, <2>3, <2>4, LearnKeeps DEF e
<1>2. CASE AnswerLost(w)
  <2>1. /\ Learns(w, "retry")
        /\ accepted' = [accepted EXCEPT ![e] = @ + 1]
        /\ unknown' = [unknown EXCEPT ![e] = @ + 1]
        /\ faults' = faults + 1
        /\ UNCHANGED <<deviceVars, delivery, batch, refused>>
    BY <1>2 DEF AnswerLost
  <2>. HIDE DEF e
  <2>2. /\ accepted' \in [Events -> Nat] /\ unknown' \in [Events -> Nat]
        /\ \A f \in Events : f # e => accepted'[f] = accepted[f] /\ unknown'[f] = unknown[f]
        /\ accepted'[e] = accepted[e] + 1 /\ unknown'[e] = unknown[e] + 1
        /\ faults' \in Nat /\ "retry" \in Results
    BY <1>0, <2>1 DEF TypeInv, Results
  <2>. QED
    BY <1>0, <2>1, <2>2, LearnKeeps DEF e
<1>3. CASE Unconfigured(w)
  <2>1. /\ Learns(w, "unconfigured") /\ faults' = faults + 1
        /\ UNCHANGED <<deviceVars, delivery, batch, accepted, unknown, refused>>
    BY <1>3 DEF Unconfigured, history
  <2>. HIDE DEF e
  <2>2. /\ accepted' \in [Events -> Nat] /\ unknown' \in [Events -> Nat]
        /\ faults' \in Nat /\ "unconfigured" \in Results
    BY <2>1 DEF TypeInv, Results
  <2>. QED
    BY <1>0, <2>1, <2>2, LearnKeeps DEF e
<1>. QED
  BY <1>1, <1>2, <1>3

LEMMA CrashKeeps ==
  ASSUME IInv, NEW w \in Workers, Crash(w)
  PROVE  IInv'
<1>. TypeInv
  BY DEF IInv
<1>0. worker[w].at \in {"send", "record"} /\ worker[w].event \in Events
  BY HandFacts DEF Crash, TypeInv
<1>. PICK e \in Events : e = worker[w].event
  BY <1>0
<1>1. /\ worker[w].at \in {"send", "record"}
      /\ faults' = faults + 1
      /\ unknown' = IF worker[w].at = "record" /\ worker[w].result = "delivered"
                    THEN [unknown EXCEPT ![e] = @ + 1] ELSE unknown
      /\ worker' = [worker EXCEPT ![w] = Waiting]
      /\ UNCHANGED <<deviceVars, delivery, batch, accepted, refused>>
  BY DEF Crash
<1>2. Holds(w, e) /\ \A f \in Events : Holds(w, f) => f = e
  BY <1>1 DEF Holds
<1>3. /\ worker' \in [Workers -> Hand] /\ worker'[w] = Waiting
      /\ \A v \in Workers : v # w => worker'[v] = worker[v]
      /\ \A v \in Workers, f \in Events : v # w => (Holds(v, f)' <=> Holds(v, f))
  <2>1. Waiting \in Hand
    BY Hands DEF Waiting
  <2>. QED
    BY <1>1, <2>1, HandUpdate
<1>4. \A f \in Events : ~Holds(w, f)'
  BY <1>3 DEF Holds, Waiting
<1>5. /\ unknown' \in [Events -> Nat] /\ faults' \in Nat
      /\ \A f \in Events : f # e => unknown'[f] = unknown[f]
      /\ unknown'[e] = IF worker[w].at = "record" /\ worker[w].result = "delivered"
                       THEN unknown[e] + 1 ELSE unknown[e]
  BY <1>1 DEF TypeInv
<1>6. TypeInv'
  BY <1>1, <1>3, <1>5 DEF TypeInv, deviceVars
<1>7. EventOK(e)'
  <2>1. EventOK(e) /\ (Dead(e)' <=> Dead(e))
    BY <1>1 DEF IInv, Dead, deviceVars
  <2>2. \A v \in Workers : ~Holds(v, e)'
    BY <1>2, <1>3, <1>4, <2>1, <1>1 DEF EventOK, HeldOnce
  <2>3. accepted'[e] <= unknown'[e]
    BY <1>1, <1>2, <1>5, <2>1 DEF EventOK, TakenIsKnown, TypeInv
  <2>4. HeldOnce(e)' /\ TakenIsKnown(e)'
    BY <1>6, <2>2, <2>3 DEF HeldOnce, TakenIsKnown, TypeInv
  <2>5. Budget(e)'
    BY <1>1, <2>1, <2>2 DEF EventOK, Budget
  <2>. QED
    BY <1>1, <2>1, <2>4, <2>5 DEF EventOK
<1>8. ASSUME NEW f \in Events, f # e
      PROVE  \A v \in Workers :
               (Holds(v, f)' <=> Holds(v, f)) /\ (Holds(v, f) => worker'[v] = worker[v])
  BY <1>2, <1>3, <1>4, <1>8
<1>. QED
  BY <1>1, <1>5, <1>6, <1>7, <1>8, OneEvent DEF deviceVars

\* What Record writes to the row it holds.
LEMMA RecordedRow ==
  ASSUME TypeInv, NEW w \in Workers, Record(w), NEW e \in Events, e = worker[w].event
  PROVE  /\ delivery' \in [Events -> EventRow]
         /\ \A f \in Events : f # e => delivery'[f] = delivery[f]
         /\ delivery[e].status = "none" => delivery'[e].status = "none"
         /\ delivery[e].status # "none" /\ worker[w].result = "delivered" =>
              delivery'[e].status = "delivered"
         /\ delivery[e].status # "none" =>
              \/ delivery'[e].status \in {"delivered", "failed"}
              \/ /\ delivery'[e].status = "retry" /\ worker[w].result = "unconfigured"
                 /\ delivery[e].attempts > 0 =>
                      delivery'[e].attempts = delivery[e].attempts - 1
              \/ /\ delivery'[e].status = "retry" /\ worker[w].result = "retry"
                 /\ worker[w].attempts < AttemptLimit
                 /\ delivery'[e].attempts = delivery[e].attempts
<1>. DEFINE n == delivery[e].attempts
            m == IF n > 0 THEN n - 1 ELSE 0
            delivered == [delivery[e] EXCEPT !.status = "delivered"]
            failed == [delivery[e] EXCEPT !.status = "failed"]
            again == [status |-> "retry", attempts |-> n, due |-> FALSE]
            unconfigured == [status |-> "retry", due |-> FALSE, attempts |-> m]
<1>1. n \in Nat /\ m \in Nat /\ delivery[e] \in EventRow /\ worker[w].result \in Results
  BY HandFacts, EventColumns DEF TypeInv, Record
<1>2. /\ delivered \in EventRow /\ delivered.status = "delivered"
      /\ failed \in EventRow /\ failed.status = "failed"
  <2>1. "delivered" \in Statuses /\ "failed" \in Statuses
    BY DEF Statuses
  <2>. QED
    BY <1>1, <2>1, RowWrite, EventColumns
<1>3. /\ again \in EventRow /\ again.status = "retry" /\ again.attempts = n
      /\ unconfigured \in EventRow /\ unconfigured.status = "retry"
      /\ unconfigured.attempts = m
  BY <1>1 DEF EventRow, Statuses
<1>4. \/ delivery[e].status = "none" /\ delivery' = delivery
      \/ delivery[e].status # "none" /\ worker[w].result = "delivered"
         /\ delivery' = [delivery EXCEPT ![e] = delivered]
      \/ delivery[e].status # "none" /\ worker[w].result # "delivered"
         /\ delivery' = [delivery EXCEPT ![e] = failed]
      \/ delivery[e].status # "none" /\ worker[w].result = "unconfigured"
         /\ delivery' = [delivery EXCEPT ![e] = unconfigured]
      \/ delivery[e].status # "none" /\ worker[w].result = "retry"
         /\ worker[w].attempts < AttemptLimit
         /\ delivery' = [delivery EXCEPT ![e] = again]
  <2>1. delivery[e].status # "none" => 
          \/ worker[w].result = "delivered" /\ delivery' = WithStatus(e, "delivered")
          \/ worker[w].result # "delivered" /\ delivery' = WithStatus(e, "failed")
          \/ worker[w].result = "unconfigured" /\ delivery' = AfterUnconfigured(e)
          \/ worker[w].result = "retry" /\ worker[w].attempts < AttemptLimit
             /\ delivery' = AfterRetry(e, worker[w].attempts)
    <3>. SUFFICES ASSUME delivery[e].status # "none" PROVE
           \/ worker[w].result = "delivered" /\ delivery' = WithStatus(e, "delivered")
           \/ worker[w].result # "delivered" /\ delivery' = WithStatus(e, "failed")
           \/ worker[w].result = "unconfigured" /\ delivery' = AfterUnconfigured(e)
           \/ worker[w].result = "retry" /\ worker[w].attempts < AttemptLimit
              /\ delivery' = AfterRetry(e, worker[w].attempts)
      OBVIOUS
    <3>1. CASE worker[w].result = "delivered"
      BY <3>1 DEF Record
    <3>2. CASE worker[w].result \in {"invalid", "failed"}
      BY <3>2 DEF Record
    <3>3. CASE worker[w].result = "unconfigured"
      BY <3>3 DEF Record
    <3>4. CASE worker[w].result = "retry"
      <4>1. delivery' = AfterRetry(e, worker[w].attempts)
        BY <3>4 DEF Record
      <4>. QED
        BY <3>4, <4>1 DEF AfterRetry
    <3>. QED
      BY <1>1, <3>1, <3>2, <3>3, <3>4 DEF Results
  <2>2. delivery[e].status = "none" => delivery' = delivery
    BY DEF Record
  <2>3. /\ WithStatus(e, "delivered") = [delivery EXCEPT ![e] = delivered]
        /\ WithStatus(e, "failed") = [delivery EXCEPT ![e] = failed]
        /\ AfterUnconfigured(e) = [delivery EXCEPT ![e] = unconfigured]
        /\ worker[w].attempts < AttemptLimit =>
             AfterRetry(e, worker[w].attempts) = [delivery EXCEPT ![e] = again]
    <3>. e \in DOMAIN delivery
      BY DEF TypeInv
    <3>1. WithStatus(e, "delivered") = [delivery EXCEPT ![e] = delivered]
      BY DEF WithStatus
    <3>2. WithStatus(e, "failed") = [delivery EXCEPT ![e] = failed]
      BY DEF WithStatus
    <3>3. AfterUnconfigured(e) = [delivery EXCEPT ![e] = unconfigured]
      BY DEF AfterUnconfigured
    <3>4. ASSUME worker[w].attempts < AttemptLimit
          PROVE  AfterRetry(e, worker[w].attempts) = [delivery EXCEPT ![e] = again]
      BY <3>4 DEF AfterRetry
    <3>. QED
      BY <3>1, <3>2, <3>3, <3>4
  <2>. QED
    BY <2>1, <2>2, <2>3
<1>. HIDE DEF delivered, failed, again, unconfigured
<1>5. \A r \in EventRow : delivery' = [delivery EXCEPT ![e] = r] =>
        /\ delivery' \in [Events -> EventRow] /\ delivery'[e] = r
        /\ \A f \in Events : f # e => delivery'[f] = delivery[f]
  BY DEF TypeInv
<1>. QED
  BY <1>1, <1>2, <1>3, <1>4, <1>5 DEF TypeInv

LEMMA RecordKeeps ==
  ASSUME IInv, NEW w \in Workers, Record(w)
  PROVE  IInv'
<1>. TypeInv
  BY DEF IInv
<1>0. worker[w].at = "record" /\ worker[w].event \in Events /\ worker[w].attempts \in Nat
  BY HandFacts DEF Record, TypeInv
<1>. PICK e \in Events : e = worker[w].event
  BY <1>0
<1>1. Holds(w, e) /\ \A f \in Events : Holds(w, f) => f = e
  BY <1>0 DEF Holds
<1>2. /\ refused' = IF worker[w].result = "retry" THEN [refused EXCEPT ![e] = @ + 1] ELSE refused
      /\ worker' = [worker EXCEPT ![w] = Waiting]
      /\ UNCHANGED <<account, client, batch, faults, accepted, unknown>>
  BY DEF Record
<1>3. /\ worker' \in [Workers -> Hand] /\ worker'[w] = Waiting
      /\ \A v \in Workers : v # w => worker'[v] = worker[v]
      /\ \A v \in Workers, f \in Events : v # w => (Holds(v, f)' <=> Holds(v, f))
  <2>1. Waiting \in Hand
    BY Hands DEF Waiting
  <2>. QED
    BY <1>2, <2>1, HandUpdate
<1>4. \A f \in Events : ~Holds(w, f)'
  BY <1>3 DEF Holds, Waiting
<1>5. /\ refused' \in [Events -> Nat]
      /\ \A f \in Events : f # e => refused'[f] = refused[f]
      /\ refused'[e] = IF worker[w].result = "retry" THEN refused[e] + 1 ELSE refused[e]
  BY <1>2 DEF TypeInv
<1>6. /\ device' \in [Devices -> {"none", "enabled", "disabled"}]
      /\ sub' \in [Subs -> {"none", "open", "expired", "ended"}]
      /\ \A s \in Subs : sub[s] = "none" => sub'[s] = "none"
  <2>1. \/ UNCHANGED <<device, sub>>
        \/ /\ device' = [device EXCEPT ![DeviceOf[e[1]]] = "disabled"]
           /\ sub' = EndedIn(SubsOn(DeviceOf[e[1]]))
    BY DEF Record
  <2>. QED
    BY <2>1, Ended DEF TypeInv
<1>7. /\ delivery' \in [Events -> EventRow]
      /\ \A f \in Events : f # e => delivery'[f] = delivery[f]
      /\ delivery[e].status = "none" => delivery'[e].status = "none"
      /\ delivery[e].status # "none" /\ worker[w].result = "delivered" =>
           delivery'[e].status = "delivered"
      /\ delivery[e].status # "none" =>
           \/ delivery'[e].status \in {"delivered", "failed"}
           \/ /\ delivery'[e].status = "retry" /\ worker[w].result = "unconfigured"
              /\ delivery[e].attempts > 0 =>
                   delivery'[e].attempts = delivery[e].attempts - 1
           \/ /\ delivery'[e].status = "retry" /\ worker[w].result = "retry"
              /\ worker[w].attempts < AttemptLimit
              /\ delivery'[e].attempts = delivery[e].attempts
  BY RecordedRow
<1>8. TypeInv'
  BY <1>2, <1>3, <1>5, <1>6, <1>7 DEF TypeInv
<1>9. EventOK(e)'
  <2>1. EventOK(e) /\ (Dead(e)' <=> Dead(e))
    BY <1>2 DEF IInv, Dead
  <2>2. \A v \in Workers : ~Holds(v, e)'
    BY <1>1, <1>3, <1>4, <2>1 DEF EventOK, HeldOnce
  <2>3. HeldOnce(e)'
    BY <2>2 DEF HeldOnce
  <2>4. delivery[e].status = "none" <=> Dead(e)
    BY <1>1, <2>1 DEF EventOK, HeldOnce
  <2>5. TakenIsKnown(e)'
    BY <1>1, <1>2, <1>7, <2>1, <2>2, <2>4 DEF EventOK, TakenIsKnown
  <2>6. Budget(e)'
    <3>1. /\ refused[e] \in Nat /\ refused[e] < AttemptLimit /\ delivery[e].attempts \in Nat
          /\ Dead(e) \/ (/\ worker[w].attempts = delivery[e].attempts
                         /\ refused[e] < delivery[e].attempts)
      BY <1>1, <2>1, EventColumns DEF EventOK, Budget, TypeInv
    <3>2. refused'[e] <= AttemptLimit
      BY <1>5, <3>1, PushAssumption DEF PushAssumption
    <3>3. delivery'[e].status = "none" => Dead(e)'
      BY <1>7, <2>1, <2>4
    <3>4. ASSUME delivery'[e].status \in {"pending", "retry", "sending"}
          PROVE  refused'[e] < AttemptLimit /\ refused'[e] <= delivery'[e].attempts
      <4>1. ~Dead(e) /\ delivery[e].status # "none"
        BY <1>7, <2>4, <3>4
      <4>. QED
        BY <1>5, <1>7, <3>1, <3>4, <4>1, PushAssumption DEF PushAssumption
    <3>. QED
      BY <2>2, <3>2, <3>3, <3>4 DEF Budget
  <2>. QED
    BY <1>7, <2>1, <2>3, <2>4, <2>5, <2>6 DEF EventOK
<1>10. ASSUME NEW f \in Events, f # e
       PROVE  \A v \in Workers :
                (Holds(v, f)' <=> Holds(v, f)) /\ (Holds(v, f) => worker'[v] = worker[v])
  BY <1>1, <1>3, <1>4, <1>10
<1>. QED
  BY <1>2, <1>5, <1>6, <1>7, <1>8, <1>9, <1>10, OneEvent

-----------------------------------------------------------------------------
(* The whole.                                                               *)

LEMMA Stutter ==
  ASSUME IInv, UNCHANGED vars
  PROVE  IInv'
<1>1. UNCHANGED <<deviceVars, delivery, worker, batch, faults, accepted, unknown, refused>>
  BY DEF vars, pushVars
<1>2. TypeInv'
  BY <1>1 DEF IInv, TypeInv, deviceVars
<1>3. \A e \in Events, w \in Workers : Holds(w, e)' <=> Holds(w, e)
  BY <1>1 DEF Holds
<1>. QED
  BY <1>1, <1>2, <1>3, NoEvent

LEMMA NextKeeps ==
  ASSUME IInv, ~Slow, Next
  PROVE  IInv'
<1>1. CASE DevicesStep /\ UNCHANGED pushVars
  BY <1>1, DevicesKeep
<1>2. CASE \E c \in Clients : DeleteAccount(c)
  BY <1>2, DeleteAccountKeeps
<1>3. CASE \E r \in Records : ReadSubscriptions(r)
  BY <1>3, ReadKeeps
<1>4. CASE \E e \in Events : InsertPushEvent(e) \/ ComeDue(e)
  BY <1>4, InsertKeeps, ComeDueKeeps
<1>5. CASE \E w \in Workers : Deliver(w) \/ AnswerLost(w) \/ Unconfigured(w) \/ Crash(w)
  BY <1>5, ReclaimKeeps, NothingDueKeeps, RecordKeeps, ClaimKeeps, SendKeeps, CrashKeeps
     DEF Deliver
<1>. QED
  BY <1>1, <1>2, <1>3, <1>4, <1>5 DEF Next

\* The invariant of the queue: a row is in the hands of one loop, which has an
\* attempt of its own for it, and what the provider took is known unless an
\* answer was lost.
THEOREM Inductive == ASSUME ~Slow PROVE Spec => []IInv
<1>1. IInv /\ [Next]_vars => IInv'
  BY NextKeeps, Stutter
<1>. QED
  BY InitOK, <1>1, PTL DEF Spec

\* A notification reaches the phone at most once more than answers of the
\* provider were lost, by a transport error or a crash.
THEOREM RepeatsAreExplained == ASSUME ~Slow PROVE Spec => []RepeatsHaveACause
<1>1. IInv => RepeatsHaveACause
  BY DEF IInv, EventOK, TakenIsKnown, RepeatsHaveACause
<1>. QED
  BY Inductive, <1>1, PTL

\* The temporary refusals of a notification stay within the attempt budget.
THEOREM RetriesAreBounded == ASSUME ~Slow PROVE Spec => []BoundedRetry
<1>1. IInv => BoundedRetry
  BY DEF IInv, EventOK, Budget, BoundedRetry
<1>. QED
  BY Inductive, <1>1, PTL

\* A row with an outcome is in nobody's hands: nobody will write it again.
LEMMA OutcomeKept ==
  ASSUME IInv, ~Slow, Next, NEW e \in Events, delivery[e].status \in {"delivered", "failed"}
  PROVE  delivery'[e].status \in {delivery[e].status, "none"}
<1>. TypeInv
  BY DEF IInv
<1>1. \A w \in Workers : ~Holds(w, e)
  BY DEF IInv, EventOK, HeldOnce
<1>2. CASE delivery' = delivery
  BY <1>2
<1>3. ASSUME NEW c \in Clients, DeleteAccount(c)
      PROVE  delivery'[e].status \in {delivery[e].status, "none"}
  BY <1>3 DEF DeleteAccount, NoRow
<1>4. ASSUME NEW f \in Events, InsertPushEvent(f)
      PROVE  delivery'[e] = delivery[e]
  BY <1>4 DEF InsertPushEvent, TypeInv
<1>5. ASSUME NEW f \in Events, ComeDue(f)
      PROVE  delivery'[e] = delivery[e]
  BY <1>5 DEF ComeDue, TypeInv
<1>6. ASSUME NEW w \in Workers, Reclaim(w)
      PROVE  delivery'[e] = delivery[e]
  BY <1>6 DEF Reclaim, Reclaimed
<1>7. ASSUME NEW w \in Workers, NEW f \in Events, Claim(w, f)
      PROVE  delivery'[e] = delivery[e]
  BY <1>7 DEF Claim, Claimable, TypeInv
<1>8. ASSUME NEW w \in Workers, Record(w)
      PROVE  delivery'[e] = delivery[e]
  <2>1. worker[w].at = "record" /\ worker[w].event \in Events
    BY <1>8, HandFacts DEF Record, TypeInv
  <2>2. PICK f \in Events : f = worker[w].event
    BY <2>1
  <2>3. f # e
    BY <1>1, <2>1, <2>2 DEF Holds
  <2>. QED
    BY <1>8, <2>2, <2>3, RecordedRow
<1>9. CASE DevicesStep /\ UNCHANGED pushVars
  BY <1>2, <1>9 DEF pushVars
<1>10. CASE \E r \in Records : ReadSubscriptions(r)
  BY <1>2, <1>10 DEF ReadSubscriptions
<1>11. ASSUME NEW w \in Workers, Deliver(w) \/ AnswerLost(w) \/ Unconfigured(w) \/ Crash(w)
       PROVE  delivery'[e].status \in {delivery[e].status, "none"}
  <2>1. CASE \/ NothingDue(w) \/ AnswerLost(w) \/ Unconfigured(w) \/ Crash(w)
             \/ \E answer \in Refusals \cup {"ok"} : Send(w, answer)
    BY <1>2, <2>1 DEF NothingDue, AnswerLost, Unconfigured, Crash, Send
  <2>. QED
    BY <1>6, <1>7, <1>8, <1>11, <2>1 DEF Deliver
<1>. QED
  BY <1>3, <1>4, <1>5, <1>9, <1>10, <1>11 DEF Next

\* A delivered or abandoned notification is never taken up again, however late
\* another loop writes.
THEOREM OutcomesAreFinal == ASSUME ~Slow PROVE Spec => OutcomeIsFinal
<1>1. IInv /\ [Next]_vars =>
        [\A e \in Events : delivery[e].status \in {"delivered", "failed"} =>
           delivery'[e].status \in {delivery[e].status, "none"}]_vars
  BY OutcomeKept
<1>. QED
  BY Inductive, <1>1, PTL DEF Spec, OutcomeIsFinal

-----------------------------------------------------------------------------
(* Credentials. *)

USE DEF sessionVars, rows, ghosts

User == [password : Passwords \cup {NoPassword}, version : Nat, deleted : BOOLEAN]

\* What a slot may hold: a handler that has read the account, one that sends a reset
\* token, or one that carries nothing.
Handler ==
    [op : {"idle", "renew", "request", "insert"}]
    \cup [op : Reading, seen : User]
    \cup [op : {"deliver"}, token : Resets]

SessionTypes ==
    /\ user \in User
    /\ session \in [Sessions -> {"none", "live", "dead"}]
    /\ reset \in [Resets -> {"none", "open", "dead"}]
    /\ request \in [Attempts -> Handler]
    /\ uses \in [Sessions \cup Resets -> Nat]
    /\ proof \in [Sessions -> Nat]
    /\ straddled \in SUBSET (Sessions \cup Attempts)

\* A token that was exchanged is dead, and nothing revives it.
UsedIsDead ==
    /\ \A s \in Sessions : uses[s] <= 1 /\ (uses[s] = 1 => session[s] = "dead")
    /\ \A t \in Resets : uses[t] <= 1 /\ (uses[t] = 1 => reset[t] = "dead")

\* A handler that will open a session for an account as it was is known as straddling.
OldReadersAreKnown ==
    \A r \in Attempts :
        request[r].op \in {"login", "refresh"} /\ request[r].seen.version < user.version
            => r \in straddled

SessionInv == SessionTypes /\ UsedIsDead /\ OldReadersAreKnown /\ OldSessionsWereUnderWay

-----------------------------------------------------------------------------

LEMMA NoHandlerType == NoHandler \in Handler /\ NoHandler.op = "idle"
  BY DEF NoHandler, Handler

\* Filling or emptying one slot leaves the others alone.
LEMMA SlotUpdate ==
  ASSUME SessionTypes, NEW r \in Attempts, NEW v \in Handler, request' = [request EXCEPT ![r] = v]
  PROVE  /\ request' \in [Attempts -> Handler]
         /\ request'[r] = v
         /\ \A q \in Attempts : q # r => request'[q] = request[q]
  BY DEF SessionTypes

LEMMA NewPasswordType ==
  ASSUME SessionTypes, NEW p \in Passwords
  PROVE  /\ NewPassword(p) \in User
         /\ NewPassword(p).version \in {user.version, user.version + 1}
<1>1. user \in User /\ user.version + 1 \in Nat
  BY DEF SessionTypes, User
<1>2. CASE user.deleted
  BY <1>1, <1>2 DEF NewPassword
<1>3. CASE ~user.deleted
  <2>1. NewPassword(p) = [user EXCEPT !.password = p, !.version = user.version + 1]
    BY <1>3 DEF NewPassword
  <2>2. p \in Passwords \cup {NoPassword}
    OBVIOUS
  <2>3. [user EXCEPT !.password = p, !.version = user.version + 1] \in User
    BY <1>1, <2>2, Zenon DEF User
  <2>4. [user EXCEPT !.password = p, !.version = user.version + 1].version = user.version + 1
    BY <1>1, Zenon DEF User
  <2>. QED
    BY <2>1, <2>3, <2>4
<1>. QED
  BY <1>2, <1>3

\* Revoking every session kills the live ones and changes nothing else.
LEMMA RevokedAllType ==
  ASSUME SessionTypes
  PROVE  /\ RevokedAll \in [Sessions -> {"none", "live", "dead"}]
         /\ \A s \in Sessions : /\ RevokedAll[s] # "live"
                                /\ session[s] = "dead" => RevokedAll[s] = "dead"
  BY DEF SessionTypes, RevokedAll

\* A change of the credentials that ends every session keeps what is said of sessions and
\* their readers.
LEMMA ChangeStep ==
  ASSUME SessionInv, SessionsAssumption, NEW r \in Attempts,
         user' \in User, user'.version \in {user.version, user.version + 1},
         session' = RevokedAll, RequestEnds(r), uses' \in [Sessions \cup Resets -> Nat],
         straddled' = (straddled \cap Attempts) \cup UnderWay(r)
  PROVE  /\ session' \in [Sessions -> {"none", "live", "dead"}]
         /\ request' \in [Attempts -> Handler]
         /\ straddled' \in SUBSET (Sessions \cup Attempts)
         /\ OldReadersAreKnown' /\ OldSessionsWereUnderWay'
<1>1. /\ request' \in [Attempts -> Handler]
      /\ request'[r].op = "idle"
      /\ \A q \in Attempts : q # r => request'[q] = request[q]
  BY NoHandlerType, SlotUpdate DEF SessionInv, RequestEnds
<1>2. session' \in [Sessions -> {"none", "live", "dead"}] /\ \A s \in Sessions : session'[s] # "live"
  BY RevokedAllType DEF SessionInv
<1>3. straddled' \in SUBSET (Sessions \cup Attempts)
  BY DEF UnderWay
<1>4. OldReadersAreKnown'
  BY <1>1 DEF OldReadersAreKnown, UnderWay
<1>. QED
  BY <1>1, <1>2, <1>3, <1>4 DEF OldSessionsWereUnderWay

-----------------------------------------------------------------------------
(* Every step keeps SessionInv, one lemma for the steps of each kind. *)

\* A handler that takes the account as it is now is no older than it.
LEMMA ReaderStep ==
  ASSUME SessionInv, NEW r \in Attempts, NEW v \in Handler, request' = [request EXCEPT ![r] = v],
         v.op \in {"login", "refresh"} => v.seen = user,
         UNCHANGED <<rows, ghosts>>
  PROVE  SessionInv'
<1>1. /\ request' \in [Attempts -> Handler]
      /\ request'[r] = v
      /\ \A q \in Attempts : q # r => request'[q] = request[q]
  BY SlotUpdate DEF SessionInv
<1>2. OldReadersAreKnown'
  <2>1. user.version \in Nat
    BY DEF SessionInv, SessionTypes, User
  <2>. QED
    BY <1>1, <2>1 DEF SessionInv, OldReadersAreKnown
<1>. QED
  BY <1>1, <1>2 DEF SessionInv, SessionTypes, UsedIsDead, OldSessionsWereUnderWay

\* So is one that does not read it.
LEMMA OtherStep ==
  ASSUME SessionInv, NEW r \in Attempts, NEW v \in Handler, request' = [request EXCEPT ![r] = v],
         v.op \notin {"login", "refresh"}, UNCHANGED <<user, session, ghosts>>,
         reset' \in [Resets -> {"none", "open", "dead"}],
         \A t \in Resets : reset[t] = "dead" => reset'[t] = "dead"
  PROVE  SessionInv'
<1>1. /\ request' \in [Attempts -> Handler]
      /\ request'[r] = v
      /\ \A q \in Attempts : q # r => request'[q] = request[q]
  BY SlotUpdate DEF SessionInv
<1>2. OldReadersAreKnown'
  BY <1>1 DEF SessionInv, OldReadersAreKnown
<1>3. UsedIsDead'
  BY DEF SessionInv, UsedIsDead
<1>. QED
  BY <1>1, <1>2, <1>3 DEF SessionInv, SessionTypes, OldSessionsWereUnderWay

\* Login, Refresh, ReadUser and AuthResponse.
LEMMA SessionStep ==
  ASSUME SessionInv, SessionsAssumption, NEW r \in Attempts,
         \/ \E p \in Passwords : Login(r, p)
         \/ \E s \in Sessions : Refresh(r, s) \/ AuthResponse(r, s)
         \/ ReadUser(r)
  PROVE  SessionInv'
<1>1. user \in User /\ user.version \in Nat
  BY DEF SessionInv, SessionTypes, User
<1>2. CASE \E p \in Passwords : Login(r, p)
  <2>1. [op |-> "login", seen |-> user] \in Handler
    BY <1>1 DEF Handler, Reading
  <2>. QED
    BY <1>2, <2>1, ReaderStep DEF Login, RequestStarts
<1>3. CASE ReadUser(r)
  <2>1. [op |-> "refresh", seen |-> user] \in Handler
    BY <1>1 DEF Handler, Reading
  <2>. QED
    BY <1>3, <2>1, ReaderStep DEF ReadUser
<1>4. ASSUME NEW s \in Sessions, Refresh(r, s) PROVE SessionInv'
  <2>1. [op |-> "renew"] \in Handler
    BY DEF Handler
  <2>2. /\ request' \in [Attempts -> Handler]
        /\ request'[r] = [op |-> "renew"]
        /\ \A q \in Attempts : q # r => request'[q] = request[q]
    BY <1>4, <2>1, SlotUpdate DEF SessionInv, Refresh, RequestStarts
  <2>3. session[s] = "live" /\ uses[s] = 0
    BY <1>4 DEF Refresh, Consumable, SessionInv, SessionTypes, UsedIsDead
  <2>4. SessionTypes'
    BY <1>4, <2>2 DEF Refresh, SessionInv, SessionTypes
  <2>5. UsedIsDead'
    BY <1>4, <2>3 DEF Refresh, SessionInv, SessionTypes, UsedIsDead, SessionsAssumption
  <2>6. OldReadersAreKnown' /\ OldSessionsWereUnderWay'
    BY <1>4, <2>2 DEF Refresh, SessionInv, SessionTypes, OldReadersAreKnown, OldSessionsWereUnderWay
  <2>. QED
    BY <2>4, <2>5, <2>6 DEF SessionInv
<1>5. ASSUME NEW s \in Sessions, AuthResponse(r, s) PROVE SessionInv'
  <2>1. /\ request' \in [Attempts -> Handler]
        /\ request'[r].op = "idle"
        /\ \A q \in Attempts : q # r => request'[q] = request[q]
    BY <1>5, NoHandlerType, SlotUpdate DEF SessionInv, AuthResponse, RequestEnds
  <2>2. request[r].op \in {"login", "refresh"} /\ request[r].seen.version \in Nat
    BY <1>5 DEF AuthResponse, SessionInv, SessionTypes, Handler, Reading, User
  <2>3. SessionTypes'
    BY <1>5, <2>1, <2>2 DEF AuthResponse, SessionInv, SessionTypes
  <2>4. UsedIsDead'
    BY <1>5 DEF AuthResponse, SessionInv, SessionTypes, UsedIsDead
  <2>5. OldReadersAreKnown'
    BY <1>5, <2>1 DEF AuthResponse, SessionInv, OldReadersAreKnown
  <2>6. OldSessionsWereUnderWay'
    BY <1>5, <2>2
    DEF AuthResponse, SessionInv, SessionTypes, OldReadersAreKnown, OldSessionsWereUnderWay, SessionsAssumption
  <2>. QED
    BY <2>3, <2>4, <2>5, <2>6 DEF SessionInv
<1>. QED
  BY <1>2, <1>3, <1>4, <1>5

\* ChangePassword, CompleteReset and ReplaceCredentials.
LEMMA CredentialStep ==
  ASSUME SessionInv, SessionsAssumption, NEW r \in Attempts,
         \/ \E p, q \in Passwords : ChangePassword(r, p, q)
         \/ \E t \in Resets, p \in Passwords : CompleteReset(r, t, p)
         \/ ReplaceCredentials(r)
  PROVE  SessionInv'
<1>1. user \in User /\ user.version \in Nat
  BY DEF SessionInv, SessionTypes, User
<1>2. ASSUME NEW p \in Passwords, NEW q \in Passwords, ChangePassword(r, p, q)
      PROVE  SessionInv'
  <2>1. CASE SetPassword(r, q)
    <3>1. /\ user' \in User /\ user'.version \in {user.version, user.version + 1}
          /\ uses' \in [Sessions \cup Resets -> Nat]
      BY <1>2, <2>1, NewPasswordType DEF ChangePassword, SetPassword, SessionInv, SessionTypes
    <3>2. /\ session' \in [Sessions -> {"none", "live", "dead"}]
          /\ request' \in [Attempts -> Handler]
          /\ straddled' \in SUBSET (Sessions \cup Attempts)
          /\ OldReadersAreKnown' /\ OldSessionsWereUnderWay'
      BY <2>1, <3>1, ChangeStep DEF SetPassword
    <3>3. SessionTypes' /\ UsedIsDead'
      BY <1>2, <2>1, <3>1, <3>2, RevokedAllType
      DEF ChangePassword, SetPassword, SessionInv, SessionTypes, UsedIsDead
    <3>. QED
      BY <3>2, <3>3 DEF SessionInv
  <2>2. CASE RequestEnds(r) /\ UNCHANGED <<user, session, straddled>>
    BY <1>2, <2>2, NoHandlerType, OtherStep DEF ChangePassword, RequestEnds, SessionInv, SessionTypes
  <2>. QED
    BY <1>2, <2>1, <2>2 DEF ChangePassword
<1>3. ASSUME NEW t \in Resets, NEW p \in Passwords, CompleteReset(r, t, p)
      PROVE  SessionInv'
  <2>1. reset[t] = "open" /\ uses[t] = 0
    BY <1>3 DEF CompleteReset, Redeemable, SessionInv, SessionTypes, UsedIsDead
  <2>2. /\ user' \in User /\ user'.version \in {user.version, user.version + 1}
        /\ uses' \in [Sessions \cup Resets -> Nat]
    BY <1>3, NewPasswordType DEF CompleteReset, SetPassword, SessionInv, SessionTypes
  <2>3. /\ session' \in [Sessions -> {"none", "live", "dead"}]
        /\ request' \in [Attempts -> Handler]
        /\ straddled' \in SUBSET (Sessions \cup Attempts)
        /\ OldReadersAreKnown' /\ OldSessionsWereUnderWay'
    BY <1>3, <2>2, ChangeStep DEF CompleteReset, SetPassword
  <2>4. SessionTypes'
    BY <1>3, <2>2, <2>3 DEF CompleteReset, SessionInv, SessionTypes
  <2>5. UsedIsDead'
    BY <1>3, <2>1, RevokedAllType
    DEF CompleteReset, SetPassword, SessionInv, SessionTypes, UsedIsDead, SessionsAssumption
  <2>. QED
    BY <2>3, <2>4, <2>5 DEF SessionInv
<1>4. CASE ReplaceCredentials(r)
  <2>1. user' \in User /\ user'.version \in {user.version, user.version + 1}
    <3>1. [password |-> NoPassword, version |-> user.version + 1, deleted |-> TRUE] \in User
      BY <1>1 DEF User
    <3>. QED
      BY <1>1, <1>4, <3>1 DEF ReplaceCredentials
  <2>2. /\ session' \in [Sessions -> {"none", "live", "dead"}]
        /\ request' \in [Attempts -> Handler]
        /\ straddled' \in SUBSET (Sessions \cup Attempts)
        /\ OldReadersAreKnown' /\ OldSessionsWereUnderWay'
    BY <1>4, <2>1, ChangeStep DEF ReplaceCredentials, SessionInv, SessionTypes
  <2>3. SessionTypes'
    BY <1>4, <2>1, <2>2 DEF ReplaceCredentials, SessionInv, SessionTypes
  <2>4. UsedIsDead'
    BY <1>4, RevokedAllType DEF ReplaceCredentials, SessionInv, SessionTypes, UsedIsDead
  <2>. QED
    BY <2>2, <2>3, <2>4 DEF SessionInv
<1>. QED
  BY <1>2, <1>3, <1>4

\* ReadAccount, and the steps of a reset token until it is redeemed.
LEMMA ResetStep ==
  ASSUME SessionInv, NEW r \in Attempts,
         \/ ReadAccount(r, "change") \/ ReadAccount(r, "delete")
         \/ RequestReset(r) \/ InvalidateOlder(r)
         \/ \E t \in Resets : InsertReset(r, t)
         \/ \E ok \in BOOLEAN : DeliverReset(r, ok)
  PROVE  SessionInv'
<1>1. user \in User /\ reset \in [Resets -> {"none", "open", "dead"}]
  BY DEF SessionInv, SessionTypes
<1>2. ASSUME NEW op \in {"change", "delete"}, ReadAccount(r, op) PROVE SessionInv'
  <2>1. [op |-> op, seen |-> user] \in Handler
    BY <1>1 DEF Handler, Reading
  <2>. QED
    BY <1>2, <2>1, ReaderStep DEF ReadAccount, RequestStarts
<1>3. CASE RequestReset(r)
  <2>1. [op |-> "request"] \in Handler
    BY DEF Handler
  <2>. QED
    BY <1>1, <1>3, <2>1, OtherStep DEF RequestReset, RequestStarts
<1>4. CASE InvalidateOlder(r)
  <2>1. [op |-> "insert"] \in Handler
    BY DEF Handler
  <2>. QED
    BY <1>1, <1>4, <2>1, OtherStep DEF InvalidateOlder, Invalidated
<1>5. ASSUME NEW t \in Resets, InsertReset(r, t) PROVE SessionInv'
  <2>1. [op |-> "deliver", token |-> t] \in Handler
    BY DEF Handler
  <2>. QED
    BY <1>1, <1>5, <2>1, OtherStep DEF InsertReset
<1>6. ASSUME NEW ok \in BOOLEAN, DeliverReset(r, ok) PROVE SessionInv'
  BY <1>1, <1>6, NoHandlerType, OtherStep DEF DeliverReset, RequestEnds
<1>. QED
  BY <1>2, <1>3, <1>4, <1>5, <1>6

-----------------------------------------------------------------------------

\* SessionInv holds of the initial states and every step keeps it, and it implies the rest.
THEOREM SessionsInductive ==
  ASSUME SessionsAssumption
  PROVE  SessionSpec => []SessionInv
<1>1. SessionInit => SessionInv
  <2>. SUFFICES ASSUME SessionInit PROVE SessionInv
    OBVIOUS
  <2>1. user \in User
    <3>1. Passwords \subseteq Passwords \cup {NoPassword} /\ {1} \subseteq Nat
      OBVIOUS
    <3>. QED
      BY <3>1, Zenon DEF SessionInit, User
  <2>2. request \in [Attempts -> Handler] /\ \A r \in Attempts : request[r].op = "idle"
    BY NoHandlerType DEF SessionInit
  <2>. QED
    BY <2>1, <2>2
    DEF SessionInit, SessionInv, SessionTypes, UsedIsDead, OldReadersAreKnown, OldSessionsWereUnderWay
<1>2. SessionInv /\ [SessionNext]_sessionVars => SessionInv'
  <2>. SUFFICES ASSUME SessionInv, [SessionNext]_sessionVars PROVE SessionInv'
    OBVIOUS
  <2>1. ASSUME NEW s \in Sessions, EndSession(s) PROVE SessionInv'
    BY <2>1 DEF EndSession, SessionInv, SessionTypes, UsedIsDead, OldReadersAreKnown, OldSessionsWereUnderWay
  <2>2. ASSUME NEW t \in Resets, ExpireReset(t) PROVE SessionInv'
    BY <2>2 DEF ExpireReset, SessionInv, SessionTypes, UsedIsDead, OldReadersAreKnown, OldSessionsWereUnderWay
  <2>3. CASE UNCHANGED sessionVars
    BY <2>3 DEF SessionInv, SessionTypes, UsedIsDead, OldReadersAreKnown, OldSessionsWereUnderWay
  <2>. QED
    BY <2>1, <2>2, <2>3, SessionStep, CredentialStep, ResetStep, SessionsAssumption DEF SessionNext
<1>. QED
  BY <1>1, <1>2, PTL DEF SessionSpec

\* A refresh token opens one new session and a reset token changes one password, however
\* many requests present it side by side (refresh and complete_password_reset in
\* controllers/account.rs).
THEOREM TokensUsedOnce ==
  ASSUME SessionsAssumption
  PROVE  SessionSpec => []TokensAreSingleUse
<1>1. SessionInv => TokensAreSingleUse
  BY DEF SessionInv, UsedIsDead, TokensAreSingleUse
<1>. QED
  BY <1>1, SessionsInductive, PTL

\* After a change of the password, a reset or the deletion of the account only those of
\* its older sessions can live that a request under way opened afterwards.
THEOREM OldSessionsEnd ==
  ASSUME SessionsAssumption
  PROVE  SessionSpec => []OldSessionsWereUnderWay
<1>1. SessionInv => OldSessionsWereUnderWay
  BY DEF SessionInv
<1>. QED
  BY <1>1, SessionsInductive, PTL

\* A change or a reset that was under way does not give a deleted account a password back.
THEOREM DeletedStaysDeleted == SessionSpec => DeletionIsFinal
<1>1. [SessionNext]_sessionVars => [user.deleted => user' = user]_sessionVars
  BY DEF SessionNext, Login, RequestStarts, Refresh, ReadUser, AuthResponse, EndSession, ReadAccount,
         ChangePassword, SetPassword, NewPassword, CompleteReset, ReplaceCredentials, RequestReset,
         InvalidateOlder, InsertReset, DeliverReset, ExpireReset
<1>. QED
  BY <1>1, PTL DEF SessionSpec, DeletionIsFinal

-----------------------------------------------------------------------------
(* Saved routes *)

USE DEF routeVars

Row == [state : {"live", "deleted"}, content : Contents, version : Nat, at : Nat]

\* What a request carries between its statements.
Call ==
    {NoCall}
    \cup [op : {"create"}, content : Contents, now : Nat]
    \cup [op : {"write"}, route : Routes, state : {"live", "deleted"}, content : Contents,
          expected : Nat, now : Nat]
    \cup [op : {"list"}, rows : UNION {[S -> Row] : S \in SUBSET Routes}]

RouteTypes ==
    /\ clock \in Nat
    /\ row \in [Routes -> Row \cup {NoRoute}]
    /\ copy \in [Phones -> [Routes -> Row \cup {NoRoute}]]
    /\ call \in [Phones -> Call]

\* What is known of a route is an earlier row of it, or the row but for its time.
Earlier(known, now) ==
    known # NoRoute =>
        /\ now # NoRoute
        /\ known.version <= now.version
        /\ known.version = now.version =>
             known.content = now.content /\ known.state = now.state

KnownIsEarlier ==
    \A p \in Phones :
        /\ \A r \in Routes : Earlier(copy[p][r], row[r])
        /\ call[p].op = "list" =>
             \A r \in DOMAIN call[p].rows : Earlier(call[p].rows[r], row[r])

RouteInv == RouteTypes /\ KnownIsEarlier

-----------------------------------------------------------------------------

LEMMA NoRouteIsNone == NoRoute.state = "none" /\ NoRoute \notin Row
  BY DEF NoRoute, Row

LEMMA NoCallType == NoCall \in Call /\ NoCall.op = "idle"
  BY DEF NoCall, Call

LEMMA EarlierThanItself ==
  ASSUME NEW x \in Row
  PROVE  Earlier(x, x)
  BY DEF Earlier, Row

LEMMA EarlierGoesOn ==
  ASSUME NEW x \in Row \cup {NoRoute}, NEW y \in Row \cup {NoRoute}, NEW z \in Row \cup {NoRoute},
         Earlier(x, y), Earlier(y, z)
  PROVE  Earlier(x, z)
  BY NoRouteIsNone DEF Earlier, Row

\* Writing the columns of a row.
LEMMA RowColumns ==
  ASSUME NEW x \in Row, NEW s \in {"live", "deleted"}, NEW c \in Contents
  PROVE  /\ [x EXCEPT !.state = s, !.content = c] \in Row
         /\ [x EXCEPT !.state = s, !.content = c].state = s
         /\ [x EXCEPT !.state = s, !.content = c].content = c
  BY Zenon DEF Row

LEMMA RowStamp ==
  ASSUME NEW x \in Row, NEW t \in Nat, NEW n \in Nat
  PROVE  /\ [x EXCEPT !.at = t, !.version = n] \in Row
         /\ [x EXCEPT !.at = t, !.version = n].state = x.state
         /\ [x EXCEPT !.at = t, !.version = n].content = x.content
         /\ [x EXCEPT !.at = t, !.version = n].version = n
  BY Zenon DEF Row

\* The trigger gives a new version whenever it matters.
LEMMA TouchedRow ==
  ASSUME NEW old \in Row, NEW new \in Row, NEW t \in Nat
  PROVE  Touched(old, new, t) \in Row /\ Earlier(old, Touched(old, new, t))
<1>. DEFINE n == IF new.content # old.content \/ new.state # old.state
                 THEN old.version + 1 ELSE old.version
<1>1. old.version \in Nat /\ n \in Nat
  BY DEF Row
<1>2. Touched(old, new, t) = [new EXCEPT !.at = t, !.version = n]
  BY DEF Touched
<1>. HIDE DEF n
<1>3. /\ [new EXCEPT !.at = t, !.version = n] \in Row
      /\ [new EXCEPT !.at = t, !.version = n].state = new.state
      /\ [new EXCEPT !.at = t, !.version = n].content = new.content
      /\ [new EXCEPT !.at = t, !.version = n].version = n
  BY <1>1, RowStamp
<1>4. /\ Touched(old, new, t) \in Row
      /\ Touched(old, new, t).state = new.state
      /\ Touched(old, new, t).content = new.content
      /\ Touched(old, new, t).version = n
  BY <1>2, <1>3
<1>5. /\ old.version <= n
      /\ old.version = n => old.content = new.content /\ old.state = new.state
  BY <1>1 DEF n
<1>. QED
  BY <1>4, <1>5, NoRouteIsNone DEF Earlier

-----------------------------------------------------------------------------

\* What a request may carry, given the rows as they are.
Carries(c) == c.op = "list" => \A r \in DOMAIN c.rows : Earlier(c.rows[r], row[r])

\* A statement that only begins.
LEMMA StartsKeeps ==
  ASSUME RouteInv, NEW p \in Phones, NEW c \in Call, Carries(c), CallStarts(p, c)
  PROVE  RouteInv'
<1>. USE DEF RouteInv, CallStarts
<1>1. RouteTypes'
  BY DEF RouteTypes
<1>2. ASSUME NEW q \in Phones
      PROVE  Carries(call'[q])
  <2>1. CASE q = p
    BY <2>1 DEF RouteTypes
  <2>2. CASE q # p
    BY <2>2 DEF RouteTypes, KnownIsEarlier, Carries
  <2>. QED
    BY <2>1, <2>2
<1>. QED
  BY <1>1, <1>2 DEF KnownIsEarlier, Carries

\* A statement that ends without a row.
LEMMA ConflictKeeps ==
  ASSUME RouteInv, NEW p \in Phones, Conflict(p)
  PROVE  RouteInv'
<1>1. NoCall \in Call /\ Carries(NoCall)
  BY NoCallType DEF Carries
<1>2. ASSUME NEW q \in Phones
      PROVE  Carries(call'[q])
  <2>1. CASE q = p
    BY <1>1, <2>1 DEF RouteInv, RouteTypes, Conflict
  <2>2. CASE q # p
    BY <2>2 DEF RouteInv, RouteTypes, KnownIsEarlier, Carries, Conflict
  <2>. QED
    BY <2>1, <2>2
<1>3. RouteTypes'
  BY <1>1 DEF RouteInv, RouteTypes, Conflict
<1>. QED
  BY <1>2, <1>3 DEF RouteInv, KnownIsEarlier, Carries, Conflict

\* A row that is written follows the one that was there.
LEMMA WritesKeeps ==
  ASSUME RouteInv, NEW p \in Phones, NEW r \in Routes, NEW new \in Row,
         Earlier(row[r], new), Writes(p, r, new)
  PROVE  RouteInv'
<1>. USE DEF RouteInv
<1>1. /\ row' = [row EXCEPT ![r] = new]
      /\ copy' = [copy EXCEPT ![p][r] = new]
      /\ call' = [call EXCEPT ![p] = NoCall]
      /\ clock' = clock
  BY DEF Writes
<1>2. RouteTypes'
  BY <1>1, NoCallType DEF RouteTypes
<1>3. ASSUME NEW s \in Routes, NEW x \in Row \cup {NoRoute}, Earlier(x, row[s])
      PROVE  Earlier(x, row'[s])
  <2>1. CASE s = r
    <3>1. row'[s] = new
      BY <1>1, <2>1 DEF RouteTypes
    <3>2. row[r] \in Row \cup {NoRoute}
      BY DEF RouteTypes
    <3>. QED
      BY <1>3, <2>1, <3>1, <3>2, EarlierGoesOn
  <2>2. CASE s # r
    BY <1>1, <1>3, <2>2 DEF RouteTypes
  <2>. QED
    BY <2>1, <2>2
<1>4. ASSUME NEW q \in Phones, NEW s \in Routes
      PROVE  Earlier(copy'[q][s], row'[s])
  <2>1. CASE q = p /\ s = r
    <3>1. copy'[q][s] = new /\ row'[s] = new
      BY <1>1, <2>1 DEF RouteTypes
    <3>. QED
      BY <3>1, EarlierThanItself
  <2>2. CASE ~(q = p /\ s = r)
    <3>1. copy'[q][s] = copy[q][s]
      BY <1>1, <2>2 DEF RouteTypes
    <3>2. copy[q][s] \in Row \cup {NoRoute} /\ Earlier(copy[q][s], row[s])
      BY DEF RouteTypes, KnownIsEarlier
    <3>. QED
      BY <1>3, <3>1, <3>2
  <2>. QED
    BY <2>1, <2>2
<1>5. ASSUME NEW q \in Phones, call'[q].op = "list", NEW s \in DOMAIN call'[q].rows
      PROVE  Earlier(call'[q].rows[s], row'[s])
  <2>1. q # p /\ call'[q] = call[q]
    BY <1>1, <1>5, NoCallType DEF RouteTypes
  <2>2. call[q] \in [op : {"list"}, rows : UNION {[S -> Row] : S \in SUBSET Routes}]
    BY <1>5, <2>1, NoCallType DEF RouteTypes, Call
  <2>3. s \in Routes /\ call[q].rows[s] \in Row
    BY <1>5, <2>1, <2>2
  <2>4. Earlier(call[q].rows[s], row[s])
    BY <1>5, <2>1, <2>3 DEF KnownIsEarlier
  <2>. QED
    BY <1>3, <2>1, <2>3, <2>4
<1>. QED
  BY <1>2, <1>4, <1>5 DEF KnownIsEarlier

-----------------------------------------------------------------------------

LEMMA TickKeeps ==
  ASSUME RouteInv, Tick
  PROVE  RouteInv'
  BY DEF RouteInv, RouteTypes, KnownIsEarlier, Tick

LEMMA CountRoutesKeeps ==
  ASSUME RouteInv, NEW p \in Phones, NEW content \in Contents, CountRoutes(p, content)
  PROVE  RouteInv'
<1>. DEFINE c == [op |-> "create", content |-> content, now |-> clock]
<1>1. c \in Call /\ Carries(c)
  BY DEF Call, Carries, RouteInv, RouteTypes
<1>. QED
  BY <1>1, StartsKeeps DEF CountRoutes

LEMMA InsertRouteKeeps ==
  ASSUME RouteInv, NEW p \in Phones, NEW r \in Routes, InsertRoute(p, r)
  PROVE  RouteInv'
<1>1. call[p] \in [op : {"create"}, content : Contents, now : Nat]
  BY NoCallType DEF InsertRoute, RouteInv, RouteTypes, Call
<1>2. PICK now \in call[p].now .. clock :
        Writes(p, r, [state |-> "live", content |-> call[p].content,
                      version |-> 1, at |-> now])
  BY DEF InsertRoute
<1>. DEFINE new == [state |-> "live", content |-> call[p].content, version |-> 1, at |-> now]
<1>3. new \in Row
  BY <1>1 DEF Row, RouteInv, RouteTypes
<1>4. Earlier(row[r], new)
  BY DEF InsertRoute, Earlier
<1>. QED
  BY <1>2, <1>3, <1>4, WritesKeeps

LEMMA StartWriteKeeps ==
  ASSUME RouteInv, NEW p \in Phones, NEW r \in Routes, NEW state \in {"live", "deleted"},
         NEW content \in Contents, StartWrite(p, r, state, content)
  PROVE  RouteInv'
<1>. DEFINE c == [op |-> "write", route |-> r, state |-> state, content |-> content,
                  expected |-> copy[p][r].version, now |-> clock]
<1>1. copy[p][r] \in Row
  BY DEF StartWrite, RouteInv, RouteTypes
<1>2. copy[p][r].version \in Nat
  BY <1>1 DEF Row
<1>3. c \in Call /\ Carries(c)
  BY <1>2 DEF Call, Carries, RouteInv, RouteTypes
<1>. QED
  BY <1>3, StartsKeeps DEF StartWrite

LEMMA CommitWriteKeeps ==
  ASSUME RouteInv, NEW p \in Phones, CommitWrite(p)
  PROVE  RouteInv'
<1>1. call[p] \in [op : {"write"}, route : Routes, state : {"live", "deleted"},
                   content : Contents, expected : Nat, now : Nat]
  BY NoCallType DEF CommitWrite, RouteInv, RouteTypes, Call
<1>. DEFINE r == call[p].route
            old == row[r]
            c == IF call[p].state = "deleted" THEN old.content ELSE call[p].content
            new == [old EXCEPT !.state = call[p].state, !.content = c]
<1>2. r \in Routes
  BY <1>1
<1>3. CASE Matches(r, call[p].expected)
  <2>1. old \in Row
    BY <1>2, <1>3, NoRouteIsNone DEF Matches, Live, RouteInv, RouteTypes
  <2>2. c \in Contents /\ call[p].state \in {"live", "deleted"} /\ call[p].now \in Nat
    BY <1>1, <2>1 DEF Row
  <2>3. new \in Row
    <3>. HIDE DEF old, c
    <3>. QED
      BY <2>1, <2>2, RowColumns
  <2>4. Writes(p, r, Touched(old, new, call[p].now))
    BY <1>3 DEF CommitWrite
  <2>5. Touched(old, new, call[p].now) \in Row /\ Earlier(old, Touched(old, new, call[p].now))
    BY <2>1, <2>2, <2>3, TouchedRow
  <2>. QED
    BY <1>2, <2>4, <2>5, WritesKeeps
<1>4. CASE ~Matches(r, call[p].expected)
  BY <1>4, ConflictKeeps DEF CommitWrite
<1>. QED
  BY <1>3, <1>4

LEMMA ReadRoutesKeeps ==
  ASSUME RouteInv, NEW p \in Phones, ReadRoutes(p)
  PROVE  RouteInv'
<1>. DEFINE got == [r \in Changed(p) |-> row[r]]
            c == [op |-> "list", rows |-> got]
<1>1. ASSUME NEW r \in Changed(p)
      PROVE  r \in Routes /\ row[r] \in Row
  BY <1>1 DEF Changed, RouteInv, RouteTypes
<1>2. got \in [Changed(p) -> Row] /\ Changed(p) \in SUBSET Routes
  BY <1>1
<1>3. got \in UNION {[S -> Row] : S \in SUBSET Routes}
  BY <1>2
<1>4. c \in Call
  BY <1>3 DEF Call
<1>5. Carries(c)
  BY <1>1, EarlierThanItself DEF Carries
<1>. QED
  BY <1>4, <1>5, StartsKeeps DEF ReadRoutes

LEMMA AnswerListKeeps ==
  ASSUME RouteInv, NEW p \in Phones, AnswerList(p)
  PROVE  RouteInv'
<1>. USE DEF RouteInv
<1>1. call[p] \in [op : {"list"}, rows : UNION {[S -> Row] : S \in SUBSET Routes}]
  BY NoCallType DEF AnswerList, RouteTypes, Call
<1>. DEFINE got == call[p].rows
            new == [r \in Routes |-> IF r \in DOMAIN got THEN got[r] ELSE copy[p][r]]
<1>2. /\ copy' = [copy EXCEPT ![p] = new]
      /\ call' = [call EXCEPT ![p] = NoCall]
      /\ row' = row /\ clock' = clock
  BY DEF AnswerList
<1>3. ASSUME NEW r \in Routes
      PROVE  new[r] \in Row \cup {NoRoute} /\ Earlier(new[r], row[r])
  <2>1. CASE r \in DOMAIN got
    <3>1. new[r] = got[r] /\ got[r] \in Row
      BY <1>1, <2>1
    <3>2. call[p].op = "list" /\ Earlier(got[r], row[r])
      BY <1>1, <2>1 DEF KnownIsEarlier
    <3>. QED
      BY <3>1, <3>2
  <2>2. CASE r \notin DOMAIN got
    BY <2>2 DEF RouteTypes, KnownIsEarlier
  <2>. QED
    BY <2>1, <2>2
<1>4. new \in [Routes -> Row \cup {NoRoute}]
  BY <1>3
<1>. HIDE DEF new
<1>5. RouteTypes'
  BY <1>2, <1>4, NoCallType DEF RouteTypes
<1>6. ASSUME NEW q \in Phones, NEW r \in Routes
      PROVE  Earlier(copy'[q][r], row'[r])
  BY <1>2, <1>3 DEF RouteTypes, KnownIsEarlier
<1>7. ASSUME NEW q \in Phones, call'[q].op = "list", NEW r \in DOMAIN call'[q].rows
      PROVE  Earlier(call'[q].rows[r], row'[r])
  <2>1. call'[q] = call[q]
    BY <1>2, <1>7, NoCallType DEF RouteTypes
  <2>. QED
    BY <1>2, <1>7, <2>1 DEF KnownIsEarlier
<1>. QED
  BY <1>5, <1>6, <1>7 DEF KnownIsEarlier

-----------------------------------------------------------------------------

\* What a phone knows of a route is an earlier row of it, whatever create,
\* update, delete and list handlers of how many phones run into each other.
THEOREM RoutesInductive ==
  ASSUME RoutesAssumption
  PROVE  RoutesSpec => []RouteInv
<1>1. RoutesInit => RouteInv
  BY NoCallType DEF RoutesInit, RouteInv, RouteTypes, KnownIsEarlier, Earlier
<1>2. RouteInv /\ [RoutesNext]_routeVars => RouteInv'
  <2>. SUFFICES ASSUME RouteInv, [RoutesNext]_routeVars PROVE RouteInv'
    OBVIOUS
  <2>1. CASE Tick
    BY <2>1, TickKeeps
  <2>2. CASE \E p \in Phones, content \in Contents : CountRoutes(p, content)
    BY <2>2, CountRoutesKeeps
  <2>3. CASE \E p \in Phones, r \in Routes : InsertRoute(p, r)
    BY <2>3, InsertRouteKeeps
  <2>4. CASE \E p \in Phones, r \in Routes, content \in Contents :
               StartWrite(p, r, "live", content)
    BY <2>4, StartWriteKeeps
  <2>5. CASE \E p \in Phones, r \in Routes :
               StartWrite(p, r, "deleted", CHOOSE c \in Contents : TRUE)
    <3>1. (CHOOSE c \in Contents : TRUE) \in Contents
      BY DEF RoutesAssumption
    <3>. QED
      BY <2>5, <3>1, StartWriteKeeps
  <2>6. CASE \E p \in Phones : CommitWrite(p)
    BY <2>6, CommitWriteKeeps
  <2>7. CASE \E p \in Phones : ReadRoutes(p)
    BY <2>7, ReadRoutesKeeps
  <2>8. CASE \E p \in Phones : AnswerList(p)
    BY <2>8, AnswerListKeeps
  <2>9. CASE UNCHANGED routeVars
    BY <2>9 DEF RouteInv, RouteTypes, KnownIsEarlier
  <2>. QED
    BY <2>1, <2>2, <2>3, <2>4, <2>5, <2>6, <2>7, <2>8, <2>9 DEF RoutesNext
<1>. QED
  BY <1>1, <1>2, PTL DEF RoutesSpec

\* A version stands for one content, so that expected_version protects what
\* a phone has not seen (update_saved_route, delete_saved_route, the trigger).
THEOREM VersionsNameContents ==
  ASSUME RoutesAssumption
  PROVE  RoutesSpec => []VersionNamesContent
<1>1. RouteInv => VersionNamesContent
  BY DEF RouteInv, KnownIsEarlier, Earlier, VersionNamesContent
<1>. QED
  BY <1>1, RoutesInductive, PTL

=============================================================================

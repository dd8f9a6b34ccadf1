---------------------------- MODULE PushDelivery ----------------------------
(***************************************************************************)
(* The push queue of the realtime worker.  After every imported batch the  *)
(* worker turns the records of followed trips into rows of push_deliveries *)
(* (enqueue_push_events); a loop claims one row at a time, sends it to FCM *)
(* or APNs and writes the outcome.  A row that stays "sending" for five    *)
(* minutes is taken to be lost and offered again.  The handlers of         *)
(* MobileDevices run beside it.                                            *)
(***************************************************************************)
EXTENDS MobileDevices, Integers

CONSTANTS
    Workers,        \* delivery loops, one per running worker
    Records,        \* what a batch may say of a followed trip
    Follows,        \* the fixed part of a subscription, see EventsOf
    PlatformOf,     \* "android" or "ios" for a device
    AttemptLimit,   \* 8 in the code
    MaxFaults,      \* bound on crashes, lost answers and unconfigured sends
    Slow            \* whether a live worker may hold a row beyond the lease

ASSUME PushAssumption ==
    /\ AttemptLimit \in Nat \ {0}
    /\ MaxFaults \in Nat
    /\ Slow \in BOOLEAN
    /\ PlatformOf \in [Devices -> {"android", "ios"}]

VARIABLES
    delivery,       \* rows of push_deliveries by event_key
    worker,         \* the row a delivery loop holds, and the answer to it
    batch,          \* events still to be inserted of the batch in hand
    faults,         \* faults so far
    accepted,       \* history: times the provider took the notification
    unknown,        \* history: of those, times the worker did not learn it
    refused         \* history: temporary refusals written to the row

history == <<accepted, unknown, refused>>
pushVars == <<delivery, worker, batch, faults, accepted, unknown, refused>>
vars == <<deviceVars, pushVars>>

-----------------------------------------------------------------------------
(* What a record means to a subscription. *)

\* The time left at the change, counted from the delayed arrival to the
\* departure of the connection, days apart included, is below the minimum.
ConnectionIsAtRisk(s, r) ==
    /\ Follows[s].connects
    /\ r.sequence \in {-1, Follows[s].alighting}
    /\ r.delay # -1
    /\ Follows[s].departure + 86400 * Follows[s].days
         - Follows[s].arrival - r.delay < Follows[s].required

\* The deduplication keys of the events record r raises for subscription s.
\* A record without delay or stop_sequence holds -1 there.
EventsOf(s, r) ==
    IF r.trip # Follows[s].trip THEN {}
    ELSE UNION {
      IF r.cancelled THEN {<<s, "trip_cancelled">>} ELSE {},
      IF r.delay # -1 /\ r.delay >= Follows[s].significant
        THEN {<<s, "significant_delay">>} ELSE {},
      IF r.sequence = Follows[s].boarding /\ r.stop # Follows[s].stop
        THEN {<<s, "platform_changed", r.stop>>} ELSE {},
      IF ConnectionIsAtRisk(s, r) THEN {<<s, "connection_at_risk">>} ELSE {}}

Events == UNION {EventsOf(s, r) : s \in Subs, r \in Records}

\* classify_push_status: what an answer of the provider means.
Classify(platform, answer) ==
    CASE answer = "ok" -> "delivered"
      [] \/ platform = "ios" /\ answer \in {"410", "bad_token", "unregistered"}
         \/ platform = "android" /\ answer \in {"404", "unregistered"} -> "invalid"
      [] answer \in {"429", "5xx"} -> "retry"
      [] OTHER -> "failed"

Refusals == {"404", "410", "429", "5xx", "bad_token", "unregistered", "other"}

-----------------------------------------------------------------------------
NoRow == [status |-> "none", attempts |-> 0, due |-> FALSE]
Waiting == [at |-> "look"]

PushTypeOK ==
    /\ \A e \in Events :
         /\ delivery[e].status \in
              {"none", "pending", "retry", "sending", "delivered", "failed"}
         /\ delivery[e].attempts \in 0 .. AttemptLimit + MaxFaults
    /\ \A w \in Workers : worker[w].at \in {"look", "claim", "send", "record"}
    /\ batch \subseteq Events
    /\ faults \in 0 .. MaxFaults

\* Types of the variables.
TypeOK == DevicesTypeOK /\ PushTypeOK

Init ==
    /\ DevicesInit
    /\ delivery = [e \in Events |-> NoRow]
    /\ worker = [w \in Workers |-> Waiting]
    /\ batch = {}
    /\ faults = 0
    /\ accepted = [e \in Events |-> 0]
    /\ unknown = [e \in Events |-> 0]
    /\ refused = [e \in Events |-> 0]

-----------------------------------------------------------------------------
(* enqueue_push_events *)

\* One query reads the open subscriptions on enabled devices.
ReadSubscriptions(r) ==
    /\ batch = {}
    /\ batch' = UNION {EventsOf(s, r) : s \in
         {s \in Subs : sub[s] = "open" /\ device[DeviceOf[s]] = "enabled"}}
    /\ UNCHANGED <<deviceVars, delivery, worker, faults, history>>

\* INSERT ... ON CONFLICT(device_id,event_key) DO NOTHING, one event at a
\* time.  A subscription deleted since ends the batch with an error.
InsertPushEvent(e) ==
    /\ e \in batch
    /\ IF sub[e[1]] = "none"
       THEN batch' = {} /\ UNCHANGED delivery
       ELSE /\ batch' = batch \ {e}
            /\ delivery' = IF delivery[e].status # "none" THEN delivery
                           ELSE [delivery EXCEPT ![e] =
                                   [status |-> "pending", attempts |-> 0, due |-> TRUE]]
    /\ UNCHANGED <<deviceVars, worker, faults, history>>

-----------------------------------------------------------------------------
(* deliver_next_push *)

Holds(w, e) == worker[w].at \in {"send", "record"} /\ worker[w].event = e

\* available_at passes; for a row that is being sent, five minutes more.
ComeDue(e) ==
    /\ delivery[e].status \in {"retry", "sending"} /\ ~delivery[e].due
    /\ delivery[e].status = "sending" => Slow \/ \A w \in Workers : ~Holds(w, e)
    /\ delivery' = [delivery EXCEPT ![e].due = TRUE]
    /\ UNCHANGED <<deviceVars, worker, batch, faults, history>>

\* Fault: the five minutes are not waited for.
Reclaimed_Eager(rows) ==
    [e \in Events |->
       IF rows[e].status = "sending" THEN [rows[e] EXCEPT !.status = "retry", !.due = TRUE]
       ELSE rows[e]]

\* Fault: a row that is being sent is never offered again.
Reclaimed_Never(rows) == rows

\* Rows sending for too long may be sent again.
Reclaimed(rows) ==
    [e \in Events |->
       IF rows[e].status = "sending" /\ rows[e].due
       THEN [rows[e] EXCEPT !.status = "retry"] ELSE rows[e]]

Reclaim(w) ==
    /\ worker[w].at = "look"
    /\ delivery' = Reclaimed(delivery)
    /\ worker' = [worker EXCEPT ![w] = [at |-> "claim"]]
    /\ UNCHANGED <<deviceVars, batch, faults, history>>

\* Fault: a delivery that was given up is claimed too.
Claimable_Failed(e) ==
    /\ delivery[e].status \in {"pending", "retry", "failed"}
    /\ delivery[e].due \/ delivery[e].status = "failed"
    /\ device[DeviceOf[e[1]]] = "enabled"

Claimable(e) ==
    /\ delivery[e].status \in {"pending", "retry"}
    /\ delivery[e].due
    /\ device[DeviceOf[e[1]]] = "enabled"

\* FOR UPDATE SKIP LOCKED: one worker takes the row; the attempt is counted
\* before the notification is sent.
Claim(w, e) ==
    /\ worker[w].at = "claim"
    /\ Claimable(e)
    /\ delivery' = [delivery EXCEPT ![e] =
         [status |-> "sending", attempts |-> @.attempts + 1, due |-> FALSE]]
    /\ worker' = [worker EXCEPT ![w] =
         [at |-> "send", event |-> e, attempts |-> delivery[e].attempts + 1]]
    /\ UNCHANGED <<deviceVars, batch, faults, history>>

NothingDue(w) ==
    /\ worker[w].at = "claim"
    /\ \A e \in Events : ~Claimable(e)
    /\ worker' = [worker EXCEPT ![w] = Waiting]
    /\ UNCHANGED <<deviceVars, delivery, batch, faults, history>>

Learns(w, result) ==
    worker' = [worker EXCEPT ![w] =
      [at |-> "record", event |-> @.event, attempts |-> @.attempts, result |-> result]]

\* send_fcm and send_apns: the provider takes the notification or refuses it.
Send(w, answer) ==
    /\ worker[w].at = "send"
    /\ LET e == worker[w].event IN
         /\ Learns(w, Classify(PlatformOf[DeviceOf[e[1]]], answer))
         /\ accepted' = IF answer = "ok" THEN [accepted EXCEPT ![e] = @ + 1] ELSE accepted
    /\ UNCHANGED <<deviceVars, delivery, batch, faults, unknown, refused>>

\* The provider took it but its answer is lost: a transport error, retried.
AnswerLost(w) ==
    /\ worker[w].at = "send" /\ faults < MaxFaults
    /\ Learns(w, "retry")
    /\ accepted' = [accepted EXCEPT ![worker[w].event] = @ + 1]
    /\ unknown' = [unknown EXCEPT ![worker[w].event] = @ + 1]
    /\ faults' = faults + 1
    /\ UNCHANGED <<deviceVars, delivery, batch, refused>>

\* The credentials of the provider are not set.
Unconfigured(w) ==
    /\ worker[w].at = "send" /\ faults < MaxFaults
    /\ Learns(w, "unconfigured")
    /\ faults' = faults + 1
    /\ UNCHANGED <<deviceVars, delivery, batch, history>>

WithStatus(e, status) == [delivery EXCEPT ![e].status = status]

\* The row after a temporary refusal: again later, or given up.
AfterRetry(e, attempts) ==
    IF attempts < AttemptLimit
    THEN [delivery EXCEPT ![e] = [status |-> "retry", attempts |-> @.attempts, due |-> FALSE]]
    ELSE WithStatus(e, "failed")

\* An unconfigured provider gives the attempt back.
AfterUnconfigured(e) ==
    [delivery EXCEPT ![e] =
       [status |-> "retry", due |-> FALSE,
        attempts |-> IF @.attempts > 0 THEN @.attempts - 1 ELSE 0]]

\* An invalid token also disables the device and ends its subscriptions.
Record(w) ==
    /\ worker[w].at = "record"
    /\ LET e == worker[w].event
           result == worker[w].result IN
         /\ delivery' =
              IF delivery[e].status = "none" THEN delivery
              ELSE CASE result = "delivered" -> WithStatus(e, "delivered")
                     [] result \in {"invalid", "failed"} -> WithStatus(e, "failed")
                     [] result = "unconfigured" -> AfterUnconfigured(e)
                     [] OTHER -> AfterRetry(e, worker[w].attempts)
         /\ refused' = IF result = "retry" THEN [refused EXCEPT ![e] = @ + 1] ELSE refused
         /\ IF result = "invalid" /\ delivery[e].status # "none"
            THEN /\ device' = [device EXCEPT ![DeviceOf[e[1]]] = "disabled"]
                 /\ sub' = EndedIn(SubsOn(DeviceOf[e[1]]))
            ELSE UNCHANGED <<device, sub>>
    /\ worker' = [worker EXCEPT ![w] = Waiting]
    /\ UNCHANGED <<account, client, batch, faults, accepted, unknown>>

\* The worker stops and is started again; what it held is in the database only.
Crash(w) ==
    /\ worker[w].at \in {"send", "record"} /\ faults < MaxFaults
    /\ faults' = faults + 1
    /\ unknown' = IF worker[w].at = "record" /\ worker[w].result = "delivered"
                  THEN [unknown EXCEPT ![worker[w].event] = @ + 1] ELSE unknown
    /\ worker' = [worker EXCEPT ![w] = Waiting]
    /\ UNCHANGED <<deviceVars, delivery, batch, accepted, refused>>

-----------------------------------------------------------------------------
\* The deletion of an account takes the deliveries of its devices along.
DeleteAccount(c) ==
    /\ DeleteMe(c)
    /\ delivery' = [e \in Events |->
         IF OwnerOf(e[1]) = client[c].on THEN NoRow ELSE delivery[e]]
    /\ UNCHANGED <<worker, batch, faults, history>>

Deliver(w) ==
    \/ Reclaim(w) \/ NothingDue(w) \/ Record(w)
    \/ \E e \in Events : Claim(w, e)
    \/ \E answer \in Refusals \cup {"ok"} : Send(w, answer)

Next ==
    \/ DevicesStep /\ UNCHANGED pushVars
    \/ \E c \in Clients : DeleteAccount(c)
    \/ \E r \in Records : ReadSubscriptions(r)
    \/ \E e \in Events : InsertPushEvent(e) \/ ComeDue(e)
    \/ \E w \in Workers :
         Deliver(w) \/ AnswerLost(w) \/ Unconfigured(w) \/ Crash(w)

\* Time passes, batches are finished and the delivery loops keep running.
\* The row a loop claims is the one that has been available longest, so no
\* row that stays available is passed over for ever.
Fairness ==
    /\ \A e \in Events : WF_vars(ComeDue(e)) /\ WF_vars(InsertPushEvent(e))
    /\ \A w \in Workers : WF_vars(Deliver(w))
    /\ \A e \in Events : SF_vars(\E w \in Workers : Claim(w, e))

Spec == Init /\ [][Next]_vars /\ Fairness

-----------------------------------------------------------------------------
(* What the queue promises *)

\* A notification reaches the phone once, and once more only for each time
\* that the worker could not know that the provider had taken it: by a crash
\* or a lost answer, never by two loops that send the same row.
RepeatsHaveACause == \A e \in Events : accepted[e] <= 1 + unknown[e]

\* The provider's temporary refusals of a notification are bounded by the
\* attempt budget, whatever crashes and unconfigured passes come between.
BoundedRetry == \A e \in Events : refused[e] <= AttemptLimit

\* A delivery that was delivered or given up is never taken up again: an
\* outcome written late does not revive it.
OutcomeIsFinal ==
    [][\A e \in Events : delivery[e].status \in {"delivered", "failed"} =>
         delivery'[e].status \in {delivery[e].status, "none"}]_vars

\* Every queued notification is delivered or given up, unless its device is
\* disabled or its account deleted: none is stuck as "sending" or starved.
EventuallyDecided ==
    \A e \in Events :
      delivery[e].status \in {"pending", "retry", "sending"} ~>
        \/ delivery[e].status \in {"delivered", "failed", "none"}
        \/ device[DeviceOf[e[1]]] # "enabled"

\* docs/auth.md: the deletion of an account deletes its devices.  A device
\* whose registration was under way is inserted after it.
DeletedKeepsNoDevice ==
    \A d \in Devices : account[UserOf[d]] = "deleted" => device[d] = "none"
============================================================================

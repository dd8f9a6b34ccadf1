--------------------------- MODULE MobileDevices ---------------------------
(***************************************************************************)
(* The devices and journey subscriptions of the accounts, as the handlers  *)
(* of the API in controllers/account.rs keep them.  Every handler reads    *)
(* the account first (current_user) and acts in a later statement, so that *)
(* another request, and the deletion of the account, may come between.     *)
(* A device is a row of mobile_devices: the app of one account registers   *)
(* its push token, and the row of another account answers "conflict" and   *)
(* stays as it is, which is left out.                                      *)
(***************************************************************************)
EXTENDS Naturals, FiniteSets

CONSTANTS
    Users,          \* accounts
    Devices,        \* push tokens, each a row of mobile_devices
    Subs,           \* keys (device, run, boarding call) of subscriptions
    Clients,        \* requests in flight
    UserOf,         \* the account whose app holds a token
    DeviceOf        \* the device of a subscription

ASSUME DevicesAssumption ==
    /\ UserOf \in [Devices -> Users]
    /\ DeviceOf \in [Subs -> Devices]

VARIABLES
    account,        \* users.deleted_at: "alive" or "deleted"
    device,         \* "none", or the row: "enabled" or "disabled"
    sub,            \* "none", or the row: "open", "expired" or "ended"
    client          \* the handler a request is in, and how far it got

deviceVars == <<account, device, sub, client>>

OwnerOf(s) == UserOf[DeviceOf[s]]

Idle == [op |-> "idle"]

Requests ==
    {Idle}
    \cup [op : {"register", "disable"}, on : Devices]
    \cup [op : {"end"}, on : Subs]
    \cup [op : {"create"}, on : Subs, checked : BOOLEAN]
    \cup [op : {"delete"}, on : Users]

DevicesTypeOK ==
    /\ account \in [Users -> {"alive", "deleted"}]
    /\ device \in [Devices -> {"none", "enabled", "disabled"}]
    /\ sub \in [Subs -> {"none", "open", "expired", "ended"}]
    /\ \A c \in Clients : client[c] \in Requests

DevicesInit ==
    /\ account = [u \in Users |-> "alive"]
    /\ device = [d \in Devices |-> "none"]
    /\ sub = [s \in Subs |-> "none"]
    /\ client = [c \in Clients |-> Idle]

Caller(r) == CASE r.op \in {"register", "disable"} -> UserOf[r.on]
               [] r.op \in {"end", "create"}       -> OwnerOf(r.on)
               [] OTHER                            -> r.on

\* The requests as they are once their account is known.
Authenticated ==
    {r \in Requests \ {Idle} : r.op = "create" => ~r.checked}

\* current_user: the account is not deleted at this moment.
CurrentUser(c, r) ==
    /\ client[c] = Idle
    /\ r \in Authenticated
    /\ account[Caller(r)] = "alive"
    /\ client' = [client EXCEPT ![c] = r]
    /\ UNCHANGED <<account, device, sub>>

Answered(c) == client' = [client EXCEPT ![c] = Idle]

\* INSERT ... ON CONFLICT(token_hash) DO UPDATE: a known token is enabled again.
RegisterDevice(c) ==
    /\ client[c].op = "register"
    /\ device' = [device EXCEPT ![client[c].on] = "enabled"]
    /\ Answered(c)
    /\ UNCHANGED <<account, sub>>

\* ended_at=COALESCE(ended_at,now()) for the subscriptions in S.
EndedIn(S) ==
    [s \in Subs |-> IF s \in S /\ sub[s] # "none" THEN "ended" ELSE sub[s]]

SubsOn(d) == {s \in Subs : DeviceOf[s] = d}

\* One transaction disables the device and ends its subscriptions.
DeleteDevice(c) ==
    /\ client[c].op = "disable"
    /\ LET d == client[c].on IN
         IF device[d] = "none"
         THEN UNCHANGED <<device, sub>>
         ELSE /\ device' = [device EXCEPT ![d] = "disabled"]
              /\ sub' = EndedIn(SubsOn(d))
    /\ Answered(c)
    /\ UNCHANGED account

\* create_journey_subscription looks for an enabled device of the account ...
CheckDevice(c) ==
    /\ client[c].op = "create" /\ ~client[c].checked
    /\ IF device[DeviceOf[client[c].on]] = "enabled"
       THEN client' = [client EXCEPT ![c].checked = TRUE]
       ELSE Answered(c)
    /\ UNCHANGED <<account, device, sub>>

\* ... and inserts, or opens again, the subscription in a later statement.
\* The device is not looked at again.
InsertSubscription(c) ==
    /\ client[c].op = "create" /\ client[c].checked
    /\ sub' = [sub EXCEPT ![client[c].on] = "open"]
    /\ Answered(c)
    /\ UNCHANGED <<account, device>>

DeleteSubscription(c) ==
    /\ client[c].op = "end"
    /\ sub' = EndedIn({client[c].on})
    /\ Answered(c)
    /\ UNCHANGED <<account, device>>

\* Logout revokes a session and ends every subscription of the account.
Logout(u) ==
    /\ sub' = EndedIn({s \in Subs : OwnerOf(s) = u})
    /\ UNCHANGED <<account, device, client>>

\* delete_me: one transaction marks the account deleted and deletes its
\* devices; the foreign keys delete their subscriptions with them.  Requests
\* that name one of these rows find it gone and change nothing; one that
\* registers a device still inserts it.
DeleteMe(c) ==
    /\ client[c].op = "delete"
    /\ LET u == client[c].on IN
         /\ account' = [account EXCEPT ![u] = "deleted"]
         /\ device' = [d \in Devices |-> IF UserOf[d] = u THEN "none" ELSE device[d]]
         /\ sub' = [s \in Subs |-> IF OwnerOf(s) = u THEN "none" ELSE sub[s]]
         /\ client' = [k \in Clients |->
              IF \/ k = c
                 \/ client[k].op \in {"disable", "end", "create"} /\ Caller(client[k]) = u
              THEN Idle ELSE client[k]]

\* The clock passes expires_at.
Expire(s) ==
    /\ sub[s] = "open"
    /\ sub' = [sub EXCEPT ![s] = "expired"]
    /\ UNCHANGED <<account, device, client>>

\* What leaves the rows of other tables alone.
DevicesStep ==
    \/ \E c \in Clients :
         \/ \E r \in Authenticated : CurrentUser(c, r)
         \/ RegisterDevice(c) \/ DeleteDevice(c)
         \/ CheckDevice(c) \/ InsertSubscription(c) \/ DeleteSubscription(c)
    \/ \E u \in Users : Logout(u)
    \/ \E s \in Subs : Expire(s)
============================================================================

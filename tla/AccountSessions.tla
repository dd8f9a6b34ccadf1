-------------------------- MODULE AccountSessions --------------------------
(***************************************************************************)
(* The credentials of one account: its password, its refresh sessions and  *)
(* its reset tokens, as the handlers in controllers/account.rs change them *)
(* through PostgreSQL.  A handler reads the account, works (a password is  *)
(* hashed or verified for long), and writes in later statements; every     *)
(* handler may run beside every other.                                     *)
(***************************************************************************)
EXTENDS Naturals, FiniteSets

CONSTANTS
    Passwords,      \* passwords people know
    Sessions,       \* refresh tokens that can be issued (bound)
    Resets,         \* reset tokens that can be issued (bound)
    Attempts,       \* requests in flight
    NoPassword,     \* the random password of a deleted account
    MaxAuthVersion      \* bound on users.auth_version

\* What the model asks of its parameters.
SessionsAssumption ==
    /\ NoPassword \notin Passwords
    /\ Sessions \cap Resets = {} /\ Sessions \cap Attempts = {}
    /\ MaxAuthVersion \in Nat \ {0}

VARIABLES
    user,           \* the row: password, auth_version, deleted
    session,        \* rows of user_sessions: "none", "live" or "dead"
    reset,          \* rows of password_reset_tokens: "none", "open" or "dead"
    request,        \* the handler of a request and what it has read
    uses,           \* history: how often a token was exchanged
    proof,          \* history: auth_version of the user a session was opened for
    straddled       \* history: sessions whose request was under way at a change

rows == <<user, session, reset>>
ghosts == <<uses, proof, straddled>>
sessionVars == <<rows, request, ghosts>>

NoHandler == [op |-> "idle"]
\* The operations of a handler that has read the user record seen.
Reading == {"login", "refresh", "change", "delete"}
Open == {r \in Attempts : request[r].op # "idle"}

\* Types of the variables.
SessionTypeOK ==
    /\ user \in [password : Passwords \cup {NoPassword},
                 version : 1 .. MaxAuthVersion + Cardinality(Attempts), deleted : BOOLEAN]
    /\ session \in [Sessions -> {"none", "live", "dead"}]
    /\ reset \in [Resets -> {"none", "open", "dead"}]
    /\ \A r \in Attempts : request[r].op \in Reading \cup
         {"idle", "renew", "request", "insert", "deliver"}
    /\ straddled \subseteq Sessions \cup Attempts

SessionInit ==
    /\ user \in [password : Passwords, version : {1}, deleted : {FALSE}]
    /\ session = [s \in Sessions |-> "none"]
    /\ reset = [t \in Resets |-> "none"]
    /\ request = [r \in Attempts |-> NoHandler]
    /\ uses = [t \in Sessions \cup Resets |-> 0]
    /\ proof = [s \in Sessions |-> 0]
    /\ straddled = {}

RequestStarts(r, state) == request[r].op = "idle" /\ request' = [request EXCEPT ![r] = state]
RequestEnds(r) == request' = [request EXCEPT ![r] = NoHandler]

-----------------------------------------------------------------------------
(* Sessions *)

\* login: find_by_email, then the password is verified against that record.
Login(r, password) ==
    /\ ~user.deleted /\ user.password = password
    /\ RequestStarts(r, [op |-> "login", seen |-> user])
    /\ UNCHANGED <<rows, ghosts>>

\* Fault: the UPDATE does not look at revoked_at.
Consumable_Known(s) == session[s] # "none"

\* refresh: one UPDATE revokes the session if it is still live ...
Consumable(s) == session[s] = "live"

Refresh(r, s) ==
    /\ Consumable(s)
    /\ session' = [session EXCEPT ![s] = "dead"]
    /\ RequestStarts(r, [op |-> "renew"])
    /\ uses' = [uses EXCEPT ![s] = @ + 1]
    /\ UNCHANGED <<user, reset, proof, straddled>>

\* ... then reads the user, deleted or not ...
ReadUser(r) ==
    /\ request[r].op = "renew"
    /\ request' = [request EXCEPT ![r] = [op |-> "refresh", seen |-> user]]
    /\ UNCHANGED <<rows, ghosts>>

\* ... and, like login, inserts a session for the record it has read.
AuthResponse(r, s) ==
    /\ request[r].op \in {"login", "refresh"}
    /\ session[s] = "none"
    /\ session' = [session EXCEPT ![s] = "live"]
    /\ proof' = [proof EXCEPT ![s] = request[r].seen.version]
    /\ straddled' = IF r \in straddled THEN (straddled \ {r}) \cup {s} ELSE straddled
    /\ RequestEnds(r)
    /\ UNCHANGED <<user, reset, uses>>

\* Logout, or the end of the 30 days.
EndSession(s) ==
    /\ session[s] = "live"
    /\ session' = [session EXCEPT ![s] = "dead"]
    /\ UNCHANGED <<user, reset, request, ghosts>>

-----------------------------------------------------------------------------
(* Changes of the credentials *)

\* Fault: a change of the password leaves the sessions alone.
RevokedAll_None == session

RevokedAll == [s \in Sessions |-> IF session[s] = "live" THEN "dead" ELSE session[s]]

\* Requests that have read the account when its credentials change.
UnderWay(r) == {q \in Attempts \ {r} : request[q].op \in {"login", "refresh"}}

\* UPDATE users SET password_hash, auth_version + 1 WHERE deleted_at IS NULL,
\* and UPDATE user_sessions SET revoked_at, in one transaction.
NewPassword(password) ==
    IF user.deleted THEN user
    ELSE [user EXCEPT !.password = password, !.version = @ + 1]

SetPassword(r, password) ==
    /\ user' = NewPassword(password)
    /\ session' = RevokedAll
    /\ straddled' = (straddled \cap Attempts) \cup UnderWay(r)
    /\ RequestEnds(r)

\* current_user: the access token carries the version of the row.
ReadAccount(r, op) ==
    /\ ~user.deleted /\ user.version < MaxAuthVersion
    /\ RequestStarts(r, [op |-> op, seen |-> user])
    /\ UNCHANGED <<rows, ghosts>>

\* change_password verifies the record read at the start, and writes.
ChangePassword(r, current, password) ==
    /\ request[r].op = "change"
    /\ IF request[r].seen.password = current
       THEN SetPassword(r, password)
       ELSE RequestEnds(r) /\ UNCHANGED <<user, session, straddled>>
    /\ UNCHANGED <<reset, uses, proof>>

\* complete_password_reset: the UPDATE takes an open token once.
Redeemable(t) == reset[t] = "open"

CompleteReset(r, t, password) ==
    /\ request[r].op = "idle" /\ Redeemable(t) /\ user.version < MaxAuthVersion
    /\ reset' = [reset EXCEPT ![t] = "dead"]
    /\ uses' = [uses EXCEPT ![t] = @ + 1]
    /\ SetPassword(r, password)
    /\ UNCHANGED proof

\* delete_me: one transaction replaces the credentials, revokes the sessions
\* and deletes the reset tokens.
ReplaceCredentials(r) ==
    /\ request[r].op = "delete"
    /\ user' = IF user.deleted THEN user
               ELSE [password |-> NoPassword, version |-> user.version + 1, deleted |-> TRUE]
    /\ session' = RevokedAll
    /\ straddled' = (straddled \cap Attempts) \cup UnderWay(r)
    /\ reset' = [t \in Resets |-> IF reset[t] = "open" THEN "dead" ELSE reset[t]]
    /\ RequestEnds(r)
    /\ UNCHANGED <<uses, proof>>

-----------------------------------------------------------------------------
(* request_password_reset *)

\* find_by_email
RequestReset(r) ==
    /\ ~user.deleted
    /\ RequestStarts(r, [op |-> "request"])
    /\ UNCHANGED <<rows, ghosts>>

\* The transaction uses up the open tokens it can see ...
Invalidated == [t \in Resets |-> IF reset[t] = "open" THEN "dead" ELSE reset[t]]

InvalidateOlder(r) ==
    /\ request[r].op = "request"
    /\ reset' = Invalidated
    /\ request' = [request EXCEPT ![r] = [op |-> "insert"]]
    /\ UNCHANGED <<user, session, ghosts>>

\* ... and commits a new one.
InsertReset(r, t) ==
    /\ request[r].op = "insert" /\ reset[t] = "none"
    /\ reset' = [reset EXCEPT ![t] = "open"]
    /\ request' = [request EXCEPT ![r] = [op |-> "deliver", token |-> t]]
    /\ UNCHANGED <<user, session, ghosts>>

\* A token that could not be delivered is deleted.
DeliverReset(r, delivered) ==
    /\ request[r].op = "deliver"
    /\ reset' = IF delivered THEN reset ELSE [reset EXCEPT ![request[r].token] = "dead"]
    /\ RequestEnds(r)
    /\ UNCHANGED <<user, session, ghosts>>

\* The 30 minutes of a reset token pass.
ExpireReset(t) ==
    /\ reset[t] = "open"
    /\ reset' = [reset EXCEPT ![t] = "dead"]
    /\ UNCHANGED <<user, session, request, ghosts>>

-----------------------------------------------------------------------------
SessionNext ==
    \/ \E r \in Attempts :
         \/ \E p \in Passwords : Login(r, p)
         \/ \E s \in Sessions : Refresh(r, s) \/ AuthResponse(r, s)
         \/ ReadUser(r)
         \/ ReadAccount(r, "change") \/ ReadAccount(r, "delete")
         \/ \E p, q \in Passwords : ChangePassword(r, p, q)
         \/ \E t \in Resets, p \in Passwords : CompleteReset(r, t, p)
         \/ ReplaceCredentials(r)
         \/ RequestReset(r) \/ InvalidateOlder(r)
         \/ \E t \in Resets : InsertReset(r, t)
         \/ \E ok \in BOOLEAN : DeliverReset(r, ok)
    \/ \E s \in Sessions : EndSession(s)
    \/ \E t \in Resets : ExpireReset(t)

SessionSpec == SessionInit /\ [][SessionNext]_sessionVars

-----------------------------------------------------------------------------
\* docs/auth.md: a refresh token is single-use and a reset token is consumed
\* once, whatever requests present it side by side.
TokensAreSingleUse == \A t \in Sessions \cup Resets : uses[t] <= 1

\* A new password, a reset or a deletion ends the sessions that were opened
\* for the old credentials: one that is live all the same belongs to a login
\* or refresh that had read the account when the change was written.
OldSessionsWereUnderWay ==
    \A s \in Sessions :
      session[s] = "live" /\ proof[s] < user.version => s \in straddled

\* A deleted account stays deleted and keeps its unknown password: neither a
\* change nor a reset that was under way gives it a password back.
DeletionIsFinal ==
    [][user.deleted => user' = user]_sessionVars
=============================================================================

----------------------------- MODULE MCAccount ------------------------------
(* What the API and the worker keep for an account: its push notifications,  *)
(* its credentials and its saved routes.  The three parts share no row, so a *)
(* behaviour moves one of them, which part names, and the rest stays as it   *)
(* began.                                                                    *)
EXTENDS PushDelivery, AccountSessions, SavedRoutes

CONSTANTS u1, d1, s1, platform

VARIABLE part

ASSUME SessionsAssumption /\ RoutesAssumption

-----------------------------------------------------------------------------
(* What is followed, and what the batches report of it. *)

MCUserOf == [d \in Devices |-> u1]
MCDeviceOf == [s \in Subs |-> d1]
MCPlatformOf == [d \in Devices |-> platform]

\* Gets off at call 5 at 1000 s, with a connection at 1500 s and 300 s to change.
MCFollows == [s \in Subs |->
    [trip |-> "A", boarding |-> 2, stop |-> "P1", significant |-> 600,
     connects |-> TRUE, alighting |-> 5, arrival |-> 1000,
     departure |-> 1500, days |-> 0, required |-> 300]]

\* A delay that endangers the change and one that just does not, and a
\* cancellation that concerns others.
MCRecords == {
    [trip |-> "A", cancelled |-> FALSE, delay |-> 201, sequence |-> 5, stop |-> "P9"],
    [trip |-> "A", cancelled |-> FALSE, delay |-> 200, sequence |-> 5, stop |-> "P9"],
    [trip |-> "B", cancelled |-> TRUE, delay |-> 900, sequence |-> 2, stop |-> "P2"]}

-----------------------------------------------------------------------------
MCInit ==
    /\ part \in {"push", "credentials", "saved"}
    /\ Init /\ SessionInit /\ RoutesInit
    /\ part # "credentials" => user.password = CHOOSE p \in Passwords : TRUE

MCNext ==
    \/ /\ part = "push" /\ Next
       /\ UNCHANGED <<part, sessionVars, routeVars>>
    \/ /\ part = "credentials" /\ SessionNext
       /\ UNCHANGED <<part, vars, routeVars>>
    \/ /\ part = "saved" /\ RoutesNext
       /\ UNCHANGED <<part, vars, sessionVars>>

MCVars == <<part, vars, sessionVars, routeVars>>

MCFairness == part = "push" => Fairness

MCSpec == MCInit /\ [][MCNext]_MCVars /\ MCFairness

\* Types of the variables.
MCTypeOK == TypeOK /\ SessionTypeOK /\ RoutesTypeOK
=============================================================================

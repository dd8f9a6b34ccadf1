----------------------------- MODULE Idempotency -----------------------------
(***************************************************************************)
(* `idempotent` (services/api/src/ticketing.rs): the wrapper every          *)
(* commercial mutation runs in.  The module follows one key, that is one   *)
(* user, operation and Idempotency-Key, through the API processes.         *)
(*                                                                         *)
(* A request takes the process' mutex of the key, looks for a result in    *)
(* the process' memory, then claims the key's row with a lease of two      *)
(* minutes, runs the operation and keeps its result: in memory first, then *)
(* in the row.  An operation that fails frees the row.  The operation      *)
(* itself is one step here; what it does to an order is TicketOrder.       *)
(***************************************************************************)
EXTENDS Naturals

CONSTANTS
  Replicas,    \* API processes that share the database
  Requests,    \* slots for concurrent requests with the key; a slot is reused
  Targets,     \* orders or tickets that the request's path can name
  Bodies,      \* bodies it can have
  HashesTarget, \* the operation hashes the target (refresh_quote, cancel_order,
               \* complete) or the body (select_offer, add-ons, checkout, refund)
  Runs,        \* executions of the operation, each with its own result (bound)
  None,        \* SQL's NULL, no row, no entry in memory
  MaxFaults    \* bound on the number of faults in a behaviour

\* "slow": a lease runs out although the request that holds it is still at work.
AllFaults == {"crash", "drop", "database", "slow"}

ASSUME FaultAssumption ==
  MaxFaults \in Nat /\ HashesTarget \in BOOLEAN

VARIABLES
  entry,       \* the key's row in cd_ticketing_idempotency, or None
  memory,      \* memory[p]: the key's IdempotentResult in process p, or None
  req,         \* req[r]: the request in slot r
  served,      \* served[x]: what execution x was asked for, or None
  answers,     \* the successful answers that were given
  faults,      \* the number of faults so far
  happened     \* the kinds of fault that have occurred

vars == <<entry, memory, req, served, answers, faults, happened>>

-----------------------------------------------------------------------------
\* What a request asks for, and what of it request_hash covers.
Asked == [target : Targets, body : Bodies]
Hashes == Targets \cup Bodies
HashOf(a) == IF HashesTarget THEN a.target ELSE a.body

\* An IdempotentResult: the request_hash, and the execution it is the result of.
Result == [hash : Hashes, run : Runs]

\* The row: status_code and response are the run; `leased` is locked_until > now().
Entry == [hash : Hashes, run : Runs \cup {None}, leased : BOOLEAN]

ASSUME NoneAssumption == None \notin Result \cup Entry \cup Asked \cup Replicas \cup Runs

Points == {"idle", "lock", "acquire", "read", "run", "delete", "store"}

Request == [pc : Points,
            at : Replicas \cup {None},
            asked : Asked \cup {None},
            run : Runs \cup {None}]

Idle == [pc |-> "idle", at |-> None, asked |-> None, run |-> None]

TypeOK ==
  /\ entry \in Entry \cup {None}
  /\ memory \in [Replicas -> Result \cup {None}]
  /\ req \in [Requests -> Request]
  /\ served \in [Runs -> Asked \cup {None}]
  /\ answers \subseteq [asked : Asked, run : Runs]
  /\ faults \in 0..MaxFaults
  /\ happened \subseteq AllFaults

Init ==
  /\ entry = None
  /\ memory = [p \in Replicas |-> None]
  /\ req = [r \in Requests |-> Idle]
  /\ served = [x \in Runs |-> None]
  /\ answers = {}
  /\ faults = 0
  /\ happened = {}

-----------------------------------------------------------------------------
\* A fault of kind k happens in this step.
Fault(k) ==
  /\ faults < MaxFaults
  /\ faults' = faults + 1
  /\ happened' = happened \cup {k}

\* The request ends with an error, or is dropped; the mutex of the key goes with it.
Finish(r) == req' = [req EXCEPT ![r] = Idle]

Goto(r, pc) == req' = [req EXCEPT ![r] = [@ EXCEPT !.pc = pc]]

\* The request ends with the result of execution x.
Answer(r, x) ==
  /\ answers' = answers \cup {[asked |-> req[r].asked, run |-> x]}
  /\ Finish(r)

RequestHash(r) == HashOf(req[r].asked)

\* The request works under a row it has claimed.
Holds(r) == req[r].pc \in {"run", "delete", "store"}

LocalFree(p) == \A q \in Requests : req[q].at = p => req[q].pc = "lock"

-----------------------------------------------------------------------------
Begin(r, p, a) ==
  /\ req[r].pc = "idle"
  /\ req' = [req EXCEPT ![r] = [Idle EXCEPT !.pc = "lock", !.at = p, !.asked = a]]
  /\ UNCHANGED <<entry, memory, served, answers, faults, happened>>

\* The mutex, and under it the process' memory: a result is given again, or the
\* request is refused when it is not the one the result belongs to.
Lock(r) ==
  LET old == memory[req[r].at] IN
  /\ req[r].pc = "lock"
  /\ LocalFree(req[r].at)
  /\ \/ old = None /\ Goto(r, "acquire") /\ UNCHANGED answers
     \/ old # None /\ old.hash = RequestHash(r) /\ Answer(r, old.run)
     \/ old # None /\ old.hash # RequestHash(r) /\ Finish(r) /\ UNCHANGED answers
  /\ UNCHANGED <<entry, memory, served, faults, happened>>

Claimed(r) == [hash |-> RequestHash(r), run |-> None, leased |-> TRUE]

\* Fault: a row without a result is taken over though its lease runs.
Claimable_AnyTime == entry = None \/ entry.run = None

\* Fault: a row whose lease ran out is taken over though it has a result.
Claimable_Finished == entry = None \/ ~ entry.leased

\* Fault: a row is never taken over.
Claimable_New == entry = None

\* The row can be claimed when there is none, or when its lease ran out before the
\* execution it was claimed for has left a result.
Claimable ==
  \/ entry = None
  \/ entry # None /\ ~ entry.leased /\ entry.run = None

Acquire(r) ==
  /\ req[r].pc = "acquire"
  /\ IF Claimable
     THEN entry' = Claimed(r) /\ Goto(r, "run")
     ELSE Goto(r, "read") /\ UNCHANGED entry
  /\ UNCHANGED <<memory, served, answers, faults, happened>>

\* Fault: the hash of the body is not compared.
ReadEntry_AnyBody(r) ==
  /\ req[r].pc = "read"
  /\ IF entry # None /\ entry.run # None
     THEN Answer(r, entry.run)
     ELSE Finish(r) /\ UNCHANGED answers
  /\ UNCHANGED <<entry, memory, served, faults, happened>>

\* Somebody else has the row, or had it: it may be gone by now. Its result is given
\* again to the same request; any other request, or one that comes too early, is
\* refused.
ReadEntry(r) ==
  /\ req[r].pc = "read"
  /\ IF entry # None /\ entry.hash = RequestHash(r) /\ entry.run # None
     THEN Answer(r, entry.run)
     ELSE Finish(r) /\ UNCHANGED answers
  /\ UNCHANGED <<entry, memory, served, faults, happened>>

\* The operation runs. Its result goes to the process' memory at once.
Execute(r) ==
  /\ req[r].pc = "run"
  /\ \/ \E x \in Runs :
          /\ served[x] = None
          /\ served' = [served EXCEPT ![x] = req[r].asked]
          /\ memory' = [memory EXCEPT ![req[r].at] = [hash |-> RequestHash(r), run |-> x]]
          /\ req' = [req EXCEPT ![r] = [@ EXCEPT !.pc = "store", !.run = x]]
     \/ Goto(r, "delete") /\ UNCHANGED <<served, memory>>
  /\ UNCHANGED <<entry, answers, faults, happened>>

\* What the DELETE after an error leaves: any row without a result goes.
Deleted == IF entry # None /\ entry.run = None THEN None ELSE entry

FreeEntry(r) ==
  /\ req[r].pc = "delete"
  /\ entry' = Deleted
  /\ Finish(r)
  /\ UNCHANGED <<memory, served, answers, faults, happened>>

\* What the UPDATE leaves: the result goes to the row, whoever has claimed it, and
\* locked_until becomes now().
Stored(r) ==
  IF entry = None THEN None ELSE [entry EXCEPT !.run = req[r].run, !.leased = FALSE]

StoreResult(r) ==
  /\ req[r].pc = "store"
  /\ entry' = Stored(r)
  /\ Answer(r, req[r].run)
  /\ UNCHANGED <<memory, served, faults, happened>>

\* What the statements that the requests in S have sent and not heard of can make of
\* the row: executed or not. Of one process' requests one at most is past the mutex.
SentEntries(S) ==
  {entry}
    \cup {Claimed(r) : r \in {q \in S : req[q].pc = "acquire" /\ Claimable}}
    \cup {Deleted : r \in {q \in S : req[q].pc = "delete"}}
    \cup {Stored(r) : r \in {q \in S : req[q].pc = "store"}}

-----------------------------------------------------------------------------
\* A statement fails, and the request with it.
DatabaseFails(r) ==
  /\ req[r].pc \in {"acquire", "read", "delete", "store"}
  /\ Fault("database")
  /\ entry' \in SentEntries({r})
  /\ Finish(r)
  /\ UNCHANGED <<memory, served, answers>>

\* The client disconnects and the server drops the request at its await.
Drop(r) ==
  /\ req[r].pc # "idle"
  /\ Fault("drop")
  /\ entry' \in SentEntries({r})
  /\ Finish(r)
  /\ UNCHANGED <<memory, served, answers>>

\* Process p crashes and starts again with an empty memory.
Crash(p) ==
  /\ Fault("crash")
  /\ memory' = [memory EXCEPT ![p] = None]
  /\ entry' \in SentEntries({r \in Requests : req[r].at = p})
  /\ req' = [r \in Requests |-> IF req[r].at = p THEN Idle ELSE req[r]]
  /\ UNCHANGED <<served, answers>>

\* Two minutes pass. That a request needs longer than its lease is a fault.
LeaseRunsOut ==
  /\ entry # None /\ entry.leased
  /\ entry' = [entry EXCEPT !.leased = FALSE]
  /\ \/ (\A r \in Requests : ~ Holds(r)) /\ UNCHANGED <<faults, happened>>
     \/ Fault("slow")
  /\ UNCHANGED <<memory, req, served, answers>>

-----------------------------------------------------------------------------
Work(r) ==
  Lock(r) \/ Acquire(r) \/ ReadEntry(r) \/ Execute(r) \/ FreeEntry(r) \/ StoreResult(r)

Next ==
  \/ \E r \in Requests :
       \/ \E p \in Replicas, a \in Asked : Begin(r, p, a)
       \/ Work(r) \/ DatabaseFails(r) \/ Drop(r)
  \/ \E p \in Replicas : Crash(p)
  \/ LeaseRunsOut

Spec == Init /\ [][Next]_vars

\* Requests run on by themselves (the mutex is first come, first served), time
\* passes, and an app without an answer sends its request again.
FairSpec ==
  /\ Spec
  /\ \A r \in Requests : WF_vars(Work(r)) /\ SF_vars(Lock(r))
  /\ WF_vars(LeaseRunsOut)
  /\ SF_vars(\E r \in Requests, p \in Replicas, a \in Asked : Begin(r, p, a))

-----------------------------------------------------------------------------
(* Properties. *)

\* The operation of a key never runs twice at once, over all processes, as long as
\* a lease outlives the execution it was taken for
\* (concurrent_identical_mutations_execute_once, ticketing.rs:3337).
OneRunAtATime ==
  "slow" \notin happened => \A q, r \in Requests : Holds(q) /\ Holds(r) => q = r

\* All successful answers to a key are the result of one execution, over all
\* processes and over crashes: once answered, a retry gets the same answer again.
AnswersAgree ==
  happened \subseteq {"crash"} => \A a, b \in answers : a.run = b.run

\* A successful answer belongs to the request it is given to: "Idempotency-Key was
\* used with a different request" (ticketing.rs:2881) is refused instead.
AnswerIsMine ==
  "slow" \notin happened => \A a \in answers : served[a.run] = a.asked

\* A claimed row does not stay claimed: a crash or a lost statement blocks the key
\* until the lease runs out and the app has tried again, not for ever; at worst a
\* process goes on answering from its memory.
KeyIsFreed ==
  (entry # None /\ entry.run = None)
    ~> (entry = None \/ entry.run # None \/ \E p \in Replicas : memory[p] # None)

-----------------------------------------------------------------------------
(* The inductive invariant behind the safety properties.                      *)

\* A request belongs to a process and asks for something, and of the requests of one
\* process one at most is past the mutex of the key.
RequestsOK ==
  /\ \A r \in Requests :
       /\ req[r].pc # "idle" => req[r].at \in Replicas /\ req[r].asked \in Asked
       /\ req[r].pc = "store" => req[r].run \in Runs /\ served[req[r].run] = req[r].asked
  /\ \A q, r \in Requests :
       /\ req[q].pc \notin {"idle", "lock"} /\ req[r].pc \notin {"idle", "lock"}
       /\ req[q].at = req[r].at
       => q = r

\* Execution x served a request with hash h.
Fits(x, h) == served[x] \in Asked /\ HashOf(served[x]) = h

\* The request that holds the row is alone, and the row is as it claimed it.
ClaimsOK ==
  "slow" \notin happened =>
    /\ \A q, r \in Requests : Holds(q) /\ Holds(r) => q = r
    /\ \A r \in Requests : Holds(r) => entry = Claimed(r)

\* Every result that is kept or given fits the request it is kept or given for.
ResultsFit ==
  /\ \A p \in Replicas : memory[p] # None => Fits(memory[p].run, memory[p].hash)
  /\ "slow" \notin happened =>
       /\ entry # None /\ entry.run # None => Fits(entry.run, entry.hash)
       /\ \A a \in answers : Fits(a.run, HashOf(a.asked))

\* What was answered is in the row; what a process remembers is there, or is about to
\* be written by the request that remembered it.
AnswersStored ==
  happened \subseteq {"crash"} =>
    /\ \A a \in answers : entry # None /\ entry.run = a.run
    /\ \A p \in Replicas : memory[p] # None =>
         \/ entry # None /\ entry.run = memory[p].run
         \/ \E r \in Requests :
              req[r].pc = "store" /\ req[r].at = p /\ req[r].run = memory[p].run

IInv == TypeOK /\ RequestsOK /\ ClaimsOK /\ ResultsFit /\ AnswersStored

=============================================================================

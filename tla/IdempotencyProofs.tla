-------------------------- MODULE IdempotencyProofs --------------------------
(***************************************************************************)
(* Idempotency for any number of processes, requests, targets, bodies,     *)
(* executions and faults: its types, and that the operation of a key runs  *)
(* one at a time, gives one answer, and gives it to the request it is for. *)
(*                                                                         *)
(* IInv is inductive.  Its parts are proved in the order they build on     *)
(* each other: types, the mutex, the claim on the row, what is kept and    *)
(* given, and that an answer is in the row.                                *)
(***************************************************************************)
EXTENDS Idempotency, TLAPS

USE DEF vars

-----------------------------------------------------------------------------
(* Types and the mutex of a process. *)

TypeInv == TypeOK /\ RequestsOK

\* Writing one slot leaves the others alone.
LEMMA SlotUpdate ==
  ASSUME TypeOK, NEW r \in Requests, NEW v, req' = [req EXCEPT ![r] = v]
  PROVE  req'[r] = v /\ \A q \in Requests : q # r => req'[q] = req[q]
  BY DEF TypeOK

LEMMA IdleIsRequest == Idle \in Request /\ Idle.pc = "idle"
  BY DEF Idle, Request, Points

\* The steps that move one slot to a new place, and keep what it is and asks for.
LEMMA GotoStep ==
  ASSUME TypeInv, NEW r \in Requests, NEW pc \in Points \ {"idle", "lock", "store"},
         req[r].pc \notin {"idle", "lock"}, Goto(r, pc), served' = served
  PROVE  req' \in [Requests -> Request] /\ RequestsOK'
  BY SlotUpdate DEF TypeInv, TypeOK, Goto, RequestsOK, Request, Points

\* The steps that end a request.
LEMMA FinishStep ==
  ASSUME TypeInv, NEW r \in Requests, Finish(r), served' = served
  PROVE  req' \in [Requests -> Request] /\ RequestsOK'
  BY SlotUpdate, IdleIsRequest DEF TypeInv, TypeOK, Finish, RequestsOK

LEMMA HashOfAsked ==
  ASSUME NEW a \in Asked
  PROVE  HashOf(a) \in Hashes
  BY DEF Asked, HashOf, Hashes

\* Whatever lost statements do to the row, it stays a row.
LEMMA SentEntriesType ==
  ASSUME TypeInv, NEW S \in SUBSET Requests
  PROVE  SentEntries(S) \subseteq Entry \cup {None}
<1>1. \A r \in S : req[r].pc = "acquire" => Claimed(r) \in Entry
  BY HashOfAsked DEF TypeInv, RequestsOK, Claimed, Entry, RequestHash
<1>2. Deleted \in Entry \cup {None}
  BY DEF TypeInv, TypeOK, Deleted
<1>3. \A r \in S : req[r].pc = "store" => Stored(r) \in Entry \cup {None}
  BY DEF TypeInv, TypeOK, RequestsOK, Stored, Entry
<1>. QED
  BY <1>1, <1>2, <1>3 DEF SentEntries, TypeInv, TypeOK

LEMMA FaultType ==
  ASSUME TypeOK, NEW k \in AllFaults, Fault(k)
  PROVE  faults' \in 0..MaxFaults /\ happened' \subseteq AllFaults
  BY FaultAssumption DEF TypeOK, Fault

THEOREM TypeStep == TypeInv /\ [Next]_vars => TypeInv'
<1>. SUFFICES ASSUME TypeInv, [Next]_vars PROVE TypeInv'
  OBVIOUS
<1>. USE FaultAssumption
<1>1. ASSUME NEW r \in Requests, NEW p \in Replicas, NEW a \in Asked, Begin(r, p, a)
      PROVE  TypeInv'
  <2>0. PICK v : v = [Idle EXCEPT !.pc = "lock", !.at = p, !.asked = a]
    OBVIOUS
  <2>1. v \in Request /\ v.pc = "lock" /\ v.at = p /\ v.asked = a
    BY <2>0 DEF Idle, Request, Points
  <2>2. req' = [req EXCEPT ![r] = v]
    BY <1>1, <2>0 DEF Begin
  <2>3. req'[r] = v /\ \A q \in Requests : q # r => req'[q] = req[q]
    BY <2>2, SlotUpdate DEF TypeInv
  <2>4. TypeOK'
    BY <1>1, <2>1, <2>2 DEF Begin, TypeInv, TypeOK
  <2>5. RequestsOK'
    BY <1>1, <2>1, <2>3 DEF Begin, TypeInv, RequestsOK
  <2>. QED
    BY <2>4, <2>5 DEF TypeInv
<1>2. ASSUME NEW r \in Requests, Lock(r) PROVE TypeInv'
  <2>1. req[r].pc = "lock" /\ LocalFree(req[r].at)
    BY <1>2 DEF Lock
  <2>2. CASE Goto(r, "acquire") /\ UNCHANGED answers
    BY <1>2, <2>1, <2>2, SlotUpdate
    DEF Lock, LocalFree, Goto, TypeInv, TypeOK, RequestsOK, Request, Points
  <2>3. CASE memory[req[r].at] # None /\ Answer(r, memory[req[r].at].run)
    <3>1. memory[req[r].at].run \in Runs
      BY <2>1, <2>3 DEF TypeInv, TypeOK, RequestsOK, Result
    <3>2. answers' \subseteq [asked : Asked, run : Runs]
      BY <2>1, <2>3, <3>1 DEF TypeInv, TypeOK, RequestsOK, Answer
    <3>. QED
      BY <1>2, <2>3, <3>2, FinishStep DEF Lock, Answer, TypeInv, TypeOK
  <2>4. CASE Finish(r) /\ UNCHANGED answers
    BY <1>2, <2>4, FinishStep DEF Lock, TypeInv, TypeOK
  <2>. QED
    BY <1>2, <2>2, <2>3, <2>4 DEF Lock
<1>3. ASSUME NEW r \in Requests, Acquire(r) PROVE TypeInv'
  <2>1. Claimed(r) \in Entry
    BY <1>3, HashOfAsked DEF Acquire, TypeInv, RequestsOK, Claimed, Entry, RequestHash
  <2>2. entry' \in Entry \cup {None}
    BY <1>3, <2>1 DEF Acquire, TypeInv, TypeOK
  <2>3. PICK pc \in {"run", "read"} : Goto(r, pc)
    BY <1>3 DEF Acquire
  <2>4. req' \in [Requests -> Request] /\ RequestsOK'
    BY <1>3, <2>3, GotoStep DEF Acquire, Points
  <2>. QED
    BY <1>3, <2>2, <2>4 DEF Acquire, TypeInv, TypeOK
<1>4. ASSUME NEW r \in Requests, ReadEntry(r) PROVE TypeInv'
  <2>1. CASE entry # None /\ entry.run # None /\ Answer(r, entry.run)
    <3>1. answers' \subseteq [asked : Asked, run : Runs]
      BY <1>4, <2>1 DEF ReadEntry, TypeInv, TypeOK, RequestsOK, Answer, Entry
    <3>. QED
      BY <1>4, <2>1, <3>1, FinishStep DEF ReadEntry, Answer, TypeInv, TypeOK
  <2>2. CASE Finish(r) /\ UNCHANGED answers
    BY <1>4, <2>2, FinishStep DEF ReadEntry, TypeInv, TypeOK
  <2>. QED
    BY <1>4, <2>1, <2>2 DEF ReadEntry
<1>5. ASSUME NEW r \in Requests, Execute(r) PROVE TypeInv'
  <2>1. CASE Goto(r, "delete") /\ UNCHANGED <<served, memory>>
    BY <1>5, <2>1, GotoStep DEF Execute, TypeInv, TypeOK, Points
  <2>2. CASE \E x \in Runs :
               /\ served[x] = None
               /\ served' = [served EXCEPT ![x] = req[r].asked]
               /\ memory' = [memory EXCEPT ![req[r].at] = [hash |-> RequestHash(r), run |-> x]]
               /\ req' = [req EXCEPT ![r] = [@ EXCEPT !.pc = "store", !.run = x]]
    <3>1. PICK x \in Runs :
               /\ served[x] = None
               /\ served' = [served EXCEPT ![x] = req[r].asked]
               /\ memory' = [memory EXCEPT ![req[r].at] = [hash |-> RequestHash(r), run |-> x]]
               /\ req' = [req EXCEPT ![r] = [@ EXCEPT !.pc = "store", !.run = x]]
      BY <2>2
    <3>2. req[r].pc = "run" /\ req[r].asked \in Asked /\ req[r].at \in Replicas
      BY <1>5 DEF Execute, TypeInv, RequestsOK
    <3>3. [hash |-> RequestHash(r), run |-> x] \in Result
      BY <3>2, HashOfAsked DEF Result, RequestHash
    <3>4. TypeOK'
      <4>0. [req[r] EXCEPT !.pc = "store", !.run = x] \in Request
        BY DEF TypeInv, TypeOK, Request, Points
      <4>1. req' \in [Requests -> Request]
        BY <3>1, <4>0 DEF TypeInv, TypeOK
      <4>2. served' \in [Runs -> Asked \cup {None}]
        BY <3>1, <3>2 DEF TypeInv, TypeOK
      <4>3. memory' \in [Replicas -> Result \cup {None}]
        BY <3>1, <3>3 DEF TypeInv, TypeOK
      <4>. QED
        BY <1>5, <4>1, <4>2, <4>3 DEF Execute, TypeInv, TypeOK
    <3>5. req'[r] = [req[r] EXCEPT !.pc = "store", !.run = x]
          /\ \A q \in Requests : q # r => req'[q] = req[q]
      BY <3>1, SlotUpdate DEF TypeInv
    <3>6. req'[r].pc = "store" /\ req'[r].run = x /\ req'[r].at = req[r].at
          /\ req'[r].asked = req[r].asked
      BY <3>5 DEF TypeInv, TypeOK, Request
    <3>7. \A q \in Requests : q # r /\ req[q].pc = "store" => req[q].run # x
      BY <3>1, NoneAssumption DEF TypeInv, RequestsOK
    <3>8. \A q \in Requests : req'[q].pc = "store" =>
             req'[q].run \in Runs /\ served'[req'[q].run] = req'[q].asked
      BY <3>1, <3>5, <3>6, <3>7 DEF TypeInv, TypeOK, RequestsOK
    <3>9. RequestsOK'
      <4>1. \A q \in Requests :
               /\ req'[q].at = req[q].at /\ req'[q].asked = req[q].asked
               /\ req'[q].pc = "idle" <=> req[q].pc = "idle"
               /\ req'[q].pc = "lock" <=> req[q].pc = "lock"
        BY <3>2, <3>5, <3>6
      <4>. QED
        BY <3>8, <4>1 DEF TypeInv, RequestsOK
    <3>. QED
      BY <3>4, <3>9 DEF TypeInv
  <2>. QED
    BY <1>5, <2>1, <2>2 DEF Execute
<1>6. ASSUME NEW r \in Requests, FreeEntry(r) PROVE TypeInv'
  BY <1>6, FinishStep DEF FreeEntry, Deleted, TypeInv, TypeOK
<1>7. ASSUME NEW r \in Requests, StoreResult(r) PROVE TypeInv'
  <2>1. req[r].run \in Runs /\ req[r].asked \in Asked
    BY <1>7 DEF StoreResult, TypeInv, RequestsOK
  <2>2. entry' \in Entry \cup {None}
    BY <1>7, <2>1 DEF StoreResult, Stored, TypeInv, TypeOK, Entry
  <2>3. answers' \subseteq [asked : Asked, run : Runs]
    BY <1>7, <2>1 DEF StoreResult, Answer, TypeInv, TypeOK
  <2>. QED
    BY <1>7, <2>2, <2>3, FinishStep DEF StoreResult, Answer, TypeInv, TypeOK
<1>8. ASSUME NEW r \in Requests, DatabaseFails(r) \/ Drop(r) PROVE TypeInv'
  <2>1. entry' \in Entry \cup {None}
    BY <1>8, SentEntriesType DEF DatabaseFails, Drop
  <2>2. faults' \in 0..MaxFaults /\ happened' \subseteq AllFaults
    BY <1>8, FaultType DEF DatabaseFails, Drop, TypeInv, AllFaults
  <2>. QED
    BY <1>8, <2>1, <2>2, FinishStep DEF DatabaseFails, Drop, TypeInv, TypeOK
<1>9. ASSUME NEW p \in Replicas, Crash(p) PROVE TypeInv'
  <2>1. entry' \in Entry \cup {None}
    BY <1>9, SentEntriesType DEF Crash
  <2>2. faults' \in 0..MaxFaults /\ happened' \subseteq AllFaults
    BY <1>9, FaultType DEF Crash, TypeInv, AllFaults
  <2>3. req' \in [Requests -> Request]
    BY <1>9, IdleIsRequest DEF Crash, TypeInv, TypeOK
  <2>4. memory' \in [Replicas -> Result \cup {None}]
    BY <1>9 DEF Crash, TypeInv, TypeOK
  <2>5. \A r \in Requests : req'[r] = Idle \/ req'[r] = req[r]
    BY <1>9 DEF Crash
  <2>6. RequestsOK'
    BY <1>9, <2>5, IdleIsRequest DEF Crash, TypeInv, RequestsOK
  <2>. QED
    BY <1>9, <2>1, <2>2, <2>3, <2>4, <2>6 DEF Crash, TypeInv, TypeOK
<1>10. ASSUME LeaseRunsOut PROVE TypeInv'
  <2>1. entry' \in Entry
    BY <1>10 DEF LeaseRunsOut, TypeInv, TypeOK, Entry
  <2>2. faults' \in 0..MaxFaults /\ happened' \subseteq AllFaults
    BY <1>10, FaultType DEF LeaseRunsOut, TypeInv, TypeOK, AllFaults
  <2>. QED
    BY <1>10, <2>1, <2>2 DEF LeaseRunsOut, TypeInv, TypeOK, RequestsOK
<1>11. CASE UNCHANGED vars
  BY <1>11 DEF TypeInv, TypeOK, RequestsOK
<1>. QED
  BY <1>1, <1>2, <1>3, <1>4, <1>5, <1>6, <1>7, <1>8, <1>9, <1>10, <1>11 DEF Next, Work

-----------------------------------------------------------------------------
(* The claim, the results and the answers. *)

DataInv == ClaimsOK /\ ResultsFit /\ AnswersStored

\* While leases last, nobody holds a row that can be claimed.
LEMMA ClaimableIsFree ==
  ASSUME TypeInv, ClaimsOK, "slow" \notin happened, Claimable, NEW r \in Requests
  PROVE  ~ Holds(r)
<1>. SUFFICES ASSUME Holds(r) PROVE FALSE
  OBVIOUS
<1>1. entry = Claimed(r)
  BY DEF ClaimsOK
<1>2. Claimed(r) \in Entry
  BY HashOfAsked DEF TypeInv, RequestsOK, Holds, Claimed, Entry, RequestHash
<1>3. entry # None /\ entry.leased
  BY <1>1, <1>2, NoneAssumption DEF Claimed
<1>. QED
  BY <1>3 DEF Claimable

\* A row that holds no result was never answered from, and what a process remembers
\* is about to be stored.
LEMMA NothingStored ==
  ASSUME AnswersStored, happened \subseteq {"crash"}, entry = None \/ entry.run = None,
         TypeInv
  PROVE  /\ answers = {}
         /\ \A p \in Replicas : memory[p] # None =>
              \E r \in Requests :
                req[r].pc = "store" /\ req[r].at = p /\ req[r].run = memory[p].run
<1>1. \A a \in answers : a.run # None
  BY NoneAssumption DEF TypeInv, TypeOK
<1>2. \A p \in Replicas : memory[p] # None => memory[p].run # None
  BY NoneAssumption DEF TypeInv, TypeOK, Result
<1>. QED
  BY <1>1, <1>2 DEF AnswersStored

\* A step that leaves the row alone and after which no new request holds it.
LEMMA ClaimsKeep ==
  ASSUME ClaimsOK, entry' = entry, happened \subseteq happened',
         \A q \in Requests : Holds(q)' => Holds(q) /\ req'[q].asked = req[q].asked
  PROVE  ClaimsOK'
  BY DEF ClaimsOK, Claimed, RequestHash

\* A step after which no request holds the row, while leases last.
LEMMA ClaimsEnd ==
  ASSUME "slow" \notin happened' => \A q \in Requests : ~ Holds(q)'
  PROVE  ClaimsOK'
  BY DEF ClaimsOK

\* What fits still fits: an execution's request is never forgotten.
LEMMA FitsKeep ==
  ASSUME \A x \in Runs : served[x] # None => served'[x] = served[x],
         NEW x \in Runs, NEW h, Fits(x, h)
  PROVE  Fits(x, h)'
  BY NoneAssumption DEF Fits

\* What becomes of the row when statements get lost.
LEMMA SentCases ==
  ASSUME NEW S \in SUBSET Requests, entry' \in SentEntries(S)
  PROVE  \/ entry' = entry
         \/ Claimable /\ \E r \in S : entry' = Claimed(r)
         \/ entry' = None /\ \E r \in S : Holds(r)
         \/ \E r \in S : req[r].pc = "store" /\ Holds(r) /\ entry' = Stored(r)
  BY DEF SentEntries, Holds, Deleted

\* Statements of one process get lost with their requests, and were executed or not.
LEMMA LostStatements ==
  ASSUME TypeInv, TypeInv', DataInv, NEW S \in SUBSET Requests, entry' \in SentEntries(S),
         \A q \in Requests : req'[q] = IF q \in S THEN Idle ELSE req[q],
         \A p \in Replicas : memory'[p] = None \/ memory'[p] = memory[p],
         UNCHANGED <<served, answers>>, happened \subseteq happened',
         happened' \subseteq {"crash"} =>
           \E p \in Replicas : memory'[p] = None /\ S = {q \in Requests : req[q].at = p}
  PROVE  DataInv'
<1>1. \A q \in Requests : Holds(q)' => q \notin S /\ Holds(q) /\ req'[q] = req[q]
  BY IdleIsRequest DEF Holds
<1>2. ClaimsOK'
  <2>1. CASE entry' = entry
    BY <1>1, <2>1, ClaimsKeep DEF DataInv
  <2>2. CASE Claimable
    BY <1>1, <2>2, ClaimableIsFree, ClaimsEnd DEF DataInv
  <2>3. CASE \E r \in S : Holds(r)
    BY <1>1, <2>3, ClaimsEnd DEF DataInv, ClaimsOK
  <2>. QED
    BY <2>1, <2>2, <2>3, SentCases
<1>3. ResultsFit'
  <2>1. \A p \in Replicas : (memory[p] # None => Fits(memory[p].run, memory[p].hash))'
    BY DEF DataInv, ResultsFit, Fits
  <2>2. ASSUME "slow" \notin happened', entry' # None, entry'.run # None
        PROVE  Fits(entry.run, entry.hash)'
    <3>1. CASE entry' = entry
      BY <2>2, <3>1 DEF DataInv, ResultsFit, Fits
    <3>2. CASE \E r \in S : entry' = Claimed(r)
      BY <2>2, <3>2 DEF Claimed
    <3>3. ASSUME NEW r \in S, req[r].pc = "store", entry' = Stored(r)
          PROVE  Fits(entry.run, entry.hash)'
      <4>1. entry = Claimed(r) /\ entry # None
        BY <2>2, <3>3 DEF DataInv, ClaimsOK, Holds, Stored
      <4>2. entry'.run = req[r].run /\ entry'.hash = HashOf(req[r].asked)
        BY <3>3, <4>1 DEF Stored, Claimed, RequestHash
      <4>3. served[req[r].run] = req[r].asked /\ req[r].asked \in Asked
        BY <3>3 DEF TypeInv, RequestsOK
      <4>. QED
        BY <4>2, <4>3 DEF Fits
    <3>. QED
      BY <2>2, <3>1, <3>2, <3>3, SentCases
  <2>3. "slow" \notin happened' => (\A a \in answers : Fits(a.run, HashOf(a.asked)))'
    BY DEF DataInv, ResultsFit, Fits
  <2>. QED
    BY <2>1, <2>2, <2>3 DEF ResultsFit
<1>4. AnswersStored'
  <2>. SUFFICES ASSUME happened' \subseteq {"crash"} PROVE AnswersStored'
    BY DEF AnswersStored
  <2>1. PICK p \in Replicas : memory'[p] = None /\ S = {q \in Requests : req[q].at = p}
    OBVIOUS
  <2>2. happened \subseteq {"crash"} /\ "slow" \notin happened
    OBVIOUS
  <2>3. CASE entry' = entry
    <3>1. \A q \in Replicas, r \in Requests : q # p /\ req[r].at = q => req'[r] = req[r]
      BY <2>1
    <3>2. \A q \in Replicas : memory'[q] # None => q # p /\ memory'[q] = memory[q]
      BY <2>1
    <3>. QED
      BY <2>2, <2>3, <3>1, <3>2 DEF DataInv, AnswersStored
  <2>4. CASE Claimable
    <3>1. answers = {} /\ \A q \in Replicas : memory[q] = None
      BY <2>2, <2>4, NothingStored, ClaimableIsFree DEF DataInv, Claimable, Holds
    <3>. QED
      BY <3>1 DEF AnswersStored
  <2>5. CASE \E r \in S : Holds(r)
    <3>1. PICK r \in S : Holds(r)
      BY <2>5
    <3>2. entry = Claimed(r) /\ req[r].at = p /\ \A q \in Requests : Holds(q) => q = r
      BY <2>1, <2>2, <3>1 DEF DataInv, ClaimsOK
    <3>3. answers = {} /\ \A q \in Replicas : memory[q] # None => q = p
      BY <2>2, <3>2, NothingStored DEF DataInv, Claimed, Holds
    <3>. QED
      BY <2>1, <3>3 DEF AnswersStored
  <2>. QED
    BY <2>3, <2>4, <2>5, SentCases
<1>. QED
  BY <1>2, <1>3, <1>4 DEF DataInv

\* A step of a request that does not work under the row: it may give an answer that
\* fits and that is in the row.
LEMMA OtherStep ==
  ASSUME TypeInv, TypeInv', DataInv, NEW r \in Requests, ~ Holds(r), ~ Holds(r)',
         \A q \in Requests : q # r => req'[q] = req[q],
         UNCHANGED <<entry, memory, served, happened>>,
         NEW new, answers' = answers \cup new,
         "slow" \notin happened => \A a \in new : Fits(a.run, HashOf(a.asked)),
         happened \subseteq {"crash"} => \A a \in new : entry # None /\ entry.run = a.run
  PROVE  DataInv'
<1>1. ClaimsOK'
  BY ClaimsKeep DEF DataInv, Holds
<1>2. ResultsFit'
  BY DEF DataInv, ResultsFit, Fits
<1>3. \A q \in Requests : req[q].pc = "store" => req'[q] = req[q]
  BY DEF Holds
<1>4. AnswersStored'
  BY <1>3 DEF DataInv, AnswersStored
<1>. QED
  BY <1>1, <1>2, <1>4 DEF DataInv

\* The operation ran, and the process remembers what it gave.
LEMMA ExecuteStep ==
  ASSUME TypeInv, TypeInv', DataInv, NEW r \in Requests, Execute(r)
  PROVE  DataInv'
<1>1. req[r].pc = "run" /\ Holds(r) /\ req[r].asked \in Asked /\ req[r].at \in Replicas
  BY DEF Execute, Holds, TypeInv, RequestsOK
<1>2. CASE Goto(r, "delete") /\ UNCHANGED <<served, memory>>
  <2>1. req'[r] = [req[r] EXCEPT !.pc = "delete"] /\ \A q \in Requests : q # r => req'[q] = req[q]
    BY <1>2, SlotUpdate DEF TypeInv, Goto
  <2>2. req'[r].asked = req[r].asked
    BY <2>1 DEF TypeInv, TypeOK, Request
  <2>3. ClaimsOK'
    BY <1>1, <2>1, <2>2, ClaimsKeep DEF DataInv, Execute, Holds
  <2>4. ResultsFit'
    BY <1>2 DEF DataInv, ResultsFit, Fits, Execute
  <2>5. \A q \in Requests : req[q].pc = "store" => req'[q] = req[q]
    BY <1>1, <2>1
  <2>6. UNCHANGED <<entry, answers, memory, happened>>
    BY <1>2 DEF Execute
  <2>7. AnswersStored'
    BY <2>5, <2>6 DEF DataInv, AnswersStored
  <2>. QED
    BY <2>3, <2>4, <2>7 DEF DataInv
<1>3. ASSUME NEW x \in Runs,
             served[x] = None,
             served' = [served EXCEPT ![x] = req[r].asked],
             memory' = [memory EXCEPT ![req[r].at] = [hash |-> RequestHash(r), run |-> x]],
             req' = [req EXCEPT ![r] = [@ EXCEPT !.pc = "store", !.run = x]]
      PROVE  DataInv'
  <2>1. req'[r] = [req[r] EXCEPT !.pc = "store", !.run = x]
        /\ \A q \in Requests : q # r => req'[q] = req[q]
    BY <1>3, SlotUpdate DEF TypeInv
  <2>2. req'[r].pc = "store" /\ req'[r].run = x /\ req'[r].at = req[r].at
        /\ req'[r].asked = req[r].asked
    BY <2>1 DEF TypeInv, TypeOK, Request
  <2>3. UNCHANGED <<entry, answers, happened>>
    BY DEF Execute
  <2>4. ClaimsOK'
    BY <1>1, <2>1, <2>2, <2>3, ClaimsKeep DEF DataInv, Holds
  <2>5. served'[x] = req[r].asked /\ \A y \in Runs : served[y] # None => served'[y] = served[y]
    BY <1>3 DEF TypeInv, TypeOK
  <2>6. memory'[req[r].at] = [hash |-> RequestHash(r), run |-> x]
        /\ \A q \in Replicas : q # req[r].at => memory'[q] = memory[q]
    BY <1>1, <1>3 DEF TypeInv, TypeOK
  <2>7. ResultsFit'
    <3>1. ASSUME NEW q \in Replicas, memory'[q] # None
          PROVE  Fits(memory[q].run, memory[q].hash)'
      <4>1. CASE q = req[r].at
        BY <1>1, <2>5, <2>6, <4>1 DEF Fits, RequestHash
      <4>2. CASE q # req[r].at
        <5>1. memory'[q] = memory[q] /\ memory[q].run \in Runs
          BY <2>6, <3>1, <4>2 DEF TypeInv, TypeOK, Result
        <5>2. Fits(memory[q].run, memory[q].hash)
          BY <3>1, <5>1 DEF DataInv, ResultsFit
        <5>. QED
          BY <2>5, <5>1, <5>2, NoneAssumption DEF Fits
      <4>. QED
        BY <4>1, <4>2
    <3>2. ASSUME "slow" \notin happened, entry # None, entry.run # None
          PROVE  Fits(entry.run, entry.hash)'
      <4>1. entry.run \in Runs /\ Fits(entry.run, entry.hash)
        BY <3>2 DEF DataInv, ResultsFit, TypeInv, TypeOK, Entry
      <4>. QED
        BY <2>3, <2>5, <4>1, NoneAssumption DEF Fits
    <3>3. ASSUME "slow" \notin happened, NEW a \in answers
          PROVE  served'[a.run] \in Asked /\ HashOf(served'[a.run]) = HashOf(a.asked)
      <4>1. a.run \in Runs /\ Fits(a.run, HashOf(a.asked))
        BY <3>3 DEF DataInv, ResultsFit, TypeInv, TypeOK
      <4>. QED
        BY <2>5, <4>1, NoneAssumption DEF Fits
    <3>. QED
      BY <2>3, <3>1, <3>2, <3>3 DEF ResultsFit, Fits
  <2>8. \A q \in Requests : req[q].pc = "store" => req'[q] = req[q]
    BY <1>1, <2>1
  <2>9. AnswersStored'
    <3>1. SUFFICES ASSUME happened \subseteq {"crash"}, NEW q \in Replicas, memory'[q] # None
          PROVE  \/ entry' # None /\ entry'.run = memory'[q].run
                 \/ \E s \in Requests :
                      req'[s].pc = "store" /\ req'[s].at = q /\ req'[s].run = memory'[q].run
      BY <2>3 DEF DataInv, AnswersStored
    <3>2. CASE q = req[r].at
      BY <2>2, <2>6, <3>2
    <3>3. CASE q # req[r].at
      BY <2>3, <2>6, <2>8, <3>1, <3>3 DEF DataInv, AnswersStored
    <3>. QED
      BY <3>2, <3>3
  <2>. QED
    BY <2>4, <2>7, <2>9 DEF DataInv
<1>. QED
  BY <1>2, <1>3 DEF Execute

THEOREM DataStep == TypeInv /\ TypeInv' /\ DataInv /\ [Next]_vars => DataInv'
<1>. SUFFICES ASSUME TypeInv, TypeInv', DataInv, [Next]_vars PROVE DataInv'
  OBVIOUS
<1>1. ASSUME NEW r \in Requests, NEW p \in Replicas, NEW a \in Asked, Begin(r, p, a)
      PROVE  DataInv'
  <2>0. PICK v : v = [Idle EXCEPT !.pc = "lock", !.at = p, !.asked = a]
    OBVIOUS
  <2>1. req'[r] = v /\ v.pc = "lock" /\ \A q \in Requests : q # r => req'[q] = req[q]
    BY <1>1, <2>0, SlotUpdate DEF Begin, TypeInv, Idle
  <2>. QED
    BY <1>1, <2>1, OtherStep, answers' = answers \cup {} DEF Begin, Holds
<1>2. ASSUME NEW r \in Requests, Lock(r) PROVE DataInv'
  <2>1. req[r].pc = "lock" /\ req[r].at \in Replicas /\ LocalFree(req[r].at)
        /\ UNCHANGED <<entry, memory, served, happened>>
    BY <1>2 DEF Lock, TypeInv, RequestsOK
  <2>2. ~ Holds(r) /\ ~ Holds(r)' /\ \A q \in Requests : q # r => req'[q] = req[q]
    BY <1>2, <2>1, SlotUpdate, IdleIsRequest
    DEF Lock, Goto, Answer, Finish, Holds, TypeInv, TypeOK, Request
  <2>3. CASE UNCHANGED answers
    BY <2>1, <2>2, <2>3, OtherStep, answers' = answers \cup {}
  <2>4. CASE /\ memory[req[r].at] # None
             /\ memory[req[r].at].hash = RequestHash(r)
             /\ Answer(r, memory[req[r].at].run)
    <3>1. Fits(memory[req[r].at].run, HashOf(req[r].asked))
      BY <2>1, <2>4 DEF DataInv, ResultsFit, RequestHash
    <3>2. ~ \E q \in Requests : req[q].pc = "store" /\ req[q].at = req[r].at
      BY <2>1 DEF LocalFree
    <3>3. happened \subseteq {"crash"} => entry # None /\ entry.run = memory[req[r].at].run
      BY <2>1, <2>4, <3>2 DEF DataInv, AnswersStored
    <3>4. PICK new : new = {[asked |-> req[r].asked, run |-> memory[req[r].at].run]}
      OBVIOUS
    <3>5. answers' = answers \cup new
      BY <2>4, <3>4 DEF Answer
    <3>6. \A a \in new : a.asked = req[r].asked /\ a.run = memory[req[r].at].run
      BY <3>4
    <3>. QED
      BY <2>1, <2>2, <3>1, <3>3, <3>5, <3>6, OtherStep
  <2>. QED
    BY <1>2, <2>3, <2>4 DEF Lock
<1>3. ASSUME NEW r \in Requests, Acquire(r) PROVE DataInv'
  <2>1. req[r].pc = "acquire" /\ ~ Holds(r)
    BY <1>3 DEF Acquire, Holds
  <2>2. CASE Goto(r, "read") /\ UNCHANGED entry
    <3>1. ~ Holds(r)' /\ \A q \in Requests : q # r => req'[q] = req[q]
      BY <2>2, SlotUpdate DEF Goto, Holds, TypeInv, TypeOK, Request
    <3>. QED
      BY <1>3, <2>1, <2>2, <3>1, OtherStep, answers' = answers \cup {} DEF Acquire
  <2>3. CASE Claimable /\ entry' = Claimed(r) /\ Goto(r, "run")
    <3>1. req'[r].asked = req[r].asked /\ \A q \in Requests : q # r => req'[q] = req[q]
      BY <2>3, SlotUpdate DEF Goto, TypeInv, TypeOK, Request
    <3>2. UNCHANGED <<memory, served, answers, happened>>
      BY <1>3 DEF Acquire
    <3>3. "slow" \notin happened => \A q \in Requests : ~ Holds(q)
      BY <2>3, ClaimableIsFree DEF DataInv
    <3>4. ClaimsOK'
      <4>1. Claimed(r)' = Claimed(r)
        BY <3>1 DEF Claimed, RequestHash
      <4>2. "slow" \notin happened => \A q \in Requests : Holds(q)' => q = r
        BY <3>1, <3>3 DEF Holds
      <4>. QED
        BY <2>3, <3>2, <4>1, <4>2 DEF ClaimsOK
    <3>5. ResultsFit'
      <4>1. entry'.run = None
        BY <2>3 DEF Claimed
      <4>. QED
        BY <3>2, <4>1 DEF DataInv, ResultsFit, Fits
    <3>6. AnswersStored'
      <4>. SUFFICES ASSUME happened \subseteq {"crash"} PROVE AnswersStored'
        BY <3>2 DEF AnswersStored
      <4>1. answers = {} /\ \A p \in Replicas : memory[p] = None
        BY <2>3, <3>3, NothingStored DEF DataInv, Claimable, Holds
      <4>. QED
        BY <3>2, <4>1 DEF AnswersStored
    <3>. QED
      BY <3>4, <3>5, <3>6 DEF DataInv
  <2>. QED
    BY <1>3, <2>2, <2>3 DEF Acquire
<1>4. ASSUME NEW r \in Requests, ReadEntry(r) PROVE DataInv'
  <2>1. req[r].pc = "read" /\ UNCHANGED <<entry, memory, served, happened>>
    BY <1>4 DEF ReadEntry
  <2>2. ~ Holds(r) /\ ~ Holds(r)' /\ \A q \in Requests : q # r => req'[q] = req[q]
    BY <1>4, <2>1, SlotUpdate, IdleIsRequest DEF ReadEntry, Answer, Finish, Holds, TypeInv
  <2>3. CASE UNCHANGED answers
    BY <2>1, <2>2, <2>3, OtherStep, answers' = answers \cup {}
  <2>4. CASE /\ entry # None /\ entry.hash = RequestHash(r) /\ entry.run # None
             /\ Answer(r, entry.run)
    <3>1. "slow" \notin happened => Fits(entry.run, HashOf(req[r].asked))
      BY <2>4 DEF DataInv, ResultsFit, RequestHash
    <3>2. PICK new : new = {[asked |-> req[r].asked, run |-> entry.run]}
      OBVIOUS
    <3>3. answers' = answers \cup new
      BY <2>4, <3>2 DEF Answer
    <3>4. \A a \in new : a.asked = req[r].asked /\ a.run = entry.run
      BY <3>2
    <3>. QED
      BY <2>1, <2>2, <2>4, <3>1, <3>3, <3>4, OtherStep
  <2>. QED
    BY <1>4, <2>3, <2>4 DEF ReadEntry
<1>5. ASSUME NEW r \in Requests, FreeEntry(r) PROVE DataInv'
  <2>1. Holds(r) /\ entry' = Deleted /\ UNCHANGED <<memory, served, answers, happened>>
        /\ req[r].pc = "delete"
    BY <1>5 DEF FreeEntry, Holds
  <2>2. ~ Holds(r)' /\ \A q \in Requests : q # r => req'[q] = req[q]
    BY <1>5, SlotUpdate, IdleIsRequest DEF FreeEntry, Finish, Holds, TypeInv
  <2>3. ClaimsOK'
    BY <2>1, <2>2, ClaimsEnd DEF DataInv, ClaimsOK, Holds
  <2>4. ResultsFit'
    BY <2>1 DEF DataInv, ResultsFit, Fits, Deleted
  <2>5. AnswersStored'
    <3>. SUFFICES ASSUME happened \subseteq {"crash"} PROVE AnswersStored'
      BY <2>1 DEF AnswersStored
    <3>1. entry = Claimed(r) /\ \A q \in Requests : Holds(q) => q = r
      BY <2>1 DEF DataInv, ClaimsOK
    <3>2. answers = {} /\ \A p \in Replicas : memory[p] = None
      BY <2>1, <3>1, NothingStored DEF DataInv, Claimed, Holds
    <3>. QED
      BY <2>1, <3>2 DEF AnswersStored
  <2>. QED
    BY <2>3, <2>4, <2>5 DEF DataInv
<1>6. ASSUME NEW r \in Requests, StoreResult(r) PROVE DataInv'
  <2>1. /\ Holds(r) /\ req[r].pc = "store" /\ entry' = Stored(r)
        /\ UNCHANGED <<memory, served, happened>>
        /\ answers' = answers \cup {[asked |-> req[r].asked, run |-> req[r].run]}
    BY <1>6 DEF StoreResult, Answer, Holds
  <2>2. ~ Holds(r)' /\ \A q \in Requests : q # r => req'[q] = req[q]
    BY <1>6, SlotUpdate, IdleIsRequest DEF StoreResult, Answer, Finish, Holds, TypeInv
  <2>3. "slow" \notin happened =>
          /\ entry = Claimed(r) /\ \A q \in Requests : Holds(q) => q = r
          /\ entry' # None /\ entry'.run = req[r].run /\ entry'.hash = RequestHash(r)
    <3>. SUFFICES ASSUME "slow" \notin happened
                  PROVE  /\ entry = Claimed(r) /\ \A q \in Requests : Holds(q) => q = r
                         /\ entry' # None /\ entry'.run = req[r].run
                         /\ entry'.hash = RequestHash(r)
      OBVIOUS
    <3>1. entry = Claimed(r) /\ \A q \in Requests : Holds(q) => q = r
      BY <2>1 DEF DataInv, ClaimsOK
    <3>2. Claimed(r) \in Entry
      BY <2>1, HashOfAsked DEF TypeInv, RequestsOK, Claimed, Entry, RequestHash
    <3>3. entry' = [Claimed(r) EXCEPT !.run = req[r].run, !.leased = FALSE]
      BY <2>1, <3>1, <3>2, NoneAssumption DEF Stored
    <3>4. entry' \in Entry
      BY <2>1, <3>2, <3>3 DEF Entry, TypeInv, RequestsOK
    <3>. QED
      BY <3>1, <3>3, <3>4, NoneAssumption DEF Claimed
  <2>4. Fits(req[r].run, HashOf(req[r].asked))
    BY <2>1 DEF TypeInv, RequestsOK, Fits
  <2>5. ClaimsOK'
    BY <2>1, <2>2, <2>3, ClaimsEnd DEF Holds
  <2>6. ResultsFit'
    BY <2>1, <2>3, <2>4 DEF DataInv, ResultsFit, Fits, RequestHash
  <2>7. AnswersStored'
    <3>. SUFFICES ASSUME happened \subseteq {"crash"} PROVE AnswersStored'
      BY <2>1 DEF AnswersStored
    <3>1. entry # None /\ entry.run = None
      BY <2>3, HashOfAsked, NoneAssumption, <2>1
      DEF Claimed, Stored
    <3>2. answers = {} /\ \A p \in Replicas : memory[p] # None => memory[p].run = req[r].run
      BY <2>3, <3>1, NothingStored DEF DataInv, Holds
    <3>. QED
      BY <2>1, <2>3, <3>2 DEF AnswersStored
  <2>. QED
    BY <2>5, <2>6, <2>7 DEF DataInv
<1>7. ASSUME NEW r \in Requests, DatabaseFails(r) \/ Drop(r) PROVE DataInv'
  <2>1. entry' \in SentEntries({r}) /\ Finish(r) /\ UNCHANGED <<memory, served, answers>>
        /\ happened \subseteq happened' /\ ~ (happened' \subseteq {"crash"})
    BY <1>7 DEF DatabaseFails, Drop, Fault
  <2>2. \A q \in Requests : req'[q] = IF q \in {r} THEN Idle ELSE req[q]
    BY <2>1, SlotUpdate DEF Finish, TypeInv
  <2>. QED
    BY <2>1, <2>2, LostStatements
<1>8. ASSUME NEW p \in Replicas, Crash(p) PROVE DataInv'
  <2>1. /\ entry' \in SentEntries({q \in Requests : req[q].at = p})
        /\ happened \subseteq happened' /\ UNCHANGED <<served, answers>>
        /\ \A q \in Requests :
             req'[q] = IF q \in {s \in Requests : req[s].at = p} THEN Idle ELSE req[q]
    BY <1>8 DEF Crash, Fault
  <2>2. memory'[p] = None /\ \A q \in Replicas : memory'[q] = None \/ memory'[q] = memory[q]
    BY <1>8 DEF Crash, TypeInv, TypeOK
  <2>. QED
    BY <2>1, <2>2, LostStatements
<1>9. ASSUME LeaseRunsOut PROVE DataInv'
  <2>1. /\ entry # None /\ entry' = [entry EXCEPT !.leased = FALSE]
        /\ UNCHANGED <<memory, req, served, answers>> /\ happened \subseteq happened'
        /\ "slow" \notin happened' => \A r \in Requests : ~ Holds(r)
    BY <1>9 DEF LeaseRunsOut, Fault
  <2>2. entry \in Entry /\ entry'.run = entry.run /\ entry'.hash = entry.hash /\ entry' # None
    <3>1. entry \in Entry
      BY <2>1 DEF TypeInv, TypeOK
    <3>2. entry' \in Entry
      BY <2>1, <3>1 DEF Entry
    <3>. QED
      BY <2>1, <3>1, <3>2, NoneAssumption DEF Entry
  <2>3. ClaimsOK'
    BY <2>1, ClaimsEnd DEF Holds
  <2>4. ResultsFit'
    BY <2>1, <2>2 DEF DataInv, ResultsFit, Fits
  <2>5. AnswersStored'
    BY <2>1, <2>2 DEF DataInv, AnswersStored
  <2>. QED
    BY <2>3, <2>4, <2>5 DEF DataInv
<1>10. ASSUME UNCHANGED vars PROVE DataInv'
  <2>1. UNCHANGED <<entry, memory, req, served, answers, happened>>
    BY <1>10
  <2>. QED
    BY <2>1 DEF DataInv, ClaimsOK, ResultsFit, AnswersStored, Holds, Claimed, RequestHash, Fits
<1>. QED
  BY <1>1, <1>2, <1>3, <1>4, <1>5, <1>6, <1>7, <1>8, <1>9, <1>10, ExecuteStep DEF Next, Work

-----------------------------------------------------------------------------
(* The theorems of the specification. *)

LEMMA InitIInv == Init => IInv
<1>. SUFFICES ASSUME Init PROVE IInv
  OBVIOUS
<1>1. TypeOK
  BY IdleIsRequest, FaultAssumption DEF Init, TypeOK
<1>2. \A r \in Requests : req[r].pc = "idle"
  BY IdleIsRequest DEF Init
<1>3. RequestsOK /\ ClaimsOK
  BY <1>2 DEF RequestsOK, ClaimsOK, Holds
<1>4. ResultsFit /\ AnswersStored
  BY DEF Init, ResultsFit, AnswersStored
<1>. QED
  BY <1>1, <1>3, <1>4 DEF IInv

\* Every reachable state satisfies the inductive invariant: the mutex of a process, the
\* claim on the row, and the results that fit what they are kept for.
THEOREM Inductive == Spec => []IInv
<1>1. IInv /\ [Next]_vars => IInv'
  BY TypeStep, DataStep DEF IInv, TypeInv, DataInv
<1>. QED
  BY InitIInv, <1>1, PTL DEF Spec

\* The state of `idempotent` keeps its types: the key's row, the memory of every process,
\* the requests and the answers they got.
THEOREM TypeCorrect == Spec => []TypeOK
<1>1. IInv => TypeOK
  BY DEF IInv
<1>. QED
  BY Inductive, <1>1, PTL

\* The operation of a key runs one at a time, over any number of API processes and
\* requests, and whatever crashes, disconnects or database errors happen, as long as no
\* execution outlives its lease.
THEOREM OneRun == Spec => []OneRunAtATime
<1>1. IInv => OneRunAtATime
  BY DEF IInv, ClaimsOK, OneRunAtATime
<1>. QED
  BY Inductive, <1>1, PTL

\* All successful answers to a key are the result of one execution, over any number of
\* API processes and crashes: once answered, a retry gets the same answer again.
THEOREM OneAnswer == Spec => []AnswersAgree
<1>1. IInv => AnswersAgree
  BY DEF IInv, AnswersStored, AnswersAgree
<1>. QED
  BY Inductive, <1>1, PTL

\* Where request_hash tells requests apart, a successful answer is the result of an
\* execution for that very request. The endpoints that hash only the body do not meet
\* the hypothesis when orders or tickets can differ.
THEOREM OwnAnswer ==
  ASSUME \A a, b \in Asked : HashOf(a) = HashOf(b) => a = b
  PROVE  Spec => []AnswerIsMine
<1>1. IInv => AnswerIsMine
  <2>. SUFFICES ASSUME IInv, "slow" \notin happened, NEW a \in answers
                PROVE  served[a.run] = a.asked
    BY DEF AnswerIsMine
  <2>1. a.asked \in Asked
    BY DEF IInv, TypeOK
  <2>2. served[a.run] \in Asked /\ HashOf(served[a.run]) = HashOf(a.asked)
    BY DEF IInv, ResultsFit, Fits
  <2>. QED
    BY <2>1, <2>2
<1>. QED
  BY Inductive, <1>1, PTL

=============================================================================

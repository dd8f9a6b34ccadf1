--------------------------- MODULE PlanningProofs --------------------------
(***************************************************************************)
(* A question for journeys and what it is answered from, whatever the      *)
(* sizes.                                                                  *)
(*                                                                         *)
(* The question, for any timetables, delays, configuration and unusable    *)
(* shapes: what the ranking may leave out, what comes first, and when an   *)
(* unverified service is offered.  The sums, sorts and samples it is made  *)
(* of are read off what their definitions say of every place; the first    *)
(* place where two keys differ is the least number of a set.               *)
(*                                                                         *)
(* Confirmed walks, for any number of questions, builds, pairs, outages    *)
(* and revisions: a timetable holds exactly the walks its stations have,   *)
(* and what memory keeps is within its limit.                              *)
(*                                                                         *)
(* Realtime data, for any dates, snapshots and lifetimes of rows, slow     *)
(* passes and failures: what is shown or planned with was said of the      *)
(* trip, and not too long ago.                                             *)
(***************************************************************************)
EXTENDS JourneySearch, WalkingAccess, RealtimeOverlay,
        FiniteSetTheorems, SequenceTheorems, WellFoundedInduction, TLAPS

USE DEF accessVars

\* What a worker's answer consists of: the walks of the pairs it is done with.
WayIsWithin(w, p) == WithinLimit(w, WayOf[p])

Work == [at : {"idle", "key", "cell", "look", "ask", "store", "done"},
         revision : 0 .. Revisions, cell : Tasks \cup {None}, todo : SUBSET Pairs,
         pair : Pairs \cup {None}, told : Verdicts \cup {None},
         walks : SUBSET Pairs, failed : BOOLEAN]

AccessTypes ==
  /\ revision \in 0 .. Revisions
  /\ walked \in [Pairs -> Verdicts \cup {None}]
  /\ map \in [0 .. Revisions -> Tasks \cup {None}]
  /\ cell \in [Tasks -> [full : BOOLEAN, walks : SUBSET Pairs, failed : BOOLEAN]]
  /\ task \in [Workers -> Work]
  /\ answer \in [Workers -> (SUBSET Pairs) \cup {None}]

\* The table holds ways, whoever stored them and under whatever limit.
RowsAreWays == \A p \in Pairs : walked[p] # None => walked[p] = WayOf[p]

\* What the state x of worker w says: a worker that asks or stores has a pair and stores
\* what the router said of it, one that fills a cell has found it, and its walks are those
\* within its limit of the pairs behind it, but for what an outage took.
Knows(w, x) ==
  /\ x \in Work
  /\ x.at \in {"ask", "store"} => x.pair \in Pairs
  /\ x.at = "store" => x.told = WayOf[x.pair]
  /\ w \in Tasks /\ x.at \in {"cell", "look", "ask", "store"} => x.cell \in Tasks
  /\ \A p \in x.walks : WayIsWithin(w, p)
  /\ ~x.failed => \A p \in Pairs \ x.todo : WayIsWithin(w, p) => p \in x.walks

WorkersKnow == \A w \in Workers : Knows(w, task[w])

AccessInv == AccessTypes /\ RowsAreWays /\ WorkersKnow /\ GraphIsWhole /\ MemoryIsWhole

-----------------------------------------------------------------------------

\* A worker that goes on to a state it may be in.
LEMMA Moves ==
  ASSUME AccessTypes, WorkersKnow, NEW w \in Workers, NEW x, Knows(w, x),
         task' = [task EXCEPT ![w] = x]
  PROVE  /\ task' \in [Workers -> Work]
         /\ WorkersKnow'
<1>1. /\ task' \in [Workers -> Work]
      /\ task'[w] = x
      /\ \A v \in Workers \ {w} : task'[v] = task[v]
  BY DEF AccessTypes, Knows
<1>2. ASSUME NEW v \in Workers PROVE Knows(v, task'[v])
  <2>1. CASE v = w
    BY <1>1, <2>1
  <2>2. CASE v # w
    BY <1>1, <2>2 DEF WorkersKnow
  <2>. QED
    BY <2>1, <2>2
<1>. QED
  BY <1>1, <1>2 DEF WorkersKnow

LEMMA WorkKept ==
  ASSUME WorkersKnow, task' = task
  PROVE  WorkersKnow'
  BY DEF WorkersKnow

LEMMA WorkerOf ==
  ASSUME WalkingAssumption, AccessInv
  PROVE  /\ \A t \in Tasks : t \in Workers /\ t \notin Builds
         /\ \A b \in Builds : b \in Workers
         /\ \A w \in Workers : task[w] \in Work /\ Knows(w, task[w])
  BY DEF WalkingAssumption, Workers, AccessInv, WorkersKnow, Knows

-----------------------------------------------------------------------------

LEMMA BeginKeeps ==
  ASSUME WalkingAssumption, AccessInv, NEW t \in Tasks, Begin(t)
  PROVE  AccessInv'
<1>. DEFINE x == [task[t] EXCEPT !.at = "key", !.revision = revision]
<1>1. t \in Workers /\ task[t] \in Work /\ Knows(t, task[t])
  BY WorkerOf
<1>2. revision \in 0 .. Revisions
  BY DEF AccessInv, AccessTypes
<1>3. x \in Work
  BY <1>1, <1>2, Zenon DEF Work
<1>4. /\ x.at = "key" /\ x.walks = task[t].walks /\ x.failed = task[t].failed
      /\ x.todo = task[t].todo
  BY <1>1 DEF Work
<1>5. task' = [task EXCEPT ![t] = x]
  BY DEF Begin
<1>. HIDE DEF x
<1>6. Knows(t, x)
  BY <1>1, <1>3, <1>4 DEF Knows
<1>7. task' \in [Workers -> Work] /\ WorkersKnow'
  BY <1>1, <1>5, <1>6, Moves DEF AccessInv
<1>. QED
  BY <1>7 DEF AccessInv, AccessTypes, RowsAreWays, GraphIsWhole, MemoryIsWhole, Begin

LEMMA FindCellKeeps ==
  ASSUME WalkingAssumption, AccessInv, NEW t \in Tasks, FindCell(t)
  PROVE  AccessInv'
<1>1. t \in Workers /\ task[t] \in Work /\ Knows(t, task[t])
  BY WorkerOf
<1>. DEFINE r == task[t].revision
            own == IF map[r] = None THEN t ELSE map[r]
            x == [task[t] EXCEPT !.at = "cell", !.cell = own]
<1>2. r \in 0 .. Revisions
  BY <1>1 DEF Work
<1>3. own \in Tasks
  BY <1>2 DEF AccessInv, AccessTypes
<1>4. map' \in [0 .. Revisions -> Tasks \cup {None}]
  BY <1>3 DEF FindCell, AccessInv, AccessTypes
<1>5. task' = [task EXCEPT ![t] = x]
  BY DEF FindCell
<1>. HIDE DEF own
<1>6. x \in Work
  BY <1>1, <1>3, Zenon DEF Work
<1>7. /\ x.at = "cell" /\ x.walks = task[t].walks /\ x.failed = task[t].failed
      /\ x.todo = task[t].todo /\ x.cell = own
  BY <1>1 DEF Work
<1>. HIDE DEF x
<1>8. Knows(t, x)
  BY <1>1, <1>3, <1>6, <1>7 DEF Knows
<1>9. task' \in [Workers -> Work] /\ WorkersKnow'
  BY <1>1, <1>5, <1>8, Moves DEF AccessInv
<1>. QED
  BY <1>4, <1>9 DEF AccessInv, AccessTypes, RowsAreWays, GraphIsWhole, MemoryIsWhole, FindCell

\* A task only changes where it is.
LEMMA Goes ==
  ASSUME WalkingAssumption, AccessInv, NEW w \in Workers, NEW at \in {"look", "done"},
         at = "look" => w \notin Tasks \/ task[w].at = "cell",
         task' = [task EXCEPT ![w].at = at]
  PROVE  task' \in [Workers -> Work] /\ WorkersKnow'
<1>. DEFINE x == [task[w] EXCEPT !.at = at]
<1>1. task[w] \in Work /\ Knows(w, task[w])
  BY WorkerOf
<1>2. x \in Work
  BY <1>1, Zenon DEF Work
<1>3. /\ x.at = at /\ x.walks = task[w].walks /\ x.failed = task[w].failed
      /\ x.todo = task[w].todo /\ x.cell = task[w].cell
  BY <1>1 DEF Work
<1>4. task' = [task EXCEPT ![w] = x]
  OBVIOUS
<1>. HIDE DEF x
<1>5. Knows(w, x)
  BY <1>1, <1>2, <1>3 DEF Knows
<1>. QED
  BY <1>4, <1>5, Moves DEF AccessInv

\* A question is given walks.
LEMMA Gives ==
  ASSUME WalkingAssumption, AccessInv, NEW t \in Tasks, NEW walks \in SUBSET Pairs, Give(t, walks)
  PROVE  /\ answer' \in [Workers -> (SUBSET Pairs) \cup {None}]
         /\ \A b \in Builds : answer'[b] = answer[b]
  BY WorkerOf DEF Give, AccessInv, AccessTypes

LEMMA HitKeeps ==
  ASSUME WalkingAssumption, AccessInv, NEW t \in Tasks, Hit(t)
  PROVE  AccessInv'
<1>1. t \in Workers /\ Knows(t, task[t])
  BY WorkerOf
<1>2. task' \in [Workers -> Work] /\ WorkersKnow'
  BY <1>1, Goes DEF Hit
<1>3. task[t].cell \in Tasks
  BY <1>1 DEF Hit, Knows
<1>4. cell[task[t].cell].walks \in SUBSET Pairs
  BY <1>3 DEF AccessInv, AccessTypes
<1>5. /\ answer' \in [Workers -> (SUBSET Pairs) \cup {None}]
      /\ \A b \in Builds : answer'[b] = answer[b]
  BY <1>4, Gives DEF Hit
<1>. QED
  BY <1>2, <1>5 DEF AccessInv, AccessTypes, RowsAreWays, GraphIsWhole, MemoryIsWhole, Hit

LEMMA FillKeeps ==
  ASSUME WalkingAssumption, AccessInv, NEW t \in Tasks, Fill(t)
  PROVE  AccessInv'
<1>1. task' \in [Workers -> Work] /\ WorkersKnow'
  BY WorkerOf, Goes DEF Fill
<1>. QED
  BY <1>1 DEF AccessInv, AccessTypes, RowsAreWays, GraphIsWhole, MemoryIsWhole, Fill

LEMMA BuildKeeps ==
  ASSUME WalkingAssumption, AccessInv, NEW b \in Builds, Build(b)
  PROVE  AccessInv'
<1>1. b \in Workers /\ b \notin Tasks
  BY WorkerOf
<1>2. task' \in [Workers -> Work] /\ WorkersKnow'
  BY <1>1, Goes DEF Build
<1>. QED
  BY <1>2 DEF AccessInv, AccessTypes, RowsAreWays, GraphIsWhole, MemoryIsWhole, Build

-----------------------------------------------------------------------------

\* A pair that is decided by what is true of it.
LEMMA DecidedKeeps ==
  ASSUME WalkingAssumption, AccessInv, NEW w \in Workers, task[w].at \in {"look", "store"}, NEW p \in Pairs,
         Decided(w, p, WayOf[p])
  PROVE  task' \in [Workers -> Work] /\ WorkersKnow'
<1>. DEFINE left == task[w].todo \ {p}
            found == IF WayIsWithin(w, p) THEN task[w].walks \cup {p} ELSE task[w].walks
            x == [task[w] EXCEPT !.at = "look", !.pair = None, !.told = None,
                                 !.todo = left, !.walks = found]
<1>1. task[w] \in Work /\ Knows(w, task[w])
  BY WorkerOf
<1>2. left \in SUBSET Pairs /\ found \in SUBSET Pairs
  BY <1>1 DEF Work
<1>3. task' = [task EXCEPT ![w] = x]
  BY DEF Decided, WayIsWithin
<1>4. /\ \A q \in found : WayIsWithin(w, q)
      /\ ~task[w].failed => \A q \in Pairs \ left : WayIsWithin(w, q) => q \in found
  <2>. HIDE DEF WayIsWithin
  <2>. QED
    BY <1>1 DEF Knows
<1>. HIDE DEF left, found
<1>5. x \in Work
  BY <1>1, <1>2, Zenon DEF Work
<1>6. /\ x.at = "look" /\ x.walks = found /\ x.failed = task[w].failed
      /\ x.todo = left /\ x.cell = task[w].cell
  BY <1>1 DEF Work
<1>. HIDE DEF x
<1>7. Knows(w, x)
  BY <1>1, <1>4, <1>5, <1>6 DEF Knows
<1>. QED
  BY <1>1, <1>3, <1>7, Moves DEF AccessInv

LEMMA LookUpKeeps ==
  ASSUME WalkingAssumption, AccessInv, NEW w \in Workers, LookUp(w)
  PROVE  AccessInv'
<1>. DEFINE p == CHOOSE q \in task[w].todo : TRUE
            x == [task[w] EXCEPT !.at = "ask", !.pair = p]
<1>1. task[w] \in Work /\ Knows(w, task[w])
  BY WorkerOf
<1>2. p \in task[w].todo /\ p \in Pairs
  BY <1>1 DEF LookUp, Work
<1>3. CASE walked[p] # None
  <2>1. walked[p] = WayOf[p]
    BY <1>2, <1>3 DEF AccessInv, RowsAreWays
  <2>2. Decided(w, p, WayOf[p])
    BY <1>3, <2>1 DEF LookUp
  <2>3. task' \in [Workers -> Work] /\ WorkersKnow'
    BY <1>2, <2>2, DecidedKeeps DEF LookUp
  <2>. QED
    BY <2>3 DEF AccessInv, AccessTypes, RowsAreWays, GraphIsWhole, MemoryIsWhole, LookUp
<1>4. CASE walked[p] = None
  <2>1. task' = [task EXCEPT ![w] = x]
    BY <1>4 DEF LookUp
  <2>. HIDE DEF p
  <2>2. x \in Work
    BY <1>1, <1>2, Zenon DEF Work
  <2>3. /\ x.at = "ask" /\ x.walks = task[w].walks /\ x.failed = task[w].failed
        /\ x.todo = task[w].todo /\ x.cell = task[w].cell /\ x.pair = p
    BY <1>1 DEF Work
  <2>. HIDE DEF x
  <2>4. Knows(w, x)
    BY <1>1, <1>2, <2>2, <2>3 DEF Knows, LookUp
  <2>5. task' \in [Workers -> Work] /\ WorkersKnow'
    BY <2>1, <2>4, Moves DEF AccessInv
  <2>. QED
    BY <2>5 DEF AccessInv, AccessTypes, RowsAreWays, GraphIsWhole, MemoryIsWhole, LookUp
<1>. QED
  BY <1>3, <1>4

LEMMA AskRouterKeeps ==
  ASSUME WalkingAssumption, AccessInv, NEW w \in Workers, AskRouter(w)
  PROVE  AccessInv'
<1>1. task[w] \in Work /\ Knows(w, task[w]) /\ task[w].pair \in Pairs
  BY WorkerOf DEF AskRouter, Knows
<1>. DEFINE told == WayOf[task[w].pair]
            left == task[w].todo \ {task[w].pair}
            x == IF up THEN [task[w] EXCEPT !.at = "store", !.told = told]
                 ELSE [task[w] EXCEPT !.at = "look", !.todo = left, !.pair = None,
                                      !.failed = TRUE]
<1>2. told \in Verdicts /\ left \in SUBSET Pairs
  BY <1>1 DEF WalkingAssumption, Work
<1>3. task' = [task EXCEPT ![w] = x]
  BY DEF AskRouter
<1>4. Knows(w, x)
  <2>. HIDE DEF told, left
  <2>1. CASE up
    <3>. DEFINE y == [task[w] EXCEPT !.at = "store", !.told = told]
    <3>1. y \in Work
      BY <1>1, <1>2, Zenon DEF Work
    <3>2. /\ y.at = "store" /\ y.walks = task[w].walks /\ y.failed = task[w].failed
          /\ y.todo = task[w].todo /\ y.cell = task[w].cell /\ y.pair = task[w].pair
          /\ y.told = told
      BY <1>1 DEF Work
    <3>3. x = y
      BY <2>1
    <3>. HIDE DEF x, y
    <3>4. Knows(w, y)
      BY <1>1, <3>1, <3>2 DEF Knows, AskRouter, told
    <3>. QED
      BY <3>3, <3>4
  <2>2. CASE ~up
    <3>. DEFINE y == [task[w] EXCEPT !.at = "look", !.todo = left, !.pair = None,
                                     !.failed = TRUE]
    <3>1. y \in Work
      BY <1>1, <1>2, Zenon DEF Work
    <3>2. y.at = "look" /\ y.walks = task[w].walks /\ y.failed /\ y.cell = task[w].cell
      BY <1>1, Zenon DEF Work
    <3>3. x = y
      BY <2>2
    <3>. HIDE DEF x, y
    <3>4. Knows(w, y)
      BY <1>1, <3>1, <3>2 DEF Knows, AskRouter
    <3>. QED
      BY <3>3, <3>4
  <2>. QED
    BY <2>1, <2>2
<1>. HIDE DEF x
<1>5. task' \in [Workers -> Work] /\ WorkersKnow'
  BY <1>3, <1>4, Moves DEF AccessInv
<1>. QED
  BY <1>5 DEF AccessInv, AccessTypes, RowsAreWays, GraphIsWhole, MemoryIsWhole, AskRouter

LEMMA StoreKeeps ==
  ASSUME WalkingAssumption, AccessInv, NEW w \in Workers, Store(w)
  PROVE  AccessInv'
<1>. DEFINE p == task[w].pair
<1>1. p \in Pairs /\ task[w].told = WayOf[p]
  BY WorkerOf DEF Store, Knows
<1>2. walked' = [walked EXCEPT ![p] = WayOf[p]] /\ Decided(w, p, WayOf[p])
  BY <1>1 DEF Store
<1>3. WayOf[p] \in Verdicts
  BY <1>1 DEF WalkingAssumption
<1>4. walked' \in [Pairs -> Verdicts \cup {None}] /\ RowsAreWays'
  BY <1>1, <1>2, <1>3 DEF AccessInv, AccessTypes, RowsAreWays
<1>5. task' \in [Workers -> Work] /\ WorkersKnow'
  BY <1>1, <1>2, DecidedKeeps DEF Store
<1>. QED
  BY <1>4, <1>5 DEF AccessInv, AccessTypes, GraphIsWhole, MemoryIsWhole, Store

-----------------------------------------------------------------------------

\* What a worker has when no pair is left.
LEMMA AllPairs ==
  ASSUME WalkingAssumption, AccessInv, NEW w \in Workers, task[w].todo = {}
  PROVE  /\ task[w].walks \subseteq {p \in Pairs : WayIsWithin(w, p)}
         /\ ~task[w].failed => {p \in Pairs : WayIsWithin(w, p)} \subseteq task[w].walks
<1>1. task[w] \in Work /\ Knows(w, task[w])
  BY WorkerOf
<1>2. task[w].walks \in SUBSET Pairs
  BY <1>1 DEF Work
<1>. QED
  BY <1>1, <1>2 DEF Knows

LEMMA FilledKeeps ==
  ASSUME WalkingAssumption, AccessInv, NEW t \in Tasks, Filled(t)
  PROVE  AccessInv'
<1>1. t \in Workers /\ t \notin Builds /\ task[t] \in Work /\ Knows(t, task[t])
  BY WorkerOf
<1>. DEFINE c == task[t].cell
            full == [full |-> TRUE, walks |-> task[t].walks, failed |-> task[t].failed]
<1>2. c \in Tasks /\ task[t].walks \in SUBSET Pairs /\ task[t].failed \in BOOLEAN
  BY <1>1 DEF Knows, Filled, Work
<1>3. full \in [full : BOOLEAN, walks : SUBSET Pairs, failed : BOOLEAN]
  BY <1>2, Zenon
<1>4. /\ full.walks \subseteq {p \in Pairs : WayOf[p] \in {"near", "middle"}}
      /\ ~full.failed => {p \in Pairs : WayOf[p] \in {"near", "middle"}} \subseteq full.walks
  BY <1>1, AllPairs DEF Filled, WayIsWithin, WithinLimit
<1>5. cell' = [cell EXCEPT ![c] = full]
  BY DEF Filled
<1>. HIDE DEF full
<1>6. /\ cell' \in [Tasks -> [full : BOOLEAN, walks : SUBSET Pairs, failed : BOOLEAN]]
      /\ MemoryIsWhole'
  <2>1. cell' \in [Tasks -> [full : BOOLEAN, walks : SUBSET Pairs, failed : BOOLEAN]]
    BY <1>2, <1>3, <1>5 DEF AccessInv, AccessTypes
  <2>2. cell'[c] = full /\ \A s \in Tasks \ {c} : cell'[s] = cell[s]
    BY <1>2, <1>5 DEF AccessInv, AccessTypes
  <2>3. ASSUME NEW s \in Tasks, cell'[s].full
        PROVE  /\ cell'[s].walks \subseteq {p \in Pairs : WayOf[p] \in {"near", "middle"}}
               /\ ~cell'[s].failed =>
                    {p \in Pairs : WayOf[p] \in {"near", "middle"}} \subseteq cell'[s].walks
    <3>1. CASE s = c
      BY <1>4, <2>2, <3>1
    <3>2. CASE s # c
      BY <2>2, <2>3, <3>2 DEF AccessInv, MemoryIsWhole
    <3>. QED
      BY <3>1, <3>2
  <2>. QED
    BY <2>1, <2>3 DEF MemoryIsWhole
<1>7. /\ answer' \in [Workers -> (SUBSET Pairs) \cup {None}]
      /\ \A b \in Builds : answer'[b] = answer[b]
  BY <1>2, Gives DEF Filled
<1>8. task' \in [Workers -> Work] /\ WorkersKnow'
  BY <1>1, Goes DEF Filled
<1>. QED
  BY <1>6, <1>7, <1>8 DEF AccessInv, AccessTypes, RowsAreWays, GraphIsWhole, Filled

LEMMA BuiltKeeps ==
  ASSUME WalkingAssumption, AccessInv, NEW b \in Builds, Built(b)
  PROVE  AccessInv'
<1>1. b \in Workers /\ b \notin Tasks /\ task[b] \in Work
  BY WorkerOf
<1>2. task' \in [Workers -> Work] /\ WorkersKnow'
  BY <1>1, Goes DEF Built
<1>. DEFINE given == IF MayPublish(b) THEN task[b].walks ELSE None
<1>3. answer' = [answer EXCEPT ![b] = given]
  BY DEF Built
<1>4. given \in (SUBSET Pairs) \cup {None}
  <2>1. task[b].walks \in SUBSET Pairs
    BY <1>1, Zenon DEF Work
  <2>2. CASE MayPublish(b)
    BY <2>1, <2>2
  <2>3. CASE ~MayPublish(b)
    BY <2>3
  <2>. QED
    BY <2>2, <2>3
<1>5. given # None => given = {p \in Pairs : WayOf[p] = "near"}
  BY <1>1, AllPairs DEF Built, MayPublish, WayIsWithin, WithinLimit
<1>. HIDE DEF given
<1>6. answer' \in [Workers -> (SUBSET Pairs) \cup {None}] /\ GraphIsWhole'
  BY <1>1, <1>3, <1>4, <1>5 DEF AccessInv, AccessTypes, GraphIsWhole
<1>. QED
  BY <1>2, <1>6 DEF AccessInv, AccessTypes, RowsAreWays, MemoryIsWhole, Built

LEMMA GiveUpKeeps ==
  ASSUME WalkingAssumption, AccessInv, NEW t \in Tasks, GiveUp(t)
  PROVE  AccessInv'
<1>1. /\ answer' \in [Workers -> (SUBSET Pairs) \cup {None}]
      /\ \A b \in Builds : answer'[b] = answer[b]
  BY Gives DEF GiveUp
<1>2. WorkersKnow'
  BY WorkKept DEF AccessInv, GiveUp
<1>. QED
  BY <1>1, <1>2 DEF AccessInv, AccessTypes, RowsAreWays, GraphIsWhole, MemoryIsWhole, GiveUp

LEMMA WorldKeeps ==
  ASSUME WalkingAssumption, AccessInv, Outage \/ Restored \/ Import \/ \E p \in Pairs : Expire(p)
  PROVE  AccessInv'
<1>1. WorkersKnow'
  BY WorkKept DEF AccessInv, Outage, Restored, Import, Expire
<1>2. AccessTypes'
  BY DEF WalkingAssumption, AccessInv, AccessTypes, Outage, Restored, Import, Expire
<1>3. RowsAreWays'
  BY DEF AccessInv, AccessTypes, RowsAreWays, Outage, Restored, Import, Expire
<1>. QED
  BY <1>1, <1>2, <1>3 DEF AccessInv, GraphIsWhole, MemoryIsWhole, Outage, Restored, Import, Expire

-----------------------------------------------------------------------------

\* Everything a worker relies on holds throughout.
THEOREM AccessInductive ==
  ASSUME WalkingAssumption
  PROVE  AccessSpec => []AccessInv
<1>1. AccessInit => AccessInv
  <2>. SUFFICES ASSUME AccessInit PROVE AccessInv
    OBVIOUS
  <2>1. Unasked \in Work
    BY DEF WalkingAssumption, Unasked, Work
  <2>2. \A w \in Workers : Knows(w, Unasked)
    BY <2>1 DEF Knows, Unasked
  <2>3. AccessTypes
    <3>1. Empty \in [full : BOOLEAN, walks : SUBSET Pairs, failed : BOOLEAN]
      BY Zenon DEF Empty
    <3>2. cell \in [Tasks -> [full : BOOLEAN, walks : SUBSET Pairs, failed : BOOLEAN]]
      BY <3>1 DEF AccessInit
    <3>3. 0 \in 0 .. Revisions
      BY DEF WalkingAssumption
    <3>4. /\ walked \in [Pairs -> Verdicts \cup {None}]
          /\ map \in [0 .. Revisions -> Tasks \cup {None}]
      BY DEF AccessInit
    <3>7. answer \in [Workers -> (SUBSET Pairs) \cup {None}]
      BY DEF AccessInit
    <3>5. task \in [Workers -> Work]
      BY <2>1 DEF AccessInit
    <3>6. revision \in 0 .. Revisions
      BY <3>3 DEF AccessInit
    <3>. QED
      BY <3>2, <3>4, <3>5, <3>6, <3>7 DEF AccessTypes
  <2>. QED
    BY <2>2, <2>3 DEF AccessInit, AccessInv, WorkersKnow, RowsAreWays, GraphIsWhole, MemoryIsWhole,
                      Workers, Empty
<1>2. AccessInv /\ [AccessNext]_accessVars => AccessInv'
  <2>. SUFFICES ASSUME AccessInv, [AccessNext]_accessVars PROVE AccessInv'
    OBVIOUS
  <2>1. CASE \E t \in Tasks : Begin(t) \/ FindCell(t) \/ Hit(t) \/ Fill(t) \/ Filled(t) \/ GiveUp(t)
    BY <2>1, BeginKeeps, FindCellKeeps, HitKeeps, FillKeeps, FilledKeeps, GiveUpKeeps
  <2>2. CASE \E b \in Builds : Build(b) \/ Built(b)
    BY <2>2, BuildKeeps, BuiltKeeps
  <2>3. CASE \E w \in Workers : LookUp(w) \/ AskRouter(w) \/ Store(w)
    BY <2>3, LookUpKeeps, AskRouterKeeps, StoreKeeps
  <2>4. CASE Outage \/ Restored \/ Import \/ \E p \in Pairs : Expire(p)
    BY <2>4, WorldKeeps
  <2>5. CASE UNCHANGED accessVars
    BY <2>5, WorkKept DEF AccessInv, AccessTypes, RowsAreWays, GraphIsWhole, MemoryIsWhole
  <2>. QED
    BY <2>1, <2>2, <2>3, <2>4, <2>5 DEF AccessNext
<1>. QED
  BY <1>1, <1>2, PTL DEF AccessSpec

\* A timetable is published with every walk between the stops of its stations that the
\* router confirms within the limit and with no other (implicit_station_transfers_db).
THEOREM GraphsAreWhole ==
  ASSUME WalkingAssumption
  PROVE  AccessSpec => []GraphIsWhole
<1>1. AccessInv => GraphIsWhole
  BY DEF AccessInv
<1>. QED
  BY <1>1, AccessInductive, PTL

\* What memory keeps for the endpoints of questions is within their limit, and misses a
\* walk only after an outage (nearby_journey_transfers_db).
THEOREM MemoriesAreWhole ==
  ASSUME WalkingAssumption
  PROVE  AccessSpec => []MemoryIsWhole
<1>1. AccessInv => MemoryIsWhole
  BY DEF AccessInv
<1>. QED
  BY <1>1, AccessInductive, PTL

-----------------------------------------------------------------------------
(* Realtime data *)

Told == {"late", "cancelled"}
Days == Dates \cup {Undated}

Row == [entity : Entities, date : Days, say : Told, life : {StopLife, SummaryLife}, age : 0 .. Old]

\* What the refresh keeps.
Copy == [date : Dates, late : BOOLEAN, age : 0 .. Old]

OverlayTypes ==
  /\ feed \in [trip : [Dates -> Says], car : Says, age : 0 .. Old]
  /\ heard \in [Told -> [Days -> 0 .. Old]]
  /\ updates \in [Entities -> Row \cup {Absent}]
  /\ pass \in [Loops -> [at : {"asleep", "writing"}, left : SUBSET Row]]
  /\ serviceDate \in Dates
  /\ cache \in {Absent} \cup Copy

\* What the feed says now was heard no earlier than its snapshot was made.
FeedIsHeard ==
  \A say \in Told :
    /\ \A d \in Dates : feed.trip[d] = say => heard[say][d] <= feed.age
    /\ feed.car = say => heard[say][Undated] <= feed.age

\* A record says what the operator said of its date in a snapshot as young as it is.
Backed(r) == heard[r.say][r.date] <= r.age

RecordsAreBacked ==
  /\ \A e \in Entities : updates[e] # Absent => Backed(updates[e])
  /\ \A l \in Loops : \A r \in pass[l].left : Backed(r)

\* The cached delay was said of the date it was read for, and valid when it was read.
CacheIsBacked ==
  cache # Absent /\ cache.late => heard["late"][cache.date] <= SummaryLife + cache.age

OverlayInv == OverlayTypes /\ FeedIsHeard /\ RecordsAreBacked /\ CacheIsBacked

-----------------------------------------------------------------------------

LEMMA Ages ==
  ASSUME OverlayAssumption
  PROVE  /\ StopLife \in Nat /\ SummaryLife \in Nat /\ CacheLife \in Nat
         /\ StopLife <= SummaryLife
         /\ Old \in Nat /\ Old = SummaryLife + CacheLife + 1
         /\ 0 \in 0 .. Old /\ Old \in 0 .. Old
  BY DEF OverlayAssumption, Old

\* Time passes for everything alike.
LEMMA OlderAges ==
  ASSUME OverlayAssumption, NEW a \in 0 .. Old
  PROVE  /\ Older(a) \in 0 .. Old
         /\ Older(a) <= a + 1
         /\ Older(a) = a + 1 \/ Older(a) = Old
         /\ \A b \in 0 .. Old : b <= a => Older(b) <= Older(a)
<1>1. Old \in Nat
  BY Ages
<1>. QED
  BY <1>1 DEF Older

\* A record of the feed has its date and age.
LEMMA RecordIsRow ==
  ASSUME OverlayAssumption, NEW e \in Entities, NEW d \in Days, NEW say \in Told,
         NEW life \in {StopLife, SummaryLife}, NEW age \in 0 .. Old
  PROVE  /\ Record(e, d, say, life, age) \in Row
         /\ Record(e, d, say, life, age).say = say
         /\ Record(e, d, say, life, age).date = d
         /\ Record(e, d, say, life, age).age = age
  BY Zenon DEF Record, Row

LEMMA AgedRow ==
  ASSUME OverlayAssumption, NEW r \in Row, NEW age \in 0 .. Old
  PROVE  /\ [r EXCEPT !.age = age] \in Row
         /\ [r EXCEPT !.age = age].say = r.say
         /\ [r EXCEPT !.age = age].date = r.date
         /\ [r EXCEPT !.age = age].age = age
  BY Zenon DEF Row

LEMMA SummaryOfRow ==
  ASSUME OverlayAssumption, NEW r \in Row
  PROVE  LET s == [r EXCEPT !.entity = <<"summary", Undated>>, !.life = SummaryLife]
         IN  s \in Row /\ s.say = r.say /\ s.date = r.date /\ s.age = r.age
<1>1. <<"summary", Undated>> \in Entities
  BY DEF Entities
<1>. QED
  BY <1>1, Zenon DEF Row

\* The records of the trip and of the vehicle that a pass takes are backed by the feed.
LEMMA FeedRecords ==
  ASSUME OverlayAssumption, OverlayTypes, FeedIsHeard,
         NEW r \in TripRecords(feed) \cup VehicleRecords(feed)
  PROVE  r \in Row /\ Backed(r)
<1>1. /\ feed.trip \in [Dates -> Says] /\ feed.car \in Says /\ feed.age \in 0 .. Old
  BY DEF OverlayTypes
<1>2. CASE r \in TripRecords(feed)
  <2>1. PICK d \in Dates : /\ feed.trip[d] # "nothing"
                           /\ r = Record(<<IF feed.trip[d] = "late" THEN "stop" ELSE "trip", d>>,
                                         d, feed.trip[d], StopLife, feed.age)
    BY <1>2 DEF TripRecords, Stamp
  <2>2. feed.trip[d] \in Told
    BY <1>1, <2>1 DEF Says, Told
  <2>3. <<IF feed.trip[d] = "late" THEN "stop" ELSE "trip", d>> \in Entities
    BY DEF Entities
  <2>5. d \in Days /\ StopLife \in {StopLife, SummaryLife}
    BY DEF Days
  <2>4. r \in Row /\ r.say = feed.trip[d] /\ r.date = d /\ r.age = feed.age
    BY <1>1, <2>1, <2>2, <2>3, <2>5, RecordIsRow
  <2>. QED
    BY <2>2, <2>4 DEF Backed, FeedIsHeard
<1>3. CASE r \in VehicleRecords(feed)
  <2>1. /\ feed.car # "nothing"
        /\ r = Record(<<"vehicle", Undated>>, Undated, feed.car, StopLife, feed.age)
    BY <1>3 DEF VehicleRecords, Stamp
  <2>2. feed.car \in Told
    BY <1>1, <2>1 DEF Says, Told
  <2>3. <<"vehicle", Undated>> \in Entities
    BY DEF Entities
  <2>4. Undated \in Days /\ StopLife \in {StopLife, SummaryLife}
    BY DEF Days
  <2>5. r \in Row /\ r.say = feed.car /\ r.date = Undated /\ r.age = feed.age
    BY <1>1, <2>1, <2>2, <2>3, <2>4, RecordIsRow
  <2>. QED
    BY <2>2, <2>5 DEF Backed, FeedIsHeard
<1>. QED
  BY <1>2, <1>3

\* So are all that a pass may take.
LEMMA TakenRecords ==
  ASSUME OverlayAssumption, OverlayTypes, FeedIsHeard,
         NEW l \in Loops, NEW records \in RecordsOf(l, feed), NEW r \in records
  PROVE  r \in Row /\ Backed(r)
<1>1. CASE l \in {"updates", "vehicles"}
  <2>1. r \in TripRecords(feed) \cup VehicleRecords(feed)
    BY <1>1 DEF RecordsOf
  <2>. QED
    BY <2>1, FeedRecords
<1>2. CASE l = "summaries"
  <2>1. records \in SummaryRecords(feed)
    BY <1>2 DEF RecordsOf
  <2>2. PICK q \in TripRecords(feed) :
          r = [q EXCEPT !.entity = <<"summary", Undated>>, !.life = SummaryLife]
    BY <2>1 DEF SummaryRecords
  <2>3. q \in Row /\ Backed(q)
    BY FeedRecords
  <2>4. r \in Row /\ r.say = q.say /\ r.date = q.date /\ r.age = q.age
    BY <2>2, <2>3, SummaryOfRow
  <2>. QED
    BY <2>3, <2>4 DEF Backed
<1>. QED
  BY <1>1, <1>2 DEF Loops

-----------------------------------------------------------------------------

LEMMA PublishKeeps ==
  ASSUME OverlayAssumption, OverlayInv, NEW f \in Feeds, Publish(f.trip, f.car)
  PROVE  OverlayInv'
<1>1. f.trip \in [Dates -> Says] /\ f.car \in Says /\ 0 \in 0 .. Old
  BY Ages DEF OverlayAssumption, Says
<1>2. heard \in [Told -> [Days -> 0 .. Old]]
  BY DEF OverlayInv, OverlayTypes
<1>3. \A say \in Told, d \in Days :
        heard'[say][d] = IF (IF d = Undated THEN f.car ELSE f.trip[d]) = say THEN 0
                         ELSE heard[say][d]
  BY <1>2 DEF Publish, Days
<1>4. /\ heard' \in [Told -> [Days -> 0 .. Old]]
      /\ \A say \in Told, d \in Days : heard'[say][d] <= heard[say][d]
  <2>1. heard' = [x \in Told |-> [d \in Days |->
                   IF (IF d = Undated THEN f.car ELSE f.trip[d]) = x THEN 0 ELSE heard[x][d]]]
    BY <1>2 DEF Publish, Days
  <2>2. \A say \in Told, d \in Days : heard[say][d] \in 0 .. Old /\ 0 <= heard[say][d]
    BY <1>2, Ages
  <2>. QED
    BY <1>1, <1>3, <2>1, <2>2, Ages
<1>5. feed' = [trip |-> f.trip, car |-> f.car, age |-> 0] /\ UNCHANGED <<updates, pass, serviceDate, cache>>
  BY DEF Publish
<1>6. OverlayTypes'
  BY <1>1, <1>4, <1>5 DEF OverlayInv, OverlayTypes
<1>7. FeedIsHeard'
  <2>1. \A d \in Dates : d # Undated /\ d \in Days /\ Undated \in Days
    BY DEF OverlayAssumption, Undated, Days
  <2>2. Undated \in Days
    BY DEF Days
  <2>. QED
    BY <1>3, <1>5, <2>1, <2>2 DEF FeedIsHeard
<1>8. ASSUME NEW r \in Row, Backed(r) PROVE Backed(r)'
  <2>1. r.say \in Told /\ r.date \in Days /\ r.age \in 0 .. Old
    BY DEF Row
  <2>2. heard[r.say][r.date] \in 0 .. Old /\ heard'[r.say][r.date] \in 0 .. Old
    BY <1>2, <1>4, <2>1
  <2>. QED
    BY <1>4, <1>8, <2>1, <2>2, Ages DEF Backed
<1>9. RecordsAreBacked'
  BY <1>5, <1>8 DEF OverlayInv, OverlayTypes, RecordsAreBacked
<1>10. CacheIsBacked'
  <2>1. CASE cache # Absent /\ cache.late
    <3>1. cache \in Copy /\ heard["late"][cache.date] <= SummaryLife + cache.age
      BY <2>1 DEF OverlayInv, OverlayTypes, CacheIsBacked
    <3>2. "late" \in Told /\ cache.date \in Days /\ cache.age \in 0 .. Old
      BY <3>1 DEF Told, Days, Copy
    <3>3. /\ heard["late"][cache.date] \in 0 .. Old /\ heard'["late"][cache.date] \in 0 .. Old
          /\ heard'["late"][cache.date] <= heard["late"][cache.date]
      BY <1>2, <1>4, <3>2
    <3>. QED
      BY <1>5, <3>1, <3>2, <3>3, Ages DEF CacheIsBacked
  <2>2. CASE ~(cache # Absent /\ cache.late)
    BY <1>5, <2>2 DEF CacheIsBacked
  <2>. QED
    BY <2>1, <2>2
<1>. QED
  BY <1>6, <1>7, <1>9, <1>10 DEF OverlayInv

\* A pass that goes on with records that are backed, over rows that are.
LEMMA PassKeeps ==
  ASSUME OverlayInv, NEW l \in Loops, NEW at \in {"asleep", "writing"}, NEW left \in SUBSET Row,
         \A r \in left : Backed(r),
         pass' = [pass EXCEPT ![l] = [at |-> at, left |-> left]],
         updates' \in [Entities -> Row \cup {Absent}],
         \A e \in Entities : updates'[e] # Absent => Backed(updates'[e]),
         UNCHANGED <<feed, heard, serviceDate, cache>>
  PROVE  OverlayInv'
<1>1. /\ pass' \in [Loops -> [at : {"asleep", "writing"}, left : SUBSET Row]]
      /\ pass'[l].left = left
      /\ \A k \in Loops : k # l => pass'[k] = pass[k]
  BY DEF OverlayInv, OverlayTypes
<1>2. OverlayTypes'
  BY <1>1 DEF OverlayInv, OverlayTypes
<1>3. RecordsAreBacked'
  BY <1>1 DEF OverlayInv, RecordsAreBacked, Backed
<1>. QED
  BY <1>2, <1>3 DEF OverlayInv, FeedIsHeard, CacheIsBacked

LEMMA PassRecord ==
  ASSUME OverlayTypes, NEW l \in Loops
  PROVE  /\ pass[l] = [at |-> pass[l].at, left |-> pass[l].left]
         /\ pass[l].at \in {"asleep", "writing"} /\ pass[l].left \in SUBSET Row
  BY DEF OverlayTypes

LEMMA TakeKeeps ==
  ASSUME OverlayAssumption, OverlayInv, NEW l \in Loops, Take(l)
  PROVE  OverlayInv'
<1>1. PICK records \in RecordsOf(l, feed) :
        pass' = [pass EXCEPT ![l] = [at |-> "writing", left |-> records]]
  BY DEF Take
<1>2. records \in SUBSET Row /\ \A r \in records : Backed(r)
  BY TakenRecords DEF OverlayInv
<1>3. UNCHANGED <<feed, heard, updates, serviceDate, cache>>
  BY DEF Take
<1>4. /\ updates' \in [Entities -> Row \cup {Absent}]
      /\ \A e \in Entities : updates'[e] # Absent => Backed(updates'[e])
  BY <1>3 DEF OverlayInv, OverlayTypes, RecordsAreBacked
<1>5. "writing" \in {"asleep", "writing"}
  OBVIOUS
<1>. QED
  BY <1>1, <1>2, <1>3, <1>4, <1>5, PassKeeps

LEMMA PersistKeeps ==
  ASSUME OverlayInv, NEW l \in Loops, Persist(l)
  PROVE  OverlayInv'
<1>1. PICK r \in pass[l].left :
        /\ updates' = [updates EXCEPT ![r.entity] = r]
        /\ pass' = [pass EXCEPT ![l].left = pass[l].left \ {r}]
  BY DEF Persist
<1>2. r \in Row /\ r.entity \in Entities /\ Backed(r)
  BY PassRecord DEF OverlayInv, RecordsAreBacked, Row
<1>3. pass' = [pass EXCEPT ![l] = [at |-> pass[l].at, left |-> pass[l].left \ {r}]]
  <2>1. pass[l] \in [at : {"asleep", "writing"}, left : SUBSET Row]
    BY DEF OverlayInv, OverlayTypes
  <2>2. [pass[l] EXCEPT !.left = pass[l].left \ {r}]
          = [at |-> pass[l].at, left |-> pass[l].left \ {r}]
    BY <2>1
  <2>3. pass' = [pass EXCEPT ![l] = [pass[l] EXCEPT !.left = pass[l].left \ {r}]]
    BY <1>1, Zenon
  <2>. QED
    BY <2>2, <2>3
<1>4. updates' \in [Entities -> Row \cup {Absent}]
  BY <1>1, <1>2 DEF OverlayInv, OverlayTypes
<1>5. \A e \in Entities : updates'[e] # Absent => Backed(updates'[e])
  BY <1>1, <1>2 DEF OverlayInv, OverlayTypes, RecordsAreBacked
<1>6. /\ pass[l].left \ {r} \in SUBSET Row /\ pass[l].at \in {"asleep", "writing"}
      /\ \A q \in pass[l].left \ {r} : Backed(q)
  BY PassRecord DEF OverlayInv, RecordsAreBacked
<1>7. UNCHANGED <<feed, heard, serviceDate, cache>>
  BY DEF Persist
<1>. QED
  BY <1>3, <1>4, <1>5, <1>6, <1>7, PassKeeps

\* A pass that ends, with what was written, or without rows that ended long ago.
LEMMA EndKeeps ==
  ASSUME OverlayInv, NEW l \in Loops, Finish(l) \/ Fail(l)
  PROVE  OverlayInv'
<1>1. /\ pass' = [pass EXCEPT ![l] = [at |-> "asleep", left |-> {}]]
      /\ UNCHANGED <<feed, heard, serviceDate, cache>>
  BY DEF Finish, Fail, Asleep
<1>2. /\ DOMAIN updates' = Entities /\ updates' = [e \in Entities |-> updates'[e]]
      /\ \A e \in Entities : updates'[e] \in {updates[e], Absent}
  <2>1. CASE Finish(l)
    <3>1. PICK busy \in BOOLEAN :
            updates' = [e \in Entities |-> IF l = "updates" /\ e \in Deleted(busy) THEN Absent
                                           ELSE updates[e]]
      BY <2>1 DEF Finish
    <3>. QED
      BY <3>1
  <2>2. CASE Fail(l)
    BY <2>2 DEF Fail, OverlayInv, OverlayTypes
  <2>. QED
    BY <2>1, <2>2
<1>3. /\ updates' \in [Entities -> Row \cup {Absent}]
      /\ \A e \in Entities : updates'[e] # Absent => Backed(updates'[e])
  BY <1>2 DEF OverlayInv, OverlayTypes, RecordsAreBacked
<1>4. "asleep" \in {"asleep", "writing"} /\ {} \in SUBSET Row /\ \A r \in {} : Backed(r)
  OBVIOUS
<1>. QED
  BY <1>1, <1>3, <1>4, PassKeeps

LEMMA RefreshKeeps ==
  ASSUME OverlayAssumption, OverlayInv, Refresh
  PROVE  OverlayInv'
<1>1. /\ cache' = [date |-> serviceDate, late |-> Delayed(serviceDate), age |-> 0]
      /\ UNCHANGED <<feed, heard, updates, pass, serviceDate>>
  BY DEF Refresh
<1>2. Delayed(serviceDate) \in BOOLEAN
  BY DEF Delayed, StillValid
<1>3. serviceDate \in Dates /\ 0 \in 0 .. Old
  BY Ages DEF OverlayInv, OverlayTypes
<1>4. /\ cache' \in Copy
      /\ cache'.date = serviceDate /\ cache'.age = 0 /\ cache'.late = Delayed(serviceDate)
  BY <1>1, <1>2, <1>3, Zenon DEF Copy
<1>5. heard["late"][serviceDate] \in 0 .. Old
  BY <1>3 DEF OverlayInv, OverlayTypes, Told, Days
<1>6. Delayed(serviceDate) => heard["late"][serviceDate] <= SummaryLife
  <2>. DEFINE r == updates[<<"summary", Undated>>]
  <2>1. <<"summary", Undated>> \in Entities
    BY DEF Entities
  <2>. SUFFICES ASSUME Delayed(serviceDate) PROVE heard["late"][serviceDate] <= SummaryLife
    OBVIOUS
  <2>2. r # Absent /\ r.age <= r.life /\ r.say = "late" /\ r.date = serviceDate
    BY DEF Delayed, StillValid
  <2>3. r \in Row /\ Backed(r)
    BY <2>1, <2>2 DEF OverlayInv, OverlayTypes, RecordsAreBacked
  <2>4. heard["late"][serviceDate] <= r.age
    BY <2>2, <2>3 DEF Backed
  <2>5. r.age \in 0 .. Old /\ r.life \in {StopLife, SummaryLife}
    BY <2>3 DEF Row
  <2>. HIDE DEF r
  <2>. QED
    BY <1>5, <2>2, <2>4, <2>5, Ages
<1>7. CacheIsBacked'
  BY <1>1, <1>4, <1>5, <1>6, Ages DEF CacheIsBacked
<1>8. OverlayTypes'
  BY <1>1, <1>4 DEF OverlayInv, OverlayTypes
<1>9. FeedIsHeard' /\ RecordsAreBacked'
  BY <1>1 DEF OverlayInv, FeedIsHeard, RecordsAreBacked, Backed
<1>. QED
  BY <1>7, <1>8, <1>9 DEF OverlayInv

\* Midnight changes nothing of what was said.
LEMMA MidnightKeeps ==
  ASSUME OverlayInv, Midnight
  PROVE  OverlayInv'
<1>1. serviceDate' \in Dates /\ UNCHANGED <<feed, heard, updates, pass, cache>>
  BY DEF Midnight
<1>. QED
  BY <1>1 DEF OverlayInv, OverlayTypes, FeedIsHeard, RecordsAreBacked, Backed, CacheIsBacked

\* A tick makes everything older alike.
LEMMA TickKeeps ==
  ASSUME OverlayAssumption, OverlayInv, Tick
  PROVE  OverlayInv'
<1>1. /\ heard \in [Told -> [Days -> 0 .. Old]]
      /\ feed \in [trip : [Dates -> Says], car : Says, age : 0 .. Old]
      /\ updates \in [Entities -> Row \cup {Absent}]
      /\ pass \in [Loops -> [at : {"asleep", "writing"}, left : SUBSET Row]]
  BY DEF OverlayInv, OverlayTypes
<1>2. heard' = [x \in Told |-> [d \in Days |-> Older(heard[x][d])]]
  BY <1>1 DEF Tick, Days
<1>3. \A say \in Told, d \in Days :
        /\ heard[say][d] \in 0 .. Old
        /\ heard'[say][d] = Older(heard[say][d])
        /\ heard'[say][d] \in 0 .. Old
  BY <1>1, <1>2, OlderAges
<1>4. heard' \in [Told -> [Days -> 0 .. Old]]
  BY <1>2, <1>3
<1>5. /\ feed'.trip = feed.trip /\ feed'.car = feed.car /\ feed'.age = Older(feed.age)
      /\ feed' \in [trip : [Dates -> Says], car : Says, age : 0 .. Old]
      /\ feed.age \in 0 .. Old
  <2>1. feed.age \in 0 .. Old /\ Older(feed.age) \in 0 .. Old
    BY <1>1, OlderAges
  <2>2. feed' = [feed EXCEPT !.age = Older(feed.age)]
    BY DEF Tick
  <2>. QED
    BY <1>1, <2>1, <2>2, Zenon
<1>6. FeedIsHeard'
  <2>1. ASSUME NEW say \in Told, NEW d \in Days, heard[say][d] <= feed.age
        PROVE  heard'[say][d] <= feed'.age
    BY <1>3, <1>5, <2>1, OlderAges
  <2>2. Undated \in Days /\ Dates \subseteq Days
    BY DEF Days
  <2>. QED
    BY <1>5, <2>1, <2>2 DEF OverlayInv, FeedIsHeard
<1>. DEFINE Remains(x) == heard'[x.say][x.date] <= x.age
<1>7. ASSUME NEW r \in Row, Backed(r)
      PROVE  [r EXCEPT !.age = Older(r.age)] \in Row /\ Remains([r EXCEPT !.age = Older(r.age)])
  <2>. DEFINE q == [r EXCEPT !.age = Older(r.age)]
  <2>1. r.say \in Told /\ r.date \in Days /\ r.age \in 0 .. Old
    BY DEF Row
  <2>2. Older(r.age) \in 0 .. Old
    BY <2>1, OlderAges
  <2>3. q \in Row /\ q.say = r.say /\ q.date = r.date /\ q.age = Older(r.age)
    BY <2>2, AgedRow
  <2>4. heard'[r.say][r.date] <= Older(r.age)
    BY <1>3, <1>7, <2>1, OlderAges DEF Backed
  <2>. HIDE DEF q
  <2>5. Remains(q)
    BY <2>3, <2>4
  <2>. QED
    BY <2>3, <2>5 DEF q
<1>8. updates' = [e \in Entities |-> IF updates[e] = Absent THEN Absent
                                     ELSE [updates[e] EXCEPT !.age = Older(updates[e].age)]]
  BY DEF Tick
<1>9. ASSUME NEW e \in Entities
      PROVE  updates'[e] \in Row \cup {Absent} /\ (updates'[e] # Absent => Remains(updates'[e]))
  <2>1. CASE updates[e] = Absent
    BY <1>8, <2>1
  <2>2. CASE updates[e] # Absent
    <3>1. updates[e] \in Row /\ Backed(updates[e])
      BY <1>1, <2>2 DEF OverlayInv, RecordsAreBacked
    <3>2. updates'[e] = [updates[e] EXCEPT !.age = Older(updates[e].age)]
      BY <1>8, <2>2
    <3>. QED
      BY <1>7, <3>1, <3>2
  <2>. QED
    BY <2>1, <2>2
<1>10. ASSUME NEW l \in Loops
       PROVE  /\ pass'[l] \in [at : {"asleep", "writing"}, left : SUBSET Row]
              /\ \A r \in pass'[l].left : Remains(r)
  <2>. DEFINE older == {[r EXCEPT !.age = Older(r.age)] : r \in pass[l].left}
  <2>1. pass'[l] = [pass[l] EXCEPT !.left = older]
    BY DEF Tick
  <2>2. \A r \in pass[l].left : r \in Row /\ Backed(r)
    BY <1>1 DEF OverlayInv, RecordsAreBacked
  <2>3. \A q \in older : q \in Row /\ Remains(q)
    BY <1>7, <2>2
  <2>4. older \in SUBSET Row
    BY <2>3
  <2>. HIDE DEF older
  <2>5. pass[l] \in [at : {"asleep", "writing"}, left : SUBSET Row]
    BY <1>1
  <2>6. pass'[l] \in [at : {"asleep", "writing"}, left : SUBSET Row] /\ pass'[l].left = older
    BY <2>1, <2>4, <2>5, Zenon
  <2>. QED
    BY <2>3, <2>6
<1>11. /\ updates' \in [Entities -> Row \cup {Absent}]
       /\ pass' \in [Loops -> [at : {"asleep", "writing"}, left : SUBSET Row]]
  <2>1. pass' = [l \in Loops |-> pass'[l]]
    BY DEF Tick
  <2>2. updates' = [e \in Entities |-> updates'[e]]
    BY <1>8
  <2>. QED
    BY <1>9, <1>10, <2>1, <2>2
<1>12. RecordsAreBacked'
  BY <1>9, <1>10 DEF RecordsAreBacked, Backed
<1>13. cache' \in {Absent} \cup Copy /\ serviceDate' \in Dates /\ CacheIsBacked'
  <2>1. CASE cache = Absent
    BY <2>1 DEF Tick, CacheIsBacked, OverlayInv, OverlayTypes
  <2>2. CASE cache # Absent
    <3>1. cache \in Copy /\ cache.age \in 0 .. Old /\ cache.date \in Dates
      BY <2>2 DEF OverlayInv, OverlayTypes, Copy
    <3>2. Older(cache.age) \in 0 .. Old
      BY <3>1, OlderAges
    <3>3. cache' = [cache EXCEPT !.age = Older(cache.age)]
      BY <2>2 DEF Tick
    <3>4. /\ cache' \in Copy
          /\ cache'.date = cache.date /\ cache'.late = cache.late /\ cache'.age = Older(cache.age)
      BY <3>1, <3>2, <3>3, Zenon DEF Copy
    <3>5. "late" \in Told /\ cache.date \in Days
      BY <3>1 DEF Told, Days
    <3>6. /\ heard["late"][cache.date] \in 0 .. Old
          /\ heard'["late"][cache.date] = Older(heard["late"][cache.date])
      BY <1>3, <3>5
    <3>7. cache.late => heard["late"][cache.date] <= SummaryLife + cache.age
      BY <2>2 DEF OverlayInv, CacheIsBacked
    <3>8. heard["late"][cache.date] <= SummaryLife + cache.age
            => Older(heard["late"][cache.date]) <= SummaryLife + Older(cache.age)
      <4>. DEFINE h == heard["late"][cache.date]
                  a == cache.age
      <4>1. Older(a) = a + 1 \/ Older(a) = Old
        BY <3>1, OlderAges
      <4>2. Older(h) \in 0 .. Old /\ Older(h) <= h + 1
        BY <3>6, OlderAges
      <4>3. h \in 0 .. Old /\ a \in 0 .. Old
        BY <3>1, <3>6
      <4>. HIDE DEF h, a
      <4>4. h <= SummaryLife + a => Older(h) <= SummaryLife + Older(a)
        BY <4>1, <4>2, <4>3, Ages
      <4>. QED
        BY <4>4 DEF h, a
    <3>. QED
      BY <3>4, <3>6, <3>7, <3>8 DEF Tick, CacheIsBacked, OverlayInv, OverlayTypes
  <2>. QED
    BY <2>1, <2>2
<1>. QED
  BY <1>4, <1>5, <1>6, <1>11, <1>12, <1>13 DEF OverlayInv, OverlayTypes

-----------------------------------------------------------------------------

\* Every record, wherever it is, says what the operator said of its date, and is dated by the
\* snapshot that said it: the passes of the worker, the rows they write and the copy of the API
\* (sync_pid_trip_updates ..., persist_records, refresh_routing_realtime).
THEOREM OverlayInductive ==
  ASSUME OverlayAssumption
  PROVE  OverlaySpec => []OverlayInv
<1>1. OverlayInit => OverlayInv
  <2>. SUFFICES ASSUME OverlayInit PROVE OverlayInv
    OBVIOUS
  <2>1. 0 \in 0 .. Old /\ Old \in 0 .. Old
    BY Ages
  <2>2. Asleep \in [at : {"asleep", "writing"}, left : SUBSET Row] /\ Asleep.left = {}
    BY DEF Asleep
  <2>3. feed \in [trip : [Dates -> Says], car : Says, age : 0 .. Old]
    BY <2>1 DEF OverlayInit, Says
  <2>4. heard \in [Told -> [Days -> 0 .. Old]]
    BY <2>1 DEF OverlayInit, Told, Days
  <2>5. OverlayTypes
    BY <2>2, <2>3, <2>4 DEF OverlayInit, OverlayTypes
  <2>6. FeedIsHeard
    BY DEF OverlayInit, FeedIsHeard, Told
  <2>7. RecordsAreBacked /\ CacheIsBacked
    BY <2>2 DEF OverlayInit, RecordsAreBacked, CacheIsBacked
  <2>. QED
    BY <2>5, <2>6, <2>7 DEF OverlayInv
<1>2. OverlayAssumption /\ OverlayInv /\ [OverlayNext]_overlayVars => OverlayInv'
  <2>. SUFFICES ASSUME OverlayInv, [OverlayNext]_overlayVars PROVE OverlayInv'
    OBVIOUS
  <2>1. CASE \E f \in Feeds : Publish(f.trip, f.car)
    BY <2>1, PublishKeeps
  <2>2. CASE \E l \in Loops : Take(l) \/ Persist(l) \/ Finish(l) \/ Fail(l)
    BY <2>2, TakeKeeps, PersistKeeps, EndKeeps
  <2>3. CASE Refresh
    BY <2>3, RefreshKeeps
  <2>4. CASE Tick
    BY <2>4, TickKeeps
  <2>5. CASE Midnight
    BY <2>5, MidnightKeeps
  <2>6. CASE UNCHANGED overlayVars
    BY <2>6
    DEF overlayVars, OverlayInv, OverlayTypes, FeedIsHeard, RecordsAreBacked, Backed, CacheIsBacked
  <2>. QED
    BY <2>1, <2>2, <2>3, <2>4, <2>5, <2>6 DEF OverlayNext
<1>. QED
  BY <1>1, <1>2, PTL DEF OverlaySpec

\* A leg is shown late or cancelled only if the operator said so of the trip, of the date asked for
\* or the day after, or of the vehicle, within the life of a row (journeys_with_realtime, stop_call_realtime).
THEOREM WhatIsShownWasSaid ==
  ASSUME OverlayAssumption
  PROVE  OverlaySpec => []ShownWasSaid
<1>1. OverlayInv => ShownWasSaid
  <2>. SUFFICES ASSUME OverlayInv, NEW date \in Dates
       PROVE  LET dates == SearchedDates(date) \cup {Undated}
              IN  /\ Shown(date).cancelled => Heard("cancelled", dates, SummaryLife)
                  /\ Shown(date).late => Heard("late", dates, SummaryLife)
    BY DEF ShownWasSaid
  <2>. DEFINE dates == SearchedDates(date) \cup {Undated}
  <2>1. ASSUME NEW r \in Annotating(date) PROVE r.date \in dates /\ heard[r.say][r.date] <= SummaryLife
    <3>1. PICK e \in Entities :
            r = updates[e] /\ StillValid(r) /\ r.date \in {date, date + 1, Undated}
      BY DEF Annotating
    <3>2. r \in Row /\ Backed(r)
      BY <3>1 DEF StillValid, OverlayInv, OverlayTypes, RecordsAreBacked
    <3>3. /\ r.age \in 0 .. Old /\ r.life \in {StopLife, SummaryLife} /\ r.age <= r.life
          /\ r.say \in Told /\ r.date \in Days
      BY <3>1, <3>2 DEF Row, StillValid
    <3>4. heard[r.say][r.date] \in 0 .. Old /\ heard[r.say][r.date] <= r.age
      BY <3>2, <3>3 DEF OverlayInv, OverlayTypes, Backed
    <3>5. heard[r.say][r.date] <= SummaryLife
      BY <3>3, <3>4, Ages
    <3>. QED
      BY <3>1, <3>3, <3>5 DEF Days, SearchedDates
  <2>2. ASSUME NEW say \in Told, NEW r \in Annotating(date), r.say = say
        PROVE  Heard(say, dates, SummaryLife)
    BY <2>1, <2>2 DEF Heard
  <2>3. Shown(date).cancelled => \E r \in Annotating(date) : r.say = "cancelled"
    BY DEF Shown
  <2>4. Shown(date).late => \E r \in Annotating(date) : r.say = "late"
    BY DEF Shown, LateLeg, Newest
  <2>. HIDE DEF dates
  <2>5. /\ Shown(date).cancelled => Heard("cancelled", dates, SummaryLife)
        /\ Shown(date).late => Heard("late", dates, SummaryLife)
    BY <2>2, <2>3, <2>4 DEF Told
  <2>. QED
    BY <2>5 DEF dates
<1>. QED
  BY <1>1, OverlayInductive, PTL

\* A search plans with a delay, on whichever of the two days, only if the operator said so of the
\* very date that is asked for, within the lives of a summary and of the cached copy
\* (journey_routing_realtime_db, journey_routing_realtime_cached).
THEOREM WhatIsPlannedWasSaid ==
  ASSUME OverlayAssumption
  PROVE  OverlaySpec => []PlannedWasSaid
<1>1. OverlayInv => PlannedWasSaid
  <2>. SUFFICES ASSUME OverlayInv, NEW date \in Dates, Planned(date) # {}
       PROVE  LatelyLate({date})
    BY DEF PlannedWasSaid
  <2>1. cache # Absent /\ cache.date = date /\ cache.age < CacheLife /\ cache.late
    BY DEF Planned, Cached
  <2>2. cache.age \in 0 .. Old /\ heard["late"][date] <= SummaryLife + cache.age
    BY <2>1 DEF OverlayInv, OverlayTypes, CacheIsBacked, Copy
  <2>3. heard["late"][date] \in 0 .. Old
    BY DEF OverlayInv, OverlayTypes, Told, Days
  <2>4. heard["late"][date] <= SummaryLife + CacheLife - 1
    BY <2>1, <2>2, <2>3, Ages
  <2>. QED
    BY <2>4 DEF LatelyLate, Heard
<1>. QED
  BY <1>1, OverlayInductive, PTL

-----------------------------------------------------------------------------
(* Sequences in order.  R is an order of a set if it compares any two of   *)
(* its members, is transitive and ties nobody.                             *)

\* The least of some numbers.
LEMMA LeastNumber ==
  ASSUME NEW S, S \subseteq Nat, S # {}
  PROVE  \E n \in S : \A m \in S : n =< m
<1>1. PICK n \in S : \A m \in S : ~(<<m, n>> \in OpToRel(<, Nat))
  BY NatLessThanWellFounded, WFMin, Zenon
<1>2. \A m \in S : ~(m < n)
  BY <1>1 DEF OpToRel
<1>3. \A m \in S : m \in Nat
  OBVIOUS
<1>. QED
  BY <1>2, <1>3

\* What is true of 0 and passed on is true up to the end.
LEMMA Climbing ==
  ASSUME NEW N \in Nat, NEW S, 0 \in S, \A n \in S : n \in 0 .. N - 1 => n + 1 \in S
  PROVE  \A n \in 0 .. N : n \in S
<1>. DEFINE Out == {n \in 0 .. N : n \notin S}
<1>1. SUFFICES ASSUME Out # {} PROVE FALSE
  OBVIOUS
<1>2. Out \subseteq Nat
  OBVIOUS
<1>3. PICK n \in Out : \A m \in Out : n =< m
  <2>. HIDE DEF Out
  <2>. QED
    BY <1>1, <1>2, LeastNumber
<1>4. n \in 1 .. N /\ n \notin S
  OBVIOUS
<1>5. n - 1 \in 0 .. N - 1 /\ n - 1 \notin Out /\ (n - 1) + 1 = n
  BY <1>3, <1>4
<1>. QED
  BY <1>4, <1>5

Orders(R, S) ==
  /\ \A x \in S, y \in S : <<x, y>> \in R \/ <<y, x>> \in R
  /\ \A x \in S, y \in S : <<x, y>> \in R /\ <<y, x>> \in R => x = y
  /\ \A x \in S, y \in S, z \in S : <<x, y>> \in R /\ <<y, z>> \in R => <<x, z>> \in R

\* The place of x among the members of S.
Below(R, S, x) == {y \in S : <<y, x>> \in R}
Rung(R, S, x) == Cardinality(Below(R, S, x))

\* Every place is taken once.
LEMMA RungsFill ==
  ASSUME NEW S, IsFiniteSet(S), NEW R, Orders(R, S)
  PROVE  /\ Cardinality(S) \in Nat
         /\ \A x \in S : Rung(R, S, x) \in 1 .. Cardinality(S)
         /\ \A x \in S, y \in S : <<x, y>> \in R /\ x # y => Rung(R, S, x) < Rung(R, S, y)
         /\ \A x \in S, y \in S : Rung(R, S, x) = Rung(R, S, y) => x = y
         /\ \A i \in 1 .. Cardinality(S) : \E x \in S : Rung(R, S, x) = i
<1>1. Cardinality(S) \in Nat
  BY FS_CardinalityType
<1>2. ASSUME NEW x \in S
      PROVE  /\ IsFiniteSet(Below(R, S, x)) /\ Rung(R, S, x) \in 1 .. Cardinality(S)
  <2>1. Below(R, S, x) \in SUBSET S /\ x \in Below(R, S, x)
    BY DEF Below, Orders
  <2>2. IsFiniteSet(Below(R, S, x)) /\ Cardinality(Below(R, S, x)) =< Cardinality(S)
    BY <2>1, FS_Subset
  <2>3. Cardinality(Below(R, S, x)) \in Nat /\ Cardinality(Below(R, S, x)) # 0
    BY <2>1, <2>2, FS_CardinalityType, FS_EmptySet
  <2> QED
    BY <1>1, <2>2, <2>3 DEF Rung
<1>3. ASSUME NEW x \in S, NEW y \in S, <<x, y>> \in R, x # y
      PROVE  Rung(R, S, x) < Rung(R, S, y)
  <2>1. Below(R, S, x) \in SUBSET Below(R, S, y)
    BY <1>3 DEF Below, Orders
  <2>2. y \in Below(R, S, y) /\ y \notin Below(R, S, x)
    BY <1>3 DEF Below, Orders
  <2>3. Below(R, S, x) # Below(R, S, y)
    BY <2>2
  <2>4. Rung(R, S, x) =< Rung(R, S, y) /\ Rung(R, S, x) # Rung(R, S, y)
    BY <1>2, <2>1, <2>3, FS_Subset DEF Rung
  <2> QED
    BY <1>2, <2>4
<1>4. ASSUME NEW x \in S, NEW y \in S, Rung(R, S, x) = Rung(R, S, y)  PROVE x = y
  <2>1. Rung(R, S, x) \in Nat
    BY <1>2
  <2>2. <<x, y>> \in R \/ <<y, x>> \in R
    BY DEF Orders
  <2> QED
    BY <1>3, <1>4, <2>1, <2>2
<1>. DEFINE T == 1 .. Cardinality(S)
            f == [x \in S |-> Rung(R, S, x)]
<1>5. f \in [S -> T] /\ \A x \in S, y \in S : f[x] = f[y] => x = y
  BY <1>2, <1>4
<1>6. IsFiniteSet(T) /\ Cardinality(T) = Cardinality(S)
  BY <1>1, FS_Interval
<1>7. f \in Surjection(S, T)
  <2>0. DOMAIN f = S
    OBVIOUS
  <2>. HIDE DEF f, T
  <2>1. f \in Injection(S, T)
    BY <1>5, <2>0, Zenon DEF Injection, IsInjective
  <2> QED
    BY <1>6, <2>1, FS_Injection
<1>8. \A i \in T : \E x \in S : f[x] = i
  <2>. HIDE DEF f, T
  <2> QED
    BY <1>7 DEF Surjection
<1> QED
  BY <1>1, <1>2, <1>3, <1>4, <1>8

LEMMA OneTo ==
  ASSUME NEW n \in Nat
  PROVE  IsFiniteSet(1 .. n) /\ Cardinality(1 .. n) = n
BY FS_Interval

\* The places of a sequence.
LEMMA PlacesOf ==
  ASSUME NEW s, s \in Seq(Range(s)), NEW S, S \subseteq DOMAIN s
  PROVE  /\ DOMAIN s = 1 .. Len(s) /\ Len(s) \in Nat
         /\ S \subseteq Nat \ {0} /\ IsFiniteSet(S) /\ Cardinality(S) \in Nat
         /\ Cardinality(S) =< Len(s)
<1>1. Len(s) \in Nat /\ DOMAIN s = 1 .. Len(s)
  OBVIOUS
<1>2. IsFiniteSet(1 .. Len(s)) /\ Cardinality(1 .. Len(s)) = Len(s)
  BY <1>1, OneTo, Zenon
<1>3. S \in SUBSET (1 .. Len(s))
  BY <1>1
<1>4. IsFiniteSet(S) /\ Cardinality(S) =< Len(s) /\ Cardinality(S) \in Nat
  BY <1>2, <1>3, FS_Subset, FS_CardinalityType
<1>. QED
  BY <1>1, <1>3, <1>4

\* A function on 1 .. n is a sequence of its values.
LEMMA IsSequence ==
  ASSUME NEW n \in Nat, NEW f, f = [i \in 1 .. n |-> f[i]]
  PROVE  f \in Seq(Range(f)) /\ Len(f) = n /\ DOMAIN f = 1 .. n
<1>1. DOMAIN f = 1 .. n
  BY Zenon
<1>2. \A i \in 1 .. n : f[i] \in Range(f)
  BY <1>1 DEF Range
<1>3. f \in [1 .. n -> Range(f)]
  BY <1>2, Zenon
<1>4. f \in Seq(Range(f))
  BY <1>3
<1>. QED
  BY <1>1, <1>4

\* What is kept of a sequence, in the order it had.
LEMMA KeptIs ==
  ASSUME NEW s, s \in Seq(Range(s)), NEW kept, kept \subseteq DOMAIN s
  PROVE  /\ Kept(s, kept) \in Seq(Range(Kept(s, kept)))
         /\ Len(Kept(s, kept)) = Cardinality(kept) /\ Len(Kept(s, kept)) =< Len(s)
         /\ DOMAIN Kept(s, kept) = 1 .. Cardinality(kept)
         /\ Range(Kept(s, kept)) = {s[n] : n \in kept}
         /\ \A i \in 1 .. Cardinality(kept), h \in 1 .. Cardinality(kept) :
              i # h => \E m \in kept, n \in kept :
                         m # n /\ Kept(s, kept)[i] = s[m] /\ Kept(s, kept)[h] = s[n]
         /\ 1 \in kept => Cardinality(kept) >= 1 /\ Kept(s, kept)[1] = s[1]
<1>. DEFINE R == {p \in Nat \X Nat : p[1] =< p[2]}
            k == Kept(s, kept)
            N == Cardinality(kept)
<1>1. /\ kept \subseteq Nat \ {0} /\ IsFiniteSet(kept) /\ N \in Nat /\ N =< Len(s) /\ Len(s) \in Nat
  BY PlacesOf
<1>2. \A m \in Nat, n \in Nat : <<m, n>> \in R <=> m =< n
  OBVIOUS
<1>3. Orders(R, kept)
  <2>. HIDE DEF R
  <2>1. \A m \in kept : m \in Nat
    BY <1>1
  <2> QED
    BY <1>2, <2>1 DEF Orders
<1>4. \A n \in kept : Rung(R, kept, n) = Place(n, kept)
  <2>1. ASSUME NEW n \in kept  PROVE Below(R, kept, n) = {m \in kept : m <= n}
    BY <1>1, <1>2 DEF Below
  <2> QED
    BY <2>1 DEF Rung, Place
<1>. HIDE DEF R, N
<1>5. /\ \A n \in kept : Place(n, kept) \in 1 .. N
      /\ \A m \in kept, n \in kept : Place(m, kept) = Place(n, kept) => m = n
      /\ \A i \in 1 .. N : \E n \in kept : Place(n, kept) = i
  <2>1. /\ \A n \in kept : Rung(R, kept, n) \in 1 .. N
        /\ \A m \in kept, n \in kept : Rung(R, kept, m) = Rung(R, kept, n) => m = n
        /\ \A i \in 1 .. N : \E n \in kept : Rung(R, kept, n) = i
    BY <1>1, <1>3, RungsFill DEF N
  <2> QED
    BY <1>4, <2>1
<1>6. DOMAIN k = 1 .. N /\ k = [i \in 1 .. N |-> k[i]]
  BY DEF Kept, N
<1>7. ASSUME NEW n \in kept  PROVE k[Place(n, kept)] = s[n]
  <2>1. (CHOOSE m \in kept : Place(m, kept) = Place(n, kept)) = n
    BY <1>5
  <2>2. Place(n, kept) \in 1 .. N
    BY <1>5
  <2> QED
    BY <2>1, <2>2 DEF Kept, N
<1>. HIDE DEF k
<1>8. k \in Seq(Range(k)) /\ Len(k) = N
  BY <1>1, <1>6, IsSequence
<1>9. Range(k) = {s[n] : n \in kept}
  <2>1. Range(k) = {k[i] : i \in 1 .. N}
    BY <1>6 DEF Range
  <2>2. \A i \in 1 .. N : \E n \in kept : k[i] = s[n]
    BY <1>5, <1>7
  <2>3. \A n \in kept : \E i \in 1 .. N : k[i] = s[n]
    BY <1>5, <1>7
  <2> QED
    BY <2>1, <2>2, <2>3
<1>10. ASSUME NEW i \in 1 .. N, NEW h \in 1 .. N, i # h
       PROVE  \E m \in kept, n \in kept : m # n /\ k[i] = s[m] /\ k[h] = s[n]
  <2>1. PICK m \in kept : Place(m, kept) = i
    BY <1>5
  <2>2. PICK n \in kept : Place(n, kept) = h
    BY <1>5
  <2> QED
    BY <1>7, <1>10, <2>1, <2>2
<1>11. ASSUME 1 \in kept  PROVE N >= 1 /\ k[1] = s[1]
  <2>1. {m \in kept : m <= 1} = {1}
    BY <1>1, <1>11
  <2>2. Place(1, kept) = 1
    BY <2>1, FS_Singleton DEF Place
  <2>3. 1 \in 1 .. N
    BY <1>5, <1>11, <2>2
  <2> QED
    BY <1>1, <1>7, <1>11, <2>2, <2>3
<1>. QED
  BY <1>1, <1>6, <1>8, <1>9, <1>10, <1>11 DEF k, N

-----------------------------------------------------------------------------
(* Keys of w numbers are ordered by their first difference.                *)

KeySet(w) == [1 .. w -> Int]

LEMMA FirstDifference ==
  ASSUME NEW w \in Nat, NEW k \in KeySet(w), NEW l \in KeySet(w), k # l
  PROVE  \E i \in 1 .. w : k[i] # l[i] /\ \A h \in 1 .. i - 1 : k[h] = l[h]
<1>. DEFINE S == {i \in 1 .. w : k[i] # l[i]}
<1>1. S # {}
  BY DEF KeySet
<1>2. S \subseteq Nat
  OBVIOUS
<1>3. PICK i \in S : \A h \in S : i =< h
  <2>. HIDE DEF S
  <2>. QED
    BY <1>1, <1>2, LeastNumber
<1>4. ASSUME NEW h \in 1 .. i - 1 PROVE k[h] = l[h]
  BY <1>3
<1>. QED
  BY <1>4

LEMMA LessIsOrder ==
  ASSUME NEW w \in Nat, NEW k \in KeySet(w), NEW l \in KeySet(w)
  PROVE  /\ Less(k, l) \/ Less(l, k) \/ k = l
         /\ ~(Less(k, l) /\ Less(l, k)) /\ ~Less(k, k)
         /\ \A m \in KeySet(w) : Less(k, l) /\ Less(l, m) => Less(k, m)
<1>0. DOMAIN k = 1 .. w /\ DOMAIN l = 1 .. w
  BY DEF KeySet
<1>1. Less(k, l) \/ Less(l, k) \/ k = l
  <2>. SUFFICES ASSUME k # l PROVE Less(k, l) \/ Less(l, k)
    OBVIOUS
  <2>1. PICK i \in 1 .. w : k[i] # l[i] /\ \A h \in 1 .. i - 1 : k[h] = l[h]
    BY FirstDifference
  <2>2. k[i] \in Int /\ l[i] \in Int
    BY DEF KeySet
  <2>3. CASE k[i] < l[i]
    BY <1>0, <2>1, <2>3 DEF Less
  <2>4. CASE l[i] < k[i]
    BY <1>0, <2>1, <2>4 DEF Less
  <2>. QED
    BY <2>1, <2>2, <2>3, <2>4
<1>2. ASSUME Less(k, k) PROVE FALSE
  <2>1. PICK i \in 1 .. w : k[i] < k[i]
    BY <1>0, <1>2 DEF Less
  <2>2. k[i] \in Int
    BY DEF KeySet
  <2>. QED
    BY <2>1, <2>2
<1>3. ASSUME NEW m \in KeySet(w), Less(k, l), Less(l, m) PROVE Less(k, m)
  <2>1. PICK i \in 1 .. w : k[i] < l[i] /\ \A h \in 1 .. i - 1 : k[h] = l[h]
    BY <1>0, <1>3 DEF Less
  <2>2. PICK j \in 1 .. w : l[j] < m[j] /\ \A h \in 1 .. j - 1 : l[h] = m[h]
    BY <1>0, <1>3 DEF Less
  <2>3. \A h \in 1 .. w : k[h] \in Int /\ l[h] \in Int /\ m[h] \in Int
    BY DEF KeySet
  <2>4. CASE i < j
    <3>1. k[i] < m[i]
      BY <2>1, <2>2, <2>4
    <3>2. \A h \in 1 .. i - 1 : k[h] = m[h]
      BY <2>1, <2>2, <2>4
    <3>. QED
      BY <1>0, <3>1, <3>2 DEF Less
  <2>5. CASE i = j
    <3>1. k[i] < m[i]
      BY <2>1, <2>2, <2>3, <2>5
    <3>2. \A h \in 1 .. i - 1 : k[h] = m[h]
      BY <2>1, <2>2, <2>5
    <3>. QED
      BY <1>0, <3>1, <3>2 DEF Less
  <2>6. CASE j < i
    <3>1. k[j] < m[j]
      BY <2>1, <2>2, <2>6
    <3>2. \A h \in 1 .. j - 1 : k[h] = m[h]
      BY <2>1, <2>2, <2>6
    <3>. QED
      BY <1>0, <3>1, <3>2 DEF Less
  <2>. QED
    BY <2>4, <2>5, <2>6
<1>4. ~(Less(k, l) /\ Less(l, k))
  BY <1>2, <1>3
<1>. QED
  BY <1>1, <1>2, <1>3, <1>4

\* s has a key of w numbers for every element.
HasKeys(s, keys, w) ==
  /\ s \in Seq(Range(s)) /\ w \in Nat
  /\ DOMAIN keys = DOMAIN s /\ \A n \in DOMAIN s : keys[n] \in KeySet(w)

LEMMA PlacesAreOrdered ==
  ASSUME NEW s, NEW keys, NEW w, HasKeys(s, keys, w)
  PROVE  Orders({p \in Nat \X Nat : NotAfter(keys, p[1], p[2])}, DOMAIN s)
<1>. DEFINE R == {p \in Nat \X Nat : NotAfter(keys, p[1], p[2])}
            D == DOMAIN s
<1>1. D \subseteq Nat
  BY PlacesOf DEF HasKeys
<1>2. \A m \in D, n \in D : <<m, n>> \in R <=> NotAfter(keys, m, n)
  BY <1>1
<1>3. \A m \in D : m \in Nat /\ keys[m] \in KeySet(w)
  BY <1>1 DEF HasKeys
<1>. HIDE DEF R, D
<1>4. ASSUME NEW m \in D, NEW n \in D PROVE NotAfter(keys, m, n) \/ NotAfter(keys, n, m)
  <2>1. Less(keys[m], keys[n]) \/ Less(keys[n], keys[m]) \/ keys[m] = keys[n]
    BY <1>3, LessIsOrder DEF HasKeys
  <2>2. m =< n \/ n =< m
    BY <1>3
  <2>. QED
    BY <2>1, <2>2, Zenon DEF NotAfter
<1>5. ASSUME NEW m \in D, NEW n \in D, NotAfter(keys, m, n), NotAfter(keys, n, m) PROVE m = n
  <2>1. ~(Less(keys[m], keys[n]) /\ Less(keys[n], keys[m])) /\ ~Less(keys[m], keys[m])
        /\ ~Less(keys[n], keys[n])
    BY <1>3, LessIsOrder DEF HasKeys
  <2>2. m =< n /\ n =< m
    BY <1>5, <2>1, Zenon DEF NotAfter
  <2>. QED
    BY <1>3, <2>2
<1>6. ASSUME NEW l \in D, NEW m \in D, NEW n \in D, NotAfter(keys, l, m), NotAfter(keys, m, n)
      PROVE  NotAfter(keys, l, n)
  <2>1. Less(keys[l], keys[m]) /\ Less(keys[m], keys[n]) => Less(keys[l], keys[n])
    BY <1>3, LessIsOrder DEF HasKeys
  <2>2. l =< m /\ m =< n => l =< n
    BY <1>3
  <2>. QED
    BY <1>6, <2>1, <2>2, Zenon DEF NotAfter
<1>7. Orders(R, D)
  <2>1. \A m \in D, n \in D : <<m, n>> \in R \/ <<n, m>> \in R
    BY <1>2, <1>4
  <2>2. \A m \in D, n \in D : <<m, n>> \in R /\ <<n, m>> \in R => m = n
    BY <1>2, <1>5
  <2>3. \A l \in D, m \in D, n \in D : <<l, m>> \in R /\ <<m, n>> \in R => <<l, n>> \in R
    BY <1>2, <1>6
  <2>. QED
    BY <2>1, <2>2, <2>3 DEF Orders
<1>. QED
  BY <1>7 DEF R, D

\* A sorted sequence has the elements of the original, each at a place of its own, and none
\* comes before one of a smaller key.
LEMMA SortedIs ==
  ASSUME NEW s, NEW keys, NEW w, HasKeys(s, keys, w)
  PROVE  /\ SortedBy(s, keys) \in Seq(Range(SortedBy(s, keys)))
         /\ Len(SortedBy(s, keys)) = Len(s)
         /\ DOMAIN SortedBy(s, keys) = DOMAIN s
         /\ Range(SortedBy(s, keys)) = Range(s)
         /\ \A i \in DOMAIN s, h \in DOMAIN s : i < h =>
              \E m \in DOMAIN s, n \in DOMAIN s :
                /\ m # n /\ SortedBy(s, keys)[i] = s[m] /\ SortedBy(s, keys)[h] = s[n]
                /\ ~Less(keys[n], keys[m])
         /\ s # <<>> => \E n \in DOMAIN s :
              SortedBy(s, keys)[1] = s[n] /\ \A m \in DOMAIN s : ~Less(keys[m], keys[n])
<1>. DEFINE R == {p \in Nat \X Nat : NotAfter(keys, p[1], p[2])}
            D == DOMAIN s
            P == Places(keys)
            t == SortedBy(s, keys)
            N == Len(s)
<1>1. D = 1 .. N /\ N \in Nat /\ D \subseteq Nat /\ IsFiniteSet(D) /\ Cardinality(D) = N
  <2>1. DOMAIN s = 1 .. Len(s) /\ Len(s) \in Nat
    BY PlacesOf DEF HasKeys
  <2>. QED
    BY <2>1, OneTo
<1>2. Orders(R, D)
  BY PlacesAreOrdered
<1>3. \A m \in D, n \in D : <<m, n>> \in R <=> NotAfter(keys, m, n)
  BY <1>1
<1>4. \A n \in D : P[n] = Rung(R, D, n)
  <2>1. DOMAIN keys = D
    BY DEF HasKeys
  <2>2. \A n \in D : P[n] = Cardinality({m \in D : NotAfter(keys, m, n)})
    BY <2>1 DEF Places
  <2>3. \A n \in D : Below(R, D, n) = {m \in D : NotAfter(keys, m, n)}
    BY <1>3 DEF Below
  <2>. QED
    BY <2>2, <2>3 DEF Rung
<1>5. t = [i \in D |-> s[CHOOSE n \in D : P[n] = i]]
  BY DEF SortedBy
<1>. HIDE DEF R, P, D, t
<1>6. /\ \A n \in D : P[n] \in 1 .. N
      /\ \A m \in D, n \in D : NotAfter(keys, m, n) /\ m # n => P[m] < P[n]
      /\ \A m \in D, n \in D : P[m] = P[n] => m = n
      /\ \A i \in 1 .. N : \E n \in D : P[n] = i
  <2>1. /\ \A n \in D : Rung(R, D, n) \in 1 .. N
        /\ \A m \in D, n \in D : <<m, n>> \in R /\ m # n => Rung(R, D, m) < Rung(R, D, n)
        /\ \A m \in D, n \in D : Rung(R, D, m) = Rung(R, D, n) => m = n
        /\ \A i \in 1 .. N : \E n \in D : Rung(R, D, n) = i
    BY <1>1, <1>2, RungsFill
  <2>2. (\A n \in D : P[n] \in 1 .. N) /\ \A i \in 1 .. N : \E n \in D : P[n] = i
    BY <1>4, <2>1, Zenon
  <2>3. \A m \in D, n \in D : P[m] = P[n] => m = n
    BY <1>4, <2>1, Zenon
  <2>4. ASSUME NEW m \in D, NEW n \in D, NotAfter(keys, m, n), m # n
        PROVE  P[m] < P[n]
    <3>1. <<m, n>> \in R
      BY <1>3, <2>4, Zenon
    <3>2. Rung(R, D, m) < Rung(R, D, n)
      BY <2>1, <2>4, <3>1, Zenon
    <3>. QED
      BY <1>4, <3>2, Zenon
  <2>. QED
    BY <2>2, <2>3, <2>4, Zenon
<1>7. ASSUME NEW n \in D PROVE t[P[n]] = s[n]
  <2>1. (CHOOSE m \in D : P[m] = P[n]) = n
    BY <1>6
  <2>2. P[n] \in D
    BY <1>1, <1>6
  <2>. QED
    BY <1>5, <2>1, <2>2
<1>8. t \in Seq(Range(t)) /\ Len(t) = N /\ DOMAIN t = D
  <2>1. t = [i \in 1 .. N |-> t[i]]
    BY <1>1, <1>5
  <2>. QED
    BY <1>1, <2>1, IsSequence
<1>9. Range(t) = Range(s)
  <2>1. Range(t) = {t[i] : i \in D} /\ Range(s) = {s[i] : i \in D}
    BY <1>8 DEF Range, D
  <2>2. \A i \in D : \E n \in D : t[i] = s[n]
    BY <1>1, <1>6, <1>7
  <2>3. \A n \in D : \E i \in D : t[i] = s[n]
    BY <1>1, <1>6, <1>7
  <2>. QED
    BY <2>1, <2>2, <2>3
<1>10. \A m \in D, n \in D : Less(keys[n], keys[m]) => NotAfter(keys, n, m)
  BY DEF NotAfter
<1>11. ASSUME NEW i \in D, NEW h \in D, i < h
       PROVE  \E m \in D, n \in D : m # n /\ t[i] = s[m] /\ t[h] = s[n] /\ ~Less(keys[n], keys[m])
  <2>1. PICK m \in D : P[m] = i
    BY <1>1, <1>6
  <2>2. PICK n \in D : P[n] = h
    BY <1>1, <1>6
  <2>3. i \in Nat /\ h \in Nat /\ i # h /\ ~(h < i)
    BY <1>1, <1>11
  <2>4. m # n
    BY <2>1, <2>2, <2>3
  <2>5. ~Less(keys[n], keys[m])
    BY <1>6, <1>10, <2>1, <2>2, <2>3, <2>4
  <2>. QED
    BY <1>7, <2>1, <2>2, <2>4, <2>5
<1>12. ASSUME s # <<>>
       PROVE  \E n \in D : t[1] = s[n] /\ \A m \in D : ~Less(keys[m], keys[n])
  <2>1. N # 0
    BY <1>12 DEF HasKeys, N
  <2>2. PICK n \in D : P[n] = 1
    BY <1>1, <1>6, <2>1
  <2>3. ASSUME NEW m \in D PROVE ~Less(keys[m], keys[n])
    <3>1. P[m] \in Nat /\ ~(P[m] < 1)
      <4>1. \A p \in 1 .. N : p \in Nat /\ ~(p < 1)
        BY <1>1
      <4>. QED
        BY <1>6, <4>1, Zenon
    <3>2. CASE m = n
      BY <3>2, LessIsOrder DEF HasKeys, D
    <3>3. CASE m # n
      BY <1>6, <1>10, <2>2, <3>1, <3>3
    <3>. QED
      BY <3>2, <3>3
  <2>. QED
    BY <1>7, <2>2, <2>3
<1>. HIDE DEF N
<1>. QED
  BY <1>8, <1>9, <1>11, <1>12 DEF t, D, N

-----------------------------------------------------------------------------
(* What the operators on sequences keep.                                   *)

\* What is in S is all that is left, and nothing appears twice that did not before.
LEMMA AmongIs ==
  ASSUME NEW s, s \in Seq(Range(s)), NEW S
  PROVE  /\ Among(s, S) \in Seq(Range(Among(s, S))) /\ Len(Among(s, S)) =< Len(s)
         /\ Range(Among(s, S)) = Range(s) \cap S
         /\ \A i \in DOMAIN Among(s, S), h \in DOMAIN Among(s, S) : i # h =>
              \E m \in DOMAIN s, n \in DOMAIN s :
                m # n /\ Among(s, S)[i] = s[m] /\ Among(s, S)[h] = s[n]
<1>. DEFINE kept == {n \in DOMAIN s : s[n] \in S}
            k == Kept(s, kept)
            c == Cardinality(kept)
<1>1. Among(s, S) = k
  BY DEF Among
<1>2. kept \subseteq DOMAIN s
  OBVIOUS
<1>3. {s[n] : n \in kept} = Range(s) \cap S
  BY DEF Range
<1>. HIDE DEF kept
<1>4. k \in Seq(Range(k)) /\ Len(k) =< Len(s) /\ DOMAIN k = 1 .. c
  BY <1>2, KeptIs
<1>5. Range(k) = {s[n] : n \in kept}
  BY <1>2, KeptIs
<1>6. \A i \in 1 .. c, h \in 1 .. c :
        i # h => \E m \in kept, n \in kept : m # n /\ k[i] = s[m] /\ k[h] = s[n]
  BY <1>2, KeptIs
<1>. HIDE DEF k, c
<1>7. ASSUME NEW i \in DOMAIN k, NEW h \in DOMAIN k, i # h
      PROVE  \E m \in DOMAIN s, n \in DOMAIN s : m # n /\ k[i] = s[m] /\ k[h] = s[n]
  <2>1. PICK m \in kept, n \in kept : m # n /\ k[i] = s[m] /\ k[h] = s[n]
    BY <1>4, <1>6, <1>7, Zenon
  <2>2. m \in DOMAIN s /\ n \in DOMAIN s
    BY <1>2, Zenon
  <2>. QED
    BY <2>1, <2>2, Zenon
<1>. QED
  BY <1>1, <1>3, <1>4, <1>5, <1>7

\* f has the first element of every key of s.
Firsts(f, s, keys) ==
  /\ f \in Seq(Range(f)) /\ Range(f) \subseteq Range(s) /\ Len(f) =< Len(s)
  /\ \A n \in DOMAIN s : \E m \in DOMAIN s : keys[m] = keys[n] /\ s[m] \in Range(f)
  /\ \A i \in DOMAIN f, h \in DOMAIN f : i # h =>
       \E m \in DOMAIN s, n \in DOMAIN s : f[i] = s[m] /\ f[h] = s[n] /\ keys[m] # keys[n]
  /\ s # <<>> => f # <<>> /\ f[1] = s[1]

LEMMA FirstOfEachIs ==
  ASSUME NEW s, s \in Seq(Range(s)), NEW keys
  PROVE  Firsts(FirstOfEach(s, keys), s, keys)
<1>. DEFINE D == DOMAIN s
            kept == {n \in D : \A m \in 1 .. n - 1 : keys[m] # keys[n]}
            k == Kept(s, kept)
<1>0. FirstOfEach(s, keys) = k
  BY DEF FirstOfEach
<1>1. D = 1 .. Len(s) /\ Len(s) \in Nat /\ D \subseteq Nat \ {0} /\ kept \subseteq D
  BY PlacesOf
<1>2. ASSUME NEW n \in D PROVE \E m \in kept : keys[m] = keys[n]
  <2>. DEFINE S == {m \in D : keys[m] = keys[n]}
  <2>1. S \subseteq Nat /\ S # {}
    BY <1>1
  <2>2. PICK m \in S : \A l \in S : m =< l
    <3>. HIDE DEF S
    <3>. QED
      BY <2>1, LeastNumber
  <2>3. ASSUME NEW l \in 1 .. m - 1 PROVE keys[l] # keys[m]
    <3>1. l \in D /\ ~(m =< l)
      BY <1>1, <2>2
    <3>. QED
      BY <2>2, <3>1
  <2>. QED
    BY <2>2, <2>3
<1>3. ASSUME NEW m \in kept, NEW n \in kept, m # n PROVE keys[m] # keys[n]
  <2>1. m \in Nat \ {0} /\ n \in Nat \ {0}
    BY <1>1
  <2>2. CASE m < n
    BY <2>1, <2>2
  <2>3. CASE n < m
    BY <2>1, <2>3
  <2>. QED
    BY <1>3, <2>1, <2>2, <2>3
<1>4. s # <<>> => 1 \in kept
  <2>1. s # <<>> => Len(s) # 0
    OBVIOUS
  <2>. QED
    BY <1>1, <2>1
<1>. HIDE DEF kept
<1>5. kept \subseteq DOMAIN s
  BY <1>1
<1>6. /\ k \in Seq(Range(k)) /\ Len(k) =< Len(s) /\ DOMAIN k = 1 .. Cardinality(kept)
      /\ Len(k) = Cardinality(kept)
      /\ Range(k) = {s[n] : n \in kept}
      /\ \A i \in 1 .. Cardinality(kept), h \in 1 .. Cardinality(kept) :
           i # h => \E m \in kept, n \in kept : m # n /\ k[i] = s[m] /\ k[h] = s[n]
      /\ 1 \in kept => Cardinality(kept) >= 1 /\ k[1] = s[1]
  BY <1>5, KeptIs
<1>. HIDE DEF k
<1>7. Range(k) \subseteq Range(s)
  BY <1>5, <1>6 DEF Range
<1>8. \A n \in D : \E m \in D : keys[m] = keys[n] /\ s[m] \in Range(k)
  BY <1>1, <1>2, <1>6
<1>9. \A i \in DOMAIN k, h \in DOMAIN k : i # h =>
        \E m \in D, n \in D : k[i] = s[m] /\ k[h] = s[n] /\ keys[m] # keys[n]
  BY <1>1, <1>3, <1>6
<1>10. s # <<>> => k # <<>> /\ k[1] = s[1]
  BY <1>4, <1>6
<1>11. Firsts(k, s, keys)
  BY <1>6, <1>7, <1>8, <1>9, <1>10 DEF Firsts
<1>. QED
  BY <1>0, <1>11

LEMMA TheSmaller ==
  ASSUME NEW m \in Nat, NEW n \in Nat, NEW k, k = IF n < m THEN n ELSE m
  PROVE  k \in Nat /\ k =< n /\ k =< m /\ (k < n => k = m)
OBVIOUS

LEMMA Beginning ==
  ASSUME NEW S, NEW n \in Nat, NEW s \in [1 .. n -> S], NEW m \in 0 .. n
  PROVE  SubSeq(s, 1, m) = [i \in 1 .. m |-> s[i]]
<1>. DEFINE u == SubSeq(s, 1, m)
<1>1. m \in Int /\ \A i \in 1 .. m : s[i] \in S
  OBVIOUS
<1>2. /\ u \in Seq(S) /\ Len(u) = IF 1 =< m THEN m - 1 + 1 ELSE 0
      /\ \A i \in 1 .. m - 1 + 1 : u[i] = s[1 + i - 1]
  BY <1>1, SubSeqProperties, SMT
<1>. HIDE DEF u
<1>3. m - 1 + 1 = m /\ \A i \in 1 .. m : 1 + i - 1 = i
  OBVIOUS
<1>4. u \in Seq(S) /\ Len(u) = m /\ \A i \in 1 .. m : u[i] = s[i]
  BY <1>2, <1>3
<1>5. u = [i \in 1 .. m |-> s[i]]
  BY <1>4
<1>. QED
  BY <1>5 DEF u

LEMMA UpToIs ==
  ASSUME NEW s, s \in Seq(Range(s)), NEW n \in Nat
  PROVE  /\ UpTo(s, n) \in Seq(Range(UpTo(s, n)))
         /\ Range(UpTo(s, n)) \subseteq Range(s)
         /\ Len(UpTo(s, n)) =< n /\ Len(UpTo(s, n)) =< Len(s)
         /\ DOMAIN UpTo(s, n) \subseteq DOMAIN s
         /\ \A i \in DOMAIN UpTo(s, n) : UpTo(s, n)[i] = s[i]
         /\ Len(UpTo(s, n)) < n => UpTo(s, n) = s
<1>. DEFINE N == Len(s)
            m == IF n < N THEN n ELSE N
            u == SubSeq(s, 1, m)
<1>0. UpTo(s, n) = u
  BY DEF UpTo
<1>1. N \in Nat /\ DOMAIN s = 1 .. N /\ s \in [1 .. N -> Range(s)]
  <2>1. N \in Nat /\ DOMAIN s = 1 .. N
    BY PlacesOf
  <2>2. s \in [1 .. N -> Range(s)]
    OBVIOUS
  <2>. QED
    BY <2>1, <2>2
<1>. HIDE DEF N
<1>2. m \in Nat /\ m =< n /\ m =< N /\ (m < n => m = N)
  BY <1>1, TheSmaller, Zenon
<1>. HIDE DEF m
<1>3. m \in 0 .. N
  BY <1>1, <1>2
<1>4. u = [i \in 1 .. m |-> s[i]]
  <2>1. ASSUME NEW S, s \in [1 .. N -> S] PROVE SubSeq(s, 1, m) = [i \in 1 .. m |-> s[i]]
    BY <1>1, <1>3, <2>1, Beginning
  <2>. QED
    BY <1>1, <2>1, Zenon
<1>. HIDE DEF u
<1>5. u \in Seq(Range(u)) /\ Len(u) = m /\ DOMAIN u = 1 .. m
  BY <1>2, <1>4, IsSequence
<1>6. \A i \in 1 .. m : u[i] = s[i] /\ i \in DOMAIN s
  BY <1>1, <1>3, <1>4
<1>7. Range(u) \subseteq Range(s)
  <2>1. Range(u) = {u[i] : i \in 1 .. m} /\ Range(s) = {s[i] : i \in DOMAIN s}
    BY <1>5 DEF Range
  <2>. QED
    BY <1>6, <2>1
<1>8. m = N => u = s
  BY <1>1, <1>4
<1>. QED
  BY <1>0, <1>2, <1>5, <1>6, <1>7, <1>8 DEF N

\* An even step through b numbers ends at b.
LEMMA Steps ==
  ASSUME NEW a \in Nat, NEW b \in Nat, NEW c \in Nat \ {0}, a =< c
  PROVE  (a * b) \div c \in 0 .. b
<1>1. a * b \in Nat /\ c * b \in Nat /\ a * b =< c * b
  OBVIOUS
<1>. DEFINE p == a * b
            q == p \div c
<1>2. p \in Nat
  BY <1>1
<1>. HIDE DEF p
<1>3. q \in Int /\ c * q =< p /\ p < c * q + c
  BY <1>2
<1>. HIDE DEF q
<1>4. p =< c * b
  BY <1>1 DEF p
<1>5. ASSUME q < 0 PROVE FALSE
  <2>1. c * (q + 1) =< 0
    BY <1>3, <1>5
  <2>2. c * (q + 1) = c * q + c
    BY <1>3
  <2>. QED
    BY <1>2, <1>3, <2>1, <2>2
<1>6. ASSUME q > b PROVE FALSE
  <2>1. c * (b + 1) =< c * q
    BY <1>3, <1>6
  <2>2. c * (b + 1) = c * b + c
    OBVIOUS
  <2>. DEFINE x == c * b
              y == c * q
  <2>3. x \in Int /\ y \in Int /\ x + c =< y /\ y =< p /\ p =< x /\ p \in Int /\ c > 0
    BY <1>1, <1>2, <1>3, <1>4, <2>1, <2>2
  <2>. HIDE DEF x, y
  <2>. QED
    BY <2>3
<1>7. q \in 0 .. b
  BY <1>3, <1>5, <1>6
<1>. QED
  BY <1>7 DEF q, p

LEMMA EvenlySpacedIs ==
  ASSUME NEW s, s \in Seq(Range(s)), NEW limit \in Nat
  PROVE  /\ EvenlySpaced(s, limit) \in Seq(Range(EvenlySpaced(s, limit)))
         /\ Range(EvenlySpaced(s, limit)) \subseteq Range(s)
<1>1. Len(s) \in Nat /\ DOMAIN s = 1 .. Len(s)
  BY PlacesOf
<1>2. CASE limit = 0
  <2>1. EvenlySpaced(s, limit) = <<>>
    BY <1>2 DEF EvenlySpaced
  <2>2. Range(<<>>) = {}
    BY DEF Range
  <2>. QED
    BY <2>1, <2>2
<1>3. CASE limit # 0 /\ Len(s) =< limit
  BY <1>3 DEF EvenlySpaced
<1>4. CASE limit = 1 /\ Len(s) > 1
  <2>1. EvenlySpaced(s, limit) = <<s[1]>>
    BY <1>1, <1>4 DEF EvenlySpaced
  <2>2. s[1] \in Range(s)
    BY <1>1, <1>4 DEF Range
  <2>3. Range(<<s[1]>>) = {s[1]}
    BY DEF Range
  <2>. QED
    BY <2>1, <2>2, <2>3
<1>5. CASE limit >= 2 /\ Len(s) > limit
  <2>. DEFINE at(n) == ((n - 1) * (Len(s) - 1)) \div (limit - 1) + 1
              e == [n \in 1 .. limit |-> s[at(n)]]
  <2>1. EvenlySpaced(s, limit) = e
    BY <1>1, <1>5 DEF EvenlySpaced
  <2>2. ASSUME NEW n \in 1 .. limit PROVE at(n) \in DOMAIN s
    <3>1. n - 1 \in Nat /\ Len(s) - 1 \in Nat /\ limit - 1 \in Nat \ {0} /\ n - 1 =< limit - 1
      BY <1>1, <1>5
    <3>2. ((n - 1) * (Len(s) - 1)) \div (limit - 1) \in 0 .. Len(s) - 1
      BY <3>1, Steps
    <3>. QED
      BY <1>1, <3>2
  <2>3. e = [n \in 1 .. limit |-> e[n]] /\ \A n \in 1 .. limit : e[n] = s[at(n)]
    OBVIOUS
  <2>. HIDE DEF e, at
  <2>4. e \in Seq(Range(e)) /\ DOMAIN e = 1 .. limit
    BY <2>3, IsSequence
  <2>5. Range(e) \subseteq Range(s)
    BY <2>2, <2>3, <2>4 DEF Range
  <2>. QED
    BY <2>1, <2>4, <2>5
<1>. QED
  BY <1>1, <1>2, <1>3, <1>4, <1>5

LEMMA InSeq ==
  ASSUME NEW s, NEW T
  PROVE  s \in Seq(T) <=> s \in Seq(Range(s)) /\ Range(s) \subseteq T
<1>1. ASSUME s \in Seq(T) PROVE s \in Seq(Range(s)) /\ Range(s) \subseteq T
  <2>. DEFINE N == Len(s)
  <2>1. N \in Nat /\ DOMAIN s = 1 .. N /\ \A i \in DOMAIN s : s[i] \in T
    BY <1>1
  <2>2. s = [i \in DOMAIN s |-> s[i]]
    BY <1>1
  <2>. HIDE DEF N
  <2>3. s = [i \in 1 .. N |-> s[i]]
    BY <2>1, <2>2, Zenon
  <2>4. s \in Seq(Range(s))
    BY <2>1, <2>3, IsSequence
  <2>5. Range(s) \subseteq T
    BY <2>1, Zenon DEF Range
  <2>. QED
    BY <2>4, <2>5
<1>2. ASSUME s \in Seq(Range(s)), Range(s) \subseteq T PROVE s \in Seq(T)
  BY <1>2
<1>. QED
  BY <1>1, <1>2

LEMMA JoinIs ==
  ASSUME NEW s, s \in Seq(Range(s)), NEW t, t \in Seq(Range(t))
  PROVE  /\ s \o t \in Seq(Range(s \o t)) /\ Len(s \o t) = Len(s) + Len(t)
         /\ Range(s \o t) = Range(s) \cup Range(t)
         /\ \A i \in DOMAIN s : i \in DOMAIN (s \o t) /\ (s \o t)[i] = s[i]
         /\ \A i \in DOMAIN (s \o t) :
              \/ i \in DOMAIN s
              \/ i - Len(s) \in DOMAIN t /\ (s \o t)[i] = t[i - Len(s)]
<1>. DEFINE u == s \o t
<1>1. /\ Len(s) \in Nat /\ DOMAIN s = 1 .. Len(s)
      /\ Len(t) \in Nat /\ DOMAIN t = 1 .. Len(t)
  BY PlacesOf
<1>2. u \in Seq(Range(s) \cup Range(t)) /\ Len(u) = Len(s) + Len(t)
  OBVIOUS
<1>3. /\ \A i \in 1 .. Len(s) : u[i] = s[i]
      /\ \A i \in 1 .. Len(t) : u[i + Len(s)] = t[i]
  OBVIOUS
<1>. HIDE DEF u
<1>4. DOMAIN u = 1 .. Len(s) + Len(t)
  BY <1>2
<1>5. ASSUME NEW i \in DOMAIN u
      PROVE  i \in DOMAIN s \/ (i - Len(s) \in DOMAIN t /\ u[i] = t[i - Len(s)])
  <2>1. CASE i =< Len(s)
    BY <1>1, <1>4, <2>1
  <2>2. CASE i > Len(s)
    <3>1. i - Len(s) \in 1 .. Len(t) /\ (i - Len(s)) + Len(s) = i
      BY <1>1, <1>4, <2>2
    <3>2. u[(i - Len(s)) + Len(s)] = t[i - Len(s)]
      BY <1>3, <3>1
    <3>. QED
      BY <1>1, <3>1, <3>2
  <2>. QED
    BY <1>1, <1>4, <2>1, <2>2
<1>6. Range(u) \subseteq Range(s) \cup Range(t)
  BY <1>1, <1>3, <1>5 DEF Range
<1>7. Range(s) \subseteq Range(u)
  BY <1>1, <1>3, <1>4 DEF Range
<1>8. Range(t) \subseteq Range(u)
  <2>1. \A i \in 1 .. Len(t) : i + Len(s) \in DOMAIN u
    BY <1>1, <1>4
  <2>. QED
    BY <1>1, <1>3, <2>1 DEF Range
<1>9. u \in Seq(Range(u))
  BY <1>2, InSeq, Zenon
<1>10. \A i \in DOMAIN s : i \in DOMAIN u /\ u[i] = s[i]
  BY <1>1, <1>3, <1>4
<1>. QED
  BY <1>2, <1>5, <1>6, <1>7, <1>8, <1>9, <1>10 DEF u

\* A step repeated from a value.
Repeats(g, step, V, a, N) ==
  g \in [0 .. N -> V] /\ g[0] = a /\ \A n \in 1 .. N : g[n] = step[<<g[n - 1], n>>]

LEMMA Repeated ==
  ASSUME NEW N \in Nat, NEW V, NEW a \in V, NEW step, step \in [V \X (1 .. N) -> V]
  PROVE  \E g : Repeats(g, step, V, a, N)
<1>. DEFINE Leads(g, m) ==
              g \in [0 .. m -> V] /\ g[0] = a /\ \A n \in 1 .. m : g[n] = step[<<g[n - 1], n>>]
            Far == {m \in 0 .. N : \E g : Leads(g, m)}
<1>1. 0 \in Far
  <2>1. Leads([n \in {0} |-> a], 0)
    OBVIOUS
  <2>. HIDE DEF Leads
  <2>2. \E g : Leads(g, 0)
    BY <2>1, Zenon
  <2>. QED
    BY <2>2
<1>2. ASSUME NEW m \in Far, m \in 0 .. N - 1 PROVE m + 1 \in Far
  <2>1. PICK g : Leads(g, m)
    OBVIOUS
  <2>. DEFINE h == [n \in 0 .. m + 1 |-> IF n = m + 1 THEN step[<<g[m], n>>] ELSE g[n]]
  <2>2. m \in Nat /\ m + 1 \in 1 .. N /\ g[m] \in V
    BY <1>2, <2>1
  <2>3. step[<<g[m], m + 1>>] \in V
    BY <2>2
  <2>4. h \in [0 .. m + 1 -> V] /\ h[0] = a
    BY <2>1, <2>2, <2>3
  <2>5. ASSUME NEW n \in 1 .. m + 1 PROVE h[n] = step[<<h[n - 1], n>>]
    <3>1. CASE n = m + 1
      <4>1. n - 1 = m /\ h[m] = g[m] /\ h[n] = step[<<g[m], n>>]
        BY <2>2, <3>1
      <4>. QED
        BY <4>1
    <3>2. CASE n # m + 1
      <4>1. n \in 1 .. m /\ n - 1 \in 0 .. m
        BY <2>2, <3>2
      <4>2. h[n] = g[n] /\ h[n - 1] = g[n - 1]
        BY <2>2, <3>2, <4>1
      <4>. QED
        BY <2>1, <4>1, <4>2
    <3>. QED
      BY <3>1, <3>2
  <2>. HIDE DEF h
  <2>6. Leads(h, m + 1)
    BY <2>4, <2>5
  <2>. HIDE DEF Leads
  <2>7. \E f : Leads(f, m + 1)
    BY <2>6, Zenon
  <2>8. m + 1 \in 0 .. N
    BY <1>2
  <2>. QED
    BY <2>7, <2>8
<1>3. N \in Far
  <2>. HIDE DEF Far
  <2>1. \A n \in 0 .. N : n \in Far
    BY <1>1, <1>2, Climbing
  <2>. QED
    BY <2>1
<1>4. PICK g : Leads(g, N)
  BY <1>3
<1>5. Repeats(g, step, V, a, N)
  BY <1>4, Zenon DEF Repeats
<1>. QED
  BY <1>5

\* Sequences of one set joined.
LEMMA FlattenIs ==
  ASSUME NEW T, NEW seqs, seqs \in Seq(Seq(T))
  PROVE  FlattenSeq(seqs) \in Seq(T)
<1>. DEFINE N == Len(seqs)
            V == Seq(T)
            Body(g) == [i \in 1 .. N |-> IF i = 1 THEN seqs[i] ELSE g[i - 1] \o seqs[i]]
            step == [p \in V \X (1 .. N) |-> IF p[2] = 1 THEN seqs[p[2]] ELSE p[1] \o seqs[p[2]]]
<1>1. FlattenSeq(seqs) = IF N = 0 THEN seqs ELSE (CHOOSE g : g = Body(g))[N]
  BY DEF FlattenSeq
<1>2. N \in Nat /\ \A i \in 1 .. N : seqs[i] \in V
  OBVIOUS
<1>3. <<>> \in V /\ \A u \in V, v \in V : u \o v \in V
  OBVIOUS
<1>4. N = 0 => seqs = <<>>
  OBVIOUS
<1>. HIDE DEF N, V
<1>5. step \in [V \X (1 .. N) -> V]
  BY <1>2, <1>3
<1>6. \A v \in V, n \in 1 .. N : step[<<v, n>>] = IF n = 1 THEN seqs[n] ELSE v \o seqs[n]
  OBVIOUS
<1>. HIDE DEF step
<1>7. PICK g \in [0 .. N -> V] :
        g[0] = <<>> /\ \A n \in 1 .. N : g[n] = step[<<g[n - 1], n>>]
  <2>1. N \in Nat /\ <<>> \in V
    BY <1>2, <1>3
  <2>2. PICK g : Repeats(g, step, V, <<>>, N)
    BY <2>1, <1>5, Repeated, Zenon
  <2>. QED
    BY <2>2, Zenon DEF Repeats
<1>. DEFINE f == [n \in 1 .. N |-> g[n]]
<1>8. \A n \in 1 .. N : f[n] \in V /\ f[n] = IF n = 1 THEN seqs[n] ELSE f[n - 1] \o seqs[n]
  <2>. SUFFICES ASSUME NEW n \in 1 .. N
                PROVE  f[n] \in V /\ f[n] = IF n = 1 THEN seqs[n] ELSE f[n - 1] \o seqs[n]
    OBVIOUS
  <2>1. n - 1 \in 0 .. N /\ n \in 0 .. N /\ (n # 1 => n - 1 \in 1 .. N)
    BY <1>2
  <2>2. g[n - 1] \in V /\ g[n] \in V /\ f[n] = g[n] /\ (n # 1 => f[n - 1] = g[n - 1])
    BY <2>1
  <2>3. g[n] = IF n = 1 THEN seqs[n] ELSE g[n - 1] \o seqs[n]
    BY <1>6, <1>7, <2>2, Zenon
  <2>. QED
    BY <2>2, <2>3, Zenon
<1>9. f = [n \in 1 .. N |-> f[n]]
  OBVIOUS
<1>. HIDE DEF f
<1>10. f = Body(f)
  BY <1>8, <1>9
<1>11. ASSUME NEW h, h = Body(h) PROVE N # 0 => h[N] \in V
  <2>. DEFINE S == {n \in 0 .. N : n = 0 \/ h[n] \in V}
  <2>1. \A n \in 1 .. N : h[n] = IF n = 1 THEN seqs[n] ELSE h[n - 1] \o seqs[n]
    BY <1>11
  <2>2. 0 \in S
    BY <1>2
  <2>3. ASSUME NEW n \in S, n \in 0 .. N - 1 PROVE n + 1 \in S
    <3>1. n + 1 \in 1 .. N /\ (n + 1) - 1 = n /\ (n + 1 = 1 <=> n = 0) /\ n + 1 \in 0 .. N
      BY <1>2, <2>3
    <3>2. h[n + 1] = IF n = 0 THEN seqs[n + 1] ELSE h[n] \o seqs[n + 1]
      BY <2>1, <3>1
    <3>3. h[n + 1] \in V
      BY <1>2, <1>3, <3>1, <3>2
    <3>. QED
      BY <3>1, <3>3
  <2>. HIDE DEF S
  <2>4. \A n \in 0 .. N : n \in S
    BY <1>2, <2>2, <2>3, Climbing
  <2>. QED
    BY <1>2, <2>4 DEF S
<1>. HIDE DEF Body
<1>12. (CHOOSE g_1 : g_1 = Body(g_1)) = Body(CHOOSE g_1 : g_1 = Body(g_1))
  BY <1>10, Zenon
<1>13. FlattenSeq(seqs) \in V
  BY <1>1, <1>3, <1>4, <1>11, <1>12
<1>. QED
  BY <1>13 DEF V

LEMMA ReverseIs ==
  ASSUME NEW s, s \in Seq(Range(s))
  PROVE  Reverse(s) \in Seq(Range(Reverse(s))) /\ Range(Reverse(s)) \subseteq Range(s)
<1>. DEFINE N == Len(s)
            r == [i \in 1 .. N |-> s[(N - i) + 1]]
<1>1. N \in Nat /\ DOMAIN s = 1 .. N
  BY PlacesOf
<1>. HIDE DEF N
<1>2. r = [i \in 1 .. N |-> r[i]] /\ \A i \in 1 .. N : r[i] = s[(N - i) + 1]
  OBVIOUS
<1>3. Reverse(s) = r
  BY DEF Reverse, N
<1>. HIDE DEF r
<1>4. r \in Seq(Range(r)) /\ DOMAIN r = 1 .. N
  BY <1>1, <1>2, IsSequence
<1>5. \A i \in 1 .. N : (N - i) + 1 \in DOMAIN s
  BY <1>1
<1>6. Range(r) \subseteq Range(s)
  <2>1. \A n \in DOMAIN s : s[n] \in Range(s)
    BY Zenon DEF Range
  <2>2. \A i \in 1 .. N : r[i] \in Range(s)
    BY <1>2, <1>5, <2>1, Zenon
  <2>3. \A x \in Range(r) : \E i \in 1 .. N : x = r[i]
    BY <1>4, Zenon DEF Range
  <2>. QED
    BY <2>2, <2>3, Zenon
<1>. QED
  BY <1>3, <1>4, <1>6

\* A finite set as a sequence.
LEMMA SetToSeqIs ==
  ASSUME NEW S, IsFiniteSet(S)
  PROVE  SetToSeq(S) \in Seq(Range(SetToSeq(S))) /\ Range(SetToSeq(S)) = S
<1>. DEFINE N == Cardinality(S)
            f == SetToSeq(S)
<1>1. N \in Nat /\ \E g : g \in Bijection(1 .. N, S)
  BY FS_CardinalityType DEF ExistsBijection
<1>. HIDE DEF N
<1>2. PICK g : g \in Bijection(1 .. N, S)
  BY <1>1
<1>3. g \in [1 .. N -> S] /\ IsInjective(g)
  BY <1>2 DEF Bijection, Injection
<1>4. f = CHOOSE h \in [1 .. N -> S] : IsInjective(h)
  BY DEF SetToSeq, N
<1>. HIDE DEF f
<1>5. f \in [1 .. N -> S] /\ IsInjective(f)
  BY <1>3, <1>4, Zenon
<1>6. f \in Injection(1 .. N, S)
  BY <1>5, Zenon DEF Injection
<1>7. IsFiniteSet(1 .. N) /\ Cardinality(1 .. N) = Cardinality(S)
  BY <1>1, OneTo DEF N
<1>8. f \in Surjection(1 .. N, S)
  BY <1>6, <1>7, FS_Injection, Zenon
<1>9. f = [i \in 1 .. N |-> f[i]] /\ \A i \in 1 .. N : f[i] \in S
  BY <1>5
<1>10. f \in Seq(Range(f)) /\ DOMAIN f = 1 .. N
  BY <1>1, <1>9, IsSequence
<1>11. \A x \in S : \E i \in 1 .. N : f[i] = x
  BY <1>8, Zenon DEF Surjection
<1>12. Range(f) = S
  <2>1. Range(f) = {f[i] : i \in 1 .. N}
    BY <1>10 DEF Range
  <2>. QED
    BY <1>9, <1>11, <2>1
<1>. QED
  BY <1>10, <1>12 DEF f

LEMMA ListedIs ==
  ASSUME NEW S, IsFiniteSet(S), NEW keyOf, NEW w \in Nat, \A x \in S : keyOf[x] \in KeySet(w)
  PROVE  Listed(S, keyOf) \in Seq(Range(Listed(S, keyOf))) /\ Range(Listed(S, keyOf)) = S
<1>. DEFINE s == SetToSeq(S)
            keys == [n \in DOMAIN s |-> keyOf[s[n]]]
<1>1. Listed(S, keyOf) = SortedBy(s, keys)
  BY DEF Listed
<1>2. s \in Seq(Range(s)) /\ Range(s) = S
  BY SetToSeqIs
<1>. HIDE DEF s
<1>3. \A n \in DOMAIN s : s[n] \in S
  BY <1>2 DEF Range
<1>4. DOMAIN keys = DOMAIN s /\ \A n \in DOMAIN s : keys[n] \in KeySet(w)
  BY <1>3
<1>. HIDE DEF keys
<1>5. HasKeys(s, keys, w)
  BY <1>2, <1>4 DEF HasKeys
<1>. QED
  BY <1>1, <1>2, <1>5, SortedIs

-----------------------------------------------------------------------------
(* Ranking.  Journeys have times, changes and metres, a configuration has   *)
(* weights and room for a result.                                          *)

IsTimed(j) == j.departure \in Int /\ j.arrival \in Int /\ j.changes \in Int /\ j.walk \in Int
AreTimed(s) == s \in Seq(Range(s)) /\ \A j \in Range(s) : IsTimed(j)

Weighs(conf) ==
  /\ conf.maxResults \in Nat \ {0} /\ conf.arrivalWeight \in Nat
  /\ conf.durationWeight \in Nat /\ conf.transferPenalty \in Nat

\* No two results are the same rides.
Unique(s) == \A i \in DOMAIN s, h \in DOMAIN s : i # h => Identity(s[i]) # Identity(s[h])

LEMMA Five ==
  ASSUME NEW a \in Int, NEW b \in Int, NEW c \in Int, NEW d \in Int, NEW e \in Int
  PROVE  <<a, b, c, d, e>> \in KeySet(5)
BY DEF KeySet

LEMMA RankIsKey ==
  ASSUME NEW j, IsTimed(j), NEW conf, Weighs(conf)
  PROVE  Rank(j, conf) \in KeySet(5) /\ Duration(j) \in Int /\ Score(j, conf) \in Int
<1>1. Duration(j) \in Int
  BY DEF IsTimed, Duration
<1>2. Score(j, conf) \in Int
  <2>. DEFINE a == j.arrival * conf.arrivalWeight
              b == Duration(j) * conf.durationWeight
              c == j.changes * conf.transferPenalty
  <2>1. a \in Int /\ b \in Int /\ c \in Int
    BY <1>1 DEF IsTimed, Weighs
  <2>2. Score(j, conf) = a + b + c
    BY DEF Score
  <2>. HIDE DEF a, b, c
  <2>. QED
    BY <2>1, <2>2
<1>3. j.arrival \in Int /\ j.changes \in Int /\ j.departure \in Int
  BY DEF IsTimed
<1>4. <<Score(j, conf), j.arrival, Duration(j), j.changes, j.departure>> \in KeySet(5)
  BY <1>1, <1>2, <1>3, Five, Zenon
<1>. QED
  BY <1>1, <1>2, <1>4 DEF Rank

LEMMA EachIn ==
  ASSUME NEW s, NEW n \in DOMAIN s
  PROVE  s[n] \in Range(s)
BY DEF Range

LEMMA ByRank ==
  ASSUME NEW s, AreTimed(s), NEW conf, Weighs(conf)
  PROVE  HasKeys(s, Ranks(s, conf), 5)
<1>1. \A n \in DOMAIN s : Rank(s[n], conf) \in KeySet(5)
  BY EachIn, RankIsKey, Zenon DEF AreTimed
<1>. QED
  BY <1>1 DEF HasKeys, Ranks, AreTimed

\* The other keys of journeys.
LEMMA OtherKeys ==
  ASSUME NEW s, AreTimed(s)
  PROVE  /\ HasKeys(s, [n \in DOMAIN s |-> Simplicity(s[n])], 5)
         /\ HasKeys(s, [n \in DOMAIN s |-> ByDeparture(s[n])], 5)
         /\ HasKeys(s, Arrivals(s), 2)
         /\ HasKeys(s, [n \in DOMAIN s |-> <<s[n].arrival, Duration(s[n]), s[n].changes,
                                             s[n].departure>>], 4)
<1>1. ASSUME NEW n \in DOMAIN s
      PROVE  /\ s[n].departure \in Int /\ s[n].arrival \in Int /\ s[n].changes \in Int
             /\ s[n].walk \in Int /\ Duration(s[n]) \in Int
  <2>1. IsTimed(s[n])
    BY EachIn DEF AreTimed
  <2>. QED
    BY <2>1 DEF IsTimed, Duration
<1>2. \A n \in DOMAIN s : Simplicity(s[n]) \in KeySet(5) /\ ByDeparture(s[n]) \in KeySet(5)
  BY <1>1, Five, Zenon DEF Simplicity, ByDeparture
<1>3. \A a \in Int, b \in Int : <<a, b>> \in KeySet(2)
  BY DEF KeySet
<1>4. \A n \in DOMAIN s : ByArrival(s[n]) \in KeySet(2)
  BY <1>1, <1>3, Zenon DEF ByArrival
<1>5. \A a \in Int, b \in Int, c \in Int, d \in Int : <<a, b, c, d>> \in KeySet(4)
  BY DEF KeySet
<1>6. \A n \in DOMAIN s :
        <<s[n].arrival, Duration(s[n]), s[n].changes, s[n].departure>> \in KeySet(4)
  BY <1>1, <1>5, Zenon
<1>7. s \in Seq(Range(s))
  BY DEF AreTimed
<1>. QED
  BY <1>2, <1>4, <1>6, <1>7 DEF HasKeys, Arrivals

\* The first by a key is an element, and none has a smaller key.
LEMMA FirstByIs ==
  ASSUME NEW s, NEW keys, NEW w, HasKeys(s, keys, w), s # <<>>
  PROVE  \E n \in DOMAIN s :
           FirstBy(s, keys) = s[n] /\ \A m \in DOMAIN s : ~Less(keys[m], keys[n])
BY SortedIs DEF FirstBy

LEMMA AmongAreTimed ==
  ASSUME NEW s, AreTimed(s), NEW S
  PROVE  AreTimed(Among(s, S)) /\ Range(Among(s, S)) = Range(s) \cap S
BY AmongIs, Zenon DEF AreTimed

LEMMA SortedAreTimed ==
  ASSUME NEW s, AreTimed(s), NEW conf, Weighs(conf)
  PROVE  /\ AreTimed(SortedBy(s, Ranks(s, conf)))
         /\ Range(SortedBy(s, Ranks(s, conf))) = Range(s)
BY ByRank, SortedIs, Zenon DEF AreTimed

LEMMA BestPerCarrierIs ==
  ASSUME NEW s, AreTimed(s), NEW conf, Weighs(conf)
  PROVE  AreTimed(BestPerCarrier(s, conf)) /\ Range(BestPerCarrier(s, conf)) \subseteq Range(s)
<1>. DEFINE run == Among(s, {j \in Range(s) : CarrierSignature(j) # {}})
            sorted == SortedBy(run, Ranks(run, conf))
            keys == [n \in DOMAIN sorted |-> CarrierSignature(sorted[n])]
<1>1. BestPerCarrier(s, conf) = FirstOfEach(sorted, keys)
  BY DEF BestPerCarrier
<1>2. AreTimed(run) /\ Range(run) \subseteq Range(s)
  BY AmongAreTimed
<1>. HIDE DEF run
<1>3. AreTimed(sorted) /\ Range(sorted) = Range(run)
  BY <1>2, SortedAreTimed
<1>. HIDE DEF sorted, keys
<1>4. /\ FirstOfEach(sorted, keys) \in Seq(Range(FirstOfEach(sorted, keys)))
      /\ Range(FirstOfEach(sorted, keys)) \subseteq Range(sorted)
  BY <1>3, FirstOfEachIs DEF AreTimed, Firsts
<1>. QED
  BY <1>1, <1>2, <1>3, <1>4 DEF AreTimed

LEMMA Joined ==
  ASSUME NEW m \in Nat, NEW n \in Nat, NEW k \in KeySet(m), NEW l \in KeySet(n)
  PROVE  k \o l \in KeySet(m + n)
<1>. DEFINE u == k \o l
<1>1. k \in Seq(Int) /\ Len(k) = m /\ l \in Seq(Int) /\ Len(l) = n
  BY DEF KeySet
<1>2. u \in Seq(Int) /\ Len(u) = Len(k) + Len(l)
  BY <1>1
<1>. HIDE DEF u
<1>3. u \in [1 .. Len(u) -> Int]
  BY <1>2
<1>4. Len(u) = m + n
  BY <1>1, <1>2
<1>. QED
  BY <1>3, <1>4 DEF u, KeySet

LEMMA JoinKeys ==
  ASSUME NEW c \in Int, NEW k \in KeySet(5)
  PROVE  <<c>> \o k \in KeySet(6)
<1>1. <<c>> \in KeySet(1)
  BY DEF KeySet
<1>2. <<c>> \o k \in KeySet(1 + 5)
  BY <1>1, Joined
<1>. QED
  BY <1>2

LEMMA BestPerChangesIs ==
  ASSUME NEW s, AreTimed(s), NEW conf, Weighs(conf)
  PROVE  AreTimed(BestPerChanges(s, conf)) /\ Range(BestPerChanges(s, conf)) \subseteq Range(s)
<1>. DEFINE by == [n \in DOMAIN s |-> <<s[n].changes>> \o Rank(s[n], conf)]
            sorted == SortedBy(s, by)
<1>1. BestPerChanges(s, conf) = FirstOfEach(sorted, Changes(sorted))
  BY DEF BestPerChanges
<1>2. ASSUME NEW n \in DOMAIN s PROVE <<s[n].changes>> \o Rank(s[n], conf) \in KeySet(6)
  <2>1. IsTimed(s[n])
    BY EachIn DEF AreTimed
  <2>2. Rank(s[n], conf) \in KeySet(5) /\ s[n].changes \in Int
    BY <2>1, RankIsKey DEF IsTimed
  <2>3. ASSUME NEW c \in Int, NEW k \in KeySet(5) PROVE <<c>> \o k \in KeySet(6)
    BY JoinKeys
  <2>. QED
    BY <2>2, <2>3
<1>3. HasKeys(s, by, 6)
  BY <1>2 DEF HasKeys, AreTimed
<1>. HIDE DEF by
<1>4. sorted \in Seq(Range(sorted)) /\ Range(sorted) = Range(s)
  BY <1>3, SortedIs
<1>. HIDE DEF sorted
<1>5. /\ FirstOfEach(sorted, Changes(sorted)) \in Seq(Range(FirstOfEach(sorted, Changes(sorted))))
      /\ Range(FirstOfEach(sorted, Changes(sorted))) \subseteq Range(sorted)
  BY <1>4, FirstOfEachIs DEF Firsts
<1>. QED
  BY <1>1, <1>4, <1>5 DEF AreTimed

\* What dominates is not dominated in a circle.
LEMMA DominatesIsOrder ==
  ASSUME NEW j, IsTimed(j), NEW k, IsTimed(k), NEW l, IsTimed(l), NEW conf
  PROVE  /\ ~Dominates(j, j, conf)
         /\ Dominates(j, k, conf) /\ Dominates(k, l, conf) => Dominates(j, l, conf)
<1>1. ~TimeDominates(j, j)
  BY DEF IsTimed, TimeDominates
<1>2. TimeDominates(j, k) /\ TimeDominates(k, l) => TimeDominates(j, l)
  BY DEF IsTimed, TimeDominates, NoWorse
<1>. QED
  BY <1>1, <1>2, Zenon DEF Dominates

LEMMA FiniteRange ==
  ASSUME NEW s, s \in Seq(Range(s))
  PROVE  IsFiniteSet(Range(s)) /\ Cardinality(Range(s)) =< Len(s)
<1>. DEFINE N == Len(s)
            T == Range(s)
<1>1. N \in Nat /\ DOMAIN s = 1 .. N
  BY PlacesOf
<1>. HIDE DEF N
<1>2. s \in [1 .. N -> T] /\ \A x \in T : \E i \in 1 .. N : s[i] = x
  <2>1. s \in [1 .. N -> T]
    <3>1. \A i \in 1 .. N : s[i] \in T
      BY <1>1, Zenon DEF Range
    <3>2. s = [i \in DOMAIN s |-> s[i]]
      OBVIOUS
    <3>. QED
      BY <1>1, <3>1, <3>2, Zenon
  <2>. QED
    BY <1>1, <2>1, Zenon DEF Range
<1>. HIDE DEF T
<1>3. s \in Surjection(1 .. N, T)
  BY <1>2, Zenon DEF Surjection
<1>4. IsFiniteSet(1 .. N) /\ Cardinality(1 .. N) = N
  BY <1>1, OneTo
<1>5. IsFiniteSet(T) /\ Cardinality(T) =< Cardinality(1 .. N)
  BY <1>3, <1>4, FS_Surjection, Zenon
<1>. QED
  BY <1>4, <1>5 DEF T, N

\* What is not on the frontier is dominated by something on it.
LEMMA FrontierDominates ==
  ASSUME NEW s, AreTimed(s), NEW conf
  PROVE  /\ AreTimed(Frontier(s, conf)) /\ Range(Frontier(s, conf)) \subseteq Range(s)
         /\ \A j \in Range(s) : \/ j \in Range(Frontier(s, conf))
                                \/ \E f \in Range(Frontier(s, conf)) : Dominates(f, j, conf)
<1>. DEFINE U == Range(s)
            F == {j \in U : \A other \in U : ~Dominates(other, j, conf)}
            over(j) == {k \in U : Dominates(k, j, conf)}
<1>1. AreTimed(Frontier(s, conf)) /\ Range(Frontier(s, conf)) = F
  <2>1. Frontier(s, conf) = Among(s, F)
    BY DEF Frontier
  <2>2. AreTimed(Among(s, F)) /\ Range(Among(s, F)) = U \cap F
    BY AmongAreTimed
  <2>3. U \cap F = F
    OBVIOUS
  <2>. QED
    BY <2>1, <2>2, <2>3
<1>2. IsFiniteSet(U)
  BY FiniteRange DEF AreTimed
<1>3. \A j \in U : IsTimed(j)
  BY DEF AreTimed
<1>4. ASSUME NEW j \in U, j \notin F PROVE \E f \in F : Dominates(f, j, conf)
  <2>. HIDE DEF U
  <2>. DEFINE S == {Cardinality(over(k)) : k \in over(j)}
  <2>1. \A k \in U : IsFiniteSet(over(k)) /\ Cardinality(over(k)) \in Nat
    <3>. SUFFICES ASSUME NEW k \in U PROVE IsFiniteSet(over(k)) /\ Cardinality(over(k)) \in Nat
      OBVIOUS
    <3>1. over(k) \in SUBSET U
      OBVIOUS
    <3>. HIDE DEF over
    <3>2. IsFiniteSet(over(k))
      BY <1>2, <3>1, FS_Subset
    <3>. QED
      BY <3>2, FS_CardinalityType
  <2>2. over(j) # {}
    BY <1>4
  <2>3. S \subseteq Nat /\ S # {}
    BY <2>1, <2>2
  <2>4. PICK n \in S : \A m \in S : n =< m
    <3>. HIDE DEF S
    <3>. QED
      BY <2>3, LeastNumber
  <2>5. PICK f \in over(j) : Cardinality(over(f)) = n
    OBVIOUS
  <2>6. ASSUME NEW g \in U, Dominates(g, f, conf) PROVE FALSE
    <3>1. g \in over(j)
      BY <1>3, <2>5, <2>6, DominatesIsOrder
    <3>2. over(g) \in SUBSET over(f)
      BY <1>3, <2>6, DominatesIsOrder
    <3>3. g \in over(f) /\ g \notin over(g)
      BY <1>3, <2>6, DominatesIsOrder
    <3>4. Cardinality(over(g)) \in S /\ f \in U
      BY <3>1
    <3>. HIDE DEF over, S
    <3>5. Cardinality(over(g)) =< Cardinality(over(f)) /\ Cardinality(over(g)) # Cardinality(over(f))
      BY <2>1, <3>2, <3>3, <3>4, FS_Subset
    <3>6. n =< Cardinality(over(g)) /\ n = Cardinality(over(f))
      BY <2>4, <2>5, <3>4
    <3>. QED
      BY <2>1, <3>4, <3>5, <3>6
  <2>7. f \in F /\ Dominates(f, j, conf)
    BY <2>5, <2>6
  <2>. QED
    BY <2>7
<1>. QED
  BY <1>1, <1>4

LEMMA RemoveDominatedIs ==
  ASSUME NEW s, AreTimed(s), NEW conf
  PROVE  /\ AreTimed(RemoveDominated(s, conf)) /\ Range(RemoveDominated(s, conf)) \subseteq Range(s)
         /\ \A j \in Range(s) :
              \/ j \in Range(RemoveDominated(s, conf))
              \/ \E f \in Range(RemoveDominated(s, conf)) : Dominates(f, j, conf)
<1>. DEFINE frontier == Range(Frontier(s, conf))
            fewer == Among(s, {j \in Range(s) : \A f \in frontier : j.changes < f.changes})
            each == BestPerChanges(fewer, conf)
            simplest == IF conf.simplest /\ fewer # <<>> THEN {each[1]} ELSE {}
            carriers == IF conf.carriers THEN Range(BestPerCarrier(s, conf)) ELSE {}
            more == IF conf.eachChanges THEN Range(each) ELSE {}
            kept == {Identity(j) : j \in frontier \cup simplest \cup carriers \cup more}
<1>1. /\ RemoveDominated(s, conf) = Among(s, {j \in Range(s) : Identity(j) \in kept})
      /\ \A j \in Range(Frontier(s, conf)) : Identity(j) \in kept
  <2>1. RemoveDominated(s, conf) = Among(s, {j \in Range(s) : Identity(j) \in kept})
    BY Zenon DEF RemoveDominated
  <2>. HIDE DEF simplest, carriers, more
  <2>. QED
    BY <2>1
<1>. HIDE DEF kept
<1>. DEFINE S == {j \in Range(s) : Identity(j) \in kept}
<1>2. AreTimed(Among(s, S)) /\ Range(Among(s, S)) = Range(s) \cap S
  BY AmongAreTimed
<1>3. Range(Frontier(s, conf)) \subseteq Range(s) \cap S
  BY <1>1, FrontierDominates
<1>4. \A j \in Range(s) : \/ j \in Range(Frontier(s, conf))
                          \/ \E f \in Range(Frontier(s, conf)) : Dominates(f, j, conf)
  BY FrontierDominates
<1>. HIDE DEF S
<1>. QED
  BY <1>1, <1>2, <1>3, <1>4 DEF S

\* What ranking chooses from.
Eligible(s, conf) == IF conf.dominance THEN RemoveDominated(s, conf) ELSE s

LEMMA EligibleIs ==
  ASSUME NEW s, AreTimed(s), NEW conf
  PROVE  /\ AreTimed(Eligible(s, conf)) /\ Range(Eligible(s, conf)) \subseteq Range(s)
         /\ \A j \in Range(s) :
              \/ j \in Range(Eligible(s, conf))
              \/ conf.dominance /\ \E f \in Range(Eligible(s, conf)) : Dominates(f, j, conf)
BY RemoveDominatedIs DEF Eligible

LEMMA NewIs ==
  ASSUME NEW selected, NEW offered, offered \in Seq(Range(offered))
  PROVE  /\ New(selected, offered) \in Seq(Range(New(selected, offered)))
         /\ Range(New(selected, offered)) \subseteq Range(offered)
         /\ \A j \in Range(New(selected, offered)) : Identity(j) \notin Keys(selected)
         /\ Unique(New(selected, offered))
         /\ \A j \in Range(offered) : \/ Identity(j) \in Keys(selected)
                                      \/ Identity(j) \in Keys(New(selected, offered))
<1>. DEFINE S == {j \in Range(offered) : Identity(j) \notin Keys(selected)}
            new == Among(offered, S)
            keys == Identities(new)
            first == FirstOfEach(new, keys)
<1>1. New(selected, offered) = first
  BY Zenon DEF New
<1>2. new \in Seq(Range(new)) /\ Range(new) = S
  BY AmongIs
<1>3. \A n \in DOMAIN new : keys[n] = Identity(new[n])
  BY Zenon DEF Identities
<1>. HIDE DEF new, keys
<1>4. /\ first \in Seq(Range(first)) /\ Range(first) \subseteq Range(new)
      /\ \A n \in DOMAIN new : \E m \in DOMAIN new : keys[m] = keys[n] /\ new[m] \in Range(first)
      /\ \A i \in DOMAIN first, h \in DOMAIN first : i # h =>
           \E m \in DOMAIN new, n \in DOMAIN new :
             first[i] = new[m] /\ first[h] = new[n] /\ keys[m] # keys[n]
  <2>1. Firsts(first, new, keys)
    BY <1>2, FirstOfEachIs, Zenon
  <2>. QED
    BY <2>1, Zenon DEF Firsts
<1>. HIDE DEF first
<1>5. Range(first) \subseteq Range(offered) /\ \A j \in Range(first) : Identity(j) \notin Keys(selected)
  BY <1>2, <1>4
<1>6. Unique(first)
  BY <1>3, <1>4 DEF Unique
<1>7. ASSUME NEW j \in Range(offered), Identity(j) \notin Keys(selected)
      PROVE  Identity(j) \in Keys(first)
  <2>1. PICK n \in DOMAIN new : new[n] = j
    BY <1>2, <1>7 DEF Range
  <2>2. PICK m \in DOMAIN new : Identity(new[m]) = Identity(j) /\ new[m] \in Range(first)
    <3>1. PICK m \in DOMAIN new : keys[m] = keys[n] /\ new[m] \in Range(first)
      BY <1>4, <2>1
    <3>2. Identity(new[m]) = Identity(j)
      BY <1>3, <2>1, <3>1
    <3>. QED
      BY <3>1, <3>2
  <2>. QED
    BY <2>2 DEF Keys
<1>. QED
  BY <1>1, <1>4, <1>5, <1>6, <1>7

LEMMA PushIs ==
  ASSUME NEW selected, selected \in Seq(Range(selected)), NEW offered, offered \in Seq(Range(offered)),
         NEW most \in Nat, Len(selected) =< most
  PROVE  /\ Push(selected, offered, most) \in Seq(Range(Push(selected, offered, most)))
         /\ Len(Push(selected, offered, most)) =< most
         /\ Range(selected) \subseteq Range(Push(selected, offered, most))
         /\ Range(Push(selected, offered, most)) \subseteq Range(selected) \cup Range(offered)
         /\ Unique(selected) => Unique(Push(selected, offered, most))
         /\ Len(Push(selected, offered, most)) < most =>
              \A j \in Range(offered) : Identity(j) \in Keys(Push(selected, offered, most))
<1>. DEFINE first == New(selected, offered)
            room == most - Len(selected)
            u == UpTo(first, room)
            p == selected \o u
<1>1. Push(selected, offered, most) = p
  BY Zenon DEF Push
<1>2. Len(selected) \in Nat /\ DOMAIN selected = 1 .. Len(selected)
  BY PlacesOf
<1>3. room \in Nat /\ room + Len(selected) = most
  BY <1>2
<1>. HIDE DEF room
<1>5. /\ first \in Seq(Range(first)) /\ Range(first) \subseteq Range(offered)
      /\ \A j \in Range(first) : Identity(j) \notin Keys(selected)
      /\ Unique(first)
      /\ \A j \in Range(offered) : Identity(j) \in Keys(selected) \/ Identity(j) \in Keys(first)
  BY NewIs
<1>. HIDE DEF first
<1>6. /\ u \in Seq(Range(u)) /\ Range(u) \subseteq Range(first) /\ Len(u) =< room
      /\ DOMAIN u \subseteq DOMAIN first /\ \A i \in DOMAIN u : u[i] = first[i]
      /\ Len(u) < room => u = first
  BY <1>3, <1>5, UpToIs
<1>. HIDE DEF u
<1>7. /\ p \in Seq(Range(p)) /\ Len(p) = Len(selected) + Len(u)
      /\ Range(p) = Range(selected) \cup Range(u)
      /\ \A i \in DOMAIN selected : i \in DOMAIN p /\ p[i] = selected[i]
      /\ \A i \in DOMAIN p : \/ i \in DOMAIN selected
                             \/ i - Len(selected) \in DOMAIN u /\ p[i] = u[i - Len(selected)]
  BY <1>6, JoinIs
<1>8. Len(u) \in Nat /\ DOMAIN u \subseteq Nat
  <2>1. Len(u) \in Nat /\ DOMAIN u = 1 .. Len(u)
    BY <1>6, PlacesOf
  <2>. QED
    BY <2>1
<1>9. DOMAIN p \subseteq Nat
  BY <1>7, PlacesOf
<1>. HIDE DEF p
<1>10. Len(p) =< most
  BY <1>2, <1>3, <1>6, <1>7, <1>8
<1>12. ASSUME Unique(selected) PROVE Unique(p)
  <2>1. \A i \in DOMAIN u, h \in DOMAIN u : i # h => Identity(u[i]) # Identity(u[h])
    BY <1>5, <1>6 DEF Unique
  <2>2. \A i \in DOMAIN u : Identity(u[i]) \notin Keys(selected)
    BY <1>5, <1>6, EachIn
  <2>3. \A i \in DOMAIN selected : Identity(selected[i]) \in Keys(selected)
    BY EachIn DEF Keys
  <2>. SUFFICES ASSUME NEW i \in DOMAIN p, NEW h \in DOMAIN p, i # h
                PROVE  Identity(p[i]) # Identity(p[h])
    BY DEF Unique
  <2>4. CASE i \in DOMAIN selected /\ h \in DOMAIN selected
    BY <1>7, <1>12, <2>4 DEF Unique
  <2>5. CASE i \in DOMAIN selected /\ h \notin DOMAIN selected
    BY <1>7, <2>2, <2>3, <2>5
  <2>6. CASE i \notin DOMAIN selected /\ h \in DOMAIN selected
    BY <1>7, <2>2, <2>3, <2>6
  <2>7. CASE i \notin DOMAIN selected /\ h \notin DOMAIN selected
    <3>1. i - Len(selected) \in DOMAIN u /\ p[i] = u[i - Len(selected)]
      BY <1>7, <2>7
    <3>2. h - Len(selected) \in DOMAIN u /\ p[h] = u[h - Len(selected)]
      BY <1>7, <2>7
    <3>3. i - Len(selected) # h - Len(selected)
      BY <1>2, <1>9
    <3>. QED
      BY <2>1, <3>1, <3>2, <3>3
  <2>. QED
    BY <2>4, <2>5, <2>6, <2>7
<1>13. ASSUME Len(p) < most, NEW j \in Range(offered) PROVE Identity(j) \in Keys(p)
  <2>1. u = first
    BY <1>2, <1>3, <1>6, <1>7, <1>8, <1>13
  <2>. QED
    BY <1>5, <1>7, <2>1 DEF Keys
<1>14. Range(p) \subseteq Range(selected) \cup Range(offered) /\ Range(selected) \subseteq Range(p)
  BY <1>5, <1>6, <1>7
<1>. QED
  BY <1>1, <1>7, <1>10, <1>12, <1>13, <1>14

\* Results that hold elements of C, each once, as many as there is room for.
Picks(s, C, most) ==
  s \in Seq(Range(s)) /\ Range(s) \subseteq C /\ Len(s) =< most /\ Unique(s)

LEMMA PushPicks ==
  ASSUME NEW C, NEW most \in Nat, NEW s, Picks(s, C, most),
         NEW offered, offered \in Seq(Range(offered)), Range(offered) \subseteq C
  PROVE  /\ Picks(Push(s, offered, most), C, most)
         /\ Range(s) \subseteq Range(Push(s, offered, most))
         /\ Len(Push(s, offered, most)) < most =>
              \A j \in Range(offered) : Identity(j) \in Keys(Push(s, offered, most))
<1>1. s \in Seq(Range(s)) /\ Len(s) =< most /\ Unique(s) /\ Range(s) \subseteq C
  BY DEF Picks
<1>2. /\ Push(s, offered, most) \in Seq(Range(Push(s, offered, most)))
      /\ Len(Push(s, offered, most)) =< most
      /\ Range(s) \subseteq Range(Push(s, offered, most))
      /\ Range(Push(s, offered, most)) \subseteq Range(s) \cup Range(offered)
      /\ Unique(Push(s, offered, most))
      /\ Len(Push(s, offered, most)) < most =>
           \A j \in Range(offered) : Identity(j) \in Keys(Push(s, offered, most))
  BY <1>1, PushIs, Zenon
<1>. QED
  BY <1>1, <1>2 DEF Picks

LEMMA SingleIs ==
  ASSUME NEW x
  PROVE  <<x>> \in Seq(Range(<<x>>)) /\ Range(<<x>>) = {x}
BY DEF Range

LEMMA SlotsAre ==
  ASSUME NEW most \in Nat
  PROVE  Slots(most) \in Nat
<1>1. (most + 2) \div 3 \in Nat
  OBVIOUS
<1>. QED
  BY <1>1 DEF Slots

LEMMA BestAndSimplestIs ==
  ASSUME NEW C, AreTimed(C), C # <<>>, NEW conf, Weighs(conf)
  PROVE  /\ Picks(BestAndSimplest(C, conf), Range(C), conf.maxResults)
         /\ C[1] \in Range(BestAndSimplest(C, conf))
<1>. DEFINE most == conf.maxResults
            keys == [n \in DOMAIN C |-> Simplicity(C[n])]
            best == Push(<<>>, <<C[1]>>, most)
            simplest == FirstBy(C, keys)
<1>1. most \in Nat \ {0}
  BY DEF Weighs
<1>2. C[1] \in Range(C)
  <2>1. 1 \in DOMAIN C
    BY DEF AreTimed
  <2>. QED
    BY <2>1, EachIn
<1>3. simplest \in Range(C)
  <2>1. HasKeys(C, keys, 5)
    BY OtherKeys
  <2>. HIDE DEF keys
  <2>2. \E n \in DOMAIN C : simplest = C[n]
    BY <2>1, FirstByIs
  <2>. QED
    BY <2>2, EachIn
<1>4. BestAndSimplest(C, conf) = IF conf.simplest THEN Push(best, <<simplest>>, most) ELSE best
  BY Zenon DEF BestAndSimplest
<1>. HIDE DEF simplest, most
<1>5. Picks(<<>>, Range(C), most)
  <2>1. Range(<<>>) = {} /\ <<>> \in Seq(Range(<<>>)) /\ Len(<<>>) = 0 /\ DOMAIN <<>> = {}
    BY DEF Range
  <2>. QED
    BY <1>1, <2>1 DEF Picks, Unique
<1>6. /\ <<C[1]>> \in Seq(Range(<<C[1]>>)) /\ Range(<<C[1]>>) = {C[1]}
      /\ <<simplest>> \in Seq(Range(<<simplest>>)) /\ Range(<<simplest>>) = {simplest}
  BY SingleIs
<1>7. Picks(best, {C[1]}, most) /\ (Len(best) < most => Identity(C[1]) \in Keys(best))
  <2>1. Picks(<<>>, {C[1]}, most)
    BY <1>5 DEF Picks, Range
  <2>. DEFINE o == <<C[1]>>
  <2>2. o \in Seq(Range(o)) /\ Range(o) = {C[1]}
    BY <1>6
  <2>. HIDE DEF o
  <2>3. /\ Picks(Push(<<>>, o, most), {C[1]}, most)
        /\ Len(Push(<<>>, o, most)) < most =>
             \A j \in Range(o) : Identity(j) \in Keys(Push(<<>>, o, most))
    BY <1>1, <2>1, <2>2, PushPicks
  <2>. QED
    BY <2>2, <2>3 DEF o
<1>8. C[1] \in Range(best)
  <2>1. Range(best) # {}
    <3>1. CASE Len(best) < most
      BY <1>7, <3>1 DEF Keys
    <3>2. CASE ~(Len(best) < most)
      <4>. HIDE DEF best
      <4>1. best \in Seq(Range(best)) /\ Len(best) =< most
        BY <1>7 DEF Picks
      <4>2. Len(best) \in Nat /\ DOMAIN best = 1 .. Len(best)
        BY <4>1, PlacesOf
      <4>3. 1 \in DOMAIN best
        BY <1>1, <3>2, <4>2
      <4>. QED
        BY <4>3, EachIn
    <3>. QED
      BY <3>1, <3>2
  <2>2. Range(best) \subseteq {C[1]}
    BY <1>7 DEF Picks
  <2>. QED
    BY <2>1, <2>2
<1>9. Picks(best, Range(C), most)
  BY <1>2, <1>7, Zenon DEF Picks
<1>. HIDE DEF best
<1>10. /\ Picks(Push(best, <<simplest>>, most), Range(C), most)
       /\ Range(best) \subseteq Range(Push(best, <<simplest>>, most))
  <2>. DEFINE o == <<simplest>>
  <2>1. o \in Seq(Range(o)) /\ Range(o) \subseteq Range(C)
    BY <1>3, <1>6
  <2>. HIDE DEF o
  <2>2. Picks(Push(best, o, most), Range(C), most) /\ Range(best) \subseteq Range(Push(best, o, most))
    BY <1>1, <1>9, <2>1, PushPicks
  <2>. QED
    BY <2>2 DEF o
<1>. HIDE DEF most
<1>. QED
  BY <1>4, <1>8, <1>9, <1>10 DEF most

LEMMA WithChangesIs ==
  ASSUME NEW C, AreTimed(C), NEW conf, Weighs(conf), NEW s, Picks(s, Range(C), conf.maxResults)
  PROVE  /\ Picks(WithChanges(s, C, conf), Range(C), conf.maxResults)
         /\ Range(s) \subseteq Range(WithChanges(s, C, conf))
<1>. DEFINE o == BestPerChanges(C, conf)
            most == conf.maxResults
<1>1. o \in Seq(Range(o)) /\ Range(o) \subseteq Range(C)
  BY BestPerChangesIs DEF AreTimed
<1>2. most \in Nat
  BY DEF Weighs
<1>. HIDE DEF o, most
<1>3. Picks(s, Range(C), most)
  BY DEF most
<1>4. Picks(Push(s, o, most), Range(C), most) /\ Range(s) \subseteq Range(Push(s, o, most))
  BY <1>1, <1>2, <1>3, PushPicks
<1>5. WithChanges(s, C, conf) = IF conf.eachChanges THEN Push(s, o, most) ELSE s
  BY Zenon DEF WithChanges, o, most
<1>. QED
  BY <1>3, <1>4, <1>5 DEF most

LEMMA WithCarriersIs ==
  ASSUME NEW C, AreTimed(C), NEW conf, Weighs(conf), NEW s, Picks(s, Range(C), conf.maxResults)
  PROVE  /\ Picks(WithCarriers(s, C, conf), Range(C), conf.maxResults)
         /\ Range(s) \subseteq Range(WithCarriers(s, C, conf))
<1>. DEFINE b == BestPerCarrier(C, conf)
            n == Slots(conf.maxResults)
            o == UpTo(b, n)
            most == conf.maxResults
<1>1. b \in Seq(Range(b)) /\ Range(b) \subseteq Range(C)
  BY BestPerCarrierIs DEF AreTimed
<1>2. most \in Nat
  BY DEF Weighs
<1>3. n \in Nat
  BY <1>2, SlotsAre
<1>4. WithCarriers(s, C, conf) = IF conf.carriers THEN Push(s, o, most) ELSE s
  BY Zenon DEF WithCarriers
<1>. HIDE DEF b, n, most
<1>5. o \in Seq(Range(o)) /\ Range(o) \subseteq Range(C)
  BY <1>1, <1>3, UpToIs
<1>. HIDE DEF o
<1>6. Picks(s, Range(C), most)
  BY DEF most
<1>7. Picks(Push(s, o, most), Range(C), most) /\ Range(s) \subseteq Range(Push(s, o, most))
  BY <1>2, <1>5, <1>6, PushPicks
<1>. QED
  BY <1>4, <1>6, <1>7 DEF most

LEMMA OtherLinesAre ==
  ASSUME NEW C, AreTimed(C), NEW conf, Weighs(conf), NEW s
  PROVE  /\ OtherLines(s, C, conf) \in Seq(Range(OtherLines(s, C, conf)))
         /\ Range(OtherLines(s, C, conf)) \subseteq Range(C)
<1>. DEFINE best == FirstBy(C, Arrivals(C))
            N == {j \in Range(C) : RouteSignature(j) = RouteSignature(best) \/ IsReasonable(j, best)}
            near == Among(C, N)
            ranked == SortedBy(near, Ranks(near, conf))
            keys == Signatures(ranked)
            lines == FirstOfEach(ranked, keys)
            shown == {RouteSignature(j) : j \in Range(s)}
            L == {j \in Range(lines) : RouteSignature(j) \notin shown}
<1>1. OtherLines(s, C, conf) = Among(lines, L)
  BY Zenon DEF OtherLines
<1>. HIDE DEF N, L
<1>2. AreTimed(near) /\ Range(near) \subseteq Range(C)
  BY AmongAreTimed
<1>. HIDE DEF near
<1>3. AreTimed(ranked) /\ Range(ranked) = Range(near)
  BY <1>2, SortedAreTimed
<1>. HIDE DEF ranked, keys
<1>4. Firsts(lines, ranked, keys)
  BY <1>3, FirstOfEachIs DEF AreTimed
<1>. HIDE DEF lines
<1>5. lines \in Seq(Range(lines)) /\ Range(lines) \subseteq Range(ranked)
  BY <1>4 DEF Firsts
<1>6. Among(lines, L) \in Seq(Range(Among(lines, L))) /\ Range(Among(lines, L)) = Range(lines) \cap L
  BY <1>5, AmongIs
<1>. QED
  BY <1>1, <1>2, <1>3, <1>5, <1>6

LEMMA WithOtherLinesIs ==
  ASSUME NEW C, AreTimed(C), NEW conf, Weighs(conf), NEW s, Picks(s, Range(C), conf.maxResults)
  PROVE  /\ Picks(WithOtherLines(s, C, conf), Range(C), conf.maxResults)
         /\ Range(s) \subseteq Range(WithOtherLines(s, C, conf))
<1>. DEFINE b == OtherLines(s, C, conf)
            n == Slots(conf.maxResults)
            o == UpTo(b, n)
            most == conf.maxResults
<1>1. b \in Seq(Range(b)) /\ Range(b) \subseteq Range(C)
  BY OtherLinesAre
<1>2. most \in Nat
  BY DEF Weighs
<1>3. n \in Nat
  BY <1>2, SlotsAre
<1>4. WithOtherLines(s, C, conf)
        = IF conf.simplest \/ conf.eachChanges THEN Push(s, o, most) ELSE s
  BY Zenon DEF WithOtherLines
<1>. HIDE DEF b, n, most
<1>5. o \in Seq(Range(o)) /\ Range(o) \subseteq Range(C)
  BY <1>1, <1>3, UpToIs
<1>. HIDE DEF o
<1>6. Picks(s, Range(C), most)
  BY DEF most
<1>7. Picks(Push(s, o, most), Range(C), most) /\ Range(s) \subseteq Range(Push(s, o, most))
  BY <1>2, <1>5, <1>6, PushPicks
<1>. QED
  BY <1>4, <1>6, <1>7 DEF most

LEMMA SampleIs ==
  ASSUME NEW C, AreTimed(C), NEW conf, Weighs(conf), NEW s, Picks(s, Range(C), conf.maxResults)
  PROVE  /\ Sample(s, C, conf) \in Seq(Range(Sample(s, C, conf)))
         /\ Range(Sample(s, C, conf)) \subseteq Range(C)
<1>. DEFINE undominated == Frontier(C, conf)
            keys == [n \in DOMAIN undominated |-> ByDeparture(undominated[n])]
            frontier == SortedBy(undominated, keys)
            R == {n \in DOMAIN frontier : Identity(frontier[n]) \in Keys(s)}
            reserved == Cardinality(R)
            room == conf.maxResults - Len(s)
            spaced == EvenlySpaced(frontier, room + reserved)
            S == {j \in Range(spaced) : Identity(j) \notin Keys(s)}
            new == Among(spaced, S)
<1>1. Sample(s, C, conf) = EvenlySpaced(new, room)
  BY Zenon DEF Sample
<1>2. AreTimed(undominated) /\ Range(undominated) \subseteq Range(C)
  BY FrontierDominates
<1>. HIDE DEF undominated
<1>3. HasKeys(undominated, keys, 5)
  BY <1>2, OtherKeys
<1>. HIDE DEF keys
<1>4. frontier \in Seq(Range(frontier)) /\ Range(frontier) = Range(undominated)
  BY <1>3, SortedIs
<1>. HIDE DEF frontier
<1>5. reserved \in Nat
  <2>1. R \subseteq DOMAIN frontier
    OBVIOUS
  <2>. HIDE DEF R
  <2>. QED
    BY <1>4, <2>1, PlacesOf
<1>6. room \in Nat
  <2>1. Len(s) \in Nat /\ Len(s) =< conf.maxResults
    BY PlacesOf DEF Picks
  <2>. QED
    BY <2>1 DEF Weighs
<1>7. room + reserved \in Nat
  BY <1>5, <1>6
<1>. HIDE DEF room, reserved
<1>8. spaced \in Seq(Range(spaced)) /\ Range(spaced) \subseteq Range(frontier)
  BY <1>4, <1>7, EvenlySpacedIs
<1>. HIDE DEF spaced, S
<1>9. new \in Seq(Range(new)) /\ Range(new) = Range(spaced) \cap S
  BY <1>8, AmongIs
<1>. HIDE DEF new
<1>10. /\ EvenlySpaced(new, room) \in Seq(Range(EvenlySpaced(new, room)))
       /\ Range(EvenlySpaced(new, room)) \subseteq Range(new)
  BY <1>6, <1>9, EvenlySpacedIs
<1>. QED
  BY <1>1, <1>2, <1>4, <1>8, <1>9, <1>10

\* The selection has the best candidate, each ride once, no more than there is room for, and
\* while there is room all of them; the first has no smaller rank behind it.
LEMMA SelectedIs ==
  ASSUME NEW C, AreTimed(C), C # <<>>, NEW conf, Weighs(conf)
  PROVE  /\ Picks(Selected(C, conf), Range(C), conf.maxResults)
         /\ C[1] \in Range(Selected(C, conf))
         /\ Len(Selected(C, conf)) < conf.maxResults =>
              \A j \in Range(C) : Identity(j) \in Keys(Selected(C, conf))
         /\ Selected(C, conf) # <<>>
         /\ \A j \in Range(Selected(C, conf)) :
              ~Less(Rank(j, conf), Rank(Selected(C, conf)[1], conf))
<1>. DEFINE most == conf.maxResults
            best == BestAndSimplest(C, conf)
            perChanges == WithChanges(best, C, conf)
            perCarrier == WithCarriers(perChanges, C, conf)
            perLine == WithOtherLines(perCarrier, C, conf)
            sample == Sample(perLine, C, conf)
            sampled == Push(perLine, sample, most)
            all == Push(sampled, C, most)
            keys == Ranks(all, conf)
            r == SortedBy(all, keys)
<1>0. Selected(C, conf) = r
  BY Zenon DEF Selected
<1>1. most \in Nat
  BY DEF Weighs
<1>2. Picks(best, Range(C), most) /\ C[1] \in Range(best)
  BY BestAndSimplestIs
<1>. HIDE DEF best
<1>3. Picks(perChanges, Range(C), most) /\ C[1] \in Range(perChanges)
  BY <1>2, WithChangesIs
<1>. HIDE DEF perChanges
<1>4. Picks(perCarrier, Range(C), most) /\ C[1] \in Range(perCarrier)
  BY <1>3, WithCarriersIs
<1>. HIDE DEF perCarrier
<1>5. Picks(perLine, Range(C), most) /\ C[1] \in Range(perLine)
  BY <1>4, WithOtherLinesIs
<1>. HIDE DEF perLine
<1>6. sample \in Seq(Range(sample)) /\ Range(sample) \subseteq Range(C)
  BY <1>5, SampleIs
<1>. HIDE DEF sample
<1>7. Picks(sampled, Range(C), most) /\ C[1] \in Range(sampled)
  <2>. HIDE DEF most
  <2>. QED
    BY <1>1, <1>5, <1>6, PushPicks
<1>. HIDE DEF sampled
<1>8. /\ Picks(all, Range(C), most) /\ C[1] \in Range(all)
      /\ Len(all) < most => \A j \in Range(C) : Identity(j) \in Keys(all)
  <2>1. C \in Seq(Range(C)) /\ Range(C) \subseteq Range(C)
    BY DEF AreTimed
  <2>. HIDE DEF most
  <2>2. /\ Picks(all, Range(C), most) /\ Range(sampled) \subseteq Range(all)
        /\ Len(all) < most => \A j \in Range(C) : Identity(j) \in Keys(all)
    BY <1>1, <1>7, <2>1, PushPicks, Zenon
  <2>. QED
    BY <1>7, <2>2
<1>. HIDE DEF all
<1>9. AreTimed(all)
  BY <1>8 DEF Picks, AreTimed
<1>10. HasKeys(all, keys, 5) /\ \A n \in DOMAIN all : keys[n] = Rank(all[n], conf)
  BY <1>9, ByRank DEF Ranks
<1>. HIDE DEF keys
<1>11. all # <<>>
  BY <1>8 DEF Range
<1>12. /\ r \in Seq(Range(r)) /\ Len(r) = Len(all) /\ DOMAIN r = DOMAIN all /\ Range(r) = Range(all)
       /\ \A i \in DOMAIN all, h \in DOMAIN all : i < h =>
            \E m \in DOMAIN all, n \in DOMAIN all :
              m # n /\ r[i] = all[m] /\ r[h] = all[n] /\ ~Less(keys[n], keys[m])
       /\ \E n \in DOMAIN all : r[1] = all[n] /\ \A m \in DOMAIN all : ~Less(keys[m], keys[n])
  BY <1>10, <1>11, SortedIs
<1>. HIDE DEF r
<1>13. Unique(r)
  <2>. SUFFICES ASSUME NEW i \in DOMAIN r, NEW h \in DOMAIN r, i # h
                PROVE  Identity(r[i]) # Identity(r[h])
    BY DEF Unique
  <2>1. i \in Nat /\ h \in Nat
    BY <1>12, PlacesOf
  <2>2. \A m \in DOMAIN all, n \in DOMAIN all : m # n => Identity(all[m]) # Identity(all[n])
    BY <1>8 DEF Picks, Unique
  <2>3. CASE i < h
    BY <1>12, <2>2, <2>3
  <2>4. CASE h < i
    BY <1>12, <2>2, <2>4
  <2>. QED
    BY <2>1, <2>3, <2>4
<1>14. Picks(r, Range(C), most)
  BY <1>8, <1>12, <1>13 DEF Picks
<1>15. r # <<>>
  BY <1>8, <1>12 DEF Range
<1>16. \A j \in Range(r) : ~Less(Rank(j, conf), Rank(r[1], conf))
  <2>1. PICK n \in DOMAIN all : r[1] = all[n] /\ \A m \in DOMAIN all : ~Less(keys[m], keys[n])
    BY <1>12
  <2>2. \A m \in DOMAIN all : ~Less(Rank(all[m], conf), Rank(r[1], conf))
    BY <1>10, <2>1
  <2>3. \A j \in Range(r) : \E m \in DOMAIN all : j = all[m]
    BY <1>12, Zenon DEF Range
  <2>. QED
    BY <2>2, <2>3, Zenon
<1>17. Keys(r) = Keys(all)
  BY <1>12, Zenon DEF Keys
<1>. QED
  BY <1>0, <1>8, <1>12, <1>14, <1>15, <1>16, <1>17

LEMMA NotLessIsTransitive ==
  ASSUME NEW w \in Nat, NEW k \in KeySet(w), NEW l \in KeySet(w), NEW m \in KeySet(w),
         ~Less(k, l), ~Less(l, m)
  PROVE  ~Less(k, m)
<1>1. Less(l, k) \/ k = l
  BY LessIsOrder
<1>2. Less(m, l) \/ l = m
  BY LessIsOrder
<1>3. Less(m, l) /\ Less(l, k) => Less(m, k)
  BY LessIsOrder
<1>4. Less(m, k) \/ m = k
  BY <1>1, <1>2, <1>3, Zenon
<1>5. ~(Less(k, m) /\ Less(m, k)) /\ ~Less(k, k)
  BY LessIsOrder
<1>. QED
  BY <1>4, <1>5, Zenon

LEMMA CandidatesAre ==
  ASSUME NEW s, AreTimed(s), NEW conf, Weighs(conf)
  PROVE  /\ AreTimed(Candidates(s, conf))
         /\ Range(Candidates(s, conf)) \subseteq Range(Eligible(s, conf))
         /\ \A j \in Range(Eligible(s, conf)) : Identity(j) \in Keys(Candidates(s, conf))
         /\ Range(Eligible(s, conf)) # {} =>
              /\ Candidates(s, conf) # <<>>
              /\ \A j \in Range(Eligible(s, conf)) :
                   ~Less(Rank(j, conf), Rank(Candidates(s, conf)[1], conf))
<1>. DEFINE kept == Eligible(s, conf)
            by == Ranks(kept, conf)
            sorted == SortedBy(kept, by)
            keys == Identities(sorted)
            c == FirstOfEach(sorted, keys)
<1>1. Candidates(s, conf) = c
  BY Zenon DEF Candidates, Eligible
<1>2. AreTimed(kept)
  BY EligibleIs
<1>. HIDE DEF kept
<1>3. HasKeys(kept, by, 5) /\ \A n \in DOMAIN kept : by[n] = Rank(kept[n], conf)
  BY <1>2, ByRank DEF Ranks
<1>. HIDE DEF by
<1>4. /\ sorted \in Seq(Range(sorted)) /\ Range(sorted) = Range(kept)
      /\ kept # <<>> => \E n \in DOMAIN kept :
           sorted[1] = kept[n] /\ \A m \in DOMAIN kept : ~Less(by[m], by[n])
  BY <1>3, SortedIs
<1>5. \A n \in DOMAIN sorted : keys[n] = Identity(sorted[n])
  BY Zenon DEF Identities
<1>. HIDE DEF sorted, keys
<1>6. Firsts(c, sorted, keys)
  BY <1>4, FirstOfEachIs
<1>. HIDE DEF c
<1>7. AreTimed(c) /\ Range(c) \subseteq Range(kept)
  BY <1>2, <1>4, <1>6 DEF Firsts, AreTimed
<1>8. ASSUME NEW j \in Range(kept) PROVE Identity(j) \in Keys(c)
  <2>1. PICK n \in DOMAIN sorted : sorted[n] = j
    BY <1>4, <1>8 DEF Range
  <2>2. PICK m \in DOMAIN sorted : keys[m] = keys[n] /\ sorted[m] \in Range(c)
    BY <1>6, <2>1 DEF Firsts
  <2>3. Identity(sorted[m]) = Identity(j)
    BY <1>5, <2>1, <2>2
  <2>. QED
    BY <2>2, <2>3 DEF Keys
<1>9. ASSUME Range(kept) # {}
      PROVE  c # <<>> /\ \A j \in Range(kept) : ~Less(Rank(j, conf), Rank(c[1], conf))
  <2>1. kept # <<>> /\ sorted # <<>>
    BY <1>4, <1>9 DEF Range
  <2>2. c # <<>> /\ c[1] = sorted[1]
    BY <1>6, <2>1 DEF Firsts
  <2>3. PICK n \in DOMAIN kept : sorted[1] = kept[n] /\ \A m \in DOMAIN kept : ~Less(by[m], by[n])
    BY <1>4, <2>1
  <2>4. \A m \in DOMAIN kept : ~Less(Rank(kept[m], conf), Rank(c[1], conf))
    BY <1>3, <2>2, <2>3
  <2>. QED
    BY <2>2, <2>4 DEF Range
<1>. QED
  BY <1>1, <1>7, <1>8, <1>9 DEF kept

\* What the ranked results of a sequence are.
LEMMA RankedIs ==
  ASSUME NEW s, AreTimed(s), NEW conf, Weighs(conf)
  PROVE  /\ Picks(Ranked(s, conf), Range(Eligible(s, conf)), conf.maxResults)
         /\ Len(Ranked(s, conf)) < conf.maxResults =>
              \A j \in Range(Eligible(s, conf)) : Identity(j) \in Keys(Ranked(s, conf))
         /\ Range(Eligible(s, conf)) # {} =>
              /\ Ranked(s, conf) # <<>>
              /\ \A j \in Range(Eligible(s, conf)) :
                   ~Less(Rank(j, conf), Rank(Ranked(s, conf)[1], conf))
<1>. DEFINE C == Candidates(s, conf)
            E == Range(Eligible(s, conf))
            r == Selected(C, conf)
<1>1. Ranked(s, conf) = IF C = <<>> THEN <<>> ELSE r
  BY Zenon DEF Ranked
<1>2. /\ AreTimed(C) /\ Range(C) \subseteq E /\ \A j \in E : Identity(j) \in Keys(C)
      /\ E # {} => C # <<>> /\ \A j \in E : ~Less(Rank(j, conf), Rank(C[1], conf))
  BY CandidatesAre
<1>3. \A j \in E : IsTimed(j)
  BY EligibleIs DEF AreTimed
<1>. HIDE DEF C, E
<1>4. CASE C = <<>>
  <2>1. Range(<<>>) = {} /\ <<>> \in Seq(Range(<<>>)) /\ Len(<<>>) = 0 /\ DOMAIN <<>> = {}
    BY DEF Range
  <2>2. E = {}
    BY <1>2, <1>4
  <2>3. Picks(<<>>, E, conf.maxResults)
    BY <2>1 DEF Picks, Unique, Weighs
  <2>. QED
    BY <1>1, <1>4, <2>2, <2>3 DEF E
<1>5. CASE C # <<>>
  <2>1. /\ Picks(r, Range(C), conf.maxResults) /\ C[1] \in Range(r)
        /\ Len(r) < conf.maxResults => \A j \in Range(C) : Identity(j) \in Keys(r)
        /\ r # <<>> /\ \A j \in Range(r) : ~Less(Rank(j, conf), Rank(r[1], conf))
    BY <1>2, <1>5, SelectedIs
  <2>. HIDE DEF r
  <2>2. Picks(r, E, conf.maxResults)
    BY <1>2, <2>1, Zenon DEF Picks
  <2>3. Len(r) < conf.maxResults => \A j \in E : Identity(j) \in Keys(r)
    BY <1>2, <2>1 DEF Keys
  <2>4. ASSUME NEW j \in E PROVE ~Less(Rank(j, conf), Rank(r[1], conf))
    <3>1. ~Less(Rank(j, conf), Rank(C[1], conf)) /\ ~Less(Rank(C[1], conf), Rank(r[1], conf))
      BY <1>2, <2>1
    <3>2. r[1] \in E
      <4>1. 1 \in DOMAIN r /\ Range(r) \subseteq E
        BY <2>1, <2>2 DEF Picks
      <4>. QED
        BY <4>1, EachIn
    <3>3. C[1] \in E
      <4>1. 1 \in DOMAIN C
        BY <1>2, <1>5 DEF AreTimed
      <4>. QED
        BY <1>2, <4>1, EachIn
    <3>4. /\ Rank(j, conf) \in KeySet(5) /\ Rank(C[1], conf) \in KeySet(5)
          /\ Rank(r[1], conf) \in KeySet(5)
      BY <1>3, <3>2, <3>3, RankIsKey
    <3>. QED
      BY <3>1, <3>4, NotLessIsTransitive
  <2>. QED
    BY <1>1, <1>5, <2>1, <2>2, <2>3, <2>4 DEF E
<1>. QED
  BY <1>4, <1>5

LEMMA UniqueIsLong ==
  ASSUME NEW s, s \in Seq(Range(s)), Unique(s)
  PROVE  IsFiniteSet(Range(s)) /\ Cardinality(Range(s)) = Len(s) /\ Len(s) \in Nat
<1>. DEFINE N == Len(s)
            T == Range(s)
<1>1. N \in Nat /\ DOMAIN s = 1 .. N
  BY PlacesOf
<1>. HIDE DEF N
<1>2. \A i \in 1 .. N, h \in 1 .. N : s[i] = s[h] => i = h
  BY <1>1 DEF Unique
<1>3. /\ \A i \in 1 .. N : s[i] \in T
      /\ \A x \in T : \E i \in 1 .. N : s[i] = x
  BY <1>1, Zenon DEF Range
<1>. HIDE DEF T
<1>4. s = [i \in 1 .. N |-> s[i]]
  <2>1. s = [i \in DOMAIN s |-> s[i]]
    OBVIOUS
  <2>. QED
    BY <1>1, <2>1, Zenon
<1>5. s \in [1 .. N -> T]
  BY <1>3, <1>4, Zenon
<1>6. s \in Bijection(1 .. N, T)
  <2>1. s \in Surjection(1 .. N, T)
    BY <1>3, <1>5, Zenon DEF Surjection
  <2>2. s \in Injection(1 .. N, T)
    BY <1>1, <1>2, <1>5, Zenon DEF Injection, IsInjective
  <2>. QED
    BY <2>1, <2>2 DEF Bijection
<1>7. IsFiniteSet(1 .. N) /\ Cardinality(1 .. N) = N
  BY <1>1, OneTo
<1>8. IsFiniteSet(T) /\ Cardinality(T) = Cardinality(1 .. N)
  <2>1. ExistsBijection(1 .. N, T)
    BY <1>6, Zenon DEF ExistsBijection
  <2>. QED
    BY <1>7, <2>1, FS_Bijection, Zenon
<1>. QED
  BY <1>1, <1>7, <1>8 DEF T, N

\* With room for all of them and nothing removed, ranking keeps every journey.
LEMMA RankedWhole ==
  ASSUME NEW s, AreTimed(s), Unique(s), NEW conf, Weighs(conf), ~conf.dominance,
         Len(s) =< conf.maxResults
  PROVE  Range(Ranked(s, conf)) = Range(s)
<1>. DEFINE r == Ranked(s, conf)
            most == conf.maxResults
<1>1. Eligible(s, conf) = s
  BY DEF Eligible
<1>2. /\ r \in Seq(Range(r)) /\ Range(r) \subseteq Range(s) /\ Len(r) =< most /\ Unique(r)
      /\ Len(r) < most => \A j \in Range(s) : Identity(j) \in Keys(r)
  BY <1>1, RankedIs DEF Picks
<1>3. s \in Seq(Range(s))
  BY DEF AreTimed
<1>. HIDE DEF r
<1>4. CASE Len(r) < most
  <2>1. ASSUME NEW j \in Range(s) PROVE j \in Range(r)
    <3>1. PICK k \in Range(r) : Identity(j) = Identity(k)
      BY <1>2, <1>4 DEF Keys
    <3>2. PICK m \in DOMAIN s, n \in DOMAIN s : s[m] = j /\ s[n] = k
      BY <1>2 DEF Range
    <3>3. m = n
      BY <3>1, <3>2 DEF Unique
    <3>. QED
      BY <3>1, <3>2, <3>3
  <2>. QED
    BY <1>2, <2>1, Zenon DEF r
<1>5. CASE ~(Len(r) < most)
  <2>1. Range(r) \in SUBSET Range(s)
    BY <1>2
  <2>2. Cardinality(Range(r)) = Len(r) /\ Len(r) \in Nat
    BY <1>2, UniqueIsLong
  <2>3. IsFiniteSet(Range(s)) /\ Cardinality(Range(s)) = Len(s) /\ Len(s) \in Nat
    BY <1>3, UniqueIsLong
  <2>4. Cardinality(Range(r)) =< Cardinality(Range(s))
    BY <2>1, <2>3, FS_Subset
  <2>5. most \in Nat
    BY DEF Weighs
  <2>. HIDE DEF most
  <2>6. Len(s) =< most
    BY DEF most
  <2>7. Cardinality(Range(s)) = Cardinality(Range(r))
    BY <1>5, <2>2, <2>3, <2>4, <2>5, <2>6
  <2>. QED
    BY <2>1, <2>3, <2>7, FS_Subset DEF r
<1>. QED
  BY <1>4, <1>5 DEF r

-----------------------------------------------------------------------------
(* Journeys of a search.                                                   *)

IsJourney(j) ==
  /\ j \in [legs : {j.legs}, departure : Int, arrival : Int, changes : Int, walk : Int]
  /\ j.legs \in Seq(Range(j.legs)) /\ \A leg \in Range(j.legs) : IsLeg(leg)

AreJourneys(s) == s \in Seq(Range(s)) /\ \A j \in Range(s) : IsJourney(j)

LEMMA JourneysAreTimed ==
  ASSUME NEW s, AreJourneys(s)
  PROVE  AreTimed(s)
BY DEF AreJourneys, AreTimed, IsJourney, IsTimed

LEMMA PriorityIsKey ==
  ASSUME NEW j, IsJourney(j)
  PROVE  FeedPriority(j) \in KeySet(1)
<1>. DEFINE N == Len(j.legs)
            w == [n \in 1 .. N |-> PriorityOf[j.legs[n].line]]
            Body(g) == [n \in 0 .. N |-> IF n = 0 THEN 0 ELSE g[n - 1] + w[n]]
            Sum(g) == [n \in 0 .. N |-> IF n = 0 THEN 0
                                        ELSE g[n - 1] + PriorityOf[j.legs[n].line]]
            step == [p \in Int \X (1 .. N) |-> p[1] + w[p[2]]]
<1>1. FeedPriority(j) = <<(CHOOSE g : g = Sum(g))[N]>>
  BY Zenon DEF FeedPriority
<1>2. N \in Nat /\ DOMAIN j.legs = 1 .. N
  BY PlacesOf DEF IsJourney
<1>. HIDE DEF N
<1>3. ASSUME NEW n \in 1 .. N PROVE w[n] = PriorityOf[j.legs[n].line] /\ w[n] \in Int
  <2>1. IsLeg(j.legs[n])
    BY <1>2, EachIn DEF IsJourney
  <2>2. j.legs[n].line \in DOMAIN PublicOf
    BY <2>1 DEF IsLeg
  <2>. QED
    BY <2>2, NamesAssumption
<1>4. \A g : Sum(g) = Body(g)
  <2>1. \A n \in 0 .. N : n = 0 \/ n \in 1 .. N
    BY <1>2
  <2>. QED
    BY <1>3, <2>1
<1>. HIDE DEF w
<1>5. step \in [Int \X (1 .. N) -> Int] /\ \A a \in Int, n \in 1 .. N : step[<<a, n>>] = a + w[n]
  BY <1>3
<1>. HIDE DEF step
<1>6. PICK g : Repeats(g, step, Int, 0, N)
  <2>1. 0 \in Int
    OBVIOUS
  <2>. QED
    BY <1>2, <1>5, <2>1, Repeated, Zenon
<1>7. g \in [0 .. N -> Int] /\ g = Body(g)
  <2>1. g \in [0 .. N -> Int] /\ g[0] = 0 /\ \A n \in 1 .. N : g[n] = step[<<g[n - 1], n>>]
    BY <1>6, Zenon DEF Repeats
  <2>2. \A n \in 1 .. N : g[n - 1] \in Int
    BY <1>2, <2>1
  <2>3. \A n \in 0 .. N : g[n] = IF n = 0 THEN 0 ELSE g[n - 1] + w[n]
    <3>1. \A n \in 0 .. N : n = 0 \/ n \in 1 .. N
      BY <1>2
    <3>. QED
      BY <1>5, <2>1, <2>2, <3>1
  <2>. QED
    BY <2>1, <2>3
<1>8. ASSUME NEW h, h = Body(h) PROVE h[N] \in Int
  <2>. DEFINE S == {n \in 0 .. N : h[n] \in Int}
  <2>1. \A n \in 0 .. N : h[n] = IF n = 0 THEN 0 ELSE h[n - 1] + w[n]
    BY <1>8
  <2>2. 0 \in S
    BY <1>2, <2>1
  <2>3. ASSUME NEW n \in S, n \in 0 .. N - 1 PROVE n + 1 \in S
    <3>1. n + 1 \in 1 .. N /\ n + 1 \in 0 .. N /\ (n + 1) - 1 = n /\ n + 1 # 0
      BY <1>2, <2>3
    <3>2. h[n + 1] = h[n] + w[n + 1]
      BY <2>1, <3>1
    <3>. QED
      BY <1>3, <3>1, <3>2
  <2>. HIDE DEF S
  <2>4. \A n \in 0 .. N : n \in S
    BY <1>2, <2>2, <2>3, Climbing
  <2>. QED
    BY <1>2, <2>4 DEF S
<1>9. (CHOOSE f : f = Sum(f)) = Sum(CHOOSE f : f = Sum(f))
  <2>1. g = Sum(g)
    BY <1>4, <1>7
  <2>. HIDE DEF Sum
  <2>. QED
    BY <2>1, Zenon
<1>10. (CHOOSE f : f = Sum(f))[N] \in Int
  <2>. DEFINE h == CHOOSE f : f = Sum(f)
  <2>1. h = Sum(h)
    BY <1>9
  <2>. HIDE DEF h
  <2>2. h = Body(h)
    BY <1>4, <2>1
  <2>3. h[N] \in Int
    BY <1>8, <2>2
  <2>. QED
    BY <2>3 DEF h
<1>. HIDE DEF Sum
<1>11. \A a \in Int : <<a>> \in KeySet(1)
  BY DEF KeySet
<1>. QED
  BY <1>1, <1>10, <1>11

\* Different to a passenger, different rides (visible_journey_key, journey_identity_key).
LEMMA IdentityIsVisible ==
  ASSUME NEW j, IsJourney(j), NEW k, IsJourney(k), Identity(j) = Identity(k)
  PROVE  VisibleKey(j) = VisibleKey(k)
<1>. DEFINE D == DOMAIN j.legs
            id(i, n) == <<PublicOf[i.legs[n].line], StationOf[i.legs[n].from],
                          StationOf[i.legs[n].to], i.legs[n].departure, i.legs[n].arrival>>
            leading(i, n) == \A m \in 1 .. n : Walked(i.legs[m])
            times(i, n) == IF leading(i, n) THEN <<i.legs[n].arrival - i.legs[n].departure>>
                           ELSE <<i.legs[n].departure, i.legs[n].arrival>>
            seen(i, n) == <<AreaOf[i.legs[n].from], AreaOf[i.legs[n].to], times(i, n)>>
<1>1. DOMAIN j.legs = DOMAIN k.legs
  <2>1. DOMAIN Identity(j) = DOMAIN j.legs /\ DOMAIN Identity(k) = DOMAIN k.legs
    BY DEF Identity
  <2>. QED
    BY <2>1
<1>2. \A n \in D : id(j, n) = id(k, n)
  <2>1. \A n \in D : Identity(j)[n] = id(j, n)
    BY Zenon DEF Identity
  <2>2. \A n \in D : Identity(k)[n] = id(k, n)
    BY <1>1, Zenon DEF Identity
  <2>. QED
    BY <2>1, <2>2, Zenon
<1>3. \A n \in D : IsLeg(j.legs[n]) /\ IsLeg(k.legs[n])
  BY <1>1, EachIn DEF IsJourney
<1>4. D = 1 .. Len(j.legs) /\ Len(j.legs) \in Nat
  BY PlacesOf DEF IsJourney
<1>5. ASSUME NEW n \in D
      PROVE  /\ j.legs[n].departure = k.legs[n].departure /\ j.legs[n].arrival = k.legs[n].arrival
             /\ AreaOf[j.legs[n].from] = AreaOf[k.legs[n].from]
             /\ AreaOf[j.legs[n].to] = AreaOf[k.legs[n].to]
             /\ Walked(j.legs[n]) <=> Walked(k.legs[n])
  <2>1. /\ j.legs[n].departure = k.legs[n].departure /\ j.legs[n].arrival = k.legs[n].arrival
        /\ PublicOf[j.legs[n].line] = PublicOf[k.legs[n].line]
        /\ StationOf[j.legs[n].from] = StationOf[k.legs[n].from]
        /\ StationOf[j.legs[n].to] = StationOf[k.legs[n].to]
    BY <1>2
  <2>2. /\ j.legs[n].line \in DOMAIN PublicOf /\ k.legs[n].line \in DOMAIN PublicOf
        /\ j.legs[n].from \in DOMAIN StationOf /\ k.legs[n].from \in DOMAIN StationOf
        /\ j.legs[n].to \in DOMAIN StationOf /\ k.legs[n].to \in DOMAIN StationOf
    BY <1>3 DEF IsLeg
  <2>3. Walked(j.legs[n]) <=> Walked(k.legs[n])
    BY <2>1, <2>2, NamesAssumption DEF Walked
  <2>. QED
    BY <2>1, <2>2, <2>3, NamesAssumption
<1>6. \A n \in D : leading(j, n) <=> leading(k, n)
  <2>1. \A n \in D : \A m \in 1 .. n : m \in D
    BY <1>4
  <2>. QED
    BY <1>5, <2>1
<1>. HIDE DEF leading, D
<1>7. \A n \in D : seen(j, n) = seen(k, n)
  BY <1>5, <1>6
<1>8. VisibleKey(j) = [n \in D |-> seen(j, n)]
  BY Zenon DEF VisibleKey, D, leading
<1>9. VisibleKey(k) = [n \in D |-> seen(k, n)]
  <2>1. VisibleKey(k) = [n \in DOMAIN k.legs |-> seen(k, n)]
    BY Zenon DEF VisibleKey, leading
  <2>. QED
    BY <1>1, <2>1, Zenon DEF D
<1>. HIDE DEF seen
<1>. QED
  BY <1>7, <1>8, <1>9

\* What is left when those that look the same are gone.
LEMMA DedupeIs ==
  ASSUME NEW s, AreJourneys(s)
  PROVE  /\ AreJourneys(DedupeRelevant(s)) /\ Range(DedupeRelevant(s)) \subseteq Range(s)
         /\ Unique(DedupeRelevant(s))
<1>. DEFINE relevant == Among(s, {j \in Range(s) : IsRelevant(j)})
            keys == [n \in DOMAIN relevant |-> FeedPriority(relevant[n])]
            sorted == SortedBy(relevant, keys)
            visible == [n \in DOMAIN sorted |-> VisibleKey(sorted[n])]
            d == FirstOfEach(sorted, visible)
<1>1. DedupeRelevant(s) = d
  BY Zenon DEF DedupeRelevant
<1>2. relevant \in Seq(Range(relevant)) /\ Range(relevant) \subseteq Range(s)
  BY AmongIs DEF AreJourneys
<1>. HIDE DEF relevant
<1>3. HasKeys(relevant, keys, 1)
  <2>1. \A n \in DOMAIN relevant : keys[n] \in KeySet(1)
    BY <1>2, EachIn, PriorityIsKey DEF AreJourneys
  <2>. QED
    BY <1>2, <2>1 DEF HasKeys
<1>. HIDE DEF keys
<1>4. sorted \in Seq(Range(sorted)) /\ Range(sorted) = Range(relevant)
  BY <1>3, SortedIs
<1>. HIDE DEF sorted
<1>5. \A n \in DOMAIN sorted : visible[n] = VisibleKey(sorted[n])
  OBVIOUS
<1>. HIDE DEF visible
<1>6. Firsts(d, sorted, visible)
  BY <1>4, FirstOfEachIs
<1>. HIDE DEF d
<1>7. d \in Seq(Range(d)) /\ Range(d) \subseteq Range(s)
  BY <1>2, <1>4, <1>6 DEF Firsts
<1>8. \A n \in DOMAIN sorted : IsJourney(sorted[n])
  BY <1>2, <1>4, EachIn DEF AreJourneys
<1>9. ASSUME NEW i \in DOMAIN d, NEW h \in DOMAIN d, i # h
      PROVE  Identity(d[i]) # Identity(d[h])
  <2>1. PICK m \in DOMAIN sorted, n \in DOMAIN sorted :
          d[i] = sorted[m] /\ d[h] = sorted[n] /\ visible[m] # visible[n]
    BY <1>6, <1>9 DEF Firsts
  <2>2. VisibleKey(sorted[m]) # VisibleKey(sorted[n])
    BY <1>5, <2>1
  <2>. QED
    BY <1>8, <2>1, <2>2, IdentityIsVisible
<1>. QED
  BY <1>1, <1>7, <1>9 DEF AreJourneys, Unique

LEMMA SomeOf ==
  ASSUME NEW s, AreJourneys(s), NEW t, t \in Seq(Range(t)), Range(t) \subseteq Range(s)
  PROVE  AreJourneys(t)
BY DEF AreJourneys

-----------------------------------------------------------------------------
(* Itineraries and the vehicles' delays.                                   *)

LEMMA LastOf ==
  ASSUME NEW N \in Nat, NEW S, S \subseteq 1 .. N, S # {}
  PROVE  Max(S) \in S /\ \A m \in S : m =< Max(S)
<1>. DEFINE left == {N - m : m \in S}
<1>1. PICK k \in left : \A l \in left : k =< l
  <2>1. \A m \in S : N - m \in Nat
    OBVIOUS
  <2>2. left \subseteq Nat /\ left # {}
    BY <2>1, Zenon
  <2>. QED
    BY <2>2, LeastNumber, Zenon
<1>2. PICK n \in S : \A m \in S : n >= m
  <2>1. PICK n \in S : k = N - n
    BY <1>1
  <2>2. ASSUME NEW m \in S PROVE n >= m
    <3>1. N - n =< N - m /\ n \in Nat /\ m \in Nat
      BY <1>1, <2>1
    <3>. QED
      BY <3>1
  <2>. QED
    BY <2>2
<1>3. Max(S) \in S /\ \A m \in S : Max(S) >= m
  BY <1>2, Zenon DEF Max
<1>4. \A m \in S : m \in Nat
  OBVIOUS
<1>. QED
  BY <1>3, <1>4

LEMMA FirstNumberOf ==
  ASSUME NEW N \in Nat, NEW S, S \subseteq 1 .. N, S # {}
  PROVE  Min(S) \in S /\ \A m \in S : Min(S) =< m
<1>1. S \subseteq Nat
  OBVIOUS
<1>2. \E n \in S : \A m \in S : n =< m
  BY <1>1, LeastNumber, Zenon
<1>. QED
  BY <1>2, Zenon DEF Min

\* Moving or excusing a leg leaves its line, trip and stops.
LEMMA MovedIs ==
  ASSUME NEW leg, IsLeg(leg), NEW by \in Int
  PROVE  IsLeg(Moved(leg, by)) /\ Moved(leg, by).line = leg.line /\ Moved(leg, by).trip = leg.trip
<1>1. leg.departure + by \in Int /\ leg.arrival + by \in Int
  BY DEF IsLeg
<1>2. leg \in [line : DOMAIN PublicOf, trip : {leg.trip}, from : DOMAIN StationOf,
               to : DOMAIN StationOf, departure : Int, arrival : Int, excused : BOOLEAN]
  BY DEF IsLeg
<1>3. ASSUME NEW d \in Int, NEW a \in Int
      PROVE  LET m == [leg EXCEPT !.departure = d, !.arrival = a]
             IN  IsLeg(m) /\ m.line = leg.line /\ m.trip = leg.trip
  BY <1>2, <1>3 DEF IsLeg
<1>. QED
  BY <1>1, <1>3, Zenon DEF Moved

LEMMA ExcusedIs ==
  ASSUME NEW leg, IsLeg(leg), NEW excuse \in BOOLEAN
  PROVE  /\ IsLeg([leg EXCEPT !.excused = @ \/ excuse])
         /\ [leg EXCEPT !.excused = @ \/ excuse].line = leg.line
         /\ [leg EXCEPT !.excused = @ \/ excuse].trip = leg.trip
<1>1. (leg.excused \/ excuse) \in BOOLEAN
  BY Zenon
<1>2. leg \in [line : DOMAIN PublicOf, trip : {leg.trip}, from : DOMAIN StationOf,
               to : DOMAIN StationOf, departure : Int, arrival : Int, excused : BOOLEAN]
  BY DEF IsLeg
<1>3. ASSUME NEW e \in BOOLEAN
      PROVE  LET m == [leg EXCEPT !.excused = e]
             IN  IsLeg(m) /\ m.line = leg.line /\ m.trip = leg.trip
  BY <1>2, <1>3 DEF IsLeg
<1>. QED
  BY <1>1, <1>3, Zenon

LEMMA ShiftIs ==
  ASSUME NEW late, late \in [DOMAIN late -> Int], NEW i, IsItinerary(i, late),
         NEW n \in DOMAIN i.legs
  PROVE  /\ Shift(i.legs, n, late) \in Int
         /\ (\A t \in DOMAIN late : late[t] = 0) => Shift(i.legs, n, late) = 0
<1>. DEFINE legs == i.legs
            before == {m \in Rides(legs) : m =< n}
            N == Len(legs)
<1>1. Shift(legs, n, late) = IF before = {} THEN 0 ELSE late[legs[Max(before)].trip]
  BY Zenon DEF Shift
<1>2. N \in Nat /\ DOMAIN legs = 1 .. N
  BY PlacesOf DEF IsItinerary
<1>3. before \subseteq Rides(legs) /\ before \subseteq 1 .. N
  BY <1>2 DEF Rides
<1>4. \A m \in Rides(legs) : late[legs[m].trip] \in Int
  <2>1. \A m \in Rides(legs) : m \in DOMAIN legs /\ ~Walked(legs[m])
    BY DEF Rides
  <2>2. \A m \in Rides(legs) : legs[m].trip \in DOMAIN late
    BY <2>1, EachIn DEF IsItinerary
  <2>. QED
    BY <2>2
<1>5. (\A t \in DOMAIN late : late[t] = 0) => \A m \in Rides(legs) : late[legs[m].trip] = 0
  <2>1. \A m \in Rides(legs) : m \in DOMAIN legs /\ ~Walked(legs[m])
    BY DEF Rides
  <2>2. \A m \in Rides(legs) : legs[m].trip \in DOMAIN late
    BY <2>1, EachIn DEF IsItinerary
  <2>. QED
    BY <2>2
<1>. HIDE DEF before, legs
<1>6. CASE before = {}
  BY <1>1, <1>6 DEF legs
<1>7. CASE before # {}
  <2>1. N \in Nat
    BY <1>2
  <2>. HIDE DEF N
  <2>2. Max(before) \in Rides(legs)
    BY <1>3, <1>7, <2>1, LastOf
  <2>. QED
    BY <1>1, <1>4, <1>5, <1>7, <2>2, Zenon DEF legs
<1>. QED
  BY <1>6, <1>7

\* A journey has the rides of its itinerary, at times that its vehicles' delays give.
LEMMA TimedIs ==
  ASSUME NEW late, late \in [DOMAIN late -> Int], NEW i, IsItinerary(i, late)
  PROVE  /\ IsJourney(Timed(i, late))
         /\ TripsOf(Timed(i, late)) = TripsOf(i)
         /\ (\A t \in DOMAIN late : late[t] = 0) =>
              Timed(i, late).departure = i.legs[1].departure
<1>. DEFINE legs == i.legs
            N == Len(legs)
            new(n) == IF Walked(legs[n]) THEN Moved(legs[n], Shift(legs, n, late))
                      ELSE [legs[n] EXCEPT !.excused = @ \/ late[legs[n].trip] # 0]
            real == [n \in DOMAIN legs |-> new(n)]
            changes == Cardinality(Rides(legs)) - 1
            departure == legs[1].departure + Shift(legs, 1, late)
            arrival == legs[N].arrival + Shift(legs, N, late)
            j == [legs |-> real, departure |-> departure, arrival |-> arrival,
                  changes |-> changes, walk |-> i.walk]
<1>1. Timed(i, late) = j
  BY Zenon DEF Timed
<1>2. N \in Nat \ {0} /\ DOMAIN legs = 1 .. N
  BY PlacesOf DEF IsItinerary
<1>3. \A n \in 1 .. N : IsLeg(legs[n]) /\ Shift(legs, n, late) \in Int
  BY <1>2, EachIn, ShiftIs DEF IsItinerary
<1>4. 1 \in 1 .. N /\ N \in 1 .. N
  BY <1>2
<1>5. i.walk \in Int
  BY DEF IsItinerary
<1>6. changes \in Int
  <2>1. Rides(legs) \subseteq DOMAIN legs
    BY DEF Rides
  <2>2. legs \in Seq(Range(legs))
    BY DEF IsItinerary
  <2>. HIDE DEF legs
  <2>3. Cardinality(Rides(legs)) \in Nat
    BY <2>1, <2>2, PlacesOf
  <2>. QED
    BY <2>3
<1>7. departure \in Int /\ arrival \in Int
  <2>1. legs[1].departure \in Int /\ legs[N].arrival \in Int
    BY <1>3, <1>4 DEF IsLeg
  <2>. QED
    BY <1>3, <1>4, <2>1
<1>8. \A n \in 1 .. N : IsLeg(new(n)) /\ new(n).line = legs[n].line /\ new(n).trip = legs[n].trip
  BY <1>3, MovedIs, ExcusedIs, Zenon
<1>9. (\A t \in DOMAIN late : late[t] = 0) => departure = legs[1].departure
  <2>1. legs[1].departure \in Int
    BY <1>3, <1>4 DEF IsLeg
  <2>2. (\A t \in DOMAIN late : late[t] = 0) => Shift(legs, 1, late) = 0
    BY <1>2, <1>4, ShiftIs
  <2>. QED
    BY <2>1, <2>2
<1>. HIDE DEF new, changes, departure, arrival, N
<1>10. /\ real \in Seq(Range(real)) /\ DOMAIN real = 1 .. N
       /\ \A n \in 1 .. N : real[n] = new(n)
  <2>1. real = [n \in 1 .. N |-> real[n]]
    BY <1>2
  <2>2. \A n \in 1 .. N : real[n] = new(n)
    BY <1>2
  <2>. HIDE DEF real
  <2>. QED
    BY <1>2, <2>1, <2>2, IsSequence
<1>. HIDE DEF real
<1>11. \A leg \in Range(real) : IsLeg(leg)
  BY <1>8, <1>10 DEF Range
<1>12. /\ j.legs = real /\ j.departure = departure
       /\ j \in [legs : {real}, departure : Int, arrival : Int, changes : Int, walk : Int]
  BY <1>5, <1>6, <1>7
<1>. HIDE DEF j
<1>13. IsJourney(j)
  BY <1>10, <1>11, <1>12, Zenon DEF IsJourney
<1>14. Rides(real) = Rides(legs)
  BY <1>2, <1>8, <1>10 DEF Rides, Walked
<1>15. \A n \in Rides(legs) : real[n].trip = legs[n].trip
  BY <1>2, <1>8, <1>10 DEF Rides
<1>16. TripsOf(j) = TripsOf(i)
  <2>1. TripsOf(j) = {real[n].trip : n \in Rides(real)}
    BY <1>12, Zenon DEF TripsOf
  <2>2. TripsOf(i) = {legs[n].trip : n \in Rides(legs)}
    BY Zenon DEF TripsOf
  <2>. QED
    BY <1>14, <1>15, <2>1, <2>2, Zenon
<1>. QED
  BY <1>1, <1>9, <1>12, <1>13, <1>16

\* The next day moves all of its times.
LEMMA NextDayIs ==
  ASSUME SearchAssumption, NEW j, IsJourney(j)
  PROVE  IsJourney(NextDay(j)) /\ TripsOf(NextDay(j)) = TripsOf(j)
<1>. DEFINE N == Len(j.legs)
            real == [n \in DOMAIN j.legs |-> Moved(j.legs[n], Day)]
            departure == j.departure + Day
            arrival == j.arrival + Day
            d == NextDay(j)
<1>1. Day \in Int
  BY DEF SearchAssumption
<1>2. /\ d.legs = real
      /\ d \in [legs : {d.legs}, departure : Int, arrival : Int, changes : Int, walk : Int]
  <2>1. j \in [legs : {j.legs}, departure : Int, arrival : Int, changes : Int, walk : Int]
    BY DEF IsJourney
  <2>2. departure \in Int /\ arrival \in Int
    BY <1>1, <2>1
  <2>3. d = [j EXCEPT !.departure = departure, !.arrival = arrival, !.legs = real]
    BY Zenon DEF NextDay
  <2>. HIDE DEF departure, arrival, real, d
  <2>. QED
    BY <2>1, <2>2, <2>3
<1>3. N \in Nat /\ DOMAIN j.legs = 1 .. N
  BY PlacesOf DEF IsJourney
<1>4. \A n \in 1 .. N : IsLeg(j.legs[n])
  BY <1>3, EachIn DEF IsJourney
<1>. HIDE DEF N, d
<1>5. /\ real \in Seq(Range(real)) /\ DOMAIN real = 1 .. N
      /\ \A n \in 1 .. N : real[n] = Moved(j.legs[n], Day)
  <2>1. real = [n \in 1 .. N |-> real[n]]
    BY <1>3
  <2>2. \A n \in 1 .. N : real[n] = Moved(j.legs[n], Day)
    BY <1>3
  <2>. HIDE DEF real
  <2>. QED
    BY <1>3, <2>1, <2>2, IsSequence
<1>. HIDE DEF real
<1>6. \A n \in 1 .. N : IsLeg(real[n]) /\ real[n].line = j.legs[n].line /\ real[n].trip = j.legs[n].trip
  <2>1. \A n \in 1 .. N : /\ IsLeg(Moved(j.legs[n], Day))
                           /\ Moved(j.legs[n], Day).line = j.legs[n].line
                           /\ Moved(j.legs[n], Day).trip = j.legs[n].trip
    BY <1>1, <1>4, MovedIs, Zenon
  <2>. QED
    BY <1>5, <2>1, Zenon
<1>7. \A leg \in Range(real) : IsLeg(leg)
  BY <1>5, <1>6 DEF Range
<1>8. IsJourney(d)
  BY <1>2, <1>5, <1>7 DEF IsJourney
<1>9. Rides(real) = Rides(j.legs)
  BY <1>3, <1>5, <1>6 DEF Rides, Walked
<1>10. \A n \in Rides(j.legs) : real[n].trip = j.legs[n].trip
  BY <1>3, <1>6 DEF Rides
<1>11. TripsOf(d) = TripsOf(j)
  <2>1. TripsOf(d) = {real[n].trip : n \in Rides(real)}
    BY <1>2, Zenon DEF TripsOf
  <2>2. TripsOf(j) = {j.legs[n].trip : n \in Rides(j.legs)}
    BY Zenon DEF TripsOf
  <2>. QED
    BY <1>9, <1>10, <2>1, <2>2, Zenon
<1>. QED
  BY <1>8, <1>11 DEF d

-----------------------------------------------------------------------------
(* What a search over one timetable finds.                                 *)

OnTime(late) == \A t \in DOMAIN late : late[t] = 0

IsAsk(ask) ==
  /\ ask.departure \in Nat /\ ask.late \in [DOMAIN ask.late -> Int]
  /\ IsFiniteSet(ask.pool) /\ \A i \in ask.pool : IsItinerary(i, ask.late)

\* Of the itineraries that may be used, and not before the departure while all are on time.
Of(ask) ==
  {j \in {Timed(i, ask.late) : i \in Usable(ask)} :
     OnTime(ask.late) => j.departure >= ask.departure}

LEMMA OfIs ==
  ASSUME NEW ask, IsAsk(ask), NEW j \in Of(ask)
  PROVE  /\ IsJourney(j) /\ (OnTime(ask.late) => j.departure >= ask.departure)
         /\ ~ask.unverified => IsVerified(j)
<1>1. PICK i \in Usable(ask) : j = Timed(i, ask.late)
  BY DEF Of
<1>2. i \in ask.pool /\ (ask.unverified \/ IsVerified(i))
  BY DEF Usable
<1>3. IsItinerary(i, ask.late) /\ ask.late \in [DOMAIN ask.late -> Int]
  BY <1>2 DEF IsAsk
<1>4. IsJourney(j) /\ TripsOf(j) = TripsOf(i)
  BY <1>1, <1>3, TimedIs, Zenon
<1>5. IsVerified(i) => IsVerified(j)
  BY <1>4 DEF IsVerified
<1>. QED
  BY <1>2, <1>4, <1>5 DEF Of

LEMMA ReadyOnTime ==
  ASSUME NEW late, late \in [DOMAIN late -> Int], NEW i, IsItinerary(i, late), OnTime(late)
  PROVE  LatestStart(i, late) = Timed(i, late).departure
<1>. DEFINE legs == i.legs
            N == Len(legs)
            R == Rides(legs)
            wait == IF R = {} THEN 0 ELSE late[legs[Min(R)].trip]
<1>1. LatestStart(i, late) = legs[1].departure + wait
  BY Zenon DEF LatestStart
<1>2. N \in Nat /\ DOMAIN legs = 1 .. N /\ 1 \in 1 .. N
  BY PlacesOf DEF IsItinerary
<1>3. legs[1].departure \in Int
  BY <1>2, EachIn DEF IsItinerary, IsLeg
<1>4. wait = 0
  <2>1. CASE R # {}
    <3>1. R \subseteq 1 .. N
      BY <1>2 DEF Rides
    <3>2. N \in Nat
      BY <1>2
    <3>. HIDE DEF R, N
    <3>3. Min(R) \in R
      BY <2>1, <3>1, <3>2, FirstNumberOf
    <3>4. Min(R) \in DOMAIN legs /\ ~Walked(legs[Min(R)])
      BY <3>3 DEF R, Rides
    <3>5. legs[Min(R)].trip \in DOMAIN late
      BY <3>4, EachIn DEF IsItinerary
    <3>. QED
      BY <2>1, <3>5 DEF OnTime
  <2>. QED
    BY <2>1
<1>5. Timed(i, late).departure = legs[1].departure
  BY TimedIs DEF OnTime
<1>. HIDE DEF wait
<1>. QED
  BY <1>1, <1>3, <1>4, <1>5

LEMMA FiniteImage ==
  ASSUME NEW S, IsFiniteSet(S), NEW late
  PROVE  IsFiniteSet({Timed(i, late) : i \in S})
<1>. DEFINE f == [i \in S |-> Timed(i, late)]
            T == {Timed(i, late) : i \in S}
<1>1. f \in Surjection(S, T)
  <2>1. f \in [S -> T]
    OBVIOUS
  <2>2. \A t \in T : \E i \in S : f[i] = t
    OBVIOUS
  <2>. QED
    BY <2>1, <2>2, Zenon DEF Surjection
<1>. HIDE DEF f, T
<1>. QED
  BY <1>1, FS_Surjection, Zenon DEF T

\* What one of the listed journeys of the timetable is.
LEMMA OfListed ==
  ASSUME NEW ask, IsAsk(ask), NEW S, S \subseteq Of(ask), NEW keyOf, NEW w \in Nat,
         \A j \in S : keyOf[j] \in KeySet(w)
  PROVE  Listed(S, keyOf) \in Seq(Of(ask))
<1>1. IsFiniteSet(ask.pool) /\ Usable(ask) \subseteq ask.pool
  BY DEF IsAsk, Usable
<1>2. IsFiniteSet({Timed(i, ask.late) : i \in Usable(ask)})
  BY <1>1, FS_Subset, FiniteImage
<1>3. S \subseteq {Timed(i, ask.late) : i \in Usable(ask)}
  BY DEF Of
<1>4. IsFiniteSet(S)
  BY <1>2, <1>3, FS_Subset
<1>. QED
  BY <1>4, ListedIs, InSeq

LEMMA TwoKeys ==
  ASSUME NEW j, IsJourney(j)
  PROVE  ByArrival(j) \in KeySet(2) /\ ByDeparture(j) \in KeySet(5)
<1>1. /\ j.departure \in Int /\ j.arrival \in Int /\ j.changes \in Int /\ j.walk \in Int
      /\ Duration(j) \in Int
  BY DEF IsJourney, Duration
<1>2. <<j.arrival, j.changes>> \in KeySet(2)
  BY <1>1 DEF KeySet
<1>. QED
  BY <1>1, <1>2, Five, Zenon DEF ByArrival, ByDeparture

LEMMA ProbeIs ==
  ASSUME NEW ask, IsAsk(ask), NEW from, from \in Int, from >= ask.departure, NEW excluded
  PROVE  Probe(ask, from, excluded) \in Seq(Of(ask))
<1>. DEFINE can == {Timed(i, ask.late) : i \in {k \in Usable(ask) : IsCaught(k, ask.late)
                                                             /\ LatestStart(k, ask.late) >= from}}
            open == {j \in can : LinesOf(j) # {} /\ LinesOf(j) \cap excluded = {}}
            earliest(n) == {j \in open : /\ j.changes = n
                                         /\ \A k \in open : k.changes =< n => j.arrival =< k.arrival
                                         /\ \A k \in open : k.changes < n => j.arrival < k.arrival}
            found == {CHOOSE j \in earliest(n) : TRUE :
                        n \in {m \in {k.changes : k \in open} : earliest(m) # {}}}
            keyOf == [j \in found |-> ByArrival(j)]
<1>1. Probe(ask, from, excluded) = Listed(found, keyOf)
  BY Zenon DEF Probe
<1>2. can \subseteq Of(ask)
  <2>1. ASSUME NEW i \in Usable(ask), LatestStart(i, ask.late) >= from
        PROVE  Timed(i, ask.late) \in Of(ask)
    <3>1. IsItinerary(i, ask.late) /\ ask.late \in [DOMAIN ask.late -> Int]
      BY DEF Usable, IsAsk
    <3>2. OnTime(ask.late) => Timed(i, ask.late).departure >= from
      BY <2>1, <3>1, ReadyOnTime
    <3>3. Timed(i, ask.late).departure \in Int
      BY <3>1, TimedIs DEF IsJourney
    <3>4. OnTime(ask.late) => Timed(i, ask.late).departure >= ask.departure
      BY <3>2, <3>3 DEF IsAsk
    <3>. QED
      BY <3>4 DEF Of
  <2>. QED
    BY <2>1
<1>3. open \subseteq can
  OBVIOUS
<1>4. found \subseteq open
  <2>. HIDE DEF open
  <2>1. \A n : earliest(n) \subseteq open
    OBVIOUS
  <2>. HIDE DEF earliest
  <2>. QED
    BY <2>1
<1>. HIDE DEF can, open, found
<1>5. found \subseteq Of(ask)
  BY <1>2, <1>3, <1>4
<1>6. \A j \in found : keyOf[j] \in KeySet(2)
  BY <1>5, OfIs, TwoKeys
<1>. HIDE DEF keyOf
<1>. QED
  BY <1>1, <1>5, <1>6, OfListed

LEMMA DirectServicesAre ==
  ASSUME NEW ask, IsAsk(ask), Window \in Nat
  PROVE  DirectServices(ask) \in Seq(Of(ask))
<1>. DEFINE rides == {Timed(i, ask.late) : i \in {k \in Usable(ask) : Len(k.legs) = 1}}
            open == {j \in rides : j.departure \in ask.departure .. ask.departure + Window}
            keyOf == [j \in open |-> ByDeparture(j)]
<1>1. DirectServices(ask) = Listed(open, keyOf)
  BY Zenon DEF DirectServices
<1>2. open \subseteq Of(ask)
  <2>1. \A d \in ask.departure .. ask.departure + Window : d >= ask.departure
    BY DEF IsAsk
  <2>. QED
    BY <2>1 DEF Of
<1>3. \A j \in open : keyOf[j] \in KeySet(5)
  <2>1. \A j \in open : ByDeparture(j) \in KeySet(5)
    BY <1>2, OfIs, TwoKeys
  <2>. HIDE DEF open
  <2>. QED
    BY <2>1
<1>. HIDE DEF keyOf, open
<1>. QED
  BY <1>1, <1>2, <1>3, OfListed

\* Nobody asks for a time before the departure.
LEMMA DeparturesAre ==
  ASSUME NEW ask, IsAsk(ask), Window \in Nat, NEW most \in Nat
  PROVE  Departures(ask, most) \in Seq({t \in Int : t >= ask.departure})
<1>. DEFINE T == {t \in Int : t >= ask.departure}
            leaving == {i.legs[1].departure : i \in Usable(ask)}
            span == ask.departure .. ask.departure + Window
            all == {ask.departure} \cup (leaving \cap span)
            keyOf == [t \in all |-> <<t>>]
<1>1. ask.departure \in T /\ ask.departure \in Int
  BY DEF IsAsk
<1>2. IsFiniteSet(all) /\ all \subseteq T /\ all \subseteq Int
  <2>1. span \subseteq T /\ ask.departure + Window \in Int
    BY <1>1
  <2>2. IsFiniteSet(span)
    BY <1>1, <2>1, FS_Interval
  <2>3. IsFiniteSet({ask.departure})
    BY FS_Singleton
  <2>. HIDE DEF span, leaving
  <2>4. IsFiniteSet(leaving \cap span)
    BY <2>2, FS_Subset
  <2>5. IsFiniteSet(all)
    BY <2>3, <2>4, FS_Union
  <2>. QED
    BY <1>1, <2>1, <2>5
<1>3. Departures(ask, most) = IF Window = 0 \/ most = 1 THEN <<ask.departure>>
                              ELSE EvenlySpaced(Times(all), most)
  BY Zenon DEF Departures
<1>4. Times(all) = Listed(all, keyOf)
  BY Zenon DEF Times
<1>. HIDE DEF all
<1>5. \A t \in all : keyOf[t] \in KeySet(1)
  BY <1>2 DEF KeySet
<1>. HIDE DEF keyOf
<1>6. Times(all) \in Seq(Range(Times(all))) /\ Range(Times(all)) = all
  BY <1>2, <1>4, <1>5, ListedIs
<1>7. /\ EvenlySpaced(Times(all), most) \in Seq(Range(EvenlySpaced(Times(all), most)))
      /\ Range(EvenlySpaced(Times(all), most)) \subseteq all
  BY <1>6, EvenlySpacedIs
<1>8. EvenlySpaced(Times(all), most) \in Seq(T)
  BY <1>2, <1>7, InSeq
<1>9. <<ask.departure>> \in Seq(T)
  BY <1>1
<1>. QED
  BY <1>3, <1>8, <1>9

LEMMA ProbesAre ==
  ASSUME NEW ask, IsAsk(ask), NEW times \in Seq({t \in Int : t >= ask.departure}), NEW excluded
  PROVE  Probes(ask, times, excluded) \in Seq(Of(ask))
<1>. DEFINE T == {t \in Int : t >= ask.departure}
            seqs == [n \in DOMAIN times |-> Probe(ask, times[n], excluded)]
            N == Len(times)
<1>1. Probes(ask, times, excluded) = FlattenSeq(seqs)
  BY Zenon DEF Probes
<1>2. times \in Seq(T) /\ N \in Nat /\ DOMAIN times = 1 .. N /\ \A n \in 1 .. N : times[n] \in T
  OBVIOUS
<1>3. \A n \in 1 .. N : seqs[n] \in Seq(Of(ask))
  BY <1>2, ProbeIs
<1>4. seqs = [n \in 1 .. N |-> seqs[n]]
  BY <1>2
<1>. HIDE DEF seqs, N
<1>5. seqs \in Seq(Range(seqs)) /\ DOMAIN seqs = 1 .. N
  BY <1>2, <1>4, IsSequence
<1>6. Range(seqs) \subseteq Seq(Of(ask))
  BY <1>3, <1>5 DEF Range
<1>7. seqs \in Seq(Seq(Of(ask)))
  BY <1>5, <1>6, InSeq
<1>. QED
  BY <1>1, <1>7, FlattenIs

-----------------------------------------------------------------------------
(* The state of a question.                                                *)

SearchStages == {"probe", "alternatives", "departed", "direct", "next day"}
RankStages == {"preselect", "geometry", "rank", "answered"}

SearchType ==
  search \in [tomorrow : BOOLEAN, unverified : BOOLEAN, found : Seq(Of(Ask)),
             avoid : {search.avoid}, passes : {search.passes}]

PlanTypes ==
  /\ query \in Queries /\ stage \in SearchStages \cup {"prefer", "dedupe"} \cup RankStages
  /\ SearchType /\ legacy \in BOOLEAN
  /\ AreJourneys(journeys) /\ AreJourneys(gathered) /\ AreJourneys(unique)

AllVerified(s) == \A j \in Range(s) : IsVerified(j)
NoneVerified(s) == \A j \in Range(s) : ~IsVerified(j)

\* Without delays nothing that was found has departed, so an unverified service is looked
\* for only when no verified one was found, and then that is known.
VerifiedInv ==
  OnTime(query.late) =>
    /\ stage \in SearchStages \cup {"prefer"} /\ ~legacy => AllVerified(journeys)
    /\ stage = "departed" => \A j \in Range(journeys) : j.departure >= query.departure
    /\ stage \in {"departed", "direct"} /\ ~legacy /\ journeys = <<>> => ~HasUnverified(query.today)
    /\ stage = "prefer" => gathered = journeys
    /\ stage \in {"dedupe"} \cup RankStages => AllVerified(journeys) \/ NoneVerified(gathered)

\* The preselection, and what of it has geometry.
Preselected == Ranked(unique, Preselection(query.conf))
Shaped == Among(Preselected, {j \in Range(Preselected) : HasGeometry(j, broken)})

RankInv ==
  /\ stage \in RankStages => Unique(unique)
  /\ stage = "preselect" => journeys = unique
  /\ stage = "geometry" => journeys = Preselected
  /\ stage = "rank" => journeys = Shaped
  /\ stage = "answered" => journeys = Ranked(Shaped, query.conf)

PlanInv == PlanTypes /\ VerifiedInv /\ RankInv

LEMMA QueryIs ==
  ASSUME SearchAssumption, NEW q \in Queries
  PROVE  /\ q.departure \in Nat /\ q.late \in [DOMAIN q.late -> Int]
         /\ IsFiniteSet(q.today) /\ IsFiniteSet(q.tomorrow)
         /\ \A i \in q.today \cup q.tomorrow : IsItinerary(i, q.late)
         /\ Weighs(q.conf) /\ Weighs(Preselection(q.conf)) /\ ~Preselection(q.conf).dominance
         /\ Preselection(q.conf).maxResults = 2 * q.conf.maxResults
<1>1. q.conf \in Configurations
  BY DEF SearchAssumption
<1>. DEFINE c == q.conf
<1>2. c \in [maxResults : 1 .. 20, arrivalWeight : Nat, durationWeight : Nat,
            transferPenalty : Nat, simplest : BOOLEAN, eachChanges : BOOLEAN,
            carriers : BOOLEAN, dominance : BOOLEAN, sameCarrier : BOOLEAN]
  BY <1>1 DEF Configurations
<1>. HIDE DEF c
<1>3. Weighs(c)
  BY <1>2 DEF Weighs
<1>4. 2 * c.maxResults \in Nat \ {0}
  BY <1>2
<1>5. ASSUME NEW most \in Nat \ {0}
      PROVE  LET p == [c EXCEPT !.maxResults = most, !.dominance = FALSE]
             IN  Weighs(p) /\ ~p.dominance /\ p.maxResults = most
  BY <1>2 DEF Weighs
<1>6. Preselection(c) = [c EXCEPT !.maxResults = 2 * c.maxResults, !.dominance = FALSE]
  BY <1>2 DEF Preselection
<1>. QED
  BY <1>3, <1>4, <1>5, <1>6 DEF SearchAssumption, c

LEMMA AskIs ==
  ASSUME SearchAssumption, query \in Queries
  PROVE  IsAsk(Ask) /\ Ask.late = query.late /\ Ask.unverified = search.unverified
         /\ Ask.pool = (IF search.tomorrow THEN query.tomorrow ELSE query.today)
         /\ Ask.departure = (IF search.tomorrow THEN 0 ELSE query.departure)
<1>1. /\ Ask.late = query.late /\ Ask.unverified = search.unverified
      /\ Ask.pool = (IF search.tomorrow THEN query.tomorrow ELSE query.today)
      /\ Ask.departure = (IF search.tomorrow THEN 0 ELSE query.departure)
  BY DEF Ask
<1>2. 0 \in Nat
  OBVIOUS
<1>. QED
  BY <1>1, <1>2, QueryIs DEF IsAsk

LEMMA SearchKept ==
  ASSUME SearchType, query' = query, NEW found \in Seq(Of(Ask)), NEW avoid, NEW passes,
         \/ search' = [search EXCEPT !.found = found, !.avoid = avoid]
         \/ search' = [search EXCEPT !.found = found, !.passes = passes, !.avoid = avoid]
  PROVE  SearchType'
<1>. DEFINE S == Seq(Of(Ask))
<1>1. search \in [tomorrow : BOOLEAN, unverified : BOOLEAN, found : S,
                 avoid : {search.avoid}, passes : {search.passes}]
  BY DEF SearchType
<1>2. found \in S
  OBVIOUS
<1>3. search'.tomorrow = search.tomorrow /\ search'.unverified = search.unverified
  BY <1>1
<1>4. Ask' = Ask
  BY <1>3 DEF Ask
<1>. HIDE DEF S
<1>5. search' \in [tomorrow : BOOLEAN, unverified : BOOLEAN, found : S,
                  avoid : {search'.avoid}, passes : {search'.passes}]
  BY <1>1, <1>2
<1>. QED
  BY <1>4, <1>5 DEF SearchType, S

LEMMA NewSearchIs ==
  ASSUME NEW tomorrow \in BOOLEAN, NEW unverified \in BOOLEAN,
         search' = NewSearch(tomorrow, unverified)
  PROVE  SearchType'
<1>. DEFINE S == Seq(Of(Ask'))
<1>1. <<>> \in S
  OBVIOUS
<1>. HIDE DEF S
<1>2. search' \in [tomorrow : BOOLEAN, unverified : BOOLEAN, found : S,
                  avoid : {search'.avoid}, passes : {search'.passes}]
  BY <1>1 DEF NewSearch
<1>. QED
  BY <1>2 DEF SearchType, S

LEMMA SearchUnchanged ==
  ASSUME SearchType, query' = query, search' = search
  PROVE  SearchType'
BY DEF SearchType, Ask

LEMMA SearchStep ==
  ASSUME PlanInv, SearchType', stage \in {"probe", "alternatives", "next day"},
         stage' \in {"probe", "alternatives"},
         UNCHANGED <<query, journeys, legacy, gathered, unique, broken>>
  PROVE  PlanInv'
<1>1. PlanTypes'
  BY DEF PlanInv, PlanTypes, SearchStages
<1>2. VerifiedInv'
  BY DEF PlanInv, VerifiedInv, SearchStages, RankStages, AllVerified
<1>3. RankInv'
  BY DEF RankInv, RankStages
<1>. QED
  BY <1>1, <1>2, <1>3 DEF PlanInv

LEMMA TypesMove ==
  ASSUME PlanTypes, query' = query, search' = search,
         stage' \in SearchStages \cup {"prefer", "dedupe"} \cup RankStages, legacy' \in BOOLEAN,
         AreJourneys(journeys'), AreJourneys(gathered'), AreJourneys(unique')
  PROVE  PlanTypes'
BY SearchUnchanged DEF PlanTypes

LEMMA ProbeWindowKeeps ==
  ASSUME SearchAssumption, PlanInv, ProbeWindow
  PROVE  PlanInv'
<1>1. IsAsk(Ask) /\ Window \in Nat /\ MaxProbes \in Nat /\ 1 \in Nat
  BY AskIs DEF PlanInv, PlanTypes, SearchAssumption
<1>. DEFINE T == {t \in Int : t >= Ask.departure}
            start == Departures(Ask, 1)
            all == Departures(Ask, MaxProbes)
            rest == Among(all, Range(all) \ Range(start))
            found == Probes(Ask, start, {}) \o DirectServices(Ask) \o Probes(Ask, rest, {})
            avoid == IF found # <<>> /\ Few(found)
                     THEN LinesOf(FirstBy(found, Arrivals(found))) ELSE {}
<1>2. start \in Seq(T) /\ all \in Seq(T)
  BY <1>1, DeparturesAre
<1>3. rest \in Seq(T)
  BY <1>2, InSeq, AmongIs
<1>. HIDE DEF start, rest, all
<1>4. /\ Probes(Ask, start, {}) \in Seq(Of(Ask)) /\ Probes(Ask, rest, {}) \in Seq(Of(Ask))
      /\ DirectServices(Ask) \in Seq(Of(Ask))
  BY <1>1, <1>2, <1>3, ProbesAre, DirectServicesAre
<1>5. found \in Seq(Of(Ask))
  BY <1>4
<1>6. search' = [search EXCEPT !.found = found, !.avoid = avoid]
  BY Zenon DEF ProbeWindow, start, all, rest
<1>. HIDE DEF found, avoid
<1>7. SearchType'
  <2>1. SearchType /\ query' = query
    BY DEF PlanInv, PlanTypes, ProbeWindow
  <2>2. PICK f \in Seq(Of(Ask)) : \E a : search' = [search EXCEPT !.found = f, !.avoid = a]
    BY <1>5, <1>6
  <2>3. PICK a : search' = [search EXCEPT !.found = f, !.avoid = a]
    BY <2>2
  <2>. QED
    BY <2>1, <2>3, SearchKept
<1>. QED
  BY <1>7, SearchStep DEF ProbeWindow

LEMMA ProbeAlternativesKeeps ==
  ASSUME SearchAssumption, PlanInv, ProbeAlternatives
  PROVE  PlanInv'
<1>1. IsAsk(Ask) /\ Window \in Nat /\ MaxProbes \in Nat
  BY AskIs DEF PlanInv, PlanTypes, SearchAssumption
<1>2. Probes(Ask, Departures(Ask, MaxProbes), search.avoid) \in Seq(Of(Ask))
  BY <1>1, DeparturesAre, ProbesAre
<1>3. search.found \in Seq(Of(Ask))
  BY DEF PlanInv, PlanTypes, SearchType
<1>4. PICK again \in Seq(Of(Ask)) : \E p, a :
        search' = [search EXCEPT !.found = @ \o again, !.passes = p, !.avoid = a]
  BY <1>2, Zenon DEF ProbeAlternatives
<1>5. SearchType'
  <2>1. SearchType /\ query' = query
    BY DEF PlanInv, PlanTypes, ProbeAlternatives
  <2>2. \A T : \A s \in Seq(T), r \in Seq(T) : s \o r \in Seq(T)
    OBVIOUS
  <2>3. search.found \o again \in Seq(Of(Ask))
    BY <1>3, <2>2
  <2>4. PICK f \in Seq(Of(Ask)) : f = search.found \o again
    BY <2>3
  <2>5. PICK p, a : search' = [search EXCEPT !.found = f, !.passes = p, !.avoid = a]
    BY <1>4, <2>4
  <2>. QED
    BY <2>1, <2>5, SearchKept
<1>. QED
  BY <1>5, SearchStep DEF ProbeAlternatives

LEMMA AgainKeeps ==
  ASSUME PlanInv, SearchUnverified \/ SearchTomorrow
  PROVE  PlanInv'
<1>1. CASE SearchUnverified
  <2>1. search.tomorrow \in BOOLEAN /\ TRUE \in BOOLEAN
    BY DEF PlanInv, PlanTypes, SearchType
  <2>2. SearchType'
    <3>1. PICK t \in BOOLEAN : t = search.tomorrow
      BY <2>1
    <3>2. search' = NewSearch(t, TRUE)
      BY <1>1, <3>1 DEF SearchUnverified
    <3>. QED
      BY <2>1, <3>2, NewSearchIs
  <2>. QED
    BY <1>1, <2>2, SearchStep DEF SearchUnverified, Probed
<1>2. CASE SearchTomorrow
  <2>1. SearchType'
    <3>1. TRUE \in BOOLEAN /\ FALSE \in BOOLEAN
      OBVIOUS
    <3>2. search' = NewSearch(TRUE, FALSE)
      BY <1>2 DEF SearchTomorrow
    <3>. QED
      BY <3>1, <3>2, NewSearchIs
  <2>. QED
    BY <1>2, <2>1, SearchStep DEF SearchTomorrow
<1>. QED
  BY <1>1, <1>2

\* What has been found, by what the question was.
LEMMA FoundIs ==
  ASSUME SearchAssumption, PlanInv
  PROVE  /\ search.found \in Seq(Range(search.found)) /\ AreJourneys(search.found)
         /\ ~search.unverified => AllVerified(search.found)
         /\ OnTime(query.late) => \A j \in Range(search.found) : j.departure >= Ask.departure
<1>1. IsAsk(Ask) /\ Ask.late = query.late /\ Ask.unverified = search.unverified
  BY AskIs DEF PlanInv, PlanTypes
<1>2. search.found \in Seq(Of(Ask))
  BY DEF PlanInv, PlanTypes, SearchType
<1>3. search.found \in Seq(Range(search.found)) /\ Range(search.found) \subseteq Of(Ask)
  BY <1>2, InSeq
<1>4. \A j \in Range(search.found) :
        /\ IsJourney(j) /\ (OnTime(Ask.late) => j.departure >= Ask.departure)
        /\ ~Ask.unverified => IsVerified(j)
  BY <1>1, <1>3, OfIs
<1>. QED
  BY <1>1, <1>3, <1>4 DEF AreJourneys, AllVerified

LEMMA SearchKeeps ==
  ASSUME SearchAssumption, PlanInv, Search
  PROVE  PlanInv'
<1>1. PICK s : journeys' = s /\ s \in {search.found, Reverse(search.found)}
  BY DEF Search
<1>2. /\ Probed /\ ~NeedsUnverified /\ search.tomorrow = FALSE /\ legacy' = search.unverified
      /\ stage' = "departed" /\ UNCHANGED <<query, search, gathered, unique, broken>>
  BY DEF Search, Searched
<1>3. s \in Seq(Range(s)) /\ Range(s) \subseteq Range(search.found)
  <2>1. search.found \in Seq(Range(search.found))
    BY FoundIs
  <2>2. /\ Reverse(search.found) \in Seq(Range(Reverse(search.found)))
        /\ Range(Reverse(search.found)) \subseteq Range(search.found)
    BY <2>1, ReverseIs
  <2>. QED
    BY <1>1, <2>1, <2>2
<1>4. s = <<>> => search.found = <<>>
  <2>1. search.found \in Seq(Range(search.found))
    BY FoundIs
  <2>2. Len(Reverse(search.found)) = Len(search.found)
    BY <2>1, PlacesOf DEF Reverse
  <2>3. Len(<<>>) = 0 /\ (Len(search.found) = 0 => search.found = <<>>)
    BY <2>1
  <2>. QED
    BY <1>1, <2>2, <2>3
<1>5. AreJourneys(s)
  BY <1>3, FoundIs, SomeOf
<1>6. PlanTypes'
  <2>1. search.unverified \in BOOLEAN /\ AreJourneys(gathered) /\ AreJourneys(unique)
    BY DEF PlanInv, PlanTypes, SearchType
  <2>. QED
    BY <1>1, <1>2, <1>5, <2>1, TypesMove DEF PlanInv, SearchStages
<1>7. VerifiedInv'
  <2>1. ~search.unverified => AllVerified(s)
    BY <1>3, FoundIs DEF AllVerified
  <2>2. Ask.departure = query.departure /\ Ask.pool = query.today
    BY <1>2, AskIs DEF PlanInv, PlanTypes
  <2>3. OnTime(query.late) => \A j \in Range(s) : j.departure >= query.departure
    BY <1>3, <2>2, FoundIs
  <2>4. ~search.unverified /\ s = <<>> => ~HasUnverified(query.today)
    BY <1>2, <1>4, <2>2 DEF NeedsUnverified
  <2>. QED
    BY <1>1, <1>2, <2>1, <2>3, <2>4 DEF VerifiedInv, SearchStages, RankStages
<1>8. RankInv'
  BY <1>2 DEF RankInv, RankStages
<1>. QED
  BY <1>6, <1>7, <1>8 DEF PlanInv

LEMMA DiscardDepartedKeeps ==
  ASSUME SearchAssumption, PlanInv, DiscardDeparted
  PROVE  PlanInv'
<1>. DEFINE S == {j \in Range(journeys) : j.departure >= query.departure}
<1>1. /\ stage = "departed" /\ journeys' = Among(journeys, S) /\ stage' = "direct"
      /\ UNCHANGED <<query, search, legacy, gathered, unique, broken>>
  BY DEF DiscardDeparted
<1>2. AreJourneys(journeys) /\ AreJourneys(gathered) /\ AreJourneys(unique) /\ legacy \in BOOLEAN
  BY DEF PlanInv, PlanTypes
<1>3. /\ journeys' \in Seq(Range(journeys')) /\ Range(journeys') = Range(journeys) \cap S
  <2>1. journeys \in Seq(Range(journeys))
    BY <1>2 DEF AreJourneys
  <2>. HIDE DEF S
  <2>. QED
    BY <1>1, <2>1, AmongIs
<1>4. AreJourneys(journeys')
  BY <1>2, <1>3, SomeOf
<1>5. PlanTypes'
  BY <1>1, <1>2, <1>4, TypesMove DEF PlanInv, SearchStages
<1>6. VerifiedInv'
  <2>1. SUFFICES ASSUME OnTime(query.late)
                 PROVE  /\ ~legacy => AllVerified(journeys')
                        /\ ~legacy /\ journeys' = <<>> => ~HasUnverified(query.today)
    BY <1>1 DEF VerifiedInv, SearchStages, RankStages
  <2>2. Range(journeys') = Range(journeys)
    BY <1>1, <1>3, <2>1 DEF PlanInv, VerifiedInv
  <2>3. journeys' = <<>> => journeys = <<>>
    <3>1. journeys \in Seq(Range(journeys))
      BY <1>2 DEF AreJourneys
    <3>2. Range(<<>>) = {} /\ (Range(journeys) = {} => journeys = <<>>)
      BY <3>1 DEF Range
    <3>. QED
      BY <2>2, <3>2
  <2>. QED
    BY <1>1, <2>1, <2>2, <2>3 DEF PlanInv, VerifiedInv, SearchStages, AllVerified
<1>7. RankInv'
  BY <1>1 DEF RankInv, RankStages
<1>. QED
  BY <1>5, <1>6, <1>7 DEF PlanInv

\* The connections of the schedule.
LEMMA ScheduleIs ==
  ASSUME SearchAssumption, NEW q \in Queries, NEW direct, direct \subseteq q.today,
         \A i \in direct : Len(i.legs) = 1,
         NEW order, \A i \in direct :
           order[i] = <<IF IsVerified(i) THEN 0 ELSE 1, i.legs[1].arrival, i.legs[1].departure>>,
         NEW onTime, onTime = [t \in DOMAIN q.late |-> 0],
         NEW listed, listed = UpTo(Listed(direct, order), q.conf.maxResults),
         NEW s, s = [n \in DOMAIN listed |-> Timed(listed[n], onTime)]
  PROVE  AreJourneys(s) /\ (~HasUnverified(q.today) => AllVerified(s))
<1>1. /\ IsFiniteSet(q.today) /\ q.conf.maxResults \in Nat
      /\ \A i \in q.today : IsItinerary(i, q.late)
  BY QueryIs DEF Weighs
<1>2. \A i \in direct : IsLeg(i.legs[1])
  <2>1. ASSUME NEW i \in direct PROVE IsLeg(i.legs[1])
    <3>1. i.legs \in Seq(Range(i.legs)) /\ \A leg \in Range(i.legs) : IsLeg(leg)
      BY <1>1 DEF IsItinerary
    <3>2. DOMAIN i.legs = 1 .. 1
      BY <3>1, PlacesOf
    <3>3. i.legs[1] \in Range(i.legs)
      BY <3>2, EachIn
    <3>. QED
      BY <3>1, <3>3
  <2>. QED
    BY <2>1
<1>3. \A i \in direct : order[i] \in KeySet(3)
  <2>1. \A a \in {0, 1}, b \in Int, c \in Int : <<a, b, c>> \in KeySet(3)
    BY DEF KeySet
  <2>2. \A i \in direct : i.legs[1].arrival \in Int /\ i.legs[1].departure \in Int
    BY <1>2 DEF IsLeg
  <2>3. \A i \in direct : (IF IsVerified(i) THEN 0 ELSE 1) \in {0, 1}
    OBVIOUS
  <2>. QED
    BY <2>1, <2>2, <2>3, Zenon
<1>4. IsFiniteSet(direct)
  BY <1>1, FS_Subset
<1>5. Listed(direct, order) \in Seq(Range(Listed(direct, order))) /\ Range(Listed(direct, order)) = direct
  BY <1>3, <1>4, ListedIs
<1>6. listed \in Seq(Range(listed)) /\ Range(listed) \subseteq direct
  BY <1>1, <1>5, UpToIs
<1>7. onTime \in [DOMAIN onTime -> Int] /\ \A i \in direct : IsItinerary(i, onTime)
  <2>1. DOMAIN onTime = DOMAIN q.late
    OBVIOUS
  <2>. QED
    BY <1>1, <2>1 DEF IsItinerary
<1>. DEFINE N == Len(listed)
<1>8. N \in Nat /\ DOMAIN listed = 1 .. N /\ \A n \in 1 .. N : listed[n] \in direct
  BY <1>6, PlacesOf, EachIn
<1>9. s = [n \in 1 .. N |-> s[n]] /\ \A n \in 1 .. N : s[n] = Timed(listed[n], onTime)
  BY <1>8
<1>. HIDE DEF N
<1>10. s \in Seq(Range(s)) /\ DOMAIN s = 1 .. N
  BY <1>8, <1>9, IsSequence
<1>11. \A n \in 1 .. N : IsJourney(s[n]) /\ TripsOf(s[n]) = TripsOf(listed[n])
  <2>1. \A n \in 1 .. N : IsItinerary(listed[n], onTime)
    BY <1>7, <1>8, Zenon
  <2>2. ASSUME NEW i, IsItinerary(i, onTime)
        PROVE  IsJourney(Timed(i, onTime)) /\ TripsOf(Timed(i, onTime)) = TripsOf(i)
    BY <1>7, <2>2, TimedIs, Zenon
  <2>3. \A n \in 1 .. N : /\ IsJourney(Timed(listed[n], onTime))
                           /\ TripsOf(Timed(listed[n], onTime)) = TripsOf(listed[n])
    BY <2>1, <2>2, Zenon
  <2>. QED
    BY <1>9, <2>3, Zenon
<1>12. \A j \in Range(s) : \E n \in 1 .. N : j = s[n]
  BY <1>10 DEF Range
<1>13. AreJourneys(s)
  BY <1>10, <1>11, <1>12 DEF AreJourneys
<1>14. ASSUME ~HasUnverified(q.today) PROVE AllVerified(s)
  <2>1. \A i \in direct : TripsOf(i) \cap Unverified = {}
    BY <1>14 DEF HasUnverified, IsVerified
  <2>. QED
    BY <1>8, <1>11, <1>12, <2>1 DEF AllVerified, IsVerified
<1>. QED
  BY <1>13, <1>14

LEMMA DirectFallbackKeeps ==
  ASSUME SearchAssumption, PlanInv, DirectFallback
  PROVE  PlanInv'
<1>. DEFINE onTime == [t \in DOMAIN query.late |-> 0]
            direct == {i \in query.today : Len(i.legs) = 1 /\ Rides(i.legs) # {}
                                           /\ i.legs[1].departure >= query.departure}
            key(i) == <<IF IsVerified(i) THEN 0 ELSE 1, i.legs[1].arrival, i.legs[1].departure>>
            order == [i \in direct |-> key(i)]
            listed == UpTo(Listed(direct, order), query.conf.maxResults)
            schedule == [n \in DOMAIN listed |-> Timed(listed[n], onTime)]
<1>1. /\ stage = "direct" /\ stage' = "next day"
      /\ UNCHANGED <<query, search, legacy, gathered, unique, broken>>
  BY DEF DirectFallback
<1>2. journeys' = IF journeys # <<>> THEN journeys ELSE schedule
  BY Zenon DEF DirectFallback
<1>3. query \in Queries
  BY DEF PlanInv, PlanTypes
<1>4. direct \subseteq query.today /\ \A i \in direct : Len(i.legs) = 1
  OBVIOUS
<1>5. \A i \in direct : order[i] = key(i)
  OBVIOUS
<1>. HIDE DEF direct, order
<1>6. AreJourneys(schedule) /\ (~HasUnverified(query.today) => AllVerified(schedule))
  BY <1>3, <1>4, <1>5, ScheduleIs
<1>. HIDE DEF schedule
<1>7. AreJourneys(journeys) /\ AreJourneys(gathered) /\ AreJourneys(unique) /\ legacy \in BOOLEAN
  BY DEF PlanInv, PlanTypes
<1>8. PlanTypes'
  <2>1. AreJourneys(journeys')
    BY <1>2, <1>6, <1>7
  <2>. QED
    BY <1>1, <1>7, <2>1, TypesMove DEF PlanInv, SearchStages
<1>9. VerifiedInv'
  <2>1. SUFFICES ASSUME OnTime(query.late), ~legacy
                 PROVE  AllVerified(journeys')
    BY <1>1 DEF VerifiedInv, SearchStages, RankStages
  <2>2. AllVerified(journeys) /\ (journeys = <<>> => ~HasUnverified(query.today))
    BY <1>1, <2>1 DEF PlanInv, VerifiedInv, SearchStages
  <2>. QED
    BY <1>2, <1>6, <2>2
<1>10. RankInv'
  BY <1>1 DEF RankInv, RankStages
<1>. QED
  BY <1>8, <1>9, <1>10 DEF PlanInv

LEMMA GatherKeeps ==
  ASSUME PlanInv, NEW found, Gather(found), AreJourneys(found), legacy' \in BOOLEAN,
         OnTime(query.late) /\ ~legacy' => AllVerified(found)
  PROVE  PlanInv'
<1>1. /\ journeys' = found /\ gathered' = found /\ stage' = "prefer"
      /\ query' = query /\ search' = search /\ unique' = unique /\ broken' = broken
  BY DEF Gather
<1>2. PlanTypes'
  <2>1. AreJourneys(unique)
    BY DEF PlanInv, PlanTypes
  <2>. QED
    BY <1>1, <2>1, TypesMove DEF PlanInv
<1>3. VerifiedInv'
  BY <1>1 DEF VerifiedInv, SearchStages, RankStages
<1>4. RankInv'
  BY <1>1 DEF RankInv, RankStages
<1>. QED
  BY <1>2, <1>3, <1>4 DEF PlanInv

\* The journeys of the next day.
LEMMA ShiftedAre ==
  ASSUME SearchAssumption, NEW s, AreJourneys(s), NEW d, d = [n \in DOMAIN s |-> NextDay(s[n])]
  PROVE  AreJourneys(d) /\ (AllVerified(s) => AllVerified(d))
<1>. DEFINE N == Len(s)
<1>1. N \in Nat /\ DOMAIN s = 1 .. N
  BY PlacesOf DEF AreJourneys
<1>2. d = [n \in 1 .. N |-> d[n]] /\ \A n \in 1 .. N : d[n] = NextDay(s[n])
  BY <1>1
<1>3. \A n \in 1 .. N : s[n] \in Range(s) /\ IsJourney(s[n])
  BY <1>1, EachIn DEF AreJourneys
<1>. HIDE DEF N
<1>4. d \in Seq(Range(d)) /\ DOMAIN d = 1 .. N
  BY <1>1, <1>2, IsSequence
<1>5. \A n \in 1 .. N : IsJourney(d[n]) /\ TripsOf(d[n]) = TripsOf(s[n])
  BY <1>2, <1>3, NextDayIs
<1>6. \A j \in Range(d) : \E n \in 1 .. N : j = d[n]
  BY <1>4 DEF Range
<1>7. AreJourneys(d)
  BY <1>4, <1>5, <1>6 DEF AreJourneys
<1>8. ASSUME AllVerified(s) PROVE AllVerified(d)
  BY <1>3, <1>5, <1>6, <1>8 DEF AllVerified, IsVerified
<1>. QED
  BY <1>7, <1>8

LEMMA JourneysJoin ==
  ASSUME NEW s, AreJourneys(s), NEW t, AreJourneys(t)
  PROVE  AreJourneys(s \o t) /\ (AllVerified(s) /\ AllVerified(t) => AllVerified(s \o t))
<1>1. s \o t \in Seq(Range(s \o t)) /\ Range(s \o t) = Range(s) \cup Range(t)
  BY JoinIs DEF AreJourneys
<1>. QED
  BY <1>1 DEF AreJourneys, AllVerified

LEMMA NextDayKeeps ==
  ASSUME SearchAssumption, PlanInv, IncludeNextDay \/ FallBackToNextDay \/ NoNextDay
  PROVE  PlanInv'
<1>1. AreJourneys(journeys) /\ legacy \in BOOLEAN /\ search.unverified \in BOOLEAN
  BY DEF PlanInv, PlanTypes, SearchType
<1>2. AreJourneys(search.found) /\ (~search.unverified => AllVerified(search.found))
  BY FoundIs
<1>3. CASE IncludeNextDay
  <2>. DEFINE d == [n \in DOMAIN search.found |-> NextDay(search.found[n])]
  <2>1. /\ Gather(journeys \o d) /\ stage \in SearchStages
        /\ legacy' = (legacy \/ search.unverified)
    BY <1>3 DEF IncludeNextDay, Searched, Probed, SearchStages
  <2>2. AreJourneys(d) /\ (AllVerified(search.found) => AllVerified(d))
    BY <1>2, ShiftedAre
  <2>. HIDE DEF d
  <2>3. /\ AreJourneys(journeys \o d)
        /\ AllVerified(journeys) /\ AllVerified(d) => AllVerified(journeys \o d)
    BY <1>1, <2>2, JourneysJoin
  <2>4. OnTime(query.late) /\ ~legacy => AllVerified(journeys)
    BY <2>1 DEF PlanInv, VerifiedInv
  <2>5. legacy' \in BOOLEAN
    BY <2>1, Zenon
  <2>. QED
    BY <1>2, <2>1, <2>2, <2>3, <2>4, <2>5, GatherKeeps
<1>4. CASE FallBackToNextDay
  <2>. DEFINE early == Among(search.found, {j \in Range(search.found) : j.departure < query.departure})
              d == [n \in DOMAIN early |-> NextDay(early[n])]
  <2>1. Gather(d) /\ legacy' = (legacy \/ search.unverified)
    BY <1>4, Zenon DEF FallBackToNextDay
  <2>2. early \in Seq(Range(early)) /\ Range(early) \subseteq Range(search.found)
    BY <1>2, AmongIs DEF AreJourneys
  <2>. HIDE DEF early
  <2>3. AreJourneys(early) /\ (AllVerified(search.found) => AllVerified(early))
    BY <1>2, <2>2, SomeOf DEF AllVerified
  <2>4. AreJourneys(d) /\ (AllVerified(early) => AllVerified(d))
    BY <2>3, ShiftedAre
  <2>. HIDE DEF d
  <2>5. legacy' \in BOOLEAN
    BY <2>1, Zenon
  <2>. QED
    BY <1>2, <2>1, <2>3, <2>4, <2>5, GatherKeeps
<1>5. CASE NoNextDay
  <2>1. Gather(journeys) /\ legacy' = legacy /\ stage = "next day"
    BY <1>5 DEF NoNextDay
  <2>2. OnTime(query.late) /\ ~legacy => AllVerified(journeys)
    BY <2>1 DEF PlanInv, VerifiedInv, SearchStages
  <2>. QED
    BY <1>1, <2>1, <2>2, GatherKeeps
<1>. QED
  BY <1>3, <1>4, <1>5

LEMMA PreferKeeps ==
  ASSUME SearchAssumption, PlanInv, Prefer
  PROVE  PlanInv'
<1>. DEFINE S == {j \in Range(journeys) : ~legacy \/ IsVerified(j)}
            verified == Among(journeys, S)
<1>1. /\ stage = "prefer" /\ stage' = "dedupe"
      /\ UNCHANGED <<query, search, legacy, gathered, unique, broken>>
      /\ journeys' = IF verified = <<>> THEN journeys ELSE verified
  BY DEF Prefer, PreferVerified
<1>2. AreJourneys(journeys) /\ AreJourneys(gathered) /\ AreJourneys(unique) /\ legacy \in BOOLEAN
  BY DEF PlanInv, PlanTypes
<1>3. verified \in Seq(Range(verified)) /\ Range(verified) = Range(journeys) \cap S
  <2>1. journeys \in Seq(Range(journeys))
    BY <1>2 DEF AreJourneys
  <2>. HIDE DEF S
  <2>. QED
    BY <2>1, AmongIs
<1>4. AreJourneys(verified)
  <2>. HIDE DEF verified
  <2>. QED
    BY <1>2, <1>3, SomeOf
<1>5. Range(<<>>) = {}
  BY DEF Range
<1>. HIDE DEF verified
<1>6. PlanTypes'
  <2>1. AreJourneys(journeys')
    BY <1>1, <1>2, <1>4
  <2>. QED
    BY <1>1, <1>2, <2>1, TypesMove DEF PlanInv
<1>7. VerifiedInv'
  <2>1. SUFFICES ASSUME OnTime(query.late)
                 PROVE  AllVerified(journeys') \/ NoneVerified(gathered)
    BY <1>1 DEF VerifiedInv, SearchStages, RankStages
  <2>2. gathered = journeys /\ (~legacy => AllVerified(journeys))
    BY <1>1, <2>1 DEF PlanInv, VerifiedInv
  <2>3. CASE verified = <<>>
    <3>1. Range(journeys) \cap S = {}
      BY <1>3, <1>5, <2>3
    <3>2. legacy => NoneVerified(gathered)
      BY <2>2, <3>1 DEF NoneVerified
    <3>. QED
      BY <1>1, <2>2, <2>3, <3>2
  <2>4. CASE verified # <<>>
    <3>1. AllVerified(verified)
      BY <1>3, <2>2 DEF AllVerified
    <3>. QED
      BY <1>1, <2>4, <3>1
  <2>. QED
    BY <2>3, <2>4
<1>8. RankInv'
  BY <1>1 DEF RankInv, RankStages
<1>. QED
  BY <1>6, <1>7, <1>8 DEF PlanInv

\* Later steps choose among the journeys.
LEMMA Chosen ==
  ASSUME PlanInv, stage \in {"dedupe"} \cup RankStages, stage' \in RankStages,
         UNCHANGED <<query, search, legacy, gathered>>,
         AreJourneys(journeys'), AreJourneys(unique'), Range(journeys') \subseteq Range(journeys)
  PROVE  PlanTypes' /\ VerifiedInv'
<1>1. PlanTypes'
  BY TypesMove DEF PlanInv, PlanTypes
<1>2. VerifiedInv'
  <2>1. OnTime(query.late) => AllVerified(journeys) \/ NoneVerified(gathered)
    BY DEF PlanInv, VerifiedInv
  <2>2. AllVerified(journeys) => AllVerified(journeys')
    BY DEF AllVerified
  <2>3. stage' \notin SearchStages \cup {"prefer"} /\ stage' # "departed" /\ stage' # "prefer"
        /\ stage' \notin {"departed", "direct"}
    BY DEF SearchStages, RankStages
  <2>. QED
    BY <2>1, <2>2, <2>3 DEF VerifiedInv
<1>. QED
  BY <1>1, <1>2

LEMMA DedupeKeeps ==
  ASSUME PlanInv, Dedupe
  PROVE  PlanInv'
<1>1. /\ stage = "dedupe" /\ stage' = "preselect" /\ journeys' = DedupeRelevant(journeys)
      /\ unique' = journeys' /\ UNCHANGED <<query, search, legacy, gathered, broken>>
  BY DEF Dedupe
<1>2. AreJourneys(journeys)
  BY DEF PlanInv, PlanTypes
<1>3. AreJourneys(journeys') /\ Range(journeys') \subseteq Range(journeys) /\ Unique(journeys')
  BY <1>1, <1>2, DedupeIs
<1>4. PlanTypes' /\ VerifiedInv'
  BY <1>1, <1>3, Chosen DEF RankStages
<1>5. RankInv'
  BY <1>1, <1>3 DEF RankInv
<1>. QED
  BY <1>4, <1>5 DEF PlanInv

LEMMA PreselectedIs ==
  ASSUME SearchAssumption, PlanTypes
  PROVE  /\ AreJourneys(Preselected) /\ Range(Preselected) \subseteq Range(unique)
         /\ Unique(unique) /\ AllFit => Range(Preselected) = Range(unique)
<1>. DEFINE c == Preselection(query.conf)
<1>1. Weighs(c) /\ ~c.dominance /\ c.maxResults = 2 * query.conf.maxResults
  BY QueryIs DEF PlanTypes
<1>2. AreJourneys(unique) /\ AreTimed(unique)
  BY JourneysAreTimed DEF PlanTypes
<1>3. Eligible(unique, c) = unique
  BY <1>1 DEF Eligible
<1>. HIDE DEF c
<1>4. Picks(Ranked(unique, c), Range(unique), c.maxResults)
  BY <1>1, <1>2, <1>3, RankedIs
<1>5. Ranked(unique, c) = Preselected
  BY DEF Preselected, c
<1>6. AreJourneys(Preselected) /\ Range(Preselected) \subseteq Range(unique)
  BY <1>2, <1>4, <1>5, SomeOf DEF Picks
<1>7. Unique(unique) /\ AllFit => Range(Preselected) = Range(unique)
  BY <1>1, <1>2, <1>5, RankedWhole DEF AllFit
<1>. QED
  BY <1>6, <1>7

LEMMA ShapedIs ==
  ASSUME SearchAssumption, PlanTypes
  PROVE  /\ AreJourneys(Shaped) /\ Range(Shaped) = {j \in Range(Preselected) : HasGeometry(j, broken)}
         /\ Unique(unique) /\ AllFit => Range(Shaped) = Valid(unique)
         /\ Range(Shaped) \subseteq Range(unique)
<1>. DEFINE S == {j \in Range(Preselected) : HasGeometry(j, broken)}
<1>1. AreJourneys(Preselected) /\ Range(Preselected) \subseteq Range(unique)
  BY PreselectedIs
<1>2. /\ Among(Preselected, S) \in Seq(Range(Among(Preselected, S)))
      /\ Range(Among(Preselected, S)) = Range(Preselected) \cap S
  <2>1. Preselected \in Seq(Range(Preselected))
    BY <1>1 DEF AreJourneys
  <2>. HIDE DEF S
  <2>. QED
    BY <2>1, AmongIs
<1>3. Shaped \in Seq(Range(Shaped)) /\ Range(Shaped) = S
  BY <1>2 DEF Shaped
<1>4. AreJourneys(Shaped)
  BY <1>1, <1>3, SomeOf
<1>5. Unique(unique) /\ AllFit => Range(Shaped) = Valid(unique)
  BY <1>3, PreselectedIs DEF Valid
<1>. QED
  BY <1>1, <1>3, <1>4, <1>5

LEMMA RankedAre ==
  ASSUME NEW s, AreJourneys(s), NEW conf, Weighs(conf)
  PROVE  AreJourneys(Ranked(s, conf)) /\ Range(Ranked(s, conf)) \subseteq Range(s)
<1>1. AreTimed(s)
  BY JourneysAreTimed
<1>2. Range(Eligible(s, conf)) \subseteq Range(s)
  BY <1>1, EligibleIs
<1>3. Picks(Ranked(s, conf), Range(Eligible(s, conf)), conf.maxResults)
  BY <1>1, RankedIs
<1>. QED
  BY <1>2, <1>3, SomeOf DEF Picks

LEMMA PreselectKeeps ==
  ASSUME SearchAssumption, PlanInv, Preselect
  PROVE  PlanInv'
<1>1. /\ stage = "preselect" /\ stage' = "geometry"
      /\ journeys' = Ranked(journeys, Preselection(query.conf))
      /\ UNCHANGED <<query, search, legacy, gathered, unique, broken>>
  BY DEF Preselect
<1>2. journeys = unique /\ Unique(unique)
  BY <1>1 DEF PlanInv, RankInv, RankStages
<1>3. journeys' = Preselected
  BY <1>1, <1>2 DEF Preselected
<1>4. AreJourneys(journeys') /\ Range(journeys') \subseteq Range(journeys) /\ AreJourneys(unique')
  BY <1>1, <1>2, <1>3, PreselectedIs DEF PlanInv, PlanTypes
<1>5. PlanTypes' /\ VerifiedInv'
  BY <1>1, <1>4, Chosen DEF RankStages
<1>6. RankInv'
  BY <1>1, <1>2, <1>3 DEF RankInv, Preselected
<1>. QED
  BY <1>5, <1>6 DEF PlanInv

LEMMA AttachGeometriesKeeps ==
  ASSUME SearchAssumption, PlanInv, AttachGeometries
  PROVE  PlanInv'
<1>. DEFINE S == {j \in Range(journeys) : HasGeometry(j, broken')}
<1>1. /\ stage = "geometry" /\ stage' = "rank" /\ journeys' = Among(journeys, S)
      /\ UNCHANGED <<query, search, legacy, gathered, unique>>
  BY DEF AttachGeometries
<1>2. journeys = Preselected /\ Unique(unique)
  BY <1>1 DEF PlanInv, RankInv, RankStages
<1>3. Preselected' = Preselected
  BY <1>1 DEF Preselected
<1>4. journeys' = Shaped'
  BY <1>1, <1>2, <1>3 DEF Shaped
<1>5. AreJourneys(journeys) /\ AreJourneys(unique)
  BY DEF PlanInv, PlanTypes
<1>6. journeys' \in Seq(Range(journeys')) /\ Range(journeys') \subseteq Range(journeys)
  <2>1. journeys \in Seq(Range(journeys))
    BY <1>5 DEF AreJourneys
  <2>. HIDE DEF S
  <2>. QED
    BY <1>1, <2>1, AmongIs
<1>7. AreJourneys(journeys')
  BY <1>5, <1>6, SomeOf
<1>8. PlanTypes' /\ VerifiedInv'
  BY <1>1, <1>5, <1>6, <1>7, Chosen DEF RankStages
<1>9. RankInv'
  BY <1>1, <1>2, <1>4 DEF RankInv
<1>. QED
  BY <1>8, <1>9 DEF PlanInv

LEMMA FinalRankKeeps ==
  ASSUME SearchAssumption, PlanInv, FinalRank
  PROVE  PlanInv'
<1>1. /\ stage = "rank" /\ stage' = "answered" /\ journeys' = Ranked(journeys, query.conf)
      /\ UNCHANGED <<query, search, legacy, gathered, unique, broken>>
  BY DEF FinalRank
<1>2. journeys = Shaped /\ Unique(unique)
  BY <1>1 DEF PlanInv, RankInv, RankStages
<1>3. Shaped' = Shaped
  BY <1>1 DEF Shaped, Preselected
<1>4. Weighs(query.conf) /\ AreJourneys(journeys) /\ AreJourneys(unique)
  BY QueryIs DEF PlanInv, PlanTypes
<1>5. AreJourneys(journeys') /\ Range(journeys') \subseteq Range(journeys)
  BY <1>1, <1>4, RankedAre
<1>6. PlanTypes' /\ VerifiedInv'
  BY <1>1, <1>4, <1>5, Chosen DEF RankStages
<1>7. RankInv'
  BY <1>1, <1>2, <1>3 DEF RankInv
<1>. QED
  BY <1>6, <1>7 DEF PlanInv

\* Typing, what is known of unverified services, and how the candidates were chosen.
THEOREM PlanInductive ==
  ASSUME SearchAssumption
  PROVE  Spec => []PlanInv
<1>1. Init => PlanInv
  <2>1. SUFFICES ASSUME Init PROVE PlanInv
    OBVIOUS
  <2>2. AreJourneys(<<>>) /\ AllVerified(<<>>)
    <3>1. <<>> \in Seq(Range(<<>>)) /\ Range(<<>>) = {}
      BY DEF Range
    <3>. QED
      BY <3>1 DEF AreJourneys, AllVerified
  <2>3. SearchType
    <3>1. search = [tomorrow |-> FALSE, unverified |-> FALSE, found |-> <<>>, avoid |-> {}, passes |-> 0]
      BY <2>1 DEF Init, NewSearch
    <3>. DEFINE S == Seq(Of(Ask))
    <3>2. <<>> \in S
      OBVIOUS
    <3>. HIDE DEF S
    <3>3. search \in [tomorrow : BOOLEAN, unverified : BOOLEAN, found : S,
                      avoid : {search.avoid}, passes : {search.passes}]
      BY <3>1, <3>2
    <3>. QED
      BY <3>3 DEF SearchType, S
  <2>4. /\ query \in Queries /\ stage = "probe" /\ journeys = <<>> /\ legacy = FALSE
        /\ gathered = <<>> /\ unique = <<>>
    BY <2>1 DEF Init
  <2>5. PlanTypes
    BY <2>2, <2>3, <2>4 DEF PlanTypes, SearchStages
  <2>6. VerifiedInv
    BY <2>2, <2>4 DEF VerifiedInv, SearchStages, RankStages
  <2>7. RankInv
    BY <2>4 DEF RankInv, RankStages
  <2>. QED
    BY <2>5, <2>6, <2>7 DEF PlanInv
<1>2. PlanInv /\ [Next]_vars => PlanInv'
  <2>1. SUFFICES ASSUME PlanInv, [Next]_vars PROVE PlanInv'
    OBVIOUS
  <2>2. CASE UNCHANGED vars
    <3>1. /\ query' = query /\ stage' = stage /\ search' = search /\ journeys' = journeys
          /\ legacy' = legacy /\ gathered' = gathered /\ unique' = unique /\ broken' = broken
      BY <2>2 DEF vars
    <3>2. PlanTypes'
      BY <2>1, <3>1, SearchUnchanged DEF PlanInv, PlanTypes
    <3>3. VerifiedInv'
      BY <2>1, <3>1 DEF PlanInv, VerifiedInv
    <3>4. RankInv'
      BY <2>1, <3>1 DEF PlanInv, RankInv, Shaped, Preselected
    <3>. QED
      BY <3>2, <3>3, <3>4 DEF PlanInv
  <2>3. CASE Next
    BY <2>1, <2>3, ProbeWindowKeeps, ProbeAlternativesKeeps, AgainKeeps, SearchKeeps,
       DiscardDepartedKeeps, DirectFallbackKeeps, NextDayKeeps, PreferKeeps, DedupeKeeps,
       PreselectKeeps, AttachGeometriesKeeps, FinalRankKeeps DEF Next
  <2>. QED
    BY <2>1, <2>2, <2>3
<1>. QED
  BY <1>1, <1>2, PTL DEF Spec

-----------------------------------------------------------------------------

\* Of what is answered, by what has geometry.
LEMMA AnsweredIs ==
  ASSUME SearchAssumption, PlanInv, stage = "answered", AllFit
  PROVE  /\ AreTimed(Shaped) /\ Weighs(query.conf) /\ Range(Shaped) = Valid(unique)
         /\ Valid(unique) \subseteq Range(unique) /\ Unique(unique)
         /\ journeys = Ranked(Shaped, query.conf) /\ AreTimed(journeys)
<1>1. Unique(unique) /\ journeys = Ranked(Shaped, query.conf)
  BY DEF PlanInv, RankInv, RankStages
<1>2. AreJourneys(Shaped) /\ Range(Shaped) = Valid(unique) /\ Range(Shaped) \subseteq Range(unique)
  BY <1>1, ShapedIs DEF PlanInv
<1>3. Weighs(query.conf) /\ AreJourneys(journeys)
  BY QueryIs DEF PlanInv, PlanTypes
<1>. QED
  BY <1>1, <1>2, <1>3, JourneysAreTimed

\* What an answer with room lacks is dominated by what it has, or is the same rides: the
\* preselection and the lost geometry take nothing else (ranked_journey_results).
THEOREM FallbacksSurvive ==
  ASSUME SearchAssumption
  PROVE  Spec => []FallbackSurvives
<1>1. PlanInv => FallbackSurvives
  <2>1. SUFFICES ASSUME PlanInv, stage = "answered", AllFit, Len(journeys) < query.conf.maxResults,
                        NEW j \in Valid(unique)
                 PROVE  \E k \in Range(journeys) : \/ Identity(k) = Identity(j)
                                                   \/ query.conf.dominance /\ Dominates(k, j, query.conf)
    BY DEF FallbackSurvives
  <2>. DEFINE E == Range(Eligible(Shaped, query.conf))
  <2>2. /\ AreTimed(Shaped) /\ Weighs(query.conf) /\ Range(Shaped) = Valid(unique)
        /\ Valid(unique) \subseteq Range(unique) /\ Unique(unique)
        /\ journeys = Ranked(Shaped, query.conf)
    BY <2>1, AnsweredIs
  <2>3. E \subseteq Range(Shaped)
    BY <2>2, EligibleIs
  <2>4. j \in E \/ (query.conf.dominance /\ \E f \in E : Dominates(f, j, query.conf))
    BY <2>2, EligibleIs
  <2>5. /\ Picks(journeys, E, query.conf.maxResults)
        /\ \A e \in E : Identity(e) \in Keys(journeys)
    BY <2>1, <2>2, RankedIs
  <2>. HIDE DEF E
  <2>6. \A e \in E : \E k \in Range(journeys) : Identity(k) = Identity(e)
    BY <2>5 DEF Keys
  <2>7. \A k \in Range(journeys), e \in E : Identity(k) = Identity(e) => k = e
    <3>1. SUFFICES ASSUME NEW k \in Range(journeys), NEW e \in E, Identity(k) = Identity(e)
                   PROVE  k = e
      OBVIOUS
    <3>2. k \in Range(unique) /\ e \in Range(unique)
      BY <2>2, <2>3, <2>5 DEF Picks
    <3>3. PICK m \in DOMAIN unique, n \in DOMAIN unique : unique[m] = k /\ unique[n] = e
      BY <3>2 DEF Range
    <3>. QED
      BY <2>2, <3>1, <3>3 DEF Unique
  <2>. QED
    BY <2>4, <2>6, <2>7
<1>. QED
  BY <1>1, PlanInductive, PTL

LEMMA WeightedMore ==
  ASSUME NEW a \in Int, NEW b \in Int, a < b, NEW w \in Nat
  PROVE  a * w < b * w \/ (a * w = 0 /\ b * w = 0)
<1>1. CASE w = 0
  BY <1>1
<1>2. CASE w > 0
  <2>. DEFINE d == b - a
              e == d - 1
  <2>1. d \in Nat \ {0} /\ e \in Nat /\ b = a + d /\ d = e + 1
    OBVIOUS
  <2>. HIDE DEF d, e
  <2>2. (a + d) * w = a * w + d * w
    BY <2>1
  <2>3. d * w = e * w + w
    BY <2>1
  <2>4. e * w \in Nat /\ a * w \in Int /\ d * w \in Int
    BY <2>1
  <2>. QED
    BY <1>2, <2>1, <2>2, <2>3, <2>4
<1>. QED
  BY <1>1, <1>2

\* While arrival alone is weighed, an earlier arrival is a better rank.
LEMMA EarlierRanks ==
  ASSUME NEW j, IsTimed(j), NEW k, IsTimed(k), NEW conf, Weighs(conf),
         conf.durationWeight = 0, conf.transferPenalty = 0, j.arrival < k.arrival
  PROVE  Less(Rank(j, conf), Rank(k, conf))
<1>1. /\ j.arrival \in Int /\ k.arrival \in Int /\ conf.arrivalWeight \in Nat
      /\ j.changes \in Int /\ k.changes \in Int /\ Duration(j) \in Int /\ Duration(k) \in Int
  BY RankIsKey DEF IsTimed, Weighs
<1>2. \A x \in Int : x * 0 = 0
  OBVIOUS
<1>. DEFINE a == j.arrival * conf.arrivalWeight
            b == k.arrival * conf.arrivalWeight
<1>3. a \in Int /\ b \in Int
  BY <1>1
<1>4. a < b \/ (a = 0 /\ b = 0)
  BY <1>1, WeightedMore
<1>5. Score(j, conf) = a /\ Score(k, conf) = b
  <2>1. Score(j, conf) = a + 0 + 0 /\ Score(k, conf) = b + 0 + 0
    BY <1>1, <1>2 DEF Score
  <2>. HIDE DEF a, b
  <2>. QED
    BY <1>3, <2>1
<1>. HIDE DEF a, b
<1>6. /\ Rank(j, conf)[1] = a /\ Rank(j, conf)[2] = j.arrival /\ DOMAIN Rank(j, conf) = 1 .. 5
      /\ Rank(k, conf)[1] = b /\ Rank(k, conf)[2] = k.arrival
  BY <1>5 DEF Rank
<1>. DEFINE r == Rank(j, conf)
            q == Rank(k, conf)
<1>. HIDE DEF r, q
<1>7. CASE a < b
  <2>1. 1 \in DOMAIN r /\ r[1] < q[1] /\ \A h \in 1 .. 1 - 1 : r[h] = q[h]
    BY <1>6, <1>7 DEF r, q
  <2>2. Less(r, q)
    BY <2>1 DEF Less
  <2>. QED
    BY <2>2 DEF r, q
<1>8. CASE a = 0 /\ b = 0
  <2>1. 2 \in DOMAIN r /\ r[2] < q[2] /\ r[1] = q[1]
    BY <1>6, <1>8 DEF r, q
  <2>2. \A h \in 1 .. 2 - 1 : r[h] = q[h]
    BY <2>1
  <2>3. Less(r, q)
    BY <2>1, <2>2 DEF Less
  <2>. QED
    BY <2>3 DEF r, q
<1>. QED
  BY <1>4, <1>7, <1>8

\* The one called the fastest arrives no later than any other.
LEMMA FastestIs ==
  ASSUME NEW s, AreTimed(s), s # <<>>
  PROVE  Fastest(s) \in Range(s) /\ \A j \in Range(s) : Fastest(s).arrival =< j.arrival
<1>. DEFINE keys == [n \in DOMAIN s |-> <<s[n].arrival, Duration(s[n]), s[n].changes, s[n].departure>>]
<1>1. HasKeys(s, keys, 4)
  BY OtherKeys
<1>2. Fastest(s) = FirstBy(s, keys)
  BY Zenon DEF Fastest
<1>3. \A n \in DOMAIN s : keys[n][1] = s[n].arrival /\ DOMAIN keys[n] = 1 .. 4
  OBVIOUS
<1>. HIDE DEF keys
<1>4. PICK n \in DOMAIN s : Fastest(s) = s[n] /\ \A m \in DOMAIN s : ~Less(keys[m], keys[n])
  BY <1>1, <1>2, FirstByIs
<1>5. \A m \in DOMAIN s : s[m].arrival \in Int
  BY EachIn DEF AreTimed, IsTimed
<1>6. ASSUME NEW m \in DOMAIN s PROVE s[n].arrival =< s[m].arrival
  <2>1. SUFFICES ASSUME s[m].arrival < s[n].arrival PROVE FALSE
    BY <1>5
  <2>2. 1 \in DOMAIN keys[m] /\ keys[m][1] < keys[n][1] /\ \A h \in 1 .. 1 - 1 : keys[m][h] = keys[n][h]
    BY <1>3, <2>1
  <2>3. Less(keys[m], keys[n])
    BY <2>2, Zenon DEF Less
  <2>. QED
    BY <1>4, <2>3
<1>. QED
  BY <1>4, <1>6 DEF Range

\* While arrival alone is weighed, nothing that has its geometry arrives before the first
\* result, whatever is asked for beside it (Selected).
THEOREM EarliestIsTheFirst ==
  ASSUME SearchAssumption
  PROVE  Spec => []EarliestIsFirst
<1>1. PlanInv => EarliestIsFirst
  <2>1. SUFFICES ASSUME PlanInv, stage = "answered", AllFit, Valid(unique) # {},
                        query.conf.durationWeight = 0, query.conf.transferPenalty = 0
                 PROVE  /\ journeys # <<>> /\ Fastest(journeys).arrival = journeys[1].arrival
                        /\ \A j \in Valid(unique) : journeys[1].arrival =< j.arrival
    BY DEF EarliestIsFirst
  <2>. DEFINE E == Range(Eligible(Shaped, query.conf))
              first == journeys[1]
  <2>2. /\ AreTimed(Shaped) /\ Weighs(query.conf) /\ Range(Shaped) = Valid(unique)
        /\ journeys = Ranked(Shaped, query.conf) /\ AreTimed(journeys)
    BY <2>1, AnsweredIs
  <2>3. E \subseteq Valid(unique)
    BY <2>2, EligibleIs
  <2>4. \A j \in Valid(unique) : j \in E \/ \E f \in E : Dominates(f, j, query.conf)
    BY <2>2, EligibleIs
  <2>5. E # {}
    BY <2>1, <2>4
  <2>6. /\ Picks(journeys, E, query.conf.maxResults) /\ journeys # <<>>
        /\ \A e \in E : ~Less(Rank(e, query.conf), Rank(first, query.conf))
    BY <2>2, <2>5, RankedIs
  <2>7. \A e \in E : IsTimed(e)
    BY <2>2, <2>3 DEF AreTimed
  <2>. HIDE DEF E
  <2>8. first \in Range(journeys)
    <3>1. journeys \in Seq(Range(journeys)) /\ Len(journeys) # 0
      BY <2>2, <2>6 DEF AreTimed
    <3>2. 1 \in DOMAIN journeys
      BY <3>1, PlacesOf
    <3>. QED
      BY <3>2, EachIn
  <2>9. first \in E /\ Range(journeys) \subseteq E
    BY <2>6, <2>8 DEF Picks
  <2>. HIDE DEF first
  <2>10. \A e \in E : first.arrival =< e.arrival
    <3>1. ASSUME NEW e \in E PROVE first.arrival =< e.arrival
      <4>1. IsTimed(e) /\ IsTimed(first) /\ ~Less(Rank(e, query.conf), Rank(first, query.conf))
        BY <2>6, <2>7, <2>9
      <4>2. ~(e.arrival < first.arrival)
        BY <2>1, <2>2, <4>1, EarlierRanks
      <4>. QED
        BY <4>1, <4>2 DEF IsTimed
    <3>. QED
      BY <3>1
  <2>11. \A j \in Valid(unique) : first.arrival =< j.arrival
    <3>1. ASSUME NEW j \in Valid(unique) PROVE first.arrival =< j.arrival
      <4>1. IsTimed(j) /\ IsTimed(first)
        BY <2>2, <2>7, <2>9 DEF AreTimed
      <4>2. CASE j \in E
        BY <2>10, <4>2
      <4>3. ASSUME NEW f \in E, Dominates(f, j, query.conf) PROVE first.arrival =< j.arrival
        <5>1. first.arrival =< f.arrival /\ f.arrival =< j.arrival /\ IsTimed(f)
          BY <2>7, <2>10, <4>3 DEF Dominates, TimeDominates, NoWorse
        <5>. QED
          BY <4>1, <5>1 DEF IsTimed
      <4>. QED
        BY <2>4, <4>2, <4>3
    <3>. QED
      BY <3>1
  <2>12. Fastest(journeys).arrival = first.arrival
    <3>1. Fastest(journeys) \in Range(journeys) /\ Fastest(journeys).arrival =< first.arrival
      BY <2>2, <2>6, <2>8, FastestIs
    <3>2. first.arrival =< Fastest(journeys).arrival
      BY <2>9, <2>10, <3>1
    <3>3. IsTimed(first) /\ IsTimed(Fastest(journeys))
      BY <2>7, <2>9, <3>1
    <3>. QED
      BY <3>1, <3>2, <3>3 DEF IsTimed
  <2>. QED
    BY <2>6, <2>11, <2>12 DEF first
<1>. QED
  BY <1>1, PlanInductive, PTL

\* Without delays a result with an unverified service means that no verified candidate was
\* found, for the day or the next (prefer_calendar_verified_journeys and what precedes it).
THEOREM VerifiedAreFirst ==
  ASSUME SearchAssumption
  PROVE  Spec => []VerifiedFirst
<1>1. PlanInv => VerifiedFirst
  BY DEF PlanInv, VerifiedInv, VerifiedFirst, OnTime, AllVerified, NoneVerified, RankStages
<1>. QED
  BY <1>1, PlanInductive, PTL

=============================================================================

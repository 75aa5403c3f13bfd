-------------------------- MODULE Dispatcher_proofs -------------------------
(***************************************************************************)
(* Proofs about Dispatcher, for every number of messages and callers, all  *)
(* intervals and every set of faults.                                      *)
(*                                                                         *)
(* Most steps ask for work: they post or cancel rows, age or reset them,   *)
(* and may take one row in hand (Asks).  The others belong to the delivery *)
(* under way.  Each invariant is proved for Asks once.                     *)
(***************************************************************************)
EXTENDS Dispatcher, WellFoundedInduction, TLAPS

DrainType == [on : BOOLEAN, timer : {"none", "set", "due"}, attempt : 0 .. DrainMax - 1]

-----------------------------------------------------------------------------
(* What a step that is not part of a delivery does                         *)

Skips == UNCHANGED <<inFlight, pc, doing>>

Claims(p) == \E m \in Msg :
                /\ ~inFlight
                /\ queue'[m].status = "pending"
                /\ inFlight' = TRUE
                /\ pc' = [pc EXCEPT ![p] = "locking"]
                /\ doing' = [doing EXCEPT ![p] = m]

Posted(was, is) == \/ is = was
                   \/ was = "none" /\ is = "pending"
                   \/ was = "pending" /\ is = "failed"

(* Rows change their status only so, and only withdrawn ones to failed.    *)
RowsAsked(q, gone) ==
    /\ q \in [Msg -> Row]
    /\ \A m \in Msg : /\ Posted(queue[m].status, q[m].status)
                      /\ q[m].status = "failed" => queue[m].status = "failed" \/ m \in gone

Attempted(p, q) == /\ queue' \in [Msg -> Row]
                   /\ \A m \in Msg : queue'[m].status = q[m].status
                   /\ drain' \in DrainType
                   /\ answer' = answer
                   /\ Skips \/ Claims(p)

Asks == /\ RowsAsked(queue', withdrawn')
        /\ withdrawn \subseteq withdrawn' /\ withdrawn' \subseteq Msg
        /\ drain' \in DrainType
        /\ UNCHANGED <<answer, copies, replied, untold>>
        /\ avail' \in BOOLEAN /\ idleDue' \in BOOLEAN
        /\ up' \in BOOLEAN /\ sweepDue' \in BOOLEAN
        /\ Skips \/ \E p \in Proc : Claims(p)

-----------------------------------------------------------------------------
(* Every non-empty set of messages has an oldest one.                      *)
LEMMA HasLeast == ASSUME NEW S \in SUBSET Msg, S # {}
                  PROVE  \E m \in S : \A n \in S : m <= n
<1> DEFINE R == {ss \in Nat \X Nat : ss[1] < ss[2]}
<1>1. IsWellFoundedOn(R, Nat)
  BY NatLessThanWellFounded DEF OpToRel
<1>2. S \subseteq Nat
  BY DispatcherAssumption DEF Msg
<1> HIDE DEF R
<1>3. PICK m \in S : \A n \in S : ~(<<n, m>> \in R)
  BY <1>1, <1>2, WFMin, Zenon
<1>4. \A n \in S : ~(n < m)
  BY <1>2, <1>3 DEF R
<1>5. QED
  BY <1>2, <1>4

(* The oldest of some messages is one of them.                             *)
LEMMA OldestIsMember == ASSUME NEW S \in SUBSET Msg, S # {} PROVE Oldest(S) \in S
BY HasLeast DEF Oldest

(* A message that arrives is one not seen before.                          *)
LEMMA ArrivalIsFresh == ASSUME Fresh # {} PROVE Arrival \in Fresh
BY HasLeast DEF Arrival, Fresh

(* What the queries make of a row: the status is the one they name.        *)
LEMMA RowEffects ==
    ASSUME NEW r \in Row
    PROVE  /\ Another(r.retry) \in 0 .. MaxRetries + 1
           /\ [r EXCEPT !.retry = Another(@), !.due = Backoff[1]] \in Row
           /\ AttemptFailed(r) \in Row
           /\ AttemptFailed(r).status \in {r.status, "failed"}
           /\ [r EXCEPT !.age = 1] \in Row
           /\ \A s \in {"pending", "failed", "delivered"} : [r EXCEPT !.status = s] \in Row
<1>1. /\ MaxRetries \in Nat \ {0} /\ StaleAfter \in Nat
      /\ Backoff \in [1 .. MaxRetries -> Nat]
  BY DispatcherAssumption
<1>2. /\ r.retry \in 0 .. MaxRetries + 1
      /\ r.status \in {"none", "pending", "delivered", "failed"}
      /\ r.due \in Nat /\ r.age \in 0 .. StaleAfter + 2
  BY DEF Row
<1>3. Another(r.retry) \in 0 .. MaxRetries + 1 /\ Another(r.retry) >= 1
  BY <1>1, <1>2 DEF Another
<1>4. Backoff[1] \in Nat
  BY <1>1
<1>5. [r EXCEPT !.retry = Another(@), !.due = Backoff[1]] \in Row
  BY <1>3, <1>4 DEF Row
<1>6. AttemptFailed(r) \in Row /\ AttemptFailed(r).status \in {r.status, "failed"}
  <2>1. CASE Another(r.retry) >= MaxRetries
    BY <1>3, <2>1 DEF AttemptFailed, Row
  <2>2. CASE ~(Another(r.retry) >= MaxRetries)
    <3>1. Another(r.retry) \in 1 .. MaxRetries
      BY <1>1, <1>3, <2>2
    <3>2. Backoff[Another(r.retry)] \in Nat
      BY <1>1, <3>1
    <3>3. AttemptFailed(r) = [r EXCEPT !.retry = Another(r.retry),
                                       !.due = Backoff[Another(r.retry)]]
      BY <2>2 DEF AttemptFailed
    <3>4. QED
      BY <1>3, <3>2, <3>3 DEF Row
  <2>3. QED
    BY <2>1, <2>2
<1>7. [r EXCEPT !.age = 1] \in Row
  BY <1>1 DEF Row
<1>8. \A s \in {"pending", "failed", "delivered"} : [r EXCEPT !.status = s] \in Row
  BY DEF Row
<1>9. QED
  BY <1>3, <1>5, <1>6, <1>7, <1>8

(* resetStaleAttempts changes no status.                                   *)
LEMMA ResetEffect ==
    ASSUME NEW q \in [Msg -> Row]
    PROVE  /\ Reset(q) \in [Msg -> Row]
           /\ \A m \in Msg : Reset(q)[m].status = q[m].status
<1>1. \A m \in Msg : /\ [q[m] EXCEPT !.retry = Another(@), !.due = Backoff[1]] \in Row
                     /\ q[m] \in Row
  BY RowEffects
<1>2. \A m \in Msg : [q[m] EXCEPT !.retry = Another(@), !.due = Backoff[1]].status = q[m].status
  BY DEF Row
<1>3. QED
  BY <1>1, <1>2 DEF Reset

(* Inserting a row writes the row of the arrival and no other.             *)
LEMMA InsertEffect ==
    ASSUME NEW q \in [Msg -> Row], Fresh # {}
    PROVE  /\ Inserted(q) \in [Msg -> Row]
           /\ Arrival \in Msg /\ queue[Arrival].status = "none"
           /\ \A m \in Msg : Inserted(q)[m].status = IF m = Arrival THEN "pending"
                                                     ELSE q[m].status
<1>1. Arrival \in Msg /\ queue[Arrival].status = "none"
  BY ArrivalIsFresh DEF Fresh
<1>2. [q[Arrival] EXCEPT !.status = "pending"] \in Row
  BY <1>1, RowEffects
<1>3. [q[Arrival] EXCEPT !.status = "pending"].status = "pending"
  BY <1>1 DEF Row
<1>4. QED
  BY <1>1, <1>2, <1>3 DEF Inserted

(* An agent without a drain is in the range of the table of drains.        *)
LEMMA NoDrainType == NoDrain \in DrainType
BY DispatcherAssumption DEF NoDrain, DrainType

(* Going on with a drain keeps the table of drains typed.                  *)
LEMMA ContinueEffect ==
    ASSUME drain \in DrainType, NEW p \in Proc, NEW q, Continue(p, q)
    PROVE  drain' \in DrainType
<1>1. /\ DrainMax \in Nat \ {0} /\ drain.attempt \in 0 .. DrainMax - 1
  BY DispatcherAssumption DEF DrainType
<1>2. /\ NoDrain \in DrainType /\ Armed(0) \in DrainType
      /\ drain.attempt + 1 < DrainMax => Armed(drain.attempt + 1) \in DrainType
  BY <1>1 DEF Armed, NoDrain, DrainType
<1>3. QED
  BY <1>2 DEF Continue, Schedule

(* Taking up the head of the queue is an attempt on one pending row.       *)
LEMMA BeginEffect ==
    ASSUME drain \in DrainType, NEW p \in Proc, NEW q \in [Msg -> Row], Begin(p, q)
    PROVE  Attempted(p, q)
<1>1. ASSUME Claimable(q),
             queue' = [q EXCEPT ![Oldest(Deliverable(q))].age = 1],
             doing' = [doing EXCEPT ![p] = Oldest(Deliverable(q))],
             inFlight' = TRUE, pc' = [pc EXCEPT ![p] = "locking"],
             drain' = IF p = Drain THEN [drain EXCEPT !.timer = "none"] ELSE drain,
             answer' = answer
      PROVE  Attempted(p, q)
  <2> DEFINE m == Oldest(Deliverable(q))
  <2>1. m \in Deliverable(q) /\ ~inFlight
    BY <1>1, OldestIsMember DEF Claimable, Deliverable, Pending
  <2>2. m \in Msg /\ q[m].status = "pending"
    BY <2>1 DEF Deliverable, Pending
  <2>3. [q[m] EXCEPT !.age = 1] \in Row /\ [q[m] EXCEPT !.age = 1].status = q[m].status
    <3>1. q[m] \in Row
      BY <2>2
    <3>2. QED
      BY <3>1, RowEffects DEF Row
  <2>4. queue' \in [Msg -> Row] /\ \A n \in Msg : queue'[n].status = q[n].status
    BY <1>1, <2>2, <2>3
  <2>5. drain' \in DrainType
    BY <1>1 DEF DrainType
  <2>6. Claims(p)
    BY <1>1, <2>1, <2>2, <2>4 DEF Claims
  <2>7. QED
    BY <1>1, <2>4, <2>5, <2>6 DEF Attempted
<1>2. ASSUME queue' = q, Continue(p, q), UNCHANGED <<inFlight, pc, doing, answer>>
      PROVE  Attempted(p, q)
  BY <1>2, ContinueEffect DEF Attempted, Skips
<1>3. QED
  BY <1>1, <1>2 DEF Begin

(* Asking for a drain keeps the table of drains typed.                     *)
LEMMA ScheduleEffect ==
    ASSUME drain \in DrainType, NEW S, Schedule(S) PROVE drain' \in DrainType
BY DispatcherAssumption DEF Schedule, Armed, DrainType

(* A caller that tries to deliver makes an attempt, or asks for a drain.   *)
LEMMA CallEffect ==
    ASSUME drain \in DrainType, NEW c \in Caller, NEW q \in [Msg -> Row], TryDeliver(c, q)
    PROVE  Attempted(c, q)
<1>1. c \in Proc /\ Reset(q) \in [Msg -> Row]
  BY ResetEffect DEF Proc
<1>2. CASE avail
  <2>1. Attempted(c, Reset(q))
    BY <1>1, <1>2, BeginEffect DEF TryDeliver
  <2>2. QED
    BY <2>1, ResetEffect DEF Attempted
<1>3. CASE ~avail
  BY <1>1, <1>3, ResetEffect, ScheduleEffect DEF TryDeliver, Attempted, Skips
<1>4. QED
  BY <1>2, <1>3

(* A call of tryDeliver on the rows as a handler left them.                *)
LEMMA AttemptAsks ==
    ASSUME NEW p \in Proc, NEW q, Attempted(p, q), RowsAsked(q, withdrawn'),
           withdrawn \subseteq withdrawn', withdrawn' \subseteq Msg,
           UNCHANGED <<copies, replied, untold>>,
           avail' \in BOOLEAN, idleDue' \in BOOLEAN, up' \in BOOLEAN, sweepDue' \in BOOLEAN
    PROVE  Asks
BY DEF Attempted, RowsAsked, Asks

Asking == \/ \E c \in Caller : Enqueue(c) \/ IdleDetected(c) \/ Sweep(c)
          \/ \E c \in Caller, m \in Msg : Withdraw(c, m)
          \/ DrainTurn \/ EnqueueReply \/ OtherSweep
          \/ Leave \/ ComeBack \/ Restart \/ Tick

(* Every action that asks for a delivery has the effects Asks lists.       *)
LEMMA AskingAsks == ASSUME TypeOK, Asking PROVE Asks
<1>0. /\ drain \in DrainType /\ queue \in [Msg -> Row]
      /\ withdrawn \subseteq Msg
      /\ avail \in BOOLEAN /\ idleDue \in BOOLEAN /\ up \in BOOLEAN /\ sweepDue \in BOOLEAN
  BY DEF TypeOK, DrainType
<1>0a. \A g : RowsAsked(queue, g)
  BY <1>0 DEF RowsAsked, Posted
<1>0b. Caller \subseteq Proc /\ Drain \in Proc
  BY DEF Proc
<1>1. ASSUME Fresh # {} PROVE \A g : RowsAsked(Inserted(queue), g)
  BY <1>0, <1>1, InsertEffect DEF RowsAsked, Posted
<1>2. ASSUME NEW c \in Caller, Enqueue(c) PROVE Asks
  <2>1. Attempted(c, Inserted(queue)) /\ Fresh # {}
    BY <1>0, <1>2, CallEffect, InsertEffect DEF Enqueue
  <2>2. QED
    BY <1>0, <1>0b, <1>1, <1>2, <2>1, AttemptAsks DEF Enqueue, agent, process
<1>3. ASSUME NEW c \in Caller, IdleDetected(c) PROVE Asks
  <2>1. Attempted(c, queue)
    BY <1>0, <1>3, CallEffect DEF IdleDetected
  <2>2. QED
    BY <1>0, <1>0a, <1>0b, <1>3, <2>1, AttemptAsks DEF IdleDetected, process
<1>4. ASSUME NEW c \in Caller, Sweep(c) PROVE Asks
  <2>1. CASE Pending(queue) # {}
    <3>1. Attempted(c, queue)
      BY <1>0, <1>4, <2>1, CallEffect DEF Sweep
    <3>2. QED
      BY <1>0, <1>0a, <1>0b, <1>4, <3>1, AttemptAsks DEF Sweep, agent
  <2>2. CASE Pending(queue) = {}
    BY <1>0, <1>0a, <1>4, <2>2 DEF Sweep, Asks, Skips, agent, memory
  <2>3. QED
    BY <2>1, <2>2
<1>5. ASSUME NEW c \in Caller, NEW m \in Msg, Withdraw(c, m) PROVE Asks
  <2> DEFINE q == IF queue[m].status = "pending"
                  THEN [queue EXCEPT ![m].status = "failed"] ELSE queue
  <2>1. [queue[m] EXCEPT !.status = "failed"] \in Row
        /\ [queue[m] EXCEPT !.status = "failed"].status = "failed"
    <3>1. queue[m] \in Row
      BY <1>0
    <3>2. QED
      BY <3>1, RowEffects DEF Row
  <2>2. q \in [Msg -> Row]
    BY <1>0, <2>1
  <2>3. \A n \in Msg : q[n].status = IF n = m /\ queue[m].status = "pending" THEN "failed"
                                     ELSE queue[n].status
    BY <1>0, <2>1
  <2> HIDE DEF q
  <2>4. Fresh # {} /\ TryDeliver(c, Inserted(q)) /\ withdrawn' = withdrawn \cup {m}
    BY <1>5 DEF Withdraw, q
  <2>5. Attempted(c, Inserted(q))
    BY <1>0, <2>2, <2>4, CallEffect, InsertEffect
  <2>6. RowsAsked(Inserted(q), withdrawn')
    <3>1. Inserted(q) \in [Msg -> Row]
      BY <2>2, <2>4, InsertEffect
    <3>2. ASSUME NEW n \in Msg
          PROVE  /\ Posted(queue[n].status, Inserted(q)[n].status)
                 /\ Inserted(q)[n].status = "failed"
                        => queue[n].status = "failed" \/ n \in withdrawn'
      BY <2>2, <2>3, <2>4, InsertEffect DEF Posted
    <3>3. QED
      BY <3>1, <3>2 DEF RowsAsked
  <2>7. QED
    BY <1>0, <1>0b, <1>5, <2>4, <2>5, <2>6, AttemptAsks DEF Withdraw, agent, process
<1>6. ASSUME DrainTurn PROVE Asks
  <2>1. CASE avail
    <3>1. Attempted(Drain, Reset(queue))
      BY <1>0, <1>0b, <1>6, <2>1, BeginEffect, ResetEffect DEF DrainTurn
    <3>2. RowsAsked(Reset(queue), withdrawn')
      BY <1>0, ResetEffect DEF RowsAsked, Posted
    <3>3. QED
      BY <1>0, <1>0b, <1>6, <3>1, <3>2, AttemptAsks DEF DrainTurn, agent, process
  <2>2. CASE ~avail
    <3>1. RowsAsked(Reset(queue), withdrawn')
      BY <1>0, ResetEffect DEF RowsAsked, Posted
    <3>2. QED
      BY <1>0, <1>6, <2>2, <3>1, NoDrainType DEF DrainTurn, Asks, Skips, agent, process
  <2>3. QED
    BY <2>1, <2>2
<1>7. ASSUME EnqueueReply PROVE Asks
  BY <1>0, <1>1, <1>7 DEF EnqueueReply, Asks, Skips, memory, agent, process
<1>8. ASSUME OtherSweep PROVE Asks
  <2>1. RowsAsked(Reset(queue), withdrawn')
    BY <1>0, ResetEffect DEF RowsAsked, Posted
  <2>2. QED
    BY <1>0, <1>8, <2>1 DEF OtherSweep, Asks, Skips, memory, agent, process
<1>9. ASSUME Leave \/ ComeBack \/ Restart PROVE Asks
  BY <1>0, <1>0a, <1>9 DEF Leave, ComeBack, Restart, Asks, Skips, table, memory, agent, process
<1>10. ASSUME Tick PROVE Asks
  <2>1. ASSUME NEW m \in Msg
        PROVE  [queue[m] EXCEPT !.due = IF @ = 0 THEN 0 ELSE @ - 1,
                  !.age = IF @ \in {0, StaleAfter + 2} THEN @ ELSE @ + 1]
               \in {r \in Row : r.status = queue[m].status}
    <3> DEFINE due == IF queue[m].due = 0 THEN 0 ELSE queue[m].due - 1
               age == IF queue[m].age \in {0, StaleAfter + 2} THEN queue[m].age
                      ELSE queue[m].age + 1
    <3>1. queue[m] \in Row /\ StaleAfter \in Nat
      BY <1>0, DispatcherAssumption
    <3>2. due \in Nat /\ age \in 0 .. StaleAfter + 2
      BY <3>1 DEF Row
    <3> HIDE DEF due, age
    <3>3. [queue[m] EXCEPT !.due = due, !.age = age] \in {r \in Row : r.status = queue[m].status}
      BY <3>1, <3>2 DEF Row
    <3>4. QED
      BY <3>3 DEF due, age
  <2>2. RowsAsked(queue', withdrawn')
    BY <1>0, <1>10, <2>1 DEF Tick, RowsAsked, Posted
  <2>3. drain' \in DrainType
    BY <1>0, <1>10 DEF Tick, DrainType
  <2>4. QED
    BY <1>0, <1>10, <2>2, <2>3 DEF Tick, Asks, Skips, agent, process
<1>11. QED
  BY <1>2, <1>3, <1>4, <1>5, <1>6, <1>7, <1>8, <1>9, <1>10 DEF Asking

-----------------------------------------------------------------------------
(* Types and the exclusion of deliveries                                   *)

(* What a delivery has in hand is pending, was withdrawn meanwhile or has  *)
(* been given up, and was sent if the proxy has said so.                   *)
InHand == \A p \in Busy :
             /\ \/ queue[doing[p]].status = "pending"
                \/ /\ queue[doing[p]].status = "failed"
                   /\ doing[p] \in withdrawn \/ p \in Failing
             /\ p \in Failing => queue[doing[p]].status = "failed"
             /\ pc[p] = "pasted" /\ answer[p] => copies[doing[p]] > 0

IInv == TypeOK /\ OneDelivery /\ InHand

(* Nothing is queued and nobody delivers at the start.                     *)
LEMMA InitIInv == ASSUME Init PROVE IInv
<1>1. TypeOK
  <2>1. [status |-> "none", retry |-> 0, due |-> 0, age |-> 0] \in Row
    BY DispatcherAssumption DEF Row
  <2>2. queue \in [Msg -> Row] /\ drain \in DrainType
    BY <2>1, NoDrainType DEF Init
  <2>3. avail \in BOOLEAN /\ replied = {} /\ untold = {} /\ withdrawn = {}
    BY DEF Init
  <2>4. pc \in [Proc -> {"idle", "locking", "pasted", "failing"}] /\ copies \in [Msg -> 0 .. 2]
    BY DEF Init
  <2>5. doing \in [Proc -> Msg \cup {None}] /\ answer \in [Proc -> BOOLEAN]
    BY DEF Init
  <2>6. inFlight \in BOOLEAN /\ idleDue \in BOOLEAN /\ up \in BOOLEAN /\ sweepDue \in BOOLEAN
    BY DEF Init
  <2>7. QED
    BY <2>2, <2>3, <2>4, <2>5, <2>6 DEF TypeOK, DrainType
<1>2. Busy = {} /\ inFlight = FALSE
  BY DEF Init, Busy
<1>3. QED
  BY <1>1, <1>2 DEF IInv, OneDelivery, InHand

(* A step that asks keeps the invariant: it takes a row in hand only when  *)
(* nobody else has one.                                                    *)
LEMMA AsksIInv == ASSUME IInv, Asks PROVE IInv'
<1>0. /\ TypeOK /\ OneDelivery /\ InHand
      /\ pc \in [Proc -> {"idle", "locking", "pasted", "failing"}]
      /\ doing \in [Proc -> Msg \cup {None}]
      /\ queue' \in [Msg -> Row]
      /\ \A m \in Msg : Posted(queue[m].status, queue'[m].status)
  BY DEF IInv, TypeOK, Asks, RowsAsked
<1>1. CASE Skips
  <2>1. Busy' = Busy
    BY <1>1 DEF Skips, Busy
  <2>2. TypeOK'
    BY <1>0, <1>1 DEF TypeOK, Asks, RowsAsked, Skips, DrainType
  <2>3. OneDelivery'
    BY <1>0, <1>1, <2>1 DEF OneDelivery, Skips
  <2>4. InHand'
    BY <1>0, <1>1, <2>1 DEF InHand, Asks, RowsAsked, Skips, Posted, OneDelivery, Failing
  <2>5. QED
    BY <2>2, <2>3, <2>4 DEF IInv
<1>2. ASSUME NEW p \in Proc, Claims(p) PROVE IInv'
  <2>1. PICK m \in Msg : /\ ~inFlight
                         /\ queue'[m].status = "pending"
                         /\ inFlight' = TRUE
                         /\ pc' = [pc EXCEPT ![p] = "locking"]
                         /\ doing' = [doing EXCEPT ![p] = m]
    BY <1>2 DEF Claims
  <2>2. Busy = {}
    BY <1>0, <2>1 DEF OneDelivery
  <2>3. Busy' = {p} /\ pc'[p] = "locking" /\ doing'[p] = m
    BY <1>0, <2>1, <2>2 DEF Busy
  <2>4. TypeOK'
    BY <1>0, <2>1 DEF TypeOK, Asks, RowsAsked, DrainType
  <2>5. OneDelivery' /\ InHand'
    BY <2>1, <2>3 DEF OneDelivery, InHand, Failing
  <2>6. QED
    BY <2>4, <2>5 DEF IInv
<1>3. QED
  BY <1>1, <1>2 DEF Asks

(* A delivery ends: what remains to show is that its row is a row.         *)
Ends(p) == /\ p \in Busy
           /\ Return(p)
           /\ queue' \in [Msg -> Row]
           /\ drain' \in DrainType
           /\ UNCHANGED <<copies, withdrawn, avail, up, sweepDue>>
           /\ idleDue' \in BOOLEAN /\ replied' \subseteq Msg /\ untold' \subseteq Msg

(* When a delivery returns, nobody is delivering any more.                 *)
LEMMA ReturnEffect ==
    ASSUME IInv, NEW p \in Busy, Return(p)
    PROVE  Busy = {p} /\ Busy' = {} /\ ~inFlight' /\ doing[p] \in Msg
<1>1. \A q \in Busy : q = p
  BY DEF IInv, OneDelivery
<1>2. \A q \in Proc : pc'[q] = "idle"
  BY <1>1 DEF Return, IInv, TypeOK, Busy
<1>3. QED
  BY <1>1, <1>2 DEF Return, Busy, IInv, OneDelivery

(* What ends a delivery as Ends says keeps the invariant.                  *)
LEMMA EndsIInv == ASSUME IInv, NEW p \in Proc, Ends(p) PROVE IInv'
<1>1. Busy' = {} /\ ~inFlight'
  BY ReturnEffect DEF Ends
<1>2. TypeOK'
  BY DEF IInv, TypeOK, Ends, Return, DrainType
<1>3. QED
  BY <1>1, <1>2 DEF IInv, OneDelivery, InHand, TypeOK

Ending(p) == LockTimeout(p) \/ Succeed(p) \/ Fail(p) \/ Report(p)

(* A lock timeout, a success, a failure and a report end a delivery.       *)
LEMMA EndingEnds == ASSUME IInv, NEW p \in Proc, Ending(p) PROVE Ends(p)
<1>0. TypeOK /\ p \in Busy /\ drain \in DrainType /\ queue \in [Msg -> Row] /\ doing[p] \in Msg
  BY DEF Ending, LockTimeout, Succeed, Fail, Report, Busy, IInv, TypeOK, OneDelivery, DrainType
<1>0a. queue[doing[p]] \in Row
  BY <1>0
<1>1. CASE LockTimeout(p)
  BY <1>0, <1>1, NoDrainType DEF LockTimeout, Ends, table, agent, process, TypeOK
<1>2. CASE Succeed(p)
  <2>1. [queue[doing[p]] EXCEPT !.status = "delivered"] \in Row
    BY <1>0a, RowEffects
  <2>2. queue' \in [Msg -> Row]
    BY <1>0, <1>2, <2>1 DEF Succeed
  <2>3. drain' \in DrainType
    BY <1>0, <1>2, ContinueEffect DEF Succeed
  <2>4. QED
    BY <1>0, <1>2, <2>2, <2>3 DEF Succeed, Ends, process, TypeOK
<1>3. CASE Fail(p)
  <2>1. queue' \in [Msg -> Row]
    BY <1>0, <1>0a, <1>3, RowEffects DEF Fail, Failed
  <2>2. drain' \in DrainType
    BY <1>0, <1>3, ContinueEffect DEF Fail
  <2>3. QED
    BY <1>0, <1>3, <2>1, <2>2 DEF Fail, Ends, agent, process, TypeOK
<1>4. CASE Report(p)
  <2>1. drain' \in DrainType
    BY <1>0, <1>4, ContinueEffect DEF Report
  <2>2. replied' \subseteq Msg /\ untold' \subseteq Msg
    BY <1>0, <1>4 DEF Report, TypeOK
  <2>3. QED
    BY <1>0, <1>4, <2>1, <2>2 DEF Report, Ends, agent, process, TypeOK
<1>5. QED
  BY <1>1, <1>2, <1>3, <1>4 DEF Ending

(* Pasting leaves the one delivery under way, with its message in hand.    *)
LEMMA PasteIInv == ASSUME IInv, NEW p \in Proc, Paste(p) PROVE IInv'
<1>0. /\ TypeOK /\ OneDelivery /\ InHand
      /\ p \in Busy /\ doing[p] \in Msg
      /\ copies \in [Msg -> 0 .. 2]
  BY DEF IInv, Paste, Busy, OneDelivery, TypeOK
<1>1. PICK sent \in 0 .. 2, ok \in BOOLEAN :
         /\ ok => sent > 0
         /\ copies' = [copies EXCEPT ![doing[p]] = More(@, sent)]
         /\ answer' = [answer EXCEPT ![p] = ok]
  BY DEF Paste
<1>2. /\ More(copies[doing[p]], sent) \in 0 .. 2
      /\ sent > 0 => More(copies[doing[p]], sent) > 0
  BY <1>0 DEF More
<1>3. TypeOK'
  BY <1>0, <1>1, <1>2 DEF Paste, TypeOK, table, process
<1>4. Busy' = Busy /\ \A q \in Busy : q = p
  BY <1>0 DEF Paste, Busy, TypeOK, OneDelivery
<1>5. OneDelivery'
  BY <1>0, <1>4 DEF OneDelivery, Paste
<1>6. InHand'
  BY <1>0, <1>1, <1>2, <1>4 DEF InHand, Paste, TypeOK, table, Proc, Busy, Failing
<1>7. QED
  BY <1>3, <1>5, <1>6 DEF IInv

(* Giving a message up leaves the one delivery under way: its row is       *)
(* failed now, and is the only one that changes.                           *)
LEMMA GiveUpEffect ==
    ASSUME IInv, NEW p \in Proc, GiveUp(p)
    PROVE  /\ p \in Busy /\ doing[p] \in Msg /\ Busy = {p} /\ Busy' = {p}
           /\ Failing = {} /\ Failing' = {p}
           /\ queue' \in [Msg -> Row]
           /\ queue'[doing[p]] = AttemptFailed(queue[doing[p]])
           /\ queue'[doing[p]].status = "failed"
           /\ \A m \in Msg \ {doing[p]} : queue'[m] = queue[m]
           /\ doing' = doing /\ copies' = copies /\ answer' = answer
           /\ UNCHANGED <<replied, untold, withdrawn, inFlight>>
<1>1. p \in Busy /\ doing[p] \in Msg
  BY DEF GiveUp, Busy, IInv, OneDelivery
<1>2. /\ Busy = {p} /\ pc \in [Proc -> {"idle", "locking", "pasted", "failing"}]
      /\ queue \in [Msg -> Row] /\ pc[p] = "pasted" /\ pc' = [pc EXCEPT ![p] = "failing"]
  BY <1>1 DEF IInv, OneDelivery, TypeOK, GiveUp
<1>3. \A q \in Proc : q # p => pc[q] = "idle" /\ pc'[q] = "idle"
  BY <1>2 DEF Busy
<1>4. Busy' = {p} /\ Failing = {} /\ Failing' = {p}
  BY <1>2, <1>3 DEF Busy, Failing
<1>5. queue[doing[p]] \in Row /\ AttemptFailed(queue[doing[p]]) \in Row
  BY <1>1, <1>2, RowEffects
<1>6. /\ Failed(p) \in [Msg -> Row]
      /\ Failed(p)[doing[p]] = AttemptFailed(queue[doing[p]])
      /\ \A m \in Msg \ {doing[p]} : Failed(p)[m] = queue[m]
  BY <1>1, <1>2, <1>5 DEF Failed
<1>7. QED
  BY <1>1, <1>2, <1>4, <1>6 DEF GiveUp, agent

(* Giving up keeps the invariant.                                          *)
LEMMA GiveUpIInv == ASSUME IInv, NEW p \in Proc, GiveUp(p) PROVE IInv'
<1>1. TypeOK'
  BY GiveUpEffect DEF GiveUp, IInv, TypeOK, agent, process
<1>2. OneDelivery'
  BY GiveUpEffect DEF IInv, OneDelivery
<1>3. InHand'
  <2>1. pc'[p] = "failing"
    BY GiveUpEffect DEF Failing
  <2>2. QED
    BY <2>1, GiveUpEffect DEF InHand
<1>4. QED
  BY <1>1, <1>2, <1>3 DEF IInv

(* A crash ends the delivery under way.                                    *)
LEMMA CrashIInv == ASSUME IInv, Crash PROVE IInv'
<1>1. Busy' = {}
  BY DEF Crash, Busy
<1>2. TypeOK'
  <2>1. untold' \subseteq Msg
    BY DEF Crash, Failing, IInv, TypeOK, OneDelivery, Busy
  <2>2. QED
    BY <2>1, NoDrainType DEF IInv, TypeOK, Crash, DrainType, agent
<1>3. QED
  BY <1>1, <1>2 DEF IInv, OneDelivery, InHand, Crash

(* A step asks, pastes, gives up, ends a delivery or crashes.              *)
LEMMA NextSplits ==
    ASSUME Next
    PROVE  \/ Asking
           \/ \E p \in Proc : Paste(p) \/ GiveUp(p) \/ Ending(p)
           \/ Crash
BY DEF Next, Asking, Ending

(* Every step keeps the invariant.                                         *)
LEMMA StepIInv == ASSUME IInv, [Next]_vars PROVE IInv'
<1>1. CASE Asking
  BY <1>1, AskingAsks, AsksIInv DEF IInv
<1>2. CASE \E p \in Proc : Paste(p)
  BY <1>2, PasteIInv
<1>3. CASE \E p \in Proc : Ending(p)
  BY <1>3, EndingEnds, EndsIInv
<1>4. CASE Crash
  BY <1>4, CrashIInv
<1>5. CASE UNCHANGED vars
  <2>1. Busy' = Busy
    BY <1>5 DEF vars, memory, Busy
  <2>2. TypeOK'
    BY <1>5 DEF IInv, TypeOK, vars, table, memory, agent, process
  <2>3. OneDelivery' /\ InHand'
    BY <1>5, <2>1 DEF IInv, OneDelivery, InHand, Failing, vars, table, memory, agent
  <2>4. QED
    BY <2>2, <2>3 DEF IInv
<1>6. CASE \E p \in Proc : GiveUp(p)
  BY <1>6, GiveUpIInv
<1>7. QED
  BY <1>1, <1>2, <1>3, <1>4, <1>5, <1>6, NextSplits

(* The invariant of the dispatcher.                                        *)
THEOREM Invariance == Spec => []IInv
BY InitIInv, StepIInv, PTL DEF Spec

(* Rows, timers and counters keep their types; the drain loop's attempt    *)
(* stays below DRAIN_MAX_ATTEMPTS.                                         *)
THEOREM TypeCorrect == Spec => []TypeOK
<1>1. IInv => TypeOK
  BY DEF IInv
<1>2. QED
  BY <1>1, Invariance, PTL

(* No two deliveries to an agent are under way, and deliveriesInFlight is  *)
(* set exactly while there is one: it never stays behind.                  *)
THEOREM DeliveriesExclude == Spec => []OneDelivery
<1>1. IInv => OneDelivery
  BY DEF IInv
<1>2. QED
  BY <1>1, Invariance, PTL

-----------------------------------------------------------------------------
(* At most once                                                            *)

(* While the proxy answers truly and nothing crashes, a row that is not    *)
(* settled and in nobody's hand was not sent, nor was one in hand whose    *)
(* paste is not confirmed.                                                 *)
Unsent == /\ \A m \in Msg : /\ queue[m].status \in {"none", "pending"}
                            /\ \A p \in Busy : doing[p] # m
                            => copies[m] = 0
          /\ \A p \in Busy : ~(pc[p] = "pasted" /\ answer[p]) => copies[doing[p]] = 0

OnceInv == IInv /\ DeliveredOnce /\ Unsent

(* Without a failing paste or a crash a message is pasted at most once.    *)
LEMMA OnceStep ==
    ASSUME Fault \cap {"pasteError", "crash"} = {}, OnceInv, [Next]_vars
    PROVE  OnceInv'
<1>0. /\ IInv /\ IInv' /\ DeliveredOnce /\ Unsent
      /\ \A p, q \in Busy : p = q
      /\ \A p \in Busy : doing[p] \in Msg
      /\ copies \in [Msg -> 0 .. 2] /\ inFlight = (Busy # {})
  BY StepIInv DEF OnceInv, IInv, OneDelivery, TypeOK
<1>1. ASSUME Asking PROVE DeliveredOnce' /\ Unsent'
  <2>1. Asks
    BY <1>0, <1>1, AskingAsks DEF IInv
  <2>2. /\ copies' = copies /\ answer' = answer
        /\ \A m \in Msg : queue'[m].status \in {"none", "pending"}
               => queue[m].status \in {"none", "pending"}
    BY <2>1 DEF Asks, RowsAsked, Posted
  <2>3. CASE Skips
    <3>1. Busy' = Busy
      BY <2>3 DEF Skips, Busy
    <3>2. QED
      BY <1>0, <2>2, <2>3, <3>1 DEF DeliveredOnce, Unsent, Skips
  <2>4. ASSUME NEW p \in Proc, Claims(p) PROVE DeliveredOnce' /\ Unsent'
    <3>1. PICK m \in Msg : /\ ~inFlight
                           /\ queue'[m].status = "pending"
                           /\ pc' = [pc EXCEPT ![p] = "locking"]
                           /\ doing' = [doing EXCEPT ![p] = m]
      BY <2>4 DEF Claims
    <3>2. Busy = {} /\ Busy' = {p} /\ doing'[p] = m
      <4>1. Busy = {}
        BY <1>0, <3>1
      <4>2. \A q \in Proc : pc[q] = "idle"
        BY <4>1 DEF Busy
      <4>3. /\ pc \in [Proc -> {"idle", "locking", "pasted", "failing"}]
            /\ doing \in [Proc -> Msg \cup {None}]
        BY <1>0 DEF IInv, TypeOK
      <4>4. QED
        BY <3>1, <4>1, <4>2, <4>3 DEF Busy
    <3>3. copies[m] = 0
      BY <1>0, <2>2, <3>1, <3>2 DEF Unsent
    <3>4. QED
      BY <1>0, <2>2, <3>2, <3>3 DEF DeliveredOnce, Unsent
  <2>5. QED
    BY <2>1, <2>3, <2>4 DEF Asks
<1>2. ASSUME NEW p \in Proc, Paste(p) PROVE DeliveredOnce' /\ Unsent'
  <2>1. p \in Busy /\ pc[p] = "locking" /\ doing[p] \in Msg /\ copies[doing[p]] = 0
    BY <1>0, <1>2 DEF Paste, Busy, Unsent
  <2>2. PICK sent \in 0 .. 1, ok \in BOOLEAN :
           /\ sent = 1 => ok
           /\ copies' = [copies EXCEPT ![doing[p]] = More(@, sent)]
           /\ answer' = [answer EXCEPT ![p] = ok]
    <3>1. "pasteError" \notin Fault
      OBVIOUS
    <3>2. PICK sent \in 0 .. 2, ok \in BOOLEAN :
             /\ \/ sent = 1 /\ ok
                \/ sent = 0 /\ ~avail
             /\ copies' = [copies EXCEPT ![doing[p]] = More(@, sent)]
             /\ answer' = [answer EXCEPT ![p] = ok]
      BY <1>2, <3>1 DEF Paste
    <3>3. sent \in 0 .. 1 /\ (sent = 1 => ok)
      BY <3>2
    <3>4. QED
      BY <3>2, <3>3
  <2>3. More(copies[doing[p]], sent) = sent
    BY <2>1, <2>2 DEF More
  <2>4. Busy' = {p} /\ doing' = doing /\ queue' = queue
    BY <1>0, <1>2, <2>1 DEF Paste, Busy, IInv, TypeOK, table
  <2>5. answer'[p] = ok /\ pc'[p] = "pasted"
    BY <1>0, <1>2, <2>2 DEF Paste, IInv, TypeOK
  <2>6. \A q \in Busy : q = p
    BY <1>0, <2>1
  <2>7. DeliveredOnce'
    BY <1>0, <2>1, <2>2, <2>3 DEF DeliveredOnce
  <2>8. Unsent'
    BY <1>0, <2>1, <2>2, <2>3, <2>4, <2>5, <2>6 DEF Unsent
  <2>9. QED
    BY <2>7, <2>8
<1>3. ASSUME NEW p \in Proc, Ending(p) PROVE DeliveredOnce' /\ Unsent'
  <2>1. p \in Busy /\ Busy = {p} /\ Busy' = {} /\ copies' = copies /\ doing[p] \in Msg
    BY <1>0, <1>3, EndingEnds, ReturnEffect DEF Ends
  <2>2. ASSUME NEW m \in Msg, queue'[m].status \in {"none", "pending"} PROVE copies[m] = 0
    <3>1. CASE LockTimeout(p)
      BY <1>0, <2>1, <2>2, <3>1 DEF LockTimeout, table, Unsent
    <3>2. CASE Succeed(p)
      <4>1. queue' = [queue EXCEPT ![doing[p]].status = "delivered"]
        BY <3>2 DEF Succeed
      <4>2. queue[m] \in Row /\ queue \in [Msg -> Row]
        BY <1>0 DEF IInv, TypeOK
      <4>3. m # doing[p] /\ queue'[m] = queue[m]
        BY <2>1, <2>2, <4>1, <4>2 DEF Row
      <4>4. QED
        BY <1>0, <2>1, <2>2, <4>3 DEF Unsent
    <3>3. CASE Fail(p)
      <4>1. ~answer[p] /\ copies[doing[p]] = 0
        BY <1>0, <2>1, <3>3 DEF Fail, Unsent
      <4>2. m # doing[p] => queue'[m] = queue[m]
        BY <1>0, <3>3 DEF Fail, Failed, IInv, TypeOK
      <4>3. m # doing[p] => copies[m] = 0
        BY <1>0, <2>1, <2>2, <4>2 DEF Unsent
      <4>4. QED
        BY <4>1, <4>3
    <3>4. CASE Report(p)
      <4>1. /\ queue' = queue /\ copies[doing[p]] = 0
        BY <1>0, <2>1, <3>4 DEF Report, Unsent
      <4>2. QED
        BY <1>0, <2>1, <2>2, <4>1 DEF Unsent
    <3>5. QED
      BY <1>3, <3>1, <3>2, <3>3, <3>4 DEF Ending
  <2>3. QED
    BY <1>0, <2>1, <2>2 DEF DeliveredOnce, Unsent
<1>4. ASSUME UNCHANGED vars PROVE DeliveredOnce' /\ Unsent'
  <2>1. Busy' = Busy
    BY <1>4 DEF vars, memory, Busy
  <2>2. QED
    BY <1>0, <1>4, <2>1 DEF DeliveredOnce, Unsent, vars, table, memory, agent
<1>5. ASSUME NEW p \in Proc, GiveUp(p) PROVE DeliveredOnce' /\ Unsent'
  <2>1. ~answer[p] /\ copies[doing[p]] = 0
    BY <1>0, <1>5, GiveUpEffect DEF GiveUp, Unsent
  <2>2. QED
    BY <1>0, <1>5, <2>1, GiveUpEffect DEF DeliveredOnce, Unsent
<1>6. ~Crash
  BY DEF Crash
<1>7. QED
  BY <1>0, <1>1, <1>2, <1>3, <1>4, <1>5, <1>6, NextSplits DEF OnceInv

(* If the proxy's answers are true and the orchestrator does not crash,    *)
(* the agent is never sent a message twice: neither concurrent calls, nor  *)
(* stale resets, lock timeouts or withdrawals hand a row out again that    *)
(* was sent.                                                               *)
THEOREM AtMostOnce ==
    ASSUME Fault \cap {"pasteError", "crash"} = {}
    PROVE  Spec => []DeliveredOnce
<1>1. Init => OnceInv
  <2>1. ASSUME Init PROVE IInv /\ Busy = {} /\ \A m \in Msg : copies[m] = 0
    BY <2>1, InitIInv DEF Init, Busy
  <2>2. QED
    BY <2>1 DEF OnceInv, DeliveredOnce, Unsent
<1>2. OnceInv /\ [Next]_vars => OnceInv'
  BY OnceStep
<1>3. OnceInv => DeliveredOnce
  BY DEF OnceInv
<1>4. QED
  BY <1>1, <1>2, <1>3, PTL DEF Spec

-----------------------------------------------------------------------------
(* Outcomes                                                                *)

Sent == \A m \in Msg : queue[m].status = "delivered" => copies[m] > 0
Told == /\ \A m \in replied \cup untold : queue[m].status = "failed"
        /\ replied \cap untold = {}
        /\ \A p \in Busy : doing[p] \notin replied \cup untold

OutInv == IInv /\ FailureIsReported /\ Sent /\ Told

(* What the end of a delivery does to the statuses.                        *)
LEMMA EndingStatus ==
    ASSUME IInv, NEW p \in Proc, Ending(p)
    PROVE  /\ doing[p] \in Msg
           /\ \A m \in Msg \ {doing[p]} : queue'[m] = queue[m]
           /\ \/ Succeed(p) /\ queue'[doing[p]].status = "delivered"
              \/ LockTimeout(p) /\ queue' = queue
              \/ Fail(p) /\ queue'[doing[p]].status = queue[doing[p]].status
              \/ Report(p) /\ queue' = queue
<1>0. /\ queue \in [Msg -> Row] /\ p \in Busy /\ doing[p] \in Msg
      /\ queue[doing[p]] \in Row
  BY EndingEnds DEF Ends, IInv, TypeOK, OneDelivery
<1>1. CASE LockTimeout(p)
  BY <1>0, <1>1 DEF LockTimeout, table
<1>2. CASE Succeed(p)
  <2>1. [queue[doing[p]] EXCEPT !.status = "delivered"].status = "delivered"
    BY <1>0 DEF Row
  <2>2. QED
    BY <1>0, <1>2, <2>1 DEF Succeed
<1>3. CASE Fail(p)
  <2>1. /\ Failed(p)[doing[p]] = AttemptFailed(queue[doing[p]])
        /\ \A m \in Msg \ {doing[p]} : Failed(p)[m] = queue[m]
    BY <1>0 DEF Failed
  <2>2. AttemptFailed(queue[doing[p]]).status = queue[doing[p]].status
    BY <1>0, <1>3, <2>1, RowEffects DEF Fail
  <2>3. QED
    BY <1>0, <1>3, <2>1, <2>2 DEF Fail
<1>4. CASE Report(p)
  BY <1>0, <1>4 DEF Report
<1>5. QED
  BY <1>1, <1>2, <1>3, <1>4 DEF Ending

(* Every step keeps what is known of the answers given.                    *)
LEMMA OutStep == ASSUME OutInv, [Next]_vars PROVE OutInv'
<1>0. /\ IInv /\ IInv' /\ FailureIsReported /\ Sent /\ Told /\ InHand
      /\ \A p, q \in Busy : p = q
      /\ \A p \in Busy : doing[p] \in Msg
      /\ inFlight = (Busy # {})
      /\ pc \in [Proc -> {"idle", "locking", "pasted", "failing"}]
      /\ doing \in [Proc -> Msg \cup {None}]
      /\ copies \in [Msg -> 0 .. 2] /\ replied \subseteq Msg /\ untold \subseteq Msg
  BY StepIInv DEF OutInv, IInv, OneDelivery, TypeOK
<1>0a. Failing \subseteq Busy
  BY DEF Failing, Busy
<1> DEFINE Good == FailureIsReported /\ Sent /\ Told
<1>1. ASSUME Asking PROVE Good'
  <2>1. Asks
    BY <1>0, <1>1, AskingAsks DEF IInv
  <2>2. /\ replied' = replied /\ untold' = untold /\ withdrawn \subseteq withdrawn'
        /\ \A m \in Msg : /\ Posted(queue[m].status, queue'[m].status)
                          /\ queue'[m].status = "failed"
                                 => queue[m].status = "failed" \/ m \in withdrawn'
    BY <2>1 DEF Asks, RowsAsked
  <2>3. Sent'
    BY <1>0, <2>1 DEF Asks, RowsAsked, Posted, Sent
  <2>4. /\ \A m \in replied' \cup untold' : queue'[m].status = "failed"
        /\ replied' \cap untold' = {}
    BY <1>0, <2>2 DEF Posted, Told
  <2>5. CASE Skips
    <3>1. Busy' = Busy /\ Failing' = Failing /\ doing' = doing
      BY <2>5 DEF Skips, Busy, Failing
    <3>2. Told'
      BY <1>0, <2>2, <2>4, <3>1 DEF Told
    <3>3. FailureIsReported'
      BY <1>0, <2>2, <3>1 DEF FailureIsReported
    <3>4. QED
      BY <2>3, <3>2, <3>3
  <2>6. ASSUME NEW p \in Proc, Claims(p) PROVE Told' /\ FailureIsReported'
    <3>1. PICK m \in Msg : /\ ~inFlight
                           /\ queue'[m].status = "pending"
                           /\ pc' = [pc EXCEPT ![p] = "locking"]
                           /\ doing' = [doing EXCEPT ![p] = m]
      BY <2>6 DEF Claims
    <3>2. \A q \in Proc : pc[q] = "idle"
      BY <1>0, <3>1 DEF Busy
    <3>3. Busy' = {p} /\ doing'[p] = m /\ Failing = {}
      BY <1>0, <3>1, <3>2 DEF Busy, Failing
    <3>4. m \notin replied' \cup untold'
      BY <2>4, <3>1
    <3>5. Told'
      BY <2>4, <3>3, <3>4 DEF Told
    <3>6. FailureIsReported'
      BY <1>0, <2>2, <3>3 DEF FailureIsReported
    <3>7. QED
      BY <3>5, <3>6
  <2>7. QED
    BY <2>1, <2>3, <2>5, <2>6 DEF Asks
<1>2. ASSUME NEW p \in Proc, Paste(p) PROVE Good'
  <2>1. /\ p \in Busy /\ doing[p] \in Msg /\ queue' = queue /\ doing' = doing
        /\ replied' = replied /\ untold' = untold /\ withdrawn' = withdrawn
        /\ Busy' = Busy /\ Failing' = Failing
    BY <1>0, <1>2 DEF Paste, Busy, Failing, table
  <2>2. \A m \in Msg : copies[m] > 0 => copies'[m] > 0
    <3>1. PICK sent \in 0 .. 2 : copies' = [copies EXCEPT ![doing[p]] = More(@, sent)]
      BY <1>2 DEF Paste
    <3>2. copies[doing[p]] > 0 => More(copies[doing[p]], sent) > 0
      BY <1>0, <2>1 DEF More
    <3>3. QED
      BY <1>0, <2>1, <3>1, <3>2
  <2>3. Sent'
    BY <1>0, <2>1, <2>2 DEF Sent
  <2>4. FailureIsReported' /\ Told'
    BY <1>0, <2>1 DEF FailureIsReported, Told
  <2>5. QED
    BY <2>3, <2>4
<1>3. ASSUME NEW p \in Proc, GiveUp(p) PROVE Good'
  <2>1. /\ p \in Busy /\ doing[p] \in Msg /\ Busy' = {p}
        /\ Failing = {} /\ Failing' = {p} /\ doing' = doing
        /\ queue'[doing[p]].status = "failed"
        /\ \A m \in Msg \ {doing[p]} : queue'[m] = queue[m]
        /\ copies' = copies /\ replied' = replied /\ untold' = untold
        /\ withdrawn' = withdrawn
    BY <1>0, <1>3, GiveUpEffect
  <2>2. Sent'
    BY <1>0, <2>1 DEF Sent
  <2>3. FailureIsReported'
    BY <1>0, <2>1 DEF FailureIsReported
  <2>4. Told'
    BY <1>0, <2>1 DEF Told
  <2>5. QED
    BY <2>2, <2>3, <2>4
<1>4. ASSUME NEW p \in Proc, Ending(p) PROVE Good'
  <2>1. /\ p \in Busy /\ Busy = {p} /\ Busy' = {} /\ Failing' = {} /\ doing[p] \in Msg
        /\ copies' = copies /\ withdrawn' = withdrawn
    BY <1>0, <1>4, EndingEnds, ReturnEffect DEF Ends, Failing, Busy
  <2>2. \A m \in Msg \ {doing[p]} : queue'[m] = queue[m]
    BY <1>0, <1>4, EndingStatus
  <2>3. doing[p] \notin replied \cup untold
    BY <1>0, <2>1 DEF Told
  <2>4. ASSUME p \notin Failing PROVE Failing = {}
    BY <1>0a, <2>1, <2>4
  <2>5. CASE Succeed(p)
    <3>1. /\ p \notin Failing /\ replied' = replied /\ untold' = untold /\ copies[doing[p]] > 0
      BY <1>0, <2>1, <2>5 DEF Succeed, InHand, Failing
    <3>2. queue'[doing[p]].status = "delivered"
      <4>1. queue \in [Msg -> Row] /\ queue[doing[p]] \in Row
        BY <1>0, <2>1 DEF IInv, TypeOK
      <4>2. [queue[doing[p]] EXCEPT !.status = "delivered"].status = "delivered"
        BY <4>1 DEF Row
      <4>3. QED
        BY <2>1, <2>5, <4>1, <4>2 DEF Succeed
    <3>3. Sent' /\ Told'
      BY <1>0, <2>1, <2>2, <2>3, <3>1, <3>2 DEF Sent, Told
    <3>4. FailureIsReported'
      BY <1>0, <2>1, <2>2, <2>4, <3>1, <3>2 DEF FailureIsReported
    <3>5. QED
      BY <3>3, <3>4
  <2>6. CASE LockTimeout(p)
    <3>1. p \notin Failing /\ replied' = replied /\ untold' = untold /\ queue' = queue
      BY <2>6 DEF LockTimeout, Failing, table
    <3>2. Sent' /\ Told'
      BY <1>0, <2>1, <3>1 DEF Sent, Told
    <3>3. FailureIsReported'
      BY <1>0, <2>1, <2>4, <3>1 DEF FailureIsReported
    <3>4. QED
      BY <3>2, <3>3
  <2>7. CASE Fail(p)
    <3>1. p \notin Failing /\ replied' = replied /\ untold' = untold
      BY <2>7 DEF Fail, Failing
    <3>2. queue'[doing[p]].status = "pending"
      BY <2>7 DEF Fail
    <3>3. Sent' /\ Told'
      BY <1>0, <2>1, <2>2, <2>3, <3>1, <3>2 DEF Sent, Told
    <3>4. FailureIsReported'
      BY <1>0, <2>1, <2>2, <2>4, <3>1, <3>2 DEF FailureIsReported
    <3>5. QED
      BY <3>3, <3>4
  <2>8. CASE Report(p)
    <3>1. /\ p \in Failing /\ queue' = queue /\ queue[doing[p]].status = "failed"
          /\ \/ replied' = replied \cup {doing[p]} /\ untold' = untold
             \/ /\ "replyError" \in Fault
                /\ replied' = replied /\ untold' = untold \cup {doing[p]}
      BY <1>0, <2>1, <2>8 DEF Report, Failing, InHand
    <3>2. Sent'
      BY <1>0, <2>1, <3>1 DEF Sent
    <3>3. Told'
      BY <1>0, <2>1, <2>3, <3>1 DEF Told
    <3>4. Failing = {p}
      BY <1>0a, <2>1, <3>1
    <3>5. FailureIsReported'
      <4>1. CASE replied' = replied \cup {doing[p]} /\ untold' = untold
        BY <1>0, <2>1, <3>1, <3>4, <4>1 DEF FailureIsReported
      <4>2. CASE /\ "replyError" \in Fault
                 /\ replied' = replied /\ untold' = untold \cup {doing[p]}
        BY <1>0, <2>1, <3>1, <3>4, <4>2 DEF FailureIsReported
      <4>3. QED
        BY <3>1, <4>1, <4>2
    <3>6. QED
      BY <3>2, <3>3, <3>5
  <2>9. QED
    BY <1>4, <2>5, <2>6, <2>7, <2>8 DEF Ending
<1>5. ASSUME Crash PROVE Good'
  <2>1. /\ Busy' = {} /\ Failing' = {} /\ queue' = queue /\ copies' = copies
        /\ replied' = replied /\ withdrawn' = withdrawn
        /\ untold' = untold \cup {doing[p] : p \in Failing} /\ "crash" \in Fault
    BY <1>5 DEF Crash, Busy, Failing, agent
  <2>2. \A p \in Failing : doing[p] \notin replied /\ queue[doing[p]].status = "failed"
    BY <1>0, <1>0a DEF Told, InHand
  <2>3. Sent' /\ Told'
    BY <1>0, <2>1, <2>2 DEF Sent, Told
  <2>4. FailureIsReported'
    BY <1>0, <2>1 DEF FailureIsReported
  <2>5. QED
    BY <2>3, <2>4
<1>6. ASSUME UNCHANGED vars PROVE Good'
  <2>1. /\ Busy' = Busy /\ Failing' = Failing /\ doing' = doing /\ queue' = queue
        /\ UNCHANGED <<copies, replied, untold, withdrawn>>
    BY <1>6 DEF vars, table, memory, agent, Busy, Failing
  <2>2. QED
    BY <1>0, <2>1 DEF FailureIsReported, Sent, Told
<1>7. QED
  BY <1>0, <1>1, <1>2, <1>3, <1>4, <1>5, <1>6, NextSplits DEF OutInv

(* What is known of the answers given holds in every state.                *)
LEMMA OutInvariance == Spec => []OutInv
<1>1. Init => OutInv
  <2>1. ASSUME Init PROVE IInv /\ Busy = {} /\ replied = {} /\ untold = {}
                          /\ \A m \in Msg : queue[m].status = "none"
    BY <2>1, InitIInv DEF Init, Busy
  <2>2. QED
    BY <2>1 DEF OutInv, FailureIsReported, Sent, Told
<1>2. QED
  BY <1>1, OutStep, PTL DEF Spec

(* No message is given up in silence, unless a crash or a failing INSERT   *)
(* comes between the failure and its report.                               *)
THEOREM NoSilentFailure == Spec => []FailureIsReported
<1>1. OutInv => FailureIsReported
  BY DEF OutInv
<1>2. QED
  BY <1>1, OutInvariance, PTL

(* What is recorded as delivered was sent, crash or not, and a failure is  *)
(* reported once, for a message that stays failed.                         *)
THEOREM OutcomesAreTrue == Spec => []OutcomeIsTrue
<1>1. OutInv => OutcomeIsTrue
  <2>1. Failing \subseteq Busy
    BY DEF Failing, Busy
  <2>2. QED
    BY <2>1 DEF OutInv, Sent, Told, OutcomeIsTrue
<1>2. QED
  BY <1>1, OutInvariance, PTL

Final == \A m \in Msg :
            /\ queue[m].status = "delivered" => queue'[m].status = "delivered"
            /\ queue[m].status = "failed" /\ m \notin withdrawn => queue'[m].status = "failed"

(* No step changes a row that is delivered or failed for good.             *)
LEMMA FinalStep == ASSUME IInv, [Next]_vars PROVE Final
<1>1. CASE Asking
  BY <1>1, AskingAsks DEF IInv, Asks, RowsAsked, Posted, Final
<1>2. ASSUME NEW p \in Proc, Paste(p) PROVE Final
  BY <1>2 DEF Paste, table, Final
<1>3. ASSUME NEW p \in Proc, Ending(p) PROVE Final
  <2>1. p \in Busy /\ queue[doing[p]].status \in {"pending", "failed"}
    BY <1>3, EndingEnds DEF Ends, IInv, InHand
  <2>2. Succeed(p) => p \notin Failing
    BY DEF Succeed, Failing
  <2>3. Succeed(p) /\ queue[doing[p]].status = "failed" => doing[p] \in withdrawn
    BY <2>1, <2>2 DEF IInv, InHand
  <2>4. QED
    BY <1>3, <2>1, <2>3, EndingStatus DEF Final
<1>4. CASE Crash
  BY <1>4 DEF Crash, Final
<1>5. CASE UNCHANGED vars
  BY <1>5 DEF vars, table, Final
<1>6. ASSUME NEW p \in Proc, GiveUp(p) PROVE Final
  <2>1. queue[doing[p]].status # "delivered"
    BY <1>6, GiveUpEffect DEF IInv, InHand
  <2>2. QED
    BY <1>6, <2>1, GiveUpEffect DEF Final
<1>7. QED
  BY <1>1, <1>2, <1>3, <1>4, <1>5, <1>6, NextSplits

(* Delivered is final, and failed is unless the message was withdrawn.     *)
THEOREM SettledForGood == Spec => SettledIsFinal
<1>1. IInv /\ [Next]_vars => [Final]_vars
  BY FinalStep
<1>2. Spec => [][Final]_vars
  BY <1>1, Invariance, PTL DEF Spec
<1>3. QED
  BY <1>2 DEF SettledIsFinal, Final

-----------------------------------------------------------------------------
(* The dispatcher implements the mailbox                                   *)

Statuses == [m \in Msg |-> queue[m].status]

(* The mailbox is handing over the message that is in hand, if there is one.*)
LEMMA CurrentInHand ==
    ASSUME OneDelivery
    PROVE  /\ Handing = {} => Current = None
           /\ \A p \in Handing : Current = doing[p] /\ Current \in Msg /\ Current # None
<1>1. ASSUME NEW p \in Handing PROVE (CHOOSE q \in Handing : TRUE) = p
  BY DEF OneDelivery, Handing
<1>2. QED
  BY <1>1, DispatcherAssumption DEF Current, OneDelivery, Handing

(* The queue starts as the empty mailbox.                                  *)
LEMMA MailboxInit == ASSUME Init PROVE M!Init
<1>1. Handing = {} /\ OneDelivery
  BY InitIInv DEF Init, Busy, Handing, IInv
<1>2. QED
  BY <1>1, CurrentInHand DEF Init, M!Init

(* Every step of the queue is a step of the mailbox, or none.              *)
LEMMA MailboxStep == ASSUME IInv, [Next]_vars PROVE [M!Next]_(M!vars)
<1>0. /\ IInv /\ IInv' /\ OneDelivery /\ OneDelivery' /\ InHand
      /\ queue \in [Msg -> Row] /\ queue' \in [Msg -> Row]
      /\ copies \in [Msg -> 0 .. 2] /\ inFlight = (Busy # {})
      /\ pc \in [Proc -> {"idle", "locking", "pasted", "failing"}]
      /\ doing \in [Proc -> Msg \cup {None}]
  BY StepIInv DEF IInv, OneDelivery, TypeOK
<1>0a. /\ Handing = {} => Current = None
       /\ \A p \in Handing : Current = doing[p] /\ Current \in Msg /\ Current # None
  BY <1>0, CurrentInHand
<1>0b. /\ Handing' = {} => Current' = None
       /\ \A p \in Handing' : Current' = doing'[p] /\ Current' \in Msg
  <2>1. ASSUME NEW p \in Handing' PROVE (CHOOSE q \in Handing' : TRUE) = p
    BY <1>0 DEF OneDelivery, Handing
  <2>2. QED
    BY <1>0, <2>1 DEF Current, OneDelivery, Handing
<1>0c. Statuses' = [m \in Msg |-> queue'[m].status]
  BY DEF Statuses
<1>1. ASSUME Asking PROVE M!Ask
  <2>1. Asks
    BY <1>0, <1>1, AskingAsks DEF IInv
  <2>2. /\ \A m \in Msg : Posted(queue[m].status, queue'[m].status)
        /\ copies' = copies
    BY <2>1 DEF Asks, RowsAsked
  <2>3. Statuses' \in [Msg -> {"none", "pending", "delivered", "failed"}]
    BY <1>0, <1>0c DEF Row
  <2>4. \A m \in Msg : \/ Statuses'[m] = Statuses[m]
                       \/ Statuses[m] = "none" /\ Statuses'[m] = "pending"
                       \/ Statuses[m] = "pending" /\ Statuses'[m] = "failed"
    BY <2>2, <1>0c DEF Posted, Statuses
  <2>5. \/ Current' = Current
        \/ Current = None /\ Current' \in {m \in Msg : Statuses'[m] = "pending"}
    <3>1. CASE Skips
      <4>1. Handing' = Handing /\ doing' = doing
        BY <3>1 DEF Skips, Busy, Failing, Handing
      <4>2. QED
        BY <1>0a, <1>0b, <4>1
    <3>2. ASSUME NEW p \in Proc, Claims(p)
          PROVE  Current = None /\ Current' \in {m \in Msg : Statuses'[m] = "pending"}
      <4>1. PICK m \in Msg : /\ ~inFlight
                             /\ queue'[m].status = "pending"
                             /\ pc' = [pc EXCEPT ![p] = "locking"]
                             /\ doing' = [doing EXCEPT ![p] = m]
        BY <3>2 DEF Claims
      <4>2. Handing = {} /\ p \in Handing' /\ doing'[p] = m
        BY <1>0, <4>1 DEF Busy, Failing, Handing
      <4>3. QED
        BY <1>0a, <1>0b, <1>0c, <4>1, <4>2
    <3>3. QED
      BY <2>1, <3>1, <3>2 DEF Asks
  <2>6. QED
    BY <2>2, <2>3, <2>4, <2>5 DEF M!Ask, M!Asked, Statuses
<1>2. ASSUME NEW p \in Proc, Paste(p) PROVE M!Send \/ UNCHANGED M!vars
  <2>1. p \in Handing /\ Handing' = Handing /\ doing' = doing /\ queue' = queue
    BY <1>0, <1>2 DEF Paste, Busy, Failing, Handing, table
  <2>2. Current = doing[p] /\ Current' = Current /\ Current \in Msg /\ Current # None
    BY <1>0a, <1>0b, <2>1
  <2>3. PICK sent \in 0 .. 2 : copies' = [copies EXCEPT ![doing[p]] = More(@, sent)]
    BY <1>2 DEF Paste
  <2>4. Statuses' = Statuses
    BY <2>1 DEF Statuses
  <2>5. CASE sent = 0
    <3>1. More(copies[doing[p]], 0) = copies[doing[p]]
      BY <1>0, <2>2 DEF More
    <3>2. copies' = copies
      BY <1>0, <2>2, <2>3, <2>5, <3>1
    <3>3. QED
      BY <2>2, <2>4, <3>2 DEF M!vars, Statuses
  <2>6. CASE sent # 0
    <3>1. More(copies[doing[p]], sent) \in {1, 2} /\ More(copies[doing[p]], sent) >= copies[doing[p]]
      BY <1>0, <2>2, <2>6 DEF More
    <3>2. QED
      BY <2>2, <2>3, <2>4, <3>1 DEF M!Send, Statuses
  <2>7. QED
    BY <2>5, <2>6
<1>3. ASSUME NEW p \in Proc, Ending(p), ~Report(p) PROVE M!Delivered \/ M!Ended
  <2>1. p \in Handing /\ Handing' = {} /\ copies' = copies
    <3>1. Busy' = {} /\ copies' = copies
      BY <1>0, <1>3, EndingEnds, ReturnEffect DEF Ends
    <3>2. QED
      BY <1>3, <3>1 DEF Handing, Busy, Failing, Ending, LockTimeout, Succeed, Fail
  <2>2. Current = doing[p] /\ Current \in Msg /\ Current # None /\ Current' = None
    BY <1>0a, <1>0b, <2>1
  <2>3. \A m \in Msg \ {doing[p]} : Statuses'[m] = Statuses[m]
    BY <1>0c, <1>3, <1>0, EndingStatus DEF Statuses
  <2>4. ASSUME NEW s, Statuses'[Current] = s PROVE Statuses' = [Statuses EXCEPT ![Current] = s]
    BY <1>0c, <2>2, <2>3, <2>4 DEF Statuses
  <2>5. CASE Succeed(p) /\ queue'[doing[p]].status = "delivered"
    <3>1. copies[Current] > 0
      BY <1>0, <2>1, <2>2, <2>5 DEF Succeed, InHand, Handing
    <3>2. Statuses' = [Statuses EXCEPT ![Current] = "delivered"]
      BY <1>0c, <2>2, <2>4, <2>5
    <3>3. M!Delivered
      BY <2>1, <2>2, <3>1, <3>2 DEF M!Delivered, Statuses
    <3>4. QED
      BY <3>3
  <2>6. CASE queue'[doing[p]].status = queue[doing[p]].status
    <3>1. Statuses' = Statuses
      BY <1>0c, <2>2, <2>3, <2>6 DEF Statuses
    <3>2. M!Ended
      BY <2>1, <2>2, <3>1 DEF M!Ended, Statuses
    <3>3. QED
      BY <3>2
  <2>7. QED
    BY <1>0, <1>3, <2>5, <2>6, EndingStatus
<1>4. ASSUME NEW p \in Proc, GiveUp(p) PROVE M!Ended
  <2>1. /\ p \in Handing /\ Handing' = {} /\ copies' = copies
        /\ queue'[doing[p]].status = "failed"
        /\ \A m \in Msg \ {doing[p]} : queue'[m] = queue[m]
    BY <1>0, <1>4, GiveUpEffect DEF Handing
  <2>2. Current = doing[p] /\ Current \in Msg /\ Current # None /\ Current' = None
    BY <1>0a, <1>0b, <2>1
  <2>3. Statuses' = [Statuses EXCEPT ![Current] = "failed"]
    BY <1>0c, <2>1, <2>2 DEF Statuses
  <2>4. QED
    BY <2>1, <2>2, <2>3 DEF M!Ended, Statuses
<1>5. ASSUME NEW p \in Proc, Report(p) PROVE UNCHANGED M!vars
  <2>1. Busy' = {} /\ Busy = {p} /\ copies' = copies /\ queue' = queue
    <3>1. Ends(p)
      BY <1>0, <1>5, EndingEnds DEF Ending
    <3>2. QED
      BY <1>0, <1>5, <3>1, ReturnEffect DEF Ends, Report
  <2>2. Handing = {} /\ Handing' = {}
    BY <1>5, <2>1 DEF Handing, Failing, Report
  <2>3. Current' = Current /\ Statuses' = Statuses
    BY <1>0a, <1>0b, <2>1, <2>2 DEF Statuses
  <2>4. QED
    BY <2>1, <2>3 DEF M!vars, Statuses
<1>6. ASSUME Crash PROVE M!Ended \/ UNCHANGED M!vars
  <2>1. Handing' = {} /\ queue' = queue /\ copies' = copies
    BY <1>6 DEF Crash, Busy, Handing, agent
  <2>2. Current' = None /\ Statuses' = Statuses
    BY <1>0b, <2>1 DEF Statuses
  <2>3. QED
    BY <2>1, <2>2 DEF M!Ended, M!vars, Statuses
<1>7. ASSUME UNCHANGED vars PROVE UNCHANGED M!vars
  <2>1. queue' = queue /\ copies' = copies /\ doing' = doing /\ Handing' = Handing
    BY <1>7 DEF vars, table, memory, agent, Busy, Failing, Handing
  <2>2. Current' = Current
    BY <1>0a, <1>0b, <2>1
  <2>3. QED
    BY <2>1, <2>2 DEF M!vars
<1>8. QED
  BY <1>1, <1>2, <1>3, <1>4, <1>5, <1>6, <1>7, NextSplits DEF M!Next

(* Every behaviour of the dispatcher is one of the mailbox: messages are   *)
(* handed over one at a time and settled by whoever has them in hand.      *)
THEOREM Refinement == Spec => MailboxSpec
<1>1. Init => M!Init
  BY MailboxInit
<1>2. IInv /\ [Next]_vars => [M!Next]_(M!vars)
  BY MailboxStep
<1>3. QED
  BY <1>1, <1>2, Invariance, PTL DEF Spec, MailboxSpec, M!Spec

-----------------------------------------------------------------------------
(* Order                                                                   *)

(* A row that was never retried does not wait for a backoff.               *)
Tidy(q) == \A m \in Msg : q[m].retry = 0 => q[m].due = 0

(* A retry is never forgotten, and rows are posted in their order.         *)
RetriesStay(q, r) == \A m \in Msg : r[m].retry = 0 => q[m].retry = 0
InTurn(q) == \A m \in Msg : queue[m].status = "none" /\ q[m].status # "none"
                                => Fresh # {} /\ m = Arrival

(* The row taken in hand is the first one that does not wait.              *)
ClaimsOldest(p) == \E m \in Msg :
                      /\ ~inFlight
                      /\ queue'[m].status = "pending"
                      /\ pc' = [pc EXCEPT ![p] = "locking"]
                      /\ doing' = [doing EXCEPT ![p] = m]
                      /\ \A k \in Msg : k < m /\ queue'[k].status = "pending"
                                            => queue'[k].due # 0

AttemptedInOrder(p, q) == /\ Tidy(queue') /\ RetriesStay(q, queue')
                          /\ \A m \in Msg : queue'[m].status = q[m].status
                          /\ Skips \/ ClaimsOldest(p)

AsksInOrder == /\ Tidy(queue') /\ RetriesStay(queue, queue') /\ InTurn(queue')
               /\ Skips \/ \E p \in Proc : ClaimsOldest(p)

(* The least member of a set of messages, by its definition.               *)
LEMMA OldestIsLeast ==
    ASSUME NEW S \in SUBSET Msg, NEW k \in S PROVE Oldest(S) \in S /\ Oldest(S) <= k
<1>1. \E m \in S : \A n \in S : m <= n
  BY HasLeast
<1>2. QED
  BY <1>1 DEF Oldest

(* resetStaleAttempts counts as a retry.                                   *)
LEMMA ResetInOrder ==
    ASSUME NEW q \in [Msg -> Row], Tidy(q)
    PROVE  Tidy(Reset(q)) /\ RetriesStay(q, Reset(q))
<1>1. ASSUME NEW m \in Msg
      PROVE  Reset(q)[m].retry = 0 => q[m].retry = 0 /\ Reset(q)[m].due = 0
  <2>1. CASE Stale(q[m])
    <3>1. q[m].retry \in 0 .. MaxRetries + 1 /\ MaxRetries \in Nat
      BY DispatcherAssumption DEF Row
    <3>2. Another(q[m].retry) # 0
      BY <3>1 DEF Another
    <3>3. Reset(q)[m] = [q[m] EXCEPT !.retry = Another(@), !.due = Backoff[1]]
      BY <2>1 DEF Reset
    <3>4. Reset(q)[m].retry = Another(q[m].retry)
      BY <3>3 DEF Row
    <3>5. QED
      BY <3>2, <3>4
  <2>2. CASE ~Stale(q[m])
    BY <2>2 DEF Reset, Tidy
  <2>3. QED
    BY <2>1, <2>2
<1>2. QED
  BY <1>1 DEF Tidy, RetriesStay

(* What is posted waits for nothing and is the first row not yet used.     *)
LEMMA InsertInOrder ==
    ASSUME NEW q \in [Msg -> Row], Tidy(q), Fresh # {},
           \A m \in Msg : queue[m].status = "none" => q[m].status = "none"
    PROVE  Tidy(Inserted(q)) /\ RetriesStay(q, Inserted(q)) /\ InTurn(Inserted(q))
<1>1. Arrival \in Msg
  BY InsertEffect
<1>2. \A m \in Msg : Inserted(q)[m].retry = q[m].retry /\ Inserted(q)[m].due = q[m].due
  BY <1>1 DEF Inserted, Row
<1>3. \A m \in Msg : m # Arrival => Inserted(q)[m].status = q[m].status
  BY InsertEffect
<1>4. QED
  BY <1>2, <1>3 DEF Tidy, RetriesStay, InTurn

(* deliverNextMessage takes the oldest row that is due.                    *)
LEMMA BeginInOrder ==
    ASSUME NEW p \in Proc, NEW q \in [Msg -> Row], Tidy(q), Begin(p, q)
    PROVE  AttemptedInOrder(p, q)
<1>1. ASSUME Claimable(q),
             queue' = [q EXCEPT ![Oldest(Deliverable(q))].age = 1],
             doing' = [doing EXCEPT ![p] = Oldest(Deliverable(q))],
             pc' = [pc EXCEPT ![p] = "locking"]
      PROVE  AttemptedInOrder(p, q)
  <2> DEFINE m == Oldest(Deliverable(q))
  <2>1. Deliverable(q) \in SUBSET Msg /\ m \in Deliverable(q) /\ ~inFlight
    BY <1>1, OldestIsMember DEF Claimable, Deliverable, Pending
  <2>2. m \in Msg /\ q[m].status = "pending"
    BY <2>1 DEF Deliverable, Pending
  <2>3. \A k \in Deliverable(q) : m <= k
    BY <2>1, OldestIsLeast
  <2>4. \A k \in Msg : k < m /\ q[k].status = "pending" => q[k].due # 0
    <3>1. ASSUME NEW k \in Msg, k < m, q[k].status = "pending", q[k].due = 0 PROVE FALSE
      <4>1. k \in Deliverable(q)
        BY <3>1 DEF Deliverable, Pending
      <4>2. m <= k /\ m \in Nat /\ k \in Nat
        BY <2>2, <2>3, <4>1, DispatcherAssumption DEF Msg
      <4>3. QED
        BY <3>1, <4>2
    <3>2. QED
      BY <3>1
  <2> HIDE DEF m
  <2>5. queue' = [q EXCEPT ![m].age = 1] /\ doing' = [doing EXCEPT ![p] = m]
    BY <1>1 DEF m
  <2>6. \A k \in Msg : /\ queue'[k].status = q[k].status
                       /\ queue'[k].retry = q[k].retry /\ queue'[k].due = q[k].due
    BY <2>2, <2>5 DEF Row
  <2>7. ClaimsOldest(p)
    BY ZenonT(40), <1>1, <2>1, <2>2, <2>4, <2>5, <2>6 DEF ClaimsOldest
  <2>8. QED
    BY <2>6, <2>7 DEF AttemptedInOrder, Tidy, RetriesStay
<1>2. ASSUME queue' = q, UNCHANGED <<inFlight, pc, doing>> PROVE AttemptedInOrder(p, q)
  BY <1>2 DEF AttemptedInOrder, RetriesStay, Skips
<1>3. QED
  BY <1>1, <1>2 DEF Begin

(* So does a call of tryDeliver.                                           *)
LEMMA CallInOrder ==
    ASSUME NEW c \in Caller, NEW q \in [Msg -> Row], Tidy(q), TryDeliver(c, q)
    PROVE  AttemptedInOrder(c, q)
<1>1. /\ c \in Proc /\ Reset(q) \in [Msg -> Row] /\ Tidy(Reset(q)) /\ RetriesStay(q, Reset(q))
      /\ \A m \in Msg : Reset(q)[m].status = q[m].status
  BY ResetEffect, ResetInOrder DEF Proc
<1>2. CASE avail
  <2>1. AttemptedInOrder(c, Reset(q))
    BY <1>1, <1>2, BeginInOrder DEF TryDeliver
  <2>2. QED
    BY <1>1, <2>1 DEF AttemptedInOrder, RetriesStay
<1>3. CASE ~avail
  BY <1>1, <1>3 DEF TryDeliver, AttemptedInOrder, Skips
<1>4. QED
  BY <1>2, <1>3

(* Whoever asks for work asks for it in order.                             *)
LEMMA AskingInOrder == ASSUME TypeOK, Tidy(queue), Asking PROVE AsksInOrder
<1>0. queue \in [Msg -> Row] /\ Caller \subseteq Proc /\ Drain \in Proc
  BY DEF TypeOK, Proc
<1>0a. RetriesStay(queue, queue) /\ InTurn(queue)
  BY DEF RetriesStay, InTurn
<1>0b. /\ Reset(queue) \in [Msg -> Row] /\ Tidy(Reset(queue)) /\ RetriesStay(queue, Reset(queue))
       /\ InTurn(Reset(queue))
  BY <1>0, ResetEffect, ResetInOrder DEF InTurn
<1>0c. ASSUME NEW p \in Proc, NEW q, AttemptedInOrder(p, q), RetriesStay(queue, q), InTurn(q)
       PROVE  AsksInOrder
  BY <1>0c DEF AttemptedInOrder, AsksInOrder, RetriesStay, InTurn
<1>1. ASSUME Fresh # {} PROVE /\ Inserted(queue) \in [Msg -> Row]
                              /\ Tidy(Inserted(queue)) /\ RetriesStay(queue, Inserted(queue))
                              /\ InTurn(Inserted(queue))
  BY <1>0, <1>1, InsertEffect, InsertInOrder
<1>2. ASSUME NEW c \in Caller, Enqueue(c) PROVE AsksInOrder
  <2>1. Fresh # {} /\ AttemptedInOrder(c, Inserted(queue))
    BY <1>1, <1>2, CallInOrder DEF Enqueue
  <2>2. QED
    BY <1>0, <1>0c, <1>1, <2>1
<1>3. ASSUME NEW c \in Caller, IdleDetected(c) \/ Sweep(c) PROVE AsksInOrder
  <2>1. CASE TryDeliver(c, queue)
    <3>1. AttemptedInOrder(c, queue)
      BY <1>0, <2>1, CallInOrder
    <3>2. QED
      BY <1>0, <1>0a, <1>0c, <3>1
  <2>2. CASE UNCHANGED <<queue, memory>>
    BY <1>0a, <2>2 DEF AsksInOrder, Skips, memory, InTurn
  <2>3. QED
    BY <1>3, <2>1, <2>2 DEF IdleDetected, Sweep
<1>4. ASSUME NEW c \in Caller, NEW m \in Msg, Withdraw(c, m) PROVE AsksInOrder
  <2> DEFINE q == IF queue[m].status = "pending"
                  THEN [queue EXCEPT ![m].status = "failed"] ELSE queue
  <2>1. queue[m] \in Row /\ [queue[m] EXCEPT !.status = "failed"] \in Row
    <3>1. queue[m] \in Row
      BY <1>0
    <3>2. QED
      BY <3>1, RowEffects
  <2>2. q \in [Msg -> Row]
    BY <1>0, <2>1
  <2>3. \A n \in Msg : /\ q[n].retry = queue[n].retry /\ q[n].due = queue[n].due
                       /\ queue[n].status = "none" <=> q[n].status = "none"
    BY <1>0, <2>1 DEF Row
  <2> HIDE DEF q
  <2>4. Fresh # {} /\ TryDeliver(c, Inserted(q))
    BY <1>4 DEF Withdraw, q
  <2>5. Tidy(q) /\ RetriesStay(queue, q)
    BY <2>3 DEF Tidy, RetriesStay
  <2>6. /\ Inserted(q) \in [Msg -> Row]
        /\ Tidy(Inserted(q)) /\ RetriesStay(q, Inserted(q)) /\ InTurn(Inserted(q))
    BY <2>2, <2>3, <2>4, <2>5, InsertEffect, InsertInOrder
  <2>7. AttemptedInOrder(c, Inserted(q)) /\ RetriesStay(queue, Inserted(q))
    BY <2>4, <2>5, <2>6, CallInOrder DEF RetriesStay
  <2>8. QED
    BY <1>0, <1>0c, <2>6, <2>7
<1>5. ASSUME DrainTurn PROVE AsksInOrder
  <2>1. CASE avail
    <3>1. AttemptedInOrder(Drain, Reset(queue))
      BY <1>0, <1>0b, <1>5, <2>1, BeginInOrder DEF DrainTurn
    <3>2. QED
      BY <1>0, <1>0b, <1>0c, <3>1
  <2>2. CASE ~avail
    BY <1>0b, <1>5, <2>2 DEF DrainTurn, AsksInOrder, Skips
  <2>3. QED
    BY <2>1, <2>2
<1>6. ASSUME EnqueueReply \/ OtherSweep PROVE AsksInOrder
  BY <1>0b, <1>1, <1>6 DEF EnqueueReply, OtherSweep, AsksInOrder, Skips, memory
<1>7. ASSUME Leave \/ ComeBack \/ Restart PROVE AsksInOrder
  BY <1>0a, <1>7 DEF Leave, ComeBack, Restart, AsksInOrder, Skips, table, memory,
                     Tidy, RetriesStay, InTurn
<1>8. ASSUME Tick PROVE AsksInOrder
  <2>1. ASSUME NEW m \in Msg
        PROVE  /\ queue'[m].status = queue[m].status /\ queue'[m].retry = queue[m].retry
               /\ queue[m].due = 0 => queue'[m].due = 0
    <3> DEFINE age == IF queue[m].age \in {0, StaleAfter + 2} THEN queue[m].age
                      ELSE queue[m].age + 1
               due == IF queue[m].due = 0 THEN 0 ELSE queue[m].due - 1
    <3>1. queue'[m] = [queue[m] EXCEPT !.due = due, !.age = age] /\ queue[m] \in Row
      BY <1>0, <1>8 DEF Tick
    <3>2. queue[m].due = 0 => due = 0
      OBVIOUS
    <3> HIDE DEF age, due
    <3>3. QED
      BY <3>1, <3>2 DEF Row
  <2>2. QED
    BY <1>8, <2>1 DEF Tick, AsksInOrder, Skips, Tidy, RetriesStay, InTurn
<1>9. QED
  BY <1>2, <1>3, <1>4, <1>5, <1>6, <1>7, <1>8 DEF Asking

(* Rows are used in order, only used ones are sent, and no row is sent or  *)
(* in hand while an earlier one waits for its first attempt.               *)
InOrder == /\ Tidy(queue)
           /\ \A m, n \in Msg : m < n /\ queue[m].status = "none" => queue[n].status = "none"
           /\ \A n \in Msg : copies[n] > 0 => queue[n].status # "none"
           /\ \A m, n \in Msg : m < n /\ queue[m].status = "pending" /\ queue[m].retry = 0
                  => copies[n] = 0 /\ \A p \in Busy : doing[p] # n

OrderInv == IInv /\ InOrder

(* A failed attempt counts as a retry.                                     *)
LEMMA FailureIsARetry == ASSUME NEW r \in Row PROVE AttemptFailed(r).retry # 0
<1>1. r.retry \in 0 .. MaxRetries + 1 /\ MaxRetries \in Nat
  BY DispatcherAssumption DEF Row
<1>2. Another(r.retry) # 0
  BY <1>1 DEF Another
<1>3. AttemptFailed(r).retry = Another(r.retry)
  BY <1>1 DEF AttemptFailed, Row
<1>4. QED
  BY <1>2, <1>3

(* The order of the queue is inductive, whatever the faults.               *)
LEMMA OrderStep == ASSUME OrderInv, [Next]_vars PROVE OrderInv'
<1>a. /\ IInv /\ IInv' /\ InOrder /\ TypeOK /\ OneDelivery /\ InHand /\ Tidy(queue)
  BY StepIInv DEF OrderInv, InOrder, IInv
<1>b. \A p \in Busy : doing[p] \in Msg /\ queue[doing[p]].status # "none"
  BY <1>a DEF OneDelivery, InHand
<1>c. Msg \subseteq Nat
  BY DispatcherAssumption DEF Msg
<1>0. /\ IInv /\ IInv' /\ InOrder /\ TypeOK /\ Tidy(queue)
      /\ \A p, q \in Busy : p = q
      /\ \A p \in Busy : doing[p] \in Msg /\ queue[doing[p]].status # "none"
      /\ inFlight = (Busy # {})
      /\ pc \in [Proc -> {"idle", "locking", "pasted", "failing"}]
      /\ doing \in [Proc -> Msg \cup {None}]
      /\ copies \in [Msg -> 0 .. 2] /\ queue \in [Msg -> Row]
      /\ Msg \subseteq Nat
  BY <1>a, <1>b, <1>c DEF OneDelivery, TypeOK
<1>1. ASSUME Asking PROVE InOrder'
  <2>1. Asks /\ AsksInOrder
    BY <1>0, <1>1, AskingAsks, AskingInOrder
  <2>2. /\ \A m \in Msg : Posted(queue[m].status, queue'[m].status)
        /\ copies' = copies
    BY <2>1 DEF Asks, RowsAsked
  <2>3. Tidy(queue') /\ RetriesStay(queue, queue') /\ InTurn(queue')
    BY <2>1 DEF AsksInOrder
  <2>4. \A m \in Fresh : Arrival <= m
    BY OldestIsLeast DEF Arrival, Oldest, Fresh
  <2>5. ASSUME NEW m \in Msg, NEW n \in Msg, m < n, queue'[m].status = "none"
        PROVE  queue'[n].status = "none"
    <3>1. queue[m].status = "none" /\ queue[n].status = "none" /\ m \in Fresh
      BY <1>0, <2>2, <2>5 DEF Posted, InOrder, Fresh
    <3>2. n # Arrival
      BY <1>0, <2>4, <2>5, <3>1
    <3>3. QED
      BY <2>3, <3>1, <3>2 DEF InTurn
  <2>6. \A n \in Msg : copies'[n] > 0 => queue'[n].status # "none"
    BY <1>0, <2>2 DEF Posted, InOrder
  <2>7. ASSUME NEW m \in Msg, NEW n \in Msg, m < n,
               queue'[m].status = "pending", queue'[m].retry = 0
        PROVE  copies'[n] = 0 /\ \A p \in Busy' : doing'[p] # n
    <3>1. queue[m].retry = 0 /\ queue'[m].due = 0
      BY <2>3, <2>7 DEF Tidy, RetriesStay
    <3>2. copies[n] = 0 /\ \A p \in Busy : doing[p] # n
      <4>1. CASE queue[m].status = "pending"
        BY <1>0, <2>7, <3>1, <4>1 DEF InOrder
      <4>2. CASE queue[m].status = "none"
        <5>1. queue[n].status = "none"
          BY <1>0, <2>7, <4>2 DEF InOrder
        <5>2. copies[n] = 0
          BY <1>0, <5>1 DEF InOrder
        <5>3. QED
          BY <1>0, <5>1, <5>2
      <4>3. QED
        BY <2>2, <2>7, <4>1, <4>2 DEF Posted
    <3>3. CASE Skips
      <4>1. Busy' = Busy /\ doing' = doing
        BY <3>3 DEF Skips, Busy
      <4>2. QED
        BY <2>2, <3>2, <4>1
    <3>4. ASSUME NEW p \in Proc, ClaimsOldest(p)
          PROVE  copies'[n] = 0 /\ \A q \in Busy' : doing'[q] # n
      <4>1. PICK k \in Msg : /\ ~inFlight
                             /\ pc' = [pc EXCEPT ![p] = "locking"]
                             /\ doing' = [doing EXCEPT ![p] = k]
                             /\ \A l \in Msg : l < k /\ queue'[l].status = "pending"
                                                   => queue'[l].due # 0
        BY <3>4 DEF ClaimsOldest
      <4>2. k # n
        BY <2>7, <3>1, <4>1
      <4>3. Busy = {}
        BY <1>0, <4>1
      <4>4. Busy' = {p} /\ doing'[p] = k
        BY <1>0, <4>1, <4>3 DEF Busy
      <4>5. QED
        BY <2>2, <3>2, <4>2, <4>4
    <3>5. QED
      BY <2>1, <3>3, <3>4 DEF AsksInOrder
  <2>8. QED
    BY <2>3, <2>5, <2>6, <2>7 DEF InOrder
<1>2. ASSUME NEW p \in Proc, Paste(p) PROVE InOrder'
  <2>1. /\ p \in Busy /\ doing[p] \in Msg /\ queue' = queue /\ doing' = doing /\ Busy' = Busy
        /\ \A n \in Msg : n # doing[p] => copies'[n] = copies[n]
    BY <1>0, <1>2 DEF Paste, Busy, table
  <2>2. QED
    BY <1>0, <2>1 DEF InOrder
<1>3. ASSUME NEW p \in Proc, Ending(p) PROVE InOrder'
  <2>1. /\ p \in Busy /\ Busy' = {} /\ doing[p] \in Msg /\ copies' = copies
        /\ queue[doing[p]] \in Row
    BY <1>0, <1>3, EndingEnds, ReturnEffect DEF Ends
  <2>2. /\ \A m \in Msg \ {doing[p]} : queue'[m] = queue[m]
        /\ queue'[doing[p]].status # "none"
    BY <1>0, <1>3, <2>1, EndingStatus
  <2>3. \/ queue'[doing[p]] = queue[doing[p]]
        \/ /\ queue'[doing[p]].status = "delivered"
           /\ queue'[doing[p]].retry = queue[doing[p]].retry
           /\ queue'[doing[p]].due = queue[doing[p]].due
        \/ queue'[doing[p]].retry # 0
    <3>1. CASE LockTimeout(p)
      BY <3>1 DEF LockTimeout, table
    <3>2. CASE Succeed(p)
      <4>1. queue'[doing[p]] = [queue[doing[p]] EXCEPT !.status = "delivered"]
        BY <1>0, <2>1, <3>2 DEF Succeed
      <4>2. QED
        BY <2>1, <4>1 DEF Row
    <3>3. CASE Fail(p)
      <4>1. queue'[doing[p]] = AttemptFailed(queue[doing[p]])
        BY <1>0, <2>1, <3>3 DEF Fail, Failed
      <4>2. QED
        BY <2>1, <4>1, FailureIsARetry
    <3>4. CASE Report(p)
      BY <3>4 DEF Report
    <3>5. QED
      BY <1>3, <3>1, <3>2, <3>3, <3>4 DEF Ending
  <2>4. Tidy(queue')
    BY <1>0, <2>2, <2>3 DEF Tidy
  <2>5. \A m \in Msg : queue'[m].status = "none" <=> queue[m].status = "none"
    BY <1>0, <2>1, <2>2
  <2>6. \A m \in Msg : queue'[m].status = "pending" /\ queue'[m].retry = 0
                           => queue[m].status = "pending" /\ queue[m].retry = 0
    BY <2>2, <2>3
  <2>7. QED
    BY <1>0, <2>1, <2>4, <2>5, <2>6 DEF InOrder
<1>4. ASSUME Crash PROVE InOrder'
  <2>1. Busy' = {} /\ queue' = queue /\ copies' = copies
    BY <1>4 DEF Crash, Busy, agent
  <2>2. QED
    BY <1>0, <2>1 DEF InOrder
<1>5. ASSUME UNCHANGED vars PROVE InOrder'
  <2>1. queue' = queue /\ copies' = copies /\ doing' = doing /\ Busy' = Busy
    BY <1>5 DEF vars, table, memory, agent, Busy
  <2>2. QED
    BY <1>0, <2>1 DEF InOrder
<1>6. ASSUME NEW p \in Proc, GiveUp(p) PROVE InOrder'
  <2>1. /\ p \in Busy /\ Busy' = Busy /\ doing[p] \in Msg /\ doing' = doing /\ copies' = copies
        /\ queue'[doing[p]] = AttemptFailed(queue[doing[p]])
        /\ queue'[doing[p]].status = "failed" /\ queue'[doing[p]].retry # 0
        /\ \A m \in Msg \ {doing[p]} : queue'[m] = queue[m]
    <3>1. doing[p] \in Msg /\ queue[doing[p]] \in Row
      BY <1>0, <1>6, GiveUpEffect
    <3>2. QED
      BY <1>0, <1>6, <3>1, GiveUpEffect, FailureIsARetry
  <2>2. Tidy(queue')
    BY <1>0, <2>1 DEF Tidy
  <2>3. /\ \A m \in Msg : queue'[m].status = "none" <=> queue[m].status = "none"
        /\ \A m \in Msg : queue'[m].status = "pending" /\ queue'[m].retry = 0
                               => queue[m].status = "pending" /\ queue[m].retry = 0
    BY <1>0, <2>1
  <2>4. QED
    BY <1>0, <2>1, <2>2, <2>3 DEF InOrder
<1>7. QED
  BY <1>0, <1>1, <1>2, <1>3, <1>4, <1>5, <1>6, NextSplits DEF OrderInv

(* A message the agent was sent has overtaken only messages that have had  *)
(* an attempt, for every interleaving of callers, drain loop, resets,      *)
(* withdrawals and crashes.                                                *)
THEOREM OrderIsKept == Spec => []OvertakenOnlyAfterFailure
<1>1. Init => OrderInv
  <2>1. ASSUME Init
        PROVE  /\ IInv /\ Busy = {} /\ \A m \in Msg : copies[m] = 0
               /\ \A m \in Msg : queue[m] = [status |-> "none", retry |-> 0, due |-> 0, age |-> 0]
    BY <2>1, InitIInv DEF Init, Busy
  <2>2. QED
    BY <2>1 DEF OrderInv, InOrder, Tidy
<1>2. OrderInv => OvertakenOnlyAfterFailure
  <2>1. ASSUME OrderInv, NEW m \in Msg, NEW n \in Msg, m < n, copies[n] > 0,
               queue[m].status = "pending"
        PROVE  queue[m].retry > 0
    <3>1. queue[m].retry \in Nat /\ queue[m].retry # 0
      <4>1. queue[m] \in Row /\ copies[n] # 0 /\ MaxRetries \in Nat
        BY <2>1, DispatcherAssumption DEF OrderInv, IInv, TypeOK
      <4>2. QED
        BY <2>1, <4>1 DEF OrderInv, InOrder, Row
    <3>2. QED
      BY <3>1
  <2>2. QED
    BY <2>1 DEF OvertakenOnlyAfterFailure
<1>3. QED
  BY <1>1, <1>2, OrderStep, PTL DEF Spec
=============================================================================

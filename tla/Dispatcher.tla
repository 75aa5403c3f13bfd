----------------------------- MODULE Dispatcher -----------------------------
(***************************************************************************)
(* Delivery of queued messages to one agent: MessageDispatcher in          *)
(* src/src/orchestrator/message-dispatcher.ts, with the pending_messages   *)
(* queries of database.ts it is built on.                                  *)
(*                                                                         *)
(* Messages are rows of a table.  A delivery marks the oldest row that is  *)
(* due, waits for the agent's lock, pastes, and records the outcome; only  *)
(* the two awaits in the middle can be interleaved with anything else, so  *)
(* the code before, between and after them is one step each.  tryDeliver   *)
(* may be called at any time; the drain loop is a timer that delivers one  *)
(* message per turn and sets itself again.  The rows survive a crash, the  *)
(* guards and timers do not.  Queues of different agents share nothing but *)
(* resetStaleAttempts, which sweeps the rows of all agents.                *)
(*                                                                         *)
(* The clock ticks once per drain interval (6 s).                          *)
(***************************************************************************)
EXTENDS Naturals, FiniteSets

CONSTANTS Last,        \* bound: message ids are 1 .. Last, in order of arrival
          Caller,      \* concurrent calls of tryDeliver
          Drain,       \* the drain loop
          None,        \* no message
          DrainMax,    \* DRAIN_MAX_ATTEMPTS
          StaleAfter,  \* STALE_ATTEMPT_TIMEOUT_S, in ticks
          Backoff,     \* Backoff[n]: ticks after the nth failure; Backoff[1] is
                       \* also what resetStaleAttempts waits
          MaxRetries,  \* MAX_DELIVERY_RETRIES
          Slow,        \* ticks a delivery takes at most: waits for the lock and
                       \* for the proxy end in timeouts
          Fault        \* what else happens: see Faults

Msg == 1 .. Last
Proc == Caller \cup {Drain}
Faults == {"pasteError", "lockTimeout", "leave", "withdraw", "crash", "silent", "sweep",
           "replyError"}

ASSUME DispatcherAssumption ==
    /\ Last \in Nat \ {0}
    /\ Drain \notin Caller /\ None \notin Msg
    /\ DrainMax \in Nat \ {0} /\ StaleAfter \in Nat /\ MaxRetries \in Nat \ {0}
    /\ Slow \in Nat
    /\ Backoff \in [1 .. MaxRetries -> Nat]
    /\ Fault \subseteq Faults

VARIABLES queue,     \* queue[m]: the row of message m
          inFlight,  \* is the agent in deliveriesInFlight?
          drain,     \* the agent in draining, its timer and its attempt
          pc,        \* pc[p]: where p is in deliverNextMessage
          doing,     \* doing[p]: the message p delivers
          answer,    \* answer[p]: did the proxy confirm the paste?
          avail,     \* canSuspend(agent) and a proxy: active or idle
          idleDue,   \* the agent is active, and will be found idle
          up,        \* the orchestrator runs
          sweepDue,  \* the sweep of main.ts, 10 s after the start, is to come
          copies,    \* copies[m]: how often the agent has been sent m (0, 1, many)
          replied,   \* messages whose sender has been told of the failure
          untold,    \* messages whose sender was to be told and was not (history)
          withdrawn  \* messages the sender has withdrawn

table == <<queue, replied, untold, withdrawn>>
memory == <<inFlight, drain, pc, doing, answer>>
agent == <<avail, idleDue, copies>>
process == <<up, sweepDue>>
vars == <<table, memory, agent, process>>

Row == [status : {"none", "pending", "delivered", "failed"},
        retry : 0 .. MaxRetries + 1,       \* retry_count; the last stands for more
        due : Nat,                         \* next_attempt_at - now, 0 once past
        age : 0 .. StaleAfter + 2]         \* 1 + now - last_attempt_at; 0 for null

TypeOK == /\ queue \in [Msg -> Row]
          /\ inFlight \in BOOLEAN
          /\ drain \in [on : BOOLEAN, timer : {"none", "set", "due"}, attempt : 0 .. DrainMax - 1]
          /\ pc \in [Proc -> {"idle", "locking", "pasted", "failing"}]
          /\ doing \in [Proc -> Msg \cup {None}]
          /\ answer \in [Proc -> BOOLEAN]
          /\ avail \in BOOLEAN /\ idleDue \in BOOLEAN /\ up \in BOOLEAN /\ sweepDue \in BOOLEAN
          /\ copies \in [Msg -> 0 .. 2]
          /\ replied \subseteq Msg /\ untold \subseteq Msg /\ withdrawn \subseteq Msg

NoDrain == [on |-> FALSE, timer |-> "none", attempt |-> 0]

Init == /\ queue = [m \in Msg |-> [status |-> "none", retry |-> 0, due |-> 0, age |-> 0]]
        /\ inFlight = FALSE
        /\ drain = NoDrain
        /\ pc = [p \in Proc |-> "idle"]
        /\ doing = [p \in Proc |-> None]
        /\ answer = [p \in Proc |-> FALSE]
        /\ avail \in IF "leave" \in Fault THEN BOOLEAN ELSE {TRUE}
        /\ idleDue = FALSE
        /\ up = TRUE /\ sweepDue = TRUE
        /\ copies = [m \in Msg |-> 0]
        /\ replied = {} /\ untold = {} /\ withdrawn = {}

(* Who has marked a message failed, and has yet to tell its sender.        *)
Failing == {p \in Proc : pc[p] = "failing"}

-----------------------------------------------------------------------------
(* The queries                                                             *)

Pending(q) == {m \in Msg : q[m].status = "pending"}
Deliverable(q) == {m \in Pending(q) : q[m].due = 0}
Newest(S) == CHOOSE m \in S : \A n \in S : n <= m    \* mutant
Oldest(S) == CHOOSE m \in S : \A n \in S : m <= n

Another(n) == IF n > MaxRetries THEN n ELSE n + 1

(* resetStaleAttempts: last_attempt_at stays, so a row that is stale stays *)
(* stale until its next attempt.                                           *)
Stale(r) == r.status = "pending" /\ r.age > StaleAfter + 1

Reset(q) == [m \in Msg |-> IF Stale(q[m])
                           THEN [q[m] EXCEPT !.retry = Another(@), !.due = Backoff[1]]
                           ELSE q[m]]

AttemptFailed(r) ==
    LET n == Another(r.retry)
    IN  IF n >= MaxRetries THEN [r EXCEPT !.status = "failed", !.retry = n]
                           ELSE [r EXCEPT !.retry = n, !.due = Backoff[n]]

-----------------------------------------------------------------------------
(* The drain loop and the delivery                                         *)

Armed(n) == [on |-> TRUE, timer |-> "set", attempt |-> n]

(* scheduleDrain, asked for by a call of tryDeliver.                       *)
Schedule(S) == drain' = IF drain.on \/ S = {} THEN drain ELSE Armed(0)

(* Mutants: a drain loop without a last attempt; one that stops when what  *)
(* is left waits for its backoff.                                          *)
EndlessDrain(p, q) ==
    IF p = Drain
    THEN drain' = IF Pending(q) # {} THEN Armed(drain.attempt + 1) ELSE NoDrain
    ELSE Schedule(Pending(q))

DrainsWhatIsDue(p, q) ==
    IF p = Drain
    THEN drain' = IF Deliverable(q) # {} /\ drain.attempt + 1 < DrainMax
                  THEN Armed(drain.attempt + 1) ELSE NoDrain
    ELSE Schedule(Deliverable(q))

(* What the caller does once deliverNextMessage has returned.              *)
Continue(p, q) ==
    IF p = Drain
    THEN drain' = IF Pending(q) # {} /\ drain.attempt + 1 < DrainMax
                  THEN Armed(drain.attempt + 1) ELSE NoDrain
    ELSE Schedule(Pending(q))

(* Mutant: deliveriesInFlight is not looked at.                            *)
Unguarded(q) == Deliverable(q) # {}

(* deliverNextMessage up to the lock, on the queue q.                      *)
Claimable(q) == ~inFlight /\ Deliverable(q) # {}

Begin(p, q) ==
    \/ /\ Claimable(q)
       /\ LET m == Oldest(Deliverable(q))
          IN  /\ queue' = [q EXCEPT ![m].age = 1]
              /\ doing' = [doing EXCEPT ![p] = m]
       /\ inFlight' = TRUE
       /\ pc' = [pc EXCEPT ![p] = "locking"]
       /\ drain' = IF p = Drain THEN [drain EXCEPT !.timer = "none"] ELSE drain
       /\ UNCHANGED answer
    \/ /\ ~Claimable(q)
       /\ queue' = q
       /\ Continue(p, q)
       /\ UNCHANGED <<inFlight, pc, doing, answer>>

(* tryDeliver on the queue q.  An agent that is not there gets a drain     *)
(* loop for the messages that are due.                                     *)
TryDeliver(c, q) ==
    /\ up /\ c \in Caller /\ pc[c] = "idle"
    /\ IF avail THEN Begin(c, Reset(q))
       ELSE /\ queue' = Reset(q)
            /\ Schedule(Deliverable(Reset(q)))
            /\ UNCHANGED <<inFlight, pc, doing, answer>>

(* The timer of the drain loop.                                            *)
DrainTurn ==
    /\ drain.timer = "due"
    /\ IF avail THEN Begin(Drain, Reset(queue))
       ELSE /\ queue' = Reset(queue)
            /\ drain' = NoDrain
            /\ UNCHANGED <<inFlight, pc, doing, answer>>
    /\ UNCHANGED <<replied, untold, withdrawn, agent, process>>

(* deliverToAgent has the lock and pastes, whatever the agent does now.    *)
(* The proxy may be asked up to three times, and each may have pasted.     *)
More(n, k) == IF n + k > 2 THEN 2 ELSE n + k

Paste(p) ==
    /\ pc[p] = "locking"
    /\ pc' = [pc EXCEPT ![p] = "pasted"]
    /\ \E sent \in 0 .. 2, ok \in BOOLEAN :
          /\ ok => sent > 0
          /\ "pasteError" \notin Fault =>
                \/ sent = 1 /\ ok
                \/ sent = 0 /\ ~avail
          /\ copies' = [copies EXCEPT ![doing[p]] = More(@, sent)]
          /\ answer' = [answer EXCEPT ![p] = ok]
    /\ UNCHANGED <<table, inFlight, drain, doing, avail, idleDue, process>>

Return(p) == /\ inFlight' = FALSE
             /\ pc' = [pc EXCEPT ![p] = "idle"]
             /\ doing' = [doing EXCEPT ![p] = None]
             /\ UNCHANGED answer

(* Mutant: the flag is not cleared by a finally.                           *)
LockTimeoutKeepsFlag(p) ==
    /\ "lockTimeout" \in Fault
    /\ pc[p] = "locking"
    /\ pc' = [pc EXCEPT ![p] = "idle"]
    /\ doing' = [doing EXCEPT ![p] = None]
    /\ drain' = IF p = Drain THEN NoDrain ELSE drain
    /\ UNCHANGED <<table, inFlight, answer, agent, process>>

(* lock() timed out: the exception leaves the row as it is; tryDeliver     *)
(* schedules nothing and the drain loop ends.                              *)
LockTimeout(p) ==
    /\ "lockTimeout" \in Fault
    /\ pc[p] = "locking"
    /\ Return(p)
    /\ drain' = IF p = Drain THEN NoDrain ELSE drain
    /\ UNCHANGED <<table, agent, process>>

(* Mutant: the answer of the proxy, an object, is taken for a success.     *)
SucceedAnyway(p) ==
    LET m == doing[p]
        q == [queue EXCEPT ![m].status = "delivered"]
    IN  /\ pc[p] = "pasted"
        /\ queue' = q
        /\ Return(p)
        /\ Continue(p, q)
        /\ idleDue' = avail
        /\ UNCHANGED <<replied, untold, withdrawn, avail, copies, process>>

(* markMessageDelivered does not look at the status of the row.            *)
Succeed(p) ==
    LET m == doing[p]
        q == [queue EXCEPT ![m].status = "delivered"]
    IN  /\ pc[p] = "pasted" /\ answer[p]
        /\ queue' = q
        /\ Return(p)
        /\ Continue(p, q)
        /\ idleDue' = avail
        /\ UNCHANGED <<replied, untold, withdrawn, avail, copies, process>>

(* markAttemptFailed: a row that is still pending waits for its backoff.   *)
Failed(p) == [queue EXCEPT ![doing[p]] = AttemptFailed(@)]

Fail(p) ==
    /\ pc[p] = "pasted" /\ ~answer[p]
    /\ Failed(p)[doing[p]].status = "pending"
    /\ queue' = Failed(p)
    /\ Return(p)
    /\ Continue(p, Failed(p))
    /\ UNCHANGED <<replied, untold, withdrawn, agent, process>>

(* The same for a row that is failed then.  The UPDATE is committed, and   *)
(* the auto-reply is a statement of its own.                               *)
GiveUp(p) ==
    /\ pc[p] = "pasted" /\ ~answer[p]
    /\ Failed(p)[doing[p]].status = "failed"
    /\ queue' = Failed(p)
    /\ pc' = [pc EXCEPT ![p] = "failing"]
    /\ UNCHANGED <<replied, untold, withdrawn, inFlight, drain, doing, answer, agent, process>>

(* Mutant: a message is given up without a word.                           *)
SaysNothing(p) ==
    /\ pc[p] = "failing"
    /\ Return(p)
    /\ Continue(p, queue)
    /\ UNCHANGED <<table, agent, process>>

(* autoReplyToSender: an error of its INSERT is caught and logged.         *)
Report(p) ==
    /\ pc[p] = "failing"
    /\ \/ /\ replied' = replied \cup {doing[p]}
          /\ untold' = untold
       \/ /\ "replyError" \in Fault
          /\ untold' = untold \cup {doing[p]}
          /\ replied' = replied
    /\ Return(p)
    /\ Continue(p, queue)
    /\ UNCHANGED <<queue, withdrawn, agent, process>>

-----------------------------------------------------------------------------
(* Who calls tryDeliver                                                    *)

Fresh == {m \in Msg : queue[m].status = "none"}
Arrival == CHOOSE m \in Fresh : \A n \in Fresh : m <= n
Inserted(q) == [q EXCEPT ![Arrival].status = "pending"]

(* A handler enqueues and calls tryDeliver in one turn.                    *)
Enqueue(c) ==
    /\ Fresh # {}
    /\ TryDeliver(c, Inserted(queue))
    /\ UNCHANGED <<replied, untold, withdrawn, agent, process>>

(* An auto-reply to this agent, as a sender, is enqueued by itself.        *)
EnqueueReply ==
    /\ "silent" \in Fault
    /\ up /\ Fresh # {}
    /\ queue' = Inserted(queue)
    /\ UNCHANGED <<replied, untold, withdrawn, memory, agent, process>>

(* Mutant: the row is cancelled whatever its status.                       *)
WithdrawAnything(c, m) ==
    /\ "withdraw" \in Fault
    /\ queue[m].status # "none" /\ m \notin withdrawn /\ Fresh # {}
    /\ withdrawn' = withdrawn \cup {m}
    /\ TryDeliver(c, Inserted([queue EXCEPT ![m].status = "failed"]))
    /\ UNCHANGED <<replied, untold, agent, process>>

(* The withdraw route cancels the row and enqueues a notice.               *)
Withdraw(c, m) ==
    /\ "withdraw" \in Fault
    /\ queue[m].status # "none" /\ m \notin withdrawn /\ Fresh # {}
    /\ withdrawn' = withdrawn \cup {m}
    /\ TryDeliver(c, Inserted(IF queue[m].status = "pending"
                              THEN [queue EXCEPT ![m].status = "failed"] ELSE queue))
    /\ UNCHANGED <<replied, untold, agent, process>>

(* The health monitor finds the agent idle after it was active.            *)
IdleDetected(c) ==
    /\ idleDue /\ avail
    /\ idleDue' = FALSE
    /\ TryDeliver(c, queue)
    /\ UNCHANGED <<replied, untold, withdrawn, avail, copies, process>>

-----------------------------------------------------------------------------
(* The rest of the world                                                   *)

(* The agent leaves active/idle, and comes back active.                    *)
Leave == /\ "leave" \in Fault
         /\ avail
         /\ avail' = FALSE /\ idleDue' = FALSE
         /\ UNCHANGED <<table, memory, copies, process>>

ComeBack == /\ ~avail
            /\ avail' = TRUE /\ idleDue' = TRUE
            /\ UNCHANGED <<table, memory, copies, process>>

(* A tryDeliver for another agent sweeps the rows of this one too.         *)
OtherSweep == /\ "sweep" \in Fault
              /\ up
              /\ Reset(queue) # queue
              /\ queue' = Reset(queue)
              /\ UNCHANGED <<replied, untold, withdrawn, memory, agent, process>>

(* A crash between the two statements loses the report.                    *)
Crash == /\ "crash" \in Fault
         /\ up
         /\ untold' = untold \cup {doing[p] : p \in Failing}
         /\ up' = FALSE /\ sweepDue' = FALSE
         /\ inFlight' = FALSE
         /\ drain' = NoDrain
         /\ pc' = [p \in Proc |-> "idle"]
         /\ doing' = [p \in Proc |-> None]
         /\ answer' = [p \in Proc |-> FALSE]
         /\ UNCHANGED <<queue, replied, withdrawn, agent>>

Restart == /\ ~up
           /\ up' = TRUE /\ sweepDue' = TRUE
           /\ UNCHANGED <<table, memory, agent>>

(* drainPending.                                                           *)
Sweep(c) == /\ sweepDue
            /\ sweepDue' = FALSE
            /\ IF Pending(queue) # {} THEN TryDeliver(c, queue)
               ELSE UNCHANGED <<queue, memory>>
            /\ UNCHANGED <<replied, untold, withdrawn, agent, up>>

(* A timer that is due fires before the next tick.                         *)
Tick == /\ drain.timer # "due"
        /\ \A p \in Proc : pc[p] # "idle" => queue[doing[p]].age <= Slow
        /\ queue' = [m \in Msg |->
              [queue[m] EXCEPT !.due = IF @ = 0 THEN 0 ELSE @ - 1,
                               !.age = IF @ \in {0, StaleAfter + 2} THEN @ ELSE @ + 1]]
        /\ drain' = IF drain.timer = "set" THEN [drain EXCEPT !.timer = "due"] ELSE drain
        /\ UNCHANGED <<replied, untold, withdrawn, inFlight, pc, doing, answer, agent, process>>

(* Nothing is awaited between the two statements: only a crash can come    *)
(* between them.                                                           *)
Next == \/ /\ Failing = {}
           /\ \/ \E p \in Proc : Paste(p) \/ LockTimeout(p) \/ Succeed(p) \/ Fail(p) \/ GiveUp(p)
              \/ \E c \in Caller : Enqueue(c) \/ IdleDetected(c) \/ Sweep(c)
              \/ \E c \in Caller, m \in Msg : Withdraw(c, m)
              \/ DrainTurn
              \/ EnqueueReply \/ OtherSweep
              \/ Leave \/ ComeBack \/ Restart
              \/ Tick
        \/ \E p \in Proc : Report(p)
        \/ Crash

Spec == Init /\ [][Next]_vars

(* Timers fire, awaits end, a stopped orchestrator is started again and    *)
(* the health monitor polls; what Fault allows need not happen.            *)
Fairness == /\ WF_vars(Tick) /\ WF_vars(DrainTurn) /\ WF_vars(Restart)
            /\ \A p \in Proc : /\ WF_vars(Paste(p)) /\ WF_vars(Succeed(p) \/ Fail(p) \/ GiveUp(p))
                              /\ WF_vars(Report(p))
            /\ WF_vars(\E c \in Caller : IdleDetected(c))
            /\ WF_vars(\E c \in Caller : Sweep(c))

FairSpec == Spec /\ Fairness

-----------------------------------------------------------------------------
(* Properties                                                              *)

Busy == {p \in Proc : pc[p] # "idle"}

(* At most one delivery to the agent is under way, whoever started it, and *)
(* the flag that excludes the others is up exactly as long: a delivery     *)
(* that ends in an exception or a crash does not block the queue.          *)
(* (deliveriesInFlight and its finally in deliverNextMessage.)             *)
OneDelivery == /\ \A p, q \in Busy : p = q
               /\ inFlight = (Busy # {})
               /\ \A p \in Busy : doing[p] \in Msg

(* When the proxy says what happened and the orchestrator does not crash,  *)
(* no message reaches the agent twice, however tryDeliver, the drain loop, *)
(* stale resets, lock timeouts and withdrawals interleave.                 *)
DeliveredOnce == \A m \in Msg : copies[m] <= 1

(* A message the agent was sent was not overtaken: an earlier one that is  *)
(* still pending has had an attempt that failed or went stale.  (ORDER BY  *)
(* id, and the retries.)                                                   *)
OvertakenOnlyAfterFailure ==
    \A m, n \in Msg : m < n /\ copies[n] > 0 /\ queue[m].status = "pending"
                          => queue[m].retry > 0

(* A message that is given up was withdrawn by its sender, its sender was  *)
(* told, or is about to be: at most one message is between the two         *)
(* statements.  Only a report that a crash or an error of the database cut *)
(* off at that point is missing, and nothing makes up for it: a restart    *)
(* does not report what is failed already.  (markAttemptFailed and         *)
(* autoReplyToSender in deliverNextMessage.)                               *)
FailureIsReported ==
    /\ \A m \in Msg : queue[m].status = "failed" =>
           m \in withdrawn \cup replied \cup untold \cup {doing[p] : p \in Failing}
    /\ Fault \cap {"crash", "replyError"} = {} => untold = {}

(* What is marked delivered did reach the agent, and what was given up     *)
(* after its retries is not reported for a message that is delivered, nor  *)
(* twice, nor after its report was lost.  (deliverToAgent turns a proxy's  *)
(* failure into an exception.)                                             *)
OutcomeIsTrue ==
    /\ \A m \in Msg : queue[m].status = "delivered" => copies[m] > 0
    /\ \A m \in replied \cup untold : queue[m].status = "failed"
    /\ replied \cap (untold \cup {doing[p] : p \in Failing}) = {}

(* A delivered message stays delivered, and a failed one failed unless it  *)
(* was withdrawn: no late outcome, reset or withdrawal reopens a row.      *)
SettledIsFinal ==
    [][\A m \in Msg :
         /\ queue[m].status = "delivered" => queue'[m].status = "delivered"
         /\ queue[m].status = "failed" /\ m \notin withdrawn => queue'[m].status = "failed"]_vars

(* If the orchestrator and the agent are back for good, every message is   *)
(* delivered or given up, except when the retries take too long: the drain *)
(* loop reaches its last turn, or somebody who is about to deliver finds a *)
(* stale row.  (Drain loop, idle detection and startup sweep leave no      *)
(* message behind, also one that waits for its backoff.)                   *)
InTime == /\ drain.attempt + 1 < DrainMax
          /\ drain.on \/ idleDue \/ sweepDue => \A m \in Msg : ~Stale(queue[m])
SettlesIfInTime ==
    <>[](up /\ avail) /\ []InTime =>
        \A m \in Msg : (queue[m].status = "pending") ~> (queue[m].status # "pending")

(* The same without the condition: README.md says of the dispatcher that   *)
(* it "recovers stale attempts and retries failed deliveries".  It does    *)
(* not: see resetStaleAttempts.                                            *)
AlwaysSettles ==
    <>[](up /\ avail) =>
        \A m \in Msg : (queue[m].status = "pending") ~> (queue[m].status # "pending")

(* A message withdrawn before it was delivered is not delivered.  (The     *)
(* comment in the withdraw route.)                                         *)
CancelledStaysCancelled ==
    [][\A m \in withdrawn : queue[m].status = "failed" => queue'[m].status # "delivered"]_vars

(* The dispatcher implements the mailbox: the message in hand is the one   *)
(* the busy process delivers, until its outcome is recorded.               *)
Handing == Busy \ Failing
Current == IF Handing = {} THEN None ELSE doing[CHOOSE p \in Handing : TRUE]
M == INSTANCE Mailbox WITH status <- [m \in Msg |-> queue[m].status], current <- Current
MailboxSpec == M!Spec
=============================================================================

------------------------------- MODULE Threads -------------------------------
(***************************************************************************)
(* The threads of the dashboard and the queue behind them: the routes that *)
(* send, reply, withdraw and read (src/src/orchestrator/routes.ts:712-859, *)
(* 954-1087, 3364-3523, 3703-3778) over dashboard_messages and             *)
(* pending_messages (database.ts:594-837, 1000-1021).                      *)
(*                                                                         *)
(* After its body a handler runs to its end without await, so no other     *)
(* handler sees it half done; but each statement is a transaction of its   *)
(* own and the process may end between two.  The id of a row is its place. *)
(* Texts, topics, envelopes and times are left out: ids grow with time.    *)
(* A reminder asked for along with a message is left to Reminders.         *)
(***************************************************************************)
EXTENDS Integers, Sequences, FiniteSets, FiniteSetsExt

CONSTANTS Agent, None,
          Void,        \* agents that were not spawned
          Bot,         \* agents with a Telegram binding and a token
          PageSize, MaxRow, MaxQueue, MaxOp, MaxFault

ThreadsAssumption == PageSize \in Nat \ {0}

VARIABLES rows,      \* dashboard_messages
          queue,     \* pending_messages
          todo,      \* statements left of the handler that runs
          attempts,  \* entries that the dispatcher is delivering
          sending,   \* sending[a]: messages on their way to Telegram
          accepted,  \* history: accepted[a]: messages that Telegram took
          held,      \* history: entries withdrawn before any attempt
          spoiled,   \* history: did the process end within a handler?
          reader,    \* a client that pages back through the history
          ops, faults

vars == <<rows, queue, todo, attempts, sending, accepted, held, spoiled, reader, ops, faults>>

Ids == 1 .. MaxRow
Inbox(a) == <<"agent", a>>
Outbound(a) == <<"telegram", a>>
ThreadName == {Inbox(a) : a \in Agent} \cup {Outbound(a) : a \in Agent}

Row == [thread : ThreadName, direction : {"to_agent", "from_agent"},
        queue : 0 .. MaxQueue, withdrawn : BOOLEAN, notice : BOOLEAN]
(* A report tells an agent that a message of its own failed.               *)
Entry == [from : Agent \cup {None}, to : Agent, report : BOOLEAN,
          status : {"pending", "delivered", "failed"}]
Walk == [of : SUBSET ThreadName, merged : BOOLEAN, before : 0 .. MaxRow, until : 0 .. MaxRow,
         got : SUBSET Ids, more : BOOLEAN]
NoWalk == [of |-> {}, merged |-> TRUE, before |-> 0, until |-> 0, got |-> {}, more |-> FALSE]

TypeOK == /\ rows \in Seq(Row) /\ Len(rows) <= MaxRow
          /\ queue \in Seq(Entry) /\ Len(queue) <= MaxQueue
          /\ attempts \subseteq DOMAIN queue /\ held \subseteq DOMAIN queue
          /\ \A a \in Agent : sending[a] \in 0 .. MaxOp /\ accepted[a] \in 0 .. MaxOp
          /\ spoiled \in BOOLEAN /\ reader \in Walk
          /\ ops \in 0 .. MaxOp /\ faults \in 0 .. MaxFault

Init == /\ rows = <<>> /\ queue = <<>> /\ todo = <<>> /\ attempts = {}
        /\ sending = [a \in Agent |-> 0] /\ accepted = [a \in Agent |-> 0]
        /\ held = {} /\ spoiled = FALSE /\ reader = NoWalk /\ ops = 0 /\ faults = 0

-----------------------------------------------------------------------------
(* Statements of database.ts                                               *)

AddDashboardMessage(thread, direction) ==
    [do |-> "add", row |-> [thread |-> thread, direction |-> direction, queue |-> 0,
                            withdrawn |-> FALSE, notice |-> FALSE]]
AddNotice(thread) ==
    [do |-> "add", row |-> [thread |-> thread, direction |-> "to_agent", queue |-> 0,
                            withdrawn |-> FALSE, notice |-> TRUE]]
EnqueueMessage(source, a) ==
    [do |-> "enqueue", new |-> [from |-> source, to |-> a, report |-> FALSE,
                                status |-> "pending"]]
EnqueueReport(a) ==
    [do |-> "enqueue", new |-> [from |-> None, to |-> a, report |-> TRUE,
                                status |-> "pending"]]
LinkDashboardMessageToQueue == [do |-> "link"]      \* the last row to the last entry
CancelPendingMessage(q) == [do |-> "cancel", entry |-> q]
WithdrawMessage(n) == [do |-> "withdraw", id |-> n]

Quiet == todo = <<>>

(* The handler's next statement.                                           *)
Execute ==
    /\ ~Quiet
    /\ todo' = Tail(todo)
    /\ LET s == Head(todo) IN
       /\ rows' = CASE s.do = "add" -> Append(rows, s.row)
                    [] s.do = "link" -> [rows EXCEPT ![Len(rows)].queue = Len(queue)]
                    [] s.do = "withdraw" -> [rows EXCEPT ![s.id].withdrawn = TRUE]
                    [] OTHER -> rows
       /\ queue' = CASE s.do = "enqueue" -> Append(queue, s.new)
                     [] s.do = "cancel" /\ queue[s.entry].status = "pending"
                          -> [queue EXCEPT ![s.entry].status = "failed"]
                     [] OTHER -> queue
       /\ held' = IF /\ s.do = "cancel" /\ queue[s.entry].status = "pending"
                     /\ s.entry \notin attempts
                  THEN held \cup {s.entry} ELSE held
    /\ UNCHANGED <<attempts, sending, accepted, spoiled, reader, ops, faults>>

-----------------------------------------------------------------------------
(* The routes that write                                                   *)

Count(statements, do) == Cardinality({i \in DOMAIN statements : statements[i].do = do})

(* The rows and entries that are to be added are within the bounds.        *)
Begin(statements) ==
    /\ Len(rows) + Count(statements, "add") <= MaxRow
    /\ Len(queue) + Count(statements, "enqueue") <= MaxQueue
    /\ todo' = statements

Handle(statements) ==
    /\ Quiet /\ ops < MaxOp /\ ops' = ops + 1
    /\ Begin(statements)
    /\ UNCHANGED <<rows, queue, attempts, sending, accepted, held, spoiled, reader, faults>>

(* A bare name is an agent; a prefix that is not known, a malformed address.*)
ParseAddress(prefix) == IF prefix \in {"", "agent"} THEN "agent"
                        ELSE IF prefix = "telegram" THEN "telegram" ELSE "malformed"

(* One entry, and a row for each of the two threads.                       *)
AgentsSend(from, prefix, to) ==
    /\ ParseAddress(prefix) = "agent" /\ to \notin Void
    /\ Handle(<<EnqueueMessage(from, to),
                AddDashboardMessage(Inbox(from), "from_agent"), LinkDashboardMessageToQueue,
                AddDashboardMessage(Inbox(to), "to_agent"), LinkDashboardMessageToQueue>>)

EnqueueAndDeliver(a, row) == <<row, EnqueueMessage(None, a), LinkDashboardMessageToQueue>>

(* The dashboard may write to an agent that was not spawned.               *)
DashboardSend(prefix, to) ==
    /\ ParseAddress(prefix) = "agent"
    /\ Handle(EnqueueAndDeliver(to, AddDashboardMessage(Inbox(to), "to_agent")))

(* Nobody checks that the agent exists.                                    *)
DashboardReply(a) == Handle(<<AddDashboardMessage(Inbox(a), "from_agent")>>)

BroadcastLifecycleEvent(a) == Handle(<<AddDashboardMessage(Inbox(a), "from_agent")>>)

Cancelled(n) == IF rows[n].queue # 0 THEN <<CancelPendingMessage(rows[n].queue)>> ELSE <<>>
NeverCancelled(n) == <<>>                                          \* mutant
Cancels(n) == Cancelled(n)

Withdraw(n) ==
    /\ n \in DOMAIN rows /\ rows[n].direction = "to_agent" /\ ~rows[n].withdrawn
    /\ Handle(Cancels(n) \o <<WithdrawMessage(n)>>
              \o EnqueueAndDeliver(rows[n].thread[2], AddNotice(rows[n].thread)))

(* handleTelegramOutbound: through the agent's own bot; the row follows    *)
(* only when Telegram took it.  Without a bot the destination of that name *)
(* is used, which leaves no row.                                           *)
TelegramOutbound(prefix, a) ==
    /\ ParseAddress(prefix) = "telegram" /\ a \in Bot
    /\ Quiet /\ ops < MaxOp /\ ops' = ops + 1
    /\ sending' = [sending EXCEPT ![a] = @ + 1]
    /\ UNCHANGED <<rows, queue, todo, attempts, accepted, held, spoiled, reader, faults>>

TelegramAnswers(a) ==
    /\ Quiet /\ sending[a] > 0 /\ Len(rows) < MaxRow
    /\ sending' = [sending EXCEPT ![a] = @ - 1]
    /\ \/ /\ todo' = <<AddDashboardMessage(Outbound(a), "from_agent")>>
          /\ accepted' = [accepted EXCEPT ![a] = @ + 1]
          /\ UNCHANGED faults
       \/ /\ faults < MaxFault /\ faults' = faults + 1
          /\ UNCHANGED <<todo, accepted>>
    /\ UNCHANGED <<rows, queue, attempts, held, spoiled, reader, ops>>

-----------------------------------------------------------------------------
(* The dispatcher, and the end of the process                              *)

AttemptStarts(q) ==
    /\ Quiet /\ q \in DOMAIN queue \ attempts
    /\ queue[q].status = "pending" /\ queue[q].to \notin Void
    /\ attempts' = attempts \cup {q}
    /\ UNCHANGED <<rows, queue, todo, sending, accepted, held, spoiled, reader, ops, faults>>

(* The outcome is written whatever the status is by then.                  *)
AttemptSucceeds(q) ==
    /\ Quiet /\ q \in attempts
    /\ attempts' = attempts \ {q}
    /\ queue' = [queue EXCEPT ![q].status = "delivered"]
    /\ UNCHANGED <<rows, todo, sending, accepted, held, spoiled, reader, ops, faults>>

(* autoReplyToSender: an entry for the agent that sent it, which no thread *)
(* shows, or a row in the thread of the agent it was for.                  *)
AutoReply(q) == IF queue[q].from = None
                THEN <<AddDashboardMessage(Inbox(queue[q].to), "from_agent")>>
                ELSE <<EnqueueReport(queue[q].from)>>

(* An attempt that is to be tried again leaves the status, which may be    *)
(* that of a message withdrawn meanwhile.                                  *)
AttemptFails(q) ==
    /\ Quiet /\ q \in attempts
    /\ attempts' = attempts \ {q}
    /\ \E s \in {queue[q].status, "failed"} :
          /\ queue' = [queue EXCEPT ![q].status = s]
          /\ Begin(IF s = "failed" THEN AutoReply(q) ELSE <<>>)
    /\ UNCHANGED <<rows, sending, accepted, held, spoiled, reader, ops, faults>>

Restart ==
    /\ faults < MaxFault /\ faults' = faults + 1
    /\ todo' = <<>> /\ attempts' = {} /\ sending' = [a \in Agent |-> 0]
    /\ spoiled' = (spoiled \/ ~Quiet \/ \E a \in Agent : sending[a] > 0)
    /\ reader' = NoWalk
    /\ UNCHANGED <<rows, queue, accepted, held, ops>>

-----------------------------------------------------------------------------
(* The routes that read                                                    *)

Older(threads, before) ==
    {n \in DOMAIN rows : rows[n].thread \in threads /\ (before # 0 => n < before)}

(* The n largest of a set of ids.                                          *)
Newest(n, ids) == {i \in ids : Cardinality({j \in ids : j > i}) < n}

(* Rows with the same entry are one message of the merged feed.            *)
SameMessage(m, n) == m = n \/ (rows[m].queue # 0 /\ rows[m].queue = rows[n].queue)
Logical(ids) == {{m \in ids : SameMessage(m, n)} : n \in ids}

Ahead(walk, page, more) ==
    [walk EXCEPT !.got = @ \cup page, !.more = more, !.before = IF page = {} THEN @ ELSE Min(page)]

FeedOfPage(walk, shown) ==                                         \* mutant
    Ahead(walk, Newest(PageSize, shown), Cardinality(Newest(PageSize, shown)) > PageSize)
FeedPage(walk, shown) ==
    Ahead(walk, Newest(PageSize, shown), Cardinality(shown) > PageSize)

(* getMergedMessages: the query names no row of a group, so SQLite is free *)
(* to show any.                                                            *)
GetMergedMessages(walk) ==
    LET ids == Older(walk.of, walk.before)
    IN \E shown \in SUBSET ids :
          /\ \A g \in Logical(ids) : Cardinality(g \cap shown) = 1
          /\ reader' = FeedPage(walk, shown)

(* getDashboardThreads with a limit, then getOlderMessages: one thread.    *)
GetThread(walk) ==
    LET page == Newest(PageSize, Older(walk.of, walk.before))
    IN reader' = Ahead(walk, page, page # {})

Read(walk) == /\ Quiet
              /\ IF walk.merged THEN GetMergedMessages(walk) ELSE GetThread(walk)
              /\ UNCHANGED <<rows, queue, todo, attempts, sending, accepted, held, spoiled,
                             ops, faults>>

ReadFirst == /\ reader = NoWalk
             /\ \E threads \in SUBSET ThreadName, merged \in BOOLEAN :
                   /\ threads # {} /\ (merged \/ Cardinality(threads) = 1)
                   /\ threads \subseteq {rows[n].thread : n \in DOMAIN rows}
                   /\ Read([NoWalk EXCEPT !.of = threads, !.merged = merged,
                                          !.until = Len(rows)])

ReadOlder == reader # NoWalk /\ reader.more /\ Read(reader)

Next == \/ Execute \/ Restart \/ ReadFirst \/ ReadOlder
        \/ \E a \in Agent, p \in {"", "agent", "telegram", "other"} :
              \/ DashboardSend(p, a) \/ TelegramOutbound(p, a)
              \/ \E b \in Agent : AgentsSend(b, p, a)
        \/ \E a \in Agent :
              DashboardReply(a) \/ BroadcastLifecycleEvent(a) \/ TelegramAnswers(a)
        \/ \E n \in Ids : Withdraw(n)
        \/ \E q \in DOMAIN queue :
              AttemptStarts(q) \/ AttemptSucceeds(q) \/ AttemptFails(q)

Spec == Init /\ [][Next]_vars

-----------------------------------------------------------------------------
(* Properties                                                              *)

(* Between two handlers, and unless the process ended within one, the      *)
(* threads show what was queued and sent: every entry that is no report of *)
(* a failure has a row in the thread of its agent, no row of another       *)
(* entry; a withdrawn one was not delivered unless an attempt had begun,   *)
(* and its agent has been sent a notice later (routes.ts:752-775,          *)
(* 1061-1084, 3497-3511, 3745-3757; message-dispatcher.ts:255-300).        *)
ThreadsShowTheQueue ==
    Quiet /\ ~spoiled =>
        /\ \A q \in DOMAIN queue : ~queue[q].report =>
              \E n \in DOMAIN rows : /\ rows[n].queue = q /\ rows[n].direction = "to_agent"
                                     /\ rows[n].thread = Inbox(queue[q].to)
        /\ \A n \in DOMAIN rows : rows[n].withdrawn =>
              /\ queue[rows[n].queue].status # "pending"
              /\ \E m \in n + 1 .. Len(rows) : /\ rows[m].notice
                                               /\ rows[m].thread = rows[n].thread
                                               /\ rows[m].queue > rows[n].queue
        /\ \A q \in held : queue[q].status = "failed"
        /\ \A a \in Agent : accepted[a]
              = Cardinality({n \in DOMAIN rows : rows[n].thread = Outbound(a)})

(* A client that pages back to the end has seen every message that was     *)
(* there when it began, whatever was sent, withdrawn or delivered between  *)
(* two pages and whichever row of a message was shown (routes.ts:977-1041, *)
(* database.ts:646-725, 755-823).                                          *)
HistoryIsWhole ==
    reader # NoWalk /\ ~reader.more =>
        \A n \in 1 .. reader.until : rows[n].thread \in reader.of =>
            \E m \in reader.got : IF reader.merged THEN SameMessage(m, n) ELSE m = n

(* Both: the threads are kept true to the queue, and a client reads them   *)
(* whole (routes.ts:712-1087).                                             *)
ThreadsAreTrue == ThreadsShowTheQueue /\ HistoryIsWhole
=============================================================================

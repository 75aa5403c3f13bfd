--------------------------- MODULE DashboardSync ---------------------------
(***************************************************************************)
(* The messages a dashboard holds: connection.ts and state.ts of           *)
(* src/src/dashboard, the WebSocket server of                              *)
(* src/src/shared/websocket-server.ts and its use in orchestrator/main.ts. *)
(*                                                                         *)
(* A connection starts with an init that holds the messages after the      *)
(* watermark of the cache in localStorage, then the server sends each new  *)
(* message to the clients that subscribe to its agent.  A message is its   *)
(* id, ids count from 1.  One tab is modelled; histories are shorter than  *)
(* the 200 messages per agent that cache and cold init are cut to.         *)
(***************************************************************************)
EXTENDS Integers, Sequences, FiniteSets, FiniteSetsExt

CONSTANTS Agent,
          MaxMessage,   \* bound on messages
          MaxConnect,   \* bound on connections
          MaxSelect     \* bound on changes of the selection

VARIABLES log,      \* dashboard_messages: log[i] is the thread of message i
          conn,     \* "closed", "opening", "open"
          since,    \* sinceMessageId of the connection
          sub,      \* client.subscription: agents it gets messages of
          down, up, \* events under way to the browser, subscriptions to the server
          held,     \* state.threads: how often each message is in them
          cache,    \* ids in localStorage
          timer,    \* is persistTimer set?
          selected, saved, \* state.selectedAgents, and in localStorage
          connects, selects, \* counters, for MaxConnect and MaxSelect
          always    \* history: agents in every subscription

server == <<log, sub>>
wire == <<conn, since, down, up>>
choice == <<selected, saved, always>>
counters == <<connects, selects>>
vars == <<server, wire, held, cache, timer, choice, counters>>

DashboardSyncAssumption == MaxMessage \in Nat

Id == 1 .. MaxMessage
Ids == 1 .. Len(log)
Held == {i \in Id : held[i] > 0}
Event == [type : {"open"}] \cup [type : {"message"}, id : Id]
         \cup [type : {"init"}, ids : SUBSET Id, delta : BOOLEAN]

TypeOK == /\ log \in Seq(Agent) /\ Len(log) <= MaxMessage
          /\ conn \in {"closed", "opening", "open"}
          /\ since \in 0 .. MaxMessage
          /\ sub \subseteq Agent
          /\ down \in Seq(Event) /\ up \in Seq(SUBSET Agent)
          /\ held \in [Id -> Nat] /\ cache \subseteq Id /\ timer \in BOOLEAN
          /\ selected \subseteq Agent /\ saved \subseteq Agent /\ always \subseteq Agent
          /\ connects \in 0 .. MaxConnect /\ selects \in 0 .. MaxSelect

Init == /\ log = <<>> /\ sub = {}
        /\ conn = "closed" /\ since = 0 /\ down = <<>> /\ up = <<>>
        /\ held = [i \in Id |-> 0] /\ cache = {} /\ timer = FALSE
        /\ selected = {} /\ saved = {} /\ always = Agent
        /\ connects = 0 /\ selects = 0

-----------------------------------------------------------------------------
(* The server                                                              *)

Newest(ids) == Max(ids \cup {0})

(* onConnect: the client has all messages sent to it until it subscribes.  *)
SinceNext(s) == {i \in Ids : i > s + 1}                           \* mutant
Since(s) == {i \in Ids : i > s}

Accept == /\ conn = "opening"
          /\ conn' = "open" /\ sub' = Agent
          /\ down' = <<[type |-> "open"],
                       [type |-> "init", ids |-> Since(since), delta |-> since > 0]>>
          /\ UNCHANGED <<log, since, up, held, cache, timer, choice, counters>>

(* addDashboardMessage and broadcastFiltered, in one turn.                 *)
Post(a) == /\ Len(log) < MaxMessage
           /\ log' = Append(log, a)
           /\ down' = IF conn = "open" /\ a \in sub
                      THEN Append(down, [type |-> "message", id |-> Len(log')]) ELSE down
           /\ UNCHANGED <<sub, conn, since, up, held, cache, timer, choice, counters>>

(* An empty selection subscribes to all.                                   *)
SetSubscription == /\ up # <<>>
                   /\ sub' = IF Head(up) = {} THEN Agent ELSE Head(up)
                   /\ up' = Tail(up)
                   /\ always' = always \cap sub'
                   /\ UNCHANGED <<log, conn, since, down, held, cache, timer, selected, saved,
                                  counters>>

-----------------------------------------------------------------------------
(* The browser                                                             *)

Opened == conn = "open" /\ \A n \in DOMAIN down : down[n].type # "open"

(* selection-changed: the subscription is sent.                            *)
Selects(s) == selected' = s /\ up' = Append(up, s)

Connect == /\ conn = "closed" /\ connects < MaxConnect
           /\ conn' = "opening"
           /\ since' = Newest(cache)
           /\ connects' = connects + 1
           /\ UNCHANGED <<server, down, up, held, cache, timer, choice, selects>>

PushAll(ids) == [i \in Id |-> held[i] + (IF i \in ids THEN 1 ELSE 0)] \* mutant
Merge(ids) == [i \in Id |-> IF i \in ids /\ held[i] = 0 THEN 1 ELSE held[i]]

(* A delta is merged into the threads, a cold init replaces them; then the *)
(* selection is restored, to all agents when it was empty.                 *)
OnInit(e) ==
    /\ held' = IF e.delta THEN Merge(e.ids) ELSE [i \in Id |-> IF i \in e.ids THEN 1 ELSE 0]
    /\ cache' = {i \in Id : held'[i] > 0}
    /\ Selects(IF saved = {} THEN Agent ELSE saved)
    /\ UNCHANGED <<timer, saved, always>>

(* seenMessageIds has what the threads have.                               *)
OnMessage(e) ==
    /\ held' = IF held[e.id] > 0 THEN held ELSE [held EXCEPT ![e.id] = 1]
    /\ timer' = (timer \/ held[e.id] = 0)
    /\ UNCHANGED <<cache, up, choice>>

Receive ==
    /\ conn = "open" /\ down # <<>>
    /\ down' = Tail(down)
    /\ LET e == Head(down)
       IN  \/ e.type = "open" /\ up' = Append(up, selected) /\ UNCHANGED <<held, cache, timer, choice>>
           \/ e.type = "init" /\ OnInit(e)
           \/ e.type = "message" /\ OnMessage(e)
    /\ UNCHANGED <<server, conn, since, counters>>

(* The connection breaks, with what is under way.                          *)
Break == /\ conn # "closed"
         /\ conn' = "closed" /\ down' = <<>> /\ up' = <<>>
         /\ UNCHANGED <<server, since, held, cache, timer, choice, counters>>

Persist == /\ timer
           /\ timer' = FALSE
           /\ cache' = Held
           /\ UNCHANGED <<server, wire, held, choice, counters>>

(* QuotaExceededError: threads and watermark are both dropped.             *)
CacheLost == /\ cache # {} /\ connects < MaxConnect
             /\ cache' = {} /\ timer' = FALSE
             /\ UNCHANGED <<server, wire, held, choice, counters>>

(* The page is loaded again: the cached threads are there at once.         *)
Reload == /\ conn' = "closed" /\ down' = <<>> /\ up' = <<>>
          /\ held' = [i \in Id |-> IF i \in cache THEN 1 ELSE 0]
          /\ timer' = FALSE
          /\ selected' = IF saved = {} THEN {log[i] : i \in cache} ELSE saved
          /\ UNCHANGED <<server, since, cache, saved, always, counters>>

(* The sidebar; focus mode selects without saving.                         *)
Select(s) == /\ s # selected /\ selects < MaxSelect
             /\ selects' = selects + 1
             /\ \/ Opened /\ Selects(s)
                \/ ~Opened /\ selected' = s /\ UNCHANGED up
             /\ \/ saved' = s
                \/ UNCHANGED saved
             /\ UNCHANGED <<server, conn, since, down, held, cache, timer, always, connects>>

Next == \/ Accept \/ SetSubscription \/ Connect \/ Receive \/ Break \/ Persist
        \/ CacheLost \/ Reload
        \/ \E a \in Agent : Post(a)
        \/ \E s \in SUBSET Agent : Select(s)

Spec == Init /\ [][Next]_vars

-----------------------------------------------------------------------------
(* Properties                                                              *)

(* No message is twice in a thread, whatever reconnects, stale watermarks  *)
(* and reloads there were (connection.ts:221-233, 305-309).                *)
EachOnce == \A i \in Id : held[i] <= 1

(* Of an agent that was always subscribed to no message is missing below   *)
(* the newest one held, across lost events, reloads and a lost cache:      *)
(* the watermark never passes one (state.ts:119-150).                      *)
NoGap == \A i \in Ids : log[i] \in always /\ i < Newest(Held) => i \in Held

(* What the delta init is for: after it nothing is missing.  Messages of   *)
(* agents that were not selected are, for ever (connection.ts:48-52).      *)
NothingMissing == \A i \in Ids : i < Newest(Held) => i \in Held
=============================================================================

----------------------------- MODULE Selection -----------------------------
(***************************************************************************)
(* What a dashboard tab shows, and what the server sends it: the selection *)
(* of state.ts, the clicks of sidebar.ts, search.ts, chat.ts and watch.ts  *)
(* that change it, the events of connection.ts that take agents out of it  *)
(* and the subscription that follows it.                                   *)
(***************************************************************************)
EXTENDS Integers, Sequences, FiniteSets, SequencesExt

CONSTANTS Agent,
          Teams,    \* the members of each team, which need not be agents
          MaxAct,   \* bound on clicks
          MaxFault  \* bound on changes of the roster, breaks and page loads

VARIABLES roster,   \* the agents of the database
          conn,     \* "closed", "opened" (by the server), "open" (in the browser too)
          sub,      \* client.subscription: agents it gets messages of
          down, up, \* events under way to the browser, subscriptions to the server
          known, started,   \* state.agents; was there an init since the page was loaded?
          selected, saved,  \* state.selectedAgents, and in localStorage
          before,   \* preFocusSelection: <<>> for null
          importing,\* is there an emit after an import() under way?
          route, scope,     \* the page; the selection its results were found with
          acts, faults,     \* counters, for MaxAct and MaxFault
          silent, revived   \* history: agents added with no emit; put back though not known

server == <<roster, sub>>
wire == <<conn, down, up>>
tab == <<known, started, selected, saved, before, importing, route, scope>>
counters == <<acts, faults>>
history == <<silent, revived>>
vars == <<server, wire, tab, counters, history>>

Event == [type : {"init", "agents_update"}, agents : SUBSET Agent]
         \cup [type : {"agent_update", "agent_destroyed"}, agent : Agent]

TypeOK == /\ roster \subseteq Agent /\ sub \subseteq Agent
          /\ conn \in {"closed", "opened", "open"}
          /\ down \in Seq(Event) /\ up \in Seq(SUBSET Agent)
          /\ known \subseteq Agent /\ started \in BOOLEAN
          /\ selected \subseteq Agent /\ saved \subseteq Agent
          /\ before \in {<<>>} \cup {<<s>> : s \in SUBSET Agent}
          /\ importing \in BOOLEAN
          /\ route \in {"dashboard", "search", "watch"} /\ scope \subseteq Agent
          /\ acts \in 0 .. MaxAct /\ faults \in 0 .. MaxFault
          /\ silent \subseteq Agent /\ revived \subseteq Agent

Init == /\ roster = Agent /\ sub = {}
        /\ conn = "closed" /\ down = <<>> /\ up = <<>>
        /\ known = {} /\ started = FALSE /\ selected = {} /\ saved = {} /\ before = <<>>
        /\ importing = FALSE /\ route = "dashboard" /\ scope = {}
        /\ acts = 0 /\ faults = 0 /\ silent = {} /\ revived = {}

-----------------------------------------------------------------------------
(* The server                                                              *)

Accept == /\ conn = "closed"
          /\ conn' = "opened" /\ sub' = Agent
          /\ down' = <<[type |-> "init", agents |-> roster]>>
          /\ UNCHANGED <<roster, up, tab, counters, history>>

SetSubscription == /\ up # <<>>
                   /\ sub' = IF Head(up) = {} THEN Agent ELSE Head(up)
                   /\ up' = Tail(up)
                   /\ UNCHANGED <<roster, conn, down, tab, counters, history>>

Broadcast(e) == down' = IF conn = "closed" THEN down ELSE Append(down, e)

(* An agent is destroyed or created; the poll of the persona files finds   *)
(* one that is new or changed and sends the roster.                        *)
ChangeRoster ==
    /\ faults < MaxFault
    /\ faults' = faults + 1
    /\ \E a \in Agent :
          \/ /\ a \in roster
             /\ roster' = roster \ {a}
             /\ Broadcast([type |-> "agent_destroyed", agent |-> a])
          \/ /\ a \notin roster
             /\ roster' = roster \cup {a}
             /\ Broadcast([type |-> "agent_update", agent |-> a])
          \/ /\ roster' = roster \cup {a}
             /\ Broadcast([type |-> "agents_update", agents |-> roster'])
    /\ UNCHANGED <<sub, conn, up, tab, acts, history>>

Break == /\ conn # "closed" /\ faults < MaxFault
         /\ faults' = faults + 1
         /\ conn' = "closed" /\ down' = <<>> /\ up' = <<>>
         /\ UNCHANGED <<server, tab, acts, history>>

-----------------------------------------------------------------------------
(* The selection                                                           *)

EmitsOld == /\ up' = IF conn = "open" THEN Append(up, selected) ELSE up  \* mutant
            /\ silent' = {}

(* selection-changed: an open socket sends the subscription.               *)
Emit == /\ up' = IF conn = "open" THEN Append(up, selected') ELSE up
        /\ silent' = {}

(* Agents `back' are put in whether they are known or not.                 *)
Becomes(s, back) == selected' = s /\ revived' = (revived \cup back) \cap s

Changes(s, back) == Becomes(s, back) /\ Emit

(* The socket opens in the browser.                                        *)
Open == /\ conn = "opened"
        /\ conn' = "open"
        /\ up' = Append(up, selected) /\ silent' = {}
        /\ UNCHANGED <<server, down, tab, counters, revived>>

(* restoreSelectionOnInit: never an empty one.                             *)
Restored(agents) == IF saved \cap agents = {} THEN agents ELSE saved \cap agents

OnInit(e) == /\ known' = e.agents /\ started' = TRUE
             /\ selected' = Restored(e.agents) /\ revived' = {}
             /\ Emit

Lingers(s, agents) == s                                           \* mutant
Pruned(s, agents) == s \cap agents

OnAgentsUpdate(e) ==
    /\ known' = e.agents
    /\ selected' = Pruned(selected, e.agents) /\ revived' = {}
    /\ IF selected' = selected THEN UNCHANGED <<up, silent>> ELSE Emit
    /\ UNCHANGED started

OnAgentDestroyed(e) == /\ known' = known \ {e.agent}
                       /\ Becomes(selected \ {e.agent}, {})
                       /\ UNCHANGED <<started, up, silent>>

OnAgentUpdate(e) == /\ known' = known \cup {e.agent}
                    /\ UNCHANGED <<started, selected, revived, up, silent>>

(* The results are found again when agents change or the query does.       *)
Rerender == scope' = selected'
InScope(a) == scope = {} \/ a \in scope

Receive ==
    /\ conn = "open" /\ down # <<>>
    /\ down' = Tail(down)
    /\ LET e == Head(down)
       IN  \/ e.type = "init" /\ OnInit(e)
           \/ e.type = "agents_update" /\ OnAgentsUpdate(e)
           \/ e.type = "agent_destroyed" /\ OnAgentDestroyed(e)
           \/ e.type = "agent_update" /\ OnAgentUpdate(e)
    /\ Rerender
    /\ UNCHANGED <<server, conn, saved, before, importing, route, counters>>

(* The page is loaded: names are restored unchecked, those of the cached   *)
(* threads if there are none.                                              *)
Load == /\ faults < MaxFault
        /\ faults' = faults + 1
        /\ conn' = "closed" /\ down' = <<>> /\ up' = <<>>
        /\ known' = {} /\ started' = FALSE /\ before' = <<>> /\ importing' = FALSE
        /\ \E s \in IF saved = {} THEN SUBSET Agent ELSE {saved} :
              selected' = s /\ revived' = s /\ Rerender
        /\ silent' = {}
        /\ UNCHANGED <<server, saved, route, acts>>

-----------------------------------------------------------------------------
(* Clicks                                                                  *)

Act == acts < MaxAct /\ acts' = acts + 1 /\ UNCHANGED <<server, conn, down, known, started, faults>>

(* Saved at once: toggleAgentSelected, toggleTeam, toggleAllAgents.        *)
Saves(s, back) == Changes(s, back) /\ saved' = s /\ UNCHANGED <<before, importing>>

Toggled(s) == IF s \subseteq selected THEN selected \ s ELSE selected \cup s

ToggleAgent(a) == /\ a \in known /\ route = "dashboard"
                  /\ Act /\ Saves(Toggled({a}), {}) /\ UNCHANGED <<route, scope>>

(* A team, whose members need not be known, or the agents of none.         *)
ToggleTeam == /\ \E t \in Teams \cup {known \ UNION Teams} : Saves(Toggled(t), t)
              /\ Act /\ UNCHANGED <<route, scope>>

ToggleAll == /\ Saves(IF selected # {} THEN {} ELSE known, {})
             /\ Act /\ UNCHANGED <<route, scope>>

(* Emitted after the import of state.ts.                                   *)
Later(s) == /\ Becomes(s, {})
            /\ importing' = TRUE
            /\ UNCHANGED <<up, silent, saved, before>>

Imported == /\ importing
            /\ importing' = FALSE
            /\ UNCHANGED <<server, conn, down, known, started, selected, saved, before, route,
                           scope, counters, revived>>
            /\ Emit

(* An agent in an empty composer, or completed in it; all agents.          *)
Mention(a) == /\ a \in known \ selected /\ route = "dashboard"
              /\ Act /\ Later(selected \cup {a}) /\ UNCHANGED <<route, scope>>

ClearFilter == /\ route = "dashboard"
               /\ Act /\ Later(selected \cup known) /\ UNCHANGED <<route, scope>>

(* A row of the sidebar off the dashboard, or back from the watched agent. *)
OpenThread(a) == /\ a \in known /\ route # "dashboard"
                 /\ Act /\ Later({a})
                 /\ route' = "dashboard" /\ UNCHANGED scope

(* Focus: ignored when there is one, and nothing is saved.                 *)
Focus(s) == IF before # <<>> THEN UNCHANGED <<selected, before, up, history>>
            ELSE before' = <<selected>> /\ Changes(s, {})

FocusOn(a) == /\ a \in known
              /\ Act /\ Focus({a})
              /\ route' = "dashboard" /\ UNCHANGED <<saved, importing, scope>>

Unfocus == /\ before # <<>> /\ route = "dashboard"
           /\ Changes(before[1], before[1])
           /\ before' = <<>> /\ saved' = selected'
           /\ Act /\ UNCHANGED <<importing, route, scope>>

Retarget(s) == /\ UNCHANGED before
               /\ IF s = selected THEN UNCHANGED <<selected, up, history>> ELSE Changes(s, {})

(* The targets of the composer, typed or focused on.                       *)
Target(s) == /\ s # {} /\ s \subseteq known /\ route = "dashboard"
             /\ IF before = <<>> THEN Focus(s) ELSE Retarget(s)
             /\ Act /\ UNCHANGED <<saved, importing, route, scope>>

(* A message among the results is shown without an emit.                   *)
ShowMessage(a) == /\ route = "search" /\ InScope(a)
                  /\ Becomes(selected \cup {a}, {a})
                  /\ silent' = silent \cup ({a} \ selected)
                  /\ Act /\ route' = "dashboard"
                  /\ UNCHANGED <<up, saved, before, importing, scope>>

Go(r) == /\ r # route
         /\ Act /\ route' = r
         /\ UNCHANGED <<up, selected, saved, before, importing, history>>
         /\ Rerender

Click == \/ ToggleTeam \/ ToggleAll \/ ClearFilter \/ Unfocus
         \/ \E a \in Agent : \/ ToggleAgent(a) \/ Mention(a) \/ OpenThread(a)
                             \/ FocusOn(a) \/ ShowMessage(a)
         \/ \E s \in SUBSET Agent : Target(s)
         \/ \E r \in {"dashboard", "search", "watch"} : Go(r)

Next == \/ Accept \/ SetSubscription \/ ChangeRoster \/ Break
        \/ Open \/ Receive \/ Load \/ Imported \/ Click

Spec == Init /\ [][Next]_vars

-----------------------------------------------------------------------------
(* Properties                                                              *)

Quiet == conn = "open" /\ up = <<>> /\ ~importing

(* When no subscription is under way the server sends the messages of all  *)
(* that is selected, across reconnects and roster changes, but for what a  *)
(* search result added (search.ts:350-355 has no emit).                    *)
SelectedAreHeard == Quiet => selected \ silent \subseteq sub

(* An agent that is gone is not selected, unless a team, a focus that ends *)
(* or a search result put it back since the last roster (state.ts:195-221). *)
GoneAreForgotten == started => selected \ known \subseteq revived

ViewIsTrue == SelectedAreHeard /\ GoneAreForgotten

(* Without the exceptions: neither holds.                                  *)
NothingLingers == started => selected \subseteq known
AllAreHeard == Quiet => selected \subseteq sub
=============================================================================

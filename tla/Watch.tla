------------------------------- MODULE Watch -------------------------------
(***************************************************************************)
(* The page that watches the terminal of an agent: watch.ts and routing.ts *)
(* of src/src/dashboard, and the routes it calls: peek, keys, type (routes *)
(* of src/src/orchestrator/routes.ts:2461-2500, 2627-2647).                *)
(*                                                                         *)
(* The page is one set of module variables for all agents: what waits for  *)
(* an answer or a timer may find the page of another agent, or a new page  *)
(* of the same.  A page has a number, and so has each screen.              *)
(***************************************************************************)
EXTENDS Integers, Sequences, FiniteSets, Bags, FiniteSetsExt

CONSTANTS Agent, None,
          MaxPeek,   \* bound on peeks in flight, and on keys
          MaxAct     \* bound on what users, agents and proxies do

VARIABLES screen,    \* screen[a]: how often the terminal of a has changed
          proxied,   \* agents whose row names a proxy that answers
          running,   \* agents whose state is active, as broadcast
          current,   \* currentAgent
          page,      \* [no, of, pane, header]: what is in #route-root, None elsewhere
          timers,    \* bag of agents: intervals that are set
          paused,
          listeners, \* bag of agents: subscriptions of the pages, in detachers
          peeks,     \* calls of doPeek that wait
          keys,      \* agents: keys and texts under way
          acts          \* counter

vars == <<screen, proxied, running, current, page, timers, paused, listeners, peeks, keys,
          acts>>

machine == <<screen, proxied, running>>

Screen == [of : Agent, at : 0 .. MaxAct]
Page == [no : 1 .. MaxAct, of : Agent, pane : Screen \cup {None}, header : BOOLEAN]
Peek == [n : 1 .. MaxPeek, of : Agent, at : {"asked", "answered", "reading"},
         out : Screen \cup {None}, page : 0 .. MaxAct]

WatchAssumption == None \notin Page /\ None \notin Screen /\ {MaxPeek, MaxAct} \subseteq Nat

TypeOK == /\ screen \in [Agent -> 0 .. MaxAct]
          /\ proxied \subseteq Agent /\ running \subseteq Agent
          /\ current \in Agent \cup {None}
          /\ page \in Page \cup {None} /\ paused \in BOOLEAN
          /\ IsABag(timers) /\ IsABag(listeners) /\ keys \subseteq Agent
          /\ \A p \in peeks : p \in Peek /\ acts \in 0 .. MaxAct

Init == /\ screen = [a \in Agent |-> 0] /\ proxied = Agent /\ running = Agent
        /\ current = None /\ page = None /\ timers = EmptyBag /\ paused = FALSE
        /\ listeners = EmptyBag /\ peeks = {} /\ keys = {} /\ acts = 0

Act == acts < MaxAct /\ acts' = acts + 1

-----------------------------------------------------------------------------
(* doPeek: nothing when the page is not of this agent any more.            *)
DoPeek(a) ==
    IF current' # a THEN UNCHANGED peeks
    ELSE /\ Cardinality(peeks) < MaxPeek
         /\ LET n == Min((1 .. MaxPeek) \ {p.n : p \in peeks})
            IN peeks' = peeks \cup {[n |-> n, of |-> a, at |-> "asked", out |-> None,
                                     page |-> 0]}

StopPolling == EmptyBag
(* go to an agent: render() makes the page, a listener and the interval,   *)
(* then route-changed reaches all listeners: they find currentAgent set to *)
(* the new one and stay.                                                   *)
WatchAgent(a) ==
    /\ Act
    /\ current' = a
    /\ page' = [no |-> acts', of |-> a, pane |-> None, header |-> a \in running]
    /\ timers' = StopPolling (+) SetToBag({a})
    /\ listeners' = listeners (+) SetToBag({a})
    /\ DoPeek(a)
    /\ UNCHANGED <<machine, paused, keys>>

(* go elsewhere: the first listener takes all down.                        *)
Leave ==
    /\ page # None /\ Act
    /\ page' = None
    /\ IF listeners = EmptyBag THEN UNCHANGED <<timers, current>>
       ELSE timers' = StopPolling /\ current' = None
    /\ listeners' = EmptyBag
    /\ UNCHANGED <<machine, paused, peeks, keys>>

Poll(a) == /\ BagIn(a, timers) /\ ~paused
           /\ UNCHANGED current /\ DoPeek(a)
           /\ UNCHANGED <<machine, page, timers, paused, listeners, keys, acts>>

TogglePause == /\ page # None /\ Act
               /\ paused' = ~paused
               /\ UNCHANGED current
               /\ IF paused THEN DoPeek(page.of) ELSE UNCHANGED peeks
               /\ UNCHANGED <<machine, page, timers, listeners, keys>>

Refresh == /\ page # None /\ Act /\ UNCHANGED current /\ DoPeek(page.of)
           /\ UNCHANGED <<machine, page, timers, paused, listeners, keys>>

(* The route peek: the screen when the proxy looks, or an error.           *)
Output(a) == IF a \in proxied THEN [of |-> a, at |-> screen[a]] ELSE None
PeekRoute(p) ==
    /\ p.at = "asked"
    /\ peeks' = (peeks \ {p}) \cup {[p EXCEPT !.at = "answered", !.out = Output(p.of)]}
    /\ UNCHANGED <<machine, current, page, timers, paused, listeners, keys, acts>>

(* The head of the answer is here: the page is looked up and, when it is   *)
(* still of this agent, an error is shown; the output is to be read yet.   *)
StillWatched(a) == page # None /\ current = a
AnyPane(a) == page # None                                               \* mutant
HasPane(a) == StillWatched(a)

PeekAnswered(p) ==
    /\ p.at = "answered"
    /\ \/ /\ ~HasPane(p.of) /\ peeks' = peeks \ {p} /\ UNCHANGED page
       \/ /\ HasPane(p.of) /\ p.out = None
          /\ peeks' = peeks \ {p} /\ page' = [page EXCEPT !.pane = None]
       \/ /\ HasPane(p.of) /\ p.out # None
          /\ peeks' = (peeks \ {p}) \cup {[p EXCEPT !.at = "reading", !.page = page.no]}
          /\ UNCHANGED page
    /\ UNCHANGED <<machine, current, timers, paused, listeners, keys, acts>>

(* The output goes into the pane that was looked up: it may be in no page. *)
PeekRead(p) ==
    /\ p.at = "reading"
    /\ peeks' = peeks \ {p}
    /\ page' = IF page # None /\ page.no = p.page THEN [page EXCEPT !.pane = p.out] ELSE page
    /\ UNCHANGED <<machine, current, timers, paused, listeners, keys, acts>>

(* No answer: an error is shown if the page is still of this agent.        *)
PeekFails(p) ==
    /\ Act /\ peeks' = peeks \ {p}
    /\ page' = IF HasPane(p.of) THEN [page EXCEPT !.pane = None] ELSE page
    /\ UNCHANGED <<machine, current, timers, paused, listeners, keys>>

-----------------------------------------------------------------------------
(* A key or a text, and a peek 250 ms after the answer.                    *)
Send == /\ page # None /\ page.of \notin keys /\ Act
        /\ keys' = keys \cup {page.of}
        /\ UNCHANGED <<machine, current, page, timers, paused, listeners, peeks>>

KeysRoute(a) ==
    /\ a \in keys /\ keys' = keys \ {a}
    /\ screen' = IF a \in proxied THEN [screen EXCEPT ![a] = @ + 1] ELSE screen
    /\ UNCHANGED current /\ DoPeek(a)
    /\ UNCHANGED <<proxied, running, page, timers, paused, listeners, acts>>

ProxyChanges(a) ==
    /\ Act
    /\ proxied' = IF a \in proxied THEN proxied \ {a} ELSE proxied \cup {a}
    /\ UNCHANGED <<screen, running, current, page, timers, paused, listeners, peeks, keys>>

(* agents-changed: a listener redraws the header if the page is of its     *)
(* agent.                                                                  *)
AgentChanges(a) ==
    /\ Act
    /\ running' = IF a \in running THEN running \ {a} ELSE running \cup {a}
    /\ page' = IF page # None /\ current = a /\ BagIn(a, listeners)
               THEN [page EXCEPT !.header = a \in running'] ELSE page
    /\ UNCHANGED <<screen, proxied, current, timers, paused, listeners, peeks, keys>>

Next == \/ Leave \/ TogglePause \/ Refresh \/ Send
        \/ \E a \in Agent : \/ WatchAgent(a) \/ Poll(a) \/ KeysRoute(a)
                            \/ ProxyChanges(a) \/ AgentChanges(a)
        \/ \E p \in peeks : PeekRoute(p) \/ PeekAnswered(p) \/ PeekRead(p) \/ PeekFails(p)

Spec == Init /\ [][Next]_vars

-----------------------------------------------------------------------------
(* Properties                                                              *)

(* Whatever answers or timers outlive a page, a page shows the terminal    *)
(* and the state of its own agent, one interval polls, for this agent, and *)
(* none without a page (watch.ts:97-127, 131-180).                         *)
ShowsItsAgent ==
    IF page = None THEN timers = EmptyBag /\ listeners = EmptyBag
    ELSE /\ page.pane # None => page.pane.of = page.of
         /\ page.header = (page.of \in running)
         /\ current = page.of /\ timers = SetToBag({page.of})

(* That a pane never goes back to an older screen does not hold: of two    *)
(* peeks in flight the older may answer last (watch.ts:146-163).           *)
NeverBack == [][(page # None /\ page' # None /\ page.no = page'.no
                 /\ page.pane # None /\ page'.pane # None)
                => page.pane.at <= page'.pane.at]_vars
=============================================================================

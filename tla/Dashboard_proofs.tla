-------------------------- MODULE Dashboard_proofs --------------------------
(***************************************************************************)
(* Proofs about the components of Browser, each for every value of its     *)
(* constants that BrowserAssumption allows.                                *)
(***************************************************************************)
EXTENDS Browser, WellFoundedInduction, FiniteSetTheorems, TLAPS

-----------------------------------------------------------------------------
(* The watch page                                                          *)

(* A page in view is of the current agent, has a listener and the one      *)
(* interval, both of this agent, and shows its terminal and state.         *)
PageIsOwn ==
    IF page = None THEN timers = Page!EmptyBag /\ listeners = Page!EmptyBag
    ELSE /\ page.pane # None => page.pane.of = page.of
         /\ page.header = (page.of \in running)
         /\ current = page.of
         /\ timers = Page!SetToBag({page.of}) /\ page.of \in DOMAIN listeners

(* What a peek brings is of its agent, and so is the pane it looked up.    *)
PeeksAreOwn ==
    \A p \in peeks :
        /\ p.out # None => p.out.of = p.of
        /\ p.at = "reading" =>
              /\ p.out # None /\ p.page \in 1 .. watchActs
              /\ page # None /\ page.no = p.page => page.of = p.of

(* A peek; its number tells it from the others and is any.                 *)
PeekOf(n) == [n : {n}, of : Agent, at : {"asked", "answered", "reading"},
              out : Page!Screen \cup {None}, page : 0 .. MaxAct]

WatchType == /\ watchActs \in 0 .. MaxAct
             /\ page \in Page!Page \cup {None}
             /\ \A p \in peeks : p \in PeekOf(p.n)
             /\ page # None => page.no <= watchActs
             /\ watchScreen \in [Agent -> Nat]
             /\ \A a \in Agent : watchScreen[a] + (IF a \in keys THEN 1 ELSE 0) <= watchActs

WatchInv == WatchType /\ PageIsOwn /\ PeeksAreOwn

(* The facts about the constants that the proofs use.                      *)
LEMMA WatchConstants ==
    None \notin Page!Page /\ None \notin Page!Screen /\ {MaxPeek, MaxAct} \subseteq Nat
  BY BrowserAssumption DEF Page!WatchAssumption


(* A new peek brings nothing yet.                                          *)
LEMMA DoPeekStep ==
    ASSUME WatchInv, NEW a \in Agent, Page!DoPeek(a)
    PROVE  \A p \in peeks' : p \in peeks \/ (p \in PeekOf(p.n) /\ p.at = "asked" /\ p.out = None)
  <1>1. CASE UNCHANGED peeks
    BY <1>1
  <1>2. CASE ~UNCHANGED peeks
    <2>1. PICK n : peeks' = peeks \cup {[n |-> n, of |-> a, at |-> "asked", out |-> None, page |-> 0]}
      BY <1>2 DEF Page!DoPeek
    <2> DEFINE p == [n |-> n, of |-> a, at |-> "asked", out |-> None, page |-> 0]
    <2>2. p \in PeekOf(p.n) /\ p.at = "asked" /\ p.out = None
      BY WatchConstants DEF PeekOf
    <2> HIDE DEF p
    <2>3. peeks' = peeks \cup {p}
      BY <2>1 DEF p
    <2> QED
      BY <2>2, <2>3
  <1> QED
    BY <1>1, <1>2

(* The routes only move peeks along, and screens.                          *)
LEMMA RoutesStep ==
    ASSUME WatchInv,
           \/ \E a \in Agent : Page!Poll(a) \/ Page!KeysRoute(a)
           \/ \E p \in peeks : Page!PeekRoute(p)
    PROVE  WatchInv'
  <1> USE WatchConstants
  <1> USE DEF WatchInv, WatchType
  <1>1. UNCHANGED <<running, current, page, timers, listeners, watchActs>>
    BY DEF Page!Poll, Page!KeysRoute, Page!PeekRoute, Page!machine
  <1>2. PageIsOwn'
    BY <1>1 DEF PageIsOwn
  <1>3. /\ watchScreen' \in [Agent -> Nat]
        /\ \A a \in Agent : watchScreen'[a] + (IF a \in keys' THEN 1 ELSE 0) <= watchActs
    <2>1. CASE UNCHANGED <<watchScreen, keys>>
      BY <2>1
    <2>2. CASE \E a \in Agent : Page!KeysRoute(a)
      BY <2>2 DEF Page!KeysRoute
    <2> QED
      BY <2>1, <2>2 DEF Page!Poll, Page!PeekRoute, Page!machine
  <1>4. \A p \in peeks' : \/ p \in peeks
                         \/ /\ p \in PeekOf(p.n) /\ p.at # "reading"
                            /\ p.out # None => p.out.of = p.of
    <2>1. CASE \E a \in Agent : Page!Poll(a) \/ Page!KeysRoute(a)
      BY <2>1, DoPeekStep DEF Page!Poll, Page!KeysRoute
    <2>2. CASE \E p \in peeks : Page!PeekRoute(p)
      <3>1. PICK p \in peeks : peeks' = (peeks \ {p}) \cup {[p EXCEPT !.at = "answered", !.out = Page!Output(p.of)]}
        BY <2>2 DEF Page!PeekRoute
      <3> DEFINE q == [p EXCEPT !.at = "answered", !.out = Page!Output(p.of)]
      <3>2. p \in PeekOf(p.n)
        OBVIOUS
      <3>3. Page!Output(p.of) \in Page!Screen \cup {None}
        <4>1. watchScreen[p.of] \in 0 .. MaxAct
          BY <3>2 DEF PeekOf
        <4> QED
          BY <3>2, <4>1 DEF Page!Output, Page!Screen, PeekOf
      <3>4. Page!Output(p.of) # None => Page!Output(p.of).of = p.of
        BY DEF Page!Output
      <3>5. q \in PeekOf(q.n) /\ q.at = "answered" /\ q.out = Page!Output(p.of) /\ q.of = p.of
        BY <3>2, <3>3 DEF PeekOf
      <3> HIDE DEF q
      <3>6. peeks' = (peeks \ {p}) \cup {q}
        BY <3>1 DEF q
      <3> QED
        BY <3>4, <3>5, <3>6
    <2> QED
      BY <2>1, <2>2
  <1>5. PeeksAreOwn'
    <2>1. ASSUME NEW p \in peeks'
          PROVE  /\ p.out # None => p.out.of = p.of
                 /\ p.at = "reading" => p \in peeks
      BY <1>4 DEF PeeksAreOwn
    <2> QED
      BY <1>1, <2>1 DEF PeeksAreOwn
  <1>6. \A p \in peeks' : p \in PeekOf(p.n)
    BY <1>4
  <1> QED
    BY <1>1, <1>2, <1>3, <1>5, <1>6

(* An answer reaches a page only when this is of its agent.                *)
LEMMA AnswerStep ==
    ASSUME WatchInv, NEW p \in peeks,
           Page!PeekAnswered(p) \/ Page!PeekRead(p) \/ Page!PeekFails(p)
    PROVE  WatchInv'
  <1> USE WatchConstants
  <1> USE DEF WatchInv, WatchType
  <1> DEFINE q == [p EXCEPT !.at = "reading", !.page = page.no]
  <1>1. /\ UNCHANGED <<watchScreen, running, current, timers, listeners, keys>>
        /\ watchActs' \in watchActs .. MaxAct
    <2>1. watchActs \in 0 .. MaxAct
      OBVIOUS
    <2>2. CASE Page!PeekAnswered(p) \/ Page!PeekRead(p)
      BY <2>1, <2>2 DEF Page!PeekAnswered, Page!PeekRead, Page!machine
    <2>3. CASE Page!PeekFails(p)
      BY <2>1, <2>3 DEF Page!PeekFails, Page!machine, Page!Act
    <2> QED
      BY <2>2, <2>3
  <1>2. p \in PeekOf(p.n)
    OBVIOUS
  <1>3. \/ page' = page
        \/ /\ page # None /\ page' = [page EXCEPT !.pane = None]
        \/ /\ page # None /\ p.at = "reading" /\ page.no = p.page
           /\ page' = [page EXCEPT !.pane = p.out]
    BY DEF Page!PeekAnswered, Page!PeekRead, Page!PeekFails, Page!HasPane, Page!StillWatched
  <1>4. \/ peeks' = peeks \ {p} 
        \/ /\ page # None /\ page' = page /\ current = p.of /\ p.out # None
           /\ peeks' = (peeks \ {p}) \cup {q}
    BY DEF Page!PeekAnswered, Page!PeekRead, Page!PeekFails, Page!HasPane, Page!StillWatched
  <1>5. ASSUME page # None
        PROVE  /\ page' \in Page!Page /\ page'.no = page.no /\ page'.of = page.of
               /\ page'.header = page.header
               /\ page'.pane # None => page'.pane.of = page.of
    <2>1. page \in Page!Page /\ (page.pane # None => page.pane.of = page.of)
      BY <1>5 DEF PageIsOwn
    <2>2. CASE page' = page
      BY <2>1, <2>2
    <2>3. CASE page' = [page EXCEPT !.pane = None]
      BY <2>1, <2>3 DEF Page!Page
    <2>4. CASE p.at = "reading" /\ page.no = p.page /\ page' = [page EXCEPT !.pane = p.out]
      <3>1. p.out \in Page!Screen /\ p.out.of = page.of
        BY <1>2, <1>5, <2>4 DEF PeeksAreOwn, PeekOf
      <3> QED
        BY <2>1, <2>4, <3>1 DEF Page!Page
    <2> QED
      BY <1>3, <2>2, <2>3, <2>4
  <1>6. page = None => page' = None
    BY <1>3
  <1>7. PageIsOwn'
    BY <1>1, <1>5, <1>6 DEF PageIsOwn
  <1>8. ASSUME page # None
        PROVE  page.no \in 1 .. watchActs /\ page.no \in 0 .. MaxAct
    BY <1>8 DEF Page!Page
  <1>9. ASSUME page # None
        PROVE  /\ q \in PeekOf(q.n) /\ q.at = "reading" /\ q.page = page.no
               /\ q.of = p.of /\ q.out = p.out
    BY <1>2, <1>8, <1>9 DEF PeekOf
  <1> HIDE DEF q
  <1>10. PeeksAreOwn' /\ \A x \in peeks' : x \in PeekOf(x.n)
    <2>1. \A x \in peeks : x.at = "reading" =>
             /\ x.out # None /\ x.page \in 1 .. watchActs'
             /\ page' # None /\ page'.no = x.page => page'.of = x.of
      BY <1>1, <1>5, <1>6 DEF PeeksAreOwn
    <2>2. \A x \in peeks : x.out # None => x.out.of = x.of
      BY DEF PeeksAreOwn
    <2>3. CASE peeks' = peeks \ {p}
      BY <2>1, <2>2, <2>3 DEF PeeksAreOwn
    <2>4. CASE /\ page # None /\ page' = page /\ current = p.of /\ p.out # None
               /\ peeks' = (peeks \ {p}) \cup {q}
      <3>1. /\ q.out # None => q.out.of = q.of
            /\ q.out # None /\ q.page \in 1 .. watchActs'
            /\ page'.of = q.of
        <4>1. page.of = p.of
          BY <2>4 DEF PageIsOwn
        <4> QED
          BY <1>1, <1>8, <1>9, <2>2, <2>4, <4>1
      <3>2. q \in PeekOf(q.n)
        BY <1>9, <2>4
      <3> QED
        BY <2>1, <2>2, <2>4, <3>1, <3>2 DEF PeeksAreOwn
    <2> QED
      BY <1>4, <2>3, <2>4
  <1>11. page' # None => page' \in Page!Page /\ page'.no <= watchActs'
    BY <1>1, <1>5, <1>6, <1>8
  <1>12. \A a \in Agent : watchScreen'[a] + (IF a \in keys' THEN 1 ELSE 0) <= watchActs'
    BY <1>1
  <1> QED
    BY <1>1, <1>7, <1>10, <1>11, <1>12

(* What users, agents and proxies do to the page and its agent.            *)
LEMMA PageStep ==
    ASSUME WatchInv,
           \/ Page!Leave \/ Page!TogglePause \/ Page!Refresh \/ Page!Send
           \/ \E a \in Agent : Page!WatchAgent(a) \/ Page!ProxyChanges(a) \/ Page!AgentChanges(a)
    PROVE  WatchInv'
  <1> USE WatchConstants
  <1> USE DEF WatchInv, WatchType
  <1>1. /\ watchActs' = watchActs + 1 /\ watchActs' \in 0 .. MaxAct
        /\ UNCHANGED watchScreen
    <2>1. watchActs \in 0 .. MaxAct /\ watchActs < MaxAct /\ watchActs' = watchActs + 1
      BY DEF Page!Leave, Page!TogglePause, Page!Refresh, Page!Send, Page!WatchAgent,
             Page!ProxyChanges, Page!AgentChanges, Page!Act
    <2>2. UNCHANGED watchScreen
      BY DEF Page!Leave, Page!TogglePause, Page!Refresh, Page!Send, Page!WatchAgent,
             Page!ProxyChanges, Page!AgentChanges, Page!machine
    <2> QED
      BY <2>1, <2>2
  <1>2. \A a \in Agent : watchScreen'[a] + (IF a \in keys' THEN 1 ELSE 0) <= watchActs'
    <2>1. \A a \in Agent : watchScreen[a] \in Nat /\ watchScreen[a] <= watchActs
      OBVIOUS
    <2>2. watchActs \in Nat
      OBVIOUS
    <2> QED
      BY <1>1, <2>1, <2>2
  <1>3. ASSUME page # None PROVE page.of \in Agent /\ page \in Page!Page
    BY <1>3 DEF Page!Page
  <1>4. \A p \in peeks' : p \in peeks \/ (p \in PeekOf(p.n) /\ p.at = "asked" /\ p.out = None)
    <2>1. CASE Page!Leave \/ Page!Send \/ \E a \in Agent : Page!ProxyChanges(a) \/ Page!AgentChanges(a)
      BY <2>1 DEF Page!Leave, Page!Send, Page!ProxyChanges, Page!AgentChanges
    <2>2. CASE Page!TogglePause \/ Page!Refresh
      <3>1. page # None /\ (Page!DoPeek(page.of) \/ UNCHANGED peeks)
        BY <2>2 DEF Page!TogglePause, Page!Refresh
      <3> QED
        BY <1>3, <3>1, DoPeekStep
    <2>3. CASE \E a \in Agent : Page!WatchAgent(a)
      BY <2>3, DoPeekStep DEF Page!WatchAgent
    <2> QED
      BY <2>1, <2>2, <2>3
  <1>5. \A p \in peeks' : p \in PeekOf(p.n)
    BY <1>4
  <1>6. ASSUME /\ page' # None => /\ page' \in Page!Page /\ page'.no <= watchActs'
                                 /\ \/ page'.no = watchActs'
                                    \/ page # None /\ page'.no = page.no /\ page'.of = page.of,
               PageIsOwn'
        PROVE  WatchInv'
    <2>1. ASSUME NEW p \in peeks'
          PROVE  /\ p.out # None => p.out.of = p.of
                 /\ p.at = "reading" => p \in peeks
      BY <1>4 DEF PeeksAreOwn
    <2>2. ASSUME NEW p \in peeks, p.at = "reading"
          PROVE  /\ p.out # None /\ p.page \in 1 .. watchActs'
                 /\ page' # None /\ page'.no = p.page => page'.of = p.of
      <3>1. /\ p.out # None /\ p.page \in 1 .. watchActs
            /\ page # None /\ page.no = p.page => page.of = p.of
        BY <2>2 DEF PeeksAreOwn
      <3>2. watchActs \in Nat
        OBVIOUS
      <3>3. p.page # watchActs' /\ p.page \in 1 .. watchActs'
        BY <1>1, <3>1, <3>2
      <3> QED
        BY <1>6, <3>1, <3>3
    <2>3. PeeksAreOwn'
      BY <2>1, <2>2 DEF PeeksAreOwn
    <2> QED
      BY <1>1, <1>2, <1>5, <1>6, <2>3
  <1>7. ASSUME page # None
        PROVE  page.no \in 1 .. watchActs /\ page.no <= watchActs'
    BY <1>1, <1>7 DEF Page!Page
  <1>8. CASE Page!TogglePause \/ Page!Refresh \/ Page!Send \/ \E a \in Agent : Page!ProxyChanges(a)
    <2>1. UNCHANGED <<page, timers, listeners, current, running>>
      BY <1>8 DEF Page!TogglePause, Page!Refresh, Page!Send, Page!ProxyChanges, Page!machine
    <2>2. PageIsOwn'
      BY <2>1 DEF PageIsOwn
    <2> QED
      BY <1>6, <1>7, <2>1, <2>2
  <1>9. CASE Page!Leave
    <2>1. page # None /\ page' = None /\ listeners' = Page!EmptyBag
      BY <1>9 DEF Page!Leave
    <2>2. listeners # Page!EmptyBag
      BY <2>1 DEF PageIsOwn, Page!EmptyBag, Page!SetToBag
    <2>3. timers' = Page!EmptyBag
      BY <1>9, <2>2 DEF Page!Leave, Page!StopPolling
    <2>4. PageIsOwn'
      BY <2>1, <2>3 DEF PageIsOwn
    <2> QED
      BY <1>6, <2>1, <2>4
  <1>10. CASE \E a \in Agent : Page!WatchAgent(a)
    <2>1. PICK a \in Agent : Page!WatchAgent(a)
      BY <1>10
    <2> DEFINE new == [no |-> watchActs', of |-> a, pane |-> None, header |-> a \in running]
    <2>2. /\ current' = a /\ page' = new /\ running' = running
          /\ timers' = Page!(+)(Page!EmptyBag, Page!SetToBag({a}))
          /\ listeners' = Page!(+)(listeners, Page!SetToBag({a}))
      BY <2>1 DEF Page!WatchAgent, Page!StopPolling, Page!machine
    <2>3. timers' = Page!SetToBag({a})
      BY <2>2 DEF Page!(+), Page!SetToBag, Page!EmptyBag
    <2>4. a \in DOMAIN listeners'
      BY <2>2 DEF Page!(+), Page!SetToBag
    <2>5. watchActs' \in 1 .. MaxAct
      BY <1>1
    <2>6. new \in Page!Page /\ new.no = watchActs' /\ new.of = a /\ new.pane = None
          /\ new.header = (a \in running)
      BY <2>5 DEF Page!Page
    <2> HIDE DEF new
    <2>7. new # None
      BY <2>6
    <2>8. PageIsOwn'
      BY <2>2, <2>3, <2>4, <2>6, <2>7 DEF PageIsOwn
    <2>9. page' \in Page!Page /\ page'.no = watchActs'
      BY <2>2, <2>6
    <2> QED
      BY <1>1, <1>6, <2>8, <2>9
  <1>11. CASE \E a \in Agent : Page!AgentChanges(a)
    <2>1. PICK a \in Agent : Page!AgentChanges(a)
      BY <1>11
    <2>2. /\ running' = (IF a \in running THEN running \ {a} ELSE running \cup {a})
          /\ page' = (IF page # None /\ current = a /\ a \in DOMAIN listeners
                      THEN [page EXCEPT !.header = a \in running'] ELSE page)
          /\ UNCHANGED <<current, timers, listeners>>
      BY <2>1 DEF Page!AgentChanges, Page!BagIn, Page!BagToSet
    <2>3. CASE page = None
      <3>1. page' = None
        BY <2>2, <2>3
      <3>2. PageIsOwn'
        BY <2>2, <2>3, <3>1 DEF PageIsOwn
      <3> QED
        BY <1>6, <3>1, <3>2
    <2>4. CASE page # None /\ page.of = a
      <3>1. page' = [page EXCEPT !.header = a \in running']
        BY <2>2, <2>4 DEF PageIsOwn
      <3>2. (a \in running') \in BOOLEAN
        OBVIOUS
      <3>3. /\ page' \in Page!Page /\ page'.no = page.no /\ page'.of = page.of
            /\ page'.pane = page.pane /\ page'.header = (a \in running')
        BY <1>3, <2>4, <3>1, <3>2 DEF Page!Page
      <3>4. page' # None
        BY <3>3
      <3>5. PageIsOwn'
        BY <2>2, <2>4, <3>3, <3>4 DEF PageIsOwn
      <3> QED
        BY <1>6, <1>7, <2>4, <3>3, <3>5
    <2>5. CASE page # None /\ page.of # a
      <3>1. page' = page
        BY <2>2, <2>5 DEF PageIsOwn
      <3>2. page.of \in running' <=> page.of \in running
        BY <2>2, <2>5
      <3>3. PageIsOwn'
        BY <2>2, <2>5, <3>1, <3>2 DEF PageIsOwn
      <3> QED
        BY <1>3, <1>6, <1>7, <2>5, <3>1, <3>3
    <2> QED
      BY <2>3, <2>4, <2>5
  <1> QED
    BY <1>8, <1>9, <1>10, <1>11

(* Whatever answers and timers outlive a page, a page shows its own agent, *)
(* for any agents (watch.ts:97-180).                                       *)
LEMMA WatchSafe == BrowserSpec => [](part = "watch" => Page!ShowsItsAgent)
  <1>1. BrowserInit => WatchInv
    <2> SUFFICES ASSUME Page!Init PROVE WatchInv
      BY DEF BrowserInit
    <2> QED
      BY WatchConstants DEF Page!Init, WatchInv, WatchType, PageIsOwn, PeeksAreOwn
  <1>2. WatchInv /\ [BrowserNext]_browserVars => WatchInv'
    <2> SUFFICES ASSUME WatchInv, [BrowserNext]_browserVars PROVE WatchInv'
      OBVIOUS
    <2>1. CASE part = "watch" /\ BrowserNext
      <3>1. Page!Next
        BY <2>1 DEF BrowserNext
      <3> QED
        BY <3>1, RoutesStep, AnswerStep, PageStep DEF Page!Next
    <2>2. CASE UNCHANGED watchVars
      BY <2>2 DEF watchVars, WatchInv, WatchType, PageIsOwn, PeeksAreOwn
    <2>3. CASE UNCHANGED browserVars
      BY <2>2, <2>3 DEF browserVars
    <2> QED
      BY <2>1, <2>2, <2>3 DEF BrowserNext
  <1>3. WatchInv => Page!ShowsItsAgent
    BY DEF WatchInv, PageIsOwn, Page!ShowsItsAgent
  <1> QED
    BY <1>1, <1>2, <1>3, PTL DEF BrowserSpec

-----------------------------------------------------------------------------
(* DashboardSync                                                           *)

(* The ids that an event brings.                                           *)
Brought(e) == IF e.type = "init" THEN e.ids ELSE IF e.type = "message" THEN {e.id} ELSE {}

SyncType ==
    /\ syncLog \in Seq(Agent) /\ Len(syncLog) <= MaxMessage /\ since \in Nat
    /\ syncDown \in Seq(Sync!Event) /\ syncHeld \in [Sync!Id -> Nat]
    /\ cache \subseteq Sync!Held /\ Sync!Held \subseteq Sync!Ids /\ always \subseteq Agent

(* Below each of the ids no message of an agent that was always subscribed *)
(* to is missing.                                                          *)
NoneMissing(S) == \A i \in S, j \in Sync!Ids : j < i /\ syncLog[j] \in always => j \in S

(* A connection has the messages up to its watermark.                      *)
HasOlder ==
    conn # "closed" =>
        /\ since <= Len(syncLog)
        /\ \A j \in Sync!Ids : syncLog[j] \in always /\ j <= since => j \in Sync!Held

(* What is under way brings the rest, in the order of the ids, and an init *)
(* comes before all messages.                                              *)
BringsRest ==
    conn = "open" =>
        /\ always \subseteq sub
        /\ \A n \in DOMAIN syncDown : Brought(syncDown[n]) \subseteq Sync!Ids
        /\ \A m, n \in DOMAIN syncDown : m < n =>
              \A a \in Brought(syncDown[m]), b \in Brought(syncDown[n]) : a < b
        /\ \A m, n \in DOMAIN syncDown :
              m < n /\ syncDown[n].type = "init" => syncDown[m].type = "open"
        /\ \A n \in DOMAIN syncDown :
              syncDown[n].type = "init" /\ ~syncDown[n].delta => Sync!Held \subseteq syncDown[n].ids
        /\ \A j \in Sync!Ids : syncLog[j] \in always =>
              j \in Sync!Held \/ \E n \in DOMAIN syncDown : j \in Brought(syncDown[n])

SyncInv ==
    SyncType /\ NoneMissing(Sync!Held) /\ NoneMissing(cache) /\ HasOlder /\ BringsRest

(* Every non-empty set of numbers has a least one.                         *)
LEMMA LeastId ==
    ASSUME NEW S \in SUBSET Nat, S # {}
    PROVE  \E n \in S : \A m \in S : n <= m
  <1>1. PICK n \in S : \A m \in S : ~ (<<m, n>> \in OpToRel(<, Nat))
    BY NatLessThanWellFounded, WFMin
  <1>2. \A m \in S : ~(m < n)
    BY <1>1 DEF OpToRel
  <1> QED
    BY <1>2

(* The newest of some ids.                                                 *)
LEMMA NewestOf ==
    ASSUME NEW S \in SUBSET Sync!Id
    PROVE  /\ Sync!Newest(S) \in S \cup {0} /\ \A i \in S : i <= Sync!Newest(S)
  <1>1. MaxMessage \in Nat
    BY BrowserAssumption DEF Sync!DashboardSyncAssumption
  <1>2. S \cup {0} \subseteq 0 .. MaxMessage
    BY <1>1 DEF Sync!Id
  <1> DEFINE D == {MaxMessage - i : i \in S \cup {0}}
  <1>3. D \in SUBSET Nat /\ D # {} /\ \A i \in S \cup {0} : MaxMessage - i \in D
    BY <1>1, <1>2
  <1>4. \A d \in D : \E i \in S \cup {0} : d = MaxMessage - i
    OBVIOUS
  <1> HIDE DEF D
  <1>5. PICK d \in D : \A m \in D : d <= m
    BY <1>3, LeastId
  <1>6. PICK x \in S \cup {0} : d = MaxMessage - x
    BY <1>4
  <1>7. \A y \in S \cup {0} : x >= y
    BY <1>1, <1>2, <1>3, <1>5, <1>6
  <1>8. /\ Sync!Max(S \cup {0}) \in S \cup {0}
        /\ \A y \in S \cup {0} : Sync!Max(S \cup {0}) >= y
    BY <1>6, <1>7 DEF Sync!Max
  <1> QED
    BY <1>1, <1>2, <1>8 DEF Sync!Newest

(* The bound of the log is a number.                                       *)
LEMMA SyncConstants == MaxMessage \in Nat
  BY BrowserAssumption DEF Sync!DashboardSyncAssumption

(* What changes neither log nor threads nor events.                        *)
LEMMA ClosedStep ==
    ASSUME SyncInv, conn' = "closed", UNCHANGED <<syncLog, since, always>>,
           syncDown' = <<>>, syncHeld' \in [Sync!Id -> Nat], cache' = cache,
           Sync!Held' \in {Sync!Held, cache}
    PROVE  SyncInv'
  <1>1. NoneMissing(cache)' /\ NoneMissing(Sync!Held)'
    BY DEF SyncInv, NoneMissing, Sync!Ids
  <1>2. SyncType'
    BY DEF SyncInv, SyncType, Sync!Ids
  <1> QED
    BY <1>1, <1>2 DEF SyncInv, HasOlder, BringsRest

(* A new socket starts with a snapshot, or with what is newer than the cache.*)
LEMMA AcceptStep ==
    ASSUME SyncInv, Sync!Accept
    PROVE  SyncInv'
  <1> USE SyncConstants
  <1>1. /\ conn = "opening" /\ conn' = "open" /\ sub' = Agent
        /\ syncDown' = <<[type |-> "open"],
                         [type |-> "init", ids |-> Sync!Since(since), delta |-> since > 0]>>
        /\ UNCHANGED <<syncLog, since, syncHeld, cache, always>>
    BY DEF Sync!Accept, Sync!choice
  <1> DEFINE e == [type |-> "init", ids |-> Sync!Since(since), delta |-> since > 0]
  <1>2. /\ Sync!Since(since) \subseteq Sync!Ids
        /\ \A j \in Sync!Ids : j \in Sync!Since(since) <=> j > since
    BY DEF Sync!Since
  <1>3. Sync!Ids \subseteq Sync!Id
    BY DEF Sync!Ids, Sync!Id, SyncInv, SyncType
  <1>4. e \in Sync!Event /\ [type |-> "open"] \in Sync!Event
    BY <1>2, <1>3 DEF Sync!Event
  <1>5. /\ syncDown' \in Seq(Sync!Event) /\ DOMAIN syncDown' = {1, 2}
        /\ syncDown'[1].type = "open" /\ syncDown'[2] = e
        /\ e.type = "init" /\ e.ids = Sync!Since(since) /\ (e.delta <=> since > 0)
    <2>1. syncDown' = <<[type |-> "open"], e>>
      BY <1>1
    <2>2. e.type = "init" /\ e.ids = Sync!Since(since) /\ (e.delta <=> since > 0)
      OBVIOUS
    <2> HIDE DEF e
    <2> QED
      BY <1>4, <2>1, <2>2
  <1> HIDE DEF e
  <1>6. Brought(syncDown'[1]) = {} /\ Brought(syncDown'[2]) = Sync!Since(since)
    BY <1>5 DEF Brought
  <1>7. /\ Sync!Held' = Sync!Held /\ Sync!Ids' = Sync!Ids
    BY <1>1 DEF Sync!Held, Sync!Ids
  <1>8. SyncType'
    BY <1>1, <1>5, <1>7 DEF SyncInv, SyncType
  <1>9. NoneMissing(cache)' /\ NoneMissing(Sync!Held)' /\ HasOlder'
    BY <1>1, <1>7 DEF SyncInv, NoneMissing, HasOlder
  <1>10. \A j \in Sync!Ids : syncLog[j] \in always => j \in Sync!Held \/ j \in Sync!Since(since)
    <2>1. \A j \in Sync!Ids : j \in Int /\ since \in Int
      BY DEF Sync!Ids, SyncInv, SyncType
    <2> QED
      BY <1>1, <1>2, <2>1 DEF SyncInv, HasOlder
  <1>11. ~e.delta => Sync!Held \subseteq Sync!Since(since)
    BY <1>2, <1>5 DEF SyncInv, SyncType, Sync!Ids
  <1>12. BringsRest'
    BY <1>1, <1>2, <1>5, <1>6, <1>7, <1>10, <1>11 DEF BringsRest, SyncInv, SyncType
  <1> QED
    BY <1>8, <1>9, <1>12 DEF SyncInv

(* A new message is under way, or its agent is not subscribed to.          *)
LEMMA PostStep ==
    ASSUME SyncInv, NEW a \in Agent, Sync!Post(a)
    PROVE  SyncInv'
  <1> USE SyncConstants
  <1> DEFINE L == Len(syncLog)
  <1>1. /\ L < MaxMessage /\ syncLog' = Append(syncLog, a)
        /\ UNCHANGED <<sub, conn, since, syncHeld, cache, always>>
        /\ syncDown' = IF conn = "open" /\ a \in sub
                       THEN Append(syncDown, [type |-> "message", id |-> Len(syncLog')])
                       ELSE syncDown
    BY DEF Sync!Post, Sync!choice
  <1>2. /\ syncLog' \in Seq(Agent) /\ Len(syncLog') = L + 1 /\ L \in Nat
        /\ syncLog'[L + 1] = a /\ \A j \in Sync!Ids : syncLog'[j] = syncLog[j]
        /\ Sync!Ids = 1 .. L /\ Sync!Ids' = 1 .. (L + 1) /\ Sync!Id = 1 .. MaxMessage
    BY <1>1 DEF SyncInv, SyncType, Sync!Ids, Sync!Id
  <1>3. Sync!Held' = Sync!Held
    BY <1>1 DEF Sync!Held
  <1> DEFINE e == [type |-> "message", id |-> L + 1]
  <1>4. e \in Sync!Event /\ e.type = "message" /\ Brought(e) = {L + 1}
    BY <1>1, <1>2 DEF Sync!Event, Brought
  <1> HIDE DEF e
  <1>5. syncDown' = IF conn = "open" /\ a \in sub THEN Append(syncDown, e) ELSE syncDown
    BY <1>1, <1>2 DEF e
  <1>6. SyncType'
    <2>1. syncDown' \in Seq(Sync!Event)
      BY <1>4, <1>5 DEF SyncInv, SyncType
    <2> QED
      BY <1>1, <1>2, <1>3, <2>1 DEF SyncInv, SyncType
  <1> HIDE DEF L
  <1>7. \A S \in SUBSET Sync!Ids : NoneMissing(S) =>
            \A i \in S, j \in Sync!Ids' : j < i /\ syncLog'[j] \in always' => j \in S
    BY <1>1, <1>2 DEF NoneMissing
  <1>8. NoneMissing(cache)' /\ NoneMissing(Sync!Held)'
    <2>1. cache \in SUBSET Sync!Ids /\ Sync!Held \in SUBSET Sync!Ids
      BY DEF SyncInv, SyncType
    <2> QED
      BY <1>1, <1>3, <1>7, <2>1 DEF SyncInv, NoneMissing
  <1>9. HasOlder'
    BY <1>1, <1>2, <1>3 DEF SyncInv, SyncType, HasOlder, L
  <1>10. CASE conn = "open" /\ a \in sub
    <2>1. syncDown \in Seq(Sync!Event) /\ syncDown' = Append(syncDown, e)
      BY <1>5, <1>10 DEF SyncInv, SyncType
    <2>2. PICK k \in Nat : DOMAIN syncDown = 1 .. k
      BY <2>1
    <2>3. /\ DOMAIN syncDown' = 1 .. (k + 1) /\ syncDown'[k + 1] = e
          /\ \A n \in 1 .. k : syncDown'[n] = syncDown[n]
      BY <2>1, <2>2
    <2>4. \A n \in 1 .. k : Brought(syncDown[n]) \subseteq 1 .. L
      BY <1>2, <1>10, <2>2 DEF SyncInv, BringsRest
    <2>5. \A n \in 1 .. (k + 1) : Brought(syncDown'[n]) \subseteq Sync!Ids'
      BY <1>2, <1>4, <2>2, <2>3, <2>4
    <2>6. \A m, n \in 1 .. (k + 1) : m < n =>
              \A x \in Brought(syncDown'[m]), y \in Brought(syncDown'[n]) : x < y
      <3>1. ASSUME NEW m \in 1 .. (k + 1), NEW n \in 1 .. (k + 1), m < n,
                   NEW x \in Brought(syncDown'[m]), NEW y \in Brought(syncDown'[n])
            PROVE  x < y
        <4>1. m \in 1 .. k /\ x \in Brought(syncDown[m]) /\ x \in 1 .. L
          BY <2>2, <2>3, <2>4, <3>1
        <4>2. CASE n = k + 1
          BY <1>2, <1>4, <2>3, <3>1, <4>1, <4>2
        <4>3. CASE n # k + 1
          <5>1. n \in 1 .. k /\ y \in Brought(syncDown[n])
            BY <2>2, <2>3, <3>1, <4>3
          <5> QED
            BY <1>10, <2>2, <3>1, <4>1, <5>1 DEF SyncInv, BringsRest
        <4> QED
          BY <4>2, <4>3
      <3> QED
        BY <3>1
    <2>7. \A m, n \in 1 .. (k + 1) :
              m < n /\ syncDown'[n].type = "init" => syncDown'[m].type = "open"
      BY <1>4, <1>10, <2>2, <2>3 DEF SyncInv, BringsRest
    <2>8. \A n \in 1 .. (k + 1) :
              syncDown'[n].type = "init" /\ ~syncDown'[n].delta => Sync!Held \subseteq syncDown'[n].ids
      BY <1>4, <1>10, <2>2, <2>3 DEF SyncInv, BringsRest
    <2>9. ASSUME NEW j \in Sync!Ids', syncLog'[j] \in always, j \notin Sync!Held
          PROVE  \E n \in 1 .. (k + 1) : j \in Brought(syncDown'[n])
      <3>1. CASE j = L + 1
        BY <1>4, <2>2, <2>3, <3>1
      <3>2. CASE j # L + 1
        <4>1. j \in Sync!Ids /\ syncLog[j] \in always
          BY <1>2, <2>9, <3>2
        <4>2. PICK n \in 1 .. k : j \in Brought(syncDown[n])
          BY <1>10, <2>2, <2>9, <4>1 DEF SyncInv, BringsRest
        <4> QED
          BY <2>2, <2>3, <4>2
      <3> QED
        BY <3>1, <3>2
    <2>10. BringsRest'
      <3>1. (always \subseteq sub)'
        BY <1>1, <1>10 DEF SyncInv, BringsRest
      <3>2. Sync!Held' = Sync!Held /\ DOMAIN syncDown' = 1 .. (k + 1) /\ always' = always
        BY <1>1, <1>3, <2>3
      <3> QED
        BY <2>5, <2>6, <2>7, <2>8, <2>9, <3>1, <3>2 DEF BringsRest
    <2> QED
      BY <1>6, <1>8, <1>9, <2>10 DEF SyncInv
  <1>11. CASE ~(conn = "open" /\ a \in sub)
    <2>1. syncDown' = syncDown
      BY <1>5, <1>11
    <2>2. conn = "open" => a \notin always
      BY <1>11 DEF SyncInv, BringsRest
    <2>3. conn = "open" => \A j \in Sync!Ids' : syncLog'[j] \in always =>
              j \in Sync!Held \/ \E n \in DOMAIN syncDown : j \in Brought(syncDown[n])
      BY <1>2, <2>2 DEF SyncInv, BringsRest
    <2>4. Sync!Ids \subseteq Sync!Ids'
      BY <1>2
    <2>5. BringsRest'
      BY <1>1, <1>3, <2>1, <2>3, <2>4 DEF SyncInv, BringsRest
    <2> QED
      BY <1>6, <1>8, <1>9, <2>5 DEF SyncInv
  <1> QED
    BY <1>10, <1>11

(* Connecting takes the newest id of the cache as the watermark.           *)
LEMMA ConnectStep ==
    ASSUME SyncInv, Sync!Connect
    PROVE  SyncInv'
  <1> USE SyncConstants
  <1>1. /\ conn' = "opening" /\ since' = Sync!Newest(cache)
        /\ UNCHANGED <<syncLog, syncDown, syncHeld, cache, always>>
    BY DEF Sync!Connect, Sync!server, Sync!choice
  <1>2. /\ Sync!Held' = Sync!Held /\ Sync!Ids' = Sync!Ids
    BY <1>1 DEF Sync!Held, Sync!Ids
  <1>3. Sync!Ids \subseteq Sync!Id /\ Sync!Ids = 1 .. Len(syncLog) /\ Len(syncLog) \in Nat
    BY DEF SyncInv, SyncType, Sync!Ids, Sync!Id
  <1>4. cache \subseteq Sync!Ids /\ cache \subseteq Sync!Held
    BY DEF SyncInv, SyncType
  <1>5. /\ since' \in cache \cup {0} /\ \A i \in cache : i <= since'
    BY <1>1, <1>3, <1>4, NewestOf
  <1>6. SyncType'
    BY <1>1, <1>2, <1>3, <1>4, <1>5 DEF SyncInv, SyncType
  <1>7. HasOlder'
    BY <1>1, <1>2, <1>3, <1>4, <1>5 DEF SyncInv, HasOlder, NoneMissing
  <1> QED
    BY <1>1, <1>2, <1>6, <1>7 DEF SyncInv, NoneMissing, BringsRest

(* Narrowing the subscription moves no message.                            *)
LEMMA SubscribeStep ==
    ASSUME SyncInv, Sync!SetSubscription
    PROVE  SyncInv'
  <1>1. /\ always' = always \cap sub'
        /\ UNCHANGED <<syncLog, conn, since, syncDown, syncHeld, cache>>
    BY DEF Sync!SetSubscription
  <1>2. Sync!Held' = Sync!Held /\ Sync!Ids' = Sync!Ids
    BY <1>1 DEF Sync!Held, Sync!Ids
  <1> QED
    BY <1>1, <1>2 DEF SyncInv, SyncType, NoneMissing, HasOlder, BringsRest

(* The events that arrive.  What is at the head is merged into what is     *)
(* held, and nothing is skipped.                                           *)
LEMMA ReceiveSyncStep ==
    ASSUME SyncInv, Sync!Receive
    PROVE  SyncInv'
  <1> USE SyncConstants
  <1>1. /\ conn = "open" /\ syncDown # <<>> /\ syncDown' = Tail(syncDown)
        /\ UNCHANGED <<syncLog, sub, conn, since>>
    BY DEF Sync!Receive, Sync!server
  <1>2. syncDown \in Seq(Sync!Event)
    BY DEF SyncInv, SyncType
  <1>3. PICK k \in Nat : DOMAIN syncDown = 1 .. (k + 1)
    <2>1. Len(syncDown) \in Nat /\ Len(syncDown) > 0 /\ DOMAIN syncDown = 1 .. Len(syncDown)
      BY <1>1, <1>2
    <2>2. Len(syncDown) - 1 \in Nat /\ DOMAIN syncDown = 1 .. ((Len(syncDown) - 1) + 1)
      BY <2>1
    <2> QED
      BY <2>2
  <1>4. /\ syncDown' \in Seq(Sync!Event) /\ DOMAIN syncDown' = 1 .. k
        /\ \A n \in 1 .. k : syncDown'[n] = syncDown[n + 1] /\ n + 1 \in 1 .. (k + 1)
    BY <1>1, <1>2, <1>3
  <1>5. PICK e \in Sync!Event : e = Head(syncDown) /\ e = syncDown[1] /\ 1 \in DOMAIN syncDown
    BY <1>1, <1>2, <1>3
  <1>6. /\ Sync!Ids' = Sync!Ids /\ Sync!Ids \subseteq Sync!Id
        /\ \A i \in Sync!Id : i \in Sync!Held <=> syncHeld[i] > 0
        /\ \A i \in Sync!Id : i \in Sync!Held' <=> syncHeld'[i] > 0
        /\ Sync!Held \subseteq Sync!Id /\ Sync!Held' \subseteq Sync!Id
    BY <1>1 DEF SyncInv, SyncType, Sync!Ids, Sync!Id, Sync!Held
  <1>7. Brought(e) \subseteq Sync!Ids
    BY <1>1, <1>5 DEF SyncInv, BringsRest
  <1>8. /\ syncHeld' \in [Sync!Id -> Nat]
        /\ Sync!Held' = Sync!Held \cup Brought(e)
        /\ cache' \in {cache, Sync!Held'} /\ always' = always
    <2>1. CASE e.type = "open" /\ UNCHANGED <<syncHeld, cache, always>>
      BY <2>1 DEF SyncInv, SyncType, Brought, Sync!Held
    <2>2. CASE e.type = "init" /\ Sync!OnInit(e)
      <3>1. /\ syncHeld' = IF e.delta THEN Sync!Merge(e.ids)
                           ELSE [i \in Sync!Id |-> IF i \in e.ids THEN 1 ELSE 0]
            /\ cache' = {i \in Sync!Id : syncHeld'[i] > 0} /\ always' = always
        BY <2>2 DEF Sync!OnInit
      <3>2. Brought(e) = e.ids
        BY <2>2 DEF Brought
      <3>3. cache' = Sync!Held'
        BY <3>1 DEF Sync!Held
      <3>4. CASE e.delta
        <4>1. syncHeld' = [i \in Sync!Id |-> IF i \in e.ids /\ syncHeld[i] = 0 THEN 1
                                             ELSE syncHeld[i]]
          BY <3>1, <3>4 DEF Sync!Merge
        <4>2. /\ syncHeld' \in [Sync!Id -> Nat]
              /\ \A i \in Sync!Id : syncHeld'[i] > 0 <=> syncHeld[i] > 0 \/ i \in e.ids
          BY <4>1 DEF SyncInv, SyncType
        <4> QED
          BY <1>6, <1>7, <3>1, <3>2, <3>3, <4>2
      <3>5. CASE ~e.delta
        <4>1. Sync!Held \subseteq e.ids
          BY <1>1, <1>5, <2>2, <3>5 DEF SyncInv, BringsRest
        <4>2. /\ syncHeld' \in [Sync!Id -> Nat]
              /\ \A i \in Sync!Id : syncHeld'[i] > 0 <=> i \in e.ids
          BY <3>1, <3>5
        <4> QED
          BY <1>6, <1>7, <3>1, <3>2, <3>3, <4>1, <4>2
      <3> QED
        BY <3>4, <3>5
    <2>3. CASE e.type = "message" /\ Sync!OnMessage(e)
      <3>1. /\ syncHeld' = IF syncHeld[e.id] > 0 THEN syncHeld ELSE [syncHeld EXCEPT ![e.id] = 1]
            /\ UNCHANGED <<cache, always>>
        BY <2>3 DEF Sync!OnMessage, Sync!choice
      <3>2. Brought(e) = {e.id} /\ e.id \in Sync!Id
        BY <1>6, <1>7, <2>3 DEF Brought
      <3>3. /\ syncHeld' \in [Sync!Id -> Nat]
            /\ \A i \in Sync!Id : syncHeld'[i] > 0 <=> syncHeld[i] > 0 \/ i = e.id
        BY <3>1, <3>2 DEF SyncInv, SyncType
      <3> QED
        BY <1>6, <3>1, <3>2, <3>3
    <2> QED
      BY <1>5, <2>1, <2>2, <2>3 DEF Sync!Receive, Sync!choice
  <1>9. Sync!Held' \subseteq Sync!Ids /\ cache' \subseteq Sync!Held'
    BY <1>7, <1>8 DEF SyncInv, SyncType
  <1>10. SyncType'
    BY <1>1, <1>4, <1>6, <1>8, <1>9 DEF SyncInv, SyncType
  <1>11. \A n \in 1 .. k : \A a \in Brought(e), b \in Brought(syncDown'[n]) : a < b
    BY <1>1, <1>3, <1>4, <1>5 DEF SyncInv, BringsRest
  <1>12. \A j \in Sync!Ids : syncLog[j] \in always =>
            j \in Sync!Held' \/ \E n \in 1 .. k : j \in Brought(syncDown'[n])
    <2>1. ASSUME NEW j \in Sync!Ids, syncLog[j] \in always, j \notin Sync!Held'
          PROVE  \E n \in 1 .. k : j \in Brought(syncDown'[n])
      <3>1. PICK m \in 1 .. (k + 1) : j \in Brought(syncDown[m])
        BY <1>1, <1>3, <1>8, <2>1 DEF SyncInv, BringsRest
      <3>2. m # 1 /\ m - 1 \in 1 .. k
        BY <1>5, <1>8, <2>1, <3>1
      <3>3. syncDown'[m - 1] = syncDown[m]
        BY <1>4, <3>2
      <3> QED
        BY <3>1, <3>2, <3>3
    <2> QED
      BY <2>1
  <1>13. NoneMissing(Sync!Held)'
    <2>1. ASSUME NEW i \in Sync!Held', NEW j \in Sync!Ids, j < i, syncLog[j] \in always,
                 j \notin Sync!Held'
          PROVE  FALSE
      <3>1. i \in Brought(e)
        BY <1>8, <2>1 DEF SyncInv, NoneMissing
      <3>2. PICK n \in 1 .. k : j \in Brought(syncDown'[n])
        BY <1>12, <2>1
      <3>3. i < j
        BY <1>11, <3>1, <3>2
      <3> QED
        BY <1>7, <2>1, <3>1, <3>3 DEF Sync!Ids
    <2> QED
      BY <1>1, <1>6, <1>8, <2>1 DEF NoneMissing
  <1>14. NoneMissing(cache)'
    <2>1. CASE cache' = cache
      BY <1>1, <1>6, <1>8, <2>1 DEF SyncInv, NoneMissing
    <2>2. CASE cache' = Sync!Held'
      BY <1>13, <2>2 DEF NoneMissing
    <2> QED
      BY <1>8, <2>1, <2>2
  <1>15. HasOlder'
    BY <1>1, <1>6, <1>8 DEF SyncInv, HasOlder
  <1>16. \A m, n \in 1 .. k : m < n =>
            \A a \in Brought(syncDown'[m]), b \in Brought(syncDown'[n]) : a < b
    BY <1>1, <1>3, <1>4 DEF SyncInv, BringsRest
  <1>17. \A m, n \in 1 .. k :
            m < n /\ syncDown'[n].type = "init" => syncDown'[m].type = "open"
    BY <1>1, <1>3, <1>4 DEF SyncInv, BringsRest
  <1>18. \A n \in 1 .. k : syncDown'[n].type = "init" /\ ~syncDown'[n].delta
                           => Sync!Held' \subseteq syncDown'[n].ids
    <2>1. ASSUME NEW n \in 1 .. k, syncDown'[n].type = "init", ~syncDown'[n].delta
          PROVE  Sync!Held' \subseteq syncDown'[n].ids
      <3>1. /\ syncDown'[n] = syncDown[n + 1] /\ n + 1 \in DOMAIN syncDown /\ 1 < n + 1
        BY <1>3, <1>4
      <3>2. e.type = "open"
        BY <1>1, <1>5, <2>1, <3>1 DEF SyncInv, BringsRest
      <3>3. Sync!Held' = Sync!Held
        BY <1>8, <3>2 DEF Brought
      <3> QED
        BY <1>1, <2>1, <3>1, <3>3 DEF SyncInv, BringsRest
    <2> QED
      BY <2>1
  <1>19. \A n \in 1 .. k : Brought(syncDown'[n]) \subseteq Sync!Ids
    BY <1>1, <1>3, <1>4 DEF SyncInv, BringsRest
  <1>20. BringsRest'
    <2>1. always' \subseteq sub' /\ DOMAIN syncDown' = 1 .. k /\ always' = always
          /\ syncLog' = syncLog /\ Sync!Ids' = Sync!Ids
      BY <1>1, <1>4, <1>6, <1>8 DEF SyncInv, BringsRest
    <2> QED
      BY <1>12, <1>16, <1>17, <1>18, <1>19, <2>1 DEF BringsRest
  <1> QED
    BY <1>10, <1>13, <1>14, <1>15, <1>20 DEF SyncInv

(* The messages of an agent that was always subscribed to are all there.   *)
LEMMA SyncSafe == BrowserSpec => [](part = "sync" => Sync!NoGap)
  <1> DEFINE Inv == part = "sync" => SyncInv
  <1> USE SyncConstants
  <1>1. BrowserInit => Inv
    <2> SUFFICES ASSUME Sync!Init PROVE SyncInv
      BY DEF BrowserInit
    <2>1. Sync!Held = {} /\ Sync!Ids = {}
      BY DEF Sync!Init, Sync!Held, Sync!Ids
    <2> QED
      BY <2>1 DEF Sync!Init, SyncInv, SyncType, NoneMissing, HasOlder, BringsRest
  <1>2. Inv /\ [BrowserNext]_browserVars => Inv'
    <2> SUFFICES ASSUME part = "sync", SyncInv, Sync!Next \/ UNCHANGED syncVars
                 PROVE  SyncInv'
      BY DEF BrowserNext, browserVars
    <2>1. CASE UNCHANGED syncVars
      <3>1. /\ UNCHANGED <<syncLog, conn, since, sub, syncDown, syncHeld, cache, always>>
            /\ Sync!Held' = Sync!Held /\ Sync!Ids' = Sync!Ids
        BY <2>1 DEF syncVars, Sync!Held, Sync!Ids
      <3> QED
        BY <3>1 DEF SyncInv, SyncType, NoneMissing, HasOlder, BringsRest
    <2>2. ASSUME UNCHANGED <<syncLog, conn, since, sub, syncDown, syncHeld, always>>,
                 cache' \in {cache, {}, Sync!Held}
          PROVE  SyncInv'
      <3>1. Sync!Held' = Sync!Held /\ Sync!Ids' = Sync!Ids
        BY <2>2 DEF Sync!Held, Sync!Ids
      <3> QED
        BY <2>2, <3>1 DEF SyncInv, SyncType, NoneMissing, HasOlder, BringsRest
    <2>3. CASE Sync!Break
      <3>1. Sync!Held' = Sync!Held
        BY <2>3 DEF Sync!Break, Sync!Held
      <3> QED
        BY <2>3, <3>1, ClosedStep DEF Sync!Break, Sync!server, Sync!choice, SyncInv, SyncType
    <2>4. CASE Sync!Reload
      <3>1. /\ conn' = "closed" /\ syncDown' = <<>> /\ UNCHANGED <<syncLog, since, cache, always>>
            /\ syncHeld' = [i \in Sync!Id |-> IF i \in cache THEN 1 ELSE 0]
        BY <2>4 DEF Sync!Reload, Sync!server
      <3>2. cache \subseteq Sync!Id
        BY DEF SyncInv, SyncType, Sync!Held
      <3>3. Sync!Held' = cache
        BY <3>1, <3>2 DEF Sync!Held
      <3>4. syncHeld' \in [Sync!Id -> Nat]
        BY <3>1
      <3> QED
        BY <3>1, <3>3, <3>4, ClosedStep
    <2>5. CASE Sync!Persist \/ Sync!CacheLost \/ \E s \in SUBSET Agent : Sync!Select(s)
      BY <2>2, <2>5 DEF Sync!Persist, Sync!CacheLost, Sync!Select, Sync!server, Sync!wire,
                        Sync!choice
    <2>6. CASE Sync!Next
      BY <2>3, <2>4, <2>5, <2>6, AcceptStep, PostStep, ConnectStep, SubscribeStep,
         ReceiveSyncStep DEF Sync!Next
    <2> QED
      BY <2>1, <2>6
  <1>3. Inv => (part = "sync" => Sync!NoGap)
    <2> SUFFICES ASSUME SyncInv PROVE Sync!NoGap
      OBVIOUS
    <2>1. Sync!Held \in SUBSET Sync!Id
      BY DEF Sync!Held
    <2>2. Sync!Newest(Sync!Held) \in Sync!Held \cup {0}
      BY <2>1, NewestOf
    <2> QED
      BY <2>2 DEF SyncInv, NoneMissing, Sync!NoGap, Sync!Ids
  <1> QED
    BY <1>1, <1>2, <1>3, PTL DEF BrowserSpec

-----------------------------------------------------------------------------
(* The selection                                                           *)

(* Whatever may be selected: agents, and members of teams.                 *)
Selectable == Agent \cup UNION Teams

ChoiceType ==
    /\ roster \subseteq Agent /\ known \subseteq Agent
    /\ selectionDown \in Seq(Choice!Event) /\ selectionUp \in Seq(SUBSET Selectable)
    /\ chosenAgents \subseteq Selectable /\ savedAgents \subseteq Selectable
    /\ before = <<>> \/ before \in {<<s>> : s \in SUBSET Selectable}

(* What the server sends once it has read what is under way to it.         *)
Expected == IF selectionUp = <<>> THEN selectionSub ELSE selectionUp[Len(selectionUp)]

(* That is all that is selected, or the subscription is still to be sent.  *)
WillBeHeard ==
    selectionConn = "open" /\ ~importing => chosenAgents \ silent \subseteq Expected

ChoiceInv == ChoiceType /\ WillBeHeard /\ Choice!GoneAreForgotten

(* Once emitted, the selection is what the server will send.               *)
LEMMA EmitStep ==
    ASSUME ChoiceInv, Choice!Emit, chosenAgents' \subseteq Selectable,
           UNCHANGED <<selectionConn, selectionSub>>
    PROVE  selectionUp' \in Seq(SUBSET Selectable) /\ WillBeHeard'
  <1>1. CASE selectionConn = "open"
    <2>1. selectionUp' = Append(selectionUp, chosenAgents') /\ silent' = {}
      BY <1>1 DEF Choice!Emit
    <2>2. /\ selectionUp' \in Seq(SUBSET Selectable) /\ selectionUp' # <<>>
          /\ selectionUp'[Len(selectionUp')] = chosenAgents'
      BY <2>1 DEF ChoiceInv, ChoiceType
    <2> QED
      BY <2>1, <2>2 DEF WillBeHeard, Expected
  <1>2. CASE selectionConn # "open"
    BY <1>2 DEF Choice!Emit, ChoiceInv, ChoiceType, WillBeHeard
  <1> QED
    BY <1>1, <1>2

(* Who is put in is known, or remembered as put back.                      *)
LEMMA BecomesStep ==
    ASSUME ChoiceInv, NEW s, NEW back, Choice!Becomes(s, back),
           s \subseteq chosenAgents \cup known \cup back, UNCHANGED <<known, started>>
    PROVE  Choice!GoneAreForgotten' /\ chosenAgents' = s
  BY DEF Choice!Becomes, Choice!GoneAreForgotten, ChoiceInv

(* A selection that shrinks, or of which more is added in silence, is      *)
(* heard as it was.                                                        *)
LEMMA QuietStep ==
    ASSUME ChoiceInv, chosenAgents' \ silent' \subseteq chosenAgents \ silent,
           UNCHANGED <<selectionConn, selectionSub, selectionUp>>, importing => importing'
    PROVE  WillBeHeard'
  BY DEF ChoiceInv, WillBeHeard, Expected

(* A click that emits.                                                     *)
LEMMA ChangesStep ==
    ASSUME ChoiceInv, NEW s \in SUBSET Selectable, NEW back, Choice!Changes(s, back), Choice!Act,
           s \subseteq chosenAgents \cup known \cup back
    PROVE  /\ selectionUp' \in Seq(SUBSET Selectable) /\ WillBeHeard' /\ Choice!GoneAreForgotten'
           /\ chosenAgents' = s /\ UNCHANGED <<roster, known, selectionDown>>
  <1>1. /\ UNCHANGED <<roster, selectionSub, selectionConn, selectionDown, known, started>>
        /\ Choice!Becomes(s, back) /\ Choice!Emit
    BY DEF Choice!Act, Choice!server, Choice!Changes
  <1>2. Choice!GoneAreForgotten' /\ chosenAgents' = s
    BY <1>1, BecomesStep
  <1>3. selectionUp' \in Seq(SUBSET Selectable) /\ WillBeHeard'
    BY <1>1, <1>2, EmitStep
  <1> QED
    BY <1>1, <1>2, <1>3

(* A click that emits later.                                               *)
LEMMA LaterStep ==
    ASSUME ChoiceInv, NEW s \in SUBSET Selectable, Choice!Later(s), Choice!Act,
           s \subseteq chosenAgents \cup known
    PROVE  ChoiceInv'
  <1>1. /\ UNCHANGED <<roster, selectionSub, selectionConn, selectionDown, known, started,
                       selectionUp, savedAgents, before>>
        /\ Choice!Becomes(s, {}) /\ importing'
    BY DEF Choice!Act, Choice!server, Choice!Later
  <1>2. Choice!GoneAreForgotten' /\ chosenAgents' = s
    BY <1>1, BecomesStep
  <1> QED
    BY <1>1, <1>2 DEF ChoiceInv, ChoiceType, WillBeHeard

(* A click that leaves the selection, or focuses on part of what is known. *)
LEMMA FocusStep ==
    ASSUME ChoiceInv, NEW s \in SUBSET known, Choice!Act, UNCHANGED <<savedAgents, importing>>,
           Choice!Focus(s) \/ Choice!Retarget(s)
    PROVE  ChoiceInv'
  <1>1. UNCHANGED <<roster, selectionSub, selectionConn, selectionDown, known, started>>
    BY DEF Choice!Act, Choice!server
  <1>2. CASE UNCHANGED <<chosenAgents, before, selectionUp, silent, revived>>
    BY <1>1, <1>2 DEF ChoiceInv, ChoiceType, WillBeHeard, Expected, Choice!GoneAreForgotten
  <1>3. CASE Choice!Changes(s, {}) /\ (UNCHANGED before \/ before' = <<chosenAgents>>)
    <2>1. s \subseteq Selectable
      BY DEF ChoiceInv, ChoiceType, Selectable
    <2>2. /\ selectionUp' \in Seq(SUBSET Selectable) /\ WillBeHeard' /\ Choice!GoneAreForgotten'
          /\ chosenAgents' = s
      BY <1>3, <2>1, ChangesStep
    <2> QED
      BY <1>1, <1>3, <2>1, <2>2 DEF ChoiceInv, ChoiceType
  <1> QED
    BY <1>2, <1>3 DEF Choice!Focus, Choice!Retarget, Choice!history

(* The clicks.                                                             *)
LEMMA SavesStep ==
    ASSUME ChoiceInv, NEW s \in SUBSET Selectable, NEW back, Choice!Saves(s, back), Choice!Act,
           s \subseteq chosenAgents \cup known \cup back
    PROVE  ChoiceInv'
  <1>1. Choice!Changes(s, back) /\ savedAgents' = s /\ UNCHANGED before
    BY DEF Choice!Saves
  <1>2. /\ selectionUp' \in Seq(SUBSET Selectable) /\ WillBeHeard' /\ Choice!GoneAreForgotten'
        /\ chosenAgents' = s /\ UNCHANGED <<roster, known, selectionDown>>
    BY <1>1, ChangesStep
  <1> QED
    BY <1>1, <1>2 DEF ChoiceInv, ChoiceType

(* A click on a team, on all or on an agent changes the choice and says so.*)
LEMMA ToggleStep ==
    ASSUME ChoiceInv,
           Choice!ToggleTeam \/ Choice!ToggleAll \/ \E a \in Agent : Choice!ToggleAgent(a)
    PROVE  ChoiceInv'
  <1>1. known \subseteq Selectable /\ chosenAgents \subseteq Selectable
    BY DEF ChoiceInv, ChoiceType, Selectable
  <1>2. CASE Choice!ToggleTeam
    <2>1. PICK t \in Teams \cup {known \ UNION Teams} : Choice!Saves(Choice!Toggled(t), t)
      BY <1>2 DEF Choice!ToggleTeam
    <2>2. t \subseteq Selectable
      BY <1>1, <2>1 DEF Selectable
    <2>3. /\ Choice!Toggled(t) \in SUBSET Selectable
          /\ Choice!Toggled(t) \subseteq chosenAgents \cup known \cup t
      BY <1>1, <2>2 DEF Choice!Toggled
    <2> QED
      BY <1>2, <2>1, <2>3, SavesStep DEF Choice!ToggleTeam
  <1>3. CASE Choice!ToggleAll
    <2>1. PICK s \in SUBSET known : Choice!Saves(s, {})
      BY <1>3 DEF Choice!ToggleAll
    <2> QED
      BY <1>1, <1>3, <2>1, SavesStep DEF Choice!ToggleAll
  <1>4. ASSUME NEW a \in Agent, Choice!ToggleAgent(a) PROVE ChoiceInv'
    <2>1. /\ Choice!Toggled({a}) \in SUBSET Selectable
          /\ Choice!Toggled({a}) \subseteq chosenAgents \cup known \cup {}
      BY <1>1, <1>4 DEF Choice!Toggled, Choice!ToggleAgent
    <2> QED
      BY <1>4, <2>1, SavesStep DEF Choice!ToggleAgent
  <1> QED
    BY <1>2, <1>3, <1>4

(* Leaving the focus gives back the choice that was there before it.       *)
LEMMA UnfocusStep ==
    ASSUME ChoiceInv, Choice!Unfocus
    PROVE  ChoiceInv'
  <1>1. /\ before # <<>> /\ before' = <<>> /\ savedAgents' = chosenAgents'
        /\ Choice!Changes(before[1], before[1]) /\ Choice!Act
    BY DEF Choice!Unfocus
  <1>2. before[1] \in SUBSET Selectable
    BY <1>1 DEF ChoiceInv, ChoiceType
  <1>3. /\ selectionUp' \in Seq(SUBSET Selectable) /\ WillBeHeard' /\ Choice!GoneAreForgotten'
        /\ chosenAgents' = before[1] /\ UNCHANGED <<roster, known, selectionDown>>
    BY <1>1, <1>2, ChangesStep
  <1> QED
    BY <1>1, <1>2, <1>3 DEF ChoiceInv, ChoiceType

(* Opening a message adds its agent to what is chosen.                     *)
LEMMA ShowMessageStep ==
    ASSUME ChoiceInv, NEW a \in Agent, Choice!ShowMessage(a)
    PROVE  ChoiceInv'
  <1>1. /\ Choice!Becomes(chosenAgents \cup {a}, {a})
        /\ silent' = silent \cup ({a} \ chosenAgents)
        /\ UNCHANGED <<selectionUp, savedAgents, before, importing>>
        /\ UNCHANGED <<roster, selectionSub, selectionConn, selectionDown, known, started>>
    BY DEF Choice!ShowMessage, Choice!Act, Choice!server
  <1>2. Choice!GoneAreForgotten' /\ chosenAgents' = chosenAgents \cup {a}
    BY <1>1, BecomesStep
  <1>3. WillBeHeard'
    BY <1>1, <1>2, QuietStep
  <1> QED
    BY <1>1, <1>2, <1>3 DEF ChoiceInv, ChoiceType, Selectable

(* No click leaves a choice the server will not hear of.                   *)
LEMMA ClickStep ==
    ASSUME ChoiceInv, Choice!Click
    PROVE  ChoiceInv'
  <1>1. known \subseteq Selectable /\ chosenAgents \subseteq Selectable
    BY DEF ChoiceInv, ChoiceType, Selectable
  <1>2. CASE Choice!ClearFilter
    BY <1>1, <1>2, LaterStep DEF Choice!ClearFilter
  <1>3. ASSUME NEW a \in Agent, Choice!Mention(a) \/ Choice!OpenThread(a) PROVE ChoiceInv'
    <2>1. PICK s \in SUBSET (chosenAgents \cup known) : Choice!Later(s) /\ Choice!Act
      BY <1>3 DEF Choice!Mention, Choice!OpenThread
    <2> QED
      BY <1>1, <2>1, LaterStep
  <1>4. ASSUME NEW a \in Agent, Choice!FocusOn(a) PROVE ChoiceInv'
    BY <1>4, FocusStep DEF Choice!FocusOn
  <1>5. ASSUME NEW s \in SUBSET Agent, Choice!Target(s) PROVE ChoiceInv'
    BY <1>5, FocusStep DEF Choice!Target
  <1>6. ASSUME NEW r \in {"dashboard", "search", "watch"}, Choice!Go(r) PROVE ChoiceInv'
    BY <1>6 DEF Choice!Go, Choice!Act, Choice!server, Choice!history, ChoiceInv, ChoiceType,
                WillBeHeard, Expected, Choice!GoneAreForgotten
  <1> QED
    BY <1>2, <1>3, <1>4, <1>5, <1>6, ToggleStep, UnfocusStep, ShowMessageStep DEF Choice!Click

(* The server, and the wire.                                               *)
LEMMA ServerStep ==
    ASSUME ChoiceInv,
           Choice!Accept \/ Choice!SetSubscription \/ Choice!ChangeRoster \/ Choice!Break
    PROVE  ChoiceInv'
  <1>1. UNCHANGED <<known, started, chosenAgents, savedAgents, before, importing, silent, revived>>
    BY DEF Choice!Accept, Choice!SetSubscription, Choice!ChangeRoster, Choice!Break, Choice!tab,
           Choice!history
  <1>2. Choice!GoneAreForgotten'
    BY <1>1 DEF ChoiceInv, Choice!GoneAreForgotten
  <1>3. CASE Choice!Accept
    <2>1. [type |-> "init", agents |-> roster] \in Choice!Event
      BY DEF ChoiceInv, ChoiceType, Choice!Event
    <2> QED
      BY <1>1, <1>2, <1>3, <2>1 DEF Choice!Accept, ChoiceInv, ChoiceType, WillBeHeard
  <1>4. CASE Choice!SetSubscription
    <2>1. /\ selectionUp # <<>> /\ selectionUp' = Tail(selectionUp)
          /\ selectionSub' = IF Head(selectionUp) = {} THEN Agent ELSE Head(selectionUp)
          /\ UNCHANGED <<roster, selectionConn, selectionDown>>
      BY <1>4 DEF Choice!SetSubscription
    <2>2. /\ selectionUp' \in Seq(SUBSET Selectable)
          /\ selectionUp' # <<>> => selectionUp'[Len(selectionUp')] = selectionUp[Len(selectionUp)]
          /\ selectionUp' = <<>> => Head(selectionUp) = selectionUp[Len(selectionUp)]
      <3>1. selectionUp \in Seq(SUBSET Selectable)
        BY DEF ChoiceInv, ChoiceType
      <3>2. /\ selectionUp' \in Seq(SUBSET Selectable)
            /\ Len(selectionUp') = Len(selectionUp) - 1 /\ Len(selectionUp) > 0
        BY <2>1, <3>1
      <3>3. selectionUp' # <<>> => selectionUp'[Len(selectionUp')] = selectionUp[Len(selectionUp)]
        BY <2>1, <3>1, <3>2
      <3>4. selectionUp' = <<>> => Head(selectionUp) = selectionUp[Len(selectionUp)]
        BY <2>1, <3>1, <3>2
      <3> QED
        BY <3>2, <3>3, <3>4
    <2>3. Expected \subseteq Expected'
      BY <2>1, <2>2 DEF Expected
    <2>4. WillBeHeard'
      BY <1>1, <2>1, <2>3 DEF ChoiceInv, WillBeHeard
    <2> QED
      BY <1>1, <1>2, <2>1, <2>2, <2>4 DEF ChoiceInv, ChoiceType
  <1>5. CASE Choice!ChangeRoster
    <2>1. /\ roster' \subseteq Agent /\ UNCHANGED <<selectionSub, selectionConn, selectionUp>>
          /\ \E e \in Choice!Event : Choice!Broadcast(e)
      BY <1>5 DEF Choice!ChangeRoster, Choice!Event, ChoiceInv, ChoiceType
    <2>2. selectionDown' \in Seq(Choice!Event)
      BY <2>1 DEF Choice!Broadcast, ChoiceInv, ChoiceType
    <2>3. WillBeHeard'
      BY <1>1, <2>1 DEF ChoiceInv, WillBeHeard, Expected
    <2> QED
      BY <1>1, <1>2, <2>1, <2>2, <2>3 DEF ChoiceInv, ChoiceType
  <1>6. CASE Choice!Break
    BY <1>1, <1>2, <1>6 DEF Choice!Break, Choice!server, ChoiceInv, ChoiceType, WillBeHeard
  <1> QED
    BY <1>3, <1>4, <1>5, <1>6

(* The browser opens its socket, has its imports or is loaded again.       *)
LEMMA TabStep ==
    ASSUME ChoiceInv, Choice!Open \/ Choice!Imported \/ Choice!Load
    PROVE  ChoiceInv'
  <1>1. CASE Choice!Open
    <2>1. /\ selectionUp' = Append(selectionUp, chosenAgents) /\ silent' = {}
          /\ UNCHANGED <<roster, selectionDown, known, started, chosenAgents, savedAgents, before,
                         revived>>
      BY <1>1 DEF Choice!Open, Choice!server, Choice!tab
    <2>2. /\ selectionUp' \in Seq(SUBSET Selectable) /\ selectionUp' # <<>>
          /\ selectionUp'[Len(selectionUp')] = chosenAgents
      BY <2>1 DEF ChoiceInv, ChoiceType
    <2> QED
      BY <2>1, <2>2 DEF ChoiceInv, ChoiceType, WillBeHeard, Expected, Choice!GoneAreForgotten
  <1>2. CASE Choice!Imported
    <2>1. /\ UNCHANGED <<roster, selectionSub, selectionConn, selectionDown, known, started,
                         chosenAgents, savedAgents, before, revived>>
          /\ Choice!Emit
      BY <1>2 DEF Choice!Imported, Choice!server
    <2>2. selectionUp' \in Seq(SUBSET Selectable) /\ WillBeHeard'
      BY <2>1, EmitStep DEF ChoiceInv, ChoiceType
    <2> QED
      BY <2>1, <2>2 DEF ChoiceInv, ChoiceType, Choice!GoneAreForgotten
  <1>3. CASE Choice!Load
    <2>1. /\ UNCHANGED <<roster, selectionSub, savedAgents>> /\ selectionConn' = "closed"
          /\ selectionDown' = <<>> /\ selectionUp' = <<>> /\ known' = {} /\ started' = FALSE
          /\ before' = <<>> /\ chosenAgents' \subseteq Selectable
      BY <1>3 DEF Choice!Load, Choice!server, ChoiceInv, ChoiceType, Selectable
    <2> QED
      BY <2>1 DEF ChoiceInv, ChoiceType, WillBeHeard, Choice!GoneAreForgotten
  <1> QED
    BY <1>1, <1>2, <1>3

(* An event takes agents out of the selection, and an init may put in      *)
(* those it brings.                                                        *)
LEMMA ReceiveStep ==
    ASSUME ChoiceInv, Choice!Receive
    PROVE  ChoiceInv'
  <1> DEFINE e == Head(selectionDown)
  <1>1. /\ selectionDown # <<>> /\ selectionDown' = Tail(selectionDown)
        /\ UNCHANGED <<roster, selectionSub, selectionConn, savedAgents, before, importing>>
    BY DEF Choice!Receive, Choice!server
  <1>2. selectionDown' \in Seq(Choice!Event) /\ e \in Choice!Event
    BY <1>1 DEF ChoiceInv, ChoiceType
  <1>3. CASE e.type = "init" /\ Choice!OnInit(e)
    <2>1. /\ known' = e.agents /\ e.agents \subseteq Agent /\ Choice!Emit
          /\ chosenAgents' \subseteq e.agents
      BY <1>2, <1>3 DEF Choice!OnInit, Choice!Restored, Choice!Event
    <2>2. selectionUp' \in Seq(SUBSET Selectable) /\ WillBeHeard'
      BY <1>1, <2>1, EmitStep DEF Selectable
    <2> QED
      BY <1>1, <1>2, <2>1, <2>2 DEF ChoiceInv, ChoiceType, Choice!GoneAreForgotten, Selectable
  <1>4. CASE e.type = "agents_update" /\ Choice!OnAgentsUpdate(e)
    <2>1. /\ known' = e.agents /\ e.agents \subseteq Agent
          /\ chosenAgents' = chosenAgents \cap e.agents
          /\ (UNCHANGED <<chosenAgents, selectionUp, silent>>) \/ Choice!Emit
      BY <1>2, <1>4 DEF Choice!OnAgentsUpdate, Choice!Pruned, Choice!Event
    <2>2. selectionUp' \in Seq(SUBSET Selectable) /\ WillBeHeard'
      BY <1>1, <2>1, EmitStep, QuietStep DEF ChoiceInv, ChoiceType
    <2> QED
      BY <1>1, <1>2, <2>1, <2>2 DEF ChoiceInv, ChoiceType, Choice!GoneAreForgotten
  <1>5. CASE e.type = "agent_destroyed" /\ Choice!OnAgentDestroyed(e)
    <2>1. /\ known' = known \ {e.agent} /\ chosenAgents' = chosenAgents \ {e.agent}
          /\ revived' = revived \cap chosenAgents' /\ UNCHANGED <<started, selectionUp, silent>>
      BY <1>5 DEF Choice!OnAgentDestroyed, Choice!Becomes
    <2>2. WillBeHeard'
      BY <1>1, <2>1, QuietStep
    <2> QED
      BY <1>1, <1>2, <2>1, <2>2 DEF ChoiceInv, ChoiceType, Choice!GoneAreForgotten
  <1>6. CASE e.type = "agent_update" /\ Choice!OnAgentUpdate(e)
    <2>1. /\ known' = known \cup {e.agent} /\ e.agent \in Agent
          /\ UNCHANGED <<started, chosenAgents, revived, selectionUp, silent>>
      BY <1>2, <1>6 DEF Choice!OnAgentUpdate, Choice!Event
    <2>2. WillBeHeard'
      BY <1>1, <2>1, QuietStep
    <2> QED
      BY <1>1, <1>2, <2>1, <2>2 DEF ChoiceInv, ChoiceType, Choice!GoneAreForgotten
  <1> QED
    BY <1>3, <1>4, <1>5, <1>6 DEF Choice!Receive

(* What is selected is heard and known, but for the exceptions named.      *)
LEMMA ChoiceSafe == BrowserSpec => [](part = "selection" => Choice!ViewIsTrue)
  <1> DEFINE Inv == part = "selection" => ChoiceInv
  <1>1. BrowserInit => Inv
    <2> SUFFICES ASSUME Choice!Init PROVE ChoiceInv
      BY DEF BrowserInit
    <2> QED
      BY DEF Choice!Init, ChoiceInv, ChoiceType, WillBeHeard, Choice!GoneAreForgotten
  <1>2. Inv /\ [BrowserNext]_browserVars => Inv'
    <2> SUFFICES ASSUME part = "selection", ChoiceInv, Choice!Next \/ UNCHANGED selectionVars
                 PROVE  ChoiceInv'
      BY DEF BrowserNext, browserVars
    <2>1. CASE UNCHANGED selectionVars
      BY <2>1 DEF selectionVars, ChoiceInv, ChoiceType, WillBeHeard, Expected,
                  Choice!GoneAreForgotten
    <2>2. CASE Choice!Next
      BY <2>2, ServerStep, TabStep, ReceiveStep, ClickStep DEF Choice!Next
    <2> QED
      BY <2>1, <2>2
  <1>3. Inv => (part = "selection" => Choice!ViewIsTrue)
    BY DEF ChoiceInv, WillBeHeard, Expected, Choice!ViewIsTrue, Choice!SelectedAreHeard,
           Choice!Quiet
  <1> QED
    BY <1>1, <1>2, <1>3, PTL DEF BrowserSpec

(* The watermark of the cache never passes a message that is not held, and *)
(* what is selected is sent and known (NoGap), across lost events, page    *)
(* loads, a lost cache and changes of the roster (state.ts:119-221,        *)
(* connection.ts:48-99, sidebar.ts, search.ts:350-355).                    *)
THEOREM DashboardHasNoGap == BrowserSpec => []NoGap
  <1>1. (part = "sync" => Sync!NoGap) /\ (part = "selection" => Choice!ViewIsTrue) <=> NoGap
    BY DEF NoGap
  <1> QED
    BY <1>1, SyncSafe, ChoiceSafe, PTL

-----------------------------------------------------------------------------
(* The chat feed                                                           *)

(* The messages of s.                                                      *)
RowsOf(s) == {i \in DOMAIN feedLog : feedLog[i] \in s}

(* A page of the messages of s.                                            *)
IsOf(p, s) == p \in Seq(Nat) /\ Feed!Range(p) \subseteq RowsOf(s)

(* Is a first page of the selection on its way?                            *)
Reloads == ~Feed!Idle /\ loading.before = 0

(* The feed and the fetch are of the selection, unless the fetch of the    *)
(* last one was dropped.                                                   *)
FeedType ==
    /\ feedLog \in Seq(Agent) /\ Len(feedLog) <= MaxMessage /\ feedSelected \subseteq Agent
    /\ ~Feed!Idle => loading = [agents |-> loading.agents, before |-> loading.before,
                                page |-> loading.page, more |-> loading.more]
    /\ ~dropped => /\ IsOf(messages, feedSelected)
                   /\ ~Feed!Idle => /\ loading.agents = feedSelected
                                    /\ loading.before \in 0 .. MaxMessage
                                    /\ loading.page # None => IsOf(loading.page, feedSelected)

(* What is not fetched again, or on its way, has the newest messages.      *)
HasNewest ==
    feedConnected /\ ~dropped /\ ~refetch =>
        /\ ~Reloads => Feed!Range(Feed!Page(feedSelected, 0)) \subseteq Feed!Range(messages)
        /\ Reloads /\ loading.page # None => loading.page = Feed!Page(feedSelected, 0)

(* What is not rendered again, or fetched, is shown.                       *)
IsShown == ~render /\ ~dropped /\ ~Reloads => shown.ids = Feed!Range(messages)

FeedInv == FeedType /\ HasNewest /\ IsShown

(* A set of numbers has a least.                                           *)
LEMMA LeastOf ==
    ASSUME NEW S \in SUBSET Nat, S # {}
    PROVE  \E n \in S : \A m \in S : n <= m
  <1>1. PICK n \in S : \A m \in S : ~ (<<m, n>> \in OpToRel(<, Nat))
    BY NatLessThanWellFounded, WFMin
  <1>2. \A m \in S : ~(m < n)
    BY <1>1 DEF OpToRel
  <1> QED
    BY <1>2

(* A finite set of numbers has an element of every rank.                   *)
LEMMA RankExists ==
    ASSUME NEW N \in Nat, NEW S, IsFiniteSet(S), \A i \in S : i \in Nat /\ i <= N,
           NEW n \in Nat, 1 <= n, n <= Cardinality(S)
    PROVE  \E i \in S : Cardinality({j \in S : j >= i}) = n
  <1> DEFINE From(i) == {j \in S : j >= i}
             c(i) == Cardinality(From(i))
             Below == {i \in Nat : c(i) < n}
  <1>1. Cardinality(S) \in Nat /\ \A i \in Nat : c(i) \in Nat
    <2>1. ASSUME NEW i \in Nat PROVE c(i) \in Nat
      <3>1. From(i) \in SUBSET S
        OBVIOUS
      <3> HIDE DEF From
      <3> QED
        BY <3>1, FS_Subset, FS_CardinalityType
    <2> QED
      BY <2>1, FS_CardinalityType
  <1>2. c(N + 1) = 0
    <2>1. \A j \in S : ~(j >= N + 1)
      OBVIOUS
    <2>2. From(N + 1) = {}
      BY <2>1
    <2> QED
      BY <2>2, FS_EmptySet
  <1>3. c(0) = Cardinality(S)
    <2>1. \A j \in S : j >= 0
      OBVIOUS
    <2>2. From(0) = S
      BY <2>1
    <2> QED
      BY <2>2
  <1>4. \A i \in Nat : c(i) = IF i \in S THEN c(i + 1) + 1 ELSE c(i + 1)
    <2> SUFFICES ASSUME NEW i \in Nat
                 PROVE  c(i) = IF i \in S THEN c(i + 1) + 1 ELSE c(i + 1)
      OBVIOUS
    <2>1. \A j \in S : j >= i <=> j >= i + 1 \/ j = i
      OBVIOUS
    <2>2. CASE i \in S
      <3>1. From(i) = From(i + 1) \cup {i}
        BY <2>1, <2>2
      <3>2. i \notin From(i + 1) /\ From(i + 1) \in SUBSET S
        OBVIOUS
      <3> HIDE DEF From
      <3> QED
        BY <2>2, <3>1, <3>2, FS_Subset, FS_AddElement
    <2>3. CASE i \notin S
      <3>1. From(i) = From(i + 1)
        BY <2>1, <2>3
      <3> QED
        BY <2>3, <3>1
    <2> QED
      BY <2>2, <2>3
  <1> HIDE DEF c
  <1>5. N + 1 \in Below
    BY <1>2
  <1>6. PICK m \in Below : \A k \in Below : m <= k
    <2>1. Below \in SUBSET Nat
      OBVIOUS
    <2> HIDE DEF Below
    <2> QED
      BY <1>5, <2>1, LeastOf
  <1>7. m # 0
    BY <1>1, <1>3, <1>6
  <1>8. PICK k \in Nat : m = k + 1 /\ c(k) >= n /\ c(k + 1) < n
    <2>1. m - 1 \in Nat /\ m = (m - 1) + 1 /\ ~(m <= m - 1)
      BY <1>6, <1>7
    <2>2. c(m - 1) \in Nat /\ ~(c(m - 1) < n)
      BY <1>1, <1>6, <2>1
    <2> QED
      BY <1>6, <2>1, <2>2
  <1>9. k \in S /\ c(k) = n
    BY <1>1, <1>4, <1>8
  <1> QED
    BY <1>9 DEF c

(* Its elements can so be listed from the greatest on.                     *)
LEMMA ListIsOfSet ==
    ASSUME NEW N \in Nat, NEW S, IsFiniteSet(S), \A i \in S : i \in Nat /\ i <= N
    PROVE  Feed!NewestFirstOf(S) \in Seq(S)
  <1> DEFINE Rank(i) == Cardinality({j \in S : j >= i})
             T == [n \in 1 .. Cardinality(S) |-> CHOOSE i \in S : Rank(i) = n]
  <1>1. Feed!NewestFirstOf(S) = T
    BY DEF Feed!NewestFirstOf, Feed!Cardinality, Cardinality
  <1>2. Cardinality(S) \in Nat
    BY FS_CardinalityType
  <1>3. ASSUME NEW n \in 1 .. Cardinality(S) PROVE (CHOOSE i \in S : Rank(i) = n) \in S
    <2>1. n \in Nat /\ 1 <= n /\ n <= Cardinality(S)
      BY <1>2
    <2>2. \E i \in S : Rank(i) = n
      BY <2>1, RankExists
    <2> HIDE DEF Rank
    <2> QED
      BY <2>2
  <1>4. T \in [1 .. Cardinality(S) -> S]
    <2> HIDE DEF Rank
    <2> QED
      BY <1>3
  <1> HIDE DEF T
  <1> QED
    BY <1>1, <1>2, <1>4

(* A page has rows of the threads asked for.                               *)
LEMMA PageIsOf ==
    ASSUME FeedType, NEW s, NEW b
    PROVE  IsOf(Feed!Page(s, b), s)
  <1> DEFINE S == {i \in DOMAIN feedLog : feedLog[i] \in s /\ (b # 0 => i < b)}
             T == Feed!Thread(s, b)
             k == Feed!Min({PageSize, Len(T)})
  <1>1. /\ Len(feedLog) \in Nat
        /\ \A i \in S : i \in Nat /\ i <= Len(feedLog) /\ i \in RowsOf(s)
    BY DEF FeedType, RowsOf
  <1>2. IsFiniteSet(S)
    <2>1. IsFiniteSet(1 .. Len(feedLog))
      BY <1>1, FS_Interval
    <2>2. S \subseteq DOMAIN feedLog /\ DOMAIN feedLog = 1 .. Len(feedLog)
      BY DEF FeedType
    <2> HIDE DEF S
    <2> QED
      BY <2>1, <2>2, FS_Subset
  <1>3. T \in Seq(S)
    <2>1. Feed!NewestFirstOf(S) \in Seq(S)
      <3> HIDE DEF S
      <3> QED
        BY <1>1, <1>2, ListIsOfSet
    <2> QED
      BY <2>1 DEF Feed!Thread
  <1>4. Len(T) \in Nat /\ k \in Nat /\ k <= Len(T)
    <2>1. Len(T) \in Nat /\ PageSize \in Nat
      BY <1>3, BrowserAssumption DEF Feed!DashboardFeedAssumption
    <2> HIDE DEF T
    <2> QED
      BY <2>1 DEF Feed!Min
  <1>5. Feed!Page(s, b) = SubSeq(T, 1, k)
    BY DEF Feed!Page
  <1> HIDE DEF S, T, k
  <1>6. SubSeq(T, 1, k) \in Seq(S) /\ Len(SubSeq(T, 1, k)) \in Nat
    BY <1>3, <1>4
  <1> QED
    BY <1>1, <1>5, <1>6 DEF IsOf, Feed!Range

(* The facts about the constants that the proofs use.                      *)
LEMMA FeedConstants == MaxMessage \in Nat /\ 0 \in 0 .. MaxMessage
  BY BrowserAssumption DEF Feed!DashboardFeedAssumption

(* A fetch is not None.                                                    *)
LEMMA FetchIsSome ==
    ASSUME NEW s \in SUBSET Agent, NEW b \in 0 .. MaxMessage,
           NEW p \in {None} \cup Seq(Feed!Id), NEW m \in BOOLEAN
    PROVE  [agents |-> s, before |-> b, page |-> p, more |-> m] # None
  <1>1. [agents |-> s, before |-> b, page |-> p, more |-> m] \in Feed!Fetch
    BY DEF Feed!Fetch
  <1> QED
    BY <1>1, BrowserAssumption DEF Feed!DashboardFeedAssumption

(* So is a request, without a page.                                        *)
LEMMA RequestIsSome ==
    ASSUME NEW s \in SUBSET Agent
    PROVE  /\ [agents |-> s, before |-> 0, page |-> None, more |-> FALSE] # None
           /\ \A b \in 1 .. MaxMessage :
                 [agents |-> s, before |-> b, page |-> None, more |-> FALSE] # None
  <1>1. 0 \in 0 .. MaxMessage /\ 1 .. MaxMessage \subseteq 0 .. MaxMessage
    BY FeedConstants
  <1>2. None \in {None} \cup Seq(Feed!Id) /\ FALSE \in BOOLEAN
    OBVIOUS
  <1> QED
    BY <1>1, <1>2, FetchIsSome, Zenon

(* The rows grow and stay what they are.                                   *)
LEMMA RowsGrow ==
    ASSUME FeedType, NEW a \in Agent, feedLog' = Append(feedLog, a), NEW s
    PROVE  /\ RowsOf(s) \subseteq RowsOf(s)'
           /\ a \notin s => Feed!Page(s, 0)' = Feed!Page(s, 0)
  <1>1. /\ DOMAIN feedLog \subseteq DOMAIN feedLog'
        /\ \A i \in DOMAIN feedLog : feedLog'[i] = feedLog[i]
        /\ \A i \in DOMAIN feedLog' : i \in DOMAIN feedLog \/ feedLog'[i] = a
    BY DEF FeedType
  <1>2. ASSUME a \notin s
        PROVE  {i \in DOMAIN feedLog' : feedLog'[i] \in s /\ (0 # 0 => i < 0)}
                 = {i \in DOMAIN feedLog : feedLog[i] \in s /\ (0 # 0 => i < 0)}
    BY <1>1, <1>2
  <1>3. a \notin s => Feed!Thread(s, 0)' = Feed!Thread(s, 0)
    BY <1>2 DEF Feed!Thread
  <1> QED
    BY <1>1, <1>3 DEF RowsOf, Feed!Page

(* The feed is emptied, and fetched unless a fetch is under way.           *)
LEMMA FeedLoadStep ==
    ASSUME FeedInv, Feed!LoadInitialFeed, UNCHANGED <<feedLog, shown>>, feedSelected' \subseteq Agent
    PROVE  FeedInv'
  <1>1. CASE Feed!Idle
    <2>1. /\ messages' = <<>> /\ ~dropped'
          /\ loading' = [agents |-> feedSelected', before |-> 0, page |-> None, more |-> FALSE]
      BY <1>1 DEF Feed!LoadInitialFeed, Feed!Request
    <2>2. loading' # None
      BY <2>1, RequestIsSome
    <2>3. IsOf(messages, feedSelected)'
      BY <2>1 DEF IsOf, Feed!Range
    <2> QED
      BY <2>1, <2>2, <2>3, FeedConstants
         DEF FeedInv, FeedType, HasNewest, IsShown, Reloads, Feed!Idle
  <1>2. CASE ~Feed!Idle
    BY <1>2 DEF FeedInv, FeedType, HasNewest, IsShown, Reloads, Feed!Idle, Feed!LoadInitialFeed
  <1> QED
    BY <1>1, <1>2

(* The server answers with the page of the moment.                         *)
LEMMA FeedAnswerStep ==
    ASSUME FeedInv, Feed!Answer
    PROVE  FeedInv'
  <1>1. PICK p : p = Feed!Page(loading.agents, loading.before) /\ IsOf(p, loading.agents)
    BY PageIsOf DEF FeedInv
  <1>2. PICK more \in BOOLEAN :
           loading' = [agents |-> loading.agents, before |-> loading.before,
                       page |-> p, more |-> more]
    <2> DEFINE m == Len(Feed!Thread(loading.agents, loading.before)) > PageSize
    <2>1. m \in BOOLEAN
      OBVIOUS
    <2>2. loading' = [loading EXCEPT !.page = p, !.more = m]
      BY <1>1, Zenon DEF Feed!Answer
    <2> HIDE DEF m
    <2>3. loading' = [agents |-> loading.agents, before |-> loading.before,
                      page |-> p, more |-> m]
      BY <2>2 DEF Feed!Answer, FeedInv, FeedType
    <2> QED
      BY <2>1, <2>3
  <1>3. UNCHANGED <<feedLog, feedConnected, feedSelected, messages, refetch, render, shown, dropped>>
    BY DEF Feed!Answer, Feed!feed
  <1>4. ~dropped => loading' # None
    <2> SUFFICES ASSUME ~dropped PROVE loading' # None
      OBVIOUS
    <2>1. /\ loading.agents \in SUBSET Agent /\ loading.before \in 0 .. MaxMessage
          /\ IsOf(p, feedSelected)
      BY <1>1 DEF FeedInv, FeedType, Feed!Answer
    <2>2. p \in Seq(Feed!Id)
      <3>1. p \in Seq(Nat) /\ \A i \in DOMAIN p : p[i] \in DOMAIN feedLog
        BY <2>1 DEF IsOf, RowsOf, Feed!Range
      <3>2. DOMAIN feedLog \subseteq Feed!Id
        BY FeedConstants DEF FeedInv, FeedType, Feed!Id
      <3> QED
        BY <3>1, <3>2
    <2> QED
      BY <1>2, <2>1, <2>2, FetchIsSome
  <1>5. /\ loading'.agents = loading.agents /\ loading'.before = loading.before /\ loading'.page = p
        /\ loading' = [agents |-> loading'.agents, before |-> loading'.before,
                       page |-> loading'.page, more |-> loading'.more]
    BY <1>2
  <1>6. FeedType'
    BY <1>1, <1>3, <1>5 DEF FeedInv, FeedType, IsOf, RowsOf, Feed!Range, Feed!Idle, Feed!Answer
  <1>7. HasNewest'
    <2>1. ~dropped => (Reloads <=> Reloads')
      BY <1>4, <1>5 DEF Reloads, Feed!Idle, Feed!Answer
    <2>2. ~dropped /\ Reloads => p = Feed!Page(feedSelected, 0)
      BY <1>1 DEF FeedInv, FeedType, Reloads
    <2> QED
      BY <1>3, <1>5, <2>1, <2>2 DEF FeedInv, HasNewest, Feed!Page, Feed!Thread
  <1>8. IsShown'
    BY <1>3, <1>4, <1>5 DEF FeedInv, IsShown, Reloads, Feed!Idle, Feed!Answer
  <1> QED
    BY <1>6, <1>7, <1>8 DEF FeedInv

(* Pages are joined without losing a message.                              *)
LEMMA JoinedPages ==
    ASSUME NEW s, NEW p, NEW q, IsOf(p, s), IsOf(q, s)
    PROVE  IsOf(p \o q, s) /\ Feed!Range(q) \subseteq Feed!Range(p \o q)
  <1>1. p \o q \in Seq(Nat) /\ Len(p) \in Nat /\ Len(q) \in Nat
    BY DEF IsOf
  <1>2. \A i \in DOMAIN (p \o q) : \/ (i \in DOMAIN p /\ (p \o q)[i] = p[i])
                                 \/ (i - Len(p) \in DOMAIN q /\ (p \o q)[i] = q[i - Len(p)])
    BY DEF IsOf
  <1>3. \A i \in DOMAIN q : i + Len(p) \in DOMAIN (p \o q) /\ (p \o q)[i + Len(p)] = q[i]
    BY DEF IsOf
  <1>4. \A i \in DOMAIN (p \o q) : (p \o q)[i] \in RowsOf(s)
    BY <1>2 DEF IsOf, Feed!Range
  <1>5. Feed!Range(q) \subseteq Feed!Range(p \o q)
    BY <1>3 DEF Feed!Range
  <1> QED
    BY <1>1, <1>4, <1>5 DEF IsOf, Feed!Range

(* A page that arrives replaces the feed, or is put in front.              *)
LEMMA FeedFetchedStep ==
    ASSUME FeedInv, Feed!Fetched
    PROVE  FeedInv'
  <1>1. /\ ~Feed!Idle /\ loading.page # None /\ Feed!Idle' /\ render'
        /\ UNCHANGED <<feedLog, feedConnected, feedSelected, refetch, shown, dropped>>
        /\ messages' = IF loading.before # 0 THEN loading.page \o messages ELSE loading.page
    BY DEF Feed!Fetched, Feed!Idle
  <1>2. ~dropped => /\ IsOf(messages', feedSelected)
                   /\ (~Reloads => Feed!Range(messages) \subseteq Feed!Range(messages'))
    BY <1>1, JoinedPages DEF FeedInv, FeedType, Reloads
  <1>3. FeedType'
    BY <1>1, <1>2 DEF FeedInv, FeedType, IsOf, RowsOf
  <1>4. HasNewest'
    BY <1>1, <1>2 DEF FeedInv, HasNewest, Reloads, Feed!Page, Feed!Thread
  <1>5. IsShown'
    BY <1>1 DEF IsShown
  <1> QED
    BY <1>3, <1>4, <1>5 DEF FeedInv

(* Every other step on the feed keeps its invariant.                       *)
LEMMA FeedStep ==
    ASSUME FeedInv, Feed!Next
    PROVE  FeedInv'
  <1>1. CASE Feed!Answer
    BY <1>1, FeedAnswerStep
  <1>2. CASE Feed!Fetched
    BY <1>2, FeedFetchedStep
  <1>3. CASE Feed!FetchFails
    <2>1. /\ UNCHANGED <<feedLog, feedConnected, feedSelected, messages, refetch, shown>>
          /\ Feed!Idle' /\ (~render' => ~render) /\ (~dropped' => ~dropped /\ ~Reloads)
      <3>1. UNCHANGED <<feedLog, feedConnected, feedSelected, messages, refetch, shown>> /\ Feed!Idle'
        BY <1>3 DEF Feed!FetchFails, Feed!feed, Feed!Idle
      <3>2. ~render' => ~render
        BY <1>3, Zenon DEF Feed!FetchFails
      <3>3. ~dropped' => ~dropped /\ ~Reloads
        BY <1>3, Zenon DEF Feed!FetchFails, Reloads
      <3> QED
        BY <3>1, <3>2, <3>3
    <2>2. FeedType'
      BY <2>1 DEF FeedInv, FeedType, IsOf, RowsOf
    <2>3. HasNewest'
      BY <2>1 DEF FeedInv, HasNewest, Reloads, Feed!Page, Feed!Thread
    <2>4. IsShown'
      BY <2>1 DEF FeedInv, IsShown, Reloads
    <2> QED
      BY <2>2, <2>3, <2>4 DEF FeedInv
  <1>4. CASE Feed!Refetch \/ Feed!Connect \/ \E s \in SUBSET Agent : Feed!Select(s)
    <2>1. /\ Feed!LoadInitialFeed /\ UNCHANGED <<feedLog, shown>> /\ feedSelected' \subseteq Agent
      BY <1>4 DEF Feed!Refetch, Feed!Connect, Feed!Select, FeedInv, FeedType
    <2> QED
      BY <2>1, FeedLoadStep
  <1>5. CASE Feed!Render \/ Feed!Disconnect
    <2>1. /\ UNCHANGED <<feedLog, feedSelected, messages, loading, refetch, dropped>>
          /\ (feedConnected' => feedConnected)
          /\ shown'.ids = Feed!Range(messages) \/ (UNCHANGED shown /\ (~render' => ~render))
      BY <1>5 DEF Feed!Render, Feed!Disconnect, Feed!feed
    <2>2. FeedType'
      BY <2>1 DEF FeedInv, FeedType, Feed!Idle, IsOf, RowsOf
    <2>3. HasNewest'
      BY <2>1 DEF FeedInv, HasNewest, Reloads, Feed!Idle, Feed!Page, Feed!Thread
    <2>4. IsShown'
      BY <2>1 DEF FeedInv, IsShown, Reloads, Feed!Idle
    <2> QED
      BY <2>2, <2>3, <2>4 DEF FeedInv
  <1>6. CASE Feed!LoadOlder
    <2>1. /\ messages # <<>>
          /\ UNCHANGED <<feedLog, feedConnected, feedSelected, messages, refetch, shown, dropped>>
          /\ loading' = IF Feed!Idle
                        THEN [agents |-> feedSelected, before |-> Feed!Last(messages),
                              page |-> None, more |-> FALSE]
                        ELSE loading
          /\ ~render' => ~render /\ Feed!Idle
      <3>1. /\ messages # <<>>
            /\ UNCHANGED <<feedLog, feedConnected, feedSelected, messages, refetch, shown, dropped>>
        BY <1>6 DEF Feed!LoadOlder, Feed!feed
      <3>2. loading' = IF Feed!Idle
                       THEN [agents |-> feedSelected, before |-> Feed!Last(messages),
                             page |-> None, more |-> FALSE]
                       ELSE loading
        BY <1>6, Zenon DEF Feed!LoadOlder, Feed!Request
      <3>3. ~render' => ~render /\ Feed!Idle
        BY <1>6, Zenon DEF Feed!LoadOlder
      <3> QED
        BY <3>1, <3>2, <3>3
    <2>2. CASE ~Feed!Idle
      BY <2>1, <2>2 DEF FeedInv, FeedType, HasNewest, IsShown, Reloads, Feed!Idle,
                        IsOf, RowsOf, Feed!Page, Feed!Thread
    <2>3. CASE Feed!Idle
      <3>1. ~dropped => Feed!Last(messages) # 0 /\ Feed!Last(messages) \in 1 .. MaxMessage
        <4> SUFFICES ASSUME ~dropped
                     PROVE  Feed!Last(messages) # 0 /\ Feed!Last(messages) \in 1 .. MaxMessage
          OBVIOUS
        <4>1. messages \in Seq(Nat) /\ Len(messages) \in DOMAIN messages
          BY <2>1 DEF FeedInv, FeedType, IsOf
        <4>2. messages[Len(messages)] \in DOMAIN feedLog
          BY <4>1 DEF FeedInv, FeedType, IsOf, RowsOf, Feed!Range
        <4> QED
          BY <4>2, FeedConstants DEF FeedInv, FeedType, Feed!Last
      <3>2. ~dropped => loading' # None
        BY <2>1, <2>3, <3>1, RequestIsSome DEF FeedInv, FeedType
      <3> QED
        BY <2>1, <2>3, <3>1, <3>2 DEF FeedInv, FeedType, HasNewest, IsShown, Reloads, Feed!Idle,
                                      IsOf, RowsOf, Feed!Page, Feed!Thread
    <2> QED
      BY <2>2, <2>3
  <1>7. ASSUME NEW a \in Agent, Feed!Message(a) PROVE FeedInv'
    <2>1. /\ feedLog' = Append(feedLog, a) /\ Len(feedLog) < MaxMessage
          /\ UNCHANGED <<feedConnected, feedSelected, messages, loading, render, shown, dropped>>
          /\ refetch' = (refetch \/ (feedConnected /\ a \in feedSelected))
      BY <1>7 DEF Feed!Message, Feed!Notified, Feed!feed
    <2>2. RowsOf(feedSelected) \subseteq RowsOf(feedSelected)'
      BY <2>1, RowsGrow DEF FeedInv
    <2>3. FeedType'
      <3>1. feedLog' \in Seq(Agent) /\ Len(feedLog') <= MaxMessage
        BY <2>1, FeedConstants DEF FeedInv, FeedType
      <3> QED
        BY <2>1, <2>2, <3>1 DEF FeedInv, FeedType, Feed!Idle, IsOf, Feed!Range
    <2>4. a \in feedSelected \/ Feed!Page(feedSelected, 0)' = Feed!Page(feedSelected, 0)
      BY <2>1, RowsGrow DEF FeedInv
    <2>5. HasNewest'
      BY <2>1, <2>4 DEF FeedInv, HasNewest, Reloads, Feed!Idle
    <2>6. IsShown'
      BY <2>1 DEF FeedInv, IsShown, Reloads, Feed!Idle
    <2> QED
      BY <2>3, <2>5, <2>6 DEF FeedInv
  <1> QED
    BY <1>1, <1>2, <1>3, <1>4, <1>5, <1>6, <1>7 DEF Feed!Next

(* A quiet feed is up to date (FeedIsCurrent): what it shows is of the     *)
(* selection and has its newest messages, however messages, selections,    *)
(* pages, failures and reconnections cross (chat.ts:118-154, 225-283).     *)
THEOREM DashboardFeedIsCurrent == BrowserSpec => []FeedIsCurrent
  <1> DEFINE Inv == part = "feed" => FeedInv
  <1>1. BrowserInit => Inv
    <2> SUFFICES ASSUME Feed!Init PROVE FeedInv
      BY DEF BrowserInit
    <2>1. /\ feedLog = <<>> /\ feedSelected = Agent /\ messages = <<>> /\ ~feedConnected
          /\ loading = [agents |-> Agent, before |-> 0, page |-> None, more |-> FALSE]
      BY DEF Feed!Init, Feed!Request
    <2>2. loading # None /\ MaxMessage \in Nat /\ 0 \in 0 .. MaxMessage
      BY <2>1, RequestIsSome, FeedConstants
    <2> QED
      BY <2>1, <2>2 DEF FeedInv, FeedType, HasNewest, IsShown, Reloads, Feed!Idle, IsOf, Feed!Range
  <1>2. Inv /\ [BrowserNext]_browserVars => Inv'
    <2> SUFFICES ASSUME part = "feed", FeedInv, Feed!Next \/ UNCHANGED feedVars
                 PROVE  FeedInv'
      BY DEF BrowserNext, browserVars
    <2>1. CASE UNCHANGED feedVars
      BY <2>1 DEF feedVars, FeedInv, FeedType, HasNewest, IsShown, Reloads, Feed!Idle,
                  IsOf, RowsOf, Feed!Page, Feed!Thread
    <2> QED
      BY <2>1, FeedStep
  <1>3. Inv => FeedIsCurrent
    <2> SUFFICES ASSUME FeedInv, Feed!AtRest, feedConnected, ~dropped
                 PROVE  /\ shown.ids = Feed!Range(messages)
                        /\ Feed!Range(Feed!Page(feedSelected, 0)) \subseteq shown.ids
                        /\ \A n \in shown.ids : feedLog[n] \in feedSelected
      BY DEF FeedIsCurrent, Feed!FeedIsCurrent
    <2> QED
      BY DEF FeedInv, FeedType, HasNewest, IsShown, Reloads, Feed!AtRest, IsOf, RowsOf
  <1> QED
    BY <1>1, <1>2, <1>3, PTL DEF BrowserSpec

-----------------------------------------------------------------------------
(* Sending                                                                 *)

IsList(s) == s \in Seq(Compose!ToSet(s))
PairsOf(s) == Compose!Pairs(sends[s].parsed)

(* A parsed text names agents that there are, and no topic twice.          *)
WellParsed(p) ==
    /\ IsList(p.agents) /\ IsList(p.topics) /\ Compose!ToSet(p.agents) \subseteq Addressee
    /\ \A n, k \in DOMAIN p.topics : p.topics[n] = p.topics[k] => n = k

IsSend(c) ==
    /\ DOMAIN c = {"parsed", "files", "at", "open", "spawns", "refused"}
    /\ WellParsed(c.parsed)

ComposerType ==
    /\ IsList(input) /\ IsList(staged) /\ IsList(sends) /\ IsList(composerLog)
    /\ IsList(composerDown)
    /\ threads = [a \in Addressee |-> threads[a]]
    /\ \A a \in Addressee : IsList(threads[a])
    /\ \A s \in DOMAIN sends : IsSend(sends[s])

(* No file is at two places.                                               *)
FilesApart ==
    /\ uploads \cap Compose!ToSet(staged) = {}
    /\ \A s \in DOMAIN sends :
          /\ sends[s].files \cap (Compose!ToSet(staged) \cup uploads) = {}
          /\ \A r \in DOMAIN sends : r # s => sends[s].files \cap sends[r].files = {}

(* What the server has is what was posted, each pair once.                 *)
LogIsSent ==
    /\ \A m \in DOMAIN composerLog :
          /\ composerLog[m].send \in DOMAIN sends
          /\ sends[composerLog[m].send].at = "posting"
          /\ composerLog[m].to \in PairsOf(composerLog[m].send)
    /\ \A m, n \in DOMAIN composerLog :
          composerLog[m].send = composerLog[n].send /\ composerLog[m].to = composerLog[n].to
             => m = n
    /\ \A s \in DOMAIN sends :
          IF sends[s].at = "posting"
          THEN \A p \in PairsOf(s) \ (sends[s].open \cup sends[s].refused) :
                  \E n \in DOMAIN composerLog : composerLog[n].send = s /\ composerLog[n].to = p
          ELSE sends[s].refused = {}
    /\ Compose!ToSet(composerDown) \subseteq DOMAIN composerLog
    /\ ~composerConnected => composerDown = <<>>

(* The rows of a thread are of posts, the ones with an id of messages, each *)
(* message once; a message that has no row yet is on its way.              *)
RowOf(a, n) == threads[a][n]
RowsAreSent(a) ==
    /\ \A n \in DOMAIN threads[a] :
          /\ RowOf(a, n) = Compose!Row(RowOf(a, n).id, RowOf(a, n).send, <<a, RowOf(a, n).topic>>)
          /\ RowOf(a, n).send \in DOMAIN sends /\ sends[RowOf(a, n).send].at = "posting"
          /\ RowOf(a, n).id # 0 => /\ RowOf(a, n).id \in DOMAIN composerLog
                                   /\ composerLog[RowOf(a, n).id].to[1] = a
    /\ \A n, k \in DOMAIN threads[a] :
          RowOf(a, n).id = RowOf(a, k).id /\ RowOf(a, n).id # 0 => n = k
    /\ \A m \in DOMAIN composerLog : composerLog[m].to[1] = a =>
          \/ \E n \in DOMAIN threads[a] : RowOf(a, n).id = m
          \/ m \in Compose!ToSet(composerDown)

(* The rows that a message may still replace, which those of altered texts *)
(* never are, and the pairs whose message may still come.                  *)
Waiting(a) == {n \in DOMAIN threads[a] :
                  RowOf(a, n).id = 0 /\ ~Compose!Altered(RowOf(a, n).send)}
Came(a, s, p) ==
    \E n \in DOMAIN threads[a] :
       /\ RowOf(a, n).id # 0
       /\ composerLog[RowOf(a, n).id].send = s /\ composerLog[RowOf(a, n).id].to = p
IsOwed(a, s, p) ==
    /\ s \in DOMAIN sends /\ sends[s].at = "posting"
    /\ p \in PairsOf(s) /\ p[1] = a /\ p \notin sends[s].refused
    /\ ~Came(a, s, p)
AllPairs == UNION {PairsOf(s) : s \in DOMAIN sends}
Owed(a) == {q \in (DOMAIN sends) \X AllPairs : IsOwed(a, q[1], q[2])}

(* While no message took the row of another, a row that waits is the one   *)
(* row of a pair that is owed.                                             *)
RowsAreOwed(a) ==
    a \notin crossed =>
       /\ \A n \in Waiting(a) : \A r, t : RowOf(a, n).send = r /\ RowOf(a, n).topic = t
             => IsOwed(a, r, <<a, t>>)
       /\ \A n, k \in Waiting(a) : RowOf(a, n) = RowOf(a, k) => n = k

(* While none was refused, there are no more rows that wait than pairs     *)
(* that are owed, of every text: each row has a pair of its own.           *)
IsShare(a, f) ==
    /\ f \in [Waiting(a) -> Owed(a)]
    /\ \A n \in Waiting(a) : Compose!Message(f[n][1]) = Compose!Message(RowOf(a, n).send)
    /\ \A n, k \in Waiting(a) : f[n] = f[k] => n = k
RowsHaveShare(a) == ~Compose!Refused(a) => \E f \in [Waiting(a) -> Owed(a)] : IsShare(a, f)

ThreadIsSent(a) == RowsAreSent(a) /\ (a \notin buried => RowsAreOwed(a) /\ RowsHaveShare(a))

ComposerInv ==
    /\ ComposerType /\ FilesApart /\ LogIsSent
    /\ \A a \in Addressee \ missed : ThreadIsSent(a)

LEMMA ListFacts ==
    ASSUME NEW s, IsList(s)
    PROVE  /\ Len(s) \in Nat /\ DOMAIN s = 1 .. Len(s)
           /\ s = [n \in 1 .. Len(s) |-> s[n]]
  BY DEF IsList

LEMMA ListOf ==
    ASSUME NEW k \in Nat, NEW s, s = [n \in 1 .. k |-> s[n]]
    PROVE  IsList(s) /\ Len(s) = k /\ DOMAIN s = 1 .. k
  <1>1. DOMAIN s = 1 .. k
    OBVIOUS
  <1>2. \A n \in 1 .. k : s[n] \in Compose!ToSet(s)
    BY <1>1 DEF Compose!ToSet
  <1>3. s \in [1 .. k -> Compose!ToSet(s)]
    BY <1>2
  <1>4. s \in Seq(Compose!ToSet(s)) /\ Len(s) = k
    BY <1>3
  <1> QED
    BY <1>1, <1>4 DEF IsList

LEMMA SeqIsList ==
    ASSUME NEW S, NEW s \in Seq(S)
    PROVE  IsList(s) /\ Len(s) \in Nat /\ DOMAIN s = 1 .. Len(s)
  <1>1. Len(s) \in Nat /\ s = [n \in 1 .. Len(s) |-> s[n]]
    OBVIOUS
  <1> QED
    BY <1>1, ListOf

LEMMA Appended ==
    ASSUME NEW s, IsList(s), NEW x
    PROVE  /\ IsList(Append(s, x)) /\ Len(Append(s, x)) = Len(s) + 1
           /\ DOMAIN Append(s, x) = 1 .. Len(s) + 1
           /\ \A n \in 1 .. Len(s) : Append(s, x)[n] = s[n]
           /\ Append(s, x)[Len(s) + 1] = x
  <1> DEFINE S == Compose!ToSet(s) \cup {x}
             t == Append(s, x)
  <1>1. s \in Seq(S) /\ x \in S
    BY ListFacts DEF IsList
  <1>2. t \in Seq(S) /\ Len(t) = Len(s) + 1
    BY <1>1
  <1>4. (\A n \in 1 .. Len(s) : t[n] = s[n]) /\ t[Len(s) + 1] = x
    BY <1>1
  <1> HIDE DEF t
  <1>5. IsList(t) /\ DOMAIN t = 1 .. Len(s) + 1
    BY <1>2, SeqIsList
  <1> QED
    BY <1>2, <1>4, <1>5 DEF t

LEMMA Joined ==
    ASSUME NEW s, IsList(s), NEW t, IsList(t)
    PROVE  /\ IsList(s \o t) /\ Len(s \o t) = Len(s) + Len(t)
           /\ DOMAIN (s \o t) = 1 .. Len(s) + Len(t)
           /\ \A n \in 1 .. Len(s) : (s \o t)[n] = s[n]
           /\ \A n \in 1 .. Len(t) : (s \o t)[Len(s) + n] = t[n]
  <1> DEFINE S == Compose!ToSet(s) \cup Compose!ToSet(t)
             u == s \o t
  <1>1. s \in Seq(S) /\ t \in Seq(S) /\ Len(s) \in Nat /\ Len(t) \in Nat
    BY ListFacts DEF IsList
  <1>2. u \in Seq(S) /\ Len(u) = Len(s) + Len(t)
    BY <1>1
  <1>4. \A n \in 1 .. Len(s) : u[n] = s[n]
    BY <1>1
  <1>5. \A n \in 1 .. Len(t) : u[Len(s) + n] = t[n]
    BY <1>1
  <1> HIDE DEF u
  <1>6. IsList(u) /\ DOMAIN u = 1 .. Len(s) + Len(t)
    BY <1>2, SeqIsList
  <1> QED
    BY <1>2, <1>4, <1>5, <1>6 DEF u

LEMMA TailOf ==
    ASSUME NEW s, IsList(s), s # <<>>
    PROVE  /\ IsList(Tail(s)) /\ DOMAIN Tail(s) = 1 .. Len(s) - 1 /\ Len(s) >= 1
           /\ \A n \in 1 .. Len(s) - 1 : Tail(s)[n] = s[n + 1]
           /\ Head(s) = s[1]
  <1> DEFINE S == Compose!ToSet(s)
             t == Tail(s)
  <1>1. s \in Seq(S) /\ Len(s) \in Nat /\ Len(s) >= 1
    BY ListFacts DEF IsList
  <1>2. t \in Seq(S) /\ Len(t) = Len(s) - 1
    BY <1>1
  <1>4. (\A n \in 1 .. Len(s) - 1 : t[n] = s[n + 1]) /\ Head(s) = s[1]
    BY <1>1
  <1> HIDE DEF t
  <1>5. IsList(t) /\ DOMAIN t = 1 .. Len(s) - 1
    BY <1>2, SeqIsList
  <1> QED
    BY <1>1, <1>4, <1>5 DEF t

(* The first of the places where a list has x is taken out.                *)
LEMMA TakenOut ==
    ASSUME NEW s, IsList(s), NEW x
    PROVE  LET t == Compose!RemoveFirst(s, x) IN
           /\ IsList(t)
           /\ \/ t = s /\ \A n \in DOMAIN s : s[n] # x
              \/ \E i \in DOMAIN s :
                    /\ s[i] = x /\ DOMAIN t = 1 .. Len(s) - 1
                    /\ \A n \in 1 .. Len(s) - 1 : t[n] = IF n < i THEN s[n] ELSE s[n + 1]
  <1> DEFINE t == Compose!RemoveFirst(s, x)
             I == {i \in 1 .. Len(s) : s[i] = x}
             i == Compose!Min(I)
  <1>1. Len(s) \in Nat /\ DOMAIN s = 1 .. Len(s)
    BY ListFacts
  <1>2. CASE I = {}
    <2>1. t = s
      BY <1>2 DEF Compose!RemoveFirst
    <2> QED
      BY <1>1, <1>2, <2>1
  <1>3. CASE I # {}
    <2>1. i \in I
      <3>1. I \in SUBSET Nat
        BY <1>1
      <3> HIDE DEF I
      <3>2. \E n \in I : \A m \in I : n <= m
        BY <1>3, <3>1, LeastOf
      <3> QED
        BY <3>2 DEF Compose!Min
    <2>2. t = SubSeq(s, 1, i - 1) \o SubSeq(s, i + 1, Len(s))
      BY <1>3 DEF Compose!RemoveFirst, Compose!SelectInSeq, Compose!RemoveAt
    <2> HIDE DEF i, t
    <2> DEFINE S == Compose!ToSet(s)
    <2>3. s \in Seq(S) /\ i \in 1 .. Len(s)
      BY <2>1 DEF IsList
    <2> DEFINE u == SubSeq(s, 1, i - 1)
               w == SubSeq(s, i + 1, Len(s))
    <2>4. u \in Seq(S) /\ Len(u) = i - 1 /\ \A n \in 1 .. i - 1 : u[n] = s[n]
      BY <1>1, <2>3
    <2>5. w \in Seq(S) /\ Len(w) = Len(s) - i /\ \A n \in 1 .. Len(s) - i : w[n] = s[n + i]
      <3>1. w \in Seq(S)
        BY <1>1, <2>3
      <3>2. Len(w) = Len(s) - i
        <4> DEFINE L == Len(s)
        <4>1. L \in Nat /\ i \in 1 .. L
          BY <1>1, <2>3
        <4>2. CASE i + 1 <= Len(s)
          <5>1. Len(w) = L - (i + 1) + 1
            BY <1>1, <2>3, <4>1, <4>2
          <5> HIDE DEF w, L
          <5>2. Len(w) = L - i
            BY <4>1, <5>1
          <5> QED
            BY <5>2 DEF L
        <4>3. CASE ~(i + 1 <= L)
          <5>1. Len(w) = 0
            BY <1>1, <2>3, <4>1, <4>3
          <5> HIDE DEF w, L
          <5>2. Len(w) = L - i
            BY <4>1, <4>3, <5>1
          <5> QED
            BY <5>2 DEF L
        <4> QED
          BY <4>2, <4>3
      <3>3. ASSUME NEW n \in 1 .. Len(s) - i PROVE w[n] = s[n + i]
        <4>1. w[n] = s[(i + 1) + n - 1]
          BY <1>1, <2>3
        <4> QED
          BY <1>1, <2>3, <4>1
      <3> QED
        BY <3>1, <3>2, <3>3
    <2> HIDE DEF u, w
    <2> HIDE DEF S
    <2>t. t = u \o w
      BY <2>2 DEF u, w
    <2>6. t \in Seq(S) /\ Len(t) = Len(s) - 1
      <3>1. u \o w \in Seq(S) /\ Len(u \o w) = Len(u) + Len(w)
        BY <2>4, <2>5
      <3> QED
        BY <1>1, <2>t, <2>3, <2>4, <2>5, <3>1
    <2>7. \A n \in 1 .. Len(s) - 1 : t[n] = IF n < i THEN u[n] ELSE w[n - (i - 1)]
      <3> SUFFICES ASSUME NEW n \in 1 .. Len(s) - 1
                   PROVE  t[n] = IF n < i THEN u[n] ELSE w[n - (i - 1)]
        OBVIOUS
      <3>1. n \in 1 .. Len(u) + Len(w) /\ Len(u) = i - 1 /\ Len(w) \in Nat
        BY <1>1, <2>3, <2>4, <2>5
      <3>2. (u \o w)[n] = IF n <= Len(u) THEN u[n] ELSE w[n - Len(u)]
        <4>1. u \in Seq(S) /\ w \in Seq(S) /\ n \in 1 .. Len(u) + Len(w)
          BY <2>4, <2>5, <3>1
        <4> QED
          BY <4>1
      <3>3. n < i <=> n <= Len(u)
        BY <1>1, <2>3, <3>1
      <3> QED
        BY <2>t, <3>1, <3>2, <3>3
    <2>8. \A n \in 1 .. Len(s) - 1 : t[n] = IF n < i THEN s[n] ELSE s[n + 1]
      <3> SUFFICES ASSUME NEW n \in 1 .. Len(s) - 1
                   PROVE  t[n] = IF n < i THEN s[n] ELSE s[n + 1]
        OBVIOUS
      <3>1. CASE n < i
        <4>1. n \in 1 .. i - 1
          BY <1>1, <2>3, <3>1
        <4> QED
          BY <2>4, <2>7, <3>1, <4>1
      <3>2. CASE ~(n < i)
        <4>1. n - (i - 1) \in 1 .. Len(s) - i /\ (n - (i - 1)) + i = n + 1
          BY <1>1, <2>3, <3>2
        <4> QED
          BY <2>5, <2>7, <3>2, <4>1
      <3> QED
        BY <3>1, <3>2
    <2>9. IsList(t) /\ DOMAIN t = 1 .. Len(s) - 1
      BY <2>6, SeqIsList
    <2>11. i \in DOMAIN s /\ s[i] = x
      BY <1>1, <2>1
    <2> QED
      BY <2>8, <2>9, <2>11 DEF t
  <1> QED
    BY <1>2, <1>3

LEMMA Replaced ==
    ASSUME NEW s, IsList(s), NEW i \in DOMAIN s, NEW x
    PROVE  LET t == [s EXCEPT ![i] = x] IN
           /\ IsList(t) /\ Len(t) = Len(s) /\ DOMAIN t = DOMAIN s
           /\ t[i] = x /\ \A n \in DOMAIN s : n # i => t[n] = s[n]
  <1> DEFINE t == [s EXCEPT ![i] = x]
  <1>1. Len(s) \in Nat /\ DOMAIN s = 1 .. Len(s)
    BY ListFacts
  <1>2. DOMAIN t = 1 .. Len(s) /\ t = [n \in 1 .. Len(s) |-> t[n]]
    BY <1>1
  <1>3. t[i] = x /\ \A n \in DOMAIN s : n # i => t[n] = s[n]
    OBVIOUS
  <1> HIDE DEF t
  <1>4. IsList(t) /\ Len(t) = Len(s)
    BY <1>1, <1>2, ListOf
  <1> QED
    BY <1>1, <1>2, <1>3, <1>4 DEF t

-----------------------------------------------------------------------------
(* The places picked from a list, and what is parsed with them             *)

(* A set of places has one of every rank, counted from below.              *)
LEMMA PlacesFinite ==
    ASSUME NEW N \in Nat, NEW S \in SUBSET (1 .. N)
    PROVE  IsFiniteSet(S) /\ Cardinality(S) \in Nat
  <1>1. IsFiniteSet(1 .. N)
    BY FS_Interval
  <1>2. IsFiniteSet(S)
    BY <1>1, FS_Subset
  <1> QED
    BY <1>2, FS_CardinalityType

LEMMA NthExists ==
    ASSUME NEW N \in Nat, NEW S \in SUBSET (1 .. N), NEW k \in 1 .. Cardinality(S)
    PROVE  /\ Compose!Nth(S, k) \in S
           /\ Cardinality({m \in S : m <= Compose!Nth(S, k)}) = k
  <1> DEFINE To(i) == {m \in S : m <= i}
             c(i) == Cardinality(To(i))
             Enough == {i \in Nat : c(i) >= k}
  <1>1. IsFiniteSet(S) /\ Cardinality(S) \in Nat /\ k \in Nat /\ 1 <= k /\ k <= Cardinality(S)
    <2>1. IsFiniteSet(S) /\ Cardinality(S) \in Nat
      BY PlacesFinite
    <2> QED
      BY <2>1
  <1>2. \A i \in Nat : IsFiniteSet(To(i)) /\ c(i) \in Nat
    <2>1. \A i \in Nat : To(i) \in SUBSET S
      OBVIOUS
    <2> HIDE DEF To
    <2> QED
      BY <1>1, <2>1, FS_Subset, FS_CardinalityType
  <1>3. c(0) = 0
    <2>1. \A m \in S : ~(m <= 0)
      OBVIOUS
    <2>2. To(0) = {}
      BY <2>1
    <2> QED
      BY <2>2, FS_EmptySet
  <1>4. c(N) = Cardinality(S)
    <2>1. \A m \in S : m <= N
      OBVIOUS
    <2>2. To(N) = S
      BY <2>1
    <2> QED
      BY <2>2
  <1>5. \A i \in Nat : c(i + 1) = IF i + 1 \in S THEN c(i) + 1 ELSE c(i)
    <2> SUFFICES ASSUME NEW i \in Nat
                 PROVE  c(i + 1) = IF i + 1 \in S THEN c(i) + 1 ELSE c(i)
      OBVIOUS
    <2>1. \A m \in S : m <= i + 1 <=> m <= i \/ m = i + 1
      OBVIOUS
    <2>2. CASE i + 1 \in S
      <3>1. To(i + 1) = To(i) \cup {i + 1}
        BY <2>1, <2>2
      <3>2. i + 1 \notin To(i)
        OBVIOUS
      <3> HIDE DEF To
      <3> QED
        BY <1>2, <2>2, <3>1, <3>2, FS_AddElement
    <2>3. CASE i + 1 \notin S
      <3>1. To(i + 1) = To(i)
        BY <2>1, <2>3
      <3> QED
        BY <2>3, <3>1
    <2> QED
      BY <2>2, <2>3
  <1> HIDE DEF c
  <1>6. PICK n \in Enough : \A m \in Enough : n <= m
    <2>1. Enough \in SUBSET Nat /\ N \in Enough
      BY <1>1, <1>4
    <2> HIDE DEF Enough
    <2> QED
      BY <2>1, LeastOf
  <1>7. n # 0
    BY <1>1, <1>3, <1>6
  <1>8. PICK j \in Nat : n = j + 1 /\ c(j) < k /\ c(j + 1) >= k
    <2>1. n - 1 \in Nat /\ n = (n - 1) + 1 /\ ~(n <= n - 1)
      BY <1>6, <1>7
    <2>2. c(n - 1) \in Nat /\ ~(c(n - 1) >= k)
      BY <1>2, <1>6, <2>1
    <2> QED
      BY <1>1, <1>2, <1>6, <2>1, <2>2
  <1>9. j + 1 \in S /\ c(j + 1) = k
    <2>1. c(j) \in Nat /\ c(j) < k /\ c(j + 1) >= k
      BY <1>2, <1>8
    <2>2. c(j + 1) = IF j + 1 \in S THEN c(j) + 1 ELSE c(j)
      BY <1>5
    <2>3. j + 1 \in S
      BY <1>1, <2>1, <2>2
    <2> QED
      BY <1>1, <2>1, <2>2, <2>3
  <1>10. \E i \in S : Cardinality({m \in S : m <= i}) = k
    BY <1>9 DEF c
  <1> QED
    BY <1>10 DEF Compose!Nth, Compose!Cardinality, Cardinality

(* What is picked is a list of what stands at these places, each once.     *)
LEMMA PickedFrom ==
    ASSUME NEW N \in Nat, NEW S \in SUBSET (1 .. N), NEW s
    PROVE  LET t == Compose!Picked(s, S) IN
           /\ IsList(t) /\ (S = {} => t = <<>>)
           /\ \A k \in DOMAIN t : Compose!Nth(S, k) \in S /\ t[k] = s[Compose!Nth(S, k)]
           /\ \A k, l \in DOMAIN t : Compose!Nth(S, k) = Compose!Nth(S, l) => k = l
  <1> DEFINE t == Compose!Picked(s, S)
             C == Cardinality(S)
  <1>1. C \in Nat
    BY PlacesFinite
  <1>2. t = [k \in 1 .. C |-> s[Compose!Nth(S, k)]]
    BY DEF Compose!Picked, Compose!Cardinality, Cardinality
  <1>3. \A k \in 1 .. C : /\ Compose!Nth(S, k) \in S
                          /\ Cardinality({m \in S : m <= Compose!Nth(S, k)}) = k
    BY NthExists
  <1>4. S = {} => t = <<>>
    <2> SUFFICES ASSUME S = {} PROVE t = <<>>
      OBVIOUS
    <2>1. C = 0
      BY FS_EmptySet
    <2> HIDE DEF C
    <2> QED
      BY <1>2, <2>1
  <1>5. t = [k \in 1 .. C |-> t[k]] /\ DOMAIN t = 1 .. C
    BY <1>2
  <1> HIDE DEF C
  <1>6. \A k \in DOMAIN t : Compose!Nth(S, k) \in S /\ t[k] = s[Compose!Nth(S, k)]
    BY <1>2, <1>3, <1>5
  <1>7. \A k, l \in DOMAIN t : Compose!Nth(S, k) = Compose!Nth(S, l) => k = l
    BY <1>3, <1>5
  <1> HIDE DEF t
  <1>8. IsList(t)
    BY <1>1, <1>5, ListOf
  <1> QED
    BY <1>4, <1>6, <1>7, <1>8 DEF t

(* The lead ends within the text, and what is before counts.               *)
LEMMA LeadOf ==
    ASSUME NEW t, IsList(t)
    PROVE  /\ Compose!LeadLength(t) \in 0 .. Len(t)
           /\ \A n \in 1 .. Compose!LeadLength(t) : Compose!Leads(t, n)
  <1> DEFINE L == Len(t)
             Leads(n) == Compose!Leads(t, n)
             Ends == {k \in 0 .. L : k = L \/ ~Leads(k + 1)}
             P(k) == (\A n \in 1 .. k : Leads(n)) /\ (k = L \/ ~Leads(k + 1))
  <1>1. L \in Nat
    BY ListFacts
  <1> HIDE DEF L, Leads
  <1>2. PICK k \in Ends : \A m \in Ends : k <= m
    <2>1. Ends \in SUBSET Nat /\ L \in Ends
      BY <1>1
    <2> HIDE DEF Ends
    <2> QED
      BY <2>1, LeastOf
  <1>3. \A n \in 1 .. k : Leads(n)
    <2> SUFFICES ASSUME NEW n \in 1 .. k, ~Leads(n) PROVE FALSE
      OBVIOUS
    <2>1. n - 1 \in 0 .. L /\ n = (n - 1) + 1 /\ ~(k <= n - 1)
      BY <1>1, <1>2
    <2>2. n - 1 \in Ends
      BY <2>1
    <2> QED
      BY <1>2, <2>1, <2>2
  <1>4. k \in 0 .. L /\ P(k)
    BY <1>2, <1>3
  <1>5. Compose!LeadLength(t) = CHOOSE x \in 0 .. L : P(x)
    BY DEF Compose!LeadLength, L, Leads
  <1> HIDE DEF P
  <1>6. Compose!LeadLength(t) \in 0 .. L /\ P(Compose!LeadLength(t))
    BY <1>4, <1>5
  <1> QED
    BY <1>6 DEF P, L, Leads

LEMMA NamesOf ==
    ASSUME NEW t, IsList(t), NEW mark
    PROVE  LET s == Compose!Names(t, mark) IN
           /\ IsList(s) /\ (Compose!Firsts(t, mark) = {} => s = <<>>)
           /\ \A k \in DOMAIN s : \E n \in Compose!Firsts(t, mark) : s[k] = t[n].of
           /\ \A k, l \in DOMAIN s : s[k] = s[l] => k = l
  <1> DEFINE S == Compose!Firsts(t, mark)
             of == [n \in DOMAIN t |-> t[n].of]
             s == Compose!Picked(of, S)
  <1>1. Len(t) \in Nat /\ DOMAIN t = 1 .. Len(t) /\ Compose!LeadLength(t) \in 0 .. Len(t)
    BY ListFacts, LeadOf
  <1>2. S \in SUBSET (1 .. Len(t))
    BY <1>1 DEF Compose!Firsts
  <1>3. \A m, n \in S : t[m].of = t[n].of => m = n
    <2> SUFFICES ASSUME NEW m \in S, NEW n \in S, t[m].of = t[n].of, m < n PROVE FALSE
      BY <1>1, <1>2
    <2>1. m \in 1 .. n - 1 /\ t[m].kind = mark
      BY <1>1, <1>2 DEF Compose!Firsts
    <2> QED
      BY <2>1 DEF Compose!Firsts
  <1>4. \A n \in S : of[n] = t[n].of
    BY <1>1, <1>2
  <1>5. Compose!Names(t, mark) = s
    BY DEF Compose!Names
  <1> HIDE DEF S, of
  <1>6. /\ IsList(s) /\ (S = {} => s = <<>>)
        /\ \A k \in DOMAIN s : Compose!Nth(S, k) \in S /\ s[k] = of[Compose!Nth(S, k)]
        /\ \A k, l \in DOMAIN s : Compose!Nth(S, k) = Compose!Nth(S, l) => k = l
    BY <1>1, <1>2, PickedFrom
  <1> HIDE DEF s
  <1>7. \A k \in DOMAIN s : \E n \in S : s[k] = t[n].of
    BY <1>4, <1>6
  <1>8. \A k, l \in DOMAIN s : s[k] = s[l] => k = l
    <2> SUFFICES ASSUME NEW k \in DOMAIN s, NEW l \in DOMAIN s, s[k] = s[l] PROVE k = l
      OBVIOUS
    <2>1. t[Compose!Nth(S, k)].of = t[Compose!Nth(S, l)].of
      BY <1>4, <1>6
    <2> QED
      BY <1>3, <1>6, <2>1
  <1> QED
    BY <1>5, <1>6, <1>7, <1>8 DEF S

(* What is parsed names agents that there are, and no topic twice.         *)
LEMMA ParsedWell ==
    ASSUME NEW t, IsList(t)
    PROVE  WellParsed(Compose!ParseComposer(t))
  <1> DEFINE p == Compose!ParseComposer(t)
             A == Compose!Names(t, "@")
             T == Compose!Names(t, "#")
  <1>1. p.agents = A /\ p.topics = IF Compose!Firsts(t, "#") = {} THEN Compose!General ELSE T
    BY DEF Compose!ParseComposer
  <1>2. IsList(A) /\ Compose!ToSet(A) \subseteq Addressee
    <2>1. IsList(A) /\ \A k \in DOMAIN A : \E n \in Compose!Firsts(t, "@") : A[k] = t[n].of
      BY NamesOf
    <2>2. \A n \in Compose!Firsts(t, "@") : t[n].of \in Addressee
      <3> SUFFICES ASSUME NEW n \in Compose!Firsts(t, "@") PROVE t[n].of \in Addressee
        OBVIOUS
      <3>1. n \in 1 .. Compose!LeadLength(t) /\ t[n].kind = "@"
        BY DEF Compose!Firsts
      <3>2. Compose!Leads(t, n)
        BY <3>1, LeadOf
      <3> QED
        BY <3>1, <3>2 DEF Compose!Leads, Compose!Target
    <2> HIDE DEF A
    <2> QED
      BY <2>1, <2>2 DEF Compose!ToSet
  <1>3. IsList(T) /\ \A n, k \in DOMAIN T : T[n] = T[k] => n = k
    BY NamesOf
  <1>4. /\ IsList(Compose!General)
        /\ \A n, k \in DOMAIN Compose!General :
              Compose!General[n] = Compose!General[k] => n = k
    <2> DEFINE g == <<"general">>
    <2>1. 1 \in Nat /\ DOMAIN g = 1 .. 1 /\ g = [n \in 1 .. 1 |-> g[n]]
      OBVIOUS
    <2> HIDE DEF g
    <2>2. IsList(g)
      BY <2>1, ListOf
    <2> QED
      BY <2>1, <2>2 DEF Compose!General, g
  <1> HIDE DEF p, A, T
  <1> QED
    BY <1>1, <1>2, <1>3, <1>4 DEF WellParsed, p

(* The prefix of a send is a text again, and so is one without topics.     *)
LEMMA PrefixIsText ==
    ASSUME NEW p, WellParsed(p)
    PROVE  IsList(Compose!BuildPrefix(p.agents, p.topics))
  <1> DEFINE ats == [n \in DOMAIN p.agents |-> Compose!At(p.agents[n])]
             all == [n \in DOMAIN p.topics |-> Compose!Hash(p.topics[n])]
             S == {n \in DOMAIN p.topics : p.topics[n] # "general"}
  <1>1. /\ Len(p.agents) \in Nat /\ DOMAIN p.agents = 1 .. Len(p.agents)
        /\ Len(p.topics) \in Nat /\ DOMAIN p.topics = 1 .. Len(p.topics)
    BY ListFacts DEF WellParsed
  <1>2. IsList(ats)
    <2>1. ats = [n \in 1 .. Len(p.agents) |-> ats[n]]
      BY <1>1
    <2> HIDE DEF ats
    <2> QED
      BY <1>1, <2>1, ListOf
  <1>3. S \in SUBSET (1 .. Len(p.topics))
    BY <1>1
  <1> HIDE DEF S, all, ats
  <1>4. IsList(Compose!Picked(all, S))
    BY <1>1, <1>3, PickedFrom
  <1>5. IsList(ats \o Compose!Picked(all, S))
    BY <1>2, <1>4, Joined
  <1> QED
    BY <1>5 DEF Compose!BuildPrefix, S, all, ats

LEMMA NeutralIsText ==
    ASSUME NEW t, IsList(t)
    PROVE  IsList(Compose!NeutralizeLeadingTopics(t))
  <1> DEFINE u == Compose!NeutralizeLeadingTopics(t)
  <1>1. Len(t) \in Nat /\ DOMAIN t = 1 .. Len(t)
    BY ListFacts
  <1>2. u = [n \in 1 .. Len(t) |-> u[n]]
    BY <1>1 DEF Compose!NeutralizeLeadingTopics
  <1> HIDE DEF u
  <1>3. IsList(u)
    BY <1>1, <1>2, ListOf
  <1> QED
    BY <1>3 DEF u

-----------------------------------------------------------------------------
(* Steps and threads                                                       *)

(* The step leaves the messages and what was posted to a, and its own new  *)
(* messages of a, and those it takes from the socket, are held or come.    *)
Carries(a) ==
    /\ \A m \in DOMAIN composerLog :
          m \in DOMAIN composerLog' /\ composerLog'[m] = composerLog[m]
    /\ \A m \in DOMAIN composerLog' :
          /\ composerLog'[m].to[1] = a
          /\ m \notin DOMAIN composerLog \/ m \in Compose!ToSet(composerDown)
          => \/ \E n \in DOMAIN threads[a] : RowOf(a, n).id = m
             \/ m \in Compose!ToSet(composerDown')
    /\ \A r \in DOMAIN sends : sends[r].at = "posting" =>
          /\ r \in DOMAIN sends' /\ sends'[r].at = "posting"
          /\ sends'[r].parsed = sends[r].parsed
          /\ \A q : q[1] = a => (q \in sends'[r].refused <=> q \in sends[r].refused)
    /\ (a \in crossed => a \in crossed') /\ (a \in buried => a \in buried')

(* The step adds rows of the topics t to a, in the name of send s.         *)
Adds(a, s, t) ==
    /\ DOMAIN threads'[a] = 1 .. Len(threads[a]) + Len(t)
    /\ \A n \in 1 .. Len(threads[a]) : threads'[a][n] = threads[a][n]
    /\ \A n \in 1 .. Len(t) : threads'[a][Len(threads[a]) + n] = Compose!Row(0, s, <<a, t[n]>>)
    /\ t # <<>> =>
          /\ s \in DOMAIN sends => sends[s].at # "posting"
          /\ s \in DOMAIN sends' /\ sends'[s].at = "posting" /\ sends'[s].refused = {}
    /\ \A n \in DOMAIN t : <<a, t[n]>> \in PairsOf(s)'
    /\ \A n, k \in DOMAIN t : t[n] = t[k] => n = k

(* What is sent is not changed, and whether the server alters it depends   *)
(* on the text alone.                                                      *)
LEMMA TextStays ==
    ASSUME NEW r, sends'[r].parsed = sends[r].parsed
    PROVE  /\ Compose!Message(r)' = Compose!Message(r)
           /\ Compose!Altered(r)' <=> Compose!Altered(r)
  BY DEF Compose!Message, Compose!Altered, Compose!Stored, Compose!SanitizeMessage, Compose!Words

LEMMA SameText ==
    ASSUME NEW r, NEW s, Compose!Message(r) = Compose!Message(s)
    PROVE  /\ Compose!Altered(r) <=> Compose!Altered(s)
           /\ ~Compose!Altered(r) => Compose!Stored(s) = Compose!Message(s)
  BY DEF Compose!Altered, Compose!Stored

LEMMA RowParts ==
    ASSUME NEW i, NEW s, NEW a, NEW t
    PROVE  LET r == Compose!Row(i, s, <<a, t>>) IN r.id = i /\ r.send = s /\ r.topic = t
  <1> DEFINE p == <<a, t>>
  <1>1. p[2] = t
    OBVIOUS
  <1> HIDE DEF p
  <1>2. LET r == Compose!Row(i, s, p) IN r.id = i /\ r.send = s /\ r.topic = t
    BY <1>1 DEF Compose!Row
  <1> QED
    BY <1>2 DEF p

LEMMA RowsAdded ==
    ASSUME NEW a \in Addressee, IsList(threads[a]), LogIsSent, ThreadIsSent(a),
           NEW s, NEW t, IsList(t), Carries(a), Adds(a, s, t)
    PROVE  ThreadIsSent(a)'
  <1> DEFINE L == Len(threads[a])
             M == Len(t)
  <1>0. PICK T : T = threads'[a]
    OBVIOUS
  <1> DEFINE New(n) == T[n]
  <1>1. /\ L \in Nat /\ DOMAIN threads[a] = 1 .. L
        /\ M \in Nat /\ DOMAIN t = 1 .. M /\ (M > 0 => t # <<>>)
    BY ListFacts
  <1>2. DOMAIN T = 1 .. L + M
    BY <1>0 DEF Adds
  <1>3. \A n \in 1 .. L : n \in 1 .. L + M /\ New(n) = RowOf(a, n)
    BY <1>0, <1>1 DEF Adds, RowOf
  <1>4. \A n \in 1 .. L + M : n \notin 1 .. L =>
           /\ n - L \in 1 .. M /\ M > 0 /\ New(n) = Compose!Row(0, s, <<a, t[n - L]>>)
    <2> SUFFICES ASSUME NEW n \in 1 .. L + M, n \notin 1 .. L
                 PROVE  n - L \in 1 .. M /\ M > 0 /\ New(n) = Compose!Row(0, s, <<a, t[n - L]>>)
      OBVIOUS
    <2>1. n - L \in 1 .. M /\ M > 0 /\ L + (n - L) = n
      BY <1>1
    <2>2. \A k \in 1 .. M : T[L + k] = Compose!Row(0, s, <<a, t[k]>>)
      BY <1>0 DEF Adds
    <2> HIDE DEF L, M
    <2>3. New(L + (n - L)) = Compose!Row(0, s, <<a, t[n - L]>>)
      BY <2>1, <2>2
    <2> QED
      BY <2>1, <2>3
  <1>5. \A n \in 1 .. L + M : n \notin 1 .. L =>
           New(n).id = 0 /\ New(n).send = s /\ New(n).topic = t[n - L]
    <2> SUFFICES ASSUME NEW n \in 1 .. L + M, n \notin 1 .. L
                 PROVE  New(n).id = 0 /\ New(n).send = s /\ New(n).topic = t[n - L]
      OBVIOUS
    <2> DEFINE u == t[n - L]
    <2>1. New(n) = Compose!Row(0, s, <<a, u>>)
      BY <1>4
    <2> HIDE DEF u, New
    <2>2. LET r == Compose!Row(0, s, <<a, u>>) IN r.id = 0 /\ r.send = s /\ r.topic = u
      BY RowParts
    <2>3. New(n).id = 0 /\ New(n).send = s /\ New(n).topic = u
      BY <2>1, <2>2
    <2> QED
      BY <2>3 DEF u
  <1>6. M > 0 => /\ s \in DOMAIN sends => sends[s].at # "posting"
                 /\ s \in DOMAIN sends' /\ sends'[s].at = "posting" /\ sends'[s].refused = {}
    BY <1>1 DEF Adds
  <1>7. \A n \in 1 .. M : <<a, t[n]>> \in PairsOf(s)'
    BY <1>1 DEF Adds
  <1>8. \A n, k \in 1 .. M : t[n] = t[k] => n = k
    BY <1>1 DEF Adds
  <1>9. \A r \in DOMAIN sends : sends[r].at = "posting" =>
           /\ r \in DOMAIN sends' /\ sends'[r].at = "posting" /\ (M > 0 => r # s)
           /\ PairsOf(r)' = PairsOf(r) /\ Compose!Message(r)' = Compose!Message(r)
           /\ Compose!Altered(r)' <=> Compose!Altered(r)
           /\ \A q : q[1] = a => (q \in sends'[r].refused <=> q \in sends[r].refused)
    BY <1>6, TextStays DEF Carries, PairsOf
  <1>10. \A m \in DOMAIN composerLog :
           m \in DOMAIN composerLog' /\ composerLog'[m] = composerLog[m]
    BY DEF Carries
  <1>11. \A n \in 1 .. L : RowOf(a, n).send \in DOMAIN sends /\ sends[RowOf(a, n).send].at = "posting"
    BY <1>1 DEF ThreadIsSent, RowsAreSent
  <1>12. \A n \in 1 .. L : RowOf(a, n).id # 0 =>
           /\ RowOf(a, n).id \in DOMAIN composerLog /\ composerLog[RowOf(a, n).id].to[1] = a
    BY <1>1 DEF ThreadIsSent, RowsAreSent
  <1> HIDE DEF L, M
  <1>13. RowsAreSent(a)'
    <2>1. ASSUME NEW n \in 1 .. L + M
          PROVE  /\ New(n) = Compose!Row(New(n).id, New(n).send, <<a, New(n).topic>>)
                 /\ New(n).send \in DOMAIN sends' /\ sends'[New(n).send].at = "posting"
                 /\ New(n).id # 0 => /\ New(n).id \in DOMAIN composerLog'
                                     /\ composerLog'[New(n).id].to[1] = a
      <3>1. CASE n \in 1 .. L
        <4>1. RowOf(a, n) = Compose!Row(RowOf(a, n).id, RowOf(a, n).send, <<a, RowOf(a, n).topic>>)
          BY <1>1, <3>1 DEF ThreadIsSent, RowsAreSent
        <4> QED
          BY <1>3, <1>9, <1>10, <1>11, <1>12, <3>1, <4>1
      <3>2. CASE n \notin 1 .. L
        BY <1>4, <1>5, <1>6, <3>2
      <3> QED
        BY <3>1, <3>2
    <2>2. \A n, k \in 1 .. L + M : New(n).id = New(k).id /\ New(n).id # 0 => n = k
      <3>1. \A n, k \in 1 .. L : RowOf(a, n).id = RowOf(a, k).id /\ RowOf(a, n).id # 0 => n = k
        BY <1>1 DEF ThreadIsSent, RowsAreSent
      <3> QED
        BY <1>3, <1>5, <3>1
    <2>3. \A m \in DOMAIN composerLog' : composerLog'[m].to[1] = a =>
             \/ \E n \in 1 .. L : RowOf(a, n).id = m
             \/ m \in Compose!ToSet(composerDown')
      <3>1. \A m \in DOMAIN composerLog : composerLog[m].to[1] = a =>
               (\E n \in 1 .. L : RowOf(a, n).id = m) \/ m \in Compose!ToSet(composerDown)
        BY <1>1 DEF ThreadIsSent, RowsAreSent
      <3> QED
        BY <1>1, <1>10, <3>1 DEF Carries
    <2>5. \A m \in DOMAIN composerLog' : composerLog'[m].to[1] = a =>
             \/ \E n \in 1 .. L + M : New(n).id = m
             \/ m \in Compose!ToSet(composerDown')
      BY <1>3, <2>3
    <2> QED
      BY <1>0, <1>2, <2>1, <2>2, <2>5 DEF RowsAreSent, RowOf, Compose!ToSet
  <1>14. \A r, p : Came(a, r, p)' <=> Came(a, r, p)
    <2> TAKE r, p
    <2>1. Came(a, r, p)' <=> \E n \in 1 .. L + M :
             New(n).id # 0 /\ composerLog'[New(n).id].send = r /\ composerLog'[New(n).id].to = p
      BY <1>0, <1>2 DEF Came, RowOf
    <2>2. Came(a, r, p) <=> \E n \in 1 .. L :
             /\ RowOf(a, n).id # 0
             /\ composerLog[RowOf(a, n).id].send = r /\ composerLog[RowOf(a, n).id].to = p
      BY <1>1 DEF Came
    <2> QED
      BY <1>3, <1>5, <1>10, <1>12, <2>1, <2>2
  <1>15. \A r, p : IsOwed(a, r, p) => IsOwed(a, r, p)'
    BY <1>9, <1>14 DEF IsOwed
  <1>16. \A n \in 1 .. L + M : \A r, u : n \notin 1 .. L /\ r = s /\ t[n - L] = u
            => IsOwed(a, r, <<a, u>>)'
    <2> SUFFICES ASSUME NEW n \in 1 .. L + M, n \notin 1 .. L, NEW r, NEW u, r = s, t[n - L] = u
                 PROVE  IsOwed(a, r, <<a, u>>)'
      OBVIOUS
    <2>0. s \in DOMAIN sends' /\ sends'[s].at = "posting" /\ sends'[s].refused = {} /\ M > 0
      BY <1>4, <1>6
    <2> DEFINE q == <<a, u>>
    <2>1. q[1] = a /\ q \in PairsOf(s)'
      BY <1>4, <1>7
    <2> HIDE DEF q
    <2>2. ~Came(a, s, q)
      <3> SUFFICES ASSUME NEW k \in 1 .. L, RowOf(a, k).id # 0,
                          composerLog[RowOf(a, k).id].send = s
                   PROVE  FALSE
        BY <1>1 DEF Came
      <3>1. RowOf(a, k).id \in DOMAIN composerLog
        BY <1>12
      <3>2. s \in DOMAIN sends /\ sends[s].at = "posting"
        BY <3>1 DEF LogIsSent
      <3> QED
        BY <1>6, <2>0, <3>2
    <2>3. ~Came(a, s, q)'
      BY <1>14, <2>2
    <2>4. q \notin sends'[s].refused
      BY <2>0
    <2>5. IsOwed(a, s, q)'
      BY <2>0, <2>1, <2>3, <2>4 DEF IsOwed
    <2>6. IsOwed(a, r, q)'
      BY <2>5
    <2> QED
      BY <2>6 DEF q
  <1>17. /\ \A n \in Waiting(a)' : n \in 1 .. L + M
         /\ \A n \in Waiting(a)' : n \in 1 .. L => n \in Waiting(a)
    <2>1. /\ Waiting(a)' = {n \in 1 .. L + M : New(n).id = 0 /\ ~Compose!Altered(New(n).send)'}
          /\ Waiting(a) = {n \in 1 .. L : RowOf(a, n).id = 0 /\ ~Compose!Altered(RowOf(a, n).send)}
      BY <1>0, <1>1, <1>2 DEF Waiting, RowOf
    <2>2. \A n \in 1 .. L : /\ New(n) = RowOf(a, n) /\ New(n).send \in DOMAIN sends
                            /\ sends[New(n).send].at = "posting"
      BY <1>3, <1>11
    <2> HIDE DEF New
    <2>3. \A n \in 1 .. L : Compose!Altered(New(n).send)' <=> Compose!Altered(New(n).send)
      BY <1>9, <2>2
    <2>4. \A n \in 1 .. L : Compose!Altered(New(n).send) <=> Compose!Altered(RowOf(a, n).send)
      BY <2>2
    <2> QED
      BY <2>1, <2>2, <2>3, <2>4
  <1>18. ASSUME RowsAreOwed(a), a \notin crossed PROVE RowsAreOwed(a)'
    <2>1. ASSUME NEW n \in Waiting(a)', NEW r, NEW u, New(n).send = r, New(n).topic = u
          PROVE  IsOwed(a, r, <<a, u>>)'
      <3>1. CASE n \in 1 .. L
        <4>1. n \in Waiting(a) /\ New(n) = RowOf(a, n)
          BY <1>3, <1>17, <2>1, <3>1
        <4>2. IsOwed(a, r, <<a, u>>)
          BY <1>18, <2>1, <4>1 DEF RowsAreOwed
        <4> QED
          BY <1>15, <4>2
      <3>2. CASE n \notin 1 .. L
        <4>1. New(n).send = s /\ New(n).topic = t[n - L] /\ n \in 1 .. L + M
          BY <1>5, <1>17, <2>1, <3>2
        <4> QED
          BY <1>16, <2>1, <3>2, <4>1
      <3> QED
        BY <3>1, <3>2
    <2>2. ASSUME NEW n \in Waiting(a)', NEW k \in Waiting(a)', New(n) = New(k) PROVE n = k
      <3>1. n \in 1 .. L + M /\ k \in 1 .. L + M
        BY <1>17, <2>2
      <3>2. CASE n \in 1 .. L /\ k \in 1 .. L
        BY <1>3, <1>17, <1>18, <2>2, <3>2 DEF RowsAreOwed
      <3>3. CASE n \notin 1 .. L /\ k \notin 1 .. L
        <4>1. t[n - L] = t[k - L] /\ n - L \in 1 .. M /\ k - L \in 1 .. M
          BY <1>4, <1>5, <2>2, <3>1, <3>3
        <4>2. n - L = k - L
          BY <1>8, <4>1
        <4> QED
          BY <1>1, <3>1, <4>2
      <3>4. ASSUME NEW i \in 1 .. L, NEW j \in 1 .. L + M, j \notin 1 .. L, New(i) = New(j) PROVE FALSE
        <4>1. New(i).send = s /\ M > 0
          BY <1>4, <1>5, <3>4
        <4> QED
          BY <1>3, <1>6, <1>11, <4>1
      <3> QED
        BY <2>2, <3>1, <3>2, <3>3, <3>4
    <2>3. \A n : RowOf(a, n)' = New(n)
      BY <1>0 DEF RowOf
    <2>4. ASSUME NEW n \in Waiting(a)', NEW r, NEW u, RowOf(a, n)'.send = r, RowOf(a, n)'.topic = u
          PROVE  IsOwed(a, r, <<a, u>>)'
      <3>1. New(n).send = r /\ New(n).topic = u
        BY <2>3, <2>4
      <3> QED
        BY <2>1, <3>1
    <2>5. \A n, k \in Waiting(a)' : RowOf(a, n)' = RowOf(a, k)' => n = k
      BY <2>2, <2>3
    <2> QED
      BY <2>4, <2>5 DEF RowsAreOwed
  <1>19. ASSUME RowsHaveShare(a) PROVE RowsHaveShare(a)'
    <2>1. ASSUME ~Compose!Refused(a)' PROVE ~Compose!Refused(a)
      BY <1>9, <2>1 DEF Compose!Refused, LogIsSent
    <2> SUFFICES ASSUME ~Compose!Refused(a)'
                 PROVE  \E g \in [Waiting(a)' -> Owed(a)'] : IsShare(a, g)'
      BY DEF RowsHaveShare
    <2>2. PICK f \in [Waiting(a) -> Owed(a)] : IsShare(a, f)
      BY <1>19, <2>1 DEF RowsHaveShare
    <2>w. PICK W : W = Waiting(a)'
      OBVIOUS
    <2> DEFINE g == [n \in W |-> IF n \in 1 .. L THEN f[n] ELSE <<s, <<a, t[n - L]>>>>]
    <2>3. \A n \in W : n \in 1 .. L => n \in Waiting(a)
      BY <1>3, <1>17, <2>w
    <2>4. \A n \in Waiting(a) : /\ f[n] \in Owed(a) /\ IsOwed(a, f[n][1], f[n][2])
                                /\ f[n] = <<f[n][1], f[n][2]>>
      <3> SUFFICES ASSUME NEW n \in Waiting(a)
                   PROVE  /\ f[n] \in Owed(a) /\ IsOwed(a, f[n][1], f[n][2])
                          /\ f[n] = <<f[n][1], f[n][2]>>
        OBVIOUS
      <3>1. f[n] \in Owed(a)
        OBVIOUS
      <3>2. f[n] \in (DOMAIN sends) \X AllPairs /\ IsOwed(a, f[n][1], f[n][2])
        BY <3>1 DEF Owed
      <3> QED
        BY <3>1, <3>2
    <2>5. \A r, p : IsOwed(a, r, p)' => <<r, p>> \in Owed(a)'
      <3> SUFFICES ASSUME NEW r, NEW p, IsOwed(a, r, p)' PROVE <<r, p>> \in Owed(a)'
        OBVIOUS
      <3>1. r \in DOMAIN sends' /\ p \in PairsOf(r)'
        BY DEF IsOwed
      <3>2. p \in AllPairs'
        BY <3>1 DEF AllPairs
      <3> DEFINE q == <<r, p>>
      <3>3. q \in (DOMAIN sends') \X AllPairs' /\ q[1] = r /\ q[2] = p
        BY <3>1, <3>2
      <3> HIDE DEF q
      <3>4. q \in Owed(a)'
        BY <3>3 DEF Owed
      <3> QED
        BY <3>4 DEF q
    <2>6. \A n \in W : n \notin 1 .. L => <<s, <<a, t[n - L]>>>> \in Owed(a)'
      <3> SUFFICES ASSUME NEW n \in W, n \notin 1 .. L
                   PROVE  <<s, <<a, t[n - L]>>>> \in Owed(a)'
        OBVIOUS
      <3>1. n \in 1 .. L + M
        BY <1>17, <2>w
      <3>2. PICK u : u = t[n - L]
        OBVIOUS
      <3>3. IsOwed(a, s, <<a, u>>)'
        BY <1>16, <3>1, <3>2
      <3>4. PICK p : p = <<a, u>>
        OBVIOUS
      <3>5. IsOwed(a, s, p)'
        BY <3>3, <3>4
      <3>6. <<s, p>> \in Owed(a)'
        BY <2>5, <3>5
      <3> QED
        BY <3>2, <3>4, <3>6
    <2>7. \A n \in Waiting(a) : f[n] \in Owed(a)'
      <3> SUFFICES ASSUME NEW n \in Waiting(a) PROVE f[n] \in Owed(a)'
        OBVIOUS
      <3>1. <<f[n][1], f[n][2]>> \in Owed(a)'
        BY <1>15, <2>4, <2>5
      <3> QED
        BY <2>4, <3>1
    <2>8. g \in [W -> Owed(a)']
      BY <2>3, <2>6, <2>7
    <2>9. \A n \in W : sends'[g[n][1]].parsed.message = sends'[New(n).send].parsed.message
      <3> SUFFICES ASSUME NEW n \in W
                   PROVE  sends'[g[n][1]].parsed.message = sends'[New(n).send].parsed.message
        OBVIOUS
      <3>1. CASE n \in 1 .. L
        <4>1. n \in Waiting(a) /\ g[n] = f[n] /\ New(n) = RowOf(a, n)
          BY <1>3, <2>3, <3>1
        <4>2. sends[f[n][1]].parsed.message = sends[New(n).send].parsed.message
          BY <2>2, <4>1 DEF IsShare, Compose!Message
        <4>3. sends'[f[n][1]].parsed.message = sends[f[n][1]].parsed.message
          BY <1>9, <2>4, <4>1 DEF IsOwed, Compose!Message
        <4>4. sends'[New(n).send].parsed.message = sends[New(n).send].parsed.message
          BY <1>9, <1>11, <3>1, <4>1 DEF Compose!Message
        <4> QED
          BY <4>1, <4>2, <4>3, <4>4
      <3>2. CASE n \notin 1 .. L
        <4>1. New(n).send = s
          BY <1>5, <1>17, <2>w, <3>2
        <4>2. g[n][1] = s
          BY <3>2
        <4> QED
          BY <4>1, <4>2
      <3> QED
        BY <3>1, <3>2
    <2>10. ASSUME NEW n \in W, NEW k \in W, g[n] = g[k] PROVE n = k
      <3>1. n \in 1 .. L + M /\ k \in 1 .. L + M
        BY <1>17, <2>w, <2>10
      <3>2. CASE n \in 1 .. L /\ k \in 1 .. L
        <4>1. f[n] = f[k] /\ n \in Waiting(a) /\ k \in Waiting(a)
          BY <2>3, <2>10, <3>2
        <4> QED
          BY <2>2, <4>1 DEF IsShare
      <3>3. CASE n \notin 1 .. L /\ k \notin 1 .. L
        <4>1. g[n][2][2] = t[n - L] /\ g[k][2][2] = t[k - L]
          BY <2>10, <3>3
        <4>2. t[n - L] = t[k - L] /\ n - L \in 1 .. M /\ k - L \in 1 .. M
          BY <1>4, <2>10, <3>1, <3>3, <4>1
        <4>3. n - L = k - L
          BY <1>8, <4>2
        <4> QED
          BY <1>1, <3>1, <4>3
      <3>4. ASSUME NEW i \in W, NEW j \in W, i \in 1 .. L, j \notin 1 .. L,
                   g[i] = g[j]
            PROVE  FALSE
        <4>1. g[j][1] = s /\ g[i] = f[i] /\ i \in Waiting(a)
          BY <2>3, <3>4
        <4>2. sends[s].at = "posting" /\ s \in DOMAIN sends
          BY <2>4, <3>4, <4>1 DEF IsOwed
        <4>3. M > 0
          BY <1>4, <1>17, <2>w, <3>4
        <4> QED
          BY <1>6, <4>2, <4>3
      <3> QED
        BY <2>10, <3>1, <3>2, <3>3, <3>4
    <2> HIDE DEF g
    <2>11. \A n, k \in W : g[n] = g[k] => n = k
      BY <2>10
    <2> QED
      BY <1>0, <2>w, <2>8, <2>9, <2>11 DEF IsShare, RowOf, Compose!Message
  <1> QED
    BY <1>13, <1>18, <1>19 DEF ThreadIsSent, Carries, RowsAreOwed

(* A pair of a is its agent and its topic.                                 *)
LEMMA PairParts ==
    ASSUME NEW s, NEW p \in PairsOf(s)
    PROVE  p = <<p[1], p[2]>> /\ p[1] \in Compose!ToSet(sends[s].parsed.agents)
  BY DEF PairsOf, Compose!Pairs

(* A row of a that waits is the one of a pair, when send and topic are.    *)
LEMMA WaitingRow ==
    ASSUME NEW a, RowsAreSent(a), NEW n \in Waiting(a), NEW s, NEW p, p = <<a, p[2]>>,
           RowOf(a, n).send = s, RowOf(a, n).topic = p[2]
    PROVE  RowOf(a, n) = Compose!Row(0, s, p)
  <1>1. RowOf(a, n) = Compose!Row(0, s, <<a, p[2]>>)
    BY DEF RowsAreSent, Waiting
  <1> QED
    BY <1>1

(* A refusal takes out the row of its pair, if that is still there.        *)
LEMMA RowTakenOut ==
    ASSUME NEW s \in DOMAIN sends, NEW p \in PairsOf(s), NEW a \in Addressee, a = p[1],
           IsList(threads[a]), IsList(composerLog), ThreadIsSent(a), sends[s].at = "posting",
           threads'[a] = Compose!RemoveFirst(threads[a], Compose!Row(0, s, p)),
           DOMAIN sends' = DOMAIN sends,
           \A r \in DOMAIN sends :
              /\ sends'[r].at = sends[r].at /\ sends'[r].parsed = sends[r].parsed
              /\ sends'[r].refused = IF r = s THEN sends[s].refused \cup {p} ELSE sends[r].refused,
           UNCHANGED <<composerLog, composerDown, crossed, buried>>
    PROVE  ThreadIsSent(a)'
  <1> DEFINE x == Compose!Row(0, s, p)
             Old(n) == RowOf(a, n)
             L == Len(threads[a])
  <1>0. PICK T : T = threads'[a]
    OBVIOUS
  <1>1. L \in Nat /\ DOMAIN threads[a] = 1 .. L
    BY ListFacts
  <1>2. p = <<a, p[2]>> /\ x.id = 0
    BY PairParts DEF Compose!Row
  <1>3. PICK h : /\ \A n \in DOMAIN T : h[n] \in 1 .. L /\ T[n] = Old(h[n])
                 /\ \A n, k \in DOMAIN T : h[n] = h[k] => n = k
                 /\ \A k \in 1 .. L : (\E n \in DOMAIN T : h[n] = k) \/ Old(k) = x
                 /\ \A n \in DOMAIN T : Old(h[n]) = x => \E k \in 1 .. L : k # h[n] /\ Old(k) = x
    <2>1. \/ T = threads[a] /\ \A n \in DOMAIN threads[a] : threads[a][n] # x
          \/ \E i \in DOMAIN threads[a] :
                /\ threads[a][i] = x /\ DOMAIN T = 1 .. L - 1
                /\ \A n \in 1 .. L - 1 : T[n] = IF n < i THEN threads[a][n] ELSE threads[a][n + 1]
      BY <1>0, TakenOut
    <2>2. CASE T = threads[a] /\ \A n \in DOMAIN threads[a] : threads[a][n] # x
      <3> DEFINE h == [n \in 1 .. L |-> n]
      <3> HIDE DEF x
      <3>1. /\ \A n \in DOMAIN T : h[n] \in 1 .. L /\ T[n] = Old(h[n])
            /\ \A n, k \in DOMAIN T : h[n] = h[k] => n = k
            /\ \A k \in 1 .. L : (\E n \in DOMAIN T : h[n] = k) \/ Old(k) = x
            /\ \A n \in DOMAIN T : Old(h[n]) = x => \E k \in 1 .. L : k # h[n] /\ Old(k) = x
        BY <1>1, <2>2 DEF RowOf
      <3> QED
        BY <3>1
    <2>3. CASE \E i \in DOMAIN threads[a] :
                  /\ threads[a][i] = x /\ DOMAIN T = 1 .. L - 1
                  /\ \A n \in 1 .. L - 1 : T[n] = IF n < i THEN threads[a][n] ELSE threads[a][n + 1]
      <3>1. PICK i \in 1 .. L :
               /\ Old(i) = x /\ DOMAIN T = 1 .. L - 1
               /\ \A n \in 1 .. L - 1 : T[n] = IF n < i THEN Old(n) ELSE Old(n + 1)
        BY <1>1, <2>3 DEF RowOf
      <3> DEFINE h == [n \in 1 .. L - 1 |-> IF n < i THEN n ELSE n + 1]
      <3> HIDE DEF x, L, Old
      <3>2. \A n \in 1 .. L - 1 : h[n] \in 1 .. L /\ h[n] # i
        BY <1>1
      <3>3. \A n \in 1 .. L - 1 : T[n] = Old(h[n])
        BY <1>1, <3>1
      <3>4. \A n, k \in 1 .. L - 1 : h[n] = h[k] => n = k
        BY <1>1
      <3>5. ASSUME NEW k \in 1 .. L, Old(k) # x PROVE \E n \in 1 .. L - 1 : h[n] = k
        <4>1. k # i
          BY <3>1, <3>5
        <4>2. CASE k < i
          <5>1. k \in 1 .. L - 1 /\ h[k] = k
            BY <1>1, <4>2
          <5> QED
            BY <5>1
        <4>3. CASE ~(k < i)
          <5>1. k - 1 \in 1 .. L - 1 /\ ~(k - 1 < i) /\ (k - 1) + 1 = k
            BY <1>1, <4>1, <4>3
          <5>2. h[k - 1] = k
            BY <5>1
          <5> QED
            BY <5>1, <5>2
        <4> QED
          BY <4>2, <4>3
      <3>6. \A n \in 1 .. L - 1 : \E k \in 1 .. L : k # h[n] /\ Old(k) = x
        BY <3>1, <3>2
      <3> HIDE DEF h
      <3>7. /\ \A n \in DOMAIN T : h[n] \in 1 .. L /\ T[n] = Old(h[n])
            /\ \A n, k \in DOMAIN T : h[n] = h[k] => n = k
            /\ \A k \in 1 .. L : (\E n \in DOMAIN T : h[n] = k) \/ Old(k) = x
            /\ \A n \in DOMAIN T : Old(h[n]) = x => \E k \in 1 .. L : k # h[n] /\ Old(k) = x
        BY <3>1, <3>2, <3>3, <3>4, <3>5, <3>6
      <3> QED
        BY <3>7 DEF Old
    <2> QED
      BY <2>1, <2>2, <2>3
  <1> HIDE DEF x, L
  <1>4. RowsAreSent(a)
    BY DEF ThreadIsSent
  <1>5. RowsAreSent(a)'
    <2>1. \A n \in DOMAIN T :
             /\ T[n] = Compose!Row(T[n].id, T[n].send, <<a, T[n].topic>>)
             /\ T[n].send \in DOMAIN sends' /\ sends'[T[n].send].at = "posting"
             /\ T[n].id # 0 => T[n].id \in DOMAIN composerLog /\ composerLog[T[n].id].to[1] = a
      BY <1>1, <1>3, <1>4 DEF RowsAreSent
    <2>2. \A n, k \in DOMAIN T : T[n].id = T[k].id /\ T[n].id # 0 => n = k
      <3>1. \A n, k \in 1 .. L : Old(n).id = Old(k).id /\ Old(n).id # 0 => n = k
        BY <1>1, <1>4 DEF RowsAreSent
      <3> QED
        BY <1>3, <3>1
    <2>3. \A m \in DOMAIN composerLog : composerLog[m].to[1] = a =>
             (\E n \in DOMAIN T : T[n].id = m) \/ m \in Compose!ToSet(composerDown)
      <3> SUFFICES ASSUME NEW m \in DOMAIN composerLog, composerLog[m].to[1] = a,
                          m \notin Compose!ToSet(composerDown)
                   PROVE  \E n \in DOMAIN T : T[n].id = m
        OBVIOUS
      <3>0. m # 0
        BY ListFacts
      <3>1. PICK k \in 1 .. L : Old(k).id = m
        BY <1>1, <1>4 DEF RowsAreSent
      <3>2. Old(k) # x
        BY <1>2, <3>0, <3>1
      <3> QED
        BY <1>3, <3>1, <3>2
    <2> QED
      BY <1>0, <2>1, <2>2, <2>3 DEF RowsAreSent, RowOf, Compose!ToSet
  <1>6. \A r, q : Came(a, r, q)' <=> Came(a, r, q)
    <2> TAKE r, q
    <2>1. Came(a, r, q)' <=> \E n \in DOMAIN T :
             T[n].id # 0 /\ composerLog[T[n].id].send = r /\ composerLog[T[n].id].to = q
      BY <1>0 DEF Came, RowOf
    <2>2. Came(a, r, q) <=> \E k \in 1 .. L :
             Old(k).id # 0 /\ composerLog[Old(k).id].send = r /\ composerLog[Old(k).id].to = q
      BY <1>1 DEF Came
    <2>3. \A k \in 1 .. L : Old(k).id # 0 => \E n \in DOMAIN T : T[n] = Old(k)
      BY <1>2, <1>3
    <2> QED
      BY <1>3, <2>1, <2>2, <2>3
  <1>7. ASSUME a \notin crossed, RowsAreOwed(a) PROVE RowsAreOwed(a)'
    <2>1. \A n \in DOMAIN T : T[n].id = 0 /\ ~Compose!Altered(T[n].send)
             => h[n] \in Waiting(a) /\ T[n] = Old(h[n])
      BY <1>1, <1>3 DEF Waiting
    <2>2. \A n, k \in Waiting(a) : Old(n) = Old(k) => n = k
      BY <1>7 DEF RowsAreOwed
    <2>3. \A n \in DOMAIN T : ~Compose!Altered(T[n].send) => T[n] # x
      <3> SUFFICES ASSUME NEW n \in DOMAIN T, ~Compose!Altered(T[n].send), T[n] = x PROVE FALSE
        OBVIOUS
      <3>1. PICK k \in 1 .. L : k # h[n] /\ Old(k) = x
        BY <1>3
      <3>2. k \in Waiting(a) /\ h[n] \in Waiting(a) /\ Old(h[n]) = x
        BY <1>1, <1>2, <1>3, <2>1, <3>1 DEF Waiting
      <3> QED
        BY <2>2, <3>1, <3>2
    <2>4. ASSUME NEW n \in DOMAIN T, T[n].id = 0, ~Compose!Altered(T[n].send),
                 NEW r, NEW t, T[n].send = r, T[n].topic = t
          PROVE  IsOwed(a, r, <<a, t>>)'
      <3>1. h[n] \in Waiting(a) /\ Old(h[n]) = T[n]
        BY <2>1, <2>4
      <3>2. IsOwed(a, r, <<a, t>>)
        BY <1>7, <2>4, <3>1 DEF RowsAreOwed
      <3>3. ~(r = s /\ <<a, t>> = p)
        <4> SUFFICES ASSUME r = s, <<a, t>> = p PROVE FALSE
          OBVIOUS
        <4>1. p[2] = t
          OBVIOUS
        <4>2. Old(h[n]).send = s /\ Old(h[n]).topic = p[2]
          BY <2>4, <3>1, <4>1
        <4>3. Old(h[n]) = x
          BY <1>2, <1>4, <3>1, <4>2, WaitingRow DEF x
        <4> QED
          BY <2>3, <2>4, <3>1, <4>3
      <3>4. PICK q : q = <<a, t>>
        OBVIOUS
      <3>5. IsOwed(a, r, q) /\ ~(r = s /\ q = p)
        BY <3>2, <3>3, <3>4
      <3>6. PairsOf(r)' = PairsOf(r)
        BY <3>5 DEF IsOwed, PairsOf
      <3>7. q \notin sends'[r].refused
        BY <3>5 DEF IsOwed
      <3>8. ~Came(a, r, q)'
        BY <1>6, <3>5 DEF IsOwed
      <3>9. IsOwed(a, r, q)'
        BY <3>5, <3>6, <3>7, <3>8 DEF IsOwed
      <3> QED
        BY <3>4, <3>9
    <2>5. \A n, k \in DOMAIN T :
             T[n].id = 0 /\ ~Compose!Altered(T[n].send) /\ T[n] = T[k] => n = k
      BY <1>3, <2>1, <2>2
    <2>6. /\ \A n : RowOf(a, n)' = T[n]
          /\ \A n \in Waiting(a)' : n \in DOMAIN T /\ T[n].id = 0 /\ ~Compose!Altered(T[n].send)
      <3>1. /\ \A n : RowOf(a, n)' = T[n]
            /\ Waiting(a)' = {n \in DOMAIN T : T[n].id = 0 /\ ~Compose!Altered(T[n].send)'}
        BY <1>0 DEF Waiting, RowOf
      <3>2. \A n \in DOMAIN T : T[n].send \in DOMAIN sends
        BY <1>1, <1>3, <1>4 DEF RowsAreSent
      <3>3. \A n \in DOMAIN T : Compose!Altered(T[n].send)' <=> Compose!Altered(T[n].send)
        BY <3>2, TextStays
      <3> QED
        BY <3>1, <3>3
    <2>7. ASSUME NEW n \in Waiting(a)', NEW r, NEW t, RowOf(a, n)'.send = r, RowOf(a, n)'.topic = t
          PROVE  IsOwed(a, r, <<a, t>>)'
      BY <2>4, <2>6, <2>7
    <2>8. \A n, k \in Waiting(a)' : RowOf(a, n)' = RowOf(a, k)' => n = k
      BY <2>5, <2>6
    <2> QED
      BY <2>7, <2>8 DEF RowsAreOwed
  <1>8. RowsHaveShare(a)'
    <2>1. p \in sends'[s].refused /\ s \in DOMAIN sends'
      OBVIOUS
    <2>2. Compose!Refused(a)'
      BY <2>1 DEF Compose!Refused
    <2> QED
      BY <2>2 DEF RowsHaveShare
  <1>9. a \in crossed => RowsAreOwed(a)'
    BY DEF RowsAreOwed
  <1> QED
    BY <1>5, <1>7, <1>8, <1>9 DEF ThreadIsSent

-----------------------------------------------------------------------------
(* A message that no row has yet comes to the row at place k of a: a new   *)
(* one, when no row that waits has its words, or one of these.             *)
Arrives(a, m, k) ==
    LET s == composerLog[m].send
        p == composerLog[m].to
    IN /\ DOMAIN threads'[a] = DOMAIN threads[a] \cup {k}
       /\ threads'[a][k] = Compose!Row(m, s, p)
       /\ \A n \in DOMAIN threads[a] : n # k => threads'[a][n] = threads[a][n]
       /\ k \in DOMAIN threads[a] =>
             /\ RowOf(a, k).id = 0
             /\ Compose!Message(RowOf(a, k).send) = Compose!Stored(s)
             /\ a \in crossed' \/ RowOf(a, k) = Compose!Row(0, s, p)
       /\ \/ k \in DOMAIN threads[a]
          \/ a \in buried'
          \/ \A n \in Waiting(a) : Compose!Message(RowOf(a, n).send) # Compose!Stored(s)

LEMMA RowArrives ==
    ASSUME NEW a \in Addressee, NEW m \in DOMAIN composerLog, composerLog[m].to[1] = a,
           \A n \in DOMAIN threads[a] : RowOf(a, n).id # m,
           NEW k, IsList(composerLog), LogIsSent, ThreadIsSent(a), Arrives(a, m, k),
           \A l \in Compose!ToSet(composerDown) : l = m \/ l \in Compose!ToSet(composerDown'),
           a \in crossed => a \in crossed', a \in buried => a \in buried',
           UNCHANGED <<sends, composerLog>>
    PROVE  ThreadIsSent(a)'
  <1> DEFINE D == DOMAIN threads[a]
             s == composerLog[m].send
             p == composerLog[m].to
             Old(n) == RowOf(a, n)
             Text(r) == sends[r].parsed.message
  <1>0. PICK T : T = threads'[a]
    OBVIOUS
  <1>1. /\ s \in DOMAIN sends /\ sends[s].at = "posting" /\ p \in PairsOf(s)
        /\ p[1] = a /\ p = <<a, p[2]>> /\ m # 0
    BY PairParts, ListFacts DEF LogIsSent
  <1>2. /\ DOMAIN T = D \cup {k} /\ T[k] = Compose!Row(m, s, p)
        /\ \A n \in D : n # k => T[n] = Old(n)
    BY <1>0 DEF Arrives, RowOf
  <1>3. T[k].id = m /\ T[k].send = s /\ T[k].topic = p[2]
    BY <1>2 DEF Compose!Row
  <1>4. k \in D => Old(k).id = 0 /\ (a \in crossed' \/ Old(k) = Compose!Row(0, s, p))
    BY DEF Arrives
  <1>5. ASSUME a \notin buried', NEW n \in Waiting(a), Text(Old(n).send) = Text(s)
        PROVE  k \in Waiting(a) /\ Text(Old(k).send) = Text(s)
    <2>1. Compose!Message(Old(n).send) = Compose!Message(s)
      BY <1>5 DEF Compose!Message
    <2>2. ~Compose!Altered(Old(n).send)
      BY <1>5 DEF Waiting
    <2>3. Compose!Stored(s) = Compose!Message(s)
      BY <2>1, <2>2, SameText
    <2>4. k \in D /\ Compose!Message(Old(k).send) = Compose!Stored(s)
      BY <1>5, <2>1, <2>3 DEF Arrives
    <2>5. ~Compose!Altered(Old(k).send)
      BY <2>1, <2>2, <2>3, <2>4, SameText
    <2> QED
      BY <1>4, <2>3, <2>4, <2>5 DEF Waiting, Compose!Message
  <1>6. \A n \in D : Old(n).id # m
    OBVIOUS
  <1>7. RowsAreSent(a)
    BY DEF ThreadIsSent
  <1> HIDE DEF s, p
  <1>8. RowsAreSent(a)'
    <2>1. \A n \in DOMAIN T :
             /\ T[n] = Compose!Row(T[n].id, T[n].send, <<a, T[n].topic>>)
             /\ T[n].send \in DOMAIN sends /\ sends[T[n].send].at = "posting"
             /\ T[n].id # 0 => T[n].id \in DOMAIN composerLog /\ composerLog[T[n].id].to[1] = a
      BY <1>1, <1>2, <1>3, <1>7 DEF RowsAreSent
    <2>2. \A n, l \in DOMAIN T : T[n].id = T[l].id /\ T[n].id # 0 => n = l
      <3>1. \A n, l \in D : Old(n).id = Old(l).id /\ Old(n).id # 0 => n = l
        BY <1>7 DEF RowsAreSent
      <3> QED
        BY <1>2, <1>3, <1>6, <3>1
    <2>3. \A l \in DOMAIN composerLog : composerLog[l].to[1] = a =>
             (\E n \in DOMAIN T : T[n].id = l) \/ l \in Compose!ToSet(composerDown')
      <3> SUFFICES ASSUME NEW l \in DOMAIN composerLog, composerLog[l].to[1] = a, l # m,
                          l \notin Compose!ToSet(composerDown')
                   PROVE  \E n \in DOMAIN T : T[n].id = l
        BY <1>2, <1>3
      <3>1. PICK n \in D : Old(n).id = l
        BY <1>7 DEF RowsAreSent
      <3>2. n # k
        BY <1>4, <3>1, ListFacts
      <3> QED
        BY <1>2, <3>1, <3>2
    <2> QED
      BY <1>0, <2>1, <2>2, <2>3 DEF RowsAreSent, RowOf, Compose!ToSet
  <1>9. /\ Waiting(a)' = {n \in DOMAIN T : T[n].id = 0 /\ ~Compose!Altered(T[n].send)'}
        /\ \A n : RowOf(a, n)' = T[n]
    BY <1>0 DEF Waiting, RowOf
  <1>10. \A n \in Waiting(a)' : n \in Waiting(a) /\ n # k /\ T[n] = Old(n)
    <2>1. \A r : Compose!Altered(r)' <=> Compose!Altered(r)
      BY TextStays
    <2> QED
      BY <1>1, <1>2, <1>3, <1>9, <2>1 DEF Waiting
  <1>11. \A r, q : IsOwed(a, r, q) /\ ~(r = s /\ q = p) => IsOwed(a, r, q)'
    <2> SUFFICES ASSUME NEW r, NEW q, IsOwed(a, r, q), ~(r = s /\ q = p)
                 PROVE  IsOwed(a, r, q)'
      OBVIOUS
    <2>1. ~Came(a, r, q)'
      <3> SUFFICES ASSUME NEW n \in DOMAIN T, T[n].id # 0, composerLog[T[n].id].send = r,
                          composerLog[T[n].id].to = q
                   PROVE  FALSE
        BY <1>0 DEF Came, RowOf
      <3>1. n # k
        BY <1>3 DEF s, p
      <3> QED
        BY <1>2, <3>1 DEF IsOwed, Came
    <2> QED
      BY <2>1 DEF IsOwed, PairsOf
  <1>12. ASSUME a \notin crossed', a \notin buried', RowsAreOwed(a) PROVE RowsAreOwed(a)'
    <2>1. \A n, l \in Waiting(a) : Old(n) = Old(l) => n = l
      BY <1>12 DEF RowsAreOwed
    <2>2. ASSUME NEW n \in Waiting(a)', NEW r, NEW t, T[n].send = r, T[n].topic = t
          PROVE  IsOwed(a, r, <<a, t>>)'
      <3>1. n \in Waiting(a) /\ n # k /\ Old(n) = T[n]
        BY <1>10
      <3>2. IsOwed(a, r, <<a, t>>)
        BY <1>12, <2>2, <3>1 DEF RowsAreOwed
      <3>3. ~(r = s /\ <<a, t>> = p)
        <4> SUFFICES ASSUME r = s, <<a, t>> = p PROVE FALSE
          OBVIOUS
        <4>1. p[2] = t
          OBVIOUS
        <4>2. Old(n) = Compose!Row(0, s, p)
          BY <1>1, <1>7, <2>2, <3>1, <4>1, WaitingRow
        <4>3. Old(n).send = s
          BY <2>2, <3>1
        <4>4. k \in Waiting(a)
          BY <1>5, <1>12, <3>1, <4>3
        <4>5. k \in D
          BY <4>4 DEF Waiting
        <4> QED
          BY <1>4, <1>12, <2>1, <3>1, <4>2, <4>4, <4>5
      <3>4. PICK q : q = <<a, t>>
        OBVIOUS
      <3>5. IsOwed(a, r, q)'
        BY <1>11, <3>2, <3>3, <3>4
      <3> QED
        BY <3>4, <3>5
    <2>3. ASSUME NEW n \in Waiting(a)', NEW r, NEW t, RowOf(a, n)'.send = r, RowOf(a, n)'.topic = t
          PROVE  IsOwed(a, r, <<a, t>>)'
      BY <1>9, <2>2, <2>3
    <2>4. \A n, l \in Waiting(a)' : RowOf(a, n)' = RowOf(a, l)' => n = l
      BY <1>9, <1>10, <2>1
    <2> QED
      BY <2>3, <2>4 DEF RowsAreOwed
  <1>13. ASSUME a \notin buried', RowsHaveShare(a) PROVE RowsHaveShare(a)'
    <2> SUFFICES ASSUME ~Compose!Refused(a)'
                 PROVE  \E g \in [Waiting(a)' -> Owed(a)'] : IsShare(a, g)'
      BY DEF RowsHaveShare
    <2>1. ~Compose!Refused(a)
      BY DEF Compose!Refused
    <2>2. PICK f \in [Waiting(a) -> Owed(a)] : IsShare(a, f)
      BY <1>13, <2>1 DEF RowsHaveShare
    <2>3. PICK W : W = Waiting(a)'
      OBVIOUS
    <2>4. PICK q : q = <<s, p>>
      OBVIOUS
    <2> DEFINE g == [n \in W |-> IF f[n] = q THEN f[k] ELSE f[n]]
    <2>5. \A n \in Waiting(a) : /\ IsOwed(a, f[n][1], f[n][2]) /\ f[n] = <<f[n][1], f[n][2]>>
                                /\ Text(f[n][1]) = Text(Old(n).send)
      <3> SUFFICES ASSUME NEW n \in Waiting(a)
                   PROVE  /\ IsOwed(a, f[n][1], f[n][2]) /\ f[n] = <<f[n][1], f[n][2]>>
                          /\ Text(f[n][1]) = Text(Old(n).send)
        OBVIOUS
      <3>1. f[n] \in Owed(a)
        OBVIOUS
      <3>2. f[n] \in (DOMAIN sends) \X AllPairs /\ IsOwed(a, f[n][1], f[n][2])
        BY <3>1 DEF Owed
      <3>3. Text(f[n][1]) = Text(Old(n).send)
        BY <2>2 DEF IsShare, Compose!Message
      <3> QED
        BY <3>2, <3>3
    <2>6. \A n, l \in Waiting(a) : f[n] = f[l] => n = l
      BY <2>2 DEF IsShare
    <2>7. \A n \in W : n \in Waiting(a) /\ n # k /\ T[n] = Old(n)
      BY <1>10, <2>3
    <2>8. \A n \in W : f[n] = q => k \in Waiting(a) /\ Text(Old(k).send) = Text(s)
      <3> SUFFICES ASSUME NEW n \in W, f[n] = q
                   PROVE  k \in Waiting(a) /\ Text(Old(k).send) = Text(s)
        OBVIOUS
      <3>1. f[n][1] = s
        BY <2>4
      <3>2. Text(Old(n).send) = Text(s) /\ n \in Waiting(a)
        BY <2>5, <2>7, <3>1
      <3> QED
        BY <1>5, <1>13, <3>2
    <2>9. \A n \in W : g[n] # q /\ \E l \in Waiting(a) : g[n] = f[l] /\ Text(Old(l).send) = Text(T[n].send)
      <3> SUFFICES ASSUME NEW n \in W
                   PROVE  /\ g[n] # q
                          /\ \E l \in Waiting(a) : g[n] = f[l] /\ Text(Old(l).send) = Text(T[n].send)
        OBVIOUS
      <3>1. CASE f[n] = q
        <4>1. k \in Waiting(a) /\ Text(Old(k).send) = Text(s) /\ g[n] = f[k]
          BY <2>8, <3>1
        <4>2. f[n][1] = s
          BY <2>4, <3>1
        <4>3. Text(T[n].send) = Text(s)
          BY <2>5, <2>7, <4>2
        <4>4. f[k] # q
          BY <2>6, <2>7, <3>1, <4>1
        <4> QED
          BY <4>1, <4>3, <4>4
      <3>2. CASE f[n] # q
        <4>1. g[n] = f[n]
          BY <3>2
        <4> QED
          BY <2>7, <3>2, <4>1
      <3> QED
        BY <3>1, <3>2
    <2>10. \A n \in W : g[n] \in Owed(a)' /\ Text(g[n][1]) = Text(T[n].send)
      <3> SUFFICES ASSUME NEW n \in W
                   PROVE  g[n] \in Owed(a)' /\ Text(g[n][1]) = Text(T[n].send)
        OBVIOUS
      <3> HIDE DEF g
      <3>1. PICK l \in Waiting(a) : g[n] = f[l] /\ Text(Old(l).send) = Text(T[n].send)
        BY <2>9
      <3>2. PICK r, x : r = f[l][1] /\ x = f[l][2]
        OBVIOUS
      <3>3. IsOwed(a, r, x) /\ f[l] = <<r, x>> /\ Text(r) = Text(T[n].send)
        BY <2>5, <3>1, <3>2
      <3>4. ~(r = s /\ x = p)
        BY <2>4, <2>9, <3>1, <3>3
      <3>5. IsOwed(a, r, x)'
        BY <1>11, <3>3, <3>4
      <3>6. PICK e : e = <<r, x>>
        OBVIOUS
      <3>7. r \in DOMAIN sends' /\ x \in AllPairs'
        BY <3>5 DEF IsOwed, AllPairs
      <3>8. e \in (DOMAIN sends') \X AllPairs' /\ e[1] = r /\ e[2] = x
        BY <3>6, <3>7
      <3>9. e \in Owed(a)'
        BY <3>5, <3>8 DEF Owed
      <3> QED
        BY <3>1, <3>3, <3>6, <3>8, <3>9
    <2>11. \A n, l \in W : g[n] = g[l] => n = l
      <3> SUFFICES ASSUME NEW n \in W, NEW l \in W, g[n] = g[l] PROVE n = l
        OBVIOUS
      <3>1. n \in Waiting(a) /\ l \in Waiting(a) /\ n # k /\ l # k
        BY <2>7
      <3>2. g[n] = IF f[n] = q THEN f[k] ELSE f[n]
        OBVIOUS
      <3>3. g[l] = IF f[l] = q THEN f[k] ELSE f[l]
        OBVIOUS
      <3> HIDE DEF g
      <3> QED
        BY <2>6, <2>8, <3>1, <3>2, <3>3
    <2>12. g \in [W -> Owed(a)']
      BY <2>10
    <2> HIDE DEF g
    <2>13. \A n \in W : sends'[g[n][1]].parsed.message = sends'[T[n].send].parsed.message
      BY <2>10
    <2> QED
      BY <1>0, <2>3, <2>11, <2>12, <2>13 DEF IsShare, RowOf, Compose!Message
  <1>14. a \in crossed' => RowsAreOwed(a)'
    BY DEF RowsAreOwed
  <1> QED
    BY <1>8, <1>12, <1>13, <1>14 DEF ThreadIsSent

-----------------------------------------------------------------------------
(* The steps                                                               *)

LEMMA ThreadStays ==
    ASSUME NEW a \in Addressee, IsList(threads[a]), LogIsSent, ThreadIsSent(a), Carries(a),
           threads'[a] = threads[a]
    PROVE  ThreadIsSent(a)'
  <1> DEFINE t == <<>>
  <1>1. IsList(t) /\ Len(t) = 0 /\ DOMAIN t = {}
    <2>1. 0 \in Nat /\ t = [n \in 1 .. 0 |-> t[n]]
      OBVIOUS
    <2> HIDE DEF t
    <2>2. IsList(t) /\ Len(t) = 0 /\ DOMAIN t = 1 .. 0
      BY <2>1, ListOf
    <2> QED
      BY <2>2
  <1>2. Len(threads[a]) \in Nat /\ DOMAIN threads[a] = 1 .. Len(threads[a])
    BY ListFacts
  <1> HIDE DEF t
  <1>3. Adds(a, 0, t)
    BY <1>1, <1>2 DEF Adds, t
  <1> QED
    BY <1>1, <1>3, RowsAdded

(* Typing, and files that are staged.                                      *)
LEMMA NothingSent ==
    ASSUME ComposerInv,
           UNCHANGED <<sends, threads, composerLog, composerDown, composerConnected,
                       missed, crossed, buried>>
    PROVE  /\ IsList(input') /\ IsList(staged') => ComposerType'
           /\ LogIsSent' /\ \A a \in Addressee \ missed' : ThreadIsSent(a)'
  <1>1. ComposerType /\ LogIsSent
    BY DEF ComposerInv
  <1>2. IsList(input') /\ IsList(staged') => ComposerType'
    BY <1>1 DEF ComposerType, IsList
  <1>3. LogIsSent'
    BY <1>1 DEF LogIsSent, PairsOf
  <1>4. ASSUME NEW a \in Addressee \ missed' PROVE ThreadIsSent(a)'
    <2>1. ThreadIsSent(a) /\ IsList(threads[a])
      BY <1>1 DEF ComposerInv, ComposerType
    <2>2. Carries(a)
      BY DEF Carries
    <2> QED
      BY <1>1, <2>1, <2>2, ThreadStays
  <1> QED
    BY <1>2, <1>3, <1>4

LEMMA TypeStep ==
    ASSUME ComposerInv, NEW t, IsList(t), Compose!Type(t)
    PROVE  ComposerInv'
  <1>1. /\ input' = t /\ UNCHANGED <<staged, uploads>>
        /\ UNCHANGED <<sends, threads, composerLog, composerDown, composerConnected,
                       missed, crossed, buried>>
    BY DEF Compose!Type, Compose!socket, Compose!history
  <1>2. IsList(input') /\ IsList(staged')
    BY <1>1 DEF ComposerInv, ComposerType
  <1>3. FilesApart'
    BY <1>1 DEF ComposerInv, FilesApart
  <1> QED
    BY <1>1, <1>2, <1>3, NothingSent DEF ComposerInv

(* The texts that can be typed are lists.                                  *)
LEMMA TypedIsText ==
    ASSUME ComposerType
    PROVE  \A t \in Compose!Inputs(Len(sends) + 1) : IsList(t)
  <1> DEFINE n == Compose!Min({Len(sends) + 1, MaxSend})
  <1>1. MaxSend \in Nat \ {0} /\ \A k \in 1 .. MaxSend : IsList(Texts[k])
    BY BrowserAssumption DEF Compose!ComposerAssumption, IsList
  <1>2. n \in 1 .. MaxSend
    <2>1. Len(sends) \in Nat
      BY ListFacts DEF ComposerType
    <2> DEFINE S == {Len(sends) + 1, MaxSend}
    <2>2. \E x \in S : \A y \in S : x <= y
      BY <1>1, <2>1
    <2>3. n \in S /\ \A y \in S : n <= y
      <3> HIDE DEF S
      <3>1. Compose!Min(S) \in S /\ \A y \in S : Compose!Min(S) <= y
        BY <2>2 DEF Compose!Min
      <3> QED
        BY <3>1 DEF S
    <2> HIDE DEF n
    <2> QED
      BY <1>1, <2>1, <2>3
  <1> HIDE DEF n
  <1>3. \A w : IsList(Append(Texts[n], w))
    BY <1>1, <1>2, Appended
  <1> QED
    BY <1>3 DEF n, Compose!Inputs

LEMMA EscapeStep ==
    ASSUME ComposerInv, Compose!EscapeTopics
    PROVE  ComposerInv'
  <1>1. /\ input' = Compose!NeutralizeLeadingTopics(input) /\ UNCHANGED <<staged, uploads>>
        /\ UNCHANGED <<sends, threads, composerLog, composerDown, composerConnected,
                       missed, crossed, buried>>
    BY DEF Compose!EscapeTopics, Compose!socket, Compose!history
  <1>2. IsList(input') /\ IsList(staged')
    BY <1>1, NeutralIsText DEF ComposerInv, ComposerType
  <1>3. FilesApart'
    BY <1>1 DEF ComposerInv, FilesApart
  <1> QED
    BY <1>1, <1>2, <1>3, NothingSent DEF ComposerInv

LEMMA UploadStep ==
    ASSUME ComposerInv, NEW f \in FileId, Compose!HandleFileUpload(f)
    PROVE  ComposerInv'
  <1>1. /\ UNCHANGED <<input, staged>> /\ uploads' = uploads \cup {f}
        /\ f \notin Compose!ToSet(staged)
        /\ \A s \in DOMAIN sends : f \notin sends[s].files
        /\ UNCHANGED <<sends, threads, composerLog, composerDown, composerConnected,
                       missed, crossed, buried>>
    BY DEF Compose!HandleFileUpload, Compose!socket, Compose!history
  <1>2. IsList(input') /\ IsList(staged')
    BY <1>1 DEF ComposerInv, ComposerType
  <1>3. FilesApart'
    BY <1>1 DEF ComposerInv, FilesApart
  <1> QED
    BY <1>1, <1>2, <1>3, NothingSent DEF ComposerInv

LEMMA UploadEndsStep ==
    ASSUME ComposerInv, NEW f \in FileId, Compose!UploadEnds(f)
    PROVE  ComposerInv'
  <1>1. /\ UNCHANGED input /\ uploads' = uploads \ {f} /\ f \in uploads
        /\ staged' = Append(staged, f) \/ staged' = staged
        /\ UNCHANGED <<sends, threads, composerLog, composerDown, composerConnected,
                       missed, crossed, buried>>
    BY DEF Compose!UploadEnds, Compose!socket, Compose!history
  <1>2. /\ IsList(staged) /\ IsList(input) /\ Len(staged) \in Nat
        /\ DOMAIN staged = 1 .. Len(staged)
    BY ListFacts DEF ComposerInv, ComposerType
  <1>3. IsList(staged') /\ Compose!ToSet(staged') \subseteq Compose!ToSet(staged) \cup {f}
    <2>1. CASE staged' = staged
      BY <1>2, <2>1
    <2>2. CASE staged' = Append(staged, f)
      <3> DEFINE t == Append(staged, f)
      <3>1. /\ IsList(t) /\ DOMAIN t = 1 .. Len(staged) + 1
            /\ \A n \in 1 .. Len(staged) : t[n] = staged[n]
            /\ t[Len(staged) + 1] = f
        BY <1>2, Appended
      <3> HIDE DEF t
      <3>2. \A n \in 1 .. Len(staged) + 1 : n \in 1 .. Len(staged) \/ n = Len(staged) + 1
        BY <1>2
      <3>3. \A n \in DOMAIN t : t[n] \in Compose!ToSet(staged) \cup {f}
        BY <1>2, <3>1, <3>2 DEF Compose!ToSet
      <3>4. Compose!ToSet(t) \subseteq Compose!ToSet(staged) \cup {f}
        BY <3>3 DEF Compose!ToSet
      <3> QED
        BY <2>2, <3>1, <3>4 DEF t
    <2> QED
      BY <1>1, <2>1, <2>2
  <1>4. FilesApart'
    BY <1>1, <1>3 DEF ComposerInv, FilesApart
  <1> QED
    BY <1>1, <1>2, <1>3, <1>4, NothingSent DEF ComposerInv

LEMMA UnstageStep ==
    ASSUME ComposerInv, NEW f \in FileId, Compose!RemoveStagedFile(f)
    PROVE  ComposerInv'
  <1>1. /\ UNCHANGED <<input, uploads>> /\ staged' = Compose!RemoveFirst(staged, f)
        /\ UNCHANGED <<sends, threads, composerLog, composerDown, composerConnected,
                       missed, crossed, buried>>
    BY DEF Compose!RemoveStagedFile, Compose!socket, Compose!history
  <1>2. /\ IsList(staged) /\ IsList(input) /\ Len(staged) \in Nat
        /\ DOMAIN staged = 1 .. Len(staged)
    BY ListFacts DEF ComposerInv, ComposerType
  <1>3. /\ IsList(staged')
        /\ \/ staged' = staged
           \/ \E i \in DOMAIN staged :
                 /\ DOMAIN staged' = 1 .. Len(staged) - 1
                 /\ \A n \in 1 .. Len(staged) - 1 :
                       staged'[n] = IF n < i THEN staged[n] ELSE staged[n + 1]
    <2>1. PICK T : T = Compose!RemoveFirst(staged, f)
      OBVIOUS
    <2>2. /\ IsList(T)
          /\ \/ T = staged
             \/ \E i \in DOMAIN staged :
                   /\ staged[i] = f /\ DOMAIN T = 1 .. Len(staged) - 1
                   /\ \A n \in 1 .. Len(staged) - 1 :
                         T[n] = IF n < i THEN staged[n] ELSE staged[n + 1]
      BY <1>2, <2>1, TakenOut
    <2>3. staged' = T
      BY <1>1, <2>1
    <2> QED
      BY <2>2, <2>3 DEF IsList, Compose!ToSet
  <1>4. Compose!ToSet(staged') \subseteq Compose!ToSet(staged)
    <2>1. CASE staged' = staged
      BY <2>1
    <2>2. CASE \E i \in DOMAIN staged :
                 /\ DOMAIN staged' = 1 .. Len(staged) - 1
                 /\ \A n \in 1 .. Len(staged) - 1 :
                       staged'[n] = IF n < i THEN staged[n] ELSE staged[n + 1]
      <3>1. \A n \in 1 .. Len(staged) - 1 : n \in 1 .. Len(staged) /\ n + 1 \in 1 .. Len(staged)
        BY <1>2
      <3>2. \A n \in DOMAIN staged' : \E k \in DOMAIN staged : staged'[n] = staged[k]
        BY <1>2, <2>2, <3>1
      <3> QED
        BY <3>2 DEF Compose!ToSet
    <2> QED
      BY <1>3, <2>1, <2>2
  <1>5. FilesApart'
    BY <1>1, <1>4 DEF ComposerInv, FilesApart
  <1> QED
    BY <1>1, <1>2, <1>3, <1>5, NothingSent DEF ComposerInv

(* A send that is made, or has one start less to wait for, waits on or     *)
(* fans out.                                                               *)
LEMMA FanoutStep ==
    ASSUME ComposerInv, NEW call, IsList(call), NEW s \in DOMAIN call,
           \A r \in DOMAIN call : IsSend(call[r]),
           call[s].at # "posting", call[s].refused = {},
           s \in DOMAIN sends => sends[s].at # "posting",
           \A r \in DOMAIN sends : r # s => r \in DOMAIN call /\ call[r] = sends[r],
           \A r \in DOMAIN call : r # s => r \in DOMAIN sends,
           Compose!Fanout(s, call) \/ (sends' = call /\ UNCHANGED <<threads, input>>),
           UNCHANGED <<composerLog, composerDown, composerConnected, missed, crossed, buried>>,
           IsList(staged')
    PROVE  /\ ComposerType' /\ LogIsSent' /\ \A a \in Addressee \ missed' : ThreadIsSent(a)'
           /\ DOMAIN sends' = DOMAIN call
           /\ \A r \in DOMAIN call : sends'[r].files = call[r].files
  <1> DEFINE P == Compose!Pairs(call[s].parsed)
             posted == [call[s] EXCEPT !.at = "posting", !.open = P]
  <1>1. ComposerType /\ LogIsSent
    BY DEF ComposerInv
  <1>2. /\ IsSend(call[s]) /\ WellParsed(call[s].parsed)
        /\ IsList(call[s].parsed.topics) /\ IsList(call[s].parsed.agents)
    BY DEF IsSend, WellParsed
  <1>3. /\ posted.parsed = call[s].parsed /\ posted.files = call[s].files
        /\ posted.at = "posting" /\ posted.open = P /\ posted.refused = {}
        /\ DOMAIN posted = DOMAIN call[s]
    <2> HIDE DEF P
    <2> QED
      BY <1>2 DEF IsSend
  <1>4. Compose!Fanout(s, call) => sends' = [call EXCEPT ![s] = posted]
    BY DEF Compose!Fanout
  <1> HIDE DEF posted
  <1>5. /\ IsList(sends') /\ DOMAIN sends' = DOMAIN call
        /\ \A r \in DOMAIN call : r # s => sends'[r] = call[r]
        /\ Compose!Fanout(s, call) => sends'[s] = posted
        /\ ~Compose!Fanout(s, call) => sends'[s] = call[s]
    <2>1. CASE Compose!Fanout(s, call)
      BY <1>4, <2>1, Replaced
    <2>2. CASE ~Compose!Fanout(s, call)
      BY <2>2
    <2> QED
      BY <2>1, <2>2
  <1>6. /\ sends'[s].parsed = call[s].parsed /\ sends'[s].refused = {}
        /\ sends'[s].files = call[s].files
        /\ sends'[s].at = "posting" => sends'[s].open = P
        /\ IsSend(sends'[s])
    BY <1>2, <1>3, <1>5 DEF IsSend
  <1>7. \A r \in DOMAIN sends' : IsSend(sends'[r])
    BY <1>5, <1>6
  <1>8. \A r \in DOMAIN sends : sends[r].at = "posting" =>
           r # s /\ r \in DOMAIN sends' /\ sends'[r] = sends[r]
    BY <1>5
  <1>9. LogIsSent'
    <2>1. \A r \in DOMAIN sends' : r # s => r \in DOMAIN sends /\ sends'[r] = sends[r]
      BY <1>5
    <2>2. \A m \in DOMAIN composerLog :
             /\ composerLog[m].send \in DOMAIN sends'
             /\ sends'[composerLog[m].send].at = "posting"
             /\ composerLog[m].to \in Compose!Pairs(sends'[composerLog[m].send].parsed)
      BY <1>1, <1>8 DEF LogIsSent, PairsOf
    <2>3. \A r \in DOMAIN sends' :
             IF sends'[r].at = "posting"
             THEN \A p \in Compose!Pairs(sends'[r].parsed) \ (sends'[r].open \cup sends'[r].refused) :
                     \E n \in DOMAIN composerLog : composerLog[n].send = r /\ composerLog[n].to = p
             ELSE sends'[r].refused = {}
      <3> SUFFICES ASSUME NEW r \in DOMAIN sends'
                   PROVE  IF sends'[r].at = "posting"
                          THEN \A p \in Compose!Pairs(sends'[r].parsed)
                                        \ (sends'[r].open \cup sends'[r].refused) :
                                  \E n \in DOMAIN composerLog :
                                     composerLog[n].send = r /\ composerLog[n].to = p
                          ELSE sends'[r].refused = {}
        OBVIOUS
      <3>1. CASE r = s
        BY <1>6, <3>1
      <3>2. CASE r # s
        BY <1>1, <2>1, <3>2 DEF LogIsSent, PairsOf
      <3> QED
        BY <3>1, <3>2
    <2> QED
      BY <1>1, <2>2, <2>3 DEF LogIsSent, PairsOf
  <1>10. IsList(input')
    BY <1>1, <1>2, PrefixIsText DEF ComposerType, Compose!Fanout
  <1> DEFINE topics == call[s].parsed.topics
             added(a) == [n \in DOMAIN topics |-> Compose!Row(0, s, <<a, topics[n]>>)]
  <1>11. IsList(topics) /\ Len(topics) \in Nat /\ DOMAIN topics = 1 .. Len(topics)
    BY <1>2, ListFacts
  <1>12. Compose!Fanout(s, call) => threads' = [a \in Addressee |->
            IF a \notin Compose!ToSet(call[s].parsed.agents) THEN threads[a]
            ELSE threads[a] \o added(a)]
    BY DEF Compose!Fanout, Compose!Optimistic
  <1>13. \A a \in Addressee : IsList(added(a)) /\ Len(added(a)) = Len(topics)
    <2> TAKE a \in Addressee
    <2> DEFINE R == added(a)
    <2>1. R = [n \in 1 .. Len(topics) |-> R[n]]
      BY <1>11
    <2> HIDE DEF R
    <2>2. IsList(R) /\ Len(R) = Len(topics)
      BY <1>11, <2>1, ListOf
    <2> QED
      BY <2>2 DEF R
  <1>14. threads' = [a \in Addressee |-> threads'[a]] /\ \A a \in Addressee : IsList(threads'[a])
    <2>1. \A a \in Addressee : IsList(threads[a]) /\ IsList(threads[a] \o added(a))
      <3> HIDE DEF added
      <3> QED
        BY <1>1, <1>13, Joined DEF ComposerType
    <2> HIDE DEF added
    <2>2. CASE Compose!Fanout(s, call)
      BY <1>12, <2>1, <2>2
    <2>3. CASE ~Compose!Fanout(s, call)
      BY <1>1, <2>3 DEF ComposerType
    <2> QED
      BY <2>2, <2>3
  <1>15. ComposerType'
    BY <1>1, <1>5, <1>7, <1>10, <1>14 DEF ComposerType, IsList
  <1>16. ASSUME NEW a \in Addressee \ missed' PROVE ThreadIsSent(a)'
    <2>1. ThreadIsSent(a) /\ IsList(threads[a])
      BY <1>1 DEF ComposerInv, ComposerType
    <2>2. Carries(a)
      BY <1>8 DEF Carries
    <2>3. CASE threads'[a] = threads[a]
      BY <1>1, <2>1, <2>2, <2>3, ThreadStays
    <2>4. CASE threads'[a] # threads[a]
      <3>1. /\ Compose!Fanout(s, call) /\ a \in Compose!ToSet(call[s].parsed.agents)
            /\ threads'[a] = threads[a] \o added(a)
        BY <1>12, <2>4
      <3>2. /\ DOMAIN (threads[a] \o added(a)) = 1 .. Len(threads[a]) + Len(topics)
            /\ \A n \in 1 .. Len(threads[a]) : (threads[a] \o added(a))[n] = threads[a][n]
            /\ \A n \in 1 .. Len(topics) :
                  (threads[a] \o added(a))[Len(threads[a]) + n] = added(a)[n]
        <4> DEFINE A == added(a)
        <4>1. IsList(A) /\ Len(A) = Len(topics)
          BY <1>13
        <4> HIDE DEF A, topics
        <4>2. /\ DOMAIN (threads[a] \o A) = 1 .. Len(threads[a]) + Len(topics)
              /\ \A n \in 1 .. Len(threads[a]) : (threads[a] \o A)[n] = threads[a][n]
              /\ \A n \in 1 .. Len(topics) : (threads[a] \o A)[Len(threads[a]) + n] = A[n]
          <5> DEFINE O == threads[a]
          <5>1. IsList(O)
            BY <2>1
          <5> HIDE DEF O
          <5>2. /\ DOMAIN (O \o A) = 1 .. Len(O) + Len(A)
                /\ \A n \in 1 .. Len(O) : (O \o A)[n] = O[n]
                /\ \A n \in 1 .. Len(A) : (O \o A)[Len(O) + n] = A[n]
            <6>1. IsList(A)
              BY <4>1
            <6>2. DOMAIN (O \o A) = 1 .. Len(O) + Len(A)
              BY <5>1, <6>1, Joined
            <6>3. \A n \in 1 .. Len(O) : (O \o A)[n] = O[n]
              BY <5>1, <6>1, Joined
            <6>4. \A n \in 1 .. Len(A) : (O \o A)[Len(O) + n] = A[n]
              BY <5>1, <6>1, Joined
            <6> QED
              BY <6>2, <6>3, <6>4
          <5> QED
            BY <4>1, <5>2 DEF O
        <4> QED
          BY <4>2 DEF A
      <3>3. \A n \in 1 .. Len(topics) : added(a)[n] = Compose!Row(0, s, <<a, topics[n]>>)
        BY <1>11
      <3>4. s \in DOMAIN sends' /\ sends'[s].at = "posting" /\ sends'[s].refused = {}
        BY <1>3, <1>5, <1>6, <3>1
      <3>5. \A n \in DOMAIN topics : <<a, topics[n]>> \in Compose!Pairs(sends'[s].parsed)
        <4>1. \A n \in DOMAIN topics : topics[n] \in Compose!ToSet(topics)
          BY DEF Compose!ToSet
        <4> QED
          BY <1>6, <3>1, <4>1 DEF Compose!Pairs
      <3>6. \A n, k \in DOMAIN topics : topics[n] = topics[k] => n = k
        BY <1>2 DEF WellParsed
      <3>7. Adds(a, s, topics)
        <4> HIDE DEF added, topics
        <4> QED
          BY <3>1, <3>2, <3>3, <3>4, <3>5, <3>6 DEF Adds, PairsOf
      <3> HIDE DEF added, topics
      <3> QED
        BY <1>1, <1>11, <2>1, <2>2, <3>7, RowsAdded
    <2> QED
      BY <2>3, <2>4
  <1> QED
    BY <1>5, <1>6, <1>9, <1>15, <1>16

(* A send is typed, and takes what is staged.                              *)
LEMMA SendStep ==
    ASSUME ComposerInv, Compose!HandleSend
    PROVE  ComposerInv'
  <1> DEFINE parsed == Compose!ParseComposer(input)
             c == Compose!Call(parsed)
             call == Append(sends, c)
             N == Len(sends)
  <1>1. ComposerType /\ FilesApart /\ LogIsSent
    BY DEF ComposerInv
  <1>2. /\ staged' = Compose!Cleared(staged) /\ uploads' = uploads
        /\ UNCHANGED <<composerLog, composerDown, composerConnected, missed, crossed, buried>>
        /\ Compose!Fanout(Len(call), call) \/ (sends' = call /\ UNCHANGED <<threads, input>>)
    BY DEF Compose!HandleSend, Compose!socket, Compose!history
  <1>3. staged' = <<>> /\ IsList(staged') /\ Compose!ToSet(staged') = {}
    <2> DEFINE e == <<>>
    <2>1. 0 \in Nat /\ e = [n \in 1 .. 0 |-> e[n]]
      OBVIOUS
    <2> HIDE DEF e
    <2>2. IsList(e) /\ DOMAIN e = 1 .. 0
      BY <2>1, ListOf
    <2>3. Compose!ToSet(e) = {}
      BY <2>2 DEF Compose!ToSet
    <2>4. staged' = e
      BY <1>2 DEF Compose!Cleared, Compose!StagedAtSend, e
    <2> QED
      BY <2>2, <2>3, <2>4 DEF IsList, e
  <1>4. IsSend(c) /\ c.at = "spawning" /\ c.refused = {} /\ c.files = Compose!ToSet(staged)
    <2>1. WellParsed(parsed)
      BY <1>1, ParsedWell DEF ComposerType
    <2> HIDE DEF parsed
    <2> QED
      BY <2>1 DEF IsSend, Compose!Call
  <1> HIDE DEF c
  <1>5. /\ IsList(call) /\ DOMAIN call = 1 .. N + 1 /\ Len(call) = N + 1
        /\ \A n \in 1 .. N : call[n] = sends[n]
        /\ call[N + 1] = c
        /\ N \in Nat /\ DOMAIN sends = 1 .. N
    BY <1>1, Appended, ListFacts DEF ComposerType
  <1> HIDE DEF call, N
  <1> DEFINE s == N + 1
  <1>6. s \in DOMAIN call /\ s \notin DOMAIN sends
    BY <1>5
  <1>7. \A r \in DOMAIN call : r # s => r \in DOMAIN sends /\ call[r] = sends[r]
    BY <1>5
  <1>8. \A r \in DOMAIN sends : r \in DOMAIN call /\ call[r] = sends[r]
    BY <1>5
  <1>9. call[s] = c /\ Len(call) = s
    BY <1>5
  <1> HIDE DEF s
  <1>10. \A r \in DOMAIN call : IsSend(call[r])
    BY <1>1, <1>4, <1>7, <1>9 DEF ComposerType
  <1>11. call[s].at # "posting" /\ call[s].refused = {}
    BY <1>4, <1>9
  <1>12. /\ ComposerType' /\ LogIsSent' /\ \A a \in Addressee \ missed' : ThreadIsSent(a)'
         /\ DOMAIN sends' = DOMAIN call
         /\ \A r \in DOMAIN call : sends'[r].files = call[r].files
    BY <1>2, <1>3, <1>5, <1>6, <1>7, <1>8, <1>9, <1>10, <1>11, FanoutStep
  <1>13. FilesApart'
    <2>1. \A r \in DOMAIN call : call[r].files \cap uploads = {}
      BY <1>1, <1>4, <1>7, <1>9 DEF FilesApart
    <2>2. \A r, q \in DOMAIN call : r # q => call[r].files \cap call[q].files = {}
      <3>1. \A q \in DOMAIN sends : call[s].files \cap call[q].files = {}
        BY <1>1, <1>4, <1>8, <1>9 DEF FilesApart
      <3>2. \A r, q \in DOMAIN sends : r # q => call[r].files \cap call[q].files = {}
        BY <1>1, <1>8 DEF FilesApart
      <3> QED
        BY <1>7, <3>1, <3>2
    <2> QED
      BY <1>2, <1>3, <1>12, <2>1, <2>2 DEF FilesApart
  <1> QED
    BY <1>12, <1>13 DEF ComposerInv

(* A start that a send waited for ended.                                   *)
LEMMA SpawnedStep ==
    ASSUME ComposerInv, NEW s \in DOMAIN sends, NEW a \in Addressee, Compose!Spawned(s, a)
    PROVE  ComposerInv'
  <1> DEFINE c == sends[s]
             d == [c EXCEPT !.spawns = c.spawns \ {a}]
             call == [sends EXCEPT ![s] = d]
  <1>1. ComposerType /\ FilesApart /\ LogIsSent
    BY DEF ComposerInv
  <1>2. /\ staged' = staged /\ uploads' = uploads /\ c.at = "spawning"
        /\ UNCHANGED <<composerLog, composerDown, composerConnected, missed, crossed, buried>>
        /\ Compose!Fanout(s, call) \/ (sends' = call /\ UNCHANGED <<threads, input>>)
    BY DEF Compose!Spawned, Compose!socket, Compose!history
  <1>3. IsSend(c) /\ c.refused = {} /\ IsList(sends) /\ IsList(staged)
    BY <1>1, <1>2 DEF ComposerType, LogIsSent
  <1>4. IsSend(d) /\ d.at = "spawning" /\ d.refused = {} /\ d.files = c.files
    <2> HIDE DEF c
    <2> QED
      BY <1>2, <1>3 DEF IsSend
  <1> HIDE DEF d
  <1>5. /\ IsList(call) /\ DOMAIN call = DOMAIN sends /\ call[s] = d
        /\ \A n \in DOMAIN sends : n # s => call[n] = sends[n]
    BY <1>3, Replaced
  <1> HIDE DEF call
  <1>6. /\ \A r \in DOMAIN call : IsSend(call[r]) /\ call[r].files = sends[r].files
        /\ call[s].at # "posting" /\ call[s].refused = {} /\ sends[s].at # "posting"
    BY <1>1, <1>2, <1>4, <1>5 DEF ComposerType
  <1>7. IsList(staged')
    BY <1>2, <1>3
  <1>8. /\ ComposerType' /\ LogIsSent' /\ \A b \in Addressee \ missed' : ThreadIsSent(b)'
        /\ DOMAIN sends' = DOMAIN call
        /\ \A r \in DOMAIN call : sends'[r].files = call[r].files
    BY <1>2, <1>5, <1>6, <1>7, FanoutStep
  <1>9. FilesApart'
    BY <1>1, <1>2, <1>5, <1>6, <1>8 DEF FilesApart
  <1> QED
    BY <1>8, <1>9 DEF ComposerInv

(* The server takes a message.                                             *)
LEMMA TakenByServerStep ==
    ASSUME ComposerInv, NEW s \in DOMAIN sends, NEW p \in PairsOf(s), Compose!Accept(s, p)
    PROVE  ComposerInv'
  <1> DEFINE rec == [send |-> s, to |-> p, files |-> sends[s].files]
             N == Len(composerLog)
             D == Len(composerDown)
             Heard == Compose!Reaches(p[1])
  <1>1. ComposerType /\ FilesApart /\ LogIsSent
    BY DEF ComposerInv
  <1>2. /\ UNCHANGED <<input, uploads, staged, sends, threads, composerConnected, crossed, buried>>
        /\ composerLog' = Append(composerLog, rec) /\ sends[s].at = "posting"
        /\ \A n \in DOMAIN composerLog : <<composerLog[n].send, composerLog[n].to>> # <<s, p>>
        /\ composerDown' = IF Heard THEN Append(composerDown, Len(composerLog')) ELSE composerDown
        /\ missed' = IF Heard THEN missed ELSE missed \cup {p[1]}
    BY DEF Compose!Accept
  <1>3. rec.send = s /\ rec.to = p
    OBVIOUS
  <1> HIDE DEF rec
  <1>4. /\ IsList(composerLog') /\ Len(composerLog') = N + 1
        /\ DOMAIN composerLog' = 1 .. N + 1 /\ composerLog'[N + 1] = rec
        /\ \A n \in 1 .. N : composerLog'[n] = composerLog[n]
        /\ N \in Nat /\ DOMAIN composerLog = 1 .. N
    <2> DEFINE t == Append(composerLog, rec)
    <2>1. /\ IsList(t) /\ Len(t) = N + 1 /\ DOMAIN t = 1 .. N + 1 /\ t[N + 1] = rec
          /\ \A n \in 1 .. N : t[n] = composerLog[n]
          /\ N \in Nat /\ DOMAIN composerLog = 1 .. N
      BY <1>1, Appended, ListFacts DEF ComposerType
    <2> HIDE DEF t
    <2>2. composerLog' = t
      BY <1>2 DEF t
    <2> QED
      BY <2>1, <2>2 DEF IsList
  <1> HIDE DEF N
  <1>5. /\ IsList(composerDown')
        /\ \A m \in Compose!ToSet(composerDown) : m \in Compose!ToSet(composerDown')
        /\ \A m \in Compose!ToSet(composerDown') : m \in Compose!ToSet(composerDown) \/ m = N + 1
        /\ Heard => N + 1 \in Compose!ToSet(composerDown')
        /\ ~Heard => composerDown' = composerDown
    <2>1. CASE ~Heard
      BY <1>1, <1>2, <2>1 DEF ComposerType
    <2>2. CASE Heard
      <3> DEFINE t == Append(composerDown, N + 1)
      <3>1. /\ IsList(t) /\ DOMAIN t = 1 .. D + 1 /\ t[D + 1] = N + 1
            /\ \A n \in 1 .. D : t[n] = composerDown[n]
            /\ D \in Nat /\ DOMAIN composerDown = 1 .. D
        BY <1>1, Appended, ListFacts DEF ComposerType
      <3> HIDE DEF t
      <3>2. composerDown' = t
        BY <1>2, <1>4, <2>2 DEF t
      <3> HIDE DEF D
      <3>3. D + 1 \in 1 .. D + 1 /\ \A n \in 1 .. D + 1 : n \in 1 .. D \/ n = D + 1
        BY <3>1
      <3>4. /\ \A n \in 1 .. D : n \in DOMAIN t
            /\ D + 1 \in DOMAIN t
        BY <3>1
      <3>5. \A m \in Compose!ToSet(composerDown) : m \in Compose!ToSet(t)
        BY <3>1, <3>4 DEF Compose!ToSet
      <3>6. \A m \in Compose!ToSet(t) : m \in Compose!ToSet(composerDown) \/ m = N + 1
        BY <3>1, <3>3 DEF Compose!ToSet
      <3>7. N + 1 \in Compose!ToSet(t)
        BY <3>1, <3>4 DEF Compose!ToSet
      <3>8. IsList(t)
        BY <3>1
      <3> QED
        BY <2>2, <3>2, <3>5, <3>6, <3>7, <3>8 DEF IsList
    <2> QED
      BY <2>1, <2>2
  <1>6. ComposerType'
    BY <1>1, <1>2, <1>4, <1>5 DEF ComposerType, IsList
  <1>7. FilesApart'
    BY <1>1, <1>2 DEF FilesApart
  <1>8. \A n \in DOMAIN composerLog : n \in DOMAIN composerLog' /\ composerLog'[n] = composerLog[n]
    BY <1>4
  <1>9. /\ \A m \in DOMAIN composerLog' : m \in DOMAIN composerLog \/ m = N + 1
        /\ N + 1 \in DOMAIN composerLog' /\ N + 1 \notin DOMAIN composerLog
        /\ composerLog'[N + 1].send = s /\ composerLog'[N + 1].to = p
    BY <1>3, <1>4
  <1>10. LogIsSent'
    <2>1. \A m \in DOMAIN composerLog' :
             /\ composerLog'[m].send \in DOMAIN sends
             /\ sends[composerLog'[m].send].at = "posting"
             /\ composerLog'[m].to \in PairsOf(composerLog'[m].send)
      BY <1>1, <1>2, <1>8, <1>9 DEF LogIsSent
    <2>2. \A m, n \in DOMAIN composerLog' :
             composerLog'[m].send = composerLog'[n].send /\ composerLog'[m].to = composerLog'[n].to
                => m = n
      <3>1. \A m, n \in DOMAIN composerLog :
               composerLog[m].send = composerLog[n].send /\ composerLog[m].to = composerLog[n].to
                  => m = n
        BY <1>1 DEF LogIsSent
      <3> QED
        BY <1>2, <1>8, <1>9, <3>1
    <2>3. \A r \in DOMAIN sends :
             IF sends[r].at = "posting"
             THEN \A q \in PairsOf(r) \ (sends[r].open \cup sends[r].refused) :
                     \E n \in DOMAIN composerLog' : composerLog'[n].send = r /\ composerLog'[n].to = q
             ELSE sends[r].refused = {}
      BY <1>1, <1>8 DEF LogIsSent
    <2>4. Compose!ToSet(composerDown') \subseteq DOMAIN composerLog'
      BY <1>1, <1>5, <1>8, <1>9 DEF LogIsSent
    <2>5. ~composerConnected' => composerDown' = <<>>
      BY <1>1, <1>2, <1>5 DEF LogIsSent, Compose!Reaches
    <2>6. \A r : PairsOf(r)' = PairsOf(r)
      BY <1>2 DEF PairsOf
    <2> QED
      BY <1>2, <2>1, <2>2, <2>3, <2>4, <2>5, <2>6 DEF LogIsSent
  <1>11. ASSUME NEW a \in Addressee \ missed' PROVE ThreadIsSent(a)'
    <2>1. ThreadIsSent(a) /\ IsList(threads[a])
      BY <1>1, <1>2 DEF ComposerInv, ComposerType
    <2>2. p[1] = a => Heard
      BY <1>2
    <2>3. Carries(a)
      BY <1>2, <1>5, <1>8, <1>9, <2>2 DEF Carries
    <2>4. threads'[a] = threads[a]
      BY <1>2
    <2> QED
      BY <1>1, <2>1, <2>3, <2>4, ThreadStays
  <1> QED
    BY <1>6, <1>7, <1>10, <1>11 DEF ComposerInv

(* Places of a list have a last.                                           *)
LEMMA GreatestOf ==
    ASSUME NEW N \in Nat, NEW S \in SUBSET (1 .. N), S # {}
    PROVE  \E n \in S : \A m \in S : n >= m
  <1> DEFINE B == {k \in Nat : \A m \in S : k >= m}
  <1>1. B \in SUBSET Nat /\ N \in B
    OBVIOUS
  <1> HIDE DEF B
  <1>2. PICK n \in B : \A k \in B : n <= k
    BY <1>1, LeastOf
  <1>3. n \in Nat /\ \A m \in S : n >= m
    BY <1>2 DEF B
  <1>4. n \in S
    <2> SUFFICES ASSUME n \notin S PROVE FALSE
      OBVIOUS
    <2>1. PICK m \in S : TRUE
      OBVIOUS
    <2>2. n - 1 \in Nat
      BY <1>3, <2>1
    <2>3. \A l \in S : n - 1 >= l
      BY <1>3
    <2>4. n - 1 \in B
      BY <2>2, <2>3 DEF B
    <2> QED
      BY <1>2, <1>3, <2>4
  <1> QED
    BY <1>3, <1>4

(* A post was answered, or refused.                                        *)
LEMMA AnsweredStep ==
    ASSUME ComposerInv, NEW s \in DOMAIN sends, NEW p \in PairsOf(s), Compose!Answered(s, p)
    PROVE  ComposerInv'
  <1> DEFINE c == sends[s]
             went == [c EXCEPT !.open = c.open \ {p}]
             refusal == [c EXCEPT !.open = c.open \ {p}, !.refused = c.refused \cup {p}]
             Posted == \E n \in DOMAIN composerLog : composerLog[n].send = s /\ composerLog[n].to = p
  <1>1. ComposerType /\ FilesApart /\ LogIsSent
    BY DEF ComposerInv
  <1>2. /\ UNCHANGED <<input, staged, uploads, composerLog, composerDown, composerConnected,
                       missed, crossed, buried>>
        /\ c.at = "posting"
        /\ \/ Posted /\ sends' = [sends EXCEPT ![s] = went] /\ threads' = threads
           \/ /\ sends' = [sends EXCEPT ![s] = refusal]
              /\ threads' = [threads EXCEPT ![p[1]] = Compose!TakeOut(threads[p[1]], s, p)]
    BY DEF Compose!Answered, Compose!socket, Compose!history
  <1>3. IsSend(c) /\ IsList(sends)
    BY <1>1 DEF ComposerType
  <1>4. /\ IsSend(went) /\ went.parsed = c.parsed /\ went.files = c.files /\ went.at = c.at
        /\ went.open = c.open \ {p} /\ went.refused = c.refused
    <2> HIDE DEF c
    <2> QED
      BY <1>3 DEF IsSend
  <1>5. /\ IsSend(refusal) /\ refusal.parsed = c.parsed /\ refusal.files = c.files
        /\ refusal.at = c.at
        /\ refusal.open = c.open \ {p} /\ refusal.refused = c.refused \cup {p}
    <2> HIDE DEF c
    <2> QED
      BY <1>3 DEF IsSend
  <1> HIDE DEF went, refusal
  <1>6. PICK d : /\ sends' = [sends EXCEPT ![s] = d]
                 /\ IsSend(d) /\ d.parsed = c.parsed /\ d.files = c.files /\ d.at = c.at
                 /\ d.open = c.open \ {p}
                 /\ \/ Posted /\ d.refused = c.refused /\ threads' = threads
                    \/ /\ d.refused = c.refused \cup {p}
                       /\ threads' = [threads EXCEPT
                                        ![p[1]] = Compose!TakeOut(threads[p[1]], s, p)]
    <2> HIDE DEF c, Posted
    <2>1. CASE Posted /\ sends' = [sends EXCEPT ![s] = went] /\ threads' = threads
      BY <1>4, <2>1
    <2>2. CASE /\ sends' = [sends EXCEPT ![s] = refusal]
               /\ threads' = [threads EXCEPT ![p[1]] = Compose!TakeOut(threads[p[1]], s, p)]
      BY <1>5, <2>2
    <2> QED
      BY <1>2, <2>1, <2>2
  <1>7. /\ IsList(sends') /\ DOMAIN sends' = DOMAIN sends /\ sends'[s] = d
        /\ \A r \in DOMAIN sends : r # s => sends'[r] = sends[r]
    <2> DEFINE t == [sends EXCEPT ![s] = d]
    <2>1. /\ IsList(t) /\ DOMAIN t = DOMAIN sends /\ t[s] = d
          /\ \A r \in DOMAIN sends : r # s => t[r] = sends[r]
      BY <1>3, Replaced
    <2> HIDE DEF t
    <2>2. sends' = t
      BY <1>6 DEF t
    <2> QED
      BY <2>1, <2>2 DEF IsList
  <1>8. \A r \in DOMAIN sends :
           /\ IsSend(sends'[r]) /\ sends'[r].parsed = sends[r].parsed
           /\ sends'[r].files = sends[r].files /\ sends'[r].at = sends[r].at
           /\ sends'[r].open = IF r = s THEN sends[r].open \ {p} ELSE sends[r].open
    BY <1>1, <1>6, <1>7 DEF ComposerType
  <1>10. p[1] \in Addressee
    <2>1. p[1] \in Compose!ToSet(sends[s].parsed.agents)
      BY PairParts
    <2> QED
      BY <1>3, <2>1 DEF IsSend, WellParsed
  <1>11. threads' = [a \in Addressee |-> threads'[a]] /\ \A a \in Addressee : IsList(threads'[a])
    <2>1. \A a \in Addressee : IsList(threads[a])
      BY <1>1 DEF ComposerType
    <2>2. IsList(Compose!TakeOut(threads[p[1]], s, p))
      BY <1>10, <2>1, TakenOut DEF Compose!TakeOut, Compose!RemoveOptimistic
    <2>3. CASE threads' = threads
      BY <1>1, <2>3 DEF ComposerType
    <2>4. CASE threads' = [threads EXCEPT ![p[1]] = Compose!TakeOut(threads[p[1]], s, p)]
      <3> DEFINE new == Compose!TakeOut(threads[p[1]], s, p)
      <3>1. threads = [a \in Addressee |-> threads[a]]
        BY <1>1 DEF ComposerType
      <3> HIDE DEF new
      <3>2. threads' = [threads EXCEPT ![p[1]] = new] /\ IsList(new)
        BY <2>2, <2>4 DEF new
      <3> QED
        BY <1>10, <2>1, <3>1, <3>2
    <2> QED
      BY <1>6, <2>3, <2>4
  <1>12. ComposerType'
    BY <1>1, <1>2, <1>7, <1>8, <1>11 DEF ComposerType, IsList
  <1>13. FilesApart'
    BY <1>1, <1>2, <1>7, <1>8 DEF FilesApart
  <1>14. LogIsSent'
    <2>1. \A r \in DOMAIN sends :
             IF sends'[r].at = "posting"
             THEN \A q \in PairsOf(r) \ (sends'[r].open \cup sends'[r].refused) :
                     \E n \in DOMAIN composerLog : composerLog[n].send = r /\ composerLog[n].to = q
             ELSE sends'[r].refused = {}
      <3> SUFFICES ASSUME NEW r \in DOMAIN sends
                   PROVE  IF sends'[r].at = "posting"
                          THEN \A q \in PairsOf(r) \ (sends'[r].open \cup sends'[r].refused) :
                                  \E n \in DOMAIN composerLog :
                                     composerLog[n].send = r /\ composerLog[n].to = q
                          ELSE sends'[r].refused = {}
        OBVIOUS
      <3>1. CASE r # s
        BY <1>1, <1>7, <3>1 DEF LogIsSent
      <3>2. CASE r = s
        <4>1. ASSUME NEW q \in PairsOf(s), q \notin d.open, q \notin d.refused
              PROVE  \E n \in DOMAIN composerLog :
                        composerLog[n].send = s /\ composerLog[n].to = q
          <5>1. CASE q = p
            <6>1. Posted
              BY <1>6, <4>1, <5>1
            <6> QED
              BY <5>1, <6>1
          <5>2. CASE q # p
            <6>1. q \notin c.open /\ q \notin c.refused
              BY <1>6, <4>1, <5>2
            <6> QED
              BY <1>1, <1>2, <4>1, <6>1 DEF LogIsSent
          <5> QED
            BY <5>1, <5>2
        <4> QED
          BY <1>2, <1>6, <1>7, <3>2, <4>1
      <3> QED
        BY <3>1, <3>2
    <2>3. \A r \in DOMAIN sends : PairsOf(r) = Compose!Pairs(sends'[r].parsed)
      BY <1>8 DEF PairsOf
    <2>2. \A m \in DOMAIN composerLog :
             /\ composerLog[m].send \in DOMAIN sends'
             /\ sends'[composerLog[m].send].at = "posting"
             /\ composerLog[m].to \in Compose!Pairs(sends'[composerLog[m].send].parsed)
      <3> TAKE m \in DOMAIN composerLog
      <3> DEFINE r == composerLog[m].send
      <3>1. r \in DOMAIN sends /\ sends[r].at = "posting" /\ composerLog[m].to \in PairsOf(r)
        BY <1>1 DEF LogIsSent
      <3> HIDE DEF r
      <3>2. r \in DOMAIN sends' /\ sends'[r].at = "posting"
            /\ composerLog[m].to \in Compose!Pairs(sends'[r].parsed)
        BY <1>7, <1>8, <2>3, <3>1
      <3> QED
        BY <3>2 DEF r
    <2>5. \A r \in DOMAIN sends' :
             IF sends'[r].at = "posting"
             THEN \A q \in Compose!Pairs(sends'[r].parsed) \ (sends'[r].open \cup sends'[r].refused) :
                     \E n \in DOMAIN composerLog : composerLog[n].send = r /\ composerLog[n].to = q
             ELSE sends'[r].refused = {}
      BY <1>7, <2>1, <2>3
    <2> QED
      BY <1>1, <1>2, <2>2, <2>5 DEF LogIsSent, PairsOf
  <1>15. ASSUME NEW a \in Addressee \ missed' PROVE ThreadIsSent(a)'
    <2>1. ThreadIsSent(a) /\ IsList(threads[a]) /\ IsList(composerLog)
      BY <1>1, <1>2 DEF ComposerInv, ComposerType
    <2>2. CASE threads' = threads /\ d.refused = c.refused
      <3>1. Carries(a)
        BY <1>2, <1>7, <1>8, <2>2 DEF Carries
      <3> QED
        BY <1>1, <2>1, <2>2, <3>1, ThreadStays
    <2>3. CASE /\ d.refused = c.refused \cup {p}
               /\ threads' = [threads EXCEPT ![p[1]] = Compose!TakeOut(threads[p[1]], s, p)]
      <3>0. threads = [b \in Addressee |-> threads[b]]
        BY <1>1 DEF ComposerType
      <3>1. CASE a # p[1]
        <4>1. Carries(a)
          BY <1>2, <1>6, <1>7, <1>8, <2>3, <3>1 DEF Carries
        <4>2. threads'[a] = threads[a]
          BY <1>10, <2>3, <3>0, <3>1
        <4> QED
          BY <1>1, <2>1, <4>1, <4>2, ThreadStays
      <3>2. CASE a = p[1]
        <4>1. threads'[a] = Compose!RemoveFirst(threads[a], Compose!Row(0, s, p))
          <5> DEFINE new == Compose!TakeOut(threads[a], s, p)
          <5>1. new = Compose!RemoveFirst(threads[a], Compose!Row(0, s, p))
            BY DEF Compose!TakeOut, Compose!RemoveOptimistic, Compose!Optimistic
          <5> HIDE DEF new
          <5>2. threads' = [threads EXCEPT ![a] = new]
            BY <2>3, <3>2 DEF new
          <5>3. threads'[a] = new
            BY <1>10, <3>0, <3>2, <5>2
          <5> QED
            BY <5>1, <5>3
        <4>2. \A r \in DOMAIN sends :
                 sends'[r].refused = IF r = s THEN sends[s].refused \cup {p} ELSE sends[r].refused
          BY <1>7, <2>3
        <4> QED
          BY <1>2, <1>7, <1>8, <2>1, <3>2, <4>1, <4>2, RowTakenOut
      <3> QED
        BY <3>1, <3>2
    <2> QED
      BY <1>6, <2>2, <2>3
  <1> QED
    BY <1>12, <1>13, <1>14, <1>15 DEF ComposerInv

(* A message comes down the socket.                                        *)
LEMMA OnMessageStep ==
    ASSUME ComposerInv, Compose!OnMessage
    PROVE  ComposerInv'
  <1> DEFINE m == Head(composerDown)
             s == composerLog[m].send
             p == composerLog[m].to
             b == p[1]
             row == Compose!Row(m, s, p)
             c == Compose!Candidates(b, m)
             top == Compose!Max(c)
             L == Len(threads[b])
             Held == \E n \in DOMAIN threads[b] : threads[b][n].id = m
             k == IF c = {} THEN L + 1 ELSE top
             old == threads[b]
             new == IF c = {} THEN Append(old, row) ELSE [old EXCEPT ![top] = row]
  <1>1. ComposerType /\ FilesApart /\ LogIsSent
    BY DEF ComposerInv
  <1>2. /\ composerDown # <<>> /\ composerDown' = Tail(composerDown)
        /\ UNCHANGED <<input, staged, uploads, sends, composerLog, composerConnected, missed>>
        /\ \/ Held /\ threads' = threads /\ crossed' = crossed /\ buried' = buried
           \/ /\ ~Held /\ threads' = [threads EXCEPT ![b] = new]
              /\ crossed' = IF c # {} /\ threads[b][top] # Compose!Optimistic(s, p)
                            THEN crossed \cup {b} ELSE crossed
              /\ buried' = IF c = {} /\ \E n \in DOMAIN threads[b] : Compose!Matches(threads[b][n], m)
                           THEN buried \cup {b} ELSE buried
    BY DEF Compose!OnMessage
  <1>3. /\ IsList(composerDown') /\ m \in DOMAIN composerLog
        /\ \A l \in Compose!ToSet(composerDown) : l = m \/ l \in Compose!ToSet(composerDown')
        /\ Compose!ToSet(composerDown') \subseteq Compose!ToSet(composerDown)
    <2> DEFINE t == Tail(composerDown)
               D == Len(composerDown)
    <2>1. IsList(t) /\ DOMAIN t = 1 .. D - 1 /\ D >= 1 /\ Head(composerDown) = composerDown[1]
      BY <1>1, <1>2, TailOf DEF ComposerType
    <2>2. \A n \in 1 .. D - 1 : t[n] = composerDown[n + 1]
      BY <1>1, <1>2, TailOf DEF ComposerType
    <2>3. D \in Nat /\ DOMAIN composerDown = 1 .. D
      BY <1>1, ListFacts DEF ComposerType
    <2> HIDE DEF t, D
    <2>4. composerDown' = t
      BY <1>2 DEF t
    <2>5. 1 \in 1 .. D /\ \A n \in 1 .. D - 1 : n + 1 \in 1 .. D
      BY <2>1, <2>3
    <2>6. \A n \in 1 .. D : n = 1 \/ (n - 1 \in 1 .. D - 1 /\ (n - 1) + 1 = n)
      BY <2>3
    <2>7. m \in Compose!ToSet(composerDown)
      BY <2>1, <2>3, <2>5 DEF Compose!ToSet
    <2>8. \A n \in 1 .. D : n = 1 \/ (n - 1 \in DOMAIN t /\ t[n - 1] = composerDown[n])
      <3> TAKE n \in 1 .. D
      <3>1. CASE n = 1
        BY <3>1
      <3>2. CASE n # 1
        <4>1. n - 1 \in 1 .. D - 1 /\ (n - 1) + 1 = n
          BY <2>6, <3>2
        <4>2. t[n - 1] = composerDown[(n - 1) + 1]
          BY <2>2, <4>1
        <4> QED
          BY <2>1, <4>1, <4>2
      <3> QED
        BY <3>1, <3>2
    <2>9. \A l \in Compose!ToSet(composerDown) : l = m \/ l \in Compose!ToSet(t)
      BY <2>1, <2>3, <2>8 DEF Compose!ToSet
    <2>10. Compose!ToSet(t) \subseteq Compose!ToSet(composerDown)
      BY <2>1, <2>2, <2>3, <2>5 DEF Compose!ToSet
    <2> HIDE DEF m
    <2>11. m \in DOMAIN composerLog
      BY <1>1, <2>7 DEF LogIsSent
    <2> QED
      BY <2>1, <2>4, <2>9, <2>10, <2>11 DEF IsList
  <1> HIDE DEF m
  <1>4. p \in PairsOf(s) /\ s \in DOMAIN sends
    BY <1>1, <1>3 DEF LogIsSent
  <1> HIDE DEF s, p
  <1>5. p = <<b, p[2]>> /\ b \in Addressee
    <2>1. p = <<b, p[2]>> /\ b \in Compose!ToSet(sends[s].parsed.agents)
      BY <1>4, PairParts
    <2> QED
      BY <1>1, <1>4, <2>1 DEF ComposerType, IsSend, WellParsed
  <1>6. IsList(old) /\ L \in Nat /\ DOMAIN old = 1 .. L
    BY <1>1, <1>5, ListFacts DEF ComposerType
  <1>7. c # {} => top \in c
    <2>1. c \in SUBSET (1 .. L)
      BY <1>6 DEF Compose!Candidates
    <2>2. ASSUME c # {} PROVE \E n \in c : \A l \in c : n >= l
      BY <1>6, <2>1, <2>2, GreatestOf
    <2> HIDE DEF c
    <2> QED
      BY <2>2 DEF Compose!Max
  <1>8. c # {} => /\ top \in 1 .. L /\ old[top].id = 0
                  /\ Compose!Message(old[top].send) = Compose!Stored(s)
    BY <1>6, <1>7 DEF Compose!Candidates, Compose!Matches, s
  <1> HIDE DEF c, top, row
  <1>9. /\ IsList(new) /\ DOMAIN new = DOMAIN old \cup {k} /\ new[k] = row
        /\ \A n \in DOMAIN old : n # k => new[n] = old[n]
    <2>1. CASE c = {}
      <3> DEFINE t == Append(old, row)
      <3>1. IsList(t) /\ DOMAIN t = 1 .. L + 1 /\ t[L + 1] = row /\ \A n \in 1 .. L : t[n] = old[n]
        BY <1>6, Appended
      <3> HIDE DEF t, old, L
      <3>2. 1 .. L + 1 = 1 .. L \cup {L + 1}
        BY <1>6
      <3>3. new = t /\ k = L + 1
        BY <2>1 DEF t
      <3> QED
        BY <1>6, <3>1, <3>2, <3>3
    <2>2. CASE c # {}
      <3> DEFINE t == [old EXCEPT ![top] = row]
      <3>1. /\ IsList(t) /\ DOMAIN t = DOMAIN old /\ t[top] = row
            /\ \A n \in DOMAIN old : n # top => t[n] = old[n]
        BY <1>6, <1>8, <2>2, Replaced
      <3> HIDE DEF t, old, L
      <3>2. new = t /\ k = top
        BY <2>2 DEF t
      <3> QED
        BY <1>6, <1>8, <2>2, <3>1, <3>2
    <2> QED
      BY <2>1, <2>2
  <1> HIDE DEF new
  <1>10. threads = [a \in Addressee |-> threads[a]] /\ \A a \in Addressee : IsList(threads[a])
    BY <1>1 DEF ComposerType
  <1>11. /\ threads' = [a \in Addressee |-> threads'[a]] /\ \A a \in Addressee : IsList(threads'[a])
         /\ \A a \in Addressee : a # b => threads'[a] = threads[a]
         /\ ~Held => threads'[b] = new
    <2>1. CASE threads' = threads /\ Held
      BY <1>10, <2>1
    <2>2. CASE threads' = [threads EXCEPT ![b] = new] /\ ~Held
      <3> HIDE DEF Held
      <3> QED
        BY <1>5, <1>9, <1>10, <2>2
    <2> QED
      BY <1>2, <2>1, <2>2
  <1>12. ComposerType'
    BY <1>1, <1>2, <1>3, <1>11 DEF ComposerType, IsList
  <1>13. FilesApart'
    BY <1>1, <1>2 DEF FilesApart
  <1>14. LogIsSent'
    <2>1. ~composerConnected => FALSE
      BY <1>1, <1>2 DEF LogIsSent
    <2>2. Compose!ToSet(composerDown') \subseteq DOMAIN composerLog
      BY <1>1, <1>3 DEF LogIsSent
    <2>3. \A r : PairsOf(r)' = PairsOf(r)
      BY <1>2 DEF PairsOf
    <2> QED
      BY <1>1, <1>2, <2>1, <2>2, <2>3 DEF LogIsSent
  <1>15. (\A a \in crossed : a \in crossed') /\ (\A a \in buried : a \in buried')
    BY <1>2
  <1>16. ASSUME NEW a \in Addressee \ missed' PROVE ThreadIsSent(a)'
    <2>1. ThreadIsSent(a) /\ IsList(threads[a]) /\ IsList(composerLog)
      BY <1>1, <1>2 DEF ComposerInv, ComposerType
    <2>2. CASE Held \/ a # b
      <3>1. threads'[a] = threads[a]
        BY <1>2, <1>11, <2>2
      <3>2. m \in DOMAIN composerLog /\ composerLog[m].to[1] = a
               => \E n \in DOMAIN threads[a] : RowOf(a, n).id = m
        BY <2>2 DEF RowOf, p
      <3>3. Carries(a)
        BY <1>2, <1>3, <1>15, <3>2 DEF Carries
      <3> QED
        BY <1>1, <2>1, <3>1, <3>3, ThreadStays
    <2>3. CASE ~Held /\ a = b
      <3>1. /\ DOMAIN threads'[a] = DOMAIN threads[a] \cup {k} /\ threads'[a][k] = row
            /\ \A n \in DOMAIN threads[a] : n # k => threads'[a][n] = threads[a][n]
        BY <1>9, <1>11, <2>3
      <3>2. k \in DOMAIN threads[a] => k = top /\ c # {}
        BY <1>6, <2>3
      <3>3. c # {} => /\ k \in DOMAIN threads[a] /\ RowOf(a, k).id = 0
                      /\ Compose!Message(RowOf(a, k).send) = Compose!Stored(s)
                      /\ a \in crossed' \/ RowOf(a, k) = Compose!Row(0, s, p)
        BY <1>2, <1>6, <1>8, <2>3 DEF RowOf, Compose!Optimistic
      <3>4. c = {} => \/ a \in buried'
                      \/ \A n \in Waiting(a) :
                            Compose!Message(RowOf(a, n).send) # Compose!Stored(s)
        BY <1>2, <2>3 DEF Waiting, RowOf, Compose!Matches, s
      <3>5. Arrives(a, m, k)
        <4> HIDE DEF k
        <4> QED
          BY <3>1, <3>2, <3>3, <3>4 DEF Arrives, s, p, row
      <3>6. \A n \in DOMAIN threads[a] : RowOf(a, n).id # m
        BY <2>3 DEF RowOf
      <3>7. composerLog[m].to[1] = a
        BY <2>3 DEF p
      <3> HIDE DEF k
      <3> QED
        BY <1>1, <1>2, <1>3, <1>15, <2>1, <3>5, <3>6, <3>7, RowArrives
    <2> QED
      BY <2>2, <2>3
  <1> QED
    BY <1>12, <1>13, <1>14, <1>16 DEF ComposerInv

(* The socket closes: what was on its way does not come.                   *)
LEMMA DisconnectStep ==
    ASSUME ComposerInv, Compose!Disconnect
    PROVE  ComposerInv'
  <1>1. ComposerType /\ FilesApart /\ LogIsSent
    BY DEF ComposerInv
  <1>2. /\ UNCHANGED <<input, uploads, staged, sends, threads, composerLog, crossed, buried>>
        /\ composerDown' = <<>>
        /\ missed' = missed \cup {composerLog[composerDown[n]].to[1] : n \in DOMAIN composerDown}
    BY DEF Compose!Disconnect
  <1>3. IsList(composerDown') /\ Compose!ToSet(composerDown') = {}
    <2> DEFINE e == <<>>
    <2>1. 0 \in Nat /\ e = [n \in 1 .. 0 |-> e[n]]
      OBVIOUS
    <2> HIDE DEF e
    <2>2. IsList(e) /\ DOMAIN e = 1 .. 0
      BY <2>1, ListOf
    <2>3. Compose!ToSet(e) = {}
      BY <2>2 DEF Compose!ToSet
    <2>4. composerDown' = e
      BY <1>2 DEF e
    <2> QED
      BY <2>2, <2>3, <2>4 DEF IsList
  <1>4. ComposerType'
    BY <1>1, <1>2, <1>3 DEF ComposerType, IsList
  <1>5. FilesApart'
    BY <1>1, <1>2 DEF FilesApart
  <1>6. LogIsSent'
    BY <1>1, <1>2, <1>3 DEF LogIsSent, PairsOf
  <1>7. ASSUME NEW a \in Addressee \ missed' PROVE ThreadIsSent(a)'
    <2>1. ThreadIsSent(a) /\ IsList(threads[a])
      BY <1>1, <1>2 DEF ComposerInv, ComposerType
    <2>2. \A m \in Compose!ToSet(composerDown) : composerLog[m].to[1] # a
      BY <1>2 DEF Compose!ToSet
    <2>3. Carries(a)
      BY <1>2, <2>2 DEF Carries
    <2>4. threads'[a] = threads[a]
      BY <1>2
    <2> QED
      BY <1>1, <2>1, <2>3, <2>4, ThreadStays
  <1> QED
    BY <1>4, <1>5, <1>6, <1>7 DEF ComposerInv

(* The socket opens again, and the messages that are not held come.        *)
LEMMA ReconnectStep ==
    ASSUME ComposerInv, Compose!Connect
    PROVE  ComposerInv'
  <1> DEFINE all == [m \in DOMAIN composerLog |->
                       Compose!Row(m, composerLog[m].send, composerLog[m].to)]
             came(a) == Compose!Picked(all, Compose!Missed(a))
  <1>1. ComposerType /\ FilesApart /\ LogIsSent
    BY DEF ComposerInv
  <1>2. /\ UNCHANGED <<input, uploads, staged, sends, composerLog, composerDown,
                       missed, crossed, buried>>
        /\ ~composerConnected
        /\ threads' = [a \in Addressee |-> threads[a] \o came(a)]
    BY DEF Compose!Connect, Compose!history
  <1>3. \A a \in Addressee : /\ IsList(came(a))
                             /\ Compose!Missed(a) = {} => came(a) = <<>>
    <2> TAKE a \in Addressee
    <2> DEFINE S == Compose!Missed(a)
               N == Len(composerLog)
    <2>1. N \in Nat /\ DOMAIN composerLog = 1 .. N
      BY <1>1, ListFacts DEF ComposerType
    <2>2. S \in SUBSET (1 .. N)
      BY <2>1 DEF Compose!Missed
    <2> HIDE DEF S, N, all
    <2>3. /\ IsList(Compose!Picked(all, S))
          /\ S = {} => Compose!Picked(all, S) = <<>>
      BY <2>1, <2>2, PickedFrom
    <2> QED
      BY <2>3 DEF S
  <1> HIDE DEF came
  <1>4. threads' = [a \in Addressee |-> threads'[a]] /\ \A a \in Addressee : IsList(threads'[a])
    <2>1. \A a \in Addressee : IsList(threads[a] \o came(a))
      BY <1>1, <1>3, Joined DEF ComposerType
    <2> QED
      BY <1>2, <2>1
  <1>5. ComposerType'
    BY <1>1, <1>2, <1>4 DEF ComposerType, IsList
  <1>6. FilesApart'
    BY <1>1, <1>2 DEF FilesApart
  <1>7. Compose!ToSet(composerDown) = {}
    <2> DEFINE e == <<>>
    <2>1. 0 \in Nat /\ e = [n \in 1 .. 0 |-> e[n]]
      OBVIOUS
    <2> HIDE DEF e
    <2>2. DOMAIN e = 1 .. 0
      BY <2>1, ListOf
    <2>3. Compose!ToSet(e) = {}
      BY <2>2 DEF Compose!ToSet
    <2>4. composerDown = e
      BY <1>1, <1>2 DEF LogIsSent, e
    <2> QED
      BY <2>3, <2>4
  <1>8. LogIsSent'
    <2>1. composerDown' = <<>>
      BY <1>1, <1>2 DEF LogIsSent
    <2> QED
      BY <1>1, <1>2, <2>1 DEF LogIsSent, PairsOf
  <1>9. ASSUME NEW a \in Addressee \ missed' PROVE ThreadIsSent(a)'
    <2>1. ThreadIsSent(a) /\ IsList(threads[a])
      BY <1>1, <1>2 DEF ComposerInv, ComposerType
    <2>2. Carries(a)
      BY <1>2, <1>7 DEF Carries
    <2>3. Compose!Missed(a) = {}
      BY <1>7, <2>1 DEF ThreadIsSent, RowsAreSent, RowOf, Compose!Missed
    <2>4. threads'[a] = threads[a]
      <3> DEFINE O == threads[a]
      <3>1. threads'[a] = O \o <<>>
        BY <1>2, <1>3, <2>3
      <3>2. O \in Seq(Compose!ToSet(O))
        BY <2>1 DEF IsList
      <3> HIDE DEF O
      <3>3. O \o <<>> = O
        BY <3>2
      <3> QED
        BY <3>1, <3>3 DEF O
    <2> QED
      BY <1>1, <2>1, <2>2, <2>4, ThreadStays
  <1> QED
    BY <1>5, <1>6, <1>8, <1>9 DEF ComposerInv

LEMMA ComposerStep ==
    ASSUME ComposerInv, Compose!Next
    PROVE  ComposerInv'
  <1>1. ASSUME NEW t \in Compose!Inputs(Len(sends) + 1), Compose!Type(t) PROVE ComposerInv'
    BY <1>1, TypedIsText, TypeStep DEF ComposerInv
  <1>2. CASE Compose!EscapeTopics
    BY <1>2, EscapeStep
  <1>3. CASE Compose!HandleSend
    BY <1>3, SendStep
  <1>4. CASE Compose!OnMessage
    BY <1>4, OnMessageStep
  <1>5. CASE Compose!Disconnect
    BY <1>5, DisconnectStep
  <1>6. CASE Compose!Connect
    BY <1>6, ReconnectStep
  <1>7. ASSUME NEW f \in FileId,
               \/ Compose!HandleFileUpload(f)
               \/ Compose!UploadEnds(f)
               \/ Compose!RemoveStagedFile(f)
        PROVE  ComposerInv'
    BY <1>7, UploadStep, UploadEndsStep, UnstageStep
  <1>8. ASSUME NEW s \in DOMAIN sends, NEW a \in Addressee, Compose!Spawned(s, a)
        PROVE  ComposerInv'
    BY <1>8, SpawnedStep
  <1>9. ASSUME NEW s \in DOMAIN sends, NEW p \in PairsOf(s),
               Compose!Accept(s, p) \/ Compose!Answered(s, p)
        PROVE  ComposerInv'
    BY <1>9, TakenByServerStep, AnsweredStep
  <1> QED
    BY <1>1, <1>2, <1>3, <1>4, <1>5, <1>6, <1>7, <1>8, <1>9 DEF Compose!Next, PairsOf

(* What the invariant says when all answers and messages have come.        *)
LEMMA ComposerSettles ==
    ASSUME ComposerInv
    PROVE  Compose!SentAndSettled
  <1>1. ComposerType /\ FilesApart /\ LogIsSent
    BY DEF ComposerInv
  <1>2. Compose!SentAsComposed
    <2>1. \A s \in DOMAIN sends : /\ sends[s].files \cap Compose!ToSet(staged) = {}
                                  /\ \A r \in 1 .. s - 1 : sends[s].files \cap sends[r].files = {}
      <3>1. Len(sends) \in Nat /\ DOMAIN sends = 1 .. Len(sends)
        BY <1>1, ListFacts DEF ComposerType
      <3>2. \A s \in DOMAIN sends : \A r \in 1 .. s - 1 : r \in DOMAIN sends /\ r # s
        BY <3>1
      <3> QED
        BY <1>1, <3>2 DEF FilesApart
    <2> QED
      BY <1>1, <2>1 DEF Compose!SentAsComposed, LogIsSent, PairsOf
  <1>3. ASSUME Compose!Settled, NEW a \in Addressee, a \notin missed, a \notin buried,
               ~(a \in crossed /\ Compose!Refused(a))
        PROVE  /\ \A n \in DOMAIN threads[a] :
                     threads[a][n].id = 0 => Compose!Altered(threads[a][n].send)
               /\ \A n, k \in DOMAIN threads[a] :
                     threads[a][n].id = threads[a][k].id /\ threads[a][n].id # 0 => n = k
               /\ {threads[a][n].id : n \in DOMAIN threads[a]} \ {0}
                     = {m \in DOMAIN composerLog : composerLog[m].to[1] = a}
    <2>1. RowsAreSent(a) /\ RowsAreOwed(a) /\ RowsHaveShare(a)
      BY <1>3 DEF ComposerInv, ThreadIsSent
    <2>2. Compose!ToSet(composerDown) = {}
      <3> DEFINE e == <<>>
      <3>1. 0 \in Nat /\ e = [n \in 1 .. 0 |-> e[n]]
        OBVIOUS
      <3> HIDE DEF e
      <3>2. DOMAIN e = 1 .. 0
        BY <3>1, ListOf
      <3>3. Compose!ToSet(e) = {}
        BY <3>2 DEF Compose!ToSet
      <3>4. composerDown = e
        BY <1>3 DEF Compose!Settled, e
      <3> QED
        BY <3>3, <3>4
    <2>3. \A s, p : ~IsOwed(a, s, p)
      <3> SUFFICES ASSUME NEW s, NEW p, IsOwed(a, s, p) PROVE FALSE
        OBVIOUS
      <3>1. s \in DOMAIN sends /\ p \in PairsOf(s) /\ p[1] = a /\ p \notin sends[s].refused
        BY DEF IsOwed
      <3>2. sends[s].at = "posting" /\ p \notin sends[s].open
        BY <1>3, <3>1 DEF Compose!Settled
      <3>3. PICK m \in DOMAIN composerLog : composerLog[m].send = s /\ composerLog[m].to = p
        BY <1>1, <3>1, <3>2 DEF LogIsSent
      <3>4. PICK n \in DOMAIN threads[a] : RowOf(a, n).id = m
        BY <2>1, <2>2, <3>1, <3>3 DEF RowsAreSent
      <3>5. m # 0
        <4>1. Len(composerLog) \in Nat /\ DOMAIN composerLog = 1 .. Len(composerLog)
          BY <1>1, ListFacts DEF ComposerType
        <4> QED
          BY <4>1
      <3>6. Came(a, s, p)
        BY <3>3, <3>4, <3>5 DEF Came
      <3> QED
        BY <3>6 DEF IsOwed
    <2>4. Waiting(a) = {}
      <3>1. CASE a \notin crossed
        BY <2>1, <2>3, <3>1 DEF RowsAreOwed
      <3>2. CASE ~Compose!Refused(a)
        <4>1. PICK f : f \in [Waiting(a) -> Owed(a)]
          BY <2>1, <3>2 DEF RowsHaveShare
        <4>2. Owed(a) = {}
          BY <2>3 DEF Owed
        <4> QED
          BY <4>1, <4>2
      <3> QED
        BY <1>3, <3>1, <3>2
    <2>5. \A n \in DOMAIN threads[a] :
             RowOf(a, n).id = 0 => Compose!Altered(RowOf(a, n).send)
      BY <2>4 DEF Waiting
    <2>6. \A n, k \in DOMAIN threads[a] :
             RowOf(a, n).id = RowOf(a, k).id /\ RowOf(a, n).id # 0 => n = k
      BY <2>1 DEF RowsAreSent
    <2>7. {RowOf(a, n).id : n \in DOMAIN threads[a]} \ {0}
             = {m \in DOMAIN composerLog : composerLog[m].to[1] = a}
      <3>1. \A n \in DOMAIN threads[a] : RowOf(a, n).id # 0 =>
               RowOf(a, n).id \in DOMAIN composerLog /\ composerLog[RowOf(a, n).id].to[1] = a
        BY <2>1 DEF RowsAreSent
      <3>2. \A m \in DOMAIN composerLog : composerLog[m].to[1] = a =>
               \E n \in DOMAIN threads[a] : RowOf(a, n).id = m
        BY <2>1, <2>2 DEF RowsAreSent
      <3>3. 0 \notin DOMAIN composerLog
        <4>1. Len(composerLog) \in Nat /\ DOMAIN composerLog = 1 .. Len(composerLog)
          BY <1>1, ListFacts DEF ComposerType
        <4> QED
          BY <4>1
      <3> QED
        BY <3>1, <3>2, <3>3
    <2> QED
      BY <2>5, <2>6, <2>7 DEF RowOf
  <1>4. Compose!RowsSettle
    BY <1>3 DEF Compose!RowsSettle
  <1> QED
    BY <1>2, <1>4 DEF Compose!SentAndSettled

LEMMA ComposerStarts ==
    ASSUME Compose!Init
    PROVE  ComposerInv
  <1> DEFINE e == <<>>
  <1>1. IsList(e) /\ DOMAIN e = {} /\ Compose!ToSet(e) = {}
    <2>1. 0 \in Nat /\ e = [n \in 1 .. 0 |-> e[n]]
      OBVIOUS
    <2> HIDE DEF e
    <2>2. IsList(e) /\ DOMAIN e = 1 .. 0
      BY <2>1, ListOf
    <2> QED
      BY <2>2 DEF Compose!ToSet
  <1>2. /\ input = e /\ staged = e /\ sends = e /\ composerLog = e /\ composerDown = e
        /\ uploads = {} /\ threads = [a \in Addressee |-> e] /\ composerConnected
    BY DEF Compose!Init
  <1> HIDE DEF e
  <1>3. \A a \in Addressee : threads[a] = e
    BY <1>2
  <1>4. ComposerType
    BY <1>1, <1>2, <1>3 DEF ComposerType
  <1>5. FilesApart
    BY <1>1, <1>2 DEF FilesApart
  <1>6. LogIsSent
    BY <1>1, <1>2 DEF LogIsSent
  <1>7. ASSUME NEW a \in Addressee PROVE ThreadIsSent(a)
    <2>1. DOMAIN threads[a] = {} /\ Waiting(a) = {}
      BY <1>1, <1>3 DEF Waiting
    <2>2. RowsAreSent(a) /\ RowsAreOwed(a)
      BY <1>1, <1>2, <2>1 DEF RowsAreSent, RowsAreOwed
    <2>3. RowsHaveShare(a)
      <3> DEFINE f == [n \in {} |-> n]
      <3>1. f \in [Waiting(a) -> Owed(a)] /\ IsShare(a, f)
        BY <2>1 DEF IsShare
      <3> QED
        BY <3>1 DEF RowsHaveShare
    <2> QED
      BY <2>2, <2>3 DEF ThreadIsSent
  <1> QED
    BY <1>4, <1>5, <1>6, <1>7 DEF ComposerInv

(* A send goes out as it was composed, with its files and to each of its   *)
(* targets, and the rows of its messages settle: the properties of         *)
(* handleSend and of the rows it shows before the server has them.         *)
THEOREM ComposerSettlesWhatIsSent == BrowserSpec => []SentAndSettled
  <1> DEFINE Inv == part = "composer" => ComposerInv
  <1>1. BrowserInit => Inv
    BY ComposerStarts DEF BrowserInit
  <1>2. Inv /\ [BrowserNext]_browserVars => Inv'
    <2> SUFFICES ASSUME Inv, [BrowserNext]_browserVars, part' = "composer" PROVE ComposerInv'
      OBVIOUS
    <2>1. CASE BrowserNext
      <3>1. part = "composer" /\ Compose!Next
        BY <2>1 DEF BrowserNext
      <3> QED
        BY <3>1, ComposerStep
    <2>2. CASE UNCHANGED browserVars
      <3>1. /\ part = "composer" /\ UNCHANGED <<input, staged, uploads>>
            /\ UNCHANGED <<sends, threads, composerLog, composerDown, composerConnected,
                           missed, crossed, buried>>
        BY <2>2 DEF browserVars, composerVars
      <3>2. ComposerInv
        BY <3>1
      <3>3. IsList(input') /\ IsList(staged')
        BY <3>1, <3>2 DEF ComposerInv, ComposerType
      <3>4. FilesApart'
        BY <3>1, <3>2 DEF ComposerInv, FilesApart
      <3> QED
        BY <3>1, <3>2, <3>3, <3>4, NothingSent DEF ComposerInv
    <2> QED
      BY <2>1, <2>2
  <1>3. Inv => SentAndSettled
    BY ComposerSettles DEF SentAndSettled
  <1> QED
    BY <1>1, <1>2, <1>3, PTL DEF BrowserSpec

-----------------------------------------------------------------------------
(* The editor of a persona                                                 *)

IsLines(l) == l \in Seq(Edit!Line)
SetOnce(l) == IsLines(l) /\ Cardinality(Edit!PlacesOf(l, "telegram")) <= 1

IsEditor(e) == e \in Edit!Editor
Held(v) == v \in 1 .. visit /\ IsEditor(editor[v])

EditorType ==
    /\ visit \in 0 .. MaxVisit /\ (editorPage # None => visit # 0) /\ seq \in Nat
    /\ personaFile \in [Addressee -> Edit!Content]
    /\ botToken = [a \in Addressee |-> botToken[a]]
    /\ editor = [v \in Edit!Visit |-> editor[v]]
    /\ \A v \in Edit!Visit : editor[v] # None => IsEditor(editor[v])
    /\ \A l \in loads : l.by \in 1 .. visit /\ l.of \in Addressee
    /\ \A v \in wired : Held(v)
    /\ \A p \in previews : /\ Held(p.by) /\ p.seq \in Nat /\ p.content \in Edit!Content
                           /\ DOMAIN p = {"by", "seq", "step", "content"}
    /\ previewTimer # None => previewTimer = visit /\ Held(visit)

(* What is being saved is of the editor's own file, which has been written *)
(* once the next request follows.                                          *)
SavesAreOwn ==
    \A s \in saves :
        /\ DOMAIN s = {"by", "n", "step", "value", "content"}
        /\ Held(s.by) /\ s.content \in Edit!Content /\ SetOnce(s.content.lines)
        /\ s.step # "put" => s.content.of \in put

FilesAreOwn ==
    \A a \in Addressee : personaFile[a].of = a /\ (a \in put => SetOnce(personaFile[a].lines))

(* One preview has a number, and the last one that was asked for shows what*)
(* a save would write, unless an earlier one was drawn after it.           *)
OnItsWay(e) ==
    \/ \E p \in previews : p.seq = seq /\ p.by = visit /\ p.content = Edit!Collected(e)
    \/ (\A p \in previews : p.seq # seq) /\ (e.overdrawn \/ e.preview = Edit!Collected(e))
PreviewsAreLast ==
    /\ \A p \in previews : p.seq <= seq
    /\ \A p, q \in previews : p.seq = q.seq => p = q
    /\ Edit!Shown /\ previewTimer = None =>
          \/ editor[visit].unheard \/ visit \in superseded
          \/ OnItsWay(editor[visit])

EditorInv ==
    EditorType /\ SavesAreOwn /\ FilesAreOwn /\ Edit!TokenFollowsSave /\ PreviewsAreLast

(* What BrowserAssumption says of the editor.                              *)
LEMMA EditorConstants ==
    /\ None \notin Int /\ ~IsEditor(None) /\ MaxVisit \in Nat
    /\ \A a \in Addressee : IsLines(LinesOf[a])
  BY BrowserAssumption DEF BrowserAssumption, Edit!PersonaEditorAssumption, IsLines, IsEditor

-----------------------------------------------------------------------------
(* The telegram block                                                      *)

LEMMA LinesOfSeq ==
    ASSUME NEW l, IsLines(l)
    PROVE  /\ Len(l) \in Nat /\ DOMAIN l = 1 .. Len(l)
           /\ \A i \in 1 .. Len(l) : l[i] \in Edit!Line
           /\ \A i \in DOMAIN l : i \in Nat
  BY DEF IsLines

(* A set of n numbers has n ranks.                                         *)
LEMMA RanksReach ==
    ASSUME NEW N \in Nat, NEW S \in SUBSET (1 .. N)
    PROVE  \A i \in S : \E k \in 1 .. Cardinality(S) : Edit!Nth(S, k) = i
  <1> DEFINE C == Cardinality(S)
             f == [k \in 1 .. C |-> Edit!Nth(S, k)]
  <1>1. \A k : Edit!Nth(S, k) = Compose!Nth(S, k)
    BY DEF Edit!Nth, Compose!Nth, Edit!Cardinality, Compose!Cardinality
  <1>2. IsFiniteSet(S) /\ C \in Nat
    BY PlacesFinite
  <1>3. \A k \in 1 .. C : Compose!Nth(S, k) \in S /\ Cardinality({m \in S : m <= Compose!Nth(S, k)}) = k
    BY NthExists
  <1> HIDE DEF C
  <1>4. \A k \in 1 .. C : f[k] \in S /\ f[k] = Compose!Nth(S, k)
    BY <1>1, <1>3
  <1>5. \A k, n \in 1 .. C : f[k] = f[n] => k = n
    BY <1>3, <1>4
  <1>6. f \in [1 .. C -> S]
    BY <1>4
  <1>7. f \in Injection(1 .. C, S)
    BY <1>5, <1>6 DEF Injection, IsInjective
  <1>8. Cardinality(1 .. C) = C
    BY <1>2, FS_Interval
  <1>9. f \in Surjection(1 .. C, S)
    BY <1>2, <1>7, <1>8, FS_Injection DEF C
  <1>10. \A i \in S : \E k \in 1 .. C : f[k] = i
    BY <1>9 DEF Surjection
  <1> QED
    BY <1>10 DEF C

(* Without its blocks a list of lines has no head of one, and as many of   *)
(* the lines that stay.                                                    *)
LEMMA WithoutBlocks ==
    ASSUME NEW l, IsLines(l)
    PROVE  LET w == Edit!Without(l) IN
           /\ IsLines(w) /\ Edit!PlacesOf(w, "telegram") = {}
           /\ Cardinality(Edit!PlacesOf(w, "hook")) = Cardinality(Edit!PlacesOf(l, "hook"))
  <1> DEFINE S == Edit!Kept(l)
             N == Len(l)
             C == Cardinality(S)
             nth(k) == Edit!Nth(S, k)
             w == Edit!Without(l)
             W == Edit!PlacesOf(w, "hook")
             H == Edit!PlacesOf(l, "hook")
             f == [k \in W |-> nth(k)]
  <1>1. N \in Nat /\ DOMAIN l = 1 .. N /\ \A i \in 1 .. N : l[i] \in Edit!Line
    BY LinesOfSeq
  <1>2. S \in SUBSET (1 .. N)
    BY <1>1 DEF Edit!Kept
  <1>3. \A i \in S : l[i] # "telegram"
    <2> SUFFICES ASSUME NEW i \in S, l[i] = "telegram" PROVE FALSE
      OBVIOUS
    <2>1. i \in 1 .. i /\ Edit!Within(l, i, i)
      BY <1>2 DEF Edit!Within
    <2> QED
      BY <2>1 DEF Edit!Kept
  <1>4. H \in SUBSET S
    <2> SUFFICES ASSUME NEW i \in DOMAIN l, l[i] = "hook",
                        NEW j \in 1 .. i, l[j] = "telegram", Edit!Within(l, j, i)
                 PROVE  FALSE
      BY DEF Edit!PlacesOf, Edit!Kept
    <2>1. i \in j + 1 .. i
      BY <1>1
    <2> QED
      BY <2>1 DEF Edit!Within, Edit!Indented
  <1> HIDE DEF S, N
  <1>5. C \in Nat
    BY <1>1, <1>2, PlacesFinite
  <1>6. w = [k \in 1 .. C |-> l[nth(k)]]
    BY DEF Edit!Without, Edit!Picked, Edit!Cardinality, Cardinality, S
  <1>7. \A k \in 1 .. C : nth(k) \in S /\ Cardinality({m \in S : m <= nth(k)}) = k
    <2>1. \A k : nth(k) = Compose!Nth(S, k)
      BY DEF Edit!Nth, Compose!Nth, Edit!Cardinality, Compose!Cardinality
    <2> QED
      BY <1>1, <1>2, <2>1, NthExists
  <1>8. \A i \in S : \E k \in 1 .. C : nth(k) = i
    BY <1>1, <1>2, RanksReach
  <1> HIDE DEF C, nth
  <1>9. w \in [1 .. C -> Edit!Line] /\ \A k \in 1 .. C : w[k] = l[nth(k)]
    BY <1>1, <1>2, <1>6, <1>7
  <1> HIDE DEF w
  <1>10. IsLines(w) /\ DOMAIN w = 1 .. C
    BY <1>5, <1>9 DEF IsLines
  <1>11. Edit!PlacesOf(w, "telegram") = {}
    BY <1>3, <1>7, <1>9, <1>10 DEF Edit!PlacesOf
  <1>12. \A k \in 1 .. C : k \in W <=> nth(k) \in H
    BY <1>1, <1>2, <1>7, <1>9, <1>10 DEF Edit!PlacesOf
  <1>13. W \in SUBSET (1 .. C)
    BY <1>10 DEF Edit!PlacesOf
  <1> HIDE DEF W, H
  <1>14. \A k, n \in W : nth(k) = nth(n) => k = n
    BY <1>7, <1>13
  <1>15. f \in [W -> H]
    BY <1>12, <1>13
  <1>16. \A i \in H : \E k \in W : f[k] = i
    BY <1>4, <1>8, <1>12
  <1>17. f \in Bijection(W, H)
    BY <1>14, <1>15, <1>16 DEF Bijection, Injection, Surjection, IsInjective
  <1>18. IsFiniteSet(W)
    BY <1>5, <1>13, PlacesFinite
  <1>19. Cardinality(H) = Cardinality(W)
    BY <1>17, <1>18, FS_Bijection DEF ExistsBijection
  <1> QED
    BY <1>10, <1>11, <1>19 DEF w, W, H

(* What is left of a list when the blank lines at its end are.             *)
LEMMA UnendedIs ==
    ASSUME NEW u, IsLines(u)
    PROVE  \E n \in 0 .. Len(u) :
              /\ Edit!Unended(u) = SubSeq(u, 1, n)
              /\ \A i \in n + 1 .. Len(u) : u[i] = "blank"
  <1> DEFINE N == Len(u)
             P(n) == (\A i \in n + 1 .. N : u[i] = "blank") /\ (n = 0 \/ u[n] # "blank")
             S == {i \in 1 .. N : u[i] # "blank"}
  <1>1. N \in Nat
    BY LinesOfSeq
  <1> HIDE DEF N
  <1>2. \E n \in 0 .. N : P(n)
    <2>1. CASE S = {}
      <3>1. 0 \in 0 .. N /\ P(0)
        BY <1>1, <2>1
      <3> QED
        BY <3>1
    <2>2. CASE S # {}
      <3>1. PICK n \in S : \A m \in S : n >= m
        <4>1. S \in SUBSET (1 .. N)
          OBVIOUS
        <4> HIDE DEF S
        <4> QED
          BY <1>1, <2>2, <4>1, GreatestOf
      <3>2. n \in 0 .. N /\ P(n)
        BY <1>1, <3>1
      <3> QED
        BY <3>2
    <2> QED
      BY <2>1, <2>2
  <1>3. Edit!Unended(u) = SubSeq(u, 1, CHOOSE n \in 0 .. N : P(n))
    BY DEF Edit!Unended, N
  <1> HIDE DEF P
  <1>4. PICK n \in 0 .. N : P(n) /\ Edit!Unended(u) = SubSeq(u, 1, n)
    BY <1>2, <1>3
  <1> QED
    BY <1>4 DEF P, N

(* What the widgets are shown for what they wrote.                         *)
LEMMA BlockIsSet ==
    ASSUME NEW l, IsLines(l), NEW c
    PROVE  LET t == Edit!SetTelegram(l, c) IN
           /\ SetOnce(t)
           /\ Cardinality(Edit!PlacesOf(t, "hook")) = Cardinality(Edit!PlacesOf(l, "hook"))
           /\ Edit!ChatOf(t) = IF c = "id" THEN "id" ELSE "none"
  <1> DEFINE w == Edit!Without(l)
             t == Edit!SetTelegram(l, c)
  <1>1. /\ IsLines(w) /\ Edit!PlacesOf(w, "telegram") = {}
        /\ Cardinality(Edit!PlacesOf(w, "hook")) = Cardinality(Edit!PlacesOf(l, "hook"))
    BY WithoutBlocks
  <1>2. t = IF c = "id" THEN Edit!Unended(w) \o <<"telegram", "chat">> ELSE w
    BY DEF Edit!SetTelegram
  <1> HIDE DEF t, w
  <1>3. CASE c # "id"
    <2>1. Edit!ChatOf(w) = "none"
      BY <1>1 DEF Edit!ChatOf, Edit!PlacesOf
    <2> QED
      BY <1>1, <1>2, <1>3, <2>1, FS_EmptySet DEF SetOnce, t
  <1>4. CASE c = "id"
    <2>1. PICK n \in 0 .. Len(w) : /\ Edit!Unended(w) = SubSeq(w, 1, n)
                                   /\ \A i \in n + 1 .. Len(w) : w[i] = "blank"
      BY <1>1, UnendedIs
    <2> DEFINE u == SubSeq(w, 1, n)
    <2>2. /\ Len(w) \in Nat /\ DOMAIN w = 1 .. Len(w) /\ n \in Nat /\ n <= Len(w)
          /\ \A i \in 1 .. Len(w) : w[i] \in Edit!Line
      BY <1>1, <2>1, LinesOfSeq
    <2>3. IsLines(u) /\ Len(u) = n /\ \A i \in 1 .. n : u[i] = w[i]
      BY <1>1, <2>2 DEF IsLines
    <2> HIDE DEF u
    <2>4. t = u \o <<"telegram", "chat">>
      BY <1>2, <1>4, <2>1 DEF u
    <2>5. /\ IsLines(t) /\ Len(t) = n + 2
          /\ \A i \in 1 .. n : t[i] = w[i]
          /\ t[n + 1] = "telegram" /\ t[n + 2] = "chat"
      BY <2>2, <2>3, <2>4 DEF IsLines, Edit!Line
    <2>6. DOMAIN t = 1 .. n + 2
      BY <2>2, <2>5 DEF IsLines
    <2>7. \A i \in 1 .. n : t[i] # "telegram"
      BY <1>1, <2>2, <2>5 DEF Edit!PlacesOf
    <2>8. \A i \in 1 .. n + 2 : i \in 1 .. n \/ i = n + 1 \/ i = n + 2
      BY <2>2
    <2>9. Edit!PlacesOf(t, "telegram") = {n + 1}
      BY <2>2, <2>5, <2>6, <2>7, <2>8 DEF Edit!PlacesOf
    <2>10. SetOnce(t)
      <3>1. Cardinality(Edit!PlacesOf(t, "telegram")) = 1
        BY <2>9, FS_Singleton
      <3> QED
        BY <2>5, <3>1 DEF SetOnce
    <2>11. Edit!PlacesOf(t, "hook") = Edit!PlacesOf(w, "hook")
      <3>1. \A i \in 1 .. Len(w) : w[i] = "hook" => i \in 1 .. n
        BY <2>1, <2>2
      <3>2. \A i \in 1 .. n + 2 : t[i] = "hook" => i \in 1 .. n
        BY <2>5, <2>8
      <3>3. \A i \in 1 .. n : i \in 1 .. n + 2 /\ i \in 1 .. Len(w)
        BY <2>2
      <3> QED
        BY <2>2, <2>5, <2>6, <3>1, <3>2, <3>3 DEF Edit!PlacesOf
    <2>12. Edit!ChatOf(t) = "id"
      <3>1. n + 1 \in DOMAIN t /\ n + 2 \in (n + 1) + 1 .. Len(t)
        BY <2>2, <2>5, <2>6
      <3>2. \A j \in 1 .. (n + 1) - 1 : t[j] # "telegram"
        BY <2>2, <2>7
      <3>3. Edit!Within(t, n + 1, n + 2)
        BY <2>2, <2>5 DEF Edit!Within, Edit!Indented
      <3> QED
        BY <2>5, <3>1, <3>2, <3>3 DEF Edit!ChatOf
    <2> QED
      BY <1>1, <1>4, <2>10, <2>11, <2>12 DEF t
  <1> QED
    BY <1>3, <1>4

-----------------------------------------------------------------------------
(* The editor's page                                                       *)

(* What a save sends has one block at most, and does not depend on what is *)
(* no part of the file.                                                    *)
LEMMA CollectedOnce ==
    ASSUME NEW e, IsEditor(e)
    PROVE  Edit!Collected(e) \in Edit!Content /\ SetOnce(Edit!Collected(e).lines)
  <1>1. IsLines(e.lines) /\ e.of \in Addressee /\ e.version \in Nat
    BY DEF IsEditor, IsLines, Edit!Editor
  <1>2. SetOnce(Edit!SetTelegram(e.lines, e.chat))
    BY <1>1, BlockIsSet
  <1> QED
    BY <1>1, <1>2 DEF Edit!Collected, Edit!Content, SetOnce, IsLines

LEMMA SameCollected ==
    ASSUME NEW e, NEW d, e.of = d.of, e.version = d.version, e.lines = d.lines, e.chat = d.chat
    PROVE  Edit!Collected(e) = Edit!Collected(d)
  BY DEF Edit!Collected

(* Pages come and go; an editor that is held stays.                        *)
LEMMA EditorShowStep ==
    ASSUME EditorInv, NEW a \in Addressee, Edit!Show(a) PROVE EditorInv'
  <1> USE DEF EditorInv, EditorType
  <1>1. /\ visit \in Nat /\ visit' = visit + 1 /\ visit' \in 0 .. MaxVisit
        /\ visit' \in Edit!Visit /\ visit' # 0
    BY EditorConstants DEF Edit!Show, Edit!Visit
  <1>2. \A v \in 1 .. visit : v \in 1 .. visit' /\ editor'[v] = editor[v]
    BY <1>1 DEF Edit!Show, Edit!Visit
  <1>3. \A v : Held(v) => Held(v)'
    BY <1>2 DEF Held
  <1>4. EditorType'
    <2>1. \A v \in Edit!Visit : editor'[v] # None => IsEditor(editor'[v])
      BY <1>1 DEF Edit!Show
    <2>2. \A l \in loads' : l.by \in 1 .. visit' /\ l.of \in Addressee
      BY <1>1 DEF Edit!Show
    <2>3. \A p \in previews' : /\ Held(p.by)' /\ p.seq \in Nat /\ p.content \in Edit!Content
                               /\ DOMAIN p = {"by", "seq", "step", "content"}
      BY <1>3 DEF Edit!Show, Edit!Teardown
    <2>4. /\ seq' \in Nat /\ wired' = {} /\ previewTimer' = None
          /\ UNCHANGED <<personaFile, botToken>>
      BY DEF Edit!Show, Edit!Teardown, Edit!server
    <2>5. editor' = [v \in Edit!Visit |-> editor'[v]]
      BY DEF Edit!Show
    <2> QED
      BY <1>1, <2>1, <2>2, <2>3, <2>4, <2>5
  <1>5. SavesAreOwn'
    BY <1>3 DEF Edit!Show, SavesAreOwn
  <1>6. FilesAreOwn' /\ Edit!TokenFollowsSave'
    BY DEF Edit!Show, Edit!server, FilesAreOwn, Edit!TokenFollowsSave
  <1>7. PreviewsAreLast'
    <2>1. editor' = [editor EXCEPT ![visit'] = None]
      BY DEF Edit!Show
    <2>2. ~Edit!Shown'
      BY <1>1, <2>1 DEF Edit!Shown
    <2>3. seq' = seq + 1 /\ previews' = previews
      BY DEF Edit!Show, Edit!Teardown
    <2> QED
      BY <2>2, <2>3 DEF PreviewsAreLast
  <1> QED
    BY <1>4, <1>5, <1>6, <1>7

(* A page is left: nothing is shown.                                       *)
LEMMA LeavesStep ==
    ASSUME EditorInv, Edit!Leaves, editor' = [v \in Edit!Visit |-> editor'[v]],
           \A v \in Edit!Visit : editor'[v] # None => IsEditor(editor'[v]),
           \A v : Held(v) => Held(v)'
    PROVE  /\ visit' \in 0 .. MaxVisit /\ (editorPage' # None => visit' # 0) /\ seq' \in Nat
           /\ \A l \in loads' : l.by \in 1 .. visit' /\ l.of \in Addressee
           /\ \A v \in wired' : Held(v)'
           /\ \A p \in previews' : /\ Held(p.by)' /\ p.seq \in Nat /\ p.content \in Edit!Content
                                  /\ DOMAIN p = {"by", "seq", "step", "content"}
           /\ previewTimer' # None => previewTimer' = visit' /\ Held(visit)'
           /\ PreviewsAreLast'
  BY DEF EditorInv, EditorType, Edit!Leaves, Edit!Teardown, Edit!preview, PreviewsAreLast,
         Edit!Shown

(* Editors that stay editors are still held.                               *)
LEMMA HeldStays ==
    ASSUME EditorType, visit' = visit,
           \A v \in Edit!Visit : IsEditor(editor[v]) => IsEditor(editor'[v])
    PROVE  \A v : Held(v) => Held(v)'
  <1>1. \A v \in 1 .. visit : v \in Edit!Visit
    BY EditorConstants DEF EditorType, Edit!Visit
  <1> QED
    BY <1>1 DEF Held

(* hydrate                                                                 *)
LEMMA LoadedStep ==
    ASSUME EditorInv, NEW l \in loads, Edit!Loaded(l) PROVE EditorInv'
  <1> DEFINE e == Edit!Opened(personaFile[l.of])
  <1> USE DEF EditorInv
  <1>1. l.by \in 1 .. visit /\ l.by \in Edit!Visit /\ visit' = visit /\ visit \in Nat
    BY EditorConstants DEF EditorType, Edit!Loaded, Edit!Visit
  <1>2. IsEditor(e)
    <2>1. personaFile[l.of] \in Edit!Content
      BY DEF EditorType
    <2>2. IsLines(Edit!Without(personaFile[l.of].lines))
      BY <2>1, WithoutBlocks DEF Edit!Content, IsLines
    <2>3. Edit!ChatOf(personaFile[l.of].lines) \in Edit!Chat
      BY DEF Edit!ChatOf, Edit!Chat
    <2> QED
      BY <2>1, <2>2, <2>3 DEF Edit!Opened, Edit!Content, Edit!Editor, IsEditor, IsLines
  <1>3. editor' = [editor EXCEPT ![l.by] = e]
    BY DEF Edit!Loaded, Edit!Read
  <1> HIDE DEF e
  <1>4. editor'[l.by] = e /\ \A v \in Edit!Visit : v # l.by => editor'[v] = editor[v]
    BY <1>1, <1>3 DEF EditorType
  <1>5. \A v : Held(v) => Held(v)'
    BY <1>1, <1>2, <1>4, HeldStays
  <1>6. Held(l.by)'
    BY <1>1, <1>2, <1>4 DEF Held
  <1>7. /\ seq' = seq + 1
        /\ previews' = previews \cup {[by |-> l.by, seq |-> seq', step |-> "asked",
                                       content |-> Edit!Collected(e)]}
        /\ superseded' = (superseded \cup {visit}) \ {l.by}
        /\ UNCHANGED <<personaFile, botToken, visit, editorPage, previewTimer, saves, put>>
        /\ loads' \subseteq loads /\ wired' \subseteq wired \cup {l.by}
    BY <1>4 DEF Edit!Loaded, Edit!Asks, Edit!server
  <1>8. EditorType'
    <2>1. editor' = [v \in Edit!Visit |-> editor'[v]]
      BY <1>3 DEF EditorType
    <2>2. \A v \in Edit!Visit : editor'[v] # None => IsEditor(editor'[v])
      BY <1>2, <1>4 DEF EditorType
    <2>3. \A p \in previews' : /\ Held(p.by)' /\ p.seq \in Nat /\ p.content \in Edit!Content
                                /\ DOMAIN p = {"by", "seq", "step", "content"}
      BY <1>2, <1>5, <1>6, <1>7, CollectedOnce DEF EditorType
    <2>4. \A v \in wired' : Held(v)'
      BY <1>5, <1>6, <1>7 DEF EditorType
    <2> QED
      BY <1>5, <1>7, <2>1, <2>2, <2>3, <2>4 DEF EditorType
  <1>9. SavesAreOwn'
    BY <1>5, <1>7 DEF SavesAreOwn
  <1>10. FilesAreOwn' /\ Edit!TokenFollowsSave'
    BY <1>7 DEF FilesAreOwn, Edit!TokenFollowsSave
  <1>11. PreviewsAreLast'
    <2>1. seq \in Nat /\ \A p \in previews : p.seq \in Nat /\ p.seq <= seq /\ p.seq # seq + 1
      BY DEF EditorType, PreviewsAreLast
    <2>2. /\ \A p \in previews' : p.seq <= seq'
          /\ \A p, q \in previews' : p.seq = q.seq => p = q
      BY <1>7, <2>1 DEF PreviewsAreLast
    <2>3. CASE l.by = visit
      <3>1. editor'[visit'] = e
        BY <1>1, <1>4, <2>3
      <3>2. [by |-> l.by, seq |-> seq', step |-> "asked", content |-> Edit!Collected(e)]
               \in previews'
        BY <1>7
      <3>3. OnItsWay(editor[visit])'
        BY <1>1, <2>3, <3>1, <3>2 DEF OnItsWay
      <3> QED
        BY <2>2, <3>3 DEF PreviewsAreLast
    <2>4. CASE l.by # visit
      <3>1. visit' \in superseded'
        BY <1>1, <1>7, <2>4
      <3> QED
        BY <2>2, <3>1 DEF PreviewsAreLast
    <2> QED
      BY <2>3, <2>4
  <1> QED
    BY <1>8, <1>9, <1>10, <1>11

(* What only changes editors, and not what they have of the file nor what  *)
(* they show.                                                              *)
LEMMA EditsStep ==
    ASSUME EditorInv, editor' = [v \in Edit!Visit |-> editor'[v]],
           \A v \in Edit!Visit : editor'[v] # None => IsEditor(editor'[v]),
           \A v \in Edit!Visit : IsEditor(editor[v]) => IsEditor(editor'[v]),
           UNCHANGED <<visit, editorPage, loads, wired, personaFile, botToken, put>>,
           saves' \subseteq saves, seq' = seq, previews' = previews, superseded' = superseded,
           \/ previewTimer' = visit /\ Edit!Shown
           \/ UNCHANGED previewTimer /\ (Edit!Shown' /\ previewTimer' = None =>
                 Edit!Shown /\ (editor'[visit].unheard \/
                    (/\ Edit!Collected(editor'[visit]) = Edit!Collected(editor[visit])
                     /\ editor'[visit].preview = editor[visit].preview
                     /\ editor'[visit].unheard = editor[visit].unheard
                     /\ editor'[visit].overdrawn = editor[visit].overdrawn)))
    PROVE  EditorInv'
  <1> USE DEF EditorInv
  <1>1. \A v : Held(v) => Held(v)'
    BY HeldStays
  <1>2. Edit!Shown => Held(visit)
    <2>1. editorPage # None => visit \in Edit!Visit /\ visit \in 1 .. visit
      BY EditorConstants DEF EditorType, Edit!Visit
    <2> QED
      BY <2>1 DEF EditorType, Edit!Shown, Held
  <1>3. EditorType'
    BY <1>1, <1>2 DEF EditorType
  <1>4. SavesAreOwn'
    BY <1>1 DEF SavesAreOwn
  <1>5. FilesAreOwn' /\ Edit!TokenFollowsSave'
    BY DEF FilesAreOwn, Edit!TokenFollowsSave
  <1>6. None # visit
    BY EditorConstants DEF EditorType
  <1>7. PreviewsAreLast'
    <2>1. CASE previewTimer' = visit
      BY <1>6, <2>1 DEF PreviewsAreLast
    <2>2. CASE previewTimer' # visit
      BY <2>2 DEF PreviewsAreLast, OnItsWay
    <2> QED
      BY <2>1, <2>2
  <1> QED
    BY <1>3, <1>4, <1>5, <1>7

LEMMA ShownIsHeld ==
    ASSUME EditorType, Edit!Shown
    PROVE  visit \in Edit!Visit /\ Held(visit) /\ IsEditor(editor[visit])
  <1>1. visit \in Edit!Visit /\ visit \in 1 .. visit
    BY EditorConstants DEF EditorType, Edit!Visit, Edit!Shown
  <1> QED
    BY <1>1 DEF EditorType, Edit!Shown, Held

(* A changed editor among the others.                                      *)
LEMMA OneEdited ==
    ASSUME EditorType, NEW v \in Edit!Visit, NEW e, IsEditor(e),
           editor' = [editor EXCEPT ![v] = e]
    PROVE  /\ editor' = [w \in Edit!Visit |-> editor'[w]]
           /\ \A w \in Edit!Visit : editor'[w] # None => IsEditor(editor'[w])
           /\ \A w \in Edit!Visit : IsEditor(editor[w]) => IsEditor(editor'[w])
           /\ editor'[v] = e /\ \A w \in Edit!Visit : w # v => editor'[w] = editor[w]
  BY DEF EditorType

LEMMA TypingStep ==
    ASSUME EditorInv, Edit!Type PROVE EditorInv'
  <1> DEFINE e == editor[visit]
             d1 == [e EXCEPT !.version = @ + 1]
             d2(c) == [e EXCEPT !.chat = c]
             d3 == [e EXCEPT !.lines = @ \o <<"telegram", "chat">>]
             d4 == [e EXCEPT !.typed = TRUE, !.cleared = FALSE]
  <1> USE DEF EditorInv
  <1>1. EditorType /\ Edit!Shown /\ previewTimer' = visit
    BY DEF Edit!Type
  <1>2. visit \in Edit!Visit /\ IsEditor(e)
    BY <1>1, ShownIsHeld
  <1>3. PICK d \in {d1, d3, d4} \cup {d2(c) : c \in Edit!Chat} : Edit!Edits(d)
    BY DEF Edit!Type
  <1>4. IsEditor(d)
    <2> HIDE DEF e
    <2>1. e \in Edit!Editor /\ e.version \in Nat
      BY <1>2 DEF IsEditor, Edit!Editor
    <2>11. IsEditor(d1)
      BY <2>1 DEF IsEditor, Edit!Editor
    <2>12. \A c \in Edit!Chat : IsEditor(d2(c))
      BY <2>1 DEF IsEditor, Edit!Editor
    <2>13. IsEditor(d4)
      BY <2>1 DEF IsEditor, Edit!Editor
    <2>2. IsLines(e.lines \o <<"telegram", "chat">>)
      BY <1>2 DEF IsEditor, IsLines, Edit!Editor, Edit!Line
    <2>3. IsEditor(d3)
      BY <1>2, <2>2 DEF IsEditor, Edit!Editor, IsLines
    <2> QED
      BY <1>3, <2>11, <2>12, <2>13, <2>3
  <1> HIDE DEF e, d1, d2, d3, d4
  <1>5. /\ editor' = [editor EXCEPT ![visit] = d]
        /\ UNCHANGED <<visit, editorPage, loads, wired, personaFile, botToken, put, saves,
                       seq, previews, superseded>>
    BY <1>3 DEF Edit!Edits, Edit!server, Edit!shown
  <1>6. /\ editor' = [w \in Edit!Visit |-> editor'[w]]
        /\ \A w \in Edit!Visit : editor'[w] # None => IsEditor(editor'[w])
        /\ \A w \in Edit!Visit : IsEditor(editor[w]) => IsEditor(editor'[w])
    BY <1>1, <1>2, <1>4, <1>5, OneEdited
  <1> QED
    BY <1>1, <1>5, <1>6, EditsStep

LEMMA PickStep ==
    ASSUME EditorInv, Edit!Pick PROVE EditorInv'
  <1> DEFINE e == editor[visit]
             d1 == [e EXCEPT !.version = @ + 1, !.unheard = TRUE]
             d2 == [e EXCEPT !.typed = FALSE, !.cleared = TRUE]
  <1> USE DEF EditorInv
  <1>1. EditorType /\ Edit!Shown /\ previewTimer' = previewTimer
    BY DEF Edit!Pick
  <1>2. visit \in Edit!Visit /\ IsEditor(e)
    BY <1>1, ShownIsHeld
  <1>3. PICK d \in {d1, d2} : Edit!Edits(d)
    BY DEF Edit!Pick
  <1>4. /\ IsEditor(d)
        /\ d.unheard \/ (/\ Edit!Collected(d) = Edit!Collected(e)
                         /\ d.preview = e.preview /\ d.unheard = e.unheard
                         /\ d.overdrawn = e.overdrawn)
    <2> HIDE DEF e
    <2>11. e \in Edit!Editor /\ e.version \in Nat
      BY <1>2 DEF IsEditor, Edit!Editor
    <2>12. IsEditor(d1)
      <3>1. [e EXCEPT !.version = @ + 1] \in Edit!Editor
        BY <2>11 DEF Edit!Editor
      <3>2. \A x \in Edit!Editor : [x EXCEPT !.unheard = TRUE] \in Edit!Editor
        BY DEF Edit!Editor
      <3>3. d1 = [[e EXCEPT !.version = @ + 1] EXCEPT !.unheard = TRUE]
        BY <2>11 DEF Edit!Editor
      <3> QED
        BY <3>1, <3>2, <3>3 DEF IsEditor
    <2>13. IsEditor(d2)
      BY <2>11 DEF IsEditor, Edit!Editor
    <2>1. IsEditor(d1) /\ IsEditor(d2) /\ d1.unheard
      BY <2>11, <2>12, <2>13 DEF Edit!Editor
    <2>2. /\ d2.of = e.of /\ d2.version = e.version /\ d2.lines = e.lines /\ d2.chat = e.chat
          /\ d2.preview = e.preview /\ d2.unheard = e.unheard /\ d2.overdrawn = e.overdrawn
      BY <1>2 DEF IsEditor, Edit!Editor
    <2> HIDE DEF d1, d2
    <2>3. Edit!Collected(d2) = Edit!Collected(e)
      BY <2>2, SameCollected
    <2> QED
      BY <1>3, <2>1, <2>2, <2>3
  <1> HIDE DEF d1, d2
  <1>5. /\ editor' = [editor EXCEPT ![visit] = d]
        /\ UNCHANGED <<visit, editorPage, loads, wired, personaFile, botToken, put, saves,
                       seq, previews, superseded>>
    BY <1>3 DEF Edit!Edits, Edit!server, Edit!shown
  <1>6. /\ editor' = [w \in Edit!Visit |-> editor'[w]]
        /\ \A w \in Edit!Visit : editor'[w] # None => IsEditor(editor'[w])
        /\ \A w \in Edit!Visit : IsEditor(editor[w]) => IsEditor(editor'[w])
        /\ editor'[visit] = d
    BY <1>1, <1>2, <1>4, <1>5, OneEdited
  <1> QED
    BY <1>1, <1>4, <1>5, <1>6, EditsStep

LEMMA ToggleReloadStep ==
    ASSUME EditorInv, Edit!ToggleReload PROVE EditorInv'
  <1> DEFINE Flipped(v) == [editor[v] EXCEPT !.reload = ~@]
  <1> USE DEF EditorInv
  <1>1. /\ editor' = [v \in Edit!Visit |-> IF v \in wired THEN Flipped(v) ELSE editor[v]]
        /\ UNCHANGED <<visit, editorPage, loads, wired, personaFile, botToken, put, saves,
                       seq, previews, superseded, previewTimer>>
    BY DEF Edit!ToggleReload, Edit!server, Edit!shown, Edit!preview
  <1>2. \A v \in wired : IsEditor(editor[v])
    BY DEF EditorType, Held
  <1>3. \A v \in wired :
           /\ IsEditor(Flipped(v))
           /\ Flipped(v).of = editor[v].of /\ Flipped(v).version = editor[v].version
           /\ Flipped(v).lines = editor[v].lines /\ Flipped(v).chat = editor[v].chat
           /\ Flipped(v).preview = editor[v].preview /\ Flipped(v).unheard = editor[v].unheard
           /\ Flipped(v).overdrawn = editor[v].overdrawn
    BY <1>2 DEF IsEditor, Edit!Editor
  <1> HIDE DEF Flipped
  <1>4. \A v \in Edit!Visit :
           /\ editor'[v] # None => IsEditor(editor'[v])
           /\ IsEditor(editor[v]) => IsEditor(editor'[v])
           /\ v \notin wired => editor'[v] = editor[v]
           /\ v \in wired => editor'[v] = Flipped(v)
    BY <1>1, <1>3 DEF EditorType
  <1>5. \A v \in Edit!Visit : /\ Edit!Collected(editor'[v]) = Edit!Collected(editor[v])
                              /\ v \in wired => /\ editor'[v].preview = editor[v].preview
                                                /\ editor'[v].unheard = editor[v].unheard
                                                /\ editor'[v].overdrawn = editor[v].overdrawn
    <2> SUFFICES ASSUME NEW v \in wired, v \in Edit!Visit
                 PROVE  Edit!Collected(editor'[v]) = Edit!Collected(editor[v])
      BY <1>3, <1>4
    <2> QED
      BY <1>3, <1>4, SameCollected
  <1>6. \A v \in wired : editor[v] # None
    BY <1>2, EditorConstants
  <1>7. Edit!Shown' => Edit!Shown /\ visit \in Edit!Visit
    <2>1. editorPage # None => visit \in Edit!Visit
      BY EditorConstants DEF EditorType, Edit!Visit
    <2> QED
      BY <1>1, <1>4, <1>6, <2>1 DEF Edit!Shown
  <1>8. editor' = [v \in Edit!Visit |-> editor'[v]]
    BY <1>1
  <1>9. Edit!Shown' => editor'[visit].preview = editor[visit].preview
                       /\ editor'[visit].unheard = editor[visit].unheard
                       /\ editor'[visit].overdrawn = editor[visit].overdrawn
    BY <1>4, <1>5, <1>7
  <1> QED
    BY <1>1, <1>4, <1>5, <1>7, <1>8, <1>9, EditsStep

LEMMA TimerFiresStep ==
    ASSUME EditorInv, Edit!TimerFires PROVE EditorInv'
  <1> DEFINE e == editor[visit]
             d == [e EXCEPT !.unheard = FALSE]
             new == [by |-> visit, seq |-> seq', step |-> "asked", content |-> Edit!Collected(e)]
  <1> USE DEF EditorInv
  <1>1. previewTimer = visit /\ Held(visit) /\ visit \in Edit!Visit
    BY EditorConstants DEF EditorType, Edit!TimerFires, Held, Edit!Visit
  <1>2. /\ editor' = [editor EXCEPT ![visit] = d]
        /\ seq' = seq + 1 /\ previews' = previews \cup {new} /\ previewTimer' = None
        /\ superseded' = superseded \ {visit}
        /\ UNCHANGED <<visit, editorPage, loads, wired, personaFile, botToken, put, saves>>
    BY <1>1 DEF Edit!TimerFires, Edit!Asks, Edit!server, Edit!shown, EditorType
  <1>3. IsEditor(e) /\ e # None
    BY <1>1, EditorConstants DEF Held
  <1>4. IsEditor(d) /\ Edit!Collected(d) = Edit!Collected(e)
    <2> HIDE DEF e
    <2>1. /\ IsEditor(d) /\ d.of = e.of /\ d.version = e.version /\ d.lines = e.lines
          /\ d.chat = e.chat
      BY <1>3 DEF IsEditor, Edit!Editor
    <2> HIDE DEF d
    <2> QED
      BY <2>1, SameCollected
  <1>5. Edit!Collected(e) \in Edit!Content
    BY <1>3, CollectedOnce
  <1> HIDE DEF e, d
  <1>6. /\ editor' = [w \in Edit!Visit |-> editor'[w]]
        /\ \A w \in Edit!Visit : editor'[w] # None => IsEditor(editor'[w])
        /\ \A w \in Edit!Visit : IsEditor(editor[w]) => IsEditor(editor'[w])
        /\ editor'[visit] = d
    BY <1>1, <1>2, <1>4, OneEdited
  <1>7. \A v : Held(v) => Held(v)'
    BY <1>2, <1>6, HeldStays
  <1>8. EditorType'
    <2>1. \A p \in previews' : /\ Held(p.by)' /\ p.seq \in Nat /\ p.content \in Edit!Content
                                /\ DOMAIN p = {"by", "seq", "step", "content"}
      BY <1>1, <1>2, <1>5, <1>7 DEF EditorType
    <2> QED
      BY <1>2, <1>6, <1>7, <2>1 DEF EditorType
  <1>9. SavesAreOwn'
    BY <1>2, <1>7 DEF SavesAreOwn
  <1>10. FilesAreOwn' /\ Edit!TokenFollowsSave'
    BY <1>2 DEF FilesAreOwn, Edit!TokenFollowsSave
  <1>11. PreviewsAreLast'
    <2>1. seq \in Nat /\ \A p \in previews : p.seq \in Nat /\ p.seq <= seq /\ p.seq # seq + 1
      BY DEF EditorType, PreviewsAreLast
    <2>2. /\ \A p \in previews' : p.seq <= seq'
          /\ \A p, q \in previews' : p.seq = q.seq => p = q
      BY <1>2, <2>1 DEF PreviewsAreLast
    <2>3. new \in previews'
      BY <1>2
    <2>4. OnItsWay(editor[visit])'
      BY <1>2, <1>4, <1>6, <2>3 DEF OnItsWay
    <2> QED
      BY <2>2, <2>4 DEF PreviewsAreLast
  <1> QED
    BY <1>8, <1>9, <1>10, <1>11

(* A preview is drawn, or dropped when another was asked for.              *)
LEMMA PreviewEndsStep ==
    ASSUME EditorInv, NEW p \in previews, Edit!Draws(p) \/ (p.seq # seq /\ Edit!Drops(p)),
           UNCHANGED <<visit, editorPage, loads, wired, personaFile, botToken, put, saves,
                       seq, previewTimer, superseded>>
    PROVE  EditorInv'
  <1> DEFINE d == [editor[p.by] EXCEPT !.preview = p.content, !.overdrawn = p.seq # seq]
  <1> DEFINE Unseen == p.seq # seq \/ editorPage = None \/ p.by # visit
  <1> USE DEF EditorInv
  <1>1. Held(p.by) /\ p.by \in Edit!Visit /\ p.content \in Edit!Content
    BY EditorConstants DEF EditorType, Held, Edit!Visit
  <1>2. /\ previews' = previews \ {p}
        /\ editor' = [editor EXCEPT ![p.by] = d] \/ (Unseen /\ editor' = editor)
    BY DEF Edit!Draws, Edit!Drops, Edit!Latest
  <1>3. /\ IsEditor(d) /\ d.preview = p.content /\ d.unheard = editor[p.by].unheard
        /\ d.overdrawn = (p.seq # seq)
        /\ Edit!Collected(d) = Edit!Collected(editor[p.by])
    <2>1. IsEditor(editor[p.by])
      BY <1>1 DEF Held
    <2>2. /\ IsEditor(d) /\ d.of = editor[p.by].of /\ d.version = editor[p.by].version
          /\ d.lines = editor[p.by].lines /\ d.chat = editor[p.by].chat
          /\ d.preview = p.content /\ d.unheard = editor[p.by].unheard
          /\ d.overdrawn = (p.seq # seq)
      BY <1>1, <2>1 DEF IsEditor, Edit!Editor
    <2> HIDE DEF d
    <2>3. Edit!Collected(d) = Edit!Collected(editor[p.by])
      BY <2>2, SameCollected
    <2> QED
      BY <2>2, <2>3
  <1> HIDE DEF d
  <1>4. /\ editor' = [w \in Edit!Visit |-> editor'[w]]
        /\ \A w \in Edit!Visit : editor'[w] # None => IsEditor(editor'[w])
        /\ \A w \in Edit!Visit : IsEditor(editor[w]) => IsEditor(editor'[w])
        /\ editor'[p.by] = d \/ (Unseen /\ editor' = editor)
        /\ \A w \in Edit!Visit : w # p.by => editor'[w] = editor[w]
    <2>1. CASE editor' = [editor EXCEPT ![p.by] = d]
      BY <1>1, <1>3, <2>1, OneEdited
    <2>2. CASE Unseen /\ editor' = editor
      BY <2>2 DEF EditorType
    <2> QED
      BY <1>2, <2>1, <2>2
  <1>5. \A v : Held(v) => Held(v)'
    BY <1>4, HeldStays
  <1>6. EditorType'
    BY <1>2, <1>4, <1>5 DEF EditorType
  <1>7. SavesAreOwn'
    BY <1>5 DEF SavesAreOwn
  <1>8. FilesAreOwn' /\ Edit!TokenFollowsSave'
    BY DEF FilesAreOwn, Edit!TokenFollowsSave
  <1>9. PreviewsAreLast'
    <2>1. /\ \A q \in previews' : q.seq <= seq'
          /\ \A q, r \in previews' : q.seq = r.seq => q = r
      BY <1>2 DEF PreviewsAreLast
    <2> SUFFICES ASSUME Edit!Shown', previewTimer' = None
                 PROVE  (editor[visit].unheard \/ visit \in superseded \/ OnItsWay(editor[visit]))'
      BY <2>1 DEF PreviewsAreLast
    <2>2. Edit!Shown
      <3>1. editorPage # None => visit \in Edit!Visit
        BY EditorConstants DEF EditorType, Edit!Visit
      <3>2. editor[p.by] # None
        BY <1>1, EditorConstants DEF Held
      <3> QED
        BY <1>4, <3>1, <3>2 DEF Edit!Shown
    <2>3. visit \in Edit!Visit
      BY <2>2, ShownIsHeld
    <2>4. editor[visit].unheard \/ visit \in superseded \/ OnItsWay(editor[visit])
      BY <2>2 DEF PreviewsAreLast
    <2>5. /\ editor'[visit].unheard = editor[visit].unheard
          /\ Edit!Collected(editor'[visit]) = Edit!Collected(editor[visit])
      BY <1>3, <1>4, <2>3
    <2>6. CASE OnItsWay(editor[visit]) /\ p.seq = seq
      <3>1. p.by = visit /\ p.content = Edit!Collected(editor[visit])
        BY <2>6 DEF OnItsWay, PreviewsAreLast
      <3>2. \A q \in previews' : q.seq # seq
        BY <1>2, <2>6 DEF PreviewsAreLast
      <3>3. editor'[visit].preview = Edit!Collected(editor[visit])
        BY <1>3, <1>4, <2>2, <2>6, <3>1 DEF Edit!Shown
      <3> QED
        BY <2>5, <3>2, <3>3 DEF OnItsWay
    <2>7. CASE OnItsWay(editor[visit]) /\ p.seq # seq
      <3>1. \A q \in previews : q.seq = seq => q \in previews'
        BY <1>2, <2>7
      <3>2. \/ editor'[visit].overdrawn
            \/ editor'[visit] = editor[visit]
        BY <1>3, <1>4, <2>3, <2>7
      <3>3. CASE \E q \in previews : /\ q.seq = seq /\ q.by = visit
                                      /\ q.content = Edit!Collected(editor[visit])
        BY <2>5, <3>1, <3>3 DEF OnItsWay
      <3>4. CASE /\ \A q \in previews : q.seq # seq
                 /\ \/ editor[visit].overdrawn
                    \/ editor[visit].preview = Edit!Collected(editor[visit])
        <4>1. \A q \in previews' : q.seq # seq'
          BY <1>2, <3>4
        <4>2. \/ editor'[visit].overdrawn
              \/ editor'[visit].preview = Edit!Collected(editor'[visit])
          BY <2>5, <3>2, <3>4
        <4> QED
          BY <4>1, <4>2 DEF OnItsWay
      <3> QED
        BY <2>7, <3>3, <3>4 DEF OnItsWay
    <2> QED
      BY <2>4, <2>5, <2>6, <2>7
  <1> QED
    BY <1>6, <1>7, <1>8, <1>9

(* The body of an answer is awaited.                                       *)
LEMMA PreviewBeginsStep ==
    ASSUME EditorInv, NEW p \in previews,
           previews' = (previews \ {p}) \cup {[p EXCEPT !.step = "body"]},
           UNCHANGED <<editor, visit, editorPage, loads, wired, personaFile, botToken, put, saves,
                       seq, previewTimer, superseded>>
    PROVE  EditorInv'
  <1> DEFINE q == [p EXCEPT !.step = "body"]
  <1> USE DEF EditorInv
  <1>1. q.by = p.by /\ q.seq = p.seq /\ q.content = p.content
    BY DEF EditorType
  <1>2. previews' = (previews \ {p}) \cup {q}
    OBVIOUS
  <1> HIDE DEF q
  <1>3. /\ \A r \in previews' : \E o \in previews : o.by = r.by /\ o.seq = r.seq
                                                     /\ o.content = r.content
        /\ \A o \in previews : \E r \in previews' : o.by = r.by /\ o.seq = r.seq
                                                     /\ o.content = r.content
    BY <1>1, <1>2
  <1>4. DOMAIN q = {"by", "seq", "step", "content"}
    BY DEF q, EditorType
  <1>5. \A r \in previews' : DOMAIN r = {"by", "seq", "step", "content"}
    BY <1>2, <1>4 DEF EditorType
  <1>6. \A r \in previews' : Held(r.by)' /\ r.seq \in Nat /\ r.content \in Edit!Content
    BY <1>3 DEF EditorType, Held
  <1>7. EditorType'
    BY <1>5, <1>6 DEF EditorType, Held
  <1>8. SavesAreOwn' /\ FilesAreOwn' /\ Edit!TokenFollowsSave'
    BY DEF SavesAreOwn, FilesAreOwn, Edit!TokenFollowsSave, Held
  <1>9. PreviewsAreLast'
    BY <1>1, <1>2, <1>3 DEF PreviewsAreLast, OnItsWay, Edit!Shown
  <1> QED
    BY <1>7, <1>8, <1>9

(* The next request of a save.                                             *)
Follows(r, s) == /\ DOMAIN r = {"by", "n", "step", "value", "content"}
                 /\ r.by = s.by /\ r.content = s.content
Goes(s) == \/ saves' \subseteq saves
           \/ \E r : saves' = (saves \ {s}) \cup {r} /\ Follows(r, s)

LEMMA MovesStep ==
    ASSUME EditorInv, NEW s \in saves, NEW step, NEW value, Edit!Moves(s, step, value)
    PROVE  Goes(s) /\ UNCHANGED <<Edit!shown, Edit!preview>>
  <1> DEFINE r == [s EXCEPT !.step = step, !.value = value]
  <1>1. DOMAIN s = {"by", "n", "step", "value", "content"}
    BY DEF EditorInv, SavesAreOwn
  <1>2. Follows(r, s)
    BY <1>1 DEF Follows
  <1>3. saves' = (saves \ {s}) \cup {r} /\ UNCHANGED <<Edit!shown, Edit!preview>>
    BY Zenon DEF Edit!Moves
  <1> HIDE DEF r
  <1> QED
    BY <1>2, <1>3 DEF Goes

LEMMA DoneStep ==
    ASSUME NEW s, Edit!Done(s)
    PROVE  Goes(s) /\ visit' = visit /\ Edit!Leaves
  BY DEF Edit!Done, Edit!Leaves, Goes

LEMMA ReloadsStep ==
    ASSUME EditorInv, NEW s \in saves, Edit!Reloads(s)
    PROVE  /\ Goes(s)
           /\ UNCHANGED <<Edit!shown, Edit!preview>> \/ (visit' = visit /\ Edit!Leaves)
  <1>1. Edit!Moves(s, "reload", None) \/ Edit!Done(s)
    BY Zenon DEF Edit!Reloads
  <1> QED
    BY <1>1, MovesStep, DoneStep

(* An answer of the server changes neither what a page shows nor editors   *)
(* otherwise than in their token, unless the page is left.                 *)
LEMMA SaveAnsweredStep ==
    ASSUME EditorInv, NEW s \in saves,
           editor' = [v \in Edit!Visit |-> editor'[v]],
           \A v \in Edit!Visit : editor'[v] # None => IsEditor(editor'[v]),
           \A v \in Edit!Visit : IsEditor(editor[v]) => IsEditor(editor'[v]),
           \A v \in Edit!Visit : IsEditor(editor[v]) =>
              /\ Edit!Collected(editor'[v]) = Edit!Collected(editor[v])
              /\ editor'[v].preview = editor[v].preview
              /\ editor'[v].unheard = editor[v].unheard
              /\ editor'[v].overdrawn = editor[v].overdrawn,
           \A v \in Edit!Visit : editor'[v] # None => editor[v] # None,
           UNCHANGED <<Edit!shown, Edit!preview>> \/ (visit' = visit /\ Edit!Leaves),
           \/ UNCHANGED <<personaFile, put>>
           \/ /\ personaFile' = [personaFile EXCEPT ![s.content.of] = s.content]
              /\ put' = put \cup {s.content.of},
           \/ UNCHANGED botToken
           \/ /\ botToken' = [botToken EXCEPT ![s.content.of] = s.value]
              /\ s.content.of \in put,
           saves' \subseteq saves \/ (Goes(s) /\ s.content.of \in put')
    PROVE  EditorInv'
  <1> USE DEF EditorInv
  <1>1. visit' = visit
    BY DEF Edit!shown
  <1>2. \A v : Held(v) => Held(v)'
    BY <1>1, HeldStays
  <1>3. /\ DOMAIN s = {"by", "n", "step", "value", "content"} /\ Held(s.by)
        /\ s.content \in Edit!Content /\ SetOnce(s.content.lines)
    BY DEF SavesAreOwn
  <1>4. personaFile' \in [Addressee -> Edit!Content]
        /\ botToken' = [a \in Addressee |-> botToken'[a]]
    BY <1>3 DEF EditorType
  <1>5. EditorType' /\ PreviewsAreLast'
    <2>1. CASE UNCHANGED <<Edit!shown, Edit!preview>>
      <3>1. UNCHANGED <<visit, editorPage, loads, wired, seq, previewTimer, previews, superseded>>
        BY <2>1 DEF Edit!shown, Edit!preview
      <3>2. EditorType'
        BY <1>2, <1>4, <3>1 DEF EditorType
      <3>3. PreviewsAreLast'
        <4> SUFFICES ASSUME Edit!Shown', previewTimer' = None
                     PROVE  (editor[visit].unheard \/ visit \in superseded \/ OnItsWay(editor[visit]))'
          BY <3>1 DEF PreviewsAreLast
        <4>1. editorPage # None => visit \in Edit!Visit
          BY EditorConstants DEF EditorType, Edit!Visit
        <4>2. Edit!Shown
          BY <3>1, <4>1 DEF Edit!Shown
        <4>3. visit \in Edit!Visit /\ IsEditor(editor[visit])
          BY <4>2, ShownIsHeld
        <4>4. editor[visit].unheard \/ visit \in superseded \/ OnItsWay(editor[visit])
          BY <3>1, <4>2 DEF PreviewsAreLast
        <4>5. /\ editor'[visit].unheard = editor[visit].unheard
              /\ editor'[visit].preview = editor[visit].preview
              /\ editor'[visit].overdrawn = editor[visit].overdrawn
              /\ Edit!Collected(editor'[visit]) = Edit!Collected(editor[visit])
          BY <4>3
        <4> QED
          BY <3>1, <4>4, <4>5 DEF OnItsWay
      <3> QED
        BY <3>2, <3>3
    <2>2. CASE Edit!Leaves
      BY <1>2, <1>4, <2>2, LeavesStep DEF EditorType
    <2> QED
      BY <2>1, <2>2
  <1>6. put \subseteq put'
    OBVIOUS
  <1>7. SavesAreOwn'
    <2>1. \A r \in saves : /\ DOMAIN r = {"by", "n", "step", "value", "content"}
                           /\ Held(r.by)' /\ r.content \in Edit!Content /\ SetOnce(r.content.lines)
                           /\ r.step # "put" => r.content.of \in put'
      BY <1>2, <1>6 DEF SavesAreOwn
    <2>2. CASE saves' \subseteq saves
      BY <2>1, <2>2 DEF SavesAreOwn
    <2>3. ASSUME NEW r, s.content.of \in put', saves' = (saves \ {s}) \cup {r}, Follows(r, s)
          PROVE  SavesAreOwn'
      <3>1. /\ DOMAIN r = {"by", "n", "step", "value", "content"}
            /\ r.by = s.by /\ r.content = s.content
        BY <2>3 DEF Follows
      <3>2. \A q \in saves' : q \in saves \/ q = r
        BY <2>3
      <3>3. Held(r.by)' /\ r.content \in Edit!Content /\ SetOnce(r.content.lines) /\ r.content.of \in put'
        BY <2>1, <2>3, <3>1
      <3> QED
        BY <2>1, <3>1, <3>2, <3>3 DEF SavesAreOwn
    <2> QED
      BY <2>2, <2>3 DEF Goes
  <1>8. FilesAreOwn'
    BY <1>3 DEF FilesAreOwn, EditorType
  <1>9. Edit!TokenFollowsSave'
    <2>1. \A a \in Addressee : botToken'[a] # botToken[a] => a \in put
      BY DEF EditorType
    <2> QED
      BY <1>6, <2>1 DEF Edit!TokenFollowsSave
  <1> QED
    BY <1>5, <1>7, <1>8, <1>9

LEMMA EditorsStay ==
    ASSUME EditorInv, editor' = editor
    PROVE  /\ editor' = [v \in Edit!Visit |-> editor'[v]]
           /\ \A v \in Edit!Visit : editor'[v] # None => IsEditor(editor'[v])
           /\ \A v \in Edit!Visit : IsEditor(editor[v]) => IsEditor(editor'[v])
           /\ \A v \in Edit!Visit : IsEditor(editor[v]) =>
                 /\ Edit!Collected(editor'[v]) = Edit!Collected(editor[v])
                 /\ editor'[v].preview = editor[v].preview
                 /\ editor'[v].unheard = editor[v].unheard
                 /\ editor'[v].overdrawn = editor[v].overdrawn
           /\ \A v \in Edit!Visit : editor'[v] # None => editor[v] # None
  BY DEF EditorInv, EditorType

LEMMA PutReturnsStep ==
    ASSUME EditorInv, NEW s \in saves, Edit!PutReturns(s) PROVE EditorInv'
  <1>1. /\ personaFile' = [personaFile EXCEPT ![s.content.of] = s.content]
        /\ put' = put \cup {s.content.of} /\ editor' = editor /\ botToken' = botToken
    BY DEF Edit!PutReturns, Edit!Put, Edit!FileOf
  <1>2. /\ UNCHANGED <<Edit!shown, Edit!preview>> \/ (visit' = visit /\ Edit!Leaves)
        /\ Goes(s)
    <2>1. Edit!Moves(s, "token", "new") \/ Edit!Moves(s, "token", None) \/ Edit!Reloads(s)
      BY Zenon DEF Edit!PutReturns
    <2> QED
      BY <2>1, MovesStep, ReloadsStep
  <1>3. s.content.of \in put'
    BY <1>1
  <1> QED
    BY <1>1, <1>2, <1>3, EditorsStay, SaveAnsweredStep

LEMMA TokenReturnsStep ==
    ASSUME EditorInv, NEW s \in saves, Edit!TokenReturns(s) PROVE EditorInv'
  <1> DEFINE e == editor[s.by]
             d == [e EXCEPT !.typed = @ /\ s.value = None, !.cleared = FALSE]
  <1>1. s.by \in Edit!Visit /\ IsEditor(e) /\ s.content.of \in put
    <2>1. Held(s.by) /\ s.content.of \in put
      BY DEF EditorInv, SavesAreOwn, Edit!TokenReturns
    <2> QED
      BY <2>1, EditorConstants DEF EditorInv, EditorType, Held, Edit!Visit
  <1>2. /\ botToken' = [botToken EXCEPT ![s.content.of] = s.value]
        /\ UNCHANGED <<personaFile, put>>
    BY DEF Edit!TokenReturns
  <1>3. editor' = [editor EXCEPT ![s.by] = d]
    BY <1>1 DEF Edit!TokenReturns, EditorInv, EditorType
  <1>4. /\ UNCHANGED <<Edit!shown, Edit!preview>> \/ (visit' = visit /\ Edit!Leaves)
        /\ Goes(s)
    <2>1. Edit!Reloads(s)
      BY DEF Edit!TokenReturns
    <2> QED
      BY <2>1, ReloadsStep
  <1>5. /\ IsEditor(d) /\ Edit!Collected(d) = Edit!Collected(e)
        /\ d.preview = e.preview /\ d.unheard = e.unheard /\ d.overdrawn = e.overdrawn
    <2> HIDE DEF e
    <2>1. e \in Edit!Editor /\ (e.typed /\ s.value = None) \in BOOLEAN
      BY <1>1 DEF IsEditor, Edit!Editor
    <2>2. /\ IsEditor(d) /\ d.of = e.of /\ d.version = e.version /\ d.lines = e.lines
          /\ d.chat = e.chat /\ d.preview = e.preview /\ d.unheard = e.unheard
          /\ d.overdrawn = e.overdrawn
      BY <2>1 DEF IsEditor, Edit!Editor
    <2> HIDE DEF d
    <2> QED
      BY <2>2, SameCollected
  <1> HIDE DEF d
  <1>6. /\ editor' = [v \in Edit!Visit |-> editor'[v]]
        /\ \A v \in Edit!Visit : editor'[v] # None => IsEditor(editor'[v])
        /\ \A v \in Edit!Visit : IsEditor(editor[v]) => IsEditor(editor'[v])
        /\ editor'[s.by] = d /\ \A v \in Edit!Visit : v # s.by => editor'[v] = editor[v]
    BY <1>1, <1>3, <1>5, OneEdited DEF EditorInv
  <1>7. e # None
    BY <1>1, EditorConstants
  <1>8. /\ \A v \in Edit!Visit : IsEditor(editor[v]) =>
              /\ Edit!Collected(editor'[v]) = Edit!Collected(editor[v])
              /\ editor'[v].preview = editor[v].preview
              /\ editor'[v].unheard = editor[v].unheard
              /\ editor'[v].overdrawn = editor[v].overdrawn
        /\ \A v \in Edit!Visit : editor'[v] # None => editor[v] # None
    BY <1>5, <1>6, <1>7
  <1> QED
    BY <1>1, <1>2, <1>4, <1>6, <1>8, SaveAnsweredStep

LEMMA SaveEndsStep ==
    ASSUME EditorInv, NEW s \in saves, Edit!ReloadReturns(s) \/ Edit!SaveFails(s)
    PROVE  EditorInv'
  <1>1. editor' = editor /\ saves' \subseteq saves
    BY DEF Edit!ReloadReturns, Edit!SaveFails, Edit!Done
  <1>2. UNCHANGED <<Edit!shown, Edit!preview>> \/ (visit' = visit /\ Edit!Leaves)
    BY DEF Edit!ReloadReturns, Edit!SaveFails, Edit!Done, Edit!Leaves
  <1>3. /\ \/ UNCHANGED <<personaFile, put>>
           \/ /\ personaFile' = [personaFile EXCEPT ![s.content.of] = s.content]
              /\ put' = put \cup {s.content.of}
        /\ \/ UNCHANGED botToken
           \/ /\ botToken' = [botToken EXCEPT ![s.content.of] = s.value]
              /\ s.content.of \in put
    BY DEF Edit!ReloadReturns, Edit!SaveFails, Edit!server, Edit!Put, Edit!FileOf, EditorInv,
           SavesAreOwn
  <1> QED
    BY <1>1, <1>2, <1>3, EditorsStay, SaveAnsweredStep

LEMMA SubmitStep ==
    ASSUME EditorInv, Edit!Submit PROVE EditorInv'
  <1> USE DEF EditorInv
  <1>1. /\ editor' = editor
        /\ UNCHANGED <<visit, editorPage, loads, wired, personaFile, botToken, put,
                       seq, previews, superseded, previewTimer>>
    BY DEF Edit!Submit, Edit!server, Edit!shown, Edit!preview
  <1>2. EditorType' /\ FilesAreOwn' /\ Edit!TokenFollowsSave' /\ PreviewsAreLast'
    BY <1>1 DEF EditorType, Held, FilesAreOwn, Edit!TokenFollowsSave, PreviewsAreLast,
                Edit!Shown, OnItsWay
  <1>3. \A v \in wired : Held(v)' /\ Edit!Collected(editor[v]) \in Edit!Content
                         /\ SetOnce(Edit!Collected(editor[v]).lines)
    BY <1>1, CollectedOnce DEF EditorType, Held
  <1>4. \A s \in saves' : s \in saves \/ \E v \in wired :
           s = [by |-> v, n |-> editorClicks', step |-> "put", value |-> None,
                content |-> Edit!Collected(editor[v])]
    BY DEF Edit!Submit
  <1>5. SavesAreOwn'
    <2> SUFFICES ASSUME NEW s \in saves'
                 PROVE  /\ DOMAIN s = {"by", "n", "step", "value", "content"}
                        /\ Held(s.by)' /\ s.content \in Edit!Content /\ SetOnce(s.content.lines)
                        /\ s.step # "put" => s.content.of \in put'
      BY DEF SavesAreOwn
    <2>1. CASE s \in saves
      BY <1>1, <2>1 DEF SavesAreOwn, Held
    <2>2. CASE s \notin saves
      BY <1>3, <1>4, <2>2
    <2> QED
      BY <2>1, <2>2
  <1> QED
    BY <1>2, <1>5

LEMMA EditorNext ==
    ASSUME EditorInv, Edit!Next PROVE EditorInv'
  <1>1. CASE Edit!Leave
    <2>1. /\ Edit!Leaves /\ editor' = editor /\ visit' = visit
          /\ UNCHANGED <<personaFile, botToken, saves, put>>
      BY <1>1 DEF Edit!Leave, Edit!Leaves, Edit!server
    <2>2. \A v : Held(v) => Held(v)'
      BY <2>1, HeldStays DEF EditorInv
    <2>3. EditorType' /\ PreviewsAreLast'
      BY <2>1, <2>2, LeavesStep DEF EditorInv, EditorType
    <2> QED
      BY <2>1, <2>2, <2>3 DEF EditorInv, SavesAreOwn, FilesAreOwn, Edit!TokenFollowsSave
  <1>2. CASE Edit!Type \/ Edit!Pick \/ Edit!ToggleReload \/ Edit!TimerFires \/ Edit!Submit
    BY <1>2, TypingStep, PickStep, ToggleReloadStep, TimerFiresStep, SubmitStep
  <1>3. CASE \E a \in Addressee : Edit!Show(a)
    BY <1>3, EditorShowStep
  <1>4. ASSUME NEW l \in loads, Edit!Loaded(l) PROVE EditorInv'
    BY <1>4, LoadedStep
  <1>5. ASSUME NEW l \in loads, Edit!LoadFails(l) PROVE EditorInv'
    <2>1. loads' \subseteq loads
          /\ UNCHANGED <<visit, editorPage, wired, personaFile, botToken, put, saves, editor,
                         seq, previews, superseded, previewTimer>>
      BY <1>5 DEF Edit!LoadFails, Edit!server, Edit!preview
    <2> QED
      BY <2>1 DEF EditorInv, EditorType, Held, SavesAreOwn, FilesAreOwn, Edit!TokenFollowsSave,
                  PreviewsAreLast, Edit!Shown, OnItsWay
  <1>6. ASSUME NEW p \in previews, Edit!PreviewAnswers(p) \/ Edit!PreviewRead(p) PROVE EditorInv'
    <2>1. UNCHANGED <<visit, editorPage, loads, wired, personaFile, botToken, put, saves,
                      seq, previewTimer, superseded>>
      BY <1>6 DEF Edit!PreviewAnswers, Edit!PreviewRead, Edit!server, Edit!shown
    <2>2. CASE Edit!Draws(p) \/ (p.seq # seq /\ Edit!Drops(p))
      BY <2>1, <2>2, PreviewEndsStep
    <2>3. CASE /\ previews' = (previews \ {p}) \cup {[p EXCEPT !.step = "body"]}
               /\ editor' = editor
      BY <2>1, <2>3, PreviewBeginsStep
    <2> QED
      BY <1>6, <2>2, <2>3 DEF Edit!PreviewAnswers, Edit!PreviewRead, Edit!Latest
  <1>7. CASE \E s \in saves : Edit!PutReturns(s) \/ Edit!TokenReturns(s)
                              \/ Edit!ReloadReturns(s) \/ Edit!SaveFails(s)
    BY <1>7, PutReturnsStep, TokenReturnsStep, SaveEndsStep
  <1> QED
    BY <1>1, <1>2, <1>3, <1>4, <1>5, <1>6, <1>7 DEF Edit!Next

LEMMA EditorSafe == BrowserSpec => [](part = "editor" => Edit!SavedAsEdited)
  <1>1. BrowserInit => EditorInv
    <2> SUFFICES ASSUME Edit!Init PROVE EditorInv
      BY DEF BrowserInit
    <2>1. \A a \in Addressee : personaFile[a] \in Edit!Content
      BY EditorConstants DEF Edit!Init, Edit!Content, IsLines
    <2>2. EditorType
      BY <2>1, EditorConstants DEF Edit!Init, EditorType
    <2>3. SavesAreOwn /\ FilesAreOwn /\ Edit!TokenFollowsSave
      BY DEF Edit!Init, SavesAreOwn, FilesAreOwn, Edit!TokenFollowsSave
    <2>4. PreviewsAreLast
      BY DEF Edit!Init, PreviewsAreLast, Edit!Shown
    <2> QED
      BY <2>2, <2>3, <2>4 DEF EditorInv
  <1>2. EditorInv /\ [BrowserNext]_browserVars => EditorInv'
    <2> SUFFICES ASSUME EditorInv, [BrowserNext]_browserVars PROVE EditorInv'
      OBVIOUS
    <2>1. CASE part = "editor" /\ BrowserNext
      <3>1. Edit!Next
        BY <2>1 DEF BrowserNext
      <3> QED
        BY <3>1, EditorNext
    <2>2. CASE UNCHANGED editorVars
      <3>1. UNCHANGED <<personaFile, botToken, visit, editorPage, loads, editor, wired, seq,
                        previewTimer, previews, saves, put, superseded>>
        BY <2>2 DEF editorVars
      <3> QED
        BY <3>1 DEF EditorInv, EditorType, Held, SavesAreOwn, FilesAreOwn, Edit!TokenFollowsSave,
                    PreviewsAreLast, Edit!Shown, OnItsWay
    <2>3. CASE UNCHANGED browserVars
      BY <2>2, <2>3 DEF browserVars
    <2> QED
      BY <2>1, <2>2, <2>3 DEF BrowserNext
  <1>3. EditorInv => Edit!SavedAsEdited
    <2> SUFFICES ASSUME EditorInv PROVE Edit!SavedAsEdited
      OBVIOUS
    <2>1. Edit!OwnFile /\ Edit!TokenFollowsSave
      BY DEF EditorInv, FilesAreOwn, Edit!OwnFile
    <2>2. Edit!PreviewIsCurrent
      BY DEF EditorInv, PreviewsAreLast, OnItsWay, Edit!PreviewIsCurrent
    <2>3. Edit!RoundTrip
      <3> SUFFICES ASSUME NEW a \in Addressee
                   PROVE  LET l == personaFile[a].lines
                              l2 == Edit!SetTelegram(Edit!Without(l), Edit!ChatOf(l))
                          IN  /\ a \in put => Cardinality(Edit!PlacesOf(l, "telegram")) <= 1
                              /\ Cardinality(Edit!PlacesOf(l2, "hook"))
                                    = Cardinality(Edit!PlacesOf(l, "hook"))
                              /\ Edit!ChatOf(l2) = Edit!ChatOf(l)
        BY DEF Edit!RoundTrip, Edit!Cardinality, Cardinality
      <3> DEFINE l == personaFile[a].lines
                 w == Edit!Without(l)
      <3>1. IsLines(l)
        BY DEF EditorInv, EditorType, Edit!Content, IsLines
      <3>2. /\ IsLines(w)
            /\ Cardinality(Edit!PlacesOf(w, "hook")) = Cardinality(Edit!PlacesOf(l, "hook"))
        BY <3>1, WithoutBlocks
      <3>3. Edit!ChatOf(l) \in {"id", "none"}
        BY DEF Edit!ChatOf
      <3>4. a \in put => Cardinality(Edit!PlacesOf(l, "telegram")) <= 1
        BY DEF EditorInv, FilesAreOwn, SetOnce
      <3> HIDE DEF l, w
      <3>5. LET t == Edit!SetTelegram(w, Edit!ChatOf(l)) IN
            /\ Cardinality(Edit!PlacesOf(t, "hook")) = Cardinality(Edit!PlacesOf(w, "hook"))
            /\ Edit!ChatOf(t) = Edit!ChatOf(l)
        BY <3>2, <3>3, BlockIsSet
      <3> QED
        BY <3>2, <3>4, <3>5 DEF l, w
    <2> QED
      BY <2>1, <2>2, <2>3 DEF Edit!SavedAsEdited
  <1> QED
    BY <1>1, <1>2, <1>3, PTL DEF BrowserSpec

(* Whatever answers and timers outlive a page, the watch page shows its    *)
(* own agent, and the editor of a persona saves and previews what is       *)
(* edited in it, into its own file (watch.ts:97-180,                       *)
(* dashboard/persona.ts:386-576).                                          *)
THEOREM PagesStayTrue == BrowserSpec => []PagesAreTrue
  <1>1. (part = "watch" => Page!ShowsItsAgent) /\ (part = "editor" => Edit!SavedAsEdited)
           <=> PagesAreTrue
    BY DEF PagesAreTrue
  <1> QED
    BY <1>1, WatchSafe, EditorSafe, PTL
=============================================================================

--------------------------- MODULE DashboardFeed ---------------------------
(***************************************************************************)
(* The chat feed of the dashboard: feedState of src/src/dashboard/chat.ts  *)
(* and the pages it fetches from GET /api/dashboard/messages/feed          *)
(* (getMergedMessages of database.ts).                                     *)
(*                                                                         *)
(* One fetch at a time: a fetch that is asked for meanwhile is dropped.    *)
(* Messages are their ids, newest first.  The system thread, which is in   *)
(* every selection, is left out; the subscription that goes with a         *)
(* selection is taken to reach the server with it.                         *)
(***************************************************************************)
EXTENDS Integers, Sequences, FiniteSets, FiniteSetsExt, SequencesExt

CONSTANTS Agent, None,
          PageSize,
          MaxMessage,  \* bound on messages
          MaxClick     \* bound on what the user does and on disconnections

VARIABLES log,      \* dashboard_messages: log[i] is the thread of message i
          connected, selected, \* of state.ts
          messages, hasMore,   \* of feedState
          loading,  \* None, or the fetch under way
          refetch, render, \* are the debounce timers set?
          shown,    \* in the DOM: messages, and the button for older ones
          clicks,   \* counter, for MaxClick
          dropped   \* history: was the last first page asked for not fetched?

feed == <<messages, hasMore>>
vars == <<log, connected, selected, feed, loading, refetch, render, shown, clicks, dropped>>

Id == 1 .. MaxMessage
(* "before" is 0 for a first page; "page" is None until the server answers.*)
Fetch == [agents : SUBSET Agent, before : 0 .. MaxMessage,
          page : {None} \cup Seq(Id), more : BOOLEAN]

DashboardFeedAssumption == PageSize \in Nat \ {0} /\ MaxMessage \in Nat /\ None \notin Fetch

TypeOK == /\ log \in Seq(Agent) /\ Len(log) <= MaxMessage
          /\ connected \in BOOLEAN /\ selected \subseteq Agent
          /\ messages \in Seq(Id) /\ hasMore \in BOOLEAN
          /\ loading \in {None} \cup Fetch
          /\ refetch \in BOOLEAN /\ render \in BOOLEAN /\ dropped \in BOOLEAN
          /\ shown \in [ids : SUBSET Id, older : BOOLEAN] /\ clicks \in 0 .. MaxClick

-----------------------------------------------------------------------------
(* fetchFeed, loadInitialFeed                                              *)

Idle == loading = None

Request(agents, before) ==
    [agents |-> agents, before |-> before, page |-> None, more |-> FALSE]

(* The feed is emptied for the selection, whether or not it is then        *)
(* fetched.                                                                *)
LoadInitialFeed ==
    /\ messages' = <<>> /\ hasMore' = FALSE
    /\ loading' = IF Idle THEN Request(selected', 0) ELSE loading
    /\ render' = (render \/ ~Idle)
    /\ dropped' = ~Idle

(* At the start of the chat pane.                                          *)
Init == /\ log = <<>> /\ connected = FALSE /\ selected = Agent
        /\ messages = <<>> /\ hasMore = FALSE
        /\ loading = Request(selected, 0)
        /\ refetch = FALSE /\ render = FALSE
        /\ shown = [ids |-> {}, older |-> FALSE] /\ clicks = 0 /\ dropped = FALSE

(* The messages of S, newest first: the n-th is the one of rank n.         *)
NewestFirstOf(S) ==
    [n \in 1 .. Cardinality(S) |-> CHOOSE i \in S : Cardinality({j \in S : j >= i}) = n]

(* The page of a selection before a message, and is there more?            *)
Thread(agents, before) ==
    NewestFirstOf({i \in DOMAIN log : /\ log[i] \in agents
                                      /\ before # 0 => i < before})
Page(agents, before) ==
    SubSeq(Thread(agents, before), 1, Min({PageSize, Len(Thread(agents, before))}))

Answer ==
    /\ ~Idle /\ loading.page = None
    /\ loading' = [loading EXCEPT
                     !.page = Page(loading.agents, loading.before),
                     !.more = Len(Thread(loading.agents, loading.before)) > PageSize]
    /\ UNCHANGED <<log, connected, selected, feed, refetch, render, shown, clicks, dropped>>

(* An older page is put in front; a first page replaces all.               *)
Fetched ==
    /\ ~Idle /\ loading.page # None
    /\ messages' = IF loading.before # 0 THEN loading.page \o messages ELSE loading.page
    /\ hasMore' = loading.more
    /\ loading' = None
    /\ render' = TRUE
    /\ UNCHANGED <<log, connected, selected, refetch, shown, clicks, dropped>>

(* A refused request renders what there is, a network error not even that. *)
FetchFails == /\ ~Idle
              /\ loading' = None
              /\ dropped' = (dropped \/ loading.before = 0)
              /\ render' \in {render, TRUE}
              /\ UNCHANGED <<log, connected, selected, feed, refetch, shown, clicks>>

-----------------------------------------------------------------------------
(* Events                                                                  *)

UnlessLoading(a) == connected /\ a \in selected /\ Idle           \* mutant
Notified(a) == connected /\ a \in selected

(* message: a refetch follows, 300 ms after the last one.                  *)
Message(a) == /\ Len(log) < MaxMessage
              /\ log' = Append(log, a)
              /\ refetch' = (refetch \/ Notified(a))
              /\ UNCHANGED <<connected, selected, feed, loading, render, shown, clicks, dropped>>

Refetch == /\ refetch /\ refetch' = FALSE
           /\ UNCHANGED selected
           /\ LoadInitialFeed
           /\ UNCHANGED <<log, connected, shown, clicks>>

Acts == clicks < MaxClick /\ clicks' = clicks + 1

(* selection-changed *)
Select(s) == /\ Acts /\ s # selected
             /\ selected' = s
             /\ LoadInitialFeed
             /\ UNCHANGED <<log, connected, refetch, shown>>

Disconnect == /\ connected /\ Acts
              /\ connected' = FALSE
              /\ UNCHANGED <<log, selected, feed, loading, refetch, render, shown, dropped>>

(* init: the feed is cleared, then the selection is restored, to all when  *)
(* it was empty.                                                           *)
Connect == /\ ~connected /\ connected' = TRUE
           /\ selected' = IF selected = {} THEN Agent ELSE selected
           /\ LoadInitialFeed
           /\ UNCHANGED <<log, refetch, shown, clicks>>

(* The list is taken to be newest first.                                   *)
LoadOlder == /\ Acts /\ shown.older
             /\ messages # <<>>
             /\ loading' = IF Idle THEN Request(selected, Last(messages)) ELSE loading
             /\ render' = (render \/ ~Idle)
             /\ UNCHANGED <<log, connected, selected, feed, refetch, shown, dropped>>

(* renderFeed.  A send renders at once, too.                               *)
Render == /\ render
          /\ render' = FALSE
          /\ shown' = [ids |-> Range(messages), older |-> hasMore /\ Idle]
          /\ UNCHANGED <<log, connected, selected, feed, loading, refetch, clicks, dropped>>

Next == \/ Answer \/ Fetched \/ FetchFails \/ Refetch \/ Render
        \/ Connect \/ Disconnect \/ LoadOlder
        \/ \E a \in Agent : Message(a)
        \/ \E s \in SUBSET Agent : Select(s)

Spec == Init /\ [][Next]_vars

-----------------------------------------------------------------------------
(* Properties                                                              *)

(* Nothing is under way.                                                   *)
AtRest == Idle /\ ~refetch /\ ~render

(* When all is quiet, what is shown is of the selection and has its newest *)
(* messages, however messages, selections, pages and reconnections         *)
(* crossed, unless the last first page asked for was dropped for another   *)
(* fetch, or failed (chat.ts:118-154, 225-283).                            *)
FeedIsCurrent ==
    AtRest /\ connected /\ ~dropped =>
        /\ shown.ids = Range(messages)
        /\ Range(Page(selected, 0)) \subseteq shown.ids
        /\ \A n \in shown.ids : log[n] \in selected

(* What the comment at the selection says, "need fresh fetch from server"  *)
(* (chat.ts:150-154): it does not hold, for the fetch may be dropped.      *)
ShowsSelection == AtRest /\ connected => \A n \in shown.ids : log[n] \in selected

(* What the comment at the button says, "Messages are stored newest-first" *)
(* (chat.ts:406): it does not hold after an older page.                    *)
NewestFirst == \A n \in 1 .. Len(messages) - 1 : messages[n] > messages[n + 1]
=============================================================================

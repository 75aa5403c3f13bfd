------------------------------ MODULE Browser ------------------------------
(***************************************************************************)
(* The components of the dashboard, in a user's browser, and what each     *)
(* reads and calls.  They share no variable with one another, and only     *)
(* safety is stated of them.  A behaviour is one of the component in       *)
(* `part'; the others do not move.                                         *)
(***************************************************************************)
EXTENDS Moving, Integers, Sequences, FiniteSets, FiniteSetsExt

CONSTANTS MaxMessage, MaxConnect, MaxSelect,                \* DashboardSync
          MaxClick,                                         \* DashboardFeed
          Addressee, StartsRunning, Subscribed, Texts, Window, MaxSend, MaxAct, \* Composer
          MaxPeek,                                          \* Watch
          Teams, MaxPick, MaxBreak,                         \* Selection
          LinesOf, MaxVisit, MaxWidget, MaxSave             \* PersonaEditor

VARIABLES
    \* DashboardSync
    syncLog, conn, since, sub, syncDown, up, syncHeld, cache, timer, syncSelected, saved,
    connects, selects, always,
    \* DashboardFeed
    feedLog, feedConnected, feedSelected, messages, hasMore, loading, refetch, render,
    shown, clicks, dropped,
    \* Composer
    alive, input, staged, uploads, sends, threads, composerLog, composerDown,
    composerConnected, missed, crossed, buried, composerActs, composerFaults,
    \* Watch
    watchScreen, proxied, running, current, page, timers, paused, listeners, peeks, keys,
    watchActs,
    \* Selection
    roster, selectionConn, selectionSub, selectionDown, selectionUp, known, started,
    chosenAgents, savedAgents, before, importing, pageRoute, scope, selectionActs,
    selectionFaults, silent, revived,
    \* PersonaEditor
    personaFile, botToken, visit, editorPage, loads, editor, wired, seq, previewTimer,
    previews, saves, editorActs, editorClicks, editorFaults, put, superseded

Sync == INSTANCE DashboardSync WITH
    log <- syncLog, down <- syncDown, held <- syncHeld, selected <- syncSelected

Feed == INSTANCE DashboardFeed WITH
    log <- feedLog, connected <- feedConnected, selected <- feedSelected

Compose == INSTANCE Composer WITH
    Agent <- Addressee, File <- FileId,
    log <- composerLog, down <- composerDown, connected <- composerConnected,
    acts <- composerActs, faults <- composerFaults

Page == INSTANCE Watch WITH screen <- watchScreen, acts <- watchActs

Choice == INSTANCE Selection WITH
    MaxAct <- MaxPick, MaxFault <- MaxBreak,
    conn <- selectionConn, sub <- selectionSub, down <- selectionDown, up <- selectionUp,
    selected <- chosenAgents, saved <- savedAgents, route <- pageRoute,
    acts <- selectionActs, faults <- selectionFaults

Edit == INSTANCE PersonaEditor WITH
    Agent <- Addressee, MaxAct <- MaxWidget,
    file <- personaFile, token <- botToken, page <- editorPage, timer <- previewTimer,
    acts <- editorActs, clicks <- editorClicks, faults <- editorFaults

ASSUME BrowserAssumption ==
    /\ Page!WatchAssumption /\ Sync!DashboardSyncAssumption
    /\ Feed!DashboardFeedAssumption /\ Compose!ComposerAssumption
    /\ Edit!PersonaEditorAssumption

-----------------------------------------------------------------------------
syncVars ==
    <<syncLog, conn, since, sub, syncDown, up, syncHeld, cache, timer, syncSelected,
      saved, connects, selects, always>>
feedVars ==
    <<feedLog, feedConnected, feedSelected, messages, hasMore, loading, refetch, render,
      shown, clicks, dropped>>
composerVars ==
    <<alive, input, staged, uploads, sends, threads, composerLog, composerDown,
      composerConnected, missed, crossed, buried, composerActs,
      composerFaults>>
watchVars ==
    <<watchScreen, proxied, running, current, page, timers, paused, listeners, peeks,
      keys, watchActs>>
selectionVars ==
    <<roster, selectionConn, selectionSub, selectionDown, selectionUp, known, started,
      chosenAgents, savedAgents, before, importing, pageRoute, scope, selectionActs,
      selectionFaults, silent, revived>>
editorVars ==
    <<personaFile, botToken, visit, editorPage, loads, editor, wired, seq, previewTimer,
      previews, saves, editorActs, editorClicks, editorFaults, put, superseded>>
browserVars == <<part, syncVars, feedVars, composerVars, watchVars, selectionVars,
                 editorVars>>

BrowserInit ==
    /\ part \in Parts
    /\ Sync!Init /\ Feed!Init /\ Page!Init /\ Choice!Init /\ Edit!Init
    /\ Compose!Init /\ alive = StartsRunning

BrowserNext ==
    /\ UNCHANGED part
    /\ IF part = "sync" THEN Sync!Next ELSE UNCHANGED syncVars
    /\ IF part = "feed" THEN Feed!Next ELSE UNCHANGED feedVars
    /\ IF part = "composer" THEN Compose!Next ELSE UNCHANGED composerVars
    /\ IF part = "watch" THEN Page!Next ELSE UNCHANGED watchVars
    /\ IF part = "selection" THEN Choice!Next ELSE UNCHANGED selectionVars
    /\ IF part = "editor" THEN Edit!Next ELSE UNCHANGED editorVars

BrowserSpec == BrowserInit /\ [][BrowserNext]_browserVars

-----------------------------------------------------------------------------
(* The properties, each of its component while this is the one that moves: *)
(* the others stay as they were at the start.                              *)

(* The watermark never passes a message not held (state.ts:119-150), and   *)
(* the messages of what is selected are sent (connection.ts:63-99).        *)
NoGap == /\ part = "sync" => Sync!NoGap
         /\ part = "selection" => Choice!ViewIsTrue

(* What a quiet feed shows is up to date (chat.ts:118-154, 225-283).       *)
FeedIsCurrent == part = "feed" => Feed!FeedIsCurrent

(* Sends carry what was composed, and their rows settle (chat.ts:1307).    *)
SentAndSettled == part = "composer" => Compose!SentAndSettled

(* The watch page shows its own agent (watch.ts:97-180), and the editor of *)
(* a persona saves, and previews, what is edited in it                     *)
(* (dashboard/persona.ts:386-576).                                         *)
PagesAreTrue == /\ part = "watch" => Page!ShowsItsAgent
                /\ part = "editor" => Edit!SavedAsEdited
=============================================================================

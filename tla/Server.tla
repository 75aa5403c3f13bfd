------------------------------- MODULE Server -------------------------------
(***************************************************************************)
(* The components of the orchestrator and its proxies that share no        *)
(* variable with one another and of which only safety is stated.  A        *)
(* behaviour is one of the component in `part'; the others do not move.    *)
(***************************************************************************)
EXTENDS Moving, Integers, Sequences, FiniteSets

CONSTANTS Dest, Token, Modes, MaxUpdate, MaxChange,         \* TelegramBots
          Opt, Team, LongTeam, MaxPersonaOp,                \* Personas
          Config, MaxLaunchOp, MaxEdit,                     \* Launch
          UsagePoll, Proxy, MaxPoll,                        \* UsagePoller
          Req, Slug, PageStore, Path, Name, MaxFileOp,      \* Artifacts
          PaneCall, Locked, Unsent, Delay, Timeout, Lease, Attempts, MaxLost, \* TmuxPane
          Void, WithBot, MaxRow, MaxQueue, MaxThreadOp \* Threads

VARIABLES
    \* TelegramBots
    dest, routing, secret, loop, applied, sent, confirmed, changes, routed, got, twice,
    newDest,
    \* Personas
    file, personasRow, teams, member, blank, changed, deleting, personasOps, gone, edited,
    \* Launch
    config, persona, creds, state, sid, captured, profile, launchPane, launchScreen,
    talks, issued, op, launchTodo, record, seen, last, launchOps,
    \* UsagePoller
    tracked, stale, usagePane, registered, chosen, usageTarget, cmd, answer, stopping,
    usageLost, polls, usageFaults,
    \* Artifacts
    pageDir, pageRow, storeFile, storeRow, onDisk, fileRow, artifactsTarget, told, req,
    artifactsRow, artifactsSpoiled, artifactsOps, artifactsFaults,
    \* TmuxPane
    line, submitted, requests, pc, tries, left, lease, paneLost, late,
    \* Threads
    rows, queue, threadsTodo, attempts, sending, accepted, threadsHeld, threadsSpoiled,
    reader, threadsOps, threadsFaults

Bots == INSTANCE TelegramBots

Persona == INSTANCE Personas WITH
    MaxOp <- MaxPersonaOp, row <- personasRow, ops <- personasOps

Start == INSTANCE Launch WITH
    MaxOp <- MaxLaunchOp,
    pane <- launchPane, screen <- launchScreen, todo <- launchTodo, ops <- launchOps

Usage == INSTANCE UsagePoller WITH
    Poll <- UsagePoll,
    pane <- usagePane, target <- usageTarget, lost <- usageLost, faults <- usageFaults

Files == INSTANCE Artifacts WITH
    Store <- PageStore, MaxOp <- MaxFileOp,
    target <- artifactsTarget, row <- artifactsRow, spoiled <- artifactsSpoiled,
    ops <- artifactsOps, faults <- artifactsFaults

Pane == INSTANCE TmuxPane WITH Call <- PaneCall, lost <- paneLost

Thread == INSTANCE Threads WITH
    Bot <- WithBot, MaxOp <- MaxThreadOp,
    todo <- threadsTodo, held <- threadsHeld, spoiled <- threadsSpoiled,
    ops <- threadsOps, faults <- threadsFaults

ASSUME ServerAssumption ==
    /\ Bots!TelegramBotsAssumption /\ Usage!UsagePollerAssumption
    /\ Pane!TmuxPaneAssumption /\ Persona!PersonasAssumption
    /\ Files!ArtifactsAssumption /\ Start!LaunchAssumption /\ Thread!ThreadsAssumption

-----------------------------------------------------------------------------
botsVars ==
    <<dest, routing, secret, loop, applied, sent, confirmed, changes, routed, got, twice,
      newDest>>
personasVars ==
    <<file, personasRow, teams, member, blank, changed, deleting, personasOps, gone,
      edited>>
launchVars ==
    <<config, persona, creds, state, sid, captured, profile, launchPane, launchScreen,
      talks, issued, op, launchTodo, record, seen, last, launchOps>>
usageVars ==
    <<tracked, stale, usagePane, registered, chosen, usageTarget, cmd, answer, stopping,
      usageLost, polls, usageFaults>>
artifactsVars ==
    <<pageDir, pageRow, storeFile, storeRow, onDisk, fileRow, artifactsTarget, told, req,
      artifactsRow, artifactsSpoiled, artifactsOps, artifactsFaults>>
paneVars ==
    <<line, submitted, requests, pc, tries, left, lease, paneLost, late>>
threadsVars ==
    <<rows, queue, threadsTodo, attempts, sending, accepted, threadsHeld, threadsSpoiled,
      reader, threadsOps, threadsFaults>>
serverVars == <<part, botsVars, personasVars, launchVars, usageVars, artifactsVars,
                paneVars, threadsVars>>

(* A component with many initial states has one while it does not move.    *)
ServerInit ==
    /\ part \in Parts
    /\ Bots!Init /\ (part = "bots" \/ routing = [a \in Agent |-> CHOOSE m \in Modes : TRUE])
    /\ Start!Init /\ (part = "launch" \/ config = CHOOSE c \in Config : TRUE)
    /\ Persona!Init /\ Usage!Init /\ Files!Init /\ Pane!Init /\ Thread!Init

ServerNext ==
    /\ UNCHANGED part
    /\ IF part = "bots" THEN Bots!Next ELSE UNCHANGED botsVars
    /\ IF part = "personas" THEN Persona!Next ELSE UNCHANGED personasVars
    /\ IF part = "launch" THEN Start!Next ELSE UNCHANGED launchVars
    /\ IF part = "usage" THEN Usage!Next ELSE UNCHANGED usageVars
    /\ IF part = "artifacts" THEN Files!Next ELSE UNCHANGED artifactsVars
    /\ IF part = "pane" THEN Pane!Next ELSE UNCHANGED paneVars
    /\ IF part = "threads" THEN Thread!Next ELSE UNCHANGED threadsVars

ServerSpec == ServerInit /\ [][ServerNext]_serverVars

-----------------------------------------------------------------------------
(* The properties, each of its component while this is the one that moves: *)
(* the others stay as they were at the start.                              *)

(* Updates reach a handler, by one loop per bot (telegram.ts:77-110).      *)
UpdatesAreHeard == part = "bots" => Bots!UpdatesAreHeard

(* The database follows the persona files (main.ts:578-612).               *)
RowsFollowFiles == part = "personas" => Persona!RowsFollowFiles

(* A launch has the agent's past, name and persona (lifecycle.ts:51-500).  *)
StartedAsItself == part = "launch" => Start!StartedAsItself

(* A session the poller left running is tracked (usage-poller.ts:137-260). *)
SessionsAreTracked == part = "usage" => Usage!SessionsAreTracked

(* Rows, directories and uploads agree (routes.ts:1306-1803).              *)
KeptWhole == part = "artifacts" => Files!KeptWhole

(* Texts under the lock are not merged into a line (tmux.ts:72-95).        *)
OneTextPerLine == part = "pane" => Pane!OneTextPerLine

(* Threads agree with the queue and are read whole (routes.ts:712-1087).   *)
ThreadsAreTrue == part = "threads" => Thread!ThreadsAreTrue
=============================================================================

------------------------------ MODULE Services ------------------------------
(***************************************************************************)
(* The components that share no variable with one another, those that have *)
(* fairness.  A behaviour is one of the component in `part', which is      *)
(* chosen at the start and stays; the others do not move.  So TLC explores *)
(* the sum of their state spaces, not the product, and a theorem about a   *)
(* component is one about this module.                                     *)
(***************************************************************************)
EXTENDS Integers, Sequences, FiniteSets, FiniteSetsExt

CONSTANTS None,                                             \* no row, nobody, never
          Agent, ProxyError, MaxStop, MaxOp,                \* NetworkRestore
          StaleAfter, MaxStart, MaxCall, MaxFault,          \* ProxyLink
          Owner, ReminderId, Cadences, MaxOrder,            \* Reminders
          MaxSession, MaxPress,                             \* Voice
          Frame, MaxFrameBytes, MaxChunk, MaxFrames         \* WsFrames

VARIABLES part,
    \* NetworkRestore
    state, before, stale, session, registered, by, phase, snap, left, adopt, again,
    stops, ops, ran, wish, died,
    \* ProxyLink
    proxyRow, reachable, proxyPhase, token, believed, calls, due, faults,
    \* Reminders
    reminder, busy, heard,
    \* Voice
    starts, asking, resuming, recording, ws, commitTimer, orphans, sock, voiceSession,
    upstream, errors, lost, late, presses,
    \* WsFrames
    stream, arrived, consumed, received, inMap, alive, link, cause

Restore == INSTANCE NetworkRestore

Link == INSTANCE ProxyLink WITH
    row <- proxyRow, up <- reachable, phase <- proxyPhase, registered <- believed

Reminder == INSTANCE Reminders WITH
    Agent <- Owner, Id <- ReminderId, NoRow <- None, Never <- None

Voices == INSTANCE Voice WITH
    timer <- commitTimer, session <- voiceSession

Socket == INSTANCE WsFrames WITH
    got <- received, connected <- inMap

ASSUME ServicesAssumption ==
    /\ Restore!NetworkRestoreAssumption /\ Reminder!RemindersAssumption
    /\ Socket!WsFramesAssumption

-----------------------------------------------------------------------------
restoreVars == <<state, before, stale, session, registered, by, phase, snap, left, adopt,
                 again, stops, ops, ran, wish, died>>
linkVars == <<proxyRow, reachable, proxyPhase, token, believed, calls, due, faults>>
reminderVars == <<reminder, busy, heard>>
voiceVars == <<starts, asking, resuming, recording, ws, commitTimer, orphans, sock, voiceSession,
               upstream, errors, lost, late, presses>>
socketVars == <<stream, arrived, consumed, received, inMap, alive, link, cause>>
vars == <<part, restoreVars, linkVars, reminderVars, voiceVars, socketVars>>

(* A component with many initial states has one while it does not move.    *)
Init ==
    /\ part \in {"restore", "link", "reminders", "voice", "socket"}
    /\ Restore!Init /\ (part = "restore" \/ \A a \in Agent : state[a] = "active")
    /\ Link!Init /\ Voices!Init /\ Socket!Init
    /\ Reminder!Init /\ (part = "reminders" \/ busy = {})

Next ==
    /\ UNCHANGED part
    /\ IF part = "restore" THEN Restore!Next ELSE UNCHANGED restoreVars
    /\ IF part = "link" THEN Link!Next ELSE UNCHANGED linkVars
    /\ IF part = "reminders" THEN Reminder!Next ELSE UNCHANGED reminderVars
    /\ IF part = "voice" THEN Voices!Next ELSE UNCHANGED voiceVars
    /\ IF part = "socket" THEN Socket!Next ELSE UNCHANGED socketVars

Spec == Init /\ [][Next]_vars

(* What each component is fair about, for its own behaviours.              *)
FairSpec ==
    /\ Spec
    /\ WF_restoreVars(part = "restore" /\ Restore!RestoreStep)
    /\ WF_reminderVars(part = "reminders" /\ Reminder!Tick)
    /\ WF_reminderVars(part = "reminders" /\ Reminder!Pass)
    /\ WF_linkVars(part = "link" /\ Link!Start) /\ WF_linkVars(part = "link" /\ Link!Discover)
    /\ WF_linkVars(part = "link" /\ Link!Heartbeat) /\ WF_linkVars(part = "link" /\ Link!Tick)
    /\ WF_linkVars(part = "link" /\ Link!RemoveStale) /\ WF_linkVars(part = "link" /\ Link!Restart)
    /\ \A k \in Link!Kinds : /\ WF_linkVars(part = "link" /\ Link!Handled(k))
                             /\ WF_linkVars(part = "link" /\ Link!Returns(k))
    /\ WF_socketVars(part = "socket" /\ Socket!Ping)
    /\ WF_voiceVars(part = "voice" /\ Voices!TimerFires)
    /\ \A n \in Voices!Id :
          /\ WF_voiceVars(part = "voice" /\ Voices!OnErrorMessage(n))
          /\ WF_voiceVars(part = "voice" /\ Voices!OnClose(n))
          /\ WF_voiceVars(part = "voice" /\ (Voices!Upgrade(n) \/ Voices!OnError(n)))
          /\ WF_voiceVars(part = "voice" /\ Voices!LateEnd(n))

-----------------------------------------------------------------------------
(* The properties, each of its component.                                  *)

(* What ran before a stop runs again after a restore (network.ts:46-55).   *)
RanRunsAgain == Restore!RanRunsAgain

(* A restore that has begun ends (network.ts:57-179).                      *)
RestoreEnds == Restore!RestoreEnds

(* A proxy that is up is registered again (proxy/main.ts:90-108).          *)
LinkIsRestored == Link!LinkIsRestored

(* Exactly one reminder of an agent is first (database.ts:1088-1168).      *)
OneIsFirst == Reminder!OneIsFirst

(* A reminder that stays first is delivered (reminder-dispatcher.ts:43).   *)
FirstIsHeard == Reminder!FirstIsHeard

(* The connection of a stopped recording ends (voice.ts:446-490).          *)
SessionsEnd == Voices!SessionsEnd

(* Frames are handled whole and at once (websocket-server.ts:111-126).     *)
KeepsUp == Socket!KeepsUp

(* Clients that are gone leave the map (websocket-server.ts:132-147).      *)
SilentIsRemoved == Socket!SilentIsRemoved
=============================================================================

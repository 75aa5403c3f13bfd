------------------------------- MODULE Voice -------------------------------
(***************************************************************************)
(* Dictation through ElevenLabs: voiceState of src/src/dashboard/voice.ts, *)
(* the socket of each recording, and its session in                        *)
(* src/src/orchestrator/voice-proxy.ts with the connection upstream.       *)
(*                                                                         *)
(* Sessions are numbered in the order of the starts.  Audio, transcripts   *)
(* and frames are left out, and so is Whisper, which has no session.     *)
(***************************************************************************)
EXTENDS Integers, FiniteSets

CONSTANTS MaxSession,  \* bound on starts
          MaxPress     \* bound on what the user does

VARIABLES starts,    \* how many starts there were
          asking,    \* starts that wait for the permission to use the microphone
          resuming,  \* those that then wait for the audio context
          recording, ws, timer, \* of voiceState; ws: a session, or 0 for null
          orphans,   \* timers that were replaced and not cleared
          sock,      \* of each session, at the browser
          session, upstream, \* of each session, at the voice proxy
          errors,    \* sessions with an error message on its way to the browser
          lost,      \* history: sessions dropped without closing their socket
          late,      \* history: sessions opened when nothing was recorded any more
          presses    \* counter, for MaxPress

browser == <<starts, asking, resuming, recording, ws, timer, orphans, lost, late>>
proxy == <<session, upstream, errors>>
vars == <<browser, sock, proxy, presses>>

Id == 1 .. MaxSession

TypeOK == /\ starts \in 0 .. MaxSession /\ asking \subseteq Id /\ resuming \subseteq Id
          /\ recording \in BOOLEAN /\ ws \in 0 .. MaxSession
          /\ timer \in BOOLEAN /\ orphans \in 0 .. MaxPress
          /\ sock \in [Id -> {"none", "connecting", "open", "closing", "closed"}]
          /\ session \in [Id -> {"none", "open", "closed"}]
          /\ upstream \in [Id -> {"none", "connecting", "open", "closed"}]
          /\ errors \subseteq Id /\ lost \subseteq Id /\ late \subseteq Id
          /\ presses \in 0 .. MaxPress

Init == /\ starts = 0 /\ asking = {} /\ resuming = {}
        /\ recording = FALSE /\ ws = 0 /\ timer = FALSE /\ orphans = 0
        /\ sock = [n \in Id |-> "none"]
        /\ session = [n \in Id |-> "none"] /\ upstream = [n \in Id |-> "none"]
        /\ errors = {} /\ lost = {} /\ late = {} /\ presses = 0

-----------------------------------------------------------------------------
(* The dashboard                                                           *)

Acts == presses < MaxPress /\ presses' = presses + 1

(* The session of voiceState.ws, in some states of its socket.             *)
Current(states) == {n \in {ws} \ {0} : sock[n] \in states}
Dropped == Current({"connecting", "open"})

StopVoiceLocal == /\ recording' = FALSE /\ ws' = 0 /\ timer' = FALSE
                  /\ lost' = lost \cup Dropped

(* Only an open socket is closed.                                          *)
StopVoice ==
    /\ recording' = FALSE /\ ws' = 0 /\ timer' = FALSE
    /\ sock' = [n \in Id |-> IF n \in Current({"open"}) THEN "closing" ELSE sock[n]]
    /\ lost' = lost \cup Current({"connecting"})

(* startVoice, by click or space bar; it is recording only later.          *)
Press == /\ ~recording /\ starts < MaxSession /\ Acts
         /\ starts' = starts + 1 /\ asking' = asking \cup {starts + 1}
         /\ UNCHANGED <<resuming, recording, ws, timer, orphans, lost, late, sock, proxy>>

Granted(n) == /\ n \in asking /\ asking' = asking \ {n}
              /\ recording' = TRUE /\ resuming' = resuming \cup {n}
              /\ UNCHANGED <<starts, ws, timer, orphans, lost, late, sock, proxy, presses>>
Denied(n) == /\ n \in asking /\ asking' = asking \ {n}
             /\ UNCHANGED <<starts, resuming, recording, ws, timer, orphans, lost, late, sock, proxy,
                            presses>>

(* The audio context runs: the socket is opened, also when the recording   *)
(* was stopped meanwhile.                                                  *)
Resumed(n) == /\ n \in resuming /\ resuming' = resuming \ {n}
              /\ ws' = n /\ lost' = lost \cup Dropped
              /\ late' = IF recording THEN late ELSE late \cup {n}
              /\ sock' = [sock EXCEPT ![n] = "connecting"]
              /\ UNCHANGED <<starts, asking, recording, timer, orphans, proxy, presses>>

(* commitAndStopPtt: a second one replaces the timer of the first.         *)
Commit == /\ recording /\ Acts
          /\ timer' = TRUE /\ orphans' = orphans + (IF timer THEN 1 ELSE 0)
          /\ UNCHANGED <<starts, asking, resuming, recording, ws, lost, late, sock, proxy>>

KeepSocket == /\ recording' = FALSE /\ ws' = 0 /\ timer' = FALSE  \* mutant
              /\ lost' = lost \cup Current({"connecting"}) /\ UNCHANGED sock
CommitTimeout == StopVoice

TimerFires == /\ \/ timer /\ UNCHANGED orphans
                 \/ orphans > 0 /\ orphans' = orphans - 1
              /\ CommitTimeout
              /\ UNCHANGED <<starts, asking, resuming, late, proxy, presses>>

(* The mode is changed, or the chat pane is left: without an audio context *)
(* a start that waits for it fails.                                        *)
Leave == /\ Acts /\ StopVoice
         /\ resuming' \in {{}, resuming}
         /\ UNCHANGED <<starts, asking, orphans, late, proxy>>

(* onmessage of any session, also one that was stopped.                    *)
OnErrorMessage(n) == /\ n \in errors /\ sock[n] = "open"
                     /\ errors' = errors \ {n}
                     /\ StopVoice
                     /\ UNCHANGED <<starts, asking, resuming, orphans, late, session, upstream,
                                    presses>>

(* onclose of any session stops what is recorded now.                      *)
OnClose(n) == /\ \/ sock[n] = "open" /\ session[n] = "closed" /\ n \notin errors
                 \/ sock[n] = "closing" /\ session[n] # "open"
              /\ sock' = [sock EXCEPT ![n] = "closed"]
              /\ IF recording THEN StopVoiceLocal
                              ELSE UNCHANGED <<recording, ws, timer, lost>>
              /\ UNCHANGED <<starts, asking, resuming, orphans, late, proxy, presses>>

(* onerror, then onclose: the socket could not be opened.                  *)
OnError(n) == /\ sock[n] = "connecting" /\ session[n] = "none"
              /\ sock' = [sock EXCEPT ![n] = "closing"]
              /\ recording' = FALSE /\ ws' = 0 /\ timer' = FALSE
              /\ lost' = lost \cup (Dropped \ {n})
              /\ UNCHANGED <<starts, asking, resuming, orphans, late, proxy, presses>>

-----------------------------------------------------------------------------
(* The voice proxy                                                         *)

(* handleVoiceUpgrade, connectUpstream                                     *)
Upgrade(n) == /\ sock[n] = "connecting" /\ session[n] = "none"
              /\ sock' = [sock EXCEPT ![n] = "open"]
              /\ session' = [session EXCEPT ![n] = "open"]
              /\ upstream' = [upstream EXCEPT ![n] = "connecting"]
              /\ UNCHANGED <<browser, errors, presses>>

CloseSession(n) == /\ session' = [session EXCEPT ![n] = "closed"]
                   /\ upstream' = [upstream EXCEPT ![n] = "closed"]

UpstreamOpens(n) == /\ upstream[n] = "connecting"
                    /\ upstream' = [upstream EXCEPT ![n] = "open"]
                    /\ UNCHANGED <<browser, sock, session, errors, presses>>

(* The browser closed, its connection broke, or ElevenLabs closed.  An     *)
(* upgrade that fails and a connection error are reported before.          *)
Ends(n) == /\ session[n] = "open"
           /\ CloseSession(n)
           /\ errors' \in {errors} \cup IF sock[n] = "open" THEN {errors \cup {n}} ELSE {}
           /\ UNCHANGED <<browser, sock, presses>>

(* An error message of ElevenLabs closes nothing here.                     *)
UpstreamError(n) == /\ upstream[n] = "open" /\ n \notin errors
                    /\ errors' = errors \cup {n}
                    /\ UNCHANGED <<browser, sock, session, upstream, presses>>

Next == \/ Press \/ Commit \/ TimerFires \/ Leave
        \/ \E n \in Id : \/ Granted(n) \/ Denied(n) \/ Resumed(n)
                         \/ OnErrorMessage(n) \/ OnClose(n) \/ OnError(n)
                         \/ Upgrade(n) \/ UpstreamOpens(n) \/ Ends(n) \/ UpstreamError(n)

Spec == Init /\ [][Next]_vars

(* A closed socket ends its session.                                       *)
LateEnd(n) == sock[n] \in {"closing", "closed"} /\ Ends(n)

(* A timer goes off, and the network carries what was sent.                *)
FairSpec ==
    /\ Spec /\ WF_vars(TimerFires)
    /\ \A n \in Id : /\ WF_vars(OnErrorMessage(n)) /\ WF_vars(OnClose(n))
                     /\ WF_vars(Upgrade(n) \/ OnError(n))
                     /\ WF_vars(LateEnd(n))

-----------------------------------------------------------------------------
(* Properties                                                              *)

Connected(n) == upstream[n] \in {"connecting", "open"}

(* A connection to ElevenLabs that serves no recording ends, however       *)
(* presses, timers, errors and closing sockets of several sessions cross,  *)
(* with two kinds of exceptions.  Nothing ends one whose socket was        *)
(* dropped without being closed: stopped while it connects (voice.ts:447), *)
(* replaced by a second start (voice.ts:276), or dropped by the end of     *)
(* another session (voice.ts:301).  And one that was opened late, after    *)
(* its recording was stopped while the audio context resumed               *)
(* (voice.ts:261-276 does not look at recording again), stays open until   *)
(* the voice mode is changed or the chat is left.                          *)
Recorded(n) == ws = n /\ recording /\ ~timer
OpenedLate(n) == n \in late /\ ws = n /\ ~timer
SessionsEnd ==
    \A n \in Id : Connected(n) ~> (~Connected(n) \/ Recorded(n) \/ OpenedLate(n) \/ n \in lost)

(* The same without exceptions, "Session is torn down on disconnect"       *)
(* (voice-proxy.ts:6), does not hold: such a socket is not disconnected.   *)
NoSessionIsLost == \A n \in Id : Connected(n) ~> (~Connected(n) \/ Recorded(n))
=============================================================================

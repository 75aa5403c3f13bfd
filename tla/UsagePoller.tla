---------------------------- MODULE UsagePoller ----------------------------
(***************************************************************************)
(* The dedicated tmux session in which one engine is asked for its usage   *)
(* (src/src/orchestrator/usage-poller.ts): found or created, adopted after *)
(* a restart, recycled after 8 hours, killed when the orchestrator stops.  *)
(*                                                                         *)
(* Polls of the timer and of POST /api/engines/poll overlap, and every     *)
(* proxy command is two steps: the proxy does it, the poll reads the       *)
(* answer and goes on.  What the parsers read off the screen is left out.  *)
(***************************************************************************)
EXTENDS Integers, FiniteSets

CONSTANTS Poll,     \* polls that may run at a time
          Proxy,    \* 1 is local to the orchestrator and preferred, 2, ...
          None, MaxPoll, MaxFault

VARIABLES tracked,     \* sessionInfo: the proxy that has the session, or None
          stale,       \* is the tracked session older than RECYCLE_MS?
          pane,        \* pane[p]: what the session on p runs
          registered,  \* proxies in the registry
          chosen,      \* chosen[k]: proxy that poll k found
          target,      \* target[k]: proxy that its command goes to
          cmd,         \* cmd[k]: its command, None when it does not run
          answer,      \* answer[k]: answer to it, None until the proxy has done it
          stopping,    \* "no", "cleanup" while the session is killed, "off"
          lost,        \* history: proxies on which the poller lost sight of it
          polls, faults

UsagePollerAssumption == None \notin Proxy /\ None \notin {"hasNew", "create", "launch"}

vars == <<tracked, stale, pane, registered, chosen, target, cmd, answer, stopping, lost,
          polls, faults>>

pollVars == <<chosen, target, cmd, answer>>

-----------------------------------------------------------------------------
(* The proxy                                                               *)

Alive(p) == pane[p] # "gone"

Effect(c, p) ==
    CASE c = "kill" -> "gone"
      [] c = "create" /\ ~Alive(p) -> "shell"
      [] c = "launch" /\ pane[p] = "shell" -> "cli"
      [] OTHER -> pane[p]

(* Creating a session that is there fails, and so does pasting into none.  *)
Succeeds(c, p) == CASE c = "create" -> ~Alive(p)
                    [] c \in {"launch", "capture", "usage", "escape"} -> Alive(p)
                    [] OTHER -> TRUE

Perform(k) ==
    /\ cmd[k] # None /\ answer[k] = None
    /\ LET p == target[k]
       IN \/ /\ p \in registered
             /\ pane' = [pane EXCEPT ![p] = Effect(cmd[k], p)]
             /\ answer' = [answer EXCEPT ![k] =
                  IF ~Succeeds(cmd[k], p) THEN "failed"
                  ELSE IF cmd[k] \in {"hasOld", "hasNew"} /\ ~Alive(p) THEN "no" ELSE "yes"]
             /\ UNCHANGED faults
          \/ /\ p \notin registered \/ faults < MaxFault
             /\ faults' = IF p \in registered THEN faults + 1 ELSE faults
             /\ pane' \in IF p \in registered
                          THEN {pane, [pane EXCEPT ![p] = Effect(cmd[k], p)]} ELSE {pane}
             /\ answer' = [answer EXCEPT ![k] = "failed"]
    /\ UNCHANGED <<tracked, stale, registered, chosen, target, cmd, stopping, lost, polls>>

-----------------------------------------------------------------------------
(* The poll                                                                *)

Send(k, c, p) ==
    /\ cmd' = [cmd EXCEPT ![k] = c]
    /\ target' = [target EXCEPT ![k] = p]
    /\ answer' = [answer EXCEPT ![k] = None]
    /\ UNCHANGED chosen

Finished(k) == Send(k, None, target[k])
Got(k, c) == cmd[k] = c /\ answer[k] # None
Quiet == UNCHANGED <<pane, registered, stopping, polls, faults>>

Track(p) ==
    /\ tracked' = p /\ stale' = FALSE
    /\ lost' = (lost \cup ({tracked} \ {None})) \ {p}

(* A session that is there and not tracked is from an earlier process.     *)
Adopt(p) == Track(p)

(* The poll forgets the session, whichever is tracked by now: it may be    *)
(* alive where the proxy did not answer, or where another poll has made it *)
(* since the answer, when this one goes on with another proxy.             *)
Remade(k) == target[k] # chosen[k] /\ Alive(target[k])
Forget(k) ==
    /\ tracked' = None /\ stale' = FALSE
    /\ lost' = lost \cup (IF answer[k] = "failed" \/ Remade(k) THEN {target[k]} ELSE {})
                     \cup ({tracked} \ {None, target[k]})

(* findProxy: the local one if it is there.                                *)
Pick == CHOOSE p \in registered : \A q \in registered : p <= q

(* pollAll, recycleIfStale and the first question of ensureSession.        *)
Begin(k) ==
    /\ cmd[k] = None /\ registered # {} /\ polls < MaxPoll /\ stopping # "off"
    /\ k = "timer" => stopping = "no"
    /\ polls' = polls + 1
    /\ LET p == Pick
       IN /\ chosen' = [chosen EXCEPT ![k] = p]
          /\ cmd' = [cmd EXCEPT ![k] = CASE tracked # None /\ stale -> "kill"
                                         [] tracked # None -> "hasOld"
                                         [] OTHER -> "hasNew"]
          /\ target' = [target EXCEPT ![k] = IF tracked # None THEN tracked ELSE p]
          /\ answer' = [answer EXCEPT ![k] = None]
    /\ UNCHANGED <<tracked, stale, pane, registered, stopping, lost, faults>>

Recycled(k) == /\ Got(k, "kill")
               /\ Forget(k)
               /\ Send(k, "hasNew", chosen[k])
               /\ Quiet

HasOld(k) ==
    /\ Got(k, "hasOld")
    /\ IF answer[k] = "yes"
       THEN Send(k, "capture", IF tracked = None THEN chosen[k] ELSE tracked)
            /\ UNCHANGED <<tracked, stale, lost>>
       ELSE Forget(k) /\ Send(k, "hasNew", chosen[k])
    /\ Quiet

HasNew(k) ==
    /\ Got(k, "hasNew")
    /\ IF answer[k] = "yes" THEN Adopt(chosen[k]) /\ Send(k, "capture", chosen[k])
       ELSE Send(k, "create", chosen[k]) /\ UNCHANGED <<tracked, stale, lost>>
    /\ Quiet

(* The answers to the creation and to the launch are not looked at.        *)
Created(k) == /\ Got(k, "create")
              /\ Send(k, "launch", chosen[k])
              /\ UNCHANGED <<tracked, stale, lost>> /\ Quiet

TracksNothing(k) ==                                               \* mutant
    /\ Got(k, "launch")
    /\ Send(k, "capture", chosen[k])
    /\ UNCHANGED <<tracked, stale, lost>> /\ Quiet

Launched(k) == /\ Got(k, "launch")
               /\ Track(chosen[k])
               /\ Send(k, "capture", chosen[k])
               /\ Quiet

(* waitForIdle reads the screen, and gives up after 20 s or without pane.  *)
Waited(k) ==
    /\ Got(k, "capture")
    /\ \/ Finished(k)
       \/ answer[k] = "yes" /\ Send(k, "usage", target[k])
    /\ UNCHANGED <<tracked, stale, lost>> /\ Quiet

(* The command, captures until enough is read, and Escape.                 *)
Asked(k) ==
    /\ \/ Got(k, "usage") /\ Send(k, "escape", target[k])
       \/ Got(k, "escape") /\ Finished(k)
    /\ UNCHANGED <<tracked, stale, lost>> /\ Quiet

-----------------------------------------------------------------------------
GrowOld == /\ tracked # None /\ ~stale /\ stale' = TRUE
           /\ UNCHANGED <<tracked, pane, registered, pollVars, stopping, lost, polls, faults>>

(* Proxies come and go; the operator may close the session.                *)
Environment ==
    /\ faults < MaxFault /\ faults' = faults + 1
    /\ \E p \in Proxy :
          \/ /\ registered' = IF p \in registered THEN registered \ {p} ELSE registered \cup {p}
             /\ UNCHANGED pane
          \/ /\ pane' = [pane EXCEPT ![p] = "gone"] /\ UNCHANGED registered
    /\ UNCHANGED <<tracked, stale, pollVars, stopping, lost, polls>>

(* shutdown: the timer is stopped, but not a poll that runs; the session   *)
(* is killed and forgotten, and the process ends; or it just ends.         *)
Stop == /\ stopping = "no" /\ stopping' = "cleanup"
        /\ UNCHANGED <<tracked, stale, pane, registered, pollVars, lost, polls, faults>>

Cleanup ==
    /\ stopping = "cleanup" /\ tracked # None
    /\ IF tracked \in registered
       THEN pane' = [pane EXCEPT ![tracked] = "gone"] /\ UNCHANGED lost
       ELSE lost' = lost \cup {tracked} /\ UNCHANGED pane
    /\ tracked' = None /\ stale' = FALSE
    /\ UNCHANGED <<registered, pollVars, stopping, polls, faults>>

Exit ==
    /\ stopping = "no" \/ (stopping = "cleanup" /\ tracked = None)
    /\ stopping' = "off"
    /\ lost' = IF stopping = "cleanup" /\ \A k \in Poll : cmd[k] = None
               THEN lost ELSE {p \in Proxy : Alive(p)}
    /\ tracked' = None /\ stale' = FALSE
    /\ cmd' = [k \in Poll |-> None] /\ answer' = [k \in Poll |-> None]
    /\ UNCHANGED <<pane, registered, chosen, target, polls, faults>>

Restart == /\ stopping = "off" /\ stopping' = "no"
           /\ UNCHANGED <<tracked, stale, pane, registered, pollVars, lost, polls, faults>>

Init == /\ tracked = None /\ stale = FALSE
        /\ pane = [p \in Proxy |-> "gone"] /\ registered = Proxy
        /\ chosen = [k \in Poll |-> 1] /\ target = [k \in Poll |-> 1]
        /\ cmd = [k \in Poll |-> None] /\ answer = [k \in Poll |-> None]
        /\ stopping = "no" /\ lost = {} /\ polls = 0 /\ faults = 0

Next == \/ \E k \in Poll : \/ Perform(k) \/ Begin(k) \/ Recycled(k) \/ HasOld(k) \/ HasNew(k)
                           \/ Created(k) \/ Launched(k) \/ Waited(k) \/ Asked(k)
        \/ GrowOld \/ Environment \/ Stop \/ Cleanup \/ Exit \/ Restart

-----------------------------------------------------------------------------
(* Between polls every session that is alive is the tracked one, or is on  *)
(* a proxy that did not answer, or was left by a crash, or by a poll that  *)
(* chose another proxy at the same time (usage-poller.ts:349-440).         *)
SessionsAreTracked ==
    (\A k \in Poll : cmd[k] = None) =>
        \A p \in Proxy : Alive(p) => (tracked = p \/ p \in lost)
=============================================================================

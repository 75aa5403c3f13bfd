--------------------------- MODULE NetworkRestore ---------------------------
(***************************************************************************)
(* Stop and start of the orchestrator: shutdownAgents and restoreAllAgents *)
(* of src/src/orchestrator/network.ts, the end of main.ts that calls them, *)
(* and what happens to the agents meanwhile.                               *)
(*                                                                         *)
(* restoreAllAgents works through a list it read before its awaits.  It    *)
(* asks the proxy of each agent that ran for its tmux session, re-adopts   *)
(* those whose session is there, and resumes the rest one after another.   *)
(* Users, the health monitor and the proxies act all the while.  One call  *)
(* of a user per agent is modelled, as a claim and its end; Lifecycle has  *)
(* the phases between.  An agent that has been spawned has a proxy_id for  *)
(* ever, so the branch that assigns one is never taken and left out.       *)
(***************************************************************************)
EXTENDS Integers

CONSTANTS Agent,
          None,        \* no state before a shutdown, nobody
          ProxyError,  \* may a command to a registered proxy fail?
          MaxStop,     \* bound on stops of the process
          MaxOp        \* bound on what users, sessions and proxies do

VARIABLES state,      \* agents.state
          before,     \* agents.state_before_shutdown
          stale,      \* agents written since restore read its list
          session,    \* session[a]: does a's tmux session exist?
          registered,    \* is the agents' proxy registered?
          by,         \* by[a]: who has an operation under way on a
          phase,      \* where restoreAllAgents is
          snap,       \* snap[a]: state and stateBeforeShutdown in its list
          left,       \* agents it has yet to look at
          adopt,      \* toReadopt
          again,      \* toRestore
          stops, ops, \* counters, for MaxStop and MaxOp
          ran,        \* history: the states when the process stopped
          wish,       \* history: what a user has done with a since: "started" or
                      \* "stopped" it, or None
          died        \* history: agents whose session has ended since

rows == <<state, before, stale>>
restore == <<phase, snap, left, adopt, again>>
history == <<stops, ops, ran, wish, died>>
vars == <<rows, session, registered, by, restore, history>>

Rest == {"void", "active", "idle", "suspended", "failed"}
Claim == {"spawning", "resuming", "suspending"}
State == Rest \cup Claim

NetworkRestoreAssumption ==
    /\ None \notin State \cup {"user", "restore", "started", "stopped"}
    /\ MaxStop \in Nat /\ MaxOp \in Nat

TypeOK == /\ state \in [Agent -> State] /\ before \in [Agent -> State \cup {None}]
          /\ stale \subseteq Agent
          /\ session \in [Agent -> BOOLEAN] /\ registered \in BOOLEAN
          /\ by \in [Agent -> {None, "user", "restore"}]
          /\ phase \in {"down", "check", "restoring", "done", "aborted"}
          /\ snap \in [Agent -> [state : State, before : State \cup {None}]]
          /\ left \subseteq Agent /\ adopt \subseteq Agent /\ again \subseteq Agent
          /\ stops \in 0 .. MaxStop /\ ops \in 0 .. MaxOp
          /\ ran \in [Agent -> State]
          /\ wish \in [Agent -> {None, "started", "stopped"}] /\ died \subseteq Agent

(* A process that has nothing left to restore.                             *)
Init == /\ state \in [Agent -> {"active", "idle", "suspended"}]
        /\ before = [a \in Agent |-> None]
        /\ session = [a \in Agent |-> TRUE]
        /\ registered = TRUE
        /\ by = [a \in Agent |-> None]
        /\ phase = "done"
        /\ snap = [a \in Agent |-> [state |-> "void", before |-> None]]
        /\ left = {} /\ adopt = {} /\ again = {} /\ stale = {}
        /\ stops = 0 /\ ops = 0
        /\ ran = [a \in Agent |-> "void"] /\ wish = [a \in Agent |-> None]
        /\ died = {}

-----------------------------------------------------------------------------
(* Rows and proxies                                                        *)

Write(a, s, b) == /\ state' = [state EXCEPT ![a] = s]
                  /\ before' = [before EXCEPT ![a] = b]
                  /\ stale' = stale \cup {a}

(* What a command may answer: the truth, or not ok.                        *)
Answer(truth) == IF ~registered THEN {FALSE}
                 ELSE IF ProxyError THEN {truth, FALSE} ELSE {truth}

-----------------------------------------------------------------------------
(* The process stops                                                       *)

IsRunning(s) == s \in {"active", "idle", "spawning", "resuming"}

(* shutdownAgents changes rows only: the sessions go on.                   *)
ShutdownAgents ==
    LET running == {a \in Agent : IsRunning(state[a])}
    IN  /\ before' = [a \in Agent |-> IF a \in running THEN state[a] ELSE before[a]]
        /\ state' = [a \in Agent |-> IF a \in running THEN "suspended" ELSE state[a]]
        /\ stale' = stale \cup running

Remember == ran' = state /\ wish' = [a \in Agent |-> None] /\ died' = {}

Stops == /\ phase # "down" /\ stops < MaxStop
         /\ phase' = "down"
         /\ by' = [a \in Agent |-> None]
         /\ left' = {} /\ adopt' = {} /\ again' = {}
         /\ stops' = stops + 1
         /\ Remember
         /\ UNCHANGED <<session, registered, snap, ops>>

Shutdown == Stops /\ ShutdownAgents
Crash == Stops /\ UNCHANGED rows

(* POST /api/orchestrator/shutdown: the rows change, the process goes on,  *)
(* and operations under way lose their claims.                             *)
ShutdownByRequest == /\ phase \in {"done", "aborted"} /\ stops < MaxStop
                     /\ ShutdownAgents
                     /\ stops' = stops + 1
                     /\ Remember
                     /\ UNCHANGED <<session, registered, by, restore, ops>>

-----------------------------------------------------------------------------
(* restoreAllAgents: the look at every agent                               *)

CrashedAtWork(r) == r.state \in {"active", "suspending", "resuming"} \* mutant
Graceful(r) == r.state = "suspended" /\ r.before # None
Crashed(r) == r.state \in {"active", "idle", "suspending", "resuming"}

(* At a start, or POST /api/orchestrator/restore.  An agent that was       *)
(* neither is passed over without an await.                                *)
BeginRestore ==
    /\ phase \in {"down", "done", "aborted"}
    /\ \A a \in Agent : by[a] # "restore"
    /\ snap' = [a \in Agent |-> [state |-> state[a], before |-> before[a]]]
    /\ left' = {a \in Agent : Graceful(snap'[a]) \/ Crashed(snap'[a])}
    /\ phase' = IF left' = {} THEN "done" ELSE "check"
    /\ adopt' = {} /\ again' = {} /\ stale' = {} /\ died' = {}
    /\ UNCHANGED <<state, before, session, registered, by, stops, ops, ran, wish>>

(* The state an agent with a session returns to.                           *)
Restored(s) == IF s \in {"idle", "active"} THEN s ELSE "active"

(* After the last look the agents with a session are re-adopted, all in    *)
(* the same step and whatever their state is by then.                      *)
Readopt(ad, ag, st) ==
    /\ state' = [a \in Agent |-> IF a \in ad THEN Restored(snap[a].before) ELSE st[a]]
    /\ before' = [a \in Agent |-> IF a \in ad THEN None ELSE before[a]]
    /\ phase' = IF ag = {} THEN "done" ELSE "restoring"

Look(a, found) ==
    /\ adopt' = IF Graceful(snap[a]) /\ found THEN adopt \cup {a} ELSE adopt
    /\ again' = IF found THEN again ELSE again \cup {a}
    /\ left' = left \ {a}
    /\ LET st == IF Crashed(snap[a]) /\ ~found THEN [state EXCEPT ![a] = "failed"] ELSE state
       IN  /\ stale' = (IF st = state THEN stale ELSE stale \cup {a})
                       \cup (IF left' = {} THEN adopt' ELSE {})
           /\ IF left' = {} THEN Readopt(adopt', again', st)
              ELSE state' = st /\ UNCHANGED <<before, phase>>

(* The write of "failed" takes the version of the list: one agent that has *)
(* changed since makes it throw, and restore ends there for all of them.   *)
Check(a) ==
    /\ phase = "check" /\ a \in left
    /\ \E found \in Answer(session[a]) :
           IF Crashed(snap[a]) /\ ~found /\ a \in stale
           THEN phase' = "aborted" /\ UNCHANGED <<rows, snap, left, adopt, again>>
           ELSE Look(a, found) /\ UNCHANGED snap
    /\ UNCHANGED <<session, registered, by, history>>

-----------------------------------------------------------------------------
(* restoreAllAgents: one resume after another                              *)

Busy == \E a \in Agent : by[a] = "restore"

CanResume(s) == s \in {"suspended", "failed"}

Rejoins(a) == UNCHANGED <<again, phase>>                           \* mutant
PassOn(a) == again' = again \ {a} /\ phase' = IF again' = {} THEN "done" ELSE phase

(* resumeAgent throws in its first phase: the agent is passed over.        *)
Skip(a) == /\ phase = "restoring" /\ ~Busy /\ a \in again
           /\ ~(CanResume(state[a]) /\ registered)
           /\ PassOn(a)
           /\ UNCHANGED <<rows, session, registered, by, snap, left, adopt, history>>

ClaimResume(a) == /\ phase = "restoring" /\ ~Busy /\ a \in again
                  /\ CanResume(state[a]) /\ registered
                  /\ Write(a, "resuming", before[a])
                  /\ by' = [by EXCEPT ![a] = "restore"]
                  /\ UNCHANGED <<session, registered, restore, history>>

(* The session is there, or made; the resume command is pasted.            *)
Create(a) == /\ by[a] = "restore" /\ ~session[a]
             /\ \E ok \in Answer(TRUE) :
                IF ok THEN /\ session' = [session EXCEPT ![a] = TRUE]
                           /\ UNCHANGED <<rows, by, again, phase>>
                ELSE /\ IF state[a] = "resuming" THEN Write(a, "failed", before[a])
                        ELSE UNCHANGED rows
                     /\ by' = [by EXCEPT ![a] = None]
                     /\ PassOn(a)
                     /\ UNCHANGED session
             /\ UNCHANGED <<registered, snap, left, adopt, history>>

(* finalizeToActive, and the clean-up after it; a claim that is gone makes *)
(* it throw.                                                               *)
EndResume(a) == /\ by[a] = "restore" /\ session[a]
                /\ IF state[a] = "resuming" THEN Write(a, "active", None) ELSE UNCHANGED rows
                /\ by' = [by EXCEPT ![a] = None]
                /\ PassOn(a)
                /\ UNCHANGED <<session, registered, snap, left, adopt, history>>

-----------------------------------------------------------------------------
(* Users, the health monitor, sessions and proxies                         *)

Up == phase # "down"
Acts == ops < MaxOp /\ ops' = ops + 1 /\ UNCHANGED <<stops, ran>>
ActsOn(a, w) == Acts /\ wish' = [wish EXCEPT ![a] = w] /\ UNCHANGED died

UserClaims(a) == /\ Up /\ registered /\ by[a] = None /\ ActsOn(a, "started")
                 /\ \E c \in Claim :
                       /\ \/ c = "suspending" /\ state[a] \in {"active", "idle"}
                          \/ c = "resuming" /\ CanResume(state[a])
                          \/ c = "spawning" /\ state[a] \in {"void", "failed"}
                       /\ Write(a, c, before[a])
                 /\ by' = [by EXCEPT ![a] = "user"]
                 /\ UNCHANGED <<session, registered, restore>>

(* Suspended or reloaded, resumed or spawned, or failed.  Only a resume    *)
(* forgets the state before the shutdown.                                  *)
UserEnds(a) ==
    /\ by[a] = "user"
    /\ by' = [by EXCEPT ![a] = None]
    /\ \/ /\ state[a] = "suspending" /\ Write(a, "suspended", before[a])
          /\ wish' = [wish EXCEPT ![a] = "stopped"]
          /\ UNCHANGED session
       \/ /\ state[a] \in Claim
          /\ Write(a, "active", IF state[a] = "resuming" THEN None ELSE before[a])
          /\ session' = [session EXCEPT ![a] = TRUE]
          /\ UNCHANGED wish
       \/ state[a] \in Claim /\ Write(a, "failed", before[a]) /\ UNCHANGED <<session, wish>>
       \/ state[a] \notin Claim /\ UNCHANGED <<rows, session, wish>>
    /\ UNCHANGED <<registered, restore, stops, ops, ran, died>>

UserKills(a) == /\ Up /\ state[a] # "void" /\ ActsOn(a, "stopped")
                /\ Write(a, "suspended", before[a])
                /\ session' = [session EXCEPT ![a] = FALSE]
                /\ UNCHANGED <<registered, by, restore>>

(* The health monitor, the watchdog of an operation, or recoverFailedAgents*)
(* when a proxy registers.  A poll that changes no state still writes.     *)
MonitorWrites(a) ==
    /\ Up /\ Acts
    /\ \E s \in State :
          /\ \/ s \in {"active", "idle"} /\ state[a] \in {"active", "idle"}
             \/ s = "failed" /\ state[a] \in {"active", "idle"} /\ ~session[a]
             \/ s = "active" /\ state[a] = "failed" /\ session[a] /\ registered
             \/ s = "failed" /\ state[a] \in Claim /\ by[a] # None
          /\ Write(a, s, before[a])
    /\ UNCHANGED <<session, registered, by, restore, wish, died>>

SessionEnds(a) == /\ session[a] /\ Acts
                  /\ session' = [session EXCEPT ![a] = FALSE]
                  /\ died' = died \cup {a}
                  /\ UNCHANGED <<rows, registered, by, restore, wish>>

(* The clean-up of stale proxies fails the agents of a proxy it removes.   *)
ProxyLost == /\ Up /\ registered /\ Acts
             /\ registered' = FALSE
             /\ LET lost == {a \in Agent : IsRunning(state[a])}
                IN  /\ state' = [a \in Agent |-> IF a \in lost THEN "failed" ELSE state[a]]
                    /\ stale' = stale \cup lost
             /\ UNCHANGED <<before, session, by, restore, wish, died>>

ProxyRegisters == /\ Up /\ ~registered
                  /\ registered' = TRUE
                  /\ UNCHANGED <<rows, session, by, restore, history>>

-----------------------------------------------------------------------------

RestoreStep == \E a \in Agent : Check(a) \/ Skip(a) \/ ClaimResume(a) \/ Create(a) \/ EndResume(a)

Next == \/ Shutdown \/ Crash \/ ShutdownByRequest \/ BeginRestore
        \/ ProxyLost \/ ProxyRegisters
        \/ \E a \in Agent : \/ Check(a) \/ Skip(a) \/ ClaimResume(a) \/ Create(a) \/ EndResume(a)
                            \/ UserClaims(a) \/ UserEnds(a) \/ UserKills(a)
                            \/ MonitorWrites(a) \/ SessionEnds(a)

Spec == Init /\ [][Next]_vars

(* Commands to a proxy end, by an answer or their timeout.                 *)
FairSpec == Spec /\ WF_vars(RestoreStep)

-----------------------------------------------------------------------------
(* Properties                                                              *)

(* An agent that was running when the process stopped, gracefully or not,  *)
(* and that no user has acted on since, comes out of a restore that ends   *)
(* running with a session, failed, or, when its proxy was not registered,  *)
(* suspended with the state the next restore works from (network.ts:46-55).*)
(* Restore does not see one that crashed in the middle of an operation and *)
(* whose session is there.                                                 *)
RanRunsAgain ==
    phase = "done" => \A a \in {b \in Agent : IsRunning(ran[b]) /\ wish[b] = None} :
        \/ state[a] \in {"active", "idle"} /\ (session[a] \/ a \in died)
        \/ state[a] = "failed"
        \/ state[a] = "suspended" /\ before[a] # None
        \/ state[a] = ran[a] /\ ran[a] \in {"spawning", "resuming"}

(* A restore that has begun ends, whatever answers it gets                 *)
(* (network.ts:57-179).                                                    *)
RestoreEnds == phase \in {"check", "restoring"} ~> phase \in {"done", "aborted", "down"}

(* Restore starts no agent that a user has suspended or killed since it    *)
(* was last running ("Restore all agents that were running before          *)
(* shutdown/crash", network.ts:49).                                        *)
OnlyWhatRan == [][\A a \in Agent : by[a] # "restore" /\ by'[a] = "restore"
                                       => wish[a] # "stopped"]_vars
=============================================================================

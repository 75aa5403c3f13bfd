----------------------------- MODULE Lifecycle -----------------------------
(***************************************************************************)
(* The lifecycle of one agent: the operations of                           *)
(* src/src/orchestrator/lifecycle.ts, the watchdogs they start, the tmux   *)
(* session they work on, and the writers that change the agent's row       *)
(* without the lock (health monitor, proxy clean-up and registration).     *)
(*                                                                         *)
(* spawn, resume, suspend, reload and recover run in three phases: claim   *)
(* the agent under the lock by writing an intermediate state, work on the  *)
(* session without the lock, finalize under the lock if the intermediate   *)
(* state is still there.  kill, destroy, compact and the operations that   *)
(* only paste hold the lock throughout.  Phases 1 and 3 do not await while *)
(* they hold the lock, so each is one step; every proxy command is one.    *)
(*                                                                         *)
(* The lock is the lease of Lease.tla: one owner, lost early only when the *)
(* owner outlives it.  Agents share nothing but the lock table, so one     *)
(* agent is enough.  A call that waits for the lock, or that phase 1       *)
(* rejects, has changed nothing and is a call that has not begun.          *)
(***************************************************************************)
EXTENDS FiniteSets

CONSTANTS Op,        \* calls of the lifecycle functions; also the session ids
                     \* they generate (randomUUID)
          First,     \* the session id of the conversation at the start
          None,      \* no owner, no session id
          Kinds,     \* the functions that are called
          Captures,  \* does the exit hook capture SESSION_ID from the pane?
          Fault      \* what else happens: see Faults

Claiming == {"spawn", "resume", "suspend", "reload", "recover"}
Locking == {"kill", "destroy", "compact", "paste"}
Faults == {"proxyError", "throw", "lapse", "monitor", "cliExit", "proxyLoss",
           "captureMiss"}

ASSUME LifecycleAssumption == /\ None \notin Op /\ First \notin Op
                              /\ First # None
                              /\ {"gone", "shell"} \cap (Op \cup {First}) = {}
                              /\ Kinds \subseteq Claiming \cup Locking
                              /\ Captures \in BOOLEAN
                              /\ Fault \subseteq Faults

VARIABLES state,     \* agents.state, "absent" when there is no row
          sid,       \* agents.current_session_id
          captured,  \* SESSION_ID in agents.captured_vars
          tmux,      \* is agents.tmux_session set?
          current,   \* the calls whose copy of agents.version is current
          lock,      \* owner of the agent's lock
          pane,      \* the tmux session: gone, a bare shell, or the CLI it runs
          proxy,     \* registration of the proxy
          kind,      \* kind[o]: the function o is a call of
          pc,        \* pc[o]: the next step of o
          lsid,      \* lsid[o]: the session id o launches the CLI with
          wd,        \* wd[o]: the watchdog timer o started
          evicted    \* history: calls that lost the claim they worked under

row == <<state, sid, captured, tmux, current>>
world == <<lock, pane, proxy>>
calls == <<kind, pc, lsid, wd>>
vars == <<row, world, calls, evicted>>

Session == Op \cup {First}
Transitional == {"spawning", "resuming", "suspending"}
State == Transitional \cup {"absent", "void", "active", "idle", "suspended", "failed"}
PhaseTwo == {"probe", "clean", "create", "exit", "kill", "launch", "final", "createFailed"}
PC == PhaseTwo \cup {"new", "held", "write", "done", "threw"}

TypeOK == /\ state \in State
          /\ sid \in Session \cup {None}
          /\ captured \in Session \cup {None}
          /\ tmux \in BOOLEAN
          /\ current \subseteq Op
          /\ lock \in Op \cup {None}
          /\ pane \in Session \cup {"gone", "shell"}
          /\ proxy \in {"gone", "joined", "alive", "up"}
          /\ kind \in [Op -> Claiming \cup Locking \cup {None}]
          /\ pc \in [Op -> PC]
          /\ lsid \in [Op -> Session \cup {None}]
          /\ wd \in [Op -> {"off", "armed", "fired", "killing"}]
          /\ evicted \subseteq Op

(* An agent at rest: just created, running, or suspended by the exit hook. *)
Init == /\ \/ state = "void" /\ sid = None /\ tmux = FALSE /\ pane = "gone"
           \/ state = "active" /\ sid = First /\ tmux = TRUE /\ pane = First
           \/ state = "suspended" /\ sid = First /\ tmux = TRUE /\ pane \in {"shell", First}
        /\ captured = None
        /\ current = {} /\ evicted = {}
        /\ lock = None
        /\ proxy = "up"
        /\ kind = [o \in Op |-> None]
        /\ pc = [o \in Op |-> "new"]
        /\ lsid = [o \in Op |-> None]
        /\ wd = [o \in Op |-> "off"]

-----------------------------------------------------------------------------
(* The row                                                                 *)

Working == {o \in Op : pc[o] \in PhaseTwo}

(* updateAgentState: the version moves on, so every copy of it is stale.   *)
(* Whoever changes the state takes it from the calls in phase 2 but itself.*)
Write(s, self) ==
    /\ state' = s
    /\ current' = {}
    /\ evicted' = IF s = state THEN evicted ELSE evicted \cup (Working \ self)

KeepRow == UNCHANGED <<state, current, evicted>>

(* The lock is released by its owner only, whoever lost it keeps it lost.  *)
Unlock(o) == lock' = IF lock = o THEN None ELSE lock

-----------------------------------------------------------------------------
(* The proxy and the tmux session behind it                                *)

Registered == proxy # "gone"

(* proxyDispatch: it never throws, it answers ok or not ok.  Not ok may    *)
(* follow a command that took effect and whose answers were lost.          *)
Answers == IF Registered THEN IF "proxyError" \in Fault THEN BOOLEAN ELSE {TRUE}
           ELSE {FALSE}

Dispatch(effect, ok) ==
    pane' \in IF ok THEN {effect} ELSE IF Registered THEN {pane, effect} ELSE {pane}

Running == pane \in Session

(* A launch command starts the CLI from a shell; a CLI that is there reads *)
(* it as input, and without a session the paste fails.                     *)
Launched(s) == IF pane = "shell" THEN s ELSE pane

-----------------------------------------------------------------------------
(* Three-phase operations: phase 1                                         *)

Claimed(k) == CASE k \in {"spawn", "recover"} -> "spawning"
                [] k = "resume" -> "resuming"
                [] OTHER -> "suspending"

(* canSuspend, canResume and the checks of spawn and recover.              *)
OverlappingFrom(k) == CASE k = "spawn" -> {"void", "failed"}      \* mutant
                        [] k = "recover" -> {"failed", "spawning"}
                        [] k = "resume" -> {"suspended", "failed"}
                        [] OTHER -> {"active", "idle"}
From(k) == CASE k = "spawn" -> {"void", "failed"}
             [] k = "recover" -> {"failed"}
             [] k = "resume" -> {"suspended", "failed"}
             [] OTHER -> {"active", "idle"}

FirstStep(k) == CASE k = "spawn" -> "clean"
                  [] k = "recover" -> "kill"
                  [] k = "resume" -> "probe"
                  [] OTHER -> "exit"

(* resume and reload continue the conversation on record if there is one.  *)
Recorded(o, k) == IF k \in {"resume", "reload"} THEN sid ELSE o    \* mutant
Continued(o, k) == IF k \in {"resume", "reload"} /\ sid # None THEN sid ELSE o

Claim(o, k) ==
    /\ pc[o] = "new" /\ lock = None
    /\ state \in From(k)
    /\ k # "spawn" => Registered
    /\ Write(Claimed(k), {o})
    /\ tmux' = (tmux \/ k = "spawn")
    /\ kind' = [kind EXCEPT ![o] = k]
    /\ pc' = [pc EXCEPT ![o] = FirstStep(k)]
    /\ lsid' = [lsid EXCEPT ![o] = Continued(o, k)]
    /\ wd' = [wd EXCEPT ![o] = "armed"]
    /\ UNCHANGED <<sid, captured, world>>

-----------------------------------------------------------------------------
(* Phase 2, no lock                                                        *)

Goto(o, l) == pc' = [pc EXCEPT ![o] = l]

(* resume reuses a session that survived the suspend.                      *)
Probe(o) ==
    /\ pc[o] = "probe"
    /\ \E ok \in Answers : Goto(o, IF ok /\ pane # "gone" THEN "launch" ELSE "clean")
    /\ KeepRow
    /\ UNCHANGED <<sid, captured, tmux, world, kind, lsid, wd>>

(* The exit hook: capture the session id of the CLI if the hook does that, *)
(* then tell the CLI to exit, which it may not do.  The capture writes the *)
(* row without the lock, in whatever state it is.                          *)
Capturing(ok) == Captures /\ ok /\ Running /\ state # "absent"

Exit(o) ==
    /\ pc[o] = "exit"
    /\ \E ok \in Answers :
          /\ IF Running THEN \E p \in {"shell", pane} : Dispatch(p, ok)
                        ELSE UNCHANGED pane
          /\ \/ /\ Capturing(ok)
                /\ captured' = pane /\ sid' = pane
                /\ Write(state, {o})
             \/ /\ Capturing(ok) => "captureMiss" \in Fault
                /\ KeepRow /\ UNCHANGED <<captured, sid>>
    /\ Goto(o, IF kind[o] = "suspend" THEN "final" ELSE "kill")
    /\ UNCHANGED <<tmux, lock, proxy, kind, lsid, wd>>

(* reload and recover kill the old session, then createSessionAndWrite-    *)
(* Profile looks for a stale one and kills that.                           *)
KillOld(o) ==
    /\ pc[o] = "kill"
    /\ \E ok \in Answers : Dispatch("gone", ok)
    /\ Goto(o, "clean")
    /\ KeepRow
    /\ UNCHANGED <<sid, captured, tmux, lock, proxy, kind, lsid, wd>>

Clean(o) ==
    /\ pc[o] = "clean"
    /\ \E ok \in Answers : Dispatch("gone", ok)
    /\ Goto(o, "create")
    /\ KeepRow
    /\ UNCHANGED <<sid, captured, tmux, lock, proxy, kind, lsid, wd>>

(* tmux new-session fails on a name that exists.  reload and recover       *)
(* ignore the answer.  After it, reload reads which session it continues.  *)
Create(o) ==
    /\ pc[o] = "create"
    /\ \E ok \in Answers :
          /\ IF pane = "gone" THEN Dispatch("shell", ok) ELSE UNCHANGED pane
          /\ Goto(o, IF (ok /\ pane = "gone") \/ kind[o] \in {"reload", "recover"}
                     THEN "launch" ELSE "createFailed")
    /\ lsid' = IF kind[o] = "reload" /\ captured # None /\ state # "absent"
               THEN [lsid EXCEPT ![o] = captured] ELSE lsid
    /\ KeepRow
    /\ UNCHANGED <<sid, captured, tmux, lock, proxy, kind, wd>>

(* The launch command, /rename and a task are pasted, answers ignored.     *)
Launch(o) ==
    /\ pc[o] = "launch"
    /\ \E ok \in Answers : Dispatch(Launched(lsid[o]), ok)
    /\ Goto(o, "final")
    /\ KeepRow
    /\ UNCHANGED <<sid, captured, tmux, lock, proxy, kind, lsid, wd>>

-----------------------------------------------------------------------------
(* Phase 3, and the other ends of a three-phase operation                  *)

(* The finally: clearTimeout stops a timer that has not fired.             *)
Disarm(o) == wd' = IF wd[o] = "armed" THEN [wd EXCEPT ![o] = "off"] ELSE wd

End(o, l) == /\ Goto(o, l)
             /\ Disarm(o)
             /\ UNCHANGED <<kind, lsid>>

AnyClaim(o) == state # "absent"                                   \* mutant
HasClaim(o) == state = Claimed(kind[o])

FinalizeSuspend(o) ==
    /\ HasClaim(o)
    /\ Write("suspended", {o})
    /\ UNCHANGED <<sid, tmux>>

ForgetSession(o) ==                                               \* mutant
    /\ HasClaim(o)
    /\ Write("active", {o})
    /\ sid' = sid
    /\ tmux' = (tmux \/ kind[o] # "spawn")
NewSession(o) ==                                                  \* mutant
    /\ HasClaim(o)
    /\ Write("active", {o})
    /\ sid' = o
    /\ tmux' = (tmux \/ kind[o] # "spawn")
(* spawn has put the session's name on record in phase 1.                  *)
FinalizeToActive(o) ==
    /\ HasClaim(o)
    /\ Write("active", {o})
    /\ sid' = lsid[o]
    /\ tmux' = (tmux \/ kind[o] # "spawn")

Final(o) ==
    /\ pc[o] = "final" /\ lock = None
    /\ \/ kind[o] = "suspend" /\ FinalizeSuspend(o)
       \/ kind[o] # "suspend" /\ FinalizeToActive(o)
       \/ ~HasClaim(o) /\ KeepRow /\ UNCHANGED <<sid, tmux>>
    /\ End(o, "done")
    /\ UNCHANGED <<captured, world>>

Unmarked(o) ==                                                    \* mutant
    /\ pc[o] = "createFailed" /\ lock = None
    /\ KeepRow
    /\ End(o, "done")
    /\ UNCHANGED <<sid, captured, tmux, world>>
MarkCreateFailed(o) ==
    /\ pc[o] = "createFailed" /\ lock = None
    /\ IF HasClaim(o) THEN Write("failed", {o}) ELSE KeepRow
    /\ End(o, "done")
    /\ UNCHANGED <<sid, captured, tmux, world>>

(* A hook file that is missing, an engine without adapter, an account that *)
(* cannot be copied, or a lock() that times out before phase 3.            *)
Throw(o) ==
    /\ "throw" \in Fault
    /\ pc[o] \in PhaseTwo
    /\ End(o, "threw")
    /\ KeepRow
    /\ UNCHANGED <<sid, captured, tmux, world>>

-----------------------------------------------------------------------------
(* startWatchdog                                                           *)

Fire(o) ==
    /\ wd[o] = "armed"
    /\ wd' = [wd EXCEPT ![o] = "fired"]
    /\ UNCHANGED <<row, world, kind, pc, lsid, evicted>>

CheckUnlocked(o) ==                                               \* mutant
    /\ wd[o] = "fired" /\ lock = None
    /\ IF HasClaim(o)
       THEN /\ Write("failed", {})
            /\ wd' = [wd EXCEPT ![o] = "killing"]
       ELSE /\ KeepRow
            /\ wd' = [wd EXCEPT ![o] = "off"]
    /\ UNCHANGED <<sid, captured, tmux, lock, pane, proxy, kind, pc, lsid>>
CheckOnce(o) ==                                                   \* mutant
    /\ wd[o] = "fired"
    /\ IF HasClaim(o) /\ lock = None
       THEN /\ Write("failed", {})
            /\ lock' = o
            /\ wd' = [wd EXCEPT ![o] = "killing"]
       ELSE /\ KeepRow
            /\ UNCHANGED lock
            /\ wd' = [wd EXCEPT ![o] = "off"]
    /\ UNCHANGED <<sid, captured, tmux, pane, proxy, kind, pc, lsid>>
WatchdogCheck(o) ==
    /\ wd[o] = "fired" /\ lock = None
    /\ IF HasClaim(o)
       THEN /\ Write("failed", {})
            /\ lock' = o
            /\ wd' = [wd EXCEPT ![o] = "killing"]
       ELSE /\ KeepRow
            /\ UNCHANGED lock
            /\ wd' = [wd EXCEPT ![o] = "off"]
    /\ UNCHANGED <<sid, captured, tmux, pane, proxy, kind, pc, lsid>>

WatchdogKill(o) ==
    /\ wd[o] = "killing"
    /\ \E ok \in Answers : Dispatch("gone", ok)
    /\ wd' = [wd EXCEPT ![o] = "off"]
    /\ Unlock(o)
    /\ UNCHANGED <<row, proxy, kind, pc, lsid, evicted>>

(* Its lock() too may time out, and the exception is only logged.          *)
WatchdogThrow(o) ==
    /\ "throw" \in Fault
    /\ wd[o] = "fired" /\ lock # None
    /\ wd' = [wd EXCEPT ![o] = "off"]
    /\ UNCHANGED <<row, world, kind, pc, lsid, evicted>>

-----------------------------------------------------------------------------
(* Operations that hold the lock throughout: kill, destroy, compact, and   *)
(* interrupt, deliver, custom buttons and indicator actions ("paste")      *)

Hold(o, k) ==
    /\ pc[o] = "new" /\ lock = None
    /\ state # "absent"
    /\ k # "destroy" => Registered
    /\ lock' = o
    /\ current' = current \cup {o}
    /\ kind' = [kind EXCEPT ![o] = k]
    /\ Goto(o, IF k = "destroy" /\ ~tmux THEN "write" ELSE "held")
    /\ UNCHANGED <<state, sid, captured, tmux, pane, proxy, lsid, wd, evicted>>

KillSession(o) ==
    /\ pc[o] = "held" /\ kind[o] \in {"kill", "destroy"}
    /\ \E ok \in Answers : Dispatch("gone", ok)
    /\ Goto(o, "write")
    /\ UNCHANGED <<row, lock, proxy, kind, lsid, wd, evicted>>

PasteKeys(o) ==
    /\ pc[o] = "held" /\ kind[o] \in {"compact", "paste"}
    /\ Goto(o, "write")
    /\ UNCHANGED <<row, world, kind, lsid, wd, evicted>>

(* The write uses the version read under the lock and throws if somebody   *)
(* without the lock has moved it on.  destroy deletes without a check.     *)
Finish(o) ==
    /\ pc[o] = "write"
    /\ \/ /\ kind[o] = "kill" /\ o \in current
          /\ Write("suspended", {})
          /\ sid' = None /\ tmux' = FALSE
          /\ UNCHANGED captured
       \/ /\ kind[o] = "destroy"
          /\ Write("absent", {})
          /\ sid' = None /\ tmux' = FALSE /\ captured' = None
       \/ /\ kind[o] = "compact" /\ o \in current /\ state = "idle"
          /\ Write("active", {})
          /\ UNCHANGED <<sid, tmux, captured>>
       \/ /\ \/ kind[o] = "kill" /\ o \notin current
             \/ kind[o] = "compact" /\ ~(o \in current /\ state = "idle")
             \/ kind[o] = "paste"
          /\ current' = current \ {o}
          /\ UNCHANGED <<state, evicted, sid, tmux, captured>>
    /\ Unlock(o)
    /\ Goto(o, "done")
    /\ UNCHANGED <<pane, proxy, kind, lsid, wd>>

-----------------------------------------------------------------------------
(* Writers without the lock, and the world                                 *)

Quiet == UNCHANGED <<sid, captured, tmux, calls>>

(* createAgent, for a name that a destroy has freed.                       *)
CreateAgent == /\ state = "absent"
               /\ Write("void", {})
               /\ Quiet /\ UNCHANGED world

(* Health monitor: activity detection, and the lastActivity of every poll. *)
MonitorActivity == /\ "monitor" \in Fault
                   /\ \/ state = "active" /\ Write("idle", {})
                      \/ state = "idle" /\ Write("active", {})
                      \/ state \in {"active", "idle"} /\ current # {} /\ Write(state, {})
                   /\ Quiet /\ UNCHANGED world

(* Captures fail, or show a shell prompt, in a row.                        *)
MonitorFail == /\ "monitor" \in Fault
               /\ state \in {"active", "idle"}
               /\ ~Running \/ ~Registered
               /\ Write("failed", {})
               /\ Quiet /\ UNCHANGED world

MonitorHeal == /\ "monitor" \in Fault
               /\ state = "failed" /\ tmux
               /\ Running /\ Registered
               /\ Write("active", {})
               /\ Quiet /\ UNCHANGED world

CliExit == /\ "cliExit" \in Fault
           /\ Running
           /\ pane' = "shell"
           /\ UNCHANGED <<row, lock, proxy, calls, evicted>>

(* A lease that runs out while its owner works on.                         *)
Lapse == /\ "lapse" \in Fault
         /\ lock # None
         /\ lock' = None
         /\ UNCHANGED <<row, pane, proxy, calls, evicted>>

(* Three heartbeats missed: isRunning decides which agents are failed.     *)
RemoveProxy ==
    /\ "proxyLoss" \in Fault
    /\ Registered
    /\ proxy' = "gone"
    /\ IF state \in {"active", "idle", "spawning", "resuming"}
       THEN Write("failed", {}) ELSE KeepRow
    /\ Quiet /\ UNCHANGED <<lock, pane>>

(* The route that unregisters a proxy leaves the agents as they are.       *)
UnregisterProxy ==
    /\ "proxyLoss" \in Fault
    /\ Registered
    /\ proxy' = "gone"
    /\ KeepRow /\ Quiet /\ UNCHANGED <<lock, pane>>

(* Registration, also of a proxy that is there, runs recoverFailedAgents:  *)
(* it asks for the session, reads the row again and makes a failed agent   *)
(* active.                                                                 *)
RegisterProxy ==
    /\ "proxyLoss" \in Fault
    /\ proxy \in {"gone", "up"}
    /\ proxy' = "joined"
    /\ KeepRow /\ Quiet /\ UNCHANGED <<lock, pane>>

ProbeSession ==
    /\ proxy = "joined"
    /\ proxy' = IF state = "failed" /\ pane # "gone" THEN "alive" ELSE "up"
    /\ KeepRow /\ Quiet /\ UNCHANGED <<lock, pane>>

SelfHeal ==
    /\ proxy = "alive"
    /\ proxy' = "up"
    /\ IF state = "failed" THEN Write("active", {}) ELSE KeepRow
    /\ Quiet /\ UNCHANGED <<lock, pane>>

-----------------------------------------------------------------------------
Start(o) == \/ \E k \in Kinds \cap Claiming : Claim(o, k)
            \/ \E k \in Kinds \cap Locking : Hold(o, k)
Work(o) == \/ Probe(o) \/ Exit(o) \/ KillOld(o) \/ Clean(o) \/ Create(o) \/ Launch(o)
           \/ Final(o) \/ MarkCreateFailed(o) \/ Throw(o) \/ WatchdogThrow(o)
Watchdog(o) == Fire(o) \/ WatchdogCheck(o) \/ WatchdogKill(o)
Locked(o) == KillSession(o) \/ PasteKeys(o) \/ Finish(o)
Monitor == MonitorActivity \/ MonitorFail \/ MonitorHeal
Environment == \/ CreateAgent \/ CliExit \/ Lapse
               \/ RemoveProxy \/ UnregisterProxy \/ RegisterProxy \/ ProbeSession \/ SelfHeal

Next == \/ \E o \in Op : Start(o) \/ Work(o) \/ Watchdog(o) \/ Locked(o)
        \/ Monitor
        \/ Environment

Spec == Init /\ [][Next]_vars

(* Timers fire, lock() polls, and a locked section ends because every      *)
(* proxy command does.  Nothing obliges the work of phase 2 to go on.      *)
FairSpec == /\ Spec
            /\ \A o \in Op : WF_vars(Watchdog(o)) /\ WF_vars(Locked(o))

-----------------------------------------------------------------------------
(* Properties                                                              *)

(* Two calls work on the agent in phase 2 at the same time only when one   *)
(* of them has lost its claim to a watchdog, a kill or a proxy clean-up.   *)
OneClaim ==
    \A o, p \in Working : o # p => o \in evicted \/ p \in evicted

(* An intermediate state is never an orphan: a call that claims it is      *)
(* still in phase 2, or its exception is what left it behind.              *)
ClaimIsOwned ==
    state \in Transitional =>
        \E o \in Op : Claimed(kind[o]) = state /\ pc[o] \in PhaseTwo \cup {"threw"}

(* While a watchdog kills the session of the operation it has failed, the  *)
(* agent stays failed: no new operation has put another session in place.  *)
FailedWhileKilling ==
    \A o \in Op : wd[o] = "killing" => state = "failed"

(* As long as no call has lost its claim, an active or idle agent runs the *)
(* conversation its row names: that is the id the next resume will use.    *)
ActiveRunsItsSession ==
    evicted = {} /\ state \in {"active", "idle"} /\ lock = None => pane = sid

(* A suspended agent is left alone by late finalizers, watchdogs and heal  *)
(* checks: only a resume or a destroy ends the suspension.                 *)
SuspendedUntilResumed ==
    [][state = "suspended" => state' \in {"suspended", "resuming", "absent"}]_vars

(* A reload that keeps its claim continues the conversation on record.     *)
ReloadKeepsConversation ==
    [][\A o \in Op :
         /\ pc[o] = "final" /\ kind[o] = "reload" /\ evicted = {}
         /\ state # "active" /\ state' = "active"
         => sid' = sid]_<<state, sid>>

(* Liveness: no intermediate state lasts, even if the call that made it    *)
(* never takes another step.  The watchdog ends it.                        *)
ClaimsEnd == state \in Transitional ~> state \notin Transitional

(* lifecycle.ts:12: "Intermediate states [...] act as claims - concurrent  *)
(* callers see the agent is in transition and back off": a call finalizes  *)
(* the claim that it made itself.                                          *)
FinalizesOwnClaim ==
    [][\A o \in Op :
         /\ pc[o] = "final" /\ pc'[o] = "done" /\ state' # state
         => o \notin evicted]_<<pc, state>>

(* lifecycle.ts:1373, of killAgent: "force-stop tmux session, mark as      *)
(* suspended": no CLI runs for an agent that a kill has suspended, which   *)
(* is the only way to be suspended without a tmux session on record.       *)
KilledStaysDown == state = "suspended" /\ ~tmux => ~Running
=============================================================================

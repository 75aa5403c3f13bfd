--------------------------- MODULE HealthMonitor ---------------------------
(***************************************************************************)
(* src/src/orchestrator/health-monitor.ts, for one agent: its maps are     *)
(* keyed by the agent's name.  A poll asks the proxy for the time of the   *)
(* last output, then for the pane, and judges what it gets: idle or        *)
(* active, exited, healed, unreachable.  Polls of the two intervals and    *)
(* the one-shot polls overlap at these two awaits, with each other and     *)
(* with the lifecycle operations, which here are only a state "busy" that  *)
(* ends (Lifecycle has what they do).                                      *)
(*                                                                         *)
(* A screen is what a judgement tells apart: output that matches an active *)
(* pattern ("work"), a prompt that matches an idle pattern ("asking"), the *)
(* prompt of a bare shell or an exit message ("shell").  Screens are       *)
(* numbered by the output that made them: equal texts are equal numbers.   *)
(* Indicator badges are left out: they change nothing but what is shown.   *)
(***************************************************************************)
EXTENDS Integers, Sequences

CONSTANTS Poll,        \* the polls that can be under way, one per caller
          Kind,        \* Kind[p]: "all" (pollAll), "fast" (pollActiveAgents),
                       \* "quick" (scheduleQuickPoll)
          Patterns,    \* has the engine a detection config?
          AutoRecover, \* is its autoRecover set?
          Grace,       \* ticks of ACTIVE_GRACE_MS
          HealGrace,   \* ticks without exit detection after a heal
          Fault,       \* "noAnswer": a command to a live session may fail;
                       \* "proxyLoss": an operation may find its proxy gone
          MaxScreen,   \* bound on outputs
          MaxOp        \* bound on lifecycle operations

ASSUME HealthMonitorAssumption ==
    /\ {"none", "reload", "other"} \cap Poll = {}   \* what op can be besides
    /\ Kind \in [Poll -> {"all", "fast", "quick"}]
    /\ Patterns \in BOOLEAN /\ AutoRecover \in BOOLEAN
    /\ Grace \in Nat /\ HealGrace \in Nat
    /\ Fault \subseteq {"noAnswer", "proxyLoss"}
    /\ MaxScreen \in Nat \ {0} /\ MaxOp \in Nat

VARIABLES state,      \* agents.state; "busy" is any intermediate state, "down"
                      \* void or suspended
          queued,     \* agents.reload_queued
          fresh,      \* the polls whose copy of agents.version is current
          screens,    \* what the pane has shown, the last one is there now
          alive,      \* does the tmux session exist?
          mem,        \* the monitor's maps, see Memory
          pc,         \* pc[p]: what poll p waits for
          seen,       \* seen[p]: the state in the record p works with
          sent,       \* sent[p]: the screen when p sent its command
          op,         \* what runs while busy: "reload" and "other" of a user,
                      \* or the reload of a poll
          recovering, \* a recoverAgent that maybeAutoRecover has started
          ops         \* operations of users so far, for MaxOp

row == <<state, queued, fresh>>
session == <<screens, alive>>
polls == <<pc, seen, sent>>
users == <<op, ops>>
vars == <<row, session, mem, polls, users, recovering>>

None == -1
Other == 0     \* a text no capture is equal to
State == {"active", "idle", "busy", "failed", "down"}
Screen == {"work", "asking", "shell"}
Now == Len(screens)

Memory == [fails : 0 .. 3,               \* consecutiveFailures[name]
           shell : 0 .. 2,               \* consecutiveFailures["shell_" + name]
           heal : 0 .. 1,                \* consecutiveFailures["heal_" + name]
           failSnap : None .. MaxScreen, \* failureSnapshot
           ts : None .. MaxScreen,       \* lastActivityTs
           snap : None .. MaxScreen,     \* lastPaneSnapshot
           same : 0 .. 2,                \* unchangedCount, up to IDLE_THRESHOLD
           grace : 0 .. Grace,           \* left since lastActivityDetected
           healed : 0 .. HealGrace]      \* left since healedAt

TypeOK == /\ state \in State /\ queued \in BOOLEAN /\ fresh \subseteq Poll
          /\ screens \in Seq(Screen) /\ Now \in 1 .. MaxScreen
          /\ alive \in BOOLEAN
          /\ mem \in Memory
          /\ pc \in [Poll -> {"rest", "activity", "pane", "failedPane", "reload", "reloading"}]
          /\ seen \in [Poll -> State]
          /\ sent \in [Poll -> 0 .. MaxScreen]
          /\ op \in {"none", "reload", "other"} \cup Poll
          /\ recovering \in BOOLEAN
          /\ ops \in 0 .. MaxOp

(* After a start of the orchestrator the maps are empty.                   *)
Blank == [fails |-> 0, shell |-> 0, heal |-> 0, failSnap |-> None, ts |-> None,
          snap |-> None, same |-> 0, grace |-> 0, healed |-> 0]

Init == /\ state = "active"
        /\ screens = <<"work">>
        /\ alive = TRUE /\ queued = FALSE /\ fresh = {}
        /\ mem = Blank
        /\ pc = [p \in Poll |-> "rest"]
        /\ seen = [p \in Poll |-> "down"]
        /\ sent = [p \in Poll |-> 0]
        /\ op = "none" /\ recovering = FALSE /\ ops = 0

-----------------------------------------------------------------------------
(* Rows and answers                                                        *)

(* updateAgentState moves the version on: every copy of it is stale.       *)
Write(s) == state' = s /\ fresh' = {}
KeepRow == UNCHANGED <<state, fresh>>
KeepRowLeaving(p) == UNCHANGED state /\ fresh' = fresh \ {p}

CanSuspend(s) == s \in {"active", "idle"}

Await(p, l) == /\ pc' = [pc EXCEPT ![p] = l]
               /\ sent' = [sent EXCEPT ![p] = Now]

(* p is through with its record, be it at rest or waiting for a reload.    *)
Leave(p, l) == /\ pc' = [pc EXCEPT ![p] = l]
               /\ sent' = [sent EXCEPT ![p] = 0]
               /\ seen' = [seen EXCEPT ![p] = "down"]

(* An answer tells of some moment between the command and its return.      *)
Answers(p) == IF alive THEN sent[p] .. Now ELSE {}
NoAnswer == ~alive \/ "noAnswer" \in Fault

-----------------------------------------------------------------------------
(* Idle or active                                                          *)

AlwaysGrace(m, i) ==                                              \* mutant
    [m EXCEPT !.snap = i, !.same = IF @ = 2 THEN 2 ELSE @ + 1, !.grace = Grace]
(* checkScreenDiff: active patterns, idle patterns, then the difference to *)
(* the last snapshot.                                                      *)
CheckScreenDiff(m, i) ==
    LET active == Patterns /\ screens[i] = "work"
        still == ~active /\ (m.snap = i \/ (Patterns /\ screens[i] = "asking"))
    IN [m EXCEPT !.snap = i,
                 !.same = IF ~still THEN 0 ELSE IF @ = 2 THEN 2 ELSE @ + 1,
                 !.grace = IF active \/ (~still /\ m.snap # None) THEN Grace ELSE @]

IsIdle(m) == m.same = 2

BySnapshot(s, isIdle, m) ==                                       \* mutant
    IF isIdle /\ s = "active" /\ m.grace = 0 THEN "idle"
    ELSE IF ~isIdle /\ s = "idle" THEN "active" ELSE state
(* handleIdleTransitions: s is the state in the poll's record, and the row *)
(* must still have it.                                                     *)
IdleTransition(s, isIdle, m) ==
    IF s # state THEN state
    ELSE IF isIdle /\ s = "active" /\ m.grace = 0 THEN "idle"
    ELSE IF ~isIdle /\ s = "idle" THEN "active" ELSE state

-----------------------------------------------------------------------------
(* A poll begins                                                           *)

ListedState(p) == IF Kind[p] = "fast" THEN {"active"} ELSE {"active", "idle"}

(* fast polls work with the record of the list, the others read the row    *)
(* again: either way the copy is current when the poll begins.             *)
Begin(p) ==
    /\ pc[p] = "rest"
    /\ \/ /\ state \in ListedState(p)
          /\ Await(p, "activity")
       \/ /\ Kind[p] = "all" /\ state = "failed"
          /\ Await(p, "failedPane")
    /\ seen' = [seen EXCEPT ![p] = state]
    /\ fresh' = fresh \cup {p}
    /\ UNCHANGED <<state, queued, session, mem, users, recovering>>

(* pane_activity: without patterns, an agent without output is idle and    *)
(* the poll ends.  With patterns its time is recorded and never used.      *)
OnActivity(p) ==
    /\ pc[p] = "activity"
    /\ \/ /\ NoAnswer
          /\ Await(p, "pane") /\ KeepRow /\ UNCHANGED <<mem, seen>>
       \/ \E i \in Answers(p) :
             /\ mem' = [mem EXCEPT !.ts = IF Patterns THEN None ELSE i]
             /\ IF mem.ts = i /\ ~Patterns
                THEN /\ state' = IdleTransition(seen[p], TRUE, mem)
                     /\ fresh' = IF state' = state THEN fresh \ {p} ELSE {}
                     /\ Leave(p, "rest")
                ELSE Await(p, "pane") /\ KeepRow /\ UNCHANGED seen
    /\ UNCHANGED <<queued, session, users, recovering>>

-----------------------------------------------------------------------------
(* The pane of an active or idle agent                                     *)

FailAnyway(p, m, after) == mem' = after /\ Write("failed")        \* mutant
(* The write has the version of the poll's record: if that is stale it     *)
(* throws, the poll ends there and what follows is not done.               *)
Fail(p, m, after) ==
    IF p \in fresh THEN mem' = after /\ Write("failed") ELSE mem' = m /\ KeepRowLeaving(p)

(* capturePaneOutput: the third failure in a row fails the agent.  The     *)
(* snapshot it keeps is stripped and shorter, so no capture will equal it. *)
OnNoPane(p) ==
    /\ pc[p] = "pane" /\ NoAnswer
    /\ IF mem.fails < 2
       THEN mem' = [mem EXCEPT !.fails = @ + 1] /\ KeepRowLeaving(p)
       ELSE Fail(p, [mem EXCEPT !.fails = 3, !.failSnap = Other],
                    [mem EXCEPT !.fails = 0, !.failSnap = Other])
    /\ Leave(p, "rest")
    /\ UNCHANGED <<queued, session, users, recovering>>

(* cleanupAgent: the failure snapshot and the grace period stay.           *)
Cleanup(m) == [Blank EXCEPT !.failSnap = m.failSnap, !.grace = m.grace]

NewExit(i) == mem.healed = 0 /\ screens[i] = "shell" /\ mem.snap # i \* mutant
(* detectCliExit: exit signs are ignored after a heal; two in a row fail   *)
(* the agent.                                                              *)
ExitSigns(i) == mem.healed = 0 /\ screens[i] = "shell"

OnCliExit(p, i) ==
    /\ LET m == [mem EXCEPT !.fails = 0, !.shell = 2, !.failSnap = i]
       IN Fail(p, m, Cleanup(m))
    /\ recovering' = (recovering \/ (AutoRecover /\ p \in fresh))
    /\ Leave(p, "rest")

ReloadAtTransition(p, m) ==                                       \* mutant
    Kind[p] # "fast" /\ IsIdle(m) /\ queued /\ seen[p] = "active"
(* handleQueuedReload, by a poll that is not fast.                         *)
Reloads(p, m) == Kind[p] # "fast" /\ IsIdle(m) /\ queued

(* A full or quick poll without a reload ends with a write of              *)
(* lastActivity; with one, the context percentage may have been written.   *)
OnScreen(p, i) ==
    LET exits == IF Kind[p] = "fast" THEN mem.shell ELSE IF ExitSigns(i) THEN 1 ELSE 0
        m == CheckScreenDiff([mem EXCEPT !.fails = 0, !.shell = exits], i)
    IN /\ mem' = m
       /\ state' = IdleTransition(seen[p], IsIdle(m), m)
       /\ \E context \in BOOLEAN :
             fresh' = IF state' # state \/ (Kind[p] # "fast" /\ (context \/ ~Reloads(p, m)))
                      THEN {} ELSE fresh \ {p}
       /\ Leave(p, IF Reloads(p, m) THEN "reload" ELSE "rest")
       /\ UNCHANGED recovering

OnPane(p) ==
    /\ pc[p] = "pane"
    /\ \E i \in Answers(p) :
          IF Kind[p] # "fast" /\ ExitSigns(i) /\ mem.shell >= 1
          THEN OnCliExit(p, i) ELSE OnScreen(p, i)
    /\ UNCHANGED <<queued, session, users>>

-----------------------------------------------------------------------------
(* The pane of a failed agent                                              *)

(* detectCliHealed: what it remembers after a capture that does not heal.  *)
Unhealed(i) ==
    IF screens[i] = "shell" THEN [mem EXCEPT !.heal = 0]
    ELSE IF mem.failSnap = None THEN [mem EXCEPT !.heal = 0, !.failSnap = i]
    ELSE IF mem.failSnap = i THEN [mem EXCEPT !.heal = 0]
    ELSE [mem EXCEPT !.heal = 1]

Revived(i) == screens[i] # "shell" /\ mem.failSnap \notin {None, i}

(* The second sight of a living CLI heals the agent.  The maps are changed *)
(* before the write, which throws if the version is stale.                 *)
OnFailedPane(p) ==
    /\ pc[p] = "failedPane"
    /\ \/ NoAnswer /\ KeepRowLeaving(p) /\ UNCHANGED mem
       \/ \E i \in Answers(p) :
             IF Revived(i) /\ mem.heal = 1
             THEN /\ mem' = [mem EXCEPT !.heal = 0, !.failSnap = None, !.healed = HealGrace]
                  /\ IF p \in fresh THEN Write("active") ELSE KeepRowLeaving(p)
             ELSE mem' = Unhealed(i) /\ KeepRowLeaving(p)
    /\ Leave(p, "rest")
    /\ UNCHANGED <<queued, session, users, recovering>>

-----------------------------------------------------------------------------
(* Operations the monitor starts                                           *)

(* The last write of a poll: the row as it is, with a new lastActivity.    *)
Touch(p) == Write(state) /\ Leave(p, "rest")

(* reloadAgent claims the agent, or throws: the agent has left these       *)
(* states, or its proxy is gone, which fails it.                           *)
ClaimReload(p) ==
    /\ pc[p] = "reload"
    /\ \/ CanSuspend(state) /\ Write("busy") /\ op' = p /\ Leave(p, "reloading")
       \/ ~CanSuspend(state) /\ Touch(p) /\ UNCHANGED op
       \/ /\ CanSuspend(state) /\ "proxyLoss" \in Fault
          /\ Write("failed") /\ Leave(p, "rest") /\ UNCHANGED op
    /\ UNCHANGED <<queued, session, mem, ops, recovering>>

ReloadReturns(p) ==
    /\ pc[p] = "reloading" /\ op # p
    /\ Touch(p)
    /\ UNCHANGED <<queued, session, mem, users, recovering>>

(* recoverAgent claims a failed agent; otherwise it throws.                *)
Recover ==
    /\ recovering
    /\ recovering' = FALSE
    /\ IF state = "failed" THEN Write("busy") /\ op' = "other" ELSE KeepRow /\ UNCHANGED op
    /\ UNCHANGED <<queued, session, mem, polls, ops>>

-----------------------------------------------------------------------------
(* What happens around the monitor                                         *)

Output(k) ==
    /\ alive /\ Now < MaxScreen
    /\ screens[Now] = "shell" => k # "shell"
    /\ screens' = Append(screens, k)
    /\ UNCHANGED <<row, alive, mem, polls, users, recovering>>

SessionDies ==
    /\ alive /\ alive' = FALSE
    /\ UNCHANGED <<row, screens, mem, polls, users, recovering>>

QueueReload ==
    /\ CanSuspend(state) /\ ops < MaxOp
    /\ queued' = TRUE /\ Write(state) /\ ops' = ops + 1
    /\ UNCHANGED <<session, mem, polls, op, recovering>>

StartOp ==
    /\ state # "busy" /\ ops < MaxOp
    /\ op' \in IF CanSuspend(state) THEN {"reload", "other"} ELSE {"other"}
    /\ Write("busy") /\ ops' = ops + 1
    /\ UNCHANGED <<queued, session, mem, polls, recovering>>

(* It ends with a CLI that starts or has started, a suspended agent, or a  *)
(* failure.  A reload that ends well is no longer queued.                  *)
EndOp ==
    /\ state = "busy" /\ op' = "none"
    /\ \/ /\ Now < MaxScreen
          /\ \E k \in {"shell", "work"} : screens' = Append(screens, k)
          /\ alive' = TRUE /\ Write("active")
          /\ queued' = (queued /\ op = "other")
       \/ /\ op = "other" /\ Write("down")
          /\ alive' \in {FALSE, alive} /\ UNCHANGED <<queued, screens>>
       \/ /\ Write("failed")
          /\ alive' \in {FALSE, alive} /\ UNCHANGED <<queued, screens>>
    /\ UNCHANGED <<mem, polls, ops, recovering>>

Kill ==
    /\ ops < MaxOp /\ ops' = ops + 1
    /\ Write("down") /\ alive' = FALSE /\ op' = "none"
    /\ UNCHANGED <<queued, screens, mem, polls, recovering>>

Tick ==
    /\ mem.grace + mem.healed > 0
    /\ mem' = [mem EXCEPT !.grace = IF @ = 0 THEN 0 ELSE @ - 1,
                          !.healed = IF @ = 0 THEN 0 ELSE @ - 1]
    /\ UNCHANGED <<row, session, polls, users, recovering>>

-----------------------------------------------------------------------------
Handle(p) == \/ OnActivity(p) \/ OnNoPane(p) \/ OnPane(p) \/ OnFailedPane(p)
             \/ ClaimReload(p) \/ ReloadReturns(p)
Operations == QueueReload \/ StartOp \/ EndOp \/ Kill
Next == \/ \E p \in Poll : Begin(p) \/ Handle(p)
        \/ Recover
        \/ \E k \in Screen : Output(k)
        \/ SessionDies
        \/ Operations
        \/ Tick

Spec == Init /\ [][Next]_vars

(* Intervals fire, a command is answered or times out, lock() polls, an    *)
(* operation ends by itself or by its watchdog, and the clock runs.        *)
FairSpec == /\ Spec
            /\ \A p \in Poll : Kind[p] # "quick" => WF_vars(Begin(p))
            /\ \A p \in Poll : WF_vars(Handle(p))
            /\ WF_vars(Recover) /\ WF_vars(EndOp) /\ WF_vars(Tick)

-----------------------------------------------------------------------------
(* Properties                                                              *)

(* Whatever a poll saw, it does not touch an agent that an operation works *)
(* on or that was stopped meanwhile: only operations end these states.     *)
PollsKeepOut ==
    [][(state \in {"busy", "down"} /\ state' # state) => users' # users]_vars

(* README.md:564: an agent whose CLI has dropped back to a shell does not  *)
(* stay active or idle.                                                    *)
ExitNoticed == ~<>[](CanSuspend(state) /\ screens[Now] = "shell")

(* README.md:566: a reload that is queued runs once the agent waits at its *)
(* prompt.                                                                 *)
QueuedReloadRuns == ~<>[](queued /\ CanSuspend(state) /\ screens[Now] = "asking")

(* An agent that waits at its prompt does not stay active.                 *)
QuietBecomesIdle == ~<>[](state = "active" /\ screens[Now] = "asking")
=============================================================================

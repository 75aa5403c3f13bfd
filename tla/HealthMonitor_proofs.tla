------------------------ MODULE HealthMonitor_proofs ------------------------
(***************************************************************************)
(* Proofs about HealthMonitor, for any number of overlapping polls of any  *)
(* kind, with and without patterns, and every set of faults.               *)
(***************************************************************************)
EXTENDS HealthMonitor, TLAPS

(* A poll between its first await and its verdict has in its record a      *)
(* state of the agent that polls of this kind are for.                     *)
WatchesAState ==
    \A p \in Poll : /\ pc[p] \in {"activity", "pane"} => seen[p] \in {"active", "idle"}
                    /\ pc[p] = "failedPane" => seen[p] = "failed"

(* The version guards the state: while a poll's copy of the version is     *)
(* current, so is the state beside it.                                     *)
FreshIsCurrent ==
    \A p \in fresh : pc[p] \in {"activity", "pane", "failedPane"} => seen[p] = state

(* An agent is only busy while somebody works on it.                       *)
BusyHasAnOperation == state = "busy" => op # "none"

IInv == TypeOK /\ WatchesAState /\ FreshIsCurrent /\ BusyHasAnOperation

-----------------------------------------------------------------------------
(* What a step of a poll does to the row: it may leave the state, change   *)
(* one its record agrees with, or, at the end, claim a reload or fail an   *)
(* agent without a proxy.                                                  *)
Judges(p) == \/ state' = state
             \/ state = seen[p] /\ {state, state'} \subseteq {"active", "idle", "failed"}
             \/ CanSuspend(state) /\ state' = "busy" /\ op' = p
             \/ CanSuspend(state) /\ state' = "failed"

(* An answer is the number of an output that has been, or of none.         *)
LEMMA AnswersType == ASSUME TypeOK, NEW p \in Poll, NEW i \in Answers(p)
                     PROVE  i \in 0 .. MaxScreen
  BY HealthMonitorAssumption DEF TypeOK, Answers, Now

(* The monitor's verdict on a transition is the state as it is, or, if the *)
(* record still agrees with it, one of active and idle.                    *)
LEMMA IdleTransitionEffect ==
    ASSUME NEW s, NEW isIdle, NEW m
    PROVE  \/ IdleTransition(s, isIdle, m) = state
           \/ s = state /\ IdleTransition(s, isIdle, m) \in {"active", "idle"}
  BY DEF IdleTransition

(* Values the maps may have.                                               *)
LEMMA Ranges ==
    /\ {0, 1} \subseteq 0 .. 1 /\ {0, 1, 2} \subseteq 0 .. 2 /\ {0, 3} \subseteq 0 .. 3
    /\ {None, Other} \subseteq None .. MaxScreen
    /\ \A i \in 0 .. MaxScreen : i \in None .. MaxScreen
    /\ \A n \in 0 .. 3 : n < 2 => n + 1 \in 0 .. 3
    /\ 0 \in 0 .. Grace /\ {0, HealGrace} \subseteq 0 .. HealGrace
  BY HealthMonitorAssumption DEF None, Other

(* The memory after a capture that failed.                                 *)
LEMMA FailsType ==
    ASSUME NEW m \in Memory, NEW n \in 0 .. 3, NEW i \in None .. MaxScreen
    PROVE  /\ [m EXCEPT !.fails = n] \in Memory
           /\ [m EXCEPT !.fails = n, !.failSnap = i] \in Memory
  BY Zenon DEF Memory

(* The difference between two screens is a memory again.                   *)
LEMMA ScreenDiffType ==
    ASSUME NEW m \in Memory, NEW i \in 0 .. MaxScreen
    PROVE  CheckScreenDiff(m, i) \in Memory
  <1> DEFINE active == Patterns /\ screens[i] = "work"
             still == ~active /\ (m.snap = i \/ (Patterns /\ screens[i] = "asking"))
             same == IF ~still THEN 0 ELSE IF m.same = 2 THEN 2 ELSE m.same + 1
             grace == IF active \/ (~still /\ m.snap # None) THEN Grace ELSE m.grace
  <1>1. m.same \in 0 .. 2 /\ m.grace \in 0 .. Grace
    BY DEF Memory
  <1>2. same \in 0 .. 2 /\ grace \in 0 .. Grace /\ i \in None .. MaxScreen
    BY <1>1, HealthMonitorAssumption DEF None
  <1>3. CheckScreenDiff(m, i) = [m EXCEPT !.snap = i, !.same = same, !.grace = grace]
    BY DEF CheckScreenDiff
  <1> HIDE DEF same, grace
  <1> QED
    BY <1>2, <1>3, Zenon DEF Memory

(* So is what is left of it after a clean-up, and without a heal.          *)
LEMMA CleanupType == ASSUME NEW m \in Memory PROVE Cleanup(m) \in Memory
  <1>1. m.failSnap \in None .. MaxScreen /\ m.grace \in 0 .. Grace
    BY DEF Memory
  <1>2. Blank \in Memory
    BY HealthMonitorAssumption DEF Blank, Memory, None
  <1> QED
    BY <1>1, <1>2, Zenon DEF Cleanup, Memory

(* So is what is remembered of a screen that was not healed.               *)
LEMMA UnhealedType ==
    ASSUME mem \in Memory, NEW i \in 0 .. MaxScreen
    PROVE  Unhealed(i) \in Memory
  <1>1. i \in None .. MaxScreen /\ 0 \in 0 .. 1 /\ 1 \in 0 .. 1
    BY HealthMonitorAssumption DEF None
  <1> QED
    BY <1>1, Zenon DEF Unhealed, Memory

(* Nothing is under way at the start.                                      *)
LEMMA InitIInv == Init => IInv
  <1>1. Blank \in Memory
    BY HealthMonitorAssumption DEF Blank, Memory, None
  <1>2. <<"work">> \in Seq(Screen) /\ Len(<<"work">>) = 1
    BY DEF Screen
  <1>3. Init => WatchesAState /\ FreshIsCurrent /\ BusyHasAnOperation
    BY DEF Init, WatchesAState, FreshIsCurrent, BusyHasAnOperation
  <1>4. Init => /\ screens \in Seq(Screen) /\ Now \in 1 .. MaxScreen
                /\ mem \in Memory /\ ops \in 0 .. MaxOp
    BY <1>1, <1>2, HealthMonitorAssumption DEF Init, Now
  <1>5. Init => TypeOK
    <2> SUFFICES ASSUME Init PROVE TypeOK
      OBVIOUS
    <2>1. state \in State /\ queued \in BOOLEAN /\ fresh \subseteq Poll
      BY DEF Init, State
    <2>2. /\ pc \in [Poll -> {"rest", "activity", "pane", "failedPane", "reload", "reloading"}]
          /\ seen \in [Poll -> State] /\ sent \in [Poll -> 0 .. MaxScreen]
      BY HealthMonitorAssumption DEF Init, State
    <2> QED
      BY <1>4, <2>1, <2>2 DEF Init, TypeOK
  <1> QED
    BY <1>3, <1>5 DEF IInv

-----------------------------------------------------------------------------
(* The polls                                                               *)

(* Every step of a poll keeps the types, and changes the row only as       *)
(* Judges says.                                                            *)
LEMMA HandleType ==
    ASSUME TypeOK, NEW p \in Poll, Handle(p)
    PROVE  TypeOK'
  <1> USE HealthMonitorAssumption
      DEF TypeOK, Write, KeepRow, KeepRowLeaving, Leave, Await, users, session, State, Now
  <1>1. CASE OnActivity(p)
    <2>1. CASE NoAnswer /\ Await(p, "pane") /\ KeepRow /\ UNCHANGED <<mem, seen>>
      BY <1>1, <2>1 DEF OnActivity
    <2>2. CASE ~(NoAnswer /\ Await(p, "pane") /\ KeepRow /\ UNCHANGED <<mem, seen>>)
      <3>1. PICK i \in Answers(p) :
               /\ mem' = [mem EXCEPT !.ts = IF Patterns THEN None ELSE i]
               /\ \/ /\ state' = IdleTransition(seen[p], TRUE, mem)
                     /\ fresh' = IF state' = state THEN fresh \ {p} ELSE {}
                     /\ Leave(p, "rest")
                  \/ Await(p, "pane") /\ KeepRow /\ UNCHANGED seen
        BY <1>1, <2>2 DEF OnActivity
      <3>2. mem' \in Memory
        BY <3>1, AnswersType, Ranges, Zenon DEF Memory
      <3>3. state' \in State
        BY <3>1 DEF IdleTransition
      <3>4. seen' \in [Poll -> State] /\ fresh' \subseteq Poll
        BY <3>1
      <3>5. sent' \in [Poll -> 0 .. MaxScreen]
        <4>1. sent \in [Poll -> 0 .. MaxScreen] /\ {0, Now} \subseteq 0 .. MaxScreen
          BY HealthMonitorAssumption
        <4>2. sent' = [sent EXCEPT ![p] = 0] \/ sent' = [sent EXCEPT ![p] = Now]
          BY <3>1
        <4> HIDE DEF Now
        <4> QED
          BY <4>1, <4>2
      <3>6. pc' \in [Poll -> {"rest", "activity", "pane", "failedPane", "reload", "reloading"}]
        BY <3>1
      <3> QED
        BY <1>1, <3>2, <3>3, <3>4, <3>5, <3>6 DEF OnActivity
    <2> QED
      BY <2>1, <2>2
  <1>2. CASE OnNoPane(p)
    <2>1. mem.fails \in 0 .. 3
      BY DEF Memory
    <2>2. ASSUME mem.fails < 2, mem' = [mem EXCEPT !.fails = @ + 1]
          PROVE  mem' \in Memory
      <3>1. mem.fails + 1 \in 0 .. 3
        BY <2>1, <2>2
      <3> QED
        BY <2>2, <3>1, Ranges, FailsType
    <2>3. ASSUME \E n \in {0, 3} : mem' = [mem EXCEPT !.fails = n, !.failSnap = Other]
          PROVE  mem' \in Memory
      <3>1. PICK n \in {0, 3} : mem' = [mem EXCEPT !.fails = n, !.failSnap = Other]
        BY <2>3
      <3>2. n \in 0 .. 3
        OBVIOUS
      <3> QED
        BY <3>1, <3>2, Ranges, FailsType
    <2>4. mem' \in Memory
      BY <1>2, <2>2, <2>3 DEF OnNoPane, Fail
    <2> QED
      BY <1>2, <2>4 DEF OnNoPane, Fail
  <1>3. CASE OnPane(p)
    <2>1. PICK i \in Answers(p) :
             IF Kind[p] # "fast" /\ ExitSigns(i) /\ mem.shell >= 1
             THEN OnCliExit(p, i) ELSE OnScreen(p, i)
      BY <1>3 DEF OnPane
    <2>2. i \in 0 .. MaxScreen
      BY AnswersType
    <2>3. CASE OnCliExit(p, i)
      <3>1. [mem EXCEPT !.fails = 0, !.shell = 2, !.failSnap = i] \in Memory
        BY <2>2, Ranges, Zenon DEF Memory
      <3>2. mem' \in Memory
        BY <2>3, <3>1, CleanupType DEF OnCliExit, Fail
      <3> QED
        BY <1>3, <2>3, <3>2 DEF OnPane, OnCliExit, Fail
    <2>4. CASE OnScreen(p, i)
      <3>1. \A e \in {mem.shell, 0, 1} : [mem EXCEPT !.fails = 0, !.shell = e] \in Memory
        BY Ranges, Zenon DEF Memory
      <3>2. mem' \in Memory
        BY <2>2, <2>4, <3>1, ScreenDiffType DEF OnScreen
      <3>3. state' \in State
        BY <2>4, IdleTransitionEffect DEF OnScreen
      <3>4. fresh' \subseteq Poll
        BY <2>4 DEF OnScreen
      <3> QED
        BY <1>3, <2>4, <3>2, <3>3, <3>4 DEF OnPane, OnScreen
    <2> QED
      BY <2>1, <2>3, <2>4
  <1>4. CASE OnFailedPane(p)
    <2>1. mem' \in Memory
      <3>1. [mem EXCEPT !.heal = 0, !.failSnap = None, !.healed = HealGrace] \in Memory
        BY Ranges, Zenon DEF Memory
      <3>2. \A i \in Answers(p) : Unhealed(i) \in Memory
        BY AnswersType, UnhealedType
      <3> QED
        BY <1>4, <3>1, <3>2 DEF OnFailedPane
    <2> QED
      BY <1>4, <2>1 DEF OnFailedPane
  <1>5. CASE ClaimReload(p)
    <2>1. pc' \in [Poll -> {"rest", "activity", "pane", "failedPane", "reload", "reloading"}]
      BY SMTT(30), <1>5 DEF ClaimReload, Touch
    <2>2. seen' = [seen EXCEPT ![p] = "down"] /\ sent' = [sent EXCEPT ![p] = 0]
      BY <1>5 DEF ClaimReload, Touch
    <2>3. state' \in State /\ fresh' \subseteq Poll /\ op' \in {"none", "reload", "other"} \cup Poll
      BY <1>5 DEF ClaimReload, Touch
    <2> QED
      BY <1>5, <2>1, <2>2, <2>3 DEF ClaimReload
  <1>6. CASE ReloadReturns(p)
    BY <1>6 DEF ReloadReturns, Touch
  <1> QED
    BY <1>1, <1>2, <1>3, <1>4, <1>5, <1>6 DEF Handle

(* The other steps keep the types.                                         *)
LEMMA TypeStep ==
    ASSUME TypeOK, Next
    PROVE  TypeOK'
  <1> USE HealthMonitorAssumption
      DEF TypeOK, Write, KeepRow, row, polls, users, session, State, Now, CanSuspend
  <1>1. CASE \E p \in Poll : Begin(p)
    <2>1. PICK p \in Poll : Begin(p)
      BY <1>1
    <2>2. /\ pc' \in [Poll -> {"rest", "activity", "pane", "failedPane", "reload", "reloading"}]
          /\ seen' \in [Poll -> State]
      BY <2>1 DEF Begin, Await
    <2>3. sent' \in [Poll -> 0 .. MaxScreen]
      <3>1. sent' = [sent EXCEPT ![p] = Now] /\ Now \in 0 .. MaxScreen
        BY <2>1 DEF Begin, Await
      <3> HIDE DEF Now
      <3> QED
        BY <3>1
    <2> QED
      BY <2>1, <2>2, <2>3 DEF Begin
  <1>2. CASE \E p \in Poll : Handle(p)
    BY <1>2, HandleType
  <1>3. CASE Recover
    BY <1>3 DEF Recover
  <1>4. ASSUME NEW k \in Screen, Now < MaxScreen, screens' = Append(screens, k)
        PROVE  screens' \in Seq(Screen) /\ Now' \in 1 .. MaxScreen
    BY <1>4
  <1>5. CASE \E k \in Screen : Output(k)
    BY <1>4, <1>5 DEF Output
  <1>6. CASE SessionDies
    BY <1>6 DEF SessionDies
  <1>7. CASE QueueReload
    BY <1>7 DEF QueueReload
  <1>8. CASE StartOp
    BY <1>8 DEF StartOp
  <1>9. CASE EndOp
    <2>1. screens' \in Seq(Screen) /\ Now' \in 1 .. MaxScreen
      BY <1>4, <1>9 DEF EndOp, Screen
    <2> QED
      BY <1>9, <2>1 DEF EndOp
  <1>10. CASE Kill
    <2>1. ops' \in 0 .. MaxOp
      BY <1>10 DEF Kill
    <2> QED
      BY <1>10, <2>1 DEF Kill
  <1>11. CASE Tick
    <2>1. mem.grace \in 0 .. Grace /\ mem.healed \in 0 .. HealGrace
      BY DEF Memory
    <2>2. \A g \in 0 .. Grace, h \in 0 .. HealGrace :
             [mem EXCEPT !.grace = g, !.healed = h] \in Memory
      BY Zenon DEF Memory
    <2>3. PICK g \in 0 .. Grace, h \in 0 .. HealGrace :
             mem' = [mem EXCEPT !.grace = g, !.healed = h]
      <3>1. (IF mem.grace = 0 THEN 0 ELSE mem.grace - 1) \in 0 .. Grace
        BY <2>1
      <3>2. (IF mem.healed = 0 THEN 0 ELSE mem.healed - 1) \in 0 .. HealGrace
        BY <2>1
      <3> QED
        BY <1>11, <3>1, <3>2, Zenon DEF Tick
    <2>4. mem' \in Memory
      BY <2>2, <2>3
    <2> QED
      BY <1>11, <2>4 DEF Tick
  <1> QED
    BY <1>1, <1>2, <1>3, <1>5, <1>6, <1>7, <1>8, <1>9, <1>10, <1>11 DEF Next, Operations

-----------------------------------------------------------------------------
(* A verdict changes the row only as Judges says.                          *)
LEMMA HandleJudges ==
    ASSUME TypeOK, WatchesAState, FreshIsCurrent, NEW p \in Poll, Handle(p)
    PROVE  Judges(p)
  <1> USE DEF Judges, WatchesAState, FreshIsCurrent, Write, KeepRow, KeepRowLeaving
  <1>1. CASE OnActivity(p)
    BY <1>1 DEF OnActivity, IdleTransition
  <1>2. CASE OnNoPane(p)
    BY <1>2 DEF OnNoPane, Fail
  <1>3. CASE OnPane(p)
    BY <1>3 DEF OnPane, OnCliExit, Fail, OnScreen, IdleTransition
  <1>4. CASE OnFailedPane(p)
    BY <1>4 DEF OnFailedPane
  <1>5. CASE ClaimReload(p) \/ ReloadReturns(p)
    BY <1>5 DEF ClaimReload, ReloadReturns, Touch
  <1> QED
    BY <1>1, <1>2, <1>3, <1>4, <1>5 DEF Handle

(* The version moves on with every state: what is still fresh saw the      *)
(* state that is there.                                                    *)
LEMMA FreshStep ==
    ASSUME TypeOK', TypeOK, WatchesAState, FreshIsCurrent, Next
    PROVE  WatchesAState' /\ FreshIsCurrent'
  <1> USE DEF TypeOK, WatchesAState, FreshIsCurrent, Write, KeepRow, KeepRowLeaving, Leave, Await,
              row, polls, users, session
  <1>1. CASE \E p \in Poll : Begin(p)
    BY <1>1 DEF Begin, ListedState
  <1>2. CASE \E p \in Poll : OnActivity(p)
    <2>1. PICK p \in Poll : OnActivity(p)
      BY <1>2
    <2>2. CASE pc' = [pc EXCEPT ![p] = "pane"] /\ KeepRow /\ UNCHANGED seen
      BY <2>1, <2>2 DEF OnActivity
    <2>3. CASE Leave(p, "rest") /\ ((state' = state /\ fresh' = fresh \ {p}) \/ fresh' = {})
      BY <2>3
    <2> QED
      BY <2>1, <2>2, <2>3 DEF OnActivity
  <1>3. CASE \E p \in Poll : OnNoPane(p)
    BY <1>3 DEF OnNoPane, Fail
  <1>4. CASE \E p \in Poll : OnPane(p)
    <2>1. PICK p \in Poll : OnPane(p)
      BY <1>4
    <2>2. /\ (state' = state /\ fresh' = fresh \ {p}) \/ fresh' = {}
          /\ \E l \in {"rest", "reload"} : Leave(p, l)
      BY <2>1 DEF OnPane, OnCliExit, Fail, OnScreen
    <2> QED
      BY <2>2
  <1>5. CASE \E p \in Poll : OnFailedPane(p)
    BY <1>5 DEF OnFailedPane
  <1>6. CASE \E p \in Poll : ClaimReload(p) \/ ReloadReturns(p)
    <2>1. PICK p \in Poll : ClaimReload(p) \/ ReloadReturns(p)
      BY <1>6
    <2>2. fresh' = {} /\ \E l \in {"rest", "reloading"} : Leave(p, l)
      BY <2>1 DEF ClaimReload, ReloadReturns, Touch
    <2> QED
      BY <2>2
  <1>7. CASE Recover
    BY <1>7 DEF Recover
  <1>8. CASE Operations
    BY <1>8 DEF Operations, QueueReload, StartOp, EndOp, Kill
  <1>9. CASE SessionDies \/ Tick \/ \E k \in Screen : Output(k)
    BY <1>9 DEF SessionDies, Tick, Output
  <1> QED
    BY <1>1, <1>2, <1>3, <1>4, <1>5, <1>6, <1>7, <1>8, <1>9 DEF Next, Handle

(* A state "busy" begins and ends with its operation.                      *)
LEMMA BusyStep ==
    ASSUME IInv, Next
    PROVE  BusyHasAnOperation'
  <1> USE HealthMonitorAssumption
      DEF IInv, TypeOK, BusyHasAnOperation, Write, KeepRow, row, polls, users, session
  <1>1. CASE \E p \in Poll : Handle(p)
    <2>1. PICK p \in Poll : Handle(p)
      BY <1>1
    <2>2. op' = op \/ op' = p
      BY <2>1 DEF Handle, OnActivity, OnNoPane, OnPane, OnFailedPane, ClaimReload, ReloadReturns
    <2> QED
      BY <2>1, <2>2, HandleJudges DEF Judges
  <1>2. CASE Recover
    BY <1>2 DEF Recover
  <1>3. CASE Operations
    BY <1>3 DEF Operations, QueueReload, StartOp, EndOp, Kill, CanSuspend
  <1>4. CASE \/ SessionDies \/ Tick \/ \E k \in Screen : Output(k)
             \/ \E p \in Poll : Begin(p)
    BY <1>4 DEF SessionDies, Tick, Output, Begin
  <1> QED
    BY <1>1, <1>2, <1>3, <1>4 DEF Next

-----------------------------------------------------------------------------
(* The inductive invariant, of which the types are the first part.         *)
LEMMA Invariance == Spec => []IInv
  <1>1. IInv /\ [Next]_vars => IInv'
    <2>1. CASE UNCHANGED vars
      BY <2>1 DEF IInv, TypeOK, WatchesAState, FreshIsCurrent, BusyHasAnOperation, vars, row,
                  session, polls, users, Now
    <2>2. ASSUME IInv, Next PROVE IInv'
      BY <2>2, TypeStep, FreshStep, BusyStep DEF IInv
    <2> QED
      BY <2>1, <2>2
  <1> QED
    BY <1>1, InitIInv, PTL DEF Spec

(* Rows, maps and the polls under way are what the model says they are.    *)
THEOREM TypeCorrect == Spec => []TypeOK
  <1>1. IInv => TypeOK
    BY DEF IInv
  <1> QED
    BY <1>1, Invariance, PTL

(* Polls that overlap with operations never end a busy or down state, at   *)
(* whichever of their awaits the operation came (health-monitor.ts).       *)
THEOREM PollsStayOut == Spec => PollsKeepOut
  <1>1. ASSUME IInv, [Next]_vars, state \in {"busy", "down"}, state' # state
        PROVE  users' # users
    <2> USE HealthMonitorAssumption DEF IInv, TypeOK, CanSuspend, Write, KeepRow
    <2>1. Next
      BY <1>1 DEF vars, row
    <2>2. CASE \E p \in Poll : Handle(p)
      <3>1. PICK p \in Poll : Handle(p)
        BY <2>2
      <3>2. Judges(p)
        BY <3>1, HandleJudges, <1>1
      <3> QED
        BY <1>1, <3>2 DEF Judges
    <2>3. CASE Operations
      <3>1. ops + 1 # ops
        BY <1>1
      <3> QED
        BY <1>1, <2>3, <3>1 DEF Operations, QueueReload, StartOp, EndOp, Kill, BusyHasAnOperation, users
    <2>4. ~(Recover \/ SessionDies \/ Tick \/ (\E k \in Screen : Output(k)) \/ \E p \in Poll : Begin(p))
      BY <1>1 DEF Recover, SessionDies, Tick, Output, Begin, row
    <2> QED
      BY <2>1, <2>2, <2>3, <2>4 DEF Next
  <1>2. IInv /\ [Next]_vars => [(state \in {"busy", "down"} /\ state' # state) => users' # users]_vars
    BY <1>1
  <1> QED
    BY <1>2, Invariance, PTL DEF Spec, PollsKeepOut
=============================================================================

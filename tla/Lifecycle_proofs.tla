-------------------------- MODULE Lifecycle_proofs --------------------------
(***************************************************************************)
(* Proofs about Lifecycle, for any number of calls, any mix of functions   *)
(* and every set of faults unless a theorem names the ones it excludes.    *)
(***************************************************************************)
EXTENDS Lifecycle, TLAPS

(* A call in phase 2 has a session id to launch with.                      *)
LaunchesSession == \A o \in Working : lsid[o] \in Session

(* A call in phase 2 that nobody has evicted finds its claim in the row.   *)
HoldsClaim == \A o \in Working \ evicted : state = Claimed(kind[o])

IInv == TypeOK /\ LaunchesSession /\ HoldsClaim /\ OneClaim /\ ClaimIsOwned

-----------------------------------------------------------------------------
(* Every claim is an intermediate state, and no call claims from one.      *)
LEMMA ClaimsAreTransitional ==
    /\ \A k : Claimed(k) \in Transitional
    /\ \A k : From(k) \cap Transitional = {}
  BY DEF Claimed, From, Transitional

(* A proxy command leaves the session as it was or as the command makes it.*)
LEMMA DispatchEffect ==
    ASSUME NEW effect, NEW ok, Dispatch(effect, ok)
    PROVE  pane' \in {pane, effect}
  BY DEF Dispatch

(* No call has been made at the start.                                     *)
LEMMA InitIInv == Init => IInv
  BY LifecycleAssumption
     DEF Init, IInv, TypeOK, LaunchesSession, HoldsClaim, OneClaim, ClaimIsOwned,
         Working, PhaseTwo, PC, State, Transitional, Session

-----------------------------------------------------------------------------
(* Type correctness, one step of the orchestrator or its environment at a  *)
(* time.                                                                   *)
LEMMA TypeStep ==
    ASSUME TypeOK, LaunchesSession, Next
    PROVE  TypeOK'
  <1> USE DEF TypeOK, row, world, calls, Goto, KeepRow, Write, Quiet
  <1> DEFINE PaneOK == pane' \in Session \cup {"gone", "shell"}
  <1>1. CASE \E o \in Op, k \in Kinds \cap Claiming : Claim(o, k)
    <2>1. PICK o \in Op, k \in Kinds \cap Claiming : Claim(o, k)
      BY <1>1
    <2>2. Continued(o, k) \in Session
      BY DEF Continued, Session
    <2>3. Claimed(k) \in State /\ FirstStep(k) \in PC
      BY DEF Claimed, State, Transitional, FirstStep, PC, PhaseTwo
    <2> QED
      BY <2>1, <2>2, <2>3 DEF Claim, Working
  <1>2. CASE \E o \in Op, k \in Kinds \cap Locking : Hold(o, k)
    BY <1>2 DEF Hold, PC
  <1>3. CASE \E o \in Op : Probe(o)
    BY <1>3 DEF Probe, PC, PhaseTwo
  <1>4. CASE \E o \in Op : Exit(o)
    <2>1. PICK o \in Op : Exit(o)
      BY <1>4
    <2>2. PaneOK
      BY <2>1, DispatchEffect DEF Exit
    <2>3. captured' \in Session \cup {None} /\ sid' \in Session \cup {None}
      BY <2>1 DEF Exit, Capturing, Running
    <2>4. state' \in State /\ current' \subseteq Op /\ evicted' \subseteq Op
      BY <2>1 DEF Exit
    <2>5. pc' \in [Op -> PC]
      BY <2>1 DEF Exit, PC, PhaseTwo
    <2> QED
      BY <2>1, <2>2, <2>3, <2>4, <2>5 DEF Exit
  <1>5. CASE \E o \in Op : KillOld(o) \/ Clean(o)
    <2>1. PICK o \in Op : KillOld(o) \/ Clean(o)
      BY <1>5
    <2>2. PaneOK
      BY <2>1, DispatchEffect DEF KillOld, Clean
    <2> QED
      BY <2>1, <2>2 DEF KillOld, Clean, PC, PhaseTwo
  <1>6. CASE \E o \in Op : Create(o)
    <2>1. PICK o \in Op : Create(o)
      BY <1>6
    <2>2. PaneOK
      BY <2>1, DispatchEffect DEF Create
    <2>3. pc' \in [Op -> PC]
      BY <2>1 DEF Create, PC, PhaseTwo
    <2>4. lsid' \in [Op -> Session \cup {None}]
      BY <2>1 DEF Create
    <2> QED
      BY <2>1, <2>2, <2>3, <2>4 DEF Create
  <1>7. CASE \E o \in Op : Launch(o)
    <2>1. PICK o \in Op : Launch(o)
      BY <1>7
    <2>2. lsid[o] \in Session
      BY <2>1 DEF Launch, LaunchesSession, Working, PhaseTwo
    <2>3. PaneOK
      BY <2>1, <2>2, DispatchEffect DEF Launch, Launched
    <2> QED
      BY <2>1, <2>3 DEF Launch, PC, PhaseTwo
  <1>8. CASE \E o \in Op : Final(o) \/ MarkCreateFailed(o) \/ Throw(o)
    <2>1. PICK o \in Op : Final(o) \/ MarkCreateFailed(o) \/ Throw(o)
      BY <1>8
    <2>2. pc' \in [Op -> PC] /\ wd' \in [Op -> {"off", "armed", "fired", "killing"}]
      BY <2>1 DEF Final, MarkCreateFailed, Throw, End, Disarm, PC
    <2>3. UNCHANGED <<captured, lock, pane, proxy, kind, lsid>>
      BY <2>1 DEF Final, MarkCreateFailed, Throw, End
    <2>4. state' \in State /\ current' \subseteq Op /\ evicted' \subseteq Op
      BY <2>1 DEF Final, MarkCreateFailed, Throw, FinalizeSuspend, FinalizeToActive,
                  State, Working
    <2>5. sid' \in Session \cup {None} /\ tmux' \in BOOLEAN
      BY <2>1 DEF Final, MarkCreateFailed, Throw, FinalizeSuspend, FinalizeToActive
    <2> QED
      BY <2>2, <2>3, <2>4, <2>5
  <1>9. CASE \E o \in Op : Watchdog(o) \/ WatchdogThrow(o)
    <2>1. PICK o \in Op : Watchdog(o) \/ WatchdogThrow(o)
      BY <1>9
    <2>2. CASE Fire(o) \/ WatchdogThrow(o)
      BY <2>2 DEF Fire, WatchdogThrow
    <2>3. CASE WatchdogCheck(o)
      BY <2>3 DEF WatchdogCheck, State, Working
    <2>4. CASE WatchdogKill(o)
      <3>1. PaneOK
        BY <2>4, DispatchEffect DEF WatchdogKill
      <3> QED
        BY <2>4, <3>1 DEF WatchdogKill, Unlock
    <2> QED
      BY <2>1, <2>2, <2>3, <2>4 DEF Watchdog
  <1>10. CASE \E o \in Op : KillSession(o) \/ PasteKeys(o)
    <2>1. PICK o \in Op : KillSession(o) \/ PasteKeys(o)
      BY <1>10
    <2>2. PaneOK
      BY <2>1, DispatchEffect DEF KillSession, PasteKeys
    <2> QED
      BY <2>1, <2>2 DEF KillSession, PasteKeys, PC
  <1>11. CASE \E o \in Op : Finish(o)
    <2>1. PICK o \in Op : Finish(o)
      BY <1>11
    <2>2. pc' \in [Op -> PC] /\ lock' \in Op \cup {None}
      BY <2>1 DEF Finish, PC, Unlock
    <2>3. state' \in State /\ current' \subseteq Op /\ evicted' \subseteq Op
      BY <2>1 DEF Finish, State, Working
    <2>4. sid' \in Session \cup {None} /\ captured' \in Session \cup {None} /\ tmux' \in BOOLEAN
      BY <2>1 DEF Finish
    <2> QED
      BY <2>1, <2>2, <2>3, <2>4 DEF Finish
  <1>12. CASE Monitor \/ CreateAgent
    BY <1>12 DEF Monitor, MonitorActivity, MonitorFail, MonitorHeal, CreateAgent, State, Working
  <1>13. CASE CliExit \/ Lapse
    BY <1>13 DEF CliExit, Lapse
  <1>14. CASE RemoveProxy \/ UnregisterProxy \/ RegisterProxy \/ ProbeSession \/ SelfHeal
    BY <1>14 DEF RemoveProxy, UnregisterProxy, RegisterProxy, ProbeSession, SelfHeal,
                 State, Working
  <1> QED
    BY <1>1, <1>2, <1>3, <1>4, <1>5, <1>6, <1>7, <1>8, <1>9, <1>10, <1>11, <1>12,
       <1>13, <1>14
       DEF Next, Start, Work, Watchdog, Locked, Environment

-----------------------------------------------------------------------------
(* What most steps do to the claims: no call enters or leaves phase 2 ...  *)
SameWork ==
    \A o \in Op :
        /\ pc'[o] \in PhaseTwo <=> pc[o] \in PhaseTwo
        /\ pc[o] = "threw" => pc'[o] = "threw"
        /\ pc[o] \in PhaseTwo \cup {"threw"} => kind'[o] = kind[o]
        /\ pc[o] \in PhaseTwo => lsid'[o] \in Session

(* ... and the state stays, or is taken from all the calls in phase 2.     *)
Kept == UNCHANGED <<state, evicted>>
Taken == state' \notin Transitional /\ evicted' = evicted \cup Working

(* The steps that neither begin nor end a three-phase operation.           *)
LEMMA OtherSteps ==
    ASSUME TypeOK, LaunchesSession, Next,
           ~ \E o \in Op : \/ \E k \in Kinds \cap Claiming : Claim(o, k)
                           \/ Final(o) \/ MarkCreateFailed(o) \/ Throw(o)
    PROVE  SameWork /\ (Kept \/ Taken)
  <1> USE DEF SameWork, Kept, row, world, calls, Goto, KeepRow, Quiet
  <1>1. CASE \E o \in Op, k \in Kinds \cap Locking : Hold(o, k)
    BY <1>1 DEF Hold, PhaseTwo, TypeOK, LaunchesSession, Working
  <1>2. CASE \E o \in Op : Probe(o) \/ KillOld(o) \/ Clean(o) \/ Launch(o)
    BY <1>2 DEF Probe, KillOld, Clean, Launch, PhaseTwo, TypeOK, LaunchesSession, Working
  <1>3. CASE \E o \in Op : Exit(o)
    BY <1>3 DEF Exit, Write, PhaseTwo, TypeOK, LaunchesSession, Working
  <1>4. CASE \E o \in Op : Create(o)
    <2>1. PICK o \in Op : Create(o)
      BY <1>4
    <2>2. lsid'[o] \in Session /\ \A p \in Op \ {o} : lsid'[p] = lsid[p]
      BY <2>1 DEF Create, TypeOK, LaunchesSession, Working, PhaseTwo
    <2> QED
      BY <2>1, <2>2 DEF Create, PhaseTwo, TypeOK, LaunchesSession, Working
  <1>5. CASE \E o \in Op : Fire(o) \/ WatchdogKill(o) \/ WatchdogThrow(o)
    BY <1>5 DEF Fire, WatchdogKill, WatchdogThrow, LaunchesSession, Working
  <1>6. CASE \E o \in Op : WatchdogCheck(o)
    BY <1>6, ClaimsAreTransitional
       DEF WatchdogCheck, HasClaim, Write, Taken, Transitional, LaunchesSession, Working
  <1>7. CASE \E o \in Op : KillSession(o) \/ PasteKeys(o)
    BY <1>7 DEF KillSession, PasteKeys, PhaseTwo, TypeOK, LaunchesSession, Working
  <1>8. CASE \E o \in Op : Finish(o)
    <2>1. PICK o \in Op : Finish(o)
      BY <1>8
    <2>2. SameWork
      BY <2>1 DEF Finish, PhaseTwo, TypeOK, LaunchesSession, Working
    <2>3. Kept \/ Taken
      BY <2>1 DEF Finish, Write, Taken, Transitional
    <2> QED
      BY <2>2, <2>3
  <1>9. CASE Monitor \/ CreateAgent
    BY <1>9 DEF Monitor, MonitorActivity, MonitorFail, MonitorHeal, CreateAgent,
                Write, Taken, Transitional, LaunchesSession, Working
  <1>10. CASE CliExit \/ Lapse \/ UnregisterProxy \/ RegisterProxy \/ ProbeSession
    BY <1>10 DEF CliExit, Lapse, UnregisterProxy, RegisterProxy, ProbeSession,
                 LaunchesSession, Working
  <1>11. CASE RemoveProxy \/ SelfHeal
    BY <1>11 DEF RemoveProxy, SelfHeal, Write, Taken, Transitional, LaunchesSession, Working
  <1> QED
    BY <1>1, <1>2, <1>3, <1>4, <1>5, <1>6, <1>7, <1>8, <1>9, <1>10, <1>11
       DEF Next, Start, Work, Watchdog, Locked, Environment

(* Such a step preserves what is said about claims.                        *)
LEMMA OtherStepsPreserve ==
    ASSUME IInv, SameWork, Kept \/ Taken
    PROVE  LaunchesSession' /\ HoldsClaim' /\ OneClaim' /\ ClaimIsOwned'
  <1> USE DEF IInv, SameWork, Kept, Taken
  <1>1. Working' = Working
    BY DEF Working
  <1>2. evicted \subseteq evicted'
    OBVIOUS
  <1>3. LaunchesSession'
    BY <1>1 DEF LaunchesSession, Working
  <1>4. HoldsClaim'
    BY <1>1 DEF HoldsClaim, Working
  <1>5. OneClaim'
    BY <1>1, <1>2 DEF OneClaim
  <1>6. ClaimIsOwned'
    BY DEF ClaimIsOwned
  <1> QED
    BY <1>3, <1>4, <1>5, <1>6

(* Phase 1: the agent is at rest, so whoever is in phase 2 is evicted, and *)
(* the new claim is the only one.                                          *)
LEMMA ClaimPreserves ==
    ASSUME IInv, NEW o \in Op, NEW k \in Kinds \cap Claiming, Claim(o, k)
    PROVE  LaunchesSession' /\ HoldsClaim' /\ OneClaim' /\ ClaimIsOwned'
  <1> USE DEF IInv
  <1>1. state \notin Transitional
    BY ClaimsAreTransitional DEF Claim
  <1>2. Working \subseteq evicted
    BY <1>1, ClaimsAreTransitional DEF HoldsClaim
  <1>3. /\ state' = Claimed(k)
        /\ evicted \subseteq evicted'
        /\ kind' = [kind EXCEPT ![o] = k]
        /\ pc' = [pc EXCEPT ![o] = FirstStep(k)]
        /\ lsid' = [lsid EXCEPT ![o] = Continued(o, k)]
    BY DEF Claim, Write
  <1>4. FirstStep(k) \in PhaseTwo /\ Continued(o, k) \in Session
    BY DEF FirstStep, PhaseTwo, Continued, Session, TypeOK
  <1>5. Working' = Working \cup {o}
    BY <1>3, <1>4 DEF Working, TypeOK
  <1>6. LaunchesSession'
    BY <1>3, <1>4, <1>5 DEF LaunchesSession, TypeOK
  <1>7. HoldsClaim'
    BY <1>2, <1>3, <1>5 DEF HoldsClaim, TypeOK
  <1>8. OneClaim'
    BY <1>2, <1>3, <1>5 DEF OneClaim
  <1>9. ClaimIsOwned'
    BY <1>3, <1>4 DEF ClaimIsOwned, TypeOK
  <1> QED
    BY <1>6, <1>7, <1>8, <1>9

(* Phase 3, a failed create, or an exception: one call leaves phase 2.  It *)
(* takes the state only if it finds the claim of its kind, and leaves no   *)
(* claim of its own behind unless it throws.                               *)
LEMMA EndPreserves ==
    ASSUME IInv, NEW o \in Op, Final(o) \/ MarkCreateFailed(o) \/ Throw(o)
    PROVE  LaunchesSession' /\ HoldsClaim' /\ OneClaim' /\ ClaimIsOwned'
  <1> USE DEF IInv
  <1>1. /\ kind' = kind /\ lsid' = lsid
        /\ pc[o] \in PhaseTwo
        /\ \E l \in {"done", "threw"} : pc' = [pc EXCEPT ![o] = l]
    BY DEF Final, MarkCreateFailed, Throw, End, Goto, PhaseTwo
  <1>2. Working' = Working \ {o}
    BY <1>1 DEF Working, TypeOK, PhaseTwo
  <1>3. \/ /\ state' = state /\ evicted' = evicted
           /\ pc'[o] = "threw" \/ state # Claimed(kind[o])
        \/ /\ state' \notin Transitional
           /\ evicted' = evicted \cup (Working \ {o})
    <2>1. CASE Final(o)
      BY <2>1, ClaimsAreTransitional
         DEF Final, FinalizeSuspend, FinalizeToActive, HasClaim, Write, KeepRow, Transitional
    <2>2. CASE MarkCreateFailed(o)
      BY <2>2, ClaimsAreTransitional
         DEF MarkCreateFailed, HasClaim, Write, KeepRow, Transitional
    <2>3. CASE Throw(o)
      BY <2>3 DEF Throw, End, Goto, KeepRow, TypeOK
    <2> QED
      BY <2>1, <2>2, <2>3
  <1>4. LaunchesSession'
    BY <1>1, <1>2 DEF LaunchesSession
  <1>5. HoldsClaim'
    BY <1>1, <1>2, <1>3 DEF HoldsClaim
  <1>6. OneClaim'
    BY <1>2, <1>3 DEF OneClaim
  <1>7. ClaimIsOwned'
    BY <1>1, <1>3 DEF ClaimIsOwned, TypeOK, PhaseTwo
  <1> QED
    BY <1>4, <1>5, <1>6, <1>7

(* The invariant is inductive.                                             *)
LEMMA StepIInv == IInv /\ [Next]_vars => IInv'
  <1> SUFFICES ASSUME IInv, [Next]_vars PROVE IInv'
    OBVIOUS
  <1>1. CASE UNCHANGED vars
    BY <1>1 DEF IInv, TypeOK, LaunchesSession, HoldsClaim, OneClaim, ClaimIsOwned,
                Working, vars, row, world, calls
  <1>2. CASE Next
    <2>1. TypeOK'
      BY <1>2, TypeStep DEF IInv
    <2>2. LaunchesSession' /\ HoldsClaim' /\ OneClaim' /\ ClaimIsOwned'
      BY <1>2, OtherSteps, OtherStepsPreserve, ClaimPreserves, EndPreserves DEF IInv
    <2> QED
      BY <2>1, <2>2 DEF IInv
  <1> QED
    BY <1>1, <1>2

(* The invariant holds in every reachable state.                           *)
THEOREM Invariance == Spec => []IInv
  BY InitIInv, StepIInv, PTL DEF Spec

(* Every variable keeps its type, so no CLI is launched without an id.     *)
THEOREM TypeCorrect == Spec => []TypeOK
  BY Invariance, PTL DEF IInv

(* Claims exclude each other: of two calls in phase 2 one has been evicted,*)
(* whatever the faults.                                                    *)
THEOREM ClaimsExclude == Spec => []OneClaim
  BY Invariance, PTL DEF IInv

(* No intermediate state is an orphan, whatever the faults.                *)
THEOREM NoOrphanClaim == Spec => []ClaimIsOwned
  BY Invariance, PTL DEF IInv

-----------------------------------------------------------------------------
(* A finalizer, a failed create or a watchdog that comes late finds no     *)
(* claim on a suspended agent, and no other writer touches one.            *)
LEMMA SuspendedStep ==
    ASSUME Next, state = "suspended"
    PROVE  state' \in {"suspended", "resuming", "absent"}
  <1> USE DEF row, KeepRow, Write, Quiet
  <1>1. \A o \in Op : ~HasClaim(o)
    BY ClaimsAreTransitional DEF HasClaim, Transitional
  <1>2. CASE \E o \in Op : Start(o)
    BY <1>2 DEF Start, Claim, Hold, From, Claimed
  <1>3. CASE \E o \in Op : Work(o)
    BY <1>1, <1>3 DEF Work, Probe, Exit, KillOld, Clean, Create, Launch, Final,
          FinalizeSuspend, FinalizeToActive, MarkCreateFailed, Throw, WatchdogThrow
  <1>4. CASE \E o \in Op : Watchdog(o) \/ Locked(o)
    BY <1>1, <1>4 DEF Watchdog, Fire, WatchdogCheck, WatchdogKill,
          Locked, KillSession, PasteKeys, Finish
  <1>5. CASE Monitor \/ Environment
    BY <1>5 DEF Monitor, MonitorActivity, MonitorFail, MonitorHeal, Environment,
          CreateAgent, CliExit, Lapse, RemoveProxy, UnregisterProxy, RegisterProxy,
          ProbeSession, SelfHeal
  <1> QED
    BY <1>2, <1>3, <1>4, <1>5 DEF Next

(* Only a resume or a destroy ends a suspension, whatever the faults.      *)
THEOREM SuspensionHolds == Spec => SuspendedUntilResumed
  <1>1. [Next]_vars => [state = "suspended" => state' \in {"suspended", "resuming", "absent"}]_vars
    BY SuspendedStep
  <1> QED
    BY <1>1, PTL DEF Spec, SuspendedUntilResumed

-----------------------------------------------------------------------------
(* Who owns the lock, when no lease runs out: a watchdog that is killing,  *)
(* or a call that holds the lock throughout, and never both.               *)
LockInv ==
    /\ TypeOK
    /\ proxy = "up"
    /\ \A o \in Op : wd[o] = "killing" => lock = o /\ state = "failed"
    /\ \A o \in Op : pc[o] \in {"held", "write"} => lock = o /\ wd[o] = "off"
    /\ \A o \in Op : pc[o] = "new" => wd[o] = "off"

(* The lock is enough to keep the agent failed while its watchdog works,   *)
(* as long as the writers without the lock stay out.                       *)
LEMMA LockInvStep ==
    ASSUME Fault \cap {"lapse", "monitor", "proxyLoss"} = {},
           LockInv, TypeOK', Next
    PROVE  LockInv'
  <1> USE DEF LockInv, row, world, calls, KeepRow, Write, Quiet, Goto
  <1>1. CASE \E o \in Op, k \in Kinds \cap Claiming : Claim(o, k)
    <2>1. PICK o \in Op, k \in Kinds \cap Claiming : Claim(o, k)
      BY <1>1
    <2>2. FirstStep(k) \notin {"held", "write", "new"}
      BY DEF FirstStep
    <2>3. lock = None /\ None \notin Op
      BY <2>1, LifecycleAssumption DEF Claim
    <2> QED
      BY <2>1, <2>2, <2>3 DEF Claim, TypeOK
  <1>2. CASE \E o \in Op, k \in Kinds \cap Locking : Hold(o, k)
    BY <1>2, LifecycleAssumption DEF Hold, TypeOK
  <1>3. CASE \E o \in Op : Probe(o) \/ KillOld(o) \/ Clean(o) \/ Create(o) \/ Launch(o)
    BY <1>3 DEF Probe, KillOld, Clean, Create, Launch, TypeOK
  <1>4. CASE \E o \in Op : Exit(o)
    BY <1>4 DEF Exit, TypeOK
  <1>5. CASE \E o \in Op : Final(o) \/ MarkCreateFailed(o)
    BY <1>5, LifecycleAssumption DEF Final, MarkCreateFailed, End, Disarm, TypeOK
  <1>6. CASE \E o \in Op : Throw(o)
    BY <1>6 DEF Throw, End, Disarm, TypeOK
  <1>7. CASE \E o \in Op : Watchdog(o) \/ WatchdogThrow(o)
    <2>1. PICK o \in Op : Watchdog(o) \/ WatchdogThrow(o)
      BY <1>7
    <2>2. CASE Fire(o) \/ WatchdogThrow(o)
      BY <2>2 DEF Fire, WatchdogThrow, TypeOK
    <2>3. CASE WatchdogCheck(o)
      BY <2>3, LifecycleAssumption DEF WatchdogCheck, TypeOK
    <2>4. CASE WatchdogKill(o)
      BY <2>4, LifecycleAssumption DEF WatchdogKill, Unlock, TypeOK
    <2> QED
      BY <2>1, <2>2, <2>3, <2>4 DEF Watchdog
  <1>8. CASE \E o \in Op : KillSession(o) \/ PasteKeys(o)
    BY <1>8 DEF KillSession, PasteKeys, TypeOK
  <1>9. CASE \E o \in Op : Finish(o)
    <2>1. PICK o \in Op : Finish(o)
      BY <1>9
    <2>2. lock = o /\ wd[o] = "off" /\ o # None
      BY <2>1, LifecycleAssumption DEF Finish
    <2>3. \A p \in Op : wd[p] # "killing" /\ (p # o => pc[p] \notin {"held", "write"})
      BY <2>2
    <2>4. /\ pc' = [pc EXCEPT ![o] = "done"] /\ wd' = wd /\ proxy' = proxy
      BY <2>1 DEF Finish
    <2> QED
      BY <2>3, <2>4 DEF TypeOK
  <1>10. CASE CreateAgent \/ CliExit \/ ProbeSession \/ SelfHeal
    BY <1>10 DEF CreateAgent, CliExit, ProbeSession, SelfHeal
  <1>11. ~(Monitor \/ Lapse \/ RemoveProxy \/ UnregisterProxy \/ RegisterProxy)
    BY DEF Monitor, MonitorActivity, MonitorFail, MonitorHeal, Lapse, RemoveProxy,
           UnregisterProxy, RegisterProxy
  <1> QED
    BY <1>1, <1>2, <1>3, <1>4, <1>5, <1>6, <1>7, <1>8, <1>9, <1>10, <1>11
       DEF Next, Start, Work, Watchdog, Locked, Environment

(* No operation begins on the agent while a watchdog kills its session,    *)
(* if leases last and neither the health monitor nor the proxy             *)
(* registration writes the row.                                            *)
THEOREM WatchdogExcludesNewSessions ==
    ASSUME Fault \cap {"lapse", "monitor", "proxyLoss"} = {}
    PROVE  Spec => []FailedWhileKilling
  <1>1. Init => LockInv
    BY InitIInv DEF IInv, Init, LockInv
  <1>2. LockInv /\ TypeOK' /\ [Next]_vars => LockInv'
    <2>1. CASE UNCHANGED vars
      BY <2>1 DEF LockInv, vars, row, world, calls
    <2>2. CASE Next
      BY <2>2, LockInvStep
    <2> QED
      BY <2>1, <2>2
  <1>3. LockInv => FailedWhileKilling
    BY DEF LockInv, FailedWhileKilling
  <1> QED
    BY <1>1, <1>2, <1>3, TypeCorrect, PTL DEF Spec

-----------------------------------------------------------------------------
(* A kill or destroy has taken the session down and still has to write.    *)
Doomed == \E o \in Op : /\ lock = o /\ pc[o] = "write"
                        /\ kind[o] \in {"kill", "destroy"}

(* What runs in the session, if anything, is the conversation on record.   *)
OnRecord == pane \in Session => pane = sid

(* What a call in phase 2 finds when it takes its next step.               *)
Prepared(p) ==
    /\ pc[p] = "exit" => pane = sid /\ sid \in Session
    /\ pc[p] = "probe" => OnRecord /\ (sid # None => lsid[p] = sid)
    /\ pc[p] = "launch" => pane \in {"shell", lsid[p]}
    /\ pc[p] = "final" => IF kind[p] = "suspend" THEN OnRecord ELSE pane = lsid[p]
    /\ kind[p] = "reload" =>
           lsid[p] = sid /\ (Captures /\ pc[p] # "exit" => captured = sid)

(* Unless a call is about to write that the session is gone, the session   *)
(* is the one that the row and the call in phase 2 believe in.             *)
Agrees ==
    /\ state \in {"active", "idle"} => pane = sid /\ sid \in Session
    /\ state = "suspended" => OnRecord
    /\ \A p \in Working : Prepared(p)

(* The calls that hold the lock: a kill is sure to write.                  *)
Holding ==
    \A o \in Op : pc[o] \in {"held", "write"} =>
        /\ kind[o] \in Kinds \cap Locking
        /\ state # "absent"
        /\ kind[o] = "kill" => o \in current
        /\ kind[o] = "kill" /\ pc[o] = "write" /\ Working = {} => pane = "gone"

(* Nothing has gone wrong, and each step is one of its function's.         *)
Smooth ==
    /\ state # "failed"
    /\ ~Captures => captured = None
    /\ \A o \in Op :
          /\ pc[o] \notin {"threw", "createFailed"}
          /\ wd[o] # "killing"
          /\ pc[o] = "create" => pane = "gone"
          /\ pc[o] \in PhaseTwo \ {"exit", "final"} => kind[o] # "suspend"

SessionInv == evicted = {} => Smooth /\ Holding /\ (Doomed \/ Agrees)

(* What a step starts from when no call has lost its claim and none of the *)
(* faults is among those that happen.                                      *)
Sound == /\ Fault = {}
         /\ "kill" \notin Kinds \/ ~Captures
         /\ IInv /\ LockInv
         /\ Smooth /\ Holding /\ (Doomed \/ Agrees)
         /\ evicted = {} /\ evicted' = {}

(* The proxy answers, and every command takes effect.                      *)
LEMMA CommandsWork ==
    ASSUME Sound, NEW effect, NEW ok \in Answers, Dispatch(effect, ok)
    PROVE  ok = TRUE /\ pane' = effect
  BY DEF Sound, LockInv, Answers, Registered, Dispatch

(* No call is in phase 2 with another, and its claim is in the row.        *)
LEMMA OneWorks ==
    ASSUME Sound, NEW p \in Working
    PROVE  /\ Working = {p}
           /\ state = Claimed(kind[p]) /\ state \in Transitional
  BY ClaimsAreTransitional DEF Sound, IInv, OneClaim, HoldsClaim

(* A state that is taken leaves nobody in phase 2.                         *)
LEMMA NobodyTaken ==
    ASSUME Sound, NEW s, NEW self, Write(s, self), s # state
    PROVE  Working \subseteq self
  BY DEF Sound, Write

(* A claim under the lock finds the session as its state says.             *)
LEMMA SessionClaim ==
    ASSUME Sound, NEW o \in Op, NEW k \in Kinds \cap Claiming, Claim(o, k)
    PROVE  Smooth' /\ Holding' /\ Agrees'
  <1> USE DEF Sound, IInv, TypeOK
  <1>1. /\ state \in From(k) /\ state' = Claimed(k)
        /\ kind' = [kind EXCEPT ![o] = k]
        /\ pc' = [pc EXCEPT ![o] = FirstStep(k)]
        /\ lsid' = [lsid EXCEPT ![o] = Continued(o, k)]
        /\ wd' = [wd EXCEPT ![o] = "armed"]
        /\ sid' = sid /\ captured' = captured /\ pane' = pane
        /\ pc[o] = "new" /\ lock = None /\ lock' = None
    BY DEF Claim, Write, world
  <1>2. k \in Claiming /\ k # "recover"
    BY <1>1 DEF From, Smooth, Claiming
  <1>3. \A p \in Op : pc[p] \notin {"held", "write"}
    BY <1>1, LifecycleAssumption DEF LockInv
  <1>4. Agrees
    BY <1>1, <1>3 DEF Doomed
  <1>5. Working = {}
    BY <1>1, OneWorks, ClaimsAreTransitional DEF Working
  <1>6. FirstStep(k) \in {"clean", "probe", "exit"}
    BY <1>2 DEF FirstStep
  <1>7. Working' = {o}
    BY <1>1, <1>5, <1>6 DEF Working, PhaseTwo
  <1>8. Smooth'
    <2>1. FirstStep(k) # "exit" => k # "suspend"
      BY DEF FirstStep
    <2>2. state' # "failed"
      BY <1>1, ClaimsAreTransitional DEF Transitional
    <2> QED
      BY <1>1, <1>6, <2>1, <2>2 DEF Smooth
  <1>9. Holding'
    BY <1>1, <1>3, <1>6 DEF Holding
  <1>10. Prepared(o)'
    <2>1. pc'[o] = FirstStep(k) /\ kind'[o] = k /\ lsid'[o] = Continued(o, k)
      BY <1>1
    <2>2. k = "spawn" => FirstStep(k) = "clean"
      BY DEF FirstStep
    <2>3. k = "resume" => /\ FirstStep(k) = "probe" /\ state = "suspended"
                          /\ sid # None => Continued(o, k) = sid
      BY <1>1 DEF FirstStep, From, Smooth, Continued
    <2>4. k \in {"suspend", "reload"} => FirstStep(k) = "exit" /\ state \in {"active", "idle"}
      BY <1>1 DEF FirstStep, From
    <2>5. k = "reload" /\ sid # None => Continued(o, k) = sid
      BY DEF Continued
    <2>6. sid \in Session => sid # None
      BY LifecycleAssumption DEF Session
    <2> QED
      BY <1>1, <1>2, <1>4, <2>1, <2>2, <2>3, <2>4, <2>5, <2>6
         DEF Prepared, Agrees, OnRecord, Claiming
  <1>11. Agrees'
    BY <1>1, <1>7, <1>10, ClaimsAreTransitional DEF Agrees, Transitional
  <1> QED
    BY <1>8, <1>9, <1>11

(* What each step of phase 2 has in common: the call stays the only one in *)
(* phase 2, so only what it finds next is to be shown.                     *)
LEMMA SessionNext ==
    ASSUME Sound, NEW o \in Op, NEW l \in PhaseTwo \ {"createFailed"},
           pc[o] \in PhaseTwo, pc' = [pc EXCEPT ![o] = l],
           UNCHANGED <<state, lock, kind, wd>>,
           current' = current \/ Captures,
           ~Captures => captured' = None,
           l \notin {"exit", "final"} => kind[o] # "suspend",
           l = "create" => pane' = "gone",
           Agrees => Prepared(o)'
    PROVE  Smooth' /\ Holding' /\ (Doomed' \/ Agrees')
  <1> USE DEF Sound, IInv, TypeOK
  <1>1. Working = {o} /\ state \in Transitional
    BY OneWorks DEF Working
  <1>2. Working' = {o}
    BY <1>1 DEF Working
  <1>3. pc'[o] = l /\ \A q \in Op \ {o} : pc'[q] = pc[q] /\ pc[q] \notin PhaseTwo
    BY <1>1 DEF Working
  <1>4. Smooth'
    BY <1>3 DEF Smooth, PhaseTwo
  <1>5. Holding'
    BY <1>2, <1>3 DEF Holding, PhaseTwo
  <1>6. Doomed => Doomed'
    BY <1>3 DEF Doomed, PhaseTwo
  <1>7. Agrees => Agrees'
    BY <1>1, <1>2 DEF Agrees, Transitional
  <1> QED
    BY <1>4, <1>5, <1>6, <1>7

(* Each step of phase 2 leaves the session as the next one expects it.     *)
LEMMA SessionWork ==
    ASSUME Sound, NEW o \in Op,
           Probe(o) \/ Exit(o) \/ KillOld(o) \/ Clean(o) \/ Create(o) \/ Launch(o)
    PROVE  Smooth' /\ Holding' /\ (Doomed' \/ Agrees')
  <1> USE DEF Goto, KeepRow
  <1>1. pc[o] \in PhaseTwo /\ o \in Working
    BY DEF Probe, Exit, KillOld, Clean, Create, Launch, PhaseTwo, Working
  <1>2. ~Captures => captured = None
    BY DEF Sound, Smooth
  <1>3. pc[o] \notin {"exit", "final"} => kind[o] # "suspend"
    BY <1>1 DEF Sound, Smooth
  <1>4. Agrees => Prepared(o)
    BY <1>1 DEF Agrees
  <1>5. pc \in [Op -> PC] /\ lsid \in [Op -> Session \cup {None}] /\ lsid[o] \in Session
    BY <1>1 DEF Sound, IInv, TypeOK, LaunchesSession
  <1>6. None \notin Session /\ "gone" \notin Session /\ "shell" \notin Session
    BY LifecycleAssumption DEF Session
  <1>7. ASSUME Probe(o) PROVE Smooth' /\ Holding' /\ (Doomed' \/ Agrees')
    <2>1. PICK l \in {"launch", "clean"} :
             pc' = [pc EXCEPT ![o] = l] /\ (l = "launch" => pane # "gone")
      BY <1>7 DEF Probe
    <2>2. /\ UNCHANGED <<state, lock, kind, wd, current, captured, sid, pane, lsid>>
          /\ pc[o] = "probe"
      BY <1>7 DEF Probe, world
    <2>3. Agrees => Prepared(o)'
      BY <1>4, <1>5, <1>6, <2>1, <2>2 DEF Prepared, OnRecord, Sound, IInv, TypeOK
    <2> QED
      BY <1>1, <1>2, <1>3, <2>1, <2>2, <2>3, SessionNext DEF PhaseTwo
  <1>8. ASSUME Exit(o) PROVE Smooth' /\ Holding' /\ (Doomed' \/ Agrees')
    <2> DEFINE l == IF kind[o] = "suspend" THEN "final" ELSE "kill"
    <2>1. /\ pc' = [pc EXCEPT ![o] = l] /\ pc[o] = "exit"
          /\ UNCHANGED <<lock, kind, wd, lsid>>
      BY <1>8 DEF Exit
    <2>2. PICK ok \in Answers :
            /\ IF Running THEN \E p \in {"shell", pane} : Dispatch(p, ok)
                          ELSE UNCHANGED pane
            /\ \/ /\ Capturing(ok)
                  /\ captured' = pane /\ sid' = pane
                  /\ Write(state, {o})
               \/ /\ Capturing(ok) => "captureMiss" \in Fault
                  /\ KeepRow /\ UNCHANGED <<captured, sid>>
      BY <1>8 DEF Exit
    <2>3. ok = TRUE
      BY <2>2 DEF Sound, LockInv, Answers, Registered
    <2>4. state' = state /\ (current' = current \/ Captures)
      BY <2>2 DEF Write, Capturing
    <2>5. ~Captures => captured' = None
      BY <1>2, <2>2 DEF Capturing
    <2>6. Agrees => Prepared(o)'
      <3> SUFFICES ASSUME Agrees PROVE Prepared(o)'
        OBVIOUS
      <3>1. pane = sid /\ sid \in Session
        BY <1>4, <2>1 DEF Prepared
      <3>2. pane' \in {"shell", sid}
        BY <2>2, <3>1, CommandsWork DEF Running
      <3>3. state # "absent"
        BY <1>1, OneWorks DEF Transitional
      <3>4. sid' = sid /\ (Captures => captured' = sid)
        BY <2>2, <2>3, <3>1, <3>3 DEF Capturing, Running, Sound
      <3> QED
        BY <1>4, <1>5, <1>6, <2>1, <3>2, <3>4 DEF Prepared, OnRecord, Sound, IInv, TypeOK
    <2> QED
      BY <1>1, <2>1, <2>4, <2>5, <2>6, SessionNext DEF PhaseTwo
  <1>9. ASSUME KillOld(o) \/ Clean(o) PROVE Smooth' /\ Holding' /\ (Doomed' \/ Agrees')
    <2>1. PICK l \in {"clean", "create"} :
             pc' = [pc EXCEPT ![o] = l] /\ pc[o] \in {"kill", "clean"}
      BY <1>9 DEF KillOld, Clean
    <2>2. UNCHANGED <<state, lock, kind, wd, current, captured, sid, lsid>>
      BY <1>9 DEF KillOld, Clean
    <2>3. pane' = "gone"
      BY <1>9, CommandsWork DEF KillOld, Clean
    <2>4. Agrees => Prepared(o)'
      BY <1>4, <1>5, <2>1, <2>2 DEF Prepared
    <2> QED
      BY <1>1, <1>2, <1>3, <2>1, <2>2, <2>3, <2>4, SessionNext DEF PhaseTwo
  <1>10. ASSUME Create(o) PROVE Smooth' /\ Holding' /\ (Doomed' \/ Agrees')
    <2>1. /\ UNCHANGED <<state, lock, kind, wd, current, captured, sid>>
          /\ pc[o] = "create"
          /\ lsid' = IF kind[o] = "reload" /\ captured # None /\ state # "absent"
                     THEN [lsid EXCEPT ![o] = captured] ELSE lsid
      BY <1>10 DEF Create
    <2>2. pane = "gone"
      BY <2>1 DEF Sound, Smooth
    <2>3. PICK ok \in Answers :
             /\ Dispatch("shell", ok)
             /\ pc' = [pc EXCEPT ![o] = IF ok \/ kind[o] \in {"reload", "recover"}
                                        THEN "launch" ELSE "createFailed"]
      BY <1>10, <2>2 DEF Create
    <2>4. pane' = "shell" /\ pc' = [pc EXCEPT ![o] = "launch"]
      BY <2>3, CommandsWork
    <2>5. Agrees => Prepared(o)'
      BY <1>2, <1>4, <1>5, <2>1, <2>4 DEF Prepared
    <2> QED
      BY <1>1, <1>2, <1>3, <2>1, <2>4, <2>5, SessionNext DEF PhaseTwo
  <1>11. ASSUME Launch(o) PROVE Smooth' /\ Holding' /\ (Doomed' \/ Agrees')
    <2>1. /\ UNCHANGED <<state, lock, kind, wd, current, captured, sid, lsid>>
          /\ pc[o] = "launch" /\ pc' = [pc EXCEPT ![o] = "final"]
      BY <1>11 DEF Launch
    <2>2. pane' = IF pane = "shell" THEN lsid[o] ELSE pane
      BY <1>11, CommandsWork DEF Launch, Launched
    <2>3. Agrees => Prepared(o)'
      BY <1>3, <1>4, <1>5, <2>1, <2>2 DEF Prepared
    <2> QED
      BY <1>1, <1>2, <2>1, <2>3, SessionNext DEF PhaseTwo
  <1> QED
    BY <1>7, <1>8, <1>9, <1>10, <1>11

(* Phase 3 writes what runs in the session, or what the exit has left.     *)
LEMMA SessionFinal ==
    ASSUME Sound, NEW o \in Op, Final(o)
    PROVE  Smooth' /\ Holding' /\ Agrees'
  <1> USE DEF Sound, IInv, TypeOK
  <1>1. /\ pc[o] = "final" /\ lock = None /\ lock' = None
        /\ pc' = [pc EXCEPT ![o] = "done"]
        /\ UNCHANGED <<kind, lsid, captured, pane>>
        /\ wd' \in {wd, [wd EXCEPT ![o] = "off"]}
    BY DEF Final, End, Goto, Disarm, world
  <1>2. o \in Working /\ Working = {o} /\ HasClaim(o) /\ lsid[o] \in Session
    BY <1>1, OneWorks DEF Working, PhaseTwo, HasClaim, LaunchesSession
  <1>3. Working' = {}
    BY <1>1, <1>2 DEF Working, PhaseTwo
  <1>4. \A p \in Op : pc[p] \notin {"held", "write"}
    BY <1>1, LifecycleAssumption DEF LockInv
  <1>5. Prepared(o)
    BY <1>2, <1>4 DEF Agrees, Doomed
  <1>6. \/ kind[o] = "suspend" /\ state' = "suspended" /\ sid' = sid
        \/ kind[o] # "suspend" /\ state' = "active" /\ sid' = lsid[o]
    BY <1>2 DEF Final, FinalizeSuspend, FinalizeToActive, Write
  <1>7. Smooth'
    BY <1>1, <1>6 DEF Smooth, PhaseTwo
  <1>8. Holding'
    BY <1>1, <1>4 DEF Holding
  <1>9. Agrees'
    BY <1>1, <1>2, <1>3, <1>5, <1>6 DEF Agrees, Prepared, OnRecord
  <1> QED
    BY <1>7, <1>8, <1>9

(* A watchdog only comes to take the claim of the call that is at work,    *)
(* which is then evicted, or it finds nothing to do.                       *)
LEMMA SessionWatchdog ==
    ASSUME Sound, NEW o \in Op, Watchdog(o)
    PROVE  Smooth' /\ Holding' /\ (Doomed' \/ Agrees')
  <1> USE DEF Sound, IInv, TypeOK
  <1>1. ~WatchdogKill(o)
    BY DEF WatchdogKill, Smooth
  <1>2. ASSUME WatchdogCheck(o), HasClaim(o) PROVE FALSE
    <2>1. state \in Transitional /\ state' = "failed" /\ Write("failed", {})
      BY <1>2, ClaimsAreTransitional DEF HasClaim, WatchdogCheck, Write
    <2>2. Working # {}
      BY <2>1 DEF ClaimIsOwned, Smooth, Working
    <2> QED
      BY <2>1, <2>2, NobodyTaken DEF Transitional
  <1>3. /\ UNCHANGED <<state, sid, captured, current, lock, pane, kind, pc, lsid>>
        /\ \E w \in {"fired", "off"} : wd' = [wd EXCEPT ![o] = w]
    BY <1>1, <1>2 DEF Watchdog, Fire, WatchdogCheck, row, world, KeepRow
  <1>4. Working' = Working
    BY <1>3 DEF Working
  <1>5. Smooth' /\ Holding'
    BY <1>3, <1>4 DEF Smooth, Holding
  <1>6. (Doomed' <=> Doomed) /\ (Agrees' <=> Agrees)
    BY <1>3, <1>4 DEF Doomed, Agrees, Prepared, OnRecord
  <1> QED
    BY <1>5, <1>6

(* Whoever takes the lock throughout changes nothing yet.                  *)
LEMMA SessionHold ==
    ASSUME Sound, NEW o \in Op, NEW k \in Kinds \cap Locking, Hold(o, k)
    PROVE  Smooth' /\ Holding' /\ Agrees'
  <1> USE DEF Sound, IInv, TypeOK
  <1>1. /\ pc[o] = "new" /\ lock = None /\ lock' = o /\ state # "absent"
        /\ current' = current \cup {o}
        /\ kind' = [kind EXCEPT ![o] = k]
        /\ UNCHANGED <<state, sid, captured, pane, lsid, wd>>
    BY DEF Hold
  <1>2. PICK l \in {"write", "held"} : /\ pc' = [pc EXCEPT ![o] = l]
                                       /\ l = "write" => k = "destroy"
    BY DEF Hold, Goto
  <1>3. \A p \in Op : pc[p] \notin {"held", "write"}
    BY <1>1, LifecycleAssumption DEF LockInv
  <1>4. Agrees
    BY <1>3 DEF Doomed
  <1>5. Working' = Working /\ o \notin Working
    BY <1>1, <1>2 DEF Working, PhaseTwo
  <1>6. Smooth'
    BY <1>1, <1>2 DEF Smooth, PhaseTwo
  <1>7. Holding'
    BY <1>1, <1>2, <1>3 DEF Holding
  <1>8. \A p \in Working : p # o /\ (Prepared(p) => Prepared(p)')
    BY <1>1, <1>2, <1>5 DEF Working, Prepared, OnRecord
  <1>9. Agrees'
    BY <1>1, <1>4, <1>5, <1>8 DEF Agrees, OnRecord
  <1> QED
    BY <1>6, <1>7, <1>9

(* A kill takes the session down before it writes; keys change nothing.    *)
LEMMA SessionHeld ==
    ASSUME Sound, NEW o \in Op, KillSession(o) \/ PasteKeys(o)
    PROVE  Smooth' /\ Holding' /\ (Doomed' \/ Agrees')
  <1> USE DEF Sound, IInv, TypeOK
  <1>1. /\ pc[o] = "held" /\ pc' = [pc EXCEPT ![o] = "write"]
        /\ UNCHANGED <<state, sid, captured, current, lock, kind, lsid, wd>>
    BY DEF KillSession, PasteKeys, Goto, row, world
  <1>2. lock = o /\ \A p \in Op \ {o} : pc[p] \notin {"held", "write"}
    BY <1>1 DEF LockInv
  <1>3. Working' = Working /\ o \notin Working
    BY <1>1 DEF Working, PhaseTwo
  <1>4. ASSUME KillSession(o) PROVE Smooth' /\ Holding' /\ (Doomed' \/ Agrees')
    <2>1. pane' = "gone" /\ kind[o] \in {"kill", "destroy"}
      BY <1>4, CommandsWork DEF KillSession
    <2>2. Smooth'
      BY <1>1, <2>1 DEF Smooth
    <2>3. Holding'
      BY <1>1, <1>2, <1>3, <2>1 DEF Holding
    <2>4. Doomed'
      BY <1>1, <1>2, <2>1 DEF Doomed
    <2> QED
      BY <2>2, <2>3, <2>4
  <1>5. ASSUME PasteKeys(o) PROVE Smooth' /\ Holding' /\ (Doomed' \/ Agrees')
    <2>1. pane' = pane /\ kind[o] \in {"compact", "paste"}
      BY <1>5 DEF PasteKeys, world
    <2>2. Smooth'
      BY <1>1, <2>1 DEF Smooth
    <2>3. Holding'
      BY <1>1, <1>2, <1>3, <2>1 DEF Holding
    <2>4. Agrees
      BY <1>1, <1>2 DEF Doomed
    <2>5. \A p \in Working : p # o /\ (Prepared(p) => Prepared(p)')
      BY <1>1, <1>3, <2>1 DEF Working, Prepared, OnRecord
    <2>6. Agrees'
      BY <1>1, <1>3, <2>1, <2>4, <2>5 DEF Agrees, OnRecord
    <2> QED
      BY <2>2, <2>3, <2>6
  <1> QED
    BY <1>4, <1>5

(* What a kill, a destroy or a compact writes fits the session they leave. *)
LEMMA SessionFinish ==
    ASSUME Sound, NEW o \in Op, Finish(o)
    PROVE  Smooth' /\ Holding' /\ Agrees'
  <1> USE DEF Sound, IInv, TypeOK
  <1>1. /\ pc[o] = "write" /\ pc' = [pc EXCEPT ![o] = "done"]
        /\ UNCHANGED <<pane, kind, lsid, wd>>
    BY DEF Finish, Goto
  <1>2. lock = o /\ \A p \in Op \ {o} : pc[p] \notin {"held", "write"}
    BY <1>1 DEF LockInv
  <1>3. Working' = Working /\ o \notin Working
    BY <1>1 DEF Working, PhaseTwo
  <1>4. Holding'
    BY <1>1, <1>2 DEF Holding
  <1>5. /\ state # "absent" /\ kind[o] \in Kinds
        /\ kind[o] = "kill" => o \in current /\ (Working = {} => pane = "gone")
    BY <1>1 DEF Holding
  <1>6. ASSUME NEW s \in {"suspended", "absent", "active"}, Write(s, {})
        PROVE  s # state \/ s = "suspended" => Working = {}
    BY <1>6, NobodyTaken, OneWorks DEF Transitional
  <1>7. \/ /\ kind[o] = "kill" /\ state' = "suspended" /\ captured' = captured
           /\ Working = {}
        \/ /\ kind[o] = "destroy" /\ state' = "absent" /\ captured' = None
           /\ Working = {}
        \/ /\ kind[o] \in {"compact", "paste"}
           /\ UNCHANGED <<sid, captured>>
           /\ \/ state' = state
              \/ state = "idle" /\ state' = "active"
    BY <1>5, <1>6 DEF Finish, Write
  <1>8. Smooth'
    BY <1>1, <1>7 DEF Smooth
  <1>9. CASE kind[o] \in {"kill", "destroy"}
    <2>1. kind[o] = "kill" => pane' = "gone" /\ "gone" \notin Session
      BY <1>1, <1>5, <1>7, <1>9, LifecycleAssumption DEF Session
    <2>2. Agrees'
      BY <1>3, <1>7, <1>9, <2>1 DEF Agrees, OnRecord
    <2> QED
      BY <1>4, <1>8, <2>2
  <1>10. CASE kind[o] \in {"compact", "paste"}
    <2>1. Agrees
      BY <1>2, <1>10 DEF Doomed
    <2>2. \A p \in Working : p # o /\ (Prepared(p) => Prepared(p)')
      BY <1>1, <1>3, <1>7, <1>10 DEF Working, Prepared, OnRecord
    <2>3. Agrees'
      BY <1>1, <1>3, <1>7, <1>10, <2>1, <2>2 DEF Agrees, OnRecord
    <2> QED
      BY <1>4, <1>8, <2>3
  <1> QED
    BY <1>7, <1>9, <1>10

(* A name that a destroy has freed starts with an empty row.               *)
LEMMA SessionCreated ==
    ASSUME Sound, CreateAgent
    PROVE  Smooth' /\ Holding' /\ Agrees'
  <1> USE DEF Sound, IInv, TypeOK
  <1>1. /\ state = "absent" /\ state' = "void" /\ Write("void", {})
        /\ UNCHANGED <<sid, captured, calls, world>>
    BY DEF CreateAgent, Write, Quiet
  <1>2. Working = {}
    BY <1>1, NobodyTaken
  <1>3. Working' = {}
    BY <1>1, <1>2 DEF Working, calls
  <1>4. Smooth' /\ Holding'
    BY <1>1 DEF Smooth, Holding, calls, world
  <1>5. Agrees'
    BY <1>1, <1>3 DEF Agrees
  <1> QED
    BY <1>4, <1>5

(* The invariant of the session is inductive when nothing fails.           *)
LEMMA SessionStep ==
    ASSUME Fault = {}, "kill" \notin Kinds \/ ~Captures,
           IInv, LockInv, SessionInv, Next
    PROVE  SessionInv'
  <1> SUFFICES ASSUME evicted' = {} PROVE Smooth' /\ Holding' /\ (Doomed' \/ Agrees')
    BY DEF SessionInv
  <1>1. evicted \subseteq evicted'
    <2>1. ASSUME NEW s, NEW self, Write(s, self) PROVE evicted \subseteq evicted'
      BY <2>1 DEF Write
    <2>2. CASE \E o \in Op : Start(o)
      BY <2>1, <2>2 DEF Start, Claim, Hold
    <2>3. CASE \E o \in Op : Work(o)
      BY <2>1, <2>3 DEF Work, Probe, Exit, KillOld, Clean, Create, Launch, Final,
         FinalizeSuspend, FinalizeToActive, MarkCreateFailed, Throw, WatchdogThrow, KeepRow
    <2>4. CASE \E o \in Op : Watchdog(o) \/ Locked(o)
      BY <2>1, <2>4 DEF Watchdog, Fire, WatchdogCheck, WatchdogKill,
         Locked, KillSession, PasteKeys, Finish, KeepRow
    <2>5. CASE Monitor \/ Environment
      BY <2>1, <2>5 DEF Monitor, MonitorActivity, MonitorFail, MonitorHeal, Environment,
         CreateAgent, CliExit, Lapse, RemoveProxy, UnregisterProxy, RegisterProxy,
         ProbeSession, SelfHeal, KeepRow
    <2> QED
      BY <2>2, <2>3, <2>4, <2>5 DEF Next
  <1>2. Sound
    BY <1>1 DEF Sound, SessionInv
  <1>3. \A o \in Op : ~MarkCreateFailed(o) /\ ~Throw(o) /\ ~WatchdogThrow(o)
    BY <1>2 DEF MarkCreateFailed, Throw, WatchdogThrow, Sound, Smooth
  <1>4. ~Monitor /\ (Environment => CreateAgent)
    BY <1>2 DEF Monitor, MonitorActivity, MonitorFail, MonitorHeal, Environment,
       CliExit, Lapse, RemoveProxy, UnregisterProxy, RegisterProxy, ProbeSession,
       SelfHeal, Sound, LockInv
  <1> QED
    BY <1>2, <1>3, <1>4, SessionClaim, SessionHold, SessionWork, SessionFinal,
       SessionWatchdog, SessionHeld, SessionFinish, SessionCreated
       DEF Next, Start, Work, Locked

(* What the calls rely on and what the row says of the session hold        *)
(* together, as long as nothing fails and no kill can be overtaken by the  *)
(* capture of a reload it interrupts.                                      *)
LEMMA SessionInvariance ==
    ASSUME Fault = {}, "kill" \notin Kinds \/ ~Captures
    PROVE  Spec => [](IInv /\ LockInv /\ SessionInv)
  <1>1. Init => LockInv
    BY InitIInv DEF IInv, Init, LockInv
  <1>2. Init => SessionInv
    BY LifecycleAssumption
       DEF Init, SessionInv, Smooth, Holding, Agrees, OnRecord, Working, PhaseTwo, Session
  <1>3. IInv /\ LockInv /\ SessionInv /\ IInv' /\ [Next]_vars => LockInv' /\ SessionInv'
    <2>1. CASE UNCHANGED vars
      BY <2>1 DEF LockInv, SessionInv, Smooth, Holding, Agrees, Doomed, Prepared,
                  OnRecord, TypeOK, Working, vars, row, world, calls
    <2>2. CASE Next
      BY <2>2, LockInvStep, SessionStep DEF IInv
    <2> QED
      BY <2>1, <2>2
  <1> QED
    BY <1>1, <1>2, <1>3, Invariance, PTL DEF Spec

(* While no call has lost its claim, an active agent that nobody works on  *)
(* runs the conversation its row names, for any number of calls.           *)
THEOREM ActiveSessionOnRecord ==
    ASSUME Fault = {}, "kill" \notin Kinds \/ ~Captures
    PROVE  Spec => []ActiveRunsItsSession
  <1>1. SessionInv => ActiveRunsItsSession
    BY LifecycleAssumption DEF SessionInv, ActiveRunsItsSession, Doomed, Agrees
  <1> QED
    BY <1>1, SessionInvariance, PTL

(* A reload that keeps its claim ends with the conversation it began with. *)
THEOREM ReloadContinues ==
    ASSUME Fault = {}, "kill" \notin Kinds \/ ~Captures
    PROVE  Spec => ReloadKeepsConversation
  <1> DEFINE Keeps == \A o \in Op :
                        /\ pc[o] = "final" /\ kind[o] = "reload" /\ evicted = {}
                        /\ state # "active" /\ state' = "active"
                        => sid' = sid
  <1>1. IInv /\ LockInv /\ SessionInv /\ IInv' /\ [Next]_vars => [Keeps]_<<state, sid>>
    <2> SUFFICES ASSUME IInv, LockInv, SessionInv, Next, NEW o \in Op,
                        pc[o] = "final", kind[o] = "reload", evicted = {},
                        state # "active", state' = "active"
                 PROVE  sid' = sid
      BY DEF vars, row
    <2>1. o \in Working /\ Working = {o} /\ state = "suspending"
      BY DEF IInv, OneClaim, HoldsClaim, Working, PhaseTwo, Claimed
    <2>2. CASE \E p \in Op : Final(p)
      <3>1. Final(o) /\ lock = None
        BY <2>1, <2>2 DEF Final, Working, PhaseTwo
      <3>2. Prepared(o)
        BY <2>1, <3>1, LifecycleAssumption DEF SessionInv, Doomed, Agrees
      <3> QED
        BY <3>1, <3>2 DEF Final, FinalizeSuspend, FinalizeToActive, Prepared, KeepRow
    <2>3. CASE \E p \in Op : Start(p) \/ Watchdog(p) \/ Locked(p)
      BY <2>1, <2>3 DEF Start, Claim, Hold, Claimed, Watchdog, Fire, WatchdogCheck,
         WatchdogKill, Locked, KillSession, PasteKeys, Finish, Write, KeepRow, row
    <2>4. CASE \E p \in Op : Work(p) /\ ~Final(p)
      BY <2>1, <2>4 DEF Work, Probe, Exit, KillOld, Clean, Create, Launch,
         MarkCreateFailed, Throw, WatchdogThrow, Write, KeepRow, row
    <2>5. CASE Monitor \/ Environment
      BY <2>1, <2>5 DEF Monitor, MonitorActivity, MonitorFail, MonitorHeal, Environment,
         CreateAgent, CliExit, Lapse, RemoveProxy, UnregisterProxy, RegisterProxy,
         ProbeSession, SelfHeal, Quiet
    <2> QED
      BY <2>2, <2>3, <2>4, <2>5 DEF Next
  <1> QED
    BY <1>1, SessionInvariance, PTL DEF Spec, ReloadKeepsConversation
=============================================================================

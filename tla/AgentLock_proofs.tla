-------------------------- MODULE AgentLock_proofs --------------------------
(***************************************************************************)
(* Proofs about AgentLock, for every set of agents and calls and every     *)
(* Duration <= Timeout.                                                    *)
(***************************************************************************)
EXTENDS AgentLock, TLAPS

(* A row names a call that was granted the agent it stands for.            *)
RowsAreGranted ==
    \A a \in Agent, c \in Call :
        by[a] = c => target[c] = a /\ pc[c] \in {"holding", "gone"}

(* HolderKeepsItsLease, with the time its row has left.                    *)
HolderRow ==
    \A c \in Call : pc[c] = "holding" /\ held[c] <= Duration =>
        by[target[c]] = c /\ left[target[c]] = Duration - held[c]

(* Whoever kept a call waiting was granted its lock and never asks again.  *)
OwnersWereGranted ==
    \A c, d \in Call : d \in sawOwners[c] => pc[d] \notin {"new", "polling"}

(* A call begins to wait when its first turn finds an owner; as long as    *)
(* that is the only owner it has seen, what is left of the lease and what  *)
(* the call has waited fit in one lease.                                   *)
SoleOwner ==
    \A c \in Call : pc[c] = "polling" =>
        /\ sawOwners[c] # {}
        /\ \A d \in Call :
              sawOwners[c] = {d} /\ by[target[c]] = d /\ left[target[c]] >= 0
              => left[target[c]] + waited[c] <= Duration

NewIsFresh ==
    \A c \in Call :
        /\ pc[c] = "new" => waited[c] = 0 /\ sawOwners[c] = {}
        /\ pc[c] \in {"new", "polling"} => held[c] = 0

IInv == /\ TypeOK
        /\ RowsAreGranted
        /\ HolderRow
        /\ OwnersWereGranted
        /\ SoleOwner
        /\ NewIsFresh
        /\ TimeoutNeedsTwoOwners

-----------------------------------------------------------------------------
(* The two outcomes of a turn of the polling loop, each with its effect on *)
(* every variable.                                                         *)
Granted(c) ==
    /\ Survivor(target[c]) = Nobody
    /\ by' = [b \in Agent |-> IF b = target[c] THEN c ELSE Survivor(b)]
    /\ left' = [left EXCEPT ![target[c]] = Duration]
    /\ pc' = [pc EXCEPT ![c] = "holding"]
    /\ UNCHANGED <<target, waited, held, sawOwners>>

Blocked(c) ==
    /\ Survivor(target[c]) # Nobody
    /\ by' = [b \in Agent |-> Survivor(b)]
    /\ pc' = [pc EXCEPT ![c] = IF GivesUp(c) THEN "timedOut" ELSE "polling"]
    /\ sawOwners' = [sawOwners EXCEPT ![c] = @ \cup {Survivor(target[c])}]
    /\ UNCHANGED <<left, target, waited, held>>

(* lock(): a turn of the polling loop either inserts the row of the call   *)
(* or leaves the call waiting or failed.                                   *)
LEMMA TurnOfTheLoop ==
    ASSUME TypeOK, NEW c \in Call, Lock(c) \/ Poll(c)
    PROVE  /\ pc[c] \in {"new", "polling"}
           /\ Granted(c) \/ Blocked(c)
  <1>1. target[c] \in Agent
    BY DEF TypeOK
  <1>2. Attempt(c) /\ UNCHANGED <<target, waited, held>> /\ pc[c] \in {"new", "polling"}
    BY DEF Lock, Poll
  <1> QED
    BY <1>1, <1>2 DEF Attempt, ExpiresIn, Free, Granted, Blocked

(* The initial table is empty and no call has been made.                   *)
LEMMA InitIInv == Init => IInv
  BY AgentLockAssumption
     DEF Init, IInv, TypeOK, RowsAreGranted, HolderRow, OwnersWereGranted,
         SoleOwner, NewIsFresh, TimeoutNeedsTwoOwners, PC

(* A call that gets a lock leaves every other row alone.                   *)
LEMMA GrantedIInv ==
    ASSUME IInv, NEW c \in Call, pc[c] \in {"new", "polling"}, Granted(c)
    PROVE  IInv'
  <1> USE AgentLockAssumption DEF Granted, Survivor, Expired
  <1>1. TypeOK'
    BY DEF IInv, TypeOK, PC
  <1>2. RowsAreGranted'
    BY DEF IInv, TypeOK, PC, RowsAreGranted
  <1>3. HolderRow'
    <2> SUFFICES ASSUME NEW e \in Call, (pc[e] = "holding" /\ held[e] <= Duration)'
                 PROVE  by'[target'[e]] = e /\ left'[target'[e]] = Duration - held'[e]
      BY DEF HolderRow
    <2>1. CASE e = c
      BY <2>1 DEF IInv, TypeOK, NewIsFresh
    <2>2. CASE e # c
      <3>1. by[target[e]] = e /\ left[target[e]] = Duration - held[e]
        BY <2>2 DEF IInv, TypeOK, HolderRow
      <3>2. left[target[e]] >= 0 /\ target[e] # target[c]
        BY <3>1 DEF IInv, TypeOK
      <3> QED BY <2>2, <3>1, <3>2 DEF IInv, TypeOK
    <2> QED BY <2>1, <2>2
  <1>4. OwnersWereGranted'
    BY DEF IInv, TypeOK, PC, OwnersWereGranted
  <1>5. SoleOwner'
    BY DEF IInv, TypeOK, PC, SoleOwner, OwnersWereGranted
  <1>6. NewIsFresh' /\ TimeoutNeedsTwoOwners'
    BY DEF IInv, TypeOK, PC, NewIsFresh, TimeoutNeedsTwoOwners
  <1> QED
    BY <1>1, <1>2, <1>3, <1>4, <1>5, <1>6 DEF IInv

(* A call that finds the lock held writes nothing: it sleeps or gives up.  *)
LEMMA BlockedIInv ==
    ASSUME IInv, NEW c \in Call, pc[c] \in {"new", "polling"}, Blocked(c)
    PROVE  IInv'
  <1> USE AgentLockAssumption DEF Blocked, Survivor, Expired
  <1> DEFINE a == target[c]
  <1>0. a \in Agent /\ by[a] \in Call /\ left[a] >= 0 /\ Survivor(a) = by[a]
    BY DEF IInv, TypeOK
  <1>1. TypeOK'
    BY <1>0 DEF IInv, TypeOK, PC
  <1>2. RowsAreGranted'
    BY <1>0 DEF IInv, TypeOK, PC, RowsAreGranted
  <1>3. HolderRow'
    BY <1>0 DEF IInv, TypeOK, PC, HolderRow
  <1>4. OwnersWereGranted'
    BY <1>0 DEF IInv, TypeOK, PC, OwnersWereGranted, RowsAreGranted
  <1>5. SoleOwner'
    <2> SUFFICES ASSUME NEW e \in Call, (pc[e] = "polling")'
                 PROVE  /\ sawOwners'[e] # {}
                        /\ \A d \in Call :
                             sawOwners'[e] = {d} /\ by'[target'[e]] = d /\ left'[target'[e]] >= 0
                             => left'[target'[e]] + waited'[e] <= Duration
      BY DEF SoleOwner
    <2>1. CASE e = c
      <3>1. sawOwners'[c] = sawOwners[c] \cup {by[a]}
        BY <1>0 DEF IInv, TypeOK
      <3>2. sawOwners[c] = {} => waited[c] = 0
        BY DEF IInv, SoleOwner, NewIsFresh
      <3>3. ASSUME NEW d \in Call, sawOwners'[c] = {d}
            PROVE  left[a] + waited[c] <= Duration
        <4>1. d = by[a] /\ (sawOwners[c] = {} \/ sawOwners[c] = {d})
          BY <3>1, <3>3
        <4>2. CASE sawOwners[c] = {}
          BY <1>0, <3>2, <4>2 DEF IInv, TypeOK
        <4>3. CASE sawOwners[c] = {d}
          <5>1. pc[c] = "polling"
            BY <4>3 DEF IInv, NewIsFresh
          <5> QED BY <1>0, <4>1, <4>3, <5>1 DEF IInv, SoleOwner
        <4> QED BY <4>1, <4>2, <4>3
      <3> QED BY <2>1, <3>1, <3>3 DEF IInv, TypeOK
    <2>2. CASE e # c
      BY <2>2 DEF IInv, TypeOK, SoleOwner
    <2> QED BY <2>1, <2>2
  <1>6. NewIsFresh'
    BY DEF IInv, TypeOK, PC, NewIsFresh
  <1>7. TimeoutNeedsTwoOwners'
    <2> SUFFICES ASSUME NEW e \in Call, (pc[e] = "timedOut")'
                 PROVE  \E d, f \in sawOwners'[e] : d # f
      BY DEF TimeoutNeedsTwoOwners
    <2>1. CASE e = c
      <3>1. waited[c] > Duration /\ waited[c] \in Nat
        BY <2>1 DEF GivesUp, IInv, TypeOK
      <3>2. pc[c] = "polling" /\ sawOwners[c] # {}
        BY <3>1 DEF IInv, NewIsFresh, SoleOwner
      <3>3. sawOwners[c] # {by[a]}
        BY <1>0, <3>1, <3>2 DEF IInv, TypeOK, SoleOwner
      <3>4. \E d \in sawOwners[c] : d # by[a]
        BY <3>2, <3>3
      <3> QED BY <2>1, <1>0, <3>4 DEF IInv, TypeOK
    <2>2. CASE e # c
      BY <2>2 DEF IInv, TypeOK, TimeoutNeedsTwoOwners
    <2> QED BY <2>1, <2>2
  <1> QED
    BY <1>1, <1>2, <1>3, <1>4, <1>5, <1>6, <1>7 DEF IInv

(* Releasing deletes the row of the caller, if it still is its row.        *)
LEMMA UnlockIInv ==
    ASSUME IInv, NEW c \in Call, Unlock(c)
    PROVE  IInv'
  <1> USE AgentLockAssumption DEF Unlock, OwnsRow
  <1>1. TypeOK'
    BY DEF IInv, TypeOK, PC
  <1>2. RowsAreGranted'
    BY DEF IInv, TypeOK, PC, RowsAreGranted
  <1>3. HolderRow'
    BY DEF IInv, TypeOK, PC, RowsAreGranted, HolderRow
  <1>4. OwnersWereGranted'
    BY DEF IInv, TypeOK, PC, OwnersWereGranted
  <1>5. SoleOwner'
    BY DEF IInv, TypeOK, PC, SoleOwner
  <1>6. NewIsFresh' /\ TimeoutNeedsTwoOwners'
    BY DEF IInv, TypeOK, PC, NewIsFresh, TimeoutNeedsTwoOwners
  <1> QED
    BY <1>1, <1>2, <1>3, <1>4, <1>5, <1>6 DEF IInv

(* A restart ends every call and leaves the rows to expire.                *)
LEMMA RestartIInv == IInv /\ Restart => IInv'
  BY DEF IInv, Restart, TypeOK, PC, RowsAreGranted, HolderRow, OwnersWereGranted,
         SoleOwner, NewIsFresh, TimeoutNeedsTwoOwners

(* Time only makes rows expire: nobody becomes an owner by it.             *)
LEMMA TickIInv ==
    ASSUME IInv, Tick
    PROVE  IInv'
  <1> USE AgentLockAssumption DEF Tick
  <1>1. TypeOK'
    BY DEF IInv, TypeOK, PC
  <1>2. RowsAreGranted' /\ OwnersWereGranted'
    BY DEF IInv, TypeOK, RowsAreGranted, OwnersWereGranted
  <1>3. HolderRow'
    BY DEF IInv, TypeOK, HolderRow
  <1>4. SoleOwner'
    BY DEF IInv, TypeOK, SoleOwner
  <1>5. NewIsFresh' /\ TimeoutNeedsTwoOwners'
    BY DEF IInv, TypeOK, NewIsFresh, TimeoutNeedsTwoOwners
  <1> QED
    BY <1>1, <1>2, <1>3, <1>4, <1>5 DEF IInv

(* The inductive invariant of the lock table.                              *)
THEOREM Invariance == Spec => []IInv
  <1>1. ASSUME IInv, [Next]_vars
        PROVE  IInv'
    <2>1. CASE \E c \in Call : Lock(c) \/ Poll(c)
      <3>1. PICK c \in Call : Lock(c) \/ Poll(c)
        BY <2>1
      <3>2. pc[c] \in {"new", "polling"} /\ (Granted(c) \/ Blocked(c))
        BY <1>1, <3>1, TurnOfTheLoop DEF IInv
      <3> QED BY <1>1, <3>2, GrantedIInv, BlockedIInv
    <2>2. CASE \E c \in Call : Unlock(c)
      BY <1>1, <2>2, UnlockIInv
    <2>3. CASE Restart
      BY <1>1, <2>3, RestartIInv
    <2>4. CASE Tick
      BY <1>1, <2>4, TickIInv
    <2>5. CASE UNCHANGED vars
      BY <1>1, <2>5 DEF vars, IInv, TypeOK, RowsAreGranted, HolderRow, OwnersWereGranted,
                        SoleOwner, NewIsFresh, TimeoutNeedsTwoOwners, OwnsRow
    <2> QED BY <1>1, <2>1, <2>2, <2>3, <2>4, <2>5 DEF Next
  <1> QED BY <1>1, InitIInv, PTL DEF Spec

(* Every variable keeps its type, among them that a lease never lasts      *)
(* longer than Duration.                                                   *)
THEOREM TypeCorrect == Spec => []TypeOK
  BY Invariance, PTL DEF IInv

(* A call within its lease owns its row.                                   *)
THEOREM LeaseIsKept == Spec => []HolderKeepsItsLease
  <1>1. IInv => HolderKeepsItsLease
    BY DEF IInv, HolderRow, HolderKeepsItsLease, OwnsRow
  <1> QED BY <1>1, Invariance, PTL

(* Two calls never run under the same lock within their leases.            *)
THEOREM MutualExclusion == Spec => []ExclusiveWithinLease
  <1>1. IInv => ExclusiveWithinLease
    BY AgentLockAssumption DEF IInv, TypeOK, HolderRow, ExclusiveWithinLease
  <1> QED BY <1>1, Invariance, PTL

(* One hung or crashed owner never makes a call of lock() throw.           *)
THEOREM OneOwnerNeverTimesOut == Spec => []TimeoutNeedsTwoOwners
  BY Invariance, PTL DEF IInv

-----------------------------------------------------------------------------
(* Every step of the table is a step of the lease or leaves it unchanged.  *)
LEMMA StepImplementsLease ==
    ASSUME IInv, [Next]_vars
    PROVE  [L!Next]_(L!vars)
  <1> USE AgentLockAssumption DEF Survivor, Expired
  <1>1. ASSUME NEW c \in Call, Granted(c), pc[c] \in {"new", "polling"}
        PROVE  L!Grant(target[c], c)
    <2>1. target[c] \in Agent /\ c # Nobody
      BY DEF IInv, TypeOK
    <2>2. /\ by' = [b \in Agent |-> IF b = target[c] THEN c ELSE Survivor(b)]
          /\ left' = [left EXCEPT ![target[c]] = Duration]
          /\ left \in [Agent -> -1 .. Duration]
      BY <1>1 DEF Granted, IInv, TypeOK
    <2>3. \A b \in Agent : Survivor(b)' = IF b = target[c] THEN c ELSE Survivor(b)
      BY <2>1, <2>2
    <2>4. \A b \in Agent : b # target[c] => left'[b] = left[b]
      BY <2>2
    <2>5. left'[target[c]] = Duration
      BY <2>1, <2>2
    <2> HIDE DEF Survivor, Expired
    <2>6. [b \in Agent |-> Survivor(b)]' = [[b \in Agent |-> Survivor(b)] EXCEPT ![target[c]] = c]
      BY <2>1, <2>3
    <2>7. [b \in Agent |-> IF Survivor(b) = Nobody THEN 0 ELSE left[b]]'
          = [[b \in Agent |-> IF Survivor(b) = Nobody THEN 0 ELSE left[b]]
                EXCEPT ![target[c]] = Duration]
      BY <2>1, <2>3, <2>4, <2>5
    <2>8. Survivor(target[c]) = Nobody
      BY <1>1 DEF Granted
    <2> QED BY <2>1, <2>6, <2>7, <2>8 DEF L!Grant
  <1>2. ASSUME NEW c \in Call, Blocked(c)
        PROVE  UNCHANGED L!vars
    BY <1>2 DEF Blocked, L!vars, IInv, TypeOK
  <1>3. ASSUME NEW c \in Call, Unlock(c)
        PROVE  L!Return(target[c]) \/ UNCHANGED L!vars
    BY <1>3 DEF Unlock, OwnsRow, L!Return, L!vars, IInv, TypeOK
  <1>4. CASE Restart
    BY <1>4 DEF Restart, L!vars
  <1>5. CASE Tick
    BY <1>5 DEF Tick, L!Elapse, L!Next, IInv, TypeOK
  <1>6. CASE UNCHANGED vars
    BY <1>6 DEF vars, L!vars
  <1>7. CASE \E c \in Call : Lock(c) \/ Poll(c)
    <2>1. PICK c \in Call : Lock(c) \/ Poll(c)
      BY <1>7
    <2>2. pc[c] \in {"new", "polling"} /\ (Granted(c) \/ Blocked(c))
      BY <2>1, TurnOfTheLoop DEF IInv
    <2> QED BY <2>2, <1>1, <1>2 DEF L!Next, IInv, TypeOK
  <1>8. CASE \E c \in Call : Unlock(c)
    <2>1. PICK c \in Call : Unlock(c)
      BY <1>8
    <2>2. target[c] \in Agent
      BY DEF IInv, TypeOK
    <2>3. CASE L!Return(target[c])
      <3>1. \E a \in Agent : L!Return(a)
        BY <2>2, <2>3 DEF L!Return
      <3> QED BY <3>1 DEF L!Next
    <2> QED BY <2>1, <2>3, <1>3
  <1> QED BY <1>4, <1>5, <1>6, <1>7, <1>8 DEF Next

(* LockManager implements the abstract lease.                              *)
THEOREM Refinement == Spec => LeaseSpec
  <1>1. Init => L!Init
    BY DEF Init, L!Init, Survivor
  <1> QED BY <1>1, StepImplementsLease, Invariance, PTL DEF Spec, LeaseSpec, L!Spec
=============================================================================

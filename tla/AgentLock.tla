----------------------------- MODULE AgentLock -----------------------------
(***************************************************************************)
(* The timed lock on an agent: LockManager in src/src/shared/lock.ts.      *)
(*                                                                         *)
(* A row of the SQLite table agent_locks names the call that owns the      *)
(* agent and the time its lease expires.  SQLite calls are synchronous, so *)
(* one turn of the loop in lock() is atomic, and so is unlock(); the code  *)
(* that runs while the lock is held awaits, and may outlive its lease.     *)
(* Rows are on disk: a restart of the orchestrator forgets every call but  *)
(* no row.                                                                 *)
(*                                                                         *)
(* Time is relative, in ticks: left[a] is expires_at - now, and -1 stands  *)
(* for every expired value; waited[c] is now - start.                      *)
(***************************************************************************)
EXTENDS Integers, FiniteSets

CONSTANTS Agent,     \* agent names, the primary key of agent_locks
          Call,      \* lock() calls; generateToken makes every lockId unique
          Nobody,    \* no row
          Duration,  \* durationMs: how long a lease lasts
          Timeout    \* timeoutMs: how long lock() polls before it throws

(* Every caller leaves both at their defaults, 30 s and 60 s.              *)
ASSUME AgentLockAssumption == /\ Nobody \notin Call
                              /\ Duration \in Nat
                              /\ Timeout \in Nat
                              /\ Timeout >= Duration

VARIABLES by,        \* by[a]: locked_by of the row for a, or Nobody
          left,      \* left[a]: ticks until that row expires, -1 once it has
          pc,        \* pc[c]: where call c is
          target,    \* target[c]: the agent c asked for
          waited,    \* waited[c]: ticks since c began to poll
          held,      \* history: ticks since c was granted the lock
          sawOwners  \* history: the calls that have kept c waiting

vars == <<by, left, pc, target, waited, held, sawOwners>>

PC == {"new", "polling", "holding", "done", "timedOut", "gone"}

TypeOK == /\ by \in [Agent -> Call \cup {Nobody}]
          /\ left \in [Agent -> -1 .. Duration]
          /\ pc \in [Call -> PC]
          /\ target \in [Call -> Agent]
          /\ waited \in [Call -> 0 .. Timeout + 1]
          /\ held \in [Call -> 0 .. Duration + 1]
          /\ sawOwners \in [Call -> SUBSET Call]

Init == /\ by = [a \in Agent |-> Nobody]
        /\ left = [a \in Agent |-> -1]
        /\ pc = [c \in Call |-> "new"]
        /\ target \in [Call -> Agent]
        /\ waited = [c \in Call |-> 0]
        /\ held = [c \in Call |-> 0]
        /\ sawOwners = [c \in Call |-> {}]

-----------------------------------------------------------------------------
(* deleteExpired: WHERE expires_at < now.                                  *)
ExpiredEarly(a) == left[a] <= 0                                   \* mutant
NeverExpired(a) == FALSE                                          \* mutant
Expired(a) == left[a] < 0

Survivor(a) == IF Expired(a) THEN Nobody ELSE by[a]

(* INSERT OR IGNORE on the primary key: a row that is there wins.          *)
Replaceable(a) == TRUE                                            \* mutant
Free(a) == Survivor(a) = Nobody

(* insertLock: expires_at is now + durationMs.                             *)
LongLease == Timeout                                              \* mutant
ExpiresIn == Duration

GivesUpAtOnce(c) == waited[c] >= 0                                \* mutant
GivesUp(c) == waited[c] > Timeout

(* One turn of the polling loop: rows that have expired are deleted for    *)
(* every agent, then the call inserts its row, throws, or sleeps.          *)
Attempt(c) ==
    LET a == target[c]
        kept == [b \in Agent |-> Survivor(b)]
    IN  \/ /\ Free(a)
           /\ by' = [kept EXCEPT ![a] = c]
           /\ left' = [left EXCEPT ![a] = ExpiresIn]
           /\ pc' = [pc EXCEPT ![c] = "holding"]
           /\ UNCHANGED sawOwners
        \/ /\ ~Free(a)
           /\ by' = kept
           /\ pc' = [pc EXCEPT ![c] = IF GivesUp(c) THEN "timedOut" ELSE "polling"]
           /\ sawOwners' = [sawOwners EXCEPT ![c] = @ \cup {kept[a]}]
           /\ UNCHANGED left

(* lock() runs its first turn before it yields.                            *)
Lock(c) == /\ pc[c] = "new"
           /\ Attempt(c)
           /\ UNCHANGED <<target, waited, held>>

Poll(c) == /\ pc[c] = "polling"
           /\ Attempt(c)
           /\ UNCHANGED <<target, waited, held>>

(* The finally of withLock: deleteLock names both the agent and the        *)
(* lockId, so a call whose lease ran out deletes nothing.                  *)
OwnsRow(c) == by[target[c]] = c
OwnsAnyRow(c) == by[target[c]] # Nobody                           \* mutant

UnlockAny(c) ==                                                   \* mutant
    /\ pc[c] = "holding"
    /\ pc' = [pc EXCEPT ![c] = "done"]
    /\ by' = IF OwnsAnyRow(c) THEN [by EXCEPT ![target[c]] = Nobody] ELSE by
    /\ UNCHANGED <<left, target, waited, held, sawOwners>>

Unlock(c) ==
    /\ pc[c] = "holding"
    /\ pc' = [pc EXCEPT ![c] = "done"]
    /\ by' = IF OwnsRow(c) THEN [by EXCEPT ![target[c]] = Nobody] ELSE by
    /\ UNCHANGED <<left, target, waited, held, sawOwners>>

(* The process dies and starts again: its calls are gone, its rows are not.*)
Restart == /\ pc' = [c \in Call |-> IF pc[c] \in {"polling", "holding"}
                                    THEN "gone" ELSE pc[c]]
           /\ UNCHANGED <<by, left, target, waited, held, sawOwners>>

Tick == /\ left' = [a \in Agent |-> IF left[a] < 0 THEN -1 ELSE left[a] - 1]
        /\ waited' = [c \in Call |-> IF pc[c] = "polling" /\ waited[c] <= Timeout
                                     THEN waited[c] + 1 ELSE waited[c]]
        /\ held' = [c \in Call |-> IF pc[c] = "holding" /\ held[c] <= Duration
                                   THEN held[c] + 1 ELSE held[c]]
        /\ UNCHANGED <<by, pc, target, sawOwners>>

Next == \/ \E c \in Call : Lock(c) \/ Poll(c) \/ Unlock(c)
        \/ Restart
        \/ Tick

Spec == Init /\ [][Next]_vars

(* setTimeout brings a polling call back, and the clock does not stop.  A  *)
(* holder need not ever finish.                                            *)
FairSpec == /\ Spec
            /\ WF_vars(Tick)
            /\ \A c \in Call : WF_vars(Poll(c))

-----------------------------------------------------------------------------
(* Safety                                                                  *)

(* A call that runs under the lock and is still within its lease owns the  *)
(* row of its agent: no sweep of expired rows, late unlock of another call *)
(* or competing insert has taken it.                                       *)
HolderKeepsItsLease ==
    \A c \in Call : pc[c] = "holding" /\ held[c] <= Duration => OwnsRow(c)

(* Two calls run under the lock of one agent at the same time only when    *)
(* one of them has overrun its lease.                                      *)
ExclusiveWithinLease ==
    \A c, d \in Call :
        /\ c # d
        /\ pc[c] = "holding" /\ pc[d] = "holding"
        /\ target[c] = target[d]
        => held[c] > Duration \/ held[d] > Duration

(* lock() throws only under real contention: it has been kept waiting by   *)
(* two different owners, so a single holder that hangs, or that a crash    *)
(* left behind in the table, never makes a call fail.                      *)
TimeoutNeedsTwoOwners ==
    \A c \in Call : pc[c] = "timedOut" =>
        \E d, e \in sawOwners[c] : d # e

(* The table implements the lease: an expired row is as good as no row.    *)
L == INSTANCE Lease
         WITH owner <- [a \in Agent |-> Survivor(a)],
              left <- [a \in Agent |-> IF Survivor(a) = Nobody THEN 0 ELSE left[a]]
LeaseSpec == L!Spec

(* Liveness: a call of lock() gets the agent, even from an owner that      *)
(* never gives it back, unless a second owner comes in between.            *)
WaitIsGranted ==
    \A c \in Call : pc[c] = "polling" ~>
        \/ pc[c] \in {"holding", "gone"}
        \/ Cardinality(sawOwners[c]) > 1
=============================================================================

------------------------------- MODULE Lease -------------------------------
(***************************************************************************)
(* What the per-agent lock promises to the code that takes it: an agent is *)
(* owned by at most one call at a time, ownership changes hands only       *)
(* through a moment in which nobody owns the agent, and an owner that does *)
(* not give the agent back loses it when its lease of Duration ticks ends, *)
(* never earlier.  AgentLock shows that the SQLite table of                *)
(* src/src/shared/lock.ts implements this.                                 *)
(***************************************************************************)
EXTENDS Naturals

CONSTANTS Agent,     \* the agents that can be locked
          Call,      \* the lock() calls, each with an identity of its own
          Nobody,    \* not a call: nobody owns the agent
          Duration   \* ticks a lease lasts

VARIABLES owner,     \* owner[a]: the call whose lease on a is running
          left       \* left[a]: ticks left of that lease

vars == <<owner, left>>

TypeOK == /\ owner \in [Agent -> Call \cup {Nobody}]
          /\ left \in [Agent -> 0 .. Duration]

Init == /\ owner = [a \in Agent |-> Nobody]
        /\ left = [a \in Agent |-> 0]

Grant(a, c) == /\ owner[a] = Nobody
               /\ owner' = [owner EXCEPT ![a] = c]
               /\ left' = [left EXCEPT ![a] = Duration]

Return(a) == /\ owner[a] # Nobody
             /\ owner' = [owner EXCEPT ![a] = Nobody]
             /\ left' = [left EXCEPT ![a] = 0]

(* A tick: the leases that have no tick left end, the others get shorter.  *)
Elapse == /\ owner' = [a \in Agent |-> IF left[a] = 0 THEN Nobody ELSE owner[a]]
          /\ left' = [a \in Agent |-> IF left[a] = 0 THEN 0 ELSE left[a] - 1]

Next == \/ \E a \in Agent, c \in Call : Grant(a, c)
        \/ \E a \in Agent : Return(a)
        \/ Elapse

Spec == Init /\ [][Next]_vars
=============================================================================

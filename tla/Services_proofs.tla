--------------------------- MODULE Services_proofs ---------------------------
(***************************************************************************)
(* Proofs about the components in Services, each for every value of its    *)
(* constants that ServicesAssumption allows.                               *)
(***************************************************************************)
EXTENDS Services, WellFoundedInduction, FiniteSetTheorems, TLAPS

-----------------------------------------------------------------------------
(* Numbers                                                                 *)

(* Every non-empty set of numbers has a least one.                         *)
LEMMA LeastNumber ==
    ASSUME NEW S \in SUBSET Nat, S # {}
    PROVE  \E n \in S : \A m \in S : n <= m
  <1>1. PICK n \in S : \A m \in S : ~ (<<m, n>> \in OpToRel(<, Nat))
    BY NatLessThanWellFounded, WFMin
  <1>2. \A m \in S : ~(m < n)
    BY <1>1 DEF OpToRel
  <1> QED
    BY <1>2

(* What Max returns when there is something to return.                     *)
LEMMA MaxOf ==
    ASSUME NEW S, NEW m \in S, \A n \in S : m >= n
    PROVE  Reminder!Max(S) \in S /\ \A n \in S : Reminder!Max(S) >= n
  BY DEF Reminder!Max

(* A set of numbers with a bound has a maximum.                            *)
LEMMA GreatestNumber ==
    ASSUME NEW N \in Nat, NEW S \in SUBSET (0 .. N), S # {}
    PROVE  \E n \in S : \A m \in S : n >= m
  <1> DEFINE T == {N - n : n \in S}
  <1>1. T \in SUBSET Nat /\ T # {}
    <2>1. \A n \in S : N - n \in Nat
      OBVIOUS
    <2> QED
      BY <2>1
  <1>2. PICK t \in T : \A u \in T : t <= u
    BY <1>1, LeastNumber
  <1>3. PICK n \in S : t = N - n
    BY <1>2
  <1>4. \A m \in S : N - n <= N - m
    BY <1>2, <1>3
  <1> QED
    BY <1>4

(* A function on an interval that is given by its first value and by how   *)
(* each of the others follows from the one before.                         *)
Follows(f, X, m, n, x, g) ==
    f \in [m .. n -> X] /\ f[m] = x /\ \A k \in m + 1 .. n : f[k] = g[f[k - 1]][k]

(* There is such a function: what a recursive definition on an interval    *)
(* needs in order to define what it says.                                  *)
LEMMA Recursion ==
    ASSUME NEW X, NEW m \in Nat, NEW n \in Nat, m <= n,
           NEW x \in X, NEW g \in [X -> [Nat -> X]]
    PROVE  \E f : Follows(f, X, m, n, x, g)
  <1> DEFINE Is(f, k) == Follows(f, X, m, k, x, g)
             S == {k \in m .. n : ~\E f : Is(f, k)}
  <1>1. S \in SUBSET Nat
    OBVIOUS
  <1>2. \A k \in m .. n : k \notin S => \E f : Is(f, k)
    OBVIOUS
  <1>3. \A k \in S : k \in m .. n /\ ~\E f : Is(f, k)
    OBVIOUS
  <1>4. Is([i \in m .. m |-> x], m)
    BY DEF Follows
  <1> HIDE DEF S
  <1> SUFFICES ASSUME S # {} PROVE FALSE
    <2>1. n \in m .. n
      OBVIOUS
    <2> QED
      BY <1>2, <2>1
  <1>5. PICK k \in S : \A i \in S : k <= i
    BY <1>1, LeastNumber
  <1>6. k \in m + 1 .. n /\ k - 1 \in m .. n /\ k - 1 \notin S
    <2>1. k \in m .. n /\ k # m
      BY <1>3, <1>4
    <2> QED
      BY <1>5, <2>1
  <1>7. PICK f : Is(f, k - 1)
    BY <1>2, <1>6
  <1>8. /\ f \in [m .. k - 1 -> X] /\ f[m] = x
        /\ \A i \in m + 1 .. k - 1 : f[i] = g[f[i - 1]][i]
    BY <1>7 DEF Follows
  <1>9. g[f[k - 1]][k] \in X
    BY <1>6, <1>8
  <1> DEFINE h == [i \in m .. k |-> IF i = k THEN g[f[k - 1]][k] ELSE f[i]]
  <1>10. Is(h, k)
    <2>1. h \in [m .. k -> X]
      BY <1>6, <1>8, <1>9
    <2>2. h[m] = x
      BY <1>6, <1>8
    <2>3. \A i \in m + 1 .. k : h[i] = g[h[i - 1]][i]
      <3> SUFFICES ASSUME NEW i \in m + 1 .. k PROVE h[i] = g[h[i - 1]][i]
        OBVIOUS
      <3>1. i - 1 \in m .. k - 1 /\ i \in m .. k
        BY <1>6
      <3>2. h[i - 1] = f[i - 1] /\ h[i] = (IF i = k THEN g[f[k - 1]][k] ELSE f[i])
        BY <1>6, <3>1
      <3> HIDE DEF h
      <3>3. CASE i = k
        BY <3>2, <3>3
      <3>4. CASE i # k
        <4>1. i \in m + 1 .. k - 1
          BY <1>6, <3>4
        <4>2. f[i] = g[f[i - 1]][i]
          BY <1>8, <4>1
        <4> QED
          BY <3>2, <3>4, <4>2
      <3> QED
        BY <3>3, <3>4
    <2> HIDE DEF h
    <2> QED
      BY <2>1, <2>2, <2>3 DEF Follows
  <1> QED
    BY <1>3, <1>10

-----------------------------------------------------------------------------
(* Reminders                                                               *)

(* No two reminders of an agent have the same place in its order.          *)
InOrder ==
    \A i, j \in ReminderId :
        (/\ i # j /\ reminder[i] # None /\ reminder[j] # None
         /\ reminder[i].agent = reminder[j].agent) => reminder[i].order # reminder[j].order

RemindersInv == Reminder!TypeOK /\ InOrder

(* The facts about the constants that the proofs use.                      *)
LEMMA RemindersConstants ==
    /\ None \notin Reminder!Row /\ MaxOrder \in Nat /\ Cadences \subseteq Nat
    /\ Reminder!Max(Cadences) \in Nat
  BY ServicesAssumption, MaxOf DEF Reminder!RemindersAssumption

(* The order of a reminder that is created is that of none the agent has.  *)
LEMMA NextOrderIsNew ==
    ASSUME RemindersInv, NEW a \in Owner
    PROVE  /\ Reminder!NextOrder(a) \in Nat
           /\ \A i \in Reminder!Pending(a) : reminder[i].order < Reminder!NextOrder(a)
  <1> DEFINE O == {reminder[i].order : i \in Reminder!Pending(a)}
  <1>1. O \subseteq 0 .. MaxOrder
    BY DEF RemindersInv, Reminder!TypeOK, Reminder!Row, Reminder!Pending
  <1>2. PICK m \in O \cup {-1} : \A n \in O \cup {-1} : m >= n
    <2> HIDE DEF O
    <2>1. CASE O = {}
      <3>1. -1 \in O \cup {-1} /\ \A n \in O \cup {-1} : -1 >= n
        BY <2>1
      <3> QED
        BY <3>1
    <2>2. CASE O # {}
      <3>1. PICK m \in O : \A n \in O : m >= n
        BY <1>1, <2>2, RemindersConstants, GreatestNumber
      <3> QED
        BY <1>1, <3>1
    <2> QED
      BY <2>1, <2>2
  <1> DEFINE M == Reminder!Max(O \cup {-1})
  <1>3. M \in O \cup {-1} /\ \A n \in O \cup {-1} : M >= n
    BY <1>2, MaxOf
  <1>4. Reminder!NextOrder(a) = M + 1
    BY DEF Reminder!NextOrder
  <1>5. M \in Int /\ M >= -1
    BY <1>1, <1>3
  <1>6. \A i \in Reminder!Pending(a) : reminder[i].order \in 0 .. MaxOrder /\ M >= reminder[i].order
    BY <1>1, <1>3
  <1> HIDE DEF M
  <1> QED
    BY <1>4, <1>5, <1>6

(* A step after which every row has the agent and order it had leaves the  *)
(* order as it was.                                                        *)
LEMMA OrderIsKept ==
    ASSUME InOrder,
           \A i \in ReminderId : reminder'[i] # None =>
              /\ reminder[i] # None
              /\ reminder'[i].agent = reminder[i].agent
              /\ reminder'[i].order = reminder[i].order
    PROVE  InOrder'
  BY DEF InOrder

(* A new reminder comes last in the order of its agent.                    *)
LEMMA CreateReminderStep ==
    ASSUME RemindersInv, NEW a \in Owner, NEW i \in ReminderId, NEW c \in Cadences,
           NEW s \in BOOLEAN, Reminder!CreateReminder(a, i, c, s)
    PROVE  RemindersInv'
  <1> USE DEF RemindersInv, Reminder!TypeOK, Reminder!CreateReminder
  <1>1. Reminder!NextOrder(a) \in 0 .. MaxOrder
    BY NextOrderIsNew, RemindersConstants
  <1> DEFINE row == [agent |-> a, order |-> Reminder!NextOrder(a), cadence |-> c,
                     skip |-> s, last |-> None]
  <1>2. row \in Reminder!Row
    BY <1>1 DEF Reminder!Row
  <1>3. reminder' = [reminder EXCEPT ![i] = row]
    OBVIOUS
  <1>4. Reminder!TypeOK'
    <2> HIDE DEF row
    <2> QED
      BY <1>2, <1>3
  <1>5. InOrder'
    <2> SUFFICES ASSUME NEW j \in ReminderId, NEW k \in ReminderId, j # k,
                        reminder'[j] # None, reminder'[k] # None,
                        reminder'[j].agent = reminder'[k].agent
                 PROVE  reminder'[j].order # reminder'[k].order
      BY DEF InOrder
    <2>1. \A l \in ReminderId \ {i} : reminder'[l] = reminder[l]
      BY <1>3
    <2>2. reminder'[i] = row /\ row.agent = a /\ row.order = Reminder!NextOrder(a)
      BY <1>3
    <2>3. \A l \in ReminderId \ {i} : reminder'[l] # None /\ reminder'[l].agent = a
              => reminder'[l].order # Reminder!NextOrder(a)
      BY <2>1, NextOrderIsNew DEF Reminder!Pending, Reminder!Row
    <2> QED
      BY <2>1, <2>2, <2>3 DEF InOrder
  <1> QED
    BY <1>4, <1>5

(* Swapping two reminders of an agent swaps their places.                  *)
LEMMA SwapRemindersStep ==
    ASSUME RemindersInv, NEW i \in ReminderId, NEW j \in ReminderId, i # j,
           Reminder!SwapReminders(i, j)
    PROVE  RemindersInv'
  <1> USE DEF RemindersInv, Reminder!TypeOK, Reminder!SwapReminders
  <1>1. reminder[i] \in Reminder!Row /\ reminder[j] \in Reminder!Row
    OBVIOUS
  <1>2. \A r \in Reminder!Row, n \in 0 .. MaxOrder :
           /\ [r EXCEPT !.order = n] \in Reminder!Row
           /\ [r EXCEPT !.order = n].agent = r.agent /\ [r EXCEPT !.order = n].order = n
    BY DEF Reminder!Row
  <1>3. reminder[i].order \in 0 .. MaxOrder /\ reminder[j].order \in 0 .. MaxOrder
    BY <1>1 DEF Reminder!Row
  <1>4. /\ reminder'[i] = [reminder[i] EXCEPT !.order = reminder[j].order]
        /\ reminder'[j] = [reminder[j] EXCEPT !.order = reminder[i].order]
        /\ \A k \in ReminderId \ {i, j} : reminder'[k] = reminder[k]
        /\ DOMAIN reminder' = ReminderId
    OBVIOUS
  <1>5. \A k \in ReminderId : reminder'[k] \in Reminder!Row \cup {None}
    BY <1>1, <1>2, <1>3, <1>4
  <1>6. InOrder'
    <2> SUFFICES ASSUME NEW k \in ReminderId, NEW l \in ReminderId, k # l,
                        reminder'[k] # None, reminder'[l] # None,
                        reminder'[k].agent = reminder'[l].agent
                 PROVE  reminder'[k].order # reminder'[l].order
      BY DEF InOrder
    <2>1. /\ reminder'[i].agent = reminder[i].agent /\ reminder'[i].order = reminder[j].order
          /\ reminder'[j].agent = reminder[j].agent /\ reminder'[j].order = reminder[i].order
      <3>1. LET new == [reminder[i] EXCEPT !.order = reminder[j].order]
            IN  new.agent = reminder[i].agent /\ new.order = reminder[j].order
        BY <1>1, <1>2, <1>3
      <3>2. LET new == [reminder[j] EXCEPT !.order = reminder[i].order]
            IN  new.agent = reminder[j].agent /\ new.order = reminder[i].order
        BY <1>1, <1>2, <1>3
      <3> QED
        BY <1>4, <3>1, <3>2
    <2> reminder[i].agent = reminder[j].agent /\ reminder[i] # None /\ reminder[j] # None
      OBVIOUS
    <2>2. CASE k \in {i, j} /\ l \in {i, j}
      BY <2>1, <2>2 DEF InOrder
    <2>3. CASE k \notin {i, j} /\ l \notin {i, j}
      BY <1>4, <2>3 DEF InOrder
    <2>4. CASE k \in {i, j} /\ l \notin {i, j}
      BY <1>4, <2>1, <2>4 DEF InOrder
    <2>5. CASE k \notin {i, j} /\ l \in {i, j}
      BY <1>4, <2>1, <2>5 DEF InOrder
    <2> QED
      BY <2>2, <2>3, <2>4, <2>5
  <1> QED
    BY <1>5, <1>6

(* A delivery changes no order: its time is stamped into the rows.         *)
LEMMA DeliverStep ==
    ASSUME RemindersInv, NEW rows \in [ReminderId -> Reminder!Row \cup {None}], NEW ids,
           \A i \in ids \cap ReminderId : rows[i] # None,
           \A i \in ReminderId : rows[i] \in {reminder[i], None},
           Reminder!Deliver(rows, ids), busy' = busy
    PROVE  RemindersInv'
  <1> USE DEF RemindersInv, Reminder!TypeOK, Reminder!Deliver, Reminder!Stamp
  <1>1. 0 \in Reminder!Age
    BY RemindersConstants DEF Reminder!Age
  <1>2. \A r \in Reminder!Row :
           /\ [r EXCEPT !.last = 0] \in Reminder!Row
           /\ [r EXCEPT !.last = 0].agent = r.agent /\ [r EXCEPT !.last = 0].order = r.order
    BY <1>1 DEF Reminder!Row
  <1>3. \A i \in ReminderId : reminder'[i] = IF i \in ids THEN [rows[i] EXCEPT !.last = 0] ELSE rows[i]
    OBVIOUS
  <1>4. \A i \in ReminderId : reminder'[i] \in Reminder!Row \cup {None}
    BY <1>2, <1>3
  <1>5. \A i \in ReminderId : reminder'[i] # None =>
              /\ reminder[i] # None
              /\ reminder'[i].agent = reminder[i].agent
              /\ reminder'[i].order = reminder[i].order
    BY <1>2, <1>3
  <1>6. heard' \in [ReminderId -> Reminder!Age \cup {None}]
    BY <1>1
  <1> QED
    BY <1>4, <1>5, <1>6, OrderIsKept

(* Every step on the reminders keeps their invariant.                      *)
LEMMA RemindersStep ==
    ASSUME RemindersInv, Reminder!Next
    PROVE  RemindersInv'
  <1>1. CASE Reminder!Tick
    <2>1. Reminder!Due \subseteq {i \in ReminderId : reminder[i] # None}
      BY DEF Reminder!Due, Reminder!Top, Reminder!Pending
    <2> QED
      BY <1>1, <2>1, DeliverStep DEF Reminder!Tick, RemindersInv, Reminder!TypeOK
  <1>2. CASE Reminder!Pass
    <2> USE DEF RemindersInv, Reminder!TypeOK, Reminder!Pass
    <2>1. \A t \in Reminder!Age \cup {None} : Reminder!Older(t) \in Reminder!Age \cup {None}
      BY RemindersConstants DEF Reminder!Older, Reminder!Age
    <2>2. \A r \in Reminder!Row :
             LET older == [r EXCEPT !.last = Reminder!Older(r.last)]
             IN  older \in Reminder!Row /\ older.agent = r.agent /\ older.order = r.order
      BY <2>1 DEF Reminder!Row
    <2>3. \A i \in ReminderId : reminder'[i] =
             IF reminder[i] = None THEN None
             ELSE [reminder[i] EXCEPT !.last = Reminder!Older(reminder[i].last)]
      BY <1>2
    <2>4. \A i \in ReminderId : reminder'[i] \in Reminder!Row \cup {None}
      BY ZenonT(40), <2>2, <2>3
    <2>5. InOrder'
      BY <2>2, <2>3, OrderIsKept
    <2>6. heard' \in [ReminderId -> Reminder!Age \cup {None}] /\ DOMAIN reminder' = ReminderId
      BY <1>2, <2>1
    <2> QED
      BY <1>2, <2>4, <2>5, <2>6
  <1>3. CASE \E a \in Owner : Reminder!AgentTurns(a)
    BY <1>3 DEF Reminder!AgentTurns, RemindersInv, Reminder!TypeOK, InOrder
  <1>4. CASE \E a \in Owner, i \in ReminderId, c \in Cadences, s \in BOOLEAN :
                Reminder!CreateReminder(a, i, c, s)
    BY <1>4, CreateReminderStep
  <1>5. CASE \E i \in ReminderId, c \in Cadences, s \in BOOLEAN : Reminder!UpdateReminder(i, c, s)
    <2>1. PICK i \in ReminderId, c \in Cadences, s \in BOOLEAN : Reminder!UpdateReminder(i, c, s)
      BY <1>5
    <2> USE DEF RemindersInv, Reminder!TypeOK, Reminder!UpdateReminder
    <2>2. \A r \in Reminder!Row :
             LET new == [r EXCEPT !.cadence = c, !.skip = s]
             IN  new \in Reminder!Row /\ new.agent = r.agent /\ new.order = r.order
      BY DEF Reminder!Row
    <2>3. reminder' = [reminder EXCEPT ![i] = [reminder[i] EXCEPT !.cadence = c, !.skip = s]]
      BY <2>1
    <2>4. InOrder'
      BY <2>1, <2>2, <2>3, OrderIsKept
    <2>5. [reminder[i] EXCEPT !.cadence = c, !.skip = s] \in Reminder!Row
      BY <2>1, <2>2
    <2> QED
      BY <2>1, <2>3, <2>4, <2>5
  <1>6. CASE \E i \in ReminderId : Reminder!DeleteReminder(i)
    BY <1>6, OrderIsKept DEF Reminder!DeleteReminder, RemindersInv, Reminder!TypeOK
  <1>7. CASE \E i \in ReminderId : Reminder!CompleteReminder(i)
    <2>1. PICK i \in ReminderId : Reminder!CompleteReminder(i)
      BY <1>7
    <2> DEFINE rows == [reminder EXCEPT ![i] = None]
    <2>2. PICK ids : /\ Reminder!Deliver(rows, ids)
                     /\ ids \subseteq {j \in ReminderId : reminder[j] # None /\ j # i}
      BY <2>1 DEF Reminder!CompleteReminder, Reminder!Pending
    <2>3. /\ rows \in [ReminderId -> Reminder!Row \cup {None}]
          /\ \A j \in ids \cap ReminderId : rows[j] # None
          /\ \A j \in ReminderId : rows[j] \in {reminder[j], None}
      BY <2>2 DEF RemindersInv, Reminder!TypeOK
    <2> HIDE DEF rows
    <2> QED
      BY <2>1, <2>2, <2>3, DeliverStep DEF Reminder!CompleteReminder
  <1>8. CASE \E i, j \in ReminderId : i # j /\ Reminder!SwapReminders(i, j)
    BY <1>8, SwapRemindersStep
  <1> QED
    BY <1>1, <1>2, <1>3, <1>4, <1>5, <1>6, <1>7, <1>8 DEF Reminder!Next

(* Of reminders in order exactly one is first.                             *)
LEMMA FirstIsOne ==
    ASSUME RemindersInv
    PROVE  OneIsFirst
  <1> SUFFICES ASSUME NEW a \in Owner, Reminder!Pending(a) # {}
               PROVE  Cardinality(Reminder!Top(a)) = 1
    BY DEF OneIsFirst, Reminder!OneIsFirst, Reminder!Cardinality, Cardinality
  <1> DEFINE O == {reminder[i].order : i \in Reminder!Pending(a)}
  <1>1. O \subseteq Nat /\ O # {}
    BY DEF RemindersInv, Reminder!TypeOK, Reminder!Pending, Reminder!Row
  <1>2. PICK n \in O : \A m \in O : n <= m
    BY <1>1, LeastNumber
  <1>3. PICK i \in Reminder!Pending(a) : reminder[i].order = n
    BY <1>2
  <1>4. Reminder!Top(a) = {i}
    BY SMTT(30), <1>1, <1>2, <1>3 DEF RemindersInv, InOrder, Reminder!Top, Reminder!Pending
  <1> QED
    BY <1>4, FS_Singleton

-----------------------------------------------------------------------------
(* NetworkRestore                                                          *)

(* Somebody ran when the process stopped, and no user has acted on it.     *)
Ran(a) == Restore!IsRunning(ran[a]) /\ wish[a] = None

(* What restore finds of such an agent before it has looked at it.         *)
AsLeft(a) == \/ state[a] \in {"active", "idle", "failed"}
             \/ state[a] = "suspended" /\ before[a] # None
             \/ state[a] = ran[a] /\ ran[a] \in {"spawning", "resuming"}

(* What becomes of it once restore has looked, or is resuming it.          *)
SeenTo(a) == \/ state[a] \in {"active", "idle"} /\ (session[a] \/ a \in died)
             \/ state[a] = "failed"
             \/ state[a] = "suspended" /\ before[a] # None
             \/ state[a] = ran[a] /\ ran[a] \in {"spawning", "resuming"}
             \/ by[a] = "restore" /\ state[a] = "resuming"

Looked(a) == phase \in {"check", "restoring", "done"} /\ a \notin left

AgentInv(a) ==
    /\ Ran(a) => AsLeft(a) \/ SeenTo(a)
    /\ Ran(a) /\ Looked(a) => SeenTo(a)
    /\ Ran(a) /\ by[a] = "user" => state[a] \notin Restore!Claim
    /\ by[a] = "restore" => phase = "restoring" /\ a \in again
    /\ phase = "check" /\ a \in adopt => wish[a] # None \/ session[a] \/ a \in died
    /\ phase = "check" /\ a \in left /\ Ran(a) =>
          Restore!Crashed(snap[a]) \/ (state[a] = "suspended" /\ before[a] # None)

ListsInv == /\ phase \in {"restoring", "done"} => left = {}
            /\ phase = "done" => again = {}

RestoreInv == Restore!TypeOK /\ ListsInv /\ \A a \in Agent : AgentInv(a)

(* The names of the states and of the reasons are told apart from None.    *)
LEMMA RestoreConstants ==
    /\ None \notin {"void", "active", "idle", "suspended", "failed", "spawning", "resuming",
                    "suspending", "user", "restore", "started", "stopped"}
    /\ MaxStop \in Nat /\ MaxOp \in Nat
  BY ServicesAssumption
     DEF Restore!NetworkRestoreAssumption, Restore!State, Restore!Rest, Restore!Claim

(* The process stops, or only suspends its agents.                         *)
LEMMA StopSteps ==
    ASSUME RestoreInv, Restore!Shutdown \/ Restore!Crash \/ Restore!ShutdownByRequest
    PROVE  RestoreInv'
  <1> USE RestoreConstants
      DEF RestoreInv, Restore!TypeOK, Restore!ShutdownAgents, Restore!Remember, Restore!IsRunning,
          Restore!State, Restore!Rest, Restore!Claim, Restore!rows, Restore!restore
  <1>1. CASE Restore!Shutdown
    BY <1>1 DEF Restore!Shutdown, Restore!Stops, AgentInv, ListsInv, Ran, AsLeft, SeenTo, Looked
  <1>2. CASE Restore!Crash
    BY <1>2 DEF Restore!Crash, Restore!Stops, AgentInv, ListsInv, Ran, AsLeft, SeenTo, Looked
  <1>3. CASE Restore!ShutdownByRequest
    BY <1>3 DEF Restore!ShutdownByRequest, AgentInv, ListsInv, Ran, AsLeft, SeenTo, Looked
  <1> QED
    BY <1>1, <1>2, <1>3

(* A restore begins by listing the agents as they stand.                   *)
LEMMA BeginRestoreStep ==
    ASSUME RestoreInv, Restore!BeginRestore
    PROVE  RestoreInv'
  <1> USE RestoreConstants DEF RestoreInv, Restore!BeginRestore
  <1>1. snap' = [a \in Agent |-> [state |-> state[a], before |-> before[a]]]
    OBVIOUS
  <1>2. Restore!TypeOK'
    BY <1>1 DEF Restore!TypeOK
  <1>3. ListsInv'
    BY DEF ListsInv
  <1>4. ASSUME NEW a \in Agent PROVE AgentInv(a)'
    <2>1. Looked(a)' => ~Restore!Graceful(snap'[a]) /\ ~Restore!Crashed(snap'[a])
      BY DEF Looked
    <2>3. a \in left' => \/ Restore!Crashed(snap'[a])
                         \/ state[a] = "suspended" /\ before[a] # None
      BY <1>1 DEF Restore!Graceful
    <2>2. Looked(a)' => /\ state[a] \notin {"active", "idle", "suspending", "resuming"}
                        /\ ~(state[a] = "suspended" /\ before[a] # None)
      BY <1>1, <2>1 DEF Restore!Graceful, Restore!Crashed
    <2> QED
      BY <2>2, <2>3 DEF AgentInv, Ran, AsLeft, SeenTo, Restore!IsRunning
  <1> QED
    BY <1>2, <1>3, <1>4

(* A look at one agent, and the re-adoption that follows the last look.    *)
LEMMA CheckStep ==
    ASSUME RestoreInv, NEW a \in Agent, Restore!Check(a)
    PROVE  RestoreInv'
  <1> USE RestoreConstants DEF RestoreInv
  <1>1. PICK found \in Restore!Answer(session[a]) :
           IF Restore!Crashed(snap[a]) /\ ~found /\ a \in stale
           THEN phase' = "aborted" /\ UNCHANGED <<Restore!rows, snap, left, adopt, again>>
           ELSE Restore!Look(a, found) /\ UNCHANGED snap
    BY DEF Restore!Check
  <1>2. /\ found \in BOOLEAN /\ found => session[a]
        /\ phase = "check" /\ a \in left
        /\ UNCHANGED <<session, registered, by, stops, ops, ran, wish, died>>
    BY DEF Restore!Answer, Restore!Check, Restore!history, Restore!TypeOK
  <1>3. CASE phase' = "aborted" /\ UNCHANGED <<Restore!rows, snap, left, adopt, again>>
    BY <1>2, <1>3 DEF Restore!TypeOK, Restore!rows, ListsInv, AgentInv, Ran, AsLeft, SeenTo, Looked
  <1>4. CASE Restore!Look(a, found) /\ UNCHANGED snap
    <2> DEFINE st == IF Restore!Crashed(snap[a]) /\ ~found
                     THEN [state EXCEPT ![a] = "failed"] ELSE state
    <2>1. /\ adopt' \in {adopt, adopt \cup {a}} /\ (a \in adopt' /\ a \notin adopt => found)
          /\ again' \in {again, again \cup {a}}
          /\ left' = left \ {a}
          /\ stale' \subseteq stale \cup {a} \cup adopt'
          /\ IF left' = {} THEN Restore!Readopt(adopt', again', st)
             ELSE state' = st /\ UNCHANGED <<before, phase>>
      BY <1>4 DEF Restore!Look
    <2>2. st \in [Agent -> Restore!State] /\ \A b \in Agent : st[b] = state[b] \/ st[b] = "failed"
      BY DEF Restore!TypeOK, Restore!State, Restore!Rest
    <2> HIDE DEF st
    <2>3. \A s : Restore!Restored(s) \in {"active", "idle"}
      BY DEF Restore!Restored
    <2>4. Restore!TypeOK'
      BY <1>2, <1>4, <2>1, <2>2, <2>3
         DEF Restore!TypeOK, Restore!Readopt, Restore!State, Restore!Rest
    <2>5. ListsInv'
      BY <1>2, <2>1 DEF ListsInv, Restore!Readopt
    <2>6. /\ (found \/ ~Restore!Crashed(snap[a])) => st = state
          /\ (~found /\ Restore!Crashed(snap[a])) => st[a] = "failed"
          /\ \A b \in Agent \ {a} : st[b] = state[b]
      BY DEF st, Restore!TypeOK
    <2>7. ASSUME NEW b \in Agent PROVE AgentInv(b)'
      <3> USE DEF AgentInv, Ran, AsLeft, SeenTo, Looked
      <3>1. /\ Ran(b)' <=> Ran(b)
            /\ by'[b] = by[b] /\ by[b] # "restore"
            /\ session'[b] = session[b] /\ died' = died /\ ran' = ran /\ wish' = wish
        BY <1>2
      <3>2. Ran(b) => \/ state[b] \in {"active", "idle", "failed"}
                      \/ state[b] = "suspended" /\ before[b] # None
                      \/ state[b] = ran[b] /\ ran[b] \in {"spawning", "resuming"}
        BY <3>1
      <3>3. Ran(b) /\ b \notin left' => \/ st[b] \in {"active", "idle"} /\ (session[b] \/ b \in died)
                                        \/ st[b] = "failed"
                                        \/ st[b] = "suspended" /\ before[b] # None
                                        \/ st[b] = ran[b] /\ ran[b] \in {"spawning", "resuming"}
        <4>1. CASE b = a
          BY <1>2, <2>6, <3>2, <4>1
        <4>2. CASE b # a
          BY <1>2, <2>1, <2>2, <3>1, <4>2
        <4> QED
          BY <4>1, <4>2
      <3>4. b \in adopt' => wish[b] # None \/ session[b] \/ b \in died
        BY <1>2, <2>1
      <3>5. CASE left' # {}
        <4>1. state' = st /\ before' = before /\ phase' = phase /\ left' \subseteq left
          BY <2>1, <3>5
        <4>2. b \in left' => b \in left /\ b # a /\ st[b] \in {state[b], "failed"}
          BY <2>1, <2>2
        <4>3. b \in left' /\ Ran(b) => \/ Restore!Crashed(snap[b])
                                       \/ st[b] = "suspended" /\ before[b] # None
          BY <1>2, <2>1, <2>2, <2>6, <4>2
        <4>4. st[b] \in {state[b], "failed"} /\ snap' = snap
          BY <1>4, <2>2
        <4>5. b \notin left' /\ Ran(b) => SeenTo(b)'
          BY <2>1, <3>1, <3>3, <4>1
        <4>6. Ran(b) => (AsLeft(b) \/ SeenTo(b))'
          BY <3>1, <3>2, <4>1, <4>4
        <4>7. Ran(b) /\ by[b] = "user" => st[b] \notin Restore!Claim
          BY <4>4 DEF Restore!Claim
        <4> QED
          BY <1>2, <3>1, <3>4, <4>1, <4>3, <4>4, <4>5, <4>6, <4>7
      <3>6. CASE left' = {}
        <4>1. /\ state' = [c \in Agent |-> IF c \in adopt' THEN Restore!Restored(snap[c].before) ELSE st[c]]
              /\ before' = [c \in Agent |-> IF c \in adopt' THEN None ELSE before[c]]
              /\ phase' \in {"done", "restoring"}
          BY <2>1, <3>6 DEF Restore!Readopt
        <4>2. CASE b \in adopt'
          BY <2>3, <3>1, <3>4, <3>6, <4>1, <4>2 DEF Restore!Claim
        <4>3. CASE b \notin adopt'
          BY <2>2, <3>1, <3>2, <3>3, <3>6, <4>1, <4>3 DEF Restore!Claim
        <4> QED
          BY <4>2, <4>3
      <3> QED
        BY <3>5, <3>6
    <2> QED
      BY <2>4, <2>5, <2>7
  <1> QED
    BY <1>1, <1>3, <1>4

(* Restore resumes an agent, or passes it over.                            *)
LEMMA ResumeSteps ==
    ASSUME RestoreInv, NEW a \in Agent,
           \/ Restore!Skip(a) \/ Restore!ClaimResume(a)
           \/ Restore!Create(a) \/ Restore!EndResume(a)
    PROVE  RestoreInv'
  <1> USE RestoreConstants
      DEF RestoreInv, Restore!TypeOK, Restore!PassOn, Restore!Write, Restore!rows, Restore!history,
          Restore!restore, Restore!State, Restore!Rest, Restore!Claim
  <1>1. CASE Restore!Skip(a)
    BY <1>1 DEF Restore!Skip, Restore!Busy, ListsInv, AgentInv, Ran, AsLeft, SeenTo, Looked
  <1>2. CASE Restore!ClaimResume(a)
    BY <1>2 DEF Restore!ClaimResume, Restore!CanResume, ListsInv, AgentInv, Ran, AsLeft, SeenTo, Looked
  <1>3. CASE Restore!Create(a) /\ UNCHANGED <<Restore!rows, by, again, phase>>
    <2>1. /\ by[a] = "restore" /\ session' = [session EXCEPT ![a] = TRUE]
          /\ UNCHANGED <<state, before, stale, registered, by, phase, snap, left, adopt, again,
                         stops, ops, ran, wish, died>>
      BY <1>3 DEF Restore!Create
    <2>2. Restore!TypeOK' /\ ListsInv'
      BY <2>1 DEF ListsInv
    <2>3. ASSUME NEW b \in Agent PROVE AgentInv(b)'
      <3>1. session[b] => session'[b]
        BY <2>1
      <3> QED
        BY <2>1, <3>1 DEF AgentInv, Ran, AsLeft, SeenTo, Looked
    <2> QED
      BY <2>2, <2>3
  <1>4. CASE Restore!EndResume(a) \/ (Restore!Create(a) /\ session' = session)
    <2>1. /\ by[a] = "restore" /\ by' = [by EXCEPT ![a] = None] /\ Restore!PassOn(a)
          /\ UNCHANGED <<session, registered, snap, left, adopt, stops, ops, ran, wish, died>>
      BY ZenonT(40), <1>4 DEF Restore!Create, Restore!EndResume
    <2>2. /\ \A b \in Agent \ {a} : state'[b] = state[b] /\ before'[b] = before[b]
          /\ \/ state'[a] = "failed"
             \/ state'[a] = "active" /\ session[a]
             \/ state[a] # "resuming" /\ state'[a] = state[a] /\ before'[a] = before[a]
      BY ZenonT(40), <1>4 DEF Restore!Create, Restore!EndResume
    <2>3. phase = "restoring" /\ left = {} /\ phase' \in {"restoring", "done"}
      BY <2>1 DEF AgentInv, ListsInv
    <2>4. Restore!TypeOK'
      <3>1. state' \in [Agent -> Restore!State]
        <4>1. state' \in {state, [state EXCEPT ![a] = "failed"], [state EXCEPT ![a] = "active"]}
          BY <1>4 DEF Restore!Create, Restore!EndResume
        <4> QED
          BY <4>1
      <3>2. before' \in [Agent -> Restore!State \cup {None}]
        <4>1. before' \in {before, [before EXCEPT ![a] = before[a]], [before EXCEPT ![a] = None]}
          BY <1>4 DEF Restore!Create, Restore!EndResume
        <4> QED
          BY <4>1
      <3>3. stale' \subseteq Agent
        BY <1>4 DEF Restore!Create, Restore!EndResume
      <3> QED
        BY <2>1, <2>3, <3>1, <3>2, <3>3
    <2>5. ListsInv'
      BY <2>1, <2>3 DEF ListsInv
    <2>6. ASSUME NEW b \in Agent PROVE AgentInv(b)'
      <3>1. by'[b] = "restore" => phase' = "restoring" /\ b \in again'
        BY <2>1, <2>3 DEF AgentInv
      <3>2. Ran(b) => SeenTo(b)'
        BY <2>1, <2>2, <2>3 DEF AgentInv, Ran, SeenTo, Looked
      <3>3. Ran(b) /\ by'[b] = "user" => state'[b] \notin Restore!Claim
        BY <2>1, <2>2 DEF AgentInv
      <3> QED
        BY <2>1, <2>3, <3>1, <3>2, <3>3 DEF AgentInv, Ran, Looked
    <2> QED
      BY <2>4, <2>5, <2>6
  <1> QED
    BY <1>1, <1>2, <1>3, <1>4 DEF Restore!Create

(* Users, the monitor, sessions and proxies act meanwhile.                 *)
LEMMA WorldSteps ==
    ASSUME RestoreInv,
           \/ Restore!ProxyLost \/ Restore!ProxyRegisters
           \/ \E a \in Agent : \/ Restore!UserClaims(a) \/ Restore!UserEnds(a)
                               \/ Restore!UserKills(a) \/ Restore!MonitorWrites(a)
                               \/ Restore!SessionEnds(a)
    PROVE  RestoreInv'
  <1> USE RestoreConstants
      DEF RestoreInv, Restore!TypeOK, Restore!Write, Restore!rows, Restore!history, Restore!restore,
          Restore!State, Restore!Rest, Restore!Claim, Restore!Acts, Restore!ActsOn, Restore!CanResume
  <1>1. CASE Restore!ProxyLost
    <2>1. Restore!TypeOK' /\ ListsInv'
      <3>1. /\ state' \in [Agent -> Restore!State] /\ stale' \subseteq Agent
            /\ ops' \in 0 .. MaxOp /\ registered' = FALSE
        BY <1>1 DEF Restore!ProxyLost
      <3>2. UNCHANGED <<before, session, by, phase, snap, left, adopt, again, stops, ran, wish, died>>
        BY <1>1 DEF Restore!ProxyLost
      <3> QED
        BY <3>1, <3>2 DEF ListsInv
    <2>2. ASSUME NEW b \in Agent PROVE AgentInv(b)'
      <3>1. /\ state'[b] = IF Restore!IsRunning(state[b]) THEN "failed" ELSE state[b]
            /\ UNCHANGED <<before, session, by, phase, snap, left, adopt, again, ran, wish, died>>
        BY <1>1 DEF Restore!ProxyLost
      <3> QED
        BY <3>1 DEF AgentInv, Ran, AsLeft, SeenTo, Looked, Restore!IsRunning
    <2> QED
      BY <2>1, <2>2
  <1>2. CASE Restore!ProxyRegisters
    BY <1>2 DEF Restore!ProxyRegisters, ListsInv, AgentInv, Ran, AsLeft, SeenTo, Looked
  <1>3. CASE \E a \in Agent : Restore!UserClaims(a)
    BY <1>3 DEF Restore!UserClaims, ListsInv, AgentInv, Ran, AsLeft, SeenTo, Looked
  <1>4. CASE \E a \in Agent : Restore!UserEnds(a)
    <2>1. PICK a \in Agent : Restore!UserEnds(a)
      BY <1>4
    <2>2. Restore!TypeOK' /\ ListsInv'
      <3>1. state' \in [Agent -> Restore!State] /\ before' \in [Agent -> Restore!State \cup {None}]
        <4>1. \/ state' = state \/ state' = [state EXCEPT ![a] = "suspended"]
              \/ state' = [state EXCEPT ![a] = "active"] \/ state' = [state EXCEPT ![a] = "failed"]
          BY <2>1 DEF Restore!UserEnds
        <4>2. before' \in {before, [before EXCEPT ![a] = before[a]], [before EXCEPT ![a] = None]}
          BY <2>1 DEF Restore!UserEnds
        <4>3. before' \in [Agent -> Restore!State \cup {None}]
          BY <4>2
        <4>4. state' \in [Agent -> Restore!State]
          BY <4>1
        <4> QED
          BY <4>3, <4>4
      <3>2. stale' \subseteq Agent /\ session' \in [Agent -> BOOLEAN]
        BY <2>1 DEF Restore!UserEnds
      <3>3. wish' \in [Agent -> {None, "started", "stopped"}] /\ by' = [by EXCEPT ![a] = None]
        BY <2>1 DEF Restore!UserEnds
      <3>4. UNCHANGED <<registered, phase, snap, left, adopt, again, stops, ops, ran, died>>
        BY <2>1 DEF Restore!UserEnds
      <3> QED
        BY <3>1, <3>2, <3>3, <3>4 DEF ListsInv
    <2>3. ASSUME NEW b \in Agent PROVE AgentInv(b)'
      <3>1. /\ UNCHANGED <<registered, phase, snap, left, adopt, again, ran, died>>
            /\ by[a] = "user" /\ by' = [by EXCEPT ![a] = None]
        BY <2>1 DEF Restore!UserEnds
      <3>2. CASE b # a
        <4>1. /\ state'[b] = state[b] /\ before'[b] = before[b]
              /\ session'[b] = session[b] /\ wish'[b] = wish[b]
          BY <2>1, <3>2 DEF Restore!UserEnds
        <4> QED
          BY <3>1, <3>2, <4>1 DEF AgentInv, Ran, AsLeft, SeenTo, Looked
      <3>3. CASE b = a
        <4>1. /\ session[a] => session'[a] 
              /\ wish'[a] = wish[a] \/ wish'[a] = "stopped"
              /\ wish'[a] = None /\ state[a] \notin Restore!Claim
                   => state'[a] = state[a] /\ before'[a] = before[a]
          BY <2>1 DEF Restore!UserEnds
        <4>2. Ran(a)' => state'[a] = state[a] /\ before'[a] = before[a] /\ wish[a] = None
          BY <3>1, <4>1 DEF AgentInv, Ran
        <4> QED
          BY <3>1, <3>3, <4>1, <4>2 DEF AgentInv, Ran, AsLeft, SeenTo, Looked
      <3> QED
        BY <3>2, <3>3
    <2> QED
      BY <2>2, <2>3
  <1>5. CASE \E a \in Agent : Restore!UserKills(a)
    BY <1>5 DEF Restore!UserKills, ListsInv, AgentInv, Ran, AsLeft, SeenTo, Looked
  <1>6. CASE \E a \in Agent : Restore!MonitorWrites(a)
    BY <1>6 DEF Restore!MonitorWrites, ListsInv, AgentInv, Ran, AsLeft, SeenTo, Looked
  <1>7. CASE \E a \in Agent : Restore!SessionEnds(a)
    BY <1>7 DEF Restore!SessionEnds, ListsInv, AgentInv, Ran, AsLeft, SeenTo, Looked
  <1> QED
    BY <1>1, <1>2, <1>3, <1>4, <1>5, <1>6, <1>7

-----------------------------------------------------------------------------
(* The invariants of all components hold together: one step moves one.     *)
IInv == RemindersInv /\ RestoreInv

(* Both invariants hold at the start.                                      *)
LEMMA InitIInv == Init => IInv
  <1> SUFFICES ASSUME Init PROVE IInv
    OBVIOUS
  <1>1. RemindersInv
    BY DEF Init, Reminder!Init, RemindersInv, Reminder!TypeOK, InOrder
  <1>2. RestoreInv
    BY RestoreConstants
       DEF Init, Restore!Init, RestoreInv, Restore!TypeOK, ListsInv, AgentInv, Ran, AsLeft, SeenTo,
           Looked, Restore!State, Restore!Rest, Restore!Claim, Restore!IsRunning
  <1> QED
    BY <1>1, <1>2 DEF IInv

(* Both invariants hold in every state.                                    *)
LEMMA Invariance == Spec => []IInv
  <1>1. ASSUME RemindersInv, [Next]_vars PROVE RemindersInv'
    <2>1. CASE Reminder!Next
      BY <1>1, <2>1, RemindersStep
    <2>2. CASE UNCHANGED reminderVars
      BY <1>1, <2>2 DEF RemindersInv, Reminder!TypeOK, InOrder, reminderVars
    <2> QED
      BY <1>1, <2>1, <2>2 DEF Next, vars
  <1>2. ASSUME RestoreInv, [Next]_vars PROVE RestoreInv'
    <2>1. CASE Restore!Next
      BY <1>2, <2>1, StopSteps, BeginRestoreStep, CheckStep, ResumeSteps, WorldSteps DEF Restore!Next
    <2>2. CASE UNCHANGED restoreVars
      BY <1>2, <2>2
         DEF RestoreInv, Restore!TypeOK, ListsInv, AgentInv, Ran, AsLeft, SeenTo, Looked, restoreVars
    <2> QED
      BY <1>2, <2>1, <2>2 DEF Next, vars
  <1>3. IInv /\ [Next]_vars => IInv'
    BY <1>1, <1>2 DEF IInv
  <1> QED
    BY <1>3, InitIInv, PTL DEF Spec

(* The reminders of an agent always have exactly one that is first, for    *)
(* any number of agents and reminders.                                     *)
THEOREM OneReminderIsFirst == Spec => []OneIsFirst
  <1>1. IInv => OneIsFirst
    BY FirstIsOne DEF IInv
  <1> QED
    BY <1>1, Invariance, PTL

(* However many stops, crashes and shutdowns by request there are, and     *)
(* whatever happens to the agents meanwhile: a restore that ends has seen  *)
(* to every agent that ran.                                                *)
THEOREM RestoreSeesToAll == Spec => []RanRunsAgain
  <1>1. IInv => RanRunsAgain
    BY DEF IInv, RestoreInv, AgentInv, ListsInv, Ran, SeenTo, Looked, RanRunsAgain,
           Restore!RanRunsAgain
  <1> QED
    BY <1>1, Invariance, PTL

-----------------------------------------------------------------------------
(* Frames on a socket                                                      *)

(* The facts about the constants that the proofs use.                      *)
LEMMA SocketConstants ==
    /\ \A f \in Frame : f.len \in Nat /\ f.masked \in BOOLEAN
    /\ MaxFrameBytes \in Nat /\ MaxChunk \in Nat
  BY ServicesAssumption DEF Socket!WsFramesAssumption

(* A frame has a header and more.                                          *)
LEMMA FrameSize ==
    ASSUME NEW f \in Frame
    PROVE  /\ Socket!Header(f.len) \in Nat /\ Socket!Header(f.len) >= 2
           /\ Socket!Size(f) \in Nat /\ Socket!Size(f) >= Socket!Header(f.len)
           /\ f.masked => Socket!Size(f) = Socket!Header(f.len) + 4 + f.len
  BY SocketConstants DEF Socket!Header, Socket!Size

(* The end of a frame is that of the one before and its size.              *)
LEMMA EndsAre ==
    ASSUME NEW s \in Seq(Frame)
    PROVE  /\ Socket!Ends(s) \in [0 .. Len(s) -> Nat]
           /\ Socket!Ends(s)[0] = 0
           /\ \A k \in 1 .. Len(s) : Socket!Ends(s)[k] = Socket!Ends(s)[k - 1] + Socket!Size(s[k])
  <1> DEFINE g == [p \in Nat |-> [i \in Nat |->
                      IF i \in 1 .. Len(s) THEN p + Socket!Size(s[i]) ELSE 0]]
             Is(e) == e = [k \in 0 .. Len(s) |-> IF k = 0 THEN 0 ELSE e[k - 1] + Socket!Size(s[k])]
  <1>1. \A k \in 1 .. Len(s) : Socket!Size(s[k]) \in Nat
    BY FrameSize
  <1>2. g \in [Nat -> [Nat -> Nat]]
    BY <1>1
  <1>3. PICK e \in [0 .. Len(s) -> Nat] :
           e[0] = 0 /\ \A k \in 1 .. Len(s) : e[k] = g[e[k - 1]][k]
    <2>1. 0 \in Nat /\ Len(s) \in Nat /\ 0 <= Len(s)
      OBVIOUS
    <2> HIDE DEF g
    <2>2. \E e : Follows(e, Nat, 0, Len(s), 0, g)
      BY <1>2, <2>1, Recursion
    <2> QED
      BY <2>2 DEF Follows
  <1>4. \A k \in 1 .. Len(s) : e[k] = e[k - 1] + Socket!Size(s[k])
    <2> SUFFICES ASSUME NEW k \in 1 .. Len(s) PROVE e[k] = e[k - 1] + Socket!Size(s[k])
      OBVIOUS
    <2>1. k - 1 \in 0 .. Len(s) /\ e[k - 1] \in Nat
      BY <1>3
    <2>2. g[e[k - 1]][k] = e[k - 1] + Socket!Size(s[k])
      BY <2>1
    <2> HIDE DEF g
    <2> QED
      BY <1>3, <2>2
  <1>5. Is(e)
    BY <1>3, <1>4
  <1>6. Is(Socket!Ends(s))
    <2>1. Socket!Ends(s) = CHOOSE end : Is(end)
      BY DEF Socket!Ends
    <2> HIDE DEF Is
    <2> QED
      BY <1>5, <2>1
  <1> DEFINE E == Socket!Ends(s)
  <1>7. \E w : Is(w) /\ w = E
    BY <1>6
  <1> HIDE DEF E
  <1>8. E = [k \in 0 .. Len(s) |-> IF k = 0 THEN 0 ELSE E[k - 1] + Socket!Size(s[k])]
    BY <1>7
  <1>9. E[0] = 0 /\ \A k \in 1 .. Len(s) : E[k] = E[k - 1] + Socket!Size(s[k])
    BY <1>8
  <1>10. E \in [0 .. Len(s) -> Nat]
    <2> DEFINE S == {k \in 0 .. Len(s) : E[k] \notin Nat}
    <2> SUFFICES ASSUME S # {} PROVE FALSE
      BY <1>8
    <2>1. PICK k \in S : \A i \in S : k <= i
      <3>1. S \in SUBSET Nat
        OBVIOUS
      <3> HIDE DEF S
      <3> QED
        BY <3>1, LeastNumber
    <2>2. k \in 1 .. Len(s) /\ k - 1 \in 0 .. Len(s) /\ k - 1 \notin S
      BY <1>9, <2>1
    <2> QED
      BY <1>1, <1>9, <2>1, <2>2
  <1> QED
    BY <1>9, <1>10 DEF E

(* Each frame ends behind the one before it.                               *)
LEMMA EndsRise ==
    ASSUME NEW s \in Seq(Frame), NEW j \in 0 .. Len(s), NEW k \in 0 .. Len(s), j < k
    PROVE  Socket!Ends(s)[j] < Socket!Ends(s)[k]
  <1> DEFINE E == Socket!Ends(s)
             S == {i \in j + 1 .. Len(s) : ~(E[j] < E[i])}
  <1> HIDE DEF E
  <1>1. /\ E \in [0 .. Len(s) -> Nat]
        /\ \A i \in 1 .. Len(s) : E[i] = E[i - 1] + Socket!Size(s[i])
    BY EndsAre DEF E
  <1>2. \A i \in 1 .. Len(s) : E[i - 1] < E[i]
    <2>1. \A i \in 1 .. Len(s) : Socket!Size(s[i]) \in Nat /\ Socket!Size(s[i]) >= 2
      BY FrameSize
    <2>2. \A i \in 1 .. Len(s) : i - 1 \in 0 .. Len(s) /\ E[i - 1] \in Nat
      BY <1>1
    <2> QED
      BY <1>1, <2>1, <2>2
  <1>3. S = {}
    <2> SUFFICES ASSUME S # {} PROVE FALSE
      OBVIOUS
    <2>1. PICK i \in S : \A l \in S : i <= l
      <3>1. S \in SUBSET Nat
        OBVIOUS
      <3> HIDE DEF S
      <3> QED
        BY <3>1, LeastNumber
    <2>2. i \in 1 .. Len(s) /\ i - 1 \in 0 .. Len(s) /\ E[i - 1] < E[i]
      BY <1>2, <2>1
    <2>3. i - 1 # j /\ i - 1 \notin S
      BY <1>1, <2>1, <2>2
    <2>4. E[j] < E[i - 1]
      BY <2>1, <2>3
    <2>5. j \in 0 .. Len(s) /\ i \in 0 .. Len(s) /\ ~(E[j] < E[i])
      BY <2>1
    <2>6. E[j] \in Nat /\ E[i - 1] \in Nat /\ E[i] \in Nat
      BY <1>1, <2>2, <2>5
    <2> QED
      BY <2>2, <2>4, <2>5, <2>6
  <1>4. k \in j + 1 .. Len(s)
    OBVIOUS
  <1> QED
    BY <1>3, <1>4 DEF E

(* A frame that is sent moves no end.                                      *)
LEMMA EndsStay ==
    ASSUME NEW s \in Seq(Frame), NEW f \in Frame
    PROVE  \A k \in 0 .. Len(s) : Socket!Ends(Append(s, f))[k] = Socket!Ends(s)[k]
  <1> DEFINE t == Append(s, f)
             E == Socket!Ends(s)
             D == Socket!Ends(t)
             S == {k \in 0 .. Len(s) : D[k] # E[k]}
  <1>1. t \in Seq(Frame) /\ Len(t) = Len(s) + 1 /\ \A k \in 1 .. Len(s) : t[k] = s[k]
    OBVIOUS
  <1> HIDE DEF t
  <1>2. E[0] = 0 /\ \A k \in 1 .. Len(s) : E[k] = E[k - 1] + Socket!Size(s[k])
    BY EndsAre
  <1>3. D[0] = 0 /\ \A k \in 1 .. Len(s) : D[k] = D[k - 1] + Socket!Size(s[k])
    <2>1. D[0] = 0 /\ \A k \in 1 .. Len(t) : D[k] = D[k - 1] + Socket!Size(t[k])
      BY <1>1, EndsAre
    <2> HIDE DEF D
    <2>2. \A k \in 1 .. Len(s) : k \in 1 .. Len(t)
      BY <1>1
    <2> QED
      BY <1>1, <2>1, <2>2
  <1> HIDE DEF E, D
  <1>4. S = {}
    <2> SUFFICES ASSUME S # {} PROVE FALSE
      OBVIOUS
    <2>1. PICK k \in S : \A i \in S : k <= i
      <3>1. S \in SUBSET Nat
        OBVIOUS
      <3> HIDE DEF S
      <3> QED
        BY <3>1, LeastNumber
    <2>2. k \in 1 .. Len(s) /\ k - 1 \in 0 .. Len(s) /\ k - 1 \notin S
      BY <1>2, <1>3, <2>1
    <2> QED
      BY <1>2, <1>3, <2>1, <2>2
  <1> QED
    BY <1>4 DEF D, E, t

(* The frames that a client has been told of, in the order of the stream,  *)
(* none of them twice and none behind the k-th.                            *)
InTurn(s, k) ==
    /\ s \in Seq(1 .. k)
    /\ \A i, j \in 1 .. Len(s) : i < j => s[i] < s[j]

(* The state of a connection: what left the buffer ends with a frame, and  *)
(* is all that has arrived whole unless a frame without a mask is in the   *)
(* way; what was handled was so in turn; and it overflowed for a reason.   *)
Whole(k) == /\ k \in 0 .. Len(stream) /\ consumed = Socket!End(k)
            /\ InTurn(received, k)
            /\ (inMap /\ ~Socket!Stuck) =>
                  \A j \in 0 .. Len(stream) : Socket!End(j) <= arrived => j <= k

Overflowed == cause = "overflow" =>
    Socket!Stuck \/ \E k \in DOMAIN stream : Socket!Size(stream[k]) > MaxFrameBytes - MaxChunk

SocketInv == /\ stream \in Seq(Frame)
             /\ arrived \in Nat /\ consumed <= arrived
             /\ arrived <= Socket!End(Len(stream))
             /\ \E k \in 0 .. Len(stream) : Whole(k)
             /\ Overflowed

(* The frames handled are known from the bytes that left the buffer.       *)
LEMMA HandledIs ==
    ASSUME stream \in Seq(Frame), NEW k \in 0 .. Len(stream), consumed = Socket!End(k)
    PROVE  Socket!Handled = k
  <1>1. \A j \in 0 .. Len(stream) : Socket!End(j) = consumed => j = k
    <2> SUFFICES ASSUME NEW j \in 0 .. Len(stream), Socket!End(j) = consumed, j # k
                 PROVE  FALSE
      OBVIOUS
    <2>1. Socket!End(j) < Socket!End(k) \/ Socket!End(k) < Socket!End(j)
      <3>1. j < k \/ k < j
        OBVIOUS
      <3> QED
        BY <3>1, EndsRise DEF Socket!End
    <2>2. Socket!End(j) \in Nat /\ Socket!End(k) \in Nat
      BY EndsAre DEF Socket!End
    <2> QED
      BY <2>1, <2>2
  <1> QED
    BY <1>1 DEF Socket!Handled

(* One frame more, whether or not it is a text, is handled in turn.        *)
LEMMA InTurnNext ==
    ASSUME NEW i \in Nat, i >= 1, NEW s, InTurn(s, i - 1)
    PROVE  InTurn(s \o <<>>, i) /\ InTurn(s \o <<i>>, i)
  <1>1. s \in Seq(1 .. i - 1) /\ s \in Seq(1 .. i)
    <2>1. \A j \in 1 .. Len(s) : s[j] \in 1 .. i
      BY DEF InTurn
    <2> QED
      BY <2>1 DEF InTurn
  <1>2. s \o <<>> = s
    BY <1>1
  <1> DEFINE t == s \o <<i>>
  <1>3. /\ t \in Seq(1 .. i) /\ Len(t) = Len(s) + 1 /\ t[Len(s) + 1] = i
        /\ \A j \in 1 .. Len(s) : t[j] = s[j]
    BY <1>1
  <1>4. \A j \in 1 .. Len(s) : s[j] \in Nat /\ s[j] < i
    BY <1>1
  <1> HIDE DEF t
  <1>5. \A j, l \in 1 .. Len(t) : j < l => t[j] < t[l]
    <2> SUFFICES ASSUME NEW j \in 1 .. Len(t), NEW l \in 1 .. Len(t), j < l
                 PROVE  t[j] < t[l]
      OBVIOUS
    <2>1. Len(s) \in Nat
      BY <1>1
    <2>2. j \in 1 .. Len(s) /\ (l \in 1 .. Len(s) \/ l = Len(s) + 1)
      <3> DEFINE N == Len(s)
      <3>1. N \in Nat /\ j \in 1 .. N + 1 /\ l \in 1 .. N + 1 /\ j < l
        BY <1>3, <2>1
      <3> HIDE DEF N
      <3>2. j \in 1 .. N /\ (l \in 1 .. N \/ l = N + 1)
        BY <3>1
      <3> QED
        BY <3>2 DEF N
    <2>3. CASE l \in 1 .. Len(s)
      BY <1>3, <2>2, <2>3 DEF InTurn
    <2>4. CASE l = Len(s) + 1
      BY <1>3, <1>4, <2>2, <2>4
    <2> QED
      BY <2>2, <2>3, <2>4
  <1>6. InTurn(s, i)
    BY <1>1 DEF InTurn
  <1>7. InTurn(t, i)
    BY <1>3, <1>5 DEF InTurn
  <1> QED
    BY <1>2, <1>6, <1>7 DEF t

(* What a whole frame is to the parser: one with a mask that has arrived   *)
(* to its end.                                                             *)
LEMMA ParsedIs ==
    ASSUME stream \in Seq(Frame), NEW j \in 1 .. Len(stream), NEW n \in Nat
    PROVE  Socket!Parsed(stream[j], n - Socket!End(j - 1)) > 0
              <=> stream[j].masked /\ Socket!End(j) <= n
  <1>1. /\ Socket!End(j) = Socket!End(j - 1) + Socket!Size(stream[j])
        /\ Socket!End(j - 1) \in Nat /\ Socket!End(j) \in Nat
    <2>1. j - 1 \in 0 .. Len(stream) /\ j \in 0 .. Len(stream)
      OBVIOUS
    <2> QED
      BY <2>1, EndsAre DEF Socket!End
  <1>2. /\ Socket!Header(stream[j].len) \in Nat /\ Socket!Header(stream[j].len) >= 2
        /\ Socket!Size(stream[j]) \in Nat
        /\ Socket!Size(stream[j]) >= Socket!Header(stream[j].len)
        /\ stream[j].masked =>
              Socket!Size(stream[j]) = Socket!Header(stream[j].len) + 4 + stream[j].len
        /\ stream[j].masked \in BOOLEAN /\ stream[j].len \in Nat
    <2>1. stream[j] \in Frame
      OBVIOUS
    <2> QED
      BY <2>1, FrameSize, SocketConstants
  <1> QED
    BY <1>1, <1>2 DEF Socket!Parsed

(* What leaves the buffer: all that is whole, up to a frame with no mask.  *)
LEMMA TakenIs ==
    ASSUME stream \in Seq(Frame), NEW k \in 0 .. Len(stream), consumed = Socket!End(k),
           NEW n \in Nat, consumed <= n
    PROVE  /\ Socket!Taken(n) \in k .. Len(stream)
           /\ Socket!End(Socket!Taken(n)) <= n
           /\ Socket!Taken(n) < Len(stream) =>
                 \/ ~stream[Socket!Taken(n) + 1].masked
                 \/ n < Socket!End(Socket!Taken(n) + 1)
  <1> DEFINE K == {i \in k .. Len(stream) :
                     \A j \in k + 1 .. i : Socket!Parsed(stream[j], n - Socket!End(j - 1)) > 0}
             last == Socket!Taken(n)
  <1>1. last = Socket!Max(K)
    BY HandledIs DEF Socket!Taken
  <1>2. k \in K /\ K \in SUBSET (0 .. Len(stream))
    <2>1. k + 1 .. k = {} /\ k \in k .. Len(stream)
      OBVIOUS
    <2> QED
      BY <2>1
  <1>3. \E m \in K : \A i \in K : m >= i
    <2> HIDE DEF K
    <2>1. Len(stream) \in Nat
      OBVIOUS
    <2> QED
      BY <1>2, <2>1, GreatestNumber
  <1>4. last \in K /\ \A i \in K : last >= i
    <2> HIDE DEF K
    <2> QED
      BY <1>1, <1>3 DEF Socket!Max
  <1>5. /\ last \in k .. Len(stream)
        /\ \A j \in k + 1 .. last : Socket!Parsed(stream[j], n - Socket!End(j - 1)) > 0
        /\ last < Len(stream) =>
              ~(Socket!Parsed(stream[last + 1], n - Socket!End(last)) > 0)
    <2>1. /\ last \in k .. Len(stream)
          /\ \A j \in k + 1 .. last : Socket!Parsed(stream[j], n - Socket!End(j - 1)) > 0
      BY <1>4
    <2>2. ASSUME last < Len(stream), Socket!Parsed(stream[last + 1], n - Socket!End(last)) > 0
          PROVE  FALSE
      <3>1. last + 1 - 1 = last /\ last + 1 \in k .. Len(stream)
        BY <2>1, <2>2
      <3>2. \A j \in k + 1 .. last + 1 : j \in k + 1 .. last \/ j = last + 1
        BY <2>1
      <3>3. \A j \in k + 1 .. last + 1 : Socket!Parsed(stream[j], n - Socket!End(j - 1)) > 0
        BY <2>1, <2>2, <3>1, <3>2
      <3>4. last + 1 \in K
        BY <3>1, <3>3
      <3> QED
        BY <1>4, <2>1, <3>4
    <2> QED
      BY <2>1, <2>2
  <1> HIDE DEF last, K
  <1>6. Socket!End(last) <= n
    <2>1. CASE last = k
      BY <2>1
    <2>2. CASE last # k
      <3>1. last \in k + 1 .. last /\ last \in 1 .. Len(stream)
        BY <1>5, <2>2
      <3> QED
        BY <1>5, <3>1, ParsedIs
    <2> QED
      BY <2>1, <2>2
  <1>7. ASSUME last < Len(stream), stream[last + 1].masked
        PROVE  n < Socket!End(last + 1)
    <2>1. last + 1 \in 1 .. Len(stream) /\ last + 1 - 1 = last
      BY <1>5, <1>7
    <2>2. Socket!End(last + 1) \in Nat
      BY <2>1, EndsAre DEF Socket!End
    <2>3. ~(Socket!End(last + 1) <= n)
      BY <1>5, <1>7, <2>1, ParsedIs
    <2> QED
      BY <2>2, <2>3
  <1> QED
    BY <1>5, <1>6, <1>7 DEF last

(* The texts among the frames that are taken are handed on in turn.        *)
LEMMA GotAfterIs ==
    ASSUME stream \in Seq(Frame), NEW k \in 0 .. Len(stream), consumed = Socket!End(k),
           InTurn(received, k), NEW m \in k .. Len(stream)
    PROVE  InTurn(Socket!GotAfter(m), m)
  <1> DEFINE X == Seq(Nat)
             new(i) == IF Socket!Heard(i) THEN <<i>> ELSE <<>>
             g == [s \in X |-> [i \in Nat |-> s \o new(i)]]
             Is(a) == a = [i \in k .. Len(stream) |->
                              IF i = k THEN received ELSE a[i - 1] \o new(i)]
             A == CHOOSE a : Is(a)
  <1>1. received \in X
    BY DEF InTurn
  <1>2. \A i \in Nat : new(i) \in X
    OBVIOUS
  <1>3. g \in [X -> [Nat -> X]]
    <2> HIDE DEF new
    <2> QED
      BY <1>2
  <1>4. PICK a \in [k .. Len(stream) -> X] :
           a[k] = received /\ \A i \in k + 1 .. Len(stream) : a[i] = g[a[i - 1]][i]
    <2>1. k \in Nat /\ Len(stream) \in Nat /\ k <= Len(stream)
      OBVIOUS
    <2> HIDE DEF g, X
    <2>2. \E a : Follows(a, X, k, Len(stream), received, g)
      BY <1>1, <1>3, <2>1, Recursion
    <2> QED
      BY <2>2 DEF Follows
  <1>5. \A i \in k + 1 .. Len(stream) : a[i] = a[i - 1] \o new(i)
    <2> SUFFICES ASSUME NEW i \in k + 1 .. Len(stream) PROVE a[i] = a[i - 1] \o new(i)
      OBVIOUS
    <2> HIDE DEF new, X
    <2>1. i - 1 \in k .. Len(stream) /\ a[i - 1] \in X /\ i \in Nat
      BY <1>4
    <2>2. g[a[i - 1]][i] = a[i - 1] \o new(i)
      BY <2>1
    <2> QED
      BY <1>4, <2>2
  <1>6. Is(a)
    <2> HIDE DEF new, X
    <2> QED
      BY <1>4, <1>5
  <1>7. Is(A)
    <2> HIDE DEF Is
    <2> QED
      BY <1>6
  <1> HIDE DEF A
  <1>8. A[k] = received /\ \A i \in k + 1 .. Len(stream) : A[i] = A[i - 1] \o new(i)
    <2> HIDE DEF new
    <2>1. k \in k .. Len(stream)
      OBVIOUS
    <2>2. \A i \in k + 1 .. Len(stream) : i \in k .. Len(stream) /\ i # k
      OBVIOUS
    <2> QED
      BY <1>7, <2>1, <2>2
  <1>9. Socket!GotAfter(m) = A[m]
    BY HandledIs DEF Socket!GotAfter, A
  <1> DEFINE S == {i \in k .. Len(stream) : ~InTurn(A[i], i)}
  <1>10. S = {}
    <2> SUFFICES ASSUME S # {} PROVE FALSE
      OBVIOUS
    <2>1. PICK i \in S : \A l \in S : i <= l
      <3>1. S \in SUBSET Nat
        OBVIOUS
      <3> HIDE DEF S
      <3> QED
        BY <3>1, LeastNumber
    <2>2. i \in k + 1 .. Len(stream) /\ i - 1 \in k .. Len(stream) /\ i - 1 \notin S
      BY <1>8, <2>1
    <2> DEFINE s == A[i - 1]
               t == A[i]
    <2>3. InTurn(s, i - 1) /\ ~InTurn(t, i) /\ t = s \o new(i)
      BY <1>8, <2>1, <2>2
    <2> HIDE DEF s, t
    <2>4. i \in Nat /\ i >= 1
      BY <2>2
    <2> QED
      BY <2>3, <2>4, InTurnNext
  <1>11. m \in k .. Len(stream) /\ m \notin S
    BY <1>10
  <1> QED
    BY <1>9, <1>11

(* Nothing has been sent at the start.                                     *)
LEMMA SocketInit ==
    ASSUME Socket!Init
    PROVE  SocketInv
  <1>1. stream = <<>> /\ arrived = 0 /\ consumed = 0 /\ received = <<>> /\ cause = "none"
    BY DEF Socket!Init
  <1>2. stream \in Seq(Frame) /\ Len(stream) = 0
    BY <1>1
  <1>3. Socket!End(0) = 0
    BY <1>2, EndsAre DEF Socket!End
  <1>4. InTurn(received, 0)
    BY <1>1 DEF InTurn
  <1>5. Whole(0)
    BY <1>1, <1>2, <1>3, <1>4 DEF Whole
  <1> QED
    BY <1>1, <1>2, <1>3, <1>5 DEF SocketInv, Overflowed

(* A step that leaves the bytes alone, and after which the client is in    *)
(* the map only if it was, and not removed for what it sent.               *)
LEMMA BytesStay ==
    ASSUME SocketInv, UNCHANGED <<stream, arrived, consumed, received>>,
           inMap' => inMap, cause' = "overflow" => cause = "overflow"
    PROVE  SocketInv'
  <1>1. \A k : Socket!End(k)' = Socket!End(k)
    BY DEF Socket!End
  <1>2. Socket!Stuck' = Socket!Stuck
    BY <1>1 DEF Socket!Stuck
  <1>3. \A k : Whole(k) => Whole(k)'
    BY <1>1, <1>2 DEF Whole
  <1>4. Overflowed'
    BY <1>2 DEF SocketInv, Overflowed
  <1> QED
    BY <1>1, <1>3, <1>4 DEF SocketInv

(* A frame that is sent has not arrived.                                   *)
LEMMA ClientSendsStep ==
    ASSUME SocketInv, NEW f \in Frame, Socket!ClientSends(f)
    PROVE  SocketInv'
  <1>1. /\ stream \in Seq(Frame) /\ stream' = Append(stream, f)
        /\ UNCHANGED <<arrived, consumed, received, inMap, cause>>
    BY DEF SocketInv, Socket!ClientSends, Socket!client
  <1>2. /\ stream' \in Seq(Frame) /\ Len(stream') = Len(stream) + 1
        /\ \A k \in 1 .. Len(stream) : stream'[k] = stream[k]
    BY <1>1
  <1>3. \A k \in 0 .. Len(stream) : Socket!End(k)' = Socket!End(k)
    BY <1>1, EndsStay DEF Socket!End
  <1>0. PICK N \in Nat : N = Len(stream)
    BY <1>1
  <1>4. Socket!End(N) \in Nat /\ Socket!End(N + 1)' \in Nat /\ Socket!End(N) < Socket!End(N + 1)'
    <2>1. N \in 0 .. Len(stream') /\ N + 1 \in 0 .. Len(stream') /\ N \in 0 .. Len(stream) /\ N < N + 1
      BY <1>0, <1>1, <1>2
    <2>2. Socket!Ends(stream')[N] < Socket!Ends(stream')[N + 1]
      BY <1>2, <2>1, EndsRise
    <2>3. Socket!Ends(stream')[N] = Socket!Ends(stream)[N]
      BY <1>3, <2>1 DEF Socket!End
    <2>4. Socket!Ends(stream')[N + 1] \in Nat /\ Socket!Ends(stream)[N] \in Nat
      BY <1>1, <1>2, <2>1, EndsAre
    <2> QED
      BY <2>2, <2>3, <2>4 DEF Socket!End
  <1>5. arrived \in Nat /\ arrived <= Socket!End(N)
    BY <1>0 DEF SocketInv
  <1>6. Socket!Stuck => Socket!Stuck'
    <2> SUFFICES ASSUME NEW k \in DOMAIN stream, ~stream[k].masked, Socket!End(k - 1) < arrived
                 PROVE  Socket!Stuck'
      BY DEF Socket!Stuck
    <2>1. k \in 1 .. Len(stream) /\ k \in DOMAIN stream' /\ k - 1 \in 0 .. Len(stream)
      BY <1>1, <1>2
    <2>2. stream'[k] = stream[k] /\ Socket!End(k - 1)' = Socket!End(k - 1)
      BY <1>2, <1>3, <2>1
    <2> QED
      BY <1>1, <2>1, <2>2 DEF Socket!Stuck
  <1>7. PICK k \in 0 .. Len(stream) : Whole(k)
    BY DEF SocketInv
  <1>8. Whole(k)'
    <2>1. k \in 0 .. Len(stream') /\ consumed' = Socket!End(k)' /\ InTurn(received', k)
      BY <1>1, <1>2, <1>3, <1>7 DEF Whole
    <2>2. ASSUME inMap', ~Socket!Stuck', NEW j \in 0 .. Len(stream'), Socket!End(j)' <= arrived'
          PROVE  j <= k
      <3>1. j # N + 1
        BY <1>1, <1>4, <1>5, <2>2
      <3>2. j \in 0 .. Len(stream)
        BY <1>0, <1>1, <1>2, <3>1
      <3> QED
        BY <1>1, <1>3, <1>6, <1>7, <2>2, <3>2 DEF Whole
    <2> QED
      BY <2>1, <2>2 DEF Whole
  <1>9. Overflowed'
    <2> SUFFICES ASSUME cause = "overflow", ~Socket!Stuck'
                 PROVE  \E i \in DOMAIN stream' :
                           Socket!Size(stream'[i]) > MaxFrameBytes - MaxChunk
      BY <1>1 DEF Overflowed
    <2>1. PICK i \in DOMAIN stream : Socket!Size(stream[i]) > MaxFrameBytes - MaxChunk
      BY <1>6 DEF SocketInv, Overflowed
    <2>2. i \in DOMAIN stream' /\ stream'[i] = stream[i]
      BY <1>1, <1>2
    <2> QED
      BY <2>1, <2>2
  <1>10. consumed' <= arrived' /\ arrived' \in Nat /\ arrived' <= Socket!End(Len(stream))'
    <2>1. Socket!End(Len(stream))' = Socket!End(N + 1)'
      BY <1>0, <1>2 DEF Socket!End
    <2>2. consumed <= arrived
      BY DEF SocketInv
    <2> QED
      BY <1>1, <1>4, <1>5, <2>1, <2>2
  <1>11. k \in 0 .. Len(stream')
    BY <1>1, <1>2
  <1> QED
    BY <1>2, <1>8, <1>9, <1>10, <1>11 DEF SocketInv

(* A chunk arrives that ends in or at the end of a frame: whatever is      *)
(* whole leaves the buffer.                                                *)
LEMMA OnDataStep ==
    ASSUME SocketInv, NEW n \in Nat, n <= Socket!End(Len(stream)), Socket!OnData(n)
    PROVE  SocketInv'
  <1>1. /\ stream \in Seq(Frame) /\ stream' = stream /\ arrived' = n
        /\ inMap /\ arrived < n /\ arrived \in Nat /\ consumed <= arrived
        /\ n - arrived <= MaxChunk \/ Socket!Taken(n) = Socket!Handled
    BY DEF SocketInv, Socket!OnData
  <1>2. \A k : Socket!End(k)' = Socket!End(k)
    BY <1>1 DEF Socket!End
  <1>3. /\ Socket!End(0) = 0
        /\ \A k \in 0 .. Len(stream) : Socket!End(k) \in Nat
        /\ \A k \in 1 .. Len(stream) : Socket!End(k) = Socket!End(k - 1) + Socket!Size(stream[k])
        /\ \A j, k \in 0 .. Len(stream) : j < k => Socket!End(j) < Socket!End(k)
    BY <1>1, EndsAre, EndsRise DEF Socket!End
  <1>4. PICK k \in 0 .. Len(stream) : Whole(k)
    BY DEF SocketInv
  <1>5. Socket!Handled = k /\ consumed = Socket!End(k) /\ InTurn(received, k) /\ consumed \in Nat
    BY <1>1, <1>3, <1>4, HandledIs DEF Whole
  <1> DEFINE last == Socket!Taken(n)
  <1>6. /\ last \in k .. Len(stream) /\ Socket!End(last) <= n
        /\ last < Len(stream) => ~stream[last + 1].masked \/ n < Socket!End(last + 1)
    BY <1>1, <1>5, TakenIs
  <1>7. Socket!Stuck => Socket!Stuck'
    <2> SUFFICES ASSUME NEW i \in DOMAIN stream, ~stream[i].masked, Socket!End(i - 1) < arrived
                 PROVE  Socket!Stuck'
      BY DEF Socket!Stuck
    <2>1. i \in 1 .. Len(stream) /\ i - 1 \in 0 .. Len(stream) /\ Socket!End(i - 1) \in Nat
      BY <1>1, <1>3
    <2>2. Socket!End(i - 1) < n
      BY <1>1, <2>1
    <2> QED
      BY <1>1, <1>2, <2>2 DEF Socket!Stuck
  <1>8. ~Socket!Stuck' => \A j \in 0 .. Len(stream) : Socket!End(j) <= n => j <= last
    <2> SUFFICES ASSUME ~Socket!Stuck', NEW j \in 0 .. Len(stream), Socket!End(j) <= n, last < j
                 PROVE  FALSE
      BY <1>6
    <2> HIDE DEF last
    <2>1. last < Len(stream) /\ last + 1 \in 1 .. Len(stream) /\ last + 1 - 1 = last
      BY <1>6
    <2>2. Socket!End(last + 1) <= n
      <3>1. last + 1 = j \/ last + 1 < j
        BY <1>6
      <3>2. Socket!End(last + 1) \in Nat /\ Socket!End(j) \in Nat
        BY <1>3, <2>1
      <3>3. last + 1 < j => Socket!End(last + 1) < Socket!End(j)
        BY <1>3, <2>1
      <3> QED
        BY <3>1, <3>2, <3>3
    <2>3. Socket!End(last + 1) \in Nat /\ Socket!End(last) \in Nat
          /\ Socket!End(last) < Socket!End(last + 1)
      <3>1. last \in 0 .. Len(stream) /\ last + 1 \in 0 .. Len(stream) /\ last < last + 1
        BY <1>6, <2>1
      <3> QED
        BY <1>3, <3>1
    <2>4. ~stream[last + 1].masked
      BY <1>6, <2>1, <2>2, <2>3
    <2>5. Socket!End(last + 1 - 1) < n
      BY <2>1, <2>2, <2>3
    <2>6. PICK m \in DOMAIN stream : m = last + 1
      BY <1>1, <2>1
    <2>7. Socket!End(m - 1)' = Socket!End(m - 1)
      BY <1>2
    <2>8. ~stream[m].masked /\ Socket!End(m - 1) < n
      <3>1. ~stream[m].masked
        BY <2>4, <2>6
      <3>2. m - 1 = last + 1 - 1
        BY <1>6, <2>6
      <3>3. Socket!End(m - 1) < n
        BY <2>5, <3>2
      <3> QED
        BY <3>1, <3>3
    <2>9. ~stream'[m].masked /\ Socket!End(m - 1)' < arrived' /\ m \in DOMAIN stream'
      BY <1>1, <2>7, <2>8
    <2> QED
      BY <2>9 DEF Socket!Stuck
  <1>9. CASE n - consumed > MaxFrameBytes
    <2>1. ~inMap' /\ cause' = "overflow" /\ UNCHANGED <<consumed, received>>
      BY <1>9 DEF Socket!OnData, Socket!RemoveClient
    <2>2. Whole(k)'
      BY <1>1, <1>2, <1>5, <2>1 DEF Whole
    <2>3. Overflowed'
      <3> SUFFICES ASSUME ~Socket!Stuck'
                   PROVE  \E i \in DOMAIN stream :
                             Socket!Size(stream[i]) > MaxFrameBytes - MaxChunk
        BY <1>1 DEF Overflowed
      <3>1. \A j \in 0 .. Len(stream) : Socket!End(j) <= arrived => j <= k
        BY <1>1, <1>4, <1>7 DEF Whole
      <3>2. k < Len(stream)
        <4>1. Socket!End(Len(stream)) \in Nat /\ Len(stream) \in Nat
          BY <1>1, <1>3
        <4>2. ~(k = Len(stream))
          BY <1>1, <1>5, <4>1
        <4> QED
          BY <4>1, <4>2
      <3>3. /\ k + 1 \in 1 .. Len(stream) /\ k + 1 - 1 = k /\ k + 1 \in 0 .. Len(stream)
            /\ k + 1 \in DOMAIN stream
        BY <1>1, <3>2
      <3>4. /\ Socket!End(k + 1) = consumed + Socket!Size(stream[k + 1])
            /\ Socket!End(k + 1) \in Nat
            /\ Socket!Size(stream[k + 1]) \in Nat
        <4>1. Socket!Size(stream[k + 1]) \in Nat
          BY <1>1, <3>3, FrameSize
        <4> QED
          BY <1>3, <1>5, <3>3, <4>1
      <3>5. CASE n - arrived <= MaxChunk
        <4>1. ~(Socket!End(k + 1) <= arrived)
          BY <3>1, <3>3
        <4>2. Socket!Size(stream[k + 1]) > MaxFrameBytes - MaxChunk
          BY <1>1, <1>5, <1>9, <3>4, <3>5, <4>1, SocketConstants
        <4> QED
          BY <3>3, <4>2
      <3>6. CASE last = k
        <4>1. ~(Socket!End(k + 1) <= n)
          BY <1>8, <3>3, <3>6
        <4>2. Socket!Size(stream[k + 1]) > MaxFrameBytes - MaxChunk
          BY <1>1, <1>5, <1>9, <3>4, <4>1, SocketConstants
        <4> QED
          BY <3>3, <4>2
      <3> QED
        BY <1>1, <1>5, <3>5, <3>6
    <2> QED
      BY <1>1, <1>2, <1>5, <2>1, <2>2, <2>3 DEF SocketInv
  <1>10. CASE ~(n - consumed > MaxFrameBytes)
    <2>1. /\ consumed' = Socket!End(last) /\ received' = Socket!GotAfter(last)
          /\ cause' = "close" \/ cause' = cause
      BY <1>10 DEF Socket!OnData, Socket!RemoveClient
    <2>2. InTurn(received', last)
      BY <1>1, <1>5, <1>6, <2>1, GotAfterIs
    <2> HIDE DEF last
    <2>3. PICK m \in 0 .. Len(stream) : m = last
      BY <1>6
    <2>4. Whole(m)'
      BY <1>1, <1>2, <1>8, <2>1, <2>2, <2>3 DEF Whole
    <2>5. Overflowed'
      BY <1>1, <1>7, <2>1 DEF SocketInv, Overflowed
    <2>6. consumed' <= arrived'
      BY <1>1, <1>6, <2>1
    <2> QED
      BY <1>1, <1>2, <2>4, <2>5, <2>6 DEF SocketInv
  <1> QED
    BY <1>9, <1>10

(* Chunks end within what was sent.                                        *)
LEMMA CutsAre ==
    ASSUME stream \in Seq(Frame), NEW n \in Socket!Cuts, NEW a \in Nat, n > a
    PROVE  n \in Nat /\ n <= Socket!End(Len(stream))
  <1>1. PICK k \in DOMAIN stream :
           LET o == Socket!End(k - 1)  f == stream[k]
           IN  n \in {o + 1, o + 2, o + Socket!Header(f.len), Socket!End(k) - MaxChunk,
                      Socket!End(k) - 1, Socket!End(k)}
    BY DEF Socket!Cuts
  <1> DEFINE o == Socket!End(k - 1)
             h == Socket!Header(stream[k].len)
             e == Socket!End(k)
  <1>2. n \in {o + 1, o + 2, o + h, e - MaxChunk, e - 1, e}
    BY <1>1
  <1>3. k \in 1 .. Len(stream) /\ k - 1 \in 0 .. Len(stream) /\ k \in 0 .. Len(stream)
    OBVIOUS
  <1>4. o \in Nat /\ e \in Nat /\ e = o + Socket!Size(stream[k])
    BY <1>3, EndsAre DEF Socket!End
  <1>5. h \in Nat /\ h >= 2 /\ Socket!Size(stream[k]) \in Nat /\ h <= Socket!Size(stream[k])
    BY FrameSize
  <1>6. e <= Socket!End(Len(stream)) /\ Socket!End(Len(stream)) \in Nat
    <2>1. Len(stream) \in 0 .. Len(stream) /\ (k < Len(stream) \/ k = Len(stream))
      BY <1>3
    <2>2. Socket!End(Len(stream)) \in Nat
      BY <2>1, EndsAre DEF Socket!End
    <2>3. k < Len(stream) => e < Socket!End(Len(stream))
      BY <1>3, <2>1, EndsRise DEF Socket!End
    <2> QED
      BY <1>4, <2>1, <2>2, <2>3
  <1> HIDE DEF o, h, e
  <1> QED
    BY <1>2, <1>4, <1>5, <1>6, SocketConstants

LEMMA SocketStep ==
    ASSUME SocketInv, [Socket!Next]_socketVars
    PROVE  SocketInv'
  <1> USE DEF Socket!bytes, Socket!client
  <1>1. CASE Socket!Ping
    BY <1>1, BytesStay DEF Socket!Ping, Socket!PingInterval, Socket!RemoveClient
  <1>2. CASE Socket!SocketCloses
    BY <1>2, BytesStay DEF Socket!SocketCloses, Socket!RemoveClient
  <1>3. CASE Socket!LinkBreaks
    BY <1>3, BytesStay DEF Socket!LinkBreaks
  <1>4. CASE UNCHANGED socketVars
    BY <1>4, BytesStay DEF socketVars
  <1>5. ASSUME NEW f \in Frame, Socket!ClientSends(f)
        PROVE  SocketInv'
    BY <1>5, ClientSendsStep
  <1>6. ASSUME NEW n \in Socket!Cuts, Socket!OnData(n)
        PROVE  SocketInv'
    <2>1. n > arrived /\ stream \in Seq(Frame) /\ arrived \in Nat
      BY <1>6 DEF SocketInv, Socket!OnData
    <2> QED
      BY <1>6, <2>1, CutsAre, OnDataStep
  <1> QED
    BY <1>1, <1>2, <1>3, <1>4, <1>5, <1>6 DEF Socket!Next

(* However a client's frames are cut into chunks, and whenever it is       *)
(* removed, each is handled once, in its order and as soon as it is whole, *)
(* and the buffer overflows only on frames that nearly fill it             *)
(* (websocket-server.ts:111-126, 300-335).                                 *)
THEOREM SocketKeepsUp == Spec => []KeepsUp
  <1>1. Init => SocketInv
    BY SocketInit DEF Init
  <1>2. SocketInv /\ [Next]_vars => SocketInv'
    <2>1. [Next]_vars => [Socket!Next]_socketVars
      BY DEF Next, vars
    <2> QED
      BY <2>1, SocketStep
  <1>3. SocketInv => KeepsUp
    <2> SUFFICES ASSUME SocketInv PROVE Socket!KeepsUp
      BY DEF KeepsUp
    <2>1. PICK k \in 0 .. Len(stream) : Whole(k)
      BY DEF SocketInv
    <2>2. stream \in Seq(Frame) /\ consumed = Socket!End(k) /\ consumed <= arrived /\ arrived \in Nat
      BY <2>1 DEF SocketInv, Whole
    <2>3. ASSUME inMap, ~Socket!Stuck
          PROVE  consumed = Socket!Max({Socket!End(i) : i \in {j \in 0 .. Len(stream) :
                                           Socket!End(j) <= arrived}})
      <3> DEFINE I == {j \in 0 .. Len(stream) : Socket!End(j) <= arrived}
                 E == {Socket!End(i) : i \in I}
      <3>1. k \in I /\ consumed \in E
        BY <2>2
      <3>2. \A i \in I : Socket!End(i) \in Nat /\ Socket!End(i) <= consumed
        <4> SUFFICES ASSUME NEW i \in I PROVE Socket!End(i) \in Nat /\ Socket!End(i) <= consumed
          OBVIOUS
        <4>1. i \in 0 .. Len(stream) /\ i <= k
          BY <2>1, <2>3 DEF Whole
        <4>2. Socket!End(i) \in Nat /\ Socket!End(k) \in Nat
          BY <2>2, <4>1, EndsAre DEF Socket!End
        <4>3. i < k => Socket!End(i) < Socket!End(k)
          BY <2>2, <4>1, EndsRise DEF Socket!End
        <4> QED
          BY <2>2, <4>1, <4>2, <4>3
      <3>3. \A e \in E : e \in Nat /\ e <= consumed
        BY <3>2
      <3> HIDE DEF E, I
      <3>4. Socket!Max(E) \in E /\ \A e \in E : Socket!Max(E) >= e
        BY <3>1, <3>3 DEF Socket!Max
      <3>5. Socket!Max(E) = consumed
        BY <3>1, <3>3, <3>4
      <3> QED
        BY <3>5 DEF E, I
    <2>4. InTurn(received, k)
      BY <2>1 DEF Whole
    <2>5. Socket!IsInjective(received)
      <3> SUFFICES ASSUME NEW i \in DOMAIN received, NEW j \in DOMAIN received,
                          received[i] = received[j], i # j
                   PROVE  FALSE
        BY DEF Socket!IsInjective
      <3>1. i \in 1 .. Len(received) /\ j \in 1 .. Len(received)
        BY <2>4 DEF InTurn
      <3>2. received[i] \in Nat /\ received[j] \in Nat
        BY <2>4, <3>1 DEF InTurn
      <3>3. received[i] < received[j] \/ received[j] < received[i]
        BY <2>4, <3>1 DEF InTurn
      <3> QED
        BY <3>2, <3>3
    <2>6. Socket!IsSorted(received, <=)
      <3>1. \A i, j \in 1 .. Len(received) : i < j => received[i] <= received[j]
        BY <2>4 DEF InTurn
      <3> QED
        BY <3>1 DEF Socket!IsSorted
    <2> QED
      BY <2>3, <2>5, <2>6 DEF Socket!KeepsUp, SocketInv, Overflowed
  <1> QED
    BY <1>1, <1>2, <1>3, PTL DEF Spec
=============================================================================

----------------------------- MODULE Reminders -----------------------------
(***************************************************************************)
(* Reminders: the reminders table of src/src/orchestrator/database.ts, the *)
(* dispatcher of reminder-dispatcher.ts, and the routes that create,       *)
(* change, swap, complete and delete them.  Only the first reminder of an  *)
(* agent is ever due; completing one delivers the first that is left.      *)
(*                                                                         *)
(* A delivery is a message for the agent's queue (Dispatcher has the way   *)
(* on from there).  Time passes in units of which a cadence has a few;     *)
(* last_delivered_at is how long ago it was, up to the longest.            *)
(***************************************************************************)
EXTENDS Integers, FiniteSets, FiniteSetsExt

CONSTANTS Agent, Id, NoRow,
          Never,        \* last_delivered_at is NULL
          Cadences,     \* the cadence_minutes that are asked for
          MaxOrder      \* bound on sort_order

VARIABLES reminder,  \* reminder[i]: the row of i, or NoRow
          busy,      \* agents whose state is "active"
          heard      \* history: how long ago i was last delivered

vars == <<reminder, busy, heard>>

Age == 0 .. Max(Cadences)
Row == [agent : Agent, order : 0 .. MaxOrder, cadence : Cadences, skip : BOOLEAN,
        last : Age \cup {Never}]

RemindersAssumption == /\ Cadences \subseteq Nat
                       /\ \E m \in Cadences : \A c \in Cadences : c <= m
                       /\ MaxOrder \in Nat
                       /\ NoRow \notin Row /\ Never \notin Age

TypeOK == /\ reminder \in [Id -> Row \cup {NoRow}]
          /\ busy \subseteq Agent
          /\ heard \in [Id -> Age \cup {Never}]

Init == /\ reminder = [i \in Id |-> NoRow]
        /\ busy \in SUBSET Agent
        /\ heard = [i \in Id |-> Never]

-----------------------------------------------------------------------------
(* The table                                                               *)

Pending(a) == {i \in Id : reminder[i] # NoRow /\ reminder[i].agent = a}

CountOrder(a) == Cardinality(Pending(a))                          \* mutant
NextOrder(a) == Max({reminder[i].order : i \in Pending(a)} \cup {-1}) + 1

(* MIN(sort_order): more than one row when orders are equal.               *)
Top(a) == {i \in Pending(a) : \A j \in Pending(a) : reminder[i].order <= reminder[j].order}

ElapsedSince(r) == r.last # Never /\ r.last >= r.cadence          \* mutant
Elapsed(r) == r.last = Never \/ r.last >= r.cadence

(* listDueReminders, and the check of skipIfActive in tick.                *)
Due == {i \in UNION {Top(a) : a \in Agent} :
           Elapsed(reminder[i]) /\ ~(reminder[i].skip /\ reminder[i].agent \in busy)}

SendOnly(rows, ids) == reminder' = rows                           \* mutant
(* updateReminderDelivery *)
Stamp(rows, ids) ==
    reminder' = [i \in Id |-> IF i \in ids THEN [rows[i] EXCEPT !.last = 0] ELSE rows[i]]

Deliver(rows, ids) ==
    /\ Stamp(rows, ids)
    /\ heard' = [i \in Id |-> IF i \in ids THEN 0 ELSE heard[i]]

-----------------------------------------------------------------------------
(* Operations                                                              *)

(* Also for the replyReminder of a message.                                *)
CreateReminder(a, i, c, skip) ==
    /\ reminder[i] = NoRow /\ NextOrder(a) <= MaxOrder
    /\ reminder' = [reminder EXCEPT ![i] = [agent |-> a, order |-> NextOrder(a),
                       cadence |-> c, skip |-> skip, last |-> Never]]
    /\ heard' = [heard EXCEPT ![i] = Never]
    /\ UNCHANGED busy

UpdateReminder(i, c, skip) ==
    /\ reminder[i] # NoRow
    /\ reminder' = [reminder EXCEPT ![i].cadence = c, ![i].skip = skip]
    /\ UNCHANGED <<busy, heard>>

DeleteReminder(i) == /\ reminder[i] # NoRow
                     /\ reminder' = [reminder EXCEPT ![i] = NoRow]
                     /\ UNCHANGED <<busy, heard>>

(* The first one that is left is delivered, whether or not the completed   *)
(* one was before it and whatever its cadence.                             *)
CompleteReminder(i) ==
    /\ reminder[i] # NoRow
    /\ LET a == reminder[i].agent
           rest == Pending(a) \ {i}
           first == {j \in rest : \A k \in rest : reminder[j].order <= reminder[k].order}
       IN  \E next \in IF first = {} THEN {{}} ELSE {{j} : j \in first} :
              Deliver([reminder EXCEPT ![i] = NoRow],
                      {j \in next : ~(reminder[j].skip /\ a \in busy)})
    /\ UNCHANGED busy

SwapReminders(i, j) ==
    /\ reminder[i] # NoRow /\ reminder[j] # NoRow
    /\ reminder[i].agent = reminder[j].agent
    /\ reminder' = [reminder EXCEPT ![i].order = reminder[j].order,
                                    ![j].order = reminder[i].order]
    /\ UNCHANGED <<busy, heard>>

(* The interval of the dispatcher.                                         *)
Tick == Deliver(reminder, Due) /\ UNCHANGED busy

Older(t) == IF t = Never THEN Never ELSE IF t < Max(Cadences) THEN t + 1 ELSE t
Pass == /\ reminder' = [i \in Id |-> IF reminder[i] = NoRow THEN NoRow
                                     ELSE [reminder[i] EXCEPT !.last = Older(@)]]
        /\ heard' = [i \in Id |-> Older(heard[i])]
        /\ UNCHANGED busy

AgentTurns(a) == /\ busy' = IF a \in busy THEN busy \ {a} ELSE busy \cup {a}
                 /\ UNCHANGED <<reminder, heard>>

Next == \/ Tick \/ Pass
        \/ \E a \in Agent : AgentTurns(a)
        \/ \E a \in Agent, i \in Id, c \in Cadences, s \in BOOLEAN : CreateReminder(a, i, c, s)
        \/ \E i \in Id, c \in Cadences, s \in BOOLEAN : UpdateReminder(i, c, s)
        \/ \E i \in Id : DeleteReminder(i) \/ CompleteReminder(i)
        \/ \E i, j \in Id : i # j /\ SwapReminders(i, j)

Spec == Init /\ [][Next]_vars

(* setInterval goes off, and so does the clock.                            *)
FairSpec == Spec /\ WF_vars(Tick) /\ WF_vars(Pass)

-----------------------------------------------------------------------------
(* Properties                                                              *)

(* The reminders of an agent have an order, whatever was created, swapped, *)
(* completed and deleted: exactly one of them is first (createReminder,    *)
(* swapReminderOrder).                                                     *)
OneIsFirst == \A a \in Agent : Pending(a) # {} => Cardinality(Top(a)) = 1

(* What the next tick sends was not sent within its cadence, by a tick or  *)
(* by a completion before it (listDueReminders, updateReminderDelivery).   *)
DueIsOver == \A i \in Due : heard[i] = Never \/ heard[i] >= reminder[i].cadence

(* A reminder that stays first and need not wait for its agent to be at    *)
(* rest is delivered, the first time too (reminder-dispatcher.ts:43-83).   *)
FirstIsHeard ==
    \A i \in Id : (reminder[i] # NoRow /\ heard[i] = Never)
        ~> \/ reminder[i] = NoRow \/ heard[i] # Never
           \/ i \notin Top(reminder[i].agent) \/ reminder[i].skip
=============================================================================

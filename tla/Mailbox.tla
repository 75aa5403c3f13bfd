------------------------------ MODULE Mailbox ------------------------------
(***************************************************************************)
(* What the delivery of messages to one agent promises: a message is       *)
(* posted once, handed over by one delivery at a time, and its outcome is  *)
(* recorded by the delivery that had it in hand.  Who delivers, when and   *)
(* how often it is retried is left open.                                   *)
(***************************************************************************)
EXTENDS Naturals

CONSTANTS Msg, None

VARIABLES status,   \* status[m]: what is known of m
          copies,   \* copies[m]: how often the agent was sent m (0, 1, many)
          current   \* the message in hand, or None

vars == <<status, copies, current>>

Init == /\ status = [m \in Msg |-> "none"]
        /\ copies = [m \in Msg |-> 0]
        /\ current = None

(* A sender posts or cancels a message.                                    *)
Asked(m) == \/ status'[m] = status[m]
            \/ status[m] = "none" /\ status'[m] = "pending"
            \/ status[m] = "pending" /\ status'[m] = "failed"

(* Senders ask, and a pending message may be taken in hand.                *)
Ask == /\ status' \in [Msg -> {"none", "pending", "delivered", "failed"}]
       /\ \A m \in Msg : Asked(m)
       /\ \/ current' = current
          \/ /\ current = None
             /\ current' \in {m \in Msg : status'[m] = "pending"}
       /\ UNCHANGED copies

Send == /\ current # None
        /\ \E n \in {1, 2} : /\ n >= copies[current]
                             /\ copies' = [copies EXCEPT ![current] = n]
        /\ UNCHANGED <<status, current>>

Delivered == /\ current # None /\ copies[current] > 0
             /\ status' = [status EXCEPT ![current] = "delivered"]
             /\ current' = None
             /\ UNCHANGED copies

(* The delivery ends without success: the message fails or stays as it is. *)
Ended == /\ current # None
         /\ current' = None
         /\ status' \in {status, [status EXCEPT ![current] = "failed"]}
         /\ UNCHANGED copies

Next == Ask \/ Send \/ Delivered \/ Ended

Spec == Init /\ [][Next]_vars
=============================================================================

----------------------------- MODULE TmuxPane -----------------------------
(***************************************************************************)
(* Texts on their way into the input line of one agent's pane:             *)
(* pasteText of src/src/proxy/tmux.ts, which types the text and presses    *)
(* Enter some time later, a millisecond for each character; proxyDispatch  *)
(* of src/src/orchestrator/main.ts, which gives an attempt 15 s and makes  *)
(* three; deliverToAgent, which holds the agent's lock meanwhile, for the  *)
(* 30 s of its lease; and the routes that type without a lock.             *)
(* A text is the call that sends it: a line is a sequence of calls.        *)
(***************************************************************************)
EXTENDS Integers, Sequences, Functions

CONSTANTS Call,
          Locked,   \* the calls of deliverToAgent; the others are routes
          Unsent,   \* routes without pressEnter
          Delay,    \* Delay[c]: ticks between the text of c and its Enter
          Timeout,  \* ticks of AbortSignal.timeout
          Lease,    \* ticks of a lease
          Attempts, \* PROXY_RETRY_COUNT + 1
          MaxLost   \* bound on what is lost, or fails with its text typed

VARIABLES line,      \* what stands in the input line
          submitted, \* the lines that were submitted
          requests,  \* the requests at the proxy, see Request
          pc,        \* where a call is
          tries,     \* its attempts
          left,      \* what is left of the time of its attempt
          lease,     \* the row of agent_locks: owner and time left
          lost,      \* such failures, and lost requests and answers, for MaxLost
          late       \* history: calls that gave up an attempt: it took too long,
                     \* or its connection broke; or that failed with their text typed

vars == <<line, submitted, requests, pc, tries, left, lease, lost, late>>

Nobody == "nobody"

(* An attempt ends before the lease of its call.                           *)
TmuxPaneAssumption ==
    /\ Locked \subseteq Call /\ Unsent \subseteq Call /\ Locked \cap Unsent = {}
    /\ Nobody \notin Call
    /\ Delay \in [Call -> Nat] /\ {Timeout, Lease, Attempts, MaxLost} \subseteq Nat
    /\ Timeout < Lease /\ Attempts > 0

Request == [call : Call, try : 1 .. Attempts, at : {"way", "pasted", "lost"}, left : Nat]

TypeOK == /\ line \in Seq(Call) /\ \A s \in submitted : s \in Seq(Call)
          /\ requests \subseteq Request
          /\ pc \in [Call -> {"waiting", "sent", "backoff", "delivered", "failed"}]
          /\ tries \in [Call -> 0 .. Attempts] /\ left \in [Call -> 0 .. Timeout]
          /\ lease \in [owner : Call \cup {Nobody}, left : 0 .. Lease]
          /\ lost \in 0 .. MaxLost /\ late \subseteq Call

Init == /\ line = <<>> /\ submitted = {} /\ requests = {}
        /\ pc = [c \in Call |-> "waiting"]
        /\ tries = [c \in Call |-> 0] /\ left = [c \in Call |-> 0]
        /\ lease = [owner |-> Nobody, left |-> 0]
        /\ lost = 0 /\ late = {}

-----------------------------------------------------------------------------
(* The orchestrator                                                        *)

Send(c) == /\ requests' = requests \cup
                 {[call |-> c, try |-> tries[c] + 1, at |-> "way", left |-> Delay[c]]}
           /\ tries' = [tries EXCEPT ![c] = @ + 1]
           /\ left' = [left EXCEPT ![c] = Timeout]
           /\ pc' = [pc EXCEPT ![c] = "sent"]

(* An expired row is no obstacle.                                          *)
Start(c) == /\ pc[c] = "waiting"
            /\ c \in Locked => lease.left = 0
            /\ lease' = IF c \in Locked THEN [owner |-> c, left |-> Lease] ELSE lease
            /\ Send(c)
            /\ UNCHANGED <<line, submitted, lost, late>>

Retry(c) == /\ pc[c] = "backoff"
            /\ Send(c)
            /\ UNCHANGED <<line, submitted, lease, lost, late>>

(* The finally of withLock removes the row only if it is the call's own.   *)
End(c, how) == /\ pc' = [pc EXCEPT ![c] = how]
               /\ lease' = IF lease.owner = c THEN [owner |-> Nobody, left |-> 0] ELSE lease

OfAttempt(c) == {r \in requests : r.call = c /\ r.try = tries[c]}

OncePasted(c) == \A r \in OfAttempt(c) : r.at = "pasted"          \* mutant
(* pasteText awaits its Enter before the proxy answers.                    *)
Finished(c) == OfAttempt(c) = {}

Answered(c) == /\ pc[c] = "sent" /\ Finished(c)
               /\ End(c, "delivered")
               /\ UNCHANGED <<line, submitted, requests, tries, left, lost, late>>

(* The attempt is out of time, or its connection broke.                    *)
GiveUp(c) ==
    /\ pc[c] = "sent"
    /\ \/ left[c] = 0 /\ UNCHANGED lost
       \/ lost < MaxLost /\ lost' = lost + 1
    /\ IF tries[c] < Attempts THEN pc' = [pc EXCEPT ![c] = "backoff"] /\ UNCHANGED lease
                              ELSE End(c, "failed")
    /\ late' = late \cup {c}
    /\ requests' = {r \in requests : ~(r.call = c /\ r.at = "lost")}
    /\ UNCHANGED <<line, submitted, tries, left>>

-----------------------------------------------------------------------------
(* The proxy                                                               *)

(* load-buffer and paste-buffer run in one turn.  Without pressEnter that  *)
(* is all.                                                                 *)
Paste(r) ==
    /\ r \in requests /\ r.at = "way"
    /\ line' = Append(line, r.call)
    /\ requests' = (requests \ {r}) \cup
           IF r.call \in Unsent THEN {} ELSE {[r EXCEPT !.at = "pasted"]}
    /\ UNCHANGED <<submitted, pc, tries, left, lease, lost, late>>

Awaited(r) == r.try = tries[r.call] /\ pc[r.call] = "sent"

(* A tmux command that fails is the answer, which is not tried again.      *)
AnswerError(r) == /\ requests' = requests \ {r}
                  /\ IF Awaited(r) THEN End(r.call, "failed") ELSE UNCHANGED <<pc, lease>>

(* The pane does not answer: nothing is typed.                             *)
Refuse(r) ==
    /\ r \in requests /\ r.at = "way"
    /\ AnswerError(r)
    /\ UNCHANGED <<line, submitted, tries, left, lost, late>>

Submit == submitted' = submitted \cup {line} /\ line' = <<>>

Enter(r) ==
    /\ r \in requests /\ r.at = "pasted" /\ r.left = 0
    /\ requests' = requests \ {r}
    /\ Submit
    /\ UNCHANGED <<pc, tries, left, lease, lost, late>>

(* paste-buffer or the Enter fails when the text is in the line, or is out *)
(* of its 10 s, and may have been carried out all the same.                *)
Break(r) ==
    /\ r \in requests /\ r.at = "pasted" /\ r.left \in {Delay[r.call], 0}
    /\ lost < MaxLost /\ lost' = lost + 1
    /\ AnswerError(r)
    /\ late' = late \cup {r.call}
    /\ Submit \/ UNCHANGED <<line, submitted>>
    /\ UNCHANGED <<tries, left>>

(* A request never arrives: it is refused, or is lost without a word.      *)
Lose(r) ==
    /\ r \in requests /\ r.at = "way" /\ lost < MaxLost
    /\ lost' = lost + 1
    /\ \/ /\ Awaited(r)
          /\ requests' = (requests \ {r}) \cup {[r EXCEPT !.at = "lost"]}
          /\ UNCHANGED <<pc, lease>>
       \/ /\ requests' = requests \ {r}
          /\ IF ~Awaited(r) THEN UNCHANGED <<pc, lease>>
             ELSE IF tries[r.call] < Attempts
             THEN pc' = [pc EXCEPT ![r.call] = "backoff"] /\ UNCHANGED lease
             ELSE End(r.call, "failed")
    /\ UNCHANGED <<line, submitted, tries, left, late>>

(* Timers that are due go off, requests arrive and backoffs end (1 s) in   *)
(* less than a tick of 5 s.                                                *)
Less(n) == IF n = 0 THEN 0 ELSE n - 1
Tick ==
    /\ \A c \in Call : pc[c] # "backoff" /\ (pc[c] = "sent" => left[c] > 0 /\ ~Finished(c))
    /\ \A r \in requests : r.at # "way" /\ (r.at = "pasted" => r.left > 0)
    /\ requests # {} \/ lease.left > 0
    /\ requests' = {[r EXCEPT !.left = Less(@)] : r \in requests}
    /\ left' = [c \in Call |-> Less(left[c])]
    /\ lease' = [lease EXCEPT !.left = Less(@)]
    /\ UNCHANGED <<line, submitted, pc, tries, lost, late>>

Next == \/ \E c \in Call : Start(c) \/ Retry(c) \/ Answered(c) \/ GiveUp(c)
        \/ \E r \in requests : Paste(r) \/ Refuse(r) \/ Enter(r) \/ Break(r) \/ Lose(r)
        \/ Tick

Spec == Init /\ [][Next]_vars

-----------------------------------------------------------------------------
(* Properties                                                              *)

(* Two texts that were delivered under the agent's lock are not submitted  *)
(* as one line, unless an attempt of one was given up (a request or an     *)
(* answer that was lost, or a text of more than 15,000 characters, whose   *)
(* time may be up while the proxy still types; after two such attempts the *)
(* lease is up too), or one failed with its text in the line, where it     *)
(* stands until the next Enter (tmux.ts:72-95, main.ts:111-116).           *)
OneTextPerLine ==
    \A s \in submitted : \A i, j \in DOMAIN s :
        s[i] # s[j] /\ {s[i], s[j]} \subseteq Locked => {s[i], s[j]} \cap late # {}

(* A text whose delivery is reported as made was submitted.                *)
SubmittedIfDelivered ==
    \A c \in Call \ Unsent : pc[c] = "delivered" => \E s \in submitted : c \in Range(s)

(* Without the exception: "avoid command interleaving in the agent's tmux  *)
(* pane" (message-dispatcher.ts:141) does not hold.                        *)
NeverMerged == \A s \in submitted : \A i, j \in DOMAIN s :
                  {s[i], s[j]} \subseteq Locked => s[i] = s[j]
=============================================================================

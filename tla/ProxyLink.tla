----------------------------- MODULE ProxyLink -----------------------------
(***************************************************************************)
(* How a tmux proxy stays registered: src/src/proxy/main.ts, the proxies   *)
(* table of database.ts, its routes and the stale-proxy timer.             *)
(*                                                                         *)
(* A unit of time is a heartbeat interval (15 s).  Requests of the proxy   *)
(* have no timeout: they may take any time, get lost, or be handled with   *)
(* the answer lost.  Those of a dead process are not handled any more.     *)
(***************************************************************************)
EXTENDS Integers, FiniteSets

CONSTANTS None,
          StaleAfter,  \* units without heartbeat after which a row is stale
          MaxStart,    \* bound on processes of the proxy
          MaxCall,     \* bound on its requests under way
          MaxFault     \* bound on lost requests and restarts of the orchestrator

VARIABLES row,   \* of the proxies table: None, or token and age of last_heartbeat
          up,  \* is the orchestrator there?
          phase,    \* of the proxy: "up" after start
          token,      \* one per process of the proxy: its number
          registered, \* what the proxy believes
          calls,      \* its requests: what, and the answer once there is one
          due,        \* is the heartbeat timer due?
          faults      \* counter, for MaxFault

proxy == <<phase, token, registered, due>>
vars == <<row, up, proxy, calls, faults>>

Kinds == {"register", "heartbeat", "deregister"}
Answers == {None, "ok", "rejected", "error"}
Call == [kind : Kinds, answer : Answers]

TypeOK == /\ row \in {None} \cup [token : 1 .. MaxStart, age : 0 .. StaleAfter + 1]
          /\ up \in BOOLEAN
          /\ phase \in {"down", "resolving", "registering", "up", "leaving"}
          /\ token \in 0 .. MaxStart /\ registered \in BOOLEAN /\ due \in BOOLEAN
          /\ calls \subseteq Call
          /\ faults \in 0 .. MaxFault

Sent(k) == [kind |-> k, answer |-> None]
CanSend(k) == Sent(k) \notin calls /\ Cardinality(calls) < MaxCall

Init == /\ row = None /\ up = TRUE
        /\ phase = "down" /\ token = 0 /\ registered = FALSE /\ due = FALSE
        /\ calls = {} /\ faults = 0

-----------------------------------------------------------------------------
(* The proxy                                                               *)

(* A new process has a new token.                                          *)
Start == /\ phase = "down" /\ token < MaxStart
         /\ phase' = "resolving" /\ token' = token + 1 /\ registered' = FALSE
         /\ UNCHANGED <<row, up, due, calls, faults>>

(* discoverOrchestrator, again and again until it is there.                *)
Discover == /\ phase = "resolving" /\ up
            /\ phase' = "registering" /\ calls' = calls \cup {Sent("register")}
            /\ UNCHANGED <<row, up, token, registered, due, faults>>

(* A register request is answered: start goes on whatever the answer is.   *)
Registered(c) ==
    /\ c.kind = "register" /\ c.answer # None
    /\ registered' = (c.answer = "ok")
    /\ phase' = IF phase = "registering" THEN "up" ELSE phase
    /\ calls' = calls \ {c}
    /\ UNCHANGED <<row, up, token, due, faults>>

Heartbeat == /\ phase = "up" /\ due /\ due' = FALSE
             /\ calls' = IF CanSend("heartbeat") THEN calls \cup {Sent("heartbeat")} ELSE calls
             /\ UNCHANGED <<row, up, phase, token, registered, faults>>

NeverAgain(c) == FALSE                                            \* mutant
Reregisters(c) == c.answer # "ok"

HeartbeatDone(c) ==
    /\ c.kind = "heartbeat" /\ c.answer # None
    /\ calls' = (calls \ {c}) \cup IF Reregisters(c) THEN {Sent("register")} ELSE {}
    /\ UNCHANGED <<row, up, proxy, faults>>

(* shutdown waits for the answer of deregister.                            *)
Shutdown == /\ phase = "up" /\ due' = FALSE
            /\ \/ /\ registered /\ phase' = "leaving"
                  /\ calls' = calls \cup {Sent("deregister")}
               \/ ~registered /\ phase' = "down" /\ calls' = {}
            /\ UNCHANGED <<row, up, token, registered, faults>>
Deregistered(c) == /\ c.kind = "deregister" /\ c.answer # None
                   /\ phase' = "down" /\ calls' = {}
                   /\ UNCHANGED <<row, up, token, registered, due, faults>>

Crash == /\ phase # "down"
         /\ phase' = "down" /\ due' = FALSE /\ calls' = {}
         /\ UNCHANGED <<row, up, token, registered, faults>>

-----------------------------------------------------------------------------
(* The orchestrator                                                        *)

Fresh == [token |-> token, age |-> 0]

(* The routes: register, heartbeat, DELETE.  The answer may get lost.      *)
Handle(c) ==
    /\ up /\ c.answer = None
    /\ row' = CASE c.kind = "register" -> Fresh
                [] c.kind = "heartbeat" ->
                       IF row = None THEN None ELSE [row EXCEPT !.age = 0]
                [] c.kind = "deregister" -> None
    /\ \/ /\ calls' = (calls \ {c}) \cup
                 {[c EXCEPT !.answer =
                        IF c.kind # "register" /\ row = None THEN "rejected" ELSE "ok"]}
          /\ UNCHANGED faults
       \/ /\ faults < MaxFault /\ faults' = faults + 1
          /\ calls' = (calls \ {c}) \cup {[c EXCEPT !.answer = "error"]}
    /\ UNCHANGED <<up, proxy>>

(* It is not there, or the request is lost.                                *)
Unreached(c) ==
    /\ c.answer = None
    /\ IF up THEN faults < MaxFault /\ faults' = faults + 1 ELSE UNCHANGED faults
    /\ calls' = (calls \ {c}) \cup {[c EXCEPT !.answer = "error"]}
    /\ UNCHANGED <<row, up, proxy>>

(* staleProxyTimer                                                         *)
RemoveStale == /\ up /\ row # None /\ row.age > StaleAfter
               /\ row' = None
               /\ UNCHANGED <<up, proxy, calls, faults>>

Stop == /\ up /\ faults < MaxFault
        /\ up' = FALSE /\ faults' = faults + 1
        /\ UNCHANGED <<row, proxy, calls>>

(* touchAllProxyHeartbeats                                                 *)
Restart == /\ ~up /\ up' = TRUE
           /\ row' = IF row = None THEN None ELSE [row EXCEPT !.age = 0]
           /\ UNCHANGED <<proxy, calls, faults>>

Older(n) == IF n > StaleAfter THEN n ELSE n + 1
Tick == /\ ~(phase = "up" /\ due)
        /\ row' = IF row = None THEN None ELSE [row EXCEPT !.age = Older(@)]
        /\ due' = (phase = "up")
        /\ UNCHANGED <<up, phase, token, registered, calls, faults>>

Next == \/ Start \/ Discover \/ Heartbeat \/ Shutdown \/ Crash
        \/ RemoveStale \/ Stop \/ Restart \/ Tick
        \/ \E c \in calls : \/ Registered(c) \/ HeartbeatDone(c) \/ Deregistered(c)
                            \/ Handle(c) \/ Unreached(c)

Spec == Init /\ [][Next]_vars

Handled(k) == \E c \in calls : c.kind = k /\ (Handle(c) \/ Unreached(c))
Returns(k) == \E c \in calls : c.kind = k /\ (Registered(c) \/ HeartbeatDone(c)
                                               \/ Deregistered(c))

(* The timers run, a stopped process is started again, and a request ends. *)
FairSpec ==
    /\ Spec
    /\ WF_vars(Start) /\ WF_vars(Discover) /\ WF_vars(Heartbeat) /\ WF_vars(Tick)
    /\ WF_vars(RemoveStale) /\ WF_vars(Restart)
    /\ \A k \in Kinds : WF_vars(Handled(k)) /\ WF_vars(Returns(k))

-----------------------------------------------------------------------------
(* Properties                                                              *)

Usable == phase = "up" /\ row # None /\ row.token = token

(* The row of an earlier process, kept alive by heartbeats of one whose    *)
(* registration failed.                                                    *)
Usurped == row # None /\ row.token # token /\ ~registered

(* A proxy that runs is again and again usable, however restarts, lost     *)
(* requests and the stale-proxy timer come together, unless it lives on    *)
(* the row of an earlier process (proxy/main.ts:90-108).                   *)
LinkIsRestored == phase = "up" ~> (Usable \/ Usurped \/ phase # "up")

(* What the header says, "Re-registers on missed heartbeat": it is not so  *)
(* when a registration is missed (proxy/main.ts:90-102, 457).              *)
ProxyIsUsable == phase = "up" ~> (Usable \/ phase # "up")
=============================================================================

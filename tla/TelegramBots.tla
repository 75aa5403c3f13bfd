---------------------------- MODULE TelegramBots ----------------------------
(***************************************************************************)
(* Telegram: the long-polling loops of src/src/orchestrator/telegram.ts,   *)
(* the destinations that own some of them, and reconcileTelegramBots of    *)
(* routes.ts, which starts and stops the loops of the agents.              *)
(*                                                                         *)
(* Telegram keeps the updates of a bot until a getUpdates with a higher    *)
(* offset confirms them; ids are numbered per bot from 1.  A loop that is  *)
(* stopped drops the answer it waits for, so request and answer are one    *)
(* step here, with the answer received or lost.  Agents are numbers, in    *)
(* the order of listAgents, and no destination has the name of an agent.   *)
(***************************************************************************)
EXTENDS Integers

CONSTANTS Agent, Dest, Token, None,
          Modes,       \* the routings that are configured
          MaxUpdate,   \* bound on the updates of a bot
          MaxChange    \* bound on changes of the configuration

VARIABLES dest,      \* dest[d]: botToken of destination d, None without a row
          routing,   \* routing[a]: agents.agent_telegram, "outbound" if not inbound
          secret,    \* secret[a]: what getTelegramToken returns for a
          loop,      \* polls: the loop of each key
          applied,   \* lastAppliedBots
          sent,      \* sent[t]: updates Telegram has had for bot t
          confirmed, \* confirmed[t]: those it has forgotten
          changes,   \* counter, for MaxChange
          routed,    \* history: routed[t][u]: where update u of t went
          got,       \* history: what the present loop of a key has handled
          twice,     \* history: has a loop handled an update twice?
          newDest    \* history: destinations made since the last reconcile

config == <<dest, routing, secret, changes>>
telegram == <<sent, confirmed>>
history == <<routed, got, twice>>
vars == <<config, loop, applied, telegram, history, newDest>>

Key == Agent \cup Dest
Update == 1 .. MaxUpdate
Loop == [token : Token, last : 0 .. MaxUpdate]
Bot == [token : Token, routing : Modes]

TypeOK == /\ dest \in [Dest -> Token \cup {None}]
          /\ routing \in [Agent -> Modes \cup {None}]
          /\ secret \in [Agent -> Token \cup {None}]
          /\ loop \in [Key -> Loop \cup {None}]
          /\ applied \in [Agent -> Bot \cup {None}]
          /\ sent \in [Token -> 0 .. MaxUpdate]
          /\ confirmed \in [Token -> 0 .. MaxUpdate]
          /\ changes \in 0 .. MaxChange
          /\ routed \in [Token -> [Update -> {"none", "agent", "thread"}]]
          /\ got \in [Key -> SUBSET Update]
          /\ twice \in BOOLEAN /\ newDest \subseteq Dest

(* Agents are compared by their places in the list.                        *)
TelegramBotsAssumption ==
    /\ Agent \subseteq Int /\ Agent \cap Dest = {} /\ {MaxUpdate, MaxChange} \subseteq Nat
    /\ None \notin Token /\ None \notin Loop /\ None \notin Bot

Fresh(t) == [token |-> t, last |-> 0]
Polls(k, t) == loop[k] # None /\ loop[k].token = t

-----------------------------------------------------------------------------
(* reconcileTelegramBots                                                   *)

Wants(a) == routing[a] \notin {None, "outbound"} /\ secret[a] # None
Bot1(a) == [token |-> secret[a], routing |-> routing[a]]

DesiredByDest == {a \in Agent : Wants(a) /\ \A d \in Dest : dest[d] # secret[a]} \* mutant
(* One consumer for a token: a destination before an agent, and the first  *)
(* agent before the others.                                                *)
Desired == {a \in Agent : /\ Wants(a)
                          /\ \A d \in Dest : dest[d] # secret[a]
                          /\ \A b \in Agent : b < a /\ Wants(b) => secret[b] # secret[a]}

Kept(a) == a \in Desired /\ loop[a] # None /\ applied[a] = Bot1(a)

(* startPolling replaces the loop of its key, stopPolling drops it.        *)
Start(ks, tokenOf(_), stopped) ==
    /\ loop' = [k \in Key |-> IF k \in ks THEN Fresh(tokenOf(k))
                              ELSE IF k \in stopped THEN None ELSE loop[k]]
    /\ got' = [k \in Key |-> IF k \in ks \cup stopped THEN {} ELSE got[k]]
    /\ UNCHANGED <<routed, twice>>

Reconcile ==
    LET gone == {a \in Agent \ Desired : applied[a] # None}
    IN  /\ Start({a \in Desired : ~Kept(a)}, LAMBDA a : secret[a], gone)
        /\ applied' = [a \in Agent |-> IF a \in Desired THEN Bot1(a)
                                       ELSE IF a \in gone THEN None ELSE applied[a]]
        /\ newDest' = {}

(* reloadPersonas, and the end of a start.                                 *)
ReloadPersonas == Reconcile /\ UNCHANGED <<config, telegram>>

(* The maps of the process are empty; its first reconcile comes after the  *)
(* loops of the destinations.                                              *)
Restart ==
    LET on == {d \in Dest : dest[d] # None} \cup Desired
    IN  /\ Start(on, LAMBDA k : IF k \in Dest THEN dest[k] ELSE secret[k], Key)
        /\ applied' = [a \in Agent |-> IF a \in Desired THEN Bot1(a) ELSE None]
        /\ newDest' = {}
        /\ UNCHANGED <<config, telegram>>

Init == /\ dest = [d \in Dest |-> None]
        /\ routing \in [Agent -> Modes]
        /\ secret = [a \in Agent |-> None]
        /\ loop = [k \in Key |-> None]
        /\ applied = [a \in Agent |-> None]
        /\ sent = [t \in Token |-> 0] /\ confirmed = [t \in Token |-> 0]
        /\ changes = 0
        /\ routed = [t \in Token |-> [u \in Update |-> "none"]]
        /\ got = [k \in Key |-> {}] /\ twice = FALSE /\ newDest = {}

-----------------------------------------------------------------------------
(* The configuration changes                                               *)

Changes == changes < MaxChange /\ changes' = changes + 1

(* A destination polls at once, whoever else polls with its token.         *)
CreateDestination(d, t) ==
    /\ Changes /\ dest[d] = None
    /\ dest' = [dest EXCEPT ![d] = t]
    /\ Start({d}, LAMBDA k : t, {})
    /\ newDest' = newDest \cup {d}
    /\ UNCHANGED <<routing, secret, applied, telegram>>

DeleteDestination(d) ==
    /\ Changes /\ dest[d] # None
    /\ dest' = [dest EXCEPT ![d] = None]
    /\ Start({}, LAMBDA k : None, {d})
    /\ newDest' = newDest \ {d}
    /\ UNCHANGED <<routing, secret, applied, telegram>>

(* The token routes and the watch of the persona files change rows, and    *)
(* leave the loops to the next reconcile.                                  *)
SetToken(a, t) == /\ Changes
                  /\ secret' = [secret EXCEPT ![a] = t]
                  /\ UNCHANGED <<dest, routing, loop, applied, telegram, history, newDest>>

SetRouting(a, r) == /\ Changes
                    /\ routing' = [routing EXCEPT ![a] = r]
                    /\ UNCHANGED <<dest, secret, loop, applied, telegram, history, newDest>>

-----------------------------------------------------------------------------
(* The loops                                                               *)

SendUpdate(t) == /\ sent[t] < MaxUpdate
                 /\ sent' = [sent EXCEPT ![t] = @ + 1]
                 /\ UNCHANGED <<config, loop, applied, confirmed, history, newDest>>

SameOffset(l) == l.last                                           \* mutant
SkipOffset(l) == l.last + 2                                       \* mutant
Offset(l) == l.last + 1

(* onMessageFor and the handler of a destination: a thread of the dashboard*)
(* takes what no agent is meant to get; an agent that is void, or a prefix *)
(* that names none, is answered on the bot, which is a "thread" here.      *)
Sinks(k) == IF k \in Dest \/ routing[k] = "passthrough" THEN {"thread"}
            ELSE {"agent", "thread"}

Confirms(t, o) == confirmed' = [confirmed EXCEPT ![t] = IF o - 1 > @ THEN o - 1 ELSE @]

(* An answer is handled in one go: the offset first, then the message.     *)
Answered(k) ==
    /\ loop[k] # None
    /\ LET t == loop[k].token
           batch == (confirmed'[t] + 1) .. sent[t]
       IN  /\ Confirms(t, Offset(loop[k]))
           /\ batch # {}
           /\ loop' = [loop EXCEPT ![k].last = sent[t]]
           /\ \E s \in Sinks(k) :
                 routed' = [routed EXCEPT ![t] = [u \in Update |-> IF u \in batch THEN s ELSE @[u]]]
           /\ got' = [got EXCEPT ![k] = @ \cup batch]
           /\ twice' = (twice \/ batch \cap got[k] # {})
    /\ UNCHANGED <<config, applied, sent, newDest>>

(* No update, an answer that is lost or refused (another consumer has the  *)
(* token), a timeout: the next getUpdates has the same offset.             *)
Unanswered(k) ==
    /\ loop[k] # None
    /\ Confirms(loop[k].token, Offset(loop[k]))
    /\ UNCHANGED <<config, loop, applied, sent, history, newDest>>

Next == \/ ReloadPersonas \/ Restart
        \/ \E d \in Dest, t \in Token : CreateDestination(d, t)
        \/ \E d \in Dest : DeleteDestination(d)
        \/ \E a \in Agent, t \in Token \cup {None} : SetToken(a, t)
        \/ \E a \in Agent, r \in Modes \cup {None} : SetRouting(a, r)
        \/ \E t \in Token : SendUpdate(t)
        \/ \E k \in Key : Answered(k) \/ Unanswered(k)

Spec == Init /\ [][Next]_vars

-----------------------------------------------------------------------------
(* Properties                                                              *)

(* The bot of an agent has no other consumer, whatever tokens and          *)
(* destinations came and went, unless it is a destination made since the   *)
(* last reconcile (routes.ts:3655-3657).  Two destinations may share a bot *)
(* for ever: nothing compares their tokens.                                *)
OneConsumer ==
    \A a \in Agent : \A k \in Key \ {a} :
        loop[a] # None /\ Polls(k, loop[a].token) => k \in newDest

(* A loop handles an update once, however many answers are lost            *)
(* (telegram.ts:85-110).                                                   *)
HandledOncePerLoop == ~twice

(* Telegram forgets no update that was not handled: lost answers, restarts,*)
(* rotated tokens and moved bots lose none (telegram.ts:77-110).           *)
NoUpdateLost ==
    \A t \in Token, u \in Update : u <= confirmed[t] => routed[t][u] # "none"

(* Both: each update reaches a handler, and bots have one poll loop that   *)
(* reads them (routes.ts:3655-3657, telegram.ts:77-110).                   *)
UpdatesAreHeard == OneConsumer /\ NoUpdateLost
=============================================================================

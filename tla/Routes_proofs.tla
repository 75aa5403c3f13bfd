--------------------------- MODULE Routes_proofs ----------------------------
(***************************************************************************)
(* That Clients is what Server and Browser say, and proofs about the       *)
(* components that run in one process: Telegram bots, the usage poller     *)
(* and personas of Server, each for every value of its constants that      *)
(* ServerAssumption allows, and sketches, under ClientsAssumption.         *)
(***************************************************************************)
EXTENDS Clients, WellFoundedInduction, FiniteSetTheorems, TLAPS

-----------------------------------------------------------------------------
(* Telegram bots                                                           *)

(* An agent has a loop when one was applied, a destination when it has a   *)
(* row, each with the token that is on record.                             *)
LoopsOnRecord ==
    /\ \A a \in Agent : /\ loop[a] = None <=> applied[a] = None
                        /\ loop[a] # None => loop[a].token = applied[a].token
    /\ \A d \in Dest : /\ loop[d] = None <=> dest[d] = None
                       /\ loop[d] # None => loop[d].token = dest[d]

(* The bots of the agents are not those of other agents, or of             *)
(* destinations that the last reconcile has seen.                          *)
Apart ==
    \A a \in Agent : applied[a] # None =>
        /\ \A b \in Agent : applied[b] # None /\ applied[b].token = applied[a].token => a = b
        /\ \A d \in Dest : dest[d] = applied[a].token => d \in newDest

(* What a loop has behind it was handled.                                  *)
Behind ==
    \A k \in Bots!Key : loop[k] # None =>
        \A u \in Bots!Update : u <= loop[k].last => routed[loop[k].token][u] # "none"

BotsInv == Bots!TypeOK /\ LoopsOnRecord /\ Apart /\ Behind /\ Bots!NoUpdateLost

(* The facts about the constants that the proofs use.                      *)
LEMMA BotsConstants ==
    /\ Agent \subseteq Int /\ Agent \cap Dest = {} /\ {MaxUpdate, MaxChange} \subseteq Nat
    /\ None \notin Token /\ None \notin Bots!Loop /\ None \notin Bots!Bot
  BY ServerAssumption DEF Bots!TelegramBotsAssumption

(* An agent that is to have a loop has a token, which no other such agent  *)
(* and no destination has.                                                 *)
LEMMA DesiredApart ==
    ASSUME Bots!TypeOK, NEW a \in Bots!Desired
    PROVE  /\ a \in Agent /\ Bots!Bot1(a) \in Bots!Bot
           /\ Bots!Bot1(a).token = secret[a] /\ secret[a] \in Token
           /\ \A b \in Bots!Desired : secret[b] = secret[a] => a = b
           /\ \A d \in Dest : dest[d] # secret[a]
  BY BotsConstants DEF Bots!TypeOK, Bots!Desired, Bots!Wants, Bots!Bot1, Bots!Bot

(* After a reconcile exactly the agents that are to have a loop have one,  *)
(* and the destinations have theirs.                                       *)
LEMMA ReconcileStep ==
    ASSUME BotsInv, Bots!Reconcile, UNCHANGED <<dest, routing, secret, changes, sent, confirmed>>
    PROVE  BotsInv'
  <1> USE BotsConstants
  <1>1. /\ DOMAIN loop' = Bots!Key
        /\ \A a \in Agent : loop'[a] = IF a \in Bots!Desired
                                       THEN IF Bots!Kept(a) THEN loop[a] ELSE Bots!Fresh(secret[a])
                                       ELSE None
        /\ \A d \in Dest : loop'[d] = loop[d]
    <2> DEFINE ended == {a \in Agent \ Bots!Desired : applied[a] # None}
               fresh == {a \in Bots!Desired : ~Bots!Kept(a)}
    <2>1. loop' = [k \in Bots!Key |-> IF k \in fresh THEN Bots!Fresh(secret[k])
                                      ELSE IF k \in ended THEN None ELSE loop[k]]
      BY DEF Bots!Reconcile, Bots!Start
    <2>2. ASSUME NEW a \in Agent, a \notin Bots!Desired, a \notin ended
          PROVE  loop[a] = None
      BY <2>2 DEF BotsInv, LoopsOnRecord
    <2>3. Bots!Desired \subseteq Agent
      BY DesiredApart DEF BotsInv
    <2> HIDE DEF fresh
    <2>4. \A a \in Agent : a \in fresh <=> a \in Bots!Desired /\ ~Bots!Kept(a)
      BY DEF fresh
    <2>5. \A d \in Dest : d \notin fresh /\ d \notin ended
      BY <2>3 DEF fresh
    <2> HIDE DEF ended
    <2>6. \A a \in Agent : a \in ended => a \notin Bots!Desired
      BY DEF ended
    <2> QED
      BY <2>1, <2>2, <2>4, <2>5, <2>6 DEF Bots!Key
  <1>2. /\ applied' = [a \in Agent |-> IF a \in Bots!Desired THEN Bots!Bot1(a) ELSE None]
        /\ newDest' = {} /\ UNCHANGED <<routed, twice>>
    BY DEF Bots!Reconcile, Bots!Start, BotsInv, Bots!TypeOK, Bots!Desired
  <1>3. \A t \in Token : Bots!Fresh(t) \in Bots!Loop
    BY DEF Bots!Fresh, Bots!Loop
  <1>4. Bots!TypeOK'
    <2>1. loop' \in [Bots!Key -> Bots!Loop \cup {None}]
      <3>1. \A a \in Agent : loop'[a] \in Bots!Loop \cup {None}
        BY <1>1, <1>3, DesiredApart DEF BotsInv, Bots!TypeOK, Bots!Key
      <3>2. \A d \in Dest : loop'[d] \in Bots!Loop \cup {None}
        BY <1>1 DEF BotsInv, Bots!TypeOK, Bots!Key
      <3>3. loop' = [k \in Bots!Key |-> loop'[k]]
        BY DEF Bots!Reconcile, Bots!Start
      <3> QED
        BY <3>1, <3>2, <3>3 DEF Bots!Key
    <2>2. applied' \in [Agent -> Bots!Bot \cup {None}]
      BY <1>2, DesiredApart DEF BotsInv
    <2>3. got' \in [Bots!Key -> SUBSET Bots!Update]
      BY DEF Bots!Reconcile, Bots!Start, BotsInv, Bots!TypeOK
    <2> QED
      BY <2>1, <2>2, <2>3, <1>2 DEF BotsInv, Bots!TypeOK
  <1>5. LoopsOnRecord'
    <2>1. ASSUME NEW a \in Agent
          PROVE  /\ loop'[a] = None <=> applied'[a] = None
                 /\ loop'[a] # None => loop'[a].token = applied'[a].token
      <3>1. CASE a \notin Bots!Desired
        BY <3>1, <1>1, <1>2
      <3>2. CASE a \in Bots!Desired /\ Bots!Kept(a)
        BY <3>2, <1>1, <1>2, DesiredApart DEF BotsInv, LoopsOnRecord, Bots!Kept
      <3>3. CASE a \in Bots!Desired /\ ~Bots!Kept(a)
        <4>1. loop'[a] = Bots!Fresh(secret[a]) /\ applied'[a] = Bots!Bot1(a)
          BY <3>3, <1>1, <1>2
        <4>2. Bots!Bot1(a) # None /\ Bots!Fresh(secret[a]) # None
          BY <3>3, <1>3, DesiredApart DEF BotsInv
        <4>3. Bots!Fresh(secret[a]).token = secret[a]
          BY DEF Bots!Fresh
        <4>4. Bots!Bot1(a).token = secret[a]
          BY <3>3, DesiredApart DEF BotsInv
        <4> QED
          BY <4>1, <4>2, <4>3, <4>4
      <3> QED
        BY <3>1, <3>2, <3>3
    <2>2. \A d \in Dest : loop'[d] = loop[d] /\ dest' = dest
      BY <1>1
    <2> QED
      BY <2>1, <2>2 DEF BotsInv, LoopsOnRecord
  <1>6. Apart'
    BY <1>2, DesiredApart DEF BotsInv, Apart
  <1>7. Behind'
    <2>1. \A a \in Agent : loop'[a] # None =>
              \/ loop'[a] = loop[a]
              \/ loop'[a].last = 0
      <3>1. \A t : Bots!Fresh(t).last = 0
        BY DEF Bots!Fresh
      <3> QED
        BY <1>1, <3>1
    <2>2. \A u \in Bots!Update : ~(u <= 0)
      BY DEF Bots!Update
    <2> QED
      BY <1>1, <1>2, <2>1, <2>2 DEF BotsInv, Behind, Bots!Key
  <1> QED
    BY <1>4, <1>5, <1>6, <1>7, <1>2 DEF BotsInv, Bots!NoUpdateLost

(* A restart, likewise, with the loops of the destinations.                *)
LEMMA BotsRestart ==
    ASSUME BotsInv, Bots!Restart
    PROVE  BotsInv'
  <1> USE BotsConstants
  <1>1. /\ loop' = [k \in Bots!Key |->
                     IF k \in Dest
                     THEN IF dest[k] # None THEN Bots!Fresh(dest[k]) ELSE None
                     ELSE IF k \in Bots!Desired THEN Bots!Fresh(secret[k]) ELSE None]
        /\ got' = [k \in Bots!Key |-> {}]
    <2>1. \A d \in Dest : d \notin Bots!Desired
      BY DesiredApart DEF BotsInv
    <2> QED
      BY <2>1 DEF Bots!Restart, Bots!Start, Bots!Key
  <1>2. /\ applied' = [a \in Agent |-> IF a \in Bots!Desired THEN Bots!Bot1(a) ELSE None]
        /\ newDest' = {}
        /\ UNCHANGED <<routed, twice, dest, routing, secret, changes, sent, confirmed>>
    BY DEF Bots!Restart, Bots!Start, Bots!config, Bots!telegram
  <1>3. \A t : /\ t \in Token => Bots!Fresh(t) \in Bots!Loop
               /\ Bots!Fresh(t).token = t /\ Bots!Fresh(t).last = 0
    BY DEF Bots!Fresh, Bots!Loop
  <1>4. \A d \in Dest : dest[d] # None => dest[d] \in Token
    BY DEF BotsInv, Bots!TypeOK
  <1>5. Bots!TypeOK'
    <2>1. loop' \in [Bots!Key -> Bots!Loop \cup {None}]
      BY <1>1, <1>3, <1>4, DesiredApart DEF BotsInv, Bots!Key
    <2>2. applied' \in [Agent -> Bots!Bot \cup {None}]
      BY <1>2, DesiredApart DEF BotsInv
    <2> QED
      BY <2>1, <2>2, <1>1, <1>2 DEF BotsInv, Bots!TypeOK
  <1>6. LoopsOnRecord'
    <2>1. ASSUME NEW a \in Agent
          PROVE  /\ loop'[a] = None <=> applied'[a] = None
                 /\ loop'[a] # None => loop'[a].token = applied'[a].token
      <3>1. CASE a \notin Bots!Desired
        BY <3>1, <1>1, <1>2 DEF Bots!Key
      <3>2. CASE a \in Bots!Desired
        <4>1. loop'[a] = Bots!Fresh(secret[a]) /\ applied'[a] = Bots!Bot1(a)
          BY <3>2, <1>1, <1>2 DEF Bots!Key
        <4>2. Bots!Bot1(a) # None /\ Bots!Fresh(secret[a]) # None
          BY <3>2, <1>3, DesiredApart DEF BotsInv
        <4>3. Bots!Bot1(a).token = secret[a]
          BY <3>2, DesiredApart DEF BotsInv
        <4> QED
          BY <4>1, <4>2, <4>3, <1>3
      <3> QED
        BY <3>1, <3>2
    <2>2. ASSUME NEW d \in Dest
          PROVE  /\ loop'[d] = None <=> dest'[d] = None
                 /\ loop'[d] # None => loop'[d].token = dest'[d]
      <3>1. dest[d] # None => Bots!Fresh(dest[d]) # None
        BY <1>3, <1>4
      <3> QED
        BY <3>1, <1>1, <1>2, <1>3 DEF Bots!Key
    <2> QED
      BY <2>1, <2>2 DEF LoopsOnRecord
  <1>7. Apart'
    BY <1>2, DesiredApart DEF BotsInv, Apart
  <1>8. Behind'
    <2>1. \A k \in Bots!Key : loop'[k] # None => loop'[k].last = 0
      BY <1>1, <1>3
    <2>2. \A u \in Bots!Update : ~(u <= 0)
      BY DEF Bots!Update
    <2> QED
      BY <2>1, <2>2 DEF Behind
  <1> QED
    BY <1>5, <1>6, <1>7, <1>8, <1>2 DEF BotsInv, Bots!NoUpdateLost

(* What a destination does to its loop.                                    *)
LEMMA DestinationStep ==
    ASSUME BotsInv,
           \/ \E d \in Dest, t \in Token : Bots!CreateDestination(d, t)
           \/ \E d \in Dest : Bots!DeleteDestination(d)
    PROVE  BotsInv'
  <1> USE BotsConstants
  <1>1. PICK d \in Dest, o \in Token \cup {None} :
          /\ dest' = [dest EXCEPT ![d] = o]
          /\ loop' = [k \in Bots!Key |-> IF k = d
                                         THEN IF o = None THEN None ELSE Bots!Fresh(o)
                                         ELSE loop[k]]
          /\ got' = [k \in Bots!Key |-> IF k = d THEN {} ELSE got[k]]
          /\ newDest' = IF o = None THEN newDest \ {d} ELSE newDest \cup {d}
          /\ o = None \/ dest[d] = None
          /\ changes < MaxChange /\ changes' = changes + 1
          /\ UNCHANGED <<routing, secret, applied, sent, confirmed, routed, twice>>
    <2>1. CASE \E d \in Dest, t \in Token : Bots!CreateDestination(d, t)
      <3>1. PICK d \in Dest, o \in Token : Bots!CreateDestination(d, o)
        BY <2>1
      <3>2. /\ loop' = [k \in Bots!Key |-> IF k = d THEN Bots!Fresh(o) ELSE loop[k]]
            /\ got' = [k \in Bots!Key |-> IF k = d THEN {} ELSE got[k]]
            /\ UNCHANGED <<routed, twice>>
        BY <3>1 DEF Bots!CreateDestination, Bots!Start
      <3>3. /\ dest' = [dest EXCEPT ![d] = o] /\ newDest' = newDest \cup {d} /\ dest[d] = None
            /\ changes < MaxChange /\ changes' = changes + 1
            /\ UNCHANGED <<routing, secret, applied, sent, confirmed>>
        BY <3>1 DEF Bots!CreateDestination, Bots!Changes, Bots!telegram
      <3>4. o # None
        OBVIOUS
      <3> QED
        BY <3>2, <3>3, <3>4
    <2>2. CASE \E d \in Dest : Bots!DeleteDestination(d)
      <3>1. PICK d \in Dest : Bots!DeleteDestination(d)
        BY <2>2
      <3>2. /\ loop' = [k \in Bots!Key |-> IF k = d THEN None ELSE loop[k]]
            /\ got' = [k \in Bots!Key |-> IF k = d THEN {} ELSE got[k]]
            /\ UNCHANGED <<routed, twice>>
        BY <3>1 DEF Bots!DeleteDestination, Bots!Start
      <3>3. /\ dest' = [dest EXCEPT ![d] = None] /\ newDest' = newDest \ {d}
            /\ changes < MaxChange /\ changes' = changes + 1
            /\ UNCHANGED <<routing, secret, applied, sent, confirmed>>
        BY <3>1 DEF Bots!DeleteDestination, Bots!Changes, Bots!telegram
      <3> QED
        BY <3>2, <3>3
    <2> QED
      BY <2>1, <2>2
  <1>2. \A t : /\ t \in Token => Bots!Fresh(t) \in Bots!Loop
               /\ Bots!Fresh(t).token = t /\ Bots!Fresh(t).last = 0
    BY DEF Bots!Fresh, Bots!Loop
  <1>3. Bots!TypeOK'
    <2>1. loop' \in [Bots!Key -> Bots!Loop \cup {None}]
      BY <1>1, <1>2 DEF BotsInv, Bots!TypeOK
    <2>2. dest' \in [Dest -> Token \cup {None}] /\ newDest' \subseteq Dest
      BY <1>1 DEF BotsInv, Bots!TypeOK
    <2>3. got' \in [Bots!Key -> SUBSET Bots!Update]
      BY <1>1 DEF BotsInv, Bots!TypeOK
    <2>4. changes' \in 0 .. MaxChange
      BY <1>1 DEF BotsInv, Bots!TypeOK
    <2> QED
      BY <2>1, <2>2, <2>3, <2>4, <1>1 DEF BotsInv, Bots!TypeOK
  <1>4. LoopsOnRecord'
    <2>1. o # None => Bots!Fresh(o) # None
      BY <1>2
    <2>2. \A a \in Agent : loop'[a] = loop[a] /\ applied'[a] = applied[a]
      BY <1>1 DEF Bots!Key
    <2>3. \A c \in Dest : IF c = d THEN /\ dest'[c] = o
                                       /\ loop'[c] = IF o = None THEN None ELSE Bots!Fresh(o)
                          ELSE loop'[c] = loop[c] /\ dest'[c] = dest[c]
      BY <1>1 DEF BotsInv, Bots!TypeOK, Bots!Key
    <2> QED
      BY <2>1, <2>2, <2>3, <1>2 DEF BotsInv, LoopsOnRecord
  <1>5. Apart'
    <2>1. \A c \in Dest : c # d => dest'[c] = dest[c] /\ (c \in newDest' <=> c \in newDest)
      BY <1>1
    <2>2. dest'[d] = o /\ (o # None => d \in newDest')
      BY <1>1 DEF BotsInv, Bots!TypeOK
    <2>3. \A a \in Agent : applied[a] # None => applied[a].token # None
      BY DEF BotsInv, Bots!TypeOK, Bots!Bot
    <2> QED
      BY <1>1, <2>1, <2>2, <2>3 DEF BotsInv, Apart
  <1>6. Behind'
    <2>1. \A k \in Bots!Key : loop'[k] # None => loop'[k].last = 0 \/ loop'[k] = loop[k]
      BY <1>1, <1>2
    <2>2. \A u \in Bots!Update : ~(u <= 0)
      BY DEF Bots!Update
    <2> QED
      BY <1>1, <2>1, <2>2 DEF BotsInv, Behind
  <1> QED
    BY <1>3, <1>4, <1>5, <1>6, <1>1 DEF BotsInv, Bots!NoUpdateLost

(* A poll handles what Telegram has not forgotten, up to the last update   *)
(* sent, and makes it forget only what is behind it.                       *)
LEMMA PollStep ==
    ASSUME BotsInv, NEW k \in Bots!Key, Bots!Answered(k) \/ Bots!Unanswered(k)
    PROVE  BotsInv'
  <1> USE BotsConstants
  <1> DEFINE t == loop[k].token
             l == loop[k].last
  <1>1. loop[k] # None /\ t \in Token /\ l \in 0 .. MaxUpdate
    BY DEF BotsInv, Bots!TypeOK, Bots!Answered, Bots!Unanswered, Bots!Loop
  <1>2. confirmed' = [confirmed EXCEPT ![t] = IF l > @ THEN l ELSE @]
    <2>1. confirmed' = [confirmed EXCEPT ![t] = IF (l + 1) - 1 > @ THEN (l + 1) - 1 ELSE @]
      BY DEF Bots!Answered, Bots!Unanswered, Bots!Confirms, Bots!Offset
    <2>2. (l + 1) - 1 = l
      BY <1>1
    <2> QED
      BY <2>1, <2>2
  <1>3. confirmed' \in [Token -> 0 .. MaxUpdate]
    BY <1>1, <1>2 DEF BotsInv, Bots!TypeOK
  <1>4. UNCHANGED <<dest, routing, secret, changes, applied, sent, newDest>>
    BY DEF Bots!Answered, Bots!Unanswered, Bots!config
  <1>5. ASSUME NEW s \in Token, NEW u \in Bots!Update, u <= confirmed'[s]
        PROVE  routed[s][u] # "none"
    BY <1>1, <1>2, <1>5 DEF BotsInv, Bots!TypeOK, Bots!NoUpdateLost, Behind, Bots!Update
  <1>6. CASE Bots!Answered(k)
    <2> DEFINE batch == (confirmed'[t] + 1) .. sent[t]
    <2>1. loop' = [loop EXCEPT ![k].last = sent[t]]
      BY <1>6 DEF Bots!Answered
    <2>2. PICK s \in Bots!Sinks(k) :
             routed' = [routed EXCEPT ![t] = [u \in Bots!Update |-> IF u \in batch THEN s ELSE @[u]]]
      BY <1>6 DEF Bots!Answered
    <2>3. got' = [got EXCEPT ![k] = @ \cup batch] /\ twice' \in BOOLEAN
      BY <1>6 DEF Bots!Answered, BotsInv, Bots!TypeOK
    <2>4. s \in {"agent", "thread"}
      BY <2>2 DEF Bots!Sinks
    <2>5. sent[t] \in 0 .. MaxUpdate /\ confirmed'[t] \in 0 .. MaxUpdate
      BY <1>1, <1>3 DEF BotsInv, Bots!TypeOK
    <2>6. batch \subseteq Bots!Update
      BY <2>5 DEF Bots!Update
    <2>7. \A u \in Bots!Update : routed'[t][u] = IF u \in batch THEN s ELSE routed[t][u]
      BY <1>1, <2>2 DEF BotsInv, Bots!TypeOK
    <2>8. \A r \in Token : r # t => routed'[r] = routed[r]
      BY <2>2 DEF BotsInv, Bots!TypeOK
    <2>9. /\ loop'[k].token = t /\ loop'[k].last = sent[t] /\ loop'[k] \in Bots!Loop
          /\ \A j \in Bots!Key : j # k => loop'[j] = loop[j]
      BY <1>1, <2>1, <2>5 DEF BotsInv, Bots!TypeOK, Bots!Loop
    <2> HIDE DEF batch
    <2>10. Bots!TypeOK'
      <3>1. loop' \in [Bots!Key -> Bots!Loop \cup {None}]
        BY <2>1, <2>9 DEF BotsInv, Bots!TypeOK
      <3>2. routed' \in [Token -> [Bots!Update -> {"none", "agent", "thread"}]]
        BY <2>2, <2>4, <1>1 DEF BotsInv, Bots!TypeOK
      <3>3. got' \in [Bots!Key -> SUBSET Bots!Update]
        BY <2>3, <2>6 DEF BotsInv, Bots!TypeOK
      <3> QED
        BY <3>1, <3>2, <3>3, <2>3, <1>3, <1>4 DEF BotsInv, Bots!TypeOK
    <2>11. LoopsOnRecord'
      <3>1. \A j \in Bots!Key : (loop'[j] = None <=> loop[j] = None) /\ (loop[j] # None => loop'[j].token = loop[j].token)
        BY <1>1, <2>9
      <3> QED
        BY <3>1, <1>4 DEF BotsInv, LoopsOnRecord, Bots!Key
    <2>12. Behind'
      <3>1. ASSUME NEW u \in Bots!Update, u <= sent[t]
            PROVE  routed'[t][u] # "none"
        <4>1. CASE u <= confirmed'[t]
          BY <4>1, <1>1, <1>5, <2>7, <2>4
        <4>2. CASE ~(u <= confirmed'[t])
          <5>1. u \in batch
            BY <4>2, <3>1, <2>5 DEF batch, Bots!Update
          <5> QED
            BY <5>1, <2>7, <2>4
        <4> QED
          BY <4>1, <4>2
      <3>2. ASSUME NEW j \in Bots!Key, loop[j] # None, NEW u \in Bots!Update, u <= loop[j].last
            PROVE  routed'[loop[j].token][u] # "none"
        <4>1. loop[j].token \in Token /\ routed[loop[j].token][u] # "none"
          BY <3>2 DEF BotsInv, Behind, Bots!TypeOK, Bots!Loop
        <4> QED
          BY <4>1, <2>4, <2>7, <2>8
      <3>3. ASSUME NEW j \in Bots!Key, loop'[j] # None, NEW u \in Bots!Update, u <= loop'[j].last
            PROVE  routed'[loop'[j].token][u] # "none"
        BY <3>1, <3>2, <3>3, <2>9
      <3> QED
        BY <3>3 DEF Behind
    <2>13. Bots!NoUpdateLost'
      BY <1>5, <2>4, <2>7, <2>8 DEF Bots!NoUpdateLost
    <2> QED
      BY <2>10, <2>11, <2>12, <2>13, <1>4 DEF BotsInv, Apart
  <1>7. CASE Bots!Unanswered(k)
    <2>1. UNCHANGED <<loop, routed, got, twice>>
      BY <1>7 DEF Bots!Unanswered, Bots!history
    <2> QED
      BY <2>1, <1>3, <1>4, <1>5
      DEF BotsInv, Bots!TypeOK, LoopsOnRecord, Apart, Behind, Bots!NoUpdateLost
  <1> QED
    BY <1>6, <1>7

(* Every step of the bots keeps the invariant.                             *)
LEMMA BotsStep ==
    ASSUME BotsInv, Bots!Next
    PROVE  BotsInv'
  <1>1. CASE Bots!ReloadPersonas
    BY <1>1, ReconcileStep DEF Bots!ReloadPersonas, Bots!config, Bots!telegram
  <1>2. CASE Bots!Restart
    BY <1>2, BotsRestart
  <1>3. CASE \/ \E d \in Dest, t \in Token : Bots!CreateDestination(d, t)
             \/ \E d \in Dest : Bots!DeleteDestination(d)
    BY <1>3, DestinationStep
  <1>4. CASE \E a \in Agent, t \in Token \cup {None} : Bots!SetToken(a, t)
    <2>1. /\ secret' \in [Agent -> Token \cup {None}] /\ changes' \in 0 .. MaxChange
          /\ UNCHANGED <<dest, routing, loop, applied, sent, confirmed, routed, got, twice, newDest>>
      BY <1>4, BotsConstants
      DEF Bots!SetToken, Bots!Changes, Bots!telegram, Bots!history, BotsInv, Bots!TypeOK
    <2> QED
      BY <2>1 DEF BotsInv, Bots!TypeOK, LoopsOnRecord, Apart, Behind, Bots!NoUpdateLost
  <1>5. CASE \E a \in Agent, r \in Modes \cup {None} : Bots!SetRouting(a, r)
    <2>1. /\ routing' \in [Agent -> Modes \cup {None}] /\ changes' \in 0 .. MaxChange
          /\ UNCHANGED <<dest, secret, loop, applied, sent, confirmed, routed, got, twice, newDest>>
      BY <1>5, BotsConstants
      DEF Bots!SetRouting, Bots!Changes, Bots!telegram, Bots!history, BotsInv, Bots!TypeOK
    <2> QED
      BY <2>1 DEF BotsInv, Bots!TypeOK, LoopsOnRecord, Apart, Behind, Bots!NoUpdateLost
  <1>6. CASE \E t \in Token : Bots!SendUpdate(t)
    BY <1>6, BotsConstants
    DEF Bots!SendUpdate, Bots!config, Bots!history, BotsInv, Bots!TypeOK, LoopsOnRecord, Apart,
        Behind, Bots!NoUpdateLost
  <1>7. CASE \E k \in Bots!Key : Bots!Answered(k) \/ Bots!Unanswered(k)
    BY <1>7, PollStep
  <1> QED
    BY <1>1, <1>2, <1>3, <1>4, <1>5, <1>6, <1>7 DEF Bots!Next

(* The invariant gives the property.                                       *)
LEMMA BotsHeard == ASSUME BotsInv PROVE UpdatesAreHeard
  <1>1. ASSUME NEW a \in Agent, NEW k \in Bots!Key \ {a}, loop[a] # None, Bots!Polls(k, loop[a].token)
        PROVE  k \in newDest
    <2>1. applied[a] # None /\ loop[a].token = applied[a].token
      BY <1>1 DEF BotsInv, LoopsOnRecord
    <2>2. CASE k \in Agent
      BY <1>1, <2>1, <2>2 DEF BotsInv, LoopsOnRecord, Apart, Bots!Polls
    <2>3. CASE k \in Dest
      BY <1>1, <2>1, <2>3 DEF BotsInv, LoopsOnRecord, Apart, Bots!Polls
    <2> QED
      BY <2>2, <2>3 DEF Bots!Key
  <1> QED
    BY <1>1 DEF UpdatesAreHeard, Bots!UpdatesAreHeard, Bots!OneConsumer, BotsInv

(* The bot of an agent has one consumer, and no update is forgotten that   *)
(* was not handled, for any agents, destinations and tokens                *)
(* (routes.ts:3867-3934, telegram.ts:77-110).                              *)
THEOREM BotsAreHeard == ServerSpec => []UpdatesAreHeard
  <1>1. ServerInit => BotsInv
    <2> SUFFICES ASSUME Bots!Init PROVE BotsInv
      BY DEF ServerInit
    <2>1. Bots!TypeOK
      <3>1. \A t \in Token : sent[t] = 0 /\ confirmed[t] = 0
        BY DEF Bots!Init
      <3>2. loop \in [Bots!Key -> {None}] /\ got \in [Bots!Key -> {{}}] /\ dest \in [Dest -> {None}]
        BY DEF Bots!Init
      <3>3. 0 \in 0 .. MaxUpdate /\ 0 \in 0 .. MaxChange
        BY BotsConstants
      <3>4. routed \in [Token -> [Bots!Update -> {"none", "agent", "thread"}]]
        BY DEF Bots!Init
      <3>5. routing \in [Agent -> Modes \cup {None}]
        BY DEF Bots!Init
      <3> QED
        BY <3>1, <3>2, <3>3, <3>4, <3>5 DEF Bots!Init, Bots!TypeOK
    <2>2. LoopsOnRecord /\ Apart /\ Behind
      BY DEF Bots!Init, LoopsOnRecord, Apart, Behind, Bots!Key
    <2>3. Bots!NoUpdateLost
      BY DEF Bots!Init, Bots!NoUpdateLost, Bots!Update
    <2> QED
      BY <2>1, <2>2, <2>3 DEF BotsInv
  <1>2. BotsInv /\ [ServerNext]_serverVars => BotsInv'
    <2> SUFFICES ASSUME BotsInv, [ServerNext]_serverVars PROVE BotsInv'
      OBVIOUS
    <2>1. CASE part = "bots" /\ ServerNext
      BY <2>1, BotsStep DEF ServerNext
    <2>2. CASE UNCHANGED botsVars
      BY <2>2 DEF botsVars, BotsInv, Bots!TypeOK, LoopsOnRecord, Apart, Behind, Bots!NoUpdateLost
    <2>3. CASE UNCHANGED serverVars
      BY <2>2, <2>3 DEF serverVars
    <2> QED
      BY <2>1, <2>2, <2>3 DEF ServerNext
  <1> QED
    BY <1>1, <1>2, BotsHeard, PTL DEF ServerSpec

-----------------------------------------------------------------------------
(* Usage poller                                                            *)

Making == {"hasNew", "create", "launch"}

(* UsagePoll k ends with the session on p as the tracked one.                   *)
ComesTo(k, p) == cmd[k] \in Making /\ chosen[k] = p

IsOn(S, f) == f = [x \in S |-> f[x]]
UsageShape == /\ IsOn(Proxy, usagePane) /\ IsOn(UsagePoll, cmd) /\ IsOn(UsagePoll, chosen)
              /\ IsOn(UsagePoll, usageTarget) /\ IsOn(UsagePoll, answer)

(* A session that is alive is tracked, lost, or what a poll is about to    *)
(* track, whose commands go where it says.                                 *)
SeenTo == \A p \in Proxy : Usage!Alive(p) =>
             tracked = p \/ p \in usageLost \/ \E k \in UsagePoll : ComesTo(k, p)
Aimed == \A k \in UsagePoll : cmd[k] \in Making => usageTarget[k] = chosen[k]

UsageInv == UsageShape /\ SeenTo /\ Aimed

(* The facts about the constants that the proofs use.                      *)
LEMMA UsageConstants == None \notin Proxy /\ None \notin Making
  BY ServerAssumption DEF Usage!UsagePollerAssumption, Making

(* What sending a command changes: what is known of the poll itself.       *)
LEMMA SendStep ==
    ASSUME UsageInv, NEW k \in UsagePoll, NEW c, NEW q, Usage!Send(k, c, q)
    PROVE  /\ UNCHANGED chosen
           /\ IsOn(UsagePoll, cmd)' /\ IsOn(UsagePoll, usageTarget)' /\ IsOn(UsagePoll, answer)'
           /\ cmd'[k] = c /\ usageTarget'[k] = q
           /\ \A j \in UsagePoll : j # k => cmd'[j] = cmd[j] /\ usageTarget'[j] = usageTarget[j]
  BY DEF Usage!Send, UsageInv, UsageShape, IsOn

(* A session is only made by the command of a poll that comes to it.       *)
LEMMA PerformStep ==
    ASSUME UsageInv, NEW k \in UsagePoll, Usage!Perform(k)
    PROVE  UsageInv'
  <1>1. /\ UNCHANGED <<tracked, chosen, usageTarget, cmd, usageLost>>
        /\ \/ usagePane' = usagePane
           \/ usagePane' = [usagePane EXCEPT ![usageTarget[k]] = Usage!Effect(cmd[k], usageTarget[k])]
        /\ \E a : answer' = [answer EXCEPT ![k] = a]
    BY DEF Usage!Perform
  <1>2. UsageShape'
    BY <1>1 DEF UsageInv, UsageShape, IsOn
  <1>3. ASSUME NEW p \in Proxy, Usage!Alive(p)', ~Usage!Alive(p)
        PROVE  ComesTo(k, p)
    <2>1. p = usageTarget[k] /\ Usage!Effect(cmd[k], p) # "gone"
      BY <1>1, <1>3 DEF Usage!Alive, UsageInv, UsageShape, IsOn
    <2>2. cmd[k] = "create"
      BY <1>3, <2>1 DEF Usage!Effect, Usage!Alive
    <2> QED
      BY <2>1, <2>2 DEF ComesTo, Making, UsageInv, Aimed
  <1>4. SeenTo'
    BY <1>1, <1>3 DEF UsageInv, SeenTo, ComesTo
  <1> QED
    BY <1>1, <1>2, <1>4 DEF UsageInv, Aimed

(* A poll that begins asks for the tracked session, or for one on the      *)
(* proxy it has chosen.                                                    *)
LEMMA BeginPollStep ==
    ASSUME UsageInv, NEW k \in UsagePoll, Usage!Begin(k)
    PROVE  UsageInv'
  <1> USE UsageConstants
  <1>1. /\ UNCHANGED <<tracked, usagePane, usageLost>>
        /\ chosen' = [chosen EXCEPT ![k] = Usage!Pick]
        /\ cmd[k] = None /\ \E c : cmd' = [cmd EXCEPT ![k] = c]
        /\ \E q : usageTarget' = [usageTarget EXCEPT ![k] = q]
        /\ \E a : answer' = [answer EXCEPT ![k] = a]
    BY DEF Usage!Begin
  <1>2. UsageShape'
    BY <1>1 DEF UsageInv, UsageShape, IsOn
  <1>3. tracked = None \/ cmd'[k] \in {"kill", "hasOld"}
    BY DEF Usage!Begin, UsageInv, UsageShape, IsOn
  <1>4. tracked = None => usageTarget'[k] = Usage!Pick
    BY DEF Usage!Begin, UsageInv, UsageShape, IsOn
  <1>5. /\ chosen'[k] = Usage!Pick
        /\ \A j \in UsagePoll : j # k => /\ cmd'[j] = cmd[j] /\ chosen'[j] = chosen[j]
                                    /\ usageTarget'[j] = usageTarget[j]
    BY <1>1 DEF UsageInv, UsageShape, IsOn
  <1>6. SeenTo'
    BY <1>1, <1>5 DEF UsageInv, SeenTo, ComesTo, Usage!Alive
  <1>7. Aimed'
    BY <1>3, <1>4, <1>5 DEF UsageInv, Aimed, Making
  <1> QED
    BY <1>2, <1>6, <1>7 DEF UsageInv

(* A poll that forgets the session looks for it where it has chosen to:    *)
(* elsewhere it is not alive, or lost.                                     *)
LEMMA ForgetStep ==
    ASSUME UsageInv, NEW k \in UsagePoll, cmd[k] \notin Making,
           Usage!Forget(k), Usage!Send(k, "hasNew", chosen[k]), Usage!Quiet
    PROVE  UsageInv'
  <1> USE UsageConstants
  <1>1. /\ UNCHANGED usagePane /\ tracked' = None
        /\ usageLost' = usageLost
              \cup (IF answer[k] = "failed" \/ Usage!Remade(k) THEN {usageTarget[k]} ELSE {})
              \cup ({tracked} \ {None, usageTarget[k]})
    BY DEF Usage!Forget, Usage!Quiet
  <1>2. /\ UNCHANGED chosen
        /\ IsOn(UsagePoll, cmd)' /\ IsOn(UsagePoll, usageTarget)' /\ IsOn(UsagePoll, answer)'
        /\ cmd'[k] = "hasNew" /\ usageTarget'[k] = chosen[k]
        /\ \A j \in UsagePoll : j # k => cmd'[j] = cmd[j] /\ usageTarget'[j] = usageTarget[j]
    BY SendStep
  <1>3. ComesTo(k, chosen[k])'
    BY <1>2 DEF ComesTo, Making
  <1>4. ASSUME NEW p \in Proxy, Usage!Alive(p)
        PROVE  p \in usageLost' \/ \E j \in UsagePoll : ComesTo(j, p)'
    <2>1. CASE tracked = p /\ p = usageTarget[k]
      BY <1>1, <1>2, <1>3, <1>4, <2>1 DEF Usage!Remade
    <2>2. CASE tracked = p /\ p # usageTarget[k]
      BY <1>1, <2>2
    <2>3. CASE p \in usageLost
      BY <1>1, <2>3
    <2>4. ASSUME NEW j \in UsagePoll, ComesTo(j, p) PROVE ComesTo(j, p)'
      BY <1>2, <2>4 DEF ComesTo
    <2> QED
      BY <1>4, <2>1, <2>2, <2>3, <2>4 DEF UsageInv, SeenTo
  <1>5. SeenTo'
    BY <1>1, <1>4 DEF SeenTo, Usage!Alive
  <1> QED
    BY <1>1, <1>2, <1>5 DEF UsageInv, UsageShape, IsOn, Aimed

(* Tracking a session where the poll has come to loses none.               *)
LEMMA TrackStep ==
    ASSUME UsageInv, NEW k \in UsagePoll, Usage!Track(chosen[k]), Usage!Send(k, "capture", chosen[k]),
           Usage!Quiet
    PROVE  UsageInv'
  <1> USE UsageConstants
  <1>1. /\ UNCHANGED usagePane /\ tracked' = chosen[k]
        /\ usageLost' = (usageLost \cup ({tracked} \ {None})) \ {chosen[k]}
    BY DEF Usage!Track, Usage!Quiet
  <1>2. /\ UNCHANGED chosen
        /\ IsOn(UsagePoll, cmd)' /\ IsOn(UsagePoll, usageTarget)' /\ IsOn(UsagePoll, answer)'
        /\ cmd'[k] = "capture" /\ usageTarget'[k] = chosen[k]
        /\ \A j \in UsagePoll : j # k => cmd'[j] = cmd[j] /\ usageTarget'[j] = usageTarget[j]
    BY SendStep
  <1>3. \A j \in UsagePoll, p \in Proxy : ComesTo(j, p) => ComesTo(j, p)' \/ tracked' = p
    BY <1>1, <1>2 DEF ComesTo
  <1>4. SeenTo'
    BY <1>1, <1>3 DEF UsageInv, SeenTo, Usage!Alive
  <1> QED
    BY <1>1, <1>2, <1>4 DEF UsageInv, UsageShape, IsOn, Aimed, Making

(* A command that is none of a session that is made, or the next one of    *)
(* it, changes nothing else.                                               *)
LEMMA NextCommandStep ==
    ASSUME UsageInv, NEW k \in UsagePoll, NEW c, NEW q, Usage!Send(k, c, q), Usage!Quiet,
           UNCHANGED <<tracked, usageLost>>,
           IF cmd[k] \in Making THEN c \in Making /\ q = chosen[k] ELSE c \notin Making
    PROVE  UsageInv'
  <1>1. /\ UNCHANGED <<chosen, usagePane>>
        /\ IsOn(UsagePoll, cmd)' /\ IsOn(UsagePoll, usageTarget)' /\ IsOn(UsagePoll, answer)'
        /\ cmd'[k] = c /\ usageTarget'[k] = q
        /\ \A j \in UsagePoll : j # k => cmd'[j] = cmd[j] /\ usageTarget'[j] = usageTarget[j]
    BY SendStep DEF Usage!Quiet
  <1>2. \A j \in UsagePoll, p \in Proxy : ComesTo(j, p) => ComesTo(j, p)'
    BY <1>1 DEF ComesTo
  <1>3. SeenTo'
    BY <1>1, <1>2 DEF UsageInv, SeenTo, Usage!Alive
  <1> QED
    BY <1>1, <1>3 DEF UsageInv, UsageShape, IsOn, Aimed

(* Every step of a poll keeps the invariant.                               *)
LEMMA PollerStep ==
    ASSUME UsageInv, NEW k \in UsagePoll,
           \/ Usage!Recycled(k) \/ Usage!HasOld(k) \/ Usage!HasNew(k) \/ Usage!Created(k)
           \/ Usage!Launched(k) \/ Usage!Waited(k) \/ Usage!Asked(k)
    PROVE  UsageInv'
  <1> USE DEF Usage!Got, Making
  <1>1. CASE Usage!Recycled(k)
    BY <1>1, ForgetStep DEF Usage!Recycled
  <1>2. CASE Usage!HasOld(k)
    <2>1. cmd[k] = "hasOld" /\ Usage!Quiet
      BY <1>2 DEF Usage!HasOld
    <2>2. CASE answer[k] = "yes"
      <3>1. \E q : Usage!Send(k, "capture", q) /\ UNCHANGED <<tracked, usageLost>>
        BY <1>2, <2>2 DEF Usage!HasOld
      <3> QED
        BY <2>1, <3>1, NextCommandStep
    <2>3. CASE answer[k] # "yes"
      BY <1>2, <2>1, <2>3, ForgetStep DEF Usage!HasOld
    <2> QED
      BY <2>2, <2>3
  <1>3. CASE Usage!HasNew(k)
    <2>1. cmd[k] = "hasNew" /\ Usage!Quiet
      BY <1>3 DEF Usage!HasNew
    <2>2. CASE answer[k] = "yes"
      BY <1>3, <2>1, <2>2, TrackStep DEF Usage!HasNew, Usage!Adopt
    <2>3. CASE answer[k] # "yes"
      <3>1. Usage!Send(k, "create", chosen[k]) /\ UNCHANGED <<tracked, usageLost>>
        BY <1>3, <2>3 DEF Usage!HasNew
      <3> QED
        BY <2>1, <3>1, NextCommandStep
    <2> QED
      BY <2>2, <2>3
  <1>4. CASE Usage!Created(k)
    <2>1. /\ cmd[k] = "create" /\ Usage!Quiet
          /\ Usage!Send(k, "launch", chosen[k]) /\ UNCHANGED <<tracked, usageLost>>
      BY <1>4 DEF Usage!Created
    <2> QED
      BY <2>1, NextCommandStep
  <1>5. CASE Usage!Launched(k)
    BY <1>5, TrackStep DEF Usage!Launched
  <1>6. CASE Usage!Waited(k) \/ Usage!Asked(k)
    <2>1. PICK c \in {None, "usage", "escape"} :
             Usage!Send(k, c, usageTarget[k]) /\ cmd[k] \in {"capture", "usage", "escape"}
      BY <1>6 DEF Usage!Waited, Usage!Asked, Usage!Finished
    <2>2. Usage!Quiet /\ UNCHANGED <<tracked, usageLost>>
      BY <1>6 DEF Usage!Waited, Usage!Asked
    <2>3. c \notin Making
      BY UsageConstants
    <2> QED
      BY <2>1, <2>2, <2>3, NextCommandStep
  <1> QED
    BY <1>1, <1>2, <1>3, <1>4, <1>5, <1>6

(* The rest: proxies come and go, and so does the process.                 *)
LEMMA PollerEnvironment ==
    ASSUME UsageInv,
           \/ Usage!GrowOld \/ Usage!Environment \/ Usage!Stop \/ Usage!Cleanup \/ Usage!Exit
           \/ Usage!Restart
    PROVE  UsageInv'
  <1> USE DEF UsageInv
  <1>1. CASE Usage!GrowOld \/ Usage!Environment \/ Usage!Stop \/ Usage!Restart
    <2>1. /\ UNCHANGED <<tracked, chosen, usageTarget, cmd, answer, usageLost>>
          /\ \/ usagePane' = usagePane
             \/ \E p \in Proxy : usagePane' = [usagePane EXCEPT ![p] = "gone"]
      BY <1>1 DEF Usage!GrowOld, Usage!Environment, Usage!Stop, Usage!Restart, Usage!pollVars
    <2>2. UsageShape' /\ \A p \in Proxy : Usage!Alive(p)' => Usage!Alive(p)
      BY <2>1 DEF UsageShape, IsOn, Usage!Alive
    <2> QED
      BY <2>1, <2>2 DEF SeenTo, Aimed, ComesTo
  <1>2. CASE Usage!Cleanup
    <2>1. /\ UNCHANGED <<chosen, usageTarget, cmd, answer>>
          /\ IF tracked \in registered
             THEN usagePane' = [usagePane EXCEPT ![tracked] = "gone"] /\ usageLost' = usageLost
             ELSE usageLost' = usageLost \cup {tracked} /\ usagePane' = usagePane
      BY <1>2 DEF Usage!Cleanup, Usage!pollVars
    <2>2. UsageShape'
      BY <2>1 DEF UsageShape, IsOn
    <2>3. \A p \in Proxy : Usage!Alive(p)' => Usage!Alive(p) /\ (p # tracked \/ p \in usageLost')
      BY <2>1 DEF UsageShape, IsOn, Usage!Alive
    <2>4. SeenTo'
      BY <2>1, <2>3 DEF SeenTo, ComesTo
    <2> QED
      BY <2>1, <2>2, <2>4 DEF Aimed
  <1>3. CASE Usage!Exit
    <2>1. /\ cmd' = [k \in UsagePoll |-> None] /\ answer' = [k \in UsagePoll |-> None]
          /\ UNCHANGED <<usagePane, chosen, usageTarget>>
          /\ \/ usageLost' = {p \in Proxy : Usage!Alive(p)}
             \/ usageLost' = usageLost /\ tracked = None /\ \A k \in UsagePoll : cmd[k] = None
      BY <1>3 DEF Usage!Exit
    <2>2. SeenTo'
      BY <2>1, UsageConstants DEF SeenTo, ComesTo, Usage!Alive
    <2> QED
      BY <2>1, <2>2, UsageConstants DEF UsageShape, IsOn, Aimed
  <1> QED
    BY <1>1, <1>2, <1>3

(* Between polls every live session is tracked or known to be lost, for    *)
(* any proxies and overlapping polls (usage-poller.ts:137-440).            *)
THEOREM UsageSessionsAreTracked == ServerSpec => []SessionsAreTracked
  <1>1. ServerInit => UsageInv
    <2> SUFFICES ASSUME Usage!Init PROVE UsageInv
      BY DEF ServerInit
    <2>1. UsageShape
      BY DEF Usage!Init, UsageShape, IsOn
    <2> QED
      BY <2>1, UsageConstants DEF Usage!Init, UsageInv, SeenTo, Aimed, Usage!Alive
  <1>2. UsageInv /\ [ServerNext]_serverVars => UsageInv'
    <2> SUFFICES ASSUME UsageInv, [ServerNext]_serverVars PROVE UsageInv'
      OBVIOUS
    <2>1. CASE part = "usage" /\ ServerNext
      BY <2>1, PerformStep, BeginPollStep, PollerStep, PollerEnvironment DEF ServerNext, Usage!Next
    <2>2. CASE UNCHANGED usageVars
      BY <2>2 DEF usageVars, UsageInv, UsageShape, IsOn, SeenTo, Aimed, ComesTo, Usage!Alive
    <2>3. CASE UNCHANGED serverVars
      BY <2>2, <2>3 DEF serverVars
    <2> QED
      BY <2>1, <2>2, <2>3 DEF ServerNext
  <1>3. UsageInv => SessionsAreTracked
    BY UsageConstants
    DEF UsageInv, SeenTo, ComesTo, SessionsAreTracked, Usage!SessionsAreTracked
  <1> QED
    BY <1>1, <1>2, <1>3, PTL DEF ServerSpec

-----------------------------------------------------------------------------
(* Personas                                                                *)

PersonaRow == [opt : Opt \cup {None}]

(* Agents whose file a user wrote have one, and were written under the     *)
(* watch.                                                                  *)
Written == /\ file \in [Agent -> Persona!File \cup {None}]
           /\ personasRow \in [Agent -> PersonaRow \cup {None}]
           /\ edited \subseteq Agent /\ gone \subseteq Agent
           /\ \A a \in edited : file[a] # None
           /\ blank => edited = {}

PersonasInv == Written /\ Persona!NoResurrection /\ Persona!FileIsFollowed

(* The facts about the constants that the proofs use.                      *)
LEMMA PersonasConstants == None \notin Persona!File /\ None \notin PersonaRow
  BY ServerAssumption DEF Persona!PersonasAssumption, PersonaRow

(* An upsert writes what files say into rows of theirs, and does not stop  *)
(* unless one of them throws.                                              *)
LEMMA UpsertStep ==
    ASSUME PersonasInv, NEW f \in [Agent -> Persona!File \cup {None}],
           NEW as \in SUBSET {a \in Agent : Persona!Syncable(a, f)},
           Persona!Upsert(as, f)
    PROVE  /\ personasRow' \in [Agent -> PersonaRow \cup {None}]
           /\ \A a \in Agent : personasRow'[a] = personasRow[a]
                               \/ (a \in as /\ personasRow'[a] = [opt |-> f[a].opt])
           /\ (\A b \in as : ~Persona!Throws(b, f)) =>
                 \A a \in as : personasRow'[a] = [opt |-> f[a].opt]
  <1> DEFINE thrower == {a \in as : Persona!Throws(a, f) /\ \A b \in as : b < a => ~Persona!Throws(b, f)}
             reached == {a \in as : \A b \in thrower : a <= b}
  <1>1. personasRow' = [a \in Agent |-> IF a \in reached THEN [opt |-> f[a].opt] ELSE personasRow[a]]
    BY DEF Persona!Upsert
  <1>2. reached \subseteq as /\ ((\A b \in as : ~Persona!Throws(b, f)) => reached = as)
    OBVIOUS
  <1> HIDE DEF reached
  <1>3. \A a \in as : f[a] # None /\ f[a] \in Persona!File
    BY DEF Persona!Syncable
  <1>4. \A a \in as : [opt |-> f[a].opt] \in PersonaRow
    BY <1>3 DEF Persona!File, PersonaRow
  <1> QED
    BY <1>1, <1>2, <1>4 DEF PersonasInv, Written

(* A sync of the files as they are keeps the invariant; one of all files   *)
(* that differ makes the rows follow them.                                 *)
LEMMA SyncKeeps ==
    ASSUME PersonasInv, NEW as \in SUBSET {a \in Agent : Persona!Syncable(a, file)},
           Persona!Upsert(as, file), UNCHANGED <<file, gone, edited>>,
           \/ changed' = changed
           \/ {a \in Agent : Persona!Syncable(a, file) /\ Persona!Differs(a, file)} \subseteq as
    PROVE  /\ personasRow' \in [Agent -> PersonaRow \cup {None}]
           /\ Persona!NoResurrection' /\ Persona!FileIsFollowed'
  <1> USE PersonasConstants
  <1>1. /\ file \in [Agent -> Persona!File \cup {None}]
        /\ personasRow' \in [Agent -> PersonaRow \cup {None}]
        /\ \A a \in Agent : personasRow'[a] = personasRow[a]
                            \/ (a \in as /\ personasRow'[a] = [opt |-> file[a].opt])
        /\ (\A b \in as : ~Persona!Throws(b, file)) =>
              \A a \in as : personasRow'[a] = [opt |-> file[a].opt]
    BY UpsertStep DEF PersonasInv, Written
  <1>2. Persona!NoResurrection'
    <2>1. \A a \in gone : a \in Agent /\ personasRow[a] = None /\ file[a] = None /\ a \notin as
      BY DEF PersonasInv, Written, Persona!NoResurrection, Persona!Syncable
    <2> QED
      BY <1>1, <2>1 DEF Persona!NoResurrection
  <1>3. ASSUME NEW a \in edited, Persona!Syncable(a, file), ~changed', ~Persona!Stuck
        PROVE  personasRow'[a] # None /\ personasRow'[a].opt = file[a].opt
    <2>1. a \in Agent /\ file[a] \in Persona!File
      BY <1>3 DEF PersonasInv, Written, Persona!Syncable
    <2>2. /\ [opt |-> file[a].opt] \in PersonaRow
          /\ [opt |-> file[a].opt].opt = file[a].opt
      BY <2>1 DEF Persona!File, PersonaRow
    <2>3. \A b \in as : ~Persona!Throws(b, file)
      BY <1>3 DEF Persona!Stuck, Persona!Syncable
    <2>4. CASE a \in as
      BY <1>1, <2>2, <2>3, <2>4
    <2>5. CASE a \notin as
      <3>1. personasRow'[a] = personasRow[a]
        BY <1>1, <2>1, <2>5
      <3>2. CASE changed' = changed
        BY <1>3, <3>1, <3>2 DEF PersonasInv, Persona!FileIsFollowed
      <3>3. CASE ~Persona!Differs(a, file)
        BY <3>1, <3>3 DEF Persona!Differs
      <3> QED
        BY <1>3, <2>1, <2>5, <3>2, <3>3
    <2> QED
      BY <2>4, <2>5
  <1>4. Persona!FileIsFollowed'
    BY <1>3 DEF Persona!FileIsFollowed, Persona!Syncable, Persona!Stuck, Persona!Throws
  <1> QED
    BY <1>1, <1>2, <1>4

(* The syncs of the files as they are.                                     *)
LEMMA SyncsStep ==
    ASSUME PersonasInv,
           \/ Persona!Poll \/ Persona!ReloadPersonas
           \/ \E a \in Agent : Persona!SyncSinglePersona(a)
    PROVE  PersonasInv'
  <1> USE PersonasConstants
  <1> DEFINE differing == {a \in Agent : Persona!Syncable(a, file) /\ Persona!Differs(a, file)}
  <1>1. CASE Persona!Poll /\ blank
    <2>1. /\ UNCHANGED <<file, personasRow, teams, member, gone, edited>>
          /\ edited = {} /\ blank' \in BOOLEAN
      BY <1>1 DEF Persona!Poll, Persona!db, PersonasInv, Written
    <2> QED
      BY <2>1 DEF PersonasInv, Written, Persona!NoResurrection, Persona!FileIsFollowed
  <1>2. CASE Persona!Poll /\ ~blank
    <2>1. /\ UNCHANGED <<file, gone, edited>> /\ Persona!Upsert(differing, file)
          /\ blank' = (Persona!Files = {})
      BY <1>2 DEF Persona!Poll, Persona!SyncPersonasWithDiff
    <2>2. differing \in SUBSET {a \in Agent : Persona!Syncable(a, file)}
      OBVIOUS
    <2>3. blank' => edited = {}
      BY <2>1 DEF Persona!Files, PersonasInv, Written
    <2> QED
      BY <2>1, <2>2, <2>3, SyncKeeps DEF PersonasInv, Written
  <1>3. CASE Persona!ReloadPersonas
    <2>1. /\ UNCHANGED <<file, blank, changed, gone, edited>> /\ Persona!Upsert(differing, file)
      BY <1>3 DEF Persona!ReloadPersonas, Persona!SyncPersonasWithDiff, Persona!watch
    <2> QED
      BY <2>1, SyncKeeps DEF PersonasInv, Written
  <1>4. CASE \E a \in Agent : Persona!SyncSinglePersona(a)
    <2>1. PICK a \in Agent : /\ Persona!Syncable(a, file) /\ Persona!Upsert({a}, file)
                             /\ UNCHANGED <<file, blank, changed, gone, edited>>
      BY <1>4 DEF Persona!SyncSinglePersona, Persona!watch
    <2> QED
      BY <2>1, SyncKeeps DEF PersonasInv, Written
  <1> QED
    BY <1>1, <1>2, <1>3, <1>4

(* The start of the process: no file is made, and nobody has written one.  *)
LEMMA PersonasRestart == ASSUME PersonasInv, Persona!Restart PROVE PersonasInv'
  <1> USE PersonasConstants
  <1> DEFINE f == [a \in Agent |-> Persona!Backfilled(a)]
             as == {a \in Agent : Persona!Syncable(a, f)}
  <1>1. /\ file' = f /\ Persona!Upsert(as, f) /\ edited' = {} /\ UNCHANGED gone
    BY DEF Persona!Restart
  <1>2. ASSUME NEW a \in Agent
        PROVE  /\ f[a] \in Persona!File \cup {None}
               /\ file[a] = None => f[a] = None
    <2>1. CASE file[a] = None \/ personasRow[a] = None
      BY <2>1 DEF Persona!Backfilled, PersonasInv, Written
    <2>2. CASE ~(file[a] = None \/ personasRow[a] = None)
      <3>1. file[a] \in Persona!File /\ personasRow[a] \in PersonaRow
        BY <2>2 DEF PersonasInv, Written
      <3> QED
        BY <2>2, <3>1
        DEF Persona!Backfilled, Persona!File, PersonaRow, Persona!TeamsOf
    <2> QED
      BY <2>1, <2>2
  <1>3. f \in [Agent -> Persona!File \cup {None}]
    BY <1>2
  <1> HIDE DEF f
  <1>4. /\ personasRow' \in [Agent -> PersonaRow \cup {None}]
        /\ \A a \in Agent : personasRow'[a] = personasRow[a] \/ a \in as
    BY <1>1, <1>3, UpsertStep
  <1>5. Persona!NoResurrection'
    BY <1>1, <1>2, <1>4
    DEF PersonasInv, Written, Persona!NoResurrection, Persona!Syncable
  <1> QED
    BY <1>1, <1>3, <1>4, <1>5 DEF PersonasInv, Written, Persona!FileIsFollowed

(* What users do to an agent: where a file was written, the watch has yet  *)
(* to see it.                                                              *)
LEMMA UsersStep ==
    ASSUME PersonasInv, NEW a \in Agent,
           \/ Persona!RemoveFile(a) \/ Persona!BeginDelete(a) \/ Persona!EndDelete(a)
           \/ \E f \in Persona!File : Persona!WriteFile(a, f) \/ Persona!CreatePersonaAndAgent(a, f)
           \/ \E o \in Opt \cup {None} : Persona!CreateAgent(a, o) \/ Persona!SetField(a, o)
    PROVE  PersonasInv'
  <1> USE PersonasConstants
  <1> USE DEF PersonasInv, Written
  <1>1. CASE Persona!RemoveFile(a)
    <2>1. /\ file' = [file EXCEPT ![a] = None] /\ changed' /\ edited' = edited \ {a}
          /\ UNCHANGED <<personasRow, blank, gone>>
      BY <1>1 DEF Persona!RemoveFile, Persona!db
    <2> QED
      BY <2>1 DEF Persona!NoResurrection, Persona!FileIsFollowed
  <1>2. CASE Persona!BeginDelete(a)
    <2>1. UNCHANGED <<file, personasRow, blank, changed, gone, edited>>
      BY <1>2 DEF Persona!BeginDelete, Persona!db, Persona!watch
    <2> QED
      BY <2>1 DEF Persona!NoResurrection, Persona!FileIsFollowed, Persona!Syncable,
                  Persona!Stuck, Persona!Throws
  <1>3. CASE Persona!EndDelete(a)
    <2>1. /\ file' = [file EXCEPT ![a] = None] /\ personasRow' = [personasRow EXCEPT ![a] = None]
          /\ changed' = (changed \/ file[a] # None) /\ UNCHANGED blank
          /\ gone' = gone \cup {a} /\ edited' = edited \ {a}
      BY <1>3 DEF Persona!EndDelete, Persona!Unlink
    <2>2. Persona!NoResurrection'
      BY <2>1 DEF Persona!NoResurrection
    <2>3. ~changed' => file' = file
      BY <2>1
    <2>4. Persona!FileIsFollowed'
      BY <2>1, <2>3 DEF Persona!FileIsFollowed, Persona!Syncable, Persona!Stuck, Persona!Throws
    <2> QED
      BY <2>1, <2>2, <2>4
  <1>4. ASSUME NEW f \in Persona!File, Persona!Wrote(a, f),
               /\ personasRow' \in [Agent -> PersonaRow \cup {None}]
               /\ \A b \in Agent : b # a => personasRow'[b] = personasRow[b]
        PROVE  PersonasInv'
    <2>1. /\ file' = [file EXCEPT ![a] = f] /\ changed' /\ gone' = gone \ {a}
          /\ edited' = (IF blank THEN edited \ {a} ELSE edited \cup {a}) /\ blank' = blank
      BY <1>4 DEF Persona!Wrote
    <2>2. Persona!NoResurrection'
      BY <1>4, <2>1 DEF Persona!NoResurrection
    <2>3. \A b \in edited' : file'[b] # None
      BY <2>1
    <2> QED
      BY <1>4, <2>1, <2>2, <2>3 DEF Persona!FileIsFollowed
  <1>5. CASE \E f \in Persona!File : Persona!WriteFile(a, f)
    BY <1>4, <1>5 DEF Persona!WriteFile, Persona!db
  <1>6. CASE \E f \in Persona!File : Persona!CreatePersonaAndAgent(a, f)
    <2>1. PICK f \in Persona!File :
             /\ f.ok /\ Persona!Wrote(a, f) /\ Persona!Upsert({a}, [file EXCEPT ![a] = f])
      BY <1>6 DEF Persona!CreatePersonaAndAgent
    <2> DEFINE g == [file EXCEPT ![a] = f]
    <2>2. g \in [Agent -> Persona!File \cup {None}] /\ g[a] = f
      OBVIOUS
    <2> HIDE DEF g
    <2>3. {a} \in SUBSET {b \in Agent : Persona!Syncable(b, g)}
      BY <2>1, <2>2 DEF Persona!Syncable
    <2>4. Persona!Upsert({a}, g)
      BY <2>1 DEF g
    <2>5. /\ personasRow' \in [Agent -> PersonaRow \cup {None}]
          /\ \A b \in Agent : personasRow'[b] = personasRow[b] \/ b \in {a}
      BY <2>2, <2>3, <2>4, UpsertStep
    <2> QED
      BY <1>4, <2>1, <2>5
  <1>7. CASE \E o \in Opt \cup {None} : Persona!CreateAgent(a, o)
    <2>1. PICK o \in Opt \cup {None} : Persona!CreateAgent(a, o)
      BY <1>7
    <2>2. /\ personasRow[a] = None /\ personasRow' = [personasRow EXCEPT ![a] = [opt |-> o]]
          /\ \/ Persona!Wrote(a, [ok |-> TRUE, opt |-> o, teams |-> None])
             \/ gone' = gone \ {a} /\ UNCHANGED <<file, blank, changed, edited>>
      BY <2>1 DEF Persona!CreateAgent, Persona!watch
    <2>3. [ok |-> TRUE, opt |-> o, teams |-> None] \in Persona!File /\ [opt |-> o] \in PersonaRow
      BY DEF Persona!File, PersonaRow
    <2>4. personasRow' \in [Agent -> PersonaRow \cup {None}]
      BY <2>2, <2>3
    <2>5. CASE Persona!Wrote(a, [ok |-> TRUE, opt |-> o, teams |-> None])
      BY <1>4, <2>2, <2>3, <2>4, <2>5
    <2>6. CASE gone' = gone \ {a} /\ UNCHANGED <<file, blank, changed, edited>>
      <3>1. Persona!NoResurrection'
        BY <2>2, <2>6 DEF Persona!NoResurrection
      <3>2. Persona!FileIsFollowed'
        BY <2>2, <2>6 DEF Persona!FileIsFollowed, Persona!Syncable, Persona!Stuck, Persona!Throws
      <3> QED
        BY <2>4, <2>6, <3>1, <3>2
    <2> QED
      BY <2>2, <2>5, <2>6
  <1>8. CASE \E o \in Opt \cup {None} : Persona!SetField(a, o)
    <2>1. PICK o \in Opt \cup {None} : Persona!SetField(a, o)
      BY <1>8
    <2>2. /\ personasRow[a] # None /\ personasRow' = [personasRow EXCEPT ![a].opt = o]
          /\ file' = IF file[a] = None THEN file ELSE [file EXCEPT ![a].opt = o]
          /\ changed' = (changed \/ file[a] # None) /\ UNCHANGED <<blank, gone, edited>>
      BY <2>1 DEF Persona!SetField
    <2>3. personasRow' \in [Agent -> PersonaRow \cup {None}]
      BY <2>2 DEF PersonaRow
    <2>4. file' \in [Agent -> Persona!File \cup {None}]
      BY <2>2 DEF Persona!File
    <2>5. \A b \in Agent : (file'[b] = None <=> file[b] = None)
      BY <2>2, <2>4 DEF Persona!File
    <2>6. a \notin gone
      BY <2>2 DEF Persona!NoResurrection
    <2>7. Persona!NoResurrection'
      BY <2>2, <2>5, <2>6 DEF Persona!NoResurrection
    <2>8. ~changed' => file' = file /\ a \notin edited
      BY <2>2
    <2>9. Persona!FileIsFollowed'
      BY <2>2, <2>8 DEF Persona!FileIsFollowed, Persona!Syncable, Persona!Stuck, Persona!Throws
    <2> QED
      BY <2>2, <2>3, <2>4, <2>5, <2>7, <2>9
  <1> QED
    BY <1>1, <1>2, <1>3, <1>5, <1>6, <1>7, <1>8

(* What is done to teams reaches files that are there, through the watch.  *)
LEMMA TeamsStep ==
    ASSUME PersonasInv,
           \/ \E t \in Team, a \in Agent : Persona!ChangeMember(t, a)
           \/ \E t \in Team : \/ Persona!DeleteTeam(t)
                             \/ \E as \in SUBSET Agent : Persona!CreateTeam(t, as)
                             \/ \E u \in Team : Persona!RenameTeam(t, u)
    PROVE  PersonasInv'
  <1> USE PersonasConstants
  <1> USE DEF PersonasInv, Written
  <1>1. PICK as : Persona!WriteThrough(as)
    BY DEF Persona!ChangeMember, Persona!DeleteTeam, Persona!CreateTeam, Persona!RenameTeam
  <1>2. /\ file' = [a \in Agent |-> IF a \in as /\ file[a] # None
                                    THEN [file[a] EXCEPT !.teams = {t \in Team : a \in member'[t]}]
                                    ELSE file[a]]
        /\ changed' = (changed \/ file' # file) /\ UNCHANGED <<personasRow, blank, gone, edited>>
    BY <1>1 DEF Persona!WriteThrough, Persona!TeamsOf
  <1>3. ASSUME NEW a \in Agent
        PROVE  file'[a] \in Persona!File \cup {None} /\ (file'[a] = None <=> file[a] = None)
    <2>1. file'[a] = IF a \in as /\ file[a] # None
                     THEN [file[a] EXCEPT !.teams = {t \in Team : a \in member'[t]}] ELSE file[a]
      BY <1>2
    <2>2. CASE file[a] = None
      BY <2>1, <2>2
    <2>3. CASE file[a] # None
      <3>1. file[a] \in Persona!File /\ {t \in Team : a \in member'[t]} \in SUBSET Team
        BY <2>3
      <3>2. [file[a] EXCEPT !.teams = {t \in Team : a \in member'[t]}] \in Persona!File
        BY <3>1 DEF Persona!File
      <3> QED
        BY <2>1, <2>3, <3>2
    <2> QED
      BY <2>2, <2>3
  <1>4. file' \in [Agent -> Persona!File \cup {None}]
    BY <1>2, <1>3
  <1>5. Persona!NoResurrection'
    BY <1>2, <1>3 DEF Persona!NoResurrection
  <1>6. ~changed' => ~changed /\ file' = file
    BY <1>2
  <1>7. Persona!FileIsFollowed'
    BY <1>2, <1>6 DEF Persona!FileIsFollowed, Persona!Syncable, Persona!Stuck, Persona!Throws
  <1> QED
    BY <1>2, <1>3, <1>4, <1>5, <1>7

(* The rows follow the files, for any agents, teams and values: a deleted  *)
(* agent does not come back, and what a user writes is seen                *)
(* (main.ts:578-612, routes.ts:700).                                       *)
THEOREM PersonaRowsFollow == ServerSpec => []RowsFollowFiles
  <1>1. ServerInit => PersonasInv
    <2> SUFFICES ASSUME Persona!Init PROVE PersonasInv
      BY DEF ServerInit
    <2> QED
      BY DEF Persona!Init, PersonasInv, Written, Persona!NoResurrection, Persona!FileIsFollowed
  <1>2. PersonasInv /\ [ServerNext]_serverVars => PersonasInv'
    <2> SUFFICES ASSUME PersonasInv, [ServerNext]_serverVars PROVE PersonasInv'
      OBVIOUS
    <2>1. CASE part = "personas" /\ ServerNext
      <3>1. Persona!Next
        BY <2>1 DEF ServerNext
      <3> QED
        BY <3>1, SyncsStep, PersonasRestart, UsersStep, TeamsStep DEF Persona!Next
    <2>2. CASE UNCHANGED personasVars
      <3>1. UNCHANGED <<file, personasRow, blank, changed, gone, edited>>
        BY <2>2 DEF personasVars
      <3> QED
        BY <3>1 DEF PersonasInv, Written, Persona!NoResurrection, Persona!FileIsFollowed,
                    Persona!Syncable, Persona!Stuck, Persona!Throws
    <2>3. CASE UNCHANGED serverVars
      BY <2>2, <2>3 DEF serverVars
    <2> QED
      BY <2>1, <2>2, <2>3 DEF ServerNext
  <1>3. PersonasInv => RowsFollowFiles
    BY DEF PersonasInv, RowsFollowFiles, Persona!RowsFollowFiles
  <1> QED
    BY <1>1, <1>2, <1>3, PTL DEF ServerSpec

-----------------------------------------------------------------------------
(* Orders and recursion                                                    *)

(* A set of numbers has a least.                                           *)
LEMMA LeastNumber ==
    ASSUME NEW S \in SUBSET Nat, S # {}
    PROVE  \E n \in S : \A m \in S : n <= m
  <1>1. PICK n \in S : \A m \in S : ~ (<<m, n>> \in OpToRel(<, Nat))
    BY NatLessThanWellFounded, WFMin
  <1>2. \A m \in S : ~(m < n)
    BY <1>1 DEF OpToRel
  <1> QED
    BY <1>2

(* R is a total order of S.                                                *)
Orders(R, S) ==
    /\ \A i, j \in S : <<i, j>> \in R \/ <<j, i>> \in R
    /\ \A i, j \in S : <<i, j>> \in R /\ <<j, i>> \in R => i = j
    /\ \A i, j, k \in S : <<i, j>> \in R /\ <<j, k>> \in R => <<i, k>> \in R

(* A finite set that is ordered has an element of each rank, which is so   *)
(* the place it has in the list.                                           *)
LEMMA RankedIs ==
    ASSUME NEW S, IsFiniteSet(S), NEW R, Orders(R, S)
    PROVE  LET t == Drawing!Ranked(S, R)
               C == Cardinality(S)
           IN  /\ C \in Nat /\ t \in [1 .. C -> S]
               /\ \A k, n \in 1 .. C : t[k] = t[n] => k = n
               /\ \A i \in S : \E k \in 1 .. C : t[k] = i
               /\ \A k, n \in 1 .. C : k <= n => <<t[k], t[n]>> \in R
  <1> DEFINE C == Cardinality(S)
             To(n) == {m \in S : <<m, n>> \in R}
             c(n) == Cardinality(To(n))
             f == [n \in S |-> c(n)]
             t == Drawing!Ranked(S, R)
  <1>1. C \in Nat
    BY FS_CardinalityType
  <1>2. \A n \in S : To(n) \in SUBSET S /\ n \in To(n) /\ IsFiniteSet(To(n)) /\ c(n) \in 1 .. C
    <2> SUFFICES ASSUME NEW n \in S
                 PROVE  /\ To(n) \in SUBSET S /\ n \in To(n) /\ IsFiniteSet(To(n))
                        /\ c(n) \in 1 .. C
      OBVIOUS
    <2>1. To(n) \in SUBSET S /\ n \in To(n)
      BY DEF Orders
    <2> HIDE DEF To
    <2>2. IsFiniteSet(To(n)) /\ c(n) \in Nat /\ c(n) <= C
      BY <1>1, <2>1, FS_Subset, FS_CardinalityType
    <2>3. c(n) # 0
      BY <2>1, <2>2, FS_EmptySet
    <2> QED
      BY <1>1, <2>1, <2>2, <2>3
  <1>3. \A m, n \in S : <<m, n>> \in R /\ m # n => c(m) < c(n)
    <2> SUFFICES ASSUME NEW m \in S, NEW n \in S, <<m, n>> \in R, m # n PROVE c(m) < c(n)
      OBVIOUS
    <2>1. To(m) \in SUBSET To(n) /\ n \notin To(m)
      BY DEF Orders
    <2>2. n \in To(n) /\ IsFiniteSet(To(n))
      BY <1>2
    <2> HIDE DEF To
    <2>3. c(m) <= c(n) /\ c(m) # c(n)
      BY <2>1, <2>2, FS_Subset
    <2> QED
      BY <1>1, <1>2, <2>3
  <1>4. \A m, n \in S : c(m) = c(n) => m = n
    <2> SUFFICES ASSUME NEW m \in S, NEW n \in S, c(m) = c(n), m # n PROVE FALSE
      OBVIOUS
    <2>1. <<m, n>> \in R \/ <<n, m>> \in R
      BY DEF Orders
    <2>2. c(m) \in 1 .. C /\ c(n) \in 1 .. C
      BY <1>2
    <2> HIDE DEF c, C
    <2>3. c(m) < c(n) \/ c(n) < c(m)
      BY <1>3, <2>1
    <2> QED
      BY <2>2, <2>3
  <1>5. \A k \in 1 .. C : \E n \in S : c(n) = k
    <2>1. f \in Injection(S, 1 .. C)
      <3> HIDE DEF c, C
      <3> QED
        BY <1>2, <1>4 DEF Injection, IsInjective
    <2>2. IsFiniteSet(1 .. C) /\ Cardinality(1 .. C) = C
      BY <1>1, FS_Interval
    <2>3. f \in Surjection(S, 1 .. C)
      <3> HIDE DEF f
      <3> QED
        BY <2>1, <2>2, FS_Injection
    <2> HIDE DEF c, C
    <2> QED
      BY <2>3 DEF Surjection
  <1>6. t = [k \in 1 .. C |-> CHOOSE n \in S : c(n) = k]
    BY DEF Drawing!Ranked, Drawing!Cardinality, Cardinality
  <1> HIDE DEF c, C, t
  <1>7. \A k \in 1 .. C : t[k] \in S /\ c(t[k]) = k
    BY <1>5, <1>6
  <1>8. t \in [1 .. C -> S]
    BY <1>6, <1>7
  <1>9. \A k, n \in 1 .. C : t[k] = t[n] => k = n
    BY <1>7
  <1>10. \A i \in S : \E k \in 1 .. C : t[k] = i
    <2> SUFFICES ASSUME NEW i \in S PROVE t[c(i)] = i /\ c(i) \in 1 .. C
      OBVIOUS
    <2> QED
      BY <1>2, <1>4, <1>7
  <1>11. \A k, n \in 1 .. C : k <= n => <<t[k], t[n]>> \in R
    <2> SUFFICES ASSUME NEW k \in 1 .. C, NEW n \in 1 .. C, <<t[k], t[n]>> \notin R
                 PROVE  n < k
      BY <1>1
    <2>1. <<t[n], t[k]>> \in R /\ t[n] # t[k]
      BY <1>7 DEF Orders
    <2> QED
      BY <1>3, <1>7, <2>1
  <1> QED
    BY <1>1, <1>8, <1>9, <1>10, <1>11 DEF t, C

(* It has a last.                                                          *)
LEMMA LastExists ==
    ASSUME NEW S, IsFiniteSet(S), S # {}, NEW R, Orders(R, S)
    PROVE  \E i \in S : \A j \in S : <<j, i>> \in R
  <1> DEFINE t == Drawing!Ranked(S, R)
             C == Cardinality(S)
  <1>1. C \in Nat /\ C # 0
    BY FS_CardinalityType, FS_EmptySet
  <1>2. /\ t \in [1 .. C -> S] /\ \A i \in S : \E k \in 1 .. C : t[k] = i
        /\ \A k, n \in 1 .. C : k <= n => <<t[k], t[n]>> \in R
    BY RankedIs
  <1> HIDE DEF t, C
  <1>3. C \in 1 .. C /\ \A k \in 1 .. C : k <= C
    BY <1>1
  <1>4. t[C] \in S /\ \A j \in S : <<j, t[C]>> \in R
    BY <1>2, <1>3
  <1> QED
    BY <1>4

(* The image of a finite set is finite.                                    *)
LEMMA ImageIsFinite ==
    ASSUME NEW S, IsFiniteSet(S), NEW f, DOMAIN f = S, f = [x \in S |-> f[x]]
    PROVE  IsFiniteSet({f[x] : x \in S})
  <1> DEFINE T == {f[x] : x \in S}
  <1>1. f \in [S -> T]
    OBVIOUS
  <1>2. \A y \in T : \E x \in S : f[x] = y
    OBVIOUS
  <1>3. f \in Surjection(S, T)
    BY <1>1, <1>2 DEF Surjection
  <1> HIDE DEF T
  <1>4. IsFiniteSet(T)
    BY <1>3, FS_Surjection
  <1> QED
    BY <1>4 DEF T

(* Max and Min of finitely many numbers.                                   *)
LEMMA MaxIs ==
    ASSUME NEW S \in SUBSET Int, IsFiniteSet(S), S # {}
    PROVE  Drawing!Max(S) \in S /\ \A n \in S : Drawing!Max(S) >= n
  <1> DEFINE R == {p \in S \X S : p[1] <= p[2]}
  <1>1. \A i, j \in S : <<i, j>> \in R <=> i <= j
    OBVIOUS
  <1> HIDE DEF R
  <1>2. Orders(R, S)
    BY <1>1 DEF Orders
  <1>3. \E i \in S : \A j \in S : <<j, i>> \in R
    BY <1>2, LastExists
  <1>4. \E i \in S : \A j \in S : i >= j
    BY <1>1, <1>3
  <1> QED
    BY <1>4 DEF Drawing!Max

LEMMA MinIs ==
    ASSUME NEW S \in SUBSET Int, IsFiniteSet(S), S # {}
    PROVE  Drawing!Min(S) \in S /\ \A n \in S : Drawing!Min(S) <= n
  <1> DEFINE R == {p \in S \X S : p[1] >= p[2]}
  <1>1. \A i, j \in S : <<i, j>> \in R <=> i >= j
    OBVIOUS
  <1> HIDE DEF R
  <1>2. Orders(R, S)
    BY <1>1 DEF Orders
  <1>3. \E i \in S : \A j \in S : <<j, i>> \in R
    BY <1>2, LastExists
  <1>4. \E i \in S : \A j \in S : i <= j
    BY <1>1, <1>3
  <1> QED
    BY <1>4 DEF Drawing!Min

(* A function on an interval that is given by its first value and by how   *)
(* each of the others follows from the one before.                         *)
Follows(f, X, m, n, x, g) ==
    f \in [m .. n -> X] /\ f[m] = x /\ \A k \in m + 1 .. n : f[k] = g[f[k - 1]][k]

(* There is such a function: what a recursive definition on an interval    *)
(* needs in order to define what it says.                                  *)
LEMMA Recursion ==
    ASSUME NEW X, NEW m \in Nat, NEW n \in Nat, m <= n,
           NEW x \in X, NEW g \in [X -> [Nat -> X]]
    PROVE  \E f : Follows(f, X, m, n, x, g)
  <1> DEFINE Is(f, k) == Follows(f, X, m, k, x, g)
             S == {k \in m .. n : ~\E f : Is(f, k)}
  <1>1. S \in SUBSET Nat
    OBVIOUS
  <1>2. \A k \in m .. n : k \notin S => \E f : Is(f, k)
    OBVIOUS
  <1>3. \A k \in S : k \in m .. n /\ ~\E f : Is(f, k)
    OBVIOUS
  <1>4. Is([i \in m .. m |-> x], m)
    BY DEF Follows
  <1> HIDE DEF S
  <1> SUFFICES ASSUME S # {} PROVE FALSE
    <2>1. n \in m .. n
      OBVIOUS
    <2> QED
      BY <1>2, <2>1
  <1>5. PICK k \in S : \A i \in S : k <= i
    BY <1>1, LeastNumber
  <1>6. k \in m + 1 .. n /\ k - 1 \in m .. n /\ k - 1 \notin S
    <2>1. k \in m .. n /\ k # m
      BY <1>3, <1>4
    <2> QED
      BY <1>5, <2>1
  <1>7. PICK f : Is(f, k - 1)
    BY <1>2, <1>6
  <1>8. /\ f \in [m .. k - 1 -> X] /\ f[m] = x
        /\ \A i \in m + 1 .. k - 1 : f[i] = g[f[i - 1]][i]
    BY <1>7 DEF Follows
  <1>9. g[f[k - 1]][k] \in X
    BY <1>6, <1>8
  <1> DEFINE h == [i \in m .. k |-> IF i = k THEN g[f[k - 1]][k] ELSE f[i]]
  <1>10. Is(h, k)
    <2>1. h \in [m .. k -> X]
      BY <1>6, <1>8, <1>9
    <2>2. h[m] = x
      BY <1>6, <1>8
    <2>3. \A i \in m + 1 .. k : h[i] = g[h[i - 1]][i]
      <3> SUFFICES ASSUME NEW i \in m + 1 .. k PROVE h[i] = g[h[i - 1]][i]
        OBVIOUS
      <3>1. i - 1 \in m .. k - 1 /\ i \in m .. k
        BY <1>6
      <3>2. h[i - 1] = f[i - 1] /\ h[i] = (IF i = k THEN g[f[k - 1]][k] ELSE f[i])
        BY <1>6, <3>1
      <3> HIDE DEF h
      <3>3. CASE i = k
        BY <3>2, <3>3
      <3>4. CASE i # k
        <4>1. i \in m + 1 .. k - 1
          BY <1>6, <3>4
        <4>2. f[i] = g[f[i - 1]][i]
          BY <1>8, <4>1
        <4> QED
          BY <3>2, <3>4, <4>2
      <3> QED
        BY <3>3, <3>4
    <2> HIDE DEF h
    <2> QED
      BY <2>1, <2>2, <2>3 DEF Follows
  <1> QED
    BY <1>3, <1>10

-----------------------------------------------------------------------------
(* Sketches: the shapes and the order in which they are placed             *)

Good == {t \in {Drawing!Clean(s) : s \in Shape} : Drawing!Valid(t)}
IsDoc == doc \in Seq(Good)

LEMMA GoodShape ==
    ASSUME NEW t \in Good
    PROVE  /\ t.type \in Drawing!BoxTypes \cup {"arrow", "line"}
           /\ t.z \in Int \cup {None} /\ IsFiniteSet(t.children) /\ None \notin t.children
  <1>1. PICK s \in Shape : t = Drawing!Clean(s) /\ Drawing!Valid(t)
    BY DEF Good
  <1>2. DOMAIN s = {"type", "id", "at", "z", "children", "from", "to", "ends"}
        /\ s.z \in Int \cup {None} /\ IsFiniteSet(s.children) /\ None \notin s.children
    BY ClientsAssumption
    DEF Drawing!SketchAssumption, Drawing!Plain, Drawing!IsFiniteSet, IsFiniteSet
  <1>3. t.z = s.z /\ t.children = s.children \ {Bad}
    BY <1>1, <1>2 DEF Drawing!Clean
  <1>4. IsFiniteSet(t.children)
    BY <1>2, <1>3, FS_RemoveElement
  <1> QED
    BY <1>1, <1>2, <1>3, <1>4 DEF Drawing!Valid

LEMMA DocIs ==
    ASSUME IsDoc
    PROVE  /\ Len(doc) \in Nat /\ DOMAIN doc = 1 .. Len(doc)
           /\ \A i \in DOMAIN doc :
                 /\ i \in Nat /\ doc[i].type \in Drawing!BoxTypes \cup {"arrow", "line"}
                 /\ doc[i].z \in Int \cup {None} /\ IsFiniteSet(doc[i].children)
                 /\ None \notin doc[i].children
           /\ Drawing!Boxes \in SUBSET DOMAIN doc /\ IsFiniteSet(Drawing!Boxes)
  <1>1. Len(doc) \in Nat /\ DOMAIN doc = 1 .. Len(doc) /\ \A i \in DOMAIN doc : doc[i] \in Good
    BY DEF IsDoc
  <1>2. Drawing!Boxes \in SUBSET DOMAIN doc
    BY DEF Drawing!Boxes
  <1>3. IsFiniteSet(Drawing!Boxes)
    <2>1. IsFiniteSet(1 .. Len(doc))
      BY <1>1, FS_Interval
    <2> QED
      BY <1>1, <1>2, <2>1, FS_Subset
  <1> QED
    BY <1>1, <1>2, <1>3, GoodShape

(* The two passes are an order, and so is the one in which is drawn.       *)
Passes == {p \in Drawing!Boxes \X Drawing!Boxes : Drawing!NotBefore(p[1], p[2])}

LEMMA PassesOrder ==
    ASSUME IsDoc, NEW S \in SUBSET Drawing!Boxes
    PROVE  /\ IsFiniteSet(S) /\ Orders(Passes, S)
           /\ \A i, j \in S : <<i, j>> \in Passes <=> Drawing!NotBefore(i, j)
  <1>1. \A i, j \in S : <<i, j>> \in Passes <=> Drawing!NotBefore(i, j)
    BY DEF Passes
  <1>2. \A i \in S : i \in Nat
    BY DocIs
  <1>3. Orders(Passes, S)
    <2>1. \A i, j \in S : Drawing!NotBefore(i, j) \/ Drawing!NotBefore(j, i)
      BY <1>2 DEF Drawing!NotBefore, Drawing!IsFrame
    <2>2. \A i, j \in S : Drawing!NotBefore(i, j) /\ Drawing!NotBefore(j, i) => i = j
      BY <1>2 DEF Drawing!NotBefore, Drawing!IsFrame
    <2>3. \A i, j, k \in S :
             Drawing!NotBefore(i, j) /\ Drawing!NotBefore(j, k) => Drawing!NotBefore(i, k)
      BY <1>2 DEF Drawing!NotBefore, Drawing!IsFrame
    <2> QED
      BY <1>1, <2>1, <2>2, <2>3 DEF Orders
  <1> QED
    BY <1>1, <1>3, DocIs, FS_Subset

DrawnIn == {p \in Drawing!Boxes \X Drawing!Boxes : Drawing!Behind(p[1], p[2])}

LEMMA DrawnInOrder == ASSUME IsDoc PROVE Orders(DrawnIn, Drawing!Boxes)
  <1> DEFINE B == Drawing!Boxes
  <1>1. \A i, j \in B : <<i, j>> \in DrawnIn <=> Drawing!Behind(i, j)
    BY DEF DrawnIn
  <1>2. \A i \in B : i \in Nat /\ Drawing!Order(i) \in Int
    BY DocIs DEF Drawing!Order
  <1>3. /\ \A i, j \in B : Drawing!NotBefore(i, j) \/ Drawing!NotBefore(j, i)
        /\ \A i, j \in B : Drawing!NotBefore(i, j) /\ Drawing!NotBefore(j, i) => i = j
        /\ \A i, j, k \in B :
              Drawing!NotBefore(i, j) /\ Drawing!NotBefore(j, k) => Drawing!NotBefore(i, k)
    BY PassesOrder DEF Orders
  <1> HIDE DEF B
  <1>4. \A i, j \in B : Drawing!Behind(i, j) \/ Drawing!Behind(j, i)
    BY <1>2, <1>3 DEF Drawing!Behind
  <1>5. \A i, j \in B : Drawing!Behind(i, j) /\ Drawing!Behind(j, i) => i = j
    BY <1>2, <1>3 DEF Drawing!Behind
  <1>6. \A i, j, k \in B : Drawing!Behind(i, j) /\ Drawing!Behind(j, k) => Drawing!Behind(i, k)
    BY <1>2, <1>3 DEF Drawing!Behind
  <1>7. Orders(DrawnIn, B)
    BY <1>1, <1>4, <1>5, <1>6 DEF Orders
  <1> QED
    BY <1>7 DEF B

-----------------------------------------------------------------------------
(* Sketches: what placing a shape does                                     *)

Point == [x : Int, y : Int]
Rect == [x : Int, y : Int, w : Int, h : Int]
Laid == UNION {[S -> Rect] : S \in SUBSET Drawing!Boxes}
Layout == [cursor : Point, laid : Laid]

LEMMA LaidIs ==
    ASSUME NEW laid \in Laid
    PROVE  /\ DOMAIN laid \in SUBSET Drawing!Boxes
           /\ \A i \in DOMAIN laid : laid[i] \in Rect
  BY DEF Laid

LEMMA BoxByIdIs ==
    ASSUME IsDoc, NEW laid \in Laid, NEW id, Drawing!WithId(laid, id) # {}
    PROVE  \E i \in Drawing!WithId(laid, id) : Drawing!BoxById(laid, id) = laid[i]
  <1> DEFINE W == Drawing!WithId(laid, id)
  <1>1. W \in SUBSET Drawing!Boxes
    BY LaidIs DEF Drawing!WithId
  <1> HIDE DEF W
  <1>2. \E i \in W : \A j \in W : <<j, i>> \in Passes
    BY <1>1, PassesOrder, LastExists DEF W
  <1>3. \E i \in W : \A j \in W : Drawing!NotBefore(j, i)
    BY <1>1, <1>2, PassesOrder
  <1> DEFINE final == CHOOSE i \in W : \A j \in W : Drawing!NotBefore(j, i)
  <1>4. final \in W
    BY <1>3
  <1>5. Drawing!BoxById(laid, id) = laid[final]
    BY DEF Drawing!BoxById, W
  <1> HIDE DEF final
  <1> QED
    BY <1>4, <1>5 DEF W

(* The bounding box holds the boxes it is of.                              *)
LEMMA AroundHolds ==
    ASSUME NEW B \in SUBSET Rect, IsFiniteSet(B), B # {}
    PROVE  Drawing!Around(B) \in Rect /\ \A b \in B : Drawing!Inside(b, Drawing!Around(B))
  <1> DEFINE X == {b.x : b \in B}
             Y == {b.y : b \in B}
             XW == {b.x + b.w : b \in B}
             YH == {b.y + b.h : b \in B}
  <1>1. X # {} /\ Y # {} /\ XW # {} /\ YH # {}
    OBVIOUS
  <1>2. /\ X \in SUBSET Int /\ Y \in SUBSET Int /\ XW \in SUBSET Int /\ YH \in SUBSET Int
        /\ \A b \in B : b.x \in Int /\ b.y \in Int /\ b.w \in Int /\ b.h \in Int
    BY DEF Rect
  <1>3. IsFiniteSet(X)
    <2> DEFINE f == [b \in B |-> b.x]
    <2>1. DOMAIN f = B /\ f = [b \in B |-> f[b]] /\ X = {f[b] : b \in B}
      OBVIOUS
    <2> HIDE DEF f, X
    <2> QED
      BY <2>1, ImageIsFinite
  <1>4. IsFiniteSet(Y)
    <2> DEFINE f == [b \in B |-> b.y]
    <2>1. DOMAIN f = B /\ f = [b \in B |-> f[b]] /\ Y = {f[b] : b \in B}
      OBVIOUS
    <2> HIDE DEF f, Y
    <2> QED
      BY <2>1, ImageIsFinite
  <1>5. IsFiniteSet(XW)
    <2> DEFINE f == [b \in B |-> b.x + b.w]
    <2>1. DOMAIN f = B /\ f = [b \in B |-> f[b]] /\ XW = {f[b] : b \in B}
      OBVIOUS
    <2> HIDE DEF f, XW
    <2> QED
      BY <2>1, ImageIsFinite
  <1>6. IsFiniteSet(YH)
    <2> DEFINE f == [b \in B |-> b.y + b.h]
    <2>1. DOMAIN f = B /\ f = [b \in B |-> f[b]] /\ YH = {f[b] : b \in B}
      OBVIOUS
    <2> HIDE DEF f, YH
    <2> QED
      BY <2>1, ImageIsFinite
  <1> DEFINE leftmost == Drawing!Min(X)
             top == Drawing!Min(Y)
             right == Drawing!Max(XW)
             bottom == Drawing!Max(YH)
  <1>7. /\ \A b \in B : b.x \in X /\ b.y \in Y /\ b.x + b.w \in XW /\ b.y + b.h \in YH
    OBVIOUS
  <1>8. Drawing!Around(B) = [x |-> leftmost - 1, y |-> top - 1, w |-> right - leftmost + 2 * 1,
                             h |-> bottom - top + 2 * 1]
    BY DEF Drawing!Around, Drawing!Padding
  <1> HIDE DEF X, Y, XW, YH
  <1>9. /\ leftmost \in Int /\ \A n \in X : leftmost <= n
        /\ top \in Int /\ \A n \in Y : top <= n
        /\ right \in Int /\ \A n \in XW : right >= n
        /\ bottom \in Int /\ \A n \in YH : bottom >= n
    BY <1>1, <1>2, <1>3, <1>4, <1>5, <1>6, MinIs, MaxIs
  <1> HIDE DEF leftmost, top, right, bottom
  <1>10. \A b \in B : /\ leftmost <= b.x /\ top <= b.y
                      /\ b.x + b.w <= right /\ b.y + b.h <= bottom
    BY <1>7, <1>9
  <1>11. Drawing!Around(B) \in Rect
    BY <1>8, <1>9 DEF Rect
  <1>12. ASSUME NEW b \in B PROVE Drawing!Inside(b, Drawing!Around(B))
    BY <1>2, <1>8, <1>9, <1>10 DEF Drawing!Inside
  <1> QED
    BY <1>11, <1>12

LEMMA ChildBoxesAre ==
    ASSUME IsDoc, NEW laid \in Laid, NEW i \in Drawing!Boxes
    PROVE  LET B == Drawing!ChildBoxes(laid, i) IN
           /\ B \in SUBSET Rect /\ IsFiniteSet(B)
           /\ \A id \in doc[i].children : \A j :
                 Drawing!WithId(laid, id) = {j} => laid[j] \in B
  <1> DEFINE K == {c \in doc[i].children : Drawing!WithId(laid, c) # {}}
             f == [id \in K |-> Drawing!BoxById(laid, id)]
             B == Drawing!ChildBoxes(laid, i)
  <1>1. IsFiniteSet(K)
    BY DocIs, FS_Subset
  <1>2. \A id \in K : \E j \in Drawing!WithId(laid, id) : f[id] = laid[j]
    BY BoxByIdIs
  <1>3. \A id \in K : f[id] \in Rect
    BY <1>2, LaidIs DEF Drawing!WithId
  <1>4. B = {f[id] : id \in K}
    BY DEF Drawing!ChildBoxes
  <1>5. DOMAIN f = K /\ f = [id \in K |-> f[id]]
    OBVIOUS
  <1>6. \A id \in doc[i].children : \A j : Drawing!WithId(laid, id) = {j} => id \in K
    OBVIOUS
  <1> HIDE DEF f, K, B
  <1>7. IsFiniteSet(B)
    BY <1>1, <1>4, <1>5, ImageIsFinite
  <1>8. B \in SUBSET Rect
    BY <1>3, <1>4
  <1>9. \A id \in doc[i].children : \A j : Drawing!WithId(laid, id) = {j} => laid[j] \in B
    <2> SUFFICES ASSUME NEW id \in doc[i].children, NEW j, Drawing!WithId(laid, id) = {j}
                 PROVE  laid[j] \in B
      OBVIOUS
    <2>1. id \in K
      BY <1>6
    <2>2. f[id] = laid[j]
      BY <1>2, <2>1
    <2> QED
      BY <1>4, <2>1, <2>2
  <1> QED
    BY <1>7, <1>8, <1>9 DEF B

(* A shape in the flow, and a place behind a box of it.                    *)
Flowing(i) == ~Drawing!IsFrame(i) /\ doc[i].at = None
Passed(p, b) == IF direction = "row" THEN b.x + b.w < p.x ELSE b.y + b.h < p.y

LEMMA PlaceIs ==
    ASSUME IsDoc, NEW acc \in Layout, NEW i \in Drawing!Boxes
    PROVE  LET next == Drawing!Place(acc, i)
               b == Drawing!BoxOf(acc, i)
           IN  /\ b \in Rect /\ next \in Layout
               /\ next.laid = [j \in DOMAIN acc.laid \cup {i} |-> IF j = i THEN b ELSE acc.laid[j]]
               /\ Flowing(i) => Drawing!Flows(acc.laid, i)
               /\ Drawing!Flows(acc.laid, i) =>
                     b.x = acc.cursor.x /\ b.y = acc.cursor.y /\ Passed(next.cursor, b)
               /\ \A c \in Rect : Passed(acc.cursor, c) => Passed(next.cursor, c)
  <1> DEFINE next == Drawing!Place(acc, i)
             b == Drawing!BoxOf(acc, i)
             B == Drawing!ChildBoxes(acc.laid, i)
             flows == Drawing!Flows(acc.laid, i)
  <1>1. /\ acc.cursor \in Point /\ acc.laid \in Laid
        /\ acc.cursor.x \in Int /\ acc.cursor.y \in Int
    BY DEF Layout, Point
  <1>2. Drawing!Width(doc[i]) \in Nat /\ Drawing!Height(doc[i]) \in Nat
    BY DEF Drawing!Boxes, Drawing!BoxTypes, Drawing!Width, Drawing!Height
  <1>3. B \in SUBSET Rect /\ IsFiniteSet(B)
    BY <1>1, ChildBoxesAre
  <1>4. Flowing(i) => flows
    BY DEF Flowing, Drawing!Flows
  <1>5. flows => b = Drawing!At(acc.cursor, i)
    BY DEF Drawing!BoxOf, Drawing!Flows
  <1>6. /\ Drawing!At(acc.cursor, i) \in Rect /\ Drawing!At(Drawing!Abs, i) \in Rect
        /\ Drawing!At(acc.cursor, i).x = acc.cursor.x /\ Drawing!At(acc.cursor, i).y = acc.cursor.y
        /\ Drawing!At(acc.cursor, i).w \in Nat /\ Drawing!At(acc.cursor, i).h \in Nat
    BY <1>1, <1>2 DEF Drawing!At, Drawing!Abs, Rect
  <1>7. b \in Rect
    <2>1. CASE flows \/ doc[i].at # None
      BY <1>5, <1>6, <2>1 DEF Drawing!BoxOf
    <2>2. CASE ~flows /\ doc[i].at = None
      <3>1. B # {}
        BY <2>2 DEF Drawing!Flows
      <3>2. b = Drawing!Around(B)
        BY <2>2 DEF Drawing!BoxOf
      <3> QED
        BY <1>3, <3>1, <3>2, AroundHolds
    <2> QED
      BY <2>1, <2>2
  <1>8. next = [cursor |-> IF flows THEN Drawing!Advanced(acc.cursor, b) ELSE acc.cursor,
                laid |-> [j \in DOMAIN acc.laid \cup {i} |-> IF j = i THEN b ELSE acc.laid[j]]]
    BY DEF Drawing!Place
  <1> HIDE DEF b, flows, next
  <1>9. next.laid = [j \in DOMAIN acc.laid \cup {i} |-> IF j = i THEN b ELSE acc.laid[j]]
    BY <1>8
  <1>10. next.laid \in Laid
    <2>1. DOMAIN acc.laid \cup {i} \in SUBSET Drawing!Boxes
      BY <1>1, LaidIs
    <2>2. next.laid \in [DOMAIN acc.laid \cup {i} -> Rect]
      BY <1>1, <1>7, <1>9, LaidIs
    <2> QED
      BY <2>1, <2>2 DEF Laid
  <1>11. next.cursor = IF flows THEN Drawing!Advanced(acc.cursor, b) ELSE acc.cursor
    BY <1>8
  <1>12. CASE flows
    <2>1. /\ b.x = acc.cursor.x /\ b.y = acc.cursor.y /\ b.w \in Nat /\ b.h \in Nat
      BY <1>5, <1>6, <1>12
    <2>2. next.cursor = IF direction = "row"
                        THEN [acc.cursor EXCEPT !.x = acc.cursor.x + b.w + 2]
                        ELSE [acc.cursor EXCEPT !.y = acc.cursor.y + b.h + 2]
      BY <1>11, <1>12 DEF Drawing!Advanced, Drawing!Gap
    <2>3. next.cursor \in Point
      BY <1>1, <2>1, <2>2 DEF Point
    <2>4. /\ direction = "row" => next.cursor.x = acc.cursor.x + b.w + 2
          /\ direction # "row" => next.cursor.y = acc.cursor.y + b.h + 2
      BY <1>1, <2>2 DEF Point
    <2>5. Passed(next.cursor, b)
      BY <1>1, <2>1, <2>4 DEF Passed
    <2>6. \A c \in Rect : Passed(acc.cursor, c) => Passed(next.cursor, c)
      BY <1>1, <2>1, <2>4 DEF Passed, Rect
    <2>7. next \in Layout
      BY <1>8, <1>9, <1>10, <2>3 DEF Layout
    <2> QED
      BY <1>4, <1>7, <1>9, <2>1, <2>5, <2>6, <2>7 DEF b, next, flows
  <1>13. CASE ~flows
    <2>1. next.cursor = acc.cursor
      BY <1>11, <1>13
    <2>2. next \in Layout
      BY <1>1, <1>8, <1>9, <1>10, <2>1 DEF Layout
    <2> QED
      BY <1>4, <1>7, <1>9, <1>13, <2>1, <2>2 DEF b, next, flows
  <1> QED
    BY <1>12, <1>13

(* A frame is around the children it names that are no frames.             *)
Wraps(laid, i) ==
    \A id \in doc[i].children : \A j \in Drawing!Named(id) :
        Drawing!Named(id) = {j} /\ ~Drawing!IsFrame(j) =>
            j \in DOMAIN laid /\ Drawing!Inside(laid[j], laid[i])

Many == Cardinality(Drawing!Boxes)
Order == Drawing!PlacingOrder

(* What is so of the first n shapes when they are placed.                  *)
LaidOut(acc, n) ==
    /\ acc \in Layout /\ DOMAIN acc.laid = {Order[k] : k \in 1 .. n}
    /\ \A i \in DOMAIN acc.laid : Flowing(i) => Passed(acc.cursor, acc.laid[i])
    /\ \A i, j \in DOMAIN acc.laid :
          i # j /\ Flowing(i) /\ Flowing(j) => Drawing!Apart(acc.laid[i], acc.laid[j])
    /\ \A i \in DOMAIN acc.laid :
          Drawing!IsFrame(i) /\ doc[i].at = None => Wraps(acc.laid, i)

LEMMA OrderIs ==
    ASSUME IsDoc
    PROVE  /\ Many \in Nat /\ Order \in [1 .. Many -> Drawing!Boxes]
           /\ \A k, n \in 1 .. Many : Order[k] = Order[n] => k = n
           /\ \A i \in Drawing!Boxes : \E k \in 1 .. Many : Order[k] = i
           /\ \A k, n \in 1 .. Many : k <= n => Drawing!NotBefore(Order[k], Order[n])
  <1>1. Order = Drawing!Ranked(Drawing!Boxes, Passes)
    BY DEF Order, Passes, Drawing!PlacingOrder
  <1>2. IsFiniteSet(Drawing!Boxes) /\ Orders(Passes, Drawing!Boxes)
    BY PassesOrder
  <1>3. /\ Many \in Nat /\ Order \in [1 .. Many -> Drawing!Boxes]
        /\ \A k, n \in 1 .. Many : Order[k] = Order[n] => k = n
        /\ \A i \in Drawing!Boxes : \E k \in 1 .. Many : Order[k] = i
        /\ \A k, n \in 1 .. Many : k <= n => <<Order[k], Order[n]>> \in Passes
    BY <1>1, <1>2, RankedIs DEF Many
  <1>4. \A k \in 1 .. Many : Order[k] \in Drawing!Boxes
    BY <1>3
  <1>5. \A i, j \in Drawing!Boxes : <<i, j>> \in Passes <=> Drawing!NotBefore(i, j)
    BY PassesOrder
  <1> QED
    BY <1>3, <1>4, <1>5

LEMMA PlacedNext ==
    ASSUME IsDoc, NEW n \in 1 .. Many, NEW acc, LaidOut(acc, n - 1)
    PROVE  LaidOut(Drawing!Place(acc, Order[n]), n)
  <1> DEFINE i == Order[n]
             D == DOMAIN acc.laid
             next == Drawing!Place(acc, i)
             b == Drawing!BoxOf(acc, i)
             laid == next.laid
  <1>1. acc \in Layout /\ D = {Order[k] : k \in 1 .. n - 1} /\ i \in Drawing!Boxes
    BY OrderIs DEF LaidOut
  <1>2. i \notin D
    <2>1. \A k \in 1 .. n - 1 : k \in 1 .. Many /\ k # n
      BY OrderIs
    <2> QED
      BY <1>1, <2>1, OrderIs
  <1>3. /\ b \in Rect /\ next \in Layout
        /\ laid = [j \in D \cup {i} |-> IF j = i THEN b ELSE acc.laid[j]]
        /\ Flowing(i) => Drawing!Flows(acc.laid, i)
        /\ Drawing!Flows(acc.laid, i) =>
              b.x = acc.cursor.x /\ b.y = acc.cursor.y /\ Passed(next.cursor, b)
        /\ \A c \in Rect : Passed(acc.cursor, c) => Passed(next.cursor, c)
    BY <1>1, PlaceIs
  <1>4. acc.laid \in Laid /\ acc.cursor.x \in Int /\ acc.cursor.y \in Int
    BY <1>1 DEF Layout, Point
  <1>5. D \in SUBSET Drawing!Boxes /\ \A j \in D : acc.laid[j] \in Rect
    BY <1>4, LaidIs
  <1> HIDE DEF next
  <1>6. /\ DOMAIN laid = D \cup {i} /\ laid[i] = b
        /\ \A j \in D : laid[j] = acc.laid[j] /\ j # i
    BY <1>2, <1>3
  <1>7. DOMAIN laid = {Order[k] : k \in 1 .. n}
    <2>1. 1 .. n = 1 .. n - 1 \cup {n}
      OBVIOUS
    <2> QED
      BY <1>1, <1>6, <2>1
  <1>8. Wraps(laid, i) \/ ~Drawing!IsFrame(i) \/ doc[i].at # None
    <2> SUFFICES ASSUME Drawing!IsFrame(i), doc[i].at = None, NEW id \in doc[i].children,
                        NEW j \in Drawing!Named(id), Drawing!Named(id) = {j}, ~Drawing!IsFrame(j)
                 PROVE  j \in D /\ Drawing!Inside(acc.laid[j], b)
      BY <1>6 DEF Wraps
    <2>1. j \in Drawing!Boxes /\ doc[j].id = id /\ id # None
      BY <1>1, DocIs DEF Drawing!Named
    <2>2. j \in D
      <3>1. PICK k \in 1 .. Many : Order[k] = j
        BY <2>1, OrderIs
      <3>2. ~Drawing!NotBefore(i, j)
        BY DEF Drawing!NotBefore, Drawing!IsFrame
      <3>3. ~(n <= k)
        BY <3>1, <3>2, OrderIs
      <3>4. k \in 1 .. n - 1
        BY <3>3, OrderIs
      <3> QED
        BY <1>1, <3>1, <3>4
    <2>3. Drawing!WithId(acc.laid, id) = {j}
      <3>1. \A m \in Drawing!WithId(acc.laid, id) : m \in Drawing!Named(id)
        BY <1>5 DEF Drawing!WithId, Drawing!Named
      <3>2. j \in Drawing!WithId(acc.laid, id)
        BY <2>1, <2>2 DEF Drawing!WithId
      <3> QED
        BY <3>1, <3>2
    <2> DEFINE B == Drawing!ChildBoxes(acc.laid, i)
    <2>4. B \in SUBSET Rect /\ IsFiniteSet(B) /\ acc.laid[j] \in B
      BY <1>1, <1>4, <2>3, ChildBoxesAre
    <2>5. b = Drawing!Around(B)
      BY <2>4 DEF Drawing!BoxOf, Drawing!Flows
    <2> HIDE DEF B, b
    <2>6. Drawing!Inside(acc.laid[j], b)
      BY <2>4, <2>5, AroundHolds
    <2> QED
      BY <2>2, <2>6
  <1> HIDE DEF i, D, b, laid
  <1>9. ASSUME NEW j \in D \cup {i}, Flowing(j) PROVE Passed(next.cursor, laid[j])
    <2>1. j \in D => Passed(acc.cursor, acc.laid[j])
      BY <1>9 DEF LaidOut, D
    <2> QED
      BY <1>3, <1>5, <1>6, <1>9, <2>1
  <1>10. ASSUME NEW j \in D, Flowing(j), Flowing(i)
         PROVE  Drawing!Apart(laid[j], laid[i]) /\ Drawing!Apart(laid[i], laid[j])
    <2>1. Passed(acc.cursor, acc.laid[j])
      BY <1>10 DEF LaidOut, D
    <2>2. b.x = acc.cursor.x /\ b.y = acc.cursor.y
      BY <1>3, <1>10
    <2> QED
      BY <1>6, <2>1, <2>2 DEF Passed, Drawing!Apart
  <1>11. ASSUME NEW j \in D, NEW k \in D, j # k, Flowing(j), Flowing(k)
         PROVE  Drawing!Apart(laid[j], laid[k])
    BY <1>6, <1>11 DEF LaidOut, D
  <1>12. ASSUME NEW j \in D, Drawing!IsFrame(j), doc[j].at = None PROVE Wraps(laid, j)
    <2>1. Wraps(acc.laid, j)
      BY <1>12 DEF LaidOut, D
    <2> QED
      BY <1>6, <2>1 DEF Wraps, D
  <1>13. \A j \in DOMAIN laid : Flowing(j) => Passed(next.cursor, laid[j])
    BY <1>6, <1>9
  <1>14. \A j, k \in DOMAIN laid :
            j # k /\ Flowing(j) /\ Flowing(k) => Drawing!Apart(laid[j], laid[k])
    BY <1>6, <1>10, <1>11
  <1>15. \A j \in DOMAIN laid : Drawing!IsFrame(j) /\ doc[j].at = None => Wraps(laid, j)
    BY <1>6, <1>8, <1>12
  <1>16. LaidOut(next, n)
    BY <1>3, <1>7, <1>13, <1>14, <1>15 DEF LaidOut, laid
  <1> QED
    BY <1>16 DEF next, i

-----------------------------------------------------------------------------
(* Sketches: what is drawn                                                 *)

Placed == Drawing!Placed

LEMMA PlacedIs ==
    ASSUME IsDoc
    PROVE  /\ Placed[0] = Drawing!Start
           /\ \A n \in 1 .. Many : Placed[n] = Drawing!Place(Placed[n - 1], Order[n])
  <1> DEFINE g == [acc \in Layout |-> [n \in Nat |->
                      IF n \in 1 .. Many THEN Drawing!Place(acc, Order[n]) ELSE acc]]
             Is(p) == p = [n \in 0 .. Many |->
                              IF n = 0 THEN Drawing!Start
                              ELSE Drawing!Place(p[n - 1], Order[n])]
  <1>1. Drawing!Start \in Layout
    <2>1. <<>> \in [{} -> Rect]
      OBVIOUS
    <2>2. <<>> \in Laid
      BY <2>1 DEF Laid
    <2> QED
      BY <2>2 DEF Drawing!Start, Drawing!Origin, Layout, Point
  <1>2. \A acc \in Layout : \A n \in 1 .. Many : Drawing!Place(acc, Order[n]) \in Layout
    BY OrderIs, PlaceIs
  <1>3. g \in [Layout -> [Nat -> Layout]]
    BY <1>2
  <1>4. PICK p \in [0 .. Many -> Layout] :
           p[0] = Drawing!Start /\ \A k \in 1 .. Many : p[k] = g[p[k - 1]][k]
    <2>1. 0 \in Nat /\ Many \in Nat /\ 0 <= Many
      BY OrderIs
    <2> HIDE DEF g
    <2>2. \E p : Follows(p, Layout, 0, Many, Drawing!Start, g)
      BY <1>1, <1>3, <2>1, Recursion
    <2>3. PICK p : Follows(p, Layout, 0, Many, Drawing!Start, g)
      BY <2>2
    <2>4. 0 + 1 = 1
      OBVIOUS
    <2>5. /\ p \in [0 .. Many -> Layout] /\ p[0] = Drawing!Start
          /\ \A k \in 1 .. Many : p[k] = g[p[k - 1]][k]
      BY <2>3, <2>4 DEF Follows
    <2> QED
      BY <2>5
  <1>5. \A k \in 1 .. Many : p[k] = Drawing!Place(p[k - 1], Order[k])
    <2> SUFFICES ASSUME NEW k \in 1 .. Many
                 PROVE  p[k] = Drawing!Place(p[k - 1], Order[k])
      OBVIOUS
    <2>1. k \in Nat /\ p[k - 1] \in Layout
      BY <1>4, OrderIs
    <2>2. g[p[k - 1]][k] = Drawing!Place(p[k - 1], Order[k])
      BY <2>1
    <2> HIDE DEF g
    <2> QED
      BY <1>4, <2>2
  <1>6. Is(p)
    BY <1>4, <1>5
  <1>7. Is(Placed)
    <2>1. Placed = CHOOSE upTo : Is(upTo)
      BY DEF Placed, Drawing!Placed, Many, Order, Drawing!Cardinality, Cardinality
    <2> HIDE DEF Is
    <2> QED
      BY <1>6, <2>1
  <1>8. \E q : Is(q) /\ q = Placed
    BY <1>7
  <1>9. Placed = [n \in 0 .. Many |-> IF n = 0 THEN Drawing!Start
                                      ELSE Drawing!Place(Placed[n - 1], Order[n])]
    BY <1>8
  <1> QED
    BY <1>9, OrderIs

(* So all of them are laid out.                                            *)
LEMMA AllAreLaidOut ==
    ASSUME IsDoc
    PROVE  LaidOut(Placed[Many], Many)
  <1> DEFINE S == {n \in 0 .. Many : ~LaidOut(Placed[n], n)}
  <1>1. LaidOut(Placed[0], 0)
    <2>1. <<>> \in [{} -> Rect] /\ DOMAIN <<>> = {}
      OBVIOUS
    <2>2. <<>> \in Laid
      BY <2>1 DEF Laid
    <2>3. /\ Placed[0].laid = <<>> /\ Placed[0] \in Layout
      BY <2>2, PlacedIs DEF Drawing!Start, Drawing!Origin, Layout, Point
    <2> QED
      BY <2>1, <2>3 DEF LaidOut
  <1>2. \A n \in S : n \in 1 .. Many
    BY <1>1, OrderIs
  <1> SUFFICES ASSUME S # {} PROVE FALSE
    BY OrderIs
  <1>3. PICK n \in S : \A m \in S : n <= m
    <2>1. S \in SUBSET Nat
      BY OrderIs
    <2> HIDE DEF S
    <2> QED
      BY <2>1, LeastNumber
  <1>4. n \in 1 .. Many /\ n - 1 \in 0 .. Many /\ n - 1 \notin S
    BY <1>2, <1>3, OrderIs
  <1>5. LaidOut(Placed[n - 1], n - 1)
    BY <1>4
  <1>6. LaidOut(Placed[n], n)
    BY <1>4, <1>5, PlacedIs, PlacedNext
  <1> QED
    BY <1>3, <1>6

(* The kinds of shapes are drawn, bound, free or reported, each once.      *)
ReachedIn(p, i) == Cardinality({n \in DOMAIN p.drawn : p.drawn[n] = i})
                   + Cardinality({kind \in {"bound", "free", "dangling"} : i \in p[kind]})

LEMMA ReachedOnce ==
    ASSUME IsDoc, NEW p, p = Drawing!Plan, NEW i \in DOMAIN doc
    PROVE  ReachedIn(p, i) = 1 \/ (Drawing!HalfBound(i) /\ ReachedIn(p, i) = 0)
  <1> DEFINE B == Drawing!Boxes
             drawn == Drawing!Ranked(B, DrawnIn)
             Kinds == {kind \in {"bound", "free", "dangling"} : i \in p[kind]}
             Times == {n \in DOMAIN p.drawn : p.drawn[n] = i}
  <1>1. p.drawn = drawn
    BY DEF Drawing!Plan, DrawnIn
  <1>2. /\ Many \in Nat /\ drawn \in [1 .. Many -> B]
        /\ \A k, n \in 1 .. Many : drawn[k] = drawn[n] => k = n
        /\ \A j \in B : \E k \in 1 .. Many : drawn[k] = j
    BY DocIs, DrawnInOrder, RankedIs DEF Many
  <1> HIDE DEF drawn
  <1>3. ASSUME i \in B PROVE Cardinality(Times) = 1
    <2>1. PICK k \in 1 .. Many : drawn[k] = i
      BY <1>2, <1>3
    <2>2. Times = {k}
      BY <1>1, <1>2, <2>1
    <2> HIDE DEF Times
    <2> QED
      BY <2>2, FS_Singleton
  <1>4. ASSUME i \notin B PROVE Cardinality(Times) = 0
    <2>1. Times = {}
      BY <1>1, <1>2, <1>4
    <2> HIDE DEF Times
    <2> QED
      BY <2>1, FS_EmptySet
  <1>5. /\ p.bound = {j \in Drawing!RefArrows :
                            Drawing!Resolved(j) /\ None \notin {doc[j].from, doc[j].to}}
        /\ p.dangling = {j \in Drawing!RefArrows : ~Drawing!Resolved(j)}
        /\ p.free = DOMAIN doc \ (Drawing!RefArrows \cup B)
    BY DEF Drawing!Plan
  <1>6. \A j \in Drawing!RefArrows : j \notin B /\ doc[j].type = "arrow"
    BY DEF Drawing!RefArrows, Drawing!Boxes, Drawing!BoxTypes
  <1>7. ReachedIn(p, i) = Cardinality(Times) + Cardinality(Kinds)
    BY DEF ReachedIn
  <1>8. CASE i \in B
    <2>1. Kinds = {}
      BY <1>5, <1>6, <1>8
    <2>2. Cardinality(Kinds) = 0
      <3> HIDE DEF Kinds
      <3> QED
        BY <2>1, FS_EmptySet
    <2>3. Cardinality(Times) = 1
      BY <1>3, <1>8
    <2> HIDE DEF Times, Kinds
    <2> QED
      BY <1>7, <2>2, <2>3
  <1>9. CASE i \notin B /\ ~(i \in Drawing!RefArrows /\ Drawing!Resolved(i)
                             /\ None \in {doc[i].from, doc[i].to})
    <2>1. \E kind : Kinds = {kind}
      <3>1. CASE i \notin Drawing!RefArrows
        <4>1. Kinds = {"free"}
          BY <1>5, <1>9, <3>1
        <4> QED
          BY <4>1
      <3>2. CASE i \in Drawing!RefArrows /\ ~Drawing!Resolved(i)
        <4>1. Kinds = {"dangling"}
          BY <1>5, <1>9, <3>2
        <4> QED
          BY <4>1
      <3>3. CASE i \in Drawing!RefArrows /\ Drawing!Resolved(i)
        <4>1. Kinds = {"bound"}
          BY <1>5, <1>9, <3>3
        <4> QED
          BY <4>1
      <3> QED
        BY <3>1, <3>2, <3>3
    <2>2. Cardinality(Kinds) = 1
      <3> HIDE DEF Kinds
      <3> QED
        BY <2>1, FS_Singleton
    <2>3. Cardinality(Times) = 0
      BY <1>4, <1>9
    <2> HIDE DEF Times, Kinds
    <2> QED
      BY <1>7, <2>2, <2>3
  <1>10. CASE i \in Drawing!RefArrows /\ Drawing!Resolved(i) /\ None \in {doc[i].from, doc[i].to}
    <2>1. Kinds = {}
      BY <1>5, <1>10
    <2>2. Cardinality(Kinds) = 0
      <3> HIDE DEF Kinds
      <3> QED
        BY <2>1, FS_EmptySet
    <2>3. Cardinality(Times) = 0
      BY <1>4, <1>6, <1>10
    <2>4. \E e : {doc[i].from, doc[i].to} \ {None} = {e}
      <3>1. {doc[i].from, doc[i].to} \ {None} # {}
        BY <1>10 DEF Drawing!RefArrows, Drawing!Refs
      <3> QED
        BY <1>10, <3>1
    <2>5. Cardinality({doc[i].from, doc[i].to} \ {None}) = 1
      BY <2>4, FS_Singleton
    <2>6. Drawing!HalfBound(i)
      BY <1>6, <1>10, <2>5 DEF Drawing!HalfBound, Drawing!Cardinality, Cardinality
    <2> HIDE DEF Times, Kinds
    <2> QED
      BY <1>7, <2>2, <2>3, <2>6
  <1> QED
    BY <1>8, <1>9, <1>10

-----------------------------------------------------------------------------
(* Sketches: the invariant, what was computed from what                    *)

LaidAsDeclared ==
    /\ DOMAIN box = Drawing!Boxes /\ Drawing!FramesHoldTheirChildren
    /\ \A i, j \in DOMAIN box :
          i # j /\ doc[i].at = None /\ doc[j].at = None
          /\ ~Drawing!IsFrame(i) /\ ~Drawing!IsFrame(j) => Drawing!Apart(box[i], box[j])

SketchInv ==
    /\ IsDoc
    /\ stage = "raw" => raw \in Seq(Shape)
    /\ stage \in {"laid", "planned"} => LaidAsDeclared
    /\ stage = "planned" => Drawing!EachShapeOnce

LEMMA ValidateStep == ASSUME SketchInv, Drawing!ValidateSketchDoc PROVE SketchInv'
  <1> DEFINE shapes == [i \in DOMAIN raw |-> Drawing!Clean(raw[i])]
             V == {i \in DOMAIN raw : Drawing!Valid(shapes[i])}
             R == {p \in V \X V : p[1] <= p[2]}
             C == Cardinality(V)
  <1>1. /\ Len(raw) \in Nat /\ DOMAIN raw = 1 .. Len(raw) /\ \A i \in DOMAIN raw : raw[i] \in Shape
        /\ stage' = (IF doc' = <<>> THEN "failed" ELSE "valid")
    BY DEF SketchInv, Drawing!ValidateSketchDoc
  <1>2. doc' = [k \in 1 .. C |-> shapes[Drawing!Nth(V, k)]]
    BY DEF Drawing!ValidateSketchDoc, Drawing!Picked, Drawing!Cardinality, Cardinality
  <1>3. IsFiniteSet(V)
    <2>1. IsFiniteSet(1 .. Len(raw))
      BY <1>1, FS_Interval
    <2> QED
      BY <1>1, <2>1, FS_Subset
  <1>4. \A i \in V : shapes[i] \in Good
    BY <1>1 DEF Good
  <1>5. \A i \in V : i \in Nat
    BY <1>1
  <1>6. \A i, j \in V : <<i, j>> \in R <=> i <= j
    OBVIOUS
  <1> HIDE DEF V, R, shapes
  <1>7. Orders(R, V)
    BY <1>5, <1>6 DEF Orders
  <1>8. /\ C \in Nat /\ \A k \in 1 .. C : Drawing!Nth(V, k) \in V
    <2> DEFINE t == Drawing!Ranked(V, R)
    <2>1. C \in Nat /\ t \in [1 .. C -> V]
      BY <1>3, <1>7, RankedIs
    <2>2. t = [k \in 1 .. C |-> CHOOSE n \in V : Cardinality({m \in V : <<m, n>> \in R}) = k]
      BY DEF Drawing!Ranked, Drawing!Cardinality, Cardinality
    <2>3. \A n \in V : {m \in V : <<m, n>> \in R} = {m \in V : m <= n}
      BY <1>6
    <2>4. \A k \in 1 .. C : t[k] = Drawing!Nth(V, k)
      <3> SUFFICES ASSUME NEW k \in 1 .. C PROVE t[k] = Drawing!Nth(V, k)
        OBVIOUS
      <3>1. \A n \in V : Cardinality({m \in V : <<m, n>> \in R}) = k
                         <=> Cardinality({m \in V : m <= n}) = k
        BY <2>3
      <3>2. (CHOOSE n \in V : Cardinality({m \in V : <<m, n>> \in R}) = k)
            = (CHOOSE n \in V : Cardinality({m \in V : m <= n}) = k)
        BY <3>1
      <3> QED
        BY <2>2, <3>2 DEF Drawing!Nth, Drawing!Cardinality, Cardinality
    <2> HIDE DEF t
    <2> QED
      BY <2>1, <2>4
  <1>9. doc' \in [1 .. C -> Good]
    BY <1>2, <1>4, <1>8
  <1>10. IsDoc'
    BY <1>8, <1>9 DEF IsDoc
  <1> QED
    BY <1>1, <1>10 DEF SketchInv

LEMMA SketchStep == ASSUME SketchInv, Drawing!Next PROVE SketchInv'
  <1>1. CASE Drawing!ValidateSketchDoc
    BY <1>1, ValidateStep
  <1>2. CASE Drawing!LayoutSketch
    <2> DEFINE laid == Placed[Many].laid
    <2>1. stage' = "laid" /\ UNCHANGED <<raw, direction, doc>> /\ box' = laid
      BY <1>2 DEF Drawing!LayoutSketch, Placed, Many, Drawing!Cardinality, Cardinality
    <2>2. IsDoc /\ IsDoc'
      BY <2>1 DEF SketchInv, IsDoc
    <2>3. LaidOut(Placed[Many], Many)
      BY <2>2, AllAreLaidOut
    <2>4. DOMAIN laid = Drawing!Boxes
      BY <2>2, <2>3, OrderIs DEF LaidOut
    <2>5. ASSUME NEW i \in DOMAIN doc, Drawing!IsFrame(i), doc[i].at = None,
                 NEW id \in doc[i].children, NEW j \in Drawing!Named(id),
                 Drawing!Named(id) = {j} /\ ~Drawing!IsFrame(j)
          PROVE  Drawing!Inside(laid[j], laid[i])
      <3>1. i \in DOMAIN laid
        BY <2>4, <2>5 DEF Drawing!IsFrame, Drawing!Boxes, Drawing!BoxTypes
      <3>2. Wraps(laid, i)
        BY <2>3, <2>5, <3>1 DEF LaidOut
      <3> QED
        BY <2>5, <3>2 DEF Wraps
    <2>6. \A i, j \in DOMAIN laid :
             i # j /\ doc[i].at = None /\ doc[j].at = None
             /\ ~Drawing!IsFrame(i) /\ ~Drawing!IsFrame(j) => Drawing!Apart(laid[i], laid[j])
      BY <2>3 DEF LaidOut, Flowing
    <2> HIDE DEF laid
    <2>7. Drawing!FramesHoldTheirChildren'
      BY <2>1, <2>5 DEF Drawing!FramesHoldTheirChildren, Drawing!IsFrame, Drawing!Named,
         Drawing!Boxes, Drawing!Inside
    <2>8. LaidAsDeclared'
      BY <2>1, <2>4, <2>6, <2>7 DEF LaidAsDeclared, Drawing!IsFrame, Drawing!Boxes, Drawing!Apart
    <2> QED
      BY <2>1, <2>2, <2>8 DEF SketchInv
  <1>3. CASE Drawing!PlanSketchTranslation
    <2>1. stage = "laid" /\ stage' = "planned" /\ UNCHANGED <<raw, direction, doc, box>>
          /\ plan' = Drawing!Plan
      BY <1>3 DEF Drawing!PlanSketchTranslation
    <2>2. IsDoc /\ IsDoc'
      BY <2>1 DEF SketchInv, IsDoc
    <2>3. \A i \in DOMAIN doc :
             ReachedIn(plan', i) = 1 \/ (Drawing!HalfBound(i) /\ ReachedIn(plan', i) = 0)
      BY <2>1, <2>2, ReachedOnce
    <2>4. Drawing!EachShapeOnce'
      BY <2>1, <2>3 DEF Drawing!EachShapeOnce, Drawing!Reached, ReachedIn, Drawing!HalfBound,
         Drawing!Cardinality, Cardinality
    <2>5. LaidAsDeclared'
      BY <2>1 DEF SketchInv, LaidAsDeclared, Drawing!FramesHoldTheirChildren, Drawing!IsFrame,
         Drawing!Named, Drawing!Boxes, Drawing!Inside, Drawing!Apart
    <2> QED
      BY <2>1, <2>2, <2>4, <2>5 DEF SketchInv
  <1> QED
    BY <1>1, <1>2, <1>3 DEF Drawing!Next


(* A step of another component leaves a sketch as it is.                   *)
LEMMA SketchStays ==
    ASSUME SketchInv, UNCHANGED <<raw, direction, stage, doc, box, plan>> PROVE SketchInv'
  <1>1. IsDoc'
    BY DEF SketchInv, IsDoc
  <1>2. LaidAsDeclared => LaidAsDeclared'
    BY DEF LaidAsDeclared, Drawing!FramesHoldTheirChildren, Drawing!IsFrame, Drawing!Named,
       Drawing!Boxes, Drawing!Inside, Drawing!Apart
  <1>3. ASSUME Drawing!EachShapeOnce PROVE Drawing!EachShapeOnce'
    <2>1. \A i \in DOMAIN doc :
             ReachedIn(plan, i) = 1 \/ (Drawing!HalfBound(i) /\ ReachedIn(plan, i) = 0)
      BY <1>3 DEF Drawing!EachShapeOnce, Drawing!Reached, ReachedIn, Drawing!Cardinality,
         Cardinality
    <2>2. \A i \in DOMAIN doc :
             ReachedIn(plan', i) = 1 \/ (Drawing!HalfBound(i) /\ ReachedIn(plan', i) = 0)
      BY <2>1
    <2>3. \A i : Drawing!Reached(i)' = ReachedIn(plan', i)
      BY DEF Drawing!Reached, ReachedIn, Drawing!Cardinality, Cardinality
    <2>4. \A i : Drawing!HalfBound(i)' <=> Drawing!HalfBound(i)
      BY DEF Drawing!HalfBound
    <2> QED
      BY <2>2, <2>3, <2>4 DEF Drawing!EachShapeOnce
  <1> QED
    BY <1>1, <1>2, <1>3 DEF SketchInv

(* A sketch is drawn as declared, whatever its shapes, their order and     *)
(* their number: every shape once, frames around their children, and what  *)
(* flows next to what flows (sketch-dsl.ts:120-149,                        *)
(* sketch-layout.ts:89-168, sketch-translate.ts:74-153).                   *)
THEOREM SketchesAreDrawn == Spec => []DrawnAsDeclared
  <1> DEFINE Inv == part = "sketch" => SketchInv
  <1>1. Init => Inv
    <2> SUFFICES ASSUME Drawing!Init PROVE SketchInv
      BY DEF Init
    <2>1. PICK n \in 0 .. MaxShapes : raw \in [1 .. n -> Shape]
      BY DEF Drawing!Init
    <2>2. n \in Nat
      BY <2>1, ClientsAssumption DEF Drawing!SketchAssumption
    <2>3. raw \in Seq(Shape)
      BY <2>1, <2>2
    <2>4. stage = "raw" /\ doc = <<>>
      BY DEF Drawing!Init
    <2> QED
      BY <2>3, <2>4 DEF SketchInv, IsDoc
  <1>2. Inv /\ [Next]_vars => Inv'
    <2> SUFFICES ASSUME Inv, [Next]_vars, part' = "sketch" PROVE SketchInv'
      OBVIOUS
    <2>1. part = "sketch"
      BY DEF vars, serverVars, Next, ServerNext
    <2>2. CASE Drawing!Next
      BY <2>1, <2>2, SketchStep
    <2>3. CASE UNCHANGED sketchVars
      <3>1. UNCHANGED <<raw, direction, stage, doc, box, plan>>
        BY <2>3 DEF sketchVars
      <3> QED
        BY <2>1, <3>1, SketchStays
    <2> QED
      BY <2>1, <2>2, <2>3 DEF Next, vars
  <1>3. Inv => DrawnAsDeclared
    BY DEF DrawnAsDeclared, SketchInv, LaidAsDeclared, Drawing!DrawnAsDeclared
  <1> QED
    BY <1>1, <1>2, <1>3, PTL DEF Spec

-----------------------------------------------------------------------------
(* The whole                                                               *)

(* A behaviour of Clients is one of Server and one of Browser: what is     *)
(* proved of these holds of the module that TLC checks.                    *)
THEOREM ClientsAreBoth == Spec => ServerSpec /\ BrowserSpec
  <1>1. Init => ServerInit /\ BrowserInit
    BY DEF Init
  <1>2. [Next]_vars => [ServerNext]_serverVars
    BY DEF Next, vars
  <1>3. [Next]_vars => [BrowserNext]_browserVars
    BY DEF Next, vars
  <1> QED
    BY <1>1, <1>2, <1>3, PTL DEF Spec, ServerSpec, BrowserSpec
=============================================================================

------------------------------ MODULE Composer ------------------------------
(***************************************************************************)
(* Sending from the dashboard: the composer of src/src/dashboard/chat.ts   *)
(* (36-79, 740-1025, 1260-1582), the rows it shows before the server has   *)
(* them, and the messages that replace these rows (connection.ts:303-334). *)
(*                                                                         *)
(* A text is a sequence of tokens: @agent, #topic or words, of which the   *)
(* server may store others than were sent.  handleSend is cut at its       *)
(* awaits: the start of dead targets, then one POST for each pair of agent *)
(* and topic.  The mention picker only edits the text.                     *)
(***************************************************************************)
EXTENDS Integers, Sequences, FiniteSets, FiniteSetsExt, SequencesExt, Places

CONSTANTS Agent, File, None,
          Subscribed,  \* agents that the dashboard has selected
          Texts,       \* Texts[n]: tokens typed before the words of send n
          Window,      \* rows looked through for the one that waits: 10
          MaxSend, MaxAct, \* bounds on sends, and on what the user does
          MaxFault

ComposerAssumption ==
    /\ MaxSend \in Nat \ {0} /\ \A n \in 1 .. MaxSend : Texts[n] \in Seq(ToSet(Texts[n]))
    /\ Window \in Nat /\ MaxAct \in Nat /\ MaxFault \in Nat

VARIABLES alive,     \* agents that run; the others are spawned by a send
          input,     \* value of the textarea
          staged,    \* stagedFiles
          uploads,   \* files on their way to the server
          sends,     \* calls of handleSend, in the order they were made
          threads,   \* state.threads
          log,       \* dashboard_messages that came from this composer
          down,      \* messages on the socket
          connected,
          missed,    \* history: agents with a message that was not sent down
          crossed,   \* history: agents with a message that replaced the row of another
          buried,    \* history: agents with a message whose row was past the window
          acts, faults

history == <<missed, crossed, buried>>
vars == <<alive, input, staged, uploads, sends, threads, log, down, connected,
          history, acts, faults>>

socket == <<down, connected>>

-----------------------------------------------------------------------------
(* parseComposer, buildPrefix, neutralizeLeadingTopics                     *)

At(a) == [kind |-> "@", of |-> a]
Hash(t) == [kind |-> "#", of |-> t]
Words(n) == [kind |-> "w", of |-> n]
Unclean(n) == [kind |-> "u", of |-> n]      \* what the server makes words n of
General == <<"general">>

(* An @ counts when it is an agent, a # after the first such @.            *)
Target(t, n) == t[n].kind = "@" /\ t[n].of \in Agent
Leads(t, n) == \/ Target(t, n)
               \/ t[n].kind = "#" /\ \E m \in 1 .. n - 1 : Target(t, m)
LeadLength(t) == CHOOSE k \in 0 .. Len(t) :
                    /\ \A n \in 1 .. k : Leads(t, n)
                    /\ k = Len(t) \/ ~Leads(t, k + 1)

(* The names with one mark, where each comes first.                        *)
Firsts(t, mark) ==
    {n \in 1 .. LeadLength(t) :
        /\ t[n].kind = mark
        /\ \A m \in 1 .. n - 1 : t[m].kind = mark => t[m].of # t[n].of}
Names(t, mark) == Picked([n \in DOMAIN t |-> t[n].of], Firsts(t, mark))

ParseComposer(t) ==
    [agents |-> Names(t, "@"),
     topics |-> IF Firsts(t, "#") = {} THEN General ELSE Names(t, "#"),
     message |-> SubSeq(t, LeadLength(t) + 1, Len(t))]

BuildPrefix(agents, topics) ==
    [n \in DOMAIN agents |-> At(agents[n])]
    \o Picked([n \in DOMAIN topics |-> Hash(topics[n])],
              {n \in DOMAIN topics : topics[n] # "general"})

(* Here a # counts wherever it stands in the lead.                         *)
NeutralizeLeadingTopics(t) ==
    LET leads(n) == Target(t, n) \/ t[n].kind = "#"
    IN [n \in DOMAIN t |-> IF t[n].kind = "#" /\ \A m \in 1 .. n : leads(m)
                           THEN Words(t[n].of) ELSE t[n]]

-----------------------------------------------------------------------------
(* sanitizeMessage: escape codes and control characters are taken out, and *)
(* what is past 16 KB.                                                     *)
SanitizeMessage(t) == [n \in DOMAIN t |-> IF t[n].kind = "u" THEN Words(t[n].of) ELSE t[n]]

Pairs(parsed) == ToSet(parsed.agents) \X ToSet(parsed.topics)
(* A row has the id of its message, or 0 before the server has it.         *)
Row(id, s, p) == [id |-> id, send |-> s, topic |-> p[2]]
Optimistic(s, p) == Row(0, s, p)

Init == /\ alive \in SUBSET Agent
        /\ input = <<>>
        /\ staged = <<>> /\ uploads = {}
        /\ sends = <<>> /\ threads = [a \in Agent |-> <<>>] /\ log = <<>>
        /\ down = <<>> /\ connected = TRUE
        /\ missed = {} /\ crossed = {} /\ buried = {} /\ acts = 0 /\ faults = 0

TypeOK == /\ alive \subseteq Agent
          /\ ToSet(staged) \subseteq File /\ uploads \subseteq File
          /\ Len(sends) <= MaxSend
          /\ \A a \in Agent : \A n \in DOMAIN threads[a] : threads[a][n].id \in 0 .. Len(log)
          /\ connected \in BOOLEAN /\ missed \cup crossed \cup buried \subseteq Agent
          /\ acts \in 0 .. MaxAct /\ faults \in 0 .. MaxFault

Fault == faults < MaxFault /\ faults' = faults + 1 /\ UNCHANGED acts
Act == acts < MaxAct /\ acts' = acts + 1 /\ UNCHANGED faults

-----------------------------------------------------------------------------
(* Typing and files                                                        *)

(* The user types.                                                         *)
Type(t) == /\ Act
           /\ input' = t /\ input' # input
           /\ UNCHANGED <<alive, staged, uploads, sends, threads, log, socket, history>>

(* Escape Topics: what it left is not a topic any more.                    *)
EscapeTopics == /\ Act
                /\ Len(ParseComposer(input).topics) > 1
                /\ input' = NeutralizeLeadingTopics(input)
                /\ UNCHANGED <<alive, staged, uploads, sends, threads, log, socket,
                               history>>

HandleFileUpload(f) ==
    /\ Act
    /\ ParseComposer(input).agents # <<>>
    /\ f \notin uploads \cup ToSet(staged)
    /\ \A s \in DOMAIN sends : f \notin sends[s].files
    /\ uploads' = uploads \cup {f}
    /\ UNCHANGED <<alive, input, staged, sends, threads, log, socket, history>>

UploadEnds(f) ==
    /\ f \in uploads /\ uploads' = uploads \ {f}
    /\ \/ staged' = Append(staged, f) /\ UNCHANGED <<acts, faults>>
       \/ Fault /\ UNCHANGED staged
    /\ UNCHANGED <<alive, input, sends, threads, log, socket, history>>

RemoveStagedFile(f) ==
    /\ Act /\ f \in ToSet(staged)
    /\ staged' = RemoveFirst(staged, f)
    /\ UNCHANGED <<alive, input, uploads, sends, threads, log, socket, history>>

-----------------------------------------------------------------------------
(* handleSend                                                              *)

Dead(parsed) == ToSet(parsed.agents) \ alive

(* Rows for every pair, then the prefix replaces what is in the textarea,  *)
(* whatever was typed there meanwhile.                                     *)
Fanout(s, call) ==
    /\ sends' = [call EXCEPT ![s].at = "posting", ![s].open = Pairs(call[s].parsed)]
    /\ threads' = [a \in Agent |->
          IF a \notin ToSet(call[s].parsed.agents) THEN threads[a]
          ELSE threads[a] \o [n \in DOMAIN call[s].parsed.topics |->
                                Optimistic(s, <<a, call[s].parsed.topics[n]>>)]]
    /\ input' = BuildPrefix(call[s].parsed.agents, call[s].parsed.topics)

Call(parsed) == [parsed |-> parsed, files |-> ToSet(staged), at |-> "spawning",
                 open |-> {}, spawns |-> Dead(parsed), refused |-> {}]

StagedAtSend(files) == <<>>
KeepsStaged(files) == files                                             \* mutant
Cleared(files) == StagedAtSend(files)

HandleSend ==
    LET parsed == ParseComposer(input) IN
    /\ Act /\ Len(sends) < MaxSend
    /\ parsed.agents # <<>> /\ (parsed.message # <<>> \/ staged # <<>>)
    /\ staged' = Cleared(staged)
    /\ LET call == Append(sends, Call(parsed))
       IN IF Dead(parsed) = {} THEN Fanout(Len(call), call)
          ELSE sends' = call /\ UNCHANGED <<threads, input>>
    /\ UNCHANGED <<alive, uploads, log, socket, history>>

(* Whether or not an agent could be started, the messages are sent.        *)
Spawned(s, a) ==
    /\ sends[s].at = "spawning" /\ a \in sends[s].spawns
    /\ \/ alive' = alive \cup {a} /\ UNCHANGED <<acts, faults>>
       \/ Fault /\ UNCHANGED alive
    /\ LET call == [sends EXCEPT ![s].spawns = @ \ {a}]
       IN IF call[s].spawns = {} THEN Fanout(s, call)
          ELSE sends' = call /\ UNCHANGED <<threads, input>>
    /\ UNCHANGED <<staged, uploads, log, socket, history>>

Message(s) == sends[s].parsed.message
Stored(s) == SanitizeMessage(Message(s))
Altered(s) == Stored(s) # Message(s)

(* The server stores a message as it is sanitized, and sends it down so to *)
(* a client that is subscribed.                                            *)
Reaches(a) == connected /\ a \in Subscribed
Accept(s, p) ==
    /\ sends[s].at = "posting" /\ p \in sends[s].open
    /\ \A n \in DOMAIN log : <<log[n].send, log[n].to>> # <<s, p>>
    /\ log' = Append(log, [send |-> s, to |-> p, files |-> sends[s].files])
    /\ down' = IF Reaches(p[1]) THEN Append(down, Len(log')) ELSE down
    /\ missed' = IF Reaches(p[1]) THEN missed ELSE missed \cup {p[1]}
    /\ UNCHANGED <<alive, input, staged, uploads, sends, threads, connected, crossed,
                   buried, acts, faults>>

(* Without an answer, and when it is refused, the row is taken out.        *)
RemoveOptimistic(list, s, p) == RemoveFirst(list, Optimistic(s, p))
RemovesNothing(list, s, p) == list                                      \* mutant
TakeOut(list, s, p) == RemoveOptimistic(list, s, p)

Answered(s, p) ==
    /\ sends[s].at = "posting" /\ p \in sends[s].open
    /\ \/ /\ \E n \in DOMAIN log : <<log[n].send, log[n].to>> = <<s, p>>
          /\ sends' = [sends EXCEPT ![s].open = @ \ {p}]
          /\ UNCHANGED <<threads, acts, faults>>
       \/ /\ Fault
          /\ sends' = [sends EXCEPT ![s].open = @ \ {p}, ![s].refused = @ \cup {p}]
          /\ threads' = [threads EXCEPT ![p[1]] = TakeOut(@, s, p)]
    /\ UNCHANGED <<alive, input, staged, uploads, log, socket, history>>

-----------------------------------------------------------------------------
(* The socket                                                              *)

(* A row that waits and has the text of the message: not its topic.  The   *)
(* row has the text as it was sent, the message has it as it was stored.   *)
Matches(row, m) == row.id = 0 /\ Message(row.send) = Stored(log[m].send)
Candidates(a, m) == {n \in DOMAIN threads[a] : n > Len(threads[a]) - Window /\ Matches(threads[a][n], m)}

OnMessage ==
    /\ down # <<>>
    /\ down' = Tail(down)
    /\ LET m == Head(down)
           a == log[m].to[1]
           row == Row(m, log[m].send, log[m].to)
           c == Candidates(a, m)
       IN IF \E n \in DOMAIN threads[a] : threads[a][n].id = m
          THEN UNCHANGED <<threads, crossed, buried>>
          ELSE /\ threads' = [threads EXCEPT ![a] = IF c = {} THEN Append(@, row)
                                                    ELSE [@ EXCEPT ![Max(c)] = row]]
               /\ crossed' = IF c # {} /\ threads[a][Max(c)] # Optimistic(log[m].send, log[m].to)
                             THEN crossed \cup {a} ELSE crossed
               /\ buried' = IF c = {} /\ \E n \in DOMAIN threads[a] : Matches(threads[a][n], m)
                            THEN buried \cup {a} ELSE buried
    /\ UNCHANGED <<alive, input, staged, uploads, sends, log, connected, missed,
                   acts, faults>>

Disconnect ==
    /\ connected /\ Fault
    /\ connected' = FALSE /\ down' = <<>>
    /\ missed' = missed \cup {log[down[n]].to[1] : n \in DOMAIN down}
    /\ UNCHANGED <<alive, input, staged, uploads, sends, threads, log, crossed, buried>>

(* A delta init adds the messages that are not held and leaves the rows.   *)
Missed(a) == {m \in DOMAIN log : /\ log[m].to[1] = a
                                 /\ \A n \in DOMAIN threads[a] : threads[a][n].id # m}
Connect ==
    /\ ~connected /\ connected' = TRUE
    /\ threads' = [a \in Agent |-> threads[a] \o
          Picked([m \in DOMAIN log |-> Row(m, log[m].send, log[m].to)], Missed(a))]
    /\ UNCHANGED <<alive, input, staged, uploads, sends, log, down, history, acts,
                   faults>>

(* The words of a send are the number of the send, or the server makes     *)
(* them those of the first.                                                *)
Inputs(n) == {Append(Texts[Min({n, MaxSend})], w) : w \in {Words(n), Unclean(1)}}

Next == \/ \E t \in Inputs(Len(sends) + 1) : Type(t)
        \/ EscapeTopics \/ HandleSend \/ OnMessage \/ Disconnect \/ Connect
        \/ \E f \in File : HandleFileUpload(f) \/ UploadEnds(f) \/ RemoveStagedFile(f)
        \/ \E s \in DOMAIN sends :
              \/ \E a \in Agent : Spawned(s, a)
              \/ \E p \in Pairs(sends[s].parsed) : Accept(s, p) \/ Answered(s, p)

Spec == Init /\ [][Next]_vars

-----------------------------------------------------------------------------
(* Properties                                                              *)

(* A file goes out with one send only, to each of its targets, and is not  *)
(* staged any more; a send writes at most one message to each target that  *)
(* was typed, and without a refusal to every one (chat.ts:1307-1430).      *)
SentAsComposed ==
    /\ \A s \in DOMAIN sends : /\ sends[s].files \cap ToSet(staged) = {}
                               /\ \A r \in 1 .. s - 1 : sends[s].files \cap sends[r].files = {}
    /\ \A m, n \in DOMAIN log : log[m].send = log[n].send /\ log[m].to = log[n].to => m = n
    /\ \A s \in DOMAIN sends : sends[s].at = "posting" =>
          \A p \in Pairs(sends[s].parsed) \ (sends[s].open \cup sends[s].refused) :
             \E n \in DOMAIN log : log[n].send = s /\ log[n].to = p

Settled == down = <<>> /\ \A s \in DOMAIN sends : sends[s].at = "posting" /\ sends[s].open = {}

(* When all answers and messages have come, a thread holds the messages of *)
(* its agent, each once, and no row that only the browser made, whatever   *)
(* crossed or failed; unless a message did not come down the socket, found *)
(* its row past the window, or replaced the row of another with the same   *)
(* words and a send to the agent was refused.  The row of a text that the  *)
(* server alters is left, as no message matches it (chat.ts:1364-1382,     *)
(* 1409-1422, connection.ts:303-334, routes.ts:834-841).                   *)
Refused(a) == \E s \in DOMAIN sends : \E p \in sends[s].refused : p[1] = a
RowsSettle ==
    Settled /\ connected => \A a \in Agent \ (missed \cup buried \cup {b \in crossed : Refused(b)}) :
        /\ \A n \in DOMAIN threads[a] : threads[a][n].id = 0 => Altered(threads[a][n].send)
        /\ \A n, k \in DOMAIN threads[a] :
              threads[a][n].id = threads[a][k].id /\ threads[a][n].id # 0 => n = k
        /\ {threads[a][n].id : n \in DOMAIN threads[a]} \ {0}
              = {m \in DOMAIN log : log[m].to[1] = a}

(* Both: what was composed is sent so, and the thread shows what was sent  *)
(* (chat.ts:1307-1431).                                                    *)
SentAndSettled == SentAsComposed /\ RowsSettle

(* What the comment at Escape Topics says, "Leaves @X tokens alone"        *)
(* (chat.ts:1469-1472): it does not hold for an agent after a topic.       *)
EscapeKeepsTargets ==
    ParseComposer(NeutralizeLeadingTopics(input)).agents = ParseComposer(input).agents
=============================================================================

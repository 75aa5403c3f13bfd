--------------------------- MODULE PersonaEditor ---------------------------
(***************************************************************************)
(* The page that edits a persona, dashboard/persona.ts, with the routes it *)
(* calls (routes.ts:1912-2033, 2239-2284): load, edits, the debounced      *)
(* preview of the launch command, and a save, which writes the file, then  *)
(* the bot token, then reloads the agent.                                  *)
(*                                                                         *)
(* An editor is named by the visit that began its load.  A file is its     *)
(* version, and its lines that no widget shows; the telegram block among   *)
(* them is shown by widgets of its own.                                    *)
(***************************************************************************)
EXTENDS Integers, Sequences, FiniteSets, Places

CONSTANTS None, Agent,
          LinesOf,                              \* the lines of each agent's file
          MaxVisit, MaxAct, MaxSave, MaxFault \* bounds

Line == {"telegram", "chat", "blank", "hook", "step"}

Chat == {"none", "id", "bad"}
Content == [of : Agent, version : Nat, lines : Seq(Line)]
Editor == [of : Agent, version : Nat, lines : Seq(Line), chat : Chat,
           typed : BOOLEAN, cleared : BOOLEAN, reload : BOOLEAN,
           preview : {None} \cup Content, unheard : BOOLEAN, overdrawn : BOOLEAN]

PersonaEditorAssumption ==
    /\ None \notin Int \cup Editor
    /\ \A a \in Agent : LinesOf[a] \in Seq(Line)
    /\ MaxVisit \in Nat /\ MaxAct \in Nat /\ MaxSave \in Nat /\ MaxFault \in Nat

VARIABLES file, token,   \* on the server
          visit, page,   \* visits so far; the agent whose page is shown, or None
          loads,         \* GETs under way: of which agent, by which visit
          editor,        \* the editor of each visit, or None
          wired,         \* editors that the buttons of the page's header call
          seq, timer, previews, \* previewSeq, previewTimer, requests under way
          saves,         \* submits under way
          acts, clicks, faults, \* counters, for MaxAct, MaxSave and MaxFault
          put,           \* history: agents with a file that was saved
          superseded     \* history: editors whose preview another editor dropped

server == <<file, token>>
shown == <<visit, page, loads, wired>>
preview == <<seq, timer, previews, superseded>>
vars == <<server, shown, editor, preview, saves, acts, clicks, faults, put>>

Visit == 1 .. MaxVisit
TypeOK == /\ file \in [Agent -> Content] /\ token \in [Agent -> {None, "old", "new"}]
          /\ visit \in 0 .. MaxVisit /\ page \in Agent \cup {None}
          /\ loads \subseteq [by : Visit, of : Agent]
          /\ editor \in [Visit -> {None} \cup Editor]
          /\ wired \subseteq Visit
          /\ seq \in Nat /\ timer \in {None} \cup Visit
          /\ \A p \in previews : /\ p.by \in Visit /\ p.seq \in Nat /\ p.content \in Content
                                /\ p.step \in {"asked", "body"}
          /\ \A s \in saves : s.by \in Visit /\ s.step \in {"put", "token", "reload"}
          /\ acts \in 0 .. MaxAct /\ clicks \in 0 .. MaxSave /\ faults \in 0 .. MaxFault
          /\ put \subseteq Agent /\ superseded \subseteq Visit

Init == /\ file = [a \in Agent |-> [of |-> a, version |-> 0, lines |-> LinesOf[a]]]
        /\ token = [a \in Agent |-> "old"]
        /\ visit = 0 /\ page = None /\ loads = {} /\ editor = [v \in Visit |-> None]
        /\ wired = {} /\ seq = 0 /\ timer = None /\ previews = {} /\ saves = {}
        /\ acts = 0 /\ clicks = 0 /\ faults = 0 /\ put = {} /\ superseded = {}

-----------------------------------------------------------------------------
(* The telegram block of the lines (util.ts:90-165)                        *)

Indented(l) == l \in {"chat", "step"}

(* What belongs to the block whose head is at j.                           *)
Within(lines, j, i) == \A k \in j + 1 .. i : lines[k] = "blank" \/ Indented(lines[k])

(* setFrontmatterTelegram: drops each block, with the blank lines in it.   *)
Kept(lines) ==
    {i \in DOMAIN lines : ~ \E j \in 1 .. i : lines[j] = "telegram" /\ Within(lines, j, i)}
Without(lines) == Picked(lines, Kept(lines))

Unended(lines) ==
    LET n == CHOOSE n \in 0 .. Len(lines) : /\ \A i \in n + 1 .. Len(lines) : lines[i] = "blank"
                                            /\ n = 0 \/ lines[n] # "blank"
    IN  SubSeq(lines, 1, n)

Appended(lines, chat) ==                                          \* mutant
    IF chat = "id" THEN Unended(lines) \o <<"telegram", "chat">> ELSE lines
SetTelegram(lines, chat) ==
    IF chat = "id" THEN Unended(Without(lines)) \o <<"telegram", "chat">> ELSE Without(lines)

(* parseFrontmatterTelegram: of the first block.                           *)
ChatOf(lines) ==
    IF \E i \in DOMAIN lines : /\ lines[i] = "telegram"
                               /\ \A j \in 1 .. i - 1 : lines[j] # "telegram"
                               /\ \E k \in i + 1 .. Len(lines) :
                                     lines[k] = "chat" /\ Within(lines, i, k)
    THEN "id" ELSE "none"

(* What save and preview send: collectEditorState.                         *)
Collected(e) == [of |-> e.of, version |-> e.version, lines |-> SetTelegram(e.lines, e.chat)]

-----------------------------------------------------------------------------
(* Pages                                                                   *)

(* The timer is cleared and answers under way are invalidated.             *)
Teardown == /\ timer' = None
            /\ seq' = seq + 1
            /\ UNCHANGED <<previews, superseded>>

Show(a) == /\ visit < MaxVisit /\ a # page
           /\ visit' = visit + 1 /\ page' = a
           /\ loads' = loads \cup {[by |-> visit', of |-> a]}
           /\ wired' = {}
           /\ editor' = [editor EXCEPT ![visit'] = None]
           /\ Teardown
           /\ UNCHANGED <<server, saves, acts, clicks, faults, put>>

Leaves == /\ page' = None /\ wired' = {}
          /\ UNCHANGED <<visit, loads>>
          /\ IF page = None THEN UNCHANGED preview ELSE Teardown

Leave == /\ page # None
         /\ Leaves
         /\ UNCHANGED <<server, editor, saves, acts, clicks, faults, put>>

(* fetchPreview                                                            *)
Asks(v, e) == /\ seq' = seq + 1
              /\ previews' = previews \cup {[by |-> v, seq |-> seq', step |-> "asked",
                                            content |-> Collected(e)]}

Opened(c) == [of |-> c.of, version |-> c.version, lines |-> Without(c.lines),
              chat |-> ChatOf(c.lines), typed |-> FALSE, cleared |-> FALSE, reload |-> FALSE,
              preview |-> None, unheard |-> FALSE, overdrawn |-> FALSE]

Read(a) == file[a]

(* hydrate: the editor fills its own body, but its buttons are those of    *)
(* the header that is there when the answer comes.                         *)
Loaded(l) ==
    /\ loads' = loads \ {l}
    /\ editor' = [editor EXCEPT ![l.by] = Opened(Read(l.of))]
    /\ wired' = IF page = None THEN wired ELSE wired \cup {l.by}
    /\ Asks(l.by, editor'[l.by])
    /\ superseded' = (superseded \cup {visit}) \ {l.by}
    /\ UNCHANGED <<server, visit, page, timer, saves, acts, clicks, faults, put>>

LoadFails(l) == /\ faults < MaxFault
                /\ faults' = faults + 1
                /\ loads' = loads \ {l}
                /\ UNCHANGED <<server, visit, page, wired, editor, preview, saves, acts, clicks,
                               put>>

-----------------------------------------------------------------------------
(* Edits and their preview                                                 *)

Shown == page # None /\ editor[visit] # None

Edits(e) == /\ acts < MaxAct /\ acts' = acts + 1
            /\ editor' = [editor EXCEPT ![visit] = e]
            /\ UNCHANGED <<server, shown, seq, previews, superseded, saves, clicks, faults, put>>

(* A field, the chat, a block of lines, a token: the preview is scheduled. *)
Type == /\ Shown
        /\ LET e == editor[visit]
           IN  \/ Edits([e EXCEPT !.version = @ + 1])
               \/ \E c \in Chat \ {e.chat} : Edits([e EXCEPT !.chat = c])
               \/ Edits([e EXCEPT !.lines = @ \o <<"telegram", "chat">>])
               \/ Edits([e EXCEPT !.typed = TRUE, !.cleared = FALSE])
        /\ timer' = visit

(* A picked directory and the inbound toggle fire no input event; nor does *)
(* the button that clears the token.                                       *)
Pick == /\ Shown
        /\ LET e == editor[visit]
           IN  \/ Edits([e EXCEPT !.version = @ + 1, !.unheard = TRUE])
               \/ Edits([e EXCEPT !.typed = FALSE, !.cleared = TRUE])
        /\ UNCHANGED timer

(* The toggle in the header is of every editor wired to it.                *)
ToggleReload == /\ acts < MaxAct /\ wired # {}
                /\ acts' = acts + 1
                /\ editor' = [v \in Visit |-> IF v \in wired THEN [editor[v] EXCEPT !.reload = ~@]
                                              ELSE editor[v]]
                /\ UNCHANGED <<server, shown, preview, saves, clicks, faults, put>>

TimerFires == /\ timer # None
              /\ timer' = None
              /\ Asks(timer, editor[timer])
              /\ editor' = [editor EXCEPT ![timer].unheard = FALSE]
              /\ superseded' = superseded \ {timer}
              /\ UNCHANGED <<server, shown, saves, acts, clicks, faults, put>>

AnyAnswer(p) == TRUE                                              \* mutant
Latest(p) == p.seq = seq

(* A preview, or the error there is instead of it, is drawn in its own     *)
(* editor, which nobody sees when its page was left; history: was it asked *)
(* for before another?                                                     *)
Draws(p) ==
    /\ previews' = previews \ {p}
    /\ editor' = IF page = None \/ p.by # visit THEN editor
                 ELSE [editor EXCEPT ![visit].preview = p.content, ![visit].overdrawn = ~Latest(p)]

Drops(p) == previews' = previews \ {p} /\ UNCHANGED editor

(* An answer that begins, and a request that fails, is dropped when another*)
(* was made.                                                               *)
PreviewAnswers(p) ==
    /\ p.step = "asked"
    /\ \/ ~Latest(p) /\ Drops(p)
       \/ Latest(p) /\ Draws(p)
       \/ /\ Latest(p)
          /\ previews' = (previews \ {p}) \cup {[p EXCEPT !.step = "body"]}
          /\ UNCHANGED editor
    /\ UNCHANGED <<server, shown, seq, timer, superseded, saves, acts, clicks, faults, put>>

(* Nobody looks again when the body has come, but when it does not come.   *)
PreviewRead(p) ==
    /\ p.step = "body"
    /\ Draws(p) \/ (~Latest(p) /\ Drops(p))
    /\ UNCHANGED <<server, shown, seq, timer, superseded, saves, acts, clicks, faults, put>>

-----------------------------------------------------------------------------
(* The save                                                                *)

Valid(e) == e.chat # "bad"

(* The button calls every editor wired to it, the key in the body its own; *)
(* an invalid chat is refused.                                             *)
Submit == /\ clicks < MaxSave /\ page # None
          /\ clicks' = clicks + 1
          /\ \E vs \in {wired, {visit} \cap wired} :
                saves' = saves \cup {[by |-> v, n |-> clicks', step |-> "put", value |-> None,
                                      content |-> Collected(editor[v])]
                                     : v \in {v \in vs : Valid(editor[v])}}
          /\ UNCHANGED <<server, shown, editor, preview, acts, faults, put>>

Moves(s, step, value) ==
    /\ saves' = (saves \ {s}) \cup {[s EXCEPT !.step = step, !.value = value]}
    /\ UNCHANGED <<shown, preview>>

(* Whatever page there is by now is left for the one before the editor.    *)
Done(s) == saves' = saves \ {s} /\ Leaves

Reloads(s) == IF editor[s.by].reload THEN Moves(s, "reload", None) ELSE Done(s)

FileOf(s) == s.content.of

Put(s) == /\ file' = [file EXCEPT ![FileOf(s)] = s.content]
          /\ put' = put \cup {FileOf(s)}

(* The token typed by now is sent once the file is saved.                  *)
PutReturns(s) ==
    /\ s.step = "put"
    /\ Put(s)
    /\ LET e == editor[s.by]
       IN  IF e.typed THEN Moves(s, "token", "new")
           ELSE IF e.cleared THEN Moves(s, "token", None) ELSE Reloads(s)
    /\ UNCHANGED <<token, editor, acts, clicks, faults>>

TokenReturns(s) ==
    /\ s.step = "token"
    /\ token' = [token EXCEPT ![s.content.of] = s.value]
    /\ editor' = [editor EXCEPT ![s.by].typed = @ /\ s.value = None, ![s.by].cleared = FALSE]
    /\ Reloads(s)
    /\ UNCHANGED <<file, acts, clicks, faults, put>>

ReloadReturns(s) == /\ s.step = "reload"
                    /\ Done(s)
                    /\ UNCHANGED <<server, editor, acts, clicks, faults, put>>

(* A request is refused, or its answer is lost: the save ends there.       *)
SaveFails(s) ==
    /\ faults < MaxFault
    /\ faults' = faults + 1
    /\ saves' = saves \ {s}
    /\ \/ UNCHANGED <<server, put>>
       \/ s.step = "put" /\ Put(s) /\ UNCHANGED token
       \/ /\ s.step = "token"
          /\ token' = [token EXCEPT ![s.content.of] = s.value]
          /\ UNCHANGED <<file, put>>
    /\ UNCHANGED <<shown, editor, preview, acts, clicks>>

Next == \/ Leave \/ Type \/ Pick \/ ToggleReload \/ TimerFires \/ Submit
        \/ \E a \in Agent : Show(a)
        \/ \E l \in loads : Loaded(l) \/ LoadFails(l)
        \/ \E p \in previews : PreviewAnswers(p) \/ PreviewRead(p)
        \/ \E s \in saves : PutReturns(s) \/ TokenReturns(s) \/ ReloadReturns(s) \/ SaveFails(s)

Spec == Init /\ [][Next]_vars

-----------------------------------------------------------------------------
(* Properties                                                              *)

(* A file has what an editor of its agent sent, whatever page was shown    *)
(* when it was saved (persona.ts:472-481).                                 *)
OwnFile == \A a \in Agent : file[a].of = a

(* A token never lands when the file was not saved (persona.ts:386-390).   *)
TokenFollowsSave == \A a \in Agent : token[a] # "old" => a \in put

(* Once the last preview has come it is of what a save would write, but    *)
(* for edits that fire no event, an editor of an earlier page that dropped *)
(* the answer, and the body of an earlier answer that was drawn over it    *)
(* (persona.ts:51-52, 449-451, 498-576).                                   *)
PreviewIsCurrent ==
    LET e == editor[visit]
    IN  Shown /\ timer = None /\ (\A p \in previews : p.seq # seq)
           => \/ e.unheard \/ visit \in superseded \/ e.overdrawn
              \/ e.preview = Collected(e)

PlacesOf(lines, l) == {i \in DOMAIN lines : lines[i] = l}

(* A saved file has one telegram block at most, and to save it unedited    *)
(* keeps the chat and the hooks (util.ts:115-165).                         *)
RoundTrip ==
    \A a \in Agent :
       LET l == file[a].lines
           l2 == SetTelegram(Without(l), ChatOf(l))
       IN  /\ a \in put => Cardinality(PlacesOf(l, "telegram")) <= 1
           /\ Cardinality(PlacesOf(l2, "hook")) = Cardinality(PlacesOf(l, "hook"))
           /\ ChatOf(l2) = ChatOf(l)

SavedAsEdited == OwnFile /\ TokenFollowsSave /\ PreviewIsCurrent /\ RoundTrip
=============================================================================

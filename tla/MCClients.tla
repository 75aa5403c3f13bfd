----------------------------- MODULE MCClients -----------------------------
(* Instances of the clients for TLC.                                       *)
EXTENDS Clients, TLC

CONSTANTS v, short, slow, route

(* One line of each kind: keys of the core, of nested blocks and of        *)
(* neither, block scalars, lines of a pipeline, a blank line.              *)
AtIndent(i, k, x) == [ind |-> i, key |-> k, val |-> x]
Lines == {AtIndent(0, "model", "v"), AtIndent(0, "model", "|"), AtIndent(0, "teams", ""),
          AtIndent(0, "start", ""), AtIndent(0, "start", "|"), AtIndent(0, "custom_buttons", ""),
          AtIndent(2, "x", ""), AtIndent(2, "model", "w"), AtIndent(2, "-", "shell"),
          AtIndent(4, "-", "keystrokes"), AtIndent(4, "-", "other"), AtIndent(0, "", "")}

(* Agents without hooks of their own, of each engine; with an account; one *)
(* whose hooks ask the CLI for its session id; with hooks that are given   *)
(* one, by shell and by keystrokes; with profiles and a capture on exit.   *)
(* The last two look as if the id were known, and it is not: codex makes   *)
(* up its own, and nothing captures the one of a CLI that was spawned.     *)
Command(do, id, prompt) == [do |-> do, id |-> id, prompt |-> prompt, export |-> FALSE]
Shell(l) == [type |-> "shell", line |-> l]
Paste(l) == [type |-> "paste", line |-> l]
Key(k) == [type |-> "keystroke", key |-> k]
Capture == [type |-> "capture"]
New(prompt) == Command("start", None, prompt)
Given == Command("start", 0, "inline")
Again(prompt) == Command("resume", 0, prompt)
Status == Command("status", None, None)
Ask == <<Shell(Status), Capture, Key("Escape")>>
Leave == Shell(Command("exit", None, None))
Preset == [engine |-> "claude", start |-> None, resume |-> None, exit |-> None,
           button |-> None, account |-> FALSE, linked |-> TRUE]
Configs ==
    {Preset,
     [Preset EXCEPT !.account = TRUE, !.button = Ask],
     [Preset EXCEPT !.account = TRUE, !.linked = FALSE],
     [Preset EXCEPT !.start = <<Shell(New("inline")), Key("Enter")>> \o Ask,
                    !.resume = <<Shell(Again("inline")), Key("Enter")>> \o Ask,
                    !.exit = <<Leave>>],
     [Preset EXCEPT !.start = <<Shell(Given)>>],
     [Preset EXCEPT !.start = <<Paste(Given), Key("Enter")>>,
                    !.button = <<Paste(Status), Key("Enter"), Capture>>],
     [Preset EXCEPT !.engine = "codex", !.start = <<Shell(New("profile"))>>,
                    !.resume = <<Shell(Again("profile"))>>, !.exit = <<Leave, Capture>>],
     [Preset EXCEPT !.engine = "codex"],
     [Preset EXCEPT !.engine = "opencode", !.start = <<Shell(New(None))>>,
                    !.resume = <<Shell(Again(None))>>, !.exit = <<Key("C-c"), Capture>>],
     [Preset EXCEPT !.engine = "codex",
                    !.start = <<Shell(Command("start", 0, "profile"))>>,
                    !.exit = <<Leave, Capture>>],
     [Preset EXCEPT !.resume = <<Shell(Again("inline"))>> \o Ask]}

(* Ticks of 5 s: two messages under the lock, one of them with 15,000 to   *)
(* 20,000 characters, and a route that types without Enter.                *)
Ticks == (short :> 1) @@ (slow :> 4) @@ (route :> 0)

(* The first text goes to an agent with two topics, the second to two      *)
(* agents, one of which is not subscribed to.                              *)
At(a) == [kind |-> "@", of |-> a]
Hash(t) == [kind |-> "#", of |-> t]
Typed == << <<At("a"), Hash("x"), Hash("y")>>, <<At("a"), At("b")>> >>

(* Blank lines in and after a block, a key of it no widget shows, two      *)
(* blocks of which the first is empty.                                     *)
FileLines ==
    ("a" :> <<"hook", "step", "telegram", "step", "blank", "chat", "blank", "hook">>) @@
    ("b" :> <<"telegram", "blank", "hook", "telegram", "chat">>)

(* Boxes with and without id and coordinates, frames with and without      *)
(* children, arrows of every kind, and shapes that are not valid.          *)
Plain == [type |-> "rect", id |-> None, at |-> None, z |-> None, children |-> {},
          from |-> None, to |-> None, ends |-> None]
Shapes ==
    {[Plain EXCEPT !.id = n, !.at = p] : n \in {None, "a", "b"}, p \in {None, "xy"}}
    \cup {[Plain EXCEPT !.type = "frame", !.id = n, !.children = c]
          : n \in {None, "a"}, c \in {{}, {"a"}, {Bad, "a", "b"}}}
    \cup {[Plain EXCEPT !.type = "frame", !.at = "xy", !.z = 9, !.children = {"a"}],
          [Plain EXCEPT !.type = "arrow", !.from = "a", !.to = "b"],
          [Plain EXCEPT !.type = "arrow", !.from = "a"],
          [Plain EXCEPT !.type = "arrow", !.from = "a", !.to = Bad],
          [Plain EXCEPT !.type = "arrow", !.ends = "all", !.id = "b"],
          [Plain EXCEPT !.type = "arrow", !.ends = "some"],
          [Plain EXCEPT !.type = "text", !.id = Bad],
          [Plain EXCEPT !.type = "line"], [Plain EXCEPT !.type = "star"]}
=============================================================================

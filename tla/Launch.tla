------------------------------- MODULE Launch -------------------------------
(***************************************************************************)
(* How an agent's CLI is started, continued and left: the hooks of its     *)
(* engine and persona (src/src/orchestrator/hook-resolver.ts), the         *)
(* adapters behind the hooks that are not set, the dispatch of the         *)
(* resulting steps into the tmux pane (lifecycle.ts:51-500), the prompt    *)
(* that the CLI is given and the HOME it runs in (accounts.ts).            *)
(*                                                                         *)
(* One agent; a function of lifecycle.ts types its steps one by one, and   *)
(* what the shell or the CLI makes of a line is Submit.  Functions that    *)
(* overlap and commands that fail are in Lifecycle.tla.  Waits and the     *)
(* /rename line change nothing here and are left out.                      *)
(***************************************************************************)
EXTENDS Integers, Sequences, FiniteSets

CONSTANTS Config,   \* what an agent may be configured with: engine, hooks, account
          None, MaxOp, MaxEdit

VARIABLES config,    \* of the agent
          persona,   \* version of its persona
          creds,     \* does its account have credentials?
          state,     \* agents.state
          sid,       \* agents.current_session_id
          captured,  \* SESSION_ID in agents.captured_vars
          profile,   \* version of the persona in the profile of the host, -1 for none
          pane,      \* program in the tmux pane, exported name, HOME, line typed
          screen,    \* the session id that can be read in the pane, or None
          talks,     \* conversations that exist: id and the HOME that holds them
          issued,    \* ids handed out so far, by randomUUID and by the CLIs
          op,        \* function that is running, or that ran last
          todo,      \* its steps that are left
          record,    \* session id it will write
          seen,      \* session id it captured
          last,      \* history: conversation that was left by the exit hook
          ops        \* functions called

vars == <<config, persona, creds, state, sid, captured, profile, pane, screen, talks,
          issued, op, todo, record, seen, last, ops>>

Placeholder == 0   \* $SESSION_ID in a line; the ids are 1, 2, ...
Fresh == issued + 1

(* A line: what it tells a shell or a CLI to do, the session it names, the *)
(* prompt it carries, and whether it exports the agent's name.             *)
Line(do, id, prompt) == [do |-> do, id |-> id, prompt |-> prompt, export |-> FALSE]
Shell(l) == [type |-> "shell", line |-> l]
Paste(l) == [type |-> "paste", line |-> l]
Key(k) == [type |-> "keystroke", key |-> k]
Capture == [type |-> "capture"]

-----------------------------------------------------------------------------
(* Adapters                                                                *)

(* Engines whose prompt is a profile on the host.                          *)
UsesProfile(e) == e \in {"codex", "opencode"}
Prompt(e) == IF UsesProfile(e) THEN "profile" ELSE "inline"

BuildSpawn(e, id) == Line("start", IF e = "claude" THEN id ELSE None, Prompt(e))
BuildResume(e, id) == Line("resume", id, Prompt(e))
BuildExit(e) == IF e = "opencode" THEN <<Key("C-c")>> ELSE <<Shell(Line("exit", None, None))>>

-----------------------------------------------------------------------------
(* Resolution of a hook                                                    *)

(* An id that is not given is taken from the captured variables.           *)
Named(id) == IF id = None THEN captured ELSE id

(* $SESSION_ID is replaced in shell steps, and in them only.               *)
Interpolate(step, id) ==
    IF step.type = "shell" /\ step.line.id = Placeholder
    THEN [step EXCEPT !.line.id = id] ELSE step

ResolveHook(hook, preset, id) ==
    IF hook = None THEN preset ELSE [i \in DOMAIN hook |-> Interpolate(hook[i], id)]

Shells(steps) == {i \in DOMAIN steps : steps[i].type = "shell"}

WrapsLastStep(steps) ==                                           \* mutant
    [i \in DOMAIN steps |->
        IF i \in Shells(steps) /\ \A j \in Shells(steps) : j <= i
        THEN [steps[i] EXCEPT !.line.export = TRUE] ELSE steps[i]]

(* The first shell step of a launch exports COLLAB_AGENT and the rest of   *)
(* the launch environment; hooks of keystrokes have no shell step.         *)
WrapLaunch(steps) ==
    [i \in DOMAIN steps |->
        IF i \in Shells(steps) /\ \A j \in Shells(steps) : i <= j
        THEN [steps[i] EXCEPT !.line.export = TRUE] ELSE steps[i]]

StartSteps(id) ==
    WrapLaunch(ResolveHook(config.start, <<Shell(BuildSpawn(config.engine, id))>>,
                           Named(id)))
ResumeSteps(id) ==
    WrapLaunch(ResolveHook(config.resume, <<Shell(BuildResume(config.engine, id))>>,
                           Named(id)))
(* The exit hook is given no variables (lifecycle.ts:889).                 *)
ExitSteps == ResolveHook(config.exit, BuildExit(config.engine), None)

-----------------------------------------------------------------------------
(* The tmux pane and the accounts                                          *)

Gone == [open |-> FALSE, runs |-> None, export |-> FALSE, home |-> "real", typed |-> None,
         prompt |-> None]
NewShell == [Gone EXCEPT !.open = TRUE]
Running == pane.runs # None

(* An account with credentials gives the agent a HOME of its own, wiped    *)
(* and built anew at every launch: what the host's HOME holds is linked.   *)
OwnHome == config.account /\ creds
HomeFor(line) == IF line.export /\ OwnHome THEN "own" ELSE pane.home
Scaffold == talks' = IF OwnHome THEN {t \in talks : t.home # "own"} ELSE talks

(* The profile of the host is written before the CLI is started.           *)
WriteProfile == profile' = IF UsesProfile(config.engine) THEN persona ELSE profile

RegisterAccount == ~creds /\ creds' = TRUE
RemoveAccount == creds /\ creds' = FALSE

-----------------------------------------------------------------------------
(* Functions: what they do before the first step is typed                  *)

Free == ~op.running /\ ops < MaxOp
Call(kind) ==
    /\ Free
    /\ op' = [kind |-> kind, running |-> TRUE, persona |-> persona]
    /\ ops' = ops + 1
    /\ seen' = None

(* spawnAgent and recoverAgent: a clean session, a fresh id.               *)
SpawnAgent(kind) ==
    /\ state \in (IF kind = "spawn" THEN {"void", "failed"} ELSE {"failed"})
    /\ Call(kind)
    /\ pane' = NewShell /\ screen' = None
    /\ WriteProfile /\ Scaffold
    /\ issued' = Fresh /\ record' = Fresh
    /\ todo' = StartSteps(Fresh)
    /\ last' = None
    /\ UNCHANGED <<config, persona, creds, state, sid, captured>>

(* resolveResumeOrStartHook: the conversation on record, or a new one; the *)
(* id of a new one is made up for claude only.                             *)
Continue(id) ==
    IF id # None THEN todo' = ResumeSteps(id) /\ record' = id /\ issued' = issued
    ELSE IF config.engine = "claude"
         THEN todo' = StartSteps(Fresh) /\ record' = Fresh /\ issued' = Fresh
         ELSE todo' = StartSteps(None) /\ record' = None /\ issued' = issued

(* A session that survived is used as it is, but its profile is written.   *)
ResumeAgent ==
    /\ state \in {"suspended", "failed"}
    /\ Call("resume")
    /\ pane' = IF pane.open THEN pane ELSE NewShell
    /\ screen' = IF pane.open THEN screen ELSE None
    /\ WriteProfile /\ Scaffold
    /\ Continue(sid)
    /\ UNCHANGED <<config, persona, creds, state, sid, captured, last>>

(* suspendAgent and the first half of reloadAgent.                         *)
ExitAgent(kind) ==
    /\ state = "active"
    /\ Call(kind)
    /\ todo' = ExitSteps
    /\ record' = sid
    /\ last' = pane.runs
    /\ UNCHANGED <<config, persona, creds, state, sid, captured, profile, pane, screen,
                   talks, issued>>

ReloadsIdOnRow == sid                                             \* mutant

(* The second half of a reload prefers the id that was captured.           *)
ReloadId == IF captured # None THEN captured ELSE sid

Relaunch ==
    /\ op.running /\ op.kind = "reload" /\ todo = <<>>
    /\ op' = [op EXCEPT !.kind = "relaunch"]
    /\ pane' = NewShell /\ screen' = None
    /\ WriteProfile /\ Scaffold
    /\ Continue(ReloadId)
    /\ UNCHANGED <<config, persona, creds, state, sid, captured, seen, last, ops>>

(* A custom button or an action of an indicator.                           *)
ExecuteCustomButton ==
    /\ pane.open
    /\ Call("button")
    /\ todo' = ResolveHook(config.button, <<>>, Named(sid))
    /\ record' = sid
    /\ UNCHANGED <<config, persona, creds, state, sid, captured, profile, pane, screen,
                   talks, issued, last>>

(* Nothing is typed: the session and the id on the row are given up.       *)
KillAgent ==
    /\ Free /\ state # "void"
    /\ ops' = ops + 1 /\ op' = [op EXCEPT !.kind = "kill"]
    /\ state' = "suspended" /\ sid' = None
    /\ pane' = Gone /\ screen' = None /\ last' = None /\ seen' = None
    /\ UNCHANGED <<config, persona, creds, captured, profile, talks, issued, todo, record>>

(* External: the CLI or the whole session ends by itself; the monitor sees *)
(* it and marks the agent failed.                                          *)
Fail ==
    /\ Free /\ state = "active"
    /\ ops' = ops + 1 /\ op' = [op EXCEPT !.kind = "fail"]
    /\ state' = "failed"
    /\ pane' \in {Gone, [pane EXCEPT !.runs = None, !.prompt = None]} /\ screen' = None
    /\ last' = None /\ seen' = None
    /\ UNCHANGED <<config, persona, creds, sid, captured, profile, talks, issued, todo, record>>

-----------------------------------------------------------------------------
(* Dispatch, step by step                                                  *)

(* External: what the shell or the CLI in the pane makes of a line.  codex *)
(* and opencode name their conversation when they end, claude on demand.   *)
Submit(line) ==
    LET id == IF line.do = "start" /\ line.id \in {None, Placeholder} THEN Fresh ELSE line.id
        home == HomeFor(line)
        talk == [id |-> id, home |-> IF config.linked THEN "real" ELSE home]
        found == line.do = "start" \/ talk \in talks
        shell == [pane EXCEPT !.export = @ \/ line.export, !.typed = None, !.home = home]
        prompt == CASE line.prompt = "inline" -> op.persona
                    [] line.prompt = "profile" -> profile
                    [] OTHER -> None
    IN CASE ~Running /\ line.do \in {"start", "resume"} /\ found ->
              /\ pane' = [shell EXCEPT !.runs = id, !.prompt = prompt]
              /\ talks' = talks \cup {talk}
              /\ issued' = IF id = Fresh THEN Fresh ELSE issued
              /\ screen' = None
         [] Running /\ line.do = "exit" ->
              /\ pane' = [pane EXCEPT !.runs = None, !.typed = None, !.prompt = None]
              /\ screen' = IF config.engine = "claude" THEN None ELSE pane.runs
              /\ UNCHANGED <<talks, issued>>
         [] Running /\ line.do = "status" ->
              /\ pane' = [pane EXCEPT !.typed = None] /\ screen' = pane.runs
              /\ UNCHANGED <<talks, issued>>
         [] OTHER ->
              /\ pane' = IF Running THEN [pane EXCEPT !.typed = None] ELSE shell
              /\ UNCHANGED <<screen, talks, issued>>

Press(key) ==
    CASE key = "Enter" /\ pane.typed # None -> Submit(pane.typed)
      [] key = "C-c" -> Submit(Line("exit", None, None))
      [] OTHER -> UNCHANGED <<pane, screen, talks, issued>>

(* A capture stores the id and writes it to the row.                       *)
Store == IF screen = None THEN UNCHANGED <<captured, sid, seen>>
         ELSE captured' = screen /\ sid' = screen /\ seen' = screen

DispatchStep ==
    /\ op.running /\ todo # <<>> /\ pane.open
    /\ todo' = Tail(todo)
    /\ LET step == Head(todo)
       IN \/ step.type = "shell" /\ Submit(step.line) /\ UNCHANGED <<captured, sid, seen>>
          \/ /\ step.type = "paste" /\ pane' = [pane EXCEPT !.typed = step.line]
             /\ UNCHANGED <<screen, talks, issued, captured, sid, seen>>
          \/ step.type = "keystroke" /\ Press(step.key) /\ UNCHANGED <<captured, sid, seen>>
          \/ step.type = "capture" /\ Store /\ UNCHANGED <<pane, screen, talks, issued>>
    /\ UNCHANGED <<config, persona, creds, state, profile, op, record, last, ops>>

Launches == {"spawn", "recover", "resume", "relaunch"}

(* finalizeToActive writes the id that the launch was given.               *)
Finish ==
    /\ op.running /\ op.kind # "reload" /\ todo = <<>>
    /\ op' = [op EXCEPT !.running = FALSE]
    /\ IF op.kind \in Launches THEN state' = "active" /\ sid' = record
       ELSE state' = (IF op.kind = "suspend" THEN "suspended" ELSE state) /\ UNCHANGED sid
    /\ UNCHANGED <<config, persona, creds, captured, profile, pane, screen, talks, issued,
                   todo, record, seen, last, ops>>

-----------------------------------------------------------------------------
EditPersona ==
    /\ persona < MaxEdit /\ persona' = persona + 1
    /\ UNCHANGED <<config, creds, state, sid, captured, profile, pane, screen, talks,
                   issued, op, todo, record, seen, last, ops>>

(* registerFromCurrent and remove, while no launch reads the account.      *)
ChangeAccount ==
    /\ Free /\ config.account /\ (RegisterAccount \/ RemoveAccount)
    /\ UNCHANGED <<config, persona, state, sid, captured, profile, pane, screen, talks,
                   issued, op, todo, record, seen, last, ops>>

Init ==
    /\ config \in Config
    /\ persona = 0 /\ creds = TRUE
    /\ state = "void" /\ sid = None /\ captured = None
    /\ profile = -1 /\ pane = Gone /\ screen = None
    /\ talks = {} /\ issued = 0
    /\ op = [kind |-> "none", running |-> FALSE, persona |-> 0]
    /\ todo = <<>> /\ record = None /\ seen = None /\ last = None /\ ops = 0

Next ==
    \/ SpawnAgent("spawn") \/ SpawnAgent("recover") \/ ResumeAgent
    \/ ExitAgent("suspend") \/ ExitAgent("reload") \/ Relaunch
    \/ ExecuteCustomButton \/ KillAgent \/ Fail
    \/ DispatchStep \/ Finish \/ EditPersona \/ ChangeAccount

-----------------------------------------------------------------------------
(* What a hook may be made of: the id in a line is left open or absent,    *)
(* and a prompt is read from a profile by the engines that have them.      *)
Prompts(e) == {"inline", None} \cup (IF UsesProfile(e) THEN {"profile"} ELSE {})
Verbs == {"start", "resume", "exit", "status", "other"}
Keys == {"Enter", "C-c", "Escape", "other"}
Lines(e, ids) == [do : Verbs, id : ids, prompt : Prompts(e), export : BOOLEAN]
Steps(e, ids) ==
    [type : {"shell", "paste"}, line : Lines(e, ids)]
        \cup [type : {"keystroke"}, key : Keys] \cup {Capture}
Hook(e) == Seq(Steps(e, {None, Placeholder}))

(* Steps that start a CLI, and that end it.                                *)
Starts(step) == step.type \in {"shell", "paste"} /\ step.line.do \in {"start", "resume"}
Exits(step) == \/ step.type = "shell" /\ step.line.do = "exit"
               \/ step = Key("C-c")
MayExit(step) == Exits(step) \/ (step.type = "paste" /\ step.line.do = "exit")

(* A line that starts a CLI and is pasted is entered at once.              *)
Entered(steps) ==
    \A i \in DOMAIN steps :
        (Starts(steps[i]) /\ steps[i].type = "paste")
            => i < Len(steps) /\ steps[i + 1] = Key("Enter")

(* The hooks are used for what they are there for (hook-resolver.ts): CLIs *)
(* are started by the hooks of a launch only, and the exit hook ends them. *)
LaunchAssumption ==
    /\ None \notin Int \cup {"profile"}
    /\ \A c \in Config :
        /\ c.account \in BOOLEAN /\ c.linked \in BOOLEAN
        /\ c.start = None \/ (c.start \in Hook(c.engine) /\ Entered(c.start))
        /\ c.resume = None \/ (c.resume \in Hook(c.engine) /\ Entered(c.resume))
        /\ c.button = None \/ (/\ c.button \in Hook(c.engine)
                               /\ \A i \in DOMAIN c.button : ~Starts(c.button[i]))
        /\ c.exit = None \/ (/\ c.exit \in Hook(c.engine)
                             /\ \A i \in DOMAIN c.exit : ~Starts(c.exit[i])
                             /\ \E i \in DOMAIN c.exit : Exits(c.exit[i]))

(* Steps that start the CLI once, with the session id, and let it run.     *)
Gives(steps, id) ==
    \E i \in Shells(steps) :
        /\ Starts(steps[i]) /\ steps[i].line.id = id
        /\ \A j \in DOMAIN steps \ {i} : ~Starts(steps[j]) /\ ~MayExit(steps[j])

(* Steps that ask the CLI that they started for its session id.            *)
Asks(steps) ==
    \E i \in Shells(steps) :
        /\ steps[i].line.do = "status" /\ i < Len(steps) /\ steps[i + 1] = Capture
        /\ \A j \in DOMAIN steps : j > i => ~Starts(steps[j])

(* Steps that capture the id before the CLI ends, or, where the CLI names  *)
(* it when it ends, then.                                                  *)
AsksLeaving(steps) ==
    \E i \in DOMAIN steps :
        /\ \/ steps[i].type = "shell" /\ steps[i].line.do = "status"
           \/ config.engine # "claude" /\ Exits(steps[i])
        /\ i < Len(steps) /\ steps[i + 1] = Capture
        /\ \A j \in DOMAIN steps : j < i => ~Exits(steps[j]) /\ steps[j] # Key("Enter")

GivesId(hook) == hook = None \/ Gives(hook, Placeholder)
Captures(hook) == hook # None /\ \E i \in DOMAIN hook : hook[i].type = "capture"

(* The orchestrator knows which conversation the CLI has: it makes up the  *)
(* id, for claude only, and no hook captures one that a reload prefers; or *)
(* the exit hook captures it; or, for a reload, every launch does.         *)
ByName == /\ config.engine = "claude" /\ GivesId(config.start)
          /\ op.kind = "relaunch" =>
                \A hook \in {config.start, config.resume, config.exit, config.button} :
                    ~Captures(hook)
ByLeaving == config.exit # None /\ AsksLeaving(config.exit)
ByAsking == /\ op.kind = "relaunch"
            /\ config.start # None /\ Asks(config.start)
            /\ config.resume # None /\ Asks(config.resume)

(* And a CLI that is told to continue it finds it: no HOME that is wiped   *)
(* at every launch holds it.                                               *)
Known == /\ ByName \/ ByLeaving \/ ByAsking
         /\ GivesId(config.resume)
         /\ config.linked \/ ~config.account

(* An agent that was left by its exit hook and is started again goes on    *)
(* with the conversation that it had (lifecycle.ts:457-500, 1107-1109).    *)
KnownConversationContinues ==
    (~op.running /\ op.kind \in {"resume", "relaunch"} /\ last # None /\ Known)
        => pane.runs = last

(* A hook by which a CLI may be started with keys, before any command.     *)
Keyed(hook) == hook # None /\ \A i \in Shells(hook) :
                   \E j \in DOMAIN hook : j < i /\ hook[j] = Key("Enter")

(* A CLI that was started by a command knows which agent it is, and if the *)
(* command names a prompt, the CLI has the persona as of the launch or     *)
(* later (lifecycle.ts:72-110, 379-416, 760-775).                          *)
AgentKnowsItself ==
    Running => /\ pane.export \/ Keyed(config.start) \/ Keyed(config.resume)
               /\ (~op.running /\ op.kind \in Launches /\ pane.prompt # None)
                     => pane.prompt >= op.persona

(* Both: a launch starts the agent with its own past, its name and its     *)
(* persona (lifecycle.ts:51-500).                                          *)
StartedAsItself == KnownConversationContinues /\ AgentKnowsItself

(* README.md:310 says that a captured SESSION_ID is the id that the next   *)
(* resume uses; the end of a launch overwrites it (lifecycle.ts:663-672).  *)
CapturedIdIsKept ==
    (~op.running /\ op.kind \in Launches /\ seen # None) => sid = seen
=============================================================================

# A verification project for agentic-collab

agentic-collab runs coding agents (CLI programs inside tmux sessions) on several
machines and lets them, and people, send each other messages. An *orchestrator* owns all
state in one SQLite file, a *proxy* on each machine runs tmux commands for it, and a
browser dashboard and a command line client talk to the orchestrator over HTTP and
WebSocket.

This directory holds TLA+ modules translated from the TypeScript source, the TLC
configurations that model-check them on small instances, and TLAPS proofs of what holds
for every instance. Paths below are relative to the source tree's `src/`; `lifecycle.ts:438`
means line 438.

    tlc -workers 2 -config Lifecycle_claims.cfg MCLifecycle.tla     # one run
    tlapm Lifecycle_proofs.tla                                      # one proof module

1. Inventory · 2. The modules · 3. The runs · 4. What is proved · 5. What is only
model-checked, and what is not modelled · 6. Where code and documentation disagree · 7. Plan

## 1. Inventory

### The parts

| part | state it keeps | operations | module |
| --- | --- | --- | --- |
| **agent lock** (`shared/lock.ts`) | table `agent_locks`: agent, owner, expiry | `lock` (poll every 50 ms, throw after 60 s), `unlock`, `withLock` | AgentLock |
| **agent lifecycle** (`orchestrator/lifecycle.ts`, `shared/agent-entity.ts`) | the agent's row (`state`, `version`, `current_session_id`, `captured_vars`, `tmux_session`), a watchdog timer per running operation, the tmux session | `spawnAgent`, `resumeAgent`, `suspendAgent`, `reloadAgent`, `recoverAgent`, `killAgent`, `destroyAgent`, `interruptAgent`, `compactAgent`, `deliverToAgent`, buttons and indicator actions | Lifecycle |
| **message delivery** (`orchestrator/message-dispatcher.ts`) | table `pending_messages`; in memory `deliveriesInFlight`, `draining`, timers | `tryDeliver`, drain loop, retry and backoff, stale reset, auto-reply to the sender | Dispatcher |
| **threads** (`orchestrator/routes.ts`, `database.ts`) | table `dashboard_messages` next to the queue | send, reply, withdraw, pages of one agent and of all | Threads |
| **health monitor** (`orchestrator/health-monitor.ts`) | per agent: last screen, failure counters, grace periods | poll every 30 s and faster ones: activity, exit, heal, queued reload, auto-recovery | HealthMonitor |
| **network restore** (`orchestrator/network.ts`) | `state_before_shutdown` | `shutdownAgents`, `restoreAllAgents` | NetworkRestore |
| **tmux proxy** (`proxy/`) | tmux sessions; its registration; the user's files | register, heartbeat; paste; uploads; engine profiles | ProxyLink, TmuxPane, Artifacts, Launch |
| **hooks, engine adapters, accounts** (`hook-resolver.ts`, `adapters/`, `accounts.ts`, ...) | engine configs, an account's credentials, an agent's HOME | resolve a hook into steps, type them, capture variables | Launch |
| **usage poller** (`orchestrator/usage-poller.ts`) | the tmux session of an engine | find, create, adopt, recycle, kill | UsagePoller |
| **personas and fields** (`persona.ts`, `persona-backfill.ts`, `field-registry.ts`) | Markdown files and their copy in the database; teams | parse, write one field, sync, backfill | Personas, Frontmatter |
| **reminders** (`orchestrator/reminder-dispatcher.ts`) | table `reminders` | tick, create, update, swap, complete, delete | Reminders |
| **Telegram** (`telegram.ts`, routes) | destinations, tokens, poll loops | reconcile, poll, route an update | TelegramBots |
| **pages, stores, files** (routes) | directories, SQLite files and blobs, each with a row | publish, replace, delete, query, upload | Artifacts |
| **WebSocket server** (`shared/websocket-server.ts`) | client map, one buffer per client | parse frames, ping, broadcast | WsFrames |
| **voice** (`dashboard/voice.ts`, `voice-proxy.ts`) | a recording, its socket, a session with the speech service | start, stop, commit, relay | Voice |
| **sketch protocol** (`shared/sketch-*.ts`) | none | validate, lay out, plan the drawing | Sketch |
| **dashboard** (`dashboard/`) | the browser's copy of everything | connection and cache; selection; feed; composer; persona editor; watch page | DashboardSync, Selection, DashboardFeed, Composer, PersonaEditor, Watch |
| **orchestrator process** (`main.ts`), **HTTP API** (`routes.ts`), **persistence** (`database.ts`) | timers, handlers, the SQLite file | what the parts above are made of | in their modules |
| **command line client**, **shared helpers**, **archived dashboard** | none | one request per command; pure functions; unused | none |

### How they interact

Everything in the orchestrator runs on one JavaScript thread: code between two `await`s is
atomic, SQLite calls are synchronous. What interleaves is HTTP handlers, timers (watchdogs,
drain loops, health polls, reminders, usage, stale-proxy check, persona watch) and the
answers of proxies, bots and browsers. They share

* the **agent's row**. Writers pass the version they read and fail if it has moved on.
  Some hold the lock, others (health monitor, proxy clean-up, self-heal, capture) do not;
* the **lock**, which is a lease of 30 s and is lost while its owner still works;
* the **tmux session**, reached by commands whose answers can be lost, and which may be
  repeated (up to three tries of 15 s each in `proxyDispatch`);
* the **message queue**, which the handlers fill, and which `tryDeliver` and the drain loop
  empty with the lock held around the paste; and the **threads**, rows of their own that name
  the entry of the queue they stand for;
* **files and rows** that say the same thing twice: persona files and agents, pages, stores
  and blobs and their tables;
* the **dashboard's copy**, which is fed by a snapshot per connection, by events for the
  agents a client subscribes to, and by pages it fetches.

The browser is one thread too, and its awaits and timers outlive the page that began them.

### What is hard, and what makes each part correct

| part | hard behaviour | correctness |
| --- | --- | --- |
| agent lock | leases that run out under a working owner, owners that died, starvation of a poller | within its lease an owner is alone; nobody waits for a dead owner longer than the lease |
| lifecycle | phase 2 runs without the lock for up to a minute while watchdogs, kills, heal checks and proxy loss change the row; lost answers; exceptions | claims exclude each other, none is orphaned or stays for ever; the row names the conversation that runs; suspension is respected |
| message delivery | concurrent triggers for one head row; lock time-outs; crash between paste and record, or between record and report; withdrawal in the middle; retry clocks | once per message, in order, every outcome true and final, and reported unless the report itself is cut off; nothing left behind |
| threads | a send and a withdrawal are several statements each, with a crash between any two; pages read in between | the threads show the queue; history is read whole |
| health monitor | decisions from a screen captured before an await, by two polls that overlap | polls leave operations alone; an exit is noticed; a queued reload runs |
| network restore | crash in any intermediate state; a list read before awaits | what ran before runs again, and a restore ends |
| launch | five functions, hooks of every shape, ids from four places | an agent continues its own conversation, with its name and persona |
| usage poller | overlapping polls, lost answers, two proxies, a stop in the middle | no session is forgotten |
| tmux pane | Enter follows a paste by up to 20 s, or fails; retries and leases that lapse meanwhile | one text per submitted line |
| proxy link | heartbeats, restarts of both sides and the stale timer cross | a running proxy is usable again |
| personas | four writers of file and row, the watch's hash taken apart from the sync | deleted agents stay deleted; rows follow files |
| frontmatter | a line-by-line parser and two writers that put lines together again | no field is lost or promoted |
| reminders | the timer and a completion promote the same reminder; swaps and deletions | one reminder is first; it is delivered, once per cadence |
| Telegram | a poll loop that is replaced while it waits; shared tokens | one loop per bot; no update is lost |
| pages, stores, files | handlers cut at their bodies, failed writes and crashes between disk and row, broken uploads | rows say what is on disk |
| WebSocket frames | chunks cut anywhere; three header lengths; a limit on the buffer; silent peers | each frame handled once, at once, in order; silent peers leave |
| voice | several sessions' timers, errors and closing sockets cross | a stopped recording's session ends |
| dashboard | snapshot against live updates; watermark; late answers; optimistic rows; pages that are left | no gaps, nothing twice, the view settles on the server's state and on its own agent |
| sketch | frames that hold other shapes in any order, unknown ids | each shape is drawn once, where declared |

The hazards, each with its line and the properties that would catch it, are listed in
`PROJECT.json`. Some lines have no entry of their own there since the entry of a neighbour
covers them (each entry names the lines it stands for); section 5 lists the few hazards
that no run covers.

## 2. The modules

    Lease   <-- refines -- AgentLock   <-- AgentLock_proofs    MCAgentLock
                           Lifecycle   <-- Lifecycle_proofs    MCLifecycle
    Mailbox <-- refines -- Dispatcher  <-- Dispatcher_proofs   MCDispatcher
                           HealthMonitor <- HealthMonitor_proofs  MCHealthMonitor

    Services = NetworkRestore | ProxyLink | Reminders | Voice | WsFrames
               <-- Services_proofs                             MCServices
    Moving <-- Server   = TelegramBots | Personas | Launch | UsagePoller | Artifacts
                          | TmuxPane | Threads
                        <-- Proxy_proofs     Launch, Artifacts, TmuxPane, Threads
           <-- Browser  = DashboardSync | DashboardFeed | Composer | Watch | Selection
                          | PersonaEditor
                        <-- Dashboard_proofs
    Clients  = Server | Browser | Frontmatter | Sketch
               <-- Routes_proofs      TelegramBots, UsagePoller, Personas, Sketch;
                                      Clients implements Server and Browser    MCClients
                           DashboardFeed (alone, for DashboardFeed_older)

`Lease` and `Mailbox` are abstract: what a caller may rely on, with nothing of how it is
achieved. The detailed modules are translated from the code, and the map in `PROJECT.json`
gives the lines of each definition. Definitions marked `\* mutant` are no part of a
specification: each is a plausible wrong version of the definition that follows it.
The components of `Services` and of `Clients` share no state; one run explores the sum of
their state spaces, a behaviour being one of the component that `part` names, and a proof
about one of them is a proof about the behaviours of its part. The constant `Parts` restricts
a run to some of them. `Server` and `Browser` are the two halves of `Clients` about which there
are proofs, `Moving` is what these have in common. TLC explores `Clients`; the proofs are of
`ServerSpec` and of `BrowserSpec`, since a prover's work on an obligation grows with the
definitions in scope, and `ClientsAreBoth` carries them over. `Places` chooses places of a
sequence and sorts by rank, for Composer, PersonaEditor and Sketch. `MCServices` and `MCClients` only give
values to constants, so that the runs and the proofs are about the same definitions.

### AgentLock (shared/lock.ts)

| TLA+ | code |
| --- | --- |
| `by[a]`, `left[a]` | the row of `agent_locks`: `locked_by`, `expires_at - now` |
| `pc[c]`, `waited[c]` | where a call of `lock()` is, `now - start` |
| `held`, `sawOwners` | history: how long the lock is held, which owners made the call wait |
| `Attempt` (in `Lock`, `Poll`) | one turn of the loop: `deleteExpired`, `INSERT OR IGNORE`, or throw, or sleep |
| `Unlock` | the `finally` of `withLock`: delete the row with this agent *and* this lock id |
| `Restart` | the process dies: calls vanish, rows stay |
| `Tick` | time; everything that depends on time is relative to now |

### Lifecycle (lifecycle.ts, agent-entity.ts, and what races them)

One agent, since agents share only the lock table, and any number of calls `Op`.

| TLA+ | code |
| --- | --- |
| `state`, `sid`, `captured`, `tmux` | the agent's row; `absent` is no row |
| `current` | the calls whose copy of `version` is up to date: every write empties it |
| `lock` | the lease, with `Lapse` for an owner that outlives it |
| `pane` | the tmux session: gone, a shell, or the conversation whose CLI runs in it |
| `pc[o]`, `kind[o]`, `lsid[o]`, `wd[o]` | a call: next step, function, session id it launches, watchdog timer |
| `evicted` | history: calls whose claim somebody else ended |
| `Claim` | phase 1 of `spawn`, `resume`, `suspend`, `reload`, `recover` |
| `Probe`, `Exit`, `KillOld`, `Clean`, `Create`, `Launch` | phase 2, one step per proxy command, no lock |
| `Final`, `MarkCreateFailed`, `Throw` | phase 3, the failed creation, and an exception; all clear the watchdog (`Disarm`) |
| `Fire`, `WatchdogCheck`, `WatchdogKill`, `WatchdogThrow` | `startWatchdog`: fire, take the lock, mark failed, kill the session |
| `Hold`, `KillSession`, `PasteKeys`, `Finish` | operations that hold the lock throughout |
| `MonitorActivity`, `MonitorFail`, `MonitorHeal` | what the health monitor writes, without the lock |
| `RemoveProxy`, `UnregisterProxy`, `RegisterProxy`, `ProbeSession`, `SelfHeal` | stale-proxy clean-up (`main.ts`), the proxy routes and `recoverFailedAgents` |
| `CreateAgent`, `CliExit`, `Lapse` | an agent created again after a destroy; the CLI ends by itself; the lease ends |

`Dispatch(effect, ok)` is `proxyDispatch`: it never throws; `ok` may be false although the
command took effect, because an answer can be lost.

### Dispatcher (message-dispatcher.ts, and the queue in database.ts)

One receiving agent, messages `1 .. Last` in order of arrival. A row keeps `status`,
`retry_count`, the time until `next_attempt_at` and the time since `last_attempt_at`.
A delivery is three steps, cut at its two awaits: `Begin` (choose the oldest row that is
due, mark the attempt, set `deliveriesInFlight`), `Paste` (`deliverToAgent` has the lock
and the proxy has been asked) and `Succeed`, `Fail` or `GiveUp` (record it, and schedule the drain);
`LockTimeout` is the exception instead of `Paste`. `GiveUp` only marks the row failed: the auto-reply
is another statement, `Report`, which may fail, and before which the process may die (`untold`). `TryDeliver` is taken by
`Enqueue`, `Withdraw`, `IdleDetected` and `Sweep` in the same step as what triggers it, as
in the code; `DrainTurn` is the timer. `OtherSweep` is `resetStaleAttempts` run by another
agent's delivery. `Crash` forgets flags, timers and calls, and keeps the rows.

### HealthMonitor (health-monitor.ts)

One agent and the polls `Poll` that can be under way, cut at their two awaits: `Begin` (which
agents a poll of its kind takes), `Handle` (the answer about the last output, then the one about
the pane: `OnActivity`, `OnNoPane`, `OnPane` with exit, diff and grace, `OnFailedPane` with the
heal, then `ClaimReload` for a queued reload). A screen is numbered by the output that made it, with
what the engine's patterns tell apart (`work`, `asking`, `shell`). `mem` is the monitor's maps, which survive a write of the row that
throws; `fresh` is the polls whose version of the row is current. `Operations` are the lifecycle's,
reduced to a state `busy` that ends; `Recover` is `maybeAutoRecover`'s call.

### NetworkRestore (network.ts, the end of main.ts)

`Shutdown`, `Crash`, `ShutdownByRequest` end a process; `BeginRestore` reads the list
(`snap`); `Check(a)` is the look at one agent with its session probe (`adopt`, `again`);
`ClaimResume`, `Create`, `EndResume` and `Skip` work the resumes off one by one. `UserClaims`,
`UserEnds`, `UserKills`, `MonitorWrites`, `SessionEnds`, `ProxyLost` and `ProxyRegisters` happen in
between. A write with a stale version ends the restore (`phase = "aborted"`).

### ProxyLink (proxy/main.ts, main.ts, proxy routes)

`Discover`, the registration and `Heartbeat` are requests in `calls`, handled (`Handle`) or lost
(`Unreached`) in any order; their answers are `Registered`, `HeartbeatDone` (re-registers on
"unknown"), `Deregistered`. `RemoveStale` is the orchestrator's timer; `Stop` and `Restart`,
`Shutdown` and `Crash` end either side. Time is in heartbeat intervals.

### TmuxPane (proxy/tmux.ts, proxyDispatch, deliverToAgent)

`Paste` and `Enter` are the two commands of `pasteText` with a delay between them that grows with
the text; `Start`, `Retry`, `Answered`, `GiveUp` are the three tries of 15 s, and `lease` is the
lock's row, which may lapse under its owner. A command that fails ends the attempt: `Refuse` when nothing
was typed, `Break` when the text is in the line already. `Lose` is a request that is refused at once (the next
try follows) or lost without a word (the caller waits out its 15 s). `late` remembers who gave an
attempt up.

### Launch (hook-resolver.ts, lifecycle.ts:51-500, adapters, accounts.ts, engine-profiles.ts)

`ResolveHook` makes the steps of a hook (preset, shell, steps with pastes, keystrokes,
captures), a function (`SpawnAgent`, `ResumeAgent`, `ExitAgent`, `Relaunch`, `ExecuteCustomButton`)
types them one by one (`DispatchStep`), and `Submit` is what shell or CLI make of a line. A session
id comes from the row, from `captured`, from `randomUUID` or from the CLI (`Named` is the resolver's
fallback from the first to the second). What hooks a user may
write is `LaunchAssumption` (section 4).

### UsagePoller (usage-poller.ts)

`Perform(k)` is the proxy that does what poll `k` asked, the other actions are the poll that reads
an answer and goes on: recycle, adopt (`HasOld`), look for another's session (`HasNew`), create,
launch, wait, ask. `Cleanup` kills when the process stops.

### Personas, Frontmatter, PersonaEditor (persona.ts, persona-backfill.ts, routes; dashboard/persona.ts)

`Personas` has files, rows and teams, the watch (`Poll`), the sync with its throw in the middle of
the list (`Reconciled`), and every route that writes a file or a row. `Frontmatter` has the lines of one file:
`Fields` is the parser, `Saved` what the structured editor writes, `UpdatedField` the rewriting of
one line. `PersonaEditor` is the page they are edited on: `Show`, `Loaded`, `Type`, `Pick`,
`TimerFires`, a preview's two awaits (`PreviewAnswers`, `PreviewRead`) and `Submit` with its three requests (`PutReturns`, `TokenReturns`,
`ReloadReturns`), each of which may find another page; `SetTelegram` and `ChatOf` are the writer
and the parser of the one block that has widgets of its own.

### Reminders (reminder-dispatcher.ts, database.ts, routes)

The table and its handlers; `Tick` delivers what `listDueReminders` returns, `CompleteReminder`
deletes and delivers the next. `Pass` is time.

### TelegramBots (telegram.ts, routes.ts:3588-3930)

`Answered(k)` and `Unanswered(k)` are one `getUpdates` of the loop with key `k`, with the answer
received or lost; `Reconcile` compares `lastAppliedBots` with the tokens and routings of the
agents, and is part of the handlers that call it.

### Threads and Artifacts (routes.ts, database.ts, proxy/main.ts)

A handler runs to its end without an await, but each statement is a transaction of its own:
`todo` (`row` in Artifacts) is what is left of it, `Execute` (`WriteRow`) the next statement,
`Restart` (`Crash`) the end of the process between two. `Threads` pages back with `ReadFirst` and
`ReadOlder` over `GetMergedMessages`, the query behind the feed. `Artifacts` cuts its handlers at bodies,
imports and streams.

### WsFrames (websocket-server.ts)

`OnData(n)` appends `n` bytes and takes off every whole frame; lengths are numbers of bytes, headers
have their real sizes. `Ping` is the timer.

### Voice (dashboard/voice.ts, voice-proxy.ts)

A session is a number; `Press`, `Granted`, `Resumed`, `Commit`, `TimerFires` and the socket's events
are the browser; `Upgrade`, `UpstreamOpens`, `Ends`, `UpstreamError` the relay.

### DashboardSync, Selection, DashboardFeed (connection.ts, state.ts, sidebar.ts, search.ts, chat.ts; main.ts:408-478)

`DashboardSync` is about messages: the snapshot of a connection after the watermark `since`, events
for the subscribed agents, and the cache that survives a reload. `Selection` is about what is
selected, by every click that changes it, and the subscription that follows (`Emit`).
`DashboardFeed` is the list that is fetched page by page: one fetch at a time, two debounce timers.

### Composer (chat.ts:36-1582), Watch (watch.ts, routing.ts), Sketch (shared/sketch-*.ts)

`Composer`: `HandleSend` parses targets and topics (`ParseComposer`), `Spawned`, `Accept` and
`Answered` are its awaits. The server stores and broadcasts a text as `SanitizeMessage` leaves it;
`OnMessage` replaces the optimistic row with that very text: it looks through the last `Window` of them, and a row further up stays beside its message for good (`buried`; three rows that wait
are enough for a window of two, eleven in the code). `Watch`: a page has a number,
peeks and intervals keep the agent they were begun for, and find whichever page is there.
`Sketch`: three functions of the shared modules over every short list of shapes of every kind. `Placed` is
the loop of `layoutSketch`, its two passes being one list in the order of `NotBefore`; `Behind` is
the stable sort of what is drawn.

## 3. The runs

| run | instance | what it shows |
| --- | --- | --- |
| `AgentLock` | 3 calls, 2 agents, lease 1 tick, time-out 2 ticks | the table implements `Lease`; a holder within its lease is alone; `lock()` throws only after *two* owners came in between; a waiting call is granted the lock unless that happens |
| `Lifecycle_claims` | 2 calls of any function, all faults | two calls in phase 2 mean that one was evicted; an intermediate state has a call or an exception behind it; a suspension ends only with a resume or destroy |
| `Lifecycle_session` | 3 calls of any function but kill, watchdogs at any time, no other fault | a running agent runs the conversation its row names; a reload continues that conversation |
| `Lifecycle_liveness` | 2 calls that may hang anywhere, lapses, proxy errors | no intermediate state lasts: the watchdog ends it |
| `Dispatcher_order` | 2 messages, 2 callers and the drain loop; lock time-outs, withdrawals, an agent that leaves, sweeps | nothing is sent twice; a message is overtaken only after an attempt of its own failed |
| `Dispatcher_outcome` | the same with proxy errors (0, 1 or more pastes whatever the answer), crashes at any point and reports that fail | every failure is withdrawn or reported, but for a report that a crash or an error cut off; what is recorded is true; `Mailbox` is implemented |
| `Dispatcher_liveness` | 1 message; the code's own intervals and limits (20 drain turns, 60 s stale, backoff 30 s to 8 min, 5 retries); crashes, absences, proxy errors | drain loop, idle detection and start-up sweep leave no message behind, also one that waits for its backoff, *unless* the drain loop reaches its last turn or somebody about to deliver finds a stale row. Both are real ends of the code's promise: the third backoff alone (2 min) is as long as the 20 turns of the drain loop |
| `HealthMonitor` | a full and a fast poll that overlap, a user's operation, exits, proxy losses; an engine with detection patterns and auto-recovery | polls do not touch an agent that is being worked on or was stopped; an exit is noticed; a queued reload runs |
| `Services` | see below, each with fairness | restores end and bring back what ran; a proxy that runs is usable again, or lives on its predecessor's row (section 6); one reminder is first and is heard; sessions that serve no recording end, or are one of the exceptions the code makes (section 6); frames are handled whole, at once, and silent clients leave |
| `Clients` | see below | `UpdatesAreHeard` (bots), `RowsFollowFiles` (personas), `FieldsAreKept` (frontmatter), `StartedAsItself` (launch), `SessionsAreTracked` (usage), `KeptWhole` (pages, stores, files, uploads), `OneTextPerLine` (pane), `ThreadsAreTrue` (threads), `NoGap` (messages; what is selected is heard and exists), `FeedIsCurrent`, `SentAndSettled` (composer), `PagesAreTrue` (watch page; persona editor: own file, token after save, current preview, telegram block), `DrawnAsDeclared` (sketch) |
| `Dispatcher_stale`, `DashboardFeed_older` | | counterexamples to what the source says of itself: section 6 |

Each property of a passing run has at least one mutant, a plausible bug in one mapped definition
under which TLC finds the property violated.

### Bounds, and why they are enough

* **AgentLock**: two calls compete and the third is the second owner that
  `TimeoutNeedsTwoOwners` is about; two agents show that a sweep on behalf of one leaves the
  other's lease alone. The code's 30 s and 60 s become 1 and 2 ticks. The
  properties depend on `Timeout >= Duration` only, which is what the proofs assume.
* **Lifecycle**: two calls are the smallest number that race; three let a watchdog's kill, the
  evicted call and a third one overlap. Three calls with all faults are
  beyond a few minutes of TLC; there the proofs take over, which hold for any number. A call
  is made once (`pc` never returns to `new`), which bounds the sequence of operations, not
  their overlap. Deadlock checking is off for these runs: when all calls are done and
  nothing else happens, the model stops, as the program rests. A watchdog may fire at any time
  while armed: timers are not counted, which includes every order the real 30 s allow.
* **Dispatcher**: two messages are needed for order and three processes (two callers, one
  drain loop) for every pair that can compete. The safety runs shorten the intervals to
  `<<2, 4, 8>>` ticks and stale after 2, keeping their order (the backoff of the first failure
  does not exceed the stale limit, the later ones reach or exceed it). A row has ages and retry counts up to one past
  their limits (`StaleAfter + 2`, `MaxRetries + 1`), beyond which no comparison tells
  values apart; `copies` counts to 2, "many". `Slow` bounds how many ticks one delivery takes
  (lock time-out 60 s and three tries of 15 s at the proxy are at most 18 ticks; 2 in the
  liveness run, where the point is the clocks of the queue and not a slow delivery; 12 in
  `Dispatcher_stale`).
* **HealthMonitor**: two polls are what the two intervals can overlap; `MaxScreen = 3` outputs
  let a screen change, stay and change again around each await; one operation of a user besides
  the reloads and recoveries the monitor starts itself; both grace periods are one tick.
* **Services.** NetworkRestore: two agents (one that fails and one that must not suffer), one
  stop after the first start, one interference, any answer of the proxy. ProxyLink: a row is
  stale after 2 heartbeats, two proxy processes (the successor and its predecessor's row), two
  requests under way, two losses or restarts. Reminders: one agent (the table is per agent)
  with three reminders, so that the middle one can go. Voice: two sessions, four presses.
  WsFrames: two frames of 12 kinds, with payloads at the edges of the three header lengths and of
  the 1 MB limit, real byte counts, cuts at and around the ends of headers and frames.
* **Clients.** Two agents wherever one can be taken for another, one where the state is per
  agent (Launch, Frontmatter, TmuxPane). Bots: two tokens to rotate between, two destinations that may
  share one, three changes.
  Personas: three teams, one of them too long to be made, two operations besides syncs and
  restarts. Frontmatter: every file of up to 4 lines of 12 kinds. Launch: eleven configurations
  (each engine, account, presets, hooks of each shape, and two whose ids look known and are not: a
  codex start hook that names `$SESSION_ID`, and a preset start beside a resume hook that
  captures), five calls. UsagePoller: both callers, two
  proxies, one lost answer or crash. Artifacts: two requests for one thing each, two pages so that a file's
  name can lead from one into the other, three operations. Threads: an agent that was never spawned and one with a bot, page size 1, so
  that every boundary of a page is met. DashboardSync: three messages, two connections, so that a
  watermark can be stale. DashboardFeed: page size 1, two clicks. Composer: two sends that
  share an agent, with words of their own or the same, which the server may alter, one of them with two topics, one agent that is not subscribed, a window of two rows
  (10 in the code), so that a message does find its row past it. Watch: two peeks in
  flight. Selection: a team of both agents, two clicks, two changes of roster or connection.
  PersonaEditor: two visits, an edit, a save, a failure, a file for each of two agents. TmuxPane:
  ticks of 5 s, one text longer than 15,000 characters, one request or answer that is lost or command that
  fails with its text typed. Sketch: all lists of up to 3 of 21 shapes.
* Deadlock checking is off where a bound or the program's rest ends a behaviour.

### Fairness

* `AgentLock`: weak fairness of `Tick` and of each `Poll(c)`: the clock runs and
  `setTimeout(50 ms)` fires. None for `Unlock`: an owner need not ever finish.
* `Lifecycle`: weak fairness of the watchdog's steps (a timer fires, `lock()` polls, a proxy
  command ends because `fetch` has a time limit) and of the operations that hold the lock
  throughout, for the same reason. None for phase 2, so an operation may hang for ever.
* `Dispatcher`: weak fairness of `Tick`, of the timer, of the end of each delivery step, of
  restart (a supervisor restarts the process), of the start-up sweep, and of idle detection
  (the health monitor polls). None for enqueueing, leaving, coming back or crashing.
* `HealthMonitor`: weak fairness of the interval polls' `Begin` (`setInterval`), of `Handle`
  (`proxyDispatch` always answers), of `Recover`, of the end of an operation (the watchdog, see
  `ClaimsEnd`) and of `Tick`. None for output, exits, losses or users.
* `NetworkRestore`: weak fairness of the restore's own next step: every await in it has a time
  limit. `Reminders`: `Tick` (an interval) and time. `ProxyLink`: the proxy's loop, timers,
  requests that end, and an orchestrator that is started again. `WsFrames`: the ping
  interval. `Voice`: timers, and that a socket that was closed says so.
* `Clients` has safety properties only and needs none.

## 4. What is proved

All of it for every value of the constants (any number of calls, agents, messages, requests
and faults, all durations) under named assumptions, one per component, that every run
evaluates: `AgentLockAssumption`, `LifecycleAssumption`, `DispatcherAssumption`,
`HealthMonitorAssumption`, `ServicesAssumption`, `ServerAssumption`, `BrowserAssumption` and
`ClientsAssumption` (of sketches), the three before it being the conjunctions of those of their components. Most say that a bound is a number and that `None`
is none of the values it stands beside; the others are named below. Nothing is assumed about
the code beyond the modules.

| module | theorems | property of a run |
| --- | --- | --- |
| AgentLock_proofs | `TypeCorrect`, `LeaseIsKept`, `MutualExclusion`, `OneOwnerNeverTimesOut`, `Refinement` | `ExclusiveWithinLease`, `TimeoutNeedsTwoOwners`, `LeaseSpec` |
| Lifecycle_proofs | `TypeCorrect`, `ClaimsExclude`, `NoOrphanClaim`, `SuspensionHolds`, `WatchdogExcludesNewSessions`, `ActiveSessionOnRecord`, `ReloadContinues` | `OneClaim`, `ClaimIsOwned`, `SuspendedUntilResumed`, `ActiveRunsItsSession`, `ReloadKeepsConversation` |
| Dispatcher_proofs | `TypeCorrect`, `DeliveriesExclude`, `AtMostOnce`, `NoSilentFailure`, `OutcomesAreTrue`, `SettledForGood`, `OrderIsKept`, `Refinement` | `DeliveredOnce`, `FailureIsReported`, `OutcomeIsTrue`, `OvertakenOnlyAfterFailure`, `MailboxSpec` |
| HealthMonitor_proofs | `TypeCorrect`, `PollsStayOut` | `PollsKeepOut` |
| Services_proofs | `OneReminderIsFirst`, `RestoreSeesToAll`, `SocketKeepsUp` | `OneIsFirst`, `RanRunsAgain`, `KeepsUp` |
| Routes_proofs | `BotsAreHeard`, `UsageSessionsAreTracked`, `PersonaRowsFollow`, `SketchesAreDrawn`, `ClientsAreBoth` | `UpdatesAreHeard`, `SessionsAreTracked`, `RowsFollowFiles`, `DrawnAsDeclared` |
| Proxy_proofs | `ArtifactsAreKept`, `TextsAreApart`, `LaunchesAsItself`, `ThreadsStayTrue` | `KeptWhole`, `OneTextPerLine`, `StartedAsItself`, `ThreadsAreTrue` |
| Dashboard_proofs | `PagesStayTrue`, `DashboardHasNoGap`, `DashboardFeedIsCurrent`, `ComposerSettlesWhatIsSent` | `PagesAreTrue`, `NoGap`, `FeedIsCurrent`, `SentAndSettled` |

**AgentLock.** Mutual exclusion alone is not
inductive: that two holders cannot both be within their leases needs to know that a holder
within its lease still has its row and that the row expires when the lease does
(`HolderRow`), that a row's owner is a call that was granted it (`RowsAreGranted`,
`OwnersWereGranted`), and for the time-out that as long as a poller has seen one owner, that owner's row
runs out no later than the poller's patience (`SoleOwner`, which needs `Timeout >= Duration`).
`IInv` is their conjunction.
The refinement maps an expired row to no row; `deleteExpired` then is a stutter.

**Lifecycle.** The first four theorems hold with every fault allowed.
`OneClaim` is inductive only together with `HoldsClaim`: a call in phase 2 that was not
evicted finds its own claim in the row. Then two such calls would have the same state, which
none of the functions claims from (`From(k)` has no intermediate state).
`WatchdogExcludesNewSessions` (`FailedWhileKilling`) excludes `lapse`, `monitor` and
`proxyLoss` from `Fault`, by an assumption in its statement: a lease that runs out, a heal check
or a self-heal can end the failed state during the watchdog's kill, and the code has
nothing against that. Its invariant `LockInv` says who owns the lock.
`ActiveSessionOnRecord` and `ReloadContinues` are about calls whose claim nobody took away, when
commands take effect (`Fault = {}`) and with any number of calls and
watchdogs at any time. `SessionInv` says what each call in phase 2 has done to the pane so far
(`Smooth`), that a reload works on the conversation it found (`Holding`), and that pane and row agree
unless a watchdog or a finalizer is about to say otherwise (`Doomed \/ Agrees`). The second hypothesis, no
kill beside a `SESSION_ID` capture, is needed: a kill whose guarded write is overtaken by a
capture fails after the pane is gone, and leaves an active row without a session.

**Dispatcher.** All with every fault allowed, but `AtMostOnce` (`DeliveredOnce`), which is for
`Fault` without `pasteError` and `crash`: a lost answer or a crash between paste and record
does send a message twice, by design. The proofs split each step into what a trigger may do
(`Asks`: rows only gain what senders ask for, and at most one is taken in hand when none was)
and what the end of a delivery does (`Ends`). `IInv` adds to the type and to `OneDelivery` that
the row in hand is pending or was withdrawn, and was sent if the proxy confirmed it
(`InHand`); `OnceInv` adds `Unsent`, `OutInv` that nothing in hand has been reported, nor counted as
untold, and that what was given up is reported, untold, withdrawn or being reported. `NoSilentFailure`
holds with every fault; without `crash` and `replyError` it says that every failure is reported. For
`OrderIsKept`, `InOrder` says that what is in hand has no older row that is due and
unattempted, and `Tidy` that a row never attempted is always due: that is why a backoff, and
nothing else, lets a message pass. The refinement maps the row in hand to the mailbox's current message.

**HealthMonitor.** `PollsKeepOut` is an action property: it needs that the copy of the row a poll
goes on with after an await is of a state its kind of poll is for (`WatchesAState`), that a current
version means a current state (`FreshIsCurrent`), and that somebody works on a busy agent
(`BusyHasAnOperation`). `Judges` says what a verdict may do to the row, whatever the poll saw.

**Services.** `OneReminderIsFirst` rests on `InOrder`: no two reminders of an agent have the same place in
its order, through creations at the end, swaps and deletions. `RestoreSeesToAll` needs what restore will find of an agent
that ran when it gets there (`AsLeft`), what may become of it afterwards (`SeenTo`), that nobody
but restore or the user has claimed it, and that the lists of the second loop are complete.
`SocketKeepsUp` is about a loop whose every turn takes a whole frame off the buffer. `SocketInv`:
what has left the buffer ends with a frame (`Whole`), no later frame has arrived in full unless the parser
is stuck on one it must refuse, and an overflow means such a frame or one that nearly fills the
buffer. The ends of the frames are a recursive function, and that it exists is proved first, from the
well-founded order of the numbers. Assumed: the length of a frame is a number of bytes.

**Routes.** `BotsInv`: every agent and destination has the loop its last reconcile gave it
(`LoopsOnRecord`), tokens of agents are apart from those of others (`Apart`), and what a loop has behind
it was handled (`Behind`). `UsageInv`: a session that is alive is tracked, lost, or what a poll is
about to track (`SeenTo`), and a poll that makes one aims at the proxy it chose (`Aimed`).
`PersonasInv`: `RowsFollowFiles` with the types, that a file a user wrote is there, and that none was written
before the first sync.

**Proxy.** `ArtifactsInv`: rows say what is on disk unless spoiled or next to be written (`RowsSettled`),
the row that is next says what is on disk now (`RowIsTrue`), and while uploads run their file is not whole
(`UploadsRun`). A page is spoiled from the failed write, the stray file or the crash that changed it without
its row until it is published or deleted again. `PaneInv`, for a call under the lock that gave up no attempt and of which none failed with its text in the
line: it has one request at most and awaits it (`OneAwaited`), the lock's row is its own for as long as the rest of
its time limit (`HoldsLease`), and its text stands in the input line only while it waits for Enter
(`StandsWaiting`). It needs `Timeout < Lease` (15 s against 30 s).

`ThreadsInv`: unless a crash spoiled something, an entry of the queue that is no report of a failure has
its row, or is the last and the handler still owes it (`EntriesShown`), a row to an agent names an entry (`RowsLinked`), the message of a
withdrawn row is settled and its sender is told or is about to be (`WithdrawnAreTold`), and what was
accepted has a row each, but for the one that is owed (`AcceptedHaveRows`); `TodoIs` says what is left of the handler that runs, and `ReaderIsAhead` that a
reader has seen every message above its cursor that was there when it began. It assumes that a page
has at least one row.

`LaunchInv` follows the agent's conversation through three places: the pane (`Found`, `OnScreen`), the
row (`RowNames`) and `captured_vars` (`NothingCaptured`, `LeftCaptured`, `LaunchCaptured`; one for each way in which
an id may come to be known). `TodoShape` says what the steps still to be typed may do to the CLI,
`Exported` and `Prompted` that a CLI runs with the name and with a persona no older than its launch, and
`Continuing` that a resume or a reload either runs the conversation that was left or has the step
that starts it still to come. `LaunchAssumption` says of an agent's hooks: each step is one that can be
written; ids in it are left open (`$SESSION_ID`, not somebody else's id); only the start and resume
hooks start a CLI; a line pasted to start one is entered next; and the exit hook ends it. Nothing in the code
enforces these, since hooks are free text: where an exit hook leaves the CLI running, the next
launch is typed into the old conversation. Of such agents the theorem says nothing.

**Dashboard.** `WatchInv`: the page in view has the one interval and its own agent's terminal and
state, and a peek brings the screen of its agent (`PeeksAreOwn`). `SyncInv`: below a held message none of
an agent that was always subscribed is missing (`NoneMissing`, also of the cache), a connection has
what is up to its watermark (`HasOlder`), and the events under way bring the rest in order, behind the
snapshot (`BringsRest`). `ChoiceInv`: what is selected is in the last subscription sent, or
that is still to be sent (`WillBeHeard`); a destroyed agent is no longer known. Messages are
added by `Merge`, whose watermark is the greatest id; `NewestOf` says so. `FeedInv`: unless the last
first page was dropped, the feed and the fetch under way are of the selection (`FeedType`); what will not
be fetched again, and is not being fetched, has the newest page (`HasNewest`), which a new message only
leaves behind together with a refetch; and what will not be rendered again is shown (`IsShown`).
`RankExists` shows, from the well-founded order of the numbers, that a finite set of rows can be listed
newest first, as the query does.

`ComposerInv`: no file is staged, on its way or sent twice (`FilesApart`); the server's
messages were posted, each pair of agent and topic once (`LogIsSent`); and of an agent that missed
no message, every row in its thread is of a post, has its message's id or waits, and what has no row
yet is on the socket (`RowsAreSent`). A row that waits is the one of a pair whose answer or message
is still owed, or the text is one that the server alters, while no message took the row of another
(`RowsAreOwed`). When one did, since rows are found by
their text alone, only a count is left: the rows that wait map one to one into the pairs owed with
the same text (`RowsHaveShare`, an injection, while no post was refused). So when nothing is owed no row waits
but those of altered texts.
`Picked` takes places of a list by their rank, where a recursive selection could not be reasoned about.
Assumed: what is typed is a list of tokens.

`EditorInv`: a save past its first request has its file among those written (`SavesAreOwn`), and the
last preview asked for is on its way (asked, or its body awaited), or shown, with what a save would write now,
unless the change was not heard, another editor's answer took its place, or the body of an earlier answer was
drawn over it (`PreviewsAreLast`).
That the telegram block is replaced and nothing else is `WithoutBlocks` and `BlockIsSet`: as many
hooks as before, one block at most, and the chat that is read back. Assumed: `None` is no number and
no editor, and a file is a list of lines.

**Sketch.** `SketchInv`: what was laid out is as declared, and what was planned has each shape once. The loop
is followed by `LaidOut`, which speaks of the first n shapes of the order: each has a box, the cursor
is past every box that flows and is no frame, and a frame that has been reached is around its children (`Wraps`).
A frame finds them because in the order they come first, and the last shape with an id is the one it
finds, so unique ids are needed for no more than that. `RankedIs` shows that ranks list a finite ordered set, each
element once, and `Recursion` that the loop's recursive function exists. Assumed: a shape's `z`
is a number or absent, its children are finitely many ids, and `None` is none of these.

**Clients.** `ClientsAreBoth` is a refinement step by step: an initial state and a step of `Clients`
are those of `Server` and of `Browser`, whose variables are among its own.

**What attempted proofs showed.** Four properties were true of the bounded instances and
false in general; each was a wrong statement or a wrong model, and is now what the code does:

* `OneConsumer` does not hold of two destinations with the same token, which nothing compares; it is about the bots of
  agents, and the run has two destinations.
* `SessionsAreTracked` failed with three faults: a poll that forgets a session may forget the one an
  overlapping poll has just made on another proxy (`Remade`).
* `StartedAsItself` took an id for known in two cases where it is not. A codex start hook that names
  `$SESSION_ID`, and a kill: the next resume starts without an id. A preset start, beside a resume hook
  that captures: a reload prefers the older, captured id. Both are now configurations of the run. A
  hook that starts a CLI by keystrokes does so before the name is exported, so that the export is
  typed into the CLI; such agents are now an exception of `AgentKnowsItself` (`Keyed`).
* In `TmuxPane` a lost request was always noticed by its caller at once; a request that is lost without a
  word, and whose caller waits out its time, is now a case of `Lose`.

The recursion-free style (`CHOOSE` of a least or greatest element, functions instead of recursive
operators) keeps the provers applicable. Existence of a least element rests on the library's theorem that
`<` is well-founded on the naturals.

## 5. What is only model-checked, and what is not modelled

Only model-checked:

* all liveness properties (`WaitIsGranted`, `ClaimsEnd`, `SettlesIfInTime`, `ExitNoticed`,
  `QueuedReloadRuns`, `RestoreEnds`, `LinkIsRestored`, `FirstIsHeard`, `SessionsEnd`,
  `SilentIsRemoved`): liveness under fairness is out of the prover's reach;
* `FieldsAreKept` (Frontmatter): what a parser makes of a list of any length is induction over
  data. Frontmatter compares the fields of a file before and after a save, both found line by line with folds,
  and their lines need not be in the same places.

Defined in the modules and
true of the instances, though no run lists them: `SubmittedIfDelivered` (TmuxPane),
`DueIsOver` (Reminders), `HandledOncePerLoop` (TelegramBots), `EachOnce` (DashboardSync),
`QuietBecomesIdle` (HealthMonitor), and each `TypeOK`. Proved and no longer run:
`HolderKeepsItsLease`, `FailedWhileKilling`, `SettledIsFinal`, `OneDelivery`.

Hazards that no run covers, besides the notes in `PROJECT.json`:

* `lock.ts:71`: calls are not granted the lock in the order in which they came; only the wait is bounded.
* `message-dispatcher.ts:201`: the drain loop ends after 20 turns; `SettlesIfInTime` takes it as an end.
* `message-dispatcher.ts:287`: the auto-reply to an agent waits for that agent's next trigger; one that a crash
  or an error cuts off is not made up for (the exception in `FailureIsReported`).
* `lifecycle.ts:1389`: a kill whose write throws leaves the row; the monitor notices only a pane that shows a shell.
* `routes.ts:172`: self-heal and a watchdog's kill; proved absent without proxy losses only (`WatchdogExcludesNewSessions`).

Left out of the modules on purpose:

* **Lifecycle**: the text of commands and hooks (Launch has what they carry); the queued
  reload flag (HealthMonitor); captures made by custom buttons (Launch); the proxy's tmux
  server itself. The health monitor's decision to write is left open: it may write whenever
  the state and the session permit.
* **Dispatcher**: the cool-down after lifecycle operations. `signalLifecycleOp` has no caller
  outside tests, so `waitForCoolDown` returns at once.
* **HealthMonitor**: indicator badges and the detection regexes; they change what is shown only,
  or are the kinds of a screen.
* **Launch**: the text of a command, `/rename`, waits. **UsagePoller**: the parsers of the screen.
* **Voice**: audio, and local Whisper, which has no session. **WsFrames**: handshake, compression, coding.
* **Threads, Artifacts**: contents; and of the names of a page's files, those that lead out of all pages. **Selection**: results of a search, of which only the scope matters.

Not modelled at all: the archived dashboard (`dashboard-v2-archive/`, about 5,500 lines that nothing
loads); what only draws (HTML, overlays, settings pages, emoji, rendering of messages); the command
line client and the launcher of previews (one request each); the schema, its migrations and CRUD of
engine configs, where a row is read or written whole; types; builders of texts; the router with its
rate limit; encryption of secrets; exec, directory listings and window sizes at the proxy.

## 6. Where code and documentation disagree

Two have a run that shows them, with the details under `findings` in `PROJECT.json`:

1. *Recovers stale attempts and retries with backoff* (`README.md:573`), but a stale row
   is pushed 30 s ahead before every turn and is never delivered nor failed (`Dispatcher_stale`).
2. *Messages are stored newest-first* (`chat.ts:406`), but an older page is put behind in the
   order in which it came; the cursor of the next one is then wrong (`DashboardFeed_older`).

Of the others, those with a name are defined in the module beside the property they would
strengthen, and TLC refutes them when they are put into the run of that module; the rest were met
while modelling.

*Lifecycle, delivery, monitor.*

* Intermediate states act as claims (`lifecycle.ts:12`), but a claim does not name its owner:
  spawn and recover share `spawning`, suspend and reload share `suspending`; an evicted call
  finalizes the claim of a later one (`FinalizesOwnClaim`, `lifecycle.ts:438`).
* Kill works on any state, including transitional (`lifecycle.ts:1373`), but a call in phase 2
  goes on and launches a CLI after the kill (`KilledStaysDown`).
* Watchdogs prevent hung operations from blocking agent state (`README.md:664`), but an
  exception in phase 2 clears the watchdog and leaves the intermediate state (`lifecycle.ts:675`;
  `ClaimsEnd` is checked without exceptions).
* Cancel pending delivery if not yet delivered (`routes.ts:1061`), but a delivery in progress
  overwrites the cancellation with `delivered` (`database.ts:958`; `CancelledStaysCancelled`).
* An agent that has dropped to a shell is failed (`README.md:564`), but an engine without a detection
  config skips the exit check, and a queued reload (`README.md:566`) starves with it
  (`ExitNoticed` with `Patterns = FALSE`).
* Interleaving of commands in a pane is avoided (`message-dispatcher.ts:141`), but a text of more than 15,000
  characters times out at 15 s (`main.ts:111-116`), is pasted up to three times and reported
  failed, and the lease of 30 s lapses meanwhile; and an Enter that fails leaves the text in the line, to be submitted
  with the next one (`NeverMerged`).
* `HANDOFF.md:222` says that contention delays and does not fail; `lock()` throws after 60 s,
  and a kill or a finalization that throws leaves the row as it is.
* `killAgent` throws when an unlocked write has moved the version on during its proxy command.
* Auto-reply when delivery permanently fails (`message-dispatcher.ts:280`), but a process that ends between
  the two statements, or an INSERT that fails, leaves a failed message of which nobody is told (`untold`).
* The auto-reply to a sender that is an agent is enqueued without `tryDeliver`, against
  "tries immediately on enqueue" (`README.md:571`). `HANDOFF.md:226` still describes delivery by
  the health monitor. `deliverToAgent` does not look at the agent's state after it waited.

*Restore, proxy, bots, personas.*

* Restore all agents that were running before (`network.ts:49`): it also starts one that a user
  suspended or killed since the list was read (`OnlyWhatRan`).
* Re-registers on missed heartbeat (`proxy/main.ts:4`): `start()` goes on after a failed
  registration (`proxy/main.ts:457`), the new process's heartbeats keep the predecessor's row
  alive, and the orchestrator keeps using the old token (`ProxyIsUsable`).
* The comment at `routes.ts:3651` says "on every persona reload"; the file watcher does not reconcile bots.
* The file is the source of truth for teams (`database.ts:1548-1552`, `persona.ts:49-50`), but a
  file whose only change is its teams counts as unchanged (`TeamsFollowFile`).
* Every frontmatter key survives the editor (`persona.ts:399-402`), but of a core key that stands twice,
  once indented or with a block, the other one becomes the last and wins (`SaveKeepsFields`; it holds
  for files as they are meant, which is what the run starts from).

*Launch, usage, files.*

* A captured `SESSION_ID` is what the next resume uses (`README.md:310`), but the end of a launch
  overwrites it (`lifecycle.ts:663-672`; `CapturedIdIsKept`). Nothing clears `captured_vars`, so a
  reload after a kill and a fresh start prefers the older id (`lifecycle.ts:1099-1109`).
* The default configs of codex and opencode neither pass nor capture an id, so a resume after a
  spawn names a uuid that no CLI knows; opencode's inject no persona.
* An account's HOME is wiped at each launch (`accounts.ts:154-157`), also under a usage session that
  runs in it; launches by keystrokes are not wrapped with the agent's name; `hookReload` is never used.
* Two usage polls that overlap both launch; sessions of accounts that are no longer used stay;
  missing credentials of an account show the host's usage under the account's name.
* An upload that is aborted or too large removes the file that was there (`proxy/main.ts:323-347`); a
  store over 10 MB also refuses DELETE and DROP (`routes.ts:1524-1528`); nothing compares rows and
  disk after a crash; a broken archive, or a file that cannot be written, leaves a directory and a stale row or none. A
  file's name is joined to its page's directory as it came, so that it may name a file of another page.

*Threads and dashboard.*

* The comment at `database.ts:786` speaks of MIN(id), the query names no such column: of a message with two
  rows either may be shown, and twice across a page boundary. `hasNewer` compares with the oldest row of
  a page (`database.ts:812-820`). A crash after the flag of a withdrawal loses its notice for good.
* After the delta init nothing is missing (`connection.ts:48-52`): messages of agents that were
  not selected are, for ever (`NothingMissing`). A fetch for a new selection may be dropped
  (`chat.ts:150-154`; `ShowsSelection`).
* Escape leaves @X tokens alone (`chat.ts:1469-1472`): an agent after a topic stops being a target
  (`EscapeKeepsTargets`). A text typed while a send waits for a spawn is overwritten, a second click
  sends twice, a send that fails loses text and files, and the optimistic row of one that was
  refused may stay when the same words went to the same agent under another topic.
* Optimistic rows are replaced by the real ones (`connection.ts:312`), but by exact text: the row of a text that
  `sanitizeMessage` shortens or strips stays beside its message until the thread is loaded again.
* A watch page may go back to an older screen (`NeverBack`); `paused` outlives a page, and the listeners of
  a page that was replaced live until the watch page is left.
* Pruning keeps the selection to agents that exist (`state.ts:195-203`): a team, the end of a focus
  and a search result put gone ones back (`NothingLingers`). "No emit needed" (`search.ts:350-355`):
  after a destroyed agent emptied the selection, a result selects an agent whose messages the server does not
  send (`AllAreHeard`). Focus on a second agent while focused is ignored.
* A late load of the persona editor wires its save to the next page's buttons, so that one click saves
  both personas, and its preview supersedes the next page's (`dashboard/persona.ts:496, 550-559`). The latest request
  wins (`dashboard/persona.ts:52`), but the body of an earlier answer is drawn whenever it comes (`dashboard/persona.ts:564`). A save
  that ends navigates away from whatever is shown by then; a refused reload counts as done; unknown children of `telegram:`
  are dropped.
* Session is torn down on disconnect (`voice-proxy.ts:6`), but a dropped socket is not disconnected
  (`NoSessionIsLost`): neither is one opened after its recording was stopped, while the audio context resumed
  (`voice.ts:261-276`), until the mode is changed or the chat is left. Frames larger than 1 MB are rejected (`websocket-server.ts:13`), and so is a
  smaller one if the next follows closely (`RejectsOnlyLarger`); frames behind a close frame are still handled.
* An arrow without endpoints should not happen (`sketch-translate.ts:134`); one with a single end does,
  and is neither drawn nor reported (`NoArrowIsLost`).

## 7. Plan

What is modelled follows the code to the share that a model checker can say something about. What is
left, in this order:

1. The parser of `Frontmatter`: its fold as a recursive function over the lines, as in `Sketch` and
   `WsFrames`, with lemmas about one line.
2. A composition of Lifecycle and TmuxPane: which program reads a text that was pasted while the
   agent suspended, restarted or died.

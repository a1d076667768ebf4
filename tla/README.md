# droidcli: specifications

Droidcli is a local AI agent host: one process that keeps chat sessions, lets a
language model pick tools, asks a human before a tool with side effects runs,
queues background tasks, supervises child processes, and serves all of it to a
terminal UI and over HTTP.  This directory holds TLA+ models of it, their TLC
configurations, and proofs checked by TLAPS.

## 1. Inventory

Paths are relative to `src/`.  "Host" is `cli/host.cpp` (`DroidHost`).

| Component | State | Operations | Correct when |
|---|---|---|---|
| Agent turn and approval gate (host 3314-4088) | `agent_transcript_`, `current_session_id_`, `pending_tool_call_` | `agent_turn`, `agent_tool_decision`, session listing, history, delete | a gated tool runs once, after its own approval; the transcript mirrors the store; every call returns |
| Agent memory (`cli/memory_store.cpp`) | SQLite rows per session, lessons, locations | `append`, `load_session`, `delete_session`, ... | a session replays as it was recorded |
| Task queue (`src/app/tasks.cpp`, host 1476-1611) | `tasks_`, the claimed task | enqueue, cancel, `tick_tasks` = claim, dispatch, complete/fail | nothing runs twice, is dropped, stranded or starved; a cancel holds |
| Terminal UI (`cli/tui.cpp`) | current session, staged results of a worker thread, dropdown, approval prompt | send, approve/decline, switch, new, erase | the screen shows and uses the session the user chose |
| Connectors and processes (`src/net/connector.cpp`, `cli/process_manager.cpp`, host 1300-1474) | registry; connector id -> child process | upsert, remove, launch, stop, call | a launched process can be found and stopped |
| Settings and state (`cli/settings_store.cpp`, `cli/droidcli.cpp`, host 3271-3312) | two JSON files, `config_` | resolve at start, load-overlay-save on a change, state on clean exit | what was told to be in force is in force after a restart |
| Language runtime (`src/ai/language_runtime.cpp`, `src/net/handlers.cpp`) | transcript, `awaiting_response_` | send, apply response, clear | a conversation can go on after an error |
| HTTP server (`tools/mini_http_server.cpp`, `cli/http_mount.cpp`, `src/net/router.cpp`) | listening socket, routes | `poll_once` | each request one response |
| Command runner (`cli/command_runner.cpp`) | child process, two pipes | `run_command_once` with a deadline | returns, waits for its shell, reports how it ended |
| HTTP client (`tools/sync_http_client.cpp`) | a socket | one request | - (it has no timeout) |
| Agent tools and guards (host 1700-2700, `cli/filesystem_tools.cpp`, `src/reliability/path_guards.cpp`) | files, programs | precheck, prompt, execution | what runs is what the prompt showed |
| Host start-up, logs, notifications, watchdog (host 550-1298) | rings, last emission | `initialize`, append, tick | no lock taken twice, an outage is noticed |
| JSON, media, system inspection | none, or the outside world | pure functions and I/O | - |

**Threads.**  With the TUI there are four: the main (drawing) thread, a worker
that runs one chat call at a time, a poller, and a server thread that loops over
`poll_once(200)` then `host.tick()`.  Headless, one thread does both.  So HTTP
requests never interleave with `tick_tasks`, while a call of the TUI's worker
interleaves with both.  `mutex_` guards blocks of statements; it is released
around the transport calls, tool executions and store writes of a turn and
around the dispatch of a task, and what was read before is used after.  That,
calls without a timeout, the wall clock, processes and files that fail, and
restarts are the hard behaviours; `PROJECT.json` lists each hazard at its line.

**Interactions.**  A client calls the turn; the turn appends to the store,
calls the model, executes tools (which call task queue, connectors, command
runner) or parks the call in `pending_tool_call_` and returns; a later decision
takes it from there.  `tick_tasks` calls connectors and the command runner.
Ollama and HTTP connectors are reached through the HTTP client, which blocks for
as long as its peer is silent; whoever holds `mutex_` meanwhile stops the rest.

## 2. Modules

| Module | Role |
|---|---|
| `MemoryStore` | rows of one session: `AppendRow`, `LoadSession` (ORDER BY hop_index, ties in rowid order), `LoadsShort` (a SELECT that fails) |
| `AgentTurn` | EXTENDS `MemoryStore`; the host's agent turn with clients as threads |
| `ApprovalContract` | abstract specification: a call is proposed, approved or dismissed, run, or lost |
| `AgentTurnProperties` | properties of `AgentTurn`, and the refinement of `ApprovalContract` |
| `TaskQueue` | queue and `tick_tasks`, with a second thread, clock, exceptions |
| `Tui` | the chat screen, its worker and the host as that client sees it |
| `Processes` | connector registry, launch and stop, process table, and the operating system's |
| `HostLife` | EXTENDS `Processes`; start, clean exit and crash with the state file |
| `HttpClient` | what becomes of a request, by the behaviour of its peer |
| `HostService` | EXTENDS `HttpClient`; the four threads, the server loop, every entry point of the host as its blocks and calls, `mutex_`, start, end, watchdog |
| `LanguageRuntime` | EXTENDS `HttpClient`; the conversation behind `/ai/chat` |
| `Settings` | the settings file: resolution at start, load-overlay-save, truncation |
| `HostSettings` | EXTENDS `LanguageRuntime`, `Settings`; starts, changes, crashes, a second invocation |
| `CommandRunner` | `run_command_once`: shell, pipes, deadline, kill |
| `AgentTools` | EXTENDS `CommandRunner`; a gated tool from proposal to effect, guards, files, programs |
| `MC...` | instances for TLC; the other modules are instantiated by their `.cfg` alone |
| `AgentTurnProofs`, `TranscriptProofs`, `TaskQueueProofs`, `TuiProofs`, `HostLifeProofs`, `HostServiceProofs`, `HostSettingsProofs`, `AgentToolsProofs` | theorems |

### AgentTurn

`pc[c]` names the next block of the call client `c` is in, and each action is
one such block: `TurnBegin` (first critical section, session selection and the
empty-message return), `TurnAbandon` and `TurnNoteAbandoned`, `TurnAdmit`
(`enable_ai`, then the emptiness test), `TurnSeed`, `TurnUser`, `Classify`,
`Pause` or `Execute`, `RecordResult`, `RetryNote`, `Reclassify`, `Reply`.
`Answer` is `agent_tool_decision` as a client sends it: for the question on its
screen, with or without the session id.  `DeleteSession` runs from another
thread.  `Restart` ends the process at any point and runs `initialize`.

Data kept: of a message, its kind and the session its writer worked for; of a
tool, membership in the three sets the code tests (`Gated`, `Retriable`,
`Prechecked`); of a pending call, a fresh identity, so that "the call that was
shown" can be told from "a call".  `effects` and `shown` are observations of the
world and of the clients, not host state.  Phrasing always yields a text
(template fallback), so `Reply` has one outcome.  The identity carried by
`Execute` is that of the approved call, and none for an ungated tool.

A statement of the store may fail, and nobody is told: a refused INSERT leaves
the message in the transcript only, a refused DELETE leaves the rows, and a SELECT
that fails to be prepared, bound or stepped to its end makes `Load` take up a
session with only the messages read before, or none.  `faults` counts them.

### TaskQueue

`tasks_` is a function from ids (in creation order, which is vector order) to
tasks; a deadline is the time left.  `Claim`, `Dispatch` and `Finish` are the
three parts of `tick_tasks`; `Interleaved` says whether requests come between
them.  `Success` has the code's scan for `"success":true`.  `MayThrow` lets a
dispatch end in an exception, which the server loop catches.  `Hang` is the end of
the loop's progress, in a dispatch or in a request: `sync_http_client` has no
timeout, and `run_command_once` can wait for a command for ever.

### Tui

The drawing thread's actions are the user's keys (`Send`, `SendDecision`,
`Pick`, `NewSession`, `Erase`, `EraseNo`, `EraseYes`), a frame (`ShowPick`,
which applies a dropdown choice as `on_change` left it) and `Drain`, the whole
`Event::Custom` handler with its trailing `sync_session_menu_from_host`.  The
erase popup is an FTXUI modal: while it is up, keys and `Event::Custom` do not
reach the main handler, which is the guard `confirm = None`.  `wpc` walks the
worker through `run_chat_turn` / `run_tool_decision`: reading the session, the
host call, and the two critical sections (`Ingest`, `Publish`) that stage its
outcome.  The host is reduced to what this client can tell apart: its current
session, which sessions have rows, and the session of the pending call.
`HostAnswers` is any of the outcomes `AgentTurn` allows.  `panel` is whose
conversation `chat_entries` shows: `Send` and `SendDecision` push their line at
once, below whatever is shown, and a message whose session the worker has yet to
read counts for `None` until it has (`TurnStarts`).  `away` is an observation:
since Enter the screen has been moved, or something staged before will move it.
Session ids are
interchangeable (`NewId`), and `IdLeft` bounds how many are made.  The poller's
list is either of this moment or the one already shown.

### Processes and HostLife

A launch is `LaunchBegin` (the connector is looked up and copied under the
host's mutex) and `Launch` (the process manager's mutex: stop what runs under
the key, `fork`); anything may come between.  `pgid` is the manager's table,
whose extra key is `__ollama__`.  `proc`, `tree` and `termed` are the operating
system's: what each pid is (a shell of ours, its zombie, a stranger, nothing),
whether its group has members beside the shell, which groups were sent SIGTERM.
A pid is free when neither a process nor a group has it, and may then be given
to a new shell or to a stranger.  It is the POSIX build that is modelled, where
`stop` signals the group and forgets it at once and only `refresh_locked`
reaps.

`HostLife` adds `main`: `Start` loads the state file and then `--config`,
replacing connectors of the same id (`StartUnread`: a file that cannot be read is
passed over); `Quit` joins the threads and opens the state file, which truncates
it, or fails to (`unsaved`); `Save` writes the registry and stops what the table
holds.  Nobody checks the write, so it may end anywhere (`CutShort`), and the exit
is clean all the same; `saved` observes that all was written.  `Crash` does none of
it, and may fall between the two.  The poller's round probes every HTTP peer too,
without a timeout: after `PeerSilent` it is `stuck`.  A connector keeps what the reading
of the state file depends on: its `capabilities` are written as an array and
read as a string (`capable` becomes FALSE), and braces are counted inside
strings too, so a stray one ends the object early (`whole` becomes FALSE) and
drops what follows (`Readable`).  `call_connector` changes no state and
`unregister_connector` has no caller, so neither is an action.

### HttpClient and HostService

A peer answers, truncates its body (which the client accepts), refuses, or is
silent, and may change at any time.  A call returns once its peer is not silent.

`todo[t]` is what is left of what thread `t` executes: `"block"` is a critical
section of `mutex_` that awaits nothing, `"lock"` and `"unlock"` enclose one that
does, `"call"` is a request, and the other steps are those of `main`, the server
loop and the watchdog that do more.  Each entry point of the host is such a
sequence, named for the function (`Turn` for `agent_turn`, `OllamaStatus` for
`build_ollama_status_json`, ...), in the order of its code; what the blocks do is
in the other modules.  Two abstractions keep the sequences short: `Outside`
(commands, files, the database, programs: work without the mutex) is left out as
if it ended of itself, though a command may not (`CommandReturns` says when), and
`Merged` makes one block of blocks in a row, since
nothing is awaited between them.  A retry, or a tool that itself calls a peer,
goes through the steps of `Decision` again.  `HostRoutes` and `AgentRoutes` are
what `http_mount` registers, `Dispatch` any of them or the server's own `/ai/chat`.

`Start`, `Open` and `Bind` are `main` up to the server's thread, `ScreenOpens` is
`run_tui` up to the loop, `Quit` and `Join` are its end and `main`'s, `Crash` is
the end of the process.  `Poll`, `ReadRequest`, `Reply` and `Tick` are the server
loop.  `Ask` is the user: a key on the UI's thread (`ScreenCalls`) or a message
or decision on the worker (`Setup` goes on as `run_chat_turn` does, by the setup
status and what was typed).  `Refresh` is a round of the poller.  `Probe` and
`LogTransition` are the two critical sections of `tick_watchdog` after its call.

### LanguageRuntime, Settings and HostSettings

`turns` is the transcript by role without the system message.  `Submit` is
`handle_ai_chat` up to the call with its early return while an answer is
awaited, `Apply` what follows.  `soured` is an observation: a response has failed
since the last clear.

Of the settings' fields one of each kind is kept: the token, which the host has
no copy of and must carry over, and the model, which it overlays.
`LoadAndResolve` is `main` from the flags to the save; `PersistCurrent` is a
runtime change; a save is `Truncate` and `WriteOut`, either of which may fail
unnoticed, and `Ends` is the end of the process in between.  A second invocation
(`--install-service` resolves and saves like any start) runs beside the first.
`told` is what operators were last told, `excused` that a save failed, was cut
short or overlapped with the other invocation's; both are observations.

### CommandRunner and AgentTools

`runner` walks the loop of the POSIX `run_command_once`: `Read`, which
`drain_available` repeats for as long as it gets something, and `Drained`, the read
that finds nothing; `Look` (`waitpid`), `Clock`, and `Join`, or `Kill`, `Reap` and
one more drain (`LastDrained`).  The command may write up to what the pipes hold
(`PipeCapacity`), close its pipes, leave processes (`heirs`) that hold them, end,
or outlast its deadline, at any moment between.  `unread` is what is in the pipes,
and `owed`, an observation, how much of that was there when the shell ended.

`AgentTools` follows one file name, spelled in the six ways the guards tell apart
(`Spellings`), over the four places it can resolve to; contents are left out.
`Propose` is `precheck_and_resolve_gated_call`, `Shown` what
`display_arguments_with_full_paths` puts in the prompt, `RunFileTool`,
`OpenApplication` and `RunCommand` the execution.  Every library call may fail,
and what was done before it stays, so a file tool has a set of outcomes
(`WriteFile`, `CopyFile`, ...): nothing done, only the parent folder made
(`folders`), or all of it.  Between the prompt and the
decision others change files and programs, and file tools are called over HTTP,
which asks nobody.

## 3. Runs

| Run | Shows |
|---|---|
| `agent_turn_single` | one request at a time, a store that may refuse one write: an approval runs what was shown, a pending call belongs to the open turn, one system prompt, a decline is never retried, every call returns |
| `agent_turn_concurrent` | TUI worker and HTTP loop both inside: the approval contract is implemented; a gated tool runs only as an approved call; in both runs transcript and store part for four causes only |
| `agent_turn_stale_approval` | violation of `ApprovesWhatWasShown` with two clients |
| `task_queue_tui` | two threads, delays, recurrence, exceptions, a cap that is reached: a pending task is served unless the loop's thread hangs or recurring tasks overtake it for ever |
| `task_queue_cancel` | violation of `CancelStopsTask` |
| `tui_screen` | user, worker, poller and restarts in every order: one call in flight, the screen asks exactly when the host waits, a restart resumes, the panel begins to mix sessions only while the screen is away from the call, every call ends on the screen |
| `tui_stale_session` | violation of `IdleScreenKeepsSession` |
| `host_life_exit` | launches from two threads, stops, refreshes, reused pids, exits, crashes and restarts: signals reach only our own groups, a running shell can be stopped, a clean exit stops all, plain connectors return after one that wrote the file, exited shells are reaped unless a peer keeps the poller |
| `host_life_tree` | violation of `TreeCanBeStopped` |
| `host_service` | four threads, a peer that changes, a client that may never read: the screen gets `mutex_` except behind a status request to a silent Ollama or at a start-up that waits for itself; what is executing returns; a program told to end ends; an outage is noticed and logged |
| `host_settings` | starts, runtime changes, failed and interrupted saves, a second invocation: what was told survives unless excused; the transcript asks and answers in turn and a chat is refused only after a failed response |
| `agent_tools` | every gated tool and spelling: a command is reported as it ended, an approved call does what was shown, no file tool leaves the guarded places, a command with a deadline gives its thread back, with two exceptions |

**Bounds.**  `MaxRequests = 3`: the shortest interesting stories (turn pauses,
second turn displaces or abandons, decision; turn, delete, turn) take three
requests, and each request runs its up to twelve blocks in full.  Two sessions:
one is being worked on while another is current.  Two clients: the code never
has more than one chat worker and one server thread.  `MaxFaults = 1` suffices
to put the store one row behind, or the transcript any number of them.  Three tools cover the combinations of the
three sets that the tool table has.  Four tasks with a cap of two reach the
trimming of finished tasks beside live ones; delays and recurrences of 0 and 1
tick separate "due now", "due later", one-shot and recurring; `MaxRuns = 2`
saturates the run counter where "more than once" begins.  `Tui` has three
sessions: one with history, the host's own, and one left for a new session or
the successor of an erased one, so that three different ones can be on the
screen, in the worker and in the host.  `HostLife` has two pids for the two
launchable keys (one connector and `__ollama__`) and two launching threads: a
pid can be reused while the other shell lives, and two launches of one key can
overlap.  One more connector, an HTTP peer, is also in `--config`, so the two
sources of the registry disagree.  `HostService` has `Attempts = 1` of the six of
`start_ollama`: an attempt that fails and goes on to the next, or to the end, is
the same step for each.  Its peers leave out "truncates", which blocks and locks
cannot tell from an answer.  `HostSettings` has two tokens and two models, the
old and the new, and `MaxTurns = 3`: question, answer, question; its state space
is otherwise unbounded in starts, changes and crashes.  `AgentTools` has
`PipeCapacity = 1`: a piece of output is in the pipes or not when the shell ends,
and a writer that refills them after each read already keeps the reader for ever.
Its tools are all but `run_ffmpeg`, whose steps are those of `run_command`, with
five of the six spellings: "relative" differs from "full" only in its place.  Commands run on the Desktop, `run_command`'s
default, and what a command leaves behind is forgotten when its tool returns.

**Fairness.**  `AgentTurn!FairSpec` is weak fairness of the next block of a
started call: it assumes a model server that answers or refuses, for the HTTP
client has no timeout (`HostService` says what happens when it is silent).
Nothing makes a client send or answer.  `TaskQueue!FairSpec` is weak fairness of
claim, dispatch, finish and the clock: the loop in `main` ticks for ever unless its
thread hangs.  That it does not is not assumed, since neither a connector nor a
command owes an end: `Hang` is always possible, and `PendingServed` says so.  No
fairness is assumed of requests.  `Tui!FairSpec` is weak fairness of the worker's
blocks, which assumes that the host's calls return (`HostService` says when), of
`Event::Custom` and of drawing: the spinner's own thread posts an event every
80 ms while a call is in flight, and the worker posts one when it ends,
so nothing here rests on the poller.  None is assumed of the user, who may leave
the erase popup open: `TurnDrains` says so.  `HostLife!FairSpec` is weak fairness
of the TUI poller, which makes a round every half second only for as long as its
probes are answered: `Polling` is disabled once it is `stuck`, and
`ExitedShellReaped` names that case; processes need not exit.  `HostService!FairSpec` is
weak fairness of each thread's steps and strong fairness of taking `mutex_`: the
others let go of it again and again, the poller sleeping half a second between
rounds and the server waiting in `select`.  None of the client, the user or the
peer: `Reply` may block for ever, and the properties say so.
`AgentTools!FairSpec` is weak fairness of the runner's thread, its return and
time; the command owes neither an end nor a pause in what it writes.  `HostSettings` needs none.  The violation runs are
of safety properties.

## 4. What the checks found

Where the code does not do what a line of the repository says:

1. `agent_turn_stale_approval`: the decision is matched by session only; a newer
   call of the same session is approved by an old screen (`host.hpp:408`).
2. `task_queue_cancel`: `complete` and `fail` requeue a recurring task whatever
   its status, so a cancel accepted during a run is lost (`tasks.hpp:64`).
3. `tui_stale_session`: a staged session id is dropped only when it moves the
   screen (`tui.cpp:2505`).  A turn that stays in its session leaves it staged,
   and the first `Event::Custom` after 'n', a pick or an erase brings the old
   session back, though empty is to mean "no update this round"
   (`tui.cpp:418-423`).
4. `host_life_tree`: `refresh_locked` waits for the shell and, when it is gone,
   forgets the group (`process_manager.cpp:253`); what the command left running
   is then out of reach of `stop`, a relaunch and the destructor, though `stop`
   is to kill "the whole tree it spawned" (`ARCHITECTURE.md:382`).

Where a property carries a condition because it fails without it:

* `DriftHasFourCauses` (`host.hpp:747` says they never drift): a turn keeps the
  session id it began with, while the transcript it appends to is whatever session
  is current, so erasing or switching the session during a turn parts the two
  (`CrossRecord`); an INSERT that fails is not noticed (`RowRefused`); a SELECT
  that fails takes up a session in part (`LoadCutShort`, `memory_store.cpp:155-166`);
  and a session begun in the same second gets the id, and the rows, of the one
  before (`IdReused`).
* `PendingServed`: `claim_next` starts at the front of the vector every time, so
  recurring tasks there can keep later ones waiting; and a dispatch that never
  returns ends the loop for good, with every request behind it.
* `PanelStraysOnlyAway`: results are shown below whatever session is on the screen
  (`tui.cpp:2286`, `2334`, `2500`).  Once the user has picked, begun or erased a
  session since Enter, or an id staged earlier is still to move the screen, or 'n'
  was followed by a pick, a reply, an answer or a message goes into another
  session's panel; while the screen stays where the call is, none does.
* `RestartResumes`: the session an erase puts on the screen is never written to
  the last-session file (`tui.cpp:2685`).
* `PlainConnectorsReturn`: a connector with capabilities comes back without
  them, and one whose text has an unmatched brace takes all later ones with it.
  And a clean exit need not have saved anything: `save_state` returns when the file
  cannot be opened, does not check what it wrote, and `main` returns 0 all the same
  (`droidcli.cpp:312-318`).
* `ExitedShellReaped`: the poller's round probes every HTTP peer without a timeout
  (`host.cpp:1365`), so one that is silent stops the rounds, and zombies stay.
* `MutexComesFree`: `build_ollama_status_json` keeps `mutex_` during its GET
  (`host.cpp:1057`), and the poller asks for it every round, so a silent Ollama
  freezes the screen and every route, and `host.cpp:1015`'s log line ("rather
  than hanging") is never written.  `initialize` logs a database that cannot be
  opened while it holds the mutex (`host.cpp:677`): start-up waits for itself.
* `ServiceReturns`, `QuitCompletes`: a silent Ollama keeps its caller, and the
  UI's thread is one: a blank Enter, and the opening of the screen, ask for the
  setup status there.  A client that neither sends nor reads keeps the server.
* `ChatRefusedOnlyAfterFailure`: after a failed response `/ai/chat` refuses every
  message until one with `clear` (`language_runtime.cpp:107`).
* `SettingsSurvive`: a crash or a full disk between truncation and write loses
  the file (`settings_store.cpp:226`); a runtime change that reads it while a
  second invocation has it truncated saves a blank token.
* `CommandReturns`: a command that closes its output and lives on is waited for
  without a deadline (`command_runner.cpp:436`); one that writes as fast as it is
  read keeps `drain_available` in its loop (`command_runner.cpp:339`), where the
  deadline is not looked at; and a `timeout_ms` of 0 or less is no deadline.
* `CommandReported`: what a command that ends in time writes between the last drain
  and the `waitpid` that finds it ended is lost (`command_runner.cpp:426-429`);
  only a timeout, or pipes that were already closed, leaves nothing unread.
* `ApprovedRunsAsShown` covers the file tools and `open_application`: the prompt
  of a command shows its text before the Desktop token in it is substituted.

Seen while modelling, without a property: a deleted session's pending call stays
in the slot and can still be approved (`host.cpp:4060`); it is the call its sender
was shown, so no property forbids it.  The test for an empty transcript and its
seeding are two critical sections (`host.cpp:3397`).  The watchdog is silent while
the wall clock, set back, catches up (`host.cpp:954`).  `launch` and `stop` answer `"ok":true`
and are scanned for `"success":true`, so such tasks are always recorded as failed
(`host.hpp:228`, in `TaskQueue!Success`).  `default_bare_filename_to_desktop`
joins with a backslash, so on POSIX a bare name becomes a file beside the Desktop
folder (`path_guards.cpp:79`, in `AgentTools!Resolved`), while reading tools take
it relative to the working directory.  On a timeout only the shell is killed, and
the status of one that ended between the look and the deadline is thrown away
(`CommandRunner!Kill`).  The server's `LanguageRuntime` keeps the model and
token of start-up when they are changed, and `clear` drops the operator's system
prompt.  `--ollama-num-ctx` is saved before it is validated, the saved
`enable_ai` is never read, and SIGPIPE is not ignored, so a client that goes
away during a `send` can end the program.

## 5. Proofs

Every invariant and every action property of the passing runs is a theorem: for
arbitrary clients, sessions, tools, pids, bounds and queues, from the named
assumptions on constants and the hypotheses below.

| Hypothesis | Of | Why |
|---|---|---|
| `Clients = {user}` | `ApprovesShown`, `PendingIsOpen`, `DeclineIsVeto`, `OnePrompt` | one request at a time, as `host.hpp:525` assumes; `agent_turn_stale_approval` refutes the first with two clients, and both of two clients can seed the empty transcript |
| `~SameSecond` | `OnePrompt` | an id made twice in a second joins a session that has its prompt |
| `Unique(Config)` | `ConnectorsReturn` | of two entries of `--config` with one id the last wins |
| `faults = 0` in the properties, `faults <= 1` in the theorem | `PendingIsOpen`, `OnePrompt`; `DeclineIsVeto` | a row the store refuses is a row a later turn does not see |

**Agent turn** (`AgentTurnProofs`, `TranscriptProofs`).

* `TypeCorrect`: `TypeOK` is inductive as it stands, because it relates `pc` to
  the data each block uses.  It rests on `LoadSessionTyped`: the replayed session
  is a sequence of messages, i.e. the rank of a row by (hop_index, rowid) is a
  bijection onto 0..n-1 (`RankMonotone`, `RankInRange`, `RankOnto`).
* Approval: `ApprovalInv == TypeOK /\ CallsExclusive /\ GatedRunsApproved` is
  inductive, and the last two are `GateHolds` (`GateCorrect`).  `MovesOn(c)` captures what all blocks but `Execute` and `Decide`
  do; the remaining steps are matched one by one with a step of
  `ApprovalContract` (`AbandonStep`, `PauseStep`, `ExecuteStep`, `DecideStep`,
  `RestartStep`), which gives `ContractCorrect`, the refinement.
* `ApprovesShown`: `SlotShown(c)` says that the pending call is the last one the
  client's screen showed for its session, and that the client is in a turn of that
  session only on its way to abandon it.
* `DriftCorrect`: strengthened by `MintedOnly` (only ids in use have rows), since
  a fresh session is in step only if no rows wait for it.  Taking up a session of
  contiguous rows whole keeps the two in step (`ContiguousReplay`); one
  taken up in part falls under `LoadCutShort` (`LoadsShortTyped`).
* `PendingIsOpen`: `QuestionOpen` carries "the session ends in an unanswered
  request" from the block that records the user's message to the slot, and
  `SlotShown` says that a turn which would record another is first to abandon it.
* `DeclineIsVeto`: `Vetoed` follows a decline from the decision through the result
  block: a declined result is never marked for a retry, and a call proposed behind
  a declined row needs a refused row between them.  The bound of one fault,
  that of the run, is tight: with two (`MaxFaults = 2`, `MaxRequests = 4`) TLC
  finds the request and the result after the decline both refused, and a retry
  that follows the decline in the rows.
* `OnePrompt`: `PromptInv` says that a transcript is empty only where the session
  has no prompt, and that a turn about to seed works in such a session.
* `OnePerRequestCorrect`, for any number of clients: `BudgetInv` counts, for
  retry notes and for replies, the places in the transcript, the rows of each
  session and the calls that still owe one, and bounds their sum by the requests;
  a replayed session has no more places than its rows (`ReplayPlaces`, an
  injection).

**Task queue** (`TaskQueueProofs`): `Inv == TypeOK /\ OneShotFresh /\
RunningIsHeld /\ HeldIsRunning`.  `OneShotFresh` (a pending one-shot task has
never run) is what makes "at most once" inductive, `HeldIsRunning` is what makes
cancel hold with one thread (`HeadlessCancelCorrect`, the property
`task_queue_cancel` refutes for two).  `HistoryCorrect` needs that trimming
removes the least finished ids until the cap is met (`TrimmedBound`, by
`LeastNat`).

**Terminal UI** (`TuiProofs`): `IInv == Typed /\ Equipped /\ IdKept /\ CallLocked
/\ QuestionCarried /\ ScreenSaved /\ CallCarried /\ AtHome`.  `QuestionCarried` is the argument of
`ScreenAsks`: while the worker carries a message or a decision the question is
nowhere, in the decision, in the response, staged or on the screen, and in no two
of them; `DecisionLands` is a consequence, so `agent_tool_decision` never refuses
this client.  `CallLocked` says that the end of a call is staged only once the
worker is out of it, which gives `OneCallAtATime`.  `IdKept` reserves an id for a
message on its way to a new session, and `ScreenSaved` gives
`RestartKeepsSession`: the session on the screen is the one saved, unless an erase
put it there.  For `PanelFollowsScreen`, `CallCarried` says where the session of a
call is at each step (with the worker, in the response, among the lines staged) and
`AtHome` that while the screen is not `away` it is on that session, or on none
until the end of the call puts it there: what is pushed then is the session's own.

**Connectors and processes** (`HostLifeProofs`): `TableInv` joins the three safety
properties with the types of the table and `PidHeld`: a pid an entry names is
still a shell of ours or its zombie.  `PidHeld` is what makes it inductive: an
entry is forgotten no later than its shell is reaped, so the kernel cannot have
reused the pid when `killpg` uses it.  For `TypeCorrect` and `ConnectorsReturn`
the registry that `Loaded` folds out of a file is followed entry by entry
(`LoadedGoes`): `Progress` says that after k entries each id is there once and
that an entry can only have been lost to a later one of its id (`LoadedKeeps`).
`RegistryInv` adds that an exit which wrote the whole registry left it in the state
file, which plain connectors pass unchanged (`PlainReadable`); a file
cut short holds connectors too (`CutShortTyped`).

**Running service** (`HostServiceProofs`): `ServiceInv` says of what each thread
has left to execute that it has a `Shape` (mutex_ is taken at most once more and
then let go of, and nothing is chosen under it), that the holder of `mutex_` is
the thread that is `Inside`, and in which stages a thread may run (`MayRun`).
`TypeCorrect` and `MutexExcludes` (no two threads are between taking `mutex_` and
letting go of it) follow.  The entry points have the shape because `Merged` adds
no steps (`MergedTyped`) and only `OllamaStatus` holds `mutex_` over a call.

**Settings** (`HostSettingsProofs`): `SettingsInv` adds to `SettingsSurvive` that
what was told is whole (`ToldWhole`: a token once told is never blank, which is
why a change may carry over what it reads) and that without an excuse only one
saver is at work (`OneSaver`).  `ChatInv` adds that the server asks only while an
answer is awaited; the alternation of the transcript is `TurnsAppend`.

**Tools** (`AgentToolsProofs`): `RunnerControl` says what the runner knows of the
shell at each of its steps (a kill happens only past a deadline, and nothing has
been decided before), `RunnerOutput` says when nothing the shell wrote is left
unread (`owed = 0`): pipes found closed stay closed and empty, and the thread
leaves the last drain only over empty pipes.  What their heirs write after the
shell has ended does not count.  For
`ApprovedRunsAsShown`, `PlaceKept` (a file tool changes only what it shows, for
every spelling) and `CallInv` (no program has been launched while a call waits)
are what a step needs.

**Induction over data.**  The library's induction theorems take an operator as a
parameter, which the provers cannot instantiate.  Where a fold had to be reasoned
about (`Loaded`, `Merged`) the proof goes by a least counterexample instead:
`LeastNat`, from the well-foundedness of `<`, gives first that the function which
the fold's definition chooses exists (`RegistersExists`, `MergesExists`), then that
its value has the property after each number of steps.  `PassAttempts` is written
with positions and not with `SelectSeq`, which has no definition there.

**Only model-checked** are the liveness properties `CallsReturn`, `PendingServed`,
`TurnDrains`, `ExitedShellReaped`, `MutexComesFree`, `ServiceReturns`,
`QuitCompletes`, `WatchdogNotices` and `CommandReturns`: liveness under fairness
and ENABLED are out of the prover's reach.  No module uses RECURSIVE operators.

## 6. Not modelled, and the plan

With two clients `AtMostOnePrompt` can fail (both see the empty transcript
before either seeds); it is checked for one request at a time, as
`host.hpp:525` assumes.

Left out, because it is data transformation or platform I/O without protocol:
media decoding, system inspection and the Windows service shell, the Windows
branches of the command runner and process manager, JSON and the response
templates, the drawing of the TUI, the contents of the log and notification
rings, the routing table and HTTP parsing, vendored SQLite.  Of the agent's
tools, those that only read, and the clipboard, windows and registry, are I/O;
`command_guards` classifies strings.  `launch_application` forks a shell and
reports success whatever becomes of it; `OpenApplication` records only what it
was given.

Could still be modelled: known locations and lessons of the memory store, and of
the TUI the model picker, the input history, the other panels and the age of the
poller's last round.  That the setup prompts can swallow the request for a new
session is in the model (`WorkerAsks`) without a property.

Next theorems: what a replay returns for a session whose rows were refused, two
clients for `PendingIsOpen` with the exception the second one makes, and, of the
task queue, that a delay or a recurrence never fires early.

----------------------------- MODULE HostService -----------------------------
(***************************************************************************)
(* The running service: the loop over poll_once and tick                   *)
(* (src/tools/mini_http_server.cpp, src/cli/droidcli.cpp), the TUI's UI,   *)
(* worker and poller threads (src/cli/tui.cpp), and the host's mutex_      *)
(* between them.  Every entry point of the host (src/cli/host.cpp) is the  *)
(* sequence of its lock-protected blocks and of the calls it makes outside *)
(* them; what the blocks of a turn, a task or a connector do is in         *)
(* AgentTurn, TaskQueue and Processes, and what saving does in Settings.   *)
(***************************************************************************)
EXTENDS HttpClient, Naturals, SequencesExt

CONSTANTS
    EnableAi,  \* --no-ai was not given
    Attempts,  \* bound on the attempts of start_ollama, which makes six
    Nobody     \* mutex_ is free

\* "main" starts the program and becomes the UI's thread.
Threads == {"main", "server", "worker", "poller"}

ASSUME ServiceAssumption ==
    /\ EnableAi \in BOOLEAN
    /\ Attempts \in Nat
    /\ Nobody \notin Threads

VARIABLES
    stage,     \* "down", "starting", "opening" (the server runs, the screen is not yet
               \* shown), "up", "leaving" (it is closed), "stopping" (g_running is false)
    mutex,     \* the thread that holds mutex_
    todo,      \* todo[t]: the rest of what t is executing
    due,       \* the watchdog's interval has passed, by the wall clock
    reachable, \* ollama_reachable_
    logged     \* what the last line of the watchdog's log channel says

watchdogVars == <<due, reachable, logged>>
vars == <<peer, stage, mutex, todo, watchdogVars>>
-----------------------------------------------------------------------------
(* Entry points                                                            *)

\* One critical section, and none.
Locked == <<"block">>
Unlocked == <<>>

\* A command, a file, the database or a program, which the host uses without its
\* mutex: it ends of itself (CommandRunner says when), and is left out.
Outside == <<>>

\* Blocks in a row are one: nothing is awaited between them.
Merged(steps) ==
    FoldLeft(LAMBDA seq, s : IF s = "block" /\ IsSuffix(<<s>>, seq) THEN seq ELSE Append(seq, s),
             <<>>, steps)

\* append_app_log
LogLine == Locked

\* What is read in one critical section.
Status == Locked
Logs == Locked
SelfStatus == Locked
Tasks == Locked
FindApplications == Locked

\* The process table has a mutex of its own, and POSIX has no installer.
ProcessStatus == Unlocked
InstallOllama == Unlocked

ReadFile == Outside \o LogLine
RecordFix == Outside \o LogLine
RememberLocation == Outside \o LogLine
KnownLocations == Outside
Sessions == Locked \o Outside

RunCommand == Outside \o LogLine
StopConnector == Outside \o LogLine
LaunchConnector == Merged(Locked \o Outside \o LogLine)
ConnectorStatus == Locked \o <<"call">>
CallConnector == Locked \o <<"call">> \o LogLine

\* agent_tool_decision: the tool, and the call that phrases its result; a retry
\* goes through them once more, and a tool that calls a peer makes one more call.
Decision == Merged(Locked \o Outside \o Locked \o <<"call">> \o Locked)

\* Variant the checks reject: the reply of the model is awaited under mutex_.
TurnLocked == <<"lock", "call", "unlock">> \o Decision

\* A turn that calls the model, runs a tool and phrases its result.
Turn == Locked \o <<"call">> \o Decision

\* build_ollama_status_json holds mutex_ while it waits for Ollama.
OllamaStatus == <<"lock", "call", "unlock">>
OllamaSetupStatus == Outside \o Locked \o <<"call">>
StartOllama == Outside \o Locked \o [i \in 1 .. Attempts |-> "attempt"] \o LogLine

\* The model that was pulled is made the host's; a failed pull is a RunCommand.
PullModel == Merged(RunCommand \o Locked)

\* handle_ai_chat: the server's own LanguageRuntime, outside the host.
AiChat == <<"call">>

\* The host's state, Ollama, commands, programs and files.
HostRoutes == {Status, Logs, OllamaStatus, OllamaSetupStatus, InstallOllama, StartOllama,
               PullModel, ProcessStatus, RunCommand, FindApplications, ReadFile, Unlocked}

\* The agent, its memory, the connectors and the tasks.
AgentRoutes == {SelfStatus, Turn, Decision, RecordFix, RememberLocation, KnownLocations,
                Sessions, LaunchConnector, StopConnector, ConnectorStatus, CallConnector,
                Tasks}

\* The server's own routes come first.
Routes == HostRoutes \cup AgentRoutes \cup {AiChat}

\* What run_tui asks before the screen is shown: the history of the last session,
\* and whether Ollama is set up.
ScreenStarts == Merged(Sessions \o OllamaSetupStatus)

\* The UI's thread: a key, a button or a frame takes mutex_ at most for a block at a
\* time; a blank Enter asks for the setup status there.
ScreenCalls == {Locked, OllamaSetupStatus}

\* run_chat_turn asks for the setup status first, and goes on as it calls for.
ChatTurn == Outside \o Locked \o <<"setup">>

SetupState(installed, online, pulled) ==
    CASE ~installed -> "needs install"
      [] installed /\ ~online -> "needs start"
      [] installed /\ online /\ ~pulled -> "needs model"
      [] OTHER -> "ready"

\* A name or a number of a model that is there, another to pull, or "list".
ModelChoice == {Locked, RunCommand, PullModel, Unlocked}

ChatTurnThen(state) ==
    CASE state = "needs install" -> {InstallOllama}
      [] state = "needs start" -> {Unlocked, StartOllama}
      [] state = "needs model" -> ModelChoice
      [] state = "ready" -> {Turn}

\* The poller's blocks before and after the status are like the UI's; an HTTP peer
\* is asked for its health first.
PollerRounds == {OllamaStatus, <<"call">> \o OllamaStatus}

Watchdog == IF EnableAi /\ due THEN <<"block", "probe">> ELSE <<>>

\* tick_tasks: nothing is due, or a command or a request is dispatched.
TickTasks == {Locked, Merged(Locked \o RunCommand \o Locked),
              Merged(Locked \o CallConnector \o Locked)}
-----------------------------------------------------------------------------
(* Steps of a thread                                                       *)

\* The next step of t is s, and then t does what is left.
At(t, s) == todo[t] # <<>> /\ Head(todo[t]) = s
Goto(t, rest) == todo' = [todo EXCEPT ![t] = rest]
Continue(t) == Goto(t, Tail(todo[t]))

Block(t) ==
    /\ At(t, "block") /\ mutex = Nobody
    /\ Continue(t)
    /\ UNCHANGED <<peer, stage, mutex, watchdogVars>>

Lock(t) ==
    /\ At(t, "lock") /\ mutex = Nobody
    /\ mutex' = t
    /\ Continue(t)
    /\ UNCHANGED <<peer, stage, watchdogVars>>

Unlock(t) ==
    /\ At(t, "unlock")
    /\ mutex' = Nobody
    /\ Continue(t)
    /\ UNCHANGED <<peer, stage, watchdogVars>>

Call(t) ==
    /\ At(t, "call") /\ CallReturns
    /\ Continue(t)
    /\ UNCHANGED <<peer, stage, mutex, watchdogVars>>

\* t goes on behind the attempts that are left.
PassAttempts(t) ==
    \E n \in DOMAIN todo[t] :
        /\ todo[t][n] # "attempt"
        /\ \A i \in 1 .. n - 1 : todo[t][i] = "attempt"
        /\ Goto(t, SubSeq(todo[t], n, Len(todo[t])))

\* Variant the checks reject: the attempts are not counted.
AttemptForever(t) ==
    /\ At(t, "attempt") /\ CallReturns
    /\ IF TransportOk THEN PassAttempts(t) ELSE UNCHANGED todo
    /\ UNCHANGED <<peer, stage, mutex, watchdogVars>>

\* start_ollama asks until Ollama answers or the attempts are spent.
Attempt(t) ==
    /\ At(t, "attempt") /\ CallReturns
    /\ IF TransportOk THEN PassAttempts(t) ELSE Continue(t)
    /\ UNCHANGED <<peer, stage, mutex, watchdogVars>>

\* The setup status has been read: what it and the message typed call for.
Setup(t) ==
    /\ At(t, "setup") /\ CallReturns
    /\ \E installed, pulled \in BOOLEAN :
        \E then \in ChatTurnThen(SetupState(installed, TransportOk, pulled)) : Goto(t, then)
    /\ UNCHANGED <<peer, stage, mutex, watchdogVars>>
-----------------------------------------------------------------------------
(* Start and end                                                           *)

Start ==
    /\ stage = "down"
    /\ stage' = "starting"
    /\ Goto("main", <<"lock", "open", "unlock", "block", "bind">>)
    /\ UNCHANGED <<peer, mutex, watchdogVars>>

\* initialize: a database that cannot be opened is logged, with mutex_ held.
Open ==
    /\ At("main", "open")
    /\ Continue("main") \/ Goto("main", <<"block">> \o Tail(todo["main"]))
    /\ due' = TRUE /\ reachable' = TRUE /\ logged' = TRUE
    /\ UNCHANGED <<peer, stage, mutex>>

\* server.start; main returns if the port is taken, and goes on to the screen
\* with the server's thread running.
Bind ==
    /\ At("main", "bind")
    /\ \/ stage' = "opening" /\ Goto("main", ScreenStarts)
       \/ stage' = "down" /\ Continue("main")
    /\ UNCHANGED <<peer, mutex, watchdogVars>>

\* The poller is started, and the screen is shown.
ScreenOpens ==
    /\ stage = "opening" /\ todo["main"] = <<>>
    /\ stage' = "up"
    /\ UNCHANGED <<peer, mutex, todo, watchdogVars>>

\* The screen is closed, or a signal ends the loop.
Quit ==
    /\ stage = "up" /\ todo["main"] = <<>>
    /\ stage' = "leaving"
    /\ UNCHANGED <<peer, mutex, todo, watchdogVars>>

\* Variants the checks reject: a worker that is still busy is not joined; main
\* joins the server, whose loop goes on.
JoinTooSoon ==
    /\ \/ stage = "leaving" /\ todo["poller"] = <<>> /\ stage' = "stopping"
       \/ stage = "stopping" /\ todo["server"] = <<>> /\ stage' = "down"
    /\ UNCHANGED <<peer, mutex, todo, watchdogVars>>

JoinEarly ==
    /\ stage = "leaving"
    /\ \A t \in Threads : todo[t] = <<>>
    /\ stage' = "down"
    /\ UNCHANGED <<peer, mutex, todo, watchdogVars>>

\* run_tui joins poller and worker, main then stops and joins the server.
Join ==
    /\ \/ /\ stage = "leaving" /\ todo["poller"] = <<>> /\ todo["worker"] = <<>>
          /\ stage' = "stopping"
       \/ /\ stage = "stopping" /\ todo["server"] = <<>>
          /\ stage' = "down"
    /\ UNCHANGED <<peer, mutex, todo, watchdogVars>>

\* The process is killed: the threads and their locks go.
Crash ==
    /\ stage # "down"
    /\ stage' = "down"
    /\ mutex' = Nobody
    /\ todo' = [t \in Threads |-> <<>>]
    /\ UNCHANGED <<peer, watchdogVars>>
-----------------------------------------------------------------------------
(* The server loop, and the TUI                                            *)

\* select: a connection is accepted, or the time is up.
Poll ==
    /\ stage \in {"opening", "up", "leaving"} /\ todo["server"] = <<>>
    /\ Goto("server", <<"read", "tick">>) \/ Goto("server", <<"tick">>)
    /\ UNCHANGED <<peer, stage, mutex, watchdogVars>>

\* A request without the token gets its answer without a route.
Dispatch == \E route \in Routes : Goto("server", route \o <<"reply", "tick">>)

\* recv waits for the client for as long as it likes; one that goes away gets no
\* answer.
ReadRequest ==
    /\ At("server", "read")
    /\ Dispatch \/ Continue("server")
    /\ UNCHANGED <<peer, stage, mutex, watchdogVars>>

\* So does send.
Reply ==
    /\ At("server", "reply")
    /\ Continue("server")
    /\ UNCHANGED <<peer, stage, mutex, watchdogVars>>

\* host.tick
Tick ==
    /\ At("server", "tick")
    /\ \E tasks \in TickTasks : Goto("server", Watchdog \o tasks)
    /\ due' = (due /\ ~EnableAi)
    /\ UNCHANGED <<peer, stage, mutex, reachable, logged>>

\* Variant the checks reject: only a recovery is logged.
ProbeSilent ==
    /\ At("server", "probe") /\ CallReturns /\ mutex = Nobody
    /\ reachable' = TransportOk
    /\ Goto("server", IF TransportOk /\ ~reachable THEN <<"log">> \o Tail(todo["server"])
                      ELSE Tail(todo["server"]))
    /\ UNCHANGED <<peer, stage, mutex, due, logged>>

\* tick_watchdog after its call: the state is updated, a transition logged.
Probe ==
    /\ At("server", "probe") /\ CallReturns /\ mutex = Nobody
    /\ reachable' = TransportOk
    /\ Goto("server", IF TransportOk = reachable THEN Tail(todo["server"])
                      ELSE <<"log">> \o Tail(todo["server"]))
    /\ UNCHANGED <<peer, stage, mutex, due, logged>>

LogTransition ==
    /\ At("server", "log") /\ mutex = Nobody
    /\ logged' = reachable
    /\ Continue("server")
    /\ UNCHANGED <<peer, stage, mutex, due, reachable>>

ClockReaches ==
    /\ ~due /\ due' = TRUE
    /\ UNCHANGED <<peer, stage, mutex, todo, reachable, logged>>

\* A message, and a decision on a call that waits for one, run on the worker.
Ask ==
    /\ stage = "up" /\ todo["main"] = <<>>
    /\ \/ \E asked \in ScreenCalls : Goto("main", asked)
       \/ todo["worker"] = <<>> /\ (Goto("worker", ChatTurn) \/ Goto("worker", Decision))
    /\ UNCHANGED <<peer, stage, mutex, watchdogVars>>

Refresh ==
    /\ stage = "up" /\ todo["poller"] = <<>>
    /\ \E round \in PollerRounds : Goto("poller", round)
    /\ UNCHANGED <<peer, stage, mutex, watchdogVars>>
-----------------------------------------------------------------------------
\* The steps that take mutex_, and the others.
Acquire(t) ==
    Block(t) \/ Lock(t) \/ (t = "server" /\ (Probe \/ LogTransition))

Step(t) ==
    \/ Unlock(t) \/ Call(t) \/ Attempt(t) \/ Setup(t)
    \/ t = "main" /\ (Open \/ Bind)
    \/ t = "server" /\ Tick

Init ==
    /\ peer \in Peers
    /\ stage = "down"
    /\ mutex = Nobody /\ todo = [t \in Threads |-> <<>>]
    /\ due = TRUE /\ reachable = TRUE /\ logged = TRUE

Next ==
    \/ \E t \in Threads : Acquire(t) \/ Step(t)
    \/ Start \/ ScreenOpens \/ Quit \/ Join \/ Crash \/ Poll \/ ReadRequest \/ Reply
    \/ ClockReaches \/ Ask \/ Refresh
    \/ PeerChanges /\ UNCHANGED <<stage, mutex, todo, watchdogVars>>

Spec == Init /\ [][Next]_vars

\* The loops never stop of themselves, commands end (CommandRunner says when
\* they do), and a thread that waits for mutex_ gets it in the end although
\* others go on taking it: the poller sleeps half a second between rounds and
\* the server waits in select for up to 200 ms.  Nothing makes a client send,
\* read or close, a user ask, or Ollama answer.
FairSpec ==
    /\ Spec
    /\ \A t \in Threads : WF_vars(Step(t)) /\ SF_vars(Acquire(t))
    /\ WF_vars(ScreenOpens) /\ WF_vars(Join) /\ WF_vars(Poll) /\ WF_vars(ClockReaches)
-----------------------------------------------------------------------------
(* Properties                                                              *)

Waiting(t) == At(t, "block") \/ At(t, "lock") \/ At(t, "log")
HeldBySilence ==
    /\ peer = "silent" /\ mutex # Nobody
    /\ todo[mutex] \in {Tail(OllamaStatus), Tail(OllamaStatus \o <<"reply", "tick">>)}
HeldByStartUp == mutex = "main" /\ At("main", "block")
ServerWaitsForClient == At("server", "read") \/ At("server", "reply")

\* mutex_ is held by a thread that still has something to do under it, and by
\* nobody once the host is down; only main runs while the host starts.
TypeOK ==
    /\ peer \in Peers
    /\ stage \in {"down", "starting", "opening", "up", "leaving", "stopping"}
    /\ mutex \in Threads \cup {Nobody}
    /\ \A t \in Threads : stage = "down" \/ (t # "main" /\ stage = "starting") => todo[t] = <<>>
    /\ mutex # Nobody => todo[mutex] # <<>>
    /\ due \in BOOLEAN /\ reachable \in BOOLEAN /\ logged \in BOOLEAN

\* The screen gets mutex_ whenever it waits for it, unless a status request keeps it
\* while Ollama is silent (host.cpp:1057) or start-up waits for itself
\* (host.cpp:677): no turn, pull or connector call keeps it.
MutexComesFree ==
    Waiting("main") ~> ~Waiting("main") \/ HeldBySilence \/ HeldByStartUp

\* Whatever a thread is executing returns, unless Ollama falls silent, the
\* server's client keeps it waiting, or start-up waits for itself.  A call that
\* met a silent peer is never promised to return: there is no timeout.
ServiceReturns ==
    \A t \in Threads :
        todo[t] # <<>> ~>
            \/ todo[t] = <<>>
            \/ peer = "silent" \/ HeldByStartUp
            \/ t = "server" /\ ServerWaitsForClient

\* A program that was told to end ends, unless Ollama falls silent or the
\* server's client keeps it waiting (tui.cpp:2872, droidcli.cpp:653).
QuitCompletes ==
    stage \in {"leaving", "stopping"} ~>
        stage = "down" \/ peer = "silent" \/ ServerWaitsForClient

\* If Ollama stays away and the server keeps coming back to its loop, the host
\* and the log say so in the end and for good (host.cpp:996).
WatchdogNotices ==
    (<>[](stage = "up" /\ peer = "refuses") /\ []<>(todo["server"] = <<>>))
        => <>[](EnableAi => ~reachable /\ ~logged)
=============================================================================

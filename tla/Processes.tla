----------------------------- MODULE Processes -----------------------------
(***************************************************************************)
(* Connectors and the processes launched for them: ConnectorRegistry       *)
(* (src/src/net/connector.cpp), the host's connector calls                 *)
(* (src/cli/host.cpp) and ProcessManager (src/cli/process_manager.cpp, the *)
(* POSIX build), with the process table of the operating system they act   *)
(* on.  A launch is two critical sections under two mutexes: the connector *)
(* is copied under the host's, the process started under the manager's.    *)
(***************************************************************************)
EXTENDS Naturals, Sequences, SequencesExt

CONSTANTS
    Connectors, \* connectors that may be registered, records with id and kind, and
                \* whether they are whole or what is left of a cut text
    Ollama,     \* the key "__ollama__", which is no connector
    Pids,       \* process ids
    Clients,    \* threads that launch: TUI, its worker, the server
    None        \* no process (pgid 0), no launch under way

Ids == {d.id : d \in Connectors}
Keys == Ids \cup {Ollama}

ASSUME ProcessesAssumption ==
    /\ Ollama \notin Ids
    /\ None \notin Keys \cup Pids

VARIABLES
    connectors, \* connectors_, in the order of the vector
    launching,  \* the key of the copy a client took and not yet launched
    pgid,       \* entries_[key].pgid
    proc,       \* what has the pid: nothing, a shell of ours, its zombie, a stranger
    tree,       \* the group has members beside its shell
    termed      \* groups of ours that were sent SIGTERM

registryVars == <<connectors, launching>>
osVars == <<proc, tree, termed>>
processVars == <<registryVars, pgid, osVars>>
-----------------------------------------------------------------------------
(* ConnectorRegistry                                                       *)

IndexOf(registry, id) == {i \in DOMAIN registry : registry[i].id = id}

\* Variant the checks reject: an id can be registered again beside itself.
RegisteredAgain(registry, d) == Append(registry, d)

\* register_connector replaces the connector of that id or appends it.
Registered(registry, d) ==
    IF IndexOf(registry, d.id) = {} THEN Append(registry, d)
    ELSE [i \in DOMAIN registry |-> IF registry[i].id = d.id THEN d ELSE registry[i]]

Register(d) ==
    /\ connectors' = Registered(connectors, d)
    /\ UNCHANGED <<launching, pgid, osVars>>

IsLaunchable(d) == d.kind = "launched_process"
Launchable(id) == \E d \in ToSet(connectors) : d.id = id /\ IsLaunchable(d)
-----------------------------------------------------------------------------
(* ProcessManager                                                          *)

\* A free pid: no process and no group has it.
Free(p) == proc[p] = "free" /\ ~tree[p]

\* stop_locked signals the group and forgets it, without waiting for it.
Stopped(key) == termed \cup ({pgid[key]} \ {None})

\* launch_connector finds the connector and copies it; start_ollama needs none.
LaunchBegin(c, key) ==
    /\ launching[c] = None
    /\ key = Ollama \/ Launchable(key)
    /\ launching' = [launching EXCEPT ![c] = key]
    /\ UNCHANGED <<connectors, pgid, osVars>>

ForkFails(key) ==
    /\ pgid' = [pgid EXCEPT ![key] = None]
    /\ termed' = Stopped(key)
    /\ UNCHANGED <<proc, tree>>

Forked(key, p) ==
    /\ Free(p)
    /\ proc' = [proc EXCEPT ![p] = "shell"]
    /\ pgid' = [pgid EXCEPT ![key] = p]
    /\ termed' = Stopped(key) \ {p}
    /\ UNCHANGED tree

\* Variant the checks reject: launch does not stop what runs under the key.
LaunchBeside(c) ==
    /\ launching[c] # None
    /\ launching' = [launching EXCEPT ![c] = None]
    /\ \E p \in Pids :
          /\ Free(p)
          /\ proc' = [proc EXCEPT ![p] = "shell"]
          /\ pgid' = [pgid EXCEPT ![launching[c]] = p]
          /\ termed' = termed \ {p}
          /\ UNCHANGED tree
    /\ UNCHANGED connectors

\* launch: whatever runs under the key is stopped first.
Launch(c) ==
    /\ launching[c] # None
    /\ launching' = [launching EXCEPT ![c] = None]
    /\ \/ ForkFails(launching[c])
       \/ \E p \in Pids : Forked(launching[c], p)
    /\ UNCHANGED connectors

\* stop by key, whatever is registered under it.
Stop(key) ==
    /\ pgid[key] # None
    /\ termed' = Stopped(key)
    /\ pgid' = [pgid EXCEPT ![key] = None]
    /\ UNCHANGED <<registryVars, proc, tree>>

\* waitpid(WNOHANG) on the shell of an entry.
Exited(key) == pgid[key] # None /\ proc[pgid[key]] # "shell"
Reaped == {pgid[key] : key \in {k \in Keys : Exited(k)}}
ProcAfter(reaped) ==
    [p \in Pids |-> IF p \in reaped /\ proc[p] = "zombie" THEN "free" ELSE proc[p]]

\* Variants the checks reject: the group id outlives the reaped shell; the
\* entry is cleared and the shell not waited for.
RefreshKeeps ==
    /\ proc' = ProcAfter(Reaped)
    /\ UNCHANGED <<registryVars, pgid, tree, termed>>
RefreshForgets ==
    /\ pgid' = [k \in Keys |-> IF Exited(k) THEN None ELSE pgid[k]]
    /\ UNCHANGED <<registryVars, osVars>>

\* snapshot refreshes every entry: a shell that has exited is reaped and its
\* group forgotten.
Refresh ==
    /\ proc' = ProcAfter(Reaped)
    /\ pgid' = [k \in Keys |-> IF Exited(k) THEN None ELSE pgid[k]]
    /\ UNCHANGED <<registryVars, tree, termed>>

\* The status of a launched process is taken of a snapshot.
HasLaunchable == \E d \in ToSet(connectors) : IsLaunchable(d)
-----------------------------------------------------------------------------
(* The operating system                                                    *)

\* The command ends, on SIGTERM or not.
ShellExits(p) ==
    /\ proc[p] = "shell"
    /\ proc' = [proc EXCEPT ![p] = "zombie"]
    /\ UNCHANGED <<registryVars, pgid, tree, termed>>

\* It leaves something running in its group, and that ends.
TreeGrows(p) ==
    /\ proc[p] = "shell" /\ ~tree[p]
    /\ tree' = [tree EXCEPT ![p] = TRUE]
    /\ UNCHANGED <<registryVars, pgid, proc, termed>>

TreeEnds(p) ==
    /\ tree[p]
    /\ tree' = [tree EXCEPT ![p] = FALSE]
    /\ UNCHANGED <<registryVars, pgid, proc, termed>>

\* A free pid is given to a process of somebody else.
PidReused(p) ==
    /\ Free(p)
    /\ proc' = [proc EXCEPT ![p] = "stranger"]
    /\ termed' = termed \ {p}
    /\ UNCHANGED <<registryVars, pgid, tree>>

StrangerExits(p) ==
    /\ proc[p] = "stranger"
    /\ proc' = [proc EXCEPT ![p] = "free"]
    /\ UNCHANGED <<registryVars, pgid, tree, termed>>

OperatingSystem ==
    \E p \in Pids :
        \/ ShellExits(p) \/ TreeGrows(p) \/ TreeEnds(p)
        \/ PidReused(p) \/ StrangerExits(p)

Requests ==
    \/ \E d \in {d \in Connectors : d.whole} : Register(d)
    \/ \E c \in Clients : Launch(c) \/ \E key \in Keys : LaunchBegin(c, key)
    \/ \E key \in Keys : Stop(key)
    \/ Refresh
-----------------------------------------------------------------------------
(* Properties                                                              *)

\* Registry, process table and operating system keep their types; an id is
\* registered once.
ProcessTypeOK ==
    /\ connectors \in Seq(Connectors)
    /\ \A i, j \in DOMAIN connectors : connectors[i].id = connectors[j].id => i = j
    /\ launching \in [Clients -> Keys \cup {None}]
    /\ pgid \in [Keys -> Pids \cup {None}]
    /\ proc \in [Pids -> {"free", "shell", "zombie", "stranger"}]
    /\ tree \in [Pids -> BOOLEAN]
    /\ termed \subseteq Pids

\* A SIGTERM goes to a group this program started, never to a stranger that was
\* given the pid of a shell already reaped (killpg on entry.pgid).
SignalsOnlyItsOwn == \A p \in termed : proc[p] # "stranger"

\* A shell that runs and was not told to stop is the one its key names, so a
\* stop reaches it, whatever was launched, refreshed or registered since.
RunningShellCanBeStopped ==
    \A p \in Pids :
        proc[p] = "shell" /\ p \notin termed => \E k \in Keys : pgid[k] = p

\* "stop() kills the whole tree it spawned": a group that was not told to stop
\* is one a stop can still reach.
TreeCanBeStopped ==
    \A p \in Pids : tree[p] /\ p \notin termed => \E k \in Keys : pgid[k] = p
=============================================================================

------------------------------ MODULE HostLife ------------------------------
(***************************************************************************)
(* A host from start to exit as its connectors and processes see it: main  *)
(* (src/cli/droidcli.cpp) loads db/droidcli_state.json and puts --config on *)
(* top, requests and the operating system act, a clean exit saves the      *)
(* registry and stops every process, a crash does neither.                 *)
(***************************************************************************)
EXTENDS Processes

CONSTANT
    Config     \* the connectors of the --config file

ASSUME ConfigAssumption == Config \in Seq(Connectors)

VARIABLES
    phase,     \* "running", "saving" (the state file is open, and empty), "unsaved" (it could
               \* not be opened), "down"
    stateFile, \* db/droidcli_state.json
    clean,     \* down after a clean exit
    saved,     \* and one that wrote the whole registry
    stuck      \* the TUI's poller is in a probe that is never answered

exitVars == <<phase, stateFile, clean, saved>>
vars == <<processVars, exitVars, stuck>>
-----------------------------------------------------------------------------
(* The state file                                                          *)

\* What the text of a connector is read back as.  The capabilities are written
\* as an array and read as a string.  Braces are counted inside strings too: a
\* field with one closing too many ends the object there.
ReadBack(d) == [d EXCEPT !.capable = FALSE, !.whole = @ /\ d.braces # "closing"]

\* And what its text is read back as if it ends after id and kind.
Cut(d) == [d EXCEPT !.capable = FALSE, !.whole = FALSE]

\* What can be registered can be read back.
ASSUME ReadBackAssumption ==
    \A d \in Connectors :
        /\ Cut(d) \in Connectors
        /\ d \in [id : {d.id}, kind : {d.kind}, capable : BOOLEAN,
                  braces : {"matched", "closing"}, whole : BOOLEAN]
        /\ ReadBack(d) \in Connectors

\* extract_connector_objects ends at the first connector whose text has
\* unmatched braces: what follows it is not read.
Readable(file) ==
    LET stray == {i \in DOMAIN file : file[i].braces # "matched"}
        last == IF stray = {} THEN Len(file)
                ELSE CHOOSE i \in stray : \A j \in stray : i <= j
    IN  [i \in 1..last |-> ReadBack(file[i])]

\* load_connectors_from_config registers them one by one.
Loaded(registry, file) == FoldLeft(Registered, registry, file)

\* Variant the checks reject: the state file is put on top.
StateOnTop == Loaded(Loaded(<<>>, Config), Readable(stateFile))

StartRegistry == Loaded(Loaded(<<>>, Readable(stateFile)), Config)
\* What a write that ends too early leaves: a connector cut before its kind is
\* skipped when it is read.
CutShort ==
    {SubSeq(connectors, 1, n) : n \in 0 .. Len(connectors)}
    \cup {Append(SubSeq(connectors, 1, n - 1), Cut(connectors[n])) : n \in DOMAIN connectors}
-----------------------------------------------------------------------------
(* main                                                                    *)

\* What earlier processes left is not a child of this one.
Inherited ==
    /\ proc' = [p \in Pids |->
                  IF tree[p] \/ proc[p] \in {"shell", "stranger"} THEN "stranger" ELSE "free"]
    /\ tree' = [p \in Pids |-> FALSE]
    /\ termed' = {}

StartWith(registry) ==
    /\ phase = "down"
    /\ phase' = "running"
    /\ connectors' = registry
    /\ pgid' = [k \in Keys |-> None]
    /\ launching' = [c \in Clients |-> None]
    /\ Inherited
    /\ clean' = FALSE /\ saved' = FALSE
    /\ UNCHANGED <<stateFile, stuck>>

Start == StartWith(StartRegistry)

\* A state file that cannot be read is passed over.
StartUnread == StartWith(Loaded(<<>>, Config))

\* The threads are joined, then save_state opens the file, which empties it, or
\* fails to.
Quit ==
    /\ phase = "running"
    /\ ~stuck /\ \A c \in Clients : launching[c] = None
    /\ \/ phase' = "saving" /\ stateFile' = <<>>
       \/ phase' = "unsaved" /\ UNCHANGED stateFile
    /\ UNCHANGED <<processVars, clean, saved, stuck>>

\* The write, which nobody checks.
WriteRegistry ==
    \/ phase = "saving" /\ stateFile' = connectors /\ saved' = TRUE
    \/ phase = "saving" /\ stateFile' \in CutShort /\ saved' = FALSE
    \/ phase = "unsaved" /\ UNCHANGED stateFile /\ saved' = FALSE

Tracked == {pgid[k] : k \in Keys} \ {None}

\* Variant the checks reject: processes are left running.
SaveOnly ==
    /\ WriteRegistry
    /\ phase' = "down" /\ clean' = TRUE
    /\ pgid' = [k \in Keys |-> None]
    /\ UNCHANGED <<registryVars, osVars, stuck>>

\* main returns 0 however the write went; ~ProcessManager stops what is in its
\* table.
Save ==
    /\ WriteRegistry
    /\ phase' = "down" /\ clean' = TRUE
    /\ termed' = termed \cup Tracked
    /\ pgid' = [k \in Keys |-> None]
    /\ UNCHANGED <<registryVars, proc, tree, stuck>>

Crash ==
    /\ phase # "down"
    /\ phase' = "down"
    /\ stateFile' \in {stateFile} \cup IF phase = "saving" THEN CutShort ELSE {}
    /\ connectors' = <<>> /\ launching' = [c \in Clients |-> None] /\ stuck' = FALSE
    /\ UNCHANGED <<pgid, osVars, clean, saved>>
-----------------------------------------------------------------------------
Init ==
    /\ phase = "running"
    /\ clean = FALSE /\ saved = FALSE
    /\ stateFile = <<>>
    /\ stuck = FALSE
    /\ connectors = StartRegistry
    /\ launching = [c \in Clients |-> None]
    /\ pgid = [k \in Keys |-> None]
    /\ proc = [p \in Pids |-> "free"]
    /\ tree = [p \in Pids |-> FALSE]
    /\ termed = {}

Running == phase = "running" /\ Requests /\ UNCHANGED <<exitVars, stuck>>
Outside == OperatingSystem /\ UNCHANGED <<exitVars, stuck>>

\* The poller's round, every half second: the status of every connector, with a
\* snapshot for each launched process and a probe of each HTTP peer, and the
\* status of Ollama, which is a probe too.
Polling ==
    /\ phase = "running" /\ ~stuck
    /\ HasLaunchable /\ Refresh
    /\ UNCHANGED <<exitVars, stuck>>

\* A peer takes the connection and says nothing.
PeerSilent ==
    /\ phase = "running" /\ ~stuck
    /\ stuck' = TRUE
    /\ UNCHANGED <<processVars, exitVars>>

Next ==
    \/ Running \/ Outside \/ Polling \/ PeerSilent
    \/ Start \/ StartUnread \/ Quit \/ Save \/ Crash

Spec == Init /\ [][Next]_vars

\* The poller makes a round every half second as long as its probes are answered;
\* that they are is not assumed, for they have no timeout.
FairSpec == Spec /\ WF_vars(Polling)
-----------------------------------------------------------------------------
(* Properties                                                              *)

\* Every variable keeps its type.
TypeOK ==
    /\ ProcessTypeOK
    /\ phase \in {"running", "saving", "unsaved", "down"}
    /\ stateFile \in Seq(Connectors)
    /\ clean \in BOOLEAN /\ saved \in BOOLEAN
    /\ stuck \in BOOLEAN

\* A clean exit has told every shell to stop, also one whose launch was under
\* way when the user quit (~ProcessManager after the threads are joined).
CleanExitStopsAll ==
    phase = "down" /\ clean => \A p \in Pids : proc[p] = "shell" => p \in termed

IsPlain(d) == ~d.capable /\ d.braces = "matched"

\* "Runtime-registered connectors are saved on exit and restored on the next
\* start", --config entries winning for the same id: true of connectors without
\* capabilities and without stray braces, if the exit wrote the file, which
\* save_state does not check (droidcli.cpp:318), and the file can be read.
PlainConnectorsReturn ==
    [][Start /\ saved /\ (\A d \in ToSet(connectors) : IsPlain(d))
       => /\ ToSet(Config) \subseteq ToSet(connectors')
          /\ \A d \in ToSet(connectors) :
                d \in ToSet(connectors') \/ IndexOf(Config, d.id) # {}]_vars

\* A shell that exits by itself is reaped while the TUI polls a launched
\* connector, unless it is stopped or replaced first (waitpid in
\* refresh_locked), or a peer keeps the poller's probe for ever, which has no
\* timeout (host.cpp:1365).
ExitedShellReaped ==
    \A p \in Pids :
        proc[p] = "zombie" /\ p \notin termed
        ~> \/ proc[p] # "zombie" \/ p \in termed
           \/ ~HasLaunchable \/ phase # "running"
           \/ stuck
=============================================================================

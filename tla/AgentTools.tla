----------------------------- MODULE AgentTools -----------------------------
(***************************************************************************)
(* What the agent's tools do to files and programs (src/cli/host.cpp,      *)
(* src/cli/filesystem_tools.cpp), between the prompt that shows a gated    *)
(* call and its execution, with the path guards they share                 *)
(* (src/src/reliability/path_guards.cpp).  POSIX, with HOME set.  Of all   *)
(* the paths a model may write, one file name is followed, spelled in      *)
(* every way the guards tell apart; its content is left out.               *)
(***************************************************************************)
EXTENDS CommandRunner

\* Where a file can be: on the Desktop, beside it with "Desktop\" in its name, in
\* a folder of the working directory, and anywhere else.
Places == {"desktop", "beside", "cwd", "stray"}

CONSTANTS
    Tools,     \* the gated tools considered
    Spellings, \* how a path is spelled: f, Desktop/f, <the Desktop>/f, dir/f,
               \* another folder named Desktop, and a placeholder
    Indexed,   \* the index of installed applications names the program asked for
    Nothing    \* no call, no program

ASSUME ToolsAssumption ==
    /\ Tools \subseteq {"write_file", "delete_file", "create_directory", "copy_file",
                        "move_path", "open_application", "run_command", "run_ffmpeg"}
    /\ Spellings \subseteq {"bare", "token", "full", "relative", "invented", "placeholder"}
    /\ Indexed \in BOOLEAN
    /\ Nothing \notin {"indexed", "first", "second"}

VARIABLES
    files,    \* files[p]: "absent", "file" or "folder"
    folders,  \* the places whose parent folder exists
    programs, \* the places where the program asked for exists
    call,     \* the gated call that waits for a decision, or that is being run
    stage,    \* "none", "shown", "approved", "running"
    opened    \* the program launched since the last proposal

toolVars == <<files, folders, programs, call, stage, opened>>
vars == <<runnerVars, toolVars>>
-----------------------------------------------------------------------------
(* Path guards                                                             *)

LooksLikePlaceholder(s) == s = "placeholder"
LooksLikeInvented(s) == s = "invented"

\* As the operating system reads it in a directory.
AsSpelled(s, directory) ==
    CASE s = "full" -> "desktop"
      [] s = "bare" -> directory
      [] s = "relative" /\ directory = "cwd" -> "cwd"
      [] OTHER -> "stray"

\* substitute_bare_desktop_token.
Substituted(s, directory) == IF s = "token" THEN "desktop" ELSE AsSpelled(s, directory)

\* default_bare_filename_to_desktop joins with a backslash.
Resolved(s) == IF s = "bare" THEN "beside" ELSE Substituted(s, "cwd")

\* Every tool that changes files refuses what these guards refuse.
Refused(s) == LooksLikePlaceholder(s) \/ LooksLikeInvented(s)
-----------------------------------------------------------------------------
(* Programs                                                                *)

\* Where it may be: where the index says, or first and second on PATH.
Programs == IF Indexed THEN {"indexed"} ELSE {"first", "second"}

\* resolve_open_application_target of a name: the index is not compared with the
\* disk, PATH is.
ByName ==
    CASE Indexed -> "indexed"
      [] ~Indexed /\ "first" \in programs -> "first"
      [] ~Indexed /\ "first" \notin programs /\ "second" \in programs -> "second"
      [] OTHER -> Nothing

\* Of a path: it must be a file now.
ByPath(program) == IF program \in programs THEN program ELSE Nothing
-----------------------------------------------------------------------------
(* Calls                                                                   *)

OnePath == {"write_file", "delete_file", "create_directory"}
TwoPaths == {"copy_file", "move_path"}
Commands == {"run_command", "run_ffmpeg"}

FileCalls ==
    [tool : Tools \cap OnePath, from : Spellings, to : {Nothing}, target : {Nothing}]
    \cup [tool : Tools \cap TwoPaths, from : Spellings, to : Spellings, target : {Nothing}]

Calls ==
    FileCalls
    \cup [tool : Tools \cap Commands, from : Spellings, to : {Nothing}, target : {Nothing}]
    \cup [tool : Tools \cap {"open_application"}, from : {Nothing}, to : {Nothing},
          target : {Nothing}]

\* The call once its program has been resolved.
OpenCalls ==
    [tool : {"open_application"}, from : {Nothing}, to : {Nothing}, target : Programs]

ASSUME NoCallAssumption == Nothing \notin Calls \cup OpenCalls

\* display_arguments_with_full_paths resolves a path of the file tools, and
\* leaves one it would refuse.
ShownPlace(s) == IF Refused(s) THEN AsSpelled(s, "cwd") ELSE Resolved(s)

Shown(c) ==
    CASE c.tool \in OnePath -> {ShownPlace(c.from)}
      [] c.tool \in TwoPaths -> {ShownPlace(c.from), ShownPlace(c.to)}
      [] OTHER -> {}

\* The place a command names when it runs, on the Desktop: run_command substitutes
\* first, where the prompt shows the text as it was written.
CommandPlace(c) == Substituted(c.from, "desktop")
-----------------------------------------------------------------------------
(* File tools: <<files, folders>> as a tool may leave them.  Every library  *)
(* call may fail, and what was done before it stays.                        *)

Put(p, what) == [files EXCEPT ![p] = what]

Becomes(outcomes) == \E after \in outcomes : files' = after[1] /\ folders' = after[2]

\* By whoever is free to change a place and the folder it is in.
Anything(p) ==
    {<<Put(p, what), folders \cup {p}>> : what \in {"absent", "file", "folder"}}
    \cup {<<Put(p, "absent"), folders \ {p}>>}

Same == {<<files, folders>>}

\* The parent folder is made where it is missing, and what follows may fail.
ParentMade(p) == Same \cup {<<files, folders \cup {p}>>}

\* A write cut short leaves a file too; content that is not what the name says is
\* refused.
WriteFile(p) ==
    ParentMade(p) \cup
        IF files[p] = "folder" THEN {} ELSE {<<Put(p, "file"), folders \cup {p}>>}

DeleteFile(p) ==
    Same \cup IF files[p] = "file" THEN {<<Put(p, "absent"), folders>>} ELSE {}

CreateDirectory(p) ==
    IF files[p] # "absent" THEN Same
    ELSE ParentMade(p) \cup {<<Put(p, "folder"), folders \cup {p}>>}

CopyFile(p, q) ==
    IF files[p] = "folder" THEN Same
    ELSE ParentMade(q) \cup
            IF files[p] = "file" /\ files[q] # "folder"
            THEN {<<Put(q, "file"), folders \cup {q}>>}
            ELSE {}

\* rename: a folder replaces an empty folder, a file a file.
MovePath(p, q) ==
    IF files[p] = "absent" THEN Same
    ELSE ParentMade(q) \cup
            IF p # q /\ files[q] \in {"absent", files[p]}
            THEN {<<[files EXCEPT ![q] = files[p], ![p] = "absent"], folders \cup {q}>>}
            ELSE {}

FilesAfter(c) ==
    CASE c.tool = "write_file" /\ ~Refused(c.from) -> WriteFile(Resolved(c.from))
      [] c.tool = "delete_file" /\ ~Refused(c.from) -> DeleteFile(Resolved(c.from))
      [] c.tool = "create_directory" /\ ~Refused(c.from) -> CreateDirectory(Resolved(c.from))
      [] c.tool = "copy_file" /\ ~Refused(c.from) /\ ~Refused(c.to) ->
            CopyFile(Resolved(c.from), Resolved(c.to))
      [] c.tool = "move_path" /\ ~Refused(c.from) /\ ~Refused(c.to) ->
            MovePath(Resolved(c.from), Resolved(c.to))
      [] OTHER -> Same
-----------------------------------------------------------------------------
(* A gated call, from the model's proposal to its result                   *)

\* precheck_and_resolve_gated_call: a command with a placeholder and a program
\* that does not resolve fail at once; a name is replaced by what it resolves to.
Propose(c) ==
    /\ stage = "none"
    /\ ~(c.tool \in Commands /\ LooksLikePlaceholder(c.from))
    /\ c.tool = "open_application" => ByName # Nothing
    /\ call' = IF c.tool = "open_application" THEN [c EXCEPT !.target = ByName] ELSE c
    /\ stage' = "shown" /\ opened' = Nothing
    /\ UNCHANGED <<runnerVars, files, folders, programs>>

Decide ==
    /\ stage = "shown"
    /\ \/ stage' = "approved" /\ UNCHANGED call
       \/ stage' = "none" /\ call' = Nothing
    /\ UNCHANGED <<runnerVars, files, folders, programs, opened>>

\* A file tool, which is a library call or two that nothing interrupts.
RunFileTool ==
    /\ stage = "approved" /\ call.tool \in OnePath \cup TwoPaths
    /\ Becomes(FilesAfter(call))
    /\ stage' = "none" /\ call' = Nothing
    /\ UNCHANGED <<runnerVars, programs, opened>>

\* Variant the checks reject: the name is looked up again.
OpenByName ==
    /\ stage = "approved" /\ call.tool = "open_application"
    /\ opened' = ByName
    /\ stage' = "none" /\ call' = Nothing
    /\ UNCHANGED <<runnerVars, files, folders, programs>>

\* open_application: what was resolved before the prompt, if it is still there.
OpenApplication ==
    /\ stage = "approved" /\ call.tool = "open_application"
    /\ opened' = ByPath(call.target)
    /\ stage' = "none" /\ call' = Nothing
    /\ UNCHANGED <<runnerVars, files, folders, programs>>

\* run_command or run_ffmpeg; an ffmpeg that is not found is not launched.
RunCommand ==
    /\ stage = "approved" /\ call.tool \in Commands
    /\ RunCommandOnce
    /\ stage' = "running"
    /\ UNCHANGED <<files, folders, programs, call, opened>>

\* While the command or what it started is alive, it may do anything to the
\* file it names.
CommandActs ==
    /\ stage = "running" /\ (child = "running" \/ heirs)
    /\ Becomes(Anything(CommandPlace(call)))
    /\ UNCHANGED <<runnerVars, programs, call, stage, opened>>

CommandReturnsTo ==
    /\ Return
    /\ stage' = "none" /\ call' = Nothing
    /\ UNCHANGED <<files, folders, programs, opened>>

CommandRuns == (Runner \/ Command) /\ UNCHANGED toolVars
-----------------------------------------------------------------------------
(* What changes meanwhile                                                  *)

\* A file tool called over HTTP asks nobody.
Request ==
    /\ Becomes(UNION {FilesAfter(c) : c \in FileCalls})
    /\ UNCHANGED <<runnerVars, programs, call, stage, opened>>

\* Others change files where they work, and install and remove programs.
OthersChange ==
    /\ \/ /\ \E s \in Spellings \cap {"full", "relative"} : Becomes(Anything(AsSpelled(s, "cwd")))
          /\ UNCHANGED programs
       \/ /\ \E some \in Programs :
                programs' = IF some \in programs THEN programs \ {some} ELSE programs \cup {some}
          /\ UNCHANGED <<files, folders>>
    /\ UNCHANGED <<runnerVars, call, stage, opened>>
-----------------------------------------------------------------------------
Init ==
    /\ RunnerInit
    /\ files = [p \in Places |-> "absent"] /\ folders = {"beside"}
    /\ programs = {} /\ call = Nothing /\ stage = "none" /\ opened = Nothing

Next ==
    \/ \E c \in Calls : Propose(c)
    \/ Decide
    \/ RunFileTool
    \/ OpenApplication
    \/ RunCommand
    \/ CommandActs
    \/ CommandReturnsTo
    \/ CommandRuns
    \/ Request
    \/ OthersChange

Spec == Init /\ [][Next]_vars

\* The runner's thread is never kept waiting but by waitpid, and time passes; the
\* command owes nothing, neither an end nor a pause in what it writes.
FairSpec ==
    /\ Spec
    /\ WF_vars(Runner /\ UNCHANGED toolVars)
    /\ WF_vars(CommandReturnsTo)
    /\ WF_vars(Expires /\ UNCHANGED toolVars)

TypeOK ==
    /\ RunnerTypeOK
    /\ files \in [Places -> {"absent", "file", "folder"}]
    /\ folders \subseteq Places
    /\ \A p \in Places \ folders : files[p] = "absent"
    /\ programs \subseteq Programs
    /\ call \in Calls \cup OpenCalls \cup {Nothing}
    /\ stage \in {"none", "shown", "approved", "running"}
    /\ opened \in Programs \cup {Nothing}
-----------------------------------------------------------------------------
\* The places whose file, or whose folder, is no longer what it was.
Changed == {p \in Places : files'[p] # files[p] \/ (p \in folders') # (p \in folders)}

\* What an approved call does is what its prompt showed, whatever has changed
\* since (host.cpp:2083): a file tool changes no file but those shown and makes no
\* folder but theirs, whatever fails on the way, and the
\* program launched is the one found before the prompt or none.  And no call of a
\* file tool, gated or not, reaches a place the guards are there to keep it from;
\* what a command does is its own.
ApprovedRunsAsShown ==
    [][ /\ stage = "approved" /\ call' = Nothing =>
            /\ Changed \subseteq Shown(call)
            /\ opened' # opened => opened' = call.target
        /\ "stray" \in Changed => stage = "running" ]_vars

\* A command with a deadline gives its thread back, whatever it does and whatever
\* it leaves running, with two exceptions, where the deadline is never looked at:
\* it closes its output and lives on (command_runner.cpp:436), or it writes as
\* fast as it is read, without end (command_runner.cpp:339).
CommandReturns ==
    runner # "idle" ~>
        \/ runner \in {"idle", "join"} \/ ~timed
        \/ []<>(unread > 0) /\ [](runner \in {"drain", "last"})
=============================================================================

---------------------------- MODULE CommandRunner ----------------------------
(***************************************************************************)
(* run_command_once (src/cli/command_runner.cpp, POSIX): a shell is forked *)
(* with its output on pipes, and one thread empties them, looks whether    *)
(* the shell has ended, and whether the deadline has passed, every 20 ms.  *)
(* The two pipes are one, written and read in pieces.                      *)
(***************************************************************************)
EXTENDS Naturals

CONSTANT PipeCapacity  \* the pieces of output the pipes hold: a writer waits for more room

ASSUME RunnerAssumption == PipeCapacity \in Nat

VARIABLES
    runner,  \* where the thread is: "idle", "drain", "look", "clock", "join", "kill",
             \* "reap", "last", "done"
    timed,   \* timeout_ms > 0
    expired, \* the deadline has passed
    open,    \* stdout_open || stderr_open, of the last time the pipes were found empty
    child,   \* the shell: "none", "running", "ended", "reaped"
    killed,  \* it was ended by the runner
    shut,    \* it has closed both of its ends of the pipes
    heirs,   \* what it started holds the pipes too, and may outlive it
    unread,  \* pieces in the pipes
    owed,    \* those of them that were there when the shell ended
    outcome  \* "none", "notLaunched", "exited", "timedOut"

runnerVars == <<runner, timed, expired, open, child, killed, shut, heirs, unread, owed, outcome>>

PipesOpen == heirs \/ (child = "running" /\ ~shut)
-----------------------------------------------------------------------------
(* The runner                                                              *)

\* pipe and fork may fail; a timeout_ms of 0 or less is no deadline.
RunCommandOnce ==
    /\ runner = "idle"
    /\ timed' \in BOOLEAN
    /\ \/ runner' = "drain" /\ child' = "running" /\ UNCHANGED outcome
       \/ runner' = "done" /\ outcome' = "notLaunched" /\ UNCHANGED child
    /\ UNCHANGED <<expired, open, killed, shut, heirs, unread, owed>>

\* One read of drain_available, which reads on for as long as it gets something:
\* a command that writes as fast keeps the thread here.
Read ==
    /\ runner \in {"drain", "last"} /\ unread > 0
    /\ unread' = unread - 1
    /\ owed' = IF owed > 0 THEN owed - 1 ELSE 0
    /\ UNCHANGED <<runner, timed, expired, open, child, killed, shut, heirs, outcome>>

\* The read that finds nothing, or the end of the pipes.
Drained ==
    /\ runner = "drain" /\ unread = 0
    /\ open' = PipesOpen
    /\ runner' = "look"
    /\ UNCHANGED <<timed, expired, child, killed, shut, heirs, unread, owed, outcome>>

\* waitpid with WNOHANG.  What the shell wrote since the pipes were found empty is
\* not read any more.
Look ==
    /\ runner = "look"
    /\ IF child = "ended"
       THEN runner' = "done" /\ child' = "reaped" /\ outcome' = "exited"
       ELSE /\ runner' = IF open THEN "clock" ELSE "join"
            /\ UNCHANGED <<child, outcome>>
    /\ UNCHANGED <<timed, expired, open, killed, shut, heirs, unread, owed>>

\* waitpid without, once the pipes are closed.
Join ==
    /\ runner = "join" /\ child = "ended"
    /\ runner' = "done" /\ child' = "reaped" /\ outcome' = "exited"
    /\ UNCHANGED <<timed, expired, open, killed, shut, heirs, unread, owed>>

Clock ==
    /\ runner = "clock"
    /\ runner' = IF timed /\ expired THEN "kill" ELSE "drain"
    /\ UNCHANGED <<timed, expired, open, child, killed, shut, heirs, unread, owed, outcome>>

\* SIGKILL to the shell alone; one that has ended since it was looked at is
\* left as it is, and its status is thrown away.
Kill ==
    /\ runner = "kill"
    /\ runner' = "reap"
    /\ killed' = (child = "running")
    /\ child' = "ended"
    /\ owed' = IF child = "running" THEN unread ELSE owed
    /\ UNCHANGED <<timed, expired, open, shut, heirs, unread, outcome>>

\* Variant the checks reject: the output is not read once more after the kill.
ReapOnly ==
    /\ runner = "reap"
    /\ runner' = "done" /\ child' = "reaped" /\ outcome' = "timedOut"
    /\ UNCHANGED <<timed, expired, open, killed, shut, heirs, unread, owed>>

Reap ==
    /\ runner = "reap"
    /\ runner' = "last" /\ child' = "reaped"
    /\ UNCHANGED <<timed, expired, open, killed, shut, heirs, unread, owed, outcome>>

\* Variant the checks reject: the last drain waits for the end of the pipes.
LastDrainedAtEnd ==
    /\ runner = "last" /\ unread = 0 /\ ~PipesOpen
    /\ runner' = "done" /\ outcome' = "timedOut"
    /\ UNCHANGED <<timed, expired, open, child, killed, shut, heirs, unread, owed>>

\* The last drain is over; what it says of the pipes is not looked at.
LastDrained ==
    /\ runner = "last" /\ unread = 0
    /\ runner' = "done" /\ outcome' = "timedOut"
    /\ UNCHANGED <<timed, expired, open, child, killed, shut, heirs, unread, owed>>

\* The pipes are closed and the tool answers; what the command left behind is no
\* longer its own.
Return ==
    /\ runner = "done"
    /\ runner' = "idle" /\ child' = "none" /\ outcome' = "none"
    /\ timed' = FALSE /\ expired' = FALSE /\ open' = FALSE /\ killed' = FALSE
    /\ shut' = FALSE /\ heirs' = FALSE
    /\ unread' = 0 /\ owed' = 0

Runner == Read \/ Drained \/ Look \/ Join \/ Clock \/ Kill \/ Reap \/ LastDrained
-----------------------------------------------------------------------------
(* The command                                                             *)

Writes ==
    /\ PipesOpen /\ unread < PipeCapacity
    /\ unread' = unread + 1
    /\ UNCHANGED <<runner, timed, expired, open, child, killed, shut, heirs, owed, outcome>>

Shuts ==
    /\ child = "running" /\ ~shut
    /\ shut' = TRUE
    /\ UNCHANGED <<runner, timed, expired, open, child, killed, heirs, unread, owed, outcome>>

Forks ==
    /\ child = "running" /\ ~shut /\ ~heirs
    /\ heirs' = TRUE
    /\ UNCHANGED <<runner, timed, expired, open, child, killed, shut, unread, owed, outcome>>

HeirEnds ==
    /\ heirs
    /\ heirs' = FALSE
    /\ UNCHANGED <<runner, timed, expired, open, child, killed, shut, unread, owed, outcome>>

Ends ==
    /\ child = "running"
    /\ child' = "ended" /\ owed' = unread
    /\ UNCHANGED <<runner, timed, expired, open, killed, shut, heirs, unread, outcome>>

Expires ==
    /\ child # "none" /\ ~expired
    /\ expired' = TRUE
    /\ UNCHANGED <<runner, timed, open, child, killed, shut, heirs, unread, owed, outcome>>

Command == Writes \/ Shuts \/ Forks \/ HeirEnds \/ Ends \/ Expires
-----------------------------------------------------------------------------
RunnerInit ==
    /\ runner = "idle" /\ child = "none" /\ outcome = "none"
    /\ timed = FALSE /\ expired = FALSE /\ open = FALSE /\ killed = FALSE
    /\ shut = FALSE /\ heirs = FALSE
    /\ unread = 0 /\ owed = 0

RunnerTypeOK ==
    /\ runner \in {"idle", "drain", "look", "clock", "join", "kill", "reap", "last", "done"}
    /\ timed \in BOOLEAN /\ expired \in BOOLEAN /\ open \in BOOLEAN /\ killed \in BOOLEAN
    /\ shut \in BOOLEAN /\ heirs \in BOOLEAN
    /\ child \in {"none", "running", "ended", "reaped"}
    /\ unread \in 0 .. PipeCapacity /\ owed \in 0 .. unread
    /\ outcome \in {"none", "notLaunched", "exited", "timedOut"}

\* When the tool answers, the shell has been waited for; a command is reported
\* as timed out if the runner killed it, and only past the deadline it was given.
\* All it wrote until it ended has been read if it timed out
\* (command_runner.hpp:28) or if the pipes were closed when they were last empty;
\* of a command that ends while something holds its pipes, what came after that
\* is lost, because nothing reads between the look that finds it ended
\* (command_runner.cpp:429) and the answer.
CommandReported ==
    runner = "done" =>
        /\ child \in {"none", "reaped"}
        /\ killed => outcome = "timedOut"
        /\ outcome = "timedOut" => timed /\ expired
        /\ outcome = "timedOut" \/ ~open => owed = 0
=============================================================================

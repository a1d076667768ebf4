----------------------------- MODULE TaskQueue -----------------------------
(***************************************************************************)
(* The task queue (src/src/app/tasks.cpp) and the loop that drains it      *)
(* (DroidHost::tick_tasks): claim one task under the lock, dispatch it     *)
(* without the lock, record the outcome under the lock again.              *)
(*                                                                         *)
(* tasks_ is a vector that is only appended to and erased from; ids are    *)
(* handed out in that order, so it is a function from ids to tasks, walked *)
(* in the order of the ids.  A deadline is kept as the time left until it. *)
(***************************************************************************)
EXTENDS Integers, FiniteSets

CONSTANTS
    Commands,     \* task commands in use
    Delays,       \* delay_ms of requests, in clock ticks; 0 is none
    Recurrences,  \* recurrence_ms of requests, in clock ticks; 0 is one-shot
    MaxHistory,   \* kMaxHistoryEntries
    MaxTasks,     \* bound: tasks ever enqueued
    MaxRuns,      \* bound: run_count saturates here
    Interleaved,  \* another thread (the TUI's worker) uses the queue as well
    MayThrow      \* a dispatch may end in an exception the loop catches

ASSUME TaskQueueAssumption ==
    /\ Delays \subseteq Nat /\ Recurrences \subseteq Nat
    /\ MaxHistory \in Nat /\ MaxTasks \in Nat
    /\ MaxRuns \in Nat /\ MaxRuns > 1
    /\ Interleaved \in BOOLEAN /\ MayThrow \in BOOLEAN

VARIABLES
    tasks,     \* tasks_
    made,      \* ids handed out so far
    held,      \* the task tick_tasks has claimed and not finished; 0 is none
    result,    \* what the dispatch of the held task has done so far; "hung" if the
               \* loop's thread is in a call that never returns
    stranded   \* tasks whose dispatch ended in an exception

vars == <<tasks, made, held, result, stranded>>

Task == [cmd : Commands,
         status : {"pending", "running", "done", "failed", "cancelled"},
         wait : Nat, every : Recurrences, runs : 0..MaxRuns]

Terminal == {"done", "failed", "cancelled"}
Finished(q) == {i \in DOMAIN q : q[i].status \in Terminal}
Live(q) == {i \in DOMAIN q : q[i].status \in {"pending", "running"}}
-----------------------------------------------------------------------------
\* Variant the checks reject: the oldest entries go, whatever their status.
TrimmedOldest(q) ==
    LET excess == Cardinality(DOMAIN q) - MaxHistory
        gone == {i \in DOMAIN q : Cardinality({j \in DOMAIN q : j < i}) < excess}
    IN  [i \in DOMAIN q \ gone |-> q[i]]

\* trim_history: while there are too many tasks, erase the oldest finished one.
Trimmed(q) ==
    LET excess == Cardinality(DOMAIN q) - MaxHistory
        gone == {i \in Finished(q) :
                    Cardinality({j \in Finished(q) : j < i}) < excess}
    IN  [i \in DOMAIN q \ gone |-> q[i]]

\* Requests are served by the thread that runs tick_tasks, or by any other.
RequestsServed == Interleaved \/ (held = 0 /\ result # "hung")

Enqueue ==
    /\ RequestsServed
    /\ made < MaxTasks
    /\ made' = made + 1
    /\ \E c \in Commands, d \in Delays, r \in Recurrences :
          LET task == [cmd |-> c, status |-> "pending",
                       wait |-> d, every |-> r, runs |-> 0]
          IN  tasks' = Trimmed([i \in DOMAIN tasks \cup {made'} |->
                                   IF i = made' THEN task ELSE tasks[i]])
    /\ UNCHANGED <<held, result, stranded>>

\* Variant the checks reject: the cap is left to the next request.
CancelUntrimmed(i) ==
    /\ RequestsServed
    /\ i \in Live(tasks)
    /\ tasks' = [tasks EXCEPT ![i].status = "cancelled"]
    /\ UNCHANGED <<made, held, result, stranded>>

\* cancel: a finished task stays as it is.
Cancel(i) ==
    /\ RequestsServed
    /\ i \in Live(tasks)
    /\ tasks' = Trimmed([tasks EXCEPT ![i].status = "cancelled"])
    /\ UNCHANGED <<made, held, result, stranded>>

\* Variant the checks reject: a cancelled task is due again.
DueAfterCancel(i) ==
    /\ i \in DOMAIN tasks
    /\ tasks[i].status \in {"pending", "cancelled"}
    /\ tasks[i].wait = 0

Due(i) == i \in DOMAIN tasks /\ tasks[i].status = "pending" /\ tasks[i].wait = 0

\* Variant the checks reject: the newest due task is claimed.
ClaimableNewest(i) == Due(i) /\ \A j \in DOMAIN tasks : Due(j) => j <= i

\* The first task of the vector that is pending and due.
Claimable(i) == Due(i) /\ \A j \in DOMAIN tasks : Due(j) => i <= j

\* claim_next
Claim ==
    /\ held = 0 /\ result = "none"
    /\ \E i \in DOMAIN tasks :
          /\ Claimable(i)
          /\ held' = i
          /\ tasks' = [tasks EXCEPT ![i].status = "running",
                                    ![i].runs = IF @ = MaxRuns THEN @ ELSE @ + 1]
    /\ UNCHANGED <<made, result, stranded>>

\* The dispatch works or not; an exception unwinds tick_tasks to the loop in
\* main, which goes on with the next request and the next task.
Dispatch ==
    /\ held # 0 /\ result = "none"
    /\ \/ /\ result' \in {"worked", "failed"}
          /\ UNCHANGED <<held, stranded>>
       \/ /\ MayThrow
          /\ held' = 0
          /\ stranded' = stranded \cup {held}
          /\ UNCHANGED result
    /\ UNCHANGED <<tasks, made>>

\* The loop's thread waits for ever: for a peer that says nothing, asked by a
\* dispatch or by a request (sync_http_request has no timeout), or for a command
\* run by a request.
Hang ==
    /\ result = "none"
    /\ result' = "hung"
    /\ UNCHANGED <<tasks, made, held, stranded>>

\* tick_tasks looks for "success":true in the results of launch_connector and
\* stop_connector, which say "ok":true.
Success(cmd) == result = "worked" /\ cmd \notin {"launch", "stop"}

\* Variant the checks reject: a recurring task ends like a one-shot one.
AfterRunOnce(task) ==
    [task EXCEPT !.status = IF Success(task.cmd) THEN "done" ELSE "failed"]

\* Variants the checks reject: every task is queued again; only a success is
\* recorded.
AfterRunAgain(task) ==
    [task EXCEPT !.status = "pending", !.wait = task.every]
AfterRunSilent(task) ==
    IF Success(task.cmd) THEN [task EXCEPT !.status = "done"] ELSE task

\* complete and fail: whatever the status is by now.
AfterRun(task) ==
    IF task.every > 0
    THEN [task EXCEPT !.status = "pending", !.wait = task.every]
    ELSE [task EXCEPT !.status = IF Success(task.cmd) THEN "done" ELSE "failed"]

\* The second critical section of tick_tasks.  A task trimmed meanwhile is
\* not found, and nothing is recorded.
Finish ==
    /\ held # 0 /\ result \in {"worked", "failed"}
    /\ tasks' = IF held \in DOMAIN tasks
                THEN Trimmed([tasks EXCEPT ![held] = AfterRun(@)])
                ELSE tasks
    /\ held' = 0
    /\ result' = "none"
    /\ UNCHANGED <<made, stranded>>

ClockTick ==
    /\ \E i \in DOMAIN tasks : tasks[i].wait > 0
    /\ tasks' = [i \in DOMAIN tasks |->
                    [tasks[i] EXCEPT !.wait = IF @ > 0 THEN @ - 1 ELSE 0]]
    /\ UNCHANGED <<made, held, result, stranded>>

\* The queue is in memory only.
Restart ==
    /\ tasks' = [i \in {} |-> {}]
    /\ held' = 0
    /\ result' = "none"
    /\ stranded' = {}
    /\ UNCHANGED made
-----------------------------------------------------------------------------
Init ==
    /\ tasks = [i \in {} |-> {}]
    /\ made = 0
    /\ held = 0
    /\ result = "none"
    /\ stranded = {}

Next ==
    \/ Enqueue
    \/ \E i \in DOMAIN tasks : Cancel(i)
    \/ Claim \/ Dispatch \/ Hang \/ Finish
    \/ ClockTick
    \/ Restart

Spec == Init /\ [][Next]_vars

\* The loop in main ticks for ever unless its thread hangs, a dispatch then
\* returns, and time passes.  That the thread does not hang is not assumed.
FairSpec ==
    /\ Spec
    /\ WF_vars(Claim) /\ WF_vars(Dispatch) /\ WF_vars(Finish)
    /\ WF_vars(ClockTick)
-----------------------------------------------------------------------------
(* Properties                                                              *)

\* Every task keeps its type, the held task is one that was handed out, and
\* only a one-shot task ever reads done or failed (Task::status).
TypeOK ==
    /\ made \in 0..MaxTasks
    /\ DOMAIN tasks \subseteq 1..made
    /\ tasks \in [DOMAIN tasks -> Task]
    /\ held \in 0..made
    /\ result \in {"none", "worked", "failed", "hung"}
    /\ stranded \subseteq 1..made
    /\ held = 0 => result \in {"none", "hung"}
    /\ \A i \in DOMAIN tasks :
          tasks[i].status \in {"done", "failed"} => tasks[i].every = 0

\* A one-shot task is dispatched at most once, whatever is cancelled, thrown
\* or requested while it runs (claim_next, complete, fail).
OneShotRunsOnce ==
    \A i \in DOMAIN tasks : tasks[i].every = 0 => tasks[i].runs <= 1

\* cancel: "never picks it up again - the only way to stop a recurring task
\* for good".
CancelStopsTask ==
    [][\A i \in DOMAIN tasks \cap DOMAIN tasks' :
          tasks[i].status = "cancelled" => tasks'[i].status = "cancelled"]_vars

\* What is left of it: a cancel is undone only by the end of a run that was in
\* progress when it came, which takes a second thread.
CancelHolds ==
    [][\A i \in DOMAIN tasks \cap DOMAIN tasks' :
          tasks[i].status = "cancelled"
          => tasks'[i].status = "cancelled" \/ (Interleaved /\ i = held)]_vars

\* The queue outgrows its cap only with tasks that are pending or running.
HistoryBound ==
    Cardinality(DOMAIN tasks) > MaxHistory => Finished(tasks) = {}

\* A pending or running task leaves the queue only by ending, by a cancel or
\* with the process: trimming never drops work that is still to be done.
LiveKept ==
    [][\A i \in Live(tasks) \ DOMAIN tasks' :
          (i = held /\ Finish) \/ Cancel(i) \/ Restart]_vars

\* A task reads "running" only while tick_tasks holds it, or for good after an
\* exception: no other order of requests strands a task.
RunningIsHeld ==
    \A i \in DOMAIN tasks :
        tasks[i].status = "running" => i = held \/ i \in stranded

IsPending(i) == i \in DOMAIN tasks /\ tasks[i].status = "pending"

\* The loop dispatches a recurring task that precedes i in the vector.
Overtaken(i) ==
    held \in DOMAIN tasks /\ held < i /\ tasks[held].every > 0

\* A pending task is claimed (or cancelled, or lost with the process) in the
\* end.  Two things keep it waiting for good: the loop's thread hangs, or
\* recurring tasks before it are dispatched over and over, for claim_next starts
\* at the front every time and they may be due again by then.
PendingServed ==
    \A i \in 1..MaxTasks :
        \/ IsPending(i) ~> ~IsPending(i) \/ result = "hung"
        \/ []<>Overtaken(i)
=============================================================================

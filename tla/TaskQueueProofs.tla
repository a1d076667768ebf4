-------------------------- MODULE TaskQueueProofs --------------------------
(***************************************************************************)
(* Theorems about TaskQueue for every number of tasks, every cap, every    *)
(* set of delays and recurrences, with and without a second thread.        *)
(***************************************************************************)
EXTENDS TaskQueue, FiniteSetTheorems, WellFoundedInduction, TLAPS

\* Trimming restricts the queue and erases no pending or running task.
LEMMA TrimmedRestricts ==
    ASSUME NEW q
    PROVE  /\ DOMAIN Trimmed(q) \subseteq DOMAIN q
           /\ Trimmed(q) = [i \in DOMAIN Trimmed(q) |-> q[i]]
           /\ Live(q) \subseteq DOMAIN Trimmed(q)
<1> DEFINE excess == Cardinality(DOMAIN q) - MaxHistory
           gone == {i \in Finished(q) :
                       Cardinality({j \in Finished(q) : j < i}) < excess}
<1>1. Trimmed(q) = [i \in DOMAIN q \ gone |-> q[i]]
  BY DEF Trimmed
<1>2. gone \cap Live(q) = {}
  <2> SUFFICES Finished(q) \cap Live(q) = {}
    OBVIOUS
  <2> QED  BY DEF Finished, Live, Terminal
<1> HIDE DEF gone
<1>3. DOMAIN Trimmed(q) = DOMAIN q \ gone
  BY <1>1
<1>4. Live(q) \subseteq DOMAIN q
  BY DEF Live
<1> QED  BY <1>1, <1>2, <1>3, <1>4

\* A trimmed queue of tasks is a queue of tasks.
LEMMA TrimmedTyped ==
    ASSUME NEW q, NEW n, DOMAIN q \subseteq 1..n, q \in [DOMAIN q -> Task]
    PROVE  /\ DOMAIN Trimmed(q) \subseteq 1..n
           /\ Trimmed(q) \in [DOMAIN Trimmed(q) -> Task]
BY TrimmedRestricts

-----------------------------------------------------------------------------
(* The inductive invariant                                                 *)

\* A pending one-shot task has not run, and no one-shot task ran twice.
OneShotFresh ==
    \A i \in DOMAIN tasks :
        tasks[i].every = 0 =>
            /\ tasks[i].runs <= 1
            /\ tasks[i].status = "pending" => tasks[i].runs = 0

\* With one thread, the claimed task is still running when it is finished.
HeldIsRunning ==
    ~Interleaved /\ held \in DOMAIN tasks => tasks[held].status = "running"

Inv == TypeOK /\ OneShotFresh /\ RunningIsHeld /\ HeldIsRunning

\* An empty queue satisfies the invariant.
LEMMA InvInit == Init => Inv
BY TaskQueueAssumption
   DEF Init, Inv, TypeOK, OneShotFresh, RunningIsHeld, HeldIsRunning

\* recurrence_ms is a number.
LEMMA RecurrenceIsNat == ASSUME NEW task \in Task PROVE task.every \in Nat
<1>1. task.every \in Recurrences
  BY DEF Task
<1> QED  BY <1>1, TaskQueueAssumption

\* complete and fail leave a typed task that is neither running nor cancelled.
LEMMA AfterRunTyped ==
    ASSUME NEW task \in Task
    PROVE  /\ AfterRun(task) \in Task
           /\ AfterRun(task).every = task.every
           /\ AfterRun(task).runs = task.runs
           /\ AfterRun(task).status # "running"
           /\ AfterRun(task).status # "cancelled"
           /\ task.every = 0 => AfterRun(task).status # "pending"
           /\ AfterRun(task).status \in {"done", "failed"} => task.every = 0
<1>1. CASE task.every > 0
  <2>1. AfterRun(task) = [task EXCEPT !.status = "pending", !.wait = task.every]
    BY <1>1 DEF AfterRun
  <2>2. task.every \in Nat /\ task.every # 0
    BY <1>1, RecurrenceIsNat
  <2> QED  BY <2>1, <2>2 DEF Task
<1>2. CASE ~(task.every > 0)
  <2>1. task.every = 0
    BY <1>2, RecurrenceIsNat
  <2>2. PICK s \in {"done", "failed"} : AfterRun(task) = [task EXCEPT !.status = s]
    BY <1>2 DEF AfterRun
  <2> QED  BY <2>1, <2>2 DEF Task
<1> QED  BY <1>1, <1>2

\* Every operation of the queue keeps the invariant.
LEMMA InvNext == Inv /\ [Next]_vars => Inv'
<1> SUFFICES ASSUME Inv, [Next]_vars PROVE Inv'
  OBVIOUS
<1> USE DEF Inv
<1>1. CASE Enqueue
  <2>1. PICK c \in Commands, d \in Delays, r \in Recurrences :
          tasks' = Trimmed([i \in DOMAIN tasks \cup {made'} |->
                      IF i = made' THEN [cmd |-> c, status |-> "pending",
                                         wait |-> d, every |-> r, runs |-> 0]
                      ELSE tasks[i]])
    BY <1>1 DEF Enqueue
  <2> DEFINE task == [cmd |-> c, status |-> "pending",
                      wait |-> d, every |-> r, runs |-> 0]
             q == [i \in DOMAIN tasks \cup {made'} |->
                      IF i = made' THEN task ELSE tasks[i]]
  <2>2. made' = made + 1 /\ made' \in 1..MaxTasks /\ made \in Nat
        /\ UNCHANGED <<held, result, stranded>>
    BY <1>1, TaskQueueAssumption DEF Enqueue, TypeOK
  <2>3. task \in Task
    BY TaskQueueAssumption DEF Task
  <2>4. DOMAIN q \subseteq 1..made' /\ q \in [DOMAIN q -> Task]
    BY <2>2, <2>3 DEF TypeOK
  <2>5. tasks' = Trimmed(q)
    BY <2>1
  <2>6. made' \notin DOMAIN tasks /\ held # made'
    BY <2>2 DEF TypeOK
  <2>7. \A i \in DOMAIN tasks' : tasks'[i] = IF i = made' THEN task ELSE tasks[i]
    BY <2>5, TrimmedRestricts
  <2>8. DOMAIN tasks' \subseteq DOMAIN tasks \cup {made'}
    BY <2>5, TrimmedRestricts
  <2>9. TypeOK'
    <3>1. DOMAIN tasks' \subseteq 1..made' /\ tasks' \in [DOMAIN tasks' -> Task]
      BY <2>4, <2>5, TrimmedTyped
    <3>2. made' \in 0..MaxTasks /\ held' \in 0..made' /\ stranded' \subseteq 1..made'
      BY <2>2 DEF TypeOK
    <3>3. \A i \in DOMAIN tasks' :
            tasks'[i].status \in {"done", "failed"} => tasks'[i].every = 0
      BY <2>7, <2>8 DEF TypeOK
    <3> QED  BY <2>2, <3>1, <3>2, <3>3 DEF TypeOK
  <2> QED
    BY <2>2, <2>6, <2>7, <2>8, <2>9
       DEF OneShotFresh, RunningIsHeld, HeldIsRunning
<1>2. ASSUME NEW k \in DOMAIN tasks, Cancel(k) PROVE Inv'
  <2> DEFINE q == [tasks EXCEPT ![k].status = "cancelled"]
  <2>1. tasks' = Trimmed(q) /\ UNCHANGED <<made, held, result, stranded>>
    BY <1>2 DEF Cancel
  <2>2. DOMAIN q \subseteq 1..made /\ q \in [DOMAIN q -> Task]
    BY DEF TypeOK, Task
  <2>3. \A i \in DOMAIN tasks' : tasks'[i] = q[i]
    BY <2>1, TrimmedRestricts
  <2>4. DOMAIN tasks' \subseteq DOMAIN tasks
    BY <2>1, TrimmedRestricts
  <2>5. \A i \in DOMAIN tasks' :
            /\ tasks'[i].every = tasks[i].every /\ tasks'[i].runs = tasks[i].runs
            /\ tasks'[i].status = IF i = k THEN "cancelled" ELSE tasks[i].status
    BY <2>3, <2>4 DEF TypeOK, Task
  <2>6. TypeOK'
    BY <2>1, <2>2, <2>4, <2>5, TrimmedTyped DEF TypeOK
  <2>7. Interleaved \/ held = 0
    BY <1>2 DEF Cancel, RequestsServed
  <2>8. 0 \notin DOMAIN tasks'
    BY <2>4 DEF TypeOK
  <2> HIDE DEF q
  <2>9. OneShotFresh'
    BY <2>4, <2>5 DEF OneShotFresh
  <2>10. RunningIsHeld'
    BY <2>1, <2>4, <2>5 DEF RunningIsHeld
  <2>11. HeldIsRunning'
    BY <2>1, <2>7, <2>8 DEF HeldIsRunning
  <2> QED  BY <2>6, <2>9, <2>10, <2>11
<1>3. CASE Claim
  <2>1. PICK k \in DOMAIN tasks :
          /\ Claimable(k)
          /\ held' = k
          /\ tasks' = [tasks EXCEPT ![k].status = "running",
                           ![k].runs = IF @ = MaxRuns THEN @ ELSE @ + 1]
    BY <1>3 DEF Claim
  <2>2. held = 0 /\ UNCHANGED <<made, result, stranded>>
    BY <1>3 DEF Claim
  <2>3. DOMAIN tasks' = DOMAIN tasks /\ tasks[k].status = "pending"
    BY <2>1 DEF Claimable, Due
  <2>4. \A i \in DOMAIN tasks :
            /\ tasks'[i].every = tasks[i].every
            /\ i # k => tasks'[i] = tasks[i]
    BY <2>1 DEF TypeOK, Task
  <2>5. /\ tasks'[k].status = "running" /\ tasks'[k] \in Task
        /\ tasks[k].runs = 0 => tasks'[k].runs = 1
    <3>1. tasks[k] \in Task /\ tasks[k].runs \in 0..MaxRuns
      BY DEF TypeOK, Task
    <3>2. PICK n \in 0..MaxRuns :
            /\ tasks'[k] = [tasks[k] EXCEPT !.status = "running", !.runs = n]
            /\ tasks[k].runs = 0 => n = 1
      <4> DEFINE n == IF tasks[k].runs = MaxRuns THEN MaxRuns
                     ELSE tasks[k].runs + 1
      <4>1. n \in 0..MaxRuns /\ (tasks[k].runs = 0 => n = 1)
        BY <3>1, TaskQueueAssumption
      <4>2. tasks'[k] = [tasks[k] EXCEPT !.status = "running", !.runs = n]
        BY <2>1 DEF TypeOK
      <4> QED  BY <4>1, <4>2
    <3> QED  BY <3>1, <3>2 DEF Task
  <2>6. tasks' \in [DOMAIN tasks' -> Task]
    BY <2>1, <2>3, <2>4, <2>5 DEF TypeOK
  <2>7. TypeOK'
    BY <2>1, <2>2, <2>3, <2>4, <2>5, <2>6 DEF TypeOK
  <2>8. \A i \in DOMAIN tasks : tasks[i].status = "running" => i \in stranded
    BY <2>2 DEF RunningIsHeld, TypeOK
  <2> QED
    BY <2>1, <2>2, <2>3, <2>4, <2>5, <2>7, <2>8
       DEF OneShotFresh, RunningIsHeld, HeldIsRunning
<1>4. CASE Dispatch
  <2>1. UNCHANGED <<tasks, made>> /\ held # 0 /\ result = "none"
    BY <1>4 DEF Dispatch
  <2>2. CASE result' \in {"worked", "failed"} /\ UNCHANGED <<held, stranded>>
    BY <2>1, <2>2 DEF TypeOK, OneShotFresh, RunningIsHeld, HeldIsRunning
  <2>3. CASE /\ held' = 0 /\ stranded' = stranded \cup {held}
             /\ UNCHANGED result
    BY <2>1, <2>3 DEF TypeOK, OneShotFresh, RunningIsHeld, HeldIsRunning
  <2> QED  BY <1>4, <2>2, <2>3 DEF Dispatch
<1>5. CASE Finish
  <2>1. held # 0 /\ held' = 0 /\ result' = "none" /\ UNCHANGED <<made, stranded>>
    BY <1>5 DEF Finish
  <2>2. CASE held \notin DOMAIN tasks
    <3>1. tasks' = tasks
      BY <1>5, <2>2 DEF Finish
    <3> QED
      BY <2>1, <2>2, <3>1 DEF TypeOK, OneShotFresh, RunningIsHeld, HeldIsRunning
  <2>3. CASE held \in DOMAIN tasks
    <3> DEFINE q == [tasks EXCEPT ![held] = AfterRun(@)]
    <3>1. tasks' = Trimmed(q)
      BY <1>5, <2>3 DEF Finish
    <3>2. tasks[held] \in Task
      BY <2>3 DEF TypeOK
    <3>3. /\ DOMAIN q = DOMAIN tasks /\ q[held] = AfterRun(tasks[held])
          /\ \A i \in DOMAIN tasks : i # held => q[i] = tasks[i]
      BY <2>3 DEF TypeOK
    <3>4. DOMAIN q \subseteq 1..made /\ q \in [DOMAIN q -> Task]
      BY <3>2, AfterRunTyped DEF TypeOK
    <3>5. \A i \in DOMAIN tasks' : tasks'[i] = q[i]
      BY <3>1, TrimmedRestricts
    <3>6. DOMAIN tasks' \subseteq DOMAIN tasks
      BY <3>1, <3>3, TrimmedRestricts
    <3>7. \A i \in DOMAIN tasks' :
              i # held => tasks'[i] = tasks[i]
      BY <3>3, <3>5, <3>6
    <3>8. held \in DOMAIN tasks' => tasks'[held] = AfterRun(tasks[held])
      BY <3>3, <3>5
    <3> HIDE DEF q
    <3>9. TypeOK'
      <4>1. DOMAIN tasks' \subseteq 1..made' /\ tasks' \in [DOMAIN tasks' -> Task]
        BY <2>1, <3>1, <3>4, TrimmedTyped
      <4>2. \A i \in DOMAIN tasks' :
              tasks'[i].status \in {"done", "failed"} => tasks'[i].every = 0
        BY <3>2, <3>6, <3>7, <3>8, AfterRunTyped DEF TypeOK
      <4> QED  BY <2>1, <4>1, <4>2 DEF TypeOK
    <3>10. OneShotFresh'
      BY <3>2, <3>6, <3>7, <3>8, AfterRunTyped DEF OneShotFresh
    <3>11. RunningIsHeld'
      BY <2>1, <3>2, <3>6, <3>7, <3>8, AfterRunTyped DEF RunningIsHeld
    <3>12. HeldIsRunning'
      BY <2>1, <3>6 DEF HeldIsRunning, TypeOK
    <3> QED  BY <3>9, <3>10, <3>11, <3>12
  <2> QED  BY <2>2, <2>3
<1>6. CASE ClockTick
  <2>1. /\ tasks' = [i \in DOMAIN tasks |->
                       [tasks[i] EXCEPT !.wait = IF @ > 0 THEN @ - 1 ELSE 0]]
        /\ UNCHANGED <<made, held, result, stranded>>
    BY <1>6 DEF ClockTick
  <2>2. DOMAIN tasks' = DOMAIN tasks
    BY <2>1
  <2>3. \A i \in DOMAIN tasks :
            /\ tasks'[i] \in Task
            /\ tasks'[i].every = tasks[i].every /\ tasks'[i].runs = tasks[i].runs
            /\ tasks'[i].status = tasks[i].status
    BY <2>1 DEF TypeOK, Task
  <2>4. tasks' \in [DOMAIN tasks' -> Task]
    BY <2>1, <2>2, <2>3
  <2> QED
    BY <2>1, <2>2, <2>3, <2>4
       DEF TypeOK, OneShotFresh, RunningIsHeld, HeldIsRunning
<1>7. CASE Restart
  <2>1. DOMAIN tasks' = {} /\ tasks' \in [DOMAIN tasks' -> Task]
    BY <1>7 DEF Restart
  <2> QED
    BY <1>7, <2>1
       DEF Restart, TypeOK, OneShotFresh, RunningIsHeld, HeldIsRunning
<1>8. CASE UNCHANGED vars
  BY <1>8 DEF vars, TypeOK, OneShotFresh, RunningIsHeld, HeldIsRunning
<1>9. CASE Hang
  BY <1>9 DEF Hang, TypeOK, OneShotFresh, RunningIsHeld, HeldIsRunning
<1> QED  BY <1>1, <1>2, <1>3, <1>4, <1>5, <1>6, <1>7, <1>8, <1>9 DEF Next

\* The invariant holds throughout.
LEMMA InvAlways == Spec => []Inv
BY InvInit, InvNext, PTL DEF Spec

-----------------------------------------------------------------------------
(* Theorems                                                                *)

\* Types, and the meaning of done and failed: only one-shot tasks ever read so.
THEOREM TypeCorrect == Spec => []TypeOK
BY InvAlways, PTL DEF Inv

\* A one-shot task is dispatched at most once.
THEOREM OneShotCorrect == Spec => []OneShotRunsOnce
<1>1. Inv => OneShotRunsOnce
  BY DEF Inv, OneShotFresh, OneShotRunsOnce
<1> QED  BY <1>1, InvAlways, PTL

\* A task that reads running is held by tick_tasks, or threw.
THEOREM RunningCorrect == Spec => []RunningIsHeld
BY InvAlways, PTL DEF Inv

-----------------------------------------------------------------------------
(* What a step does to a cancelled task                                    *)

CancelUndone(i) ==
    /\ tasks[i].status = "cancelled"
    /\ tasks'[i].status # "cancelled"

\* Only complete or fail, for the claimed task, takes a task out of cancelled.
LEMMA OnlyFinishUndoesCancel ==
    ASSUME Inv, [Next]_vars,
           NEW i \in DOMAIN tasks \cap DOMAIN tasks', CancelUndone(i)
    PROVE  Finish /\ i = held
<1> USE DEF CancelUndone
<1>1. CASE Enqueue
  <2>1. PICK task :
          tasks' = Trimmed([j \in DOMAIN tasks \cup {made'} |->
                               IF j = made' THEN task ELSE tasks[j]])
    BY <1>1 DEF Enqueue
  <2>2. i # made'
    BY <1>1 DEF Enqueue, Inv, TypeOK
  <2>3. tasks'[i] = tasks[i]
    BY <2>1, <2>2, TrimmedRestricts
  <2> QED  BY <2>3
<1>2. ASSUME NEW k \in DOMAIN tasks, Cancel(k) PROVE FALSE
  <2> DEFINE q == [tasks EXCEPT ![k].status = "cancelled"]
  <2>1. tasks' = Trimmed(q)
    BY <1>2 DEF Cancel
  <2>2. tasks'[i] = q[i]
    BY <2>1, TrimmedRestricts
  <2>3. q[i].status = "cancelled"
    BY DEF Inv, TypeOK, Task
  <2> QED  BY <2>2, <2>3
<1>3. CASE Claim
  BY <1>3 DEF Claim, Claimable, Due
<1>4. CASE Dispatch
  BY <1>4 DEF Dispatch
<1>5. CASE Finish
  <2>1. CASE held \in DOMAIN tasks
    <3> DEFINE q == [tasks EXCEPT ![held] = AfterRun(@)]
    <3>1. tasks' = Trimmed(q)
      BY <1>5, <2>1 DEF Finish
    <3>2. tasks'[i] = q[i]
      BY <3>1, TrimmedRestricts
    <3>3. i # held => q[i] = tasks[i]
      OBVIOUS
    <3> QED  BY <1>5, <3>2, <3>3
  <2>2. CASE held \notin DOMAIN tasks
    BY <1>5, <2>2 DEF Finish
  <2> QED  BY <2>1, <2>2
<1>6. CASE ClockTick
  <2>1. tasks'[i].status = tasks[i].status
    BY <1>6 DEF ClockTick, Inv, TypeOK, Task
  <2> QED  BY <2>1
<1>7. CASE Restart
  BY <1>7 DEF Restart
<1>8. CASE UNCHANGED vars
  BY <1>8 DEF vars
<1>9. CASE Hang
  BY <1>9 DEF Hang
<1> QED  BY <1>1, <1>2, <1>3, <1>4, <1>5, <1>6, <1>7, <1>8, <1>9 DEF Next

\* A cancel is undone only by a run in progress, and only with two threads.
THEOREM CancelCorrect == Spec => CancelHolds
<1>1. Inv /\ [Next]_vars =>
        [\A i \in DOMAIN tasks \cap DOMAIN tasks' :
            tasks[i].status = "cancelled"
            => tasks'[i].status = "cancelled" \/ (Interleaved /\ i = held)]_vars
  BY OnlyFinishUndoesCancel DEF CancelUndone, Inv, HeldIsRunning
<1> QED  BY <1>1, InvAlways, PTL DEF Spec, CancelHolds

\* With one thread, the headless daemon, cancel keeps its promise.
THEOREM HeadlessCancelCorrect ==
    ASSUME Interleaved = FALSE
    PROVE  Spec => CancelStopsTask
<1>1. Inv /\ [Next]_vars =>
        [\A i \in DOMAIN tasks \cap DOMAIN tasks' :
            tasks[i].status = "cancelled" => tasks'[i].status = "cancelled"]_vars
  BY OnlyFinishUndoesCancel DEF CancelUndone, Inv, HeldIsRunning
<1> QED  BY <1>1, InvAlways, PTL DEF Spec, CancelStopsTask

-----------------------------------------------------------------------------
(* What a step does to a task that is still to be done                     *)

\* A pending or running task that leaves the queue was finished, cancelled or
\* lost with the process: trim_history erases none.
LEMMA LiveLeavesOnlyByEnding ==
    ASSUME Inv, [Next]_vars, NEW i \in Live(tasks) \ DOMAIN tasks'
    PROVE  (i = held /\ Finish) \/ Cancel(i) \/ Restart
<1>0. i \in DOMAIN tasks
  BY DEF Live
<1>1. CASE Enqueue
  <2>1. PICK task :
          tasks' = Trimmed([j \in DOMAIN tasks \cup {made'} |->
                               IF j = made' THEN task ELSE tasks[j]])
    BY <1>1 DEF Enqueue
  <2> DEFINE q == [j \in DOMAIN tasks \cup {made'} |->
                      IF j = made' THEN task ELSE tasks[j]]
  <2>2. i # made'
    BY <1>0, <1>1 DEF Enqueue, Inv, TypeOK
  <2>3. i \in Live(q)
    BY <1>0, <2>2 DEF Live
  <2> QED  BY <2>1, <2>3, TrimmedRestricts
<1>2. ASSUME NEW k \in DOMAIN tasks, Cancel(k) PROVE Cancel(i)
  <2> DEFINE q == [tasks EXCEPT ![k].status = "cancelled"]
  <2>1. tasks' = Trimmed(q)
    BY <1>2 DEF Cancel
  <2>2. CASE i = k
    BY <1>2, <2>2
  <2>3. CASE i # k
    <3>1. i \in Live(q)
      BY <1>0, <2>3 DEF Live
    <3> QED  BY <2>1, <3>1, TrimmedRestricts
  <2> QED  BY <2>2, <2>3
<1>3. CASE Claim
  BY <1>0, <1>3 DEF Claim
<1>4. CASE Dispatch
  BY <1>0, <1>4 DEF Dispatch
<1>5. CASE Finish
  <2>1. CASE held \in DOMAIN tasks /\ i # held
    <3> DEFINE q == [tasks EXCEPT ![held] = AfterRun(@)]
    <3>1. tasks' = Trimmed(q)
      BY <1>5, <2>1 DEF Finish
    <3>2. i \in Live(q)
      BY <1>0, <2>1 DEF Live
    <3> QED  BY <3>1, <3>2, TrimmedRestricts
  <2>2. CASE held \notin DOMAIN tasks
    BY <1>0, <1>5, <2>2 DEF Finish
  <2> QED  BY <1>5, <2>1, <2>2
<1>6. CASE ClockTick
  BY <1>0, <1>6 DEF ClockTick
<1>7. CASE Restart
  BY <1>7
<1>8. CASE UNCHANGED vars
  BY <1>0, <1>8 DEF vars
<1>9. CASE Hang
  BY <1>0, <1>9 DEF Hang
<1> QED  BY <1>1, <1>2, <1>3, <1>4, <1>5, <1>6, <1>7, <1>8, <1>9 DEF Next

\* Trimming never drops work that is still to be done.
THEOREM LiveCorrect == Spec => LiveKept
<1>1. Inv /\ [Next]_vars =>
        [\A i \in Live(tasks) \ DOMAIN tasks' :
            (i = held /\ Finish) \/ Cancel(i) \/ Restart]_vars
  BY LiveLeavesOnlyByEnding
<1> QED  BY <1>1, InvAlways, PTL DEF Spec, LiveKept

-----------------------------------------------------------------------------
(* The history cap                                                         *)

\* A set of numbers has a least one (trim_history's oldest finished task).
LEMMA LeastNat ==
    ASSUME NEW T \in SUBSET Nat, T # {}
    PROVE  \E n \in T : \A m \in T : n <= m
<1> DEFINE R == OpToRel(<, Nat)
<1>1. PICK n \in T : \A m \in T : ~(<<m, n>> \in R)
  <2>1. IsWellFoundedOn(R, Nat)
    BY NatLessThanWellFounded
  <2> HIDE DEF R
  <2> QED  BY <2>1, WFMin
<1>2. \A m \in T : m < n => <<m, n>> \in R
  BY DEF OpToRel
<1> HIDE DEF R
<1>3. \A m \in T : ~(m < n)
  BY <1>1, <1>2
<1> QED  BY <1>3

\* Either trimming gets below the cap, or it has erased all that is finished:
\* everything finished before the oldest survivor is gone, and that is at least
\* the excess.
LEMMA TrimmedBound ==
    ASSUME NEW q, NEW n \in Nat, DOMAIN q \subseteq 1..n
    PROVE  Cardinality(DOMAIN Trimmed(q)) > MaxHistory => Finished(Trimmed(q)) = {}
<1> DEFINE D == DOMAIN q
           F == Finished(q)
           older(i) == {j \in F : j < i}
           excess == Cardinality(D) - MaxHistory
           gone == {i \in F : Cardinality(older(i)) < excess}
<1>1. Trimmed(q) = [i \in D \ gone |-> q[i]]
  BY DEF Trimmed
<1>2. DOMAIN Trimmed(q) = D \ gone /\ Finished(Trimmed(q)) = F \ gone
  BY <1>1 DEF Finished
<1>3. F \subseteq D /\ D \subseteq Nat /\ gone \subseteq F
  BY DEF Finished
<1>4. IsFiniteSet(D) /\ Cardinality(D) \in Nat
  <2>1. IsFiniteSet(1..n)
    BY FS_Interval
  <2> QED  BY <2>1, FS_Subset, FS_CardinalityType
<1>5. ASSUME F \ gone # {} PROVE Cardinality(D \ gone) <= MaxHistory
  <2>1. PICK i \in F \ gone : \A j \in F \ gone : i <= j
    BY <1>3, <1>5, LeastNat
  <2>2. older(i) \subseteq gone
    BY <1>3, <2>1
  <2>3. older(i) \subseteq D /\ gone \subseteq D
    BY <1>3
  <2>4. /\ IsFiniteSet(gone) /\ Cardinality(gone) \in Nat
        /\ Cardinality(older(i)) \in Nat
    BY <1>4, <2>3, FS_Subset, FS_CardinalityType
  <2>5. Cardinality(older(i)) <= Cardinality(gone)
    BY <2>2, <2>4, FS_Subset
  <2>6. ~(Cardinality(older(i)) < excess)
    BY <2>1
  <2>7. D \cap gone = gone
    BY <2>3
  <2> HIDE DEF D, F, older, gone
  <2>8. Cardinality(D \ gone) = Cardinality(D) - Cardinality(gone)
    BY <1>4, <2>7, FS_Difference
  <2> QED  BY <1>4, <2>4, <2>5, <2>6, <2>8, TaskQueueAssumption
<1>6. Cardinality(D \ gone) \in Nat
  BY <1>4, FS_Subset, FS_CardinalityType
<1> HIDE DEF D, F, gone
<1> QED  BY <1>2, <1>5, <1>6, TaskQueueAssumption

\* Steps that change no status and remove nothing keep the bound.
LEMMA HistoryNext == Inv /\ HistoryBound /\ [Next]_vars => HistoryBound'
<1> SUFFICES ASSUME Inv, HistoryBound, [Next]_vars PROVE HistoryBound'
  OBVIOUS
<1> USE DEF HistoryBound
<1>0. made \in Nat /\ made' \in Nat /\ DOMAIN tasks \subseteq 1..made
  <2>1. Inv'
    BY InvNext
  <2> QED  BY <2>1, TaskQueueAssumption DEF Inv, TypeOK
<1>1. CASE Enqueue
  <2>1. PICK task :
          tasks' = Trimmed([j \in DOMAIN tasks \cup {made'} |->
                               IF j = made' THEN task ELSE tasks[j]])
    BY <1>1 DEF Enqueue
  <2> DEFINE q == [j \in DOMAIN tasks \cup {made'} |->
                      IF j = made' THEN task ELSE tasks[j]]
  <2>2. DOMAIN q \subseteq 1..made'
    BY <1>0, <1>1 DEF Enqueue
  <2> HIDE DEF q
  <2>3. Cardinality(DOMAIN Trimmed(q)) > MaxHistory => Finished(Trimmed(q)) = {}
    BY <1>0, <2>2, TrimmedBound
  <2> QED  BY <2>1, <2>3 DEF q
<1>2. ASSUME NEW k \in DOMAIN tasks, Cancel(k) PROVE HistoryBound'
  BY <1>0, <1>2, TrimmedBound DEF Cancel
<1>3. CASE Claim
  <2>1. DOMAIN tasks' = DOMAIN tasks
    BY <1>3 DEF Claim
  <2>2. Finished(tasks') \subseteq Finished(tasks)
    <3>1. PICK k \in DOMAIN tasks : \E n :
            tasks' = [tasks EXCEPT ![k].status = "running", ![k].runs = n]
      BY <1>3 DEF Claim
    <3>2. \A i \in DOMAIN tasks : i # k => tasks'[i] = tasks[i]
      BY <3>1
    <3>3. tasks'[k].status = "running"
      BY <3>1 DEF Inv, TypeOK, Task
    <3> QED  BY <2>1, <3>2, <3>3 DEF Finished, Terminal
  <2> QED  BY <2>1, <2>2
<1>4. CASE Dispatch
  BY <1>4 DEF Dispatch
<1>5. CASE Finish
  <2>1. CASE held \in DOMAIN tasks
    BY <1>0, <1>5, <2>1, TrimmedBound DEF Finish
  <2>2. CASE held \notin DOMAIN tasks
    BY <1>5, <2>2 DEF Finish
  <2> QED  BY <2>1, <2>2
<1>6. CASE ClockTick
  <2>1. DOMAIN tasks' = DOMAIN tasks
    BY <1>6 DEF ClockTick
  <2>2. Finished(tasks') \subseteq Finished(tasks)
    BY <1>6, <2>1 DEF ClockTick, Finished, Inv, TypeOK, Task
  <2> QED  BY <2>1, <2>2
<1>7. CASE Restart
  BY <1>7 DEF Restart, Finished
<1>8. CASE UNCHANGED vars
  BY <1>8 DEF vars
<1>9. CASE Hang
  BY <1>9 DEF Hang
<1> QED  BY <1>1, <1>2, <1>3, <1>4, <1>5, <1>6, <1>7, <1>8, <1>9 DEF Next

\* The queue outgrows its cap only with work that is still to be done.
THEOREM HistoryCorrect == Spec => []HistoryBound
<1>1. Init => HistoryBound
  BY DEF Init, HistoryBound, Finished
<1> QED  BY <1>1, InvAlways, HistoryNext, PTL DEF Spec
=============================================================================

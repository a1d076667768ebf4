--------------------------- MODULE AgentToolsProofs ---------------------------
(***************************************************************************)
(* Proofs about AgentTools, for any tools, spellings and size of pipes.    *)
(* RunnerInv says what the runner knows of the shell at each of its steps, *)
(* which makes CommandReported inductive; PlaceKept says where a file tool *)
(* may write, which with CallInv gives ApprovedRunsAsShown.                *)
(***************************************************************************)
EXTENDS AgentTools, TLAPS

\* While the runner watches, the shell is its own and nothing has been decided.
Watching == runner \in {"drain", "look", "clock", "join", "kill"}

RunnerControl ==
    /\ timed \in BOOLEAN /\ expired \in BOOLEAN /\ open \in BOOLEAN /\ killed \in BOOLEAN
    /\ runner \in {"idle", "drain", "look", "clock", "join", "kill", "reap", "last", "done"}
    /\ child \in {"none", "running", "ended", "reaped"}
    /\ outcome \in {"none", "notLaunched", "exited", "timedOut"}
    /\ runner = "idle" => child = "none" /\ outcome = "none" /\ ~killed
    /\ Watching => child \in {"running", "ended"} /\ outcome = "none" /\ ~killed
    /\ runner = "kill" => timed /\ expired
    /\ runner = "reap" => child = "ended" /\ outcome = "none" /\ timed /\ expired
    /\ runner = "last" => child = "reaped" /\ outcome = "none" /\ timed /\ expired
    /\ runner = "done" =>
        /\ child \in {"none", "reaped"}
        /\ killed => outcome = "timedOut"
        /\ outcome = "timedOut" => timed /\ expired

\* Closed pipes stay closed, and empty: of a shell that has shut both its ends, or
\* ended, nothing can come any more.
Closed ==
    /\ shut \in BOOLEAN /\ heirs \in BOOLEAN
    /\ runner \in {"look", "join"} /\ ~open => ~PipesOpen /\ unread = 0

RunnerOutput ==
    /\ unread \in 0 .. PipeCapacity /\ owed \in 0 .. unread
    /\ Closed
    /\ runner \in {"clock", "kill"} => open
    /\ runner = "join" => ~open
    /\ runner = "idle" => unread = 0 /\ ~heirs
    /\ runner = "done" /\ (outcome = "timedOut" \/ ~open) => owed = 0

RunnerInv == RunnerControl /\ RunnerOutput

\* The runner's own steps keep what it knows of the shell.
LEMMA ControlKept ==
    RunnerControl /\ (RunCommandOnce \/ Return \/ Runner \/ Command) => RunnerControl'
<1> SUFFICES ASSUME RunnerControl, RunCommandOnce \/ Return \/ Runner \/ Command
             PROVE  RunnerControl'
  OBVIOUS
<1> USE DEF RunnerControl, Watching
<1>1. CASE RunCommandOnce
  <2>1. CASE runner' = "drain"
    BY <1>1, <2>1 DEF RunCommandOnce
  <2>2. CASE runner' = "done"
    BY <1>1, <2>2 DEF RunCommandOnce
  <2> QED BY <1>1, <2>1, <2>2 DEF RunCommandOnce
<1>2. CASE Return
  BY <1>2 DEF Return
<1>3. CASE Read
  BY <1>3 DEF Read
<1>4. CASE Drained
  BY <1>4 DEF Drained, Closed, PipesOpen
<1>5. CASE Look
  BY <1>5 DEF Look
<1>6. CASE Join
  BY <1>6 DEF Join
<1>7. CASE Clock
  BY <1>7 DEF Clock
<1>8. CASE Kill
  <2>1. /\ runner = "kill" /\ runner' = "reap" /\ child' = "ended" /\ killed' \in BOOLEAN
        /\ UNCHANGED <<timed, expired, open, outcome>>
    BY <1>8 DEF Kill
  <2> QED BY <2>1
<1>9. CASE Reap \/ LastDrained
  BY <1>9 DEF Reap, LastDrained
<1>10. CASE Command
  <2>1. CASE Ends
    BY <2>1 DEF Ends
  <2>2. CASE Expires
    BY <2>2 DEF Expires
  <2>3. CASE Writes \/ Shuts \/ Forks \/ HeirEnds
    BY <2>3 DEF Writes, Shuts, Forks, HeirEnds
  <2> QED BY <1>10, <2>1, <2>2, <2>3 DEF Command
<1> QED
  BY <1>1, <1>2, <1>3, <1>4, <1>5, <1>6, <1>7, <1>8, <1>9, <1>10 DEF Runner

\* What the shell wrote before it ended is read, but for what came between the last
\* drain of open pipes and the look that found it ended.
LEMMA OutputKept ==
    RunnerInv /\ (RunCommandOnce \/ Return \/ Runner \/ Command) => RunnerOutput'
<1> SUFFICES ASSUME RunnerInv, RunCommandOnce \/ Return \/ Runner \/ Command
             PROVE  RunnerOutput'
  OBVIOUS
<1>0. PipeCapacity \in Nat /\ unread \in Nat /\ owed \in Nat /\ unread <= PipeCapacity
      /\ owed <= unread
  BY RunnerAssumption DEF RunnerInv, RunnerOutput
<1> USE RunnerAssumption
    DEF RunnerInv, RunnerOutput, RunnerControl, Watching, Closed, PipesOpen
<1>1. CASE RunCommandOnce
  <2>1. owed = 0
    BY <1>0, <1>1 DEF RunCommandOnce
  <2>2. CASE runner' = "drain"
    BY <1>1, <2>1, <2>2 DEF RunCommandOnce
  <2>3. CASE runner' = "done"
    BY <1>1, <2>1, <2>3 DEF RunCommandOnce
  <2> QED BY <1>1, <2>2, <2>3 DEF RunCommandOnce
<1>2. CASE Return
  <2>1. unread' \in 0 .. PipeCapacity /\ owed' \in 0 .. unread'
    BY <1>0, <1>2 DEF Return
  <2> QED BY <1>2, <2>1 DEF Return
<1>3. CASE Read
  BY <1>0, <1>3 DEF Read
<1>4. CASE Drained
  BY <1>4 DEF Drained
<1>5. CASE Look
  BY <1>0, <1>5 DEF Look
<1>6. CASE Join
  BY <1>0, <1>6 DEF Join
<1>7. CASE Clock
  BY <1>7 DEF Clock
<1>8. CASE Kill
  BY <1>0, <1>8 DEF Kill
<1>9. CASE Reap
  BY <1>9 DEF Reap
<1>10. CASE LastDrained
  BY <1>0, <1>10 DEF LastDrained
<1>11. CASE Writes
  BY <1>0, <1>11 DEF Writes
<1>12. CASE Ends
  BY <1>0, <1>12 DEF Ends
<1>13. CASE Shuts
  BY <1>13 DEF Shuts
<1>14. CASE Forks
  BY <1>14 DEF Forks
<1>15. CASE HeirEnds
  BY <1>15 DEF HeirEnds
<1>16. CASE Expires
  BY <1>16 DEF Expires
<1> QED
  BY <1>1, <1>2, <1>3, <1>4, <1>5, <1>6, <1>7, <1>8, <1>9, <1>10, <1>11, <1>12, <1>13,
     <1>14, <1>15, <1>16
  DEF Runner, Command

\* No other step is a step of the runner.
LEMMA RunnerStep == RunnerInv /\ [Next]_vars => RunnerInv'
<1> SUFFICES ASSUME RunnerInv, [Next]_vars PROVE RunnerInv'
  OBVIOUS
<1>1. CASE UNCHANGED runnerVars
  BY <1>1 DEF runnerVars, RunnerInv, RunnerControl, RunnerOutput, Watching, Closed, PipesOpen
<1>2. CASE RunCommandOnce \/ Return \/ Runner \/ Command
  BY <1>2, ControlKept, OutputKept DEF RunnerInv
<1> QED
  BY <1>1, <1>2
  DEF Next, vars, Propose, Decide, RunFileTool, OpenApplication, RunCommand, CommandActs,
      CommandReturnsTo, CommandRuns, Request, OthersChange

\* No command has been run.
LEMMA RunnerStart == Init => RunnerInv
<1> SUFFICES ASSUME Init PROVE RunnerInv
  OBVIOUS
<1>1. RunnerControl
  BY DEF Init, RunnerInit, RunnerControl, Watching
<1>2. RunnerOutput
  <2>1. unread \in 0 .. PipeCapacity /\ owed \in 0 .. unread
    BY RunnerAssumption DEF Init, RunnerInit
  <2> QED BY <2>1 DEF Init, RunnerInit, RunnerOutput, Closed
<1> QED BY <1>1, <1>2 DEF RunnerInv

\* A command is reported as it ended: waited for, as timed out if the runner killed
\* it, and then only past its deadline; and with all its output, but for what a
\* command that ended by itself wrote after open pipes were last found empty.
THEOREM CommandCorrect == Spec => []CommandReported
<1>1. RunnerInv => CommandReported
  BY DEF RunnerInv, RunnerControl, RunnerOutput, CommandReported
<1> QED BY <1>1, RunnerStart, RunnerStep, PTL DEF Spec
-----------------------------------------------------------------------------
CallInv ==
    /\ call \in Calls \cup OpenCalls \cup {Nothing}
    /\ stage \in {"none", "shown", "approved", "running"}
    /\ stage = "none" <=> call = Nothing
    /\ stage \in {"shown", "approved"} => opened = Nothing
    /\ DOMAIN files = Places

\* Whatever a file tool does, the places stay the same.
LEMMA PlacesKept == \A c : \A after \in FilesAfter(c) : DOMAIN after[1] = DOMAIN files
BY DEF FilesAfter, WriteFile, DeleteFile, CreateDirectory, CopyFile, MovePath, Put, Same,
       ParentMade

\* What ByName finds is one of the places a program may be in.
LEMMA ByNameInPrograms == ByName \in Programs \cup {Nothing}
BY ToolsAssumption DEF ByName, Programs

\* A resolved call has the program where the unresolved one has none.
LEMMA ResolvedCall ==
    ASSUME NEW c \in Calls, c.tool = "open_application", ByName # Nothing
    PROVE  [c EXCEPT !.target = ByName] \in OpenCalls
<1>1. c \in [tool : Tools \cap {"open_application"}, from : {Nothing}, to : {Nothing},
             target : {Nothing}]
  BY DEF Calls, FileCalls, OnePath, TwoPaths, Commands
<1> QED BY <1>1, ByNameInPrograms DEF OpenCalls

\* Every step keeps CallInv.
LEMMA CallStep == CallInv /\ [Next]_vars => CallInv'
<1> SUFFICES ASSUME CallInv, [Next]_vars PROVE CallInv'
  OBVIOUS
<1> USE NoCallAssumption DEF CallInv
<1>1. DOMAIN files' = DOMAIN files
  <2>1. CASE CommandActs
    BY <2>1 DEF CommandActs, Becomes, Anything, Put
  <2>2. CASE Request
    BY <2>2, PlacesKept DEF Request, Becomes
  <2>3. CASE RunFileTool
    BY <2>3, PlacesKept DEF RunFileTool, Becomes
  <2>4. CASE OthersChange
    BY <2>4 DEF OthersChange, Becomes, Anything, Put
  <2> QED
    BY <2>1, <2>2, <2>3, <2>4
    DEF Next, vars, toolVars, Propose, Decide, OpenApplication, RunCommand,
        CommandReturnsTo, CommandRuns
<1>2. ASSUME NEW c \in Calls, Propose(c) PROVE CallInv'
  BY <1>1, <1>2, ResolvedCall DEF Propose
<1>3. CASE Decide
  BY <1>1, <1>3 DEF Decide
<1>4. CASE RunFileTool
  BY <1>1, <1>4 DEF RunFileTool
<1>5. CASE OpenApplication \/ CommandReturnsTo
  BY <1>1, <1>5 DEF OpenApplication, CommandReturnsTo
<1>6. CASE RunCommand
  BY <1>1, <1>6 DEF RunCommand
<1>7. CASE UNCHANGED <<call, stage, opened>>
  BY <1>1, <1>7
<1> QED
  BY <1>2, <1>3, <1>4, <1>5, <1>6, <1>7
  DEF Next, vars, toolVars, CommandActs, CommandRuns, Request, OthersChange

\* No call has been proposed.
LEMMA CallStart == Init => CallInv
BY DEF Init, CallInv

\* A path the guards let pass is shown as it is resolved, and is never stray.
LEMMA Guarded ==
    ASSUME NEW s \in Spellings, ~Refused(s)
    PROVE  ShownPlace(s) = Resolved(s) /\ Resolved(s) # "stray"
BY ToolsAssumption
DEF Refused, LooksLikePlaceholder, LooksLikeInvented, ShownPlace, Resolved, Substituted,
    AsSpelled

Touched(after, p) == after[1][p] # files[p] \/ (p \in after[2]) # (p \in folders)

\* What a tool of one path touches is that path, or its folder.
LEMMA OnePathTouched ==
    ASSUME NEW q, NEW p \in DOMAIN files,
           NEW after \in WriteFile(q) \cup DeleteFile(q) \cup CreateDirectory(q),
           Touched(after, p)
    PROVE  p = q
<1>1. ASSUME p # q, NEW what PROVE Put(q, what)[p] = files[p]
  BY <1>1 DEF Put
<1> QED
  BY <1>1 DEF WriteFile, DeleteFile, CreateDirectory, Same, ParentMade, Touched

\* A copy touches where it goes, a move where it goes and where it is from.
LEMMA TwoPathsTouched ==
    ASSUME NEW q, NEW r, NEW p \in DOMAIN files,
           NEW after \in CopyFile(q, r) \cup MovePath(q, r),
           Touched(after, p)
    PROVE  p \in {q, r}
<1> DEFINE half == [files EXCEPT ![r] = files[q]]
           moved == [half EXCEPT ![q] = "absent"]
<1> SUFFICES ASSUME p # q, p # r PROVE FALSE
  OBVIOUS
<1>1. Put(r, "file")[p] = files[p]
  BY DEF Put
<1>2. half[p] = files[p]
  OBVIOUS
<1>3. moved[p] = half[p]
  OBVIOUS
<1>4. MovePath(q, r) \subseteq Same \cup ParentMade(r) \cup {<<moved, folders \cup {r}>>}
  BY DEF MovePath
<1> HIDE DEF moved, half
<1>5. CASE after \in MovePath(q, r)
  BY <1>2, <1>3, <1>4, <1>5 DEF Same, ParentMade, Touched
<1>6. CASE after \in CopyFile(q, r)
  BY <1>1, <1>6 DEF CopyFile, Same, ParentMade, Touched
<1> QED BY <1>5, <1>6

\* A file tool touches what it shows, and nothing that is stray.
LEMMA PlaceKept ==
    ASSUME NEW c \in FileCalls, NEW p \in DOMAIN files, NEW after \in FilesAfter(c),
           Touched(after, p)
    PROVE  p \in Shown(c) /\ p # "stray"
<1>1. after \notin Same
  BY DEF Same, Touched
<1>2. CASE c.tool \in OnePath
  <2>1. c.from \in Spellings /\ Shown(c) = {ShownPlace(c.from)}
    BY <1>2 DEF FileCalls, OnePath, TwoPaths, Shown
  <2>2. /\ ~Refused(c.from)
        /\ after \in WriteFile(Resolved(c.from)) \cup DeleteFile(Resolved(c.from))
                        \cup CreateDirectory(Resolved(c.from))
    BY <1>1, <1>2 DEF FilesAfter, OnePath
  <2>3. p = Resolved(c.from)
    BY <2>2, OnePathTouched
  <2> QED BY <2>1, <2>2, <2>3, Guarded
<1>3. CASE c.tool \in TwoPaths
  <2>1. /\ c.from \in Spellings /\ c.to \in Spellings
        /\ Shown(c) = {ShownPlace(c.from), ShownPlace(c.to)}
    BY <1>3 DEF FileCalls, OnePath, TwoPaths, Shown
  <2>2. /\ ~Refused(c.from) /\ ~Refused(c.to)
        /\ after \in CopyFile(Resolved(c.from), Resolved(c.to))
                        \cup MovePath(Resolved(c.from), Resolved(c.to))
    BY <1>1, <1>3 DEF FilesAfter, TwoPaths
  <2>3. p \in {Resolved(c.from), Resolved(c.to)}
    BY <2>2, TwoPathsTouched
  <2> QED BY <2>1, <2>2, <2>3, Guarded
<1> QED BY <1>2, <1>3 DEF FileCalls

Kept ==
    /\ stage = "approved" /\ call' = Nothing =>
        /\ Changed \subseteq Shown(call)
        /\ opened' # opened => opened' = call.target
    /\ "stray" \in Changed => stage = "running"

\* Every step keeps to what was shown.
LEMMA KeptStep == CallInv /\ [Next]_vars => Kept \/ UNCHANGED vars
<1> SUFFICES ASSUME CallInv, Next PROVE Kept
  OBVIOUS
<1>1. CASE UNCHANGED <<files, folders>> /\ opened' = opened
  BY <1>1 DEF Kept, Changed
<1>2. CASE RunFileTool
  <2>1. call \in FileCalls
    BY <1>2 DEF RunFileTool, CallInv, Calls, OpenCalls, OnePath, TwoPaths, Commands
  <2>2. PICK after \in FilesAfter(call) : files' = after[1] /\ folders' = after[2]
    BY <1>2 DEF RunFileTool, Becomes
  <2>3. Changed \subseteq Shown(call) /\ "stray" \notin Changed
    BY <2>1, <2>2, PlaceKept DEF Changed, CallInv, Touched
  <2> QED BY <1>2, <2>3 DEF RunFileTool, Kept
<1>3. CASE OpenApplication
  <2>1. opened = Nothing /\ opened' \in {call.target, Nothing} /\ Changed = {}
    BY <1>3 DEF OpenApplication, ByPath, CallInv, Changed
  <2> QED BY <2>1 DEF Kept
<1>4. CASE CommandActs
  BY <1>4 DEF CommandActs, Kept
<1>5. CASE Request
  <2>1. PICK c \in FileCalls : \E after \in FilesAfter(c) : files' = after[1] /\ folders' = after[2]
    BY <1>5 DEF Request, Becomes
  <2>2. "stray" \notin Changed
    BY <2>1, PlaceKept DEF Changed, CallInv, Touched
  <2> QED BY <1>5, <2>2 DEF Request, Kept, CallInv
<1>6. CASE OthersChange
  <2>1. "stray" \notin Changed
    <3>1. CASE UNCHANGED <<files, folders>>
      BY <3>1 DEF Changed
    <3>2. ASSUME NEW s \in {"full", "relative"}, Becomes(Anything(AsSpelled(s, "cwd")))
          PROVE  "stray" \notin Changed
      <4> DEFINE p == AsSpelled(s, "cwd")
      <4>1. p # "stray"
        BY DEF AsSpelled
      <4> HIDE DEF p
      <4>2. Becomes(Anything(p))
        BY <3>2 DEF p
      <4>3. \A what : Put(p, what)["stray"] = files["stray"]
        BY <4>1 DEF Put, CallInv, Places
      <4> QED BY <4>1, <4>2, <4>3 DEF Changed, Becomes, Anything
    <3> QED BY <1>6, <3>1, <3>2 DEF OthersChange
  <2> QED BY <1>6, <2>1 DEF OthersChange, Kept, CallInv
<1>7. ASSUME NEW c \in Calls, Propose(c) PROVE Kept
  BY <1>7 DEF Propose, Kept, Changed
<1> QED
  BY <1>1, <1>2, <1>3, <1>4, <1>5, <1>6, <1>7
  DEF Next, Decide, RunCommand, CommandReturnsTo, CommandRuns, toolVars

\* What an approved call does is what its prompt showed, and no file tool reaches a
\* place the guards keep it from.
THEOREM ToolsCorrect == Spec => ApprovedRunsAsShown
<1>1. CallInv /\ [Next]_vars => [Kept]_vars
  BY KeptStep
<1> QED BY <1>1, CallStart, CallStep, PTL DEF Spec, ApprovedRunsAsShown, Kept
=============================================================================

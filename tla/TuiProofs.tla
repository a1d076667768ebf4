----------------------------- MODULE TuiProofs -----------------------------
(***************************************************************************)
(* Theorems about Tui for every set of sessions and every history: the     *)
(* screen, its worker thread and the drains between them, in any order.    *)
(***************************************************************************)
EXTENDS Tui, FiniteSetTheorems, TLAPS

-----------------------------------------------------------------------------
(* The inductive invariant                                                 *)

\* What the screen and the worker may name: an id in use, or no session.
Known == used \cup {None}

\* Everything on the screen, in the worker's hands, staged and in the host
\* names sessions in use.
ScreenTyped ==
    /\ current \in Known /\ saved \in Known /\ approval \in Known
    /\ choice \in Known /\ confirm \in Known /\ given \in Known
    /\ newNext \in BOOLEAN /\ inFlight \in BOOLEAN /\ away \in BOOLEAN
    /\ panel \subseteq Known /\ menu \subseteq used
WorkerTyped ==
    /\ wpc \in {"none", "asked", "turn", "running", "decide", "answered", "ingested"}
    /\ fresh \in BOOLEAN
    /\ wsid \in Known
    /\ reply \in [session : Known, pause : BOOLEAN]
StagedTyped ==
    staged \in [session : Known, pause : BOOLEAN, said : SUBSET used,
                clear : BOOLEAN]
HostTyped ==
    /\ used \subseteq Sessions /\ hostCurrent \in used
    /\ rows \subseteq used /\ slot \in Known
Typed == ScreenTyped /\ WorkerTyped /\ StagedTyped /\ HostTyped

\* A block of the worker has the session it works in, a pause the session it
\* is about.
Equipped ==
    /\ wpc \in {"running", "decide"} => wsid # None
    /\ reply.pause => reply.session # None

\* A message on its way to a new session still finds an unused id.
IdKept == fresh => wpc \in {"asked", "turn"} /\ Sessions \ used # {}

\* The input is locked from Enter until the drain of the end of the call,
\* which is staged only once the worker is out of it.
CallLocked ==
    /\ wpc # "none" => inFlight /\ ~staged.clear
    /\ staged.clear => inFlight

\* Where the question is while the worker carries a message or a decision:
\* nowhere, in the decision, in the response, staged, or on the screen.
QuestionCarried ==
    /\ wpc \in {"asked", "turn", "decide", "running", "answered"} =>
          approval = None /\ ~staged.pause
    /\ wpc \in {"asked", "turn", "running"} => slot = None
    /\ wpc = "decide" => slot = wsid
    /\ wpc \in {"none", "asked", "turn", "decide", "running"} => ~reply.pause
    /\ wpc = "answered" => slot = IF reply.pause THEN reply.session ELSE None
    /\ wpc \in {"none", "ingested"} /\ staged.pause =>
          inFlight /\ staged.session # None /\ slot = staged.session
    /\ wpc \in {"none", "ingested"} /\ ~staged.pause => approval = slot

\* The session on the screen is the one a restart resumes, unless an erase put
\* it there.
ScreenSaved == current \notin {None, given} => saved = current

\* Where the session of a call is: with the worker, then in the response, then
\* among the chat lines staged.
CallCarried ==
    /\ wpc \in {"none", "asked", "answered", "ingested"} => wsid = None
    /\ wpc = "turn" /\ fresh => wsid = None
    /\ wpc \in {"none", "asked", "turn", "decide", "running"} => reply.session = None
    /\ staged.said # {} => wpc = "none" /\ staged.clear

\* While the screen has not been moved, it is on the session of the call, or on
\* none until the end of the call puts it there.
AtHome ==
    ~away =>
    /\ approval \in {None, current}
    /\ wpc = "asked" /\ fresh => current = None
    /\ wpc = "turn" => wsid = current
    /\ wpc \in {"decide", "running"} => current \in {None, wsid}
    /\ wpc = "answered" => reply.session = None \/ current \in {None, reply.session}
    /\ wpc = "ingested" =>
          \/ reply.session \in {None, current}
          \/ current = None /\ reply.session = staged.session
    /\ \/ staged.session \in {None, current}
       \/ /\ current = None
          /\ wpc \in {"none", "ingested"}
          /\ wpc = "ingested" => reply.session = staged.session
    /\ \/ staged.said \subseteq {current}
       \/ current = None /\ staged.said \subseteq {staged.session}

IInv ==
    /\ Typed /\ Equipped /\ IdKept /\ CallLocked /\ QuestionCarried /\ ScreenSaved
    /\ CallCarried /\ AtHome

-----------------------------------------------------------------------------
(* Unused ids                                                              *)

\* While an unused id is left, generate_session_id returns one.
LEMMA NewIdUnused ==
    ASSUME Sessions \ used # {}
    PROVE  NewId \in Sessions /\ NewId \notin used
BY DEF NewId

\* An id may be taken, and the message on its way to a new session still finds
\* another.
LEMMA IdLeftSuffices ==
    ASSUME IdLeft, fresh \in BOOLEAN, IdKept
    PROVE  /\ Sessions \ used # {}
           /\ fresh => Sessions \ (used \cup {NewId}) # {}
<1> DEFINE unused == Sessions \ used
           kept == Sessions \ (used \cup {NewId})
<1>1. Cardinality({}) = 0 /\ Cardinality({NewId}) = 1
  BY FS_EmptySet, FS_Singleton
<1>2. unused # {}
  BY <1>1 DEF IdLeft
<1>3. ASSUME fresh, kept = {} PROVE FALSE
  <2>1. unused = {NewId}
    BY <1>2, <1>3, NewIdUnused
  <2>2. Cardinality(unused) > 1
    BY <1>3 DEF IdLeft, IdKept
  <2> HIDE DEF unused
  <2> QED  BY <1>1, <2>1, <2>2
<1> QED  BY <1>2, <1>3

-----------------------------------------------------------------------------
(* Initial states                                                          *)

\* A process that has just started has nothing under way.
LEMMA InitOK == Init => IInv
<1> SUFFICES ASSUME Init PROVE IInv
  OBVIOUS
<1> USE TuiAssumption
<1>1. hostCurrent \in Sessions /\ hostCurrent \notin History
  BY DEF Init
<1>2. Typed
  <2>1. ScreenTyped /\ HostTyped
    BY <1>1 DEF Init, ScreenTyped, HostTyped, Known
  <2>2. WorkerTyped /\ StagedTyped
    BY DEF Init, WorkerTyped, StagedTyped, Known, NoReply, NothingStaged
  <2> QED  BY <2>1, <2>2 DEF Typed
<1>3. Equipped /\ IdKept /\ CallLocked /\ ScreenSaved /\ CallCarried /\ AtHome
  BY DEF Init, Equipped, IdKept, CallLocked, ScreenSaved, CallCarried, AtHome,
         NoReply, NothingStaged
<1>4. QuestionCarried
  BY DEF Init, QuestionCarried, NoReply, NothingStaged
<1> QED  BY <1>2, <1>3, <1>4 DEF IInv

-----------------------------------------------------------------------------
(* Types                                                                   *)

\* What a step leaves alone stays typed: ids in use stay in use.
LEMMA ScreenKept ==
    ASSUME ScreenTyped, used \subseteq used',
           UNCHANGED <<screenVars, menu, confirm>>
    PROVE  ScreenTyped'
BY DEF ScreenTyped, Known, screenVars, notPanel

\* So does the worker's data.
LEMMA WorkerKept ==
    ASSUME WorkerTyped, used \subseteq used', UNCHANGED workerVars
    PROVE  WorkerTyped'
<1>1. reply' \in [session : Known', pause : BOOLEAN]
  BY DEF WorkerTyped, Known, workerVars
<1>2. wsid' \in Known' /\ fresh' \in BOOLEAN /\ UNCHANGED wpc
  BY DEF WorkerTyped, Known, workerVars
<1> QED  BY <1>1, <1>2 DEF WorkerTyped

\* So does what is staged.
LEMMA StagedKept ==
    ASSUME StagedTyped, used \subseteq used', UNCHANGED staged
    PROVE  StagedTyped'
<1>1. /\ staged.session \in Known' /\ staged.pause \in BOOLEAN
      /\ staged.said \in SUBSET used' /\ staged.clear \in BOOLEAN
  BY DEF StagedTyped, Known
<1>2. staged = [session |-> staged.session, pause |-> staged.pause,
                said |-> staged.said, clear |-> staged.clear]
  BY DEF StagedTyped
<1> QED  BY <1>1, <1>2 DEF StagedTyped

\* So does the host.
LEMMA HostKept ==
    ASSUME HostTyped, UNCHANGED hostVars
    PROVE  HostTyped'
BY DEF HostTyped, Known, hostVars

\* Enter.
LEMMA SendTyped ==
    ASSUME Typed, Send \/ SendDecision
    PROVE  Typed'
<1>1. UNCHANGED <<current, saved, choice, given, menu, confirm, staged, hostVars>>
  BY DEF Send, SendDecision, DecideFor
<1>2. /\ newNext' \in BOOLEAN /\ approval' \in Known
      /\ panel' \subseteq Known /\ away' \in BOOLEAN
      /\ \E where \in {"asked", "decide"}, session \in Known, clear \in BOOLEAN :
            StartWorker(where, session, clear)
  BY DEF Send, SendDecision, DecideFor, Typed, ScreenTyped, Known
<1>3. ScreenTyped'
  BY <1>1, <1>2 DEF StartWorker, Typed, ScreenTyped, Known, hostVars
<1>4. WorkerTyped'
  BY <1>1, <1>2 DEF StartWorker, WorkerTyped, Known, NoReply, hostVars
<1>5. StagedTyped' /\ HostTyped'
  BY <1>1, StagedKept, HostKept DEF Typed, hostVars
<1> QED  BY <1>3, <1>4, <1>5 DEF Typed

\* The worker composes the message.
LEMMA WorkerAsksTyped ==
    ASSUME Typed, WorkerAsks
    PROVE  Typed'
<1>1. UNCHANGED <<notPanel, menu, confirm, reply, staged, hostVars>>
  BY DEF WorkerAsks
<1>2. used' = used /\ panel' \subseteq panel
  BY <1>1 DEF WorkerAsks, hostVars
<1>3. /\ wpc' \in {"answered", "turn"} /\ fresh' \in BOOLEAN /\ wsid' \in Known
  BY DEF WorkerAsks, Typed, WorkerTyped, ScreenTyped, Known
<1>4. WorkerTyped'
  BY <1>1, <1>2, <1>3 DEF Typed, WorkerTyped, Known
<1>5. ScreenTyped'
  BY <1>1, <1>2 DEF Typed, ScreenTyped, Known, notPanel
<1> QED  BY <1>1, <1>2, <1>4, <1>5, StagedKept, HostKept DEF Typed

\* A turn works in a session, whichever it was asked for, and moves the host
\* there.
LEMMA TurnInSession ==
    ASSUME Typed, IdKept, TurnStarts
    PROVE  \E s \in Sessions :
              /\ hostCurrent' = s /\ used' = used \cup {s}
              /\ slot' = IF slot = s THEN None ELSE slot
              /\ rows' = rows \/ rows' = rows \cup {s}
              /\ panel' \subseteq panel \cup {s}
              /\ \/ wpc' = "answered" /\ wsid' = None
                 \/ wpc' = "running" /\ wsid' = s
<1> DEFINE s == IF fresh THEN NewId ELSE IF wsid = None THEN hostCurrent ELSE wsid
<1>1. s \in Sessions
  BY NewIdUnused DEF Typed, WorkerTyped, HostTyped, Known, IdKept
<1>2. /\ hostCurrent' = s /\ used' = used \cup {s}
      /\ slot' = IF slot = s THEN None ELSE slot
      /\ rows' = rows \/ rows' = rows \cup {s}
      /\ panel' \subseteq panel \cup {s}
      /\ \/ wpc' = "answered" /\ wsid' = None
         \/ wpc' = "running" /\ wsid' = s
  BY DEF TurnStarts
<1> HIDE DEF s
<1> QED  BY <1>1, <1>2

\* The host begins a turn.
LEMMA TurnStartsTyped ==
    ASSUME Typed, IdKept, TurnStarts
    PROVE  Typed'
<1>1. PICK s \in Sessions :
         /\ hostCurrent' = s /\ used' = used \cup {s}
         /\ slot' = IF slot = s THEN None ELSE slot
         /\ rows' = rows \/ rows' = rows \cup {s}
         /\ panel' \subseteq panel \cup {s}
         /\ \/ wpc' = "answered" /\ wsid' = None
            \/ wpc' = "running" /\ wsid' = s
  BY TurnInSession
<1>2. fresh' = FALSE /\ UNCHANGED <<notPanel, menu, confirm, reply, staged>>
  BY DEF TurnStarts
<1>3. HostTyped'
  BY <1>1, <1>2 DEF Typed, HostTyped, Known
<1>4. WorkerTyped'
  <2>1. reply' \in [session : Known', pause : BOOLEAN]
    BY <1>1, <1>2 DEF Typed, WorkerTyped, Known
  <2>2. wsid' \in Known'
    BY <1>1 DEF Known
  <2> QED  BY <1>1, <1>2, <2>1, <2>2 DEF WorkerTyped
<1>5. ScreenTyped'
  BY <1>1, <1>2 DEF Typed, ScreenTyped, Known, notPanel
<1> QED  BY <1>1, <1>2, <1>3, <1>4, <1>5, StagedKept DEF Typed

\* The host takes the decision.
LEMMA DecisionStartsTyped ==
    ASSUME Typed, DecisionStarts
    PROVE  Typed'
<1>1. UNCHANGED <<screenVars, menu, confirm, fresh, reply, staged, hostCurrent,
                  used, rows>>
  BY DEF DecisionStarts
<1>2. wpc' \in {"running", "answered"} /\ wsid' \in {wsid, None} /\ slot' \in {slot, None}
  BY DEF DecisionStarts
<1>3. WorkerTyped' /\ HostTyped'
  BY <1>1, <1>2 DEF Typed, WorkerTyped, HostTyped, Known
<1> QED  BY <1>1, <1>3, ScreenKept, StagedKept DEF Typed

\* The host answers.
LEMMA HostAnswersTyped ==
    ASSUME Typed, Equipped, HostAnswers
    PROVE  Typed'
<1>1. UNCHANGED <<screenVars, menu, confirm, fresh, staged, hostCurrent, used>>
  BY DEF HostAnswers
<1>2. /\ wpc' = "answered" /\ wsid' = None
      /\ slot' \in {slot, wsid} /\ rows' \in {rows, rows \cup {wsid}}
      /\ \E pause \in BOOLEAN : reply' = [session |-> wsid, pause |-> pause]
  BY DEF HostAnswers
<1>3. wsid \in used
  BY DEF HostAnswers, Typed, WorkerTyped, Equipped, Known
<1>4. HostTyped'
  BY <1>1, <1>2, <1>3 DEF Typed, HostTyped, Known
<1>5. reply' \in [session : Known', pause : BOOLEAN]
  BY <1>1, <1>2, <1>3 DEF Known
<1>6. WorkerTyped'
  BY <1>1, <1>2, <1>5 DEF Typed, WorkerTyped, Known
<1> QED  BY <1>1, <1>4, <1>6, ScreenKept, StagedKept DEF Typed

\* The worker hands its results over in two steps.
LEMMA HandOverTyped ==
    ASSUME Typed, Ingest \/ Publish
    PROVE  Typed'
<1>1. UNCHANGED <<screenVars, menu, confirm, fresh, wsid, hostVars>>
  BY DEF Ingest, Publish
<1>2. used' = used
  BY <1>1 DEF hostVars
<1>3. wpc' \in {"ingested", "none"} /\ reply' \in {reply, NoReply}
  BY DEF Ingest, Publish
<1>4. WorkerTyped'
  <2>1. reply' \in [session : Known', pause : BOOLEAN]
    <3>1. NoReply \in [session : Known, pause : BOOLEAN]
      BY DEF NoReply, Known
    <3>2. Known' = Known
      BY <1>2 DEF Known
    <3> QED  BY <1>3, <3>1, <3>2 DEF Typed, WorkerTyped
  <2> QED  BY <1>1, <1>2, <1>3, <2>1 DEF Typed, WorkerTyped, Known
<1>5. StagedTyped'
  <2>1. /\ reply.session \in Known /\ reply.pause \in BOOLEAN
    BY DEF Typed, WorkerTyped
  <2>2. CASE Ingest
    BY <1>2, <2>1, <2>2 DEF Ingest, StagedWith, Typed, StagedTyped, Known
  <2>3. CASE Publish
    BY <1>2, <2>1, <2>3 DEF Publish, Typed, StagedTyped, Known
  <2> QED  BY <2>2, <2>3
<1> QED  BY <1>1, <1>2, <1>4, <1>5, ScreenKept, HostKept DEF Typed

\* Event::Custom.
LEMMA DrainTyped ==
    ASSUME Typed, Drain
    PROVE  Typed'
<1>1. UNCHANGED <<newNext, given, away, confirm, workerVars, hostVars>>
  BY DEF Drain, DrainInto
<1>2. used' = used
  BY <1>1 DEF hostVars
<1>3. /\ staged.session \in Known /\ staged.said \subseteq used
  BY DEF Typed, StagedTyped
<1>4. /\ current' \in Known /\ saved' \in Known
      /\ menu' \subseteq used /\ panel' \subseteq Known
  BY <1>3 DEF Typed, ScreenTyped, HostTyped, Known, Drain, DrainInto
<1>5. choice' \in Known /\ approval' \in Known
  BY <1>4 DEF Typed, ScreenTyped, Known, Drain, DrainInto, SyncedChoice
<1>6. inFlight' \in BOOLEAN
  BY DEF Drain, DrainInto
<1>7. ScreenTyped'
  BY <1>1, <1>2, <1>4, <1>5, <1>6 DEF Typed, ScreenTyped, Known
<1>8. StagedTyped'
  BY <1>2, <1>3 DEF Drain, DrainInto, NothingStaged, StagedTyped, Known
<1> QED  BY <1>1, <1>2, <1>7, <1>8, WorkerKept, HostKept DEF Typed

\* The dropdown, 'n', 'e' and the popup's no.
LEMMA ScreenStepTyped ==
    ASSUME Typed, Pick \/ ShowPick \/ NewSession \/ Erase \/ EraseNo
    PROVE  Typed'
<1>1. UNCHANGED <<workerVars, staged, hostVars>>
  BY DEF Pick, ShowPick, ShowSession, NewSession, Erase, EraseNo
<1>2. used' = used
  BY <1>1 DEF hostVars
<1>3. ScreenTyped'
  <2> USE DEF Typed, ScreenTyped, HostTyped, Known
  <2>1. CASE Pick
    BY <1>2, <2>1 DEF Pick
  <2>2. CASE ShowPick
    BY <1>2, <2>2 DEF ShowPick, ShowSession
  <2>3. CASE NewSession
    BY <1>2, <2>3 DEF NewSession
  <2>4. CASE Erase \/ EraseNo
    BY <1>2, <2>4 DEF Erase, EraseNo, screenVars, notPanel
  <2> QED  BY <2>1, <2>2, <2>3, <2>4
<1> QED  BY <1>1, <1>2, <1>3, WorkerKept, StagedKept, HostKept DEF Typed

\* The popup's yes, which may begin a new session in the host.
LEMMA EraseYesTyped ==
    ASSUME Typed, IdKept, EraseYes
    PROVE  Typed'
<1> DEFINE new == IF confirm = hostCurrent THEN NewId ELSE None
<1>1. UNCHANGED <<saved, newNext, approval, inFlight, workerVars, staged, slot>>
  BY DEF EraseYes
<1>2. /\ confirm' = None /\ rows' = rows \ {confirm} /\ menu' = rows'
      /\ current' \in {current, new} /\ given' \in {given, new}
      /\ panel' \in {panel, {}} /\ away' \in {away, TRUE} /\ SyncedChoice
  BY DEF EraseYes
<1>3. /\ used \subseteq used' /\ used' \subseteq Sessions
      /\ hostCurrent' \in used' /\ new \in Known'
  <2>1. CASE confirm = hostCurrent
    <3>1. NewId \in Sessions
      BY <2>1, IdLeftSuffices, NewIdUnused DEF EraseYes, Typed, WorkerTyped
    <3> QED  BY <2>1, <3>1 DEF EraseYes, Typed, HostTyped, Known
  <2>2. CASE confirm # hostCurrent
    BY <2>2 DEF EraseYes, Typed, HostTyped, Known
  <2> QED  BY <2>1, <2>2
<1> HIDE DEF new
<1>4. HostTyped'
  BY <1>1, <1>2, <1>3 DEF Typed, HostTyped, Known
<1>5. ScreenTyped'
  <2>1. menu' \subseteq used' /\ panel' \subseteq Known' /\ current' \in Known'
    BY <1>2, <1>3 DEF Typed, ScreenTyped, HostTyped, Known
  <2>2. choice' \in Known'
    BY <1>2, <2>1 DEF SyncedChoice, Known
  <2> QED  BY <1>1, <1>2, <1>3, <2>1, <2>2 DEF Typed, ScreenTyped, Known
<1> QED  BY <1>1, <1>3, <1>4, <1>5, WorkerKept, StagedKept DEF Typed

\* A new process.
LEMMA RestartTyped ==
    ASSUME Typed, IdKept, Restart
    PROVE  Typed'
<1>1. NewId \in Sessions
  BY IdLeftSuffices, NewIdUnused DEF Restart, Typed, WorkerTyped
<1>2. hostCurrent' = NewId /\ used' = used \cup {NewId} /\ slot' = None /\ rows' = rows
  BY DEF Restart
<1> USE DEF Known
<1>3. HostTyped'
  BY <1>1, <1>2 DEF Typed, HostTyped
<1>4. ScreenTyped'
  BY <1>2 DEF Restart, Typed, ScreenTyped
<1>5. WorkerTyped' /\ StagedTyped'
  BY DEF Restart, WorkerTyped, StagedTyped, NoReply, NothingStaged
<1> QED  BY <1>3, <1>4, <1>5 DEF Typed

\* Every step.
LEMMA StepTyped ==
    ASSUME Typed, Equipped, IdKept, [Next]_vars
    PROVE  Typed'
<1>1. CASE UNCHANGED vars
  BY <1>1, ScreenKept, WorkerKept, StagedKept, HostKept DEF vars, Typed, hostVars
<1>2. CASE Next
  BY <1>2, SendTyped, WorkerAsksTyped, TurnStartsTyped, DecisionStartsTyped,
     HostAnswersTyped, HandOverTyped, DrainTyped, ScreenStepTyped, EraseYesTyped,
     RestartTyped
     DEF Next, Worker, User
<1> QED  BY <1>1, <1>2

-----------------------------------------------------------------------------
(* The worker's data, and the id it will need                              *)

\* No step takes a block its session or a pause its session.
LEMMA StepEquipped ==
    ASSUME Typed, Equipped, IdKept, [Next]_vars
    PROVE  Equipped'
<1> USE DEF Equipped
<1>1. CASE UNCHANGED workerVars
  BY <1>1 DEF workerVars
<1>2. CASE Send \/ SendDecision
  BY <1>2 DEF Send, SendDecision, DecideFor, StartWorker, NoReply
<1>3. CASE WorkerAsks \/ DecisionStarts
  BY <1>3 DEF WorkerAsks, DecisionStarts
<1>4. CASE TurnStarts
  <2>1. wpc' \in {"running", "answered"} /\ (wpc' = "running" => wsid' \in Sessions)
    BY <1>4, TurnInSession
  <2> QED  BY <1>4, <2>1, TuiAssumption DEF TurnStarts
<1>5. CASE HostAnswers
  BY <1>5 DEF HostAnswers
<1>6. CASE Ingest
  BY <1>6 DEF Ingest
<1>7. CASE Publish
  BY <1>7 DEF Publish, NoReply
<1>8. CASE Restart
  BY <1>8 DEF Restart, NoReply
<1> QED
  BY <1>1, <1>2, <1>3, <1>4, <1>5, <1>6, <1>7, <1>8
     DEF Next, Worker, User, Drain, DrainInto, ShowPick, ShowSession, Pick,
         NewSession, Erase, EraseNo, EraseYes, vars

\* Ids are taken one at a time, and never the last one while a message needs
\* it.
LEMMA StepIdKept ==
    ASSUME Typed, IdKept, [Next]_vars
    PROVE  IdKept'
<1> USE DEF IdKept
<1>1. CASE UNCHANGED <<wpc, fresh, used>>
  BY <1>1
<1>2. CASE Send \/ SendDecision
  <2>1. fresh' => newNext /\ Send /\ wpc' = "asked"
    BY <1>2 DEF Send, SendDecision, DecideFor, StartWorker
  <2>2. newNext /\ Send => Sessions \ used # {}
    BY IdLeftSuffices DEF Send, Typed, WorkerTyped
  <2>3. used' = used
    BY <1>2 DEF Send, SendDecision, DecideFor, hostVars
  <2> QED  BY <2>1, <2>2, <2>3
<1>3. CASE WorkerAsks
  BY <1>3 DEF WorkerAsks, hostVars
<1>4. CASE TurnStarts \/ Restart
  BY <1>4 DEF TurnStarts, Restart
<1>5. CASE DecisionStarts \/ HostAnswers
  BY <1>5 DEF DecisionStarts, HostAnswers
<1>6. CASE Ingest \/ Publish
  BY <1>6 DEF Ingest, Publish, hostVars
<1>7. CASE EraseYes
  <2>1. /\ UNCHANGED <<wpc, fresh>>
        /\ used' = used \/ (IdLeft /\ used' = used \cup {NewId})
    <3>1. CASE confirm = hostCurrent
      BY <1>7, <3>1 DEF EraseYes, workerVars
    <3>2. CASE confirm # hostCurrent
      BY <1>7, <3>2 DEF EraseYes, workerVars
    <3> QED  BY <3>1, <3>2
  <2> QED  BY <2>1, IdLeftSuffices DEF Typed, WorkerTyped
<1> QED
  BY <1>1, <1>2, <1>3, <1>4, <1>5, <1>6, <1>7
     DEF Next, Worker, User, Drain, DrainInto, ShowPick, ShowSession, Pick,
         NewSession, Erase, EraseNo, vars, workerVars, hostVars

-----------------------------------------------------------------------------
(* One call at a time                                                      *)

\* The lock of the input outlives the call, whatever is drained in between.
LEMMA StepCallLocked ==
    ASSUME Typed, CallLocked, [Next]_vars
    PROVE  CallLocked'
<1> USE DEF CallLocked
<1>1. CASE UNCHANGED <<wpc, inFlight, staged>>
  BY <1>1
<1>2. CASE Send \/ SendDecision
  BY <1>2 DEF Send, SendDecision, DecideFor, StartWorker
<1>3. CASE WorkerAsks \/ TurnStarts \/ DecisionStarts \/ HostAnswers
  BY <1>3 DEF WorkerAsks, TurnStarts, DecisionStarts, HostAnswers, screenVars, notPanel
<1>4. CASE Ingest
  <2>1. staged'.clear = (staged.clear \/ FALSE)
    BY <1>4 DEF Ingest, StagedWith, Typed, StagedTyped
  <2> QED  BY <1>4, <2>1 DEF Ingest, screenVars, notPanel
<1>5. CASE Publish
  BY <1>5 DEF Publish, screenVars, notPanel
<1>6. CASE Drain
  BY <1>6 DEF Drain, DrainInto, NothingStaged, workerVars
<1>7. CASE Restart
  BY <1>7 DEF Restart, NothingStaged
<1> QED
  BY <1>1, <1>2, <1>3, <1>4, <1>5, <1>6, <1>7
     DEF Next, Worker, User, ShowPick, ShowSession, Pick, NewSession, Erase,
         EraseNo, EraseYes, vars, workerVars, screenVars, notPanel

-----------------------------------------------------------------------------
(* Where the question is                                                   *)

\* A result is drained: the question it carries goes to the screen, about the
\* session it came from.
LEMMA DrainCarries ==
    ASSUME Typed, QuestionCarried, Drain
    PROVE  QuestionCarried'
<1>1. UNCHANGED <<wpc, wsid, reply, slot>>
  BY DEF Drain, DrainInto, workerVars, hostVars
<1>2. /\ ~staged'.pause
      /\ approval' = IF staged.pause THEN current' ELSE approval
      /\ staged.session # None => current' = staged.session
  BY DEF Drain, DrainInto, NothingStaged
<1> QED  BY <1>1, <1>2 DEF QuestionCarried

\* A step of the worker hands the question on.
LEMMA WorkerCarries ==
    ASSUME Typed, Equipped, IdKept, CallLocked, QuestionCarried, Worker
    PROVE  QuestionCarried'
<1> USE DEF QuestionCarried
<1>1. CASE WorkerAsks
  BY <1>1 DEF WorkerAsks, screenVars, notPanel, hostVars
<1>2. CASE TurnStarts
  <2>1. slot' = None /\ wpc' \in {"answered", "running"}
    BY <1>2, TurnInSession DEF TurnStarts
  <2>2. UNCHANGED <<approval, staged, reply>>
    BY <1>2 DEF TurnStarts, screenVars, notPanel
  <2> QED  BY <1>2, <2>1, <2>2 DEF TurnStarts
<1>3. CASE DecisionStarts
  BY <1>3 DEF DecisionStarts, screenVars, notPanel
<1>4. CASE HostAnswers
  BY <1>4 DEF HostAnswers, screenVars, notPanel
<1>5. CASE Ingest
  <2>1. /\ reply.pause => staged'.session = reply.session
        /\ staged'.pause = (staged.pause \/ reply.pause)
    BY <1>5 DEF Ingest, StagedWith, Typed, StagedTyped, Equipped
  <2>2. wpc = "answered" /\ wpc' = "ingested" /\ inFlight
        /\ UNCHANGED <<approval, inFlight, slot, reply>>
    BY <1>5 DEF Ingest, screenVars, notPanel, hostVars, CallLocked
  <2> QED  BY <2>1, <2>2 DEF Equipped
<1>6. CASE Publish
  BY <1>6 DEF Publish, NoReply, screenVars, notPanel, hostVars, Typed, StagedTyped
<1> QED  BY <1>1, <1>2, <1>3, <1>4, <1>5, <1>6 DEF Worker

\* Enter takes the question off the screen with the decision; nothing else the
\* user does touches it.
LEMMA UserCarries ==
    ASSUME Typed, CallLocked, QuestionCarried, User \/ ShowPick
    PROVE  QuestionCarried'
<1> USE DEF QuestionCarried
<1>1. CASE Send \/ SendDecision
  BY <1>1 DEF Send, SendDecision, DecideFor, StartWorker, NoReply, hostVars
<1>2. CASE Pick \/ ShowPick \/ NewSession \/ Erase \/ EraseNo \/ EraseYes
  <2>1. UNCHANGED <<approval, inFlight, wpc, wsid, reply, staged, slot>>
    BY <1>2 DEF Pick, ShowPick, ShowSession, NewSession, Erase, EraseNo,
                EraseYes, screenVars, notPanel, workerVars, hostVars
  <2> QED  BY <2>1
<1> QED  BY <1>1, <1>2 DEF User

\* Every step.
LEMMA StepCarries ==
    ASSUME Typed, Equipped, IdKept, CallLocked, QuestionCarried, [Next]_vars
    PROVE  QuestionCarried'
<1>1. CASE UNCHANGED vars
  BY <1>1 DEF vars, screenVars, notPanel, workerVars, hostVars, QuestionCarried
<1>2. CASE Restart
  BY <1>2 DEF Restart, NoReply, NothingStaged, QuestionCarried
<1> QED  BY <1>1, <1>2, WorkerCarries, UserCarries, DrainCarries DEF Next

-----------------------------------------------------------------------------
(* The session to resume                                                   *)

\* Whatever moves the screen saves where it went, but for an erase and 'n'.
LEMMA StepScreenSaved ==
    ASSUME ScreenSaved, [Next]_vars
    PROVE  ScreenSaved'
<1> USE DEF ScreenSaved
<1>1. CASE UNCHANGED <<current, saved, given>>
  BY <1>1
<1>2. CASE Drain
  BY <1>2 DEF Drain, DrainInto
<1>3. CASE ShowPick
  BY <1>3 DEF ShowPick, ShowSession
<1>4. CASE NewSession \/ EraseYes \/ Restart
  BY <1>4 DEF NewSession, EraseYes, Restart
<1> QED
  BY <1>1, <1>2, <1>3, <1>4
     DEF Next, Worker, User, Send, SendDecision, DecideFor, WorkerAsks,
         TurnStarts, DecisionStarts, HostAnswers, Ingest, Publish, Pick, Erase,
         EraseNo, vars, screenVars, notPanel

-----------------------------------------------------------------------------
(* The session of the call, and the screen                                 *)

\* No step loses the session of the call before its lines are staged, or stages
\* lines while a call is under way.
LEMMA StepCallCarried ==
    ASSUME Typed, CallLocked, CallCarried, [Next]_vars
    PROVE  CallCarried'
<1> USE DEF CallCarried
<1>1. CASE UNCHANGED <<workerVars, staged>>
  BY <1>1 DEF workerVars
<1>2. CASE Send \/ SendDecision
  BY <1>2 DEF Send, SendDecision, DecideFor, StartWorker, NoReply, CallLocked
<1>3. CASE WorkerAsks
  BY <1>3 DEF WorkerAsks
<1>4. CASE TurnStarts
  BY <1>4 DEF TurnStarts
<1>5. CASE DecisionStarts \/ HostAnswers
  BY <1>5 DEF DecisionStarts, HostAnswers
<1>6. CASE Ingest
  <2>1. staged'.said = staged.said
    BY <1>6 DEF Ingest, StagedWith, Typed, StagedTyped
  <2> QED  BY <1>6, <2>1 DEF Ingest
<1>7. CASE Publish
  <2>1. staged'.clear
    BY <1>7 DEF Publish, Typed, StagedTyped
  <2> QED  BY <1>7, <2>1 DEF Publish, NoReply
<1>8. CASE Drain
  BY <1>8 DEF Drain, DrainInto, NothingStaged, workerVars
<1>9. CASE Restart
  BY <1>9 DEF Restart, NoReply, NothingStaged
<1> QED
  BY <1>1, <1>2, <1>3, <1>4, <1>5, <1>6, <1>7, <1>8, <1>9
     DEF Next, Worker, User, ShowPick, ShowSession, Pick, NewSession, Erase,
         EraseNo, EraseYes, vars

\* Enter leaves the screen at home only if the call goes to the session on it.
LEMMA EnterAtHome ==
    ASSUME Typed, CallLocked, CallCarried, Send \/ SendDecision
    PROVE  AtHome'
<1>1. UNCHANGED <<current, staged>> /\ reply' = NoReply /\ staged.said = {}
  BY DEF Send, SendDecision, DecideFor, StartWorker, CallCarried, CallLocked
<1>2. ~away' => staged.session \in {None, current}
  BY DEF Send, SendDecision, DecideFor, OtherStaged
<1>3. CASE Send
  <2>1. wpc' = "asked" /\ fresh' = newNext /\ approval' = None
        /\ (~away' /\ newNext => current = None)
    BY <1>3 DEF Send, StartWorker
  <2> QED  BY <1>1, <1>2, <2>1 DEF AtHome
<1>4. CASE SendDecision
  <2>1. wpc' = "decide" /\ wsid' = approval /\ approval' = None
        /\ (~away' => approval = current)
    BY <1>4 DEF SendDecision, DecideFor, StartWorker
  <2> QED  BY <1>1, <1>2, <2>1 DEF AtHome
<1> QED  BY <1>3, <1>4

\* At home, the worker takes the message to the session on the screen.
LEMMA WorkerAtHome ==
    ASSUME Typed, Equipped, IdKept, CallLocked, QuestionCarried, CallCarried, AtHome,
           Worker
    PROVE  AtHome'
<1>1. UNCHANGED notPanel
  BY DEF Worker, WorkerAsks, TurnStarts, DecisionStarts, HostAnswers, Ingest,
         Publish, screenVars
<1>2. UNCHANGED <<current, approval, away>>
  BY <1>1 DEF notPanel
<1> SUFFICES ASSUME ~away PROVE AtHome'
  BY <1>2 DEF AtHome
<1>3. CASE WorkerAsks
  BY <1>2, <1>3 DEF WorkerAsks, AtHome, CallCarried
<1>4. CASE TurnStarts
  <2>1. wpc' \in {"answered", "running"} /\ UNCHANGED <<staged, reply>>
    BY <1>4 DEF TurnStarts
  <2>2. wpc' = "running" /\ current # None => wsid' = current
    BY <1>4 DEF TurnStarts, AtHome, CallCarried
  <2> QED  BY <1>2, <1>4, <2>1, <2>2 DEF TurnStarts, AtHome, CallCarried
<1>5. CASE DecisionStarts
  BY <1>2, <1>5 DEF DecisionStarts, AtHome, CallCarried
<1>6. CASE HostAnswers
  BY <1>2, <1>6 DEF HostAnswers, AtHome, CallCarried
<1>7. CASE Ingest
  <2>1. /\ staged'.session = IF reply.session = None THEN staged.session
                             ELSE reply.session
        /\ staged'.said = staged.said
    BY <1>7 DEF Ingest, StagedWith, Typed, StagedTyped
  <2>2. staged.said = {}
    BY <1>7 DEF Ingest, CallCarried
  <2> QED  BY <1>2, <1>7, <2>1, <2>2 DEF Ingest, AtHome
<1>8. CASE Publish
  <2>1. /\ staged'.session = staged.session
        /\ staged'.said = staged.said \cup ({reply.session} \ {None})
    BY <1>8 DEF Publish, Typed, StagedTyped
  <2>2. staged.said = {}
    BY <1>8 DEF Publish, CallCarried
  <2>3. wpc = "ingested" /\ wpc' = "none"
    BY <1>8 DEF Publish
  <2> QED  BY <1>2, <2>1, <2>2, <2>3 DEF AtHome
<1> QED  BY <1>3, <1>4, <1>5, <1>6, <1>7, <1>8 DEF Worker

\* At home, Event::Custom moves the screen nowhere but to the session of the
\* call.
LEMMA DrainAtHome ==
    ASSUME Typed, Equipped, QuestionCarried, CallCarried, AtHome, Drain
    PROVE  AtHome'
<1>1. UNCHANGED <<away, wpc, fresh, wsid, reply>>
  BY DEF Drain, DrainInto, workerVars
<1>2. /\ staged'.said = {}
      /\ current' = IF staged.session \in {None, current} THEN current ELSE staged.session
      /\ staged'.session \in {None, current'}
      /\ approval' = IF staged.pause THEN current' ELSE approval
  BY DEF Drain, DrainInto, NothingStaged
<1> SUFFICES ASSUME ~away PROVE AtHome'
  BY <1>1 DEF AtHome
<1>3. CASE staged.session \in {None, current}
  BY <1>1, <1>2, <1>3 DEF AtHome
<1>4. CASE staged.session \notin {None, current}
  <2>1. /\ current = None /\ wpc \in {"none", "ingested"}
        /\ wpc = "ingested" => reply.session = staged.session
        /\ approval = None
    BY <1>4 DEF AtHome
  <2> QED  BY <1>1, <1>2, <1>4, <2>1 DEF AtHome
<1> QED  BY <1>3, <1>4

\* Every step.
LEMMA StepAtHome ==
    ASSUME Typed, Equipped, IdKept, CallLocked, QuestionCarried, CallCarried, AtHome,
           [Next]_vars
    PROVE  AtHome'
<1>1. CASE UNCHANGED <<current, approval, away, workerVars, staged>>
  BY <1>1 DEF AtHome, workerVars
<1>2. CASE ShowPick \/ NewSession \/ EraseYes
  <2>1. away' \/ UNCHANGED <<current, approval, away, workerVars, staged>>
    BY <1>2 DEF ShowPick, ShowSession, NewSession, EraseYes
  <2> QED  BY <1>1, <2>1 DEF AtHome
<1>3. CASE Restart
  BY <1>3 DEF Restart, NoReply, NothingStaged, AtHome
<1>4. CASE Pick \/ Erase \/ EraseNo \/ UNCHANGED vars
  BY <1>1, <1>4 DEF Pick, Erase, EraseNo, vars, screenVars, notPanel
<1> QED
  BY <1>2, <1>3, <1>4, EnterAtHome, WorkerAtHome, DrainAtHome DEF Next, User

-----------------------------------------------------------------------------
(* The chat panel                                                          *)

\* What a step of the worker shows is of the session it works in.
LEMMA WorkerPanel ==
    ASSUME IInv, PanelPure, Worker
    PROVE  PanelPure' \/ (away /\ TurnStarts)
<1> USE DEF IInv, PanelPure, OnScreen
<1>1. current' = current
  BY DEF Worker, WorkerAsks, TurnStarts, DecisionStarts, HostAnswers, Ingest,
         Publish, screenVars, notPanel
<1>2. CASE WorkerAsks
  <2>1. wsid = None /\ panel' \subseteq panel /\ UNCHANGED <<reply, staged>>
    BY <1>2 DEF WorkerAsks, CallCarried, screenVars
  <2> QED  BY <1>1, <2>1
<1>3. CASE TurnStarts
  <2> SUFFICES ASSUME ~away PROVE PanelPure'
    BY <1>3
  <2>1. wsid = current /\ UNCHANGED <<reply, staged>>
    BY <1>3 DEF TurnStarts, AtHome
  <2>2. \/ panel' \subseteq panel
        \/ /\ wpc' = "running"
           /\ panel' \subseteq panel \cup {wsid'}
    BY <1>3 DEF TurnStarts
  <2>3. wpc' = "running" /\ current # None => wsid' = current
    <3>1. AtHome' /\ away' = away
      BY <1>3, StepAtHome DEF Next, TurnStarts, notPanel
    <3> QED  BY <1>1, <3>1 DEF AtHome
  <2> QED  BY <1>1, <2>1, <2>2, <2>3
<1>4. CASE DecisionStarts
  <2>1. UNCHANGED <<panel, wsid, reply, staged>>
    BY <1>4 DEF DecisionStarts, QuestionCarried, screenVars
  <2> QED  BY <1>1, <2>1
<1>5. CASE HostAnswers
  <2>1. panel' = panel /\ reply'.session = wsid /\ reply.session = None
        /\ staged' = staged
    BY <1>5 DEF HostAnswers, CallCarried, screenVars
  <2> QED  BY <1>1, <2>1
<1>6. CASE Ingest
  <2>1. UNCHANGED <<panel, wsid, reply>> /\ staged'.said = staged.said
    BY <1>6 DEF Ingest, StagedWith, Typed, StagedTyped, screenVars
  <2> QED  BY <1>1, <2>1
<1>7. CASE Publish
  <2>1. UNCHANGED <<panel, wsid>>
        /\ staged'.said = staged.said \cup ({reply.session} \ {None})
    BY <1>7 DEF Publish, Typed, StagedTyped, screenVars
  <2> QED  BY <1>1, <2>1
<1> QED  BY <1>2, <1>3, <1>4, <1>5, <1>6, <1>7 DEF Worker

\* At home, Event::Custom shows only the lines of the call.
LEMMA DrainPanel ==
    ASSUME IInv, PanelPure, Drain
    PROVE  PanelPure' \/ away
<1> SUFFICES ASSUME ~away PROVE PanelPure'
  OBVIOUS
<1> USE DEF IInv, PanelPure, OnScreen
<1>1. UNCHANGED <<wpc, wsid, reply>> /\ panel' = panel \cup staged.said
      /\ current' = IF staged.session \in {None, current} THEN current ELSE staged.session
  BY DEF Drain, DrainInto, workerVars
<1>2. CASE staged.session \in {None, current}
  BY <1>1, <1>2 DEF AtHome
<1>3. CASE staged.session \notin {None, current}
  <2>1. /\ current = None /\ wpc \in {"none", "ingested"}
        /\ wpc = "ingested" => reply.session = staged.session
        /\ staged.said \subseteq {None, staged.session}
    BY <1>3 DEF AtHome
  <2>2. wsid = None /\ (wpc = "none" => reply.session = None)
    BY <2>1 DEF CallCarried
  <2> QED  BY <1>1, <1>3, <2>1, <2>2
<1> QED  BY <1>2, <1>3

\* So do Enter, unless it answers another session's question, and the steps
\* that put another session on the screen.
LEMMA UserPanel ==
    ASSUME IInv, PanelPure, User \/ ShowPick \/ Restart
    PROVE  PanelPure' \/ (away /\ SendDecision /\ approval # current)
<1> USE DEF PanelPure, OnScreen
<1>1. CASE Send
  <2>1. UNCHANGED <<current, staged>> /\ panel' \subseteq panel \cup {None}
    BY <1>1 DEF Send
  <2>2. wsid = None /\ reply.session = None
    BY <1>1 DEF Send, StartWorker, IInv, CallCarried
  <2> QED  BY <2>1, <2>2
<1>2. CASE SendDecision
  <2>1. /\ UNCHANGED <<current, staged>> /\ panel' = panel \cup {approval}
        /\ wsid' = approval
    BY <1>2 DEF SendDecision, DecideFor, StartWorker
  <2>2. wsid = None /\ reply.session = None
    BY <1>2 DEF SendDecision, DecideFor, StartWorker, IInv, CallCarried
  <2>3. approval = current \/ away
    BY <1>2 DEF SendDecision, DecideFor, IInv, AtHome
  <2> QED  BY <1>2, <2>1, <2>2, <2>3
<1>3. CASE Pick \/ Erase \/ EraseNo
  BY <1>3 DEF Pick, Erase, EraseNo, workerVars, screenVars, notPanel
<1>4. CASE NewSession \/ Restart
  BY <1>4 DEF NewSession, Restart
<1>5. CASE ShowPick
  BY <1>5 DEF ShowPick, ShowSession, workerVars
<1>6. CASE EraseYes
  BY <1>6 DEF EraseYes, workerVars
<1> QED  BY <1>1, <1>2, <1>3, <1>4, <1>5, <1>6 DEF User

-----------------------------------------------------------------------------
(* Theorems                                                                *)

\* The inductive invariant holds throughout.
LEMMA Invariance == Spec => []IInv
<1>1. IInv /\ [Next]_vars => IInv'
  BY StepTyped, StepEquipped, StepIdKept, StepCallLocked, StepCarries,
     StepScreenSaved, StepCallCarried, StepAtHome DEF IInv
<1> QED  BY InitOK, <1>1, PTL DEF Spec

\* Every variable keeps its type, for any number of sessions: the screen, the
\* worker and what it staged name only sessions there are, a drained pause
\* always says which session it is about, and the worker never works in none.
THEOREM TypeCorrect == Spec => []TypeOK
<1>1. IInv => TypeOK
  <2> SUFFICES ASSUME IInv PROVE TypeOK
    OBVIOUS
  <2> USE DEF IInv, Typed, Known
  <2>1. /\ {current, saved, approval, choice, confirm, wsid, slot, given} \subseteq Maybe
        /\ {current, saved, approval, choice, confirm, wsid, slot} \subseteq used \cup {None}
    BY DEF ScreenTyped, WorkerTyped, HostTyped, Maybe
  <2>2. {newNext, inFlight, fresh, away} \subseteq BOOLEAN
    BY DEF ScreenTyped, WorkerTyped
  <2>3. panel \subseteq Maybe /\ {menu, rows, staged.said} \subseteq SUBSET Sessions
    BY DEF ScreenTyped, StagedTyped, HostTyped, Maybe
  <2>4. /\ reply \in [session : Maybe, pause : BOOLEAN]
        /\ wpc \in {"none", "asked", "turn", "running", "decide", "answered", "ingested"}
    BY DEF WorkerTyped, HostTyped, Maybe
  <2>5. staged \in [session : Maybe, pause : BOOLEAN, said : SUBSET Sessions,
                    clear : BOOLEAN]
    BY DEF StagedTyped, HostTyped, Maybe
  <2>6. hostCurrent \in used /\ used \subseteq Sessions
    BY DEF HostTyped
  <2> QED  BY <2>1, <2>2, <2>3, <2>4, <2>5, <2>6 DEF TypeOK, Equipped
<1> QED  BY Invariance, <1>1, PTL

\* "Only one chat turn can be in flight at a time": the input stays locked
\* while the worker is inside a call, however its two hand-overs and the drains
\* between them fall (clear_in_flight).
THEOREM OneCallAtATime == Spec => []OneCall
<1>1. IInv => OneCall
  BY DEF IInv, CallLocked, OneCall
<1> QED  BY Invariance, <1>1, PTL

\* Once the worker is done and its results are drained, the screen asks for a
\* decision exactly when the host waits for one, and about the session the call
\* was proposed in, whatever was picked, erased or begun meanwhile
\* (pending_tool_approval against pending_tool_call_).
THEOREM ScreenAsks == Spec => []ScreenAsksAboutTheSlot
<1>1. IInv => ScreenAsksAboutTheSlot
  BY DEF IInv, QuestionCarried, ScreenAsksAboutTheSlot
<1> QED  BY Invariance, <1>1, PTL

\* A decision the worker takes to the host finds the call it was asked about
\* still in the slot: agent_tool_decision never refuses this client.
DecisionFindsCall == wpc = "decide" => slot = wsid /\ slot # None

\* No pick, erase or new session between Enter and agent_tool_decision makes
\* the decision miss its call.
THEOREM DecisionLands == Spec => []DecisionFindsCall
<1>1. IInv => DecisionFindsCall
  BY DEF IInv, QuestionCarried, Equipped, DecisionFindsCall
<1> QED  BY Invariance, <1>1, PTL

\* "A restarted TUI resumes the same conversation": the session on the screen
\* is back after a restart if it has messages, except one that an erase began
\* (save_last_session_id).
THEOREM RestartKeepsSession == Spec => RestartResumes
<1>1. IInv /\ Restart /\ current \in rows /\ current # given => current' = current
  BY TuiAssumption DEF IInv, Typed, HostTyped, ScreenSaved, Restart
<1>2. IInv /\ [Next]_vars =>
        [Restart /\ current \in rows /\ current # given => current' = current]_vars
  BY <1>1
<1> QED  BY Invariance, <1>2, PTL DEF Spec, RestartResumes

\* The chat panel shows the conversation of the session on the screen and no
\* other, until a step mixes them while the screen is away from the call: a late
\* result, the message of a new session, or an answer to another session's
\* question (chat_entries against current_session_id).
THEOREM PanelFollowsScreen == Spec => PanelStraysOnlyAway
<1> DEFINE Strays == away /\ (Drain \/ TurnStarts \/ (SendDecision /\ approval # current))
<1>1. ASSUME IInv, [Next]_vars, PanelPure
      PROVE  PanelPure' \/ Strays
  <2>1. CASE UNCHANGED vars
    BY <1>1, <2>1 DEF PanelPure, OnScreen, vars, screenVars, notPanel, workerVars
  <2>2. CASE Worker
    BY <1>1, <2>2, WorkerPanel
  <2>3. CASE Drain
    BY <1>1, <2>3, DrainPanel
  <2>4. CASE User \/ ShowPick \/ Restart
    BY <1>1, <2>4, UserPanel
  <2> QED  BY <1>1, <2>1, <2>2, <2>3, <2>4 DEF Next
<1>2. IInv /\ [Next]_vars => [PanelPure => PanelPure' \/ Strays]_vars
  BY <1>1
<1> QED  BY Invariance, <1>2, PTL DEF Spec, PanelStraysOnlyAway
=============================================================================

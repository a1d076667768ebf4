-------------------------------- MODULE Tui --------------------------------
(***************************************************************************)
(* The chat screen of the terminal UI (src/cli/tui.cpp): which session it  *)
(* is on, the worker thread that carries one message or decision to the    *)
(* host, the results that worker stages for the next Event::Custom, the    *)
(* session list the poller refreshes, the dropdown and the erase popup.    *)
(* The host (src/cli/host.cpp) appears as this client sees it: its current *)
(* session, the sessions that have rows, and the pending slot.             *)
(***************************************************************************)
EXTENDS Naturals, FiniteSets

CONSTANTS
    Sessions,  \* session ids
    History,   \* sessions with messages when the process starts
    None       \* no session: an empty string

ASSUME TuiAssumption == None \notin Sessions /\ History \subseteq Sessions /\ History # Sessions

VARIABLES
    current,   \* current_session_id
    saved,     \* db/droidcli_last_session.json
    newNext,   \* pending_new_session
    panel,     \* sessions whose conversation chat_entries shows; None stands for the
               \* user's line of a message that has not reached its session
    approval,  \* pending_tool_approval.session_id; None is not active
    inFlight,  \* agent_turn_in_flight
    menu,      \* session_menu_entries
    choice,    \* entry picked in the dropdown and not yet applied
    confirm,   \* delete_confirm_session_id while the popup is shown
    wpc,       \* where chat_worker is
    fresh,     \* start_new_session of the message it carries
    wsid,      \* the session it asked for, then the one it works in
    reply,     \* the host's response
    staged,    \* chat_work
    hostCurrent, used, rows, slot,  \* DroidHost and its MemoryStore
    given,     \* the session an erase put on the screen
    away       \* the screen is not where the last call left or will leave it

notPanel == <<current, saved, newNext, approval, inFlight, choice, given, away>>
screenVars == <<notPanel, panel>>
workerVars == <<wpc, fresh, wsid, reply>>
hostVars   == <<hostCurrent, used, rows, slot>>
vars == <<screenVars, menu, confirm, workerVars, staged, hostVars>>

Maybe == Sessions \cup {None}
NoReply == [session |-> None, pause |-> FALSE]
NothingStaged == [session |-> None, pause |-> FALSE, said |-> {}, clear |-> FALSE]

\* generate_session_id: the ids are interchangeable.
NewId == CHOOSE s \in Sessions \ used : TRUE

\* Bound: an id is kept for the message that is on its way to a new session.
IdLeft ==
    Cardinality(Sessions \ used)
    > (IF fresh /\ wpc \in {"asked", "turn"} THEN 1 ELSE 0)
-----------------------------------------------------------------------------
(* Enter                                                                   *)

StartWorker(where, session, clear) ==
    /\ wpc = "none"
    /\ wpc' = where
    /\ wsid' = session
    /\ fresh' = clear
    /\ reply' = NoReply
    /\ inFlight' = TRUE

\* An earlier call's session is still staged for the next Event::Custom.
OtherStaged == staged.session \notin {None, current}

\* A message, unless a call is in flight; the popup takes every key.  Its text
\* is shown at once, below whatever is on the screen (a blank one, which picks a
\* model, shows nothing).
Send ==
    /\ ~inFlight /\ approval = None /\ confirm = None
    /\ newNext => IdLeft
    /\ StartWorker("asked", None, newNext)
    /\ newNext' = FALSE
    /\ panel' \in {panel, panel \cup {None}}
    /\ away' = (OtherStaged \/ (newNext /\ current # None))
    /\ UNCHANGED <<current, saved, approval, choice, given, menu, confirm,
                   staged, hostVars>>

\* The answer is shown at once too, whichever session is on the screen.
DecideFor(session) ==
    /\ ~inFlight /\ approval # None /\ confirm = None
    /\ StartWorker("decide", session, FALSE)
    /\ approval' = None
    /\ panel' = panel \cup {approval}
    /\ away' = (OtherStaged \/ approval # current)
    /\ UNCHANGED <<current, saved, newNext, choice, given, menu, confirm,
                   staged, hostVars>>

\* Variant the checks reject: the decision names the session on the screen.
SendDecisionHere == DecideFor(current)

\* While a tool call awaits approval, Enter is the yes or no to it, for the
\* session that asked.
SendDecision == DecideFor(approval)
-----------------------------------------------------------------------------
(* chat_worker: run_chat_turn, run_tool_decision, and the host they call   *)

\* The setup prompts of Ollama answer the message, or it is put together with
\* the session the screen is on by now.
WorkerAsks ==
    /\ wpc = "asked"
    /\ \/ wpc' = "answered" /\ fresh' = FALSE /\ panel' = panel \ {None}
          /\ UNCHANGED wsid
       \/ /\ wpc' = "turn"
          /\ wsid' = IF fresh THEN None ELSE current
          /\ UNCHANGED <<fresh, panel>>
    /\ UNCHANGED <<notPanel, menu, confirm, reply, staged, hostVars>>

\* agent_turn: the session asked for, a new one, or the host's own; a call
\* pending in it is abandoned.  With the AI disabled the response names none.
TurnStarts ==
    /\ wpc = "turn"
    /\ LET s == IF fresh THEN NewId ELSE IF wsid = None THEN hostCurrent ELSE wsid
       IN /\ hostCurrent' = s
          /\ used' = used \cup {s}
          /\ slot' = IF slot = s THEN None ELSE slot
          /\ \/ wpc' = "answered" /\ wsid' = None /\ panel' = panel \ {None}
                /\ UNCHANGED rows
             \/ wpc' = "running" /\ wsid' = s /\ rows' = rows \cup {s}
                /\ panel' = IF None \in panel THEN (panel \ {None}) \cup {s} ELSE panel
    /\ fresh' = FALSE
    /\ UNCHANGED <<notPanel, menu, confirm, reply, staged>>

\* agent_tool_decision: refused unless the pending call is of that session.
DecisionStarts ==
    /\ wpc = "decide"
    /\ IF slot = wsid
       THEN slot' = None /\ wpc' = "running" /\ UNCHANGED wsid
       ELSE wpc' = "answered" /\ wsid' = None /\ UNCHANGED slot
    /\ UNCHANGED <<screenVars, menu, confirm, fresh, reply, staged,
                   hostCurrent, used, rows>>

\* The response: a recorded reply, a failed model call, or a pause.
HostAnswers ==
    /\ wpc = "running"
    /\ wpc' = "answered"
    /\ wsid' = None
    /\ \/ /\ rows' \in {rows, rows \cup {wsid}}
          /\ reply' = [session |-> wsid, pause |-> FALSE]
          /\ UNCHANGED slot
       \/ /\ slot' = wsid
          /\ reply' = [session |-> wsid, pause |-> TRUE]
          /\ UNCHANGED rows
    /\ UNCHANGED <<screenVars, menu, confirm, fresh, staged,
                   hostCurrent, used>>

\* ingest_agent_response stages the session and the pause under the lock.
StagedWith(clear) ==
    [staged EXCEPT !.session = IF reply.session = None THEN @ ELSE reply.session,
                   !.pause = @ \/ reply.pause,
                   !.clear = @ \/ clear]

\* Variant the checks reject: the call counts as over once it is ingested.
IngestClears ==
    /\ wpc = "answered"
    /\ wpc' = "ingested"
    /\ staged' = StagedWith(TRUE)
    /\ UNCHANGED <<screenVars, menu, confirm, fresh, wsid, reply,
                   hostVars>>

Ingest ==
    /\ wpc = "answered"
    /\ wpc' = "ingested"
    /\ staged' = StagedWith(FALSE)
    /\ UNCHANGED <<screenVars, menu, confirm, fresh, wsid, reply,
                   hostVars>>

\* Variant the checks reject: nobody is told that the call is over.
PublishSilently ==
    /\ wpc = "ingested"
    /\ wpc' = "none"
    /\ reply' = NoReply
    /\ staged' = [staged EXCEPT !.said = @ \cup ({reply.session} \ {None})]
    /\ UNCHANGED <<screenVars, menu, confirm, fresh, wsid, hostVars>>

\* The chat lines and clear_in_flight, under the lock again.
Publish ==
    /\ wpc = "ingested"
    /\ wpc' = "none"
    /\ reply' = NoReply
    /\ staged' = [staged EXCEPT !.said = @ \cup ({reply.session} \ {None}),
                                !.clear = TRUE]
    /\ UNCHANGED <<screenVars, menu, confirm, fresh, wsid, hostVars>>
-----------------------------------------------------------------------------
(* Event::Custom                                                           *)

\* sync_session_menu_from_host after the entries were replaced: the selected
\* index follows the current session, or now stands for whatever entry is
\* there.
SyncedChoice ==
    choice' \in IF choice = None THEN {None}
                ELSE IF current' \in menu' THEN {current'}
                ELSE menu' \cup {None}

DrainInto(asking) ==
    LET moves == staged.session \notin {None, current}
    IN  /\ confirm = None
        /\ current' = IF moves THEN staged.session ELSE current
        /\ saved' = IF moves THEN staged.session ELSE saved
        /\ menu' \in IF moves THEN {rows} ELSE {rows, menu}
        /\ SyncedChoice
        /\ panel' = panel \cup staged.said
        /\ approval' = IF staged.pause THEN asking ELSE approval
        /\ inFlight' = (inFlight /\ ~staged.clear)
        /\ staged' = [NothingStaged EXCEPT
                         !.session = IF moves THEN None ELSE staged.session]
        /\ UNCHANGED <<newNext, given, away, confirm, workerVars, hostVars>>

\* Variant the checks reject: the prompt is put to the session on the screen
\* before the response.
DrainAsksBefore == DrainInto(current)

\* The poller's session list (its last round may be over or not), then
\* everything staged.  The staged session is dropped only when it moves the
\* screen.
Drain == DrainInto(current')
-----------------------------------------------------------------------------
(* Dropdown, new session, erase                                            *)

\* on_change of the dropdown: an entry other than the selected one.
Pick ==
    /\ confirm = None
    /\ choice' \in menu \ {current}
    /\ UNCHANGED <<current, saved, newNext, panel, approval, inFlight, given, away,
                   menu, confirm, workerVars, staged, hostVars>>

ShowSession(entries, file) ==
    /\ choice # None
    /\ choice' = None
    /\ IF choice = current
       THEN UNCHANGED <<current, saved, panel, away>>
       ELSE /\ current' = choice
            /\ saved' = file
            /\ panel' = entries
            /\ away' = TRUE
    /\ UNCHANGED <<newNext, approval, inFlight, given, menu, confirm, workerVars,
                   staged, hostVars>>

\* Variants the checks reject: the old chat lines stay on the screen; the
\* choice is not remembered for the next start.
ShowPickBelow == ShowSession(panel \cup ({choice} \cap rows), choice)
ShowPickOnce == ShowSession({choice} \cap rows, saved)

\* apply_session_menu_selection, at the next frame, popup or not.
ShowPick == ShowSession({choice} \cap rows, choice)

\* 'n'
NewSession ==
    /\ confirm = None
    /\ newNext' = TRUE
    /\ current' = None
    /\ panel' = {}
    /\ away' = TRUE
    /\ choice' = None
    /\ UNCHANGED <<saved, approval, inFlight, given, menu, confirm, workerVars,
                   staged, hostVars>>

\* 'e'
Erase ==
    /\ confirm = None
    /\ current # None
    /\ confirm' = current
    /\ UNCHANGED <<screenVars, menu, workerVars, staged, hostVars>>

EraseNo ==
    /\ confirm # None
    /\ confirm' = None
    /\ UNCHANGED <<screenVars, menu, workerVars, staged, hostVars>>

\* delete_agent_session_json, whose response names a new session only if the
\* erased one was the host's current one.
EraseYes ==
    /\ confirm # None
    /\ confirm' = None
    /\ rows' = rows \ {confirm}
    /\ LET replaced == confirm = hostCurrent
           new == IF replaced THEN NewId ELSE None
       IN /\ IF replaced
             THEN IdLeft /\ hostCurrent' = new /\ used' = used \cup {new}
             ELSE UNCHANGED <<hostCurrent, used>>
          /\ IF confirm = current
             THEN current' = new /\ given' = new /\ panel' = {} /\ away' = TRUE
             ELSE UNCHANGED <<current, given, panel, away>>
    /\ menu' = rows'
    /\ SyncedChoice
    /\ UNCHANGED <<saved, newNext, approval, inFlight, workerVars, staged,
                   slot>>
-----------------------------------------------------------------------------
(* The end of the process                                                  *)

\* run_tui and initialize: a new host session, the last session if it still
\* has messages.
Restart ==
    /\ IdLeft
    /\ hostCurrent' = NewId
    /\ used' = used \cup {NewId}
    /\ slot' = None
    /\ current' = IF saved \in rows THEN saved ELSE None
    /\ panel' = {current'} \ {None}
    /\ newNext' = FALSE /\ inFlight' = FALSE /\ away' = FALSE
    /\ approval' = None /\ choice' = None /\ confirm' = None /\ given' = None
    /\ menu' = {}
    /\ wpc' = "none" /\ fresh' = FALSE /\ wsid' = None /\ reply' = NoReply
    /\ staged' = NothingStaged
    /\ UNCHANGED <<saved, rows>>
-----------------------------------------------------------------------------
\* A process that has just started.
Init ==
    /\ rows = History
    /\ saved \in rows \cup {None}
    /\ hostCurrent = CHOOSE s \in Sessions : s \notin History
    /\ used = rows \cup {hostCurrent}
    /\ slot = None
    /\ current = saved
    /\ panel = {saved} \ {None}
    /\ newNext = FALSE /\ inFlight = FALSE /\ away = FALSE
    /\ approval = None /\ choice = None /\ confirm = None /\ given = None
    /\ menu = {}
    /\ wpc = "none" /\ fresh = FALSE /\ wsid = None /\ reply = NoReply
    /\ staged = NothingStaged

Worker ==
    \/ WorkerAsks \/ TurnStarts \/ DecisionStarts \/ HostAnswers
    \/ Ingest \/ Publish

User ==
    \/ Send \/ SendDecision
    \/ Pick \/ NewSession \/ Erase \/ EraseNo \/ EraseYes

Next == Worker \/ User \/ Drain \/ ShowPick \/ Restart

Spec == Init /\ [][Next]_vars

\* The worker's calls return (HostService says when they do), the spinner's
\* thread, which asks nobody, posts Event::Custom while a call is in flight, and
\* every frame is drawn.
FairSpec ==
    /\ Spec
    /\ WF_vars(Worker) /\ WF_vars(Drain) /\ WF_vars(ShowPick)
-----------------------------------------------------------------------------
(* Properties                                                              *)

\* Every variable keeps its type; the screen asks about no session it does not
\* know of, and the worker works in one.
TypeOK ==
    /\ {current, saved, approval, choice, confirm, wsid, slot, given} \subseteq Maybe
    /\ {newNext, inFlight, fresh, away} \subseteq BOOLEAN
    /\ panel \subseteq Maybe
    /\ {menu, rows, staged.said} \subseteq SUBSET Sessions
    /\ wpc \in {"none", "asked", "turn", "running", "decide", "answered", "ingested"}
    /\ reply \in [session : Maybe, pause : BOOLEAN]
    /\ staged \in [session : Maybe, pause : BOOLEAN, said : SUBSET Sessions,
                   clear : BOOLEAN]
    /\ hostCurrent \in used /\ used \subseteq Sessions
    /\ {current, saved, approval, choice, confirm, wsid, slot} \subseteq used \cup {None}
    /\ wpc \in {"running", "decide"} => wsid # None
    /\ reply.pause => reply.session # None

\* "Only one chat turn can be in flight at a time": while the worker is inside
\* a call, Enter is refused, however its two hand-overs and the drains between
\* them fall (agent_turn_in_flight, clear_in_flight).
OneCall == wpc # "none" => inFlight

\* Once the worker is done and its results are drained, the screen asks for a
\* decision exactly when the host is waiting for one, and names its session:
\* whatever was picked, erased or begun meanwhile (pending_tool_approval
\* against pending_tool_call_).
ScreenAsksAboutTheSlot ==
    wpc = "none" /\ ~staged.pause => approval = slot

\* "A restarted TUI resumes the same conversation": the session on the screen,
\* if it has messages, is on the screen after a restart, except a session that
\* an erase began, which is never written to the file.
RestartResumes ==
    [][Restart /\ current \in rows /\ current # given => current' = current]_vars

\* The session the screen is on: the current one or, while there is none, the
\* one the last call works in.
OnScreen ==
    IF current # None THEN {current}
    ELSE {wsid, reply.session} \cup staged.said

PanelPure == panel \subseteq OnScreen \cup {None}

\* The chat panel shows the conversation of the session on the screen and no
\* other.  It begins to mix sessions only once the screen is away from where the
\* last call left it: the user has picked, begun or erased a session since Enter,
\* an id staged before still awaits its Event::Custom, or 'n' was followed by a
\* return to a session.  Then a late result, the answer to another session's
\* question, or the message of a new session goes below what is shown.
PanelStraysOnlyAway ==
    [][PanelPure
       => \/ PanelPure'
          \/ away /\ (Drain \/ TurnStarts \/ (SendDecision /\ approval # current))]_vars

\* "Empty means no update this round": with no call in flight, an Event::Custom
\* leaves the screen on the session the user put it on.
IdleScreenKeepsSession == [][Drain /\ ~inFlight => current' = current]_vars

\* Every call ends on the screen: the input is accepted again, unless the
\* popup keeps Event::Custom from the main handler.
TurnDrains == inFlight ~> (~inFlight \/ confirm # None)
=============================================================================

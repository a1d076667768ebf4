----------------------------- MODULE AgentTurn -----------------------------
(***************************************************************************)
(* The agent turn of DroidHost (src/cli/host.cpp): classify, execute,      *)
(* phrase, with side-effecting tool calls paused for a human decision in   *)
(* the single slot pending_tool_call_.                                     *)
(*                                                                         *)
(* Each client is a thread that may be inside one agent_turn or            *)
(* agent_tool_decision call; pc is the next lock-protected block (or       *)
(* unlocked call) of that call.  Between two blocks any other thread runs. *)
(* delete_agent_session_json is one critical section, called from another  *)
(* thread than the one holding a turn.                                     *)
(***************************************************************************)
EXTENDS MemoryStore

CONSTANTS
    Clients,          \* threads that call into the host: TUI worker, HTTP loop
    Sessions,         \* session ids
    Tools,            \* tool names the model may pick
    Gated,            \* tool_call_requires_approval
    Retriable,        \* is_retriable_tool
    Prechecked,       \* gated tools precheck_and_resolve_gated_call can refuse
    Calls,            \* identities of tool calls shown for approval
    None,             \* no session, no tool, no call
    HasSystemPrompt,  \* config_.system_prompt is not empty
    MaxFaults,        \* bound: INSERTs, DELETEs and SELECTs that may fail
    SameSecond,       \* two session ids may be made within one second
    MaxRequests       \* bound: requests, deletions and restarts per behaviour

ASSUME AgentTurnAssumption ==
    /\ Gated \subseteq Tools /\ Retriable \subseteq Tools
    /\ Prechecked \subseteq Gated
    /\ None \notin Sessions /\ None \notin Tools /\ None \notin Calls
    /\ HasSystemPrompt \in BOOLEAN /\ SameSecond \in BOOLEAN
    /\ MaxFaults \in Nat /\ MaxRequests \in Nat

VARIABLES
    transcript,  \* agent_transcript_
    current,     \* current_session_id_
    minted,      \* every session id in use so far
    lastMinted,  \* the id generate_session_id returned last
    store,       \* memory_store_: rows of each session
    faults,      \* statements of the store that failed, unnoticed by their caller
    pending,     \* pending_tool_call_
    issued,      \* identities already given to pending calls
    effects,     \* gated calls whose side effect has happened
    pc,          \* per client: next block of its call
    sid,         \* per client: the session_id its call works on
    tool,        \* per client: the decided tool
    call,        \* per client: identity of the approved call it runs
    verdict,     \* per client: how the tool call ended
    mayRetry,    \* per client: allow_retry
    shown,       \* per client and session: call its screen asks about
    requests     \* requests made so far (bounded by MaxRequests)

hostVars == <<transcript, current, minted, lastMinted, store, faults>>
callVars == <<pending, issued, effects>>
locals   == <<sid, tool, call, verdict, mayRetry>>
vars == <<hostVars, callVars, pc, locals, shown, requests>>

Kinds == {"prompt", "user", "abandoned", "tool", "failed", "declined",
          "retry", "assistant"}
Message == [kind : Kinds, of : Sessions]
Row == [hop : Nat, msg : Message]
Slot == [active : BOOLEAN, session : Sessions \cup {None},
         tool : Tools \cup {None}, call : Calls \cup {None}]

NoPending == [active |-> FALSE, session |-> None, tool |-> None, call |-> None]

\* Blocks of a call in flight, in program order.
TurnBlocks == {"abandon", "note", "admit", "seed", "user", "classify"}
ToolBlocks == {"pause", "execute", "result"}
FinishBlocks == {"retry", "reclassify", "reply"}
Blocks == TurnBlocks \cup ToolBlocks \cup FinishBlocks
-----------------------------------------------------------------------------
(* Helpers                                                                 *)

\* generate_session_id: second-resolution time plus the address of a stack
\* local, which is the same each time the same call path asks.
SessionIds ==
    (Sessions \ minted) \cup (IF SameSecond THEN {lastMinted} ELSE {})

\* current_session_id_ = generate_session_id() with an empty transcript.
StartSession ==
    \E s \in SessionIds :
        /\ transcript' = <<>>
        /\ current' = s
        /\ minted' = minted \cup {s}
        /\ lastMinted' = s

\* A write to the store takes effect or is refused; nobody looks at which.
Write(rows) ==
    \/ store' = rows /\ UNCHANGED faults
    \/ faults < MaxFaults /\ faults' = faults + 1 /\ UNCHANGED store

\* Variant the checks reject: the transcript is not cleared first.
LoadOnTop(rows) ==
    transcript' = transcript \o LoadSession(rows) /\ UNCHANGED faults

\* The transcript becomes what load_session returns, which says nothing of a
\* failure.
Load(rows) ==
    \/ transcript' = LoadSession(rows) /\ UNCHANGED faults
    \/ faults < MaxFaults /\ faults' = faults + 1 /\ transcript' \in LoadsShort(rows)

\* record_agent_message: one critical section that appends to the working
\* transcript and, with a hop_index, to the caller's session in the store.
RecordAt(c, kind, hop) ==
    LET msg == [kind |-> kind, of |-> sid[c]]
    IN  /\ transcript' = Append(transcript, msg)
        /\ Write([store EXCEPT ![sid[c]] = AppendRow(@, hop, msg)])
        /\ UNCHANGED <<current, minted, lastMinted>>

\* Variant the checks reject: hop_index is the size after the append.
RecordOffByOne(c, kind) == RecordAt(c, kind, Len(transcript) + 1)

\* hop_index is the size after the append, less one.
Record(c, kind) == RecordAt(c, kind, Len(transcript))

Goto(c, block) == pc' = [pc EXCEPT ![c] = block]

\* The call returns to its client, whose screen now asks about `asked`.
Return(c, asked) ==
    /\ Goto(c, "idle")
    /\ shown' = [shown EXCEPT ![c][sid[c]] = asked]
    /\ sid' = [sid EXCEPT ![c] = None]
    /\ tool' = [tool EXCEPT ![c] = None]
    /\ call' = [call EXCEPT ![c] = None]
    /\ verdict' = [verdict EXCEPT ![c] = "none"]
    /\ mayRetry' = [mayRetry EXCEPT ![c] = FALSE]

Request ==
    /\ requests < MaxRequests
    /\ requests' = requests + 1
-----------------------------------------------------------------------------
(* agent_turn                                                              *)

\* Which session a turn works on: a brand new one (clear), a requested one
\* whose persisted history replaces the transcript, or the current one.
SelectSession(clear, requested) ==
    \/ clear /\ StartSession /\ UNCHANGED <<store, faults>>
    \/ /\ ~clear
       /\ requested \notin {None, current}
       /\ Load(store[requested])
       /\ current' = requested
       /\ minted' = minted \cup {requested}
       /\ UNCHANGED <<lastMinted, store>>
    \/ ~clear /\ requested \in {None, current} /\ UNCHANGED hostVars

\* First critical section; an empty message returns after it, session
\* switch included, before anything is abandoned or recorded.
TurnBegin(c) ==
    /\ pc[c] = "idle"
    /\ Request
    /\ \E clear \in BOOLEAN, requested \in Sessions \cup {None} :
          SelectSession(clear, requested)
    /\ \E hasMessage \in BOOLEAN :
          IF hasMessage
          THEN Goto(c, "abandon") /\ sid' = [sid EXCEPT ![c] = current']
          ELSE UNCHANGED <<pc, sid>>
    /\ UNCHANGED <<callVars, tool, call, verdict, mayRetry, shown>>

\* Variants the checks reject: the pending call survives the new message; the
\* turn waits until the slot is free.
TurnAbandonNothing(c) ==
    /\ pc[c] = "abandon"
    /\ Goto(c, "admit")
    /\ UNCHANGED <<hostVars, callVars, locals, shown, requests>>

TurnAbandonWaits(c) == ~pending.active /\ TurnAbandonNothing(c)

\* A call still awaiting a decision in this session is abandoned.
TurnAbandon(c) ==
    /\ pc[c] = "abandon"
    /\ IF pending.active /\ pending.session = sid[c]
       THEN pending' = NoPending /\ Goto(c, "note")
       ELSE UNCHANGED pending /\ Goto(c, "admit")
    /\ UNCHANGED <<hostVars, issued, effects, locals, shown, requests>>

TurnNoteAbandoned(c) ==
    /\ pc[c] = "note"
    /\ Record(c, "abandoned")
    /\ Goto(c, "admit")
    /\ UNCHANGED <<callVars, locals, shown, requests>>

\* Variant the checks reject: every turn seeds.
TurnAdmitSeeding(c) ==
    /\ pc[c] = "admit"
    /\ Goto(c, "seed")
    /\ UNCHANGED <<hostVars, callVars, locals, shown, requests>>

\* config_.enable_ai is whatever the last update_config made it; then the
\* transcript is examined under the lock, and seeded after it is released.
TurnAdmit(c) ==
    /\ pc[c] = "admit"
    /\ \/ /\ Goto(c, IF transcript = <<>> /\ HasSystemPrompt
                     THEN "seed" ELSE "user")
          /\ UNCHANGED <<locals, shown>>
       \/ Return(c, None)
    /\ UNCHANGED <<hostVars, callVars, requests>>

TurnSeed(c) ==
    /\ pc[c] = "seed"
    /\ Record(c, "prompt")
    /\ Goto(c, "user")
    /\ UNCHANGED <<callVars, locals, shown, requests>>

TurnUser(c) ==
    /\ pc[c] = "user"
    /\ Record(c, "user")
    /\ Goto(c, "classify")
    /\ UNCHANGED <<callVars, locals, shown, requests>>
-----------------------------------------------------------------------------
(* classify_via_llm and execute_decision_or_pause                          *)

\* Variant the checks reject: a refused call has no result.
DecidedSilent(c, t) ==
    /\ tool' = [tool EXCEPT ![c] = t]
    /\ Goto(c, IF t \in Gated THEN "result" ELSE "execute")
    /\ UNCHANGED verdict

\* The model picked t (only its first tool call counts).  A gated call is
\* prechecked: refused outright, or paused; any other call runs now.
Decided(c, t) ==
    /\ tool' = [tool EXCEPT ![c] = t]
    /\ \/ t \notin Gated /\ Goto(c, "execute") /\ UNCHANGED verdict
       \/ t \in Gated /\ Goto(c, "pause") /\ UNCHANGED verdict
       \/ /\ t \in Prechecked
          /\ Goto(c, "result")
          /\ verdict' = [verdict EXCEPT ![c] = "failed"]

\* First classification.  The up-to-three attempts on an empty response end
\* in one of: transport failure (the turn returns an error), text, a tool.
Classify(c) ==
    /\ pc[c] = "classify"
    /\ \/ Return(c, None)
       \/ Goto(c, "reply") /\ UNCHANGED <<locals, shown>>
       \/ \E t \in Tools :
             /\ Decided(c, t)
             /\ mayRetry' = [mayRetry EXCEPT ![c] = TRUE]
             /\ UNCHANGED <<sid, call, shown>>
    /\ UNCHANGED <<hostVars, callVars, requests>>

\* The pause takes the single slot, whatever call held it, and returns.
Pause(c) ==
    /\ pc[c] = "pause"
    /\ issued # Calls
    /\ LET k == CHOOSE id \in Calls : id \notin issued
       IN  /\ pending' = [active |-> TRUE, session |-> sid[c],
                          tool |-> tool[c], call |-> k]
           /\ issued' = issued \cup {k}
           /\ Return(c, k)
    /\ UNCHANGED <<hostVars, effects, requests>>

\* execute_agent_tool: the side effect happens, and may report failure.
Execute(c) ==
    /\ pc[c] = "execute"
    /\ effects' = effects \cup ({call[c]} \ {None})
    /\ \E outcome \in {"tool", "failed"} :
          verdict' = [verdict EXCEPT ![c] = outcome]
    /\ Goto(c, "result")
    /\ UNCHANGED <<hostVars, pending, issued, sid, tool, call, mayRetry,
                   shown, requests>>

\* The Tool message, then finish_turn_after_execution's choice.
RecordResult(c) ==
    /\ pc[c] = "result"
    /\ Record(c, verdict[c])
    /\ Goto(c, IF mayRetry[c] /\ verdict[c] # "tool" /\ tool[c] \in Retriable
               THEN "retry" ELSE "reply")
    /\ UNCHANGED <<callVars, locals, shown, requests>>
-----------------------------------------------------------------------------
(* finish_turn_after_execution                                             *)

\* Variant the checks reject: the retry may itself be retried.
RetryNoteAgain(c) ==
    /\ pc[c] = "retry"
    /\ Record(c, "retry")
    /\ Goto(c, "reclassify")
    /\ UNCHANGED <<callVars, locals, shown, requests>>

RetryNote(c) ==
    /\ pc[c] = "retry"
    /\ Record(c, "retry")
    /\ Goto(c, "reclassify")
    /\ mayRetry' = [mayRetry EXCEPT ![c] = FALSE]
    /\ UNCHANGED <<callVars, sid, tool, call, verdict, shown, requests>>

\* Variant the checks reject: the corrected call runs on the first approval.
ReclassifyRunsOn(c) ==
    /\ pc[c] = "reclassify"
    /\ \/ Goto(c, "reply") /\ UNCHANGED tool
       \/ /\ \E t \in Tools : tool' = [tool EXCEPT ![c] = t]
          /\ Goto(c, "execute")
    /\ UNCHANGED <<hostVars, callVars, sid, call, verdict, mayRetry, shown,
                   requests>>

\* Text and transport failure both fall through to phrasing the original
\* failure; a tool call is executed or paused like any other.
Reclassify(c) ==
    /\ pc[c] = "reclassify"
    /\ \/ Goto(c, "reply") /\ UNCHANGED <<tool, call, verdict>>
       \/ /\ \E t \in Tools : Decided(c, t)
          /\ call' = [call EXCEPT ![c] = None]
    /\ UNCHANGED <<hostVars, callVars, sid, mayRetry, shown, requests>>

\* phrase_result always yields text; exactly one Assistant message.
Reply(c) ==
    /\ pc[c] = "reply"
    /\ Record(c, "assistant")
    /\ Return(c, None)
    /\ UNCHANGED <<callVars, requests>>
-----------------------------------------------------------------------------
(* agent_tool_decision, delete_agent_session_json, restart                 *)

\* Variant the checks reject: any decision lands on any pending call.
DecisionLandsAnywhere(requested) == pending.active

\* A decision names a session, or None for whichever call is pending.
DecisionLands(requested) ==
    pending.active /\ requested \in {None, pending.session}

\* The slot is read and, in the same critical section, emptied.
DecideWith(c, approved, requested, slot, retry) ==
    /\ pc[c] = "idle"
    /\ DecisionLands(requested)
    /\ Request
    /\ pending' = slot
    /\ sid' = [sid EXCEPT ![c] = pending.session]
    /\ tool' = [tool EXCEPT ![c] = pending.tool]
    /\ mayRetry' = [mayRetry EXCEPT ![c] = retry]
    /\ \/ /\ approved
          /\ call' = [call EXCEPT ![c] = pending.call]
          /\ Goto(c, "execute")
          /\ UNCHANGED verdict
       \/ /\ ~approved
          /\ verdict' = [verdict EXCEPT ![c] = "declined"]
          /\ Goto(c, "result")
          /\ UNCHANGED call
    /\ UNCHANGED <<hostVars, issued, effects, shown>>

\* Variants the checks reject: the slot is left for a second decision; a
\* decline is retried like a failure.
DecideLeavesSlot(c, approved, requested) ==
    DecideWith(c, approved, requested, pending, approved)
DecideRetries(c, approved, requested) ==
    DecideWith(c, approved, requested, NoPending, TRUE)

\* Only an approved call may be retried: a decline is a veto.
Decide(c, approved, requested) ==
    DecideWith(c, approved, requested, NoPending, approved)

\* A client answers the question its screen shows for a session, naming the
\* session or leaving it out.
AnswerNamed(c, s, approved) == shown[c][s] # None /\ Decide(c, approved, s)
AnswerBlind(c, s, approved) == shown[c][s] # None /\ Decide(c, approved, None)
Answer(c, s) ==
    \E approved \in BOOLEAN :
        AnswerNamed(c, s, approved) \/ AnswerBlind(c, s, approved)

\* Rows go; the current session is replaced.  A pending call stays.
DeleteSession(s) ==
    /\ Request
    /\ Write([store EXCEPT ![s] = <<>>])
    /\ IF s = current
       THEN StartSession
       ELSE UNCHANGED <<transcript, current, minted, lastMinted>>
    /\ UNCHANGED <<callVars, pc, locals, shown>>

\* The process ends at any point and starts again: initialize makes a new
\* session id; only the store, the world and the clients' screens remain.
Restart ==
    /\ Request
    /\ StartSession
    /\ pending' = NoPending
    /\ pc' = [c \in Clients |-> "idle"]
    /\ sid' = [c \in Clients |-> None]
    /\ tool' = [c \in Clients |-> None]
    /\ call' = [c \in Clients |-> None]
    /\ verdict' = [c \in Clients |-> "none"]
    /\ mayRetry' = [c \in Clients |-> FALSE]
    /\ UNCHANGED <<store, faults, issued, effects, shown>>
-----------------------------------------------------------------------------
Init ==
    /\ transcript = <<>>
    /\ current \in Sessions
    /\ minted = {current}
    /\ lastMinted = current
    /\ store = [s \in Sessions |-> <<>>]
    /\ faults = 0
    /\ pending = NoPending
    /\ issued = {}
    /\ effects = {}
    /\ pc = [c \in Clients |-> "idle"]
    /\ sid = [c \in Clients |-> None]
    /\ tool = [c \in Clients |-> None]
    /\ call = [c \in Clients |-> None]
    /\ verdict = [c \in Clients |-> "none"]
    /\ mayRetry = [c \in Clients |-> FALSE]
    /\ shown = [c \in Clients |-> [s \in Sessions |-> None]]
    /\ requests = 0

\* The rest of a call, once it has begun.
Step(c) ==
    \/ TurnAbandon(c) \/ TurnNoteAbandoned(c) \/ TurnAdmit(c)
    \/ TurnSeed(c) \/ TurnUser(c)
    \/ Classify(c) \/ Pause(c) \/ Execute(c) \/ RecordResult(c)
    \/ RetryNote(c) \/ Reclassify(c) \/ Reply(c)

Next ==
    \/ \E c \in Clients : TurnBegin(c) \/ Step(c)
    \/ \E c \in Clients, s \in Sessions : Answer(c, s)
    \/ \E s \in minted : DeleteSession(s)
    \/ Restart

Spec == Init /\ [][Next]_vars

\* A started call keeps running: the model, the tools and SQLite return.
FairSpec == Spec /\ \A c \in Clients : WF_vars(Step(c))
=============================================================================

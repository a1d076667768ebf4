------------------------ MODULE AgentTurnProperties ------------------------
(***************************************************************************)
(* What the agent turn must get right, over every interleaving of turns,   *)
(* decisions, deletions, session switches and restarts.                    *)
(***************************************************************************)
EXTENDS AgentTurn

\* The transcript, the sessions and their rows.
HostTypeOK ==
    /\ transcript \in Seq(Message)
    /\ current \in Sessions
    /\ minted \subseteq Sessions
    /\ lastMinted \in Sessions
    /\ store \in [Sessions -> Seq(Row)]
    /\ faults \in 0..MaxFaults

\* The slot is empty or complete.
SlotTypeOK ==
    /\ pending \in Slot
    /\ pending.active => /\ pending.session # None
                          /\ pending.tool # None
                          /\ pending.call # None
    /\ issued \subseteq Calls
    /\ effects \subseteq Calls

\* A client has the data its block uses: a session while it is in a call, a
\* tool until the result is recorded, a result to record.
ClientTypeOK ==
    /\ pc \in [Clients -> Blocks \cup {"idle"}]
    /\ sid \in [Clients -> Sessions \cup {None}]
    /\ tool \in [Clients -> Tools \cup {None}]
    /\ call \in [Clients -> Calls \cup {None}]
    /\ verdict \in [Clients -> {"none", "tool", "failed", "declined"}]
    /\ mayRetry \in [Clients -> BOOLEAN]
    /\ shown \in [Clients -> [Sessions -> Calls \cup {None}]]
    /\ \A c \in Clients :
          /\ sid[c] = None <=> pc[c] = "idle"
          /\ pc[c] \in ToolBlocks => tool[c] # None
          /\ pc[c] = "result" => verdict[c] # "none"

\* Every variable keeps its type, and no block of agent_turn or
\* agent_tool_decision is reached without the data it uses.
TypeOK ==
    /\ HostTypeOK
    /\ SlotTypeOK
    /\ ClientTypeOK
    /\ requests \in 0..MaxRequests

\* The gated calls approved and about to run.
Approved == {call[c] : c \in {d \in Clients : pc[d] = "execute"}} \ {None}

Proposed == IF pending.active THEN {pending.call} ELSE {}

\* The whole host, its clients' overlapping requests and its restarts
\* implement the approval contract: a side-effecting call runs at most once,
\* and only after its own approval emptied the slot it waited in.
Contract == INSTANCE ApprovalContract
    WITH proposed <- Proposed, approved <- Approved, executed <- effects
ContractHolds == Contract!Spec

\* No call is being run by two clients.
OneRunner ==
    \A c, d \in Clients :
        /\ pc[c] = "execute" /\ pc[d] = "execute"
        /\ call[c] # None /\ call[c] = call[d]
        => c = d

\* An ungated tool carries no call identity into execution, nor does a turn
\* that has yet to reach a decision.
NoCallBeforeApproval ==
    \A c \in Clients :
        pc[c] \in TurnBlocks \cup {"pause", "idle"} => call[c] = None

\* What the contract rests on here: a call waits in the slot, is being run by
\* one client, or has run, and never two of these (agent_tool_decision empties
\* the slot in the critical section that reads it).
CallsExclusive ==
    /\ Contract!OneFate
    /\ OneRunner
    /\ NoCallBeforeApproval

\* A gated tool is never run without the identity of an approved call.
GatedRunsApproved ==
    \A c \in Clients :
        pc[c] = "execute" /\ tool[c] \in Gated => call[c] \in issued

\* The approval gate as the code builds it: every call has one fate, and a gated
\* tool runs only as such a call.
GateHolds == CallsExclusive /\ GatedRunsApproved

\* The working transcript and the rows of the current session agree, hop
\* indices included, and every stored session replays as it was recorded.
Mirror ==
    /\ \A s \in Sessions : Contiguous(store[s])
    /\ InStep(store[current], transcript)

\* A message of one session recorded while another is the current one.
CrossRecord ==
    /\ current' = current
    /\ Len(transcript') = Len(transcript) + 1
    /\ transcript'[Len(transcript')].of # current

\* An INSERT whose failure record_agent_message does not notice.
RowRefused ==
    /\ faults' = faults + 1
    /\ UNCHANGED <<store, current>>
    /\ Len(transcript') = Len(transcript) + 1

\* A session taken up again whose SELECT failed before its last row.
LoadCutShort ==
    /\ faults' = faults + 1
    /\ UNCHANGED store
    /\ current' # current
    /\ Len(transcript') < Len(store[current'])

\* A session begun under the id made earlier in the same second.
IdReused == SameSecond /\ transcript' = <<>> /\ current' = lastMinted

\* record_agent_message is meant to keep transcript and store in step.  Under
\* any interleaving of turns, decisions, deletions, session switches and
\* restarts there are exactly four ways to lose it; a refused DELETE is none of them.
DriftHasFourCauses ==
    [][Mirror => Mirror' \/ CrossRecord \/ RowRefused \/ LoadCutShort \/ IdReused]_vars

\* An approval that names its session runs the call its sender's screen asked
\* about in that session: it never lands on a newer or a different call
\* (agent_tool_decision's session check).
ApprovesWhatWasShown ==
    [][\A c \in Clients, s \in Sessions :
          AnswerNamed(c, s, TRUE) => call'[c] = shown[c][s]]_vars

CountIn(rows, kind) ==
    Cardinality({i \in DOMAIN rows : rows[i].msg.kind = kind})

\* A call awaiting a decision belongs to the latest, still unanswered turn of
\* its session: a newer message abandons it (agent_turn), so once everybody
\* has returned its session's history (every row of it written, and not since
\* deleted) does not go on past the question.
PendingBelongsToOpenTurn ==
    /\ pending.active
    /\ faults = 0
    /\ \A c \in Clients : pc[c] = "idle"
    /\ store[pending.session] # <<>>
    => LET rows == store[pending.session]
       IN rows[Len(rows)].msg.kind \in {"user", "retry"}

\* The system prompt opens a session once, however often the session is left,
\* resumed or continued after a restart, while the store refuses nothing.
AtMostOnePrompt ==
    faults = 0 => \A s \in Sessions : CountIn(store[s], "prompt") <= 1

\* A decline is a veto: the model is never asked to fix and retry a call the
\* user refused, in any session's history.
DeclineNotRetried ==
    \A s \in Sessions : \A i \in 1..(Len(store[s]) - 1) :
        store[s][i].msg.kind = "declined"
        => store[s][i + 1].msg.kind # "retry"

\* One request adds at most one retry note and at most one assistant message,
\* so neither can outnumber the requests.
OnePerRequest ==
    \A kind \in {"retry", "assistant"} :
        Cardinality({i \in DOMAIN transcript : transcript[i].kind = kind})
        <= requests

\* Every call into the host returns, whatever the others do and whatever is
\* left pending.
CallsReturn == \A c \in Clients : pc[c] # "idle" ~> pc[c] = "idle"
=============================================================================

-------------------------- MODULE TranscriptProofs --------------------------
(***************************************************************************)
(* What the transcript and the rows of the sessions say, for any sessions   *)
(* and transcripts of any length: when the two part, whom the pending call *)
(* belongs to, that a decline is a veto, and how many prompts, retries and *)
(* replies there are.                                                      *)
(***************************************************************************)
EXTENDS AgentTurnProofs

\* Only ids in use have rows, and the host and its clients know no others:
\* a fresh id from generate_session_id finds no rows under it.
MintedOnly ==
    /\ current \in minted /\ lastMinted \in minted
    /\ \A s \in Sessions \ minted : store[s] = <<>>
    /\ \A c \in Clients : sid[c] \in minted \cup {None}
    /\ pending.active => pending.session \in minted

TranscriptInv == TypeOK /\ MintedOnly

\* An empty session is in step with an empty transcript.
LEMMA EmptyRows == Contiguous(<<>>) /\ InStep(<<>>, <<>>)
BY DEF Contiguous, InStep

-----------------------------------------------------------------------------
(* Ids in use                                                              *)

\* A started session's id counts as in use.
LEMMA StartSessionMints ==
    ASSUME TranscriptInv, StartSession
    PROVE  /\ minted \subseteq minted'
           /\ current' \in minted' /\ lastMinted' \in minted'
BY DEF StartSession

\* Rows are written to sessions in use only.
LEMMA RecordMints ==
    ASSUME TranscriptInv, NEW c \in Clients, NEW kind, pc[c] # "idle",
           Record(c, kind)
    PROVE  /\ UNCHANGED <<current, lastMinted, minted>>
           /\ \A s \in Sessions \ minted' : store'[s] = <<>>
<1>1. sid[c] \in minted
  BY DEF TranscriptInv, TypeOK, ClientTypeOK, MintedOnly
<1>2. \A s \in Sessions : s # sid[c] => store'[s] = store[s]
  BY DEF Record, RecordAt, Write, TranscriptInv, TypeOK, HostTypeOK
<1> QED  BY <1>1, <1>2 DEF Record, RecordAt, TranscriptInv, MintedOnly

\* Ids stay in use, and a session not in use has no rows.
LEMMA HostMints ==
    ASSUME TranscriptInv, [Next]_vars
    PROVE  /\ minted \subseteq minted'
           /\ current' \in minted' /\ lastMinted' \in minted'
           /\ \A s \in Sessions \ minted' : store'[s] = <<>>
<1> USE DEF TranscriptInv, MintedOnly
<1>1. CASE UNCHANGED hostVars
  BY <1>1 DEF hostVars
<1>2. ASSUME NEW c \in Clients, NEW kind, pc[c] # "idle", Record(c, kind)
      PROVE  /\ minted \subseteq minted'
             /\ current' \in minted' /\ lastMinted' \in minted'
             /\ \A s \in Sessions \ minted' : store'[s] = <<>>
  BY <1>2, RecordMints
<1>3. ASSUME NEW c \in Clients, TurnBegin(c)
      PROVE  /\ minted \subseteq minted'
             /\ current' \in minted' /\ lastMinted' \in minted'
             /\ \A s \in Sessions \ minted' : store'[s] = <<>>
  <2>1. CASE StartSession /\ UNCHANGED store
    BY <2>1, StartSessionMints
  <2>2. CASE \E s \in Sessions : /\ current' = s /\ minted' = minted \cup {s}
                                 /\ UNCHANGED <<lastMinted, store>>
    BY <2>2
  <2> QED  BY <1>1, <1>3, <2>1, <2>2 DEF TurnBegin, SelectSession
<1>4. ASSUME NEW s \in minted, DeleteSession(s)
      PROVE  /\ minted \subseteq minted'
             /\ current' \in minted' /\ lastMinted' \in minted'
             /\ \A t \in Sessions \ minted' : store'[t] = <<>>
  <2>1. \A t \in Sessions : t # s => store'[t] = store[t]
    BY <1>4 DEF DeleteSession, Write, TypeOK, HostTypeOK
  <2> QED  BY <1>4, <2>1, StartSessionMints DEF DeleteSession
<1>5. CASE Restart
  BY <1>5, StartSessionMints DEF Restart
<1>6. ASSUME NEW c \in Clients, Step(c)
      PROVE  UNCHANGED hostVars \/ (\E kind : pc[c] # "idle" /\ Record(c, kind))
  BY <1>6
     DEF Step, TurnAbandon, TurnNoteAbandoned, TurnAdmit, TurnSeed, TurnUser,
         Classify, Pause, Execute, RecordResult, RetryNote, Reclassify, Reply
<1>7. ASSUME NEW c \in Clients, NEW s \in Sessions, Answer(c, s)
      PROVE  UNCHANGED hostVars
  BY <1>7 DEF Answer, AnswerNamed, AnswerBlind, Decide, DecideWith
<1> QED  BY <1>1, <1>2, <1>3, <1>4, <1>5, <1>6, <1>7 DEF Next, vars

\* No call works on, and no slot names, a session that is not in use.
LEMMA LocalsMint ==
    ASSUME TranscriptInv, [Next]_vars
    PROVE  /\ \A c \in Clients : sid'[c] \in minted' \cup {None}
           /\ pending'.active => pending'.session \in minted'
<1> USE DEF TranscriptInv, MintedOnly
<1>0. minted \subseteq minted' /\ current' \in minted'
  BY HostMints
<1>1. CASE UNCHANGED <<sid, pending>>
  BY <1>0, <1>1
<1>2. ASSUME NEW c \in Clients, NEW asked, Return(c, asked), UNCHANGED pending
      PROVE  /\ \A d \in Clients : sid'[d] \in minted' \cup {None}
             /\ pending'.active => pending'.session \in minted'
  BY <1>0, <1>2 DEF Return, TypeOK, ClientTypeOK
<1>3. ASSUME NEW c \in Clients, TurnBegin(c)
      PROVE  /\ \A d \in Clients : sid'[d] \in minted' \cup {None}
             /\ pending'.active => pending'.session \in minted'
  BY <1>0, <1>3 DEF TurnBegin, callVars, TypeOK, ClientTypeOK
<1>4. ASSUME NEW c \in Clients, Pause(c)
      PROVE  /\ \A d \in Clients : sid'[d] \in minted' \cup {None}
             /\ pending'.active => pending'.session \in minted'
  <2>1. sid[c] \in minted
    BY <1>4 DEF Pause, TypeOK, ClientTypeOK
  <2>2. pending'.session = sid[c] /\ sid' = [sid EXCEPT ![c] = None]
    BY <1>4 DEF Pause, Return
  <2> QED  BY <1>0, <2>1, <2>2 DEF TypeOK, ClientTypeOK
<1>5. ASSUME NEW c \in Clients, NEW s \in Sessions, Answer(c, s)
      PROVE  /\ \A d \in Clients : sid'[d] \in minted' \cup {None}
             /\ pending'.active => pending'.session \in minted'
  <2>1. /\ pending.active /\ pending' = NoPending
        /\ sid' = [sid EXCEPT ![c] = pending.session]
    BY <1>5 DEF Answer, AnswerNamed, AnswerBlind, Decide, DecideWith, DecisionLands
  <2> QED  BY <1>0, <2>1 DEF NoPending, TypeOK, ClientTypeOK
<1>6. ASSUME NEW c \in Clients, TurnAbandon(c)
      PROVE  /\ \A d \in Clients : sid'[d] \in minted' \cup {None}
             /\ pending'.active => pending'.session \in minted'
  BY <1>0, <1>6 DEF TurnAbandon, locals, NoPending
<1>7. CASE Restart
  BY <1>0, <1>7 DEF Restart, NoPending
<1>8. ASSUME NEW c \in Clients, Step(c)
      PROVE  \/ UNCHANGED <<sid, pending>>
             \/ \E asked : Return(c, asked) /\ UNCHANGED pending
             \/ Pause(c) \/ TurnAbandon(c)
  BY <1>8
     DEF Step, TurnNoteAbandoned, TurnAdmit, TurnSeed, TurnUser,
         Classify, Execute, RecordResult, RetryNote, Reclassify, Reply,
         callVars, locals
<1> QED
  BY <1>1, <1>2, <1>3, <1>4, <1>5, <1>6, <1>7, <1>8
     DEF Next, vars, callVars, locals, DeleteSession

\* initialize establishes the invariant.
LEMMA TranscriptInvInit == Init => TranscriptInv
BY TypeInit DEF Init, TranscriptInv, MintedOnly, NoPending

\* Every step of the host keeps the invariant.
LEMMA TranscriptInvNext == TranscriptInv /\ [Next]_vars => TranscriptInv'
<1> SUFFICES ASSUME TranscriptInv, [Next]_vars PROVE TranscriptInv'
  OBVIOUS
<1>1. TypeOK'
  BY TypeNext DEF TranscriptInv
<1>2. MintedOnly'
  BY HostMints, LocalsMint DEF MintedOnly
<1> QED  BY <1>1, <1>2 DEF TranscriptInv

\* The invariant holds throughout.
LEMMA TranscriptInvAlways == Spec => []TranscriptInv
BY TranscriptInvInit, TranscriptInvNext, PTL DEF Spec

-----------------------------------------------------------------------------
(* Transcript and store                                                    *)

KeepsStep == Mirror' \/ CrossRecord \/ RowRefused \/ LoadCutShort \/ IdReused

\* Appending the same message with its position keeps the two in step.
LEMMA AppendInStep ==
    ASSUME NEW rows \in Seq(Row), NEW t \in Seq(Message), InStep(rows, t),
           Contiguous(rows), NEW msg \in Message
    PROVE  /\ InStep(AppendRow(rows, Len(t), msg), Append(t, msg))
           /\ Contiguous(AppendRow(rows, Len(t), msg))
<1> DEFINE row == [hop |-> Len(t), msg |-> msg]
           rows2 == Append(rows, row)
           t2 == Append(t, msg)
<1>1. Len(rows) = Len(t) /\ Len(t) \in Nat
  BY DEF InStep
<1>2. row \in Row
  BY <1>1, RowTyped
<1> HIDE DEF row
<1>3. /\ Len(rows2) = Len(rows) + 1 /\ Len(t2) = Len(t) + 1
      /\ \A i \in 1..Len(rows) : rows2[i] = rows[i] /\ t2[i] = t[i]
      /\ rows2[Len(rows) + 1] = row /\ t2[Len(t) + 1] = msg
  BY <1>1, <1>2
<1> HIDE DEF rows2, t2
<1>4. ASSUME NEW i \in 1..Len(rows2)
      PROVE  rows2[i] = [hop |-> i - 1, msg |-> t2[i]]
  <2>1. CASE i \in 1..Len(rows)
    BY <1>3, <2>1 DEF InStep
  <2>2. CASE i = Len(rows) + 1
    BY <1>1, <1>3, <2>2 DEF row
  <2> QED  BY <1>1, <1>3, <2>1, <2>2
<1>5. InStep(rows2, t2)
  BY <1>1, <1>3, <1>4 DEF InStep
<1>6. Contiguous(rows2)
  <2>1. ASSUME NEW i \in 1..Len(rows2) PROVE rows2[i].hop = i - 1
    <3>1. rows2[i] = [hop |-> i - 1, msg |-> t2[i]]
      BY <1>4
    <3> QED  BY <3>1
  <2> QED  BY <2>1 DEF Contiguous
<1> QED  BY <1>5, <1>6 DEF AppendRow, row, rows2, t2

\* record_agent_message keeps transcript and store in step unless the session is
\* not the current one or the store refused the row.
LEMMA RecordKeepsStep ==
    ASSUME TranscriptInv, Mirror, NEW c \in Clients, NEW kind \in Kinds,
           pc[c] # "idle", Record(c, kind)
    PROVE  KeepsStep
<1> USE DEF TranscriptInv, TypeOK
<1> DEFINE msg == [kind |-> kind, of |-> sid[c]]
           row == AppendRow(store[sid[c]], Len(transcript), msg)
<1>1. /\ transcript' = Append(transcript, msg)
      /\ Write([store EXCEPT ![sid[c]] = row])
      /\ UNCHANGED current
  BY DEF Record, RecordAt
<1>2. sid[c] \in Sessions /\ msg \in Message
  BY DEF ClientTypeOK, Message
<1>3. /\ transcript \in Seq(Message) /\ Len(transcript') = Len(transcript) + 1
      /\ transcript'[Len(transcript')].of = sid[c]
  <2>1. transcript \in Seq(Message) /\ msg.of = sid[c]
    BY DEF HostTypeOK
  <2> HIDE DEF msg
  <2> QED  BY <1>1, <1>2, <2>1
<1>4. CASE sid[c] # current
  BY <1>1, <1>3, <1>4 DEF KeepsStep, CrossRecord
<1>5. CASE faults' = faults + 1
  BY <1>1, <1>3, <1>5 DEF KeepsStep, RowRefused, Write, HostTypeOK
<1>6. CASE sid[c] = current /\ store' = [store EXCEPT ![sid[c]] = row]
  <2>1. store'[current'] = row /\ \A s \in Sessions : s # current => store'[s] = store[s]
    BY <1>1, <1>2, <1>6 DEF HostTypeOK
  <2>2. InStep(row, transcript') /\ Contiguous(row)
    <3>1. store[current] \in Seq(Row) /\ InStep(store[current], transcript)
          /\ Contiguous(store[current])
      BY DEF HostTypeOK, Mirror
    <3> HIDE DEF msg
    <3> QED  BY <1>1, <1>2, <1>3, <1>6, <3>1, AppendInStep
  <2> HIDE DEF row
  <2>3. Mirror'
    BY <1>1, <2>1, <2>2 DEF Mirror
  <2> QED  BY <2>3 DEF KeepsStep
<1> QED  BY <1>1, <1>4, <1>5, <1>6 DEF Write

\* A new session starts empty, unless its id was made within the same second.
LEMMA StartKeepsStep ==
    ASSUME TranscriptInv, \A s \in Sessions : Contiguous(store[s]), StartSession,
           \A s \in Sessions : store'[s] \in {store[s], <<>>}
    PROVE  KeepsStep
<1>1. PICK s \in SessionIds : transcript' = <<>> /\ current' = s
  BY DEF StartSession
<1>2. CASE s \in Sessions \ minted
  <2>1. store'[s] = <<>>
    BY <1>2 DEF TranscriptInv, MintedOnly
  <2>2. \A r \in Sessions : Contiguous(store'[r])
    BY EmptyRows
  <2> QED  BY <1>1, <2>1, <2>2, EmptyRows DEF Mirror, KeepsStep
<1>3. CASE SameSecond /\ s = lastMinted
  BY <1>1, <1>3 DEF IdReused, KeepsStep
<1> QED  BY <1>2, <1>3 DEF SessionIds

\* Every step keeps them in step, or is one of the four causes of drift.
LEMMA MirrorNext == TranscriptInv /\ Mirror /\ [Next]_vars => KeepsStep
<1> SUFFICES ASSUME TranscriptInv, Mirror, [Next]_vars PROVE KeepsStep
  OBVIOUS
<1> USE DEF TranscriptInv, TypeOK
<1>1. CASE UNCHANGED hostVars
  BY <1>1 DEF hostVars, Mirror, KeepsStep
<1>2. ASSUME NEW c \in Clients, TurnBegin(c) PROVE KeepsStep
  <2>1. CASE StartSession /\ UNCHANGED store
    BY <2>1, StartKeepsStep DEF Mirror
  <2>2. ASSUME NEW s \in Sessions, s # current, Load(store[s]),
               current' = s, UNCHANGED store
        PROVE  KeepsStep
    <3>1. store[s] \in Seq([hop : Nat, msg : Message]) /\ Contiguous(store[s])
      BY DEF HostTypeOK, Row, Mirror
    <3>2. InStep(store[s], LoadSession(store[s]))
      BY <3>1, ContiguousReplay
    <3>3. CASE transcript' = LoadSession(store[s])
      BY <2>2, <3>2, <3>3 DEF Mirror, KeepsStep
    <3>4. CASE transcript' # LoadSession(store[s])
      <4>1. transcript' \in LoadsShort(store[s]) /\ faults' = faults + 1
        BY <2>2, <3>4 DEF Load
      <4>2. Len(transcript') < Len(store[s])
        <5>1. /\ transcript' \in Seq(Message) /\ Len(transcript') <= Len(store[s])
              /\ Len(transcript') = Len(store[s]) => transcript' = LoadSession(store[s])
          BY <3>1, <4>1, LoadsShortTyped
        <5>2. Len(transcript') \in Nat /\ Len(store[s]) \in Nat
          BY <3>1, <5>1
        <5> QED  BY <3>4, <5>1, <5>2
      <4> QED  BY <2>2, <4>1, <4>2 DEF LoadCutShort, KeepsStep
    <3> QED  BY <3>3, <3>4
  <2> QED  BY <1>1, <1>2, <2>1, <2>2 DEF TurnBegin, SelectSession
<1>3. ASSUME NEW c \in Clients, Step(c) PROVE KeepsStep
  <2>1. \/ UNCHANGED hostVars
        \/ \E kind \in Kinds : pc[c] # "idle" /\ Record(c, kind)
    BY <1>3
       DEF Step, TurnAbandon, TurnNoteAbandoned, TurnAdmit, TurnSeed, TurnUser,
           Classify, Pause, Execute, RecordResult, RetryNote, Reclassify, Reply,
           Kinds, ClientTypeOK
  <2> QED  BY <1>1, <2>1, RecordKeepsStep
<1>4. ASSUME NEW c \in Clients, NEW s \in Sessions, Answer(c, s) PROVE KeepsStep
  BY <1>1, <1>4 DEF Answer, AnswerNamed, AnswerBlind, Decide, DecideWith
<1>5. ASSUME NEW s \in minted, DeleteSession(s) PROVE KeepsStep
  <2>1. CASE UNCHANGED store
    <3>1. CASE s = current
      BY <1>5, <2>1, <3>1, StartKeepsStep DEF DeleteSession, Mirror
    <3>2. CASE s # current
      BY <1>5, <2>1, <3>2 DEF DeleteSession, Mirror, KeepsStep
    <3> QED  BY <3>1, <3>2
  <2>2. CASE store' = [store EXCEPT ![s] = <<>>]
    <3>1. /\ \A r \in Sessions : store'[r] \in {store[r], <<>>}
          /\ \A r \in Sessions : r # s => store'[r] = store[r]
      BY <2>2 DEF HostTypeOK
    <3>2. CASE s = current
      BY <1>5, <3>1, <3>2, StartKeepsStep DEF DeleteSession, Mirror
    <3>3. CASE s # current
      <4>1. UNCHANGED <<transcript, current>> /\ store'[current] = store[current]
        BY <1>5, <3>1, <3>3 DEF DeleteSession, HostTypeOK
      <4>2. \A r \in Sessions : Contiguous(store'[r])
        BY <3>1, EmptyRows DEF Mirror
      <4> QED  BY <4>1, <4>2 DEF Mirror, KeepsStep
    <3> QED  BY <3>2, <3>3
  <2> QED  BY <1>5, <2>1, <2>2 DEF DeleteSession, Write
<1>6. CASE Restart
  BY <1>6, StartKeepsStep DEF Restart, Mirror
<1> QED  BY <1>1, <1>2, <1>3, <1>4, <1>5, <1>6 DEF Next, vars

\* record_agent_message keeps transcript and store in step, save for a message
\* of another session, a row the store refused, a session read in part and an id
\* made twice.
THEOREM DriftCorrect == Spec => DriftHasFourCauses
<1>1. TranscriptInv /\ [Next]_vars =>
        [Mirror => Mirror' \/ CrossRecord \/ RowRefused \/ LoadCutShort \/ IdReused]_vars
  BY MirrorNext DEF KeepsStep
<1> QED  BY <1>1, TranscriptInvAlways, PTL DEF Spec, DriftHasFourCauses

-----------------------------------------------------------------------------
(* What a step does to the rows                                            *)

\* record_agent_message writes one row, at the end of its session, or the
\* store refuses it.
LEMMA RecordRows ==
    ASSUME TypeOK, NEW c \in Clients, NEW kind \in Kinds, sid[c] \in Sessions,
           Record(c, kind)
    PROVE  /\ transcript' # <<>> /\ UNCHANGED current
           /\ \A s \in Sessions : s # sid[c] => store'[s] = store[s]
           /\ \/ faults' = faults + 1 /\ UNCHANGED store
              \/ /\ UNCHANGED faults
                 /\ Len(store'[sid[c]]) = Len(store[sid[c]]) + 1
                 /\ store'[sid[c]][Len(store'[sid[c]])].msg.kind = kind
                 /\ \A i \in 1..Len(store[sid[c]]) :
                       store'[sid[c]][i] = store[sid[c]][i]
<1> DEFINE msg == [kind |-> kind, of |-> sid[c]]
           row == [hop |-> Len(transcript), msg |-> msg]
           rows == store[sid[c]]
<1>1. /\ transcript' = Append(transcript, msg) /\ UNCHANGED current
      /\ Write([store EXCEPT ![sid[c]] = Append(rows, row)])
  BY DEF Record, RecordAt, AppendRow
<1>2. /\ transcript \in Seq(Message) /\ store \in [Sessions -> Seq(Row)]
      /\ rows \in Seq(Row)
  BY DEF TypeOK, HostTypeOK
<1>3. msg \in Message /\ row.msg.kind = kind
  BY DEF Message
<1>4. row \in Row
  <2>1. Len(transcript) \in Nat
    BY <1>2
  <2> QED  BY <1>3, <2>1 DEF Row
<1> HIDE DEF msg, row
<1>5. transcript' # <<>>
  BY <1>1, <1>2, <1>3
<1>6. CASE faults' = faults + 1 /\ UNCHANGED store
  BY <1>1, <1>5, <1>6
<1>7. CASE UNCHANGED faults /\ store' = [store EXCEPT ![sid[c]] = Append(rows, row)]
  <2>1. store'[sid[c]] = Append(rows, row)
        /\ \A s \in Sessions : s # sid[c] => store'[s] = store[s]
    BY <1>2, <1>7
  <2>2. /\ Len(Append(rows, row)) = Len(rows) + 1
        /\ Append(rows, row)[Len(rows) + 1] = row
        /\ \A i \in 1..Len(rows) : Append(rows, row)[i] = rows[i]
    BY <1>2, <1>4
  <2> QED  BY <1>1, <1>3, <1>5, <1>7, <2>1, <2>2
<1> QED  BY <1>1, <1>6, <1>7 DEF Write

\* delete_agent_session_json takes a session's rows away, or the store refuses
\* to.
LEMMA DeleteRows ==
    ASSUME TypeOK, NEW s \in minted, DeleteSession(s)
    PROVE  /\ UNCHANGED <<pending, pc, sid, tool, verdict, mayRetry>>
           /\ requests' = requests + 1
           /\ \/ faults' = faults + 1 /\ UNCHANGED store
              \/ /\ UNCHANGED faults
                 /\ \A r \in Sessions : store'[r] = IF r = s THEN <<>> ELSE store[r]
<1>1. s \in Sessions /\ store \in [Sessions -> Seq(Row)]
  BY DEF TypeOK, HostTypeOK
<1> QED  BY <1>1 DEF DeleteSession, Write, callVars, locals, Request

\* The blocks that write no row.
Silent(c) ==
    \/ TurnAbandon(c) \/ TurnAdmit(c) \/ Classify(c) \/ Pause(c) \/ Execute(c)
    \/ Reclassify(c)

\* They leave the transcript, the store and the requests alone.
LEMMA SilentRows ==
    ASSUME NEW c \in Clients, Silent(c)
    PROVE  UNCHANGED <<hostVars, requests>>
BY DEF Silent, TurnAbandon, TurnAdmit, Classify, Pause, Execute, Reclassify

\* Selecting a session writes none either, and leaves the client idle or at the
\* first block of its turn.
LEMMA BeginRows ==
    ASSUME TypeOK, NEW c \in Clients, TurnBegin(c)
    PROVE  /\ UNCHANGED <<store, pending, verdict, mayRetry>>
           /\ faults' = faults \/ faults' = faults + 1
           /\ requests' = requests + 1
           /\ \/ UNCHANGED <<pc, sid>> /\ pc[c] = "idle"
              \/ /\ pc' = [pc EXCEPT ![c] = "abandon"]
                 /\ sid' = [sid EXCEPT ![c] = current']
BY LoadTyped DEF TurnBegin, SelectSession, StartSession, hostVars, callVars, Goto, Request,
                 Load, TypeOK

-----------------------------------------------------------------------------
(* One client: the question at the end of a history                        *)

\* The session's rows, if it has any, end with a message that was not answered.
OpenEnd(s) ==
    store[s] # <<>> => store[s][Len(store[s])].msg.kind \in {"user", "retry"}

\* Where a pause comes from, and where it waits.
QuestionOpen(c) ==
    faults = 0 =>
        /\ pending.active => OpenEnd(pending.session)
        /\ pc[c] \in {"classify", "reclassify", "pause"} => OpenEnd(sid[c])

\* The client's own steps.
LEMMA StepQuestionOpen ==
    ASSUME TypeOK, NEW c \in Clients, SlotShown(c), QuestionOpen(c), Step(c)
    PROVE  QuestionOpen(c)'
<1> USE DEF QuestionOpen
<1>0. /\ sid[c] \in Sessions /\ pc[c] # "idle" /\ faults \in Nat
      /\ pc \in [Clients -> Blocks \cup {"idle"}]
      /\ pending.active => pending.session \in Sessions
  BY DEF TypeOK, HostTypeOK, ClientTypeOK, SlotTypeOK, Slot, Step, TurnAbandon,
         TurnNoteAbandoned, TurnAdmit, TurnSeed, TurnUser, Classify, Pause,
         Execute, RecordResult, RetryNote, Reclassify, Reply
<1>1. CASE Silent(c)
  <2>1. UNCHANGED <<store, faults>>
    BY <1>1, SilentRows DEF hostVars
  <2>2. CASE TurnAbandon(c)
    BY <1>0, <2>1, <2>2 DEF TurnAbandon, Goto, NoPending, OpenEnd
  <2>3. CASE Pause(c)
    BY <1>0, <2>1, <2>3 DEF Pause, Return, Goto, OpenEnd
  <2>4. CASE TurnAdmit(c) \/ Classify(c) \/ Execute(c) \/ Reclassify(c)
    <3>1. UNCHANGED pending
      BY <2>4 DEF TurnAdmit, Classify, Execute, Reclassify, callVars
    <3>2. pc'[c] \in {"classify", "reclassify", "pause"}
          => pc[c] \in {"classify", "reclassify"} /\ UNCHANGED sid
      BY <1>0, <2>4 DEF TurnAdmit, Classify, Execute, Reclassify, Decided, Return, Goto, locals
    <3> QED  BY <2>1, <3>1, <3>2 DEF OpenEnd
  <2> QED  BY <1>1, <2>2, <2>3, <2>4 DEF Silent
<1>2. ASSUME NEW kind \in Kinds, NEW block \in Blocks \cup {"idle"}, Record(c, kind),
             pc' = [pc EXCEPT ![c] = block], UNCHANGED pending, pc[c] # "abandon",
             block \in {"classify", "reclassify", "pause"}
                => kind \in {"user", "retry"} /\ UNCHANGED sid
      PROVE  QuestionOpen(c)'
  <2>1. CASE faults' = faults + 1
    BY <1>0, <2>1
  <2>2. CASE UNCHANGED faults
    <3>1. pending.active => store'[pending.session] = store[pending.session]
      BY <1>0, <1>2, RecordRows DEF SlotShown
    <3>2. kind \in {"user", "retry"} =>
            store'[sid[c]][Len(store'[sid[c]])].msg.kind \in {"user", "retry"}
      BY <1>0, <1>2, <2>2, RecordRows
    <3> QED  BY <1>0, <1>2, <2>2, <3>1, <3>2 DEF OpenEnd
  <2> QED  BY <1>0, <1>2, <2>1, <2>2, RecordRows
<1>3. CASE TurnNoteAbandoned(c) \/ TurnSeed(c) \/ TurnUser(c)
  BY <1>2, <1>3 DEF TurnNoteAbandoned, TurnSeed, TurnUser, Goto, locals, callVars, Kinds, Blocks, TurnBlocks
<1>4. CASE RecordResult(c)
  <2>1. verdict[c] \in Kinds
    BY <1>4 DEF RecordResult, TypeOK, ClientTypeOK, Kinds
  <2> QED  BY <1>2, <1>4, <2>1 DEF RecordResult, Goto, callVars, Blocks, FinishBlocks
<1>5. CASE RetryNote(c)
  BY <1>2, <1>5 DEF RetryNote, Goto, callVars, Kinds, Blocks, FinishBlocks
<1>6. CASE Reply(c)
  BY <1>2, <1>6 DEF Reply, Return, Goto, callVars, Kinds
<1> QED  BY <1>1, <1>3, <1>4, <1>5, <1>6 DEF Step, Silent

\* Every step of a host with one client.
LEMMA QuestionOpenNext ==
    ASSUME TypeOK, NEW c, Clients = {c}, SlotShown(c), QuestionOpen(c), [Next]_vars
    PROVE  QuestionOpen(c)'
<1> USE DEF QuestionOpen
<1>0. faults \in Nat /\ pc \in [Clients -> Blocks \cup {"idle"}]
      /\ (pc[c] # "idle" => sid[c] \in Sessions)
      /\ (pending.active => pending.session \in Sessions)
  BY DEF TypeOK, HostTypeOK, ClientTypeOK, SlotTypeOK, Slot
<1>1. CASE UNCHANGED vars
  BY <1>1 DEF vars, hostVars, callVars, locals, OpenEnd
<1>2. CASE TurnBegin(c)
  BY <1>0, <1>2, BeginRows DEF OpenEnd
<1>3. CASE Step(c)
  BY <1>3, StepQuestionOpen
<1>4. ASSUME NEW s \in Sessions, Answer(c, s) PROVE QuestionOpen(c)'
  <2>1. /\ pending' = NoPending
        /\ pc' = [pc EXCEPT ![c] = "execute"] \/ pc' = [pc EXCEPT ![c] = "result"]
    BY <1>4 DEF Answer, AnswerNamed, AnswerBlind, Decide, DecideWith, Goto
  <2> QED  BY <1>0, <2>1 DEF NoPending
<1>5. ASSUME NEW s \in minted, DeleteSession(s) PROVE QuestionOpen(c)'
  <2>1. CASE faults' = faults + 1
    BY <1>0, <2>1
  <2>2. CASE UNCHANGED faults
    BY <1>0, <1>5, <2>2, DeleteRows DEF OpenEnd
  <2> QED  BY <1>5, <2>1, <2>2, DeleteRows
<1>6. CASE Restart
  BY <1>6 DEF Restart, NoPending
<1> QED  BY <1>1, <1>2, <1>3, <1>4, <1>5, <1>6 DEF Next

\* With one client, the call in the slot belongs to the latest, still
\* unanswered turn of its session, while the store refuses nothing: a newer
\* message has abandoned every older one.
THEOREM PendingIsOpen ==
    ASSUME NEW user, Clients = {user}
    PROVE  Spec => []PendingBelongsToOpenTurn
<1>1. Init => SlotShown(user) /\ QuestionOpen(user)
  BY DEF Init, NoPending, SlotShown, QuestionOpen
<1>2. TypeOK /\ SlotShown(user) /\ QuestionOpen(user) /\ [Next]_vars
      => SlotShown(user)' /\ QuestionOpen(user)'
  BY SlotShownNext, QuestionOpenNext
<1>3. QuestionOpen(user) => PendingBelongsToOpenTurn
  BY DEF QuestionOpen, OpenEnd, PendingBelongsToOpenTurn
<1> QED  BY <1>1, <1>2, <1>3, TypeCorrect, PTL DEF Spec

-----------------------------------------------------------------------------
(* One client: a decline is a veto                                         *)

Declined(s) ==
    store[s] # <<>> /\ store[s][Len(store[s])].msg.kind = "declined"

\* With at most one row refused, no history that ends with a decline is about
\* to get a retry note: a request that can still fail has written its message
\* since, or its row is the one refused.
Vetoed(c) ==
    faults <= 1 =>
        /\ DeclineNotRetried
        /\ pc[c] = "retry" => ~Declined(sid[c])
        /\ \/ pc[c] \in {"classify", "reclassify", "pause", "execute"}
           \/ pc[c] = "result" /\ verdict[c] # "declined"
           => (Declined(sid[c]) => faults = 1)
        /\ pending.active => (Declined(pending.session) => faults = 1)
        /\ pc[c] = "result" /\ verdict[c] = "declined"
           => ~mayRetry[c] /\ ~pending.active

\* A row other than a retry note after a decline adds no retried decline.
LEMMA RecordVetoed ==
    ASSUME TypeOK, NEW c \in Clients, NEW kind \in Kinds, sid[c] \in Sessions,
           Record(c, kind), DeclineNotRetried, kind = "retry" => ~Declined(sid[c])
    PROVE  /\ DeclineNotRetried'
           /\ \A s \in Sessions : Declined(s)' => Declined(s) \/ kind = "declined"
           /\ faults' = faults /\ kind # "declined" =>
                 \A s \in Sessions : s = sid[c] => ~Declined(s)'
<1> DEFINE u == sid[c]
<1>1. store \in [Sessions -> Seq(Row)] /\ faults \in Nat
  BY DEF TypeOK, HostTypeOK
<1>2. CASE faults' = faults + 1 /\ UNCHANGED store
  BY <1>1, <1>2 DEF DeclineNotRetried, Declined
<1>3. CASE /\ UNCHANGED faults
           /\ Len(store'[u]) = Len(store[u]) + 1
           /\ store'[u][Len(store'[u])].msg.kind = kind
           /\ \A i \in 1..Len(store[u]) : store'[u][i] = store[u][i]
  <2>1. Len(store[u]) \in Nat /\ (Len(store[u]) # 0 => store[u] # <<>>)
    BY <1>1
  <2>2. \A s \in Sessions : s # u => store'[s] = store[s]
    BY RecordRows
  <2>3. ASSUME NEW s \in Sessions, NEW i \in 1..(Len(store'[s]) - 1),
               store'[s][i].msg.kind = "declined"
        PROVE  store'[s][i + 1].msg.kind # "retry"
    <3>1. CASE s # u
      BY <2>2, <2>3, <3>1 DEF DeclineNotRetried
    <3>2. CASE s = u /\ i < Len(store[u])
      <4>1. i \in 1..(Len(store[u]) - 1) /\ i \in 1..Len(store[u])
            /\ i + 1 \in 1..Len(store[u])
        BY <2>1, <3>2
      <4>2. store'[u][i] = store[u][i] /\ store'[u][i + 1] = store[u][i + 1]
        BY <1>3, <4>1
      <4> QED  BY <2>3, <3>2, <4>1, <4>2 DEF DeclineNotRetried
    <3>3. CASE s = u /\ i = Len(store[u])
      BY <1>3, <2>1, <2>3, <3>3 DEF Declined
    <3> QED  BY <1>3, <2>1, <2>3, <3>1, <3>2, <3>3
  <2>4. DeclineNotRetried'
    BY <2>3 DEF DeclineNotRetried
  <2>5. \A s \in Sessions : s = u /\ Declined(s)' => kind = "declined"
    BY <1>3 DEF Declined
  <2>6. \A s \in Sessions : s # u => Declined(s)' = Declined(s)
    BY <2>2 DEF Declined
  <2> QED  BY <2>4, <2>5, <2>6
<1> QED  BY <1>2, <1>3, RecordRows

\* The client's own steps.
LEMMA StepVetoed ==
    ASSUME TypeOK, NEW c \in Clients, Vetoed(c), Step(c)
    PROVE  Vetoed(c)'
<1> USE DEF Vetoed
<1>0. /\ sid[c] \in Sessions /\ pc[c] # "idle" /\ faults \in Nat
      /\ pc \in [Clients -> Blocks \cup {"idle"}]
      /\ verdict \in [Clients -> {"none", "tool", "failed", "declined"}]
      /\ pending.active => pending.session \in Sessions
  BY DEF TypeOK, HostTypeOK, ClientTypeOK, SlotTypeOK, Slot, Step, TurnAbandon,
         TurnNoteAbandoned, TurnAdmit, TurnSeed, TurnUser, Classify, Pause,
         Execute, RecordResult, RetryNote, Reclassify, Reply
<1>1. CASE Silent(c)
  <2>1. UNCHANGED <<store, faults>>
    BY <1>1, SilentRows DEF hostVars
  <2>2. UNCHANGED <<DeclineNotRetried>> /\ \A s \in Sessions : Declined(s)' = Declined(s)
    BY <2>1 DEF DeclineNotRetried, Declined
  <2>3. CASE TurnAbandon(c)
    BY <1>0, <2>1, <2>2, <2>3 DEF TurnAbandon, Goto, NoPending
  <2>4. CASE Pause(c)
    BY <1>0, <2>1, <2>2, <2>4 DEF Pause, Return, Goto
  <2>5. CASE TurnAdmit(c) \/ Classify(c) \/ Reclassify(c)
    <3>1. UNCHANGED pending
      BY <2>5 DEF TurnAdmit, Classify, Reclassify, callVars
    <3>2. pc'[c] \in {"idle", "seed", "user", "reply"}
          \/ /\ pc[c] \in {"classify", "reclassify"} /\ UNCHANGED sid
             /\ \/ pc'[c] \in {"execute", "pause"}
                \/ pc'[c] = "result" /\ verdict'[c] = "failed"
      BY <1>0, <2>5 DEF TurnAdmit, Classify, Reclassify, Decided, Return, Goto, locals
    <3> QED  BY <1>0, <2>1, <2>2, <3>1, <3>2
  <2>6. CASE Execute(c)
    <3>1. /\ pc[c] = "execute" /\ pc'[c] = "result" /\ verdict'[c] # "declined"
          /\ UNCHANGED <<pending, sid>>
      BY <1>0, <2>6 DEF Execute, Goto
    <3> QED  BY <1>0, <2>1, <2>2, <3>1
  <2> QED  BY <1>1, <2>3, <2>4, <2>5, <2>6 DEF Silent
<1>2. CASE TurnNoteAbandoned(c) \/ TurnSeed(c) \/ TurnUser(c) \/ Reply(c)
  <2>1. PICK kind \in {"abandoned", "prompt", "user", "assistant"} : Record(c, kind)
    BY <1>2 DEF TurnNoteAbandoned, TurnSeed, TurnUser, Reply
  <2>2. /\ UNCHANGED pending
        /\ pc'[c] \in {"admit", "user", "classify", "idle"}
        /\ pc'[c] = "classify" => UNCHANGED sid
    BY <1>0, <1>2 DEF TurnNoteAbandoned, TurnSeed, TurnUser, Reply, Return, Goto, callVars, locals
  <2>3. kind \in Kinds /\ kind \notin {"retry", "declined"}
    BY DEF Kinds
  <2>4. faults' = faults \/ faults' = faults + 1
    BY <1>0, <2>1, <2>3, RecordRows
  <2> QED  BY <1>0, <2>1, <2>2, <2>3, <2>4, RecordVetoed
<1>3. CASE RecordResult(c)
  <2>1. verdict[c] \in {"tool", "failed", "declined"} /\ Record(c, verdict[c])
        /\ UNCHANGED <<pending, sid>>
    BY <1>3 DEF RecordResult, TypeOK, ClientTypeOK, callVars, locals
  <2>2. verdict[c] \in Kinds
    BY <2>1 DEF Kinds
  <2>3. faults' = faults \/ faults' = faults + 1
    BY <1>0, <2>1, <2>2, RecordRows
  <2>4. pc[c] = "result" /\ (pc'[c] = "reply" \/ (pc'[c] = "retry" /\ mayRetry[c]))
    BY <1>0, <1>3 DEF RecordResult, Goto
  <2>5. faults' <= 1 => DeclineNotRetried' /\ (pending.active => (Declined(pending.session)' => faults' = 1))
    BY <1>0, <2>1, <2>2, <2>3, <2>4, RecordVetoed
  <2>6. faults' <= 1 /\ pc'[c] = "retry" => ~Declined(sid[c])'
    BY <1>0, <2>1, <2>2, <2>3, <2>4, RecordVetoed
  <2> QED  BY <1>0, <2>1, <2>4, <2>5, <2>6
<1>4. CASE RetryNote(c)
  <2>1. pc[c] = "retry" /\ pc'[c] = "reclassify" /\ Record(c, "retry")
        /\ UNCHANGED <<pending, sid>> /\ "retry" \in Kinds
    BY <1>0, <1>4 DEF RetryNote, Goto, callVars, Kinds
  <2>2. faults' = faults \/ faults' = faults + 1
    BY <1>0, <2>1, RecordRows
  <2> QED  BY <1>0, <2>1, <2>2, RecordVetoed
<1> QED  BY <1>1, <1>2, <1>3, <1>4 DEF Step, Silent

\* Every step of a host with one client.
LEMMA VetoedNext ==
    ASSUME TypeOK, NEW c, Clients = {c}, Vetoed(c), [Next]_vars
    PROVE  Vetoed(c)'
<1> USE DEF Vetoed
<1>0. /\ faults \in Nat /\ pc \in [Clients -> Blocks \cup {"idle"}]
      /\ sid \in [Clients -> Sessions \cup {None}]
      /\ mayRetry \in [Clients -> BOOLEAN] /\ verdict \in [Clients -> {"none", "tool", "failed", "declined"}]
      /\ (pending.active => pending.session \in Sessions)
      /\ (pc[c] # "idle" => sid[c] \in Sessions)
  BY DEF TypeOK, HostTypeOK, ClientTypeOK, SlotTypeOK, Slot
<1>1. CASE UNCHANGED vars
  BY <1>1 DEF vars, hostVars, callVars, locals, DeclineNotRetried, Declined
<1>2. CASE TurnBegin(c)
  BY <1>0, <1>2, BeginRows DEF DeclineNotRetried, Declined
<1>3. CASE Step(c)
  BY <1>3, StepVetoed
<1>4. ASSUME NEW s \in Sessions, Answer(c, s) PROVE Vetoed(c)'
  <2>1. PICK approved \in BOOLEAN :
          /\ pending.active /\ pending' = NoPending
          /\ sid' = [sid EXCEPT ![c] = pending.session]
          /\ mayRetry' = [mayRetry EXCEPT ![c] = approved]
          /\ \/ approved /\ pc' = [pc EXCEPT ![c] = "execute"]
             \/ /\ ~approved /\ pc' = [pc EXCEPT ![c] = "result"]
                /\ verdict' = [verdict EXCEPT ![c] = "declined"]
          /\ UNCHANGED <<store, faults>>
    BY <1>4 DEF Answer, AnswerNamed, AnswerBlind, Decide, DecideWith, DecisionLands,
                Goto, hostVars
  <2> QED  BY <1>0, <2>1 DEF NoPending, DeclineNotRetried, Declined
<1>5. ASSUME NEW s \in minted, DeleteSession(s) PROVE Vetoed(c)'
  <2>1. CASE faults' = faults + 1
    BY <1>0, <1>5, <2>1, DeleteRows DEF DeclineNotRetried, Declined
  <2>2. CASE UNCHANGED faults
    BY <1>0, <1>5, <2>2, DeleteRows DEF DeclineNotRetried, Declined
  <2> QED  BY <1>5, <2>1, <2>2, DeleteRows
<1>6. CASE Restart
  BY <1>6 DEF Restart, NoPending, DeclineNotRetried, Declined
<1> QED  BY <1>1, <1>2, <1>3, <1>4, <1>5, <1>6 DEF Next

\* With one client, and at most one row refused by the store, the model is never
\* asked to fix and retry a call the user refused, in any session's history.
THEOREM DeclineIsVeto ==
    ASSUME NEW user, Clients = {user}
    PROVE  Spec => [](faults <= 1 => DeclineNotRetried)
<1>1. Init => Vetoed(user)
  BY DEF Init, NoPending, Vetoed, DeclineNotRetried, Declined
<1>2. TypeOK /\ Vetoed(user) /\ [Next]_vars => Vetoed(user)'
  BY VetoedNext
<1>3. Vetoed(user) => (faults <= 1 => DeclineNotRetried)
  BY DEF Vetoed
<1> QED  BY <1>1, <1>2, <1>3, TypeCorrect, PTL DEF Spec

-----------------------------------------------------------------------------
(* One client: the system prompt opens a session once                      *)

PromptAt(s, i) == i \in DOMAIN store[s] /\ store[s][i].msg.kind = "prompt"
Unprompted(s) == \A i : ~PromptAt(s, i)
PromptedOnce(s) == \A i, j : PromptAt(s, i) /\ PromptAt(s, j) => i = j

\* While the store refuses nothing, an empty transcript has no prompt behind it,
\* and a turn that is about to look at it works in the current session, or in
\* one deleted since.
PromptInv(c) ==
    faults = 0 =>
        /\ \A s \in Sessions : PromptedOnce(s)
        /\ transcript = <<>> => Unprompted(current)
        /\ pc[c] \in {"abandon", "note", "admit"} =>
              sid[c] = current \/ Unprompted(sid[c])
        /\ pc[c] = "seed" => Unprompted(sid[c])

\* A session whose rows did not change is prompted as before.
LEMMA PromptsKept ==
    ASSUME NEW s \in Sessions, store'[s] = store[s]
    PROVE  /\ PromptedOnce(s) => PromptedOnce(s)'
           /\ Unprompted(s) => Unprompted(s)'
BY DEF PromptAt, PromptedOnce, Unprompted

\* A session without rows has no prompt.
LEMMA EmptyUnprompted ==
    ASSUME NEW s \in Sessions, store'[s] = <<>>
    PROVE  PromptedOnce(s)' /\ Unprompted(s)'
BY DEF PromptAt, PromptedOnce, Unprompted

\* record_agent_message adds a prompt only when it records one.
LEMMA RecordPrompts ==
    ASSUME TypeOK, NEW c \in Clients, NEW kind \in Kinds, sid[c] \in Sessions,
           Record(c, kind), faults' = faults, NEW s \in Sessions
    PROVE  /\ Unprompted(s) => PromptedOnce(s)'
           /\ kind # "prompt" =>
                /\ PromptedOnce(s) => PromptedOnce(s)'
                /\ Unprompted(s) => Unprompted(s)'
<1> DEFINE n == Len(store[s])
<1>1. CASE s # sid[c]
  BY <1>1, RecordRows, PromptsKept DEF Unprompted, PromptedOnce
<1>2. CASE s = sid[c]
  <2>1. faults \in Nat /\ store \in [Sessions -> Seq(Row)]
        /\ store' \in [Sessions -> Seq(Row)]
    BY RecordTyped DEF TypeOK, HostTypeOK
  <2>2. n \in Nat /\ DOMAIN store[s] = 1..n /\ DOMAIN store'[s] = 1..Len(store'[s])
    BY <2>1
  <2>3. /\ Len(store'[s]) = n + 1 /\ store'[s][n + 1].msg.kind = kind
        /\ \A i \in 1..n : store'[s][i] = store[s][i]
    BY <1>2, <2>1, RecordRows
  <2>4. \A i : PromptAt(s, i)' <=> PromptAt(s, i) \/ (i = n + 1 /\ kind = "prompt")
    BY <2>2, <2>3 DEF PromptAt
  <2> QED  BY <2>4 DEF PromptedOnce, Unprompted
<1> QED  BY <1>1, <1>2

\* A session begun under an unused id, or replayed from its rows, has no prompt
\* behind an empty transcript.
LEMMA StartUnprompted ==
    ASSUME TranscriptInv, ~SameSecond, StartSession,
           \A s \in Sessions : store'[s] \in {store[s], <<>>}
    PROVE  current' \in Sessions /\ Unprompted(current)'
<1>1. current' \in Sessions \ minted
  BY DEF StartSession, SessionIds
<1>2. store'[current'] = <<>>
  BY <1>1 DEF TranscriptInv, MintedOnly
<1> QED  BY <1>1, <1>2 DEF Unprompted, PromptAt

\* The client's own steps.
LEMMA StepPrompts ==
    ASSUME TypeOK, NEW c \in Clients, PromptInv(c), Step(c)
    PROVE  PromptInv(c)'
<1> USE DEF PromptInv
<1>0. /\ sid[c] \in Sessions /\ current \in Sessions /\ pc[c] # "idle" /\ faults \in Nat
      /\ pc \in [Clients -> Blocks \cup {"idle"}]
  BY DEF TypeOK, HostTypeOK, ClientTypeOK, Step, TurnAbandon, TurnNoteAbandoned,
         TurnAdmit, TurnSeed, TurnUser, Classify, Pause, Execute, RecordResult,
         RetryNote, Reclassify, Reply
<1>1. CASE Silent(c)
  <2>1. UNCHANGED hostVars
    BY <1>1, SilentRows
  <2>2. \A s : (PromptedOnce(s)' = PromptedOnce(s)) /\ (Unprompted(s)' = Unprompted(s))
    BY <2>1 DEF hostVars, PromptedOnce, Unprompted, PromptAt
  <2>3. CASE TurnAbandon(c)
    BY <1>0, <2>1, <2>2, <2>3 DEF TurnAbandon, Goto, locals, hostVars
  <2>4. CASE TurnAdmit(c)
    <3>1. /\ pc[c] = "admit" /\ pc'[c] \in {"seed", "user", "idle"}
          /\ pc'[c] = "seed" => transcript = <<>> /\ UNCHANGED sid
      BY <1>0, <2>4 DEF TurnAdmit, Return, Goto, locals
    <3> QED  BY <1>0, <2>1, <2>2, <3>1 DEF hostVars
  <2>5. CASE Classify(c) \/ Pause(c) \/ Execute(c) \/ Reclassify(c)
    <3>1. pc'[c] \notin {"abandon", "note", "admit", "seed"}
      BY <1>0, <2>5 DEF Classify, Pause, Execute, Reclassify, Decided, Return, Goto
    <3> QED  BY <1>0, <2>1, <2>2, <3>1 DEF hostVars
  <2> QED  BY <1>1, <2>3, <2>4, <2>5 DEF Silent
<1>2. ASSUME NEW kind \in Kinds, Record(c, kind), kind = "prompt" => pc[c] = "seed",
             \/ pc'[c] \notin {"abandon", "note", "admit", "seed"}
             \/ /\ pc[c] = "note" /\ pc'[c] = "admit" /\ UNCHANGED sid
                /\ kind # "prompt"
      PROVE  PromptInv(c)'
  <2>1. CASE faults' = faults + 1
    BY <1>0, <2>1
  <2>2. CASE faults' = faults /\ faults = 0
    <3>1. transcript' # <<>> /\ current' = current
      BY <1>0, <1>2, RecordRows
    <3>2. \A s \in Sessions : PromptedOnce(s)'
      <4>1. ASSUME NEW s \in Sessions, kind # "prompt" \/ s # sid[c] PROVE PromptedOnce(s)'
        BY <1>0, <1>2, <2>2, <4>1, RecordPrompts, RecordRows, PromptsKept
      <4>2. CASE kind = "prompt"
        BY <1>0, <1>2, <2>2, <4>1, <4>2, RecordPrompts
      <4> QED  BY <4>1, <4>2
    <3>3. pc'[c] = "admit" => sid'[c] = current' \/ Unprompted(sid[c])'
      BY <1>0, <1>2, <2>2, <3>1, RecordPrompts
    <3> QED  BY <1>2, <2>2, <3>1, <3>2, <3>3
  <2>3. CASE faults' = faults /\ faults # 0
    BY <2>3
  <2> QED  BY <1>0, <1>2, <2>1, <2>2, <2>3, RecordRows
<1>3. CASE TurnNoteAbandoned(c) \/ TurnSeed(c) \/ TurnUser(c) \/ RetryNote(c) \/ Reply(c)
  <2>1. CASE TurnNoteAbandoned(c)
    BY <1>0, <1>2, <2>1 DEF TurnNoteAbandoned, Goto, locals, Kinds
  <2>2. CASE TurnSeed(c) \/ TurnUser(c)
    BY <1>0, <1>2, <2>2 DEF TurnSeed, TurnUser, Goto, Kinds
  <2>3. CASE RetryNote(c) \/ Reply(c)
    BY <1>0, <1>2, <2>3 DEF RetryNote, Reply, Return, Goto, Kinds
  <2> QED  BY <1>3, <2>1, <2>2, <2>3
<1>4. CASE RecordResult(c)
  <2>1. verdict[c] \in Kinds \ {"prompt"}
    BY <1>4 DEF RecordResult, TypeOK, ClientTypeOK, Kinds
  <2> QED  BY <1>0, <1>2, <1>4, <2>1 DEF RecordResult, Goto
<1> QED  BY <1>1, <1>3, <1>4 DEF Step, Silent

\* Every step of a host with one client, whose session ids differ.
LEMMA PromptNext ==
    ASSUME TranscriptInv, NEW c, Clients = {c}, ~SameSecond, PromptInv(c), [Next]_vars
    PROVE  PromptInv(c)'
<1> USE DEF PromptInv
<1>0. /\ faults \in Nat /\ pc \in [Clients -> Blocks \cup {"idle"}]
      /\ store \in [Sessions -> Seq(Row)] /\ current \in Sessions
      /\ sid \in [Clients -> Sessions \cup {None}]
      /\ pc[c] # "idle" => sid[c] \in Sessions
  BY DEF TranscriptInv, TypeOK, HostTypeOK, ClientTypeOK
<1>1. CASE UNCHANGED <<hostVars, pc, sid>>
  BY <1>1 DEF hostVars, PromptedOnce, Unprompted, PromptAt
<1>2. CASE TurnBegin(c)
  <2>0. CASE faults' = faults + 1
    BY <1>0, <2>0
  <2>1. UNCHANGED store /\ (faults' = faults \/ faults' = faults + 1)
    BY <1>2, BeginRows DEF TranscriptInv
  <2>2. \A s : (PromptedOnce(s)' = PromptedOnce(s))
    BY <2>1 DEF PromptedOnce, PromptAt
  <2>3. pc'[c] = "idle" \/ (pc'[c] = "abandon" /\ sid'[c] = current')
    BY <1>0, <1>2, BeginRows DEF TranscriptInv
  <2>4. faults' = faults /\ faults = 0 /\ transcript' = <<>> => Unprompted(current)'
    <3>1. CASE StartSession
      BY <2>1, <3>1, StartUnprompted
    <3>2. ASSUME NEW s \in Sessions, transcript' = LoadSession(store[s]),
                 current' = s, transcript' = <<>>
          PROVE  Unprompted(current)'
      <4>1. store[s] \in Seq([hop : Nat, msg : Message])
        BY <1>0 DEF Row
      <4>2. Len(LoadSession(store[s])) = Len(store[s])
        BY <4>1, LoadSessionTyped
      <4>3. DOMAIN store[s] = {}
        BY <1>0, <3>2, <4>2
      <4> QED  BY <2>1, <3>2, <4>3 DEF Unprompted, PromptAt
    <3>3. CASE UNCHANGED hostVars
      BY <3>3 DEF hostVars, Unprompted, PromptAt
    <3>4. \/ StartSession \/ UNCHANGED hostVars
          \/ \E s \in Sessions : Load(store[s]) /\ current' = s
      BY <1>2 DEF TurnBegin, SelectSession
    <3>5. \A s \in Sessions : Load(store[s]) /\ faults' = faults =>
             transcript' = LoadSession(store[s])
      BY <1>0 DEF Load
    <3> QED  BY <3>1, <3>2, <3>3, <3>4, <3>5
  <2>5. CASE faults' = faults
    BY <2>1, <2>2, <2>3, <2>4, <2>5
  <2> QED  BY <2>0, <2>1, <2>5
<1>3. CASE Step(c)
  BY <1>3, StepPrompts DEF TranscriptInv
<1>4. ASSUME NEW s \in Sessions, Answer(c, s) PROVE PromptInv(c)'
  <2>1. UNCHANGED hostVars /\ pc'[c] \in {"execute", "result"}
    BY <1>0, <1>4 DEF Answer, AnswerNamed, AnswerBlind, Decide, DecideWith, Goto
  <2> QED  BY <2>1 DEF hostVars, PromptedOnce, Unprompted, PromptAt
<1>5. ASSUME NEW s \in minted, DeleteSession(s) PROVE PromptInv(c)'
  <2>1. CASE faults' = faults + 1
    BY <1>0, <2>1
  <2>2. CASE /\ UNCHANGED faults
             /\ \A r \in Sessions : store'[r] = IF r = s THEN <<>> ELSE store[r]
    <3>1. /\ UNCHANGED <<pc, sid>>
          /\ s # current => UNCHANGED <<transcript, current>>
          /\ s = current => StartSession
      BY <1>5 DEF DeleteSession, locals
    <3>2. \A r \in Sessions : /\ PromptedOnce(r) => PromptedOnce(r)'
                              /\ Unprompted(r) \/ r = s => Unprompted(r)'
      BY <2>2, PromptsKept, EmptyUnprompted
    <3>3. s = current => Unprompted(current)'
      BY <2>2, <3>1, StartUnprompted
    <3> QED  BY <1>0, <2>2, <3>1, <3>2, <3>3
  <2> QED  BY <1>5, <2>1, <2>2, DeleteRows DEF TranscriptInv
<1>6. CASE Restart
  <2>1. UNCHANGED <<store, faults>> /\ pc'[c] = "idle"
    BY <1>6 DEF Restart
  <2>2. Unprompted(current)'
    BY <1>6, <2>1, StartUnprompted DEF Restart
  <2> QED  BY <2>1, <2>2 DEF PromptedOnce, PromptAt
<1> QED  BY <1>1, <1>2, <1>3, <1>4, <1>5, <1>6 DEF Next, vars, locals

\* With one client, and ids that differ, the system prompt opens each session's
\* history once, however often the session is left, resumed, deleted or
\* continued after a restart, while the store refuses nothing.
THEOREM OnePrompt ==
    ASSUME NEW user, Clients = {user}, ~SameSecond
    PROVE  Spec => []AtMostOnePrompt
<1>1. Init => PromptInv(user)
  BY DEF Init, PromptInv, PromptedOnce, Unprompted, PromptAt
<1>2. TranscriptInv /\ PromptInv(user) /\ [Next]_vars => PromptInv(user)'
  BY PromptNext
<1>3. PromptInv(user) => AtMostOnePrompt
  <2> SUFFICES ASSUME NEW s \in Sessions, PromptedOnce(s)
               PROVE  CountIn(store[s], "prompt") <= 1
    BY DEF PromptInv, AtMostOnePrompt
  <2> DEFINE places == {i \in DOMAIN store[s] : store[s][i].msg.kind = "prompt"}
  <2>1. \A i, j \in places : i = j
    BY DEF PromptedOnce, PromptAt
  <2> HIDE DEF places
  <2>2. CASE places = {}
    BY <2>2, FS_EmptySet DEF CountIn, places
  <2>3. ASSUME NEW i \in places PROVE Cardinality(places) = 1
    <3>1. places = {i}
      BY <2>1
    <3> QED  BY <3>1, FS_Singleton
  <2> QED  BY <2>2, <2>3 DEF CountIn, places
<1> QED  BY <1>1, <1>2, <1>3, TranscriptInvAlways, PTL DEF Spec

-----------------------------------------------------------------------------
(* Any number of clients: one retry note, one reply per request            *)

Places(t, kind) == {i \in DOMAIN t : t[i].kind = kind}
RowPlaces(rows, kind) == {i \in DOMAIN rows : rows[i].msg.kind = kind}

\* A call that may still record a retry note, or a reply.
Owes(c, kind) ==
    IF kind = "retry"
    THEN \/ pc[c] \in TurnBlocks \cup {"retry"}
         \/ pc[c] \in ToolBlocks /\ mayRetry[c]
    ELSE pc[c] # "idle"
Owing(kind) == {c \in Clients : Owes(c, kind)}

\* Neither the transcript nor any session's rows hold more of a kind than the
\* requests made, less those whose calls may still add one.
Budget(kind) ==
    /\ IsFiniteSet(Owing(kind))
    /\ Cardinality(Places(transcript, kind)) + Cardinality(Owing(kind)) <= requests
    /\ \A s \in Sessions :
          Cardinality(RowPlaces(store[s], kind)) + Cardinality(Owing(kind)) <= requests

\* The retry has been spent once the model is asked again.
RetrySpent == \A c \in Clients : pc[c] = "reclassify" => ~mayRetry[c]

BudgetInv == TypeOK /\ RetrySpent /\ Budget("retry") /\ Budget("assistant")

\* A set that gains at most one element.
LEMMA AtMostOneMore ==
    ASSUME NEW S, IsFiniteSet(S), NEW x, NEW T, T \subseteq S \cup {x}
    PROVE  /\ IsFiniteSet(T) /\ Cardinality(T) \in Nat /\ Cardinality(S) \in Nat
           /\ Cardinality(T) <= Cardinality(S) + 1
           /\ x \notin T => Cardinality(T) <= Cardinality(S)
           /\ x \in S /\ x \notin T => Cardinality(T) <= Cardinality(S) - 1
<1>1. /\ IsFiniteSet(S \cup {x}) /\ IsFiniteSet(S \ {x})
      /\ Cardinality(S \cup {x}) = IF x \in S THEN Cardinality(S) ELSE Cardinality(S) + 1
      /\ Cardinality(S \ {x}) = IF x \in S THEN Cardinality(S) - 1 ELSE Cardinality(S)
  BY FS_AddElement, FS_RemoveElement
<1>2. IsFiniteSet(T) /\ Cardinality(T) <= Cardinality(S \cup {x})
  <2>1. T \in SUBSET (S \cup {x})
    OBVIOUS
  <2> QED  BY <1>1, <2>1, FS_Subset
<1>3. x \notin T => Cardinality(T) <= Cardinality(S \ {x})
  <2>1. x \notin T => T \in SUBSET (S \ {x})
    OBVIOUS
  <2> QED  BY <1>1, <2>1, FS_Subset
<1>4. Cardinality(S) \in Nat /\ Cardinality(T) \in Nat
  BY <1>2, FS_CardinalityType
<1> QED  BY <1>1, <1>2, <1>3, <1>4

\* The places of a kind in a sequence are finitely many.
LEMMA PlacesFinite ==
    ASSUME NEW kind
    PROVE  /\ \A t \in Seq(Message) : /\ IsFiniteSet(Places(t, kind))
                                      /\ Cardinality(Places(t, kind)) \in Nat
           /\ \A rows \in Seq(Row) : /\ IsFiniteSet(RowPlaces(rows, kind))
                                     /\ Cardinality(RowPlaces(rows, kind)) \in Nat
<1>1. ASSUME NEW n \in Nat, NEW S \in SUBSET (1..n)
      PROVE  IsFiniteSet(S) /\ Cardinality(S) \in Nat
  <2>1. IsFiniteSet(1..n)
    BY FS_Interval
  <2>2. IsFiniteSet(S)
    BY <2>1, FS_Subset
  <2> QED  BY <2>2, FS_CardinalityType
<1>2. ASSUME NEW t \in Seq(Message)
      PROVE  IsFiniteSet(Places(t, kind)) /\ Cardinality(Places(t, kind)) \in Nat
  <2>1. Len(t) \in Nat /\ Places(t, kind) \in SUBSET (1..Len(t))
    BY DEF Places
  <2> QED  BY <1>1, <2>1
<1>3. ASSUME NEW rows \in Seq(Row)
      PROVE  IsFiniteSet(RowPlaces(rows, kind)) /\ Cardinality(RowPlaces(rows, kind)) \in Nat
  <2>1. Len(rows) \in Nat /\ RowPlaces(rows, kind) \in SUBSET (1..Len(rows))
    BY DEF RowPlaces
  <2> QED  BY <1>1, <2>1
<1> QED  BY <1>2, <1>3

\* A replay has no more messages of a kind than there are rows of it.
LEMMA ReplayPlaces ==
    ASSUME NEW rows \in Seq(Row), NEW t \in LoadsShort(rows), NEW kind
    PROVE  Cardinality(Places(t, kind)) <= Cardinality(RowPlaces(rows, kind))
<1> DEFINE n == Len(rows)
           f == [k \in Places(t, kind) |-> CHOOSE j \in DOMAIN rows : Rank(rows, j) = k - 1]
<1>1. n \in Nat /\ DOMAIN rows = 1..n /\ \A i \in 1..n : rows[i].hop \in Nat
  <2>1. \A i \in 1..n : rows[i] \in Row
    OBVIOUS
  <2> QED  BY <2>1 DEF Row
<1>2. DOMAIN t \subseteq 1..n /\ \A k \in DOMAIN t : t[k] = LoadSession(rows)[k]
  <2>1. /\ t \in Seq(Message) /\ Len(t) <= n
        /\ \A k \in 1..Len(t) : t[k] = LoadSession(rows)[k]
    <3>1. rows \in Seq([hop : Nat, msg : Message])
      BY DEF Row
    <3> QED  BY <3>1, LoadsShortTyped
  <2>2. DOMAIN t = 1..Len(t) /\ Len(t) \in Nat
    BY <2>1
  <2> QED  BY <1>1, <2>1, <2>2
<1>3. ASSUME NEW k \in Places(t, kind)
      PROVE  f[k] \in RowPlaces(rows, kind) /\ Rank(rows, f[k]) = k - 1 /\ k \in 1..n
  <2>1. k \in 1..n /\ t[k].kind = kind
    BY <1>2 DEF Places
  <2>2. \E j \in 1..n : Rank(rows, j) = k - 1
    BY <1>1, <2>1, RankOnto
  <2>3. f[k] \in 1..n /\ Rank(rows, f[k]) = k - 1
    BY <1>1, <2>2
  <2>4. t[k] = rows[f[k]].msg
    BY <1>2, <2>1 DEF LoadSession, Places
  <2> HIDE DEF f
  <2> QED  BY <1>1, <2>1, <2>3, <2>4 DEF RowPlaces
<1>4. f \in [Places(t, kind) -> RowPlaces(rows, kind)]
  BY <1>3
<1>5. \A k, m \in Places(t, kind) : f[k] = f[m] => k = m
  <2> SUFFICES ASSUME NEW k \in Places(t, kind), NEW m \in Places(t, kind), f[k] = f[m]
               PROVE  k = m
    OBVIOUS
  <2>1. k - 1 = m - 1 /\ k \in 1..n /\ m \in 1..n
    BY <1>3
  <2> QED  BY <1>1, <2>1
<1> HIDE DEF f
<1>6. f \in Injection(Places(t, kind), RowPlaces(rows, kind))
  BY <1>4, <1>5 DEF Injection, IsInjective
<1>7. IsFiniteSet(RowPlaces(rows, kind))
  BY PlacesFinite
<1> QED  BY <1>6, <1>7, FS_Injection

\* A request pays for one more call, and adds no message itself.
LEMMA RequestBudget ==
    ASSUME TypeOK, NEW kind, Budget(kind), NEW c, requests' = requests + 1,
           Owing(kind)' \subseteq Owing(kind) \cup {c},
           \A s \in Sessions : store'[s] \in {store[s], <<>>},
           \/ transcript' \in {transcript, <<>>}
           \/ \E s \in Sessions : transcript' \in LoadsShort(store[s])
    PROVE  Budget(kind)'
<1> DEFINE owed == Cardinality(Owing(kind))
<1>1. /\ IsFiniteSet(Owing(kind)') /\ Cardinality(Owing(kind)') \in Nat /\ owed \in Nat
      /\ Cardinality(Owing(kind)') <= owed + 1
  BY AtMostOneMore DEF Budget
<1>2. requests \in Nat /\ transcript \in Seq(Message) /\ store \in [Sessions -> Seq(Row)]
  BY DEF TypeOK, HostTypeOK
<1>3. Places(<<>>, kind) = {} /\ RowPlaces(<<>>, kind) = {} /\ Cardinality({}) = 0
  BY FS_EmptySet DEF Places, RowPlaces
<1>4. /\ Cardinality(Places(transcript, kind)) \in Nat
      /\ Cardinality(Places(transcript, kind)) + owed <= requests
  BY <1>2, PlacesFinite DEF Budget
<1>5. ASSUME NEW s \in Sessions
      PROVE  /\ Cardinality(RowPlaces(store[s], kind)) \in Nat
             /\ Cardinality(RowPlaces(store[s], kind)) + owed <= requests
  BY <1>2, PlacesFinite DEF Budget
<1> HIDE DEF owed
<1>6. /\ Cardinality(Places(transcript', kind)) \in Nat
      /\ Cardinality(Places(transcript', kind)) + owed <= requests
  <2>1. CASE transcript' = transcript
    BY <1>4, <2>1
  <2>2. CASE transcript' = <<>>
    <3>1. Places(transcript', kind) = {}
      BY <1>3, <2>2
    <3> QED  BY <1>1, <1>2, <1>3, <1>4, <3>1
  <2>3. ASSUME NEW s \in Sessions, transcript' \in LoadsShort(store[s])
        PROVE  /\ Cardinality(Places(transcript', kind)) \in Nat
               /\ Cardinality(Places(transcript', kind)) + owed <= requests
    <3>1. Cardinality(Places(transcript', kind)) <= Cardinality(RowPlaces(store[s], kind))
      BY <1>2, <2>3, ReplayPlaces
    <3>2. Cardinality(Places(transcript', kind)) \in Nat
      BY <1>2, <2>3, LoadsShortTyped, PlacesFinite DEF Row
    <3> QED  BY <1>1, <1>2, <1>5, <3>1, <3>2
  <2> QED  BY <2>1, <2>2, <2>3
<1>7. ASSUME NEW s \in Sessions
      PROVE  /\ Cardinality(RowPlaces(store'[s], kind)) \in Nat
             /\ Cardinality(RowPlaces(store'[s], kind)) + owed <= requests
  <2>1. CASE store'[s] = store[s]
    BY <1>5, <2>1
  <2>2. CASE store'[s] = <<>>
    <3>1. RowPlaces(store'[s], kind) = {}
      BY <1>3, <2>2
    <3> QED  BY <1>1, <1>2, <1>3, <1>4, <3>1
  <2> QED  BY <2>1, <2>2
<1>8. Cardinality(Places(transcript', kind)) + Cardinality(Owing(kind)') <= requests'
  BY <1>1, <1>2, <1>6
<1>9. ASSUME NEW s \in Sessions
      PROVE  Cardinality(RowPlaces(store'[s], kind)) + Cardinality(Owing(kind)') <= requests'
  BY <1>1, <1>2, <1>7
<1> QED  BY <1>1, <1>8, <1>9 DEF Budget

\* A step that records nothing makes no call owe more.
LEMMA QuietBudget ==
    ASSUME NEW kind, Budget(kind), UNCHANGED <<transcript, store, requests>>,
           Owing(kind)' \subseteq Owing(kind), requests \in Nat,
           transcript \in Seq(Message), store \in [Sessions -> Seq(Row)]
    PROVE  Budget(kind)'
<1>1. IsFiniteSet(Owing(kind)') /\ Cardinality(Owing(kind)') <= Cardinality(Owing(kind))
  BY FS_Subset DEF Budget
<1>2. Cardinality(Owing(kind)') \in Nat /\ Cardinality(Owing(kind)) \in Nat
  BY <1>1, FS_CardinalityType DEF Budget
<1>3. /\ Cardinality(Places(transcript, kind)) \in Nat
      /\ \A s \in Sessions : Cardinality(RowPlaces(store[s], kind)) \in Nat
  BY PlacesFinite
<1> QED  BY <1>1, <1>2, <1>3 DEF Budget

\* A message of the kind is recorded by a call that owes it, and then no longer
\* does.
LEMMA RecordBudget ==
    ASSUME TypeOK, NEW kind, Budget(kind), NEW c \in Clients, sid[c] \in Sessions,
           NEW k \in Kinds, Record(c, k), UNCHANGED requests,
           Owing(kind)' \subseteq Owing(kind),
           k = kind => c \in Owing(kind) /\ c \notin Owing(kind)'
    PROVE  Budget(kind)'
<1> DEFINE owed == Cardinality(Owing(kind))
           added == IF k = kind THEN 1 ELSE 0
<1>0. /\ requests \in Nat /\ faults \in Nat /\ transcript \in Seq(Message)
      /\ store \in [Sessions -> Seq(Row)] /\ store' \in [Sessions -> Seq(Row)]
  BY RecordTyped DEF TypeOK, HostTypeOK
<1>1. /\ IsFiniteSet(Owing(kind)') /\ Cardinality(Owing(kind)') \in Nat /\ owed \in Nat
      /\ Cardinality(Owing(kind)') <= owed - added
  <2>1. CASE k = kind
    BY <2>1, AtMostOneMore DEF Budget
  <2>2. CASE k # kind
    BY <2>2, FS_Subset, FS_CardinalityType DEF Budget
  <2> QED  BY <2>1, <2>2
<1>2. /\ Cardinality(Places(transcript', kind)) \in Nat
      /\ Cardinality(Places(transcript', kind)) <= Cardinality(Places(transcript, kind)) + added
      /\ Cardinality(Places(transcript, kind)) \in Nat
  <2> DEFINE msg == [kind |-> k, of |-> sid[c]]
  <2>1. transcript' = Append(transcript, msg) /\ msg \in Message /\ msg.kind = k
    BY DEF Record, RecordAt, Message
  <2> HIDE DEF msg
  <2>2. Places(transcript', kind)
        = Places(transcript, kind) \cup (IF k = kind THEN {Len(transcript) + 1} ELSE {})
    BY <1>0, <2>1 DEF Places
  <2>3. IsFiniteSet(Places(transcript, kind)) /\ Cardinality(Places(transcript, kind)) \in Nat
    BY <1>0, PlacesFinite
  <2>4. CASE k = kind
    BY <2>2, <2>3, <2>4, AtMostOneMore
  <2>5. CASE k # kind
    BY <2>2, <2>3, <2>5
  <2> QED  BY <2>4, <2>5
<1>3. ASSUME NEW s \in Sessions
      PROVE  /\ Cardinality(RowPlaces(store'[s], kind)) \in Nat
             /\ Cardinality(RowPlaces(store'[s], kind))
                <= Cardinality(RowPlaces(store[s], kind)) + added
             /\ Cardinality(RowPlaces(store[s], kind)) \in Nat
  <2>1. IsFiniteSet(RowPlaces(store[s], kind)) /\ Cardinality(RowPlaces(store[s], kind)) \in Nat
    BY <1>0, PlacesFinite
  <2>2. CASE store'[s] = store[s]
    BY <2>1, <2>2
  <2>3. CASE /\ Len(store'[s]) = Len(store[s]) + 1
             /\ store'[s][Len(store'[s])].msg.kind = k
             /\ \A i \in 1..Len(store[s]) : store'[s][i] = store[s][i]
    <3>1. /\ Len(store[s]) \in Nat /\ DOMAIN store[s] = 1..Len(store[s])
          /\ DOMAIN store'[s] = 1..(Len(store[s]) + 1)
      BY <1>0, <2>3
    <3>2. RowPlaces(store'[s], kind)
          = RowPlaces(store[s], kind) \cup (IF k = kind THEN {Len(store[s]) + 1} ELSE {})
      BY <2>3, <3>1 DEF RowPlaces
    <3>3. CASE k = kind
      BY <2>1, <3>2, <3>3, AtMostOneMore
    <3>4. CASE k # kind
      BY <2>1, <3>2, <3>4
    <3> QED  BY <3>3, <3>4
  <2> QED  BY <1>0, <2>2, <2>3, RecordRows
<1>4. /\ Cardinality(Places(transcript, kind)) + owed <= requests
      /\ \A s \in Sessions : Cardinality(RowPlaces(store[s], kind)) + owed <= requests
  BY DEF Budget
<1> HIDE DEF owed
<1>5. added \in {0, 1}
  OBVIOUS
<1> HIDE DEF added
<1>6. Cardinality(Places(transcript', kind)) + Cardinality(Owing(kind)') <= requests'
  BY <1>0, <1>1, <1>2, <1>4, <1>5
<1>7. ASSUME NEW s \in Sessions
      PROVE  Cardinality(RowPlaces(store'[s], kind)) + Cardinality(Owing(kind)') <= requests'
  BY <1>0, <1>1, <1>3, <1>4, <1>5
<1> QED  BY <1>1, <1>6, <1>7 DEF Budget

\* A call that moves on owes no more than before: the retry is spent by its
\* note, the reply by itself.
LEMMA StepOwes ==
    ASSUME TypeOK, RetrySpent, NEW c \in Clients, Step(c),
           NEW kind \in {"retry", "assistant"}
    PROVE  Owing(kind)' \subseteq Owing(kind) /\ RetrySpent'
<1> USE DEF TypeOK, ClientTypeOK
<1>1. PICK b \in Blocks \cup {"idle"} : pc' = [pc EXCEPT ![c] = b]
  BY DEF Step, TurnAbandon, TurnNoteAbandoned, TurnAdmit, TurnSeed, TurnUser,
         Classify, Pause, Execute, RecordResult, RetryNote, Reclassify, Reply,
         Decided, Return, Goto, Blocks, TurnBlocks, ToolBlocks, FinishBlocks
<1>2. \A d \in Clients : d # c => mayRetry'[d] = mayRetry[d] /\ pc'[d] = pc[d]
  <2>1. mayRetry' = mayRetry \/ \E v : mayRetry' = [mayRetry EXCEPT ![c] = v]
    BY DEF Step, TurnAbandon, TurnNoteAbandoned, TurnAdmit, TurnSeed, TurnUser,
           Classify, Pause, Execute, RecordResult, RetryNote, Reclassify, Reply,
           Return, locals
  <2> QED  BY <1>1, <2>1
<1>3. pc[c] # "idle" /\ pc'[c] = b
  BY <1>1
     DEF Step, TurnAbandon, TurnNoteAbandoned, TurnAdmit, TurnSeed, TurnUser,
         Classify, Pause, Execute, RecordResult, RetryNote, Reclassify, Reply
<1>4. Owes(c, "retry")' => Owes(c, "retry")
  <2> USE DEF Owes, TurnBlocks, ToolBlocks
  <2>1. CASE pc[c] \in TurnBlocks
    BY <2>1
  <2>2. CASE Pause(c) \/ Reply(c)
    BY <2>2 DEF Pause, Reply, Return, Goto
  <2>3. CASE Execute(c)
    BY <2>3 DEF Execute, Goto
  <2>4. CASE RecordResult(c)
    BY <2>4 DEF RecordResult, Goto, locals
  <2>5. CASE RetryNote(c)
    BY <2>5 DEF RetryNote, Goto
  <2>6. CASE Reclassify(c)
    <3>1. mayRetry' = mayRetry /\ ~mayRetry[c] /\ b \in {"reply", "execute", "pause", "result"}
      BY <1>3, <2>6 DEF Reclassify, Decided, Goto, RetrySpent
    <3> QED  BY <1>3, <3>1
  <2> QED
    BY <2>1, <2>2, <2>3, <2>4, <2>5, <2>6
       DEF Step, TurnAbandon, TurnNoteAbandoned, TurnAdmit, TurnSeed, TurnUser,
           Classify
<1>5. \A d \in Clients : Owes(d, kind)' => Owes(d, kind)
  BY <1>2, <1>3, <1>4 DEF Owes
<1>6. b = "reclassify" => ~mayRetry'[c]
  BY <1>3
     DEF Step, TurnAbandon, TurnNoteAbandoned, TurnAdmit, TurnSeed, TurnUser,
         Classify, Pause, Execute, RecordResult, RetryNote, Reclassify, Reply,
         Decided, Return, Goto
<1> QED  BY <1>2, <1>3, <1>5, <1>6 DEF Owing, RetrySpent

\* A client's own steps stay within its request.
LEMMA StepBudget ==
    ASSUME BudgetInv, NEW c \in Clients, Step(c), NEW kind \in {"retry", "assistant"}
    PROVE  Budget(kind)'
<1> USE DEF BudgetInv
<1>0. /\ sid[c] \in Sessions /\ requests \in Nat /\ transcript \in Seq(Message)
      /\ store \in [Sessions -> Seq(Row)] /\ pc \in [Clients -> Blocks \cup {"idle"}]
      /\ mayRetry \in [Clients -> BOOLEAN]
  BY DEF TypeOK, HostTypeOK, ClientTypeOK, Step, TurnAbandon, TurnNoteAbandoned,
         TurnAdmit, TurnSeed, TurnUser, Classify, Pause, Execute, RecordResult,
         RetryNote, Reclassify, Reply
<1>1. Owing(kind)' \subseteq Owing(kind)
  BY StepOwes
<1>2. CASE Silent(c)
  BY <1>0, <1>1, <1>2, SilentRows, QuietBudget DEF hostVars
<1>3. CASE TurnNoteAbandoned(c) \/ TurnSeed(c) \/ TurnUser(c)
  <2>1. PICK k \in {"abandoned", "prompt", "user"} : Record(c, k) /\ UNCHANGED requests
    BY <1>3 DEF TurnNoteAbandoned, TurnSeed, TurnUser
  <2>2. k \in Kinds /\ k # kind
    BY DEF Kinds
  <2> QED  BY <1>0, <1>1, <2>1, <2>2, RecordBudget
<1>4. CASE RecordResult(c)
  <2>1. /\ verdict[c] \in Kinds /\ verdict[c] # kind
        /\ Record(c, verdict[c]) /\ UNCHANGED requests
    BY <1>4 DEF RecordResult, TypeOK, ClientTypeOK, Kinds
  <2> QED  BY <1>0, <1>1, <2>1, RecordBudget
<1>5. CASE RetryNote(c)
  <2>1. Record(c, "retry") /\ UNCHANGED requests /\ "retry" \in Kinds
    BY <1>5 DEF RetryNote, Kinds
  <2>2. pc[c] = "retry" /\ pc'[c] = "reclassify"
    BY <1>0, <1>5 DEF RetryNote, Goto
  <2>3. kind = "retry" => c \in Owing(kind) /\ c \notin Owing(kind)'
    BY <2>2 DEF Owing, Owes, TurnBlocks, ToolBlocks
  <2> QED  BY <1>0, <1>1, <2>1, <2>3, RecordBudget
<1>6. CASE Reply(c)
  <2>1. Record(c, "assistant") /\ UNCHANGED requests /\ "assistant" \in Kinds
    BY <1>6 DEF Reply, Kinds
  <2>2. pc[c] = "reply" /\ pc'[c] = "idle"
    BY <1>0, <1>6 DEF Reply, Return, Goto
  <2>3. kind = "assistant" => c \in Owing(kind) /\ c \notin Owing(kind)'
    BY <2>2 DEF Owing, Owes
  <2> QED  BY <1>0, <1>1, <2>1, <2>3, RecordBudget
<1> QED  BY <1>2, <1>3, <1>4, <1>5, <1>6 DEF Step, Silent

\* A turn, a decision, a deletion or a restart is a request.
LEMMA OtherBudget ==
    ASSUME BudgetInv, NEW kind \in {"retry", "assistant"},
           \/ \E c \in Clients : TurnBegin(c)
           \/ \E c \in Clients, s \in Sessions : Answer(c, s)
           \/ \E s \in minted : DeleteSession(s)
           \/ Restart
    PROVE  Budget(kind)' /\ RetrySpent'
<1> USE DEF BudgetInv
<1>0. /\ pc \in [Clients -> Blocks \cup {"idle"}] /\ mayRetry \in [Clients -> BOOLEAN]
      /\ store \in [Sessions -> Seq(Row)]
  BY DEF TypeOK, HostTypeOK, ClientTypeOK
<1>1. ASSUME NEW c \in Clients, TurnBegin(c) PROVE Budget(kind)' /\ RetrySpent'
  <2>1. /\ requests' = requests + 1 /\ UNCHANGED <<store, mayRetry>>
        /\ pc' = pc \/ pc' = [pc EXCEPT ![c] = "abandon"]
    BY <1>1, BeginRows
  <2>2. \/ transcript' \in {transcript, <<>>}
        \/ \E s \in Sessions : transcript' \in LoadsShort(store[s])
    BY <1>1, LoadTyped DEF TurnBegin, SelectSession, StartSession, hostVars, TypeOK
  <2>3. Owing(kind)' \subseteq Owing(kind) \cup {c} /\ RetrySpent'
    BY <1>0, <2>1 DEF Owing, Owes, RetrySpent
  <2> QED  BY <2>1, <2>2, <2>3, RequestBudget
<1>2. ASSUME NEW c \in Clients, NEW s \in Sessions, Answer(c, s)
      PROVE  Budget(kind)' /\ RetrySpent'
  <2>1. /\ requests' = requests + 1 /\ UNCHANGED <<transcript, store>>
        /\ \E v \in BOOLEAN : mayRetry' = [mayRetry EXCEPT ![c] = v]
        /\ pc' = [pc EXCEPT ![c] = "execute"] \/ pc' = [pc EXCEPT ![c] = "result"]
    BY <1>2 DEF Answer, AnswerNamed, AnswerBlind, Decide, DecideWith, Goto, Request,
                hostVars
  <2>2. Owing(kind)' \subseteq Owing(kind) \cup {c} /\ RetrySpent'
    BY <1>0, <2>1 DEF Owing, Owes, RetrySpent
  <2> QED  BY <2>1, <2>2, RequestBudget
<1>3. ASSUME NEW s \in minted, DeleteSession(s) PROVE Budget(kind)' /\ RetrySpent'
  <2>1. /\ requests' = requests + 1 /\ UNCHANGED <<pc, mayRetry>>
        /\ \A r \in Sessions : store'[r] \in {store[r], <<>>}
    BY <1>3, DeleteRows
  <2>2. transcript' \in {transcript, <<>>}
    BY <1>3 DEF DeleteSession, StartSession
  <2>3. Owing(kind)' \subseteq Owing(kind) \cup {s} /\ RetrySpent'
    BY <2>1 DEF Owing, Owes, RetrySpent
  <2> QED  BY <2>1, <2>2, <2>3, RequestBudget
<1>4. CASE Restart
  <2>1. /\ requests' = requests + 1 /\ UNCHANGED store /\ transcript' = <<>>
        /\ \A c \in Clients : pc'[c] = "idle"
    BY <1>4 DEF Restart, StartSession, Request
  <2>2. Owing(kind)' \subseteq Owing(kind) \cup {None} /\ RetrySpent'
    BY <2>1 DEF Owing, Owes, RetrySpent, TurnBlocks, ToolBlocks
  <2> QED  BY <2>1, <2>2, RequestBudget
<1> QED  BY <1>1, <1>2, <1>3, <1>4

\* Every step.
LEMMA BudgetNext == BudgetInv /\ [Next]_vars => BudgetInv'
<1> SUFFICES ASSUME BudgetInv, [Next]_vars PROVE BudgetInv'
  OBVIOUS
<1>1. TypeOK'
  BY TypeNext DEF BudgetInv
<1>2. ASSUME NEW c \in Clients, Step(c) PROVE BudgetInv'
  BY <1>1, <1>2, StepOwes, StepBudget DEF BudgetInv
<1>3. CASE \/ \E c \in Clients : TurnBegin(c)
           \/ \E c \in Clients, s \in Sessions : Answer(c, s)
           \/ \E s \in minted : DeleteSession(s)
           \/ Restart
  BY <1>1, <1>3, OtherBudget DEF BudgetInv
<1>4. CASE UNCHANGED vars
  BY <1>1, <1>4 DEF vars, hostVars, locals, BudgetInv, Budget, RetrySpent, Owing, Owes
<1> QED  BY <1>2, <1>3, <1>4 DEF Next

\* However many clients call at once, and whatever is switched, deleted or
\* restarted, neither retry notes nor replies in the transcript outnumber the
\* requests: a retry is never retried, and every call replies once.
THEOREM OnePerRequestCorrect == Spec => []OnePerRequest
<1>1. Init => BudgetInv
  <2> SUFFICES ASSUME Init PROVE BudgetInv
    OBVIOUS
  <2>1. /\ Owing("retry") = {} /\ Owing("assistant") = {}
        /\ RetrySpent
    BY DEF Init, Owing, Owes, RetrySpent, TurnBlocks, ToolBlocks
  <2>2. \A kind : /\ Places(transcript, kind) = {}
                  /\ \A s \in Sessions : RowPlaces(store[s], kind) = {}
    BY DEF Init, Places, RowPlaces
  <2>3. ASSUME NEW kind, Owing(kind) = {} PROVE Budget(kind)
    <3>1. Cardinality({}) = 0 /\ IsFiniteSet({}) /\ requests = 0
      BY FS_EmptySet DEF Init
    <3>2. /\ Cardinality(Owing(kind)) = 0 /\ IsFiniteSet(Owing(kind))
          /\ Cardinality(Places(transcript, kind)) = 0
          /\ \A s \in Sessions : Cardinality(RowPlaces(store[s], kind)) = 0
      BY <2>2, <2>3, <3>1
    <3> QED  BY <3>1, <3>2 DEF Budget
  <2> QED  BY <2>1, <2>3, TypeInit DEF BudgetInv
<1>2. BudgetInv => OnePerRequest
  <2> SUFFICES ASSUME BudgetInv, NEW kind \in {"retry", "assistant"}
               PROVE  Cardinality(Places(transcript, kind)) <= requests
    BY DEF OnePerRequest, Places
  <2>0. transcript \in Seq(Message) /\ requests \in Nat
    BY DEF BudgetInv, TypeOK, HostTypeOK
  <2>1. Cardinality(Places(transcript, kind)) \in Nat
    BY <2>0, PlacesFinite
  <2>2. Cardinality(Owing(kind)) \in Nat
    BY FS_CardinalityType DEF BudgetInv, Budget
  <2>3. Cardinality(Places(transcript, kind)) + Cardinality(Owing(kind)) <= requests
    BY DEF BudgetInv, Budget
  <2> QED  BY <2>0, <2>1, <2>2, <2>3
<1> QED  BY <1>1, <1>2, BudgetNext, PTL DEF Spec
=============================================================================

-------------------------- MODULE AgentTurnProofs --------------------------
(***************************************************************************)
(* Theorems about AgentTurn for every set of clients, sessions, tools and  *)
(* calls, and every bound on faults and requests: types, and that the host *)
(* implements the approval contract, whatever turns, decisions, deletions  *)
(* and restarts interleave.                                                *)
(***************************************************************************)
EXTENDS AgentTurnProperties, FiniteSetTheorems, TLAPS

-----------------------------------------------------------------------------
(* What load_session returns, for every sequence of rows                   *)

\* A row before another has the smaller rank.
LEMMA RankMonotone ==
    ASSUME NEW rows, NEW n \in Nat, DOMAIN rows = 1..n,
           \A i \in 1..n : rows[i].hop \in Nat,
           NEW i \in 1..n, NEW j \in 1..n, RowBefore(rows, i, j)
    PROVE  Rank(rows, i) < Rank(rows, j)
<1> DEFINE before(k) == {m \in 1..n : RowBefore(rows, m, k)}
<1>1. before(i) \subseteq before(j)
  BY DEF RowBefore
<1>2. i \in before(j) /\ i \notin before(i)
  BY DEF RowBefore
<1>3. IsFiniteSet(1..n)
  BY FS_Interval
<1>4. IsFiniteSet(before(i)) /\ IsFiniteSet(before(j))
  BY <1>3, FS_Subset
<1> HIDE DEF before
<1>5. /\ Cardinality(before(i)) \in Nat /\ Cardinality(before(j)) \in Nat
      /\ Cardinality(before(i)) <= Cardinality(before(j))
      /\ Cardinality(before(i)) # Cardinality(before(j))
  BY <1>1, <1>2, <1>4, FS_Subset, FS_CardinalityType
<1> QED  BY <1>5 DEF Rank, before

\* The ranks of n rows are 0 .. n - 1.
LEMMA RankInRange ==
    ASSUME NEW rows, NEW n \in Nat, DOMAIN rows = 1..n,
           \A i \in 1..n : rows[i].hop \in Nat,
           NEW j \in 1..n
    PROVE  Rank(rows, j) \in 0..(n - 1)
<1> DEFINE before == {m \in 1..n : RowBefore(rows, m, j)}
<1>1. IsFiniteSet(1..n) /\ Cardinality(1..n) = n
  BY FS_Interval
<1>2. before \subseteq 1..n /\ j \notin before
  BY DEF RowBefore
<1> HIDE DEF before
<1>3. /\ Cardinality(before) \in Nat
      /\ Cardinality(before) <= n /\ Cardinality(before) # n
  <2> before \in SUBSET (1..n)
    BY <1>2
  <2>1. IsFiniteSet(before) /\ Cardinality(before) <= Cardinality(1..n)
    BY <1>1, FS_Subset
  <2>2. before # 1..n
    BY <1>2
  <2>3. Cardinality(before) # n
    BY <1>1, <1>2, <2>2, FS_Subset
  <2> QED  BY <2>1, <2>3, <1>1, FS_CardinalityType
<1> QED  BY <1>3 DEF Rank, before

\* Every place of the replay is some row's: ORDER BY loses none.
LEMMA RankOnto ==
    ASSUME NEW rows, NEW n \in Nat, DOMAIN rows = 1..n,
           \A i \in 1..n : rows[i].hop \in Nat,
           NEW k \in 1..n
    PROVE  \E j \in 1..n : Rank(rows, j) = k - 1
<1> DEFINE rank == [j \in 1..n |-> Rank(rows, j)]
<1>1. rank \in [1..n -> 0..(n - 1)]
  BY RankInRange
<1>2. ASSUME NEW i \in 1..n, NEW j \in 1..n, i # j PROVE rank[i] # rank[j]
  <2>1. RowBefore(rows, i, j) \/ RowBefore(rows, j, i)
    BY <1>2 DEF RowBefore
  <2>2. rank[i] < rank[j] \/ rank[j] < rank[i]
    BY <2>1, RankMonotone
  <2>3. rank[i] \in Nat /\ rank[j] \in Nat
    BY <1>1
  <2> QED  BY <2>2, <2>3
<1>3. rank \in Injection(1..n, 0..(n - 1))
  BY <1>1, <1>2 DEF Injection, IsInjective
<1>4. /\ IsFiniteSet(0..(n - 1)) /\ Cardinality(0..(n - 1)) = n
      /\ Cardinality(1..n) = n
  BY FS_Interval
<1>5. rank \in Surjection(1..n, 0..(n - 1))
  BY <1>3, <1>4, FS_Injection
<1>6. k - 1 \in 0..(n - 1)
  OBVIOUS
<1> HIDE DEF rank
<1>7. \E j \in 1..n : rank[j] = k - 1
  BY <1>5, <1>6 DEF Surjection
<1> QED  BY <1>7 DEF rank

\* load_session returns as many messages as there are rows, each of them some
\* row's message.
THEOREM LoadSessionTyped ==
    ASSUME NEW M, NEW rows \in Seq([hop : Nat, msg : M])
    PROVE  LoadSession(rows) \in Seq(M) /\ Len(LoadSession(rows)) = Len(rows)
<1> DEFINE n == Len(rows)
           Entry == [hop : Nat, msg : M]
<1>1. n \in Nat /\ DOMAIN rows = 1..n /\ \A i \in 1..n : rows[i] \in Entry
  <2>1. rows \in Seq(Entry) => /\ Len(rows) \in Nat /\ DOMAIN rows = 1..Len(rows)
                              /\ \A i \in 1..Len(rows) : rows[i] \in Entry
    <3> HIDE DEF Entry
    <3> QED  OBVIOUS
  <2> QED  BY <2>1
<1>2. \A i \in 1..n : rows[i].hop \in Nat /\ rows[i].msg \in M
  BY <1>1
<1>3. ASSUME NEW k \in 1..n PROVE LoadSession(rows)[k] \in M
  <2>1. \E j \in 1..n : Rank(rows, j) = k - 1
    BY <1>1, <1>2, RankOnto
  <2> DEFINE j == CHOOSE j \in DOMAIN rows : Rank(rows, j) = k - 1
  <2>2. j \in 1..n
    BY <1>1, <2>1
  <2>3. LoadSession(rows)[k] = rows[j].msg
    BY DEF LoadSession
  <2> QED  BY <1>2, <2>2, <2>3
<1>4. LoadSession(rows) \in [1..n -> M]
  BY <1>3 DEF LoadSession
<1> QED  BY <1>1, <1>4

\* A SELECT that fails yields the first messages of the replay, and may fail after
\* the last.
LEMMA LoadsShortTyped ==
    ASSUME NEW M, NEW rows \in Seq([hop : Nat, msg : M]), NEW t \in LoadsShort(rows)
    PROVE  /\ t \in Seq(M) /\ Len(t) <= Len(rows)
           /\ \A k \in 1..Len(t) : t[k] = LoadSession(rows)[k]
           /\ Len(t) = Len(rows) => t = LoadSession(rows)
           /\ LoadSession(rows) \in LoadsShort(rows)
<1> DEFINE full == LoadSession(rows)
<1>1. full \in Seq(M) /\ Len(full) = Len(rows) /\ Len(full) \in Nat
  BY LoadSessionTyped
<1>2. PICK n \in 0..Len(rows) : t = SubSeq(full, 1, n)
  BY DEF LoadsShort
<1>3. full = SubSeq(full, 1, Len(rows)) /\ Len(rows) \in 0..Len(rows)
  <2> HIDE DEF full
  <2> QED  BY <1>1
<1>4. full \in LoadsShort(rows)
  BY <1>3 DEF LoadsShort
<1> HIDE DEF full
<1>5. /\ t \in Seq(M) /\ Len(t) = n /\ \A k \in 1..n : t[k] = full[k]
      /\ n = Len(rows) => t = full
  BY <1>1, <1>2
<1>6. Len(t) <= Len(rows)
  BY <1>1, <1>5
<1> QED  BY <1>4, <1>5, <1>6 DEF full

\* Rows numbered 0, 1, 2, ... are replayed in the order they were written, so
\* a transcript reloaded from them is in step with them.
THEOREM ContiguousReplay ==
    ASSUME NEW M, NEW rows \in Seq([hop : Nat, msg : M]), Contiguous(rows)
    PROVE  InStep(rows, LoadSession(rows))
<1> DEFINE n == Len(rows)
           Entry == [hop : Nat, msg : M]
<1>1. n \in Nat /\ DOMAIN rows = 1..n /\ \A i \in 1..n : rows[i] \in Entry
  <2>1. rows \in Seq(Entry) => /\ Len(rows) \in Nat /\ DOMAIN rows = 1..Len(rows)
                              /\ \A i \in 1..Len(rows) : rows[i] \in Entry
    <3> HIDE DEF Entry
    <3> QED  OBVIOUS
  <2> QED  BY <2>1
<1>2. \A i \in 1..n : rows[i].hop = i - 1
  BY DEF Contiguous
<1>3. ASSUME NEW j \in 1..n PROVE Rank(rows, j) = j - 1
  <2>1. {i \in DOMAIN rows : RowBefore(rows, i, j)} = 1..(j - 1)
    BY <1>1, <1>2 DEF RowBefore
  <2>2. Cardinality(1..(j - 1)) = j - 1
    BY FS_Interval
  <2> QED  BY <2>1, <2>2 DEF Rank
<1>4. ASSUME NEW k \in 1..n PROVE LoadSession(rows)[k] = rows[k].msg
  <2>1. (CHOOSE j \in DOMAIN rows : Rank(rows, j) = k - 1) = k
    BY <1>1, <1>3
  <2> QED  BY <2>1 DEF LoadSession
<1>5. ASSUME NEW k \in 1..n
      PROVE  rows[k] = [hop |-> k - 1, msg |-> LoadSession(rows)[k]]
  BY <1>1, <1>2, <1>4
<1>6. Len(LoadSession(rows)) = n
  BY LoadSessionTyped
<1> QED  BY <1>5, <1>6 DEF InStep

-----------------------------------------------------------------------------
(* Lemmas about the operators the actions are built from                   *)

\* An INSERTed row is a row.
LEMMA RowTyped ==
    ASSUME NEW hop \in Nat, NEW msg \in Message
    PROVE  [hop |-> hop, msg |-> msg] \in Row
BY DEF Row

\* record_agent_message keeps transcript and store typed.
LEMMA RecordTyped ==
    ASSUME HostTypeOK, NEW c \in Clients, NEW kind \in Kinds,
           sid[c] \in Sessions, Record(c, kind)
    PROVE  HostTypeOK'
<1> DEFINE msg == [kind |-> kind, of |-> sid[c]]
<1>1. msg \in Message
  BY DEF Message
<1>2. Len(transcript) \in Nat /\ transcript' \in Seq(Message)
  <2>1. transcript' = Append(transcript, msg)
    BY DEF Record, RecordAt
  <2> HIDE DEF msg
  <2> QED  BY <1>1, <2>1 DEF HostTypeOK
<1>3. Write([store EXCEPT ![sid[c]] = AppendRow(@, Len(transcript), msg)])
      /\ UNCHANGED <<current, minted, lastMinted>>
  BY DEF Record, RecordAt
<1>4. AppendRow(store[sid[c]], Len(transcript), msg) \in Seq(Row)
  <2>1. store[sid[c]] \in Seq(Row)
    BY DEF HostTypeOK
  <2>2. [hop |-> Len(transcript), msg |-> msg] \in Row
    BY <1>1, <1>2, RowTyped
  <2> HIDE DEF msg
  <2> QED  BY <2>1, <2>2 DEF AppendRow
<1> HIDE DEF msg
<1>5. store' \in [Sessions -> Seq(Row)] /\ faults' \in 0..MaxFaults
  <2> DEFINE rows == [store EXCEPT ![sid[c]] = AppendRow(@, Len(transcript), msg)]
  <2>1. rows \in [Sessions -> Seq(Row)]
    BY <1>4 DEF HostTypeOK
  <2>2. Write(rows)
    BY <1>3
  <2> HIDE DEF rows
  <2>3. faults \in 0..MaxFaults /\ store \in [Sessions -> Seq(Row)]
    BY DEF HostTypeOK
  <2>4. store' \in [Sessions -> Seq(Row)]
    BY <2>1, <2>2, <2>3 DEF Write
  <2>5. faults' \in 0..MaxFaults
    BY <2>2, <2>3, AgentTurnAssumption DEF Write
  <2> QED  BY <2>4, <2>5
<1> QED  BY <1>2, <1>3, <1>5 DEF HostTypeOK

\* A generated session id starts an empty transcript.
LEMMA StartSessionTyped ==
    ASSUME HostTypeOK, StartSession
    PROVE  /\ transcript' \in Seq(Message)
           /\ current' \in Sessions
           /\ minted' \subseteq Sessions
           /\ lastMinted' \in Sessions
BY DEF HostTypeOK, StartSession, SessionIds

\* A session replayed from the store, as far as it could be read, is a
\* transcript.
LEMMA LoadTyped ==
    ASSUME HostTypeOK, NEW s \in Sessions, Load(store[s])
    PROVE  /\ transcript' \in LoadsShort(store[s]) /\ transcript' \in Seq(Message)
           /\ faults' \in 0..MaxFaults
           /\ faults' = faults \/ faults' = faults + 1
<1>1. store[s] \in Seq([hop : Nat, msg : Message])
  BY DEF HostTypeOK, Row
<1>2. SubSeq(LoadSession(store[s]), 1, 0) \in LoadsShort(store[s])
  <2>1. 0 \in 0..Len(store[s])
    BY <1>1
  <2> QED  BY <2>1 DEF LoadsShort
<1>3. LoadSession(store[s]) \in LoadsShort(store[s])
  BY <1>1, <1>2, LoadsShortTyped
<1>4. transcript' \in LoadsShort(store[s])
  BY <1>3 DEF Load
<1>5. transcript' \in Seq(Message)
  BY <1>1, <1>4, LoadsShortTyped
<1>6. faults' \in 0..MaxFaults /\ (faults' = faults \/ faults' = faults + 1)
  BY AgentTurnAssumption DEF Load, HostTypeOK
<1> QED  BY <1>4, <1>5, <1>6

\* Whichever session agent_turn selects, the host's data stays typed.
LEMMA SelectSessionTyped ==
    ASSUME HostTypeOK, NEW clear \in BOOLEAN, NEW requested \in Sessions \cup {None},
           SelectSession(clear, requested)
    PROVE  HostTypeOK'
<1>1. CASE StartSession /\ UNCHANGED <<store, faults>>
  BY <1>1, StartSessionTyped DEF HostTypeOK
<1>2. CASE /\ requested \notin {None, current}
           /\ Load(store[requested])
           /\ current' = requested
           /\ minted' = minted \cup {requested}
           /\ UNCHANGED <<lastMinted, store>>
  BY <1>2, LoadTyped DEF HostTypeOK
<1>3. CASE UNCHANGED hostVars
  BY <1>3 DEF HostTypeOK, hostVars
<1> QED  BY <1>1, <1>2, <1>3 DEF SelectSession

\* A call that returns leaves its client idle and without call data.
LEMMA ReturnTyped ==
    ASSUME ClientTypeOK, NEW c \in Clients, sid[c] \in Sessions,
           NEW asked \in Calls \cup {None}, Return(c, asked)
    PROVE  ClientTypeOK'
BY AgentTurnAssumption
   DEF ClientTypeOK, Return, Goto, Blocks, TurnBlocks, ToolBlocks, FinishBlocks

\* A decided tool call has the data its next block needs.
LEMMA DecidedTyped ==
    ASSUME ClientTypeOK, NEW c \in Clients, sid[c] \in Sessions, pc[c] # "idle",
           NEW t \in Tools, Decided(c, t),
           call' \in [Clients -> Calls \cup {None}],
           mayRetry' \in [Clients -> BOOLEAN],
           UNCHANGED <<sid, shown>>
    PROVE  ClientTypeOK'
<1> USE AgentTurnAssumption
    DEF ClientTypeOK, Goto, Blocks, TurnBlocks, ToolBlocks, FinishBlocks
<1>1. CASE Goto(c, "execute") /\ UNCHANGED verdict
  BY <1>1 DEF Decided
<1>2. CASE Goto(c, "pause") /\ UNCHANGED verdict
  BY <1>2 DEF Decided
<1>3. CASE Goto(c, "result") /\ verdict' = [verdict EXCEPT ![c] = "failed"]
  BY <1>3 DEF Decided
<1> QED  BY <1>1, <1>2, <1>3 DEF Decided

\* A step that only moves a client on within its call keeps its data.
LEMMA GotoTyped ==
    ASSUME ClientTypeOK, NEW c \in Clients, pc[c] # "idle",
           NEW block \in Blocks \ ToolBlocks, Goto(c, block),
           UNCHANGED <<locals, shown>>
    PROVE  ClientTypeOK'
BY DEF ClientTypeOK, Goto, locals, Blocks, TurnBlocks, ToolBlocks, FinishBlocks

-----------------------------------------------------------------------------
(* Type correctness                                                        *)

\* initialize leaves every variable typed.
LEMMA TypeInit == Init => TypeOK
BY AgentTurnAssumption
   DEF Init, TypeOK, HostTypeOK, SlotTypeOK, ClientTypeOK, Slot, NoPending,
       Blocks, TurnBlocks, ToolBlocks, FinishBlocks

\* agent_turn, up to the classification.
LEMMA TypeTurn ==
    ASSUME TypeOK, NEW c \in Clients,
           \/ TurnBegin(c) \/ TurnAbandon(c) \/ TurnNoteAbandoned(c)
           \/ TurnAdmit(c) \/ TurnSeed(c) \/ TurnUser(c)
    PROVE  TypeOK'
<1> USE DEF TypeOK
<1>0. pc[c] # "idle" => sid[c] \in Sessions
  BY DEF ClientTypeOK
<1>1. CASE TurnBegin(c)
  <2>1. HostTypeOK'
    BY <1>1, SelectSessionTyped DEF TurnBegin
  <2>2. SlotTypeOK'
    BY <1>1 DEF TurnBegin, callVars, SlotTypeOK
  <2>3. ClientTypeOK'
    <3>1. /\ pc[c] = "idle" /\ current' \in Sessions
          /\ UNCHANGED <<tool, call, verdict, mayRetry, shown>>
      BY <1>1, <2>1 DEF TurnBegin, HostTypeOK
    <3>2. CASE Goto(c, "abandon") /\ sid' = [sid EXCEPT ![c] = current']
      BY <3>1, <3>2, AgentTurnAssumption
         DEF ClientTypeOK, Goto, Blocks, TurnBlocks, ToolBlocks, FinishBlocks
    <3>3. CASE UNCHANGED <<pc, sid>>
      BY <3>1, <3>3 DEF ClientTypeOK
    <3> QED  BY <1>1, <3>2, <3>3 DEF TurnBegin
  <2>4. requests' \in 0..MaxRequests
    BY <1>1, AgentTurnAssumption DEF TurnBegin, Request
  <2> QED  BY <2>1, <2>2, <2>3, <2>4
<1>2. CASE TurnAbandon(c)
  <2>1. HostTypeOK' /\ requests' \in 0..MaxRequests
    BY <1>2 DEF TurnAbandon, hostVars, HostTypeOK
  <2>2. SlotTypeOK'
    <3>1. pending' \in {pending, NoPending} /\ UNCHANGED <<issued, effects>>
      BY <1>2 DEF TurnAbandon
    <3>2. NoPending \in Slot /\ ~NoPending.active
      BY DEF Slot, NoPending
    <3> QED  BY <3>1, <3>2 DEF SlotTypeOK
  <2>3. ClientTypeOK'
    <3>1. Goto(c, "note") \/ Goto(c, "admit")
      BY <1>2 DEF TurnAbandon
    <3>2. {"note", "admit"} \subseteq Blocks \ ToolBlocks
      BY DEF Blocks, TurnBlocks, ToolBlocks
    <3> QED  BY <1>2, <3>1, <3>2, GotoTyped DEF TurnAbandon
  <2> QED  BY <2>1, <2>2, <2>3
<1>3. CASE TurnNoteAbandoned(c) \/ TurnSeed(c) \/ TurnUser(c)
  <2>1. PICK kind \in Kinds, block \in {"admit", "user", "classify"} :
          Record(c, kind) /\ Goto(c, block)
    BY <1>3 DEF TurnNoteAbandoned, TurnSeed, TurnUser, Kinds
  <2>2. pc[c] # "idle" /\ UNCHANGED <<callVars, locals, shown, requests>>
    BY <1>3 DEF TurnNoteAbandoned, TurnSeed, TurnUser
  <2>3. HostTypeOK'
    BY <1>0, <2>1, <2>2, RecordTyped
  <2>4. SlotTypeOK'
    BY <2>2 DEF callVars, SlotTypeOK
  <2>5. block \in Blocks \ ToolBlocks
    BY DEF Blocks, TurnBlocks, ToolBlocks
  <2>6. ClientTypeOK'
    BY <2>1, <2>2, <2>5, GotoTyped
  <2> QED  BY <2>2, <2>3, <2>4, <2>6
<1>4. CASE TurnAdmit(c)
  <2>1. HostTypeOK' /\ SlotTypeOK' /\ requests' \in 0..MaxRequests
    BY <1>4 DEF TurnAdmit, hostVars, callVars, HostTypeOK, SlotTypeOK
  <2>2. CASE Goto(c, "seed") \/ Goto(c, "user")
    <3>1. {"seed", "user"} \subseteq Blocks \ ToolBlocks
      BY DEF Blocks, TurnBlocks, ToolBlocks
    <3>2. CASE UNCHANGED <<locals, shown>>
      BY <1>4, <2>1, <2>2, <3>1, <3>2, GotoTyped DEF TurnAdmit
    <3>3. CASE Return(c, None)
      BY <1>0, <1>4, <2>1, <3>3, ReturnTyped DEF TurnAdmit
    <3> QED  BY <1>4, <3>2, <3>3 DEF TurnAdmit
  <2>3. CASE Return(c, None)
    BY <1>0, <1>4, <2>1, <2>3, ReturnTyped DEF TurnAdmit
  <2> QED  BY <1>4, <2>2, <2>3 DEF TurnAdmit
<1> QED  BY <1>1, <1>2, <1>3, <1>4

\* Classification, execution or pause, the retry and the reply.
LEMMA TypeTool ==
    ASSUME TypeOK, NEW c \in Clients,
           \/ Classify(c) \/ Pause(c) \/ Execute(c) \/ RecordResult(c)
           \/ RetryNote(c) \/ Reclassify(c) \/ Reply(c)
    PROVE  TypeOK'
<1> USE DEF TypeOK
<1>0. pc[c] # "idle" /\ sid[c] \in Sessions
  BY DEF ClientTypeOK, Classify, Pause, Execute, RecordResult, RetryNote,
         Reclassify, Reply
<1>1. CASE Classify(c)
  <2>1. HostTypeOK' /\ SlotTypeOK' /\ requests' \in 0..MaxRequests
    BY <1>1 DEF Classify, hostVars, callVars, HostTypeOK, SlotTypeOK
  <2>2. CASE Return(c, None)
    BY <1>0, <2>1, <2>2, ReturnTyped
  <2>3. CASE Goto(c, "reply") /\ UNCHANGED <<locals, shown>>
    <3>1. "reply" \in Blocks \ ToolBlocks
      BY DEF Blocks, FinishBlocks, ToolBlocks
    <3> QED  BY <1>0, <2>1, <2>3, <3>1, GotoTyped
  <2>4. ASSUME NEW t \in Tools, Decided(c, t),
               mayRetry' = [mayRetry EXCEPT ![c] = TRUE],
               UNCHANGED <<sid, call, shown>>
        PROVE  TypeOK'
    <3>1. call' \in [Clients -> Calls \cup {None}]
          /\ mayRetry' \in [Clients -> BOOLEAN]
      BY <2>4 DEF ClientTypeOK
    <3> QED  BY <1>0, <2>1, <2>4, <3>1, DecidedTyped
  <2> QED  BY <1>1, <2>2, <2>3, <2>4 DEF Classify
<1>2. CASE Pause(c)
  <2> DEFINE k == CHOOSE id \in Calls : id \notin issued
  <2>1. k \in Calls
    BY <1>2 DEF Pause, SlotTypeOK
  <2>2. /\ pending' = [active |-> TRUE, session |-> sid[c],
                       tool |-> tool[c], call |-> k]
        /\ issued' = issued \cup {k}
        /\ Return(c, k)
        /\ UNCHANGED <<hostVars, effects, requests>>
    BY <1>2 DEF Pause
  <2> HIDE DEF k
  <2>3. HostTypeOK'
    BY <2>2 DEF hostVars, HostTypeOK
  <2>4. tool[c] \in Tools
    BY <1>2 DEF Pause, ClientTypeOK, ToolBlocks
  <2>5. SlotTypeOK'
    BY <1>0, <2>1, <2>2, <2>4, AgentTurnAssumption DEF SlotTypeOK, Slot
  <2>6. ClientTypeOK'
    BY <1>0, <2>1, <2>2, ReturnTyped
  <2> QED  BY <2>2, <2>3, <2>5, <2>6
<1>3. CASE Execute(c)
  <2>1. HostTypeOK' /\ requests' \in 0..MaxRequests
    BY <1>3 DEF Execute, hostVars, HostTypeOK
  <2>2. SlotTypeOK'
    <3>1. {call[c]} \ {None} \subseteq Calls
      BY DEF ClientTypeOK
    <3> QED  BY <1>3, <3>1 DEF Execute, SlotTypeOK
  <2>3. ClientTypeOK'
    BY <1>3, AgentTurnAssumption
       DEF Execute, ClientTypeOK, Goto, Blocks, TurnBlocks, ToolBlocks,
           FinishBlocks
  <2> QED  BY <2>1, <2>2, <2>3
<1>4. CASE RecordResult(c)
  <2>1. verdict[c] \in Kinds
    BY <1>4 DEF RecordResult, ClientTypeOK, Kinds
  <2>2. HostTypeOK'
    BY <1>0, <1>4, <2>1, RecordTyped DEF RecordResult
  <2>3. SlotTypeOK' /\ requests' \in 0..MaxRequests
    BY <1>4 DEF RecordResult, callVars, SlotTypeOK
  <2>4. PICK block \in {"retry", "reply"} : Goto(c, block)
    BY <1>4 DEF RecordResult
  <2>5. block \in Blocks \ ToolBlocks
    BY DEF Blocks, FinishBlocks, ToolBlocks
  <2>6. ClientTypeOK'
    BY <1>0, <1>4, <2>4, <2>5, GotoTyped DEF RecordResult
  <2> QED  BY <2>2, <2>3, <2>6
<1>5. CASE RetryNote(c)
  <2>1. HostTypeOK'
    BY <1>0, <1>5, RecordTyped DEF RetryNote, Kinds
  <2>2. SlotTypeOK' /\ requests' \in 0..MaxRequests
    BY <1>5 DEF RetryNote, callVars, SlotTypeOK
  <2>3. ClientTypeOK'
    BY <1>5 DEF RetryNote, ClientTypeOK, Goto, Blocks, TurnBlocks, ToolBlocks,
               FinishBlocks
  <2> QED  BY <2>1, <2>2, <2>3
<1>6. CASE Reclassify(c)
  <2>1. HostTypeOK' /\ SlotTypeOK' /\ requests' \in 0..MaxRequests
    BY <1>6 DEF Reclassify, hostVars, callVars, HostTypeOK, SlotTypeOK
  <2>2. UNCHANGED <<sid, mayRetry, shown>>
    BY <1>6 DEF Reclassify
  <2>3. CASE Goto(c, "reply") /\ UNCHANGED <<tool, call, verdict>>
    <3>1. "reply" \in Blocks \ ToolBlocks
      BY DEF Blocks, FinishBlocks, ToolBlocks
    <3> QED  BY <1>0, <2>1, <2>2, <2>3, <3>1, GotoTyped DEF locals
  <2>4. ASSUME NEW t \in Tools, Decided(c, t), call' = [call EXCEPT ![c] = None]
        PROVE  TypeOK'
    <3>1. call' \in [Clients -> Calls \cup {None}]
          /\ mayRetry' \in [Clients -> BOOLEAN]
      BY <2>2, <2>4 DEF ClientTypeOK
    <3> QED  BY <1>0, <2>1, <2>2, <2>4, <3>1, DecidedTyped
  <2> QED  BY <1>6, <2>3, <2>4 DEF Reclassify
<1>7. CASE Reply(c)
  <2>1. HostTypeOK'
    BY <1>0, <1>7, RecordTyped DEF Reply, Kinds
  <2>2. SlotTypeOK' /\ requests' \in 0..MaxRequests
    BY <1>7 DEF Reply, callVars, SlotTypeOK
  <2>3. ClientTypeOK'
    BY <1>0, <1>7, ReturnTyped DEF Reply
  <2> QED  BY <2>1, <2>2, <2>3
<1> QED  BY <1>1, <1>2, <1>3, <1>4, <1>5, <1>6, <1>7

\* agent_tool_decision.
LEMMA TypeDecide ==
    ASSUME TypeOK, NEW c \in Clients, NEW approved \in BOOLEAN,
           NEW requested \in Sessions \cup {None}, Decide(c, approved, requested)
    PROVE  TypeOK'
<1> USE DEF TypeOK
<1>1. DecideWith(c, approved, requested, NoPending, approved)
  BY DEF Decide
<1>2. pending.active /\ pc[c] = "idle" /\ Request
      /\ pending' = NoPending /\ UNCHANGED <<hostVars, issued, effects, shown>>
  BY <1>1 DEF DecideWith, DecisionLands
<1>3. /\ pending.session \in Sessions /\ pending.tool \in Tools
      /\ pending.call \in Calls
  BY <1>2 DEF SlotTypeOK, Slot
<1>4. HostTypeOK' /\ requests' \in 0..MaxRequests
  BY <1>2, AgentTurnAssumption DEF hostVars, HostTypeOK, Request
<1>5. SlotTypeOK'
  BY <1>2 DEF SlotTypeOK, Slot, NoPending
<1>6. ClientTypeOK'
  <2>1. /\ sid' = [sid EXCEPT ![c] = pending.session]
        /\ tool' = [tool EXCEPT ![c] = pending.tool]
        /\ mayRetry' = [mayRetry EXCEPT ![c] = approved]
    BY <1>1 DEF DecideWith
  <2> USE <1>2, <1>3, <2>1, AgentTurnAssumption
      DEF ClientTypeOK, Goto, Blocks, TurnBlocks, ToolBlocks, FinishBlocks
  <2>2. CASE /\ call' = [call EXCEPT ![c] = pending.call]
             /\ Goto(c, "execute")
             /\ UNCHANGED verdict
    BY <2>2
  <2>3. CASE /\ verdict' = [verdict EXCEPT ![c] = "declined"]
             /\ Goto(c, "result")
             /\ UNCHANGED call
    BY <2>3
  <2> QED  BY <1>1, <2>2, <2>3 DEF DecideWith
<1> QED  BY <1>4, <1>5, <1>6

\* A client's answer is a decision.
LEMMA TypeAnswer ==
    ASSUME TypeOK, NEW c \in Clients, NEW s \in Sessions, Answer(c, s)
    PROVE  TypeOK'
BY TypeDecide DEF Answer, AnswerNamed, AnswerBlind

\* delete_agent_session_json.
LEMMA TypeDelete ==
    ASSUME TypeOK, NEW s \in minted, DeleteSession(s)
    PROVE  TypeOK'
<1> USE DEF TypeOK
<1>1. s \in Sessions
  BY DEF HostTypeOK
<1>2. store' \in [Sessions -> Seq(Row)] /\ faults' \in 0..MaxFaults
  <2>1. <<>> \in Seq(Row)
    OBVIOUS
  <2>2. [store EXCEPT ![s] = <<>>] \in [Sessions -> Seq(Row)]
    BY <1>1, <2>1 DEF HostTypeOK
  <2>3. Write([store EXCEPT ![s] = <<>>])
    BY DEF DeleteSession
  <2>4. CASE store' = [store EXCEPT ![s] = <<>>] /\ UNCHANGED faults
    BY <2>2, <2>4 DEF HostTypeOK
  <2>5. CASE faults < MaxFaults /\ faults' = faults + 1 /\ UNCHANGED store
    BY <2>5, AgentTurnAssumption DEF HostTypeOK
  <2> QED  BY <2>3, <2>4, <2>5 DEF Write
<1>3. /\ transcript' \in Seq(Message) /\ current' \in Sessions
      /\ minted' \subseteq Sessions /\ lastMinted' \in Sessions
  BY StartSessionTyped DEF DeleteSession, HostTypeOK
<1>4. HostTypeOK'
  BY <1>2, <1>3 DEF HostTypeOK
<1>5. SlotTypeOK' /\ ClientTypeOK'
  BY DEF DeleteSession, callVars, locals, SlotTypeOK, ClientTypeOK
<1>6. requests' \in 0..MaxRequests
  BY AgentTurnAssumption DEF DeleteSession, Request
<1> QED  BY <1>4, <1>5, <1>6

\* The process ends and starts again.
LEMMA TypeRestart == TypeOK /\ Restart => TypeOK'
<1> SUFFICES ASSUME TypeOK, Restart PROVE TypeOK'
  OBVIOUS
<1> USE DEF TypeOK
<1>1. HostTypeOK'
  BY StartSessionTyped DEF Restart, HostTypeOK
<1>2. SlotTypeOK'
  BY DEF Restart, SlotTypeOK, Slot, NoPending
<1>3. ClientTypeOK'
  BY AgentTurnAssumption
     DEF Restart, ClientTypeOK, Blocks, TurnBlocks, ToolBlocks, FinishBlocks
<1>4. requests' \in 0..MaxRequests
  BY AgentTurnAssumption DEF Restart, Request
<1> QED  BY <1>1, <1>2, <1>3, <1>4

\* Every step of the host keeps TypeOK: one step per group of actions.
LEMMA TypeNext == TypeOK /\ [Next]_vars => TypeOK'
<1> SUFFICES ASSUME TypeOK, [Next]_vars PROVE TypeOK'
  OBVIOUS
<1>1. ASSUME NEW c \in Clients, TurnBegin(c) \/ Step(c) PROVE TypeOK'
  BY <1>1, TypeTurn, TypeTool DEF Step
<1>2. ASSUME NEW c \in Clients, NEW s \in Sessions, Answer(c, s) PROVE TypeOK'
  BY <1>2, TypeAnswer
<1>3. ASSUME NEW s \in minted, DeleteSession(s) PROVE TypeOK'
  BY <1>3, TypeDelete
<1>4. CASE Restart
  BY <1>4, TypeRestart
<1>5. CASE UNCHANGED vars
  BY <1>5 DEF vars, hostVars, callVars, locals, TypeOK, HostTypeOK, SlotTypeOK,
              ClientTypeOK
<1> QED  BY <1>1, <1>2, <1>3, <1>4, <1>5 DEF Next

\* Every variable keeps its type, for any number of clients and sessions.
THEOREM TypeCorrect == Spec => []TypeOK
BY TypeInit, TypeNext, PTL DEF Spec

-----------------------------------------------------------------------------
(* Approval: a side-effecting call runs at most once and only after its    *)
(* own approval                                                            *)

\* c moves to its next block, and that block runs no approved call.
MovesOn(c) ==
    /\ pc[c] # "execute"
    /\ \E b \in Blocks \cup {"idle"}, k \in {call[c], None},
          t \in Tools \cup {None} :
          /\ pc' = [pc EXCEPT ![c] = b]
          /\ call' = [call EXCEPT ![c] = k]
          /\ tool' = [tool EXCEPT ![c] = t]
          /\ b \in TurnBlocks \cup {"pause", "idle", "execute"} => k = None
          /\ b = "execute" => t \notin Gated

ApprovalInv == TypeOK /\ CallsExclusive /\ GatedRunsApproved

\* A client that moves on approves nothing and runs nothing: the invariant's
\* clauses about running calls carry over.
LEMMA MovesOnKeepsApproved ==
    ASSUME ApprovalInv, NEW c \in Clients, MovesOn(c), issued \subseteq issued'
    PROVE  /\ Approved' = Approved
           /\ OneRunner' /\ NoCallBeforeApproval' /\ GatedRunsApproved'
<1> USE DEF ApprovalInv, TypeOK, CallsExclusive
<1>1. PICK b \in Blocks \cup {"idle"}, k \in {call[c], None},
           t \in Tools \cup {None} :
          /\ pc' = [pc EXCEPT ![c] = b]
          /\ call' = [call EXCEPT ![c] = k]
          /\ tool' = [tool EXCEPT ![c] = t]
          /\ b \in TurnBlocks \cup {"pause", "idle", "execute"} => k = None
          /\ b = "execute" => t \notin Gated
  BY DEF MovesOn
<1>2. pc[c] # "execute"
  BY DEF MovesOn
<1>3. \A d \in Clients : d # c => /\ pc'[d] = pc[d] /\ call'[d] = call[d]
                                  /\ tool'[d] = tool[d]
  BY <1>1 DEF ClientTypeOK
<1>4. pc'[c] = b /\ call'[c] = k /\ tool'[c] = t
  BY <1>1 DEF ClientTypeOK
<1>5. Approved' = Approved
  BY <1>1, <1>2, <1>3, <1>4 DEF Approved
<1>6. OneRunner'
  BY <1>1, <1>3, <1>4 DEF OneRunner
<1>7. NoCallBeforeApproval'
  BY <1>1, <1>3, <1>4 DEF NoCallBeforeApproval
<1>8. GatedRunsApproved'
  BY <1>1, <1>3, <1>4 DEF GatedRunsApproved
<1> QED  BY <1>5, <1>6, <1>7, <1>8

\* Returning from a call moves on.
LEMMA ReturnMovesOn ==
    ASSUME ApprovalInv, NEW c \in Clients, pc[c] # "execute",
           NEW asked, Return(c, asked)
    PROVE  MovesOn(c)
<1>1. /\ pc' = [pc EXCEPT ![c] = "idle"]
      /\ call' = [call EXCEPT ![c] = None]
      /\ tool' = [tool EXCEPT ![c] = None]
  BY DEF Return, Goto
<1>2. /\ "idle" \in Blocks \cup {"idle"} /\ None \in {call[c], None}
      /\ None \in Tools \cup {None} /\ "idle" # "execute"
  OBVIOUS
<1> QED  BY <1>1, <1>2 DEF MovesOn

\* Deciding on a tool without an approved call moves on.
LEMMA DecidedMovesOn ==
    ASSUME ApprovalInv, NEW c \in Clients, pc[c] # "execute",
           NEW t \in Tools, Decided(c, t), call' = [call EXCEPT ![c] = None]
    PROVE  MovesOn(c)
<1>1. PICK b \in {"execute", "pause", "result"} :
          Goto(c, b) /\ (b = "execute" => t \notin Gated)
  BY DEF Decided
<1>2. b \in Blocks
  BY DEF Blocks, ToolBlocks
<1> QED  BY <1>1, <1>2 DEF MovesOn, Decided, Goto

\* Moving on within a call, its data unchanged.
LEMMA GotoMovesOn ==
    ASSUME ApprovalInv, NEW c \in Clients, pc[c] # "execute",
           NEW b \in Blocks \ {"execute"}, Goto(c, b), UNCHANGED <<call, tool>>,
           b \in TurnBlocks \cup {"pause"} => call[c] = None
    PROVE  MovesOn(c)
<1>1. call' = [call EXCEPT ![c] = call[c]] /\ tool' = [tool EXCEPT ![c] = tool[c]]
      /\ tool[c] \in Tools \cup {None}
  BY DEF ApprovalInv, TypeOK, ClientTypeOK
<1>2. b \notin {"idle", "execute"}
  BY DEF Blocks, TurnBlocks, ToolBlocks, FinishBlocks
<1> QED  BY <1>1, <1>2 DEF MovesOn, Goto

\* Everything a client does but running a tool and sending a decision.
LEMMA StepMovesOn ==
    ASSUME ApprovalInv, NEW c \in Clients,
           \/ TurnBegin(c) \/ TurnAbandon(c) \/ TurnNoteAbandoned(c)
           \/ TurnAdmit(c) \/ TurnSeed(c) \/ TurnUser(c) \/ Classify(c)
           \/ Pause(c) \/ RecordResult(c) \/ RetryNote(c) \/ Reclassify(c)
           \/ Reply(c)
    PROVE  MovesOn(c)
<1> USE DEF ApprovalInv
<1>0. pc[c] \in TurnBlocks \cup {"pause", "idle"} => call[c] = None
  BY DEF CallsExclusive, NoCallBeforeApproval
<1>1. CASE TurnBegin(c)
  <2>1. pc[c] = "idle" /\ call[c] = None /\ UNCHANGED <<call, tool>>
    BY <1>0, <1>1 DEF TurnBegin
  <2>2. CASE Goto(c, "abandon")
    <3>1. "abandon" \in Blocks \ {"execute"}
      BY DEF Blocks, TurnBlocks
    <3> QED  BY <2>1, <2>2, <3>1, GotoMovesOn
  <2>3. CASE pc' = pc
    <3>1. pc' = [pc EXCEPT ![c] = "idle"]
      BY <2>1, <2>3 DEF TypeOK, ClientTypeOK
    <3>2. call' = [call EXCEPT ![c] = None] /\ tool' = [tool EXCEPT ![c] = tool[c]]
          /\ tool[c] \in Tools \cup {None}
      BY <2>1 DEF TypeOK, ClientTypeOK
    <3> QED  BY <2>1, <3>1, <3>2 DEF MovesOn
  <2> QED  BY <1>1, <2>2, <2>3 DEF TurnBegin
<1>2. CASE TurnAbandon(c) \/ TurnNoteAbandoned(c) \/ TurnSeed(c) \/ TurnUser(c)
  <2>1. PICK b \in {"note", "admit", "user", "classify"} : Goto(c, b)
    BY <1>2 DEF TurnAbandon, TurnNoteAbandoned, TurnSeed, TurnUser
  <2>2. b \in Blocks \ {"execute"}
    BY DEF Blocks, TurnBlocks
  <2>3. pc[c] \in TurnBlocks /\ pc[c] # "execute" /\ UNCHANGED <<call, tool>>
    BY <1>2 DEF TurnAbandon, TurnNoteAbandoned, TurnSeed, TurnUser, TurnBlocks,
                locals
  <2> QED  BY <1>0, <2>1, <2>2, <2>3, GotoMovesOn
<1>3. CASE TurnAdmit(c)
  <2>1. pc[c] \in TurnBlocks /\ pc[c] # "execute"
    BY <1>3 DEF TurnAdmit, TurnBlocks
  <2>2. CASE Return(c, None)
    BY <2>1, <2>2, ReturnMovesOn
  <2>3. CASE (Goto(c, "seed") \/ Goto(c, "user")) /\ UNCHANGED <<locals, shown>>
    <3>1. {"seed", "user"} \subseteq Blocks \ {"execute"}
      BY DEF Blocks, TurnBlocks
    <3>2. UNCHANGED <<call, tool>>
      BY <2>3 DEF locals
    <3> QED  BY <1>0, <2>1, <2>3, <3>1, <3>2, GotoMovesOn
  <2> QED  BY <1>3, <2>2, <2>3 DEF TurnAdmit
<1>4. CASE Classify(c)
  <2>1. pc[c] = "classify" /\ call[c] = None
    BY <1>0, <1>4 DEF Classify, TurnBlocks
  <2>2. CASE Return(c, None)
    BY <2>1, <2>2, ReturnMovesOn
  <2>3. CASE Goto(c, "reply") /\ UNCHANGED <<locals, shown>>
    <3>1. "reply" \in Blocks \ {"execute"}
      BY DEF Blocks, FinishBlocks
    <3>2. UNCHANGED <<call, tool>>
      BY <2>3 DEF locals
    <3> QED  BY <2>1, <2>3, <3>1, <3>2, GotoMovesOn
  <2>4. ASSUME NEW t \in Tools, Decided(c, t), UNCHANGED call PROVE MovesOn(c)
    <3>1. call' = [call EXCEPT ![c] = None]
      BY <2>1, <2>4 DEF TypeOK, ClientTypeOK
    <3> QED  BY <2>1, <2>4, <3>1, DecidedMovesOn
  <2> QED  BY <1>4, <2>2, <2>3, <2>4 DEF Classify
<1>5. CASE Pause(c)
  BY <1>5, ReturnMovesOn DEF Pause
<1>6. CASE RecordResult(c) \/ RetryNote(c)
  <2>1. PICK b \in {"retry", "reply", "reclassify"} : Goto(c, b)
    BY <1>6 DEF RecordResult, RetryNote
  <2>2. b \in Blocks \ {"execute"} /\ b \notin TurnBlocks \cup {"pause"}
    BY DEF Blocks, FinishBlocks, TurnBlocks
  <2>3. pc[c] # "execute" /\ UNCHANGED <<call, tool>>
    BY <1>6 DEF RecordResult, RetryNote, locals
  <2> QED  BY <2>1, <2>2, <2>3, GotoMovesOn
<1>7. CASE Reclassify(c)
  <2>1. pc[c] # "execute"
    BY <1>7 DEF Reclassify
  <2>2. CASE Goto(c, "reply") /\ UNCHANGED <<tool, call, verdict>>
    <3>1. "reply" \in Blocks \ {"execute"} /\ "reply" \notin TurnBlocks \cup {"pause"}
      BY DEF Blocks, FinishBlocks, TurnBlocks
    <3> QED  BY <2>1, <2>2, <3>1, GotoMovesOn
  <2>3. CASE /\ \E t \in Tools : Decided(c, t)
             /\ call' = [call EXCEPT ![c] = None]
    BY <2>1, <2>3, DecidedMovesOn
  <2> QED  BY <1>7, <2>2, <2>3 DEF Reclassify
<1>8. CASE Reply(c)
  BY <1>8, ReturnMovesOn DEF Reply
<1> QED  BY <1>1, <1>2, <1>3, <1>4, <1>5, <1>6, <1>7, <1>8

-----------------------------------------------------------------------------
(* Every step is a step of the contract, or changes nothing it sees.       *)

ContractStep == [Contract!Next]_(Contract!contractVars)

\* A step that leaves the slot and the effects alone stutters in the contract.
LEMMA QuietStep ==
    ASSUME ApprovalInv, UNCHANGED callVars, Approved' = Approved,
           OneRunner', NoCallBeforeApproval'
    PROVE  CallsExclusive' /\ ContractStep
<1>1. Proposed' = Proposed /\ UNCHANGED <<issued, effects>>
  BY DEF callVars, Proposed
<1>2. Contract!OneFate'
  BY <1>1 DEF ApprovalInv, CallsExclusive, Contract!OneFate
<1>3. ContractStep
  BY <1>1 DEF ContractStep, Contract!contractVars
<1> QED  BY <1>2, <1>3 DEF CallsExclusive

\* agent_turn's abandoning of a pending call is the contract's Dismiss.
LEMMA AbandonStep ==
    ASSUME ApprovalInv, NEW c \in Clients, TurnAbandon(c),
           Approved' = Approved, OneRunner', NoCallBeforeApproval'
    PROVE  CallsExclusive' /\ ContractStep
<1>1. CASE pending' = pending
  BY <1>1, QuietStep DEF TurnAbandon, callVars
<1>2. CASE pending.active /\ pending' = NoPending
  <2>1. Proposed # {} /\ Proposed' = {} /\ UNCHANGED <<issued, effects>>
    BY <1>2 DEF Proposed, NoPending, TurnAbandon
  <2>2. Contract!Dismiss
    BY <2>1 DEF Contract!Dismiss
  <2>3. Contract!OneFate'
    BY <2>1 DEF ApprovalInv, CallsExclusive, Contract!OneFate
  <2> QED  BY <2>2, <2>3 DEF ContractStep, Contract!Next, CallsExclusive
<1> QED  BY <1>1, <1>2 DEF TurnAbandon

\* Filling the single slot is the contract's Propose.
LEMMA PauseStep ==
    ASSUME ApprovalInv, NEW c \in Clients, Pause(c),
           Approved' = Approved, OneRunner', NoCallBeforeApproval'
    PROVE  CallsExclusive' /\ ContractStep
<1> DEFINE k == CHOOSE id \in Calls : id \notin issued
<1>1. k \in Calls /\ k \notin issued
  BY DEF Pause, ApprovalInv, TypeOK, SlotTypeOK
<1>2. Proposed' = {k} /\ issued' = issued \cup {k} /\ UNCHANGED effects
  BY DEF Pause, Proposed
<1> HIDE DEF k
<1>3. Contract!Propose(k)
  BY <1>1, <1>2 DEF Contract!Propose
<1>4. Contract!OneFate'
  BY <1>1, <1>2 DEF ApprovalInv, CallsExclusive, Contract!OneFate
<1> QED  BY <1>1, <1>3, <1>4 DEF ContractStep, Contract!Next, CallsExclusive

\* execute_agent_tool is the contract's Run, or a stutter for an ungated tool.
LEMMA ExecuteStep ==
    ASSUME ApprovalInv, NEW c \in Clients, Execute(c)
    PROVE  CallsExclusive' /\ GatedRunsApproved' /\ ContractStep
<1> USE DEF ApprovalInv, TypeOK, CallsExclusive
<1>1. /\ pc[c] = "execute" /\ pc' = [pc EXCEPT ![c] = "result"]
      /\ effects' = effects \cup ({call[c]} \ {None})
      /\ UNCHANGED <<pending, issued, call, tool>>
  BY DEF Execute, Goto
<1>2. pc'[c] = "result" /\ \A d \in Clients : d # c => pc'[d] = pc[d]
  BY <1>1 DEF ClientTypeOK
<1>3. Proposed' = Proposed
  BY <1>1 DEF Proposed
<1>4. Approved' = Approved \ {call[c]}
  BY <1>1, <1>2 DEF Approved, OneRunner
<1>5. OneRunner' /\ GatedRunsApproved'
  BY <1>1, <1>2 DEF OneRunner, GatedRunsApproved
<1>6. NoCallBeforeApproval'
  BY <1>1, <1>2 DEF NoCallBeforeApproval, TurnBlocks
<1>7. CASE call[c] = None
  <2>1. effects' = effects /\ Approved' = Approved
    BY <1>1, <1>4, <1>7 DEF Approved
  <2> QED  BY <1>1, <1>5, <1>6, <2>1, QuietStep DEF callVars
<1>8. CASE call[c] # None
  <2>1. call[c] \in Calls /\ call[c] \in Approved
        /\ effects' = effects \cup {call[c]}
    BY <1>1, <1>8 DEF Approved, ClientTypeOK
  <2>2. Contract!Run(call[c])
    BY <1>1, <1>3, <1>4, <2>1 DEF Contract!Run
  <2>3. Contract!OneFate'
    BY <1>1, <1>3, <1>4, <2>1 DEF Contract!OneFate
  <2> QED  BY <1>5, <1>6, <2>1, <2>2, <2>3 DEF ContractStep, Contract!Next
<1> QED  BY <1>7, <1>8

\* agent_tool_decision is the contract's Approve or Dismiss.
LEMMA DecideStep ==
    ASSUME ApprovalInv, NEW c \in Clients, NEW approved \in BOOLEAN,
           NEW requested, Decide(c, approved, requested)
    PROVE  CallsExclusive' /\ GatedRunsApproved' /\ ContractStep
<1> USE DEF ApprovalInv, TypeOK, CallsExclusive
<1>1. /\ pending.active /\ pc[c] = "idle" /\ call[c] = None
      /\ pending' = NoPending
      /\ tool' = [tool EXCEPT ![c] = pending.tool]
      /\ UNCHANGED <<issued, effects>>
  BY DEF Decide, DecideWith, DecisionLands, NoCallBeforeApproval
<1>2. /\ Proposed = {pending.call} /\ Proposed' = {}
      /\ pending.call \in Calls /\ pending.call # None
      /\ pending.call \in issued /\ pending.call \notin Approved
  BY <1>1 DEF Proposed, NoPending, SlotTypeOK, Slot, Contract!OneFate
<1>3. CASE call' = [call EXCEPT ![c] = pending.call] /\ Goto(c, "execute")
  <2>1. /\ pc'[c] = "execute" /\ call'[c] = pending.call
        /\ \A d \in Clients : d # c =>
              pc'[d] = pc[d] /\ call'[d] = call[d] /\ tool'[d] = tool[d]
    BY <1>1, <1>3 DEF Goto, ClientTypeOK
  <2>2. Approved' = Approved \cup {pending.call}
    BY <1>1, <1>2, <2>1 DEF Approved
  <2>3. Contract!Approve(pending.call)
    BY <1>1, <1>2, <2>2 DEF Contract!Approve
  <2>4. Contract!OneFate'
    BY <1>1, <1>2, <2>2 DEF Contract!OneFate
  <2>5. \A d \in Clients : pc[d] = "execute" => call[d] # pending.call
    BY <1>2 DEF Approved
  <2>6. OneRunner'
    BY <2>1, <2>5 DEF OneRunner
  <2>7. NoCallBeforeApproval'
    BY <2>1 DEF NoCallBeforeApproval, TurnBlocks
  <2>8. GatedRunsApproved'
    BY <1>1, <1>2, <2>1 DEF GatedRunsApproved
  <2> QED  BY <1>2, <2>3, <2>4, <2>6, <2>7, <2>8 DEF ContractStep, Contract!Next
<1>4. CASE UNCHANGED call /\ Goto(c, "result")
  <2>1. /\ pc'[c] = "result"
        /\ \A d \in Clients : d # c => pc'[d] = pc[d] /\ tool'[d] = tool[d]
    BY <1>1, <1>4 DEF Goto, ClientTypeOK
  <2>2. Approved' = Approved
    BY <1>1, <1>4, <2>1 DEF Approved
  <2>3. Contract!Dismiss
    BY <1>1, <1>2, <2>2 DEF Contract!Dismiss
  <2>4. Contract!OneFate'
    BY <1>1, <1>2, <2>2 DEF Contract!OneFate
  <2>5. OneRunner'
    BY <1>4, <2>1 DEF OneRunner
  <2>6. NoCallBeforeApproval'
    BY <1>4, <2>1 DEF NoCallBeforeApproval, TurnBlocks
  <2>7. GatedRunsApproved'
    BY <1>1, <1>4, <2>1 DEF GatedRunsApproved
  <2> QED  BY <2>3, <2>4, <2>5, <2>6, <2>7 DEF ContractStep, Contract!Next
<1> QED  BY <1>3, <1>4 DEF Decide, DecideWith

\* The end of the process is the contract's Lose.
LEMMA RestartStep ==
    ASSUME ApprovalInv, Restart
    PROVE  CallsExclusive' /\ GatedRunsApproved' /\ ContractStep
<1>1. \A c \in Clients : pc'[c] = "idle" /\ call'[c] = None
  BY DEF Restart
<1>2. Proposed' = {} /\ Approved' = {} /\ UNCHANGED <<issued, effects>>
  BY <1>1 DEF Restart, Proposed, NoPending, Approved
<1>3. Contract!Lose
  BY <1>2 DEF Contract!Lose
<1>4. Contract!OneFate'
  BY <1>2 DEF ApprovalInv, CallsExclusive, Contract!OneFate
<1>5. OneRunner' /\ NoCallBeforeApproval' /\ GatedRunsApproved'
  BY <1>1 DEF OneRunner, NoCallBeforeApproval, GatedRunsApproved
<1> QED  BY <1>3, <1>4, <1>5 DEF ContractStep, Contract!Next, CallsExclusive

\* The initial state satisfies the invariant and the contract's Init.
LEMMA ApprovalInit == Init => ApprovalInv /\ Contract!Init
<1> SUFFICES ASSUME Init PROVE ApprovalInv /\ Contract!Init
  OBVIOUS
<1>1. Proposed = {} /\ Approved = {} /\ issued = {} /\ effects = {}
  BY DEF Init, Proposed, NoPending, Approved
<1>2. Contract!Init /\ Contract!OneFate
  BY <1>1 DEF Contract!Init, Contract!OneFate
<1>3. OneRunner /\ NoCallBeforeApproval /\ GatedRunsApproved
  BY DEF Init, OneRunner, NoCallBeforeApproval, GatedRunsApproved
<1> QED  BY <1>2, <1>3, TypeInit DEF ApprovalInv, CallsExclusive

\* Every step keeps the invariant and is a step of the contract.
LEMMA ApprovalNext == ApprovalInv /\ [Next]_vars => ApprovalInv' /\ ContractStep
<1> SUFFICES ASSUME ApprovalInv, [Next]_vars PROVE ApprovalInv' /\ ContractStep
  OBVIOUS
<1>1. TypeOK'
  BY TypeNext DEF ApprovalInv
<1> SUFFICES CallsExclusive' /\ GatedRunsApproved' /\ ContractStep
  BY <1>1 DEF ApprovalInv
<1>2. ASSUME NEW c \in Clients, TurnBegin(c) \/ Step(c)
      PROVE  CallsExclusive' /\ GatedRunsApproved' /\ ContractStep
  <2>1. CASE Execute(c)
    BY <2>1, ExecuteStep
  <2>2. CASE \/ TurnBegin(c) \/ TurnAbandon(c) \/ TurnNoteAbandoned(c)
             \/ TurnAdmit(c) \/ TurnSeed(c) \/ TurnUser(c) \/ Classify(c)
             \/ Pause(c) \/ RecordResult(c) \/ RetryNote(c) \/ Reclassify(c)
             \/ Reply(c)
    <3>1. issued \subseteq issued'
      BY <2>2 DEF TurnBegin, TurnAbandon, TurnNoteAbandoned, TurnAdmit, TurnSeed,
                  TurnUser, Classify, Pause, RecordResult, RetryNote, Reclassify,
                  Reply, callVars
    <3>2. /\ Approved' = Approved /\ OneRunner' /\ NoCallBeforeApproval'
          /\ GatedRunsApproved'
      BY <2>2, <3>1, StepMovesOn, MovesOnKeepsApproved
    <3>3. CASE TurnAbandon(c)
      BY <3>2, <3>3, AbandonStep
    <3>4. CASE Pause(c)
      BY <3>2, <3>4, PauseStep
    <3>5. CASE UNCHANGED callVars
      BY <3>2, <3>5, QuietStep
    <3> QED
      BY <2>2, <3>3, <3>4, <3>5
         DEF TurnBegin, TurnNoteAbandoned, TurnAdmit, TurnSeed, TurnUser,
             Classify, RecordResult, RetryNote, Reclassify, Reply
  <2> QED  BY <1>2, <2>1, <2>2 DEF Step
<1>3. ASSUME NEW c \in Clients, NEW s \in Sessions, Answer(c, s)
      PROVE  CallsExclusive' /\ GatedRunsApproved' /\ ContractStep
  BY <1>3, DecideStep DEF Answer, AnswerNamed, AnswerBlind
<1>4. CASE UNCHANGED <<callVars, pc, locals>>
  <2>1. UNCHANGED <<pc, tool, call, issued>>
    BY <1>4 DEF callVars, locals
  <2>2. Approved' = Approved
    BY <2>1 DEF Approved
  <2>3. OneRunner' /\ NoCallBeforeApproval' /\ GatedRunsApproved'
    BY <2>1 DEF ApprovalInv, CallsExclusive, OneRunner, NoCallBeforeApproval,
                GatedRunsApproved
  <2> QED  BY <1>4, <2>2, <2>3, QuietStep
<1>5. CASE Restart
  BY <1>5, RestartStep
<1> QED  BY <1>2, <1>3, <1>4, <1>5 DEF Next, DeleteSession, vars

\* The invariant holds throughout.
LEMMA ApprovalAlways == Spec => []ApprovalInv
BY ApprovalInit, ApprovalNext, PTL DEF Spec

\* A call waits, is run by one client, or has run: never two of these; and no
\* gated tool runs without the identity of an approved call.
THEOREM GateCorrect == Spec => []GateHolds
<1>1. ApprovalInv => GateHolds
  BY DEF ApprovalInv, GateHolds
<1> QED  BY <1>1, ApprovalAlways, PTL

\* The host implements the approval contract.
THEOREM ContractCorrect == Spec => ContractHolds
<1>1. Spec => [][Contract!Next]_(Contract!contractVars)
  BY ApprovalAlways, ApprovalNext, PTL DEF Spec, ContractStep
<1>2. Spec => Contract!Init
  BY ApprovalInit DEF Spec
<1> QED  BY <1>1, <1>2 DEF ContractHolds, Contract!Spec

-----------------------------------------------------------------------------
(* One client                                                              *)

\* The client's screen asks about the call in the slot, and the client is in
\* no call of that session but a new message about to abandon it.
SlotShown(c) ==
    pending.active =>
        /\ shown[c][pending.session] = pending.call
        /\ sid[c] = pending.session => pc[c] = "abandon"

\* A block of a call past its abandon block leaves the slot alone or takes it;
\* the client's screen follows.
LEMMA StepShows ==
    ASSUME TypeOK, NEW c \in Clients, SlotShown(c), Step(c)
    PROVE  SlotShown(c)'
<1> USE DEF TypeOK, SlotShown
<1>1. CASE TurnAbandon(c)
  BY <1>1 DEF TurnAbandon, NoPending, locals
<1>2. CASE Pause(c)
  <2>1. /\ sid[c] \in Sessions
        /\ shown \in [Clients -> [Sessions -> Calls \cup {None}]]
        /\ sid \in [Clients -> Sessions \cup {None}]
    BY <1>2 DEF Pause, ClientTypeOK
  <2>2. \E k : /\ pending'.call = k /\ pending'.session = sid[c]
               /\ shown' = [shown EXCEPT ![c][sid[c]] = k]
               /\ sid' = [sid EXCEPT ![c] = None]
    BY <1>2 DEF Pause, Return
  <2> QED  BY <2>1, <2>2, AgentTurnAssumption
<1>3. ASSUME NEW asked, Return(c, asked), UNCHANGED pending, pc[c] \notin {"idle", "abandon"}
      PROVE  SlotShown(c)'
  <2>1. /\ shown' = [shown EXCEPT ![c][sid[c]] = asked]
        /\ sid' = [sid EXCEPT ![c] = None]
    BY <1>3 DEF Return
  <2>2. /\ shown \in [Clients -> [Sessions -> Calls \cup {None}]]
        /\ sid \in [Clients -> Sessions \cup {None}]
        /\ pending.active => pending.session # None
    BY DEF ClientTypeOK, SlotTypeOK
  <2> QED  BY <1>3, <2>1, <2>2
<1>4. ASSUME UNCHANGED <<pending, sid, shown>>, pc[c] \notin {"idle", "abandon"}
      PROVE  SlotShown(c)'
  BY <1>4
<1>5. CASE \/ TurnNoteAbandoned(c) \/ TurnAdmit(c) \/ TurnSeed(c) \/ TurnUser(c)
           \/ Classify(c) \/ Execute(c) \/ RecordResult(c) \/ RetryNote(c)
           \/ Reclassify(c) \/ Reply(c)
  <2>1. pc[c] \notin {"idle", "abandon"} /\ UNCHANGED pending
    BY <1>5
       DEF TurnNoteAbandoned, TurnAdmit, TurnSeed, TurnUser, Classify, Execute,
           RecordResult, RetryNote, Reclassify, Reply, callVars
  <2>2. UNCHANGED <<sid, shown>> \/ \E asked : Return(c, asked)
    BY <1>5
       DEF TurnNoteAbandoned, TurnAdmit, TurnSeed, TurnUser, Classify, Execute,
           RecordResult, RetryNote, Reclassify, Reply, locals
  <2> QED  BY <1>3, <1>4, <2>1, <2>2
<1> QED  BY <1>1, <1>2, <1>5 DEF Step

\* Every step of a host with one client.
LEMMA SlotShownNext ==
    ASSUME TypeOK, NEW c, Clients = {c}, SlotShown(c), [Next]_vars
    PROVE  SlotShown(c)'
<1> USE DEF TypeOK, SlotShown
<1>1. CASE UNCHANGED <<pending, pc, sid, shown>>
  BY <1>1
<1>2. CASE TurnBegin(c)
  BY <1>2 DEF TurnBegin, callVars, Goto, ClientTypeOK, SlotTypeOK
<1>3. CASE Step(c)
  BY <1>3, StepShows
<1>4. CASE pending' = NoPending
  BY <1>4 DEF NoPending
<1> QED
  BY <1>1, <1>2, <1>3, <1>4
     DEF Next, vars, callVars, locals, Answer, AnswerNamed, AnswerBlind, Decide,
         DecideWith, DeleteSession, Restart

\* With one client (as host.hpp assumes), an approval that names its session
\* runs the call the screen asked about, whatever was displaced, deleted or
\* restarted since.
THEOREM ApprovesShown ==
    ASSUME NEW user, Clients = {user}
    PROVE  Spec => ApprovesWhatWasShown
<1> DEFINE Lands == \A c \in Clients, s \in Sessions :
                        AnswerNamed(c, s, TRUE) => call'[c] = shown[c][s]
<1>1. TypeOK /\ SlotShown(user) => Lands
  <2> SUFFICES ASSUME TypeOK, SlotShown(user), NEW s \in Sessions,
                      AnswerNamed(user, s, TRUE)
               PROVE  call'[user] = shown[user][s]
    OBVIOUS
  <2>1. pending.active /\ s = pending.session
    BY AgentTurnAssumption DEF AnswerNamed, Decide, DecideWith, DecisionLands
  <2>2. call' = [call EXCEPT ![user] = pending.call] /\ user \in DOMAIN call
    BY DEF AnswerNamed, Decide, DecideWith, TypeOK, ClientTypeOK
  <2> QED  BY <2>1, <2>2 DEF SlotShown
<1>2. TypeOK /\ SlotShown(user) /\ [Next]_vars => [Lands]_vars
  BY <1>1
<1>3. Init => SlotShown(user)
  BY DEF Init, NoPending, SlotShown
<1>4. TypeOK /\ SlotShown(user) /\ [Next]_vars => SlotShown(user)'
  BY SlotShownNext
<1> QED  BY <1>2, <1>3, <1>4, TypeCorrect, PTL DEF Spec, ApprovesWhatWasShown
=============================================================================

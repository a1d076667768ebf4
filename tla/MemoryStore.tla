---------------------------- MODULE MemoryStore ----------------------------
(***************************************************************************)
(* The transcript rows droidcli-memory keeps for one session               *)
(* (src/cli/memory_store.cpp).  A session's rows are a sequence in         *)
(* insertion (rowid) order; a row carries the hop_index its writer chose.  *)
(* Nothing in the schema makes (session_id, hop_index) unique.             *)
(***************************************************************************)
EXTENDS Integers, Sequences, FiniteSets

\* MemoryStore::append: INSERT, whatever rows already carry that hop_index.
AppendRow(rows, hop, msg) == Append(rows, [hop |-> hop, msg |-> msg])

\* ORDER BY hop_index ASC, walked through the (session_id, hop_index) index:
\* equal hop_index values come back in rowid order.
RowBefore(rows, i, j) ==
    \/ rows[i].hop < rows[j].hop
    \/ rows[i].hop = rows[j].hop /\ i < j

Rank(rows, j) == Cardinality({i \in DOMAIN rows : RowBefore(rows, i, j)})

\* MemoryStore::load_session: the messages of the session, replay order.
LoadSession(rows) ==
    [k \in 1..Len(rows) |->
        rows[CHOOSE j \in DOMAIN rows : Rank(rows, j) = k - 1].msg]

\* load_session when preparing, binding or a step of the SELECT fails: the
\* messages read before that, and nobody is told.
LoadsShort(rows) == {SubSeq(LoadSession(rows), 1, n) : n \in 0..Len(rows)}

\* The rows are exactly the transcript, in its order, with hop_index equal to
\* the message's position: what record_agent_message's contract promises.
InStep(rows, transcript) ==
    /\ Len(rows) = Len(transcript)
    /\ \A i \in 1..Len(rows) :
          rows[i] = [hop |-> i - 1, msg |-> transcript[i]]

\* The rows number 0, 1, 2, ... in the order they were written.
Contiguous(rows) == \A i \in 1..Len(rows) : rows[i].hop = i - 1
=============================================================================

---------------------------- MODULE MCAgentTurn ----------------------------
(***************************************************************************)
(* Instances of AgentTurn for TLC.  Three tools stand for the tool table:  *)
(* run (gated, retriable, prechecked: run_command, open_application),      *)
(* stop (gated only: stop_connector, cancel_task) and read (neither gated  *)
(* nor prechecked, retriable: read_file).                                  *)
(***************************************************************************)
EXTENDS AgentTurnProperties, TLC

OneTool == {"run"}
MCTools == {"run", "stop", "read"}
MCGated == {"run", "stop"}
MCRetriable == {"run", "read"}
MCPrechecked == {"run"}
MCCalls == 1..MaxRequests

\* Session ids are interchangeable: nothing orders or computes with them.
SessionSymmetry == Permutations(Sessions)
ClientSymmetry == Permutations(Sessions) \cup Permutations(Clients)
=============================================================================

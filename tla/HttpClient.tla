------------------------------ MODULE HttpClient ------------------------------
(***************************************************************************)
(* sync_http_request (src/tools/sync_http_client.cpp), by which the host   *)
(* reaches Ollama and HTTP connectors.  It sets no timeout: connect, send  *)
(* and recv block for as long as the peer is silent.                       *)
(***************************************************************************)

CONSTANT Peers \* the behaviours of a peer that are considered

ASSUME HttpAssumption == Peers \subseteq {"answers", "truncates", "refuses", "silent"}

VARIABLE peer \* what the peer does to a request that reaches it now

\* "truncates": the body ends early, which is accepted; "refuses": there is no
\* connection, or an answer that is not HTTP or not a success.
CallReturns == peer # "silent"
TransportOk == peer \in {"answers", "truncates"}
BodyIsWhole == peer = "answers"

PeerChanges == peer' \in Peers \ {peer}
=============================================================================

----------------------------- MODULE MCHostLife -----------------------------
(***************************************************************************)
(* An HTTP peer that --config registers with capabilities and a request    *)
(* may register without, and a launched process whose command may hold a   *)
(* stray closing brace.                                                    *)
(***************************************************************************)
EXTENDS HostLife

CONSTANTS web, cam

Connector(id, kind, capable, braces, whole) ==
    [id |-> id, kind |-> kind, capable |-> capable, braces |-> braces, whole |-> whole]

MCConnectors ==
    {Connector(web, "http_peer", FALSE, "matched", TRUE),
     Connector(web, "http_peer", TRUE, "matched", TRUE),
     Connector(web, "http_peer", FALSE, "matched", FALSE),
     Connector(cam, "launched_process", FALSE, "matched", TRUE),
     Connector(cam, "launched_process", FALSE, "matched", FALSE),
     Connector(cam, "launched_process", FALSE, "closing", TRUE),
     Connector(cam, "launched_process", FALSE, "closing", FALSE)}

MCConfig == <<Connector(web, "http_peer", TRUE, "matched", TRUE)>>
=============================================================================

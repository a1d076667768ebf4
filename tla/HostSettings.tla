---------------------------- MODULE HostSettings ----------------------------
(***************************************************************************)
(* What a host is told, keeps and forgets: its settings over starts,       *)
(* runtime changes, crashes and a second invocation (Settings), and the    *)
(* chat of its HTTP server, which every start begins anew                  *)
(* (LanguageRuntime).                                                      *)
(***************************************************************************)
EXTENDS LanguageRuntime, Settings

VARIABLE stage \* "down", "starting": settings are resolved and saved, "up"

vars == <<chatVars, peer, settingsVars, stage>>

Start ==
    /\ stage = "down"
    /\ \E flags \in Flags, generated \in Tokens : LoadAndResolve("main", flags, generated)
    /\ stage' = "starting"
    /\ UNCHANGED <<chatVars, peer>>

\* main goes on to the server once the settings are saved, or were not.
Serve ==
    /\ stage = "starting" /\ draft["main"] = Blank
    /\ stage' = "up"
    /\ ConfigureLanguageAi
    /\ UNCHANGED <<peer, settingsVars>>

\* update_config and update_ollama_config.
Change ==
    /\ stage = "up"
    /\ \E model \in Models : PersistCurrent(model)
    /\ UNCHANGED <<chatVars, peer, stage>>

Save ==
    /\ Truncate("main") \/ WriteOut("main")
    /\ UNCHANGED <<chatVars, peer, stage>>

\* The program returns, which it does between two changes, or is killed.
Stop ==
    /\ stage # "down"
    /\ stage' = "down"
    /\ Ends("main")
    /\ UNCHANGED <<chatVars, peer>>

SecondInvocation ==
    /\ Second
    /\ UNCHANGED <<chatVars, peer, stage>>

Init ==
    /\ turns = <<>> /\ awaiting = FALSE /\ asking = FALSE /\ soured = FALSE
    /\ peer \in Peers
    /\ file = Gone /\ draft = [p \in Savers |-> Blank] /\ opened = {}
    /\ told = Blank /\ excused = FALSE
    /\ stage = "down"

Next ==
    \/ Start \/ Serve \/ Change \/ Save \/ Stop \/ SecondInvocation
    \/ stage = "up" /\ Chat /\ UNCHANGED <<peer, settingsVars, stage>>
    \/ PeerChanges /\ UNCHANGED <<chatVars, settingsVars, stage>>

Spec == Init /\ [][Next]_vars
=============================================================================

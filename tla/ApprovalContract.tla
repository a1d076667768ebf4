-------------------------- MODULE ApprovalContract --------------------------
(***************************************************************************)
(* What the approval gate promises about side-effecting tool calls,        *)
(* whatever turns, decisions, deletions and restarts surround them: a call *)
(* runs only after it was shown for a decision and approved, and runs at   *)
(* most once; a call that was declined, abandoned, displaced or lost never *)
(* runs.  At most one call awaits a decision at any time.                  *)
(***************************************************************************)
CONSTANT Calls

VARIABLES issued,    \* calls ever shown for a decision
          proposed,  \* the call awaiting one, as a set
          approved,  \* calls approved and not yet run
          executed   \* calls whose side effect happened

contractVars == <<issued, proposed, approved, executed>>

Init ==
    /\ issued = {}
    /\ proposed = {}
    /\ approved = {}
    /\ executed = {}

\* A new call takes the slot; whichever call held it will never run.
Propose(k) ==
    /\ k \notin issued
    /\ issued' = issued \cup {k}
    /\ proposed' = {k}
    /\ UNCHANGED <<approved, executed>>

Approve(k) ==
    /\ proposed = {k}
    /\ proposed' = {}
    /\ approved' = approved \cup {k}
    /\ UNCHANGED <<issued, executed>>

\* Declined, or abandoned for a newer message.
Dismiss ==
    /\ proposed # {}
    /\ proposed' = {}
    /\ UNCHANGED <<issued, approved, executed>>

Run(k) ==
    /\ k \in approved
    /\ approved' = approved \ {k}
    /\ executed' = executed \cup {k}
    /\ UNCHANGED <<issued, proposed>>

\* The process died: nothing in flight survives.
Lose ==
    /\ proposed' = {}
    /\ approved' = {}
    /\ UNCHANGED <<issued, executed>>

Next ==
    \/ \E k \in Calls : Propose(k) \/ Approve(k) \/ Run(k)
    \/ Dismiss
    \/ Lose

Spec == Init /\ [][Next]_contractVars

\* The three fates are exclusive, so a call that has run cannot run again.
OneFate ==
    /\ proposed \cup approved \cup executed \subseteq issued
    /\ proposed \cap (approved \cup executed) = {}
    /\ approved \cap executed = {}
=============================================================================

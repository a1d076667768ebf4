\* The TUI worker and the HTTP loop at once, and session ids made within one
\* second.
SPECIFICATION Spec
CONSTANTS
    Clients = {tui, http}
    Sessions = {s1, s2}
    Tools <- OneTool
    Gated <- OneTool
    Retriable <- OneTool
    Prechecked <- OneTool
    Calls <- MCCalls
    None = None
    HasSystemPrompt = FALSE
    MaxFaults = 0
    SameSecond = TRUE
    MaxRequests = 3
SYMMETRY ClientSymmetry
INVARIANTS GateHolds OnePerRequest
PROPERTIES DriftHasFourCauses ContractHolds
CHECK_DEADLOCK FALSE

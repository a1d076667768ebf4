\* Two clients in one session, each naming the session it decides for.
SPECIFICATION Spec
CONSTANTS
    Clients = {tui, http}
    Sessions = {s1, s2}
    Tools <- OneTool
    Gated <- OneTool
    Retriable <- OneTool
    Prechecked <- OneTool
    Calls <- MCCalls
    None = None
    HasSystemPrompt = FALSE
    MaxFaults = 0
    SameSecond = FALSE
    MaxRequests = 3
SYMMETRY ClientSymmetry
PROPERTY ApprovesWhatWasShown
CHECK_DEADLOCK FALSE

\* One request at a time, as host.hpp assumes; a statement of the store may fail.
SPECIFICATION FairSpec
CONSTANTS
    Clients = {tui}
    Sessions = {s1, s2}
    Tools <- MCTools
    Gated <- MCGated
    Retriable <- MCRetriable
    Prechecked <- MCPrechecked
    Calls <- MCCalls
    None = None
    HasSystemPrompt = TRUE
    MaxFaults = 1
    SameSecond = FALSE
    MaxRequests = 3
INVARIANTS TypeOK PendingBelongsToOpenTurn AtMostOnePrompt DeclineNotRetried
PROPERTIES DriftHasFourCauses ApprovesWhatWasShown CallsReturn
CHECK_DEADLOCK FALSE

\* The TUI's worker thread and the server loop share the queue.
SPECIFICATION FairSpec
CONSTANTS
    Commands <- OnlyRun
    Delays = {0, 1}
    Recurrences = {0, 1}
    MaxHistory = 2
    MaxTasks = 4
    MaxRuns = 2
    Interleaved = TRUE
    MayThrow = TRUE
INVARIANTS TypeOK OneShotRunsOnce HistoryBound RunningIsHeld
PROPERTIES CancelHolds LiveKept PendingServed

\* A cancel that arrives while the task runs.
SPECIFICATION Spec
CONSTANTS
    Commands <- OnlyRun
    Delays = {0}
    Recurrences = {1}
    MaxHistory = 2
    MaxTasks = 2
    MaxRuns = 2
    Interleaved = TRUE
    MayThrow = FALSE
PROPERTY CancelStopsTask

SPECIFICATION FairSpec
CONSTANTS
    Peers = {"answers", "refuses", "silent"}
    EnableAi = TRUE
    Attempts = 1
    Nobody = Nobody
INVARIANTS TypeOK
PROPERTIES MutexComesFree ServiceReturns QuitCompletes WatchdogNotices

SPECIFICATION FairSpec
CONSTANTS
    web = web
    cam = cam
    Ollama = Ollama
    None = None
    Pids = {p1, p2}
    Clients = {c1, c2}
    Connectors <- MCConnectors
    Config <- MCConfig
INVARIANTS TypeOK SignalsOnlyItsOwn RunningShellCanBeStopped CleanExitStopsAll
PROPERTIES PlainConnectorsReturn ExitedShellReaped

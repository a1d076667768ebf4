\* One user, three session ids, the worker and the popup.
SPECIFICATION FairSpec
CONSTANTS
    Sessions = {s1, s2, s3}
    History = {s1}
    None = None
INVARIANTS TypeOK OneCall ScreenAsksAboutTheSlot
PROPERTIES RestartResumes PanelStraysOnlyAway TurnDrains
CHECK_DEADLOCK FALSE

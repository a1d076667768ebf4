SPECIFICATION Spec
CONSTANTS
    Peers = {"answers", "truncates", "refuses", "silent"}
    MaxTurns = 3
    Tokens = {t1, t2}
    Models = {m1, m2}
    DefaultModel = m1
    Blank = Blank
    Gone = Gone
INVARIANTS SettingsSurvive ChatRefusedOnlyAfterFailure

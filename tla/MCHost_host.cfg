SPECIFICATION MCSpec
CONSTANTS
    Daemons = {d1, d2, d3}
    Clients = {panel, shell}
    Nobody = Nobody
    d1 = d1
    d2 = d2
    d3 = d3
    panel = panel
    shell = shell
    Rules = {r1, r2, r3}
    Clears = {c1, c2}
    NoRule = NoRule
    Sets = {s1, s2}
    Adds = {add}
    Removes = {remove}
    NoWriter = NoWriter
    MaxCrashes = 1
INVARIANTS
    ServingIsReachable
    SubtitlesAreSafe
    CalmIsAnswered
    LedgerIsOurs
    NeverTruncated
    SettingsSurvive
PROPERTY
    UserRulesStay
CHECK_DEADLOCK FALSE

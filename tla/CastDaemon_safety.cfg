SPECIFICATION Spec
CONSTANTS
    Protocols = {"dlna", "cast"}
    Commands = {"resume", "boost"}
    Watchers = {w1, w2}
    NoWatcher = NoWatcher
    MaxId = 2
    MaxQueue = 1
    UnreachableLimit = 1
    Prompt = FALSE
SYMMETRY Symmetry
INVARIANTS
    TypeOK
    IdleHasNoId
    ServerIsRegistered
    NoOrphanWatcher
    AtRest
    NoPollDuringSwap
    AutoStopEndsItsSession
    ExitIsClean
PROPERTIES
    RefinesLifecycle

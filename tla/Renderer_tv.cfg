SPECIFICATION FairSpec
CONSTANTS
    MaxSessions = 3
    MaxRequests = 3
INVARIANT
    RestIsQuiet
PROPERTIES
    StoppedIsNoticed
    StateSettles
CHECK_DEADLOCK FALSE

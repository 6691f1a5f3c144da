SPECIFICATION FairSpec
CONSTANTS
    Protocols = {"dlna", "airplay"}
    Commands = {"pause", "seek", "subtitle", "boost"}
    Watchers = {w1, w2}
    NoWatcher = NoWatcher
    MaxId = 1
    MaxQueue = 1
    UnreachableLimit = 2
    Prompt = TRUE
PROPERTIES
    EndedIsTornDown
    SilentReceiverEndsSession
    MutexIsReleased
    ShutdownExits

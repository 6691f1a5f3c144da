SPECIFICATION FairSpec
CONSTANTS
    Protocols = {"cast"}
    Commands = {"boost"}
    Watchers = {w1, w2, w3}
    NoWatcher = NoWatcher
    MaxId = 1
    MaxQueue = 1
    UnreachableLimit = 1
    Prompt = TRUE
PROPERTY
    StrayThreadEnds

SPECIFICATION FairSpec
CONSTANTS
    Commands = {"pause", "resume", "reload", "adjust"}
    MaxCommands = 1
    MaxWire = 2
    MaxCalls = 1
    FrameCap = 2
    ErrorLimit = 1
    Reported = {"Playing"}
    LoadReplies = {"whole", "noRequest", "noEntry"}
    Endings = {"Finished", "Interrupted"}
    Noise = {"other", "odd"}
PROPERTIES
    RefinesWatcher
    ToldThreadEnds
    EndsAreNoticed

SPECIFICATION FairSpec
CONSTANTS
    Commands = {"reload"}
    MaxCommands = 1
    MaxWire = 3
    MaxCalls = 1
    FrameCap = 2
    ErrorLimit = 1
    Reported = {"Playing"}
    LoadReplies = {"whole"}
    Endings = {}
    Noise = {}
PROPERTY
    FailedReloadEnds

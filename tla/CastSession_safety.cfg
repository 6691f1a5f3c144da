SPECIFICATION Spec
CONSTANTS
    Commands = {"reload"}
    MaxCommands = 2
    MaxWire = 3
    MaxCalls = 2
    FrameCap = 2
    ErrorLimit = 1
    Reported = {"Playing"}
    LoadReplies = {"whole", "noRequest", "noEntry"}
    Endings = {"Finished", "Error", "Interrupted"}
    Noise = {}
INVARIANTS
    TheEndIsUnderway
    NewLoadSurvives

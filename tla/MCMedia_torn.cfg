SPECIFICATION MCSpec
CONSTANTS
    Streams = {s1}
    MaxLive = 2
    MaxServers = 2
    Requests = {r1, r2}
    None = None
    Attempts = 2
INVARIANT
    ServedIsWhole

SPECIFICATION MCSpec
CONSTANTS
    Streams = {s1, s2, s3}
    MaxLive = 2
    MaxServers = 2
    Requests = {r1, r2}
    None = None
    Attempts = 2
INVARIANTS
    CapHolds
    OneConversionOfAServer
PROPERTIES
    NewestIsKept
    StreamsEnd
    WholeUnlessCrossed
    RequestsAreAnswered

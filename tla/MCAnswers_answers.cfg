SPECIFICATION MCSpec
CONSTANTS
    Sizes = {0, 1, 2, 5, 7}
    Numbers = {0, 1, 2, 4, 5, 6, 7, 8}
    MaxU64 = 7
    Missing = Missing
    MaxBlocks = 3
    MaxTime = 2
    Bodies = {0, 2}
    Ips = {tv, box, far}
    LanIps = {tv, box}
    MaxEvents = 4
    MaxMdns = 3
    KnownIps = {tv, box}
    Renderers = {tv}
    Clients = {panel}
    MaxScans = 4
    tv = tv
    box = box
    far = far
    panel = panel
INVARIANTS
    AnswersTypeOK
    RepliesAreExact
    TracksAreExact
    MergeIsExact
    SteadyIsFound

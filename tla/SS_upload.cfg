SPECIFICATION FairSpec
CONSTANTS
    s1 = s1
    s2 = s2
    u1 = u1
    u2 = u2
    p1 = p1
    None = None
    SEs = {s1, s2}
    Uploads = {u1, u2}
    Leaders = {p1}
    Fleets <- MCFleets
    Wants <- MCWants
    Priority <- MCPriority
    MaxSize <- MCMaxSize
    FullBelow = 2
    Answers507 = {s1, s2}
    MaxRetries = 2
    MaxFaults = 1
    MaxMoves = 1
INVARIANTS StoredOnce RefusalIsHonest
PROPERTIES KeepsPlacement UploadEnds CacheSettles

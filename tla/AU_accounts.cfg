SPECIFICATION FairSpec
CONSTANTS
    root = root
    other = other
    service = service
    Admins = {root, other}
    Services = {service}
    System = {root}
    Requests = {1, 2}
    Threshold = 2
    MaxAttempts = 3
    Mistaken = {root}
    None = None
INVARIANTS NobodyIsShutOut
PROPERTIES DeletedStays ManagementReturns TokensEnd

SPECIFICATION FairSpec
CONSTANTS
    admin = admin
    query = query
    element = element
    Empty = Empty
    Torn = Torn
    None = None
    Admin = admin
    Watchers = {query}
    Elements = {element}
    MaxRotations = 1
    MaxFaults = 1
INVARIANTS TypeOK HandledIsCurrent
PROPERTIES ManagersFollow CallsResume

SPECIFICATION FairSpec
CONSTANTS
    Files = {f1, f2}
    Changes = {o1, o2, o3}
    Consumers = {c1}
    BatchSize = 2
    MaxLen = 2
    Faults = {"publish", "handle", "ack", "crash", "slow"}
    MaxFaults = 2
    Overlap = TRUE
    None = None
CHECK_DEADLOCK FALSE
INVARIANTS
    NothingIsDropped
    QuietCacheIsLastEntry
PROPERTIES
    KeepsReplica
    EntryIsApplied

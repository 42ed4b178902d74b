SPECIFICATION FairSpec
CONSTANTS
    Files = {f1}
    EditSEs = {e1}
    RwSEs = {w1, w2}
    Txs = {t1, t2}
    Statuses = {"ONLINE", "OFFLINE", "UNKNOWN"}
    MaxRetry = 1
    BatchSize = 1
    MaxFaults = 1
    Anonymous = TRUE
    None = None
INVARIANTS
    TypeOK
    BytesBackRecord
    CollectedLeavesEdit
PROPERTIES
    KeepsStore
    FinalizeEnds

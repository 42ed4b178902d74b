SPECIFICATION FairSpec
CONSTANTS
    Files = {f1, f2}
    EditSEs = {e1}
    RwSEs = {w1}
    Txs = {t1}
    Statuses = {"ONLINE"}
    MaxRetry = 2
    BatchSize = 1
    MaxFaults = 0
    Anonymous = FALSE
    None = None
PROPERTY ExpiredIsCollected

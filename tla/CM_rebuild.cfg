SPECIFICATION Spec
CONSTANTS
    Files = {f1, f2}
    Ops = {p1, p2}
    Kinds = {"full", "incremental", "check", "lazy", "cleanup"}
    BatchSize = 2
    MaxChanges = 1
    MaxFaults = 1
    MaxOverruns = 1
    None = None
SYMMETRY Symmetry
CHECK_DEADLOCK FALSE
INVARIANTS
    TypeOK
    StraysOverran
    GhostIsRaced
PROPERTY RebuildIsExact

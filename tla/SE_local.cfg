SPECIFICATION Spec
CONSTANTS
    Files = {f1}
    Requests = {r1, r2, r3}
    Seconds <- MCSeconds
    SecondOf <- MCDistinct
    Backend = "local"
    Mode = "edit"
    Ops = {"create", "update", "delete", "gc", "get"}
    Patches <- MCPatches
    None = None
SYMMETRY Symmetry
CHECK_DEADLOCK FALSE
INVARIANTS
    WriteAhead
    CommittedIsDurable
    DanglingRowIsLogged
    OrphanIsLogged
PROPERTY ServesFiles

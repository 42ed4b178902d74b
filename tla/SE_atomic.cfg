SPECIFICATION Spec
CONSTANTS
    Files = {f1}
    Requests = {r1, r2, r3}
    Seconds <- MCSeconds
    SecondOf <- MCDistinct
    Backend = "s3"
    Mode = "edit"
    Ops = {"create", "update"}
    Patches <- MCPatches
    None = None
SYMMETRY Symmetry
CHECK_DEADLOCK FALSE
INVARIANT CommittedIsAtomic

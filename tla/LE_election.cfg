SPECIFICATION FairSpec
CONSTANTS
    Instances = {i1, i2, i3}
    None = None
    Gone = Gone
    MaxLapses = 2
    MaxFaults = 3
INVARIANTS
    TypeOK
    StraysLapsed
PROPERTIES
    KeepsPromise
    SettlesOnOne

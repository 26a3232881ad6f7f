SPECIFICATION Spec
CONSTANTS
    Procs = {p1}
    Nobody = Nobody
    Modes = {"sync"}
    Faults = {"interrupt"}
    Branches = {a, b}
    MaxBlocks = 3
    MaxAhead = 1
INVARIANTS NextSyncContinues

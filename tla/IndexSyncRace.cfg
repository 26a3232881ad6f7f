SPECIFICATION SpecIndexed
CONSTANTS
    Procs = {p1, p2}
    Nobody = Nobody
    Modes = {"sync"}
    Faults = {}
    Branches = {a, b}
    MaxBlocks = 3
    MaxAhead = 1
INVARIANTS EachHeightOnce

SPECIFICATION Spec
CONSTANTS
    Procs = {p1}
    Nobody = Nobody
    Modes = {"sync"}
    Faults = {"reorg"}
    Branches = {a, b}
    MaxBlocks = 3
    MaxAhead = 1
INVARIANTS SingleChain

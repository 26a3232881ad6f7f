SPECIFICATION Spec
CONSTANTS
    p1 = p1
    p2 = p2
    a = a
    b = b
    Procs = {p1, p2}
    Nobody = Nobody
    Modes = {"sync", "force", "query"}
    Faults = {"rpc", "interrupt", "crash", "power"}
    Branches = {a, b}
    MaxBlocks = 3
    MaxAhead = 1
SYMMETRY Symmetric
INVARIANTS TypeOK SingleChain NoHeightMissing
PROPERTIES CompleteIsSynced OnlyForceDiscards

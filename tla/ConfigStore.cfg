SPECIFICATION Spec
CONSTANTS
    p1 = p1
    p2 = p2
    v = v
    w = w
    Procs = {p1, p2}
    Keys = {host}
    Values = {v, w}
    Absent = Absent
    Nothing = Nothing
    NoFile = NoFile
    Invalid = Invalid
SYMMETRY Symmetric
INVARIANTS TypeOK
PROPERTIES ImplementsRegister FailureChangesNothing UnknownKept

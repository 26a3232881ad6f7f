SPECIFICATION Spec
CONSTANTS
    A = A
    B = B
    t1 = t1
    t2 = t2
    t3 = t3
    t4 = t4
    Addresses = {A, B}
    NoAddress = NoAddress
    Deleted = Deleted
    Txids = {t1, t2, t3, t4}
    OutputLists <- MCOutputLists
    MaxInputs = 2
SYMMETRY Symmetric
INVARIANTS TypeOK BalanceIsUnspent OutpointsAreUnspent

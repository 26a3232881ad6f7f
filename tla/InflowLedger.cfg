SPECIFICATION InflowSpec
CONSTANTS
    A = A
    B = B
    Addresses = {A, B}
    NoAddress = NoAddress
    OutputLists <- MCOutputLists
    Times = {1, 2, 3}
    MaxBlocks = 3
    MaxTxs = 2
INVARIANTS InflowTypeOK RowsSumUpHistory

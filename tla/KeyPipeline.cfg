CONSTANTS
    Nothing   = Nothing
    Secrets   = {s1, s2}
    Vanity    = {s1}
    Lines    <- MCLines
    MaxStages = 3
    Prefix    = 3
    Block     = 2
    Capacity  = 2
SPECIFICATION Spec
INVARIANTS TypeOK NothingLost KeysAgree Sweepable
PROPERTIES ProducerDrives Drains
CHECK_DEADLOCK FALSE

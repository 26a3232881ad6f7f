SPECIFICATION Spec
CONSTANTS
    Nothing = Nothing
    Hosts <- MCHosts
    MaxAddresses = 3
    Messages <- MCMessages
    Chunks = {20, 1024}
CHECK_DEADLOCK FALSE
INVARIANTS TypeOK ReportedIsComplete
PROPERTIES HandshakeEnds

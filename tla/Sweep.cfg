SPECIFICATION Spec
CONSTANTS
    Nothing = Nothing
    MaxAddresses = 1
    Ledgers <- MCLedgers
    Arrival <- MCArrival
    Inputs <- MCInputs
    Silent <- MCSilent
    Rates <- MCRates
    Feerates <- MCFeerates
    To = "p2wpkh"
    SigSizes = {72}
    FirstTip = 100
    MaxTip = 101
    MaxRuns = 2
    MaxUint = 100000
    MaxVsize = 200
CHECK_DEADLOCK FALSE
INVARIANTS TypeOK SentIsValid PaysWhatItSays ReportedIsAccepted
PROPERTIES StopEndsSweep

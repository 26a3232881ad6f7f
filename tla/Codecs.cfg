SPECIFICATION Spec
CONSTANTS
    Checksum <- MCChecksum
    Hash160 <- MCHash160
    Order <- MCOrder
    Samples <- MCSamples
    Cuts <- MCCuts
    Places <- MCPlaces
    Instead <- MCInstead
CHECK_DEADLOCK FALSE
INVARIANTS RoundTrip DamageShows OneEncoding

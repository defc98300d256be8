SPECIFICATION BookSpec
CONSTANTS
    Cards = {"x", "y"}
    Procs = {"daemon", "cli", "pairing"}
    Adders = {"cli", "pairing"}
    Revokers = {"cli", "pairing"}
    MaxCrashes = 1
INVARIANTS
    RevokedNeverTrusted
CHECK_DEADLOCK FALSE

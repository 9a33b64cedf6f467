SPECIFICATION Spec
SYMMETRY Interchangeable
CONSTANTS
    Opp = {o1, o2}
    Night = Night
    Human = Human
    None = None
    MaxActions = 1
    PinsPerDay = 1
    MaxIds = 6
    MaxRuns = 2
    MaxCrashes = 1
INVARIANTS CompletedIsLive PublicIsBacked
PROPERTIES PageKeepsLink
CHECK_DEADLOCK FALSE

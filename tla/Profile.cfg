SPECIFICATION FairSpec
CONSTANTS
    Puts = {p1, p2}
    Relays = {r1, r2}
    None = None
    MaxTime = 1
    MaxLives = 2
    MaxImports = 1
INVARIANTS
    TypeOK
    SavedWasReported
PROPERTIES
    MonotoneProfile
    ConfigInPublishOrder
    EveryRequestEnds
CHECK_DEADLOCK FALSE

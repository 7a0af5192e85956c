SPECIFICATION Spec
CONSTANTS
    Puts = {p1, p2}
    Relays = {r1, r2}
    None = None
    MaxTime = 1
    MaxLives = 1
    MaxImports = 1
PROPERTY ImportWaitsForAll
CHECK_DEADLOCK FALSE

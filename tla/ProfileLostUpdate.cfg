SPECIFICATION Spec
CONSTANTS
    Puts = {p1, p2}
    Relays = {r1}
    None = None
    MaxTime = 1
    MaxLives = 1
    MaxImports = 0
PROPERTY NoLostUpdate
CHECK_DEADLOCK FALSE

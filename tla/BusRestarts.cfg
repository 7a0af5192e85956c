SPECIFICATION Spec
CONSTANTS
    w1 = w1
    w2 = w2
    w3 = w3
    m1 = m1
    Relays = {r1}
    Wraps = {w1, w2, w3}
    Rumors = {m1}
    RumorOf <- SameRumor
    Junk = {w3}
    LOOKBACK = 1
    BACKDATE = 1
    AHEAD = 0
    SKEW = 0
    RETENTION = 0
    FOREVER = 9
    None = None
    MaxTime = 2
    MaxGenerations = 1
    MaxLives = 2
INVARIANTS
    TypeOK
    CheckpointInv
    OneHandlerPerRumor
PROPERTIES
    NoRepeatedDispatch
CONSTRAINT JunkIsOld
CHECK_DEADLOCK FALSE
SYMMETRY Interchangeable

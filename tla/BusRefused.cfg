SPECIFICATION Spec
CONSTANTS
    w1 = w1
    w2 = w2
    w3 = w3
    m1 = m1
    Relays = {r1}
    Wraps = {w1}
    Rumors = {m1}
    RumorOf <- SameRumor
    Junk = {}
    LOOKBACK = 1
    BACKDATE = 1
    AHEAD = 0
    SKEW = 0
    RETENTION = 1
    FOREVER = 9
    None = None
    MaxTime = 2
    MaxGenerations = 1
    MaxLives = 1
INVARIANT NoSkippedMessage
CHECK_DEADLOCK FALSE

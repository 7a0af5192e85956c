SPECIFICATION Spec
CONSTANTS
    a = a
    b = b
    c = c
    d = d
    Ids = {a, b, c, d}
    Nil = Nil
    MaxEntries = 3
    TTL = 1
    SeedLists <- Restarts
    MaxTime = 3
INVARIANTS
    TypeOK
    WellLinked
PROPERTIES
    ImplementsInterface

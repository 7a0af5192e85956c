SPECIFICATION FairSpec
CONSTANTS
    f1 = f1
    f2 = f2
    f3 = f3
    f4 = f4
    a = a
    b = b
    c = c
    Files = {f1, f2, f3, f4}
    Accounts = {a, b, c}
    AccountOf <- Names
    Readable = {f1, f2, f3}
    Native = Native
    None = None
    MAX_ENTRIES = 2
    MaxFaults = 3
INVARIANTS
    TypeOK
    NoStateLost
PROPERTIES
    EntriesAreKept
    MigrationEnds
CHECK_DEADLOCK FALSE

SPECIFICATION FairSpec
CONSTANTS
    r1 = r1
    r2 = r2
    s1 = s1
    s2 = s2
    Sends = {s1, s2}
    Relays = {r1, r2}
    Lists <- TwoLists
    InboxRelays <- Moved
    THRESHOLD = 2
    MaxFailures = 3
INVARIANTS
    TypeOK
    HonestOutcome
    BreakerEarned
PROPERTIES
    ClosedPublishesNothing
    Drains
    BreakersRecover
CHECK_DEADLOCK FALSE

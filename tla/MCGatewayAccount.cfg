SPECIFICATION Spec
CONSTANTS
    alice = alice
    bob = bob
    m1 = m1
    m2 = m2
    Senders = {alice, bob}
    Messages = {m1, m2}
    WithTotp = {1}
    Inbox <- Delivered
    Sent <- Letters
    Text = Text
    WrongCode = WrongCode
    STEP = 1
    SESSION = 2
    LOCKOUT = 2
    MAX_FAILURES = 2
    MaxTime = 3
    MaxLives = 2
INVARIANTS
    TypeOK
    RegistryIsLive
    LatestIsReachable
    NoCodeTwice
PROPERTIES
    DispatchInSession
    GuessesAreBounded
    AbandonedIsQuiet
CHECK_DEADLOCK FALSE

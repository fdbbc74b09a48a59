SPECIFICATION FairSpec
CONSTANTS
    Main = main
    Workers = {}
    Children = {}
    Addr = {a1, a2}
    WILDCARD = WILDCARD
    NoAddr = NoAddr
    NoClient = NoClient
    MaxDepth = 2
    SockCap = 3
INVARIANTS
    LockstepAcrossSocket
    OnlyBadReturnsRefused
PROPERTIES
    RefinesGuard
    CorruptReturnEndsAll
    EveryReturnAnswered
CHECK_DEADLOCK FALSE

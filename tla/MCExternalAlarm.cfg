SPECIFICATION HonestSpec
CONSTANTS
    Main = main
    Workers = {worker}
    Children = {}
    Addr = {a1, a2}
    WILDCARD = WILDCARD
    NoAddr = NoAddr
    NoClient = NoClient
    MaxDepth = 1
    SockCap = 2
INVARIANT OnlyBadReturnsRefused
CHECK_DEADLOCK FALSE

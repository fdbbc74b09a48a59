SPECIFICATION HonestSpec
CONSTANTS
    Main = main
    Workers = {}
    Children = {}
    Daemons = {}
    Addr = {a1, a2}
    WILDCARD = WILDCARD
    NoAddr = NoAddr
    MaxDepth = 2
INVARIANT OnlyCorruptReturnsReported
CHECK_DEADLOCK FALSE

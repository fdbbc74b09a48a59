SPECIFICATION Spec
CONSTANTS
    Main = main
    Workers = {}
    Children = {child}
    Addr = {a1, a2}
    WILDCARD = WILDCARD
    NoAddr = NoAddr
    NoClient = NoClient
    MaxDepth = 1
    SockCap = 2
PROPERTY NoCorruptReturnExecuted
CHECK_DEADLOCK FALSE

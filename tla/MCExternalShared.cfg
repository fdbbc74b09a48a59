SPECIFICATION Spec
CONSTANTS
    Main = main
    Workers = {other}
    Children = {other}
    Addr = {a1}
    WILDCARD = WILDCARD
    NoAddr = NoAddr
    NoClient = NoClient
    MaxDepth = 1
    SockCap = 2
INVARIANTS
    TypeOK
    NoWaiterForgotten
    EndIsTold
CHECK_DEADLOCK FALSE

SPECIFICATION JumpSpec
CONSTANTS
    Main = main
    Workers = {}
    Children = {child}
    Daemons = {}
    Addr = {a1, a2}
    WILDCARD = WILDCARD
    NoAddr = NoAddr
    MaxDepth = 2
INVARIANTS
    Lockstep
    OnlyBadReturnsReported
    OpenCallsKept
    HonestReportNeedsJump
PROPERTIES
    RefinesGuard
    WrongReturnNeedsJump
CHECK_DEADLOCK FALSE

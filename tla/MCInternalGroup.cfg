SPECIFICATION FairSpec
CONSTANTS
    Main = main
    Workers = {worker}
    Children = {child}
    Daemons = {child}
    Addr = {a1}
    WILDCARD = WILDCARD
    NoAddr = NoAddr
    MaxDepth = 1
INVARIANTS
    TypeOK
    NoSurvivorBehindKillpg
PROPERTY ReportKillsGroup
CHECK_DEADLOCK FALSE

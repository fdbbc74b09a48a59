SPECIFICATION FairSpec
CONSTANTS
    Main = main
    Workers = {worker}
    Children = {child}
    Daemons = {}
    Addr = {a1}
    WILDCARD = WILDCARD
    NoAddr = NoAddr
    MaxDepth = 1
PROPERTY ReportKillsProgram
CHECK_DEADLOCK FALSE

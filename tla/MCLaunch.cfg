SPECIFICATION FairSpec
CONSTANTS
    Server = server
    First = first
    Others = {other}
    Unset = Unset
    Empty = Empty
    Stale = Stale
INVARIANTS
    TypeOK
    OneConnection
    NoUnguardedProgram
PROPERTIES
    FailureEndsGroup
    AcceptEnds
    ServerEndsWithProgram
CHECK_DEADLOCK FALSE

SPECIFICATION Spec
CONSTANTS
    Client = {c1, c2}
    Addr = {a1, a2}
    Memory = {"zero", "CALL"}
    PointerCells = 2
    MaxMessages = 3
INVARIANT NeverConfused
PROPERTY IsQueue
CHECK_DEADLOCK FALSE

SPECIFICATION Spec
CONSTANTS
    Procs = {p1, p2}
    MaxSerials = 1
INVARIANTS
    SaveNeverCorrupts
CHECK_DEADLOCK FALSE

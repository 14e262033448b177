SPECIFICATION Spec
CONSTANTS
    Procs = {p1, p2}
    MaxSerials = 3
SYMMETRY Symmetry
INVARIANTS
    TypeOK
    RevokedNeverVerifies
    IssuedKeepVerifying
    SubordinatesSurvive
    FileIsMemoryAtRest
CHECK_DEADLOCK FALSE

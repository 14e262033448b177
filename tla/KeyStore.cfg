SPECIFICATION Spec
CONSTANTS
    Keys = {k1, k2}
    Procs = {p1, p2}
    Levels = {768}
    TTLs = {0, 1}
    DefaultTTL = 2
    MaxPuts = 3
    MaxClock = 2
SYMMETRY Symmetry
INVARIANTS
    TypeOK
    VersionDiscipline
    RetiredStaysInactive
    AckedVersionsDurable
    DeletedMaterialGone
    PromisedIsServed
CHECK_DEADLOCK FALSE

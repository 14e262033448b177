SPECIFICATION ReplaySpec
CONSTANTS
    Ciphertexts = {c1, c2, c3, c4}
    Procs = {p1, p2}
    SeenCacheMax = 3
    MaxAge = 1
    Skew = 1
    MaxTime = 3
    MaxLives = 2
    MaxAccepted = 6
SYMMETRY Symmetry
INVARIANTS
    ReplayTypeOK
    SpacedReplay
    WindowClosed
    OnlyDecryptedSeen
CHECK_DEADLOCK FALSE

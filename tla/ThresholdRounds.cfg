SPECIFICATION Spec
CONSTANTS
    Rounds = {r1, r2}
    SignerIds = {s1, s2}
    Procs = {p1, p2}
    Thresholds = {1, 2}
    RoundTTL = 1
    SignerTTL = 1
    MaxKeys = 2
    MaxTime = 2
SYMMETRY Symmetry
INVARIANTS
    TypeOK
    OneAuthorisedSignature
    AssembledVerifies
    NoRoundLost
CONSTRAINT ForeignBound
CHECK_DEADLOCK FALSE

SPECIFICATION Spec
CONSTANTS
    Openers = {o1, o2}
    Texts = {a, b}
    MaxPending = 1
    NonceSpace = 2
    SessionIDs = {s1, s2}
    Secrets = {x1, x2}
    MaxSent = 3
SYMMETRY Symmetry
INVARIANTS
    TypeOK
    NoncesUnique
PROPERTIES
    ImplementsLink
    OpensInOrder
CHECK_DEADLOCK FALSE

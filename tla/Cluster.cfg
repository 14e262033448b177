SPECIFICATION Spec
CONSTANTS
    k1 = k1
    c1 = c1
    Nodes = {n1, n2}
    Keys = {k1}
    Roots = {r1, r2}
    Serials = {c1}
    Procs = {p1}
    Times = {t1}
    DirectCommands <- MCDirectCommands
    None = None
    Never = Never
    MaxProposals = 3
SYMMETRY Symmetry
INVARIANTS
    TypeOK
    ReplicasAgree
    AckedIsReplicated
    ServedIsCommitted
CONSTRAINTS
    OwnKeysBound
    SnapshotBound
CHECK_DEADLOCK FALSE

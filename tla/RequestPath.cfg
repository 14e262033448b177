SPECIFICATION Spec
CONSTANTS
    Clients = {c1}
    Goroutines = {g1, g2}
    Limit = 2
    Window = 1
    MaxClock = 2
    Kinds = {"issue", "verify", "revoke", "split", "reconstruct", "ready"}
    Paths = {"issue", "verify", "revoke", "split", "reconstruct", "ready"}
    Statuses <- AllStatuses
    Events <- KindEvents
    Forged = forged
    Bounds <- SomeBounds
SYMMETRY Symmetry
INVARIANTS
    TypeOK
    ExactWindow
    VerdictIsExact
    BooksAgree
CHECK_DEADLOCK FALSE

SPECIFICATION FairSpec
CONSTANTS
    MaxTokens = 1
    Revokers = {r1}
    Pruner = pruner
    Verifiers = {v1}
    TTL = 1
    OtherExps = {0, 1}
    MaxClock = 2
INVARIANTS
    TypeOK
    RevokedNotAccepted
    SerialFileReadable
    SerialRevocationDurable
PROPERTIES
    ExpiredEventuallyPruned
CHECK_DEADLOCK FALSE

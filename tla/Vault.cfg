SPECIFICATION VaultSpec
CONSTANTS
    Secrets <- SomeSecrets
    Randoms <- SomeRandoms
    Counts = {1, 2, 127, 129, 256}
    Thresholds = {0, 1, 2, 3}
    Positions = {1, 2, 127, 128, 129}
    OtherBytes = {128}
    MaxHand = 3
    MaxDamaged = 1
INVARIANTS
    VaultTypeOK
    FieldArithmetic
    EnoughShardsReconstruct
    OnlyTheSecret
CHECK_DEADLOCK FALSE

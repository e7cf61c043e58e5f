SPECIFICATION Spec
CONSTANTS
    Threads = {t1, t2, t3, t4}
    PoolSize = 3
    NoSlot = NoSlot
SYMMETRY ThreadSymmetry
INVARIANTS
    TypeOK
    ExclusiveUse
    SlotsAccounted
    NoLostWakeup
    StuckOnlyWhenLost

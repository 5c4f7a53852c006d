CONSTANTS
    SeqMod = 4
    MaxPacketWindow = 2
    TimestampToleranceMs = 1
    MaxSkew = 1
    MaxTime = 3
    MaxSent = 5
SPECIFICATION Spec
INVARIANTS
    TypeOK
    ReplayOnlyAfterBurst
    WindowIsNewest
    FalseReplayNeedsWrap

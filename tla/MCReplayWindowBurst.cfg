CONSTANTS
    SeqMod = 8
    MaxPacketWindow = 2
    TimestampToleranceMs = 2
    MaxSkew = 0
    MaxTime = 2
    MaxSent = 4
SPECIFICATION Spec
INVARIANT NoRedelivery

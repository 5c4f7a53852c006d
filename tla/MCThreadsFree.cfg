CONSTANTS
    t1 = t1
    t2 = t2
    NoThread = NoThread
    Nil = Nil
    Threads <- TwoThreads
    Incoming <- PeerPackets
    Ops <- EveryCall
    SharedMac = TRUE
    ExclusiveKeys = FALSE
    CallbackLocks = TRUE
    Policies = {1, 2}
    MaxCalls = 3
    SeqMod = 8
    MaxPacketWindow = 4
SPECIFICATION OverlapSpec
SYMMETRY Swap
INVARIANTS
    TypeOK
    SeqUnique
    KeyUseCounted
    WarmCacheQuiet
    PacketIntact
    PlaintextIntact
    RotationIntact
CHECK_DEADLOCK FALSE

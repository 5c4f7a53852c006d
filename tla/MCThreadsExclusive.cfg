CONSTANTS
    t1 = t1
    t2 = t2
    NoThread = NoThread
    Nil = Nil
    Threads <- TwoThreads
    Incoming <- PeerPackets
    Ops <- EveryCall
    SharedMac = FALSE
    ExclusiveKeys = TRUE
    CallbackLocks = FALSE
    Policies = {2}
    MaxCalls = 3
    SeqMod = 8
    MaxPacketWindow = 4
SPECIFICATION FairSpec
PROPERTIES
    CallsReturn
    RefinesAtomic

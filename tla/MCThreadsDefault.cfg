CONSTANTS
    t1 = t1
    t2 = t2
    NoThread = NoThread
    Nil = Nil
    Threads <- TwoThreads
    Incoming <- OneMessage
    Ops <- Sending
    SharedMac = TRUE
    ExclusiveKeys = TRUE
    CallbackLocks = FALSE
    Policies = {2}
    MaxCalls = 2
    SeqMod = 8
    MaxPacketWindow = 4
SPECIFICATION Spec
SYMMETRY Swap
INVARIANT PacketCoherent

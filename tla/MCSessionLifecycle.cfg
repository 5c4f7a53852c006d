CONSTANTS
    Alice = Alice
    Bob = Bob
    Nil = Nil
    Endpoints <- Both
    Initiators <- OnlyAlice
    Rekeyers <- OnlyAlice
    Closers <- Both
    FinalizeOnce = TRUE
    Misrouting = TRUE
    CounterMod = 8
    MaxUsed <- LifecycleUse
    SeqMod = 8
    MaxPacketWindow = 8
SPECIFICATION Spec
INVARIANTS
    TypeOK
    HandshakeAgreement
    AtMostOnce
    NoFalseReplay

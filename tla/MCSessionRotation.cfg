CONSTANTS
    Alice = Alice
    Bob = Bob
    Nil = Nil
    Endpoints <- Both
    Initiators <- OnlyAlice
    Rekeyers <- OnlyAlice
    Closers <- None
    FinalizeOnce = TRUE
    Misrouting = FALSE
    CounterMod = 3
    MaxUsed <- RotationUse
    SeqMod = 8
    MaxPacketWindow = 8
SPECIFICATION DeliverySpec
INVARIANT TokenClosesGap
PROPERTY RekeyConverges

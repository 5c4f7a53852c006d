CONSTANTS
    Alice = Alice
    Bob = Bob
    Nil = Nil
    Endpoints <- Both
    Initiators <- OnlyAlice
    Rekeyers <- Both
    Closers <- None
    FinalizeOnce = TRUE
    Misrouting = FALSE
    CounterMod = 8
    MaxUsed <- CrossingUse
    SeqMod = 8
    MaxPacketWindow = 8
SPECIFICATION DeliverySpec
PROPERTY RekeyConverges

CONSTANTS
    Nil = Nil
    Wrappers <- AllWrappers
    MaxUses = 4
    MaxServed = 2
    MaxHandlers = 1
    MaxChanges = 2
    SeqMod = 8
    MaxPacketWindow = 8
SPECIFICATION Spec
INVARIANTS
    TypeOK
    RequestsOnce
    AnswersIntact
    CalmExchange
    HeardInOrder
CHECK_DEADLOCK FALSE

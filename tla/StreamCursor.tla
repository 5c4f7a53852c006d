---------------------------- MODULE StreamCursor ----------------------------
(***************************************************************************)
(* What cipher.Keystream promises: random access to one fixed stream of    *)
(* bytes, and a pointer that Read and XorRead move.  Byte i is the number  *)
(* i modulo the period of the stream.  A call asks and is then answered,   *)
(* with the piece it asked for.  Caching is not part of the promise.       *)
(***************************************************************************)
EXTENDS Integers, Sequences

CONSTANTS
    BlockSize,  \* bytes in a block
    Period,     \* bytes before the generator's block counter wraps
    Offsets,    \* offsets callers ask for
    Lengths     \* lengths callers ask for

VARIABLES
    position,  \* what Tell() returns
    iter,      \* the next block of a range over Blocks, or -1 outside one
    request,   \* what the call in progress asked for, or None
    result     \* what the last call returned

vars == <<position, iter, request, result>>

Stream(offset, length) ==
    [i \in 1 .. length |-> (offset + i - 1) % Period]

None == [asked |-> FALSE, offset |-> 0, length |-> 0, advance |-> 0]

Init == position = 0 /\ iter = -1 /\ request = None /\ result = <<>>

Free == ~request.asked

(* Seek, and Rewind for 0. *)
Move ==
    /\ Free
    /\ position' \in Offsets \cup {0}
    /\ UNCHANGED <<iter, request, result>>

Ask(offset, length, advance) ==
    /\ Free
    /\ request' = [asked |-> TRUE, offset |-> offset, length |-> length,
                   advance |-> advance]
    /\ UNCHANGED <<position, iter, result>>

(* GetBytes and Xor ask for a place, Read and XorRead for the next bytes. *)
AskAt == \E offset \in Offsets, length \in Lengths : Ask(offset, length, 0)
AskNext == \E length \in Lengths : Ask(position, length, length)

Answer ==
    /\ request.asked
    /\ result' = Stream(request.offset, request.length)
    /\ position' = position + request.advance
    /\ request' = None
    /\ UNCHANGED iter

(* A range over Blocks starts, yields the blocks in order, and ends. *)
Start ==
    /\ Free /\ iter = -1
    /\ iter' \in {offset \div BlockSize : offset \in Offsets}
    /\ UNCHANGED <<position, request, result>>

Yield ==
    /\ Free /\ iter >= 0
    /\ result' = Stream(iter * BlockSize, BlockSize)
    /\ iter' = iter + 1
    /\ UNCHANGED <<position, request>>

Stop ==
    /\ Free /\ iter >= 0
    /\ iter' = -1
    /\ UNCHANGED <<position, request, result>>

Next == Move \/ AskAt \/ AskNext \/ Answer \/ Start \/ Yield \/ Stop

Spec == Init /\ [][Next]_vars
=============================================================================

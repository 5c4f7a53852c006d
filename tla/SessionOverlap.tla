--------------------------- MODULE SessionOverlap ---------------------------
(***************************************************************************)
(* What a call may expect of an object that other goroutines use at will.  *)
(*                                                                         *)
(* A call works outside the lock on what it has read, or is yet to read:   *)
(* Encrypt seals with the cipher key and passes the MAC key a moment       *)
(* later, Decrypt verifies with one key and decrypts with another, a       *)
(* rotation draws its counter, seals it and derives in sections of their   *)
(* own, and the default MAC has one buffer for all.  So a change of keys,  *)
(* or a use of the buffer, can disturb a call, and nothing in the code     *)
(* keeps it from happening.  The promise is the other way round: a call    *)
(* that is not met by one there comes out right, whatever else goes on     *)
(* beside it.                                                              *)
(***************************************************************************)
EXTENDS SessionThreads

VARIABLE met    \* history: the calls that a change has met

overlapVars == <<vars, met>>

(* Where a call relies on the keys staying as they are.  Encrypt has its   *)
(* key in the buffer once it is copied; Rekey goes on to derive.           *)
UsesKeys(u) ==
    \/ local[u].op = "Encrypt" /\ pc[u] \in {"load", "copyKey"}
    \/ /\ local[u].op = "Rekey"
       /\ pc[u] \in {"seal", "load", "copyKey", "copyData", "hash", "count",
                     "derive"}
    \/ /\ Receiving(u)
       /\ pc[u] \in {"copyKey", "copyData", "verify", "check", "cipher",
                     "expect", "derive"}

(* Where SignTwo has bytes in the buffer that it is yet to read. *)
UsesBuf(u) == pc[u] \in {"copyData", "hash", "verify"}

(* A step of t disturbs what another call relies on. *)
Disturbs(t, u) ==
    /\ u # t
    /\ \/ UsesKeys(u) /\ keys' # keys
       \/ SharedMac /\ UsesBuf(u) /\ buf' # buf

OverlapInit == Init /\ met = {}

OverlapStep(t) ==
    /\ Call(t) \/ Step(t)
    /\ met' = met \cup {local[u].call : u \in {v \in Threads : Disturbs(t, v)}}

OverlapNext ==
    \/ Done /\ UNCHANGED met
    \/ \E t \in Threads : OverlapStep(t)

OverlapSpec == OverlapInit /\ [][OverlapNext]_overlapVars
-----------------------------------------------------------------------------
(* What Encrypt returns can be opened, unless another call changed the     *)
(* keys between its sealing and its MAC, or used the MAC's buffer: the tag *)
(* is of the packet's own data, under the MAC key that belongs to its      *)
(* cipher key.  Elsewhere it may be overtaken by rotations, handshakes and *)
(* Dispose.                                                                *)
PacketIntact ==
    \A m \in sent :
        m.call \notin met => m.tag = [key |-> m.gen, data |-> m.call]

(* What Decrypt returns without an error was decrypted with the key that   *)
(* its MAC was verified under, unless the keys changed meanwhile.          *)
PlaintextIntact ==
    \A o \in opened : o.call \notin met => o.gen = o.packet.gen

(* A rotation derives from the keys its token was sealed under, with the   *)
(* counter the token carries, as the other end will, unless another call   *)
(* changed the keys between the first of its sections and the last.        *)
RotationIntact ==
    \A r \in rotations : r.call \notin met => r.token = r.from
=============================================================================

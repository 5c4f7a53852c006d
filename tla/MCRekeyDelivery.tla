--------------------------- MODULE MCRekeyDelivery ---------------------------
(***************************************************************************)
(* Small instances of RekeyDelivery: one handshake, which Alice initiates, *)
(* and a window that holds every packet of a run.                          *)
(***************************************************************************)
EXTENDS RekeyDelivery

CONSTANTS Alice, Bob

Both == {Alice, Bob}
None == {}
OnlyAlice == {Alice}

(* Messages and rotations; with a payload that counts to two, the fourth   *)
(* is refused.                                                             *)
RotationUse ==
    [keyPair |-> 2, handshake |-> 1, send |-> 2, rekey |-> 4, restart |-> 0]

(* One rotation at each end. *)
CrossingUse ==
    [keyPair |-> 2, handshake |-> 1, send |-> 1, rekey |-> 2, restart |-> 0]
==============================================================================

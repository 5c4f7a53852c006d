---------------------------- MODULE MCSessionPair ----------------------------
(***************************************************************************)
(* A small instance of SessionPair.  Alice initiates, as in the tests, and *)
(* rotates.  The window (MaxPacketWindow) holds every packet of the run,   *)
(* so that nothing is evicted: eviction is ReplayWindow's subject.         *)
(***************************************************************************)
EXTENDS SessionPair

CONSTANTS Alice, Bob

Both == {Alice, Bob}
OnlyAlice == {Alice}

(* Two sessions of the same pair, with Dispose and a restart. *)
LifecycleUse ==
    [keyPair |-> 3, handshake |-> 2, send |-> 2, rekey |-> 1, restart |-> 1]
==============================================================================

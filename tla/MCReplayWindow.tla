-------------------------- MODULE MCReplayWindow --------------------------
(***************************************************************************)
(* A three-bit life of ReplayWindow: sequence numbers wrap after SeqMod    *)
(* packets, the window holds MaxPacketWindow of them, and the clock runs   *)
(* past the tolerance, so that eviction, wrap-around and expiry all happen *)
(* within MaxSent packets.  The values are in the two .cfg files.          *)
(***************************************************************************)
EXTENDS ReplayWindow
===========================================================================

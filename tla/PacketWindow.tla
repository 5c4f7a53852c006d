---------------------------- MODULE PacketWindow ----------------------------
(***************************************************************************)
(* The receive window of a QuarkDash object: the part of buildMetadata-    *)
(* Locked and checkMetadata (quarkdash.go) that does not depend on clocks. *)
(* The other modules of the project that receive packets share it.         *)
(***************************************************************************)
EXTENDS Integers, FiniteSets

CONSTANTS
    SeqMod,          \* 2^32 in the code: the width of QuarkDash.sendSeq
    MaxPacketWindow  \* Options.MaxPacketWindow, 1000 by default

ASSUME SeqModAssumption == SeqMod \in Nat \ {0}
ASSUME MaxPacketWindowAssumption == MaxPacketWindow \in Nat

Seqs == 0 .. SeqMod - 1

(* Variants of the definitions that follow, each with a mistake that the   *)
(* properties of the modules have to notice.                               *)
NextSeqNoWrap(seq) == seq + 1
NextSeqShortWrap(seq) == (seq + 1) % (SeqMod - 1)
OldestIsNewest(window) == CHOOSE s \in window : \A k \in window : s >= k

(* sendSeq is a uint32: sendSeq++ wraps. *)
NextSeq(seq) == (seq + 1) % SeqMod

(* The entry the loop over receivedPackets finds: the smallest number. *)
Oldest(window) == CHOOSE s \in window : \A k \in window : s <= k

(* Mistaken variant: >= for >. *)
AdmitEarly(window, seq) ==
    LET grown == window \cup {seq}
    IN  IF Cardinality(grown) >= MaxPacketWindow
          THEN grown \ {Oldest(grown)}
          ELSE grown

(* seq is recorded and, if the map has outgrown MaxPacketWindow, one entry *)
(* is deleted: the smallest, which may be seq itself.                      *)
Admit(window, seq) ==
    LET grown == window \cup {seq}
    IN  IF Cardinality(grown) > MaxPacketWindow
          THEN grown \ {Oldest(grown)}
          ELSE grown
=============================================================================

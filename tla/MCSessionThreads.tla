--------------------------- MODULE MCSessionThreads ---------------------------
(***************************************************************************)
(* Two goroutines on one object, and a peer that has sent a message, its   *)
(* duplicate number, and tokens for this key and the next.                 *)
(***************************************************************************)
EXTENDS SessionThreads, TLC

CONSTANTS t1, t2

TwoThreads == {t1, t2}
Swap == Permutations(TwoThreads)

Message ==
    [id |-> 101, kind |-> "data", gen |-> <<0, 0>>,
     seq |-> 0, counter |-> 0]
FirstToken ==
    [id |-> 102, kind |-> "token", gen |-> <<0, 0>>,
     seq |-> 1, counter |-> 0]
NextToken ==
    [id |-> 103, kind |-> "token", gen |-> <<0, 1>>,
     seq |-> 2, counter |-> 1]
StaleToken ==
    [id |-> 104, kind |-> "token", gen |-> <<0, 1>>,
     seq |-> 3, counter |-> 0]

OneMessage == {Message}
PeerPackets == {Message, FirstToken, NextToken, StaleToken}

EveryCall == {"Encrypt", "Decrypt", "SetRekeyPolicy"} \cup KeyOps
Sending == {"Encrypt"}
===============================================================================

---------------------------- MODULE AtomicSession ----------------------------
(***************************************************************************)
(* What a QuarkDash object promises the goroutines that share it: every    *)
(* call happens at one moment, with the keys and counters of that moment,  *)
(* as if nothing else ran.  SessionPair takes this for granted;            *)
(* SessionThreads implements it when callers keep the calls that change    *)
(* keys apart and the MAC has no shared buffer.                            *)
(***************************************************************************)
EXTENDS PacketWindow

CONSTANTS
    Nil,
    Incoming,   \* the peer's packets: [kind, gen, seq, counter...]
    Handshakes  \* names for the handshakes that start a session

VARIABLES
    sessionKey,          \* cipher and MAC key together, or Nil
    rekeyCounter, messagesEncrypted, sendSeq, receivedPackets,
    packets,             \* what Encrypt and Rekey returned
    plaintexts           \* the packets that Decrypt and ApplyRekey opened

vars == <<sessionKey, rekeyCounter, messagesEncrypted, sendSeq,
          receivedPackets, packets, plaintexts>>

Init ==
    /\ sessionKey = <<0, 0>>
    /\ rekeyCounter = 0
    /\ messagesEncrypted = 0
    /\ sendSeq = 0
    /\ receivedPackets = {}
    /\ packets = {}
    /\ plaintexts = {}

(* A packet leaves with the next number, sealed and authenticated under    *)
(* the keys of this moment.                                                *)
Emit ==
    /\ sessionKey # Nil
    /\ packets' = packets \cup
          {[seq |-> sendSeq, gen |-> sessionKey, authentic |-> TRUE]}
    /\ sendSeq' = NextSeq(sendSeq)

(* A packet of the current keys, with a number that is new, is opened.     *)
Open(p) ==
    /\ sessionKey # Nil
    /\ p.gen = sessionKey
    /\ p.seq \notin receivedPackets
    /\ receivedPackets' = Admit(receivedPackets, p.seq)
    /\ plaintexts' = plaintexts \cup {p}

Rotate ==
    /\ sessionKey' = <<sessionKey[1], rekeyCounter + 1>>
    /\ rekeyCounter' = rekeyCounter + 1
    /\ messagesEncrypted' = 0

Encrypt ==
    /\ Emit
    /\ messagesEncrypted' = messagesEncrypted + 1
    /\ UNCHANGED <<sessionKey, rekeyCounter, receivedPackets, plaintexts>>

Rekey ==
    /\ Emit
    /\ Rotate
    /\ UNCHANGED <<receivedPackets, plaintexts>>

(* Decrypt, and ApplyRekey of a packet that is not the expected token. *)
Decrypt ==
    /\ \E p \in Incoming : Open(p)
    /\ UNCHANGED <<sessionKey, rekeyCounter, messagesEncrypted, sendSeq,
                   packets>>

ApplyRekey ==
    /\ \E p \in Incoming :
          p.kind = "token" /\ p.counter = rekeyCounter /\ Open(p)
    /\ Rotate
    /\ UNCHANGED <<sendSeq, packets>>

Handshake ==
    /\ \E h \in Handshakes : sessionKey' = <<h, 0>>
    /\ rekeyCounter' = 0
    /\ messagesEncrypted' = 0
    /\ UNCHANGED <<sendSeq, receivedPackets, packets, plaintexts>>

Dispose ==
    /\ sessionKey' = Nil
    /\ receivedPackets' = {}
    /\ UNCHANGED <<rekeyCounter, messagesEncrypted, sendSeq, packets,
                   plaintexts>>

Next ==
    \/ Encrypt \/ Rekey \/ Decrypt \/ ApplyRekey \/ Handshake \/ Dispose

Spec == Init /\ [][Next]_vars
=============================================================================

---------------------------- MODULE ReplayWindow ----------------------------
(***************************************************************************)
(* One direction of an established session: the sender stamps each packet  *)
(* with a timestamp and a sequence number (buildMetadataLocked), a network *)
(* delays, reorders, loses and duplicates packets, and the receiver runs   *)
(* checkMetadata on each arrival.  Keys are fixed and every MAC is valid   *)
(* here: SessionPair models what happens to packets when keys change.      *)
(*                                                                         *)
(* Time is one clock, the receiver's; a sender's timestamp is off by at    *)
(* most MaxSkew either way, not always by the same amount.  nsent, sent,   *)
(* accepted and redelivered are history: they number the packets (the      *)
(* 32-bit number on the wire wraps) and record what Decrypt let through.   *)
(***************************************************************************)
EXTENDS PacketWindow

CONSTANTS
    TimestampToleranceMs,  \* Options.TimestampToleranceMs, 300000 by default
    MaxSkew,               \* how far the sender's clock may be off
    MaxTime,               \* bound: the clock stops here
    MaxSent                \* bound: packets sent

ASSUME ClockAssumption ==
    TimestampToleranceMs \in Nat /\ MaxSkew \in Nat
ASSUME BoundAssumption == MaxTime \in Nat /\ MaxSent \in Nat

VARIABLES
    now,              \* time.Now().UnixMilli() at the receiver
    sendSeq,          \* the sender's next sequence number
    receivedPackets,  \* the receiver's window
    nsent,            \* history: number of packets sent
    sent,             \* history: packets on the network, for ever
    accepted,         \* history: packets checkMetadata accepted
    redelivered       \* history: packets it accepted again

vars == <<now, sendSeq, receivedPackets, nsent, sent, accepted, redelivered>>

Packet == [id : Nat, seq : Seqs, ts : Int]

Init ==
    /\ now = 0
    /\ sendSeq = 0
    /\ receivedPackets = {}
    /\ nsent = 0
    /\ sent = {}
    /\ accepted = {}
    /\ redelivered = {}

Tick ==
    /\ now < MaxTime
    /\ now' = now + 1
    /\ UNCHANGED <<sendSeq, receivedPackets, nsent, sent, accepted, redelivered>>

(* Encrypt: the metadata of the next packet, sealed and sent. *)
BuildMetadata ==
    /\ nsent < MaxSent
    /\ \E skew \in -MaxSkew .. MaxSkew :
          sent' = sent \cup {[id |-> nsent, seq |-> sendSeq, ts |-> now + skew]}
    /\ nsent' = nsent + 1
    /\ sendSeq' = NextSeq(sendSeq)
    /\ UNCHANGED <<now, receivedPackets, accepted, redelivered>>

InTolerance(p) ==
    /\ now - p.ts <= TimestampToleranceMs
    /\ p.ts - now <= TimestampToleranceMs

(* checkMetadata returns nil: the packet is recorded and Decrypt goes on. *)
Accept(p) ==
    /\ p.seq \notin receivedPackets
    /\ InTolerance(p)
    /\ receivedPackets' = Admit(receivedPackets, p.seq)
    /\ accepted' = accepted \cup {p}
    /\ redelivered' = redelivered \cup ({p} \cap accepted)
    /\ UNCHANGED <<now, sendSeq, nsent, sent>>

(* ErrReplayDetected, tested first, or ErrTimestampOutOfWindow. *)
Reject(p) ==
    /\ p.seq \in receivedPackets \/ ~InTolerance(p)
    /\ UNCHANGED vars

(* Any packet ever sent may arrive, at any time, any number of times. *)
CheckMetadata == \E p \in sent : Accept(p) \/ Reject(p)

Next == Tick \/ BuildMetadata \/ CheckMetadata

Spec == Init /\ [][Next]_vars
-----------------------------------------------------------------------------
(* The type invariant of the two counters, the window and the histories. *)
TypeOK ==
    /\ now \in Nat
    /\ sendSeq \in Seqs
    /\ receivedPackets \subseteq Seqs
    /\ nsent \in Nat
    /\ sent \subseteq Packet
    /\ accepted \subseteq sent
    /\ redelivered \subseteq accepted

(* The higher sequence numbers the sender used after p and before p's      *)
(* timestamp left the tolerance, skew included.                            *)
Burst(p) ==
    {s \in Seqs : /\ s > p.seq
                  /\ \E q \in sent : /\ q.id > p.id
                                     /\ q.seq = s
                                     /\ q.ts <= p.ts + TimestampToleranceMs
                                                      + MaxSkew}

(* checkMetadata forgets numbers, lowest first.  A packet it accepted can  *)
(* come back and be accepted again, but, until the 32-bit number has       *)
(* wrapped, only after a burst: the sender used at least MaxPacketWindow   *)
(* higher numbers after p and while p was still fresh.  After the wrap no  *)
(* burst is needed: a low number that meets a window of high ones is the   *)
(* one evicted, and its packet passes as often as it is sent.              *)
ReplayOnlyAfterBurst ==
    \A p \in redelivered :
        p.id < SeqMod => Cardinality(Burst(p)) >= MaxPacketWindow

AcceptedSeqs == {s \in Seqs : \E p \in accepted : p.seq = s}

(* Whatever the arrival order, the eviction keeps the largest accepted     *)
(* numbers: one is forgotten only when the window is full of larger ones.  *)
WindowIsNewest ==
    /\ receivedPackets \subseteq AcceptedSeqs
    /\ \A s \in AcceptedSeqs \ receivedPackets :
          /\ Cardinality(receivedPackets) = MaxPacketWindow
          /\ \A k \in receivedPackets : s < k

(* checkMetadata calls a packet a replay on its number alone.  A packet    *)
(* never accepted before is refused so only once the 32-bit number wraps.  *)
FalseReplayNeedsWrap ==
    \A p \in sent \ accepted :
        p.seq \in receivedPackets => nsent > SeqMod

(* What README.md:43 says of the protocol ("Replay protection: timestamp   *)
(* + sequence number + sliding window"): no packet is delivered twice.     *)
NoRedelivery == redelivered = {}
=============================================================================

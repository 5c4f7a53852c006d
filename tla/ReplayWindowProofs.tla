------------------------- MODULE ReplayWindowProofs -------------------------
(***************************************************************************)
(* Proofs about ReplayWindow, for every width of the sequence number,      *)
(* every window size, tolerance and skew, and with the bounds on time and  *)
(* packets arbitrary.                                                      *)
(*                                                                         *)
(* The argument.  The window is a set of accepted numbers that is full,    *)
(* and made of larger numbers, whenever an accepted number is missing from *)
(* it (WindowIsNewest).  So when a packet is accepted twice, the window    *)
(* itself is a set of MaxPacketWindow higher numbers.  Each was sent by    *)
(* now, so its timestamp is at most now + MaxSkew, and now is within the   *)
(* tolerance of the packet's own timestamp.  And each was sent after the   *)
(* packet, as long as the packet's number is its rank: no number exceeds   *)
(* the rank of the packet that bears it (Numbering).                       *)
(***************************************************************************)
EXTENDS ReplayWindow, FiniteSetTheorems, WellFoundedInduction,
        TLAPS

(* The window never outgrows MaxPacketWindow. *)
WindowBounded ==
    /\ IsFiniteSet(receivedPackets)
    /\ Cardinality(receivedPackets) <= MaxPacketWindow

(* No timestamp is further ahead of the clock than the skew. *)
NoFutureStamp == \A p \in sent : p.ts <= now + MaxSkew

(* A packet's number is its rank until the first wrap, and never more. *)
Numbering ==
    /\ \A p \in sent : p.id < nsent
    /\ \A p, q \in sent : p.id = q.id => p = q
    /\ sendSeq <= nsent
    /\ nsent < SeqMod => sendSeq = nsent
    /\ \A p \in sent : /\ p.seq <= p.id
                       /\ p.id < SeqMod => p.seq = p.id

WindowInv == TypeOK /\ WindowBounded /\ WindowIsNewest

NumberInv == WindowInv /\ Numbering

BurstInv == NumberInv /\ NoFutureStamp /\ ReplayOnlyAfterBurst
-----------------------------------------------------------------------------
(* A set of sequence numbers that is not empty has a least element: the    *)
(* loop of checkMetadata finds one.                                        *)
LEMMA OldestIsLeast ==
    ASSUME NEW S \in SUBSET Seqs, S # {}
    PROVE  Oldest(S) \in S /\ \A k \in S : Oldest(S) <= k
<1> DEFINE Less == {ss \in Nat \X Nat : ss[1] < ss[2]}
<1>1. S \subseteq Nat
  BY SeqModAssumption DEF Seqs
<1>2. IsWellFoundedOn(Less, Nat)
  BY NatLessThanWellFounded DEF OpToRel
<1>3. PICK m \in S : \A k \in S : <<k, m>> \notin Less
  <2> HIDE DEF Less
  <2> QED
    BY <1>1, <1>2, WFMin
<1>4. \A k \in S : m <= k
  <2> TAKE k \in S
  <2>1. ~(k < m)
    BY <1>1, <1>3
  <2> QED
    BY <1>1, <2>1
<1> QED
  BY <1>4 DEF Oldest

(* What Admit does to a window that is within its bound: either there is   *)
(* room and the number is added, or the window was full and the least of   *)
(* the old numbers and the new one is dropped, leaving it full.            *)
LEMMA AdmitCases ==
    ASSUME NEW R \in SUBSET Seqs, NEW s \in Seqs, s \notin R,
           IsFiniteSet(R), Cardinality(R) <= MaxPacketWindow
    PROVE  LET S == R \cup {s}
               A == Admit(R, s)
           IN  /\ A \in SUBSET Seqs
               /\ IsFiniteSet(A)
               /\ Cardinality(A) <= MaxPacketWindow
               /\ \/ /\ A = S
                     /\ Cardinality(R) < MaxPacketWindow
                  \/ \E old \in S :
                        /\ A = S \ {old}
                        /\ \A k \in A : old < k
                        /\ Cardinality(R) = MaxPacketWindow
                        /\ Cardinality(A) = MaxPacketWindow
<1> DEFINE S == R \cup {s}
<1> DEFINE old == Oldest(S)
<1>1. Cardinality(R) \in Nat /\ MaxPacketWindow \in Nat
  BY FS_CardinalityType, MaxPacketWindowAssumption
<1>2. IsFiniteSet(S) /\ Cardinality(S) = Cardinality(R) + 1
  BY FS_AddElement
<1>3. S \in SUBSET Seqs /\ S # {}
  OBVIOUS
<1>4. old \in S /\ \A k \in S : old <= k
  <2> HIDE DEF S
  <2> QED
    BY <1>3, OldestIsLeast
<1>5. CASE Cardinality(S) > MaxPacketWindow
  <2>1. Admit(R, s) = S \ {old}
    BY <1>5 DEF Admit
  <2>2. IsFiniteSet(S \ {old}) /\ Cardinality(S \ {old}) = Cardinality(S) - 1
    <3> HIDE DEF S, old
    <3> QED
      BY <1>2, <1>4, FS_RemoveElement
  <2>3. Cardinality(R) = MaxPacketWindow
    BY <1>1, <1>2, <1>5
  <2>4. \A k \in S \ {old} : old < k
    <3> HIDE DEF S, old
    <3> TAKE k \in S \ {old}
    <3>1. old \in Int /\ k \in Int
      BY <1>3, <1>4, SeqModAssumption DEF Seqs
    <3> QED
      BY <1>4, <3>1
  <2> HIDE DEF S, old
  <2>5. Cardinality(S \ {old}) = MaxPacketWindow
    BY <1>1, <1>2, <2>2, <2>3
  <2>6. S = R \cup {s}
    BY DEF S
  <2> QED
    BY <1>1, <1>3, <1>4, <2>1, <2>2, <2>3, <2>4, <2>5, <2>6
<1>6. CASE ~(Cardinality(S) > MaxPacketWindow)
  <2>1. Admit(R, s) = S
    BY <1>6 DEF Admit
  <2>2. Cardinality(R) < MaxPacketWindow /\ Cardinality(S) <= MaxPacketWindow
    BY <1>1, <1>2, <1>6
  <2> QED
    BY <1>2, <1>3, <2>1, <2>2
<1> QED
  BY <1>5, <1>6

(* sendSeq++ stays within its width, and is the successor below the wrap. *)
LEMMA NextSeqFacts ==
    ASSUME NEW n \in Seqs
    PROVE  /\ NextSeq(n) \in Seqs
           /\ NextSeq(n) <= n + 1
           /\ n + 1 < SeqMod => NextSeq(n) = n + 1
BY SeqModAssumption DEF Seqs, NextSeq
-----------------------------------------------------------------------------
(* The type invariant, the bound of the window and the order of eviction   *)
(* hold initially, and every step preserves them.                          *)
LEMMA WindowInvInit == Init => WindowInv
BY FS_EmptySet, SeqModAssumption, MaxPacketWindowAssumption
   DEF Init, WindowInv, TypeOK, WindowBounded, WindowIsNewest, AcceptedSeqs,
       Seqs

LEMMA WindowInvStep == WindowInv /\ [Next]_vars => WindowInv'
<1> SUFFICES ASSUME WindowInv, [Next]_vars
             PROVE  WindowInv'
  OBVIOUS
<1> USE DEF WindowInv
<1>1. CASE Tick
  BY <1>1 DEF Tick, TypeOK, WindowBounded, WindowIsNewest, AcceptedSeqs
<1>2. CASE BuildMetadata
  <2>1. TypeOK'
    <3>1. PICK skew \in -MaxSkew .. MaxSkew :
             sent' = sent \cup {[id |-> nsent, seq |-> sendSeq,
                                 ts |-> now + skew]}
      BY <1>2 DEF BuildMetadata
    <3>2. now + skew \in Int
      BY ClockAssumption DEF TypeOK
    <3>3. [id |-> nsent, seq |-> sendSeq, ts |-> now + skew] \in Packet
      BY <3>2 DEF TypeOK, Packet
    <3> QED
      BY <1>2, <3>1, <3>3, NextSeqFacts DEF BuildMetadata, TypeOK
  <2>2. WindowBounded' /\ WindowIsNewest'
    BY <1>2 DEF BuildMetadata, WindowBounded, WindowIsNewest, AcceptedSeqs
  <2> QED
    BY <2>1, <2>2
<1>3. ASSUME NEW p \in sent, Accept(p)
      PROVE  WindowInv'
  <2> DEFINE R == receivedPackets
  <2>1. R \in SUBSET Seqs /\ p.seq \in Seqs /\ p.seq \notin R
    BY <1>3 DEF TypeOK, Packet, Accept
  <2>2. IsFiniteSet(R) /\ Cardinality(R) <= MaxPacketWindow
    BY DEF WindowBounded
  <2>3. receivedPackets' = Admit(R, p.seq)
    BY <1>3 DEF Accept
  <2>4. TypeOK'
    BY <1>3, <2>1, <2>2, <2>3, AdmitCases DEF Accept, TypeOK
  <2>5. WindowBounded'
    BY <2>1, <2>2, <2>3, AdmitCases DEF WindowBounded
  <2>6. AcceptedSeqs' = AcceptedSeqs \cup {p.seq}
    BY <1>3, <2>1 DEF Accept, AcceptedSeqs
  <2>7. CASE receivedPackets' = R \cup {p.seq} /\ Cardinality(R) < MaxPacketWindow
    <3>1. AcceptedSeqs \subseteq R
      <4> SUFFICES ASSUME NEW s \in AcceptedSeqs \ R
                   PROVE  FALSE
        OBVIOUS
      <4>1. Cardinality(R) \in Nat
        BY <2>2, FS_CardinalityType
      <4> QED
        BY <2>7, <4>1, MaxPacketWindowAssumption DEF WindowIsNewest
    <3> QED
      BY <2>4, <2>5, <2>6, <2>7, <3>1 DEF WindowIsNewest
  <2>8. ASSUME NEW old \in R \cup {p.seq},
               receivedPackets' = (R \cup {p.seq}) \ {old},
               \A k \in receivedPackets' : old < k,
               Cardinality(R) = MaxPacketWindow,
               Cardinality(receivedPackets') = MaxPacketWindow
        PROVE  WindowIsNewest'
    <3>1. receivedPackets' \subseteq AcceptedSeqs'
      BY <2>6, <2>8 DEF WindowIsNewest
    <3>2. ASSUME NEW s \in AcceptedSeqs' \ receivedPackets',
                 NEW k \in receivedPackets'
          PROVE  s < k
      <4>1. s \in Int /\ k \in Int /\ old \in Int
        BY <2>1, <2>4, SeqModAssumption DEF TypeOK, AcceptedSeqs, Seqs
      <4>2. CASE s = old
        BY <2>8, <4>2
      <4>3. CASE s # old
        <5>1. s \in AcceptedSeqs \ R
          BY <2>6, <2>8, <4>3
        <5>2. CASE k \in R
          BY <5>1, <5>2 DEF WindowIsNewest
        <5>3. CASE k \notin R
          <6>1. k = p.seq /\ old \in R
            BY <2>8, <5>3
          <6>2. s < old
            BY <5>1, <6>1 DEF WindowIsNewest
          <6> QED
            BY <2>8, <4>1, <6>2
        <5> QED
          BY <5>2, <5>3
      <4> QED
        BY <4>2, <4>3
    <3> QED
      BY <2>8, <3>1, <3>2 DEF WindowIsNewest
  <2>9. WindowIsNewest'
    BY <2>1, <2>2, <2>3, <2>7, <2>8, AdmitCases
  <2> QED
    BY <2>4, <2>5, <2>9
<1>4. ASSUME NEW p \in sent, Reject(p)
      PROVE  WindowInv'
  BY <1>4 DEF Reject, vars, TypeOK, WindowBounded, WindowIsNewest, AcceptedSeqs
<1>5. CASE UNCHANGED vars
  BY <1>5 DEF vars, TypeOK, WindowBounded, WindowIsNewest, AcceptedSeqs
<1> QED
  BY <1>1, <1>2, <1>3, <1>4, <1>5 DEF Next, CheckMetadata

(* The model's variables keep their types. *)
THEOREM TypeCorrect == Spec => []TypeOK
<1>1. WindowInv => TypeOK
  BY DEF WindowInv
<1> QED
  BY WindowInvInit, WindowInvStep, <1>1, PTL DEF Spec

(* checkMetadata only ever forgets a number when MaxPacketWindow larger    *)
(* accepted ones take its place, whatever the order of arrival.            *)
THEOREM NewestKept == Spec => []WindowIsNewest
<1>1. WindowInv => WindowIsNewest
  BY DEF WindowInv
<1> QED
  BY WindowInvInit, WindowInvStep, <1>1, PTL DEF Spec
-----------------------------------------------------------------------------
LEMMA NumberInvInit == Init => NumberInv
BY WindowInvInit, SeqModAssumption DEF Init, NumberInv, Numbering

LEMMA NumberInvStep == NumberInv /\ [Next]_vars => NumberInv'
<1> SUFFICES ASSUME NumberInv, [Next]_vars
             PROVE  NumberInv'
  OBVIOUS
<1>1. WindowInv /\ Numbering
  BY DEF NumberInv
<1>2. WindowInv'
  BY <1>1, WindowInvStep
<1>3. TypeOK
  BY <1>1 DEF WindowInv
<1>4. CASE BuildMetadata
  <2>1. PICK skew \in -MaxSkew .. MaxSkew :
           sent' = sent \cup {[id |-> nsent, seq |-> sendSeq,
                               ts |-> now + skew]}
    BY <1>4 DEF BuildMetadata
  <2> DEFINE new == [id |-> nsent, seq |-> sendSeq, ts |-> now + skew]
  <2>2. /\ sent' = sent \cup {new}
        /\ new.id = nsent /\ new.seq = sendSeq
        /\ nsent' = nsent + 1
        /\ sendSeq' = NextSeq(sendSeq)
        /\ nsent \in Nat
        /\ \A p \in sent : p.id \in Nat
    BY <1>3, <1>4, <2>1 DEF BuildMetadata, TypeOK, Packet
  <2> HIDE DEF new
  <2>3. \A p \in sent' : p.id < nsent'
    BY <1>1, <2>2 DEF Numbering
  <2>4. \A p, q \in sent' : p.id = q.id => p = q
    BY <1>1, <2>2 DEF Numbering
  <2>5. sendSeq' <= nsent' /\ (nsent' < SeqMod => sendSeq' = nsent')
    <3>1. sendSeq \in Seqs /\ sendSeq \in Int /\ SeqMod \in Int
      BY <1>3, SeqModAssumption DEF TypeOK, Seqs
    <3>2. sendSeq' \in Int /\ sendSeq' <= sendSeq + 1
      BY <2>2, <3>1, NextSeqFacts, SeqModAssumption DEF Seqs
    <3>3. nsent < SeqMod => sendSeq = nsent
      BY <1>1 DEF Numbering
    <3>4. sendSeq + 1 < SeqMod => sendSeq' = sendSeq + 1
      BY <2>2, <3>1, NextSeqFacts
    <3>5. sendSeq <= nsent
      BY <1>1 DEF Numbering
    <3> QED
      BY <2>2, <3>1, <3>2, <3>3, <3>4, <3>5
  <2>6. \A p \in sent' : p.seq <= p.id /\ (p.id < SeqMod => p.seq = p.id)
    BY <1>1, <2>2, SeqModAssumption DEF Numbering
  <2> QED
    BY <1>2, <2>3, <2>4, <2>5, <2>6 DEF NumberInv, Numbering
<1>5. CASE UNCHANGED <<sent, nsent, sendSeq>>
  BY <1>1, <1>2, <1>5 DEF NumberInv, Numbering
<1> QED
  BY <1>4, <1>5 DEF Next, Tick, CheckMetadata, Accept, Reject, vars

(* Before the first wrap of the 32-bit number no packet is refused as a    *)
(* replay of another.                                                      *)
THEOREM FreshNotRefused == Spec => []FalseReplayNeedsWrap
<1>1. NumberInv => FalseReplayNeedsWrap
  <2> SUFFICES ASSUME NumberInv,
                      NEW p \in sent \ accepted,
                      p.seq \in receivedPackets,
                      ~(nsent > SeqMod)
               PROVE  FALSE
    BY DEF FalseReplayNeedsWrap
  <2>1. TypeOK /\ Numbering /\ receivedPackets \subseteq AcceptedSeqs
    BY DEF NumberInv, WindowInv, WindowIsNewest
  <2>2. PICK q \in accepted : q.seq = p.seq
    BY <2>1 DEF AcceptedSeqs
  <2>3. nsent <= SeqMod /\ nsent \in Int /\ SeqMod \in Int
    BY <2>1, SeqModAssumption DEF TypeOK
  <2>4. q.id = p.id
    <3>1. q.id \in Int /\ p.id \in Int /\ q \in sent
      BY <2>1, <2>2 DEF TypeOK, Packet
    <3>2. q.id < SeqMod /\ p.id < SeqMod
      BY <2>1, <2>3, <3>1 DEF Numbering
    <3> QED
      BY <2>1, <2>2, <3>1, <3>2 DEF Numbering
  <2> QED
    BY <2>1, <2>4 DEF TypeOK, Numbering
<1> QED
  BY NumberInvInit, NumberInvStep, <1>1, PTL DEF Spec
-----------------------------------------------------------------------------
LEMMA BurstInvInit == Init => BurstInv
BY NumberInvInit DEF Init, BurstInv, NoFutureStamp, ReplayOnlyAfterBurst

(* A burst, once it has been sent, stays sent. *)
LEMMA BurstKept ==
    ASSUME WindowInv, sent \subseteq sent', redelivered' = redelivered,
           ReplayOnlyAfterBurst
    PROVE  ReplayOnlyAfterBurst'
<1> SUFFICES ASSUME NEW p \in redelivered,
                    p.id < SeqMod
             PROVE  Cardinality(Burst(p)') >= MaxPacketWindow
  BY DEF ReplayOnlyAfterBurst, Burst
<1>1. IsFiniteSet(Seqs)
  BY FS_Interval, SeqModAssumption DEF Seqs
<1>2. Burst(p)' \in SUBSET Seqs /\ Burst(p) \in SUBSET Burst(p)'
  BY DEF Burst
<1>3. IsFiniteSet(Burst(p)')
  BY <1>1, <1>2, FS_Subset
<1>4. IsFiniteSet(Burst(p))
  BY <1>2, <1>3, FS_Subset
<1>5. Cardinality(Burst(p)) <= Cardinality(Burst(p)')
  BY <1>2, <1>3, FS_Subset
<1>6. Cardinality(Burst(p)) \in Int /\ Cardinality(Burst(p)') \in Int
  BY <1>3, <1>4, FS_CardinalityType
<1> QED
  BY <1>5, <1>6, MaxPacketWindowAssumption DEF ReplayOnlyAfterBurst

LEMMA BurstInvStep == BurstInv /\ [Next]_vars => BurstInv'
<1> SUFFICES ASSUME BurstInv, [Next]_vars
             PROVE  BurstInv'
  OBVIOUS
<1>1. /\ NumberInv /\ WindowInv /\ Numbering
      /\ NoFutureStamp /\ ReplayOnlyAfterBurst
  BY DEF BurstInv, NumberInv
<1>2. NumberInv'
  BY <1>1, NumberInvStep
<1>3. TypeOK
  BY <1>1 DEF WindowInv
<1>4. NoFutureStamp'
  <2>1. CASE Tick
    BY <1>1, <1>3, <2>1, ClockAssumption
       DEF Tick, NoFutureStamp, TypeOK, Packet
  <2>2. CASE BuildMetadata
    BY <1>1, <1>3, <2>2, ClockAssumption
       DEF BuildMetadata, NoFutureStamp, TypeOK
  <2>3. CASE CheckMetadata
    BY <1>1, <2>3
       DEF CheckMetadata, Accept, Reject, vars, NoFutureStamp
  <2>4. CASE UNCHANGED vars
    BY <1>1, <2>4 DEF vars, NoFutureStamp
  <2> QED
    BY <2>1, <2>2, <2>3, <2>4 DEF Next
<1>5. ReplayOnlyAfterBurst'
  <2>1. CASE Tick
    BY <1>1, <2>1, BurstKept DEF Tick
  <2>2. CASE BuildMetadata
    BY <1>1, <2>2, BurstKept DEF BuildMetadata
  <2>3. ASSUME NEW p \in sent, Accept(p)
        PROVE  ReplayOnlyAfterBurst'
    <3>1. CASE p \notin accepted
      BY <1>1, <2>3, <3>1, BurstKept DEF Accept
    <3>2. CASE p \in accepted /\ ~(p.id < SeqMod)
      <4>1. /\ sent' = sent /\ redelivered' = redelivered \cup {p}
            /\ accepted \subseteq sent /\ redelivered \subseteq accepted
        BY <1>3, <2>3, <3>2 DEF Accept, TypeOK
      <4> QED
        BY <1>1, <3>2, <4>1 DEF ReplayOnlyAfterBurst, Burst
    <3>3. CASE p \in accepted /\ p.id < SeqMod
      <4>1. p.seq \in AcceptedSeqs \ receivedPackets
        BY <1>3, <2>3, <3>3 DEF Accept, AcceptedSeqs, TypeOK, Packet
      <4>2. /\ Cardinality(receivedPackets) = MaxPacketWindow
            /\ \A k \in receivedPackets : p.seq < k
        BY <1>1, <4>1 DEF WindowInv, WindowIsNewest
      <4>3. receivedPackets \in SUBSET Burst(p)
        <5> SUFFICES ASSUME NEW k \in receivedPackets
                     PROVE  k \in Burst(p)
          OBVIOUS
        <5>1. k \in Seqs /\ k > p.seq
          BY <1>3, <4>1, <4>2, SeqModAssumption DEF TypeOK, AcceptedSeqs, Seqs
        <5>2. PICK q \in sent : q.seq = k
          BY <1>1, <1>3 DEF WindowInv, WindowIsNewest, AcceptedSeqs, TypeOK
        <5>3. q.ts <= now + MaxSkew /\ now - p.ts <= TimestampToleranceMs
          BY <1>1, <2>3 DEF NoFutureStamp, Accept, InTolerance
        <5>4. q.ts \in Int /\ p.ts \in Int /\ now \in Int
          BY <1>3 DEF TypeOK, Packet
        <5>5. q.ts <= p.ts + TimestampToleranceMs + MaxSkew
          BY <5>3, <5>4, ClockAssumption
        <5>6. q.id > p.id
          <6>1. p.seq = p.id /\ q.seq <= q.id
            BY <1>1, <3>3 DEF Numbering
          <6>2. p.id \in Int /\ q.id \in Int /\ q.seq \in Int
            BY <1>3, SeqModAssumption DEF TypeOK, Packet, Seqs
          <6> QED
            BY <5>1, <5>2, <6>1, <6>2
        <5> QED
          BY <5>1, <5>2, <5>5, <5>6 DEF Burst
      <4>4. IsFiniteSet(Burst(p))
        <5>1. IsFiniteSet(Seqs)
          BY FS_Interval, SeqModAssumption DEF Seqs
        <5>2. Burst(p) \in SUBSET Seqs
          BY DEF Burst
        <5> QED
          BY <5>1, <5>2, FS_Subset
      <4>5. Cardinality(Burst(p)) >= MaxPacketWindow
        <5>1. Cardinality(receivedPackets) <= Cardinality(Burst(p))
          BY <4>3, <4>4, FS_Subset
        <5>2. Cardinality(Burst(p)) \in Int
          BY <4>4, FS_CardinalityType
        <5> QED
          BY <4>2, <5>1, <5>2, MaxPacketWindowAssumption
      <4>6. sent' = sent /\ redelivered' = redelivered \cup {p}
        BY <2>3, <3>3 DEF Accept
      <4> QED
        BY <1>1, <4>5, <4>6 DEF ReplayOnlyAfterBurst, Burst
    <3> QED
      BY <3>1, <3>2, <3>3
  <2>4. CASE UNCHANGED vars
    BY <1>1, <2>4, BurstKept DEF vars
  <2>5. ASSUME NEW p \in sent, Reject(p)
        PROVE  ReplayOnlyAfterBurst'
    BY <2>4, <2>5 DEF Reject
  <2> QED
    BY <2>1, <2>2, <2>3, <2>4, <2>5 DEF Next, CheckMetadata
<1> QED
  BY <1>2, <1>4, <1>5 DEF BurstInv

(* Until the number wraps, a packet that checkMetadata accepts twice was   *)
(* followed, within its own tolerance interval, by MaxPacketWindow higher  *)
(* sequence numbers.                                                       *)
THEOREM ReplayNeedsBurst == Spec => []ReplayOnlyAfterBurst
<1>1. BurstInv => ReplayOnlyAfterBurst
  BY DEF BurstInv
<1> QED
  BY BurstInvInit, BurstInvStep, <1>1, PTL DEF Spec
=============================================================================

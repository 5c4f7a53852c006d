------------------------ MODULE SessionThreadsProofs ------------------------
(***************************************************************************)
(* What holds of a session object shared by any number of goroutines.      *)
(***************************************************************************)
EXTENDS SessionThreads, FiniteSetTheorems, TLAPS

KeyNames == (Nat \X Nat) \cup {Nil}
Tags == [key : KeyNames, data : Nat]
Locals == [op : Ops \cup {"none"}, call : Nat,
           packet : Packets \cup {NoPacket}, counter : Nat,
           gen : KeyNames, seq : Seqs, ptr : KeyNames, tag : Tags,
           retried : BOOLEAN, cold : BOOLEAN]

Multiplying == {"lookup", "storeW", "lookupInv", "storeInv"}

(* The types of the shared variables. *)
Shared ==
    /\ mu \in Threads \cup {NoThread}
    /\ sessionKey \in KeyNames
    /\ macKey \in KeyNames
    /\ wiped \subseteq Nat \X Nat
    /\ rekeyCounter \in Nat
    /\ messagesEncrypted \in Nat
    /\ sendSeq \in Seqs
    /\ receivedPackets \subseteq Seqs
    /\ buf \in [Threads \cup {NoThread} -> Tags]
    /\ cache \subseteq {"W", "Inv"}
    /\ warm \in BOOLEAN
    /\ calls \in Nat

(* Who holds the lock where. *)
Holds(t) ==
    /\ pc[t] \in {"install", "forget", "fresh", "fill"} => mu = t
    /\ pc[t] \in Multiplying /\ local[t].op = "Handshake" => mu = t
    /\ pc[t] = "install" => sessionKey # Nil

TypeInv ==
    /\ Shared
    /\ pc \in [Threads -> Labels]
    /\ local \in [Threads -> Locals]
    /\ \A t \in Threads : Holds(t)

(* The locals of a thread that is in no call. *)
LEMMA BlankType == Blank \in Locals
BY SeqModAssumption DEF Blank, NoPacket, NoTag, Locals, KeyNames, Tags, Seqs

(* The counter of sequence numbers wraps inside its range. *)
LEMMA NextSeqType ==
    ASSUME NEW s \in Seqs
    PROVE  NextSeq(s) \in Seqs
BY SeqModAssumption DEF NextSeq, Seqs

(* The window holds sequence numbers. *)
LEMMA AdmitType ==
    ASSUME NEW w \in SUBSET Seqs, NEW s \in Seqs
    PROVE  Admit(w, s) \in SUBSET Seqs
BY DEF Admit

(* The fields of a packet, received or missing. *)
LEMMA PacketFields ==
    ASSUME NEW p \in Packets \cup {NoPacket}
    PROVE  p.id \in Nat /\ p.gen \in KeyNames /\ p.seq \in Seqs
           /\ p.counter \in Nat
BY SeqModAssumption DEF Packets, NoPacket, KeyNames, Seqs

(* The fields of a thread's locals. *)
LEMMA LocalFields ==
    ASSUME NEW l \in Locals
    PROVE  /\ l.call \in Nat /\ l.packet \in Packets \cup {NoPacket}
           /\ l.counter \in Nat /\ l.gen \in KeyNames /\ l.seq \in Seqs
           /\ l.ptr \in KeyNames /\ l.tag \in Tags
           /\ l.packet.id \in Nat /\ l.packet.gen \in KeyNames
           /\ l.packet.seq \in Seqs /\ l.packet.counter \in Nat
BY PacketFields DEF Locals

(* An assignment to one local keeps the locals in their types. *)
LEMMA EditLocal ==
    ASSUME NEW L \in [Threads -> Locals], NEW t \in Threads
    PROVE  /\ \A l \in Locals :
                [L EXCEPT ![t] = l] \in [Threads -> Locals]
           /\ \A n \in Nat :
                [L EXCEPT ![t].counter = n] \in [Threads -> Locals]
           /\ \A g \in KeyNames :
                [L EXCEPT ![t].gen = g] \in [Threads -> Locals]
           /\ \A s \in Seqs :
                [L EXCEPT ![t].seq = s] \in [Threads -> Locals]
           /\ \A k \in KeyNames :
                [L EXCEPT ![t].ptr = k] \in [Threads -> Locals]
           /\ \A m \in Tags :
                [L EXCEPT ![t].tag = m] \in [Threads -> Locals]
           /\ \A b \in BOOLEAN :
                /\ [L EXCEPT ![t].retried = b] \in [Threads -> Locals]
                /\ [L EXCEPT ![t].cold = b] \in [Threads -> Locals]
<1>1. \A l \in Locals : [L EXCEPT ![t] = l] \in [Threads -> Locals]
  OBVIOUS
<1>2. \A n \in Nat :
         [L EXCEPT ![t].counter = n] \in [Threads -> Locals]
  BY DEF Locals
<1>3. \A g \in KeyNames :
         [L EXCEPT ![t].gen = g] \in [Threads -> Locals]
  BY DEF Locals
<1>4. \A s \in Seqs :
         [L EXCEPT ![t].seq = s] \in [Threads -> Locals]
  BY DEF Locals
<1>5. \A k \in KeyNames :
         [L EXCEPT ![t].ptr = k] \in [Threads -> Locals]
  BY DEF Locals
<1>6. \A m \in Tags : [L EXCEPT ![t].tag = m] \in [Threads -> Locals]
  BY DEF Locals
<1>7. \A b \in BOOLEAN :
         /\ [L EXCEPT ![t].retried = b] \in [Threads -> Locals]
         /\ [L EXCEPT ![t].cold = b] \in [Threads -> Locals]
  BY DEF Locals
<1> QED
  BY <1>1, <1>2, <1>3, <1>4, <1>5, <1>6, <1>7

(* The two assignments of Seal. *)
LEMMA EditGenSeq ==
    ASSUME local \in [Threads -> Locals], NEW t \in Threads,
           NEW g \in KeyNames, NEW s \in Seqs
    PROVE  [local EXCEPT ![t].gen = g, ![t].seq = s] \in [Threads -> Locals]
<1> DEFINE L == [local EXCEPT ![t].gen = g]
<1>1. L \in [Threads -> Locals]
  BY EditLocal
<1> HIDE DEF L
<1>2. [L EXCEPT ![t].seq = s] \in [Threads -> Locals]
  BY <1>1, EditLocal
<1> QED
  BY <1>2 DEF L

(* The two assignments of Expect. *)
LEMMA EditCounterGen ==
    ASSUME local \in [Threads -> Locals], NEW t \in Threads,
           NEW n \in Nat, NEW g \in KeyNames
    PROVE  [local EXCEPT ![t].counter = n, ![t].gen = g]
               \in [Threads -> Locals]
<1> DEFINE L == [local EXCEPT ![t].counter = n]
<1>1. L \in [Threads -> Locals]
  BY EditLocal
<1> HIDE DEF L
<1>2. [L EXCEPT ![t].gen = g] \in [Threads -> Locals]
  BY <1>1, EditLocal
<1> QED
  BY <1>2 DEF L

(* What a thread's step does to the program counters and the locals: it    *)
(* moves its own, or the process ends.                                     *)
Moves(t) ==
    /\ local' \in [Threads -> Locals]
    /\ \A u \in Threads \ {t} : local'[u] = local[u]
    /\ pc' \in [Threads -> Labels]
    /\ \/ \A u \in Threads \ {t} : pc'[u] = pc[u]
       \/ Fatal

(* Every step moves its own thread only, or ends the process. *)
LEMMA StepMoves ==
    ASSUME TypeInv, NEW t \in Threads, Call(t) \/ Step(t)
    PROVE  Moves(t)
<1> USE DEF TypeInv, Shared
<1>1. CASE Call(t)
  <2>1. /\ local' \in [Threads -> Locals]
        /\ \A u \in Threads \ {t} : local'[u] = local[u]
    <3>1. PICK op \in Ops, p \in Incoming :
             local' = [local EXCEPT ![t] =
                          [Blank EXCEPT
                             !.op = op, !.call = calls + 1, !.cold = ~warm,
                             !.packet = IF Entry(op) = "open"
                                          THEN p ELSE NoPacket]]
      BY <1>1 DEF Call
    <3> DEFINE q == IF Entry(op) = "open" THEN p ELSE NoPacket
               l == [Blank EXCEPT !.op = op, !.call = calls + 1,
                                  !.cold = ~warm, !.packet = q]
    <3>2. /\ q \in Packets \cup {NoPacket}
          /\ (~warm) \in BOOLEAN
      BY ThreadAssumption
    <3>3. l \in Locals
      <4> HIDE DEF q
      <4> DEFINE a == [Blank EXCEPT !.op = op]
                 b == [a EXCEPT !.call = calls + 1]
                 c == [b EXCEPT !.cold = ~warm]
      <4>1. a \in Locals
        BY BlankType DEF Locals
      <4> HIDE DEF a
      <4>2. b \in Locals
        BY <4>1 DEF Locals
      <4> HIDE DEF b
      <4>3. c \in Locals
        BY <3>2, <4>2 DEF Locals
      <4> HIDE DEF c
      <4>4. [c EXCEPT !.packet = q] \in Locals
        BY <3>2, <4>3 DEF Locals
      <4> QED
        BY <4>4 DEF a, b, c
    <3> HIDE DEF l
    <3> QED
      BY <3>1, <3>3, EditLocal DEF l
  <2>2. /\ pc' \in [Threads -> Labels]
        /\ \/ \A u \in Threads \ {t} : pc'[u] = pc[u]
           \/ Fatal
    <3>1. \A op : Entry(op) \in Labels
      BY DEF Entry, Labels
    <3>2. PICK op \in Ops : pc' = [pc EXCEPT ![t] = Entry(op)]
      BY <1>1 DEF Call, Goto
    <3> QED
      BY <3>1, <3>2
  <2> QED
    BY <2>1, <2>2 DEF Moves
<1>2. CASE Payload(t)
  <2>1. /\ local' \in [Threads -> Locals]
        /\ \A u \in Threads \ {t} : local'[u] = local[u]
    BY <1>2, EditLocal, BlankType, LocalFields
       DEF Payload, history, exchange, keys, others
  <2>2. /\ pc' \in [Threads -> Labels]
        /\ \/ \A u \in Threads \ {t} : pc'[u] = pc[u]
           \/ Fatal
    BY <1>2 DEF Payload, Goto, Return, Labels
  <2> QED
    BY <2>1, <2>2 DEF Moves
<1>3. CASE Seal(t)
  <2>1. /\ local' \in [Threads -> Locals]
        /\ \A u \in Threads \ {t} : local'[u] = local[u]
    <3>1. CASE local' = [local EXCEPT ![t] = Blank]
      BY <3>1, EditLocal, BlankType
    <3>2. CASE sessionKey # Nil
               /\ local' = [local EXCEPT ![t].gen = sessionKey,
                                         ![t].seq = sendSeq]
      <4>1. local' \in [Threads -> Locals]
        BY <3>2, EditGenSeq DEF KeyNames
      <4> QED
        BY <3>2, <4>1
    <3> QED
      BY <1>3, <3>1, <3>2 DEF Seal, Return
  <2>2. /\ pc' \in [Threads -> Labels]
        /\ \/ \A u \in Threads \ {t} : pc'[u] = pc[u]
           \/ Fatal
    BY <1>3 DEF Seal, Goto, Return, Labels
  <2> QED
    BY <2>1, <2>2 DEF Moves
<1>4. CASE LoadMacKey(t)
  <2>1. /\ local' \in [Threads -> Locals]
        /\ \A u \in Threads \ {t} : local'[u] = local[u]
    <3>1. macKey \in KeyNames
      BY DEF KeyNames
    <3> QED
      BY <1>4, <3>1, EditLocal DEF LoadMacKey
  <2>2. /\ pc' \in [Threads -> Labels]
        /\ \/ \A u \in Threads \ {t} : pc'[u] = pc[u]
           \/ Fatal
    BY <1>4 DEF LoadMacKey, Goto, Labels
  <2> QED
    BY <2>1, <2>2 DEF Moves
<1>5. CASE CopyKey(t)
  <2>1. /\ local' \in [Threads -> Locals]
        /\ \A u \in Threads \ {t} : local'[u] = local[u]
    BY <1>5 DEF CopyKey, history, exchange, keys
  <2>2. /\ pc' \in [Threads -> Labels]
        /\ \/ \A u \in Threads \ {t} : pc'[u] = pc[u]
           \/ Fatal
    BY <1>5 DEF CopyKey, Goto, Return, Labels
  <2> QED
    BY <2>1, <2>2 DEF Moves
<1>6. CASE CopyData(t)
  <2>1. /\ local' \in [Threads -> Locals]
        /\ \A u \in Threads \ {t} : local'[u] = local[u]
    BY <1>6 DEF CopyData, history, exchange, keys
  <2>2. /\ pc' \in [Threads -> Labels]
        /\ \/ \A u \in Threads \ {t} : pc'[u] = pc[u]
           \/ Fatal
    BY <1>6 DEF CopyData, Goto, Return, Labels
  <2> QED
    BY <2>1, <2>2 DEF Moves
<1>7. CASE Hash(t)
  <2>1. /\ local' \in [Threads -> Locals]
        /\ \A u \in Threads \ {t} : local'[u] = local[u]
    BY <1>7, EditLocal, BlankType, LocalFields
       DEF Hash, history, exchange, keys, others, Buf
  <2>2. /\ pc' \in [Threads -> Labels]
        /\ \/ \A u \in Threads \ {t} : pc'[u] = pc[u]
           \/ Fatal
    BY <1>7 DEF Hash, Goto, Return, Labels
  <2> QED
    BY <2>1, <2>2 DEF Moves
<1>8. CASE Count(t)
  <2>1. /\ local' \in [Threads -> Locals]
        /\ \A u \in Threads \ {t} : local'[u] = local[u]
    BY <1>8, EditLocal, BlankType DEF Count, Return, exchange, keys, others
  <2>2. /\ pc' \in [Threads -> Labels]
        /\ \/ \A u \in Threads \ {t} : pc'[u] = pc[u]
           \/ Fatal
    BY <1>8 DEF Count, Goto, Return, Labels
  <2> QED
    BY <2>1, <2>2 DEF Moves
<1>9. CASE Open(t)
  <2>1. /\ local' \in [Threads -> Locals]
        /\ \A u \in Threads \ {t} : local'[u] = local[u]
    BY <1>9, EditLocal, BlankType
       DEF Open, Return, history, exchange, keys, others
  <2>2. /\ pc' \in [Threads -> Labels]
        /\ \/ \A u \in Threads \ {t} : pc'[u] = pc[u]
           \/ Fatal
    BY <1>9 DEF Open, Goto, Return, Labels
  <2> QED
    BY <2>1, <2>2 DEF Moves
<1>10. CASE Verify(t)
  <2>1. /\ local' \in [Threads -> Locals]
        /\ \A u \in Threads \ {t} : local'[u] = local[u]
    <3>1. \/ UNCHANGED local
          \/ local' = [local EXCEPT ![t].retried = TRUE]
          \/ local' = [local EXCEPT ![t] = Blank]
      BY <1>10 DEF Verify, Return
    <3>2. CASE local' = [local EXCEPT ![t].retried = TRUE]
      <4>1. \A b \in BOOLEAN :
               [local EXCEPT ![t].retried = b] \in [Threads -> Locals]
        BY EditLocal
      <4>2. local' \in [Threads -> Locals]
        BY <3>2, <4>1, Zenon
      <4> QED
        BY <3>2, <4>2
    <3> QED
      BY <3>1, <3>2, EditLocal, BlankType
  <2>2. /\ pc' \in [Threads -> Labels]
        /\ \/ \A u \in Threads \ {t} : pc'[u] = pc[u]
           \/ Fatal
    BY <1>10 DEF Verify, Goto, Return, Labels
  <2> QED
    BY <2>1, <2>2 DEF Moves
<1>11. CASE Check(t)
  <2>1. /\ local' \in [Threads -> Locals]
        /\ \A u \in Threads \ {t} : local'[u] = local[u]
    BY <1>11, EditLocal, BlankType
       DEF Check, Return, history, exchange, keys, others
  <2>2. /\ pc' \in [Threads -> Labels]
        /\ \/ \A u \in Threads \ {t} : pc'[u] = pc[u]
           \/ Fatal
    BY <1>11 DEF Check, Goto, Return, Labels
  <2> QED
    BY <2>1, <2>2 DEF Moves
<1>12. CASE Cipher(t)
  <2>1. /\ local' \in [Threads -> Locals]
        /\ \A u \in Threads \ {t} : local'[u] = local[u]
    <3>1. \/ UNCHANGED local
          \/ local' = [local EXCEPT ![t] = Blank]
      BY <1>12 DEF Cipher, Return
    <3> QED
      BY <3>1, EditLocal, BlankType
  <2>2. /\ pc' \in [Threads -> Labels]
        /\ \/ \A u \in Threads \ {t} : pc'[u] = pc[u]
           \/ Fatal
    BY <1>12 DEF Cipher, Goto, Return, Labels
  <2> QED
    BY <2>1, <2>2 DEF Moves
<1>13. CASE Expect(t)
  <2>1. /\ local' \in [Threads -> Locals]
        /\ \A u \in Threads \ {t} : local'[u] = local[u]
    <3>1. \/ local' = [local EXCEPT ![t].counter = local[t].packet.counter,
                                     ![t].gen = local[t].packet.gen]
          \/ local' = [local EXCEPT ![t] = Blank]
      BY <1>13 DEF Expect, Return
    <3>2. CASE local' = [local EXCEPT ![t].counter = local[t].packet.counter,
                                      ![t].gen = local[t].packet.gen]
      <4>1. /\ local[t].packet.counter \in Nat
            /\ local[t].packet.gen \in KeyNames
        BY LocalFields
      <4>2. local' \in [Threads -> Locals]
        BY <3>2, <4>1, EditCounterGen
      <4> QED
        BY <3>2, <4>2
    <3>3. CASE local' = [local EXCEPT ![t] = Blank]
      BY <3>3, EditLocal, BlankType
    <3> QED
      BY <3>1, <3>2, <3>3
  <2>2. /\ pc' \in [Threads -> Labels]
        /\ \/ \A u \in Threads \ {t} : pc'[u] = pc[u]
           \/ Fatal
    BY <1>13 DEF Expect, Goto, Return, Labels
  <2> QED
    BY <2>1, <2>2 DEF Moves
<1>14. CASE Derive(t)
  <2>1. /\ local' \in [Threads -> Locals]
        /\ \A u \in Threads \ {t} : local'[u] = local[u]
    BY <1>14, EditLocal, BlankType DEF Derive, Return, exchange, others
  <2>2. /\ pc' \in [Threads -> Labels]
        /\ \/ \A u \in Threads \ {t} : pc'[u] = pc[u]
           \/ Fatal
    BY <1>14 DEF Derive, Goto, Return, Labels
  <2> QED
    BY <2>1, <2>2 DEF Moves
<1>15. CASE Install(t)
  <2>1. /\ local' \in [Threads -> Locals]
        /\ \A u \in Threads \ {t} : local'[u] = local[u]
    BY <1>15, EditLocal, BlankType
       DEF Install, Return, history, exchange, others
  <2>2. /\ pc' \in [Threads -> Labels]
        /\ \/ \A u \in Threads \ {t} : pc'[u] = pc[u]
           \/ Fatal
    BY <1>15 DEF Install, Goto, Return, Labels
  <2> QED
    BY <2>1, <2>2 DEF Moves
<1>16. CASE Wipe(t)
  <2>1. /\ local' \in [Threads -> Locals]
        /\ \A u \in Threads \ {t} : local'[u] = local[u]
    BY <1>16 DEF Wipe, history, exchange, others
  <2>2. /\ pc' \in [Threads -> Labels]
        /\ \/ \A u \in Threads \ {t} : pc'[u] = pc[u]
           \/ Fatal
    BY <1>16 DEF Wipe, Goto, Return, Labels
  <2> QED
    BY <2>1, <2>2 DEF Moves
<1>17. CASE Forget(t)
  <2>1. /\ local' \in [Threads -> Locals]
        /\ \A u \in Threads \ {t} : local'[u] = local[u]
    BY <1>17, EditLocal, BlankType
       DEF Forget, Return, history, exchange, others
  <2>2. /\ pc' \in [Threads -> Labels]
        /\ \/ \A u \in Threads \ {t} : pc'[u] = pc[u]
           \/ Fatal
    BY <1>17 DEF Forget, Goto, Return, Labels
  <2> QED
    BY <2>1, <2>2 DEF Moves
<1>18. CASE Lock(t)
  <2>1. /\ local' \in [Threads -> Locals]
        /\ \A u \in Threads \ {t} : local'[u] = local[u]
    BY <1>18, EditLocal, BlankType, LocalFields
       DEF Lock, history, exchange, keys, others
  <2>2. /\ pc' \in [Threads -> Labels]
        /\ \/ \A u \in Threads \ {t} : pc'[u] = pc[u]
           \/ Fatal
    BY <1>18 DEF Lock, Goto, Return, Labels
  <2> QED
    BY <2>1, <2>2 DEF Moves
<1>19. CASE Lookup(t)
  <2>1. /\ local' \in [Threads -> Locals]
        /\ \A u \in Threads \ {t} : local'[u] = local[u]
    BY <1>19 DEF Lookup, Fatal, history, exchange, keys, others
  <2>2. /\ pc' \in [Threads -> Labels]
        /\ \/ \A u \in Threads \ {t} : pc'[u] = pc[u]
           \/ Fatal
    BY <1>19 DEF Lookup, Goto, Return, Labels, Multiplied, Fatal
  <2> QED
    BY <2>1, <2>2 DEF Moves
<1>20. CASE Store(t)
  <2>1. /\ local' \in [Threads -> Locals]
        /\ \A u \in Threads \ {t} : local'[u] = local[u]
    BY <1>20 DEF Store, Fatal, history, keys, others, exchange
  <2>2. /\ pc' \in [Threads -> Labels]
        /\ \/ \A u \in Threads \ {t} : pc'[u] = pc[u]
           \/ Fatal
    BY <1>20 DEF Store, Fatal, Goto, Return, Labels, others, exchange
  <2> QED
    BY <2>1, <2>2 DEF Moves
<1>21. CASE LookupInv(t)
  <2>1. /\ local' \in [Threads -> Locals]
        /\ \A u \in Threads \ {t} : local'[u] = local[u]
    BY <1>21 DEF LookupInv, Multiplied, Fatal, history, exchange, keys, others
  <2>2. /\ pc' \in [Threads -> Labels]
        /\ \/ \A u \in Threads \ {t} : pc'[u] = pc[u]
           \/ Fatal
    BY <1>21 DEF LookupInv, Goto, Return, Labels, Multiplied, Fatal
  <2> QED
    BY <2>1, <2>2 DEF Moves
<1>22. CASE StoreInv(t)
  <2>1. /\ local' \in [Threads -> Locals]
        /\ \A u \in Threads \ {t} : local'[u] = local[u]
    BY <1>22 DEF StoreInv, Multiplied, Fatal, history, keys, others, exchange
  <2>2. /\ pc' \in [Threads -> Labels]
        /\ \/ \A u \in Threads \ {t} : pc'[u] = pc[u]
           \/ Fatal
    BY <1>22
       DEF StoreInv, Goto, Fatal, Return, Labels, Multiplied, others, exchange
  <2> QED
    BY <2>1, <2>2 DEF Moves
<1>23. CASE SetRekeyPolicy(t)
  <2>1. /\ local' \in [Threads -> Locals]
        /\ \A u \in Threads \ {t} : local'[u] = local[u]
    BY <1>23, EditLocal, BlankType
       DEF SetRekeyPolicy, Return, history, exchange, keys
  <2>2. /\ pc' \in [Threads -> Labels]
        /\ \/ \A u \in Threads \ {t} : pc'[u] = pc[u]
           \/ Fatal
    BY <1>23 DEF SetRekeyPolicy, Goto, Return, Labels
  <2> QED
    BY <2>1, <2>2 DEF Moves
<1>24. CASE InstallPair(t)
  <2>1. /\ local' \in [Threads -> Locals]
        /\ \A u \in Threads \ {t} : local'[u] = local[u]
    BY <1>24, EditLocal, BlankType
       DEF InstallPair, Return, history, exchange, keys, others
  <2>2. /\ pc' \in [Threads -> Labels]
        /\ \/ \A u \in Threads \ {t} : pc'[u] = pc[u]
           \/ Fatal
    BY <1>24 DEF InstallPair, Goto, Return, Labels
  <2> QED
    BY <2>1, <2>2 DEF Moves
<1>25. CASE Fresh(t)
  <2>1. /\ local' \in [Threads -> Locals]
        /\ \A u \in Threads \ {t} : local'[u] = local[u]
    BY <1>25 DEF Fresh, history, exchange, others
  <2>2. /\ pc' \in [Threads -> Labels]
        /\ \/ \A u \in Threads \ {t} : pc'[u] = pc[u]
           \/ Fatal
    BY <1>25 DEF Fresh, Goto, Return, Labels
  <2> QED
    BY <2>1, <2>2 DEF Moves
<1>26. CASE Fill(t)
  <2>1. /\ local' \in [Threads -> Locals]
        /\ \A u \in Threads \ {t} : local'[u] = local[u]
    BY <1>26, EditLocal, BlankType DEF Fill, Return, history, exchange, others
  <2>2. /\ pc' \in [Threads -> Labels]
        /\ \/ \A u \in Threads \ {t} : pc'[u] = pc[u]
           \/ Fatal
    BY <1>26 DEF Fill, Goto, Return, Labels
  <2> QED
    BY <2>1, <2>2 DEF Moves
<1> QED
  BY <1>1, <1>2, <1>3, <1>4, <1>5, <1>6, <1>7, <1>8, <1>9, <1>10, <1>11,
     <1>12, <1>13, <1>14, <1>15, <1>16, <1>17, <1>18, <1>19, <1>20, <1>21,
     <1>22, <1>23, <1>24, <1>25, <1>26
     DEF Step

(* What Call does. *)
Calls(t, op, p) ==
    /\ pc[t] = "idle"
    /\ calls < MaxCalls
    /\ calls' = calls + 1
    /\ MayCall(t, op)
    /\ pc' = [pc EXCEPT ![t] = Entry(op)]
    /\ \A v \in Threads \ {t} : local'[v] = local[v]
    /\ local'[t].op = op
    /\ local'[t].call = calls + 1
    /\ local'[t].cold = ~warm
    /\ Entry(op) = "open" => local'[t].packet = p
    /\ UNCHANGED <<mu, keys, messagesEncrypted, sendSeq, receivedPackets,
                   others, history>>

(* Call does what Calls says, for some operation and packet. *)
LEMMA CallEffect ==
    ASSUME TypeInv, NEW t \in Threads, Call(t)
    PROVE  \E op \in Ops, p \in Incoming : Calls(t, op, p)
<1>1. PICK op \in Ops, p \in Incoming :
         /\ MayCall(t, op)
         /\ Goto(t, Entry(op))
         /\ local' = [local EXCEPT ![t] =
                         [Blank EXCEPT
                            !.op = op, !.call = calls + 1, !.cold = ~warm,
                            !.packet = IF Entry(op) = "open"
                                         THEN p ELSE NoPacket]]
  BY DEF Call
<1>2. /\ local'[t].op = op
      /\ local'[t].call = calls + 1
      /\ Entry(op) = "open" => local'[t].packet = p
      /\ \A v \in Threads \ {t} : local'[v] = local[v]
  BY <1>1 DEF Blank, TypeInv
<1>3. local'[t].cold = ~warm
  BY <1>1 DEF Blank, TypeInv, Shared
<1> QED
  BY <1>1, <1>2, <1>3 DEF Call, Calls, Goto

(* Every step keeps the shared variables in their types. *)
LEMMA StepShared ==
    ASSUME TypeInv, NEW t \in Threads, Call(t) \/ Step(t)
    PROVE  Shared'
<1> USE DEF TypeInv, Shared
<1>1. CASE Call(t)
  <2>1. /\ calls' = calls + 1
        /\ UNCHANGED <<mu, keys, messagesEncrypted, sendSeq,
                       receivedPackets, others>>
    BY <1>1 DEF Call
  <2> QED
    BY <2>1 DEF keys, others, exchange
<1>2. CASE Payload(t)
  BY <1>2 DEF Payload, keys, others, exchange, history
<1>3. CASE Seal(t)
  BY <1>3, NextSeqType DEF Seal, keys, others, exchange, history
<1>4. CASE LoadMacKey(t)
  BY <1>4 DEF LoadMacKey, keys, others, exchange, history
<1>5. CASE CopyKey(t)
  BY <1>5, LocalFields
     DEF CopyKey, Buf, Tags, KeyNames, keys, exchange, history
<1>6. CASE CopyData(t)
  BY <1>6, LocalFields
     DEF CopyData, Buf, Tags, KeyNames, keys, exchange, history
<1>7. CASE Hash(t)
  BY <1>7 DEF Hash, keys, others, exchange, history
<1>8. CASE Count(t)
  BY <1>8 DEF Count, keys, others, exchange
<1>9. CASE Open(t)
  BY <1>9 DEF Open, keys, others, exchange, history
<1>10. CASE Verify(t)
  BY <1>10 DEF Verify, keys, others, exchange, history
<1>11. CASE Check(t)
  BY <1>11, AdmitType, LocalFields DEF Check, keys, others, exchange, history
<1>12. CASE Cipher(t)
  BY <1>12 DEF Cipher, keys, others, exchange
<1>13. CASE Expect(t)
  BY <1>13 DEF Expect, keys, others, exchange, history
<1>14. CASE Derive(t)
  BY <1>14 DEF Derive, KeyNames, others, exchange
<1>15. CASE Install(t)
  BY <1>15 DEF Install, NextKey, KeyNames, Holds, others, exchange, history
<1>16. CASE Wipe(t)
  BY <1>16 DEF Wipe, KeyNames, others, exchange, history
<1>17. CASE Forget(t)
  BY <1>17 DEF Forget, KeyNames, others, exchange, history
<1>18. CASE Lock(t)
  BY <1>18 DEF Lock, keys, others, exchange, history
<1>19. CASE Lookup(t)
  BY <1>19 DEF Lookup, Fatal, keys, others, exchange, history
<1>20. CASE Store(t)
  BY <1>20 DEF Store, Fatal, keys, history, others, exchange
<1>21. CASE LookupInv(t)
  BY <1>21 DEF LookupInv, Multiplied, Fatal, keys, others, exchange, history
<1>22. CASE StoreInv(t)
  BY <1>22 DEF StoreInv, Multiplied, Fatal, keys, history, others, exchange
<1>23. CASE SetRekeyPolicy(t)
  BY <1>23 DEF SetRekeyPolicy, keys, exchange, history
<1>24. CASE InstallPair(t)
  BY <1>24 DEF InstallPair, keys, others, exchange, history
<1>25. CASE Fresh(t)
  BY <1>25, LocalFields DEF Fresh, KeyNames, others, exchange, history
<1>26. CASE Fill(t)
  BY <1>26 DEF Fill, KeyNames, others, exchange, history
<1> QED
  BY <1>1, <1>2, <1>3, <1>4, <1>5, <1>6, <1>7, <1>8, <1>9, <1>10, <1>11,
     <1>12, <1>13, <1>14, <1>15, <1>16, <1>17, <1>18, <1>19, <1>20, <1>21,
     <1>22, <1>23, <1>24, <1>25, <1>26
     DEF Step

(* Every step keeps the rules about the lock. *)
LEMMA StepHolds ==
    ASSUME TypeInv, NEW t \in Threads, Call(t) \/ Step(t)
    PROVE  \A u \in Threads : Holds(u)'
<1> USE DEF TypeInv, Shared
<1> SUFFICES ASSUME NEW u \in Threads PROVE Holds(u)'
  OBVIOUS
<1>1. CASE Call(t)
  <2>1. PICK op \in Ops, p \in Incoming : Calls(t, op, p)
    BY <1>1, CallEffect
  <2>2. /\ Entry(op) \notin {"install", "forget", "fresh", "fill"}
        /\ op = "Handshake" => Entry(op) \notin Multiplying
    BY DEF Entry, Multiplying
  <2> QED
    BY <2>1, <2>2 DEF Holds, Calls, keys
<1>2. CASE Payload(t)
  BY <1>2, ThreadAssumption
     DEF Payload, Holds, Goto, Multiplying, Locals, Labels, keys, others,
         exchange, history
<1>3. CASE Seal(t)
  BY <1>3, ThreadAssumption
     DEF Seal, Holds, Goto, Return, Multiplying, Blank, Locals, Labels, keys,
         others, exchange, history
<1>4. CASE LoadMacKey(t)
  BY <1>4, ThreadAssumption
     DEF LoadMacKey, Holds, Goto, Multiplying, Locals, Labels, keys, others,
         exchange, history
<1>5. CASE CopyKey(t)
  BY <1>5, ThreadAssumption
     DEF CopyKey, Holds, Goto, Multiplying, Locals, Labels, keys, exchange,
         history
<1>6. CASE CopyData(t)
  BY <1>6, ThreadAssumption
     DEF CopyData, Holds, Goto, Multiplying, Locals, Labels, keys, exchange,
         history
<1>7. CASE Hash(t)
  BY <1>7, ThreadAssumption
     DEF Hash, Holds, Goto, Multiplying, Locals, Labels, keys, others,
         exchange, history
<1>8. CASE Count(t)
  BY <1>8, ThreadAssumption
     DEF Count, Holds, Goto, Return, Multiplying, Blank, Locals, Labels, keys,
         others, exchange
<1>9. CASE Open(t)
  BY <1>9, ThreadAssumption
     DEF Open, Holds, Goto, Return, Multiplying, Blank, Locals, Labels, keys,
         others, exchange, history
<1>10. CASE Verify(t)
  BY <1>10, ThreadAssumption
     DEF Verify, Holds, Goto, Return, Multiplying, Blank, Locals, Labels,
         keys, others, exchange, history
<1>11. CASE Check(t)
  BY <1>11, ThreadAssumption
     DEF Check, Holds, Goto, Return, Multiplying, Blank, Locals, Labels, keys,
         others, exchange, history
<1>12. CASE Cipher(t)
  BY <1>12, ThreadAssumption
     DEF Cipher, Holds, Goto, Return, Multiplying, Blank, Locals, Labels,
         keys, others, exchange
<1>13. CASE Expect(t)
  BY <1>13, ThreadAssumption
     DEF Expect, Holds, Goto, Return, Multiplying, Blank, Locals, Labels,
         keys, others, exchange, history
<1>14. CASE Derive(t)
  BY <1>14, ThreadAssumption
     DEF Derive, Holds, Goto, Return, Multiplying, Blank, Locals, Labels,
         others, exchange
<1>15. CASE Install(t)
  BY <1>15, ThreadAssumption
     DEF Install, NextKey, Holds, Goto, Return, Multiplying, Blank, Locals,
         Labels, others, exchange, history
<1>16. CASE Wipe(t)
  BY <1>16, ThreadAssumption
     DEF Wipe, Holds, Goto, Multiplying, Locals, Labels, others, exchange,
         history
<1>17. CASE Forget(t)
  BY <1>17, ThreadAssumption
     DEF Forget, Holds, Goto, Return, Multiplying, Blank, Locals, Labels,
         others, exchange, history
<1>18. CASE Lock(t)
  BY <1>18, ThreadAssumption
     DEF Lock, Holds, Goto, Multiplying, Locals, Labels, keys, others,
         exchange, history
<1>19. CASE Lookup(t)
  BY <1>19, ThreadAssumption
     DEF Lookup, Fatal, Holds, Goto, Multiplying, Locals, Labels, keys,
         others, exchange, history
<1>20. CASE Store(t)
  BY <1>20, ThreadAssumption
     DEF Store, Fatal, Holds, Goto, Multiplying, Locals, Labels, keys,
         history, others, exchange
<1>21. CASE LookupInv(t)
  BY <1>21, ThreadAssumption
     DEF LookupInv, Multiplied, Fatal, Holds, Goto, Multiplying, Locals,
         Labels, keys, others, exchange, history
<1>22. CASE StoreInv(t)
  BY <1>22, ThreadAssumption
     DEF StoreInv, Multiplied, Fatal, Holds, Goto, Multiplying, Locals,
         Labels, keys, history, others, exchange
<1>23. CASE SetRekeyPolicy(t)
  BY <1>23, ThreadAssumption
     DEF SetRekeyPolicy, Holds, Goto, Return, Multiplying, Blank, Locals,
         Labels, keys, exchange, history
<1>24. CASE InstallPair(t)
  BY <1>24, ThreadAssumption
     DEF InstallPair, Holds, Goto, Return, Multiplying, Blank, Locals, Labels,
         keys, others, exchange, history
<1>25. CASE Fresh(t)
  BY <1>25, ThreadAssumption
     DEF Fresh, Holds, Goto, Multiplying, Locals, Labels, others, exchange,
         history
<1>26. CASE Fill(t)
  BY <1>26, ThreadAssumption
     DEF Fill, Holds, Goto, Return, Multiplying, Blank, Locals, Labels,
         others, exchange, history
<1> QED
  BY <1>1, <1>2, <1>3, <1>4, <1>5, <1>6, <1>7, <1>8, <1>9, <1>10, <1>11,
     <1>12, <1>13, <1>14, <1>15, <1>16, <1>17, <1>18, <1>19, <1>20, <1>21,
     <1>22, <1>23, <1>24, <1>25, <1>26
     DEF Step

(* The types hold at the start. *)
LEMMA InitType == Init => TypeInv
<1> SUFFICES ASSUME Init PROVE TypeInv
  OBVIOUS
<1>1. /\ NoTag \in Tags
      /\ 0 \in Seqs
      /\ <<0, 0>> \in KeyNames
  BY SeqModAssumption DEF NoTag, Tags, KeyNames, Seqs
<1> QED
  BY <1>1, BlankType DEF Init, TypeInv, Shared, Holds, Labels, Multiplying

(* The types, with the rules about the lock, are inductive. *)
LEMMA StepType == TypeInv /\ [Next]_vars => TypeInv'
<1> SUFFICES ASSUME TypeInv, [Next]_vars PROVE TypeInv'
  OBVIOUS
<1>1. CASE UNCHANGED vars
  BY <1>1 DEF vars, keys, others, exchange, history, TypeInv, Shared, Holds
<1>2. ASSUME NEW t \in Threads, Call(t) \/ Step(t) PROVE TypeInv'
  BY <1>2, StepMoves, StepShared, StepHolds DEF TypeInv, Moves
<1> QED
  BY <1>1, <1>2 DEF Next, Done

(* They are stronger than the invariant that the runs check. *)
LEMMA TypeInvImpliesTypeOK == TypeInv => TypeOK
BY DEF TypeInv, TypeOK, Shared, Holds, KeyNames

(* The inductive invariant about types and lock holds throughout. *)
THEOREM Types == Spec => []TypeInv
<1>1. Init => TypeInv
  BY InitType
<1> QED
  BY <1>1, StepType, PTL DEF Spec

(* Every variable keeps its type, and the steps that hold qd.mu hold it,   *)
(* for any number of threads.                                              *)
THEOREM TypeCorrect == Spec => []TypeOK
BY Types, TypeInvImpliesTypeOK, PTL
-----------------------------------------------------------------------------
(* Why the caches are quiet: once a multiplication is completed both maps  *)
(* are filled, a thread past the first lookup has found or stored the      *)
(* first, and one that stores began cold.                                  *)
Caches ==
    /\ warm => cache = {"W", "Inv"}
    /\ \A t \in Threads :
          /\ pc[t] \in {"lookupInv", "storeInv"} => "W" \in cache
          /\ pc[t] \in {"lookup", "lookupInv"} /\ ~local[t].cold => warm
          /\ pc[t] \in {"storeW", "storeInv"} => local[t].cold

(* The steps of a multiplication keep the facts about the caches. *)
LEMMA StepCaches ==
    ASSUME TypeInv, Caches, NEW t \in Threads, Call(t) \/ Step(t)
    PROVE  Caches'
<1> USE DEF TypeInv, Shared, Caches
<1>1. CASE Payload(t)
  BY <1>1 DEF Payload, Goto, Locals, keys, others, exchange
<1>2. CASE Seal(t)
  BY <1>2 DEF Seal, Goto, Return, Blank, Locals, keys, others, exchange
<1>3. CASE LoadMacKey(t)
  BY <1>3 DEF LoadMacKey, Goto, Locals, keys, others, exchange
<1>4. CASE CopyKey(t)
  BY <1>4 DEF CopyKey, Goto, Locals, keys, exchange
<1>5. CASE CopyData(t)
  BY <1>5 DEF CopyData, Goto, Locals, keys, exchange
<1>6. CASE Hash(t)
  BY <1>6 DEF Hash, Goto, Locals, keys, others, exchange
<1>7. CASE Count(t)
  BY <1>7 DEF Count, Goto, Return, Blank, Locals, keys, others, exchange
<1>8. CASE Open(t)
  BY <1>8 DEF Open, Goto, Return, Blank, Locals, keys, others, exchange
<1>9. CASE Verify(t)
  BY <1>9 DEF Verify, Goto, Return, Blank, Locals, keys, others, exchange
<1>10. CASE Check(t)
  BY <1>10 DEF Check, Goto, Return, Blank, Locals, keys, others, exchange
<1>11. CASE Cipher(t)
  BY <1>11 DEF Cipher, Goto, Return, Blank, Locals, keys, others, exchange
<1>12. CASE Expect(t)
  BY <1>12 DEF Expect, Goto, Return, Blank, Locals, keys, others, exchange
<1>13. CASE Derive(t)
  BY <1>13 DEF Derive, Goto, Return, Blank, Locals, others, exchange
<1>14. CASE Install(t)
  BY <1>14 DEF Install, Goto, Return, Blank, Locals, others, exchange
<1>15. CASE Wipe(t)
  BY <1>15 DEF Wipe, Goto, Locals, others, exchange
<1>16. CASE Forget(t)
  BY <1>16 DEF Forget, Goto, Return, Blank, Locals, others, exchange
<1>17. CASE Lock(t)
  BY <1>17 DEF Lock, Goto, Locals, keys, others, exchange
<1>18. CASE Lookup(t)
  BY <1>18 DEF Lookup, Fatal, Goto, Locals, keys, others, exchange
<1>19. CASE Store(t)
  BY <1>19 DEF Store, Fatal, Goto, Locals, keys, others, exchange
<1>20. CASE LookupInv(t)
  <2>1. CASE Fatal
    BY <1>20, <2>1 DEF LookupInv, Fatal, others, exchange
  <2>2. CASE "Inv" \in cache /\ Multiplied(t) /\ UNCHANGED <<cache, local>>
    <3>1. cache = {"W", "Inv"}
      BY <1>20, <2>2 DEF LookupInv
    <3> QED
      BY <2>2, <3>1 DEF Multiplied, Goto
  <2>3. CASE /\ "Inv" \notin cache
             /\ Goto(t, "storeInv")
             /\ UNCHANGED <<cache, warm, local>>
    <3>1. ~warm /\ local[t].cold /\ "W" \in cache
      BY <1>20, <2>3 DEF LookupInv
    <3> QED
      BY <2>3, <3>1 DEF Goto
  <2> QED
    BY <1>20, <2>1, <2>2, <2>3 DEF LookupInv
<1>21. CASE StoreInv(t)
  <2>1. CASE Fatal
    BY <2>1 DEF Fatal, others, exchange
  <2>2. CASE /\ cache' = cache \cup {"Inv"}
             /\ Multiplied(t)
             /\ UNCHANGED local
    <3>1. "W" \in cache
      BY <1>21 DEF StoreInv
    <3> QED
      BY <2>2, <3>1 DEF Multiplied, Goto
  <2> QED
    BY <1>21, <2>1, <2>2 DEF StoreInv
<1>22. CASE SetRekeyPolicy(t)
  BY <1>22 DEF SetRekeyPolicy, Goto, Return, Blank, Locals, keys, exchange
<1>23. CASE InstallPair(t)
  BY <1>23
     DEF InstallPair, Goto, Return, Blank, Locals, keys, others, exchange
<1>24. CASE Fresh(t)
  BY <1>24 DEF Fresh, Goto, Locals, others, exchange
<1>25. CASE Fill(t)
  BY <1>25 DEF Fill, Goto, Return, Blank, Locals, others, exchange
<1>26. CASE Call(t)
  <2>1. PICK op \in Ops, p \in Incoming : Calls(t, op, p)
    BY <1>26, CallEffect
  <2>2. Entry(op) \notin {"lookupInv", "storeW", "storeInv"}
    BY DEF Entry
  <2> QED
    BY <2>1, <2>2 DEF Calls, others, exchange
<1> QED
  BY <1>1, <1>2, <1>3, <1>4, <1>5, <1>6, <1>7, <1>8, <1>9, <1>10, <1>11,
     <1>12, <1>13, <1>14, <1>15, <1>16, <1>17, <1>18, <1>19, <1>20, <1>21,
     <1>22, <1>23, <1>24, <1>25, <1>26
     DEF Step

(* The twiddle caches are written only by multiplications that began       *)
(* before any other was completed, however many threads share the object   *)
(* and whether or not they keep to a discipline.                           *)
THEOREM CachesQuiet == Spec => []WarmCacheQuiet
<1>1. Init => Caches
  BY DEF Init, Caches
<1>2. TypeInv /\ Caches /\ [Next]_vars => Caches'
  <2> SUFFICES ASSUME TypeInv, Caches, [Next]_vars PROVE Caches'
    OBVIOUS
  <2>1. CASE UNCHANGED vars
    BY <2>1 DEF vars, others, exchange, Caches
  <2> QED
    BY <2>1, StepCaches DEF Next, Done
<1>3. Caches => WarmCacheQuiet
  BY DEF Caches, WarmCacheQuiet
<1> QED
  BY <1>1, <1>2, <1>3, Types, PTL DEF Spec
-----------------------------------------------------------------------------
(* The places a call passes through. *)
Path(op) ==
    CASE op = "Encrypt" ->
           {"seal", "load", "copyKey", "copyData", "hash", "count"}
      [] op = "Rekey" ->
           {"payload", "seal", "load", "copyKey", "copyData", "hash", "count",
            "derive", "install", "callback"}
      [] op = "Decrypt" ->
           {"open", "load", "copyKey", "copyData", "verify", "check",
            "cipher"}
      [] op = "ApplyRekey" ->
           {"open", "load", "copyKey", "copyData", "verify", "check",
            "cipher", "expect", "derive", "install", "callback"}
      [] op = "Dispose" -> {"wipe", "forget"}
      [] op = "SetRekeyPolicy" -> {"policy"}
      [] op = "GenerateKeyPair" -> Multiplying \cup {"pair"}
      [] op = "Handshake" -> Multiplying \cup {"lock", "fresh", "fill"}
      [] OTHER -> {}

Stopped == {"idle", "panicked", "killed"}

OnPath == \A t \in Threads : pc[t] \in Path(local[t].op) \cup Stopped

(* A call stays on its path. *)
LEMMA StepOnPath ==
    ASSUME TypeInv, OnPath, NEW t \in Threads, Call(t) \/ Step(t)
    PROVE  OnPath'
<1> USE DEF TypeInv, OnPath
<1>1. CASE Payload(t)
  BY <1>1
     DEF Payload, Path, Stopped, Multiplying, Goto, Locals, others, exchange
<1>2. CASE Seal(t)
  BY <1>2
     DEF Seal, Path, Stopped, Multiplying, Goto, Return, Blank, Locals,
         others, exchange
<1>3. CASE LoadMacKey(t)
  BY <1>3
     DEF LoadMacKey, Path, Stopped, Multiplying, Goto, Locals, others,
         exchange
<1>4. CASE CopyKey(t)
  BY <1>4 DEF CopyKey, Path, Stopped, Multiplying, Goto, Locals, exchange
<1>5. CASE CopyData(t)
  BY <1>5
     DEF CopyData, Receiving, Path, Stopped, Multiplying, Goto, Locals,
         exchange
<1>6. CASE Hash(t)
  BY <1>6 DEF Hash, Path, Stopped, Multiplying, Goto, Locals, others, exchange
<1>7. CASE Count(t)
  BY <1>7
     DEF Count, Path, Stopped, Multiplying, Goto, Return, Blank, Locals,
         others, exchange
<1>8. CASE Open(t)
  BY <1>8
     DEF Open, Path, Stopped, Multiplying, Goto, Return, Blank, Locals,
         others, exchange
<1>9. CASE Verify(t)
  BY <1>9
     DEF Verify, Path, Stopped, Multiplying, Goto, Return, Blank, Locals,
         others, exchange
<1>10. CASE Check(t)
  BY <1>10
     DEF Check, Path, Stopped, Multiplying, Goto, Return, Blank, Locals,
         others, exchange
<1>11. CASE Cipher(t)
  BY <1>11
     DEF Cipher, Path, Stopped, Multiplying, Goto, Return, Blank, Locals,
         others, exchange
<1>12. CASE Expect(t)
  BY <1>12
     DEF Expect, Path, Stopped, Multiplying, Goto, Return, Blank, Locals,
         others, exchange
<1>13. CASE Derive(t)
  BY <1>13
     DEF Derive, Path, Stopped, Multiplying, Goto, Return, Blank, Locals,
         others, exchange
<1>14. CASE Install(t)
  BY <1>14
     DEF Install, Path, Stopped, Multiplying, Goto, Return, Blank, Locals,
         others, exchange
<1>15. CASE Wipe(t)
  BY <1>15
     DEF Wipe, Path, Stopped, Multiplying, Goto, Locals, others, exchange
<1>16. CASE Forget(t)
  BY <1>16
     DEF Forget, Path, Stopped, Multiplying, Goto, Return, Blank, Locals,
         others, exchange
<1>17. CASE Lock(t)
  BY <1>17
     DEF Lock, Path, Stopped, Multiplying, Goto, Locals, others, exchange
<1>18. CASE Lookup(t)
  BY <1>18
     DEF Lookup, Fatal, Path, Stopped, Multiplying, Goto, Locals, others,
         exchange
<1>19. CASE Store(t)
  BY <1>19
     DEF Store, Fatal, Path, Stopped, Multiplying, Goto, Locals, others,
         exchange
<1>20. CASE LookupInv(t)
  BY <1>20
     DEF LookupInv, Multiplied, Fatal, Path, Stopped, Multiplying, Goto,
         Locals, others, exchange
<1>21. CASE StoreInv(t)
  BY <1>21
     DEF StoreInv, Multiplied, Fatal, Path, Stopped, Multiplying, Goto,
         Locals, others, exchange
<1>22. CASE SetRekeyPolicy(t)
  BY <1>22
     DEF SetRekeyPolicy, Path, Stopped, Multiplying, Goto, Return, Blank,
         Locals, exchange
<1>23. CASE InstallPair(t)
  BY <1>23
     DEF InstallPair, Path, Stopped, Multiplying, Goto, Return, Blank, Locals,
         others, exchange
<1>24. CASE Fresh(t)
  BY <1>24
     DEF Fresh, Path, Stopped, Multiplying, Goto, Locals, others, exchange
<1>25. CASE Fill(t)
  BY <1>25
     DEF Fill, Path, Stopped, Multiplying, Goto, Return, Blank, Locals,
         others, exchange
<1>26. CASE Call(t)
  <2>1. PICK op \in Ops, p \in Incoming : Calls(t, op, p)
    BY <1>26, CallEffect
  <2>2. Entry(op) \in Path(op)
    BY ThreadAssumption DEF Entry, Path, Multiplying, KeyOps
  <2> QED
    BY <2>1, <2>2 DEF Calls
<1> QED
  BY <1>1, <1>2, <1>3, <1>4, <1>5, <1>6, <1>7, <1>8, <1>9, <1>10, <1>11,
     <1>12, <1>13, <1>14, <1>15, <1>16, <1>17, <1>18, <1>19, <1>20, <1>21,
     <1>22, <1>23, <1>24, <1>25, <1>26
     DEF Step

(* Every thread is where its operation can be, or has stopped. *)
THEOREM Paths == Spec => []OnPath
<1>1. Init => OnPath
  BY DEF Init, OnPath, Stopped
<1>2. TypeInv /\ OnPath /\ [Next]_vars => OnPath'
  <2> SUFFICES ASSUME TypeInv, OnPath, [Next]_vars PROVE OnPath'
    OBVIOUS
  <2>1. CASE UNCHANGED vars
    BY <2>1 DEF vars, OnPath
  <2> QED
    BY <2>1, StepOnPath DEF Next, Done
<1> QED
  BY <1>1, <1>2, Types, PTL DEF Spec
-----------------------------------------------------------------------------
(* The calls that will draw a number, and the numbers drawn. *)
ToDraw == {t \in Threads : pc[t] \in {"payload", "seal"}}

DrawnNumbers ==
    {[call |-> m.call, seq |-> m.seq] : m \in sent}
    \cup {[call |-> local[t].call, seq |-> local[t].seq] :
             t \in {u \in Threads : Sealing(u)}}

(* Why numbers are unique: those drawn are below the next, and a call      *)
(* draws one, so fewer than 2^32 calls do not bring sendSeq round.         *)
Numbers ==
    /\ calls <= MaxCalls
    /\ sendSeq + Cardinality(ToDraw) <= calls
    /\ DrawnNumbers \subseteq [call : Nat, seq : Seqs]
    /\ \A m \in DrawnNumbers : m.seq < sendSeq
    /\ \A m, n \in DrawnNumbers : m.seq = n.seq => m = n

(* The calls that will draw a number can be counted. *)
LEMMA ToDrawFinite ==
    /\ IsFiniteSet(ToDraw)
    /\ Cardinality(ToDraw) \in Nat
<1>1. IsFiniteSet(ToDraw)
  BY ThreadAssumption, FS_Subset DEF ToDraw
<1> QED
  BY <1>1, FS_CardinalityType

(* A step other than Call and Seal draws no number. *)
LEMMA NothingDrawn ==
    ASSUME TypeInv, OnPath, NEW t \in Threads, Step(t), ~Seal(t)
    PROVE  /\ UNCHANGED <<calls, sendSeq>>
           /\ ToDraw' \subseteq ToDraw
           /\ DrawnNumbers' \subseteq DrawnNumbers
<1> USE DEF TypeInv
<1> DEFINE Same == /\ UNCHANGED <<calls, sendSeq, sent>>
                   /\ ToDraw' \subseteq ToDraw
                   /\ \A u \in Threads :
                        Sealing(u)' => /\ Sealing(u)
                                        /\ local'[u].call = local[u].call
                                        /\ local'[u].seq = local[u].seq
<1>1. Same => /\ UNCHANGED <<calls, sendSeq>>
              /\ ToDraw' \subseteq ToDraw
              /\ DrawnNumbers' \subseteq DrawnNumbers
  BY DEF DrawnNumbers
<1>2. CASE Payload(t)
  <2>1. Same
    BY <1>2
       DEF Payload, OnPath, Path, Stopped, Multiplying, Goto, Locals, Sealing,
           Receiving, ToDraw, history, others, exchange
  <2> QED
    BY <2>1, <1>1
<1>3. CASE LoadMacKey(t)
  <2>1. Same
    BY <1>3
       DEF LoadMacKey, OnPath, Path, Stopped, Multiplying, Goto, Locals,
           Sealing, Receiving, ToDraw, history, others, exchange
  <2> QED
    BY <2>1, <1>1
<1>4. CASE CopyKey(t)
  <2>1. Same
    BY <1>4
       DEF CopyKey, OnPath, Path, Stopped, Multiplying, Goto, Locals, Sealing,
           Receiving, ToDraw, history, exchange
  <2> QED
    BY <2>1, <1>1
<1>5. CASE CopyData(t)
  <2>1. Same
    BY <1>5
       DEF CopyData, OnPath, Path, Stopped, Multiplying, Goto, Locals,
           Sealing, Receiving, ToDraw, history, exchange
  <2> QED
    BY <2>1, <1>1
<1>6. CASE Hash(t)
  <2>1. Same
    BY <1>6
       DEF Hash, OnPath, Path, Stopped, Multiplying, Goto, Locals, Sealing,
           Receiving, ToDraw, history, others, exchange
  <2> QED
    BY <2>1, <1>1
<1>7. CASE Open(t)
  <2>1. Same
    BY <1>7
       DEF Open, OnPath, Path, Stopped, Multiplying, Goto, Return, Blank,
           Locals, Sealing, Receiving, ToDraw, history, others, exchange
  <2> QED
    BY <2>1, <1>1
<1>8. CASE Verify(t)
  <2>1. Same
    BY <1>8
       DEF Verify, OnPath, Path, Stopped, Multiplying, Goto, Return, Blank,
           Locals, Sealing, Receiving, ToDraw, history, others, exchange
  <2> QED
    BY <2>1, <1>1
<1>9. CASE Check(t)
  <2>1. Same
    BY <1>9
       DEF Check, OnPath, Path, Stopped, Multiplying, Goto, Return, Blank,
           Locals, Sealing, Receiving, ToDraw, history, others, exchange
  <2> QED
    BY <2>1, <1>1
<1>10. CASE Cipher(t)
  <2>1. Same
    BY <1>10
       DEF Cipher, OnPath, Path, Stopped, Multiplying, Goto, Return, Blank,
           Locals, Sealing, Receiving, ToDraw, others, exchange
  <2> QED
    BY <2>1, <1>1
<1>11. CASE Expect(t)
  <2>1. Same
    BY <1>11
       DEF Expect, OnPath, Path, Stopped, Multiplying, Goto, Return, Blank,
           Locals, Sealing, Receiving, ToDraw, history, others, exchange
  <2> QED
    BY <2>1, <1>1
<1>12. CASE Derive(t)
  <2>1. Same
    BY <1>12
       DEF Derive, OnPath, Path, Stopped, Multiplying, Goto, Return, Blank,
           Locals, Sealing, Receiving, ToDraw, others, exchange
  <2> QED
    BY <2>1, <1>1
<1>13. CASE Install(t)
  <2>1. Same
    BY <1>13
       DEF Install, OnPath, Path, Stopped, Multiplying, Goto, Return, Blank,
           Locals, Sealing, Receiving, ToDraw, history, others, exchange
  <2> QED
    BY <2>1, <1>1
<1>14. CASE Wipe(t)
  <2>1. Same
    BY <1>14
       DEF Wipe, OnPath, Path, Stopped, Multiplying, Goto, Locals, Sealing,
           Receiving, ToDraw, history, others, exchange
  <2> QED
    BY <2>1, <1>1
<1>15. CASE Forget(t)
  <2>1. Same
    BY <1>15
       DEF Forget, OnPath, Path, Stopped, Multiplying, Goto, Return, Blank,
           Locals, Sealing, Receiving, ToDraw, history, others, exchange
  <2> QED
    BY <2>1, <1>1
<1>16. CASE Lock(t)
  <2>1. Same
    BY <1>16
       DEF Lock, OnPath, Path, Stopped, Multiplying, Goto, Locals, Sealing,
           Receiving, ToDraw, history, others, exchange
  <2> QED
    BY <2>1, <1>1
<1>17. CASE Lookup(t)
  <2>1. Same
    BY <1>17
       DEF Lookup, Fatal, OnPath, Path, Stopped, Multiplying, Goto, Locals,
           Sealing, Receiving, ToDraw, history, others, exchange
  <2> QED
    BY <2>1, <1>1
<1>18. CASE Store(t)
  <2>1. Same
    BY <1>18
       DEF Store, Fatal, OnPath, Path, Stopped, Multiplying, Goto, Locals,
           Sealing, Receiving, ToDraw, history, others, exchange
  <2> QED
    BY <2>1, <1>1
<1>19. CASE LookupInv(t)
  <2>1. Same
    BY <1>19
       DEF LookupInv, Multiplied, Fatal, OnPath, Path, Stopped, Multiplying,
           Goto, Locals, Sealing, Receiving, ToDraw, history, others, exchange
  <2> QED
    BY <2>1, <1>1
<1>20. CASE StoreInv(t)
  <2>1. Same
    BY <1>20
       DEF StoreInv, Multiplied, Fatal, OnPath, Path, Stopped, Multiplying,
           Goto, Locals, Sealing, Receiving, ToDraw, history, others, exchange
  <2> QED
    BY <2>1, <1>1
<1>21. CASE SetRekeyPolicy(t)
  <2>1. Same
    BY <1>21
       DEF SetRekeyPolicy, OnPath, Path, Stopped, Multiplying, Goto, Return,
           Blank, Locals, Sealing, Receiving, ToDraw, history, exchange
  <2> QED
    BY <2>1, <1>1
<1>22. CASE InstallPair(t)
  <2>1. Same
    BY <1>22
       DEF InstallPair, OnPath, Path, Stopped, Multiplying, Goto, Return,
           Blank, Locals, Sealing, Receiving, ToDraw, history, others,
           exchange
  <2> QED
    BY <2>1, <1>1
<1>23. CASE Fresh(t)
  <2>1. Same
    BY <1>23
       DEF Fresh, OnPath, Path, Stopped, Multiplying, Goto, Locals, Sealing,
           Receiving, ToDraw, history, others, exchange
  <2> QED
    BY <2>1, <1>1
<1>24. CASE Fill(t)
  <2>1. Same
    BY <1>24
       DEF Fill, OnPath, Path, Stopped, Multiplying, Goto, Return, Blank,
           Locals, Sealing, Receiving, ToDraw, history, others, exchange
  <2> QED
    BY <2>1, <1>1
<1>25. CASE Count(t)
  <2>1. /\ UNCHANGED <<calls, sendSeq>>
        /\ ToDraw' \subseteq ToDraw
    BY <1>25 DEF Count, Goto, Return, ToDraw
  <2>2. \A u \in Threads :
           Sealing(u)' => u # t /\ Sealing(u) /\ local'[u] = local[u]
    BY <1>25 DEF Count, Goto, Return, Sealing, Receiving
  <2>3. Sealing(t)
    BY <1>25 DEF Count, OnPath, Path, Stopped, Multiplying, Sealing, Receiving
  <2>4. \A m \in sent' :
           m \in sent \/ (m.call = local[t].call /\ m.seq = local[t].seq)
    BY <1>25 DEF Count
  <2> QED
    BY <2>1, <2>2, <2>3, <2>4 DEF DrawnNumbers
<1> QED
  BY <1>2, <1>3, <1>4, <1>5, <1>6, <1>7, <1>8, <1>9, <1>10, <1>11, <1>12,
     <1>13, <1>14, <1>15, <1>16, <1>17, <1>18, <1>19, <1>20, <1>21, <1>22,
     <1>23, <1>24, <1>25
     DEF Step

(* A set of them has no more of them. *)
LEMMA FewerToDraw ==
    ASSUME ToDraw' \subseteq ToDraw
    PROVE  /\ Cardinality(ToDraw') \in Nat
           /\ Cardinality(ToDraw') <= Cardinality(ToDraw)
<1>1. IsFiniteSet(ToDraw)
  BY ToDrawFinite
<1>2. /\ IsFiniteSet(ToDraw')
      /\ Cardinality(ToDraw') <= Cardinality(ToDraw)
  BY <1>1, FS_Subset
<1> QED
  BY <1>2, FS_CardinalityType

(* One more element adds at most one to the count. *)
LEMMA OneMore ==
    ASSUME NEW S, NEW x, IsFiniteSet(S)
    PROVE  /\ IsFiniteSet(S \cup {x})
           /\ Cardinality(S \cup {x}) <= Cardinality(S) + 1
<1>1. Cardinality(S) \in Nat
  BY FS_CardinalityType
<1>2. /\ IsFiniteSet(S \cup {x})
      /\ \/ Cardinality(S \cup {x}) = Cardinality(S)
         \/ Cardinality(S \cup {x}) = Cardinality(S) + 1
  BY FS_AddElement
<1> QED
  BY <1>1, <1>2

(* A call announces at most one number. *)
LEMMA CallNumbers ==
    ASSUME TypeInv, Numbers, NEW t \in Threads, Call(t)
    PROVE  Numbers'
<1> USE DEF TypeInv, Shared
<1>1. PICK op \in Ops, p \in Incoming : Calls(t, op, p)
  BY CallEffect
<1>2. Entry(op) \notin {"load", "copyKey", "copyData", "hash", "count"}
  BY DEF Entry
<1>3. DrawnNumbers' \subseteq DrawnNumbers
  BY <1>1, <1>2 DEF DrawnNumbers, Sealing, Receiving, Calls, history
<1>4. ToDraw' \subseteq ToDraw \cup {t}
  BY <1>1 DEF ToDraw, Calls
<1>5. /\ Cardinality(ToDraw') \in Nat
      /\ Cardinality(ToDraw') <= Cardinality(ToDraw) + 1
  <2>1. /\ IsFiniteSet(ToDraw \cup {t})
        /\ Cardinality(ToDraw \cup {t}) <= Cardinality(ToDraw) + 1
    BY ToDrawFinite, OneMore
  <2>2. /\ IsFiniteSet(ToDraw')
        /\ Cardinality(ToDraw') <= Cardinality(ToDraw \cup {t})
    BY <2>1, <1>4, FS_Subset
  <2> QED
    BY <2>1, <2>2, ToDrawFinite, FS_CardinalityType
<1>6. /\ sendSeq' = sendSeq
      /\ calls' = calls + 1
      /\ calls < MaxCalls
  BY <1>1 DEF Calls
<1>7. /\ calls' <= MaxCalls
      /\ sendSeq' + Cardinality(ToDraw') <= calls'
  BY <1>5, <1>6, ToDrawFinite, ThreadAssumption, SeqModAssumption
     DEF Numbers, Seqs
<1> QED
  BY <1>3, <1>6, <1>7 DEF Numbers

(* Seal draws the next number, which nobody has drawn. *)
LEMMA SealNumbers ==
    ASSUME MaxCalls < SeqMod, TypeInv, OnPath, Numbers,
           NEW t \in Threads, Seal(t)
    PROVE  Numbers'
<1> USE DEF TypeInv, Shared
<1> DEFINE d == [call |-> local[t].call, seq |-> sendSeq]
<1>1. /\ t \in ToDraw
      /\ calls' = calls
      /\ ToDraw' = ToDraw \ {t}
  BY DEF Seal, ToDraw, Goto, Return
<1>2. /\ Cardinality(ToDraw') = Cardinality(ToDraw) - 1
      /\ Cardinality(ToDraw') \in Nat
  BY <1>1, ToDrawFinite, FS_RemoveElement, FS_CardinalityType, FS_Subset
<1>3. sendSeq + 1 < SeqMod /\ NextSeq(sendSeq) = sendSeq + 1
  <2>1. sendSeq + 1 <= MaxCalls
    BY <1>2, ToDrawFinite, ThreadAssumption, SeqModAssumption
       DEF Numbers, Seqs
  <2>2. sendSeq + 1 < SeqMod
    BY <2>1, ThreadAssumption, SeqModAssumption DEF Seqs
  <2> QED
    BY <2>2, SeqModAssumption DEF NextSeq, Seqs
<1>4. CASE sessionKey = Nil \/ macKey = Nil
  <2>1. DrawnNumbers' \subseteq DrawnNumbers
    BY <1>4
       DEF Seal, Return, Goto, DrawnNumbers, Sealing, Receiving, Blank,
           history
  <2>2. sendSeq' = sendSeq
    BY <1>4 DEF Seal
  <2> QED
    BY <1>1, <1>2, <2>1, <2>2, ToDrawFinite, ThreadAssumption,
       SeqModAssumption
       DEF Numbers, Seqs
<1>5. CASE sessionKey # Nil /\ macKey # Nil
  <2>1. /\ sendSeq' = sendSeq + 1
        /\ pc' = [pc EXCEPT ![t] = "load"]
        /\ sent' = sent
        /\ local'[t].call = local[t].call /\ local'[t].seq = sendSeq
        /\ \A u \in Threads \ {t} : local'[u] = local[u]
    BY <1>3, <1>5 DEF Seal, Goto, history, Locals
  <2>2. DrawnNumbers' \subseteq DrawnNumbers \cup {d}
    BY <2>1 DEF DrawnNumbers, Sealing, Receiving
  <2>3. d \in [call : Nat, seq : Seqs]
    BY LocalFields
  <2>4. \A m \in DrawnNumbers : m.seq < sendSeq /\ m.seq \in Seqs
    BY DEF Numbers
  <2>5. d.seq = sendSeq
    OBVIOUS
  <2> HIDE DEF d
  <2>6. \A m \in DrawnNumbers' : m.seq < sendSeq'
    BY <2>1, <2>2, <2>4, <2>5, SeqModAssumption DEF Seqs
  <2>7. \A m, n \in DrawnNumbers' : m.seq = n.seq => m = n
    BY <2>2, <2>4, <2>5, SeqModAssumption DEF Numbers, Seqs
  <2>8. sendSeq' + Cardinality(ToDraw') <= calls' /\ calls' <= MaxCalls
    BY <1>1, <1>2, <2>1, ToDrawFinite, SeqModAssumption DEF Numbers, Seqs
  <2> QED
    BY <2>2, <2>3, <2>6, <2>7, <2>8 DEF Numbers
<1> QED
  BY <1>4, <1>5

(* Packets never share a sequence number, however many threads share the   *)
(* object, as long as there are fewer calls than sequence numbers.         *)
THEOREM NumbersUnique ==
    ASSUME MaxCalls < SeqMod
    PROVE  Spec => []SeqUnique
<1>1. Init => Numbers
  <2> SUFFICES ASSUME Init PROVE Numbers
    OBVIOUS
  <2>1. ToDraw = {} /\ DrawnNumbers = {}
    BY DEF Init, ToDraw, DrawnNumbers, Sealing
  <2> QED
    BY <2>1, FS_EmptySet, ThreadAssumption DEF Init, Numbers
<1>2. TypeInv /\ OnPath /\ Numbers /\ [Next]_vars => Numbers'
  <2> SUFFICES ASSUME TypeInv, OnPath, Numbers, [Next]_vars PROVE Numbers'
    OBVIOUS
  <2>1. CASE UNCHANGED vars
    BY <2>1
       DEF vars, history, Numbers, DrawnNumbers, ToDraw, Sealing, Receiving
  <2>2. ASSUME NEW t \in Threads, Step(t), ~Seal(t) PROVE Numbers'
    <3>1. /\ UNCHANGED <<calls, sendSeq>>
          /\ ToDraw' \subseteq ToDraw
          /\ DrawnNumbers' \subseteq DrawnNumbers
      BY <2>2, NothingDrawn
    <3> QED
      BY <3>1, FewerToDraw, ToDrawFinite, SeqModAssumption
         DEF Numbers, TypeInv, Shared, Seqs
  <2>3. ASSUME NEW t \in Threads, Call(t) \/ Seal(t) PROVE Numbers'
    BY <2>3, CallNumbers, SealNumbers
  <2> QED
    BY <2>1, <2>2, <2>3 DEF Next, Done, Step
<1>3. Numbers => SeqUnique
  <2>1. DrawnNumbers = {[call |-> m.call, seq |-> m.seq] : m \in sent}
                 \cup {[call |-> local[t].call, seq |-> local[t].seq] :
                          t \in {u \in Threads :
                                    pc[u] \in {"load", "copyKey", "copyData",
                                               "hash", "count"}
                                    /\ ~Receiving(u)}}
    BY DEF DrawnNumbers, Sealing
  <2> QED
    BY <2>1 DEF Numbers, SeqUnique
<1> QED
  BY <1>1, <1>2, <1>3, Types, Paths, PTL DEF Spec
-----------------------------------------------------------------------------
(* The discipline: a call that changes keys has the object for itself, so  *)
(* no thread panics and no map is written while it is read.                *)
Exclusive ==
    /\ \A t \in Threads : pc[t] \notin {"panicked", "killed"}
    /\ \A t, u \in Threads :
          t # u /\ pc[t] # "idle" /\ pc[u] # "idle"
             => local[t].op \notin KeyOps

(* A step of one call: the others stay where they are. *)
GoesOn(t) ==
    /\ pc[t] # "idle"
    /\ pc'[t] \notin {"panicked", "killed"}
    /\ \A u \in Threads \ {t} : pc'[u] = pc[u] /\ local'[u] = local[u]
    /\ pc'[t] # "idle" => /\ local'[t].op = local[t].op
                          /\ local'[t].call = local[t].call
                          /\ local'[t].packet = local[t].packet
    /\ pc'[t] = "idle" => local'[t] = Blank

(* Under the discipline no step panics or ends the process. *)
LEMMA StepGoesOn ==
    ASSUME TypeInv, OnPath, Exclusive,
           \A t \in Threads : pc[t] = "cipher" => sessionKey # Nil,
           NEW t \in Threads, Step(t)
    PROVE  GoesOn(t)
<1> USE DEF TypeInv
<1>1. \A u \in Threads \ {t} : pc[t] # "idle" =>
         /\ pc[u] # "forget"
         /\ pc[t] \in Multiplying => pc[u] \notin {"storeW", "storeInv"}
  BY DEF Exclusive, OnPath, Path, Stopped, Multiplying, KeyOps
<1>2. CASE Payload(t)
  BY <1>2 DEF Payload, GoesOn, Goto, Locals, others, exchange
<1>3. CASE Seal(t)
  BY <1>3 DEF Seal, GoesOn, Goto, Return, Locals, others, exchange
<1>4. CASE LoadMacKey(t)
  BY <1>4, <1>1 DEF LoadMacKey, GoesOn, Goto, Locals, others, exchange
<1>5. CASE CopyKey(t)
  BY <1>5 DEF CopyKey, GoesOn, Goto, Locals, exchange
<1>6. CASE CopyData(t)
  BY <1>6 DEF CopyData, GoesOn, Goto, Locals, exchange
<1>7. CASE Hash(t)
  BY <1>7 DEF Hash, GoesOn, Goto, Locals, others, exchange
<1>8. CASE Count(t)
  BY <1>8 DEF Count, GoesOn, Goto, Return, Locals, others, exchange
<1>9. CASE Open(t)
  BY <1>9 DEF Open, GoesOn, Goto, Return, Locals, others, exchange
<1>10. CASE Verify(t)
  BY <1>10 DEF Verify, GoesOn, Goto, Return, Locals, others, exchange
<1>11. CASE Check(t)
  BY <1>11 DEF Check, GoesOn, Goto, Return, Locals, others, exchange
<1>12. CASE Cipher(t)
  BY <1>12 DEF Cipher, GoesOn, Goto, Return, Locals, others, exchange
<1>13. CASE Expect(t)
  BY <1>13 DEF Expect, GoesOn, Goto, Return, Locals, others, exchange
<1>14. CASE Derive(t)
  BY <1>14 DEF Derive, GoesOn, Goto, Return, Locals, others, exchange
<1>15. CASE Install(t)
  BY <1>15 DEF Install, GoesOn, Goto, Return, Locals, others, exchange
<1>16. CASE Wipe(t)
  BY <1>16 DEF Wipe, GoesOn, Goto, Locals, others, exchange
<1>17. CASE Forget(t)
  BY <1>17 DEF Forget, GoesOn, Goto, Return, Locals, others, exchange
<1>18. CASE Lock(t)
  BY <1>18 DEF Lock, GoesOn, Goto, Locals, others, exchange
<1>19. CASE Lookup(t)
  BY <1>19, <1>1
     DEF Lookup, Fatal, Racing, Multiplying, GoesOn, Goto, Locals, others,
         exchange
<1>20. CASE Store(t)
  BY <1>20, <1>1
     DEF Store, Fatal, Racing, Multiplying, GoesOn, Goto, Locals, others,
         exchange
<1>21. CASE LookupInv(t)
  BY <1>21, <1>1
     DEF LookupInv, Multiplied, Fatal, Racing, Multiplying, GoesOn, Goto,
         Locals, others, exchange
<1>22. CASE StoreInv(t)
  BY <1>22, <1>1
     DEF StoreInv, Multiplied, Fatal, Racing, Multiplying, GoesOn, Goto,
         Locals, others, exchange
<1>23. CASE SetRekeyPolicy(t)
  BY <1>23 DEF SetRekeyPolicy, GoesOn, Goto, Return, Locals, exchange
<1>24. CASE InstallPair(t)
  BY <1>24 DEF InstallPair, GoesOn, Goto, Return, Locals, others, exchange
<1>25. CASE Fresh(t)
  BY <1>25 DEF Fresh, GoesOn, Goto, Locals, others, exchange
<1>26. CASE Fill(t)
  BY <1>26 DEF Fill, GoesOn, Goto, Return, Locals, others, exchange
<1> QED
  BY <1>2, <1>3, <1>4, <1>5, <1>6, <1>7, <1>8, <1>9, <1>10, <1>11, <1>12,
     <1>13, <1>14, <1>15, <1>16, <1>17, <1>18, <1>19, <1>20, <1>21, <1>22,
     <1>23, <1>24, <1>25, <1>26
     DEF Step

(* A step does not break the discipline. *)
LEMMA StepExclusive ==
    ASSUME Exclusive, NEW t \in Threads, GoesOn(t)
    PROVE  Exclusive'
BY DEF Exclusive, GoesOn

(* Nor does a call of a caller that keeps to it. *)
LEMMA CallExclusive ==
    ASSUME ExclusiveKeys, TypeInv, Exclusive, NEW t \in Threads, Call(t)
    PROVE  Exclusive'
<1> USE DEF TypeInv
<1>1. PICK op \in Ops, p \in Incoming : Calls(t, op, p)
  BY CallEffect
<1>2. Entry(op) \notin {"panicked", "killed"}
  BY DEF Entry
<1> QED
  BY <1>1, <1>2 DEF Calls, MayCall, Exclusive
-----------------------------------------------------------------------------
(* The keys: the MAC key belongs to the cipher key, its bytes are zero     *)
(* only inside a call that changes keys, no key later than the current one *)
(* of its handshake has been wiped, and every key is of a call made.       *)
KeysSound ==
    /\ macKey = sessionKey
    /\ macKey \in wiped =>
          \E t \in Threads : pc[t] \in {"install", "forget", "fill"}
    /\ sessionKey # Nil =>
          /\ \/ sessionKey[2] = rekeyCounter
             \/ \E t \in Threads : pc[t] = "fill"
          /\ \A k \in wiped :
                k[1] = sessionKey[1] => k[2] <= sessionKey[2]
          /\ sessionKey[1] <= calls
    /\ \A k \in wiped : k[1] <= calls
    /\ \A t \in Threads : local[t].call <= calls
    /\ calls <= MaxCalls

(* What a call in progress may rely on, place by place. *)
CallSound(t) ==
    /\ pc[t] \in {"load", "copyKey", "copyData", "verify", "hash", "count",
                  "check", "cipher", "expect", "derive", "install", "fill"}
          => sessionKey # Nil
    /\ Sealing(t) => local[t].gen = sessionKey
    /\ pc[t] = "copyKey" => local[t].ptr = sessionKey
    /\ pc[t] = "copyData" => buf[t].key = sessionKey
    /\ pc[t] = "hash" =>
          buf[t] = [key |-> sessionKey, data |-> local[t].call]
    /\ pc[t] = "count" =>
          local[t].tag = [key |-> sessionKey, data |-> local[t].call]
    /\ pc[t] = "verify" =>
          buf[t] = [key |-> sessionKey, data |-> local[t].packet.id]
    /\ pc[t] \in {"check", "cipher", "expect"} =>
          local[t].packet.gen = sessionKey
    /\ local[t].op = "Rekey" /\ (pc[t] = "seal" \/ Sealing(t)) =>
          local[t].counter = rekeyCounter
    /\ pc[t] = "derive" =>
          local[t].gen = sessionKey /\ local[t].counter = rekeyCounter
    /\ (/\ local[t].op = "Handshake"
        /\ pc[t] \in Multiplying \cup {"lock", "fresh"}) =>
          /\ sessionKey # Nil => sessionKey[1] < local[t].call
          /\ \A k \in wiped : k[1] < local[t].call
    /\ pc[t] = "fill" => sessionKey[2] = 0
    /\ pc[t] # "idle" => /\ local[t].call >= 1
                         /\ Receiving(t) => local[t].packet \in Incoming
    /\ local[t].op = "ApplyRekey" /\ pc[t] \in {"expect", "derive", "install"}
          => /\ local[t].packet.kind = "token"
             /\ pc[t] # "expect" => local[t].packet.counter = rekeyCounter

(* Only calls that change keys change them. *)
LEMMA KeysKept ==
    ASSUME TypeInv, OnPath, NEW t \in Threads, Step(t),
           local[t].op \notin KeyOps
    PROVE  UNCHANGED keys
<1>1. pc[t] \notin {"derive", "install", "wipe", "forget", "fresh", "fill",
                  "lookup", "storeW", "lookupInv", "storeInv"}
  BY DEF OnPath, Path, Stopped, Multiplying, KeyOps
<1> QED
  BY <1>1
     DEF Step, Payload, Seal, LoadMacKey, CopyKey, CopyData, Hash, Count,
         Open, Verify, Check, Cipher, Expect, Derive, Install, Wipe, Forget,
         Lock, Lookup, Store, LookupInv, StoreInv, SetRekeyPolicy,
         InstallPair, Fresh, Fill

(* With a MAC that has no shared buffer, a thread fills its own. *)
LEMMA BufsKept ==
    ASSUME ~SharedMac, TypeInv, NEW t \in Threads, Step(t)
    PROVE  \A u \in Threads \ {t} : buf'[u] = buf[u]
<1> USE DEF TypeInv, Shared
<1>1. CASE CopyKey(t)
  BY <1>1 DEF CopyKey, Buf
<1>2. CASE CopyData(t)
  BY <1>2 DEF CopyData, Buf
<1>3. CASE UNCHANGED buf
  BY <1>3
<1> QED
  BY <1>1, <1>2, <1>3
     DEF Step, Payload, Seal, LoadMacKey, Hash, Count, Open, Verify, Check,
         Cipher, Expect, Derive, Install, Wipe, Forget, Lock, Lookup, Store,
         LookupInv, StoreInv, SetRekeyPolicy, InstallPair, Fresh, Fill, Fatal,
         others

(* The other calls keep what they rely on. *)
LEMMA OthersSound ==
    ASSUME ~SharedMac, TypeInv, OnPath, Exclusive,
           NEW t \in Threads, Step(t), GoesOn(t),
           NEW u \in Threads \ {t}, CallSound(u)
    PROVE  CallSound(u)'
<1> USE DEF TypeInv
<1>1. /\ pc'[u] = pc[u]
      /\ local'[u] = local[u]
      /\ buf'[u] = buf[u]
  BY BufsKept DEF GoesOn
<1>2. CASE pc[u] = "idle"
  BY <1>1, <1>2 DEF CallSound, Sealing, Multiplying
<1>3. CASE pc[u] # "idle"
  <2>1. local[t].op \notin KeyOps
    BY <1>3 DEF Exclusive, GoesOn
  <2>2. UNCHANGED <<sessionKey, macKey, wiped, rekeyCounter>>
    BY <2>1, KeysKept DEF keys
  <2> QED
    BY <1>1, <2>2 DEF CallSound, Sealing, Receiving
<1> QED
  BY <1>2, <1>3

(* A thread that copies the MAC key finds its bytes in place. *)
LEMMA KeyInPlace ==
    ASSUME TypeInv, OnPath, Exclusive, KeysSound,
           NEW t \in Threads, pc[t] = "copyKey"
    PROVE  macKey \notin wiped
BY DEF OnPath, Path, Stopped, Multiplying, KeyOps, Exclusive, KeysSound

(* The call itself reaches each place with what it relies on there. *)
LEMMA SelfSound ==
    ASSUME ~SharedMac, TypeInv, OnPath, Exclusive, KeysSound,
           NEW t \in Threads, CallSound(t), Step(t), GoesOn(t)
    PROVE  CallSound(t)'
<1> USE DEF TypeInv, Shared
<1>1. CASE Payload(t)
  BY <1>1
     DEF Payload, CallSound, GoesOn, OnPath, Path, Stopped, Multiplying,
         Sealing, Receiving, Goto, Locals, keys, others, exchange
<1>2. CASE Seal(t)
  BY <1>2
     DEF Seal, CallSound, GoesOn, OnPath, Path, Stopped, Multiplying, Sealing,
         Receiving, Goto, Return, Locals, keys, others, exchange
<1>3. CASE LoadMacKey(t)
  BY <1>3
     DEF LoadMacKey, KeysSound, CallSound, GoesOn, OnPath, Path, Stopped,
         Multiplying, Sealing, Receiving, Goto, Locals, keys, others, exchange
<1>4. CASE CopyKey(t)
  BY <1>4, KeyInPlace
     DEF CopyKey, KeysSound, Buf, Tags, CallSound, GoesOn, OnPath, Path,
         Stopped, Multiplying, Sealing, Receiving, Goto, Locals, keys,
         exchange
<1>5. CASE CopyData(t)
  BY <1>5
     DEF CopyData, Buf, Tags, CallSound, GoesOn, OnPath, Path, Stopped,
         Multiplying, Sealing, Receiving, Goto, Locals, keys, exchange
<1>6. CASE Hash(t)
  BY <1>6
     DEF Hash, Buf, Tags, CallSound, GoesOn, OnPath, Path, Stopped,
         Multiplying, Sealing, Receiving, Goto, Locals, keys, others, exchange
<1>7. CASE Count(t)
  BY <1>7
     DEF Count, CallSound, GoesOn, OnPath, Path, Stopped, Multiplying,
         Sealing, Receiving, Goto, Return, Locals, keys, others, exchange
<1>8. CASE Open(t)
  BY <1>8
     DEF Open, CallSound, GoesOn, OnPath, Path, Stopped, Multiplying, Sealing,
         Receiving, Goto, Return, Locals, keys, others, exchange
<1>9. CASE Verify(t)
  BY <1>9
     DEF Verify, Buf, Tags, CallSound, GoesOn, OnPath, Path, Stopped,
         Multiplying, Sealing, Receiving, Goto, Return, Locals, keys, others,
         exchange
<1>10. CASE Check(t)
  BY <1>10
     DEF Check, CallSound, GoesOn, OnPath, Path, Stopped, Multiplying,
         Sealing, Receiving, Goto, Return, Locals, keys, others, exchange
<1>11. CASE Cipher(t)
  BY <1>11
     DEF Cipher, CallSound, GoesOn, OnPath, Path, Stopped, Multiplying,
         Sealing, Receiving, Goto, Return, Locals, keys, others, exchange
<1>12. CASE Expect(t)
  BY <1>12
     DEF Expect, CallSound, GoesOn, OnPath, Path, Stopped, Multiplying,
         Sealing, Receiving, Goto, Return, Locals, keys, others, exchange
<1>13. CASE Derive(t)
  BY <1>13
     DEF Derive, CallSound, GoesOn, OnPath, Path, Stopped, Multiplying,
         Sealing, Receiving, Goto, Return, Locals, others, exchange
<1>14. CASE Install(t)
  BY <1>14
     DEF Install, CallSound, GoesOn, OnPath, Path, Stopped, Multiplying,
         Sealing, Receiving, Goto, Return, Locals, others, exchange
<1>15. CASE Wipe(t)
  BY <1>15
     DEF Wipe, CallSound, GoesOn, OnPath, Path, Stopped, Multiplying, Sealing,
         Receiving, Goto, Locals, others, exchange
<1>16. CASE Forget(t)
  BY <1>16
     DEF Forget, CallSound, GoesOn, OnPath, Path, Stopped, Multiplying,
         Sealing, Receiving, Goto, Return, Locals, others, exchange
<1>17. CASE Lock(t)
  BY <1>17
     DEF Lock, KeysSound, CallSound, GoesOn, OnPath, Path, Stopped,
         Multiplying, Sealing, Receiving, Goto, Locals, keys, others, exchange
<1>18. CASE Lookup(t)
  BY <1>18
     DEF Lookup, Fatal, CallSound, GoesOn, OnPath, Path, Stopped, Multiplying,
         Sealing, Receiving, Goto, Locals, keys, others, exchange
<1>19. CASE Store(t)
  BY <1>19
     DEF Store, Fatal, CallSound, GoesOn, OnPath, Path, Stopped, Multiplying,
         Sealing, Receiving, Goto, Locals, keys, others, exchange
<1>20. CASE LookupInv(t)
  BY <1>20
     DEF LookupInv, Multiplied, Fatal, CallSound, GoesOn, OnPath, Path,
         Stopped, Multiplying, Sealing, Receiving, Goto, Locals, keys, others,
         exchange
<1>21. CASE StoreInv(t)
  BY <1>21
     DEF StoreInv, Multiplied, Fatal, CallSound, GoesOn, OnPath, Path,
         Stopped, Multiplying, Sealing, Receiving, Goto, Locals, keys, others,
         exchange
<1>22. CASE SetRekeyPolicy(t)
  BY <1>22
     DEF SetRekeyPolicy, CallSound, GoesOn, OnPath, Path, Stopped,
         Multiplying, Sealing, Receiving, Goto, Return, Locals, keys, exchange
<1>23. CASE InstallPair(t)
  BY <1>23
     DEF InstallPair, CallSound, GoesOn, OnPath, Path, Stopped, Multiplying,
         Sealing, Receiving, Goto, Return, Locals, keys, others, exchange
<1>24. CASE Fresh(t)
  <2>1. /\ sessionKey' = <<local[t].call, 0>>
        /\ pc'[t] = "fill"
        /\ pc[t] = "fresh"
        /\ local' = local
    BY <1>24 DEF Fresh, Goto
  <2>2. sessionKey' # Nil /\ sessionKey'[2] = 0
    BY <2>1, LocalFields, ThreadAssumption
  <2> QED
    BY <2>1, <2>2
       DEF CallSound, OnPath, Path, Stopped, Sealing, Receiving, Multiplying
<1>25. CASE Fill(t)
  BY <1>25
     DEF Fill, CallSound, GoesOn, OnPath, Path, Stopped, Multiplying, Sealing,
         Receiving, Goto, Return, Locals, others, exchange
<1> QED
  BY <1>1, <1>2, <1>3, <1>4, <1>5, <1>6, <1>7, <1>8, <1>9, <1>10, <1>11,
     <1>12, <1>13, <1>14, <1>15, <1>16, <1>17, <1>18, <1>19, <1>20, <1>21,
     <1>22, <1>23, <1>24, <1>25
     DEF Step

(* A new call disturbs nothing, and relies on nothing yet. *)
LEMMA CallStarts ==
    ASSUME ~SharedMac, TypeInv, OnPath, Exclusive, KeysSound,
           \A u \in Threads : CallSound(u),
           NEW t \in Threads, Call(t)
    PROVE  KeysSound' /\ \A u \in Threads : CallSound(u)'
<1> USE DEF TypeInv, Shared
<1>1. PICK op \in Ops, p \in Incoming : Calls(t, op, p)
  BY CallEffect
<1>2. /\ Entry(op) \in {"payload", "seal", "open", "wipe", "policy",
                       "lookup", "lock"}
      /\ Entry(op) = "seal" => op = "Encrypt"
      /\ Entry(op) = "lookup" => op = "GenerateKeyPair"
  BY ThreadAssumption DEF Entry
<1>3. /\ UNCHANGED <<sessionKey, macKey, wiped, rekeyCounter, buf>>
      /\ pc' = [pc EXCEPT ![t] = Entry(op)]
      /\ calls' = calls + 1
      /\ pc[t] = "idle"
  BY <1>1 DEF Calls, keys, others
<1>4. ASSUME NEW u \in Threads PROVE CallSound(u)'
  <2>1. CASE u = t
    <3>1. /\ sessionKey # Nil => sessionKey[1] < calls + 1
          /\ \A k \in wiped : k[1] < calls + 1
      <4>1. /\ sessionKey # Nil =>
                 sessionKey[1] \in Nat /\ sessionKey[1] <= calls
            /\ \A k \in wiped : k[1] \in Nat /\ k[1] <= calls
        BY DEF KeysSound, KeyNames
      <4> QED
        BY <4>1
    <3>2. pc'[u] = Entry(op) /\ local'[u].op = op
          /\ local'[u].call = calls + 1
      BY <1>1, <1>3, <2>1 DEF Calls
    <3>3. ~Sealing(u)'
      BY <1>2, <3>2 DEF Sealing
    <3>4. Receiving(u)' => local'[u].packet \in Incoming
      BY <1>1, <2>1, <3>2 DEF Receiving, Calls, Entry
    <3>5. local'[u].call >= 1
      BY <3>2
    <3> QED
      BY <1>2, <1>3, <3>1, <3>2, <3>3, <3>4, <3>5 DEF CallSound, Multiplying
  <2>2. CASE u # t
    BY <1>1, <1>3, <2>2 DEF CallSound, Sealing, Receiving, Calls
  <2> QED
    BY <2>1, <2>2
<1>5. \A u \in Threads : local'[u].call <= calls'
  BY <1>1, LocalFields DEF Calls, KeysSound
<1>6. \A u \in Threads : pc[u] \in {"install", "forget", "fill"} =>
         pc'[u] = pc[u]
  BY <1>3
<1>7. \A k \in wiped : k[1] \in Nat
  OBVIOUS
<1>8. sessionKey # Nil => sessionKey[1] \in Nat
  BY DEF KeyNames
<1>9. calls' <= MaxCalls
  BY <1>1, ThreadAssumption DEF Calls
<1>10. KeysSound'
  BY <1>3, <1>5, <1>6, <1>7, <1>8, <1>9 DEF KeysSound
<1> QED
  BY <1>4, <1>10

(* The keys stay sound. *)
LEMMA StepKeys ==
    ASSUME TypeInv, OnPath, Exclusive, KeysSound,
           NEW t \in Threads, CallSound(t), Step(t), GoesOn(t)
    PROVE  KeysSound'
<1> USE DEF TypeInv, Shared
<1>1. calls' = calls
  BY DEF Step, Payload, Seal, LoadMacKey, CopyKey, CopyData, Hash, Count,
         Open, Verify, Check, Cipher, Expect, Derive, Install, Wipe, Forget,
         Lock, Lookup, Store, LookupInv, StoreInv, SetRekeyPolicy,
         InstallPair, Fresh, Fill, Fatal
<1>2. \A u \in Threads : local'[u].call <= calls'
  <2>1. local'[t].call = local[t].call \/ local'[t].call = 0
    BY DEF GoesOn, Blank
  <2>2. \A u \in Threads : local[u].call <= calls
    BY DEF KeysSound
  <2> QED
    BY <1>1, <2>1, <2>2 DEF GoesOn
<1>3. ASSUME NEW u \in Threads, pc[u] \in {"install", "forget", "fill"},
             NEW v \in Threads, pc[v] \in {"install", "forget", "fill"}
      PROVE  u = v
  BY <1>3, ThreadAssumption DEF Holds
<1>4. ASSUME UNCHANGED keys, pc[t] \notin {"install", "forget", "fill"}
      PROVE  KeysSound'
  <2>1. \A u \in Threads :
           pc[u] \in {"install", "forget", "fill"} => pc'[u] = pc[u]
    BY <1>4 DEF GoesOn
  <2> QED
    BY <1>1, <1>2, <1>4, <2>1 DEF keys, KeysSound
<1>4a. ASSUME sessionKey # Nil, UNCHANGED <<sessionKey, macKey, rekeyCounter>>,
             wiped' = wiped \cup {sessionKey}, pc[t] # "fill",
             pc'[t] \in {"install", "forget"}
      PROVE  KeysSound'
  <2>1. /\ sessionKey \in Nat \X Nat
        /\ sessionKey[2] <= sessionKey[2]
    BY <1>4a DEF KeyNames
  <2>2. \A k \in wiped' :
           /\ k[1] = sessionKey[1] => k[2] <= sessionKey[2]
           /\ k[1] <= calls
    BY <1>4a, <2>1 DEF KeysSound
  <2>3. \A u \in Threads : pc[u] = "fill" => pc'[u] = "fill"
    BY <1>4a DEF GoesOn
  <2> QED
    BY <1>1, <1>2, <1>4a, <2>2, <2>3 DEF KeysSound
<1>5. CASE Derive(t)
  <2>1. \/ UNCHANGED keys
        \/ /\ sessionKey # Nil
           /\ UNCHANGED <<sessionKey, macKey, rekeyCounter>>
           /\ wiped' = wiped \cup {sessionKey}
           /\ pc'[t] = "install"
    BY <1>5 DEF Derive, keys, KeysSound, Goto
  <2> QED
    BY <1>4, <1>5, <1>4a, <2>1 DEF Derive
<1>6. CASE Install(t)
  <2>1. /\ sessionKey' = <<sessionKey[1], rekeyCounter + 1>>
        /\ macKey' = sessionKey'
        /\ rekeyCounter' = rekeyCounter + 1
        /\ wiped' = wiped
        /\ sessionKey # Nil
        /\ pc[t] = "install"
    BY <1>6 DEF Install, NextKey, CallSound
  <2>2. sessionKey[2] = rekeyCounter
    BY <1>3, <2>1 DEF KeysSound
  <2>3. \A k \in wiped : k[1] = sessionKey[1] => k[2] <= rekeyCounter
    BY <2>1, <2>2 DEF KeysSound
  <2>4. sessionKey' \notin wiped
    BY <2>1, <2>3
  <2>5. \A k \in wiped' :
           k[1] = sessionKey'[1] => k[2] <= sessionKey'[2]
    BY <2>1, <2>3
  <2> QED
    BY <1>1, <1>2, <2>1, <2>4, <2>5 DEF KeysSound
<1>7. CASE Wipe(t)
  <2>1. /\ UNCHANGED <<sessionKey, macKey, rekeyCounter>>
        /\ wiped' = wiped \cup ({sessionKey} \ {Nil})
        /\ pc'[t] = "forget"
        /\ pc[t] = "wipe"
    BY <1>7 DEF Wipe, KeysSound, Goto
  <2> QED
    <3>1. CASE sessionKey # Nil
      BY <1>4a, <2>1, <3>1
    <3>2. CASE sessionKey = Nil
      BY <1>1, <1>2, <2>1, <3>2, ThreadAssumption DEF KeysSound
    <3> QED
      BY <3>1, <3>2
<1>8. CASE Forget(t)
  <2>1. sessionKey' = Nil /\ macKey' = Nil /\ wiped' = wiped
    BY <1>8 DEF Forget
  <2> QED
    BY <1>1, <1>2, <2>1, ThreadAssumption DEF KeysSound
<1>9. CASE Fresh(t)
  <2>1. /\ sessionKey' = <<local[t].call, 0>>
        /\ macKey' = sessionKey'
        /\ wiped' = wiped \cup {<<local[t].call, 0>>}
        /\ rekeyCounter' = rekeyCounter
        /\ pc'[t] = "fill"
        /\ pc[t] = "fresh"
    BY <1>9 DEF Fresh, Goto
  <2>2. local[t].op = "Handshake"
    BY <2>1 DEF OnPath, Path, Stopped, Multiplying
  <2>3. \A k \in wiped : k[1] < local[t].call
    BY <2>1, <2>2 DEF CallSound
  <2>4. local[t].call \in Nat /\ local[t].call <= calls
    BY LocalFields DEF KeysSound
  <2>5. \A k \in wiped' :
           /\ k[1] = sessionKey'[1] => k[2] <= sessionKey'[2]
           /\ k[1] <= calls'
    BY <1>1, <2>1, <2>3, <2>4 DEF KeysSound
  <2> QED
    BY <1>1, <1>2, <2>1, <2>4, <2>5 DEF KeysSound
<1>10. CASE Fill(t)
  <2>1. /\ UNCHANGED <<sessionKey, macKey>>
        /\ wiped' = wiped \ {macKey}
        /\ rekeyCounter' = 0
        /\ sessionKey[2] = 0
    BY <1>10 DEF Fill, CallSound
  <2> QED
    BY <1>1, <1>2, <2>1 DEF KeysSound
<1>11. \/ Derive(t) \/ Install(t) \/ Wipe(t) \/ Forget(t) \/ Fresh(t)
       \/ Fill(t)
       \/ UNCHANGED keys /\ pc[t] \notin {"install", "forget", "fill"}
  BY DEF Step, Payload, Seal, LoadMacKey, CopyKey, CopyData, Hash, Count,
         Open, Verify, Check, Cipher, Expect, Lock, Lookup, Store, LookupInv,
         StoreInv, SetRekeyPolicy, InstallPair, Fatal
<1> QED
  BY <1>4, <1>5, <1>6, <1>7, <1>8, <1>9, <1>10, <1>11

Safe ==
    /\ Exclusive
    /\ KeysSound
    /\ \A t \in Threads : CallSound(t)

(* The object and its callers are sound at the start. *)
LEMMA InitSafe == Init => Safe
<1> SUFFICES ASSUME Init PROVE Safe
  OBVIOUS
<1>1. Exclusive
  BY DEF Init, Exclusive
<1>2. KeysSound
  BY ThreadAssumption DEF Init, KeysSound, Blank
<1>3. \A t \in Threads : CallSound(t)
  BY DEF Init, CallSound, Sealing, Multiplying
<1> QED
  BY <1>1, <1>2, <1>3 DEF Safe

(* Discipline, keys and calls stay sound together. *)
LEMMA StepSafe ==
    ASSUME ExclusiveKeys, ~SharedMac, TypeInv, OnPath, Safe, [Next]_vars
    PROVE  Safe'
<1> USE DEF Safe
<1>1. CASE UNCHANGED vars
  <2>1. Exclusive'
    BY <1>1 DEF vars, Exclusive
  <2>2. KeysSound'
    BY <1>1 DEF vars, keys, KeysSound
  <2>3. \A t \in Threads : CallSound(t)'
    BY <1>1 DEF vars, keys, others, CallSound, Sealing, Receiving
  <2> QED
    BY <2>1, <2>2, <2>3
<1>2. ASSUME NEW t \in Threads, Call(t) PROVE Safe'
  BY <1>2, CallExclusive, CallStarts
<1>3. ASSUME NEW t \in Threads, Step(t) PROVE Safe'
  <2>1. GoesOn(t)
    <3>1. \A u \in Threads : pc[u] = "cipher" => sessionKey # Nil
      BY DEF CallSound
    <3> QED
      BY <1>3, <3>1, StepGoesOn
  <2>2. Exclusive'
    BY <2>1, StepExclusive
  <2>3. KeysSound'
    BY <1>3, <2>1, StepKeys
  <2>4. \A u \in Threads : CallSound(u)'
    BY <1>3, <2>1, SelfSound, OthersSound
  <2> QED
    BY <2>2, <2>3, <2>4
<1> QED
  BY <1>1, <1>2, <1>3 DEF Next, Done

(* Under the discipline, discipline, keys and calls are sound throughout. *)
THEOREM Safety ==
    ASSUME ExclusiveKeys, ~SharedMac
    PROVE  Spec => []Safe
BY InitSafe, StepSafe, Types, Paths, PTL DEF Spec
=============================================================================

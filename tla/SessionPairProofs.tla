-------------------------- MODULE SessionPairProofs --------------------------
(***************************************************************************)
(* What holds of two session objects, however many key pairs, handshakes,  *)
(* packets, rotations and restarts there are.                              *)
(*                                                                         *)
(* The argument goes by the secret a key was derived from.  An end owns a  *)
(* secret when it has made or opened its ciphertext; a session begins with *)
(* a secret its end does not own yet, so nothing the end sent or accepted  *)
(* before is under it.  While the session lasts the window is not cleared  *)
(* and sendSeq only grows.  Hence what was accepted in the session is in   *)
(* the window (nothing is accepted twice), and what is in the window was   *)
(* accepted in the session or was there when it began (nothing else that   *)
(* is fresh is refused).  When one end rotates, its chain of rotations is  *)
(* on the network token by token, and the chain of the other end, if it is *)
(* in the same session, is a beginning of it.                              *)
(***************************************************************************)
EXTENDS SessionPair, FiniteSetTheorems, SequenceTheorems, TLAPS

(* There are two ends: each has one peer. *)
LEMMA PeerFacts ==
    ASSUME NEW e \in Endpoints
    PROVE  /\ Peer(e) \in Endpoints /\ Peer(e) # e
           /\ \A d \in Endpoints : d # e => d = Peer(e)
<1>1. \E d \in Endpoints : d # e
  BY PairAssumption
<1>2. Peer(e) \in Endpoints /\ Peer(e) # e
  BY <1>1 DEF Peer
<1> QED
  BY <1>2, PairAssumption

(* What a secret and the keys derived from it are made of. *)
LEMMA RootKeyFacts ==
    ASSUME NEW kp \in KeyPairs, NEW ct \in Ciphertexts
    PROVE  /\ RootKey(Secret(kp, kp, ct)) \in Keys
           /\ RootKey(Secret(kp, kp, ct)).secret = Secret(kp, kp, ct)
           /\ RootKey(Secret(kp, kp, ct)).chain = <<>>
           /\ Secret(kp, kp, ct).ct = ct
BY DEF RootKey, Secret, Keys

(* A rotation appends to the chain and keeps the secret.                   *)
LEMMA RekeyFacts ==
    ASSUME NEW k \in Keys, NEW salt \in Nat, NEW n \in Nat
    PROVE  /\ RekeyMaterial(k, salt, n) \in Keys
           /\ RekeyMaterial(k, salt, n).secret = k.secret
           /\ RekeyMaterial(k, salt, n).chain = Append(k.chain, <<salt, n>>)
           /\ Len(RekeyMaterial(k, salt, n).chain) = Len(k.chain) + 1
<1>1. k.chain \in Seq(Nat \X Nat) /\ <<salt, n>> \in Nat \X Nat
  BY DEF Keys
<1>2. /\ Append(k.chain, <<salt, n>>) \in Seq(Nat \X Nat)
      /\ Len(Append(k.chain, <<salt, n>>)) = Len(k.chain) + 1
  BY <1>1, AppendProperties
<1> QED
  BY <1>2 DEF RekeyMaterial, Keys

(* sendSeq++ stays within its width, and is the successor below the wrap.  *)
LEMMA NextSeqFacts ==
    ASSUME NEW n \in Seqs
    PROVE  NextSeq(n) \in Seqs /\ (n + 1 < SeqMod => NextSeq(n) = n + 1)
BY SeqModAssumption DEF Seqs, NextSeq

(* A call that spends a use leaves the other counts alone. *)
LEMMA SpendFacts ==
    ASSUME TypeOK, NEW call \in Calls, Spend(call)
    PROVE  /\ used' \in [Calls -> Nat]
           /\ used'[call] = used[call] + 1
           /\ used[call] < MaxUsed[call]
           /\ \A c \in Calls \ {call} : used'[c] = used[c]
BY DEF TypeOK, Spend

(* The names of the calls that are counted.                                *)
LEMMA CallNames ==
    {"keyPair", "handshake", "send", "rekey", "restart"} \subseteq Calls
BY DEF Calls

(* The key pairs an end makes, published or hidden.                        *)
LEMMA KeyPairFacts ==
    ASSUME TypeOK, NEW e \in Endpoints
    PROVE  KeyPair(e, used["keyPair"]) \in KeyPairs /\ Hidden(e) \in KeyPairs
BY CallNames, BoundsAssumption DEF TypeOK, KeyPair, Hidden, KeyPairs, Calls
-----------------------------------------------------------------------------
(* The packets that Encrypt and Rekey seal. *)
LEMMA PacketFacts ==
    ASSUME TypeOK, NEW e \in Endpoints, sessionKey[e] # Nil
    PROVE  /\ sessionKey[e] \in Keys
           /\ Data(e) \in Packets
           /\ Token(e) \in Packets
           /\ Token(e).salt = used["rekey"]
<1>1. sessionKey[e] \in Keys /\ sendSeq[e] \in Seqs
  BY DEF TypeOK
<1>2. used["send"] \in Nat /\ used["rekey"] \in Nat
  BY CallNames DEF TypeOK
<1>3. rekeyCounter[e] % CounterMod \in Nat
  BY CounterModAssumption DEF TypeOK
<1> QED
  BY <1>1, <1>2, <1>3 DEF Data, Token, Packets

(* One admission, whatever it evicts. *)
LEMMA AdmitFacts ==
    ASSUME NEW R \in SUBSET Seqs, NEW s \in Seqs
    PROVE  Admit(R, s) \subseteq R \cup {s}
BY DEF Admit

(* What it takes for a packet to open, and what it leaves behind.          *)
LEMMA OpenFacts ==
    ASSUME TypeOK, NEW e \in Endpoints, NEW p \in wire, Open(e, p)
    PROVE  /\ p.key = sessionKey[e] /\ p.key \in Keys /\ p.key # Nil
           /\ p.seq \in Seqs /\ p.seq \notin receivedPackets[e]
           /\ receivedPackets' =
                [receivedPackets EXCEPT ![e] = Admit(@, p.seq)]
           /\ receivedPackets'[e] \subseteq receivedPackets[e] \cup {p.seq}
           /\ receivedPackets' \in [Endpoints -> SUBSET Seqs]
           /\ accepted' = [accepted EXCEPT ![e] = @ \cup {p}]
           /\ accepted' \in [Endpoints -> SUBSET wire]
           /\ redelivered' = redelivered \cup ({p} \cap accepted[e])
           /\ redelivered' \subseteq wire
<1>1. p \in Packets /\ receivedPackets[e] \in SUBSET Seqs
  BY DEF TypeOK
<1>2. p.key \in Keys /\ p.seq \in Seqs
  BY <1>1 DEF Packets
<1>3. Admit(receivedPackets[e], p.seq) \subseteq
         receivedPackets[e] \cup {p.seq}
  BY <1>1, <1>2, AdmitFacts
<1> QED
  BY <1>1, <1>2, <1>3, NilAssumption DEF TypeOK, Open, Opens

(* A rotation's new key. *)
LEMMA DeriveFacts ==
    ASSUME TypeOK, NEW e \in Endpoints, sessionKey[e] \in Keys,
           NEW salt \in Nat, RekeyDerive(e, salt)
    PROVE  /\ sessionKey' \in [Endpoints -> {Nil} \cup Keys]
           /\ rekeyCounter' \in [Endpoints -> Nat]
           /\ sessionKey'[e] \in Keys
           /\ sessionKey'[e].secret = sessionKey[e].secret
           /\ sessionKey'[e].chain =
                Append(sessionKey[e].chain, <<salt, rekeyCounter[e]>>)
           /\ rekeyCounter'[e] = rekeyCounter[e] + 1
           /\ \A d \in Endpoints \ {e} :
                 /\ sessionKey'[d] = sessionKey[d]
                 /\ rekeyCounter'[d] = rekeyCounter[d]
<1>1. rekeyCounter[e] \in Nat
  BY DEF TypeOK
<1>2. /\ RekeyMaterial(sessionKey[e], salt, rekeyCounter[e]) \in Keys
      /\ sessionKey \in [Endpoints -> {Nil} \cup Keys]
      /\ rekeyCounter \in [Endpoints -> Nat]
  BY <1>1, RekeyFacts DEF TypeOK
<1>3. /\ sessionKey' \in [Endpoints -> {Nil} \cup Keys]
      /\ sessionKey'[e] = RekeyMaterial(sessionKey[e], salt, rekeyCounter[e])
      /\ \A d \in Endpoints \ {e} : sessionKey'[d] = sessionKey[d]
  BY <1>2 DEF RekeyDerive
<1>4. /\ rekeyCounter' \in [Endpoints -> Nat]
      /\ rekeyCounter'[e] = rekeyCounter[e] + 1
      /\ \A d \in Endpoints \ {e} : rekeyCounter'[d] = rekeyCounter[d]
  BY <1>2 DEF RekeyDerive
<1> QED
  BY <1>1, <1>2, <1>3, <1>4, RekeyFacts

(* What ApplyRekey does to the keys once the packet has opened. *)
LEMMA ApplyFacts ==
    ASSUME TypeOK, NEW e \in Endpoints, NEW p \in wire, Open(e, p),
           IF p.kind = "token" /\ p.counter = rekeyCounter[e]
             THEN RekeyDerive(e, p.salt)
             ELSE UNCHANGED <<sessionKey, rekeyCounter>>
    PROVE  /\ sessionKey' \in [Endpoints -> {Nil} \cup Keys]
           /\ rekeyCounter' \in [Endpoints -> Nat]
           /\ sessionKey'[e] \in Keys
           /\ sessionKey'[e].secret = sessionKey[e].secret
           /\ \A d \in Endpoints \ {e} : sessionKey'[d] = sessionKey[d]
<1>1. sessionKey[e] \in Keys
  BY OpenFacts
<1>2. p.salt \in Nat
  BY DEF TypeOK, Packets
<1> QED
  BY <1>1, <1>2, DeriveFacts DEF TypeOK

(* A handshake's new key. *)
LEMMA EstablishFacts ==
    ASSUME TypeOK, NEW e \in Endpoints, NEW kp \in KeyPairs,
           NEW ct \in Ciphertexts,
           Establish(e, Secret(kp, kp, ct), kp, ct)
    PROVE  /\ sessionKey' \in [Endpoints -> {Nil} \cup Keys]
           /\ rekeyCounter' \in [Endpoints -> Nat]
           /\ sessionKey'[e] \in Keys
           /\ sessionKey'[e].secret = Secret(kp, kp, ct)
           /\ sessionKey'[e].secret.ct = ct
           /\ sessionKey'[e].chain = <<>>
           /\ rekeyCounter'[e] = 0
           /\ handshake'[e] = <<kp, ct>>
           /\ carried' \in [Endpoints -> SUBSET Seqs]
           /\ sessionKey[e] # Nil => carried'[e] = receivedPackets[e]
           /\ \A d \in Endpoints \ {e} :
                 /\ sessionKey'[d] = sessionKey[d]
                 /\ rekeyCounter'[d] = rekeyCounter[d]
                 /\ handshake'[d] = handshake[d]
                 /\ carried'[d] = carried[d]
BY RootKeyFacts DEF TypeOK, Establish
-----------------------------------------------------------------------------
(* The ways in which a step can change the two ends, for the invariants    *)
(* below; each names what it leaves alone.                                 *)
Unspent(some) == \A c \in some : used'[c] = used[c]

Quiet ==
    /\ Unspent({"handshake", "send", "rekey"})
    /\ UNCHANGED <<sessionKey, rekeyCounter, sendSeq, receivedPackets,
                   ciphertexts, wire, history>>

Initiates(e, pub, ct) ==
    /\ ct = [from |-> e, to |-> pub, n |-> used["handshake"]]
    /\ Spend("handshake")
    /\ Establish(e, Secret(pub, pub, ct), pub, ct)
    /\ ciphertexts' = ciphertexts \cup {ct}
    /\ UNCHANGED <<sendSeq, receivedPackets, wire, finalized, accepted,
                   redelivered>>

Finalizes(e, kp, ct) ==
    /\ ct \in ciphertexts /\ ct.from = Peer(e)
    /\ FinalizeOnce => ct \notin finalized
    /\ Establish(e, Secret(kp, kp, ct), kp, ct)
    /\ finalized' = finalized \cup {ct}
    /\ UNCHANGED <<sendSeq, receivedPackets, ciphertexts, wire, accepted,
                   redelivered, used>>

(* The keys may rotate in a call of Rekey or ApplyRekey. *)
SameSecrets ==
    /\ sessionKey' \in [Endpoints -> {Nil} \cup Keys]
    /\ \A d \in Endpoints :
          /\ sessionKey[d] = Nil <=> sessionKey'[d] = Nil
          /\ sessionKey[d] # Nil =>
                sessionKey'[d].secret = sessionKey[d].secret

Sends(e, p, call) ==
    /\ p \in Packets
    /\ p.from = e /\ p.seq = sendSeq[e]
    /\ p.key = sessionKey[e] /\ sessionKey[e] # Nil
    /\ Spend(call)
    /\ wire' = wire \cup {p}
    /\ sendSeq' = [sendSeq EXCEPT ![e] = NextSeq(@)]
    /\ SameSecrets
    /\ \/ p.kind = "data" /\ UNCHANGED <<sessionKey, rekeyCounter>>
       \/ e \in Rekeyers /\ p = Token(e) /\ RekeyDerive(e, p.salt)
    /\ UNCHANGED <<receivedPackets, ciphertexts, history>>

Receives(e, p) ==
    /\ p \in wire /\ p.from = Peer(e)
    /\ Open(e, p)
    /\ SameSecrets
    /\ \/ /\ p.kind = "token" /\ p.counter = rekeyCounter[e]
          /\ RekeyDerive(e, p.salt)
       \/ /\ Misrouting \/ p.kind = "data" \/ p.counter # rekeyCounter[e]
          /\ UNCHANGED <<sessionKey, rekeyCounter>>
    /\ UNCHANGED <<sendSeq, ciphertexts, wire, handshake, finalized,
                   carried, used>>

Closes(e) ==
    /\ e \in Closers
    /\ Unspent({"handshake", "send", "rekey"})
    /\ sessionKey' = [sessionKey EXCEPT ![e] = Nil]
    /\ receivedPackets' = [receivedPackets EXCEPT ![e] = {}]
    /\ \/ sendSeq' = sendSeq
       \/ sendSeq' = [sendSeq EXCEPT ![e] = 0]
    /\ \/ rekeyCounter' = rekeyCounter
       \/ rekeyCounter' = [rekeyCounter EXCEPT ![e] = 0]
    /\ UNCHANGED <<ciphertexts, wire, history>>

(* Every step keeps the types and is of one of these kinds. *)
Effect ==
    \/ Quiet
    \/ \E e \in Endpoints :
          \/ \E pub \in KeyPairs, ct \in Ciphertexts : Initiates(e, pub, ct)
          \/ \E kp \in KeyPairs, ct \in Ciphertexts : Finalizes(e, kp, ct)
          \/ \E p \in Packets, call \in {"send", "rekey"} : Sends(e, p, call)
          \/ \E p \in Packets : Receives(e, p)
          \/ Closes(e)

(* The calls of the API, one by one.                                       *)
LEMMA StepEffect == TypeOK /\ [Next]_vars => TypeOK' /\ Effect
<1> SUFFICES ASSUME TypeOK, [Next]_vars PROVE TypeOK' /\ Effect
  OBVIOUS
<1> USE CallNames
<1>1. ASSUME NEW e \in Endpoints, GenerateKeyPair(e)
      PROVE  TypeOK' /\ Effect
  <2>1. KeyPair(e, used["keyPair"]) \in KeyPairs
    BY KeyPairFacts
  <2>2. /\ used' \in [Calls -> Nat]
        /\ Unspent({"handshake", "send", "rekey"})
    BY <1>1, SpendFacts DEF GenerateKeyPair, Unspent
  <2>3. TypeOK'
    BY <1>1, <2>1, <2>2 DEF GenerateKeyPair, TypeOK, history
  <2>4. Quiet
    BY <1>1, <2>2 DEF GenerateKeyPair, Quiet, history
  <2> QED
    BY <2>3, <2>4 DEF Effect
<1>2. ASSUME NEW e \in Endpoints, NEW pub \in published,
             InitiateSession(e, pub)
      PROVE  TypeOK' /\ Effect
  <2> DEFINE ct == [from |-> e, to |-> pub, n |-> used["handshake"]]
  <2>1. pub \in KeyPairs /\ used["handshake"] \in Nat
    BY DEF TypeOK
  <2>2. ct \in Ciphertexts
    BY <2>1 DEF Ciphertexts
  <2>3. Initiates(e, pub, ct)
    BY <1>2 DEF InitiateSession, Initiates, Encapsulate
  <2>4. used' \in [Calls -> Nat] /\ Hidden(e) \in KeyPairs
    BY <2>3, SpendFacts, KeyPairFacts DEF Initiates
  <2> HIDE DEF ct
  <2>5. Establish(e, Secret(pub, pub, ct), pub, ct)
    BY <2>3 DEF Initiates
  <2>6. sessionKey' \in [Endpoints -> {Nil} \cup Keys]
    BY <2>1, <2>2, <2>5, EstablishFacts
  <2>7. rekeyCounter' \in [Endpoints -> Nat]
    BY <2>1, <2>2, <2>5, EstablishFacts
  <2>8. handshake' \in [Endpoints -> {Nil} \cup (KeyPairs \X ciphertexts')]
    BY <2>1, <2>3 DEF Initiates, Establish, TypeOK
  <2>9. myKey' \in [Endpoints -> {Nil} \cup KeyPairs]
    BY <1>2, <2>4 DEF InitiateSession, TypeOK
  <2>10. peerPublicKey' \in [Endpoints -> {Nil} \cup published']
    BY <1>2 DEF InitiateSession, TypeOK
  <2>11. carried' \in [Endpoints -> SUBSET Seqs]
    BY <2>1, <2>2, <2>5, EstablishFacts
  <2>12. TypeOK'
    BY <1>2, <2>2, <2>3, <2>4, <2>6, <2>7, <2>8, <2>9, <2>10, <2>11
       DEF InitiateSession, Initiates, TypeOK
  <2> QED
    BY <2>1, <2>2, <2>3, <2>12 DEF Effect
<1>3. ASSUME NEW e \in Endpoints, NEW pub \in published,
             AwaitSession(e, pub)
      PROVE  TypeOK' /\ Effect
  <2>1. Hidden(e) \in KeyPairs
    BY KeyPairFacts
  <2>2. myKey' \in [Endpoints -> {Nil} \cup KeyPairs]
    BY <1>3, <2>1 DEF AwaitSession, TypeOK
  <2>3. TypeOK'
    BY <1>3, <2>2 DEF AwaitSession, TypeOK, network, history
  <2>4. Quiet
    BY <1>3 DEF AwaitSession, Quiet, Unspent, network
  <2> QED
    BY <2>3, <2>4 DEF Effect
<1>4. ASSUME UNCHANGED vars
      PROVE  TypeOK' /\ Effect
  <2>1. TypeOK'
    BY <1>4 DEF vars, object, network, history, TypeOK
  <2>2. Quiet
    BY <1>4 DEF vars, object, network, Quiet, Unspent
  <2> QED
    BY <2>1, <2>2 DEF Effect
<1>5. ASSUME NEW e \in Endpoints, FinalizeSession(e)
      PROVE  TypeOK' /\ Effect
  <2>1. CASE UNCHANGED vars
    BY <1>4, <2>1
  <2>2. CASE ~UNCHANGED vars
    <3> DEFINE kp == myKey[e]
    <3>1. PICK ct \in ciphertexts :
             /\ ct.from = Peer(e)
             /\ myKey[e] # Nil
             /\ FinalizeOnce => ct \notin finalized
             /\ Establish(e, Decapsulate(kp, kp, ct), kp, ct)
             /\ finalized' = finalized \cup {ct}
             /\ UNCHANGED <<sendSeq, receivedPackets, myKey, peerPublicKey,
                            network, accepted, redelivered, used>>
      BY <1>5, <2>2 DEF FinalizeSession
    <3>2. kp \in KeyPairs /\ ct \in Ciphertexts
      BY <3>1 DEF TypeOK
    <3>3. Finalizes(e, kp, ct)
      BY <3>1 DEF Finalizes, Decapsulate, network
    <3> HIDE DEF kp
    <3>4. Establish(e, Secret(kp, kp, ct), kp, ct)
      BY <3>3 DEF Finalizes
    <3>5. sessionKey' \in [Endpoints -> {Nil} \cup Keys]
      BY <3>2, <3>4, EstablishFacts
    <3>6. rekeyCounter' \in [Endpoints -> Nat]
      BY <3>2, <3>4, EstablishFacts
    <3>7. handshake' \in [Endpoints -> {Nil} \cup (KeyPairs \X ciphertexts)]
      BY <3>2, <3>4 DEF Establish, TypeOK
    <3>8. carried' \in [Endpoints -> SUBSET Seqs]
      BY <3>2, <3>4, EstablishFacts
    <3>9. TypeOK'
      BY <3>1, <3>5, <3>6, <3>7, <3>8 DEF TypeOK, network
    <3> QED
      BY <3>2, <3>3, <3>9 DEF Effect
  <2> QED
    BY <2>1, <2>2
<1>6. ASSUME NEW e \in Endpoints, Encrypt(e)
      PROVE  TypeOK' /\ Effect
  <2>1. CASE UNCHANGED vars
    BY <1>4, <2>1
  <2>2. CASE ~UNCHANGED vars
    <3>1. sessionKey[e] # Nil /\ Data(e) \in Packets
      BY <1>6, <2>2, PacketFacts DEF Encrypt
    <3>2. used' \in [Calls -> Nat]
      BY <1>6, <2>2, SpendFacts DEF Encrypt
    <3>3. sendSeq' \in [Endpoints -> Seqs]
      BY <1>6, <2>2, NextSeqFacts DEF Encrypt, TypeOK
    <3>4. SameSecrets
      BY <1>6, <2>2 DEF Encrypt, SameSecrets, TypeOK
    <3>5. Sends(e, Data(e), "send")
      BY <1>6, <2>2, <3>1, <3>4 DEF Encrypt, Sends, Data
    <3>6. TypeOK'
      BY <1>6, <2>2, <3>1, <3>2, <3>3 DEF Encrypt, TypeOK, history
    <3> QED
      BY <3>1, <3>5, <3>6 DEF Effect
  <2> QED
    BY <2>1, <2>2
<1>7. ASSUME NEW e \in Endpoints, Rekey(e)
      PROVE  TypeOK' /\ Effect
  <2>1. /\ sessionKey[e] \in Keys /\ sessionKey[e] # Nil
        /\ Token(e) \in Packets /\ Token(e).salt \in Nat
    BY <1>7, PacketFacts DEF Rekey, Packets
  <2>2. used' \in [Calls -> Nat]
    BY <1>7, SpendFacts DEF Rekey
  <2>3. sendSeq' \in [Endpoints -> Seqs]
    BY <1>7, NextSeqFacts DEF Rekey, TypeOK
  <2>4. RekeyDerive(e, Token(e).salt)
    BY <1>7 DEF Rekey
  <2>5. /\ sessionKey' \in [Endpoints -> {Nil} \cup Keys]
        /\ rekeyCounter' \in [Endpoints -> Nat]
        /\ sessionKey'[e] \in Keys
        /\ sessionKey'[e].secret = sessionKey[e].secret
        /\ \A d \in Endpoints \ {e} : sessionKey'[d] = sessionKey[d]
    BY <2>1, <2>4, DeriveFacts
  <2>6. SameSecrets
    BY <2>1, <2>5, NilAssumption DEF SameSecrets
  <2>7. Sends(e, Token(e), "rekey")
    BY <1>7, <2>1, <2>6 DEF Rekey, Sends, Token
  <2>8. TypeOK'
    BY <1>7, <2>1, <2>2, <2>3, <2>5 DEF Rekey, TypeOK, history
  <2> QED
    BY <2>1, <2>7, <2>8 DEF Effect
<1>8. ASSUME NEW e \in Endpoints, Decrypt(e)
      PROVE  TypeOK' /\ Effect
  <2>1. CASE UNCHANGED vars
    BY <1>4, <2>1
  <2>2. CASE ~UNCHANGED vars
    <3>1. PICK p \in wire :
             /\ p.from = Peer(e) /\ (p.kind = "data" \/ Misrouting)
             /\ Open(e, p)
             /\ UNCHANGED <<sessionKey, rekeyCounter, sendSeq, myKey,
                            peerPublicKey, network, handshake, finalized,
                            carried, used>>
      BY <1>8, <2>2 DEF Decrypt, Incoming
    <3>2. SameSecrets
      BY <3>1 DEF SameSecrets, TypeOK
    <3>3. Receives(e, p)
      BY <3>1, <3>2 DEF Receives, network
    <3>4. /\ receivedPackets' \in [Endpoints -> SUBSET Seqs]
          /\ accepted' \in [Endpoints -> SUBSET wire]
          /\ redelivered' \subseteq wire
      BY <3>1, OpenFacts
    <3>5. TypeOK'
      BY <3>1, <3>4 DEF TypeOK, network
    <3> QED
      BY <3>1, <3>3, <3>5 DEF Effect, TypeOK
  <2> QED
    BY <2>1, <2>2
<1>9. ASSUME NEW e \in Endpoints, ApplyRekey(e)
      PROVE  TypeOK' /\ Effect
  <2>1. CASE UNCHANGED vars
    BY <1>4, <2>1
  <2>2. CASE ~UNCHANGED vars
    <3>1. PICK p \in wire :
             /\ p.from = Peer(e) /\ (p.kind = "token" \/ Misrouting)
             /\ Open(e, p)
             /\ IF p.kind = "token" /\ p.counter = rekeyCounter[e]
                  THEN RekeyDerive(e, p.salt)
                  ELSE UNCHANGED <<sessionKey, rekeyCounter>>
             /\ UNCHANGED <<sendSeq, myKey, peerPublicKey, network,
                            handshake, finalized, carried, used>>
      BY <1>9, <2>2 DEF ApplyRekey, ApplyToken, Incoming
    <3>2. /\ sessionKey' \in [Endpoints -> {Nil} \cup Keys]
          /\ rekeyCounter' \in [Endpoints -> Nat]
          /\ sessionKey'[e] \in Keys
          /\ sessionKey'[e].secret = sessionKey[e].secret
          /\ \A d \in Endpoints \ {e} : sessionKey'[d] = sessionKey[d]
      BY <3>1, ApplyFacts
    <3>3. /\ receivedPackets' \in [Endpoints -> SUBSET Seqs]
          /\ accepted' \in [Endpoints -> SUBSET wire]
          /\ redelivered' \subseteq wire
          /\ sessionKey[e] # Nil
      BY <3>1, OpenFacts
    <3>4. SameSecrets
      BY <3>2, <3>3, NilAssumption DEF SameSecrets
    <3>5. Receives(e, p)
      BY <3>1, <3>4 DEF Receives, network
    <3>6. TypeOK'
      BY <3>1, <3>2, <3>3 DEF TypeOK, network
    <3> QED
      BY <3>1, <3>5, <3>6 DEF Effect, TypeOK
  <2> QED
    BY <2>1, <2>2
<1>10. ASSUME NEW e \in Endpoints, Dispose(e)
       PROVE  TypeOK' /\ Effect
  <2>1. TypeOK'
    BY <1>10 DEF Dispose, TypeOK, network, history
  <2>2. Closes(e)
    BY <1>10 DEF Dispose, Closes, Unspent, network
  <2> QED
    BY <2>1, <2>2 DEF Effect
<1>11. ASSUME NEW e \in Endpoints, Restart(e)
       PROVE  TypeOK' /\ Effect
  <2>1. /\ used' \in [Calls -> Nat]
        /\ Unspent({"handshake", "send", "rekey"})
    BY <1>11, SpendFacts DEF Restart, Unspent
  <2>2. 0 \in Seqs
    BY SeqModAssumption DEF Seqs
  <2>3. TypeOK'
    BY <1>11, <2>1, <2>2 DEF Restart, TypeOK, network, history
  <2>4. Closes(e)
    BY <1>11, <2>1 DEF Restart, Closes, network
  <2> QED
    BY <2>3, <2>4 DEF Effect
<1> QED
  BY <1>1, <1>2, <1>3, <1>4, <1>5, <1>6, <1>7, <1>8, <1>9, <1>10, <1>11
     DEF Next, InitializeSession

(* New objects have the types.                                             *)
LEMMA TypeInit == Init => TypeOK
<1>1. 0 \in Seqs
  BY SeqModAssumption DEF Seqs
<1> QED
  BY <1>1 DEF Init, TypeOK

(* Two QuarkDash objects keep their types through every call.              *)
THEOREM TypeCorrect == Spec => []TypeOK
<1>1. TypeOK /\ [Next]_vars => TypeOK'
  BY StepEffect
<1> QED
  BY TypeInit, <1>1, PTL DEF Spec
-----------------------------------------------------------------------------
(* Both halves of a handshake hash the same things: the key pair that the  *)
(* ciphertext is for, and the ciphertext.                                  *)
FromHandshake(e) ==
    \E kp \in KeyPairs, ct \in Ciphertexts :
        handshake[e] = <<kp, ct>> /\ sessionKey[e].secret = Secret(kp, kp, ct)

HandshakeInv ==
    TypeOK /\ \A e \in Endpoints : sessionKey[e] # Nil => FromHandshake(e)

(* Only a handshake sets a secret, and it notes what it came from.         *)
LEMMA HandshakeStep == HandshakeInv /\ [Next]_vars => HandshakeInv'
<1> SUFFICES ASSUME HandshakeInv, [Next]_vars,
                    NEW d \in Endpoints, sessionKey'[d] # Nil
             PROVE  FromHandshake(d)'
  BY StepEffect DEF HandshakeInv
<1>1. TypeOK /\ Effect
  BY StepEffect DEF HandshakeInv
<1>2. sessionKey[d] # Nil => FromHandshake(d)
  BY DEF HandshakeInv
<1>3. CASE Quiet
  BY <1>2, <1>3 DEF Quiet, history, FromHandshake
<1>4. ASSUME NEW e \in Endpoints, NEW kp \in KeyPairs, NEW ct \in Ciphertexts,
             Initiates(e, kp, ct) \/ Finalizes(e, kp, ct)
      PROVE  FromHandshake(d)'
  <2>1. Establish(e, Secret(kp, kp, ct), kp, ct)
    BY <1>4 DEF Initiates, Finalizes
  <2>2. CASE d = e
    <3>1. /\ handshake'[d] = <<kp, ct>>
          /\ sessionKey'[d].secret = Secret(kp, kp, ct)
      BY <1>1, <2>1, <2>2, EstablishFacts
    <3> QED
      BY <3>1 DEF FromHandshake
  <2>3. CASE d # e
    <3>1. handshake'[d] = handshake[d] /\ sessionKey'[d] = sessionKey[d]
      BY <1>1, <2>1, <2>3, EstablishFacts
    <3> QED
      BY <1>2, <3>1 DEF FromHandshake
  <2> QED
    BY <2>2, <2>3
<1>5. ASSUME SameSecrets, UNCHANGED handshake
      PROVE  FromHandshake(d)'
  BY <1>2, <1>5 DEF SameSecrets, FromHandshake
<1>6. ASSUME NEW e \in Endpoints, Closes(e)
      PROVE  FromHandshake(d)'
  <2>1. sessionKey'[d] = sessionKey[d] /\ handshake'[d] = handshake[d]
    BY <1>1, <1>6 DEF Closes, TypeOK, history
  <2> QED
    BY <1>2, <2>1 DEF FromHandshake
<1> QED
  BY <1>1, <1>3, <1>4, <1>5, <1>6 DEF Effect, Sends, Receives, history

(* InitializeSession and FinalizeSession agree on a secret exactly when    *)
(* both ends took part in one handshake, with one key pair, whatever key   *)
(* pairs, restarts and calls of Dispose came before.                       *)
THEOREM HandshakesAgree == Spec => []HandshakeAgreement
<1>1. Init => HandshakeInv
  BY TypeInit DEF Init, HandshakeInv
<1>2. HandshakeInv => HandshakeAgreement
  <2> SUFFICES ASSUME HandshakeInv, NEW e \in Endpoints, NEW d \in Endpoints,
                      Established(e, d)
               PROVE  SameSession(e, d) <=> handshake[e] = handshake[d]
    BY DEF HandshakeAgreement
  <2>1. FromHandshake(e) /\ FromHandshake(d)
    BY DEF HandshakeInv, Established
  <2> QED
    BY <2>1 DEF FromHandshake, SameSession, Secret
<1> QED
  BY <1>1, <1>2, HandshakeStep, PTL DEF Spec
-----------------------------------------------------------------------------
(* Every ciphertext was made by a handshake call, and every secret from a  *)
(* ciphertext: a new one leads to a secret never used before.              *)
Origins ==
    /\ \A ct \in ciphertexts : ct.n < used["handshake"]
    /\ \A e \in Endpoints :
          sessionKey[e] # Nil => sessionKey[e].secret.ct \in ciphertexts
    /\ \A p \in wire : p.key.secret.ct \in ciphertexts

(* An end is in the session of a secret. *)
In(e, secret) == sessionKey[e] # Nil /\ sessionKey[e].secret = secret

(* An end that uses a secret has made or opened its ciphertext. *)
Owns(e, secret) == secret.ct.from = e \/ secret.ct \in finalized

Owners ==
    /\ \A e \in Endpoints :
          /\ sessionKey[e] # Nil => Owns(e, sessionKey[e].secret)
          /\ \A p \in accepted[e] : Owns(e, p.key.secret)
    /\ \A p \in wire : Owns(p.from, p.key.secret)

OriginInv == TypeOK /\ Origins /\ Owners

(* A session that begins has a secret its end has not used: nothing it     *)
(* sent or accepted before is under it.                                    *)
LEMMA NewSecret ==
    ASSUME OriginInv, FinalizeOnce, NEW e \in Endpoints,
           NEW kp \in KeyPairs, NEW ct \in Ciphertexts,
           Initiates(e, kp, ct) \/ Finalizes(e, kp, ct)
    PROVE  /\ \A p \in accepted[e] : p.key.secret # Secret(kp, kp, ct)
           /\ \A p \in wire :
                p.from = e => p.key.secret # Secret(kp, kp, ct)
           /\ \A d \in Endpoints :
                In(d, Secret(kp, kp, ct)) => ~Owns(e, Secret(kp, kp, ct))
<1>1. Secret(kp, kp, ct).ct = ct
  BY RootKeyFacts
<1>2. CASE Initiates(e, kp, ct)
  <2>1. ct \notin ciphertexts
    BY <1>2 DEF Initiates, OriginInv, Origins, TypeOK, Calls
  <2>2. accepted[e] \subseteq wire
    BY DEF OriginInv, TypeOK
  <2> QED
    BY <1>1, <2>1, <2>2 DEF OriginInv, Origins, In
<1>3. CASE Finalizes(e, kp, ct)
  <2>1. ~Owns(e, Secret(kp, kp, ct))
    BY <1>1, <1>3, PeerFacts DEF Finalizes, Owns
  <2> QED
    BY <2>1 DEF OriginInv, Owners
<1> QED
  BY <1>2, <1>3

(* Every step keeps the origins and the owners of secrets.                 *)
LEMMA OriginStep == OriginInv /\ [Next]_vars => OriginInv'
<1> SUFFICES ASSUME OriginInv, [Next]_vars PROVE Origins' /\ Owners'
  BY StepEffect DEF OriginInv
<1>1. TypeOK /\ TypeOK' /\ Effect /\ Origins /\ Owners
  BY StepEffect DEF OriginInv
<1> USE CallNames
<1>2. CASE Quiet
  BY <1>1, <1>2 DEF Quiet, history, Unspent, Origins, Owners, Owns
<1>3. ASSUME NEW e \in Endpoints, NEW kp \in KeyPairs, NEW ct \in Ciphertexts,
             Initiates(e, kp, ct)
      PROVE  Origins' /\ Owners'
  <2>1. /\ used'["handshake"] = used["handshake"] + 1
        /\ used["handshake"] \in Nat
    BY <1>1, <1>3, SpendFacts DEF Initiates, TypeOK
  <2>2. /\ sessionKey'[e].secret.ct = ct
        /\ \A d \in Endpoints \ {e} : sessionKey'[d] = sessionKey[d]
    BY <1>1, <1>3, EstablishFacts DEF Initiates
  <2>3. /\ ciphertexts' = ciphertexts \cup {ct}
        /\ ct.from = e /\ ct.n = used["handshake"]
        /\ UNCHANGED <<wire, finalized, accepted>>
    BY <1>3 DEF Initiates
  <2>4. \A c \in ciphertexts : c.n \in Nat
    BY <1>1 DEF TypeOK, Ciphertexts
  <2>5. Origins'
    BY <1>1, <2>1, <2>2, <2>3, <2>4 DEF Origins
  <2>6. Owners'
    BY <1>1, <2>2, <2>3 DEF Owners, Owns
  <2> QED
    BY <2>5, <2>6
<1>4. ASSUME NEW e \in Endpoints, NEW kp \in KeyPairs, NEW ct \in Ciphertexts,
             Finalizes(e, kp, ct)
      PROVE  Origins' /\ Owners'
  <2>1. /\ sessionKey'[e].secret.ct = ct
        /\ \A d \in Endpoints \ {e} : sessionKey'[d] = sessionKey[d]
    BY <1>1, <1>4, EstablishFacts DEF Finalizes
  <2>2. /\ ct \in ciphertexts
        /\ finalized' = finalized \cup {ct}
        /\ UNCHANGED <<ciphertexts, wire, accepted, used>>
    BY <1>4 DEF Finalizes
  <2>3. Origins'
    BY <1>1, <2>1, <2>2 DEF Origins
  <2>4. Owners'
    BY <1>1, <2>1, <2>2 DEF Owners, Owns
  <2> QED
    BY <2>3, <2>4
<1>5. ASSUME NEW e \in Endpoints, NEW p \in Packets,
             NEW call \in {"send", "rekey"}, Sends(e, p, call)
      PROVE  Origins' /\ Owners'
  <2>1. used'["handshake"] = used["handshake"]
    BY <1>1, <1>5, SpendFacts DEF Sends
  <2>2. /\ wire' = wire \cup {p} /\ SameSecrets
        /\ p.from = e /\ p.key = sessionKey[e] /\ sessionKey[e] # Nil
        /\ UNCHANGED <<ciphertexts, finalized, accepted>>
    BY <1>5 DEF Sends, history
  <2>3. Origins'
    BY <1>1, <2>1, <2>2 DEF Origins, SameSecrets
  <2>4. Owners'
    BY <1>1, <2>2 DEF Owners, Owns, SameSecrets
  <2> QED
    BY <2>3, <2>4
<1>6. ASSUME NEW e \in Endpoints, NEW p \in Packets, Receives(e, p)
      PROVE  Origins' /\ Owners'
  <2>1. /\ p \in wire /\ Open(e, p) /\ SameSecrets
        /\ UNCHANGED <<ciphertexts, wire, finalized, used>>
    BY <1>6 DEF Receives
  <2>2. /\ p.key = sessionKey[e] /\ sessionKey[e] # Nil
        /\ accepted' = [accepted EXCEPT ![e] = @ \cup {p}]
    BY <1>1, <2>1, OpenFacts
  <2>3. Origins'
    BY <1>1, <2>1 DEF Origins, SameSecrets
  <2>4. Owners'
    BY <1>1, <2>1, <2>2 DEF Owners, Owns, SameSecrets, TypeOK
  <2> QED
    BY <2>3, <2>4
<1>7. ASSUME NEW e \in Endpoints, Closes(e)
      PROVE  Origins' /\ Owners'
  <2>1. /\ \A d \in Endpoints :
              sessionKey'[d] # Nil => sessionKey'[d] = sessionKey[d]
        /\ used'["handshake"] = used["handshake"]
        /\ UNCHANGED <<ciphertexts, wire, finalized, accepted>>
    BY <1>1, <1>7 DEF Closes, TypeOK, Unspent, history
  <2> QED
    BY <1>1, <2>1 DEF Origins, Owners, Owns
<1> QED
  BY <1>1, <1>2, <1>3, <1>4, <1>5, <1>6, <1>7 DEF Effect

(* In the beginning there are no secrets.                                  *)
LEMMA OriginInit == Init => OriginInv
BY TypeInit DEF Init, OriginInv, Origins, Owners
-----------------------------------------------------------------------------
(* The window never has to forget a packet. *)
NothingEvicted == MaxUsed["send"] + MaxUsed["rekey"] <= MaxPacketWindow

(* There are no more packets than calls that seal one, and the windows     *)
(* hold numbers of packets.                                                *)
Room ==
    /\ used["send"] <= MaxUsed["send"]
    /\ used["rekey"] <= MaxUsed["rekey"]
    /\ IsFiniteSet(wire)
    /\ Cardinality(wire) <= used["send"] + used["rekey"]
    /\ \A e \in Endpoints : receivedPackets[e] \subseteq {p.seq : p \in wire}

(* What was accepted under the secret of the session is in the window. *)
Remembered ==
    \A e \in Endpoints : \A p \in accepted[e] :
        sessionKey[e] # Nil /\ p.key.secret = sessionKey[e].secret
            => p.seq \in receivedPackets[e]

OnceInv == OriginInv /\ Room /\ Remembered /\ AtMostOnce

(* Under these circumstances recording a packet drops no other. *)
LEMMA NothingDropped ==
    ASSUME TypeOK, Room, NothingEvicted, NEW e \in Endpoints, NEW p \in wire
    PROVE  Admit(receivedPackets[e], p.seq) = receivedPackets[e] \cup {p.seq}
<1> DEFINE numbers == {q.seq : q \in wire}
           grown == receivedPackets[e] \cup {p.seq}
<1>1. IsFiniteSet(numbers) /\ Cardinality(numbers) <= Cardinality(wire)
  <2> DEFINE f == [q \in wire |-> q.seq]
  <2>1. f \in Surjection(wire, numbers)
    BY DEF Surjection
  <2> QED
    BY <2>1, FS_Surjection DEF Room
<1>2. grown \subseteq numbers
  BY DEF Room
<1> HIDE DEF numbers, grown
<1>3. IsFiniteSet(grown) /\ Cardinality(grown) <= Cardinality(numbers)
  BY <1>1, <1>2, FS_Subset
<1>4. /\ Cardinality(grown) \in Nat /\ Cardinality(numbers) \in Nat
      /\ Cardinality(wire) \in Nat
  BY <1>1, <1>3, FS_CardinalityType DEF Room
<1>5. /\ used["send"] \in Nat /\ used["rekey"] \in Nat
      /\ MaxUsed["send"] \in Nat /\ MaxUsed["rekey"] \in Nat
  BY CallNames, BoundsAssumption DEF TypeOK
<1>6. ~(Cardinality(grown) > MaxPacketWindow)
  BY <1>1, <1>3, <1>4, <1>5, MaxPacketWindowAssumption
     DEF Room, NothingEvicted
<1> QED
  BY <1>6 DEF Admit, grown

(* Each packet takes a call, and each number in a window a packet.         *)
LEMMA RoomStep ==
    ASSUME TypeOK, Room, [Next]_vars
    PROVE  Room'
<1>1. TypeOK' /\ Effect
  BY StepEffect
<1>2. /\ used["send"] \in Nat /\ used["rekey"] \in Nat
      /\ MaxUsed["send"] \in Nat /\ MaxUsed["rekey"] \in Nat
  BY CallNames, BoundsAssumption DEF TypeOK
<1>3. ASSUME Unspent({"send", "rekey"}), UNCHANGED wire,
             \A e \in Endpoints :
                receivedPackets'[e] \subseteq receivedPackets[e]
      PROVE  Room'
  BY <1>3 DEF Room, Unspent
<1>4. ASSUME NEW e \in Endpoints, NEW p \in Packets,
             NEW call \in {"send", "rekey"}, Sends(e, p, call)
      PROVE  Room'
  <2>1. /\ used'[call] = used[call] + 1
        /\ used'[call] <= MaxUsed[call]
        /\ \A c \in {"send", "rekey"} \ {call} : used'[c] = used[c]
    BY <1>2, <1>4, CallNames, SpendFacts DEF Sends
  <2>2. /\ IsFiniteSet(wire')
        /\ Cardinality(wire') <= Cardinality(wire) + 1
        /\ Cardinality(wire) \in Nat /\ Cardinality(wire') \in Nat
    <3>1. wire' = wire \cup {p} /\ IsFiniteSet(wire)
      BY <1>4 DEF Sends, Room
    <3>2. IsFiniteSet(wire') /\ Cardinality(wire) \in Nat
      BY <3>1, FS_AddElement, FS_CardinalityType
    <3>3. Cardinality(wire') <= Cardinality(wire) + 1
      BY <3>1, <3>2, FS_AddElement
    <3> QED
      BY <3>2, <3>3, FS_CardinalityType
  <2>3. \A d \in Endpoints :
           receivedPackets'[d] \subseteq {q.seq : q \in wire'}
    BY <1>4 DEF Sends, Room
  <2> QED
    BY <1>2, <2>1, <2>2, <2>3 DEF Room
<1>5. ASSUME NEW e \in Endpoints, NEW p \in Packets, Receives(e, p)
      PROVE  Room'
  <2>1. /\ p \in wire
        /\ receivedPackets' = [receivedPackets EXCEPT ![e] = Admit(@, p.seq)]
        /\ receivedPackets'[e] \subseteq receivedPackets[e] \cup {p.seq}
        /\ UNCHANGED <<wire, used>>
    BY <1>5, OpenFacts DEF Receives
  <2>2. \A d \in Endpoints \ {e} : receivedPackets'[d] = receivedPackets[d]
    BY <2>1 DEF TypeOK
  <2> QED
    BY <2>1, <2>2 DEF Room
<1>6. ASSUME Unspent({"send", "rekey"}), UNCHANGED <<wire, receivedPackets>>
      PROVE  Room'
  BY <1>3, <1>6
<1>7. ASSUME NEW e \in Endpoints, Closes(e)
      PROVE  Room'
  BY <1>3, <1>7 DEF Closes, Unspent, TypeOK
<1>8. ASSUME NEW e \in Endpoints, NEW kp \in KeyPairs, NEW ct \in Ciphertexts,
             Initiates(e, kp, ct)
      PROVE  Room'
  <2>1. Unspent({"send", "rekey"})
    BY <1>8, CallNames, SpendFacts DEF Initiates, Unspent
  <2> QED
    BY <1>6, <1>8, <2>1 DEF Initiates
<1> QED
  BY <1>1, <1>4, <1>5, <1>6, <1>7, <1>8
     DEF Effect, Quiet, Finalizes, Unspent

(* No step forgets or repeats a packet of the session.                     *)
LEMMA RememberedStep ==
    ASSUME OnceInv, FinalizeOnce, NothingEvicted, [Next]_vars
    PROVE  Remembered' /\ AtMostOnce'
<1>1. TypeOK /\ TypeOK' /\ Effect
  BY StepEffect DEF OnceInv, OriginInv
<1> USE DEF OnceInv
<1>2. CASE Quiet
  BY <1>2 DEF Quiet, history, Remembered, AtMostOnce
<1>3. ASSUME NEW e \in Endpoints, NEW kp \in KeyPairs, NEW ct \in Ciphertexts,
             Initiates(e, kp, ct) \/ Finalizes(e, kp, ct)
      PROVE  Remembered' /\ AtMostOnce'
  <2>1. \A p \in accepted[e] : p.key.secret # Secret(kp, kp, ct)
    BY <1>3, NewSecret
  <2>2. /\ sessionKey'[e].secret = Secret(kp, kp, ct)
        /\ \A d \in Endpoints \ {e} : sessionKey'[d] = sessionKey[d]
    BY <1>1, <1>3, EstablishFacts DEF Initiates, Finalizes
  <2>3. UNCHANGED <<receivedPackets, accepted, redelivered>>
    BY <1>3 DEF Initiates, Finalizes
  <2> QED
    BY <2>1, <2>2, <2>3 DEF Remembered, AtMostOnce
<1>4. ASSUME SameSecrets, UNCHANGED <<receivedPackets, accepted, redelivered>>
      PROVE  Remembered' /\ AtMostOnce'
  BY <1>4 DEF SameSecrets, Remembered, AtMostOnce
<1>5. ASSUME NEW e \in Endpoints, NEW p \in Packets, Receives(e, p)
      PROVE  Remembered' /\ AtMostOnce'
  <2>1. p \in wire /\ Open(e, p) /\ SameSecrets
    BY <1>5 DEF Receives
  <2>2. /\ p.key = sessionKey[e] /\ sessionKey[e] # Nil
        /\ p.seq \notin receivedPackets[e]
        /\ receivedPackets' = [receivedPackets EXCEPT ![e] = Admit(@, p.seq)]
        /\ accepted' = [accepted EXCEPT ![e] = @ \cup {p}]
        /\ redelivered' = redelivered \cup ({p} \cap accepted[e])
    BY <1>1, <2>1, OpenFacts
  <2>3. p \notin accepted[e]
    BY <2>2 DEF Remembered
  <2>4. receivedPackets'[e] = receivedPackets[e] \cup {p.seq}
    BY <1>1, <2>1, <2>2, NothingDropped DEF TypeOK
  <2>5. /\ \A d \in Endpoints \ {e} :
              /\ receivedPackets'[d] = receivedPackets[d]
              /\ accepted'[d] = accepted[d]
        /\ accepted'[e] = accepted[e] \cup {p}
    BY <1>1, <2>2 DEF TypeOK
  <2>6. Remembered'
    BY <2>1, <2>4, <2>5 DEF Remembered, SameSecrets
  <2> QED
    BY <2>2, <2>3, <2>6 DEF AtMostOnce
<1>6. ASSUME NEW e \in Endpoints, Closes(e)
      PROVE  Remembered' /\ AtMostOnce'
  <2>1. /\ sessionKey'[e] = Nil
        /\ \A d \in Endpoints \ {e} :
              /\ sessionKey'[d] = sessionKey[d]
              /\ receivedPackets'[d] = receivedPackets[d]
        /\ UNCHANGED <<accepted, redelivered>>
    BY <1>1, <1>6 DEF Closes, TypeOK, history
  <2> QED
    BY <2>1 DEF Remembered, AtMostOnce
<1> QED
  BY <1>1, <1>2, <1>3, <1>4, <1>5, <1>6 DEF Effect, Sends, history

(* Decrypt and ApplyRekey let no packet through twice, across handshakes,  *)
(* rotations, calls of Dispose and restarts, provided that the callers     *)
(* finalize a ciphertext once and the window never has to forget.          *)
THEOREM AcceptedOnce ==
    ASSUME FinalizeOnce, NothingEvicted
    PROVE  Spec => []AtMostOnce
<1>1. Init => OnceInv
  <2>1. MaxUsed["send"] \in Nat /\ MaxUsed["rekey"] \in Nat
    BY CallNames, BoundsAssumption
  <2>2. Init => Room
    BY <2>1, CallNames, FS_EmptySet DEF Init, Room
  <2> QED
    BY <2>2, OriginInit DEF Init, OnceInv, Remembered, AtMostOnce
<1>2. OnceInv /\ [Next]_vars => OnceInv'
  <2> SUFFICES ASSUME OnceInv, [Next]_vars PROVE OnceInv'
    OBVIOUS
  <2>1. OriginInv'
    BY OriginStep DEF OnceInv
  <2>2. Room'
    BY RoomStep DEF OnceInv, OriginInv
  <2>3. Remembered' /\ AtMostOnce'
    BY RememberedStep
  <2> QED
    BY <2>1, <2>2, <2>3 DEF OnceInv
<1>3. OnceInv => AtMostOnce
  BY DEF OnceInv
<1> QED
  BY <1>1, <1>2, <1>3, PTL DEF Spec
-----------------------------------------------------------------------------
(* Sequence numbers do not come round. *)
NoWrap == MaxUsed["send"] + MaxUsed["rekey"] < SeqMod

(* An end numbers the packets of a session upwards, so that no two carry   *)
(* the same number; restarts and calls of Dispose end the session.         *)
Numbered ==
    /\ used["send"] <= MaxUsed["send"]
    /\ used["rekey"] <= MaxUsed["rekey"]
    /\ \A e \in Endpoints : sendSeq[e] <= used["send"] + used["rekey"]
    /\ \A e \in Endpoints : \A p \in wire :
          /\ p.from = e
          /\ sessionKey[e] # Nil /\ p.key.secret = sessionKey[e].secret
          => p.seq < sendSeq[e]
    /\ \A p, q \in wire :
          /\ p.from = q.from
          /\ p.key.secret = q.key.secret
          /\ p.seq = q.seq
          => p = q

(* A window holds the numbers accepted in the present session, and those   *)
(* it brought into it.                                                     *)
OfSession ==
    \A e \in Endpoints : \A s \in receivedPackets[e] :
        /\ sessionKey[e] # Nil
        /\ \/ s \in carried[e]
           \/ \E p \in accepted[e] :
                 /\ p.from = Peer(e) /\ p.seq = s
                 /\ p.key.secret = sessionKey[e].secret

ReplayInv == OriginInv /\ Numbered /\ OfSession

(* Every step keeps the numbering: a new packet takes the next number.     *)
LEMMA NumberedStep ==
    ASSUME OriginInv, Numbered, FinalizeOnce, NoWrap, [Next]_vars
    PROVE  Numbered'
<1>1. TypeOK /\ TypeOK' /\ Effect
  BY StepEffect DEF OriginInv
<1>2. /\ used["send"] \in Nat /\ used["rekey"] \in Nat
      /\ MaxUsed["send"] \in Nat /\ MaxUsed["rekey"] \in Nat
      /\ \A e \in Endpoints : sendSeq[e] \in Nat
      /\ \A p \in wire : p.seq \in Nat
  BY <1>1, CallNames, BoundsAssumption, SeqModAssumption
     DEF TypeOK, Packets, Seqs
<1>3. ASSUME NEW e \in Endpoints, NEW kp \in KeyPairs, NEW ct \in Ciphertexts,
             Initiates(e, kp, ct) \/ Finalizes(e, kp, ct)
      PROVE  Numbered'
  <2>1. \A p \in wire : p.from = e => p.key.secret # Secret(kp, kp, ct)
    BY <1>3, NewSecret
  <2>2. /\ sessionKey'[e].secret = Secret(kp, kp, ct)
        /\ \A d \in Endpoints \ {e} : sessionKey'[d] = sessionKey[d]
    BY <1>1, <1>3, EstablishFacts DEF Initiates, Finalizes
  <2>3. UNCHANGED <<sendSeq, wire>>
    BY <1>3 DEF Initiates, Finalizes
  <2>4. used'["send"] = used["send"] /\ used'["rekey"] = used["rekey"]
    BY <1>1, <1>3, CallNames, SpendFacts DEF Initiates, Finalizes
  <2> QED
    BY <2>1, <2>2, <2>3, <2>4 DEF Numbered
<1>4. ASSUME NEW e \in Endpoints, NEW p \in Packets,
             NEW call \in {"send", "rekey"}, Sends(e, p, call)
      PROVE  Numbered'
  <2>1. /\ p.from = e /\ p.seq = sendSeq[e]
        /\ p.key = sessionKey[e] /\ sessionKey[e] # Nil
        /\ wire' = wire \cup {p} /\ SameSecrets
        /\ sendSeq' = [sendSeq EXCEPT ![e] = NextSeq(@)]
    BY <1>4 DEF Sends
  <2>2. /\ used'[call] = used[call] + 1
        /\ used'[call] <= MaxUsed[call]
        /\ \A c \in {"send", "rekey"} \ {call} : used'[c] = used[c]
    BY <1>1, <1>2, <1>4, CallNames, SpendFacts DEF Sends
  <2>3. /\ used'["send"] + used'["rekey"] = used["send"] + used["rekey"] + 1
        /\ used'["send"] <= MaxUsed["send"]
        /\ used'["rekey"] <= MaxUsed["rekey"]
    BY <1>2, <2>2 DEF Numbered
  <2>4. sendSeq'[e] = sendSeq[e] + 1
    <3>1. sendSeq[e] + 1 < SeqMod
      <4>1. sendSeq[e] <= used["send"] + used["rekey"]
        BY DEF Numbered
      <4>2. used["send"] + used["rekey"] + 1 < SeqMod
        <5> HIDE DEF NoWrap
        <5>1. used'["send"] \in Nat /\ used'["rekey"] \in Nat
          BY <1>1, CallNames DEF TypeOK
        <5> QED
          BY <1>2, <2>3, <5>1, SeqModAssumption DEF NoWrap
      <4> QED
        BY <1>2, <4>1, <4>2, SeqModAssumption
    <3> QED
      BY <1>1, <2>1, <3>1, NextSeqFacts DEF TypeOK
  <2>5. \A d \in Endpoints \ {e} : sendSeq'[d] = sendSeq[d]
    BY <1>1, <2>1 DEF TypeOK
  <2>6. \A d \in Endpoints : sendSeq'[d] <= used'["send"] + used'["rekey"]
    BY <1>2, <2>3, <2>4, <2>5 DEF Numbered
  <2>7. ASSUME NEW d \in Endpoints, NEW q \in wire', q.from = d,
               sessionKey'[d] # Nil, q.key.secret = sessionKey'[d].secret
        PROVE  q.seq < sendSeq'[d]
    <3>1. sessionKey[d] # Nil /\ q.key.secret = sessionKey[d].secret
      BY <2>1, <2>7 DEF SameSecrets
    <3>2. CASE q \in wire
      <4>1. q.seq < sendSeq[d] /\ q.seq \in Nat
        BY <1>2, <2>7, <3>1, <3>2 DEF Numbered
      <4> QED
        BY <1>2, <2>4, <2>5, <4>1
    <3>3. CASE q = p
      BY <1>2, <2>1, <2>4, <2>7, <3>3
    <3> QED
      BY <2>1, <3>2, <3>3
  <2>8. ASSUME NEW q \in wire, q.from = e, q.key.secret = p.key.secret
        PROVE  q.seq # p.seq
    <3>1. q.seq < sendSeq[e]
      BY <2>1, <2>8 DEF Numbered
    <3> QED
      BY <1>2, <2>1, <3>1
  <2>9. \A q, r \in wire' :
          /\ q.from = r.from
          /\ q.key.secret = r.key.secret
          /\ q.seq = r.seq
          => q = r
    BY <2>1, <2>8 DEF Numbered
  <2> QED
    BY <2>3, <2>6, <2>7, <2>9 DEF Numbered
<1>5. ASSUME SameSecrets, Unspent({"send", "rekey"}),
             UNCHANGED <<sendSeq, wire>>
      PROVE  Numbered'
  BY <1>5 DEF Numbered, SameSecrets, Unspent
<1>6. ASSUME NEW e \in Endpoints, Closes(e)
      PROVE  Numbered'
  <2>1. /\ sessionKey'[e] = Nil
        /\ \A d \in Endpoints \ {e} :
              sessionKey'[d] = sessionKey[d] /\ sendSeq'[d] = sendSeq[d]
        /\ sendSeq'[e] = sendSeq[e] \/ sendSeq'[e] = 0
        /\ used'["send"] = used["send"] /\ used'["rekey"] = used["rekey"]
        /\ wire' = wire
    BY <1>1, <1>6 DEF Closes, TypeOK, Unspent
  <2>2. \A d \in Endpoints : sendSeq'[d] <= used["send"] + used["rekey"]
    BY <1>2, <2>1 DEF Numbered
  <2> QED
    BY <2>1, <2>2 DEF Numbered
<1>7. CASE Quiet
  <2>1. used'["send"] = used["send"] /\ used'["rekey"] = used["rekey"]
    BY <1>7 DEF Quiet, Unspent
  <2> QED
    BY <1>7, <2>1 DEF Quiet, Numbered
<1> QED
  BY <1>1, <1>3, <1>4, <1>5, <1>6, <1>7 DEF Effect, Receives, Unspent

(* A window is cleared when the session ends, and what it holds when a     *)
(* live object begins another is noted.                                    *)
LEMMA OfSessionStep ==
    ASSUME OriginInv, OfSession, [Next]_vars
    PROVE  OfSession'
<1>1. TypeOK /\ TypeOK' /\ Effect
  BY StepEffect DEF OriginInv
<1>2. CASE Quiet
  BY <1>2 DEF Quiet, history, OfSession
<1>3. ASSUME NEW e \in Endpoints, NEW kp \in KeyPairs, NEW ct \in Ciphertexts,
             Initiates(e, kp, ct) \/ Finalizes(e, kp, ct)
      PROVE  OfSession'
  <2>1. receivedPackets[e] = {} \/ sessionKey[e] # Nil
    BY DEF OfSession
  <2>2. /\ sessionKey[e] # Nil => carried'[e] = receivedPackets[e]
        /\ sessionKey'[e] \in Keys
        /\ \A d \in Endpoints \ {e} :
              sessionKey'[d] = sessionKey[d] /\ carried'[d] = carried[d]
    BY <1>1, <1>3, EstablishFacts DEF Initiates, Finalizes
  <2>3. UNCHANGED <<receivedPackets, accepted>>
    BY <1>3 DEF Initiates, Finalizes
  <2> QED
    BY <2>1, <2>2, <2>3, NilAssumption DEF OfSession
<1>4. ASSUME SameSecrets, UNCHANGED <<receivedPackets, accepted, carried>>
      PROVE  OfSession'
  BY <1>4 DEF SameSecrets, OfSession
<1>5. ASSUME NEW e \in Endpoints, NEW p \in Packets, Receives(e, p)
      PROVE  OfSession'
  <2>1. /\ p \in wire /\ p.from = Peer(e)
        /\ Open(e, p) /\ SameSecrets
    BY <1>5 DEF Receives
  <2>2. /\ p.key = sessionKey[e] /\ sessionKey[e] # Nil
        /\ receivedPackets' = [receivedPackets EXCEPT ![e] = Admit(@, p.seq)]
        /\ receivedPackets'[e] \subseteq receivedPackets[e] \cup {p.seq}
        /\ accepted' = [accepted EXCEPT ![e] = @ \cup {p}]
    BY <1>1, <2>1, OpenFacts
  <2>3. /\ accepted'[e] = accepted[e] \cup {p}
        /\ \A d \in Endpoints \ {e} :
              /\ receivedPackets'[d] = receivedPackets[d]
              /\ accepted'[d] = accepted[d]
    BY <1>1, <2>2 DEF TypeOK
  <2>4. ASSUME NEW s \in receivedPackets'[e]
        PROVE  /\ sessionKey'[e] # Nil
               /\ \/ s \in carried[e]
                  \/ \E q \in accepted'[e] :
                        /\ q.from = Peer(e) /\ q.seq = s
                        /\ q.key.secret = sessionKey'[e].secret
    <3>1. sessionKey'[e] # Nil /\ sessionKey'[e].secret = sessionKey[e].secret
      BY <2>1, <2>2 DEF SameSecrets
    <3>2. CASE s = p.seq
      BY <2>1, <2>2, <2>3, <3>1, <3>2
    <3>3. CASE s \in receivedPackets[e]
      BY <2>3, <3>1, <3>3 DEF OfSession
    <3> QED
      BY <2>2, <2>4, <3>2, <3>3
  <2>5. carried' = carried
    BY <1>5 DEF Receives
  <2> QED
    BY <2>1, <2>3, <2>4, <2>5 DEF OfSession, SameSecrets
<1>6. ASSUME NEW e \in Endpoints, Closes(e)
      PROVE  OfSession'
  <2>1. /\ receivedPackets'[e] = {}
        /\ \A d \in Endpoints \ {e} :
              /\ sessionKey'[d] = sessionKey[d]
              /\ receivedPackets'[d] = receivedPackets[d]
        /\ UNCHANGED <<accepted, carried>>
    BY <1>1, <1>6 DEF Closes, TypeOK, history
  <2> QED
    BY <2>1 DEF OfSession
<1> QED
  BY <1>1, <1>2, <1>3, <1>4, <1>5, <1>6 DEF Effect, Sends, history

(* In the beginning there are no numbers.                                  *)
LEMMA ReplayInit == Init => ReplayInv
<1>1. MaxUsed["send"] \in Nat /\ MaxUsed["rekey"] \in Nat
  BY CallNames, BoundsAssumption
<1> QED
  BY <1>1, OriginInit, CallNames DEF Init, ReplayInv, Numbered, OfSession

(* The invariant of the numbers, step by step.                             *)
LEMMA ReplayStep ==
    ASSUME FinalizeOnce, NoWrap
    PROVE  ReplayInv /\ [Next]_vars => ReplayInv'
BY OriginStep, NumberedStep, OfSessionStep DEF ReplayInv

(* A number in the window is that of a packet the end has accepted, or one *)
(* from before the session.                                                *)
LEMMA InWindow ==
    ASSUME ReplayInv, NEW e \in Endpoints, NEW p \in wire,
           p.from = Peer(e), p.key = sessionKey[e],
           p.seq \in receivedPackets[e], p.seq \notin carried[e]
    PROVE  p \in accepted[e]
<1>1. PICK q \in accepted[e] :
         /\ q.from = Peer(e) /\ q.seq = p.seq
         /\ q.key.secret = sessionKey[e].secret
  BY DEF ReplayInv, OfSession
<1>2. q \in wire
  BY DEF ReplayInv, OriginInv, TypeOK
<1> QED
  BY <1>1, <1>2 DEF ReplayInv, Numbered

(* checkMetadata takes a fresh packet for a replay only because of a       *)
(* number that its window held when the object, still in use, began the    *)
(* session.  Numbers start over at a restart and go on after Dispose; the  *)
(* callers finalize a ciphertext once, and numbers do not come round.      *)
THEOREM FreshAdmitted ==
    ASSUME FinalizeOnce, NoWrap
    PROVE  Spec => []NoFalseReplay
<1>1. ReplayInv => NoFalseReplay
  BY InWindow DEF NoFalseReplay
<1> QED
  BY <1>1, ReplayInit, ReplayStep, PTL DEF Spec
-----------------------------------------------------------------------------
(* One end rotates, and the callers tell tokens from messages. *)
OneWay ==
    /\ ~Misrouting
    /\ \A e, d \in Rekeyers : e = d

(* Key s was on the way to key t. *)
Prefix(s, t) == Len(s) <= Len(t) /\ \A i \in 1 .. Len(s) : s[i] = t[i]

Chain(e) == sessionKey[e].chain

(* A token stands for one rotation of the end that rotates: that of the    *)
(* key it is sealed under, while that session lasts. *)
TokenOf(p, r) ==
    LET n == Len(p.key.chain)
    IN  /\ r \in Rekeyers
        /\ p.counter = n % CounterMod
        /\ In(r, p.key.secret) =>
              /\ n < Len(Chain(r)) /\ Prefix(p.key.chain, Chain(r))
              /\ Chain(r)[n + 1] = <<p.salt, n>>

Tokens ==
    /\ \A p \in wire : p.kind = "token" => TokenOf(p, p.from)
    /\ \A r \in Rekeyers : sessionKey[r] # Nil =>
          \A n \in 0 .. Len(Chain(r)) - 1 :
              \E p \in wire :
                  /\ p.kind = "token" /\ p.from = r
                  /\ In(r, p.key.secret) /\ Len(p.key.chain) = n

(* The other end has taken some of these rotations, in order; an end that  *)
(* took any did so with a secret its peer owns.                            *)
Follows(e, r) ==
    /\ In(r, sessionKey[e].secret) => Prefix(Chain(e), Chain(r))
    /\ Chain(e) # <<>> => Owns(r, sessionKey[e].secret)

Chains ==
    /\ \A e \in Endpoints :
          sessionKey[e] # Nil => rekeyCounter[e] = Len(Chain(e))
    /\ \A e \in Endpoints \ Rekeyers :
          sessionKey[e] # Nil => Follows(e, Peer(e))

(* A token that was opened was applied, unless its counter had wrapped. *)
Applied ==
    \A e \in Endpoints : \A p \in accepted[e] :
        /\ p.kind = "token" /\ Len(p.key.chain) < CounterMod
        /\ sessionKey[e] # Nil /\ p.key.secret = sessionKey[e].secret
        => Len(p.key.chain) < Len(Chain(e))

GapInv == ReplayInv /\ Tokens /\ Chains /\ Applied

(* The chain of a key is a sequence of salts and counters.                 *)
LEMMA ChainType ==
    ASSUME NEW k \in Keys
    PROVE  /\ k.chain \in Seq(Nat \X Nat) /\ Len(k.chain) \in Nat
           /\ \A i \in 1 .. Len(k.chain) : k.chain[i] \in Nat \X Nat
BY DEF Keys

(* A counter that fits the payload is written as it is.                    *)
LEMMA Modulus ==
    ASSUME NEW n \in Nat
    PROVE  n < CounterMod => n % CounterMod = n
BY CounterModAssumption

(* Keys that one end's chain leads to are equal if they are equally long. *)
LEMMA SamePrefix ==
    ASSUME NEW j \in Keys, NEW k \in Keys, NEW t \in Seq(Nat \X Nat),
           j.secret = k.secret, Len(j.chain) = Len(k.chain),
           Prefix(j.chain, t), Prefix(k.chain, t)
    PROVE  j = k
<1>1. j.chain = k.chain
  <2>1. j.chain \in Seq(Nat \X Nat) /\ k.chain \in Seq(Nat \X Nat)
    BY DEF Keys
  <2>2. \A i \in 1 .. Len(j.chain) : j.chain[i] = k.chain[i]
    BY DEF Prefix
  <2> QED
    BY <2>1, <2>2, SeqEqual
<1> QED
  BY <1>1 DEF Keys

(* Rotating an end only adds to its chain. *)
LEMMA Grown ==
    ASSUME NEW s \in Seq(Nat \X Nat), NEW x \in Nat \X Nat
    PROVE  /\ Append(s, x) \in Seq(Nat \X Nat)
           /\ Len(Append(s, x)) = Len(s) + 1
           /\ Append(s, x)[Len(s) + 1] = x
           /\ \A i \in 1 .. Len(s) : Append(s, x)[i] = s[i]
           /\ Prefix(s, Append(s, x))
BY AppendProperties DEF Prefix

(* The empty chain is on the way to every other. *)
LEMMA Empty ==
    ASSUME NEW k \in Keys
    PROVE  Prefix(<<>>, k.chain)
BY ChainType DEF Prefix

(* A session that begins changes nothing for the tokens that are there:    *)
(* none of those its end sent is under the new secret, and if the peer has *)
(* this secret already, it has not rotated with it.                        *)
LEMMA GapEstablish ==
    ASSUME GapInv, FinalizeOnce, TypeOK',
           NEW e \in Endpoints, NEW kp \in KeyPairs, NEW ct \in Ciphertexts,
           Initiates(e, kp, ct) \/ Finalizes(e, kp, ct)
    PROVE  Tokens' /\ Chains' /\ Applied'
<1> DEFINE S == Secret(kp, kp, ct)
<1>1. TypeOK /\ OriginInv
  BY DEF GapInv, ReplayInv, OriginInv
<1>2. /\ sessionKey'[e] \in Keys /\ sessionKey'[e] # Nil
      /\ sessionKey'[e].secret = S
      /\ sessionKey'[e].chain = <<>> /\ rekeyCounter'[e] = 0
      /\ \A d \in Endpoints \ {e} :
            /\ sessionKey'[d] = sessionKey[d]
            /\ rekeyCounter'[d] = rekeyCounter[d]
  BY <1>1, EstablishFacts, NilAssumption DEF Initiates, Finalizes
<1>3. UNCHANGED <<wire, accepted>> /\ finalized \subseteq finalized'
  BY DEF Initiates, Finalizes
<1>4. /\ \A p \in accepted[e] : p.key.secret # S
      /\ \A p \in wire : p.from = e => p.key.secret # S
      /\ \A d \in Endpoints : In(d, S) => ~Owns(e, S)
  BY <1>1, NewSecret
<1> HIDE DEF S
<1>5. Tokens'
  <2>1. ASSUME NEW p \in wire, p.kind = "token" PROVE TokenOf(p, p.from)'
    <3>1. TokenOf(p, p.from) /\ p.from \in Endpoints
      BY <1>1, <2>1 DEF GapInv, Tokens, TypeOK, Packets
    <3>2. CASE p.from = e
      BY <1>2, <1>4, <3>1, <3>2 DEF TokenOf, In
    <3>3. CASE p.from # e
      BY <1>2, <3>1, <3>3 DEF TokenOf, In, Chain
    <3> QED
      BY <3>2, <3>3
  <2>2. ASSUME NEW r \in Rekeyers, sessionKey'[r] # Nil,
               NEW n \in 0 .. Len(Chain(r)') - 1
        PROVE  \E p \in wire :
                  /\ p.kind = "token" /\ p.from = r
                  /\ In(r, p.key.secret)' /\ Len(p.key.chain) = n
    <3>1. r # e
      BY <1>2, <2>2 DEF Chain
    <3>2. sessionKey'[r] = sessionKey[r]
      BY <1>2, <3>1, RolesAssumption
    <3> QED
      BY <2>2, <3>2 DEF GapInv, Tokens, Chain, In
  <2> QED
    BY <1>3, <2>1, <2>2 DEF Tokens
<1>6. Chains'
  <2>1. \A d \in Endpoints :
           sessionKey'[d] # Nil => rekeyCounter'[d] = Len(Chain(d)')
    BY <1>2 DEF GapInv, Chains, Chain
  <2>2. ASSUME NEW d \in Endpoints \ Rekeyers, sessionKey'[d] # Nil
        PROVE  Follows(d, Peer(d))'
    <3>1. CASE d = e
      <4>1. sessionKey'[Peer(e)] # Nil => sessionKey'[Peer(e)] \in Keys
        BY PeerFacts DEF TypeOK
      <4> QED
        BY <1>2, <3>1, <4>1, Empty DEF Follows, Chain, In
    <3>2. CASE d # e
      <4>1. /\ Follows(d, e) /\ Peer(d) = e
            /\ sessionKey'[d] = sessionKey[d]
        BY <1>2, <2>2, <3>2, PeerFacts DEF GapInv, Chains
      <4>2. In(e, sessionKey[d].secret)' => Chain(d) = <<>>
        BY <1>2, <1>4, <2>2, <4>1 DEF Follows, In
      <4>3. Prefix(<<>>, Chain(e)')
        BY <1>2, Empty DEF Chain
      <4>4. Owns(e, sessionKey[d].secret) => Owns(e, sessionKey[d].secret)'
        BY <1>3, <4>1 DEF Owns
      <4> QED
        BY <4>1, <4>2, <4>3, <4>4 DEF Follows, Chain
    <3> QED
      BY <3>1, <3>2
  <2> QED
    BY <2>1, <2>2 DEF Chains
<1>7. Applied'
  BY <1>2, <1>3, <1>4 DEF GapInv, Applied, Chain
<1> QED
  BY <1>5, <1>6, <1>7

(* An end that closes leaves the session; the other end is as it was.      *)
LEMMA GapClose ==
    ASSUME GapInv, NEW e \in Endpoints, Closes(e)
    PROVE  Tokens' /\ Chains' /\ Applied'
<1>1. TypeOK
  BY DEF GapInv, ReplayInv, OriginInv
<1>2. /\ sessionKey'[e] = Nil
      /\ \A d \in Endpoints \ {e} :
            /\ sessionKey'[d] = sessionKey[d]
            /\ rekeyCounter'[d] = rekeyCounter[d]
      /\ UNCHANGED <<wire, accepted, finalized>>
  BY <1>1 DEF Closes, TypeOK, history
<1>3. Tokens'
  <2>1. ASSUME NEW p \in wire, p.kind = "token" PROVE TokenOf(p, p.from)'
    <3>1. TokenOf(p, p.from) /\ p.from \in Endpoints
      BY <1>1, <2>1 DEF GapInv, Tokens, TypeOK, Packets
    <3> QED
      BY <1>2, <3>1 DEF TokenOf, In, Chain
  <2>2. \A r \in Rekeyers : sessionKey'[r] # Nil =>
           sessionKey'[r] = sessionKey[r]
    BY <1>2, RolesAssumption
  <2> QED
    BY <1>2, <2>1, <2>2 DEF GapInv, Tokens, Chain, In
<1>4. Chains'
  <2>1. ASSUME NEW d \in Endpoints \ Rekeyers, sessionKey'[d] # Nil
        PROVE  Follows(d, Peer(d))'
    <3>1. d # e /\ Peer(d) = e /\ sessionKey'[d] = sessionKey[d]
      BY <1>2, <2>1, PeerFacts
    <3>2. Follows(d, e)
      BY <2>1, <3>1 DEF GapInv, Chains
    <3> QED
      BY <1>2, <3>1, <3>2 DEF Follows, In, Owns, Chain
  <2> QED
    BY <1>2, <2>1 DEF GapInv, Chains, Chain
<1>5. Applied'
  BY <1>2 DEF GapInv, Applied, Chain
<1> QED
  BY <1>3, <1>4, <1>5

(* The end that rotates puts the token of each rotation on the network. *)
LEMMA GapRekey ==
    ASSUME GapInv, OneWay, TypeOK', NEW e \in Endpoints,
           e \in Rekeyers, sessionKey[e] # Nil, RekeyDerive(e, Token(e).salt),
           wire' = wire \cup {Token(e)}, UNCHANGED <<accepted, finalized>>
    PROVE  Tokens' /\ Chains' /\ Applied'
<1> DEFINE salt == Token(e).salt
           n == rekeyCounter[e]
<1>1. TypeOK
  BY DEF GapInv, ReplayInv, OriginInv
<1>2. /\ sessionKey[e] \in Keys /\ salt \in Nat /\ n \in Nat
      /\ Token(e).kind = "token" /\ Token(e).from = e
      /\ Token(e).key = sessionKey[e]
      /\ Token(e).counter = n % CounterMod
  BY <1>1, PacketFacts DEF Packets, Token, TypeOK
<1> HIDE DEF salt
<1>3. /\ sessionKey'[e] \in Keys
      /\ sessionKey'[e].secret = sessionKey[e].secret
      /\ sessionKey'[e].chain = Append(Chain(e), <<salt, n>>)
      /\ rekeyCounter'[e] = n + 1
      /\ \A d \in Endpoints \ {e} :
            /\ sessionKey'[d] = sessionKey[d]
            /\ rekeyCounter'[d] = rekeyCounter[d]
  BY <1>1, <1>2, DeriveFacts DEF salt, Chain
<1>4. n = Len(Chain(e)) /\ Chain(e) \in Seq(Nat \X Nat)
  BY <1>2, ChainType DEF GapInv, Chains, Chain
<1>5. /\ Len(Chain(e)') = n + 1
      /\ Chain(e)'[n + 1] = <<salt, n>>
      /\ \A i \in 1 .. n : Chain(e)'[i] = Chain(e)[i]
      /\ Prefix(Chain(e), Chain(e)')
  BY <1>2, <1>3, <1>4, Grown DEF Chain
<1>6. sessionKey'[e] # Nil
  BY <1>3, NilAssumption
<1>7. ASSUME NEW s \in Seq(Nat \X Nat), Prefix(s, Chain(e))
      PROVE  Prefix(s, Chain(e)')
  BY <1>2, <1>4, <1>5, <1>7 DEF Prefix
<1>8. ASSUME NEW p \in wire', p.kind = "token"
      PROVE  TokenOf(p, p.from)'
  <2>1. CASE p = Token(e)
    <3>1. /\ p.from = e /\ p.key = sessionKey[e] /\ p.key.chain = Chain(e)
          /\ Len(p.key.chain) = n /\ p.salt = salt
          /\ p.counter = n % CounterMod
      BY <1>2, <1>4, <2>1 DEF Chain, salt
    <3>2. /\ Len(p.key.chain) < Len(Chain(e)')
          /\ Prefix(p.key.chain, Chain(e)')
          /\ Chain(e)'[Len(p.key.chain) + 1] = <<p.salt, Len(p.key.chain)>>
      BY <1>2, <1>5, <3>1
    <3> QED
      BY <3>1, <3>2 DEF TokenOf
  <2>2. CASE p \in wire
    <3> DEFINE m == Len(p.key.chain)
    <3>1. TokenOf(p, p.from)
      BY <1>8, <2>2 DEF GapInv, Tokens
    <3>2. p.from = e
      BY <3>1 DEF TokenOf, OneWay
    <3>3. p.key.chain \in Seq(Nat \X Nat) /\ m \in Nat
      BY <1>1, <2>2, ChainType DEF TypeOK, Packets
    <3>4. ASSUME In(e, p.key.secret)'
          PROVE  /\ m < Len(Chain(e)') /\ Prefix(p.key.chain, Chain(e)')
                 /\ Chain(e)'[m + 1] = <<p.salt, m>>
      <4>1. In(e, p.key.secret)
        BY <1>2, <1>3, <3>4 DEF In
      <4>2. /\ m < n /\ Prefix(p.key.chain, Chain(e))
            /\ Chain(e)[m + 1] = <<p.salt, m>>
        BY <1>4, <3>1, <3>2, <4>1 DEF TokenOf
      <4>3. m + 1 \in 1 .. n /\ m < n + 1
        BY <1>2, <3>3, <4>2
      <4> QED
        BY <1>5, <1>7, <3>3, <4>2, <4>3
    <3> QED
      BY <3>1, <3>2, <3>4 DEF TokenOf
  <2> QED
    BY <1>8, <2>1, <2>2
<1>9. ASSUME NEW r \in Rekeyers, sessionKey'[r] # Nil,
             NEW i \in 0 .. Len(Chain(r)') - 1
      PROVE  \E p \in wire' :
                /\ p.kind = "token" /\ p.from = r
                /\ In(r, p.key.secret)' /\ Len(p.key.chain) = i
  <2>1. r = e
    BY DEF OneWay
  <2>2. CASE i = n
    BY <1>2, <1>3, <1>4, <1>6, <2>1, <2>2 DEF Chain, In
  <2>3. CASE i # n
    <3>1. i \in 0 .. Len(Chain(e)) - 1
      BY <1>2, <1>4, <1>5, <1>9, <2>1, <2>3
    <3>2. PICK p \in wire :
            /\ p.kind = "token" /\ p.from = e
            /\ In(e, p.key.secret) /\ Len(p.key.chain) = i
      BY <2>1, <3>1 DEF GapInv, Tokens
    <3>3. In(e, p.key.secret)'
      BY <1>3, <1>6, <3>2 DEF In
    <3> QED
      BY <2>1, <3>2, <3>3
  <2> QED
    BY <2>2, <2>3
<1>10. Tokens'
  BY <1>8, <1>9 DEF Tokens
<1>11. Chains'
  <2>1. \A d \in Endpoints :
           sessionKey'[d] # Nil => rekeyCounter'[d] = Len(Chain(d)')
    BY <1>3, <1>5 DEF GapInv, Chains, Chain
  <2>2. ASSUME NEW d \in Endpoints \ Rekeyers, sessionKey'[d] # Nil
        PROVE  Follows(d, Peer(d))'
    <3>1. /\ d # e /\ Peer(d) = e
          /\ sessionKey'[d] = sessionKey[d] /\ sessionKey[d] \in Keys
      BY <1>1, <1>3, <2>2, PeerFacts DEF TypeOK
    <3>2. Follows(d, e) /\ Chain(d) \in Seq(Nat \X Nat)
      BY <2>2, <3>1, ChainType DEF GapInv, Chains, Chain
    <3>3. In(e, sessionKey[d].secret)' => Prefix(Chain(d), Chain(e)')
      BY <1>3, <1>7, <3>2 DEF Follows, In
    <3> QED
      BY <3>1, <3>2, <3>3 DEF Follows, Chain, Owns
  <2> QED
    BY <2>1, <2>2 DEF Chains
<1>12. Applied'
  <2> SUFFICES ASSUME NEW d \in Endpoints, NEW p \in accepted[d],
                      p.kind = "token", Len(p.key.chain) < CounterMod,
                      sessionKey'[d] # Nil,
                      p.key.secret = sessionKey'[d].secret
               PROVE  Len(p.key.chain) < Len(Chain(d)')
    BY DEF Applied
  <2>1. sessionKey[d] # Nil /\ p.key.secret = sessionKey[d].secret
    BY <1>3
  <2>2. Len(p.key.chain) < Len(Chain(d)) /\ Len(p.key.chain) \in Nat
    BY <1>1, <2>1, ChainType DEF GapInv, Applied, TypeOK, Packets
  <2>3. CASE d = e
    BY <1>2, <1>4, <1>5, <2>2, <2>3
  <2>4. CASE d # e
    BY <1>3, <2>2, <2>4 DEF Chain
  <2> QED
    BY <2>3, <2>4
<1> QED
  BY <1>10, <1>11, <1>12

(* The end that follows applies the token of the key it holds, and no      *)
(* other, and so takes the rotation that the first end took.               *)
LEMMA GapReceive ==
    ASSUME GapInv, OneWay, TypeOK', NEW e \in Endpoints, NEW p \in Packets,
           Receives(e, p)
    PROVE  Tokens' /\ Chains' /\ Applied'
<1> DEFINE n == rekeyCounter[e]
<1>1. TypeOK
  BY DEF GapInv, ReplayInv, OriginInv
<1>2. /\ p \in wire /\ p.from = Peer(e) /\ Open(e, p) /\ wire' = wire
  BY DEF Receives
<1>3. /\ p.key = sessionKey[e] /\ sessionKey[e] \in Keys /\ sessionKey[e] # Nil
      /\ accepted' = [accepted EXCEPT ![e] = @ \cup {p}]
      /\ n \in Nat
  BY <1>1, <1>2, OpenFacts DEF TypeOK
<1>4. /\ accepted'[e] = accepted[e] \cup {p}
      /\ \A d \in Endpoints \ {e} : accepted'[d] = accepted[d]
  BY <1>1, <1>3 DEF TypeOK
<1>5. n = Len(Chain(e)) /\ Chain(e) \in Seq(Nat \X Nat)
  BY <1>3, ChainType DEF GapInv, Chains, Chain
<1>6. CASE p.kind = "token" /\ p.counter = n /\ RekeyDerive(e, p.salt)
  <2> DEFINE r == Peer(e)
  <2>1. r \in Endpoints /\ r # e /\ TokenOf(p, r)
    BY <1>2, <1>6, PeerFacts DEF GapInv, Tokens
  <2> HIDE DEF r
  <2>2. /\ r \in Rekeyers /\ e \notin Rekeyers
        /\ In(r, sessionKey[e].secret) =>
              /\ n < Len(Chain(r)) /\ Prefix(Chain(e), Chain(r))
              /\ Chain(r)[n + 1] = <<p.salt, n>>
    BY <1>3, <1>5, <2>1 DEF TokenOf, OneWay, Chain
  <2>3. p.salt \in Nat
    BY DEF Packets
  <2>4. /\ sessionKey'[e] \in Keys
        /\ sessionKey'[e].secret = sessionKey[e].secret
        /\ sessionKey'[e].chain = Append(Chain(e), <<p.salt, n>>)
        /\ rekeyCounter'[e] = n + 1
        /\ \A d \in Endpoints \ {e} :
              /\ sessionKey'[d] = sessionKey[d]
              /\ rekeyCounter'[d] = rekeyCounter[d]
    BY <1>1, <1>3, <1>6, <2>3, DeriveFacts DEF Chain
  <2>5. /\ Len(Chain(e)') = n + 1
        /\ Chain(e)'[n + 1] = <<p.salt, n>>
        /\ \A i \in 1 .. n : Chain(e)'[i] = Chain(e)[i]
    BY <1>3, <1>5, <2>3, <2>4, Grown DEF Chain
  <2>6. In(r, sessionKey[e].secret) => Len(Chain(r)) \in Nat
    BY <1>1, <2>1, ChainType DEF TypeOK, Chain, In
  <2>7. ASSUME In(r, sessionKey[e].secret) PROVE Prefix(Chain(e)', Chain(r))
    <3>1. \A i \in 1 .. n : Chain(e)'[i] = Chain(r)[i]
      BY <1>5, <2>2, <2>5, <2>7 DEF Prefix
    <3>2. n + 1 <= Len(Chain(r))
      BY <1>3, <2>2, <2>6, <2>7
    <3>3. ASSUME NEW i \in 1 .. n + 1 PROVE Chain(e)'[i] = Chain(r)[i]
      <4>1. CASE i = n + 1
        BY <2>2, <2>5, <2>7, <4>1
      <4>2. CASE i # n + 1
        <5>1. i \in 1 .. n
          BY <1>3, <4>2
        <5> QED
          BY <3>1, <5>1
      <4> QED
        BY <4>1, <4>2
    <3>4. Len(Chain(e)') = n + 1
      BY <2>5
    <3> QED
      BY <3>2, <3>3, <3>4 DEF Prefix
  <2>8. Tokens'
    <3>1. \A d \in Rekeyers :
             /\ sessionKey'[d] = sessionKey[d] /\ Chain(d)' = Chain(d)
             /\ \A s : In(d, s)' = In(d, s)
      BY <2>2, <2>4, RolesAssumption DEF Chain, In
    <3>2. ASSUME NEW q \in wire, q.kind = "token"
          PROVE  TokenOf(q, q.from)'
      <4>1. TokenOf(q, q.from)
        BY <3>2 DEF GapInv, Tokens
      <4> QED
        BY <3>1, <4>1 DEF TokenOf
    <3>3. ASSUME NEW d \in Rekeyers, sessionKey'[d] # Nil,
                 NEW k \in 0 .. Len(Chain(d)') - 1
          PROVE  \E q \in wire :
                    /\ q.kind = "token" /\ q.from = d
                    /\ In(d, q.key.secret)' /\ Len(q.key.chain) = k
      <4>1. sessionKey[d] # Nil /\ k \in 0 .. Len(Chain(d)) - 1
        BY <3>1, <3>3
      <4>2. PICK q \in wire :
               /\ q.kind = "token" /\ q.from = d
               /\ In(d, q.key.secret) /\ Len(q.key.chain) = k
        BY <4>1 DEF GapInv, Tokens
      <4> QED
        BY <3>1, <4>2
    <3> QED
      BY <1>2, <3>2, <3>3 DEF Tokens
  <2>9. Chains'
    <3>1. \A d \in Endpoints :
             sessionKey'[d] # Nil => rekeyCounter'[d] = Len(Chain(d)')
      BY <2>4, <2>5 DEF GapInv, Chains, Chain
    <3>2. Follows(e, r)'
      <4>1. Owns(r, sessionKey[e].secret)
        BY <1>2, <1>3 DEF r, GapInv, ReplayInv, OriginInv, Owners
      <4>2. Owns(r, sessionKey[e].secret)'
        BY <2>4, <4>1 DEF Receives, Owns
      <4> QED
        BY <2>1, <2>4, <2>7, <4>2 DEF Follows, Chain, In
    <3>3. \A d \in Endpoints \ Rekeyers : d = e
      BY <2>1, <2>2, PeerFacts DEF r
    <3> QED
      BY <3>1, <3>2, <3>3 DEF Chains, r
  <2>10. Applied'
    <3> SUFFICES ASSUME NEW d \in Endpoints, NEW q \in accepted'[d],
                        q.kind = "token", Len(q.key.chain) < CounterMod,
                        sessionKey'[d] # Nil,
                        q.key.secret = sessionKey'[d].secret
                 PROVE  Len(q.key.chain) < Len(Chain(d)')
      BY DEF Applied
    <3>1. CASE q = p /\ d = e
      BY <1>3, <1>5, <2>5, <3>1 DEF Chain
    <3>2. CASE q \in accepted[d]
      <4>1. sessionKey[d] # Nil /\ q.key.secret = sessionKey[d].secret
        BY <1>3, <2>4
      <4>2. Len(q.key.chain) < Len(Chain(d)) /\ Len(q.key.chain) \in Nat
        BY <1>1, <3>2, <4>1, ChainType DEF GapInv, Applied, TypeOK, Packets
      <4>3. CASE d = e
        BY <1>3, <1>5, <2>5, <4>2, <4>3
      <4>4. CASE d # e
        BY <2>4, <4>2, <4>4 DEF Chain
      <4> QED
        BY <4>3, <4>4
    <3> QED
      BY <1>4, <3>1, <3>2
  <2> QED
    BY <2>8, <2>9, <2>10
<1>7. CASE /\ Misrouting \/ p.kind = "data" \/ p.counter # n
           /\ UNCHANGED <<sessionKey, rekeyCounter>>
  <2>1. Tokens'
    <3>1. \A q \in wire : q.kind = "token" => TokenOf(q, q.from)'
      BY <1>7 DEF GapInv, Tokens, TokenOf, Chain, In
    <3> QED
      BY <1>2, <1>7, <3>1 DEF GapInv, Tokens, Chain, In
  <2>2. Chains'
    BY <1>7 DEF Receives, GapInv, Chains, Follows, Chain, In, Owns
  <2>3. ASSUME p.kind = "token" PROVE ~(Len(p.key.chain) < CounterMod)
    <3>1. p.counter # n /\ TokenOf(p, p.from)
      BY <1>2, <1>7, <2>3 DEF OneWay, GapInv, Tokens
    <3>2. p.counter = n % CounterMod /\ Len(p.key.chain) = n
      BY <1>3, <1>5, <3>1 DEF TokenOf, Chain
    <3> QED
      BY <1>3, <3>1, <3>2, Modulus
  <2>4. Applied'
    BY <1>4, <1>7, <2>3 DEF GapInv, Applied, Chain
  <2> QED
    BY <2>1, <2>2, <2>4
<1> QED
  BY <1>6, <1>7 DEF Receives

(* The invariant of the rotations, step by step.                           *)
LEMMA GapStep ==
    ASSUME FinalizeOnce, NoWrap, OneWay,
           GapInv, [Next]_vars
    PROVE  GapInv'
<1>1. ReplayInv'
  BY ReplayStep DEF GapInv
<1>2. TypeOK /\ TypeOK' /\ Effect
  BY StepEffect DEF GapInv, ReplayInv, OriginInv
<1>3. CASE UNCHANGED <<sessionKey, rekeyCounter, wire, accepted, finalized>>
  <2>1. Tokens'
    BY <1>3 DEF GapInv, Tokens, TokenOf, Chain, In
  <2>2. Chains'
    BY <1>3 DEF GapInv, Chains, Follows, Chain, In, Owns
  <2>3. Applied'
    BY <1>3 DEF GapInv, Applied, Chain
  <2> QED
    BY <1>1, <2>1, <2>2, <2>3 DEF GapInv
<1>4. ASSUME NEW e \in Endpoints, NEW kp \in KeyPairs, NEW ct \in Ciphertexts,
             Initiates(e, kp, ct) \/ Finalizes(e, kp, ct)
      PROVE  Tokens' /\ Chains' /\ Applied'
  BY <1>2, <1>4, GapEstablish
<1>5. ASSUME NEW e \in Endpoints, NEW p \in Packets,
             NEW call \in {"send", "rekey"}, Sends(e, p, call)
      PROVE  Tokens' /\ Chains' /\ Applied'
  <2>1. CASE p.kind = "data" /\ UNCHANGED <<sessionKey, rekeyCounter>>
    <3>1. wire' = wire \cup {p} /\ UNCHANGED <<accepted, finalized>>
      BY <1>5 DEF Sends, history
    <3>2. Tokens'
      BY <2>1, <3>1 DEF GapInv, Tokens, TokenOf, Chain, In
    <3>3. Chains'
      BY <2>1, <3>1 DEF GapInv, Chains, Follows, Chain, In, Owns
    <3> QED
      BY <2>1, <3>1, <3>2, <3>3 DEF GapInv, Applied, Chain
  <2>2. CASE e \in Rekeyers /\ p = Token(e) /\ RekeyDerive(e, p.salt)
    BY <1>2, <1>5, <2>2, GapRekey DEF Sends, history
  <2> QED
    BY <1>5, <2>1, <2>2 DEF Sends
<1>6. ASSUME NEW e \in Endpoints, NEW p \in Packets, Receives(e, p)
      PROVE  Tokens' /\ Chains' /\ Applied'
  BY <1>2, <1>6, GapReceive
<1>7. ASSUME NEW e \in Endpoints, Closes(e)
      PROVE  Tokens' /\ Chains' /\ Applied'
  BY <1>7, GapClose
<1> QED
  BY <1>1, <1>2, <1>3, <1>4, <1>5, <1>6, <1>7
     DEF Effect, Quiet, history, GapInv

(* While one end rotates and the other applies its tokens, the token that  *)
(* takes the second end one step further is always on the network and      *)
(* would be applied, in whatever order tokens arrive and however often the *)
(* two begin a new session, until the counter outgrows the payload.        *)
THEOREM GapCanClose ==
    ASSUME FinalizeOnce, NoWrap, OneWay
    PROVE  Spec => []TokenClosesGap
<1>1. Init => GapInv
  <2> SUFFICES ASSUME Init PROVE Tokens /\ Chains /\ Applied
    BY ReplayInit DEF GapInv
  <2>1. /\ wire = {} /\ \A e \in Endpoints : sessionKey[e] = Nil
        /\ \A e \in Endpoints : accepted[e] = {}
        /\ Rekeyers \subseteq Endpoints
    BY RolesAssumption DEF Init
  <2> QED
    BY <2>1 DEF Tokens, Chains, Applied
<1>2. GapInv /\ [Next]_vars => GapInv'
  BY GapStep
<1>3. GapInv => TokenClosesGap
  <2> SUFFICES ASSUME GapInv, NEW e \in Endpoints, NEW d \in Endpoints,
                      SameSession(e, d),
                      Len(sessionKey[e].chain) < Len(sessionKey[d].chain),
                      rekeyCounter[e] < CounterMod
               PROVE  \E p \in Incoming(e, "token") :
                         /\ p.kind = "token"
                         /\ p.key = sessionKey[e]
                         /\ p.seq \in receivedPackets[e] =>
                               p.seq \in carried[e]
                         /\ p.counter = rekeyCounter[e]
                         /\ RekeyMaterial(p.key, p.salt, p.counter).chain
                              = SubSeq(sessionKey[d].chain, 1,
                                       Len(sessionKey[e].chain) + 1)
    BY DEF TokenClosesGap
  <2> DEFINE n == Len(Chain(e))
  <2>1. /\ TypeOK /\ e # d /\ e = Peer(d) /\ d = Peer(e)
        /\ sessionKey[e] # Nil /\ sessionKey[d] # Nil
        /\ sessionKey[e].secret = sessionKey[d].secret
        /\ sessionKey[e] \in Keys /\ sessionKey[d] \in Keys
    BY PeerFacts
       DEF SameSession, Established, GapInv, ReplayInv, OriginInv, TypeOK
  <2>2. /\ Chain(e) \in Seq(Nat \X Nat) /\ n \in Nat
        /\ Chain(d) \in Seq(Nat \X Nat) /\ Len(Chain(d)) \in Nat
        /\ n < Len(Chain(d)) /\ rekeyCounter[e] = n
    BY <2>1, ChainType DEF Chain, GapInv, Chains
  <2>3. d \in Rekeyers /\ e \notin Rekeyers
    <3>1. ASSUME d \notin Rekeyers PROVE FALSE
      <4>1. Follows(d, e)
        BY <2>1, <3>1 DEF GapInv, Chains
      <4> QED
        BY <2>1, <2>2, <4>1 DEF Follows, Prefix, In
    <3> QED
      BY <2>1, <3>1 DEF OneWay
  <2>4. PICK p \in wire :
          /\ p.kind = "token" /\ p.from = d
          /\ In(d, p.key.secret) /\ Len(p.key.chain) = n
    <3>1. n \in 0 .. Len(Chain(d)) - 1
      BY <2>2
    <3> QED
      BY <2>1, <2>3, <3>1 DEF GapInv, Tokens
  <2>5. /\ TokenOf(p, d) /\ p.key \in Keys /\ p.salt \in Nat
        /\ p.seq \in Seqs
    BY <2>1, <2>4 DEF GapInv, Tokens, TypeOK, Packets
  <2>6. p.key = sessionKey[e]
    <3>1. Prefix(Chain(e), Chain(d))
      <4>1. Follows(e, d)
        BY <2>1, <2>3 DEF GapInv, Chains
      <4> QED
        BY <2>1, <4>1 DEF Follows, In
    <3> QED
      BY <2>1, <2>2, <2>4, <2>5, <3>1, SamePrefix DEF TokenOf, Chain, In
  <2>7. p.counter = n
    BY <2>2, <2>4, <2>5, Modulus DEF TokenOf
  <2>8. p.seq \in receivedPackets[e] => p.seq \in carried[e]
    <3> SUFFICES ASSUME p.seq \in receivedPackets[e], p.seq \notin carried[e]
                 PROVE  FALSE
      OBVIOUS
    <3>1. p \in accepted[e]
      BY <2>1, <2>4, <2>6, InWindow DEF GapInv
    <3>2. Len(p.key.chain) < n
      BY <2>1, <2>2, <2>4, <2>6, <3>1 DEF GapInv, Applied, Chain
    <3> QED
      BY <2>2, <2>4, <3>2
  <2>9. RekeyMaterial(p.key, p.salt, p.counter).chain
          = SubSeq(Chain(d), 1, n + 1)
    <3>1. /\ Prefix(Chain(e), Chain(d))
          /\ Chain(d)[n + 1] = <<p.salt, n>>
      BY <2>4, <2>5, <2>6 DEF TokenOf, Chain
    <3>2. RekeyMaterial(p.key, p.salt, p.counter).chain
            = Append(Chain(e), <<p.salt, n>>)
      <4>1. RekeyMaterial(sessionKey[e], p.salt, n).chain
              = Append(sessionKey[e].chain, <<p.salt, n>>)
        BY <2>1, <2>2, <2>5, RekeyFacts
      <4> QED
        BY <2>6, <2>7, <4>1 DEF Chain
    <3>3. <<p.salt, n>> \in Nat \X Nat
      BY <2>2, <2>5
    <3> DEFINE s == Append(Chain(e), <<p.salt, n>>)
               t == SubSeq(Chain(d), 1, n + 1)
    <3>4. /\ s \in Seq(Nat \X Nat) /\ Len(s) = n + 1
          /\ s[n + 1] = <<p.salt, n>>
          /\ \A i \in 1 .. n : s[i] = Chain(e)[i]
      BY <2>2, <3>3, Grown
    <3>5. /\ t \in Seq(Nat \X Nat) /\ Len(t) = n + 1
          /\ \A i \in 1 .. n + 1 : t[i] = Chain(d)[i]
      BY <2>2, SubSeqProperties
    <3> HIDE DEF s, t
    <3>6. \A i \in 1 .. n + 1 : s[i] = t[i]
      <4> SUFFICES ASSUME NEW i \in 1 .. n + 1 PROVE s[i] = t[i]
        OBVIOUS
      <4>1. t[i] = Chain(d)[i] /\ t[n + 1] = Chain(d)[n + 1]
        <5>1. n + 1 \in 1 .. n + 1
          BY <2>2
        <5> QED
          BY <3>5, <5>1
      <4>2. CASE i = n + 1
        BY <3>1, <3>4, <4>1, <4>2
      <4>3. CASE i # n + 1
        <5>1. i \in 1 .. n
          BY <2>2, <4>3
        <5> QED
          BY <3>1, <3>4, <4>1, <5>1 DEF Prefix
      <4> QED
        BY <4>2, <4>3
    <3>7. s = t
      BY <3>4, <3>5, <3>6, SeqEqual
    <3> QED
      BY <3>2, <3>7 DEF s, t
  <2> QED
    BY <2>1, <2>2, <2>4, <2>6, <2>7, <2>8, <2>9
       DEF Incoming, Chain
<1> QED
  BY <1>1, <1>2, <1>3, PTL DEF Spec
=============================================================================

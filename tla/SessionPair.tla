----------------------------- MODULE SessionPair -----------------------------
(***************************************************************************)
(* Two QuarkDash objects and everything their callers may do with them:    *)
(* the handshake, messages, key rotation, Dispose, and replacing an object *)
(* by a new one (a restart of the process).  One action is one call of the *)
(* API, atomic here; SessionThreads splits a call at its lock operations.  *)
(*                                                                         *)
(* The transport is the set of everything ever sent: it reorders,          *)
(* duplicates and delays, and loses what it never delivers.  Timestamps    *)
(* are left to ReplayWindow: every packet here is within the tolerance.    *)
(*                                                                         *)
(* Keys are symbolic.  A session key is what it was derived from: the      *)
(* shared secret and the rotations since, so two ends hold equal keys iff  *)
(* they derived them from equal inputs.  sessionKey and macKey always come *)
(* from one derivation and are one value; a MAC verifies iff the packet's  *)
(* key is the receiver's.  The rotation statistics of NeedsRekey are left  *)
(* out: the application may rotate at any time.                            *)
(***************************************************************************)
EXTENDS PacketWindow, Sequences

CONSTANTS
    Endpoints,        \* the two ends
    Nil,              \* Go's nil
    Initiators,       \* ends that call InitializeSession(_, true)
    Rekeyers,         \* ends that call Rekey
    Closers,          \* ends that call Dispose or restart
    FinalizeOnce,     \* callers Finalize a ciphertext at most once
    Misrouting,       \* callers confuse messages and rotation payloads
    CounterMod,       \* 2^32 in the code: the counter's width in a payload
    MaxUsed           \* bounds: how often each call that makes a new value
                      \* (a key pair, a ciphertext, a packet...) is made

ASSUME PairAssumption ==
    \E a, b \in Endpoints : a # b /\ Endpoints = {a, b}
ASSUME RolesAssumption ==
    Initiators \cup Rekeyers \cup Closers \subseteq Endpoints
ASSUME DisciplineAssumption ==
    {FinalizeOnce, Misrouting} \subseteq BOOLEAN
ASSUME CounterModAssumption == CounterMod \in Nat \ {0}

VARIABLES
    sessionKey,       \* per end: sessionKey and macKey, or Nil
    rekeyCounter,
    sendSeq,
    receivedPackets,
    myKey,            \* my{Public,Private}Key: the key pair, or Nil
    peerPublicKey,    \* the peer's, or Nil
    published,        \* public keys handed to the peer
    ciphertexts,      \* handshake messages on the network
    wire,             \* packets on the network
    handshake,        \* history: what the session was established from
    finalized,        \* history: ciphertexts passed to FinalizeSession
    accepted,         \* history: packets Decrypt let through
    redelivered,      \* history: packets it let through again
    carried,          \* history: what a live window held at its handshake
    used              \* bounds: calls made so far

object == <<sessionKey, rekeyCounter, sendSeq, receivedPackets, myKey,
            peerPublicKey>>
network == <<published, ciphertexts, wire>>
history == <<handshake, finalized, accepted, redelivered, carried>>
vars == <<object, network, history, used>>

Calls == {"keyPair", "handshake", "send", "rekey", "restart"}

ASSUME BoundsAssumption == MaxUsed \in [Calls -> Nat]

Peer(e) == CHOOSE d \in Endpoints : d # e

Spend(call) ==
    /\ used[call] < MaxUsed[call]
    /\ used' = [used EXCEPT ![call] = @ + 1]
-----------------------------------------------------------------------------
(* A key pair is named by its owner and its rank; public and private half  *)
(* are not told apart.                                                     *)
KeyPair(e, n) == [owner |-> e, n |-> n]

(* hashSharedSecret(bits, pub, ct), where the bits both ends reconcile     *)
(* depend on the private key that opens the ciphertext.                    *)
Secret(priv, pub, ct) == [priv |-> priv, pub |-> pub, ct |-> ct]

(* Mistaken variant: the responder hashes the other end's key. *)
DecapsulateWrongKey(priv, pub, ct) ==
    Secret(priv, KeyPair(ct.from, pub.n), ct)

Encapsulate(pub, ct) == Secret(pub, pub, ct)
Decapsulate(priv, pub, ct) == Secret(priv, pub, ct)

(* deriveSessionKeys: a KDF of the secret with a salt of zeros. *)
RootKey(secret) == [secret |-> secret, chain |-> <<>>]

(* DeriveRekeyMaterial: a KDF of the old keys, the salt and the counter. *)
RekeyMaterial(key, salt, counter) ==
    [key EXCEPT !.chain = Append(@, <<salt, counter>>)]

Data(e) ==
    [from |-> e, key |-> sessionKey[e], seq |-> sendSeq[e], kind |-> "data",
     salt |-> used["send"], counter |-> 0]

(* A payload has four bytes for the counter. *)
Token(e) ==
    [from |-> e, key |-> sessionKey[e], seq |-> sendSeq[e], kind |-> "token",
     salt |-> used["rekey"], counter |-> rekeyCounter[e] % CounterMod]

Init ==
    /\ sessionKey = [e \in Endpoints |-> Nil]
    /\ rekeyCounter = [e \in Endpoints |-> 0]
    /\ sendSeq = [e \in Endpoints |-> 0]
    /\ receivedPackets = [e \in Endpoints |-> {}]
    /\ myKey = [e \in Endpoints |-> Nil]
    /\ peerPublicKey = [e \in Endpoints |-> Nil]
    /\ published = {}
    /\ ciphertexts = {}
    /\ wire = {}
    /\ handshake = [e \in Endpoints |-> Nil]
    /\ finalized = {}
    /\ accepted = [e \in Endpoints |-> {}]
    /\ redelivered = {}
    /\ carried = [e \in Endpoints |-> {}]
    /\ used = [c \in Calls |-> 0]
-----------------------------------------------------------------------------
GenerateKeyPair(e) ==
    LET kp == KeyPair(e, used["keyPair"])
    IN  /\ Spend("keyPair")
        /\ myKey' = [myKey EXCEPT ![e] = kp]
        /\ published' = published \cup {kp}
        /\ UNCHANGED <<sessionKey, rekeyCounter, sendSeq, receivedPackets,
                       peerPublicKey, ciphertexts, wire, history>>

(* deriveSessionKeys replaces the keys and resets the counter; sendSeq and *)
(* receivedPackets keep their values, also when the object had keys.       *)
Establish(e, secret, kp, ct) ==
    /\ sessionKey' = [sessionKey EXCEPT ![e] = RootKey(secret)]
    /\ rekeyCounter' = [rekeyCounter EXCEPT ![e] = 0]
    /\ handshake' = [handshake EXCEPT ![e] = <<kp, ct>>]
    /\ carried' = [carried EXCEPT ![e] =
                      IF sessionKey[e] # Nil THEN receivedPackets[e] ELSE {}]

(* A key pair that InitializeSession has to make for itself is never shown *)
(* to anyone.                                                              *)
Hidden(e) == KeyPair(e, MaxUsed["keyPair"] + used["restart"])

(* InitializeSession(pub, true). *)
InitiateSession(e, pub) ==
    LET ct == [from |-> e, to |-> pub, n |-> used["handshake"]]
    IN  /\ e \in Initiators
        /\ Spend("handshake")
        /\ peerPublicKey' = [peerPublicKey EXCEPT ![e] = pub]
        /\ myKey' = [myKey EXCEPT ![e] =
                        IF @ = Nil THEN Hidden(e) ELSE @]
        /\ Establish(e, Encapsulate(pub, ct), pub, ct)
        /\ ciphertexts' = ciphertexts \cup {ct}
        /\ UNCHANGED <<sendSeq, receivedPackets, published, wire, finalized,
                       accepted, redelivered>>

(* Mistaken variant: the end's own key is stored as the peer's. *)
AwaitOwnKey(e, pub) ==
    /\ peerPublicKey' = [peerPublicKey EXCEPT ![e] = Hidden(e)]
    /\ UNCHANGED <<sessionKey, rekeyCounter, sendSeq, receivedPackets, myKey,
                   network, history, used>>

(* InitializeSession(pub, false): the responder only notes the peer's key. *)
AwaitSession(e, pub) ==
    /\ peerPublicKey' = [peerPublicKey EXCEPT ![e] = pub]
    /\ myKey' = [myKey EXCEPT ![e] =
                    IF @ = Nil THEN Hidden(e) ELSE @]
    /\ UNCHANGED <<sessionKey, rekeyCounter, sendSeq, receivedPackets,
                   network, history, used>>

InitializeSession(e) ==
    \E pub \in {kp \in published : kp.owner = Peer(e)} :
        InitiateSession(e, pub) \/ AwaitSession(e, pub)

(* ErrSessionNotInitialized leaves everything as it is. *)
FinalizeSession(e) ==
    \E ct \in {c \in ciphertexts : c.from = Peer(e)} :
        \/ /\ myKey[e] # Nil /\ peerPublicKey[e] # Nil
           /\ FinalizeOnce => ct \notin finalized
           /\ Establish(e, Decapsulate(myKey[e], myKey[e], ct), myKey[e], ct)
           /\ finalized' = finalized \cup {ct}
           /\ UNCHANGED <<sendSeq, receivedPackets, myKey, peerPublicKey,
                          network, accepted, redelivered, used>>
        \/ /\ myKey[e] = Nil \/ peerPublicKey[e] = Nil
           /\ UNCHANGED vars
-----------------------------------------------------------------------------
(* Encrypt of a message; ErrSessionNotEstablished without keys. *)
Encrypt(e) ==
    \/ /\ sessionKey[e] # Nil
       /\ Spend("send")
       /\ wire' = wire \cup {Data(e)}
       /\ sendSeq' = [sendSeq EXCEPT ![e] = NextSeq(@)]
       /\ UNCHANGED <<sessionKey, rekeyCounter, receivedPackets, myKey,
                      peerPublicKey, published, ciphertexts, history>>
    \/ /\ sessionKey[e] = Nil
       /\ UNCHANGED vars

(* What Decrypt asks of a packet: the MAC first, then the window. *)
Opens(e, p) == p.key = sessionKey[e] /\ p.seq \notin receivedPackets[e]

(* Decrypt of an accepted packet, alone or inside ApplyRekey. *)
Open(e, p) ==
    /\ Opens(e, p)
    /\ receivedPackets' = [receivedPackets EXCEPT ![e] = Admit(@, p.seq)]
    /\ accepted' = [accepted EXCEPT ![e] = @ \cup {p}]
    /\ redelivered' = redelivered \cup ({p} \cap accepted[e])

(* The packets for a call that expects one kind; they look the same. *)
Incoming(e, kind) ==
    {p \in wire : p.from = Peer(e) /\ (p.kind = kind \/ Misrouting)}

(* Whatever error a packet meets (no session, a MAC of another key, a      *)
(* number in the window), nothing changes and the packet may come again.   *)
Decrypt(e) ==
    \E p \in Incoming(e, "data") :
        \/ /\ Open(e, p)
           /\ UNCHANGED <<sessionKey, rekeyCounter, sendSeq, myKey,
                          peerPublicKey, network, handshake, finalized,
                          carried, used>>
        \/ ~Opens(e, p) /\ UNCHANGED vars
-----------------------------------------------------------------------------
(* doRekeyDerive and reinitSession. *)
RekeyDerive(e, salt) ==
    /\ sessionKey' = [sessionKey EXCEPT ![e] =
                         RekeyMaterial(@, salt, rekeyCounter[e])]
    /\ rekeyCounter' = [rekeyCounter EXCEPT ![e] = @ + 1]

(* Mistaken variant: the new keys are derived first. *)
RekeyDeriveFirst(e) ==
    LET old == Token(e)
    IN  /\ e \in Rekeyers
        /\ sessionKey[e] # Nil
        /\ Spend("rekey")
        /\ RekeyDerive(e, old.salt)
        /\ wire' = wire \cup {[old EXCEPT !.key = sessionKey'[e]]}
        /\ sendSeq' = [sendSeq EXCEPT ![e] = NextSeq(@)]
        /\ UNCHANGED <<receivedPackets, myKey, peerPublicKey, published,
                       ciphertexts, history>>

(* The token is sealed under the old keys, then the new ones are derived.  *)
Rekey(e) ==
    /\ e \in Rekeyers
    /\ sessionKey[e] # Nil
    /\ Spend("rekey")
    /\ wire' = wire \cup {Token(e)}
    /\ sendSeq' = [sendSeq EXCEPT ![e] = NextSeq(@)]
    /\ RekeyDerive(e, Token(e).salt)
    /\ UNCHANGED <<receivedPackets, myKey, peerPublicKey, published,
                   ciphertexts, history>>

(* Mistaken variant: the counter is expected to have moved already. *)
ApplyTokenNext(e, p) ==
    \/ /\ Open(e, p)
       /\ IF p.kind = "token" /\ p.counter = rekeyCounter[e] + 1
            THEN RekeyDerive(e, p.salt)
            ELSE UNCHANGED <<sessionKey, rekeyCounter>>
       /\ UNCHANGED <<sendSeq, myKey, peerPublicKey, network, handshake,
                      finalized, carried, used>>
    \/ ~Opens(e, p) /\ UNCHANGED vars

(* A packet that opens takes its place in the window even if it is then    *)
(* found to be no payload, or one with the wrong counter.  A payload's     *)
(* counter, without sign, is compared with the unbounded rekeyCounter.     *)
ApplyToken(e, p) ==
    \/ /\ Open(e, p)
       /\ IF p.kind = "token" /\ p.counter = rekeyCounter[e]
            THEN RekeyDerive(e, p.salt)
            ELSE UNCHANGED <<sessionKey, rekeyCounter>>
       /\ UNCHANGED <<sendSeq, myKey, peerPublicKey, network, handshake,
                      finalized, carried, used>>
    \/ ~Opens(e, p) /\ UNCHANGED vars

ApplyRekey(e) == \E p \in Incoming(e, "token") : ApplyToken(e, p)
-----------------------------------------------------------------------------
(* Mistaken variants: the keys, or the window, survive. *)
DisposeKeepsKeys(e) ==
    /\ e \in Closers
    /\ receivedPackets' = [receivedPackets EXCEPT ![e] = {}]
    /\ UNCHANGED <<sessionKey, rekeyCounter, sendSeq, myKey, peerPublicKey,
                   network, history, used>>

DisposeKeepsWindow(e) ==
    /\ e \in Closers
    /\ sessionKey' = [sessionKey EXCEPT ![e] = Nil]
    /\ UNCHANGED <<receivedPackets, rekeyCounter, sendSeq, myKey,
                   peerPublicKey, network, history, used>>

(* Dispose forgets the keys and the window; the key pair, sendSeq and      *)
(* rekeyCounter stay.                                                      *)
Dispose(e) ==
    /\ e \in Closers
    /\ sessionKey' = [sessionKey EXCEPT ![e] = Nil]
    /\ receivedPackets' = [receivedPackets EXCEPT ![e] = {}]
    /\ UNCHANGED <<rekeyCounter, sendSeq, myKey, peerPublicKey, network,
                   history, used>>

(* The process ends and a New object takes the place of the old one. *)
Restart(e) ==
    /\ e \in Closers
    /\ Spend("restart")
    /\ sessionKey' = [sessionKey EXCEPT ![e] = Nil]
    /\ rekeyCounter' = [rekeyCounter EXCEPT ![e] = 0]
    /\ sendSeq' = [sendSeq EXCEPT ![e] = 0]
    /\ receivedPackets' = [receivedPackets EXCEPT ![e] = {}]
    /\ myKey' = [myKey EXCEPT ![e] = Nil]
    /\ peerPublicKey' = [peerPublicKey EXCEPT ![e] = Nil]
    /\ UNCHANGED <<network, history>>

Next ==
    \E e \in Endpoints :
        \/ GenerateKeyPair(e) \/ InitializeSession(e) \/ FinalizeSession(e)
        \/ Encrypt(e) \/ Decrypt(e)
        \/ Rekey(e) \/ ApplyRekey(e)
        \/ Dispose(e) \/ Restart(e)

Spec == Init /\ [][Next]_vars
-----------------------------------------------------------------------------
KeyPairs == [owner : Endpoints, n : Nat]

Ciphertexts == [from : Endpoints, to : KeyPairs, n : Nat]

Keys == [secret : [priv : KeyPairs, pub : KeyPairs, ct : Ciphertexts],
         chain : Seq(Nat \X Nat)]

Packets == [from : Endpoints, key : Keys, seq : Seqs,
            kind : {"data", "token"}, salt : Nat, counter : Nat]

ASSUME NilAssumption == Nil \notin Keys

(* The type invariant of the two objects and the network. *)
TypeOK ==
    /\ sessionKey \in [Endpoints -> {Nil} \cup Keys]
    /\ rekeyCounter \in [Endpoints -> Nat]
    /\ sendSeq \in [Endpoints -> Seqs]
    /\ receivedPackets \in [Endpoints -> SUBSET Seqs]
    /\ myKey \in [Endpoints -> {Nil} \cup KeyPairs]
    /\ peerPublicKey \in [Endpoints -> {Nil} \cup published]
    /\ published \subseteq KeyPairs
    /\ ciphertexts \subseteq Ciphertexts
    /\ wire \subseteq Packets
    /\ handshake \in [Endpoints -> {Nil} \cup (KeyPairs \X ciphertexts)]
    /\ finalized \subseteq ciphertexts
    /\ accepted \in [Endpoints -> SUBSET wire]
    /\ redelivered \subseteq wire
    /\ carried \in [Endpoints -> SUBSET Seqs]
    /\ used \in [Calls -> Nat]

Established(e, d) == e # d /\ sessionKey[e] # Nil /\ sessionKey[d] # Nil

SameSession(e, d) ==
    Established(e, d) /\ sessionKey[e].secret = sessionKey[d].secret

(* InitializeSession and FinalizeSession converge: two ends hold keys of   *)
(* one secret exactly when they took part in one handshake, the responder  *)
(* with the key pair the initiator encapsulated to (CHANGELOG.md:16-17     *)
(* tells of two bugs that broke this).                                     *)
HandshakeAgreement ==
    \A e, d \in Endpoints :
        Established(e, d) =>
            (SameSession(e, d) <=> handshake[e] = handshake[d])

(* While one end is behind the other by some rotations, the token of the   *)
(* first of them is on the network and would still be applied: under the   *)
(* keys the end holds, with the counter it expects and a number it cannot  *)
(* take for a replay (unless its window brought that number along from an  *)
(* earlier session), and leading to the keys the other end went to.  That  *)
(* is, as long as the counter fits the payload.                            *)
TokenClosesGap ==
    \A e, d \in Endpoints :
        /\ SameSession(e, d)
        /\ Len(sessionKey[e].chain) < Len(sessionKey[d].chain)
        /\ rekeyCounter[e] < CounterMod
        => \E p \in Incoming(e, "token") :
              /\ p.kind = "token"
              /\ p.key = sessionKey[e]
              /\ p.seq \in receivedPackets[e] => p.seq \in carried[e]
              /\ p.counter = rekeyCounter[e]
              /\ RekeyMaterial(p.key, p.salt, p.counter).chain
                    = SubSeq(sessionKey[d].chain, 1,
                             Len(sessionKey[e].chain) + 1)

(* Decrypt accepts no packet twice, whatever handshakes, rotations, calls  *)
(* of Dispose and restarts come between: the window is only ever cleared   *)
(* together with keys that never come back.                                *)
AtMostOnce == redelivered = {}

(* A packet of the current session that was never accepted is taken for a  *)
(* replay for one reason only: the handshake found the object in use, and  *)
(* its window still held that number.  No rotation, no Dispose and no      *)
(* restart of either end, nor any other packet of the session, brings this *)
(* about, although sequence numbers start over at a restart.               *)
NoFalseReplay ==
    \A e \in Endpoints :
        \A p \in wire \ accepted[e] :
            /\ p.from = Peer(e) /\ p.key = sessionKey[e]
            /\ p.seq \in receivedPackets[e]
            => p.seq \in carried[e]
=============================================================================

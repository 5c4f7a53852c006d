--------------------------- MODULE SessionThreads ---------------------------
(***************************************************************************)
(* One QuarkDash object with an established session, called by several     *)
(* goroutines.  SessionPair takes a call for one step; here a call is cut  *)
(* where the code takes and gives up qd.mu, and where it reads a field or  *)
(* a buffer without it: Encrypt and Decrypt pass qd.macKey to the MAC      *)
(* after the unlock, and the default MAC (core/mac.go) assembles its input *)
(* in one buffer for the whole object.                                     *)
(*                                                                         *)
(* A step that locks, works and unlocks is one action with the guard       *)
(* mu = NoThread; mu is held between actions only where an unlocked reader *)
(* can see the difference (the zeroed key of reinitSession and Dispose),   *)
(* where OnRekey runs, and for ever after a panic under the lock.          *)
(*                                                                         *)
(* A key is the handshake it goes back to and the number of rotations      *)
(* since, which is rekeyCounter as long as there is a session.  Per-       *)
(* message nonces (the default) are assumed: the cipher copies the key it  *)
(* is made from.                                                           *)
(*                                                                         *)
(* GenerateKeyPair multiplies polynomials outside the lock, a handshake    *)
(* under it; a multiplication fills two maps of twiddle factors that have  *)
(* no lock.  Go ends the process when it sees a map accessed while it is   *)
(* written.  The maps hold one length here.                                *)
(***************************************************************************)
EXTENDS PacketWindow

CONSTANTS
    Threads,
    NoThread,
    Nil,
    Incoming,       \* the peer's packets
    Ops,            \* what the threads call
    SharedMac,      \* TRUE: the default MAC; FALSE: one without a buffer
    ExclusiveKeys,  \* callers run nothing beside a call that changes keys
    CallbackLocks,  \* OnRekey may call a method of the object
    Policies,       \* values of RekeyPolicy.AfterMessages; 0 turns it off
    MaxCalls        \* bound: calls made, all threads together

KeyOps == {"Rekey", "ApplyRekey", "Dispose", "GenerateKeyPair", "Handshake"}

(* A packet of the peer: its data, what it decrypts to, the key it is      *)
(* under, and the counter of a rotation payload.                           *)
Packets == [id : Nat, kind : {"data", "token"}, gen : Nat \X Nat, seq : Seqs,
            counter : Nat]

ASSUME ThreadAssumption ==
    /\ NoThread \notin Threads
    /\ Nil \notin Nat \X Nat
    /\ IsFiniteSet(Threads)
    /\ Incoming \subseteq Packets
    /\ Ops \subseteq {"Encrypt", "Decrypt", "SetRekeyPolicy"} \cup KeyOps
    /\ Policies \subseteq Nat
    /\ {SharedMac, ExclusiveKeys, CallbackLocks} \subseteq BOOLEAN
    /\ MaxCalls \in Nat

VARIABLES
    mu,                 \* who holds qd.mu
    sessionKey,         \* the current key, or Nil
    macKey,             \* the MAC key that qd.macKey points to, or Nil
    wiped,              \* keys whose bytes are zero
    rekeyCounter, messagesEncrypted, sendSeq, receivedPackets,
    buf,                \* QuarkDashMAC.buf: a key and the data behind it
    afterMessages,      \* RekeyPolicy.AfterMessages
    cache,              \* the maps wlenCache and invWlenCache that are filled
    warm,               \* history: a multiplication has been completed
    pc, local,          \* per thread: where its call is, and its locals
    calls,              \* bound: calls made so far; also names them
    sent,               \* history: packets Encrypt returned
    opened,             \* history: packets Decrypt returned plaintext for
    rotations           \* history: rotations done, and for which token

keys == <<sessionKey, macKey, wiped, rekeyCounter>>
history == <<sent, opened, rotations>>
exchange == <<cache, warm>>
others == <<buf, exchange, afterMessages>>
vars == <<mu, keys, messagesEncrypted, sendSeq, receivedPackets, others,
          pc, local, calls, history>>

NoPacket == [id |-> 0, kind |-> "none", gen |-> Nil, seq |-> 0, counter |-> 0]

NoTag == [key |-> Nil, data |-> 0]

Blank == [op |-> "none", call |-> 0, packet |-> NoPacket, counter |-> 0,
          gen |-> Nil, seq |-> 0, ptr |-> Nil, tag |-> NoTag,
          retried |-> FALSE, cold |-> FALSE]

(* The MAC buffer a thread's SignTwo fills: the object's, or its own. *)
Buf(t) == IF SharedMac THEN NoThread ELSE t

Init ==
    /\ mu = NoThread
    /\ sessionKey = <<0, 0>>
    /\ macKey = <<0, 0>>
    /\ wiped = {}
    /\ rekeyCounter = 0
    /\ messagesEncrypted = 0
    /\ sendSeq = 0
    /\ receivedPackets = {}
    /\ buf = [b \in Threads \cup {NoThread} |-> NoTag]
    /\ afterMessages \in Policies
    /\ cache = {}
    /\ warm = FALSE
    /\ pc = [t \in Threads |-> "idle"]
    /\ local = [t \in Threads |-> Blank]
    /\ calls = 0
    /\ sent = {}
    /\ opened = {}
    /\ rotations = {}
-----------------------------------------------------------------------------
Goto(t, label) == pc' = [pc EXCEPT ![t] = label]

Return(t) == Goto(t, "idle") /\ local' = [local EXCEPT ![t] = Blank]

(* The callers' discipline: with ExclusiveKeys, a lock of their own.  A    *)
(* thread whose call panicked is not waited for.                           *)
MayCall(t, op) ==
    ExclusiveKeys =>
        \A u \in Threads \ {t} :
            pc[u] \notin {"idle", "panicked"}
                => op \notin KeyOps /\ local[u].op \notin KeyOps

Entry(op) == CASE op = "Encrypt" -> "seal"
               [] op = "Rekey"   -> "payload"
               [] op = "Dispose" -> "wipe"
               [] op = "SetRekeyPolicy" -> "policy"
               [] op = "GenerateKeyPair" -> "lookup"
               [] op = "Handshake" -> "lock"
               [] OTHER          -> "open"

Call(t) ==
    /\ pc[t] = "idle"
    /\ calls < MaxCalls
    /\ calls' = calls + 1
    /\ \E op \in Ops, p \in Incoming :
          /\ MayCall(t, op)
          /\ Goto(t, Entry(op))
          /\ local' = [local EXCEPT ![t] =
                          [Blank EXCEPT
                             !.op = op, !.call = calls + 1, !.cold = ~warm,
                             !.packet = IF Entry(op) = "open"
                                          THEN p ELSE NoPacket]]
    /\ UNCHANGED <<mu, keys, messagesEncrypted, sendSeq, receivedPackets,
                   others, history>>
-----------------------------------------------------------------------------
(* Rekey, first section: the payload carries the counter of this moment.   *)
Payload(t) ==
    /\ pc[t] = "payload"
    /\ mu = NoThread
    /\ local' = [local EXCEPT ![t].counter = rekeyCounter]
    /\ Goto(t, "seal")
    /\ UNCHANGED <<mu, keys, messagesEncrypted, sendSeq, receivedPackets,
                   others, calls, history>>

(* Mistaken variants: sendSeq++ is missing, or the unlock of the error path. *)
SealNoAdvance(t) ==
    /\ pc[t] = "seal"
    /\ mu = NoThread
    /\ IF sessionKey = Nil \/ macKey = Nil
         THEN Return(t)
         ELSE /\ local' = [local EXCEPT ![t].gen = sessionKey,
                                        ![t].seq = sendSeq]
              /\ Goto(t, "load")
    /\ UNCHANGED <<mu, keys, messagesEncrypted, sendSeq, receivedPackets,
                   others, calls, history>>

SealKeepsLock(t) ==
    /\ pc[t] = "seal"
    /\ mu = NoThread
    /\ IF sessionKey = Nil \/ macKey = Nil
         THEN Return(t) /\ mu' = t /\ UNCHANGED sendSeq
         ELSE /\ local' = [local EXCEPT ![t].gen = sessionKey,
                                        ![t].seq = sendSeq]
              /\ sendSeq' = NextSeq(sendSeq)
              /\ Goto(t, "load")
              /\ UNCHANGED mu
    /\ UNCHANGED <<keys, messagesEncrypted, receivedPackets, others, calls,
                   history>>

(* Encrypt, first section: metadata and cipher, or ErrSessionNot-          *)
(* Established.  The cipher is a copy: sealing under it needs no lock.     *)
Seal(t) ==
    /\ pc[t] = "seal"
    /\ mu = NoThread
    /\ IF sessionKey = Nil \/ macKey = Nil
         THEN Return(t) /\ UNCHANGED sendSeq
         ELSE /\ local' = [local EXCEPT ![t].gen = sessionKey,
                                        ![t].seq = sendSeq]
              /\ sendSeq' = NextSeq(sendSeq)
              /\ Goto(t, "load")
    /\ UNCHANGED <<mu, keys, messagesEncrypted, receivedPackets, others, calls,
                   history>>

(* The argument qd.macKey is evaluated without the lock.  Dispose may be   *)
(* overwriting the slice header meanwhile: a length of 32 with a pointer   *)
(* already nil makes SignTwo panic.                                        *)
LoadMacKey(t) ==
    /\ pc[t] = "load"
    /\ \/ local' = [local EXCEPT ![t].ptr = macKey] /\ Goto(t, "copyKey")
       \/ /\ \E u \in Threads : pc[u] = "forget"
          /\ Goto(t, "panicked") /\ UNCHANGED local
    /\ UNCHANGED <<mu, keys, messagesEncrypted, sendSeq, receivedPackets,
                   others, calls, history>>

(* SignTwo: the key's bytes as they are now, then the data, then the hash. *)
CopyKey(t) ==
    /\ pc[t] = "copyKey"
    /\ buf' = [buf EXCEPT ![Buf(t)].key =
                  IF local[t].ptr \in wiped THEN Nil ELSE local[t].ptr]
    /\ Goto(t, "copyData")
    /\ UNCHANGED <<mu, keys, messagesEncrypted, sendSeq, receivedPackets,
                   local, exchange, afterMessages, calls, history>>

Receiving(t) == local[t].op \in {"Decrypt", "ApplyRekey"}

CopyData(t) ==
    /\ pc[t] = "copyData"
    /\ buf' = [buf EXCEPT ![Buf(t)].data =
                  IF Receiving(t) THEN local[t].packet.id ELSE local[t].call]
    /\ Goto(t, IF Receiving(t) THEN "verify" ELSE "hash")
    /\ UNCHANGED <<mu, keys, messagesEncrypted, sendSeq, receivedPackets,
                   local, exchange, afterMessages, calls, history>>

Hash(t) ==
    /\ pc[t] = "hash"
    /\ local' = [local EXCEPT ![t].tag = buf[Buf(t)]]
    /\ Goto(t, "count")
    /\ UNCHANGED <<mu, keys, messagesEncrypted, sendSeq, receivedPackets,
                   others, calls, history>>

(* Mistaken variant: bytes are counted, the message is not. *)
CountBytesOnly(t) ==
    /\ pc[t] = "count"
    /\ mu = NoThread
    /\ sent' = sent \cup {[call |-> local[t].call, seq |-> local[t].seq,
                           gen |-> local[t].gen, tag |-> local[t].tag]}
    /\ IF local[t].op = "Rekey"
         THEN Goto(t, "derive") /\ UNCHANGED local
         ELSE Return(t)
    /\ UNCHANGED <<mu, keys, messagesEncrypted, sendSeq, receivedPackets,
                   others, calls, opened, rotations>>

(* Encrypt, last section: the counters.  Rekey goes on to derive. *)
Count(t) ==
    /\ pc[t] = "count"
    /\ mu = NoThread
    /\ messagesEncrypted' = messagesEncrypted + 1
    /\ sent' = sent \cup {[call |-> local[t].call, seq |-> local[t].seq,
                           gen |-> local[t].gen, tag |-> local[t].tag]}
    /\ IF local[t].op = "Rekey"
         THEN Goto(t, "derive") /\ UNCHANGED local
         ELSE Return(t)
    /\ UNCHANGED <<mu, keys, sendSeq, receivedPackets, others, calls, opened,
                   rotations>>
-----------------------------------------------------------------------------
(* Decrypt, first section: ErrSessionNotEstablished without keys. *)
Open(t) ==
    /\ pc[t] = "open"
    /\ mu = NoThread
    /\ IF sessionKey = Nil \/ macKey = Nil
         THEN Return(t)
         ELSE Goto(t, "load") /\ UNCHANGED local
    /\ UNCHANGED <<mu, keys, messagesEncrypted, sendSeq, receivedPackets,
                   others, calls, history>>

(* Mistaken variant: the verdict is ignored. *)
VerifyIgnored(t) ==
    /\ pc[t] = "verify"
    /\ Goto(t, "check")
    /\ UNCHANGED <<mu, keys, messagesEncrypted, sendSeq, receivedPackets,
                   others, local, calls, history>>

(* VerifyTwo.  With the default MAC a tag that differs is computed once    *)
(* more, from the key of that moment, before ErrMACVerificationFailed.     *)
Verify(t) ==
    LET p == local[t].packet
        valid == buf[Buf(t)] = [key |-> p.gen, data |-> p.id]
    IN  /\ pc[t] = "verify"
        /\ CASE valid -> Goto(t, "check") /\ UNCHANGED local
             [] ~valid /\ SharedMac /\ ~local[t].retried ->
                  /\ Goto(t, "load")
                  /\ local' = [local EXCEPT ![t].retried = TRUE]
             [] OTHER -> Return(t)
        /\ UNCHANGED <<mu, keys, messagesEncrypted, sendSeq, receivedPackets,
                       others, calls, history>>

(* checkMetadata; timestamps are ReplayWindow's subject. *)
Check(t) ==
    LET seq == local[t].packet.seq
    IN  /\ pc[t] = "check"
        /\ mu = NoThread
        /\ IF seq \in receivedPackets
             THEN Return(t) /\ UNCHANGED receivedPackets
             ELSE /\ receivedPackets' = Admit(receivedPackets, seq)
                  /\ Goto(t, "cipher")
                  /\ UNCHANGED local
        /\ UNCHANGED <<mu, keys, messagesEncrypted, sendSeq, others, calls,
                       history>>

(* Decrypt, last section.  mustCipher panics on a nil key, and this        *)
(* section has no deferred unlock.  Decrypt returns the plaintext;         *)
(* ApplyRekey parses it first, and gives up unless it is a token.          *)
Cipher(t) ==
    LET p == local[t].packet
    IN  /\ pc[t] = "cipher"
        /\ mu = NoThread
        /\ \/ /\ sessionKey = Nil
              /\ mu' = t
              /\ Goto(t, "panicked")
              /\ UNCHANGED <<local, opened>>
           \/ /\ sessionKey # Nil
              /\ opened' = opened \cup {[call |-> local[t].call, packet |-> p,
                                          gen |-> sessionKey]}
              /\ IF /\ local[t].op = "ApplyRekey"
                    /\ p.kind = "token"
                    /\ p.gen = sessionKey
                   THEN Goto(t, "expect") /\ UNCHANGED local
                   ELSE Return(t)
              /\ UNCHANGED mu
        /\ UNCHANGED <<keys, messagesEncrypted, sendSeq, receivedPackets,
                       others, calls, sent, rotations>>

(* Mistaken variant: it does not. *)
ExpectAnything(t) ==
    /\ pc[t] = "expect"
    /\ mu = NoThread
    /\ local' = [local EXCEPT ![t].counter = local[t].packet.counter,
                              ![t].gen = local[t].packet.gen]
    /\ Goto(t, "derive")
    /\ UNCHANGED <<mu, keys, messagesEncrypted, sendSeq, receivedPackets,
                   others, calls, history>>

(* ApplyRekey compares the counters in a section of its own. *)
Expect(t) ==
    /\ pc[t] = "expect"
    /\ mu = NoThread
    /\ IF local[t].packet.counter = rekeyCounter
         THEN /\ local' = [local EXCEPT ![t].counter = local[t].packet.counter,
                                        ![t].gen = local[t].packet.gen]
              /\ Goto(t, "derive")
         ELSE Return(t)
    /\ UNCHANGED <<mu, keys, messagesEncrypted, sendSeq, receivedPackets,
                   others, calls, history>>
-----------------------------------------------------------------------------
(* Mistaken variant: the lock is not taken. *)
DeriveUnlocked(t) ==
    /\ pc[t] = "derive"
    /\ sessionKey # Nil /\ macKey # Nil
    /\ wiped' = wiped \cup {macKey}
    /\ Goto(t, "install")
    /\ UNCHANGED <<mu, sessionKey, macKey, rekeyCounter, messagesEncrypted,
                   sendSeq, receivedPackets, others, local, calls, history>>

(* doRekeyDerive takes the lock again, derives from the keys it finds and  *)
(* zeroes their bytes.  A record notes the token's counter and key beside  *)
(* the counter and key that went into the derivation.                      *)
Derive(t) ==
    /\ pc[t] = "derive"
    /\ mu = NoThread
    /\ \/ /\ sessionKey = Nil \/ macKey = Nil
          /\ Return(t)
          /\ UNCHANGED <<mu, wiped, rotations>>
       \/ /\ sessionKey # Nil /\ macKey # Nil
          /\ mu' = t
          /\ wiped' = wiped \cup {macKey}
          /\ rotations' = rotations \cup
                {[call |-> local[t].call,
                  token |-> <<local[t].gen, local[t].counter>>,
                  from |-> <<sessionKey, rekeyCounter>>]}
          /\ Goto(t, "install")
          /\ UNCHANGED local
    /\ UNCHANGED <<sessionKey, macKey, rekeyCounter, messagesEncrypted,
                   sendSeq, receivedPackets, others, calls, sent, opened>>

NextKey == <<sessionKey[1], rekeyCounter + 1>>

(* Mistaken variant: qd.macKey still points to the zeroed bytes. *)
InstallOldMac(t) ==
    /\ pc[t] = "install"
    /\ sessionKey' = NextKey
    /\ rekeyCounter' = rekeyCounter + 1
    /\ messagesEncrypted' = 0
    /\ Return(t)
    /\ mu' = NoThread
    /\ UNCHANGED <<macKey, wiped, sendSeq, receivedPackets, others, calls,
                   history>>

(* reinitSession installs the new keys.  OnRekey runs under the lock: if   *)
(* it calls a method of the object, it waits for itself.                   *)
Install(t) ==
    /\ pc[t] = "install"
    /\ sessionKey' = NextKey
    /\ macKey' = NextKey
    /\ rekeyCounter' = rekeyCounter + 1
    /\ messagesEncrypted' = 0
    /\ \/ Return(t) /\ mu' = NoThread
       \/ CallbackLocks /\ Goto(t, "callback") /\ UNCHANGED <<mu, local>>
    /\ UNCHANGED <<wiped, sendSeq, receivedPackets, others, calls, history>>
-----------------------------------------------------------------------------
(* Dispose zeroes the bytes, then drops keys, cipher and window. *)
Wipe(t) ==
    /\ pc[t] = "wipe"
    /\ mu = NoThread
    /\ mu' = t
    /\ wiped' = wiped \cup ({macKey} \ {Nil})
    /\ Goto(t, "forget")
    /\ UNCHANGED <<sessionKey, macKey, rekeyCounter, messagesEncrypted,
                   sendSeq, receivedPackets, others, local, calls, history>>

Forget(t) ==
    /\ pc[t] = "forget"
    /\ mu' = NoThread
    /\ sessionKey' = Nil
    /\ macKey' = Nil
    /\ receivedPackets' = {}
    /\ Return(t)
    /\ UNCHANGED <<wiped, rekeyCounter, messagesEncrypted, sendSeq, others,
                   calls, history>>
-----------------------------------------------------------------------------
SetRekeyPolicy(t) ==
    /\ pc[t] = "policy"
    /\ mu = NoThread
    /\ afterMessages' \in Policies
    /\ Return(t)
    /\ UNCHANGED <<mu, keys, messagesEncrypted, sendSeq, receivedPackets, buf,
                   exchange, calls, history>>
-----------------------------------------------------------------------------
(* One thread writes a map while another accesses it. *)
Racing(t, store) == \E u \in Threads \ {t} : pc[u] = store

(* The runtime may notice and end the process, with every call in it. *)
Fatal ==
    /\ pc' = [t \in Threads |-> "killed"]
    /\ UNCHANGED <<mu, keys, messagesEncrypted, sendSeq, receivedPackets,
                   others, local, calls, history>>

(* InitializeSession and FinalizeSession hold the lock throughout. *)
Lock(t) ==
    /\ pc[t] = "lock"
    /\ mu = NoThread
    /\ mu' = t
    /\ local' = [local EXCEPT ![t].cold = ~warm]
    /\ Goto(t, "lookup")
    /\ UNCHANGED <<keys, messagesEncrypted, sendSeq, receivedPackets, others,
                   calls, history>>

(* Where a multiplication goes on after an access to the caches. *)
Multiplied(t) ==
    /\ Goto(t, IF local[t].op = "Handshake" THEN "fresh" ELSE "pair")
    /\ warm' = TRUE

(* getWlen: the forward transforms of secureMultiply. *)
Lookup(t) ==
    /\ pc[t] = "lookup"
    /\ \/ Racing(t, "storeW") /\ Fatal
       \/ /\ Goto(t, IF "W" \in cache THEN "lookupInv" ELSE "storeW")
          /\ UNCHANGED <<mu, keys, messagesEncrypted, sendSeq, receivedPackets,
                         others, local, calls, history>>

Store(t) ==
    /\ pc[t] = "storeW"
    /\ \/ Racing(t, "storeW") /\ Fatal
       \/ /\ cache' = cache \cup {"W"}
          /\ Goto(t, "lookupInv")
          /\ UNCHANGED <<mu, keys, messagesEncrypted, sendSeq, receivedPackets,
                         buf, warm, local, afterMessages, calls, history>>

(* Mistaken variant: the inverse is computed and stored every time. *)
LookupInvAlwaysMisses(t) ==
    /\ pc[t] = "lookupInv"
    /\ Goto(t, "storeInv")
    /\ UNCHANGED <<mu, keys, messagesEncrypted, sendSeq, receivedPackets,
                   others, local, calls, history>>

(* getInvWlen: the inverse transform; a miss reads the other map too. *)
LookupInv(t) ==
    /\ pc[t] = "lookupInv"
    /\ \/ /\ \/ Racing(t, "storeInv")
             \/ "Inv" \notin cache /\ Racing(t, "storeW")
          /\ Fatal
       \/ /\ IF "Inv" \in cache
               THEN Multiplied(t)
               ELSE Goto(t, "storeInv") /\ UNCHANGED warm
          /\ UNCHANGED <<mu, keys, messagesEncrypted, sendSeq, receivedPackets,
                         buf, cache, local, afterMessages, calls, history>>

StoreInv(t) ==
    /\ pc[t] = "storeInv"
    /\ \/ Racing(t, "storeInv") /\ Fatal
       \/ /\ cache' = cache \cup {"Inv"}
          /\ Multiplied(t)
          /\ UNCHANGED <<mu, keys, messagesEncrypted, sendSeq, receivedPackets,
                         buf, local, afterMessages, calls, history>>

(* GenerateKeyPair takes the lock to install the pair, which no other step *)
(* of this module reads.                                                   *)
InstallPair(t) ==
    /\ pc[t] = "pair"
    /\ mu = NoThread
    /\ Return(t)
    /\ UNCHANGED <<mu, keys, messagesEncrypted, sendSeq, receivedPackets,
                   others, calls, history>>

(* deriveSessionKeys points qd.macKey to new bytes, still zero, and then   *)
(* fills them.  The old bytes are dropped as they are.                     *)
Fresh(t) ==
    LET key == <<local[t].call, 0>>
    IN  /\ pc[t] = "fresh"
        /\ sessionKey' = key
        /\ macKey' = key
        /\ wiped' = wiped \cup {key}
        /\ Goto(t, "fill")
        /\ UNCHANGED <<mu, rekeyCounter, messagesEncrypted, sendSeq,
                       receivedPackets, others, local, calls, history>>

(* Mistaken variant: the counter of the old session stays. *)
FillKeepsCounter(t) ==
    /\ pc[t] = "fill"
    /\ wiped' = wiped \ {macKey}
    /\ messagesEncrypted' = 0
    /\ mu' = NoThread
    /\ Return(t)
    /\ UNCHANGED <<sessionKey, macKey, rekeyCounter, sendSeq, receivedPackets,
                   others, calls, history>>

Fill(t) ==
    /\ pc[t] = "fill"
    /\ wiped' = wiped \ {macKey}
    /\ rekeyCounter' = 0
    /\ messagesEncrypted' = 0
    /\ mu' = NoThread
    /\ Return(t)
    /\ UNCHANGED <<sessionKey, macKey, sendSeq, receivedPackets, others, calls,
                   history>>
-----------------------------------------------------------------------------
Step(t) ==
    \/ Payload(t) \/ Seal(t) \/ LoadMacKey(t) \/ CopyKey(t) \/ CopyData(t)
    \/ Hash(t) \/ Count(t)
    \/ Open(t) \/ Verify(t) \/ Check(t) \/ Cipher(t) \/ Expect(t)
    \/ Derive(t) \/ Install(t) \/ Wipe(t) \/ Forget(t)
    \/ Lock(t) \/ Lookup(t) \/ Store(t) \/ LookupInv(t) \/ StoreInv(t)
    \/ SetRekeyPolicy(t) \/ InstallPair(t) \/ Fresh(t) \/ Fill(t)

(* The callers have made their calls: not a deadlock. *)
Done ==
    /\ calls = MaxCalls
    /\ \A t \in Threads : pc[t] = "idle"
    /\ UNCHANGED vars

Next == Done \/ \E t \in Threads : Call(t) \/ Step(t)

Spec == Init /\ [][Next]_vars

(* The scheduler runs every goroutine that can go on. *)
FairSpec == Spec /\ \A t \in Threads : WF_vars(Step(t))
-----------------------------------------------------------------------------
Labels == {"idle", "payload", "seal", "load", "copyKey", "copyData", "hash",
           "count", "open", "verify", "check", "cipher", "expect", "derive",
           "install", "callback", "wipe", "forget", "panicked",
           "lock", "lookup", "storeW", "lookupInv", "storeInv", "pair",
           "fresh", "fill", "policy", "killed"}

(* The type invariant, and who may hold the lock where. *)
TypeOK ==
    /\ mu \in Threads \cup {NoThread}
    /\ sessionKey \in (Nat \X Nat) \cup {Nil}
    /\ macKey \in (Nat \X Nat) \cup {Nil}
    /\ wiped \subseteq Nat \X Nat
    /\ cache \subseteq {"W", "Inv"}
    /\ rekeyCounter \in Nat
    /\ messagesEncrypted \in Nat
    /\ sendSeq \in Seqs
    /\ receivedPackets \subseteq Seqs
    /\ \A t \in Threads :
          /\ pc[t] \in Labels
          /\ pc[t] \in {"install", "forget", "fresh", "fill"} => mu = t
    /\ calls \in Nat

(* No two packets carry the same sequence number, and so the same nonce    *)
(* under one key, whatever calls overlap.                                  *)
SeqUnique ==
    LET Drawn == {[call |-> m.call, seq |-> m.seq] : m \in sent}
                 \cup {[call |-> local[t].call, seq |-> local[t].seq] :
                          t \in {u \in Threads :
                                    pc[u] \in {"load", "copyKey", "copyData",
                                               "hash", "count"}
                                    /\ ~Receiving(u)}}
    IN  \A m, n \in Drawn : m.seq = n.seq => m = n

NeedsRekey ==
    /\ sessionKey # Nil
    /\ afterMessages > 0
    /\ messagesEncrypted >= afterMessages

(* NeedsRekey is late by no more than the calls in progress: packets are   *)
(* counted after they are sealed, in another section, and a rotation in    *)
(* between resets the count, but as long as NeedsRekey says no, fewer than *)
(* afterMessages packets under the current key have left Encrypt.          *)
KeyUseCounted ==
    sessionKey # Nil /\ afterMessages > 0 /\ ~NeedsRekey
        => Cardinality({m \in sent : m.gen = sessionKey}) < afterMessages

(* What Encrypt returns can be opened: the tag is of the packet's own      *)
(* data, under the MAC key derived with the cipher key it was sealed with. *)
PacketCoherent ==
    \A m \in sent : m.tag = [key |-> m.gen, data |-> m.call]

(* The caches, which belong to one exchange object, are written only by    *)
(* multiplications that began before any other was completed: an           *)
(* application that makes a key pair before it shares the object is safe   *)
(* from the race on the maps, although they have no lock.                  *)
WarmCacheQuiet ==
    \A t \in Threads : pc[t] \in {"storeW", "storeInv"} => local[t].cold

(* Every call returns. *)
CallsReturn == \A t \in Threads : pc[t] # "idle" ~> pc[t] = "idle"
-----------------------------------------------------------------------------
(* The refinement: Encrypt and Rekey take effect where they draw their     *)
(* number, Decrypt and ApplyRekey where the window admits the packet.      *)
(* From there on the call is sure to go through, and the abstract state is *)
(* ahead of the object by what the call has yet to do.                     *)
Sealing(t) == pc[t] \in {"load", "copyKey", "copyData", "hash", "count"}
              /\ ~Receiving(t)

Rotating(t) ==
    \/ local[t].op = "Rekey" /\ (Sealing(t) \/ pc[t] \in {"derive", "install"})
    \/ /\ local[t].op = "ApplyRekey"
       /\ pc[t] \in {"cipher", "expect", "derive", "install"}
       /\ local[t].packet.kind = "token"
       /\ local[t].packet.counter = rekeyCounter

Ahead == \E t \in Threads : Rotating(t)

(* Between Fresh and Fill a handshake has not happened yet. *)
Filling == \E t \in Threads : pc[t] = "fill"

Atomic == INSTANCE AtomicSession WITH
    Handshakes <- 1 .. MaxCalls,
    sessionKey <- IF Ahead THEN NextKey ELSE sessionKey,
    rekeyCounter <- CASE Ahead -> rekeyCounter + 1
                      [] Filling -> 0
                      [] OTHER -> rekeyCounter,
    messagesEncrypted <-
        IF Ahead \/ Filling THEN 0
        ELSE messagesEncrypted + Cardinality({t \in Threads : Sealing(t)}),
    packets <-
        {[seq |-> m.seq, gen |-> m.gen,
          authentic |-> m.tag = [key |-> m.gen, data |-> m.call]] : m \in sent}
        \cup {[seq |-> local[t].seq, gen |-> local[t].gen,
               authentic |-> TRUE] : t \in {u \in Threads : Sealing(u)}},
    plaintexts <-
        {o.packet : o \in opened}
        \cup {local[t].packet : t \in {u \in Threads : pc[u] = "cipher"}}

(* Sharing the object between goroutines is invisible: whatever calls      *)
(* overlap, keys, counters, numbers, window, packets and plaintexts are    *)
(* those of calls made one after the other.                                *)
RefinesAtomic == Atomic!Spec
=============================================================================

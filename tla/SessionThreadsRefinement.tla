---------------------- MODULE SessionThreadsRefinement ----------------------
(***************************************************************************)
(* Sharing the object is invisible for any number of threads and calls:    *)
(* under the discipline, and with a MAC that has no shared buffer, every   *)
(* step of SessionThreads is a step of AtomicSession or changes nothing.   *)
(***************************************************************************)
EXTENDS SessionThreadsProofs

(* The abstract state, named. *)
Sealers == {t \in Threads : Sealing(t)}

AbstractKey == IF Ahead THEN NextKey ELSE sessionKey

AbstractCounter == CASE Ahead -> rekeyCounter + 1
                     [] Filling -> 0
                     [] OTHER -> rekeyCounter

AbstractCount ==
    IF Ahead \/ Filling THEN 0
    ELSE messagesEncrypted + Cardinality({t \in Threads : Sealing(t)})

AbstractPackets ==
    {[seq |-> m.seq, gen |-> m.gen,
      authentic |-> m.tag = [key |-> m.gen, data |-> m.call]] : m \in sent}
    \cup {[seq |-> local[t].seq, gen |-> local[t].gen,
           authentic |-> TRUE] : t \in {u \in Threads : Sealing(u)}}

AbstractPlaintexts ==
    {o.packet : o \in opened}
    \cup {local[t].packet : t \in {u \in Threads : pc[u] = "cipher"}}

AbstractVars == <<AbstractKey, AbstractCounter, AbstractCount, sendSeq,
                  receivedPackets, AbstractPackets, AbstractPlaintexts>>

(* The refinement mapping is these expressions. *)
LEMMA AtomicVars == UNCHANGED AbstractVars => UNCHANGED Atomic!vars
BY DEF Atomic!vars, AbstractVars, AbstractKey, AbstractCounter, AbstractCount,
       AbstractPackets, AbstractPlaintexts

(* The calls that seal can be counted. *)
LEMMA SealersFinite == IsFiniteSet(Sealers) /\ Cardinality(Sealers) \in Nat
<1>1. IsFiniteSet(Sealers)
  BY ThreadAssumption, FS_Subset DEF Sealers
<1> QED
  BY <1>1, FS_CardinalityType

(* A thread moves, and the others stay. *)
OnlyMoves(t) ==
    \A u \in Threads \ {t} : pc'[u] = pc[u] /\ local'[u] = local[u]

(* A step that is invisible: it changes no shared variable of the abstract *)
(* state, and its thread is as far ahead of the object as before.          *)
LEMMA Invisible ==
    ASSUME NEW t \in Threads, OnlyMoves(t),
           UNCHANGED <<sessionKey, rekeyCounter, messagesEncrypted, sendSeq,
                       receivedPackets, sent, opened>>,
           Rotating(t)' <=> Rotating(t),
           Sealing(t)' <=> Sealing(t),
           Sealing(t) => /\ local'[t].seq = local[t].seq
                         /\ local'[t].gen = local[t].gen,
           (pc'[t] = "cipher") <=> (pc[t] = "cipher"),
           pc[t] = "cipher" => local'[t].packet = local[t].packet,
           (pc'[t] = "fill") <=> (pc[t] = "fill")
    PROVE  UNCHANGED AbstractVars
<1>1. \A u \in Threads : Sealing(u)' <=> Sealing(u)
  BY DEF OnlyMoves, Sealing, Receiving
<1>2. \A u \in Threads : Rotating(u)' <=> Rotating(u)
  BY <1>1 DEF OnlyMoves, Rotating
<1>3. Ahead' <=> Ahead
  BY <1>2 DEF Ahead
<1>4. Filling' <=> Filling
  BY DEF Filling, OnlyMoves
<1>5. {u \in Threads : Sealing(u)}' = {u \in Threads : Sealing(u)}
  BY <1>1
<1>6. \A u \in {v \in Threads : Sealing(v)} :
         local'[u].seq = local[u].seq /\ local'[u].gen = local[u].gen
  BY DEF OnlyMoves
<1>7. UNCHANGED AbstractPackets
  BY <1>5, <1>6 DEF AbstractPackets
<1>8. UNCHANGED AbstractPlaintexts
  <2>1. {u \in Threads : pc[u] = "cipher"}'
           = {u \in Threads : pc[u] = "cipher"}
    BY DEF OnlyMoves
  <2>2. \A u \in {v \in Threads : pc[v] = "cipher"} :
           local'[u].packet = local[u].packet
    BY DEF OnlyMoves
  <2> QED
    BY <2>1, <2>2 DEF AbstractPlaintexts
<1>9. UNCHANGED <<AbstractKey, AbstractCounter>>
  BY <1>3, <1>4 DEF AbstractKey, AbstractCounter, NextKey
<1>10. UNCHANGED AbstractCount
  BY <1>3, <1>4, <1>5 DEF AbstractCount
<1> QED
  BY <1>7, <1>8, <1>9, <1>10 DEF AbstractVars

(* The beginning of a call is invisible. *)
LEMMA CallInvisible ==
    ASSUME TypeInv, NEW t \in Threads, Call(t)
    PROVE  UNCHANGED AbstractVars
<1> USE DEF TypeInv
<1>1. PICK op \in Ops, p \in Incoming : Calls(t, op, p)
  BY CallEffect
<1>2. Entry(op) \in {"payload", "seal", "open", "wipe", "policy", "lookup",
                    "lock"}
  BY DEF Entry
<1>3. /\ OnlyMoves(t)
      /\ pc[t] = "idle"
      /\ pc'[t] = Entry(op)
      /\ UNCHANGED <<sessionKey, rekeyCounter, messagesEncrypted, sendSeq,
                     receivedPackets, sent, opened>>
  BY <1>1 DEF Calls, OnlyMoves, keys, history
<1>4. ~Sealing(t) /\ ~Sealing(t)' /\ ~Rotating(t) /\ ~Rotating(t)'
  BY <1>2, <1>3 DEF Sealing, Rotating
<1> QED
  BY <1>2, <1>3, <1>4, Invisible

(* The steps that only the thread itself notices. *)
Inner(t) ==
    \/ Payload(t) \/ LoadMacKey(t) \/ CopyKey(t) \/ CopyData(t) \/ Hash(t)
    \/ Open(t) \/ Verify(t) \/ Expect(t) \/ Derive(t) \/ Wipe(t) \/ Lock(t)
    \/ Lookup(t) \/ Store(t) \/ LookupInv(t) \/ StoreInv(t)
    \/ SetRekeyPolicy(t) \/ InstallPair(t)

(* So is every step that only its thread notices. *)
LEMMA InnerInvisible ==
    ASSUME TypeInv, OnPath, Safe, NEW t \in Threads, GoesOn(t), Inner(t)
    PROVE  UNCHANGED AbstractVars
<1> USE DEF TypeInv, Safe
<1> DEFINE Quiet == /\ UNCHANGED <<sessionKey, rekeyCounter,
                                   messagesEncrypted, sendSeq,
                                   receivedPackets, sent, opened>>
                    /\ Rotating(t)' <=> Rotating(t)
                    /\ Sealing(t)' <=> Sealing(t)
                    /\ Sealing(t) => /\ local'[t].seq = local[t].seq
                                     /\ local'[t].gen = local[t].gen
                    /\ pc[t] # "cipher" /\ pc'[t] # "cipher"
                    /\ pc[t] # "fill" /\ pc'[t] # "fill"
<1>1. ASSUME Payload(t) PROVE Quiet
  BY <1>1
     DEF Payload, GoesOn, OnPath, Path, Stopped, Multiplying, Rotating,
         Sealing, Receiving, Goto, Locals, keys, history
<1>2. ASSUME LoadMacKey(t) PROVE Quiet
  BY <1>2
     DEF LoadMacKey, GoesOn, OnPath, Path, Stopped, Multiplying, Rotating,
         Sealing, Receiving, Goto, Locals, keys, history
<1>3. ASSUME CopyKey(t) PROVE Quiet
  BY <1>3
     DEF CopyKey, GoesOn, OnPath, Path, Stopped, Multiplying, Rotating,
         Sealing, Receiving, Goto, Locals, keys, history
<1>4. ASSUME CopyData(t) PROVE Quiet
  BY <1>4
     DEF CopyData, GoesOn, OnPath, Path, Stopped, Multiplying, Rotating,
         Sealing, Receiving, Goto, Locals, keys, history
<1>5. ASSUME Hash(t) PROVE Quiet
  BY <1>5
     DEF Hash, GoesOn, OnPath, Path, Stopped, Multiplying, Rotating, Sealing,
         Receiving, Goto, Locals, keys, history
<1>6. ASSUME Open(t) PROVE Quiet
  BY <1>6
     DEF Open, GoesOn, OnPath, Path, Stopped, Multiplying, Rotating, Sealing,
         Receiving, Goto, Return, Locals, keys, history
<1>7. ASSUME Verify(t) PROVE Quiet
  BY <1>7
     DEF Verify, GoesOn, OnPath, Path, Stopped, Multiplying, Rotating,
         Sealing, Receiving, Goto, Return, Locals, keys, history
<1>8. ASSUME Expect(t) PROVE Quiet
  BY <1>8
     DEF Expect, CallSound, KeysSound, GoesOn, OnPath, Path, Stopped,
         Multiplying, Rotating, Sealing, Receiving, Goto, Return, Locals,
         keys, history
<1>9. ASSUME Derive(t) PROVE Quiet
  BY <1>9
     DEF Derive, CallSound, KeysSound, GoesOn, OnPath, Path, Stopped,
         Multiplying, Rotating, Sealing, Receiving, Goto, Return, Locals
<1>10. ASSUME Wipe(t) PROVE Quiet
  BY <1>10
     DEF Wipe, GoesOn, OnPath, Path, Stopped, Multiplying, Rotating, Sealing,
         Receiving, Goto, Locals, history
<1>11. ASSUME Lock(t) PROVE Quiet
  BY <1>11
     DEF Lock, GoesOn, OnPath, Path, Stopped, Multiplying, Rotating, Sealing,
         Receiving, Goto, Locals, keys, history
<1>12. ASSUME Lookup(t) PROVE Quiet
  BY <1>12
     DEF Lookup, Fatal, GoesOn, OnPath, Path, Stopped, Multiplying, Rotating,
         Sealing, Receiving, Goto, Locals, keys, history
<1>13. ASSUME Store(t) PROVE Quiet
  BY <1>13
     DEF Store, Fatal, GoesOn, OnPath, Path, Stopped, Multiplying, Rotating,
         Sealing, Receiving, Goto, Locals, keys, history
<1>14. ASSUME LookupInv(t) PROVE Quiet
  BY <1>14
     DEF LookupInv, Multiplied, Fatal, GoesOn, OnPath, Path, Stopped,
         Multiplying, Rotating, Sealing, Receiving, Goto, Locals, keys,
         history
<1>15. ASSUME StoreInv(t) PROVE Quiet
  BY <1>15
     DEF StoreInv, Multiplied, Fatal, GoesOn, OnPath, Path, Stopped,
         Multiplying, Rotating, Sealing, Receiving, Goto, Locals, keys,
         history
<1>16. ASSUME SetRekeyPolicy(t) PROVE Quiet
  BY <1>16
     DEF SetRekeyPolicy, GoesOn, OnPath, Path, Stopped, Multiplying, Rotating,
         Sealing, Receiving, Goto, Return, Locals, keys, history
<1>17. ASSUME InstallPair(t) PROVE Quiet
  BY <1>17
     DEF InstallPair, GoesOn, OnPath, Path, Stopped, Multiplying, Rotating,
         Sealing, Receiving, Goto, Return, Locals, keys, history
<1>18. Quiet
  BY <1>1, <1>2, <1>3, <1>4, <1>5, <1>6, <1>7, <1>8, <1>9, <1>10, <1>11,
     <1>12, <1>13, <1>14, <1>15, <1>16, <1>17
     DEF Inner
<1> QED
  BY <1>18, Invisible DEF GoesOn, OnlyMoves
-----------------------------------------------------------------------------
(* Beside a call that changes no keys no other does, before or after. *)
LEMMA NobodyAhead ==
    ASSUME TypeInv, OnPath, Safe, NEW t \in Threads, GoesOn(t), Step(t),
           local[t].op \notin KeyOps
    PROVE  ~Ahead /\ ~Ahead' /\ ~Filling /\ ~Filling'
<1> USE DEF TypeInv, Safe
<1>1. \A u \in Threads :
         pc[u] # "idle" => local[u].op \notin KeyOps
  BY DEF Exclusive, GoesOn
<1>2. \A u \in Threads :
         pc'[u] # "idle" => local'[u].op \notin KeyOps
  BY <1>1 DEF GoesOn
<1>3. \A u \in Threads : ~Rotating(u) /\ ~Rotating(u)'
  BY <1>1, <1>2 DEF Rotating, Sealing, KeyOps
<1>4. OnPath'
  BY StepOnPath
<1>5. \A u \in Threads : pc[u] # "fill" /\ pc'[u] # "fill"
  BY <1>1, <1>2, <1>4 DEF OnPath, Path, Stopped, Multiplying, KeyOps
<1> QED
  BY <1>3, <1>5 DEF Ahead, Filling

(* Beside one that does, nobody is in a call. *)
LEMMA OthersIdle ==
    ASSUME TypeInv, Safe, NEW t \in Threads, GoesOn(t),
           local[t].op \in KeyOps
    PROVE  /\ \A u \in Threads \ {t} :
                /\ pc[u] = "idle" /\ pc'[u] = "idle"
                /\ ~Sealing(u) /\ ~Sealing(u)'
                /\ ~Rotating(u) /\ ~Rotating(u)'
           /\ Ahead <=> Rotating(t)
           /\ Ahead' <=> Rotating(t)'
           /\ Filling <=> pc[t] = "fill"
           /\ Filling' <=> pc'[t] = "fill"
<1>1. \A u \in Threads \ {t} : pc[u] = "idle" /\ pc'[u] = "idle"
  BY DEF Safe, Exclusive, GoesOn
<1>2. \A u \in Threads \ {t} :
         /\ ~Sealing(u) /\ ~Sealing(u)'
         /\ ~Rotating(u) /\ ~Rotating(u)'
  BY <1>1 DEF Sealing, Rotating
<1> QED
  BY <1>1, <1>2 DEF Ahead, Filling

(* The packets of a step that seals one, and of one that returns it. *)
LEMMA PacketSealed ==
    ASSUME NEW t \in Threads, OnlyMoves(t), UNCHANGED sent,
           ~Sealing(t), Sealing(t)'
    PROVE  AbstractPackets' = AbstractPackets \cup
              {[seq |-> local'[t].seq, gen |-> local'[t].gen,
                authentic |-> TRUE]}
<1>1. {u \in Threads : Sealing(u)}' = {u \in Threads : Sealing(u)} \cup {t}
  BY DEF OnlyMoves, Sealing, Receiving
<1>2. \A u \in {v \in Threads : Sealing(v)} : local'[u] = local[u]
  BY DEF OnlyMoves
<1> DEFINE Of(u) == [seq |-> local[u].seq, gen |-> local[u].gen,
                     authentic |-> TRUE]
           New == [seq |-> local'[t].seq, gen |-> local'[t].gen,
                   authentic |-> TRUE]
           rest == {u \in Threads : Sealing(u)}
<1>3. {[seq |-> local'[u].seq, gen |-> local'[u].gen,
        authentic |-> TRUE] : u \in rest \cup {t}}
      = {Of(u) : u \in rest} \cup {New}
  BY <1>2
<1> QED
  BY <1>1, <1>3 DEF AbstractPackets

(* A packet that Encrypt returns was there from the moment it was sealed. *)
LEMMA PacketReturned ==
    ASSUME NEW t \in Threads, OnlyMoves(t), Sealing(t), ~Sealing(t)',
           sent' = sent \cup {[call |-> local[t].call, seq |-> local[t].seq,
                               gen |-> local[t].gen, tag |-> local[t].tag]},
           local[t].tag = [key |-> local[t].gen, data |-> local[t].call]
    PROVE  AbstractPackets' = AbstractPackets
<1> DEFINE m0 == [call |-> local[t].call, seq |-> local[t].seq,
                  gen |-> local[t].gen, tag |-> local[t].tag]
           p0 == [seq |-> local[t].seq, gen |-> local[t].gen,
                  authentic |-> TRUE]
           Image(m) == [seq |-> m.seq, gen |-> m.gen,
                        authentic |-> m.tag = [key |-> m.gen,
                                               data |-> m.call]]
           Sealed(u) == [seq |-> local[u].seq, gen |-> local[u].gen,
                         authentic |-> TRUE]
           rest == {u \in Threads : Sealing(u)} \ {t}
<1>1. {u \in Threads : Sealing(u)}' = rest
  BY DEF OnlyMoves, Sealing, Receiving
<1>2. {u \in Threads : Sealing(u)} = rest \cup {t}
  OBVIOUS
<1>3. Image(m0) = p0
  <2>1. (m0.tag = [key |-> m0.gen, data |-> m0.call]) = TRUE
    OBVIOUS
  <2>2. m0.seq = local[t].seq /\ m0.gen = local[t].gen
    OBVIOUS
  <2> HIDE DEF m0
  <2> QED
    BY <2>1, <2>2
<1>4. AbstractPackets = {Image(m) : m \in sent}
                        \cup {Sealed(u) : u \in rest} \cup {p0}
  BY <1>2 DEF AbstractPackets
<1>5. AbstractPackets' = {Image(m) : m \in sent} \cup {Image(m0)}
                         \cup {Sealed(u) : u \in rest}
  <2>1. AbstractPackets' = {Image(m) : m \in sent'}
           \cup {[seq |-> local'[u].seq, gen |-> local'[u].gen,
                  authentic |-> TRUE] : u \in rest}
    BY <1>1 DEF AbstractPackets
  <2>2. \A u \in rest : local'[u] = local[u]
    BY DEF OnlyMoves
  <2>3. {[seq |-> local'[u].seq, gen |-> local'[u].gen,
          authentic |-> TRUE] : u \in rest} = {Sealed(u) : u \in rest}
    BY <2>2
  <2> HIDE DEF rest, Sealed
  <2>4. {Image(m) : m \in sent'} = {Image(m) : m \in sent} \cup {Image(m0)}
    <3> HIDE DEF Image
    <3> QED
      OBVIOUS
  <2> QED
    BY <2>1, <2>3, <2>4
<1> HIDE DEF Image, Sealed, rest, m0, p0
<1> QED
  BY <1>3, <1>4, <1>5

(* A thread that opens nothing leaves the plaintexts as they are. *)
LEMMA PlaintextsKept ==
    ASSUME NEW t \in Threads, OnlyMoves(t), UNCHANGED opened,
           pc[t] # "cipher", pc'[t] # "cipher"
    PROVE  AbstractPlaintexts' = AbstractPlaintexts
<1>1. {u \in Threads : pc[u] = "cipher"}' = {u \in Threads : pc[u] = "cipher"}
  BY DEF OnlyMoves
<1>2. \A u \in {v \in Threads : pc[v] = "cipher"} : local'[u] = local[u]
  BY DEF OnlyMoves
<1> QED
  BY <1>1, <1>2 DEF AbstractPlaintexts

(* A thread that seals nothing leaves the packets as they are. *)
LEMMA PacketsKept ==
    ASSUME NEW t \in Threads, OnlyMoves(t), UNCHANGED sent,
           ~Sealing(t), ~Sealing(t)'
    PROVE  AbstractPackets' = AbstractPackets
<1>1. {u \in Threads : Sealing(u)}' = {u \in Threads : Sealing(u)}
  BY DEF OnlyMoves, Sealing, Receiving
<1>2. \A u \in {v \in Threads : Sealing(v)} : local'[u] = local[u]
  BY DEF OnlyMoves
<1> QED
  BY <1>1, <1>2 DEF AbstractPackets
-----------------------------------------------------------------------------
(* The abstract actions, in terms of the abstract state. *)
LEMMA AtomicNextSeq ==
    ASSUME NEW n
    PROVE  Atomic!NextSeq(n) = NextSeq(n)
BY DEF Atomic!NextSeq, NextSeq

(* The windows of both modules work alike. *)
LEMMA AtomicAdmit ==
    ASSUME NEW w, NEW n
    PROVE  Atomic!Admit(w, n) = Admit(w, n)
<1>1. Atomic!Oldest(w \cup {n}) = Oldest(w \cup {n})
  BY DEF Atomic!Oldest, Oldest
<1>2. Atomic!Cardinality(w \cup {n}) = Cardinality(w \cup {n})
  BY DEF Atomic!Cardinality, Cardinality
<1> QED
  BY <1>1, <1>2 DEF Atomic!Admit, Admit

Emitted ==
    /\ AbstractKey # Nil
    /\ AbstractPackets' = AbstractPackets \cup
          {[seq |-> sendSeq, gen |-> AbstractKey, authentic |-> TRUE]}
    /\ sendSeq' = NextSeq(sendSeq)

(* An abstract Encrypt. *)
LEMMA AtomicEncrypt ==
    ASSUME Emitted,
           AbstractCount' = AbstractCount + 1,
           UNCHANGED <<AbstractKey, AbstractCounter, receivedPackets,
                       AbstractPlaintexts>>
    PROVE  Atomic!Encrypt
BY AtomicNextSeq
   DEF Atomic!Encrypt, Atomic!Emit, Emitted, AbstractKey, AbstractCounter,
       AbstractCount, AbstractPackets, AbstractPlaintexts

Rotated ==
    /\ AbstractKey' = <<AbstractKey[1], AbstractCounter + 1>>
    /\ AbstractCounter' = AbstractCounter + 1
    /\ AbstractCount' = 0

(* An abstract Rekey. *)
LEMMA AtomicRekey ==
    ASSUME Emitted, Rotated, UNCHANGED <<receivedPackets, AbstractPlaintexts>>
    PROVE  Atomic!Rekey
BY AtomicNextSeq
   DEF Atomic!Rekey, Atomic!Emit, Atomic!Rotate, Emitted, Rotated,
       AbstractKey, AbstractCounter, AbstractCount, AbstractPackets,
       AbstractPlaintexts

Opened(p) ==
    /\ AbstractKey # Nil
    /\ p.gen = AbstractKey
    /\ p.seq \notin receivedPackets
    /\ receivedPackets' = Admit(receivedPackets, p.seq)
    /\ AbstractPlaintexts' = AbstractPlaintexts \cup {p}
    /\ UNCHANGED <<sendSeq, AbstractPackets>>

(* An abstract Decrypt. *)
LEMMA AtomicDecrypt ==
    ASSUME NEW p \in Incoming, Opened(p),
           UNCHANGED <<AbstractKey, AbstractCounter, AbstractCount>>
    PROVE  Atomic!Decrypt
BY AtomicAdmit
   DEF Atomic!Decrypt, Atomic!Open, Opened, AbstractKey, AbstractCounter,
       AbstractCount, AbstractPackets, AbstractPlaintexts

(* An abstract ApplyRekey. *)
LEMMA AtomicApplyRekey ==
    ASSUME NEW p \in Incoming, Opened(p), Rotated,
           p.kind = "token", p.counter = AbstractCounter
    PROVE  Atomic!ApplyRekey
BY AtomicAdmit
   DEF Atomic!ApplyRekey, Atomic!Open, Atomic!Rotate, Opened, Rotated,
       AbstractKey, AbstractCounter, AbstractCount, AbstractPackets,
       AbstractPlaintexts

(* An abstract handshake. *)
LEMMA AtomicHandshake ==
    ASSUME NEW h \in 1 .. MaxCalls, AbstractKey' = <<h, 0>>,
           AbstractCounter' = 0, AbstractCount' = 0,
           UNCHANGED <<sendSeq, receivedPackets, AbstractPackets,
                       AbstractPlaintexts>>
    PROVE  Atomic!Handshake
BY DEF Atomic!Handshake, AbstractKey, AbstractCounter, AbstractCount,
       AbstractPackets, AbstractPlaintexts

(* An abstract Dispose. *)
LEMMA AtomicDispose ==
    ASSUME AbstractKey' = Nil, receivedPackets' = {},
           UNCHANGED <<AbstractCounter, AbstractCount, sendSeq,
                       AbstractPackets, AbstractPlaintexts>>
    PROVE  Atomic!Dispose
BY DEF Atomic!Dispose, AbstractKey, AbstractCounter, AbstractCount,
       AbstractPackets, AbstractPlaintexts
-----------------------------------------------------------------------------
Refines == Atomic!Next \/ UNCHANGED AbstractVars

(* What one thread's step does to the calls that seal. *)
LEMMA SealersGrow ==
    ASSUME NEW t \in Threads, OnlyMoves(t), ~Sealing(t), Sealing(t)'
    PROVE  Cardinality({u \in Threads : Sealing(u)})'
             = Cardinality({u \in Threads : Sealing(u)}) + 1
<1>1. Sealers' = Sealers \cup {t} /\ t \notin Sealers
  BY DEF Sealers, OnlyMoves, Sealing, Receiving
<1>2. Cardinality(Sealers \cup {t}) = Cardinality(Sealers) + 1
  BY <1>1, SealersFinite, FS_AddElement
<1> QED
  BY <1>1, <1>2 DEF Sealers

(* A packet that is returned is one fewer to count. *)
LEMMA SealersShrink ==
    ASSUME NEW t \in Threads, OnlyMoves(t), Sealing(t), ~Sealing(t)'
    PROVE  /\ Cardinality({u \in Threads : Sealing(u)})'
             = Cardinality({u \in Threads : Sealing(u)}) - 1
           /\ Cardinality({u \in Threads : Sealing(u)}) \in Nat
<1>1. Sealers' = Sealers \ {t} /\ t \in Sealers
  BY DEF Sealers, OnlyMoves, Sealing, Receiving
<1>2. Cardinality(Sealers \ {t}) = Cardinality(Sealers) - 1
  BY <1>1, SealersFinite, FS_RemoveElement
<1> QED
  BY <1>1, <1>2, SealersFinite DEF Sealers

(* Otherwise their number stays. *)
LEMMA SealersStay ==
    ASSUME NEW t \in Threads, OnlyMoves(t), Sealing(t)' <=> Sealing(t)
    PROVE  Cardinality({u \in Threads : Sealing(u)})'
             = Cardinality({u \in Threads : Sealing(u)})
<1>1. {u \in Threads : Sealing(u)}' = {u \in Threads : Sealing(u)}
  BY DEF OnlyMoves, Sealing, Receiving
<1> QED
  BY <1>1

(* A rotation takes effect when its call begins to be ahead. *)
LEMMA Rotates ==
    ASSUME ~Ahead, ~Filling, Ahead', ~Filling',
           UNCHANGED <<sessionKey, rekeyCounter>>
    PROVE  Rotated
<1>1. AbstractKey = sessionKey /\ AbstractCounter = rekeyCounter
  BY DEF AbstractKey, AbstractCounter
<1>2. AbstractKey' = <<sessionKey[1], rekeyCounter + 1>>
  BY DEF AbstractKey, NextKey
<1>3. AbstractCounter' = rekeyCounter + 1
  BY DEF AbstractCounter
<1>4. AbstractCount' = 0
  BY DEF AbstractCount
<1> QED
  BY <1>1, <1>2, <1>3, <1>4 DEF Rotated

(* Encrypt and Rekey take effect where they draw their number. *)
LEMMA SealRefines ==
    ASSUME TypeInv, OnPath, Safe, NEW t \in Threads, GoesOn(t), Seal(t)
    PROVE  Refines
<1> USE DEF TypeInv, Shared
<1>1. OnlyMoves(t) /\ pc[t] = "seal" /\ ~Sealing(t) /\ ~Rotating(t)
  BY DEF GoesOn, OnlyMoves, Seal, Sealing, Rotating
<1>2. /\ local[t].op \in {"Encrypt", "Rekey"}
      /\ ~Receiving(t)
      /\ macKey = sessionKey
  BY <1>1 DEF OnPath, Path, Stopped, Multiplying, Receiving, Safe, KeysSound
<1>3. CASE sessionKey = Nil
  <2>1. /\ pc'[t] = "idle"
        /\ UNCHANGED <<sessionKey, rekeyCounter, messagesEncrypted, sendSeq,
                       receivedPackets, sent, opened>>
    BY <1>3 DEF Seal, Return, Goto, keys, history
  <2>2. ~Sealing(t)' /\ ~Rotating(t)'
    BY <2>1 DEF Sealing, Rotating
  <2> QED
    BY <1>1, <2>1, <2>2, Invisible DEF Refines
<1>4. CASE sessionKey # Nil
  <2>1. /\ pc'[t] = "load"
        /\ sendSeq' = NextSeq(sendSeq)
        /\ local'[t].seq = sendSeq
        /\ local'[t].gen = sessionKey
        /\ local'[t].op = local[t].op
        /\ UNCHANGED <<sessionKey, rekeyCounter, messagesEncrypted,
                       receivedPackets, sent, opened>>
    BY <1>2, <1>4 DEF Seal, Goto, keys, history, Locals
  <2>2. Sealing(t)'
    BY <1>2, <2>1 DEF Sealing, Receiving
  <2>3. AbstractPackets' = AbstractPackets \cup
           {[seq |-> sendSeq, gen |-> sessionKey, authentic |-> TRUE]}
    BY <1>1, <2>1, <2>2, PacketSealed
  <2>4. AbstractPlaintexts' = AbstractPlaintexts
    BY <1>1, <2>1, PlaintextsKept
  <2>5. CASE local[t].op = "Encrypt"
    <3>1. ~Ahead /\ ~Ahead' /\ ~Filling /\ ~Filling'
      BY <2>5, NobodyAhead DEF KeyOps, Step
    <3>2. Emitted
      BY <1>4, <2>1, <2>3, <3>1 DEF Emitted, AbstractKey
    <3>3. AbstractCount' = AbstractCount + 1
      <4>1. Cardinality({u \in Threads : Sealing(u)}) \in Nat
        BY SealersFinite DEF Sealers
      <4> QED
        BY <1>1, <2>1, <2>2, <3>1, <4>1, SealersGrow DEF AbstractCount
    <3>4. UNCHANGED <<AbstractKey, AbstractCounter>>
      BY <2>1, <3>1 DEF AbstractKey, AbstractCounter
    <3>5. Atomic!Encrypt
      BY <2>1, <2>4, <3>2, <3>3, <3>4, AtomicEncrypt
    <3> QED
      BY <3>5 DEF Refines, Atomic!Next
  <2>6. CASE local[t].op = "Rekey"
    <3>1. ~Ahead /\ Ahead' /\ ~Filling /\ ~Filling'
      <4>1. Rotating(t)'
        BY <2>1, <2>2, <2>6 DEF Rotating
      <4> QED
        BY <1>1, <2>1, <2>6, <4>1, OthersIdle DEF KeyOps
    <3>2. Emitted
      BY <1>4, <2>1, <2>3, <3>1 DEF Emitted, AbstractKey
    <3>3. Rotated
      BY <2>1, <3>1, Rotates
    <3>4. Atomic!Rekey
      BY <2>1, <2>4, <3>2, <3>3, AtomicRekey
    <3> QED
      BY <3>4 DEF Refines, Atomic!Next
  <2> QED
    BY <1>2, <2>5, <2>6
<1> QED
  BY <1>3, <1>4

(* When the packet is counted it has been counted before. *)
LEMMA CountRefines ==
    ASSUME TypeInv, OnPath, Safe, NEW t \in Threads, GoesOn(t), Count(t)
    PROVE  Refines
<1> USE DEF TypeInv, Shared
<1>1. /\ OnlyMoves(t)
      /\ pc[t] = "count"
      /\ messagesEncrypted' = messagesEncrypted + 1
      /\ sent' = sent \cup {[call |-> local[t].call, seq |-> local[t].seq,
                             gen |-> local[t].gen, tag |-> local[t].tag]}
      /\ UNCHANGED <<sessionKey, rekeyCounter, sendSeq, receivedPackets,
                     opened>>
  BY DEF GoesOn, OnlyMoves, Count, keys
<1>2. local[t].op \in {"Encrypt", "Rekey"} /\ Sealing(t)
  BY <1>1 DEF OnPath, Path, Stopped, Multiplying, Receiving, Sealing
<1>3. pc'[t] \in {"idle", "derive"} /\ ~Sealing(t)'
  BY DEF Count, Goto, Return, Sealing
<1>4. AbstractPackets' = AbstractPackets
  <2>1. local[t].gen = sessionKey
    BY <1>1, <1>2 DEF Safe, CallSound, Sealing
  <2>2. local[t].tag = [key |-> local[t].gen, data |-> local[t].call]
    BY <1>1, <2>1 DEF Safe, CallSound
  <2> QED
    BY <1>1, <1>2, <1>3, <2>2, PacketReturned
<1>5. AbstractPlaintexts' = AbstractPlaintexts
  BY <1>1, <1>3, PlaintextsKept
<1>6. CASE local[t].op = "Encrypt"
  <2>1. ~Ahead /\ ~Ahead' /\ ~Filling /\ ~Filling'
    BY <1>6, NobodyAhead DEF KeyOps, Step
  <2>2. AbstractCount' = AbstractCount
    BY <1>1, <1>2, <1>3, <2>1, SealersShrink DEF AbstractCount
  <2>3. UNCHANGED <<AbstractKey, AbstractCounter>>
    BY <1>1, <2>1 DEF AbstractKey, AbstractCounter
  <2> QED
    BY <1>1, <1>4, <1>5, <2>2, <2>3 DEF Refines, AbstractVars
<1>7. CASE local[t].op = "Rekey"
  <2>1. Ahead /\ Ahead'
    <3>1. Rotating(t) /\ Rotating(t)'
      BY <1>1, <1>2, <1>7 DEF Count, Goto, Rotating
    <3> QED
      BY <3>1 DEF Ahead
  <2>2. UNCHANGED <<AbstractKey, AbstractCounter, AbstractCount>>
    BY <1>1, <2>1 DEF AbstractKey, AbstractCounter, AbstractCount, NextKey
  <2> QED
    BY <1>1, <1>4, <1>5, <2>2 DEF Refines, AbstractVars
<1> QED
  BY <1>2, <1>6, <1>7

(* Decrypt and ApplyRekey take effect where the window admits the packet. *)
LEMMA CheckRefines ==
    ASSUME TypeInv, OnPath, Safe, NEW t \in Threads, GoesOn(t), Check(t)
    PROVE  Refines
<1> USE DEF TypeInv, Shared
<1> DEFINE p == local[t].packet
<1>1. /\ OnlyMoves(t)
      /\ pc[t] = "check"
      /\ ~Sealing(t) /\ ~Sealing(t)' /\ ~Rotating(t)
      /\ UNCHANGED <<sessionKey, rekeyCounter, messagesEncrypted, sendSeq,
                     sent, opened>>
  BY DEF GoesOn, OnlyMoves, Check, Goto, Return, Sealing, Rotating, keys,
         history
<1>2. /\ local[t].op \in {"Decrypt", "ApplyRekey"}
      /\ p \in Incoming
      /\ sessionKey # Nil
      /\ p.gen = sessionKey
  BY <1>1 DEF OnPath, Path, Stopped, Multiplying, Receiving, Safe, CallSound
<1>3. CASE p.seq \in receivedPackets
  <2>1. pc'[t] = "idle" /\ UNCHANGED receivedPackets
    BY <1>3 DEF Check, Return, Goto
  <2>2. ~Rotating(t)'
    BY <1>1, <2>1 DEF Rotating
  <2> QED
    BY <1>1, <2>1, <2>2, Invisible DEF Refines
<1>4. CASE p.seq \notin receivedPackets
  <2>1. /\ receivedPackets' = Admit(receivedPackets, p.seq)
        /\ pc' = [pc EXCEPT ![t] = "cipher"]
        /\ local' = local
    BY <1>4 DEF Check, Goto
  <2>2. AbstractPackets' = AbstractPackets
    BY <1>1, PacketsKept
  <2>3. AbstractPlaintexts' = AbstractPlaintexts \cup {p}
    <3>1. {u \in Threads : pc[u] = "cipher"}'
             = {u \in Threads : pc[u] = "cipher"} \cup {t}
      BY <2>1
    <3> QED
      BY <1>1, <2>1, <3>1 DEF AbstractPlaintexts
  <2>4. ~Ahead /\ ~Filling
    <3>1. CASE local[t].op = "Decrypt"
      BY <3>1, NobodyAhead DEF KeyOps, Step
    <3>2. CASE local[t].op = "ApplyRekey"
      BY <1>1, <3>2, OthersIdle DEF KeyOps
    <3> QED
      BY <1>2, <3>1, <3>2
  <2>5. Opened(p)
    BY <1>1, <1>2, <1>4, <2>1, <2>2, <2>3, <2>4 DEF Opened, AbstractKey
  <2>6. CASE local[t].op = "ApplyRekey" /\ p.kind = "token"
             /\ p.counter = rekeyCounter
    <3>1. Ahead' /\ ~Filling'
      <4>1. Rotating(t)'
        BY <1>1, <2>1, <2>6 DEF Rotating
      <4> QED
        BY <2>1, <2>6, <4>1, OthersIdle DEF KeyOps
    <3>2. Rotated
      BY <1>1, <2>4, <3>1, Rotates
    <3>3. p.counter = AbstractCounter
      BY <2>4, <2>6 DEF AbstractCounter
    <3> HIDE DEF p
    <3>4. Atomic!ApplyRekey
      BY <1>2, <2>5, <2>6, <3>2, <3>3, AtomicApplyRekey
    <3> QED
      BY <3>4 DEF Refines, Atomic!Next
  <2>7. CASE ~(local[t].op = "ApplyRekey" /\ p.kind = "token"
               /\ p.counter = rekeyCounter)
    <3>1. ~Ahead' /\ ~Filling'
      <4>1. CASE local[t].op = "Decrypt"
        BY <4>1, NobodyAhead DEF KeyOps, Step
      <4>2. CASE local[t].op = "ApplyRekey"
        <5>1. ~Rotating(t)'
          BY <1>1, <2>1, <2>7, <4>2 DEF Rotating
        <5> QED
          BY <2>1, <4>2, <5>1, OthersIdle DEF KeyOps
      <4> QED
        BY <1>2, <4>1, <4>2
    <3>2. UNCHANGED <<AbstractKey, AbstractCounter, AbstractCount>>
      BY <1>1, <2>4, <3>1, SealersStay
         DEF AbstractKey, AbstractCounter, AbstractCount
    <3> HIDE DEF p
    <3>3. Atomic!Decrypt
      BY <1>2, <2>5, <3>2, AtomicDecrypt
    <3> QED
      BY <3>3 DEF Refines, Atomic!Next
  <2> QED
    BY <2>6, <2>7
<1> QED
  BY <1>3, <1>4

(* The plaintext has been there since then. *)
LEMMA CipherRefines ==
    ASSUME TypeInv, OnPath, Safe, NEW t \in Threads, GoesOn(t), Cipher(t)
    PROVE  Refines
<1> USE DEF TypeInv, Shared
<1> DEFINE p == local[t].packet
<1>1. /\ OnlyMoves(t)
      /\ pc[t] = "cipher"
      /\ sessionKey # Nil
      /\ p.gen = sessionKey
      /\ ~Sealing(t) /\ ~Sealing(t)'
      /\ UNCHANGED <<sessionKey, rekeyCounter, messagesEncrypted, sendSeq,
                     receivedPackets, sent>>
  BY DEF GoesOn, OnlyMoves, Cipher, Goto, Return, Sealing, keys, Safe,
         CallSound
<1>2. /\ opened' = opened \cup {[call |-> local[t].call, packet |-> p,
                                 gen |-> sessionKey]}
      /\ IF local[t].op = "ApplyRekey" /\ p.kind = "token"
           THEN pc'[t] = "expect" /\ local' = local
           ELSE pc'[t] = "idle"
  BY <1>1 DEF Cipher, Goto, Return
<1>3. AbstractPlaintexts' = AbstractPlaintexts
  <2> DEFINE rest == {u \in Threads : pc[u] = "cipher"} \ {t}
  <2>1. {u \in Threads : pc[u] = "cipher"}' = rest
    BY <1>1, <1>2 DEF OnlyMoves
  <2>2. {u \in Threads : pc[u] = "cipher"} = rest \cup {t}
    BY <1>1
  <2>3. \A u \in rest : local'[u] = local[u]
    BY <1>1 DEF OnlyMoves
  <2>4. {local'[u].packet : u \in rest} = {local[u].packet : u \in rest}
    BY <2>3
  <2>5. {o.packet : o \in opened'} = {o.packet : o \in opened} \cup {p}
    <3> DEFINE r == [call |-> local[t].call, packet |-> p,
                     gen |-> sessionKey]
    <3>1. r.packet = p
      OBVIOUS
    <3>2. opened' = opened \cup {r}
      BY <1>2
    <3> HIDE DEF r, p
    <3> QED
      BY <3>1, <3>2
  <2> HIDE DEF rest
  <2>6. AbstractPlaintexts' = {o.packet : o \in opened'}
                              \cup {local'[u].packet : u \in rest}
    BY <2>1 DEF AbstractPlaintexts
  <2>7. AbstractPlaintexts = {o.packet : o \in opened}
                             \cup {local[u].packet : u \in rest} \cup {p}
    BY <2>2 DEF AbstractPlaintexts
  <2> HIDE DEF p
  <2> QED
    BY <2>4, <2>5, <2>6, <2>7
<1>4. AbstractPackets' = AbstractPackets
  BY <1>1, PacketsKept
<1>5. /\ \A u \in Threads : Rotating(u)' <=> Rotating(u)
      /\ Ahead' <=> Ahead
      /\ Filling' <=> Filling
  <2>1. Rotating(t)' <=> Rotating(t)
    BY <1>1, <1>2 DEF Rotating, GoesOn
  <2>2. \A u \in Threads : Rotating(u)' <=> Rotating(u)
    BY <1>1, <2>1 DEF OnlyMoves, Rotating, Sealing, Receiving
  <2>3. Filling' <=> Filling
    BY <1>1, <1>2 DEF OnlyMoves, Filling
  <2> QED
    BY <2>2, <2>3 DEF Ahead
<1>6. UNCHANGED <<AbstractKey, AbstractCounter>>
  BY <1>1, <1>5 DEF AbstractKey, AbstractCounter, NextKey
<1>7. UNCHANGED AbstractCount
  BY <1>1, <1>5, SealersStay DEF AbstractCount
<1> QED
  BY <1>1, <1>3, <1>4, <1>6, <1>7 DEF Refines, AbstractVars

(* The keys that are installed have been in force since then. *)
LEMMA InstallRefines ==
    ASSUME TypeInv, OnPath, Safe, NEW t \in Threads, GoesOn(t), Install(t)
    PROVE  Refines
<1> USE DEF TypeInv, Shared
<1>1. /\ OnlyMoves(t)
      /\ pc[t] = "install" /\ pc'[t] \in {"idle", "callback"}
      /\ sessionKey' = <<sessionKey[1], rekeyCounter + 1>>
      /\ rekeyCounter' = rekeyCounter + 1
      /\ messagesEncrypted' = 0
      /\ UNCHANGED <<sendSeq, receivedPackets, sent, opened>>
  BY DEF GoesOn, OnlyMoves, Install, NextKey, Goto, Return, history
<1>2. local[t].op \in {"Rekey", "ApplyRekey"}
  BY <1>1 DEF OnPath, Path, Stopped, Multiplying
<1>3. /\ Rotating(t)
      /\ ~Rotating(t)' /\ ~Sealing(t) /\ ~Sealing(t)'
  BY <1>1, <1>2 DEF Rotating, Sealing, Safe, CallSound
<1>4. /\ Ahead /\ ~Ahead' /\ ~Filling'
      /\ {u \in Threads : Sealing(u)}' = {}
  BY <1>1, <1>2, <1>3, OthersIdle DEF KeyOps
<1>5. UNCHANGED <<AbstractPackets, AbstractPlaintexts>>
  BY <1>1, <1>3, PacketsKept, PlaintextsKept
<1>6. UNCHANGED <<AbstractKey, AbstractCounter>>
  <2>1. /\ ~Filling
        /\ AbstractKey = <<sessionKey[1], rekeyCounter + 1>>
    BY <1>1, <1>2, <1>4, OthersIdle DEF KeyOps, AbstractKey, NextKey
  <2> QED
    BY <1>1, <1>4, <2>1 DEF AbstractKey, AbstractCounter
<1>7. UNCHANGED AbstractCount
  <2>1. Cardinality({u \in Threads : Sealing(u)})' = 0
    BY <1>4, FS_EmptySet
  <2>2. AbstractCount' = 0
    BY <1>1, <1>4, <2>1 DEF AbstractCount
  <2> QED
    BY <1>4, <2>2 DEF AbstractCount
<1> QED
  BY <1>1, <1>5, <1>6, <1>7 DEF Refines, AbstractVars

(* Dispose takes effect when the keys are dropped. *)
LEMMA ForgetRefines ==
    ASSUME TypeInv, OnPath, Safe, NEW t \in Threads, GoesOn(t), Forget(t)
    PROVE  Refines
<1> USE DEF TypeInv, Shared
<1>1. /\ OnlyMoves(t)
      /\ pc[t] = "forget" /\ pc'[t] = "idle"
      /\ sessionKey' = Nil /\ receivedPackets' = {}
      /\ UNCHANGED <<rekeyCounter, messagesEncrypted, sendSeq, sent, opened>>
  BY DEF GoesOn, OnlyMoves, Forget, Goto, Return, history
<1>2. local[t].op = "Dispose"
  BY <1>1 DEF OnPath, Path, Stopped, Multiplying
<1>3. ~Rotating(t) /\ ~Rotating(t)' /\ ~Sealing(t) /\ ~Sealing(t)'
  BY <1>1, <1>2 DEF Rotating, Sealing
<1>4. ~Ahead /\ ~Ahead' /\ ~Filling /\ ~Filling'
  BY <1>1, <1>2, <1>3, OthersIdle DEF KeyOps
<1>5. UNCHANGED <<AbstractPackets, AbstractPlaintexts>>
  BY <1>1, <1>3, PacketsKept, PlaintextsKept
<1>6. AbstractKey' = Nil /\ UNCHANGED AbstractCounter
  BY <1>1, <1>4 DEF AbstractKey, AbstractCounter
<1>7. UNCHANGED AbstractCount
  BY <1>1, <1>3, <1>4, SealersStay DEF AbstractCount
<1>8. Atomic!Dispose
  BY <1>1, <1>5, <1>6, <1>7, AtomicDispose
<1> QED
  BY <1>8 DEF Refines, Atomic!Next

(* A handshake takes effect when it installs its keys, *)
LEMMA FreshRefines ==
    ASSUME TypeInv, OnPath, Safe, NEW t \in Threads, GoesOn(t), Fresh(t)
    PROVE  Refines
<1> USE DEF TypeInv, Shared
<1>1. /\ OnlyMoves(t)
      /\ pc[t] = "fresh" /\ pc'[t] = "fill"
      /\ sessionKey' = <<local[t].call, 0>>
      /\ UNCHANGED <<rekeyCounter, messagesEncrypted, sendSeq,
                     receivedPackets, sent, opened>>
  BY DEF GoesOn, OnlyMoves, Fresh, Goto, history
<1>2. local[t].op = "Handshake"
  BY <1>1 DEF OnPath, Path, Stopped, Multiplying
<1>3. ~Rotating(t) /\ ~Rotating(t)' /\ ~Sealing(t) /\ ~Sealing(t)'
  BY <1>1, <1>2 DEF Rotating, Sealing
<1>4. ~Ahead' /\ Filling'
  BY <1>1, <1>2, <1>3, OthersIdle DEF KeyOps
<1>5. UNCHANGED <<AbstractPackets, AbstractPlaintexts>>
  BY <1>1, <1>3, PacketsKept, PlaintextsKept
<1>6. local[t].call \in 1 .. MaxCalls
  <2>1. /\ local[t].call \in Nat
        /\ local[t].call >= 1
        /\ local[t].call <= calls
        /\ calls <= MaxCalls
    BY <1>1, LocalFields DEF Safe, CallSound, KeysSound
  <2> QED
    BY <2>1, ThreadAssumption
<1>7. /\ AbstractKey' = <<local[t].call, 0>>
      /\ AbstractCounter' = 0
      /\ AbstractCount' = 0
  BY <1>1, <1>4 DEF AbstractKey, AbstractCounter, AbstractCount
<1>8. Atomic!Handshake
  BY <1>1, <1>5, <1>6, <1>7, AtomicHandshake
<1> QED
  BY <1>8 DEF Refines, Atomic!Next

(* and what it does after that has already happened. *)
LEMMA FillRefines ==
    ASSUME TypeInv, OnPath, Safe, NEW t \in Threads, GoesOn(t), Fill(t)
    PROVE  Refines
<1> USE DEF TypeInv, Shared
<1>1. /\ OnlyMoves(t)
      /\ pc[t] = "fill" /\ pc'[t] = "idle"
      /\ rekeyCounter' = 0 /\ messagesEncrypted' = 0
      /\ UNCHANGED <<sessionKey, sendSeq, receivedPackets, sent, opened>>
  BY DEF GoesOn, OnlyMoves, Fill, Goto, Return, history
<1>2. local[t].op = "Handshake"
  BY <1>1 DEF OnPath, Path, Stopped, Multiplying
<1>3. ~Rotating(t) /\ ~Rotating(t)' /\ ~Sealing(t) /\ ~Sealing(t)'
  BY <1>1, <1>2 DEF Rotating, Sealing
<1>4. /\ ~Ahead /\ ~Ahead' /\ Filling /\ ~Filling'
      /\ {u \in Threads : Sealing(u)}' = {}
  BY <1>1, <1>2, <1>3, OthersIdle DEF KeyOps
<1>5. UNCHANGED <<AbstractPackets, AbstractPlaintexts>>
  BY <1>1, <1>3, PacketsKept, PlaintextsKept
<1>6. UNCHANGED <<AbstractKey, AbstractCounter>>
  BY <1>1, <1>4 DEF AbstractKey, AbstractCounter
<1>7. UNCHANGED AbstractCount
  <2>1. Cardinality({u \in Threads : Sealing(u)})' = 0
    BY <1>4, FS_EmptySet
  <2>2. AbstractCount' = 0
    BY <1>1, <1>4, <2>1 DEF AbstractCount
  <2> QED
    BY <1>4, <2>2 DEF AbstractCount
<1> QED
  BY <1>1, <1>5, <1>6, <1>7 DEF Refines, AbstractVars

(* Every step is a step of AtomicSession, or invisible. *)
LEMMA StepRefines ==
    ASSUME TypeInv, OnPath, Safe, [Next]_vars
    PROVE  Refines
<1>1. CASE UNCHANGED vars
  BY <1>1
     DEF vars, keys, others, history, Refines, AbstractVars, AbstractKey,
         AbstractCounter, AbstractCount, AbstractPackets, AbstractPlaintexts,
         Ahead, Filling, Rotating, Sealing, Receiving, NextKey
<1>2. ASSUME NEW t \in Threads, Call(t) PROVE Refines
  BY <1>2, CallInvisible DEF Refines
<1>3. ASSUME NEW t \in Threads, Step(t) PROVE Refines
  <2>1. GoesOn(t)
    <3>1. \A u \in Threads : pc[u] = "cipher" => sessionKey # Nil
      BY DEF Safe, CallSound
    <3> QED
      BY <1>3, <3>1, StepGoesOn DEF Safe
  <2>2. CASE Inner(t)
    BY <2>1, <2>2, InnerInvisible DEF Refines
  <2> QED
    BY <1>3, <2>1, <2>2, SealRefines, CountRefines, CheckRefines,
       CipherRefines, InstallRefines, ForgetRefines, FreshRefines, FillRefines
       DEF Step, Inner
<1> QED
  BY <1>1, <1>2, <1>3 DEF Next, Done

(* The initial state is AtomicSession's. *)
LEMMA InitRefines == Init => Atomic!Init
<1> SUFFICES ASSUME Init PROVE Atomic!Init
  OBVIOUS
<1>1. \A t \in Threads : ~Sealing(t) /\ ~Rotating(t)
  BY DEF Init, Sealing, Rotating
<1>2. ~Ahead /\ ~Filling
  BY <1>1 DEF Ahead, Filling, Init
<1>3. /\ {t \in Threads : Sealing(t)} = {}
      /\ {u \in Threads : pc[u] = "cipher"} = {}
  BY <1>1 DEF Init
<1>4. /\ AbstractKey = <<0, 0>> /\ AbstractCounter = 0
      /\ AbstractPackets = {} /\ AbstractPlaintexts = {}
  BY <1>2, <1>3
     DEF Init, AbstractKey, AbstractCounter, AbstractPackets,
         AbstractPlaintexts
<1>5. AbstractCount = 0
  BY <1>2, <1>3, FS_EmptySet DEF Init, AbstractCount
<1>6. sendSeq = 0 /\ receivedPackets = {}
  BY DEF Init
<1> QED
  BY <1>4, <1>5, <1>6
     DEF Atomic!Init, AbstractKey, AbstractCounter, AbstractCount,
         AbstractPackets, AbstractPlaintexts

(* Under the discipline, and with a MAC that has no shared buffer, an      *)
(* object shared by any number of threads behaves as if every call         *)
(* happened at one moment.                                                 *)
THEOREM Refinement ==
    ASSUME ExclusiveKeys, ~SharedMac
    PROVE  Spec => RefinesAtomic
<1>1. TypeInv /\ OnPath /\ Safe /\ [Next]_vars => [Atomic!Next]_(Atomic!vars)
  BY StepRefines, AtomicVars DEF Refines
<1> QED
  BY <1>1, InitRefines, Types, Paths, Safety, PTL
     DEF Spec, RefinesAtomic, Atomic!Spec
=============================================================================

---------------------------- MODULE KeyUseProofs ----------------------------
(***************************************************************************)
(* What holds with any number of goroutines and no discipline at all:      *)
(* NeedsRekey is not late by more than the calls in progress, and a call   *)
(* that no other meets comes out right.                                    *)
(*                                                                         *)
(* A packet is counted in a later section than it was sealed in, so the    *)
(* argument is that keys never come back: the rotations of one handshake   *)
(* number its keys upwards, and the keys of a handshake carry the number   *)
(* of its call.  A key is new when it is installed, no packet is under it, *)
(* and the count starts at zero; from then on each packet of the key adds  *)
(* one, and packets of older keys may add more.                            *)
(*                                                                         *)
(* Keys that never come back also answer for the bytes: while the lock is  *)
(* free, MAC key and cipher key are of one derivation and not zeroed.  A   *)
(* call starts from there, and as long as it is not met it finds at each   *)
(* of its places what it left.                                             *)
(***************************************************************************)
EXTENDS SessionThreadsProofs, SessionOverlap

(* The keys that packets are under, those still to leave included. *)
Gens == {m.gen : m \in sent}
        \cup {local[t].gen : t \in {u \in Threads : Sealing(u)}}

(* The packets under the present key that have left Encrypt. *)
UnderKey == {m \in sent : m.gen = sessionKey}

(* A handshake that has yet to make its key. *)
Pending(t) ==
    local[t].op = "Handshake" /\ pc[t] \in Multiplying \cup {"lock", "fresh"}

(* Within a handshake, g is no later than key. *)
Older(g, key) == g[1] = key[1] => g[2] <= key[2]

(* Keys carry the numbers of calls that have been made. *)
GensSound ==
    /\ Gens \subseteq Nat \X Nat
    /\ \A g \in Gens : g[1] <= calls

(* No packet is under a later key of the handshake than the present one,   *)
(* and the present one is numbered by rekeyCounter.                        *)
KeySound ==
    sessionKey # Nil =>
        /\ sessionKey[1] <= calls
        /\ \A g \in Gens : Older(g, sessionKey)
        /\ (\A t \in Threads : pc[t] \notin {"fill", "killed"})
              => sessionKey[2] = rekeyCounter

(* No key carries the number of a handshake that has yet to make its key.  *)
PendingSound ==
    \A t \in Threads : Pending(t) =>
        /\ local[t].call <= calls
        /\ \A g \in Gens : g[1] # local[t].call
        /\ sessionKey # Nil => sessionKey[1] # local[t].call
        /\ \A u \in Threads \ {t} :
              Pending(u) => local[u].call # local[t].call

(* Between Fresh and Fill rekeyCounter is still that of the old session,   *)
(* and no packet is under a key of the new handshake.                      *)
FillSound ==
    \A t \in Threads : pc[t] = "fill" =>
        /\ sessionKey # Nil /\ sessionKey[2] = 0
        /\ \A g \in Gens : g[1] # sessionKey[1]

(* The process ends for all threads at once. *)
Together ==
    \A t \in Threads : pc[t] = "killed" => \A u \in Threads : pc[u] = "killed"

(* The count is ahead of the packets. *)
Counted ==
    /\ IsFiniteSet(sent)
    /\ sessionKey # Nil => Cardinality(UnderKey) <= messagesEncrypted

UseInv ==
    /\ TypeInv /\ OnPath
    /\ GensSound /\ KeySound /\ PendingSound /\ FillSound /\ Together
    /\ Counted

(* A key that is not Nil is a handshake and a number. *)
LEMMA KeyType ==
    ASSUME TypeInv, sessionKey # Nil
    PROVE  sessionKey \in Nat \X Nat
BY DEF TypeInv, Shared, KeyNames

(* A thread that can take a step has not been killed. *)
LEMMA NoKill ==
    ASSUME Together, NEW t \in Threads, pc[t] # "killed"
    PROVE  \A u \in Threads : pc[u] # "killed"
BY DEF Together

(* What most steps leave alone.  The process may end, for all threads.    *)
Leaves ==
    /\ UNCHANGED <<sessionKey, rekeyCounter, messagesEncrypted, sent, calls>>
    /\ \A u \in Threads :
          /\ Sealing(u)' => Sealing(u) /\ local'[u].gen = local[u].gen
          /\ Pending(u)' => Pending(u) /\ local'[u].call = local[u].call
          /\ pc'[u] = "fill" => pc[u] = "fill"
    /\ \/ \A u \in Threads : pc'[u] = "killed"
       \/ \A u \in Threads :
             /\ pc[u] # "killed" /\ pc'[u] # "killed"
             /\ pc[u] = "fill" => pc'[u] = "fill"

(* Every step but six leaves alone what the invariant is about. *)
LEMMA QuietSteps ==
    ASSUME UseInv, NEW t \in Threads, Step(t),
           ~Seal(t), ~Count(t), ~Install(t), ~Forget(t), ~Fresh(t), ~Fill(t)
    PROVE  Leaves
<1> USE DEF UseInv, TypeInv, Leaves
<1>2. CASE Payload(t)
  BY <1>2, NoKill
     DEF Payload, OnPath, Path, Stopped, Multiplying, Goto, Locals,
         Sealing, Receiving, history, others, exchange, Pending,
         UnderKey, keys
<1>3. CASE LoadMacKey(t)
  BY <1>3, NoKill
     DEF LoadMacKey, OnPath, Path, Stopped, Multiplying, Goto, Locals,
         Sealing, Receiving, history, others, exchange, Pending,
         UnderKey, keys, Fatal
<1>4. CASE CopyKey(t)
  BY <1>4, NoKill
     DEF CopyKey, OnPath, Path, Stopped, Multiplying, Goto, Locals,
         Sealing, Receiving, history, exchange, Pending, UnderKey, keys
<1>5. CASE CopyData(t)
  BY <1>5, NoKill
     DEF CopyData, OnPath, Path, Stopped, Multiplying, Goto, Locals,
         Sealing, Receiving, history, exchange, Pending, UnderKey, keys
<1>6. CASE Hash(t)
  BY <1>6, NoKill
     DEF Hash, OnPath, Path, Stopped, Multiplying, Goto, Locals, Sealing,
         Receiving, history, others, exchange, Pending, UnderKey, keys
<1>7. CASE Open(t)
  BY <1>7, NoKill
     DEF Open, OnPath, Path, Stopped, Multiplying, Goto, Return, Blank,
         Locals, Sealing, Receiving, history, others, exchange, Pending,
         UnderKey, keys
<1>8. CASE Verify(t)
  BY <1>8, NoKill
     DEF Verify, OnPath, Path, Stopped, Multiplying, Goto, Return, Blank,
         Locals, Sealing, Receiving, history, others, exchange, Pending,
         UnderKey, keys
<1>9. CASE Check(t)
  BY <1>9, NoKill
     DEF Check, OnPath, Path, Stopped, Multiplying, Goto, Return, Blank,
         Locals, Sealing, Receiving, history, others, exchange, Pending,
         UnderKey, keys
<1>10. CASE Cipher(t)
  BY <1>10, NoKill
     DEF Cipher, OnPath, Path, Stopped, Multiplying, Goto, Return, Blank,
         Locals, Sealing, Receiving, others, exchange, Pending, UnderKey,
         keys
<1>11. CASE Expect(t)
  BY <1>11, NoKill
     DEF Expect, OnPath, Path, Stopped, Multiplying, Goto, Return, Blank,
         Locals, Sealing, Receiving, history, others, exchange, Pending,
         UnderKey, keys
<1>12. CASE Derive(t)
  BY <1>12, NoKill
     DEF Derive, OnPath, Path, Stopped, Multiplying, Goto, Return, Blank,
         Locals, Sealing, Receiving, others, exchange, Pending, UnderKey,
         keys
<1>13. CASE Wipe(t)
  BY <1>13, NoKill
     DEF Wipe, OnPath, Path, Stopped, Multiplying, Goto, Locals, Sealing,
         Receiving, history, others, exchange, Pending, UnderKey, keys
<1>14. CASE Lock(t)
  BY <1>14, NoKill
     DEF Lock, OnPath, Path, Stopped, Multiplying, Goto, Locals, Sealing,
         Receiving, history, others, exchange, Pending, UnderKey, keys
<1>15. CASE Lookup(t)
  BY <1>15, NoKill
     DEF Lookup, Fatal, OnPath, Path, Stopped, Multiplying, Goto, Locals,
         Sealing, Receiving, history, others, exchange, Pending,
         UnderKey, keys
<1>16. CASE Store(t)
  BY <1>16, NoKill
     DEF Store, Fatal, OnPath, Path, Stopped, Multiplying, Goto, Locals,
         Sealing, Receiving, history, others, exchange, Pending,
         UnderKey, keys
<1>17. CASE LookupInv(t)
  BY <1>17, NoKill
     DEF LookupInv, Multiplied, Fatal, OnPath, Path, Stopped,
         Multiplying, Goto, Locals, Sealing, Receiving, history, others,
         exchange, Pending, UnderKey, keys
<1>18. CASE StoreInv(t)
  BY <1>18, NoKill
     DEF StoreInv, Multiplied, Fatal, OnPath, Path, Stopped,
         Multiplying, Goto, Locals, Sealing, Receiving, history, others,
         exchange, Pending, UnderKey, keys
<1>19. CASE SetRekeyPolicy(t)
  BY <1>19, NoKill
     DEF SetRekeyPolicy, OnPath, Path, Stopped, Multiplying, Goto,
         Return, Blank, Locals, Sealing, Receiving, history, exchange,
         Pending, UnderKey, keys
<1>20. CASE InstallPair(t)
  BY <1>20, NoKill
     DEF InstallPair, OnPath, Path, Stopped, Multiplying, Goto, Return,
         Blank, Locals, Sealing, Receiving, history, others, exchange,
         Pending, UnderKey, keys
<1> QED
  BY <1>2, <1>3, <1>4, <1>5, <1>6, <1>7, <1>8, <1>9, <1>10, <1>11, <1>12,
     <1>13, <1>14, <1>15, <1>16, <1>17, <1>18, <1>19, <1>20
     DEF Step

(* Such steps keep the invariant. *)
LEMMA LeavesAlone ==
    ASSUME UseInv, Leaves
    PROVE  /\ GensSound' /\ KeySound' /\ PendingSound'
           /\ FillSound' /\ Together' /\ Counted'
<1> USE DEF UseInv, Leaves
<1>1. Gens' \subseteq Gens
  BY DEF Gens
<1>2. GensSound'
  BY <1>1 DEF GensSound
<1>3. KeySound'
  <2> SUFFICES ASSUME sessionKey # Nil
               PROVE  /\ sessionKey[1] <= calls
                      /\ \A g \in Gens' : Older(g, sessionKey)
                      /\ (\A t \in Threads : pc'[t] \notin {"fill", "killed"})
                            => sessionKey[2] = rekeyCounter
    BY DEF KeySound
  <2>1. ASSUME \A t \in Threads : pc'[t] \notin {"fill", "killed"}
        PROVE  sessionKey[2] = rekeyCounter
    <3>1. CASE \E t \in Threads : pc[t] = "killed"
      BY <2>1, <3>1
    <3>2. CASE \A t \in Threads : pc[t] # "killed"
      BY <2>1, <3>2 DEF KeySound
    <3> QED
      BY <3>1, <3>2
  <2> QED
    BY <1>1, <2>1 DEF KeySound
<1>4. PendingSound'
  BY <1>1 DEF PendingSound
<1>5. FillSound'
  BY <1>1 DEF FillSound
<1>6. Together'
  BY DEF Together
<1>7. Counted'
  BY DEF Counted, UnderKey
<1> QED
  BY <1>2, <1>3, <1>4, <1>5, <1>6, <1>7
-----------------------------------------------------------------------------
(* The steps that do more: each keeps the parts that it disturbs.          *)
Sound ==
    /\ GensSound /\ KeySound /\ PendingSound /\ FillSound /\ Together
    /\ Counted

(* The number of packets under a key is a number. *)
LEMMA UnderKeyFinite ==
    ASSUME Counted
    PROVE  IsFiniteSet(UnderKey) /\ Cardinality(UnderKey) \in Nat
BY FS_Subset, FS_CardinalityType DEF Counted, UnderKey

(* A call begins: a handshake that begins gets a number no key has yet. *)
LEMMA CallSoundUse ==
    ASSUME UseInv, NEW t \in Threads, Call(t)
    PROVE  Sound'
<1> USE DEF UseInv, TypeInv, Shared
<1>1. PICK op \in Ops, p \in Incoming : Calls(t, op, p)
  BY CallEffect
<1>2. /\ Entry(op) \notin {"load", "copyKey", "copyData", "hash", "count",
                           "fill", "killed"}
      /\ \A u \in Threads : pc[u] # "killed"
  BY <1>1, NoKill DEF Entry, Calls
<1>3. /\ UNCHANGED <<sessionKey, rekeyCounter, messagesEncrypted, sent>>
      /\ calls' = calls + 1
      /\ \A u \in Threads \ {t} : local'[u] = local[u] /\ pc'[u] = pc[u]
      /\ local'[t].call = calls + 1
      /\ pc'[t] = Entry(op)
  BY <1>1 DEF Calls, keys, history
<1>4. Gens' \subseteq Gens
  BY <1>2, <1>3 DEF Gens, Sealing, Receiving
<1>5. GensSound'
  BY <1>3, <1>4 DEF GensSound
<1>6. KeySound'
  <2> SUFFICES ASSUME sessionKey # Nil
               PROVE  /\ sessionKey[1] <= calls + 1
                      /\ \A g \in Gens' : Older(g, sessionKey)
                      /\ (\A u \in Threads : pc'[u] \notin {"fill", "killed"})
                            => sessionKey[2] = rekeyCounter
    BY <1>3 DEF KeySound
  <2>1. sessionKey[1] \in Nat
    BY KeyType
  <2>2. ASSUME \A u \in Threads : pc'[u] \notin {"fill", "killed"}
        PROVE  sessionKey[2] = rekeyCounter
    BY <1>1, <1>2, <1>3, <2>2 DEF KeySound, Calls
  <2> QED
    BY <1>4, <2>1, <2>2 DEF KeySound
<1>7. PendingSound'
  <2> SUFFICES ASSUME NEW u \in Threads, Pending(u)'
               PROVE  /\ local'[u].call <= calls'
                      /\ \A g \in Gens' : g[1] # local'[u].call
                      /\ sessionKey # Nil => sessionKey[1] # local'[u].call
                      /\ \A v \in Threads \ {u} :
                            Pending(v)' => local'[v].call # local'[u].call
    BY <1>3 DEF PendingSound
  <2>1. \A v \in Threads \ {t} : Pending(v)' => Pending(v)
    BY <1>3 DEF Pending
  <2>2. \A v \in Threads \ {t} : Pending(v)' => local[v].call <= calls
    BY <2>1 DEF PendingSound
  <2>3. \A v \in Threads : local[v].call \in Nat
    BY LocalFields
  <2>4. CASE u = t
    <3>1. \A g \in Gens' : g[1] # calls + 1
      BY <1>4 DEF GensSound
    <3>2. sessionKey # Nil => sessionKey[1] # calls + 1
      BY KeyType DEF KeySound
    <3>3. \A v \in Threads \ {t} : Pending(v)' => local'[v].call # calls + 1
      BY <1>3, <2>2, <2>3
    <3> QED
      BY <1>3, <2>4, <3>1, <3>2, <3>3
  <2>5. CASE u # t
    <3>1. Pending(u) /\ local'[u] = local[u]
      BY <1>3, <2>1, <2>5
    <3>2. local[u].call <= calls
      BY <3>1 DEF PendingSound
    <3>3. \A v \in Threads \ {u} :
             Pending(v)' => local'[v].call # local[u].call
      <4> SUFFICES ASSUME NEW v \in Threads \ {u}, Pending(v)'
                   PROVE  local'[v].call # local[u].call
        OBVIOUS
      <4>1. CASE v = t
        BY <1>3, <2>3, <3>2, <4>1
      <4>2. CASE v # t
        BY <1>3, <2>1, <3>1, <4>2 DEF PendingSound
      <4> QED
        BY <4>1, <4>2
    <3>4. /\ \A g \in Gens' : g[1] # local[u].call
          /\ sessionKey # Nil => sessionKey[1] # local[u].call
      BY <1>4, <3>1 DEF PendingSound
    <3> QED
      BY <1>3, <2>3, <3>1, <3>2, <3>3, <3>4
  <2> QED
    BY <2>4, <2>5
<1>8. FillSound'
  BY <1>2, <1>3, <1>4 DEF FillSound
<1>9. Together'
  BY <1>2, <1>3 DEF Together
<1>10. Counted'
  BY <1>3 DEF Counted, UnderKey
<1> QED
  BY <1>5, <1>6, <1>7, <1>8, <1>9, <1>10 DEF Sound

(* While the lock is free, or held by a thread that is not between Fresh   *)
(* and Fill, no thread is there.                                           *)
LEMMA NoFill ==
    ASSUME TypeInv, NEW t \in Threads,
           mu = NoThread \/ (mu = t /\ pc[t] # "fill")
    PROVE  \A u \in Threads : pc[u] # "fill"
BY ThreadAssumption DEF TypeInv, Holds

(* Seal: one more packet under the present key. *)
LEMMA SealSoundUse ==
    ASSUME UseInv, NEW t \in Threads, Seal(t)
    PROVE  Sound'
<1> USE DEF UseInv, TypeInv, Shared
<1>1. /\ UNCHANGED <<sessionKey, rekeyCounter, messagesEncrypted, sent,
                     calls>>
      /\ \A u \in Threads \ {t} : local'[u] = local[u] /\ pc'[u] = pc[u]
      /\ pc'[t] \in {"idle", "load"}
      /\ pc'[t] = "load" => sessionKey # Nil /\ local'[t].gen = sessionKey
  <2>1. CASE local' = [local EXCEPT ![t] = Blank]
             /\ pc' = [pc EXCEPT ![t] = "idle"]
    BY <2>1 DEF Seal, keys, history
  <2>2. CASE /\ sessionKey # Nil
             /\ local' = [local EXCEPT ![t].gen = sessionKey,
                                       ![t].seq = sendSeq]
             /\ pc' = [pc EXCEPT ![t] = "load"]
    <3>1. local'[t].gen = sessionKey
      BY <2>2 DEF Locals
    <3> QED
      BY <2>2, <3>1 DEF Seal, keys, history
  <2> QED
    BY <2>1, <2>2 DEF Seal, Return, Goto
<1>2. /\ \A u \in Threads : pc[u] # "fill"
      /\ \A u \in Threads : pc[u] # "killed"
  BY NoFill, NoKill DEF Seal
<1>3. \A g \in Gens' : g \in Gens \/ (sessionKey # Nil /\ g = sessionKey)
  BY <1>1 DEF Gens, Sealing, Receiving
<1>4. sessionKey # Nil =>
         sessionKey \in Nat \X Nat /\ sessionKey[1] <= calls
  BY KeyType DEF KeySound
<1>5. GensSound'
  BY <1>1, <1>3, <1>4 DEF GensSound
<1>6. KeySound'
  BY <1>1, <1>2, <1>3, <1>4 DEF KeySound, Older
<1>7. PendingSound'
  <2>1. \A u \in Threads :
           Pending(u)' => Pending(u) /\ local'[u].call = local[u].call
    BY <1>1 DEF Pending, Multiplying
  <2> QED
    BY <1>1, <1>3, <2>1 DEF PendingSound
<1>8. FillSound'
  BY <1>1, <1>2 DEF FillSound
<1>9. Together'
  BY <1>1, <1>2 DEF Together
<1>10. Counted'
  BY <1>1 DEF Counted, UnderKey
<1> QED
  BY <1>5, <1>6, <1>7, <1>8, <1>9, <1>10 DEF Sound

(* Count: the packet leaves, and the count follows. *)
LEMMA CountSoundUse ==
    ASSUME UseInv, NEW t \in Threads, Count(t)
    PROVE  Sound'
<1> USE DEF UseInv, TypeInv, Shared
<1> DEFINE m == [call |-> local[t].call, seq |-> local[t].seq,
                 gen |-> local[t].gen, tag |-> local[t].tag]
<1>1. /\ UNCHANGED <<sessionKey, rekeyCounter, calls>>
      /\ messagesEncrypted' = messagesEncrypted + 1
      /\ sent' = sent \cup {m}
      /\ \A u \in Threads \ {t} : local'[u] = local[u] /\ pc'[u] = pc[u]
      /\ pc'[t] \in {"idle", "derive"}
      /\ Sealing(t)
  BY DEF Count, Return, Goto, keys, Sealing, Receiving, OnPath, Path,
         Stopped, Multiplying
<1>2. /\ \A u \in Threads : pc[u] # "fill"
      /\ \A u \in Threads : pc[u] # "killed"
  BY NoFill, NoKill DEF Count
<1>3. Gens' \subseteq Gens
  BY <1>1 DEF Gens, Sealing, Receiving
<1>4. GensSound'
  BY <1>1, <1>3 DEF GensSound
<1>5. KeySound'
  BY <1>1, <1>2, <1>3 DEF KeySound
<1>6. PendingSound'
  <2>1. \A u \in Threads :
           Pending(u)' => Pending(u) /\ local'[u].call = local[u].call
    BY <1>1 DEF Pending, Multiplying
  <2> QED
    BY <1>1, <1>3, <2>1 DEF PendingSound
<1>7. FillSound'
  BY <1>1, <1>2 DEF FillSound
<1>8. Together'
  BY <1>1, <1>2 DEF Together
<1>9. Counted'
  <2>1. IsFiniteSet(sent')
    BY <1>1, OneMore DEF Counted
  <2>2. UnderKey' \subseteq UnderKey \cup {m}
    BY <1>1 DEF UnderKey
  <2>3. /\ IsFiniteSet(UnderKey \cup {m})
        /\ Cardinality(UnderKey \cup {m}) <= Cardinality(UnderKey) + 1
    BY UnderKeyFinite, OneMore
  <2>4. Cardinality(UnderKey') <= Cardinality(UnderKey \cup {m})
    BY <2>2, <2>3, FS_Subset
  <2>5. /\ Cardinality(UnderKey) \in Nat
        /\ Cardinality(UnderKey \cup {m}) \in Nat
        /\ Cardinality(UnderKey') \in Nat
    <3>1. IsFiniteSet(UnderKey')
      BY <2>2, <2>3, FS_Subset
    <3> QED
      BY <3>1, <2>3, UnderKeyFinite, FS_CardinalityType
  <2>6. sessionKey # Nil => Cardinality(UnderKey) <= messagesEncrypted
    BY DEF Counted
  <2>7. sessionKey # Nil => Cardinality(UnderKey') <= messagesEncrypted + 1
    BY <2>3, <2>4, <2>5, <2>6
  <2> QED
    BY <1>1, <2>1, <2>7 DEF Counted
<1> QED
  BY <1>4, <1>5, <1>6, <1>7, <1>8, <1>9 DEF Sound

(* Install: a key with a number no packet has. *)
LEMMA InstallSoundUse ==
    ASSUME UseInv, NEW t \in Threads, Install(t)
    PROVE  Sound'
<1> USE DEF UseInv, TypeInv, Shared
<1>1. /\ sessionKey # Nil
      /\ mu = t
  BY DEF Install, Holds
<1>2. /\ sessionKey' = <<sessionKey[1], rekeyCounter + 1>>
      /\ rekeyCounter' = rekeyCounter + 1
      /\ messagesEncrypted' = 0
      /\ UNCHANGED <<sent, calls>>
      /\ \A u \in Threads \ {t} : local'[u] = local[u] /\ pc'[u] = pc[u]
      /\ pc'[t] \in {"idle", "callback"}
  BY DEF Install, NextKey, Return, Goto, history
<1>3. /\ \A u \in Threads : pc[u] # "fill"
      /\ \A u \in Threads : pc[u] # "killed"
  BY <1>1, NoFill, NoKill DEF Install
<1>4. /\ sessionKey[2] = rekeyCounter
      /\ sessionKey \in Nat \X Nat
  BY <1>1, <1>3, KeyType DEF KeySound
<1>5. Gens' \subseteq Gens
  BY <1>2 DEF Gens, Sealing, Receiving
<1>6. \A g \in Gens : g[1] = sessionKey[1] => g[2] <= rekeyCounter
  BY <1>1, <1>4 DEF KeySound, Older
<1>7. GensSound'
  BY <1>2, <1>5 DEF GensSound
<1>8. KeySound'
  <2>1. \A g \in Gens' : g[1] = sessionKey[1] => g[2] <= rekeyCounter + 1
    <3>1. \A g \in Gens : g[2] \in Nat
      BY DEF GensSound
    <3> QED
      BY <1>5, <1>6, <3>1
  <2> QED
    BY <1>1, <1>2, <1>4, <2>1 DEF KeySound, Older
<1>9. PendingSound'
  <2>1. \A u \in Threads :
           Pending(u)' => Pending(u) /\ local'[u].call = local[u].call
    BY <1>2 DEF Pending, Multiplying
  <2> QED
    BY <1>1, <1>2, <1>5, <2>1 DEF PendingSound
<1>10. FillSound'
  BY <1>2, <1>3 DEF FillSound
<1>11. Together'
  BY <1>2, <1>3 DEF Together
<1>12. Counted'
  <2>1. \A x \in sent : x.gen \in Gens
    BY DEF Gens
  <2>2. UnderKey' = {}
    BY <1>2, <1>4, <1>6, <2>1 DEF UnderKey
  <2> QED
    BY <1>2, <2>2, FS_EmptySet DEF Counted
<1> QED
  BY <1>7, <1>8, <1>9, <1>10, <1>11, <1>12 DEF Sound

(* Forget: no key at all. *)
LEMMA ForgetSoundUse ==
    ASSUME UseInv, NEW t \in Threads, Forget(t)
    PROVE  Sound'
<1> USE DEF UseInv, TypeInv, Shared
<1>1. /\ sessionKey' = Nil
      /\ UNCHANGED <<sent, calls>>
      /\ \A u \in Threads \ {t} : local'[u] = local[u] /\ pc'[u] = pc[u]
      /\ pc'[t] = "idle"
      /\ mu = t
  BY DEF Forget, Return, Goto, history, Holds
<1>2. /\ \A u \in Threads : pc[u] # "fill"
      /\ \A u \in Threads : pc[u] # "killed"
  BY <1>1, NoFill, NoKill DEF Forget
<1>3. Gens' \subseteq Gens
  BY <1>1 DEF Gens, Sealing, Receiving
<1>4. GensSound'
  BY <1>1, <1>3 DEF GensSound
<1>5. PendingSound'
  <2>1. \A u \in Threads :
           Pending(u)' => Pending(u) /\ local'[u].call = local[u].call
    BY <1>1 DEF Pending, Multiplying
  <2> QED
    BY <1>1, <1>3, <2>1 DEF PendingSound
<1> QED
  BY <1>1, <1>2, <1>4, <1>5
     DEF Sound, KeySound, FillSound, Together, Counted

(* Fresh: the key of a handshake whose number no packet carries. *)
LEMMA FreshSoundUse ==
    ASSUME UseInv, NEW t \in Threads, Fresh(t)
    PROVE  Sound'
<1> USE DEF UseInv, TypeInv, Shared
<1>1. /\ sessionKey' = <<local[t].call, 0>>
      /\ UNCHANGED <<sent, calls, messagesEncrypted, local>>
      /\ \A u \in Threads \ {t} : pc'[u] = pc[u]
      /\ pc'[t] = "fill"
      /\ mu = t
      /\ Pending(t)
  BY DEF Fresh, Goto, history, Holds, Pending, OnPath, Path, Stopped,
         Multiplying
<1>2. /\ \A u \in Threads : pc[u] # "fill"
      /\ \A u \in Threads : pc[u] # "killed"
  BY <1>1, NoFill, NoKill DEF Fresh
<1>3. /\ local[t].call \in Nat
      /\ local[t].call <= calls
      /\ \A g \in Gens : g[1] # local[t].call
      /\ \A u \in Threads \ {t} : Pending(u) => local[u].call # local[t].call
  BY <1>1, LocalFields DEF PendingSound
<1>4. sessionKey' # Nil
  BY <1>1, <1>3, ThreadAssumption
<1>5. Gens' \subseteq Gens
  BY <1>1 DEF Gens, Sealing, Receiving
<1>6. GensSound'
  BY <1>1, <1>5 DEF GensSound
<1>7. KeySound'
  BY <1>1, <1>3, <1>4, <1>5 DEF KeySound, Older
<1>8. PendingSound'
  <2>1. \A u \in Threads : Pending(u)' => Pending(u) /\ u # t
    BY <1>1 DEF Pending, Multiplying
  <2> QED
    BY <1>1, <1>3, <1>5, <2>1 DEF PendingSound
<1>9. FillSound'
  BY <1>1, <1>2, <1>3, <1>4, <1>5 DEF FillSound
<1>10. Together'
  BY <1>1, <1>2 DEF Together
<1>11. Counted'
  <2>1. \A x \in sent : x.gen \in Gens
    BY DEF Gens
  <2>2. UnderKey' = {}
    BY <1>1, <1>3, <2>1 DEF UnderKey
  <2> QED
    BY <1>1, <2>2, FS_EmptySet DEF Counted
<1> QED
  BY <1>6, <1>7, <1>8, <1>9, <1>10, <1>11 DEF Sound

(* Fill: the count starts before the first packet. *)
LEMMA FillSoundUse ==
    ASSUME UseInv, NEW t \in Threads, Fill(t)
    PROVE  Sound'
<1> USE DEF UseInv, TypeInv, Shared
<1>1. /\ UNCHANGED <<sessionKey, sent, calls>>
      /\ rekeyCounter' = 0
      /\ messagesEncrypted' = 0
      /\ \A u \in Threads \ {t} : local'[u] = local[u] /\ pc'[u] = pc[u]
      /\ pc[t] = "fill"
      /\ pc'[t] = "idle"
  BY DEF Fill, Return, Goto, history
<1>2. /\ \A u \in Threads \ {t} : pc[u] # "fill"
      /\ \A u \in Threads : pc[u] # "killed"
  BY <1>1, NoKill DEF Holds
<1>3. /\ sessionKey # Nil
      /\ sessionKey[2] = 0
      /\ \A g \in Gens : g[1] # sessionKey[1]
  BY <1>1 DEF FillSound
<1>4. Gens' \subseteq Gens
  BY <1>1 DEF Gens, Sealing, Receiving
<1>5. GensSound'
  BY <1>1, <1>4 DEF GensSound
<1>6. KeySound'
  BY <1>1, <1>3, <1>4 DEF KeySound
<1>7. PendingSound'
  <2>1. \A u \in Threads :
           Pending(u)' => Pending(u) /\ local'[u].call = local[u].call
    BY <1>1 DEF Pending, Multiplying
  <2> QED
    BY <1>1, <1>4, <2>1 DEF PendingSound
<1>8. FillSound' /\ Together'
  BY <1>1, <1>2 DEF FillSound, Together
<1>9. Counted'
  <2>1. \A x \in sent : x.gen \in Gens
    BY DEF Gens
  <2>2. UnderKey' = {}
    BY <1>1, <1>3, <2>1 DEF UnderKey
  <2> QED
    BY <1>1, <2>2, FS_EmptySet DEF Counted
<1> QED
  BY <1>5, <1>6, <1>7, <1>8, <1>9 DEF Sound
-----------------------------------------------------------------------------
(* At the start there are no packets. *)
LEMMA InitSound == Init => Sound
<1> SUFFICES ASSUME Init PROVE Sound
  OBVIOUS
<1>1. Gens = {} /\ UnderKey = {}
  BY DEF Init, Gens, Sealing, UnderKey
<1>2. GensSound /\ KeySound
  BY <1>1 DEF Init, GensSound, KeySound
<1>3. PendingSound /\ FillSound /\ Together
  BY DEF Init, PendingSound, Pending, Multiplying, FillSound, Together
<1>4. Counted
  BY <1>1, FS_EmptySet DEF Init, Counted
<1> QED
  BY <1>2, <1>3, <1>4 DEF Sound

(* Every step keeps the invariant. *)
LEMMA StepSound == UseInv /\ [Next]_vars => Sound'
<1> SUFFICES ASSUME UseInv, [Next]_vars PROVE Sound'
  OBVIOUS
<1>1. CASE UNCHANGED vars
  BY <1>1
     DEF UseInv, Sound, vars, keys, history, GensSound, Gens, KeySound,
         PendingSound, Pending, FillSound, Together, Counted, UnderKey,
         Sealing, Receiving
<1>2. ASSUME NEW t \in Threads, Call(t) PROVE Sound'
  BY <1>2, CallSoundUse
<1>3. ASSUME NEW t \in Threads, Step(t) PROVE Sound'
  <2>1. CASE ~Seal(t) /\ ~Count(t) /\ ~Install(t) /\ ~Forget(t)
             /\ ~Fresh(t) /\ ~Fill(t)
    BY <1>3, <2>1, QuietSteps, LeavesAlone DEF Sound
  <2> QED
    BY <2>1, SealSoundUse, CountSoundUse, InstallSoundUse, ForgetSoundUse,
       FreshSoundUse, FillSoundUse
<1> QED
  BY <1>1, <1>2, <1>3 DEF Next, Done

PolicySound == afterMessages \in Policies

(* The threshold is that of one of the policies. *)
LEMMA PolicyKept == PolicySound /\ [Next]_vars => PolicySound'
<1> SUFFICES ASSUME PolicySound, [Next]_vars PROVE PolicySound'
  OBVIOUS
<1> USE DEF PolicySound
<1>1. CASE UNCHANGED vars
  BY <1>1 DEF vars, others
<1>2. ASSUME NEW t \in Threads, Call(t) \/ Step(t)
      PROVE  PolicySound'
  BY <1>2
     DEF Call, Step, Payload, Seal, LoadMacKey, CopyKey, CopyData, Hash,
         Count, Open, Verify, Check, Cipher, Expect, Derive, Install, Wipe,
         Forget, Lock, Lookup, Store, LookupInv, StoreInv, SetRekeyPolicy,
         InstallPair, Fresh, Fill, Fatal, others
<1> QED
  BY <1>1, <1>2 DEF Next, Done

(* With the counts of a key in order, NeedsRekey is right about them. *)
LEMMA CountsSuffice ==
    TypeInv /\ Sound /\ PolicySound => KeyUseCounted
<1> SUFFICES ASSUME TypeInv, Sound, PolicySound,
                    sessionKey # Nil, afterMessages > 0, ~NeedsRekey
             PROVE  Cardinality({m \in sent : m.gen = sessionKey})
                        < afterMessages
  BY DEF KeyUseCounted
<1>1. /\ Cardinality(UnderKey) \in Nat
      /\ Cardinality(UnderKey) <= messagesEncrypted
  BY UnderKeyFinite DEF Sound, Counted
<1>2. /\ ~(messagesEncrypted >= afterMessages)
      /\ messagesEncrypted \in Nat /\ afterMessages \in Nat
  BY ThreadAssumption DEF NeedsRekey, TypeInv, Shared, PolicySound
<1> QED
  BY <1>1, <1>2 DEF UnderKey

(* As long as NeedsRekey says no, fewer than AfterMessages packets under   *)
(* the current key have left Encrypt, however many goroutines share the    *)
(* object and whatever they call: NeedsRekey reads a count that Encrypt    *)
(* raises in another section than it seals in, and rotations and           *)
(* handshakes in between reset it.                                         *)
THEOREM UseCounted == Spec => []KeyUseCounted
<1>1. TypeInv /\ OnPath /\ Sound => UseInv
  BY DEF UseInv, Sound
<1>2. Init => PolicySound
  BY DEF Init, PolicySound
<1> QED
  BY <1>1, <1>2, PolicyKept, InitSound, StepSound, CountsSuffice, Types,
     Paths, PTL DEF Spec
-----------------------------------------------------------------------------
(* The bytes: the MAC key goes with the cipher key, they are in place      *)
(* while the lock is free, and no key yet to be made has been zeroed.      *)
BytesSound ==
    /\ macKey = sessionKey
    /\ mu = NoThread => sessionKey \notin wiped
    /\ \A k \in wiped : k[1] <= calls
    /\ sessionKey # Nil => \A k \in wiped : Older(k, sessionKey)
    /\ \A t \in Threads : Pending(t) => \A k \in wiped : k[1] # local[t].call

(* A step without the lock's leave keeps the keys. *)
LEMMA KeysOrLock ==
    ASSUME TypeInv, NEW t \in Threads, Step(t)
    PROVE  \/ UNCHANGED keys /\ (mu' = NoThread => mu = NoThread)
           \/ Derive(t) \/ Install(t) \/ Wipe(t) \/ Forget(t)
           \/ Fresh(t) \/ Fill(t)
BY DEF Step, Payload, Seal, LoadMacKey, CopyKey, CopyData, Hash, Count,
       Open, Verify, Check, Cipher, Expect, Lock, Lookup, Store, LookupInv,
       StoreInv, SetRekeyPolicy, InstallPair, Fatal

(* No step makes a handshake pending. *)
LEMMA PendingKept ==
    ASSUME UseInv, NEW t \in Threads, Step(t)
    PROVE  /\ calls' = calls
           /\ \A u \in Threads :
                 Pending(u)' => Pending(u) /\ local'[u].call = local[u].call
<1> USE DEF UseInv, TypeInv, Shared
<1>1. CASE ~Seal(t) /\ ~Count(t) /\ ~Install(t) /\ ~Forget(t)
           /\ ~Fresh(t) /\ ~Fill(t)
  BY <1>1, QuietSteps DEF Leaves
<1>2. CASE Seal(t)
  BY <1>2 DEF Seal, Return, Goto, Pending, Multiplying, Locals
<1>3. CASE Count(t)
  BY <1>3 DEF Count, Return, Goto, Pending, Multiplying
<1>4. CASE Install(t)
  BY <1>4 DEF Install, Return, Goto, Pending, Multiplying
<1>5. CASE Forget(t)
  BY <1>5 DEF Forget, Return, Goto, Pending, Multiplying
<1>6. CASE Fresh(t)
  BY <1>6 DEF Fresh, Goto, Pending, Multiplying
<1>7. CASE Fill(t)
  BY <1>7 DEF Fill, Return, Goto, Pending, Multiplying
<1> QED
  BY <1>1, <1>2, <1>3, <1>4, <1>5, <1>6, <1>7

(* Every step of a call keeps the bytes sound. *)
LEMMA StepBytes ==
    ASSUME UseInv, BytesSound, NEW t \in Threads, Step(t)
    PROVE  BytesSound'
<1> USE DEF UseInv, TypeInv, Shared
<1>1. /\ calls' = calls
      /\ \A u \in Threads :
            Pending(u)' => Pending(u) /\ local'[u].call = local[u].call
  BY PendingKept
<1>2. CASE UNCHANGED keys /\ (mu' = NoThread => mu = NoThread)
  BY <1>1, <1>2 DEF keys, BytesSound
<1>3. ASSUME UNCHANGED <<sessionKey, macKey>>, mu' = t,
             wiped' = wiped \cup ({macKey} \ {Nil})
      PROVE  BytesSound'
  <2>1. ASSUME NEW k \in wiped', k \notin wiped
        PROVE  /\ k = sessionKey
               /\ sessionKey # Nil
               /\ sessionKey \in Nat \X Nat
    BY <1>3, <2>1, KeyType DEF BytesSound
  <2>2. \A k \in wiped' : k[1] <= calls
    BY <2>1 DEF BytesSound, KeySound
  <2>3. sessionKey # Nil => \A k \in wiped' : Older(k, sessionKey)
    BY <2>1 DEF BytesSound, Older
  <2>4. \A u \in Threads :
           Pending(u)' => \A k \in wiped' : k[1] # local'[u].call
    BY <1>1, <2>1 DEF BytesSound, PendingSound
  <2> QED
    BY <1>1, <1>3, <2>2, <2>3, <2>4, ThreadAssumption DEF BytesSound
<1>4. CASE Derive(t)
  <2>1. \/ UNCHANGED keys /\ UNCHANGED mu
        \/ /\ UNCHANGED <<sessionKey, macKey>>
           /\ mu' = t
           /\ wiped' = wiped \cup {macKey}
           /\ macKey # Nil
    BY <1>4 DEF Derive, keys
  <2> QED
    BY <1>2, <1>3, <2>1
<1>5. CASE Wipe(t)
  BY <1>3, <1>5 DEF Wipe
<1>6. CASE Install(t)
  <2>1. /\ sessionKey' = <<sessionKey[1], rekeyCounter + 1>>
        /\ macKey' = sessionKey'
        /\ wiped' = wiped
        /\ sessionKey # Nil
        /\ mu = t /\ pc[t] = "install"
    BY <1>6 DEF Install, NextKey, Holds
  <2>2. sessionKey \in Nat \X Nat /\ sessionKey[2] = rekeyCounter
    BY <2>1, NoFill, NoKill, KeyType DEF KeySound
  <2>3. \A k \in wiped : k[1] = sessionKey[1] => k[2] <= rekeyCounter
    BY <2>1, <2>2 DEF BytesSound, Older
  <2>4. sessionKey' \notin wiped
    BY <2>1, <2>3
  <2>5. \A k \in wiped : Older(k, sessionKey')
    BY <2>1, <2>2, <2>3 DEF Older
  <2> QED
    BY <1>1, <2>1, <2>4, <2>5 DEF BytesSound
<1>7. CASE Forget(t)
  <2>1. sessionKey' = Nil /\ macKey' = Nil /\ wiped' = wiped
    BY <1>7 DEF Forget
  <2> QED
    BY <1>1, <2>1, ThreadAssumption DEF BytesSound
<1>8. CASE Fresh(t)
  <2>1. /\ sessionKey' = <<local[t].call, 0>>
        /\ macKey' = sessionKey'
        /\ wiped' = wiped \cup {<<local[t].call, 0>>}
        /\ mu' = mu /\ mu = t
        /\ Pending(t) /\ ~Pending(t)'
    BY <1>8 DEF Fresh, Goto, Holds, Pending, OnPath, Path, Stopped,
                Multiplying
  <2>2. /\ local[t].call \in Nat
        /\ local[t].call <= calls
        /\ \A k \in wiped : k[1] # local[t].call
        /\ \A u \in Threads \ {t} :
              Pending(u) => local[u].call # local[t].call
    BY <2>1, LocalFields DEF PendingSound, BytesSound
  <2>3. \A k \in wiped' : k[1] <= calls /\ Older(k, sessionKey')
    BY <2>1, <2>2 DEF BytesSound, Older
  <2>4. \A u \in Threads :
           Pending(u)' => \A k \in wiped' : k[1] # local'[u].call
    BY <1>1, <2>1, <2>2 DEF BytesSound
  <2> QED
    BY <1>1, <2>1, <2>3, <2>4, ThreadAssumption DEF BytesSound
<1>9. CASE Fill(t)
  <2>1. /\ UNCHANGED <<sessionKey, macKey>>
        /\ wiped' = wiped \ {macKey}
    BY <1>9 DEF Fill
  <2> QED
    BY <1>1, <2>1 DEF BytesSound
<1> QED
  BY <1>2, <1>4, <1>5, <1>6, <1>7, <1>8, <1>9, KeysOrLock

(* So does the start of a call. *)
LEMMA CallBytes ==
    ASSUME UseInv, BytesSound, NEW t \in Threads, Call(t)
    PROVE  BytesSound'
<1> USE DEF UseInv, TypeInv, Shared
<1>1. PICK op \in Ops, p \in Incoming : Calls(t, op, p)
  BY CallEffect
<1>2. /\ UNCHANGED <<mu, sessionKey, macKey, wiped>>
      /\ calls' = calls + 1
      /\ \A u \in Threads \ {t} : local'[u] = local[u] /\ pc'[u] = pc[u]
      /\ local'[t].call = calls + 1
  BY <1>1 DEF Calls, keys
<1>3. \A k \in wiped : k[1] \in Nat /\ k[1] <= calls
  BY DEF BytesSound
<1>4. ASSUME NEW u \in Threads, Pending(u)', NEW k \in wiped
      PROVE  k[1] # local'[u].call
  <2>1. CASE u = t
    BY <1>2, <1>3, <2>1
  <2>2. CASE u # t
    BY <1>2, <1>4, <2>2 DEF Pending, BytesSound
  <2> QED
    BY <2>1, <2>2
<1> QED
  BY <1>2, <1>3, <1>4 DEF BytesSound
-----------------------------------------------------------------------------
(* The receiving calls have a packet of the peer. *)
Given(t) == Receiving(t) => local[t].packet \in Incoming

(* What a call that no other has met finds at its places. *)
Relied(t) ==
    /\ pc[t] = "load" /\ Sealing(t) =>
          local[t].gen = sessionKey /\ sessionKey \notin wiped
    /\ pc[t] = "copyKey" /\ Sealing(t) =>
          local[t].ptr = local[t].gen /\ local[t].ptr \notin wiped
    /\ pc[t] = "copyData" /\ Sealing(t) => buf[Buf(t)].key = local[t].gen
    /\ pc[t] = "hash" =>
          buf[Buf(t)] = [key |-> local[t].gen, data |-> local[t].call]
    /\ pc[t] = "count" =>
          local[t].tag = [key |-> local[t].gen, data |-> local[t].call]
    /\ local[t].op = "Rekey" /\ (pc[t] = "seal" \/ Sealing(t)) =>
          local[t].counter = rekeyCounter
    /\ local[t].op = "Rekey" /\ Sealing(t) => local[t].gen = sessionKey
    /\ pc[t] = "copyKey" /\ Receiving(t) => local[t].ptr = sessionKey
    /\ pc[t] \in {"copyData", "verify"} /\ Receiving(t) =>
          buf[Buf(t)].key \in {Nil, sessionKey}
    /\ pc[t] \in {"check", "cipher", "expect"} =>
          local[t].packet.gen = sessionKey
    /\ pc[t] = "derive" =>
          local[t].gen = sessionKey /\ local[t].counter = rekeyCounter

(* The places where nothing is relied on. *)
Elsewhere(t) ==
    /\ pc'[t] \notin {"seal", "load", "copyKey", "copyData", "hash", "count",
                      "verify", "check", "cipher", "expect", "derive"}
    /\ local'[t] = Blank \/ (/\ local'[t].op = local[t].op
                             /\ local'[t].packet = local[t].packet)

(* The steps of the calls that neither send nor receive. *)
LEMMA StepElsewhere ==
    ASSUME TypeInv, NEW t \in Threads, Step(t),
           ~(\/ Payload(t) \/ Seal(t) \/ LoadMacKey(t) \/ CopyKey(t)
             \/ CopyData(t) \/ Hash(t) \/ Count(t) \/ Open(t) \/ Verify(t)
             \/ Check(t) \/ Cipher(t) \/ Expect(t) \/ Derive(t))
    PROVE  Elsewhere(t)
<1> USE DEF TypeInv
<1>1. CASE Install(t)
  BY <1>1 DEF Install, Elsewhere, Goto, Return
<1>2. CASE Wipe(t) \/ Fresh(t)
  BY <1>2 DEF Wipe, Fresh, Elsewhere, Goto
<1>3. CASE Forget(t) \/ Fill(t) \/ SetRekeyPolicy(t) \/ InstallPair(t)
  BY <1>3
     DEF Forget, Fill, SetRekeyPolicy, InstallPair, Elsewhere, Goto, Return
<1>4. CASE Lock(t)
  BY <1>4 DEF Lock, Elsewhere, Goto, Locals
<1>5. CASE Lookup(t) \/ Store(t)
  BY <1>5 DEF Lookup, Store, Fatal, Elsewhere, Goto
<1>6. CASE LookupInv(t) \/ StoreInv(t)
  BY <1>6 DEF LookupInv, StoreInv, Multiplied, Fatal, Elsewhere, Goto
<1> QED
  BY <1>1, <1>2, <1>3, <1>4, <1>5, <1>6 DEF Step

(* The steps of an unmet call leave what the next relies on. *)
LEMMA SelfRelied ==
    ASSUME UseInv, BytesSound, NEW t \in Threads, Given(t), Relied(t), Step(t)
    PROVE  Relied(t)'
<1> USE DEF UseInv, TypeInv, Shared
<1>1. CASE Payload(t)
  BY <1>1
     DEF Payload, Relied, Given, OnPath, Path, Stopped, Multiplying, Sealing,
         Receiving, Goto, Locals, keys, others, exchange
<1>2. CASE Seal(t)
  BY <1>2
     DEF Seal, BytesSound, Relied, Given, OnPath, Path, Stopped, Multiplying,
         Sealing, Receiving, Goto, Return, Blank, Locals, keys, others,
         exchange
<1>3. CASE LoadMacKey(t)
  BY <1>3
     DEF LoadMacKey, BytesSound, Relied, Given, OnPath, Path, Stopped,
         Multiplying, Sealing, Receiving, Goto, Locals, keys, others, exchange
<1>4. CASE CopyKey(t)
  BY <1>4
     DEF CopyKey, Buf, Tags, Relied, Given, OnPath, Path, Stopped,
         Multiplying, Sealing, Receiving, Goto, Locals, keys, exchange
<1>5. CASE CopyData(t)
  BY <1>5
     DEF CopyData, Buf, Tags, Relied, Given, OnPath, Path, Stopped,
         Multiplying, Sealing, Receiving, Goto, Locals, keys, exchange
<1>6. CASE Hash(t)
  BY <1>6
     DEF Hash, Buf, Tags, Relied, Given, OnPath, Path, Stopped, Multiplying,
         Sealing, Receiving, Goto, Locals, keys, others, exchange
<1>7. CASE Count(t)
  BY <1>7
     DEF Count, Relied, Given, OnPath, Path, Stopped, Multiplying, Sealing,
         Receiving, Goto, Return, Blank, Locals, keys, others, exchange
<1>8. CASE Open(t)
  BY <1>8
     DEF Open, Relied, Given, OnPath, Path, Stopped, Multiplying, Sealing,
         Receiving, Goto, Return, Blank, Locals, keys, others, exchange
<1>9. CASE Verify(t)
  <2>1. CASE pc' = [pc EXCEPT ![t] = "check"] /\ UNCHANGED local
    <3>1. /\ buf[Buf(t)] = [key |-> local[t].packet.gen,
                            data |-> local[t].packet.id]
          /\ pc[t] = "verify"
      BY <1>9, <2>1 DEF Verify, Goto, Return
    <3>2. Receiving(t)
      BY <3>1 DEF Receiving, OnPath, Path, Stopped, Multiplying
    <3>3. local[t].packet.gen # Nil
      BY <3>2, ThreadAssumption DEF Given, Packets
    <3>4. local[t].packet.gen = sessionKey
      BY <3>1, <3>2, <3>3 DEF Relied
    <3> QED
      BY <1>9, <2>1, <3>2, <3>4 DEF Verify, Relied, Sealing, Receiving, keys
  <2>2. CASE /\ pc' = [pc EXCEPT ![t] = "load"]
             /\ local' = [local EXCEPT ![t].retried = TRUE]
    <3>1. Receiving(t)' /\ ~Sealing(t)' /\ pc'[t] = "load"
      BY <1>9, <2>2
         DEF Verify, OnPath, Path, Stopped, Multiplying, Receiving, Sealing,
             Locals
    <3> QED
      BY <3>1 DEF Relied, Receiving
  <2>3. CASE Return(t)
    BY <2>3 DEF Return, Goto, Relied, Sealing, Blank
  <2> QED
    BY <1>9, <2>1, <2>2, <2>3 DEF Verify, Goto
<1>10. CASE Check(t)
  BY <1>10
     DEF Check, Relied, Given, OnPath, Path, Stopped, Multiplying, Sealing,
         Receiving, Goto, Return, Blank, Locals, keys, others, exchange
<1>11. CASE Cipher(t)
  BY <1>11
     DEF Cipher, Relied, Given, OnPath, Path, Stopped, Multiplying, Sealing,
         Receiving, Goto, Return, Blank, Locals, keys, others, exchange
<1>12. CASE Expect(t)
  BY <1>12
     DEF Expect, Relied, Given, OnPath, Path, Stopped, Multiplying, Sealing,
         Receiving, Goto, Return, Blank, Locals, keys, others, exchange
<1>13. CASE Derive(t)
  BY <1>13
     DEF Derive, Relied, Given, OnPath, Path, Stopped, Multiplying, Sealing,
         Receiving, Goto, Return, Blank, Locals, others, exchange
<1>14. CASE ~(\/ Payload(t) \/ Seal(t) \/ LoadMacKey(t) \/ CopyKey(t)
             \/ CopyData(t) \/ Hash(t) \/ Count(t) \/ Open(t) \/ Verify(t)
             \/ Check(t) \/ Cipher(t) \/ Expect(t) \/ Derive(t))
  BY <1>14, StepElsewhere
     DEF Relied, Given, Elsewhere, Sealing, Receiving, Blank
<1> QED
  BY <1>1, <1>2, <1>3, <1>4, <1>5, <1>6, <1>7, <1>8, <1>9, <1>10, <1>11,
     <1>12, <1>13, <1>14

(* A call keeps its packet. *)
LEMMA SelfGiven ==
    ASSUME TypeInv, NEW t \in Threads, Given(t), Step(t)
    PROVE  Given(t)'
<1> USE DEF TypeInv, Given, Receiving
<1>1. CASE Payload(t)
  BY <1>1 DEF Payload, Locals
<1>2. CASE Seal(t)
  BY <1>2 DEF Seal, Return, Blank, Locals
<1>3. CASE LoadMacKey(t)
  BY <1>3 DEF LoadMacKey, Locals
<1>4. CASE CopyKey(t)
  BY <1>4 DEF CopyKey, Locals
<1>5. CASE CopyData(t)
  BY <1>5 DEF CopyData, Locals
<1>6. CASE Hash(t)
  BY <1>6 DEF Hash, Locals
<1>7. CASE Count(t)
  BY <1>7 DEF Count, Return, Blank, Locals
<1>8. CASE Open(t)
  BY <1>8 DEF Open, Return, Blank, Locals
<1>9. CASE Verify(t)
  BY <1>9 DEF Verify, Return, Blank, Locals
<1>10. CASE Check(t)
  BY <1>10 DEF Check, Return, Blank, Locals
<1>11. CASE Cipher(t)
  BY <1>11 DEF Cipher, Return, Blank, Locals
<1>12. CASE Expect(t)
  BY <1>12 DEF Expect, Return, Blank, Locals
<1>13. CASE Derive(t)
  BY <1>13 DEF Derive, Return, Blank, Locals
<1>14. CASE ~(\/ Payload(t) \/ Seal(t) \/ LoadMacKey(t) \/ CopyKey(t)
             \/ CopyData(t) \/ Hash(t) \/ Count(t) \/ Open(t) \/ Verify(t)
             \/ Check(t) \/ Cipher(t) \/ Expect(t) \/ Derive(t))
  BY <1>14, StepElsewhere DEF Elsewhere, Blank
<1> QED
  BY <1>1, <1>2, <1>3, <1>4, <1>5, <1>6, <1>7, <1>8, <1>9, <1>10, <1>11,
     <1>12, <1>13, <1>14

(* A call that a step does not meet finds everything as it was. *)
LEMMA OthersRelied ==
    ASSUME TypeInv, NEW t \in Threads, Step(t),
           NEW u \in Threads \ {t}, OnPath, Relied(u), ~Disturbs(t, u)
    PROVE  Relied(u)'
<1> USE DEF TypeInv, Shared
<1>1. /\ local'[u] = local[u]
      /\ pc'[u] = pc[u] \/ pc'[u] = "killed"
  BY StepMoves DEF Moves, Fatal
<1>2. CASE pc'[u] = "killed"
  BY <1>2 DEF Relied, Sealing
<1>3. CASE pc'[u] = pc[u]
  <2>1. UsesKeys(u) => UNCHANGED <<sessionKey, macKey, wiped, rekeyCounter>>
    BY DEF Disturbs, keys
  <2>2. UsesBuf(u) => buf'[Buf(u)] = buf[Buf(u)]
    BY BufsKept DEF Disturbs, Buf
  <2>3. /\ pc[u] \in {"load", "copyKey"} /\ Sealing(u) => UsesKeys(u)
        /\ local[u].op = "Rekey" /\ (pc[u] = "seal" \/ Sealing(u))
              => UsesKeys(u)
        /\ pc[u] \in {"copyKey", "copyData", "verify"} /\ Receiving(u)
              => UsesKeys(u)
        /\ pc[u] \in {"check", "cipher", "expect", "derive"} => UsesKeys(u)
        /\ pc[u] \in {"copyData", "hash", "verify"} => UsesBuf(u)
    BY DEF OnPath, Path, Stopped, Multiplying, Sealing, Receiving, UsesKeys,
           UsesBuf
  <2> QED
    BY <1>1, <1>3, <2>1, <2>2, <2>3 DEF Relied, Sealing, Receiving
<1> QED
  BY <1>1, <1>2, <1>3

(* A new call relies on nothing yet, and disturbs no other. *)
LEMMA CallRelied ==
    ASSUME UseInv, NEW t \in Threads, Call(t)
    PROVE  /\ \A u \in Threads : Given(u) => Given(u)'
           /\ \A u \in Threads : u = t \/ Relied(u) => Relied(u)'
<1> USE DEF UseInv, TypeInv, Shared
<1>1. PICK op \in Ops, p \in Incoming : Calls(t, op, p)
  BY CallEffect
<1>2. /\ UNCHANGED <<sessionKey, macKey, wiped, rekeyCounter, buf>>
      /\ \A u \in Threads \ {t} : local'[u] = local[u] /\ pc'[u] = pc[u]
      /\ pc'[t] = Entry(op)
      /\ local'[t].op = op
      /\ Entry(op) = "open" => local'[t].packet = p
  BY <1>1 DEF Calls, keys, others
<1>3. /\ op \in {"Decrypt", "ApplyRekey"} => Entry(op) = "open"
      /\ op = "Rekey" => Entry(op) = "payload"
      /\ Entry(op) \in {"payload", "seal", "open", "wipe", "policy",
                        "lookup", "lock"}
  BY ThreadAssumption DEF Entry
<1>4. Given(t)' /\ Relied(t)'
  BY <1>2, <1>3 DEF Given, Relied, Sealing, Receiving
<1>5. \A u \in Threads \ {t} :
         /\ Given(u) => Given(u)'
         /\ Relied(u) => Relied(u)'
  BY <1>2 DEF Given, Relied, Sealing, Receiving
<1> QED
  BY <1>4, <1>5
-----------------------------------------------------------------------------
(* The history variable takes no behaviour away and adds none. *)
THEOREM OverlapIsSpec == OverlapSpec => Spec
<1>1. OverlapInit => Init
  BY DEF OverlapInit
<1>2. [OverlapNext]_overlapVars => [Next]_vars
  BY DEF OverlapNext, OverlapStep, Next, overlapVars
<1> QED
  BY <1>1, <1>2, PTL DEF OverlapSpec, Spec

(* The calls that no change has met are in order. *)
OverlapInv ==
    /\ BytesSound
    /\ \A t \in Threads : Given(t)
    /\ \A t \in Threads : local[t].call \notin met => Relied(t)

(* It is so at the start. *)
LEMMA InitOverlap == OverlapInit => OverlapInv
<1> SUFFICES ASSUME OverlapInit PROVE OverlapInv
  OBVIOUS
<1>1. BytesSound
  BY ThreadAssumption
     DEF OverlapInit, Init, BytesSound, Pending, Multiplying
<1> QED
  BY <1>1
     DEF OverlapInit, Init, OverlapInv, Given, Relied, Receiving, Sealing,
         Blank

(* A step that returns or goes on keeps its call's number. *)
LEMMA StepCall ==
    ASSUME TypeInv, NEW t \in Threads, Step(t)
    PROVE  local'[t].call = local[t].call \/ local'[t] = Blank
BY DEF TypeInv, Locals, Step, Payload, Seal, LoadMacKey, CopyKey, CopyData,
       Hash, Count, Open, Verify, Check, Cipher, Expect, Derive, Install,
       Wipe, Forget, Lock, Lookup, Store, LookupInv, StoreInv,
       SetRekeyPolicy, InstallPair, Fresh, Fill, Fatal, Return

(* A thread that has returned relies on nothing. *)
LEMMA StepBlank ==
    ASSUME UseInv, NEW t \in Threads, Step(t), local'[t] = Blank
    PROVE  Relied(t)'
<1>1. OnPath'
  BY StepOnPath DEF UseInv
<1>2. pc'[t] \in Stopped
  BY <1>1 DEF OnPath, Path, Blank
<1> QED
  BY <1>2 DEF Relied, Stopped, Sealing, Blank

(* It stays so. *)
LEMMA StepOverlap ==
    UseInv /\ OverlapInv /\ [OverlapNext]_overlapVars => OverlapInv'
<1> SUFFICES ASSUME UseInv, OverlapInv, [OverlapNext]_overlapVars
             PROVE  OverlapInv'
  OBVIOUS
<1> USE DEF OverlapInv
<1>1. CASE UNCHANGED overlapVars
  BY <1>1
     DEF overlapVars, vars, keys, others, BytesSound, Pending, Older, Given,
         Relied, Sealing, Receiving
<1>2. ASSUME NEW t \in Threads, Call(t), OverlapStep(t) PROVE OverlapInv'
  <2>1. ASSUME NEW u \in Threads, local'[u].call \notin met'
        PROVE  Relied(u)'
    <3>1. u = t \/ local'[u].call = local[u].call
      BY <1>2, CallEffect DEF Calls, UseInv
    <3>2. met \subseteq met'
      BY <1>2 DEF OverlapStep
    <3> QED
      BY <1>2, <2>1, <3>1, <3>2, CallRelied
  <2> QED
    BY <1>2, <2>1, CallBytes, CallRelied
<1>3. ASSUME NEW t \in Threads, Step(t), OverlapStep(t) PROVE OverlapInv'
  <2>1. Moves(t)
    BY <1>3, StepMoves DEF UseInv
  <2>2. met' = met \cup
                 {local[u].call : u \in {v \in Threads : Disturbs(t, v)}}
    BY <1>3 DEF OverlapStep
  <2>3. Relied(t)' \/ local'[t].call \in met'
    <3>1. CASE local'[t] = Blank
      BY <1>3, <2>2, <3>1, StepBlank DEF UseInv
    <3>2. CASE local'[t].call = local[t].call
      BY <1>3, <2>2, <3>2, SelfRelied
    <3> QED
      BY <1>3, <3>1, <3>2, StepCall DEF UseInv
  <2>4. ASSUME NEW u \in Threads \ {t}, local'[u].call \notin met'
        PROVE  Relied(u)'
    <3>1. local'[u] = local[u]
      BY <2>1 DEF Moves
    <3>2. ~Disturbs(t, u) /\ local[u].call \notin met
      BY <2>2, <2>4, <3>1
    <3> QED
      BY <1>3, <3>2, OthersRelied DEF UseInv
  <2>5. \A u \in Threads : Given(u)'
    <3>1. Given(t)'
      BY <1>3, SelfGiven DEF UseInv
    <3> QED
      BY <2>1, <3>1 DEF Moves, Given, Receiving
  <2> QED
    BY <1>3, <2>3, <2>4, <2>5, StepBytes
<1> QED
  BY <1>1, <1>2, <1>3 DEF OverlapNext, OverlapStep, Done, overlapVars

(* The invariant holds throughout. *)
THEOREM Overlaps == OverlapSpec => [](UseInv /\ OverlapInv)
<1>1. TypeInv /\ OnPath /\ Sound => UseInv
  BY DEF UseInv, Sound
<1>2. Spec => []UseInv
  BY <1>1, InitSound, StepSound, Types, Paths, PTL DEF Spec
<1> QED
  BY <1>2, OverlapIsSpec, InitOverlap, StepOverlap, PTL DEF OverlapSpec

(* Each history grows in one place. *)
LEMMA HistorySteps ==
    ASSUME NEW t \in Threads, Call(t) \/ Step(t)
    PROVE  /\ UNCHANGED sent \/ Count(t)
           /\ UNCHANGED opened \/ Cipher(t)
           /\ UNCHANGED rotations \/ Derive(t)
<1>1. CASE Call(t) \/ Payload(t) \/ Seal(t) \/ LoadMacKey(t) \/ CopyKey(t)
           \/ CopyData(t) \/ Hash(t) \/ Count(t)
  BY <1>1 DEF Call, Payload, Seal, LoadMacKey, CopyKey, CopyData, Hash,
              Count, history
<1>2. CASE Open(t) \/ Verify(t) \/ Check(t) \/ Cipher(t) \/ Expect(t)
           \/ Derive(t) \/ Install(t) \/ Wipe(t) \/ Forget(t)
  BY <1>2 DEF Open, Verify, Check, Cipher, Expect, Derive, Install, Wipe,
              Forget, history
<1>3. CASE Lock(t) \/ Lookup(t) \/ Store(t) \/ LookupInv(t) \/ StoreInv(t)
           \/ SetRekeyPolicy(t) \/ InstallPair(t) \/ Fresh(t) \/ Fill(t)
  BY <1>3 DEF Lock, Lookup, Store, LookupInv, StoreInv, SetRekeyPolicy,
              InstallPair, Fresh, Fill, Fatal, history
<1> QED
  BY <1>1, <1>2, <1>3 DEF Step

(* With any number of goroutines, any MAC and no discipline, what Encrypt  *)
(* returns can be opened, unless another call changed the keys between its *)
(* sealing and its MAC, or used the MAC's buffer.                          *)
THEOREM PacketsIntact == OverlapSpec => []PacketIntact
<1>1. OverlapInit => PacketIntact
  BY DEF OverlapInit, Init, PacketIntact
<1>2. /\ UseInv /\ OverlapInv /\ PacketIntact
      /\ [OverlapNext]_overlapVars
      => PacketIntact'
  <2> SUFFICES ASSUME UseInv, OverlapInv, PacketIntact,
                      [OverlapNext]_overlapVars
               PROVE  PacketIntact'
    OBVIOUS
  <2>1. met \subseteq met'
    BY DEF OverlapNext, OverlapStep, overlapVars
  <2>2. CASE UNCHANGED sent
    BY <2>1, <2>2 DEF PacketIntact
  <2>3. ASSUME NEW t \in Threads, Count(t) PROVE PacketIntact'
    <3>1. /\ sent' = sent \cup
                {[call |-> local[t].call, seq |-> local[t].seq,
                  gen |-> local[t].gen, tag |-> local[t].tag]}
          /\ pc[t] = "count"
      BY <2>3 DEF Count
    <3>2. local[t].call \notin met =>
             local[t].tag = [key |-> local[t].gen, data |-> local[t].call]
      BY <3>1 DEF OverlapInv, Relied
    <3>3. ASSUME NEW m \in sent', m \notin sent, m.call \notin met'
          PROVE  m.tag = [key |-> m.gen, data |-> m.call]
      <4>1. /\ m.tag = local[t].tag
            /\ m.gen = local[t].gen
            /\ m.call = local[t].call
        BY <3>1, <3>3
      <4> QED
        BY <2>1, <3>2, <3>3, <4>1
    <3> QED
      BY <2>1, <3>3 DEF PacketIntact
  <2>4. UNCHANGED sent \/ \E t \in Threads : Count(t)
    BY HistorySteps
       DEF OverlapNext, OverlapStep, Done, overlapVars, vars, history
  <2> QED
    BY <2>2, <2>3, <2>4
<1> QED
  BY <1>1, <1>2, Overlaps, PTL DEF OverlapSpec

(* Under the same conditions, what Decrypt returns was decrypted with the  *)
(* key its MAC was verified under, unless the keys changed in between.     *)
THEOREM PlaintextsIntact == OverlapSpec => []PlaintextIntact
<1>1. OverlapInit => PlaintextIntact
  BY DEF OverlapInit, Init, PlaintextIntact
<1>2. /\ UseInv /\ OverlapInv /\ PlaintextIntact
      /\ [OverlapNext]_overlapVars
      => PlaintextIntact'
  <2> SUFFICES ASSUME UseInv, OverlapInv, PlaintextIntact,
                      [OverlapNext]_overlapVars
               PROVE  PlaintextIntact'
    OBVIOUS
  <2>1. met \subseteq met'
    BY DEF OverlapNext, OverlapStep, overlapVars
  <2>2. CASE UNCHANGED opened
    BY <2>1, <2>2 DEF PlaintextIntact
  <2>3. ASSUME NEW t \in Threads, Cipher(t), ~UNCHANGED opened
        PROVE  PlaintextIntact'
    <3>1. /\ opened' = opened \cup
                {[call |-> local[t].call, packet |-> local[t].packet,
                  gen |-> sessionKey]}
          /\ pc[t] = "cipher"
      BY <2>3 DEF Cipher
    <3>2. local[t].call \notin met => local[t].packet.gen = sessionKey
      BY <3>1 DEF OverlapInv, Relied
    <3> QED
      BY <2>1, <3>1, <3>2 DEF PlaintextIntact
  <2>4. UNCHANGED opened \/ \E t \in Threads : Cipher(t)
    BY HistorySteps
       DEF OverlapNext, OverlapStep, Done, overlapVars, vars, history
  <2> QED
    BY <2>2, <2>3, <2>4
<1> QED
  BY <1>1, <1>2, Overlaps, PTL DEF OverlapSpec

(* Under the same conditions, a rotation derives from the keys and the     *)
(* counter of its token, as the other end will, unless another call        *)
(* changed the keys between the first of its sections and the last.        *)
THEOREM RotationsIntact == OverlapSpec => []RotationIntact
<1>1. OverlapInit => RotationIntact
  BY DEF OverlapInit, Init, RotationIntact
<1>2. /\ UseInv /\ OverlapInv /\ RotationIntact
      /\ [OverlapNext]_overlapVars
      => RotationIntact'
  <2> SUFFICES ASSUME UseInv, OverlapInv, RotationIntact,
                      [OverlapNext]_overlapVars
               PROVE  RotationIntact'
    OBVIOUS
  <2>1. met \subseteq met'
    BY DEF OverlapNext, OverlapStep, overlapVars
  <2>2. CASE UNCHANGED rotations
    BY <2>1, <2>2 DEF RotationIntact
  <2>3. ASSUME NEW t \in Threads, Derive(t), ~UNCHANGED rotations
        PROVE  RotationIntact'
    <3>1. /\ rotations' = rotations \cup
                {[call |-> local[t].call,
                  token |-> <<local[t].gen, local[t].counter>>,
                  from |-> <<sessionKey, rekeyCounter>>]}
          /\ pc[t] = "derive"
      BY <2>3 DEF Derive
    <3>2. local[t].call \notin met =>
             local[t].gen = sessionKey /\ local[t].counter = rekeyCounter
      BY <3>1 DEF OverlapInv, Relied
    <3> QED
      BY <2>1, <3>1, <3>2 DEF RotationIntact
  <2>4. UNCHANGED rotations \/ \E t \in Threads : Derive(t)
    BY HistorySteps
       DEF OverlapNext, OverlapStep, Done, overlapVars, vars, history
  <2> QED
    BY <2>2, <2>3, <2>4
<1> QED
  BY <1>1, <1>2, Overlaps, PTL DEF OverlapSpec
=============================================================================

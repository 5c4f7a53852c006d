--------------------------- MODULE KeystreamProofs ---------------------------
(***************************************************************************)
(* The lazy keystream implements a cursor over one stream, whatever the    *)
(* block size, the width of the block counter, the limits of the cache and *)
(* the choice of the blocks it loses.                                      *)
(***************************************************************************)
EXTENDS Keystream, FiniteSetTheorems, SequenceTheorems, TLAPS

Stream(offset, length) == Promise!Stream(offset, length)

(* Euclidean division is unique. *)
LEMMA Remainder ==
    ASSUME NEW p \in Nat \ {0}, NEW q \in Nat, NEW r \in Nat, r < p
    PROVE  /\ (q * p + r) % p = r
           /\ (q * p + r) \div p = q
<1> DEFINE a == q * p + r
           d == a \div p
           s == a % p
<1>1. a \in Nat
  OBVIOUS
<1>2. a = d * p + s /\ d \in Nat /\ s \in 0 .. p - 1
  BY <1>1
<1> HIDE DEF d, s
<1>3. d < q + 1
  <2> SUFFICES ASSUME d >= q + 1 PROVE FALSE
    BY <1>2
  <2>1. d * p >= (q + 1) * p
    BY <1>2
  <2> QED
    BY <1>2, <2>1
<1>4. q < d + 1
  <2> SUFFICES ASSUME q >= d + 1 PROVE FALSE
    BY <1>2
  <2>1. q * p >= (d + 1) * p
    BY <1>2
  <2> QED
    BY <1>2, <2>1
<1> QED
  BY <1>2, <1>3, <1>4 DEF d, s

(* A key and a counter give a period that is not empty. *)
LEMMA PeriodPositive == Period \in Nat \ {0}
BY SizesAssumption DEF Period

(* Byte o of the block with index idx is byte idx * BlockSize + o of the   *)
(* stream, before and after the block counter wraps.                       *)
LEMMA BlockByte ==
    ASSUME NEW idx \in Nat, NEW o \in 0 .. BlockSize - 1
    PROVE  (idx * BlockSize + o) % Period = (idx % CounterMod) * BlockSize + o
<1> DEFINE q == idx \div CounterMod
           r == idx % CounterMod
           s == r * BlockSize + o
<1>1. BlockSize \in Nat /\ CounterMod \in Nat \ {0} /\ o \in Nat
  BY SizesAssumption
<1>2. idx = q * CounterMod + r /\ q \in Nat /\ r \in 0 .. CounterMod - 1
  BY <1>1
<1> HIDE DEF q, r
<1>3. idx * BlockSize + o = q * Period + s
  BY <1>1, <1>2 DEF Period
<1>4. s \in Nat /\ s < Period
  <2>1. (r + 1) * BlockSize <= CounterMod * BlockSize
    BY <1>1, <1>2
  <2> QED
    BY <1>1, <1>2, <2>1 DEF Period
<1> HIDE DEF s
<1>5. (q * Period + s) % Period = s
  BY <1>2, <1>4, PeriodPositive, Remainder
<1> QED
  BY <1>3, <1>5 DEF s, r

(* The loop of GetBytes: what has been copied so far is the stream from    *)
(* where the call began, and the rest is still wanted.                     *)
Reading(start, length) ==
    /\ start \in Nat /\ length \in Lengths
    /\ start <= call.cur
    /\ call.cur + call.remaining = start + length
    /\ call.out = Stream(start, call.cur - start)
    /\ \/ call.advance = 0 /\ start \in Offsets
       \/ call.advance = length /\ start = position

Calls == [running : BOOLEAN, cur : Nat, remaining : Nat,
          out : Seq(0 .. Period - 1), advance : Nat]

(* The inductive invariant. *)
Inv ==
    /\ position \in Nat
    /\ Cached \subseteq Nat /\ IsFiniteSet(Cached)
    /\ maxCache \in Int
    /\ iter \in Nat \cup {-1}
    /\ result \in Seq(0 .. Period - 1)
    /\ call \in Calls
    /\ CacheCoherent
    /\ call.running => \E start, length \in Nat : Reading(start, length)

(* A piece of the stream is made of its bytes. *)
LEMMA StreamBytes ==
    ASSUME NEW offset \in Nat, NEW length \in Nat
    PROVE  /\ Stream(offset, length) \in Seq(0 .. Period - 1)
           /\ Len(Stream(offset, length)) = length
           /\ \A i \in 1 .. length :
                 Stream(offset, length)[i] = (offset + i - 1) % Period
<1>1. \A i \in 1 .. length : (offset + i - 1) % Period \in 0 .. Period - 1
  BY PeriodPositive
<1> QED
  BY <1>1 DEF Stream, Promise!Stream

(* A block is a stretch of the stream. *)
LEMMA BlockIsStream ==
    ASSUME NEW idx \in Nat
    PROVE  Gen(idx) = Stream(idx * BlockSize, BlockSize)
<1>1. BlockSize \in Nat
  BY SizesAssumption
<1>2. ASSUME NEW i \in 1 .. BlockSize
      PROVE  (idx * BlockSize + i - 1) % Period
                = (idx % CounterMod) * BlockSize + i - 1
  <2>1. i - 1 \in 0 .. BlockSize - 1
    BY <1>1
  <2>2. (idx * BlockSize + (i - 1)) % Period
          = (idx % CounterMod) * BlockSize + (i - 1)
    BY <2>1, BlockByte
  <2>3. idx * BlockSize \in Nat /\ (idx % CounterMod) * BlockSize \in Nat
    BY SizesAssumption
  <2>4. /\ idx * BlockSize + (i - 1) = idx * BlockSize + i - 1
        /\ (idx % CounterMod) * BlockSize + (i - 1)
             = (idx % CounterMod) * BlockSize + i - 1
    BY <1>1, <2>3
  <2> QED
    BY <2>2, <2>4
<1> QED
  BY <1>2 DEF Gen, Stream, Promise!Stream

(* Appending the rest of a block, or part of it, goes on with the stream.  *)
LEMMA Extend ==
    ASSUME NEW start \in Nat, NEW cur \in Nat, NEW take \in Nat,
           start <= cur,
           take <= BlockSize - (cur % BlockSize)
    PROVE  Stream(start, cur - start)
             \o Slice(Gen(cur \div BlockSize), cur % BlockSize, take)
             = Stream(start, cur + take - start)
<1> DEFINE idx == cur \div BlockSize
           off == cur % BlockSize
<1>1. BlockSize \in Nat \ {0}
  BY SizesAssumption
<1>2. cur = idx * BlockSize + off /\ idx \in Nat /\ off \in 0 .. BlockSize - 1
  BY <1>1
<1>3. take <= BlockSize - off
  OBVIOUS
<1> HIDE DEF idx, off
<1>4. /\ Gen(idx) \in Seq(0 .. Period - 1) /\ Len(Gen(idx)) = BlockSize
      /\ \A i \in 1 .. BlockSize :
            Gen(idx)[i] = (idx * BlockSize + i - 1) % Period
  <2>1. idx * BlockSize \in Nat
    BY <1>1, <1>2
  <2>2. Gen(idx) = Stream(idx * BlockSize, BlockSize)
    BY <1>2, BlockIsStream
  <2> DEFINE base == idx * BlockSize
             bytes == Stream(base, BlockSize)
  <2>3. /\ bytes \in Seq(0 .. Period - 1) /\ Len(bytes) = BlockSize
        /\ \A i \in 1 .. BlockSize : bytes[i] = (base + i - 1) % Period
    <3> HIDE DEF base
    <3> QED
      BY <1>1, <2>1, StreamBytes DEF base
  <2> QED
    BY <2>2, <2>3
<1> DEFINE part == Slice(Gen(idx), off, take)
<1>5. /\ part \in Seq(0 .. Period - 1) /\ Len(part) = take
      /\ \A i \in 1 .. take : part[i] = (cur + i - 1) % Period
  <2>1. \A i \in off + 1 .. off + take : Gen(idx)[i] \in 0 .. Period - 1
    <3> SUFFICES ASSUME NEW i \in off + 1 .. off + take
                 PROVE  Gen(idx)[i] \in 0 .. Period - 1
      OBVIOUS
    <3>1. i \in 1 .. Len(Gen(idx))
      BY <1>1, <1>2, <1>3, <1>4
    <3> QED
      BY <1>4, <3>1, ElementOfSeq
  <2>2. /\ part \in Seq(0 .. Period - 1) /\ Len(part) = take
        /\ \A i \in 1 .. take : part[i] = Gen(idx)[(off + 1) + i - 1]
    <3>1. off + 1 \in Int /\ off + take \in Int
      BY <1>2
    <3>2. (off + take) - (off + 1) + 1 = take
      BY <1>2
    <3>3. /\ part \in Seq(0 .. Period - 1)
          /\ Len(part) = IF off + 1 <= off + take
                           THEN (off + take) - (off + 1) + 1 ELSE 0
          /\ \A i \in 1 .. (off + take) - (off + 1) + 1 :
                part[i] = Gen(idx)[(off + 1) + i - 1]
      BY <2>1, <3>1, SubSeqProperties DEF Slice
    <3> QED
      BY <1>2, <3>2, <3>3
  <2>3. ASSUME NEW i \in 1 .. take
        PROVE  part[i] = (cur + i - 1) % Period
    <3>1. off + i \in 1 .. BlockSize /\ (off + 1) + i - 1 = off + i
      BY <1>1, <1>2, <1>3
    <3>2. idx * BlockSize \in Nat
      BY <1>1, <1>2
    <3>3. idx * BlockSize + (off + i) - 1 = cur + i - 1
      BY <1>2, <3>2
    <3>4. part[i] = Gen(idx)[off + i]
      BY <2>2, <3>1
    <3> QED
      BY <1>4, <3>1, <3>3, <3>4
  <2> QED
    BY <2>2, <2>3
<1> HIDE DEF part
<1> DEFINE old == Stream(start, cur - start)
           new == Stream(start, cur + take - start)
           both == old \o part
<1>6. /\ old \in Seq(0 .. Period - 1) /\ Len(old) = cur - start
      /\ \A i \in 1 .. cur - start : old[i] = (start + i - 1) % Period
  <2>1. cur - start \in Nat
    OBVIOUS
  <2> QED
    BY <2>1, StreamBytes
<1>7. /\ new \in Seq(0 .. Period - 1) /\ Len(new) = cur + take - start
      /\ \A i \in 1 .. cur + take - start : new[i] = (start + i - 1) % Period
  <2>1. cur + take - start \in Nat
    OBVIOUS
  <2> QED
    BY <2>1, StreamBytes
<1> HIDE DEF old, new
<1>8. /\ both \in Seq(0 .. Period - 1)
      /\ Len(both) = cur - start + take
      /\ \A i \in 1 .. cur - start + take :
            both[i] = IF i <= cur - start
                                 THEN old[i] ELSE part[i - (cur - start)]
  <2>1. /\ both \in Seq(0 .. Period - 1)
        /\ Len(both) = Len(old) + Len(part)
        /\ \A i \in 1 .. Len(old) + Len(part) :
              both[i] = IF i <= Len(old) THEN old[i] ELSE part[i - Len(old)]
    BY <1>5, <1>6, ConcatProperties
  <2> QED
    BY <1>5, <1>6, <2>1
<1> HIDE DEF both
<1>9. ASSUME NEW i \in 1 .. cur + take - start
      PROVE  both[i] = new[i]
  <2>1. CASE i <= cur - start
    BY <1>6, <1>7, <1>8, <2>1
  <2>2. CASE i > cur - start
    <3> DEFINE j == i - (cur - start)
    <3>1. j \in 1 .. take /\ cur + j - 1 = start + i - 1
      BY <2>2
    <3>2. both[i] = part[j]
      BY <1>8, <2>2
    <3> HIDE DEF j
    <3>3. part[j] = (start + i - 1) % Period
      BY <1>5, <3>1
    <3> QED
      BY <1>7, <3>2, <3>3
  <2> QED
    BY <2>1, <2>2
<1>10. both = new
  <2>1. Len(both) = Len(new)
    BY <1>7, <1>8
  <2>2. \A i \in 1 .. Len(both) : both[i] = new[i]
    BY <1>8, <1>9
  <2> QED
    BY <1>7, <1>8, <2>1, <2>2, SeqEqual
<1> QED
  BY <1>10 DEF both, part, old, new, idx, off

(* A block is the same from the cache as from the generator, and looking   *)
(* it up leaves a coherent cache that has grown by one block only when     *)
(* there was room for it.                                                  *)
LEMMA Lookup ==
    ASSUME Cached \subseteq Nat, IsFiniteSet(Cached), CacheCoherent,
           maxCache \in Int, NEW idx \in Nat, GetBlock(idx, BlockAt(idx))
    PROVE  /\ BlockAt(idx) = Gen(idx)
           /\ Cached' \subseteq Nat /\ IsFiniteSet(Cached') /\ CacheCoherent'
           /\ Cardinality(Cached') > Cardinality(Cached)
                => Cardinality(Cached') <= IF maxCache < 1 THEN 1 ELSE maxCache
<1>1. BlockAt(idx) = Gen(idx)
  BY DEF BlockAt, CacheCoherent
<1>2. CASE idx \in Cached /\ UNCHANGED cachedBlocks
  <2>1. Cached' = Cached /\ CacheCoherent'
    BY <1>2 DEF Cached, CacheCoherent, Gen
  <2>2. Cardinality(Cached) \in Nat
    BY FS_CardinalityType
  <2> QED
    BY <1>1, <2>1, <2>2
<1>3. CASE /\ idx \notin Cached
           /\ ~(Cardinality(Cached) >= maxCache /\ Cached # {})
           /\ cachedBlocks' = Put(cachedBlocks, idx, Gen(idx))
  <2>1. Cached' = Cached \cup {idx} /\ CacheCoherent'
    BY <1>3 DEF Cached, CacheCoherent, Put, Gen
  <2>2. /\ IsFiniteSet(Cached')
        /\ Cardinality(Cached) \in Nat
        /\ Cardinality(Cached') = Cardinality(Cached) + 1
    BY <1>3, <2>1, FS_CardinalityType, FS_AddElement
  <2>3. Cached = {} => Cardinality(Cached) = 0
    BY FS_EmptySet
  <2> QED
    BY <1>1, <1>3, <2>1, <2>2, <2>3
<1>4. CASE /\ idx \notin Cached
           /\ \E k \in Cached :
                 cachedBlocks' = Put(Without(cachedBlocks, k), idx, Gen(idx))
  <2>1. PICK k \in Cached :
           cachedBlocks' = Put(Without(cachedBlocks, k), idx, Gen(idx))
    BY <1>4
  <2> DEFINE kept == Without(cachedBlocks, k)
             rest == Cached \ {k}
  <2>2. Cached' = rest \cup {idx} /\ CacheCoherent'
    <3>1. /\ DOMAIN kept = rest
          /\ \A i \in rest : kept[i] = Gen(i)
      BY DEF Cached, CacheCoherent, Without
    <3>2. /\ Cached' = DOMAIN kept \cup {idx}
          /\ \A i \in Cached' :
                cachedBlocks'[i] = IF i = idx THEN Gen(idx) ELSE kept[i]
      <4> HIDE DEF kept
      <4> QED
        BY <2>1 DEF Cached, Put, kept
    <3> QED
      BY <3>1, <3>2 DEF CacheCoherent, Gen
  <2>3. /\ IsFiniteSet(rest)
        /\ Cardinality(Cached) \in Nat
        /\ Cardinality(rest) = Cardinality(Cached) - 1
    BY <2>1, FS_CardinalityType, FS_RemoveElement
  <2> HIDE DEF rest
  <2>4. /\ IsFiniteSet(Cached')
        /\ Cardinality(Cached') = Cardinality(Cached)
    <3>1. idx \notin rest
      BY <1>4 DEF rest
    <3>2. /\ IsFiniteSet(rest \cup {idx})
          /\ Cardinality(rest \cup {idx}) = Cardinality(rest) + 1
      BY <2>3, <3>1, FS_AddElement
    <3> QED
      BY <2>2, <2>3, <3>2
  <2>5. Cached' \subseteq Nat
    BY <2>2 DEF rest
  <2> QED
    BY <1>1, <2>2, <2>3, <2>4, <2>5
<1> QED
  BY <1>1, <1>2, <1>3, <1>4 DEF GetBlock

(* The invariant holds at the start. *)
LEMMA InitInv == Init => Inv
<1> SUFFICES ASSUME Init PROVE Inv
  OBVIOUS
<1>1. Cached = {} /\ IsFiniteSet(Cached)
  BY FS_EmptySet DEF Init, Cached
<1>2. <<>> \in Seq(0 .. Period - 1)
  BY EmptySeq
<1> QED
  BY <1>1, <1>2, SizesAssumption DEF Init, Inv, Calls, Idle, CacheCoherent

(* Calls that touch neither the cache nor a read in progress. *)
LEMMA BeginInv ==
    ASSUME Inv, NEW offset \in Nat, NEW n \in Lengths, NEW advance \in Nat,
           \/ advance = 0 /\ offset \in Offsets
           \/ advance = n /\ offset = position,
           Begin(offset, n, advance)
    PROVE  Inv'
<1>1. n \in Nat
  BY SizesAssumption
<1>2. /\ position' = position /\ cachedBlocks' = cachedBlocks
      /\ maxCache' = maxCache /\ iter' = iter /\ result' = result
      /\ call' = [running |-> TRUE, cur |-> offset, remaining |-> n,
                  out |-> <<>>, advance |-> advance]
  BY DEF Begin
<1>3. <<>> \in Seq(0 .. Period - 1)
  BY EmptySeq
<1>4. call' \in Calls
  BY <1>1, <1>2, <1>3 DEF Calls
<1>5. Stream(offset, offset - offset) = <<>>
  <2>1. offset - offset = 0
    OBVIOUS
  <2>2. /\ Len(Stream(offset, 0)) = 0
        /\ Stream(offset, 0) \in Seq(0 .. Period - 1)
    BY StreamBytes
  <2> QED
    BY <2>1, <2>2, EmptySeq
<1>6. Reading(offset, n)'
  BY <1>1, <1>2, <1>5 DEF Reading, Stream, Promise!Stream
<1>7. Cached' = Cached /\ CacheCoherent'
  BY <1>2 DEF Inv, Cached, CacheCoherent, Gen
<1> QED
  BY <1>1, <1>2, <1>4, <1>6, <1>7 DEF Inv

(* readAt keeps the invariant. *)
LEMMA CopyBlockInv ==
    ASSUME Inv, CopyBlock
    PROVE  /\ Inv'
           /\ \E start, length \in Nat :
                 Reading(start, length) /\ Reading(start, length)'
           /\ Cardinality(Cached') > Cardinality(Cached)
                => Cardinality(Cached') <= IF maxCache < 1 THEN 1 ELSE maxCache
<1> DEFINE cur == call.cur
           off == cur % BlockSize
           take == IF BlockSize - off > call.remaining
                     THEN call.remaining ELSE BlockSize - off
           idx == cur \div BlockSize
           block == BlockAt(idx)
<1>1. BlockSize \in Nat \ {0}
  BY SizesAssumption
<1>2. /\ call.running /\ call.remaining > 0
      /\ GetBlock(idx, block)
      /\ call' = [call EXCEPT !.cur = @ + take, !.remaining = @ - take,
                              !.out = @ \o Slice(block, off, take)]
      /\ position' = position /\ maxCache' = maxCache
      /\ iter' = iter /\ result' = result
  BY DEF CopyBlock
<1>3. PICK start \in Nat, length \in Nat : Reading(start, length)
  BY <1>2 DEF Inv
<1>4. call \in Calls /\ cur \in Nat /\ call.remaining \in Nat
  BY DEF Inv, Calls
<1>5. idx \in Nat /\ off \in 0 .. BlockSize - 1
  BY <1>1, <1>4
<1>6. /\ take \in Nat /\ take <= BlockSize - off
      /\ take <= call.remaining
  BY <1>1, <1>4, <1>5
<1>7. /\ block = Gen(idx)
      /\ Cached' \subseteq Nat /\ IsFiniteSet(Cached') /\ CacheCoherent'
      /\ Cardinality(Cached') > Cardinality(Cached)
           => Cardinality(Cached') <= IF maxCache < 1 THEN 1 ELSE maxCache
  <2> HIDE DEF idx
  <2> QED
    BY <1>2, <1>5, Lookup DEF Inv
<1>8. call.out \o Slice(block, off, take) = Stream(start, cur + take - start)
  <2>1. start <= cur /\ call.out = Stream(start, cur - start)
    BY <1>3 DEF Reading
  <2> HIDE DEF take
  <2> QED
    BY <1>4, <1>6, <1>7, <2>1, Extend
<1> HIDE DEF cur, off, take, idx, block
<1>9. /\ call'.cur = cur + take /\ call'.remaining = call.remaining - take
      /\ call'.out = Stream(start, cur + take - start)
      /\ call'.advance = call.advance /\ call'.running = TRUE
  BY <1>2, <1>4, <1>8 DEF Calls, cur
<1>10. cur + take - start \in Nat
  BY <1>3, <1>4, <1>6 DEF Reading, cur
<1>11. call' \in Calls
  <2>1. Stream(start, cur + take - start) \in Seq(0 .. Period - 1)
    BY <1>10, StreamBytes
  <2>2. call' = [running |-> TRUE, cur |-> cur + take,
                 remaining |-> call.remaining - take,
                 out |-> Stream(start, cur + take - start),
                 advance |-> call.advance]
    BY <1>2, <1>4, <1>8 DEF Calls, cur
  <2>3. cur + take \in Nat /\ call.remaining - take \in Nat
    BY <1>4, <1>6
  <2> QED
    BY <1>4, <2>1, <2>2, <2>3 DEF Calls
<1>12. Reading(start, length)'
  <2>1. /\ start <= cur + take
        /\ (cur + take) + (call.remaining - take) = start + length
    BY <1>3, <1>4, <1>6 DEF Reading, cur
  <2>2. /\ length \in Lengths
        /\ \/ call.advance = 0 /\ start \in Offsets
           \/ call.advance = length /\ start = position
    BY <1>3 DEF Reading
  <2> QED
    <3>1. call'.cur - start = cur + take - start
      BY <1>4, <1>6, <1>9 DEF cur
    <3>2. call'.out = Stream(start, call'.cur - start)
      BY <1>9, <3>1
    <3>3. call'.cur + call'.remaining = start + length /\ start <= call'.cur
      BY <1>9, <2>1
    <3> QED
      BY <1>2, <1>9, <2>2, <3>2, <3>3 DEF Reading
<1>13. Inv'
  BY <1>2, <1>7, <1>11, <1>12 DEF Inv
<1> QED
  BY <1>3, <1>7, <1>12, <1>13

(* Blocks keeps the invariant. *)
LEMMA YieldBlockInv ==
    ASSUME Inv, YieldBlock
    PROVE  /\ Inv'
           /\ result' = Stream(iter * BlockSize, BlockSize)
           /\ Cardinality(Cached') > Cardinality(Cached)
                => Cardinality(Cached') <= IF maxCache < 1 THEN 1 ELSE maxCache
<1>1. /\ ~call.running /\ iter \in Nat
      /\ result' = BlockAt(iter) /\ GetBlock(iter, BlockAt(iter))
      /\ iter' = iter + 1 /\ position' = position
      /\ maxCache' = maxCache /\ call' = call
  BY DEF Inv, YieldBlock
<1>2. /\ BlockAt(iter) = Gen(iter)
      /\ Cached' \subseteq Nat /\ IsFiniteSet(Cached') /\ CacheCoherent'
      /\ Cardinality(Cached') > Cardinality(Cached)
           => Cardinality(Cached') <= IF maxCache < 1 THEN 1 ELSE maxCache
  BY <1>1, Lookup DEF Inv
<1>3. result' = Stream(iter * BlockSize, BlockSize)
  BY <1>1, <1>2, BlockIsStream
<1>4. result' \in Seq(0 .. Period - 1)
  <2>1. iter * BlockSize \in Nat /\ BlockSize \in Nat
    BY <1>1, SizesAssumption
  <2> QED
    BY <1>3, <2>1, StreamBytes
<1> QED
  BY <1>1, <1>2, <1>3, <1>4 DEF Inv

(* The end of a call keeps the invariant. *)
LEMMA ReturnInv ==
    ASSUME Inv, Return
    PROVE  Inv'
<1>1. call.running /\ call.remaining = 0
  BY DEF Return
<1>2. /\ position \in Nat /\ call.advance \in Nat
      /\ call.out \in Seq(0 .. Period - 1)
  BY DEF Inv, Calls
<1>3. call' \in Calls /\ ~call'.running
  <2>1. <<>> \in Seq(0 .. Period - 1)
    BY EmptySeq
  <2> QED
    BY <2>1 DEF Return, Idle, Calls
<1>4. Cached' = Cached /\ CacheCoherent'
  BY DEF Return, Inv, Cached, CacheCoherent, Gen
<1> QED
  BY <1>2, <1>3, <1>4 DEF Inv, Return

(* The other calls leave a read in progress alone: there is none. *)
LEMMA QuietInv ==
    ASSUME Inv,
           \/ Seek \/ Rewind \/ ClearCache \/ SetCacheLimit
           \/ StartBlocks \/ StopBlocks
    PROVE  Inv'
<1>1. ~call.running /\ call' = call /\ result' = result
  BY DEF Seek, Rewind, ClearCache, SetCacheLimit, StartBlocks, StopBlocks
<1>2. position' \in Nat /\ maxCache' \in Int /\ iter' \in Nat \cup {-1}
  <2>1. \A offset \in Offsets : offset \div BlockSize \in Nat
    BY SizesAssumption
  <2>2. position \in Nat /\ maxCache \in Int /\ iter \in Nat \cup {-1}
    BY DEF Inv
  <2>3. CASE StartBlocks
    BY <2>1, <2>2, <2>3 DEF StartBlocks
  <2>4. CASE Seek \/ Rewind \/ ClearCache \/ SetCacheLimit \/ StopBlocks
    <3>1. CASE Seek
      BY <2>2, <3>1, SizesAssumption DEF Seek
    <3>2. CASE SetCacheLimit
      BY <2>2, <3>2, SizesAssumption DEF SetCacheLimit
    <3>3. CASE Rewind \/ ClearCache \/ StopBlocks
      BY <2>2, <3>3 DEF Rewind, ClearCache, StopBlocks
    <3> QED
      BY <2>4, <3>1, <3>2, <3>3
  <2> QED
    BY <2>3, <2>4
<1>3. Cached' \subseteq Nat /\ IsFiniteSet(Cached') /\ CacheCoherent'
  <2>1. CASE ClearCache
    <3>1. Cached' = {}
      BY <2>1 DEF ClearCache, Cached
    <3> QED
      BY <3>1, FS_EmptySet DEF CacheCoherent
  <2>2. CASE Seek \/ Rewind \/ SetCacheLimit \/ StartBlocks \/ StopBlocks
    <3>1. cachedBlocks' = cachedBlocks
      BY <2>2 DEF Seek, Rewind, SetCacheLimit, StartBlocks, StopBlocks
    <3> QED
      BY <3>1 DEF Inv, Cached, CacheCoherent, Gen
  <2> QED
    BY <2>1, <2>2
<1> QED
  BY <1>1, <1>2, <1>3 DEF Inv

(* The invariant is inductive. *)
LEMMA StepInv == Inv /\ [Next]_vars => Inv'
<1> SUFFICES ASSUME Inv, [Next]_vars PROVE Inv'
  OBVIOUS
<1>1. CASE GetBytes
  <2>1. PICK offset \in Offsets, n \in Lengths : Begin(offset, n, 0)
    BY <1>1 DEF GetBytes
  <2>2. offset \in Nat
    BY SizesAssumption
  <2> QED
    BY <2>1, <2>2, BeginInv
<1>2. CASE Read
  <2>1. PICK n \in Lengths : Begin(position, n, n)
    BY <1>2 DEF Read
  <2>2. position \in Nat /\ n \in Nat
    BY SizesAssumption DEF Inv
  <2> QED
    BY <2>1, <2>2, BeginInv
<1>3. CASE UNCHANGED vars
  <2>1. Cached' = Cached /\ CacheCoherent'
    BY <1>3 DEF Inv, vars, Cached, CacheCoherent, Gen
  <2>2. \A start, length \in Nat :
           Reading(start, length)' <=> Reading(start, length)
    BY <1>3 DEF vars, Reading, Stream, Promise!Stream
  <2> QED
    BY <1>3, <2>1, <2>2 DEF Inv, vars
<1> QED
  BY <1>1, <1>2, <1>3, CopyBlockInv, YieldBlockInv, ReturnInv, QuietInv
     DEF Next

(* The inductive invariant holds throughout. *)
THEOREM Invariance == Spec => []Inv
BY InitInv, StepInv, PTL DEF Spec

(* lazyKeystream keeps its types, for every choice of the constants.       *)
THEOREM TypeCorrect == Spec => []TypeOK
<1>1. Inv => TypeOK
  BY DEF Inv, TypeOK, Calls
<1> QED
  BY <1>1, Invariance, PTL

(* getBlock's cache holds under every index the block of that index,       *)
(* whatever was evicted, cleared or generated again.                       *)
THEOREM CacheIsCoherent == Spec => []CacheCoherent
<1>1. Inv => CacheCoherent
  BY DEF Inv
<1> QED
  BY <1>1, Invariance, PTL

(* getBlock never grows the cache above the limit of that moment, or above *)
(* one block where the limit is lower.                                     *)
THEOREM CacheWithinLimit == Spec => CacheGrowsWithinLimit
<1> DEFINE Grows == Cardinality(Cached') > Cardinality(Cached)
           Bounded ==
             Cardinality(Cached') <= IF maxCache < 1 THEN 1 ELSE maxCache
<1>1. ASSUME Inv, [Next]_vars
      PROVE  [Grows => Bounded]_vars
  <2>1. CASE CopyBlock
    BY <1>1, <2>1, CopyBlockInv
  <2>2. CASE YieldBlock
    BY <1>1, <2>2, YieldBlockInv
  <2>3. CASE ClearCache
    <3>1. Cardinality(Cached') = 0 /\ Cardinality(Cached) \in Nat
      BY <1>1, <2>3, FS_EmptySet, FS_CardinalityType
         DEF ClearCache, Cached, Inv
    <3> QED
      BY <3>1
  <2>4. CASE UNCHANGED cachedBlocks
    <3>1. Cached' = Cached /\ Cardinality(Cached) \in Nat
      BY <1>1, <2>4, FS_CardinalityType DEF Cached, Inv
    <3> QED
      BY <3>1
  <2> QED
    BY <1>1, <2>1, <2>2, <2>3, <2>4
       DEF Next, vars, GetBytes, Read, Begin, Return, Seek, Rewind,
           SetCacheLimit, StartBlocks, StopBlocks
<1>2. Inv /\ [Next]_vars => [Grows => Bounded]_vars
  BY <1>1
<1> QED
  BY <1>2, Invariance, PTL DEF Spec, CacheGrowsWithinLimit

(* A read in progress tells where it began and what is to come. *)
LEMMA Asked ==
    ASSUME NEW c \in Calls, NEW start \in Nat, NEW length \in Nat,
           start <= c.cur, c.cur + c.remaining = start + length,
           c.out = Stream(start, c.cur - start)
    PROVE  c.cur - Len(c.out) = start /\ c.remaining + Len(c.out) = length
<1>1. c.cur \in Nat /\ c.remaining \in Nat
  BY DEF Calls
<1>2. c.cur - start \in Nat
  BY <1>1
<1>3. Len(c.out) = c.cur - start
  <2> DEFINE copied == c.cur - start
  <2>1. copied \in Nat /\ c.out = Stream(start, copied)
    BY <1>2
  <2> HIDE DEF copied
  <2>2. Len(Stream(start, copied)) = copied
    BY <2>1, StreamBytes
  <2> QED
    BY <2>1, <2>2 DEF copied
<1> QED
  BY <1>1, <1>2, <1>3

(* Every step of the lazy keystream is a step of the cursor, or one that   *)
(* the cursor does not see.                                                *)
LEMMA StepRefines == Inv /\ [Next]_vars => [Promise!Next]_(Promise!vars)
<1> SUFFICES ASSUME Inv, [Next]_vars
             PROVE  Promise!Next \/ UNCHANGED Promise!vars
  BY DEF Promise!vars
<1>1. /\ ~call.running => Promise!Free /\ Request = Promise!None
      /\ call.running => Request.asked
  BY DEF Request, Promise!Free, Promise!None
<1>2. CASE GetBytes
  <2>1. PICK offset \in Offsets, n \in Lengths : Begin(offset, n, 0)
    BY <1>2 DEF GetBytes
  <2>2. offset \in Nat /\ n \in Nat
    BY SizesAssumption
  <2>3. Request' = [asked |-> TRUE, offset |-> offset, length |-> n,
                    advance |-> 0]
    BY <2>1, <2>2 DEF Begin, Request
  <2>4. Promise!Ask(offset, n, 0)
    BY <1>1, <2>1, <2>3 DEF Begin, Promise!Ask
  <2> QED
    BY <2>4 DEF Promise!Next, Promise!AskAt
<1>3. CASE Read
  <2>1. PICK n \in Lengths : Begin(position, n, n)
    BY <1>3 DEF Read
  <2>2. position \in Nat /\ n \in Nat
    BY SizesAssumption DEF Inv
  <2>3. Request' = [asked |-> TRUE, offset |-> position, length |-> n,
                    advance |-> n]
    BY <2>1, <2>2 DEF Begin, Request
  <2>4. Promise!Ask(position, n, n)
    BY <1>1, <2>1, <2>3 DEF Begin, Promise!Ask
  <2> QED
    BY <2>4 DEF Promise!Next, Promise!AskNext
<1>4. CASE CopyBlock
  <2>1. /\ call.running /\ call'.running /\ call'.advance = call.advance
        /\ UNCHANGED <<position, iter, result>>
    BY <1>4 DEF CopyBlock, Inv, Calls
  <2>2. PICK start \in Nat, length \in Nat :
           Reading(start, length) /\ Reading(start, length)'
    BY <1>4, CopyBlockInv
  <2>3. call \in Calls /\ call' \in Calls
    BY <1>4, CopyBlockInv DEF Inv, Calls
  <2>4. /\ call.cur - Len(call.out) = start
        /\ call.remaining + Len(call.out) = length
    BY <2>2, <2>3, Asked DEF Reading
  <2>5. /\ call'.cur - Len(call'.out) = start
        /\ call'.remaining + Len(call'.out) = length
    BY <2>2, <2>3, Asked DEF Reading, Stream, Promise!Stream
  <2> QED
    BY <2>1, <2>4, <2>5 DEF Request, Promise!vars
<1>5. CASE Return
  <2>1. PICK start \in Nat, length \in Nat : Reading(start, length)
    BY <1>5 DEF Inv, Return
  <2>2. call \in Calls /\ call.running /\ call.remaining = 0
    BY <1>5 DEF Inv, Return
  <2>3. /\ call.cur - Len(call.out) = start
        /\ call.remaining + Len(call.out) = length
    BY <2>1, <2>2, Asked DEF Reading
  <2>4. Request = [asked |-> TRUE, offset |-> start, length |-> length,
                   advance |-> call.advance]
    BY <2>2, <2>3 DEF Request
  <2>5. result' = Stream(start, length)
    <3>1. call.cur \in Nat /\ call.cur - start = length
      BY <2>1, <2>2 DEF Reading, Calls
    <3> QED
      BY <1>5, <2>1, <3>1 DEF Reading, Return
  <2>6. Request' = Promise!None
    BY <1>5 DEF Return, Idle, Request, Promise!None
  <2> QED
    BY <1>5, <2>4, <2>5, <2>6
       DEF Return, Stream, Promise!Next, Promise!Answer
<1>6. CASE Seek \/ Rewind
  <2>1. ~call.running /\ Request' = Request
    BY <1>6 DEF Seek, Rewind, Request
  <2> QED
    BY <1>1, <1>6, <2>1 DEF Seek, Rewind, Promise!Next, Promise!Move
<1>7. CASE StartBlocks \/ StopBlocks
  <2>1. ~call.running /\ Request' = Request
    BY <1>7 DEF StartBlocks, StopBlocks, Request
  <2> QED
    BY <1>1, <1>7, <2>1
       DEF StartBlocks, StopBlocks, Promise!Next, Promise!Start, Promise!Stop
<1>8. CASE YieldBlock
  <2>1. result' = Stream(iter * BlockSize, BlockSize)
    BY <1>8, YieldBlockInv
  <2>2. ~call.running /\ Request' = Request
    BY <1>8 DEF YieldBlock, Request
  <2> QED
    BY <1>1, <1>8, <2>1, <2>2
       DEF YieldBlock, Stream, Promise!Next, Promise!Yield
<1>9. CASE ClearCache \/ SetCacheLimit \/ UNCHANGED vars
  BY <1>9 DEF ClearCache, SetCacheLimit, vars, Request, Promise!vars
<1> QED
  BY <1>2, <1>3, <1>4, <1>5, <1>6, <1>7, <1>8, <1>9 DEF Next

(* Caching is invisible: lazyKeystream implements cipher.Keystream's       *)
(* promise of one fixed stream, every call answered with the piece it      *)
(* asked for.                                                              *)
THEOREM Refinement == Spec => RefinesCursor
<1>1. Init => Promise!Init
  BY DEF Init, Idle, Request, Promise!Init, Promise!None
<1> QED
  BY <1>1, Invariance, StepRefines, PTL DEF Spec, RefinesCursor, Promise!Spec
=============================================================================

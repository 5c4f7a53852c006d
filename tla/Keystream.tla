------------------------------ MODULE Keystream ------------------------------
(***************************************************************************)
(* lazyKeystream (cipher/keystream.go): blocks of the stream are generated *)
(* on demand and kept in a map of bounded size, from which Go's map        *)
(* iteration picks the victim.  One action is one call, except that the    *)
(* loops of GetBytes and XorInto take one action per block.  The object is *)
(* not shared between goroutines; the body of a range over Blocks may      *)
(* call it between two blocks.                                             *)
(*                                                                         *)
(* XOR is left out: Xor, XorInto and XorRead are modelled by the keystream *)
(* bytes they combine with their input.                                    *)
(***************************************************************************)
EXTENDS Integers, Sequences, FiniteSets

CONSTANTS
    BlockSize,    \* 64 for ChaCha, 48 for Gimli
    CounterMod,   \* 2^32: the block counter is uint32(blockIndex)
    Offsets,      \* inputs: offsets and seek targets
    Lengths,      \* inputs: lengths
    CacheLimits,  \* inputs of SetCacheLimit
    DefaultLimit, \* maxCache of a new keystream: 64
    MaxPosition   \* bound: how far Read and Blocks go

ASSUME SizesAssumption ==
    /\ BlockSize \in Nat \ {0}
    /\ CounterMod \in Nat \ {0}
    /\ Offsets \subseteq Nat /\ Lengths \subseteq Nat
    /\ CacheLimits \subseteq Int /\ DefaultLimit \in Int

VARIABLES
    position,
    cachedBlocks,  \* a function from the cached indices to their bytes
    maxCache,
    iter,          \* the next block of a range over Blocks, or -1
    call,          \* the loop in progress, or Idle
    result         \* what the last call returned

vars == <<position, cachedBlocks, maxCache, iter, call, result>>

Period == BlockSize * CounterMod

(* gen: a byte is named by its place in the generator's stream. *)
Gen(idx) ==
    [i \in 1 .. BlockSize |-> (idx % CounterMod) * BlockSize + i - 1]

Idle == [running |-> FALSE, cur |-> 0, remaining |-> 0, out |-> <<>>,
         advance |-> 0]

Init ==
    /\ position = 0
    /\ cachedBlocks = <<>>
    /\ maxCache = DefaultLimit
    /\ iter = -1
    /\ call = Idle
    /\ result = <<>>

Cached == DOMAIN cachedBlocks

Without(cache, idx) == [k \in DOMAIN cache \ {idx} |-> cache[k]]

(* Mistaken variant: the block is stored under its successor's index. *)
PutNext(cache, idx, block) ==
    [k \in DOMAIN cache \cup {idx + 1} |->
        IF k = idx + 1 THEN block ELSE cache[k]]

Put(cache, idx, block) ==
    [k \in DOMAIN cache \cup {idx} |-> IF k = idx THEN block ELSE cache[k]]

(* Mistaken variant: > for >=. *)
GetBlockLate(idx, block) ==
    \/ /\ idx \in Cached
       /\ block = cachedBlocks[idx]
       /\ UNCHANGED cachedBlocks
    \/ /\ idx \notin Cached
       /\ block = Gen(idx)
       /\ IF Cardinality(Cached) > maxCache /\ Cached # {}
            THEN \E k \in Cached :
                    cachedBlocks' = Put(Without(cachedBlocks, k), idx, block)
            ELSE cachedBlocks' = Put(cachedBlocks, idx, block)

(* getBlock: on a miss a full cache loses one entry, whichever the map     *)
(* iteration meets first, and the new block is stored.                     *)
GetBlock(idx, block) ==
    \/ /\ idx \in Cached
       /\ block = cachedBlocks[idx]
       /\ UNCHANGED cachedBlocks
    \/ /\ idx \notin Cached
       /\ block = Gen(idx)
       /\ IF Cardinality(Cached) >= maxCache /\ Cached # {}
            THEN \E k \in Cached :
                    cachedBlocks' = Put(Without(cachedBlocks, k), idx, block)
            ELSE cachedBlocks' = Put(cachedBlocks, idx, block)

BlockAt(idx) == IF idx \in Cached THEN cachedBlocks[idx] ELSE Gen(idx)

Begin(offset, length, advance) ==
    /\ ~call.running
    /\ call' = [running |-> TRUE, cur |-> offset, remaining |-> length,
                out |-> <<>>, advance |-> advance]
    /\ UNCHANGED <<position, cachedBlocks, maxCache, iter, result>>

GetBytes == \E offset \in Offsets, n \in Lengths : Begin(offset, n, 0)

Read ==
    \E n \in Lengths :
        position + n <= MaxPosition /\ Begin(position, n, n)

(* Mistaken variant: the copy starts at the beginning of the block. *)
SliceFromStart(block, off, take) == SubSeq(block, 1, take)

Slice(block, off, take) == SubSeq(block, off + 1, off + take)

(* One turn of the loop: the rest of a block, or what is still wanted. *)
CopyBlock ==
    LET off == call.cur % BlockSize
        take == IF BlockSize - off > call.remaining
                  THEN call.remaining
                  ELSE BlockSize - off
        idx == call.cur \div BlockSize
        block == BlockAt(idx)
    IN  /\ call.running
        /\ call.remaining > 0
        /\ GetBlock(idx, block)
        /\ call' = [call EXCEPT !.cur = @ + take,
                                !.remaining = @ - take,
                                !.out = @ \o Slice(block, off, take)]
        /\ UNCHANGED <<position, maxCache, iter, result>>

(* Mistaken variant: the pointer moves the wrong way. *)
ReturnBackward ==
    /\ call.running
    /\ call.remaining = 0
    /\ result' = call.out
    /\ position' = position - call.advance
    /\ call' = Idle
    /\ UNCHANGED <<cachedBlocks, maxCache, iter>>

(* The loop is done: GetBytes and Xor return, Read and XorRead move the    *)
(* pointer by the length first.                                            *)
Return ==
    /\ call.running
    /\ call.remaining = 0
    /\ result' = call.out
    /\ position' = position + call.advance
    /\ call' = Idle
    /\ UNCHANGED <<cachedBlocks, maxCache, iter>>

Seek ==
    /\ ~call.running
    /\ position' \in Offsets
    /\ UNCHANGED <<cachedBlocks, maxCache, iter, call, result>>

Rewind ==
    /\ ~call.running
    /\ position' = 0
    /\ UNCHANGED <<cachedBlocks, maxCache, iter, call, result>>

ClearCache ==
    /\ ~call.running
    /\ cachedBlocks' = <<>>
    /\ UNCHANGED <<position, maxCache, iter, call, result>>

(* A lower limit does not shrink the cache. *)
SetCacheLimit ==
    /\ ~call.running
    /\ maxCache' \in CacheLimits
    /\ UNCHANGED <<position, cachedBlocks, iter, call, result>>

(* range over Blocks(startBlock): the iterator calls getBlock and yields,  *)
(* again and again until the body breaks.                                  *)
StartBlocks ==
    /\ ~call.running
    /\ iter = -1
    /\ iter' \in {offset \div BlockSize : offset \in Offsets}
    /\ UNCHANGED <<position, cachedBlocks, maxCache, call, result>>

YieldBlock ==
    /\ ~call.running
    /\ iter >= 0
    /\ (iter + 1) * BlockSize <= MaxPosition
    /\ result' = BlockAt(iter)
    /\ GetBlock(iter, BlockAt(iter))
    /\ iter' = iter + 1
    /\ UNCHANGED <<position, maxCache, call>>

StopBlocks ==
    /\ ~call.running
    /\ iter >= 0
    /\ iter' = -1
    /\ UNCHANGED <<position, cachedBlocks, maxCache, call, result>>

Next ==
    \/ GetBytes \/ Read \/ CopyBlock \/ Return
    \/ Seek \/ Rewind \/ ClearCache \/ SetCacheLimit
    \/ StartBlocks \/ YieldBlock \/ StopBlocks

Spec == Init /\ [][Next]_vars
-----------------------------------------------------------------------------
(* The type invariant. *)
TypeOK ==
    /\ position \in Nat
    /\ Cached \subseteq Nat
    /\ maxCache \in Int
    /\ iter \in Nat \cup {-1}
    /\ call.remaining \in Nat /\ call.cur \in Nat
    /\ result \in Seq(0 .. Period - 1)

(* A hit is as good as a miss: whatever was evicted, cleared or evicted    *)
(* again, the cache holds under each index the block of that index.        *)
CacheCoherent == \A idx \in Cached : cachedBlocks[idx] = Gen(idx)

(* A miss never takes the cache above its limit, whatever limits were set  *)
(* before; under a limit below one it keeps a single block.                *)
CacheGrowsWithinLimit ==
    [][ Cardinality(Cached') > Cardinality(Cached)
          => Cardinality(Cached') <= IF maxCache < 1 THEN 1 ELSE maxCache ]_vars

(* What the call in progress was asked for: it has copied Len(out) bytes,  *)
(* and remaining are still to come.                                        *)
Request ==
    IF call.running
      THEN [asked |-> TRUE, offset |-> call.cur - Len(call.out),
            length |-> call.remaining + Len(call.out),
            advance |-> call.advance]
      ELSE [asked |-> FALSE, offset |-> 0, length |-> 0, advance |-> 0]

(* Caching is invisible: through any mix of calls, seeks and evictions,    *)
(* across blocks and past the wrap of the block counter, every read        *)
(* returns the bytes of the one stream at the place and of the length it   *)
(* was asked for, and Read moves the pointer by exactly what was read (the *)
(* promise of cipher.Keystream).                                           *)
Promise == INSTANCE StreamCursor WITH
    position <- position, iter <- iter, request <- Request, result <- result
RefinesCursor == Promise!Spec
=============================================================================

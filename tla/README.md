# A TLA+ model of quarkdash-go

QuarkDash is a library for encrypted sessions: a ring-LWE key exchange, a
stream cipher with a MAC per packet, a replay window, and key rotation by
tokens. This directory models what its code does, checks it with TLC on small
instances and proves its invariants with TLAPS. Line numbers are those of the
repository this directory sits beside; `PROJECT.json` maps every definition to
the lines it stands for.

## 1. The system

| Part | Code | State | Operations |
|---|---|---|---|
| Session object | `quarkdash.go` | keys, rekey counter and statistics, `sendSeq`, `receivedPackets`, own key pair, peer's key | `GenerateKeyPair`, `InitializeSession`, `FinalizeSession`, `Encrypt`, `Decrypt`, `Rekey`, `ApplyRekey`, `NeedsRekey`, `Dispose` |
| Replay window | `quarkdash.go:454-495` | `sendSeq` (uint32), a set of received numbers | `buildMetadataLocked`, `checkMetadata` |
| Lock | `quarkdash.go:117` | `qd.mu` | taken one to four times by each call |
| MAC | `core/mac.go` | one reusable buffer per object | `SignTwo`, `VerifyTwo`, `Sign`, `Verify` |
| Key exchange | `ringlwe/ringlwe.go` | two maps of twiddle factors per exchange instance, without a lock | `GenerateKeyPair`, `Encapsulate`, `Decapsulate` |
| Keystream | `cipher/keystream.go` | pointer, block cache, cache limit | `GetBytes`, `Xor`, `XorInto`, `Blocks`, `Seek`, `Rewind`, `Read`, `XorRead`, `ClearCache`, `SetCacheLimit` |
| Block functions | `cipher/chacha.go`, `cipher/gimli.go` | none | `generateBlock` |
| Rotation payload | `rekey/rekey.go` | none | build, parse, derive |
| Key derivation | `core/kdf.go` | none | `Derive` |
| Wrappers | `transport/*.go` | handlers of a WebSocket | `EncryptRequest`, `Middleware`, `DecryptResponse`; `Invoke`, `ServerInterceptor`; `Send`, `attach`, `OnDecrypted` |
| Passphrases, hashes, helpers | `passphrase/`, `hash/`, `core/utils.go` | none | pure functions |

How they interact: two session objects never share memory. Their applications
carry three kinds of message between them: public keys, ciphertexts of the
handshake, and packets. A rotation token is a packet whose plaintext is a
payload; which call (`Decrypt` or `ApplyRekey`) a packet goes to is the
application's decision. Inside one object, each call takes `qd.mu` in short
sections and does its encryption and authentication between them. `OnRekey` is
a callback that runs inside a locked section. The wrappers are callers of one
object per end: requests, answers and messages of all their exchanges draw
from one sequence and fill one window.

What is hard here:

* calls on one object overlap, and read `qd.macKey`, the MAC's buffer and the
  twiddle-factor maps without the lock;
* one end changes its keys before the other: tokens and packets sealed under
  older keys are still in flight, in any order, possibly twice, possibly
  never delivered;
* an object is disposed of, restarted or taken through a second handshake
  while packets and ciphertexts of its earlier life are still around;
* the window forgets numbers, numbers wrap, and the window of an object in use
  outlives a handshake;
* the wrappers go on when a packet does not open, and libraries below them
  send requests again;
* a mistake anywhere in the arithmetic of the exchange shows only as two
  different keys.

What makes each part correct:

* *replay window*: no packet is let through twice, within the limits of what
  the window can remember; none is refused that was never seen, within the
  limits of the numbers;
* *session*: two ends hold the same keys exactly when they shared a handshake
  and its rotations, and come back together after each rotation; nothing is
  delivered twice across sessions, and what is refused as a replay either was
  one or meets a number left from the session before;
* *locking*: a packet is consistent in itself, a plaintext is decrypted under
  the key it was verified under, a rotation derives from what its token says,
  for every call that no other meets where it relies on the keys or on the
  MAC's buffer; and when callers keep key changes apart, every call has the
  effect it would have alone, at one moment between its beginning and its end,
  and returns;
* *wrappers*: a handler is told apart a plaintext from what could not be
  opened, never reads a packet for a body and never gets a plaintext twice; a
  client never takes a packet for an answer; only a change of keys disturbs an
  exchange;
* *keystream*: every read is answered with the bytes of the place it asked for,
  whatever is cached;
* *key exchange*: products are products, and both ends get the same bits.

## 2. Modules

| Module | Models | Uses |
|---|---|---|
| `PacketWindow` | the set of received numbers and its eviction, `sendSeq++` | |
| `ReplayWindow` | one direction of a session with clocks | `PacketWindow` |
| `SessionPair` | two objects and a network, one action per call | `PacketWindow` |
| `RekeyDelivery` | one session of the two, with applications that pass each token on once and in order | `SessionPair` |
| `AtomicSession` | what one object promises goroutines that share it | `PacketWindow` |
| `SessionThreads` | one object and several goroutines, calls cut at the lock; implements `AtomicSession` | `PacketWindow`, `AtomicSession` |
| `SessionOverlap` | which calls of `SessionThreads` another call meets where they rely on something it changes, and what the others keep | `SessionThreads` |
| `Transports` | the three wrappers over one session that changes keys | `PacketWindow` |
| `StreamCursor` | what the interface `Keystream` promises | |
| `Keystream` | `lazyKeystream`; implements `StreamCursor` | `StreamCursor` |
| `Reconcile` | rounding, hints and reconciliation | |
| `RingLWE` | sampling, transform, multiplication, the three calls | `Reconcile` |
| `ReplayWindowProofs`, `SessionPairProofs`, `SessionThreadsProofs`, `SessionThreadsRefinement`, `KeyUseProofs`, `TransportsProofs`, `KeystreamProofs`, `RingLWEProofs` | proofs about the module they are named for (`KeyUseProofs`: about `SessionThreads` and `SessionOverlap`; `RingLWEProofs`: about `Reconcile` too) | |
| `MC...` | the instances TLC checks | |

`SessionPair` takes a call of the API for one step. That is right for an
application that calls an object from one goroutine; for one that shares it,
`SessionThreads` says under which conditions calls can still be taken for
steps (`RefinesAtomic`), and what remains true without them
(`SessionOverlap`). `Transports` and `SessionPair` rely on it; `ReplayWindow`
covers what both leave out, time and eviction.

A definition whose comment calls it a mistaken variant is no part of a
specification. It is a bug of the kind its neighbour could have, and
`PROJECT.json` says which property fails when it takes the neighbour's place.

### ReplayWindow

`now` is the receiver's clock; a packet carries its sequence number and a
timestamp that is off by at most `MaxSkew`. `BuildMetadata` sends the next
packet; `CheckMetadata` lets any packet ever sent arrive, again and again, and
either records it (`Accept`, with the eviction of `Admit`) or refuses it
(`Reject`). Every MAC is valid here. `nsent`, `sent`, `accepted` and
`redelivered` are history variables. Time does not run backwards at the
receiver; the code reads the wall clock, which an administrator may set back.

### SessionPair

A variable per field of the object, as a function of the two ends; the network
is the set of everything ever sent, which gives delay, reordering, duplication
and (by non-delivery) loss. Keys are symbolic: a session key is the shared
secret it came from and the chain of salts and counters of its rotations, so
that equality of keys is equality of derivations. A call is one action.
`Restart` replaces an object by a fresh one, as a new process would.

A handshake may find an object in use: the code then replaces its keys and
keeps `sendSeq` and the window. The history variable `carried` notes what the
window held at that moment, since a fresh packet of the new session with one
of these numbers is refused (`NoFalseReplay` says that it is the only kind).

What the callers do is a matter of constants: `Initiators`, `Rekeyers` and
`Closers` say which end makes which calls; `FinalizeOnce` that a
ciphertext is passed to `FinalizeSession` once; `Misrouting` that callers may
pass a message to `ApplyRekey` and a token to `Decrypt`, which nothing in the
packet tells apart. `CounterMod` is the range of the four bytes a payload has
for the counter. `MaxUsed` bounds how often the calls that make a new value
are made. Timestamps are within the tolerance.

### RekeyDelivery

Convergence needs more than the code: somebody has to carry the tokens. This
module adds to `SessionPair`, per end, the tokens it was sent and has not
passed to `ApplyRekey` yet (`inbox`), the oldest first. `SendToken` is a call
of `Rekey` and the sending of what it returns, `Deliver` passes the next token
to `ApplyRekey`. Whatever comes of that, an error included, the token is not
passed on again, as nothing in the code repeats the call. All other calls of
`SessionPair` but `Dispose` and a restart may come in between (`OtherCall`),
`ApplyRekey` with stray copies of tokens, early and late, among them.

### SessionThreads and AtomicSession

One object with a session, `Threads` that call it, a peer that has sent the
packets `Incoming`. A call's program counter moves through the sections
between lock operations:

| Call | Steps |
|---|---|
| `Encrypt` | `Seal`, `LoadMacKey`, `CopyKey`, `CopyData`, `Hash`, `Count` |
| `Decrypt` | `Open`, `LoadMacKey`, `CopyKey`, `CopyData`, `Verify`, `Check`, `Cipher` |
| `Rekey` | `Payload`, the steps of `Encrypt`, `Derive`, `Install` |
| `ApplyRekey` | the steps of `Decrypt`, `Expect`, `Derive`, `Install` |
| `Dispose` | `Wipe`, `Forget` |
| `GenerateKeyPair` | `Lookup`, `Store`, `LookupInv`, `StoreInv`, `InstallPair` |
| `InitializeSession`, `FinalizeSession` (`"Handshake"`) | `Lock`, the steps of the multiplication, `Fresh`, `Fill` |
| `SetRekeyPolicy` | `SetRekeyPolicy` |

`SignTwo` is three steps because its buffer is shared by all calls of an
object when the default MAC is used (`SharedMac`). A key that `SecureZero`
has reached, or whose bytes `deriveSessionKeys` has not filled yet, is in
`wiped`; a MAC computed from a pointer to it is under no key at all (`Nil`). A
panic leaves the thread at `panicked`, in `Cipher` with the lock held, since
that section has no deferred unlock. A map that is read or written while
another thread writes it may end the process (`Fatal`). `ExclusiveKeys` is a
discipline of the callers: nothing runs beside a call that changes keys.
`CallbackLocks` lets `OnRekey` call the object. Two threads that both missed
the same map and go on to write it are a race as well (`Store`, `StoreInv`).

`AtomicSession` has the same calls as single actions, and knows neither
threads nor MAC, buffers or wiped bytes. The refinement mapping decides when a
call takes effect:

* `Encrypt` and `Rekey` where they draw their number (`Seal`): from there on
  the packet, its count and the new keys of a rotation are there in the
  abstract object, ahead of the real one by what the call has still to do;
* `Decrypt` and `ApplyRekey` where the window admits the packet (`Check`);
* a handshake at `Fresh`, `Dispose` at `Forget`.

The remaining steps change nothing of the abstract object: that they do not,
although they write keys, counters and results, is what the refinement says.

### SessionOverlap

Without a discipline of the callers, calls do come out wrong: a packet with
the tag of another's data, a plaintext decrypted under the next key, a token
that stands for another rotation than was derived. `SessionOverlap` says how
far that goes. `UsesKeys` and `UsesBuf` name the places where a call still
relies on the keys it saw, or has bytes in the MAC's buffer that it is yet to
read; a step of another thread that changes the keys or the buffer there
`Disturbs` the call, and `met` collects the calls this happened to. The module
adds nothing else to `SessionThreads`: each of its behaviours is one of `Spec`
(`OverlapIsSpec`), and `met` hinders no step. `PacketIntact`,
`PlaintextIntact` and `RotationIntact` speak of every call outside `met`,
whatever the callers do, with the default MAC or another.

### Transports

A client and a server with one established session, each end reduced to the
number of its keys, `sendSeq` and its window; `Rekey` at the client,
`ApplyRekey` at the server and `Dispose` at either come in between at any
moment. An exchange is an HTTP request or a gRPC call and its answer.

| Code | Actions |
|---|---|
| `QDHTTP.EncryptRequest`, `DecryptResponse` | the same |
| `QDHTTP.Middleware`, before and after `next.ServeHTTP` | `Middleware`, `WriteBack` |
| `wrappedGRPCClient.Invoke`, before and after the wrapped call | `Invoke`, `InvokeReturn` |
| `QDGRPC.ServerInterceptor`, before and after the handler | `ServerInterceptor`, `InterceptorReturn` |
| `QDWebSocket.Send`, the write, `OnDecrypted`, the callback of `attach` | `Send`, `Write`, `OnDecrypted`, `OnMessage` |

`Middleware` reads a body that comes with the header to its end. One that
decrypts is put back as plaintext; one that does not is not put back, so that
the handler reads nothing (`http.go:102`). Without the header the body is not
touched. gRPC's interceptor hands over the packet itself in that case.

HTTP requests stay on the network and may be served again. `Resend` is
net/http's retry after a lost connection: `EncryptRequest` has replaced `Body`
and not `GetBody`, so the retry carries the plaintext under the ciphertext's
length and the server cannot read it. Handlers are external: one answers 400
when the header promises a packet and the body is not its plaintext, 200
otherwise, and may leave its own body empty.
Clients do not set the header that marks a decrypted body themselves. `calm` is
the set of exchanges and messages begun since the keys last changed; `served`
keeps of each call of a handler what arrived and what it was given.

### Keystream and StreamCursor

The abstract module has a pointer, an iterator, what the call in progress has
asked for, and the last result. `AskAt` (`GetBytes`, `Xor`) asks for any offset
and length, `AskNext` (`Read`, `XorRead`) for the bytes at the pointer;
`Answer` gives the piece of the stream that was asked for, no other, and moves
the pointer past it for the second kind. The detailed one has the
block cache, with Go's unordered map choosing the victim, the loop over
blocks, and limits that change at any time, below one included.
`RefinesCursor` is the abstract specification as a property; the refinement
mapping is the identity on `position`, `iter` and `result`; the request is what
the loop has copied together with what remains (`Request`), and the period is
the block size times the range of the 32-bit counter.

### RingLWE and Reconcile

The arithmetic is the code's: the shuffle by reversed bits, the butterflies,
the inverse roots by extended Euclid, the blinding factor and its inverse, the
sampling from bits and byte sums, the comparisons of 2v, 4v and 8v with
multiples of Q. Randomness is a choice from the sets the constants name. The
loops of the code are recursive functions: `Euclid` and `PowMod` of their
numbers, `Reversed` of the length, the passes of a transform of the length of
their blocks. `ntt` and `hardenedNTT` make the same passes, one with roots it
computes and one with roots from the caches, so both are `Transform`.
`Convolve` is what a product is compared with, and `Sum` belongs to it; no code
corresponds to them. `secretE` is a history variable, and so are the fields
`w`, `s` and `e` of `encaps` and `w` of `decaps`.

## 3. Runs

| Run | States | What it shows |
|---|---|---|
| `replay_window` | 267,506 | the window keeps the newest numbers; until the numbers wrap a second delivery needs a burst; a false refusal needs a wrap |
| `replay_burst` (violation) | | with a burst, a packet is delivered twice |
| `session_rotation` | 9,824 | one end rotating: the token that closes each gap stays usable, and the ends converge when each token is passed on once, in order |
| `session_crossing` (violation) | | both ends rotating at once never meet again |
| `session_lifecycle` | 1,312,008 | two handshakes, on new, disposed and live objects, a restart, a rotation, packets passed to the wrong call: agreement, no second delivery, no false refusal but of numbers that a live window carried over |
| `threads_exclusive` | 88,480 | with callers that keep key changes apart and a MAC without a shared buffer, calls return, and the object implements `AtomicSession` |
| `threads_free` | 3,080,932 | with no discipline, a packet, plaintext or rotation is wrong only if its call was met by a change of what it relied on; sequence numbers are unique, `NeedsRekey` is not late, and only cold multiplications write the caches |
| `threads_default` (violation) | | two `Encrypt` calls on a default object: a packet leaves with a wrong tag |
| `transports` | 1,196,856 | no handler gets a plaintext twice or reads a packet behind the header, no answer is a packet, calm exchanges go through, messages are heard in order |
| `keystream` | 291,118 | the lazy keystream implements the cursor |
| `ring` | 505 | products are convolutions, secrets agree under the tolerance, and without a hint only away from the rounding boundaries |
| `ring_old_ciphertexts` (violation) | | a ciphertext without a hint is not refused |

Bounds. *replay_window*: five packets, numbers modulo four and a window of two
make eviction, bursts and the wrap happen in one run; time runs to three with
a tolerance and a skew of one, so that packets expire while others are fresh.
*session_rotation*: three rotations are enough for two tokens to overtake a
third; the payload counts to two, so that the fourth rotation wraps its
counter and is refused. *session_lifecycle*: two handshakes and three key pairs
allow a key pair to be regenerated under a handshake, two packets and a rotation
reach into the second session, and the handshake may find the object as it was,
after `Dispose` or after a restart. The window there and in *transports* holds every
packet, so eviction does not interfere; `ReplayWindow` has it alone.
*threads*: two goroutines and three calls, so that one call
spans two others that run one after another; the peer's four packets are a
message, a token for the present key, one for the next key and one whose
counter is stale, so that a call can be met at each of its places by each kind
of change; thresholds of one and two packets are below and at what
three calls can send. *transports*: `MaxUses` 4 is two exchanges, or one and
two messages, or four messages, so that any two wrappers meet in the window;
`MaxServed` 2 lets a repeated request be served again, or two requests;
`MaxChanges` 2 is a rotation completed at both ends, a rotation and a
`Dispose`, or both ends disposed of; one handler of a WebSocket, since
handlers do not affect each other. *keystream*: blocks of two bytes, a counter
that wraps after three, caches of at most two blocks, reads of up to four
bytes. *ring*: four coefficients modulo 97, three choices of each random
input, whose noise lies on both sides of 97/8; the parameters of the code
(N = 256 with Q = 7681 and 12289) are checked for what the transform needs of
them and the proofs assume: a prime modulus, a power of two, and a root whose
N/2-th power is -1.

Deadlock is checked in every run but `threads_free`, where a thread that
panicked under the lock, or a callback that locks, really stops the object,
and `transports`, where the bounds are reached and nothing is left to deliver.

Fairness. `session_rotation` and `session_crossing` assume that `Deliver` is
taken at each end as long as it can be: the transport delivers each token once
and in the order sent, and the application passes it to `ApplyRekey` when its
handshake is complete. No call is repeated and nothing is assumed of any other
call. The code alone does not promise that much, and convergence is not to be
had for less: a token passed on before the one it follows, or before the
handshake is complete, is refused, nothing passes it on again, and the ends
stay apart for good. `threads_exclusive` assumes that a goroutine that can
take a step takes one: Go's scheduler is preemptive, and
in that run no thread waits for a lock that others keep taking, because calls
are bounded. Calls themselves are not fair: no thread has to make one.

### What the violations say

* `replay_burst`: `checkMetadata` evicts by count and keeps no floor. A packet
  evicted by `MaxPacketWindow` newer ones passes again while its timestamp is
  within the tolerance (five minutes by default, a thousand packets). The
  passing run and the theorem `ReplayNeedsBurst` say what it takes until the
  numbers wrap. After the wrap less is enough: a low number that meets a window
  full of high ones is evicted as it is added, and its packet passes as often as
  it comes within the tolerance.
* `session_crossing`: `Rekey` installs the new keys before its peer has seen
  the token. If both ends do so, each token is under keys its receiver has
  dropped. Each is passed on and refused, and no further call can bring the
  ends together short of a handshake.
* `threads_default`: the MAC's buffer belongs to the object and is used
  outside its lock. `PacketIntact` says the rest: a packet whose call no other
  met in the buffer, or with a change of keys, is right.
* `ring_old_ciphertexts`: 512-byte ciphertexts pass the length check and are
  opened without a hint, against the changelog.

## 4. Proofs

Each theorem holds for all values of the constants that satisfy the named
assumptions of its module and the ones listed here. Those that name
a property state one that a run checks too.

| Theorem | States | Assumes |
|---|---|---|
| `ReplayWindowProofs!TypeCorrect`, `NewestKept`, `ReplayNeedsBurst`, `FreshNotRefused` | the properties of `replay_window` (`ReplayOnlyAfterBurst`: of packets sent before the first wrap) | |
| `SessionPairProofs!TypeCorrect`, `HandshakesAgree` | `TypeOK`, `HandshakeAgreement` | |
| `SessionPairProofs!AcceptedOnce` | `AtMostOnce` | `FinalizeOnce`; the window has room for every packet |
| `SessionPairProofs!FreshAdmitted` | `NoFalseReplay` | `FinalizeOnce`; fewer packets than sequence numbers (`NoWrap`) |
| `SessionPairProofs!GapCanClose` | `TokenClosesGap` | the same; at most one end rotates, no packet goes to the wrong call (`OneWay`) |
| `SessionThreadsProofs!TypeCorrect`, `CachesQuiet` | `TypeOK`, `WarmCacheQuiet` | |
| `SessionThreadsProofs!NumbersUnique` | `SeqUnique` | fewer calls than sequence numbers |
| `KeyUseProofs!UseCounted` | `KeyUseCounted` | |
| `KeyUseProofs!PacketsIntact`, `PlaintextsIntact`, `RotationsIntact` | `PacketIntact`, `PlaintextIntact`, `RotationIntact`, for `OverlapSpec` | |
| `SessionThreadsRefinement!Refinement` | `RefinesAtomic` | `ExclusiveKeys`, `~SharedMac` |
| `TransportsProofs!TypeCorrect`, `AnswersAreIntact` | `TypeOK`, `AnswersIntact` | |
| `TransportsProofs!HandedOnce` | `RequestsOnce` | `NoWrap`, `NothingEvicted` |
| `TransportsProofs!CalmIsServed`, `HeardInTurn` | `CalmExchange`, `HeardInOrder` | `NoWrap` |
| `KeystreamProofs!TypeCorrect`, `CacheIsCoherent`, `CacheWithinLimit`, `Refinement` | the properties of `keystream` | |
| `RingLWEProofs!ReconcileAgrees` | both ends get the same bit | coefficients less than Q/8 apart; of the constants only that Q is odd |
| `RingLWEProofs!ModInverseInverts`, `InvNttRecovers`, `TransformConvolves`, `SecureMultiplyConvolves` | what `modInverse`, `invNTT`, the transforms together and `secureMultiply` compute | |
| `RingLWEProofs!ExchangeTyped`, `ProductsConvolve`, `EndsAgree`, `MarginSuffices` | `TypeOK`, `MultiplyIsConvolution`, `SecretsAgree`, `HintlessNeedsMargin` | |

**Replay window.** `WindowIsNewest` is made inductive by the types and by
`WindowBounded` (the window is finite and within its limit); without it an
eviction could leave a window that is not full. Lemma `AdmitCases` describes
one admission, on top of `OldestIsLeast`. When a packet is accepted again, its
number is missing from a window that is full of larger ones, each sent by now
and hence stamped no later than now plus the skew (`NoFutureStamp`), while now
is within the tolerance of the packet's stamp. For a packet sent before the
first wrap a number is a rank (`Numbering`), so whatever carries one of these
larger numbers was sent later: the window itself is the burst
(`ReplayNeedsBurst`), and `BurstKept` says later steps do not take it away.
For a packet sent after the wrap the larger numbers may be those of long ago,
and the theorem says nothing of it, because the code does nothing about it.
Until the first wrap a number in the window is that of an accepted packet
(`FreshNotRefused`).

**Session pair.** `StepEffect` sorts all steps into six kinds (`Effect`): quiet
ones, a handshake begun or finished, a packet sent or received, a session
closed. The invariants below are proved kind by kind. `HandshakesAgree`: a
secret is of the handshake that the end has noted (`FromHandshake`). The others
argue by the secret that a key goes back to. An end *owns* a secret whose
ciphertext it made or finalized (`Owners`), and ciphertexts are numbered
(`Origins`); so a session begins with a secret its end does not own, and
nothing the end sent or accepted before is under it (`NewSecret`). While the
session lasts, the window is not cleared and nothing is dropped from it
(`Room`), so what was accepted in it is in the window (`Remembered`):
`AcceptedOnce`. An end numbers the packets of a session upwards, so that two
packets under one secret and with one number are the same (`Numbered`), and
the window holds only what was accepted in the session and what it brought into
it, which `carried` notes (`OfSession`): `FreshAdmitted`. When one end rotates,
every rotation of its chain has its token on the network (`Tokens`), the other
end's chain is a beginning of it (`Chains`), and a token that was opened was
applied (`Applied`), so the token of the next rotation has not been, and opens:
`GapCanClose`. Without `FinalizeOnce` a responder can go back to the first keys
of its session, and its window after `Dispose` does not remember them.

**Threads.** `TypeInv` says in which places a thread holds the lock, and hence
that no two threads are inside a section; `OnPath` that a call stays on its
path. *Caches*: a completed multiplication has filled both maps, and a thread
about to store began before any was completed (`Caches`). *Numbers*: `sendSeq`
plus the calls that have yet to draw a number is at most the calls made, and
the numbers drawn are below `sendSeq` (`Numbers`). *Key use*: a packet is
counted in a later section than it is sealed in, so the count can be wrong
about every key but the present one; it is right about that because keys never
come back. Rotations number the keys of a handshake upwards (`KeySound`), a
handshake's keys carry the number of its call (`PendingSound`), so a key that
is installed is new and the count that starts with it is not behind
(`Counted`). *Overlap*: what a call relies on at each of its places is
`Relied`: the key it sealed with is still the key, the MAC key belongs to the
cipher key and its bytes are in place, the buffer holds what it put there, the
counter is the one in the token. Its own steps carry that on (`SelfRelied`), a
step of another thread takes it away only where it `Disturbs` the call
(`OthersRelied`), and then the call is in `met`; `BytesSound` says when bytes
are zero, which needs from the invariant of *key use* that keys never come
back. There is no assumption about the callers or the MAC: `PacketsIntact`,
`PlaintextsIntact`, `RotationsIntact`. *Discipline*: with `ExclusiveKeys` and no
shared buffer no call is ever met; `Safety` says what then holds at each place
(`Exclusive`, `KeysSound`, `CallSound`), as the refinement needs it.
*Refinement*: `SessionThreadsRefinement` proves, step by step, that each step of a thread is the abstract call that takes effect there,
or leaves the abstract state as it is; the abstract state is a function of the
places of all threads, so every step has to be shown to change it by its own
part only.

**Wrappers.** `NoWrap` says that the bounds on calls leave each end fewer
packets than there are sequence numbers, `NothingEvicted` that the window has
room for all of them; the run's constants satisfy both. Until numbers wrap, an
end never seals two packets with one number, so a packet is known by its
number and the keys it is under. What the server's window holds is what it
handed on, and the converse while nothing is evicted (`SeenIsHanded`,
`HandedIsSeen`), and of a marked packet that does not open the handler reads
nothing: `HandedOnce`. Without `NothingEvicted` a request served again
after its number has left the window is handed on again, for the reason
`ReplayNeedsBurst` gives. An exchange is calm as long as its keys are those of
both ends (`CalmKeys`), and then nothing that could be refused stands between
its request and its answer: the answer's number is not in the client's window
because no other answer carries it (`AnswersUnread`): `CalmIsServed`. Messages
of a socket wait unread in the order of their numbers (`MessagesUnread`,
`MessagesOrder`, `MessagesTurn`): `HeardInTurn`. `AnswersAreIntact` needs no
hypothesis: a body reaches the caller only by way of a packet that opened, and
a plaintext is never in the set of seals (`NilAssumption`).

**Keystream.** The invariant (`Inv`) is that a cached block is the block of its
index, the cache is finite, and a read in progress has collected the stream
from the place it was asked for: what was asked (`Request`) stays the same
while the loop moves on, so the return is the abstract answer to it. Blocks
come from `Gen` or the cache, and `CacheCoherent` makes the two the same; what is evicted does not matter.

**Key exchange.** `ParametersAssumption` asks for a prime modulus, a number of
coefficients all of whose divisors but one are even, that is, a power of two,
and a root whose N/2-th power is -1; `InputsAssumption` for inputs of the right
kind. The code's two instances satisfy the first (`MCRingLWE` evaluates it for
both), and its sampling the second.

The model's loops are recursive functions, and TLA+ lets one reason about such a
function only after it is shown to exist. `Recursion` shows it, by way of the
least element of a set of numbers (`Least`), for every definition whose value at
n depends on smaller arguments alone; `Induct` and `Count` are induction over a
set. Neither needs an induction theorem with an operator for its parameter.
From there:

1. `ModInverseInverts`: each turn of Euclid's loop keeps both remainders
   multiples of the argument modulo Q (`Behind`) and loses no common divisor
   (`Divides`); what is left divides Q, which is a prime. `PowModIsPower`:
   squaring and multiplying computes powers.
2. `TransformEvaluates`: after the pass for blocks of length L, place j of block
   b has the value, at the j-th power of a root of order L, of the terms of the
   polynomial whose index is b reversed, modulo N/L (`Evaluated`). A butterfly
   joins the even and the odd terms (`ValueSplits`) and its lower and upper end
   differ by the sign of an odd power (`RootAndOpposite`).
3. `InvNttRecovers`: the passes of the inverse evaluate at the powers of the
   inverse root. The powers of a power of a root add up to zero unless they are
   all one (`GeometricZero`), so every coefficient comes back N times
   (`Inversion`), and `InvN` takes the N away.
4. `EvalProduct`: the value of a convolution at a root of unity is the product
   of the values. With 2 and 3, `TransformConvolves`; since a factor and its
   inverse cancel (`BlindingCancels`), `SecureMultiplyConvolves`.
5. `ExchangeInv`, the inductive invariant, says what a key pair, a ciphertext
   and a decapsulation are made of: the three properties do not follow from each
   other, and none says where the hint and the bits came from. TLC was asked
   about it first, on the run's instance.
6. `FactorsCommute` and `ConvolveSum` make the common part of the ends' products
   cancel, so that they differ by the error products (`EndsDiffer`). Up to Q/8
   reconciliation absorbs that (`ReconcileAgrees`, from `Quarters`, which splits
   the circle as `helpRec` does): `EndsAgree`. Without a hint the bit is kept as
   long as no boundary is crossed (`ClearKeepsBit`): `MarginSuffices`.

How likely noise of that size is, the theorems do not say; the sampling is a
choice.

Every invariant and action property of a passing run is proved. Only
model-checked: liveness under fairness (`CallsReturn`, `RekeyConverges`), which
is out of the prover's reach, like `ENABLED`.

## 5. Not modelled

* `passphrase/`, `hash/`, `core/utils.go`, `cipher/cipher.go`, `api.go`: pure
  functions without state, and re-exports. A model of the passphrase's loop
  over its memory, or of a hash, would be compared with a copy of itself.
* The expand loop of `core/kdf.go`: the session asks it for one round and the
  derivation is a symbol here. The byte layout of the rotation payload and the
  decimal counter in its derivation: only the counter's width and what the
  parser refuses are modelled.
* The static-nonce mode (`UsePerMessageNonce = false`) and the limits
  `AfterBytes` and `IntervalMs`; `AutoRekey` is never read by the code.
* Input validation: every input has the size the code expects.
* What the model has and no property asks for, because the code does not give
  it: calls that panic under the lock or a callback that locks (`CallsReturn`
  is checked without them), a ciphertext finalized twice (`FinalizeOnce`), ends
  that disagree after a handshake without noticing, a token passed to `Decrypt`,
  rotations beyond the counter's 32 bits. `PROJECT.json` lists each among the
  hazards, with the reason.
* Messages in flight when keys change: they are lost, by design of
  `quarkdash.go:400`; `SessionPair` and `Transports` have the loss and no
  property against it, other than that nothing else is lost.
* Callers that modify a block yielded by `Blocks` (`keystream.go:131`), and
  packets of more than 64 KB, for which `SignTwo` replaces its buffer.
* In `SessionThreads` one multiplication stands for the ones of a KEM call, and
  the maps of twiddle factors hold one length. The getters only read.
* In `Transports` the conversions between bytes, strings and JSON, and header
  names; clients that mark a body as decrypted themselves; handlers that do
  not look at what they are given.
* Cryptographic strength: derivations and MACs are injective symbols.

## 6. Plan

Done: replay window, session pair, threads with their abstraction, transports,
keystream with its abstraction, key exchange; proofs of every invariant of the
windows, the session pair, the threads, the wrappers, the keystream and the key
exchange, and of both refinements.

Next, in this order:

1. A refinement of `AtomicSession` by one end of `SessionPair`, which would
   join the two views of the object in one statement.
2. The static-nonce mode in `SessionThreads`, where the cipher of a session is
   shared, and the limits `AfterBytes` and `IntervalMs`.
3. The expand loop of `core/kdf.go`, with its block number of one byte, if a
   caller ever asks for more than one round.

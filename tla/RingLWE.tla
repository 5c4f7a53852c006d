------------------------------- MODULE RingLWE -------------------------------
(***************************************************************************)
(* The key exchange of ringlwe/ringlwe.go: polynomials of N coefficients   *)
(* modulo Q, multiplied through a number-theoretic transform with an       *)
(* optional blinding factor, and the three calls GenerateKeyPair,          *)
(* Encapsulate and Decapsulate.  A polynomial is a function on 0..N-1.     *)
(*                                                                         *)
(* Randomness is a choice from the sets the constants name: the bytes      *)
(* behind the uniform polynomials, the two-bit fields of smallPoly, the    *)
(* byte sums of errorPoly, the blinding factors.  The hash of the shared   *)
(* secret is left out: ends that hash equal bits, key and ciphertext hold  *)
(* equal secrets.                                                          *)
(***************************************************************************)
EXTENDS Reconcile

CONSTANTS
    N,              \* number of coefficients, a power of two: 256
    Root,           \* an Nth root of unity modulo Q
    UniformPolys,   \* inputs: what uniformPoly draws
    SmallFields,    \* inputs: the two-bit fields smallPoly draws, per index
    ErrorSums,      \* inputs: the sums of 12 bytes errorPoly draws, per index
    Blindings       \* inputs: NTTProtectionOptions (on: Enabled and Blinding)
                    \* and the two random bytes of the factor, per product

VARIABLES
    key,      \* the responder's [a, s, b], or NoKey
    secretE,  \* history: the responder's error polynomial
    encaps,   \* what Encapsulate last made, and the secrets behind it
    decaps    \* what Decapsulate last made of that

vars == <<key, secretE, encaps, decaps>>

Index == 0 .. N - 1

(* Mistaken variant: Go's remainder without the correction of its sign. *)
NormTruncated(v) == IF v < 0 THEN -((-v) % Q) ELSE v % Q

Norm(v) == v % Q
NormalizePoly(p) == [i \in Index |-> Norm(p[i])]
-----------------------------------------------------------------------------
(* modInverse: extended Euclid; in each turn (oldR, r) and (oldS, s) step. *)
Euclid[r \in Nat] ==
    [oldR \in Nat |-> [oldS \in Int |-> [s \in Int |->
        IF r = 0 THEN oldS
        ELSE LET q == oldR \div r
             IN  Euclid[oldR - q * r][r][s][oldS - q * s]]]]

ModInverse(a, m) == Euclid[m][a][1][0] % m

(* powMod: square and multiply. *)
PowMod[exp \in Nat] ==
    [base \in Nat |->
        IF exp = 0 THEN 1
        ELSE LET square == PowMod[exp \div 2][(base * base) % Q]
             IN  IF exp % 2 = 1 THEN (square * base) % Q ELSE square]

(* bitReverse: the carry of the loop over j counts in reversed binary. *)
Reversed[n \in Nat] ==
    [i \in Nat |->
        IF n < 2 THEN 0
        ELSE (i % 2) * (n \div 2) + Reversed[n \div 2][i \div 2]]

BitReverse(p) == [i \in Index |-> p[Reversed[N][i]]]

(* One pass of butterflies over blocks of the given length. *)
Butterflies(p, length, wlen) ==
    LET half == length \div 2
    IN  [k \in Index |->
            LET j == k % half
                top == (k \div length) * length + j
                v == (p[top + half] * PowMod[j][wlen]) % Q
            IN  IF k % length < half
                  THEN (p[top] + v) % Q
                  ELSE (p[top] - v + Q) % Q]

Wlen(length) == PowMod[N \div length][Root]

(* Mistaken variant: the inverse transform forgets to invert. *)
InvWlenForward(length) == Wlen(length)

InvWlen(length) == ModInverse(Wlen(length), Q)

(* The passes over blocks of two, of four and so on, up to all of p; w has *)
(* the root for each length.                                               *)
Lengths == {length \in 1 .. N : N % length = 0}

ASSUME ParametersAssumption ==
    /\ Q > 1 /\ \A d \in 2 .. Q - 1 : Q % d # 0            \* a prime
    /\ N \in Nat /\ N > 1                                  \* a power of two
    /\ \A length \in Lengths : length = 1 \/ length % 2 = 0
    /\ Root \in Nat /\ PowMod[N \div 2][Root] = Q - 1      \* of order N

Transform(p, w) ==
    LET pass[length \in Lengths] ==
            IF length = 1 THEN BitReverse(p)
            ELSE Butterflies(pass[length \div 2], length, w[length])
    IN  pass[N]

Ntt(p) == Transform(p, [length \in Lengths |-> Wlen(length)])

InvNtt(p) ==
    LET r == Transform(p, [length \in Lengths |-> InvWlen(length)])
        invN == ModInverse(N, Q)
    IN  [i \in Index |-> (r[i] * invN) % Q]

(* The blinding factor is never zero. *)
BlindFactor(bytes) == 1 + (bytes % (Q - 1))

Scale(p, factor) == [i \in Index |-> (p[i] * factor) % Q]

(* secureMultiply: one operand times the factor, the other times its       *)
(* inverse.  The double check recomputes the same value and is left out.   *)
SecureMultiply(a, b, blinding) ==
    LET bf == BlindFactor(blinding.bytes)
        aEff == IF blinding.on THEN Scale(NormalizePoly(a), bf)
                               ELSE NormalizePoly(a)
        bEff == IF blinding.on THEN Scale(NormalizePoly(b), ModInverse(bf, Q))
                               ELSE NormalizePoly(b)
        x == Ntt(aEff)
        y == Ntt(bEff)
    IN  InvNtt([i \in Index |-> (x[i] * y[i]) % Q])

Plus(p, q) == [i \in Index |-> Norm(p[i] + q[i])]
-----------------------------------------------------------------------------
ASSUME InputsAssumption ==
    /\ UniformPolys \subseteq [Index -> Coefficients]
    /\ SmallFields \subseteq [Index -> 0 .. 3]
    /\ ErrorSums \subseteq [Index -> Nat]
    /\ Blindings \subseteq [on : BOOLEAN, bytes : Nat]

(* smallPoly: of four values two give 1. *)
SmallPoly(fields) ==
    [i \in Index |-> CASE fields[i] = 0 -> -1
                       [] fields[i] = 1 -> 0
                       [] OTHER -> 1]

(* errorPoly: floor((sum / 255 - 6) * 3.19), between -20 and 19. *)
ErrorPoly(sums) == [i \in Index |-> (319 * (sums[i] - 1530)) \div 25500]

(* A serialized polynomial comes back with its coefficients in 0..Q-1. *)
Wire(p) == NormalizePoly(p)

RoundToBits(p) == [i \in Index |-> RoundBit(p[i])]
Hint(p) == [i \in Index |-> HelpRec(p[i])]
RecToBits(p, hint) == [i \in Index |-> Rec(p[i], hint[i])]

None == [made |-> FALSE]

Init ==
    /\ key = None
    /\ secretE = None
    /\ encaps = None
    /\ decaps = None

GenerateKeyPair ==
    /\ ~key.made
    /\ \E a \in UniformPolys, f \in SmallFields, sums \in ErrorSums,
          r \in Blindings :
          LET s == SmallPoly(f)
              e == ErrorPoly(sums)
          IN  /\ key' = [made |-> TRUE, a |-> Wire(a), s |-> Wire(s),
                         b |-> Wire(Plus(SecureMultiply(a, s, r), e))]
              /\ secretE' = e
    /\ UNCHANGED <<encaps, decaps>>

(* Each of the two products draws a blinding of its own. *)
Encapsulate ==
    /\ key.made
    /\ \E f \in SmallFields, sums \in ErrorSums, r, t \in Blindings :
          /\ r.on = t.on
          /\ LET s == SmallPoly(f)
                 e == ErrorPoly(sums)
                 w == SecureMultiply(key.b, s, t)
             IN  encaps' = [made |-> TRUE,
                            u |-> Wire(Plus(SecureMultiply(key.a, s, r), e)),
                            hint |-> Hint(w), bits |-> RoundToBits(w),
                            w |-> w, s |-> s, e |-> e]
    /\ decaps' = None
    /\ UNCHANGED <<key, secretE>>

(* The hint may be missing: a ciphertext of the older length holds only u, *)
(* and the responder then rounds what it has.                              *)
Decapsulate ==
    /\ encaps.made
    /\ \E hinted \in BOOLEAN, r \in Blindings :
          LET w == SecureMultiply(encaps.u, key.s, r)
          IN  decaps' = [made |-> TRUE, hinted |-> hinted, w |-> w,
                         bits |-> IF hinted THEN RecToBits(w, encaps.hint)
                                            ELSE RoundToBits(w)]
    /\ UNCHANGED <<key, secretE, encaps>>

Next == GenerateKeyPair \/ Encapsulate \/ Decapsulate

Spec == Init /\ [][Next]_vars
-----------------------------------------------------------------------------
(* The sum of f[0] up to f[n - 1]. *)
Sum(f, n) ==
    LET sum[m \in 0 .. n] == IF m = 0 THEN 0 ELSE sum[m - 1] + f[m - 1]
    IN  sum[n]

(* The product the transform is meant to compute: multiplication modulo    *)
(* x^N - 1, coefficient by coefficient.                                    *)
Convolve(p, q) ==
    [k \in Index |-> Norm(Sum([i \in Index |-> p[i] * q[(k - i) % N]], N))]

(* The type invariant: every coefficient on the wire is in 0..Q-1. *)
TypeOK ==
    /\ key.made => \A i \in Index : {key.a[i], key.b[i], key.s[i]}
                                        \subseteq Coefficients
    /\ encaps.made => \A i \in Index : /\ encaps.u[i] \in Coefficients
                                       /\ encaps.hint[i] \in {0, 1}
    /\ decaps.made => \A i \in Index : decaps.bits[i] \in {0, 1}

(* The transform, its inverse, the shuffle, the inverses modulo Q and the  *)
(* blinding together multiply polynomials: every product of a handshake is *)
(* the convolution of its operands, whatever factor blinded it.            *)
MultiplyIsConvolution ==
    /\ key.made => key.b = Plus(Convolve(key.a, key.s), secretE)
    /\ encaps.made => /\ encaps.u = Plus(Convolve(key.a, encaps.s), encaps.e)
                      /\ encaps.w = Convolve(key.b, encaps.s)
    /\ decaps.made => decaps.w = Convolve(encaps.u, key.s)

(* How far apart the ends' coefficients are: the two error products.       *)
Noise == [i \in Index |-> Norm(Convolve(encaps.e, key.s)[i]
                                 - Convolve(secretE, encaps.s)[i])]

(* Both ends compute the same bits from a ciphertext with a hint whenever  *)
(* the noise stays below Q/8 in each coefficient.                          *)
SecretsAgree ==
    decaps.made /\ decaps.hinted /\ (\A i \in Index : Close(0, Noise[i]))
        => decaps.bits = encaps.bits

(* Noise of this size takes a coefficient across neither rounding boundary,*)
(* 0 or Q/2.                                                               *)
Clear(v, noise) == /\ Gap(0, noise) < Gap(0, v)
                   /\ 2 * Gap(0, noise) < (IF 2 * v > Q THEN 2 * v - Q
                                                        ELSE Q - 2 * v)

(* Without a hint there is no tolerance of Q/8 to rely on: the bits of the *)
(* ends agree as long as the noise keeps each coefficient on its own side  *)
(* of both boundaries, however little noise there is.                      *)
HintlessNeedsMargin ==
    decaps.made /\ ~decaps.hinted
    /\ (\A i \in Index : Clear(encaps.w[i], Noise[i]))
        => decaps.bits = encaps.bits

(* What CHANGELOG.md:13 says of the ciphertext's new size ("Old 512-byte   *)
(* messages will no longer pass verification"): Decapsulate never returns  *)
(* a secret for a ciphertext without a hint.                               *)
OldCiphertextsRefused == decaps.made => decaps.hinted
=============================================================================

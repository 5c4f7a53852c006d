------------------------------ MODULE MCRingLWE ------------------------------
(***************************************************************************)
(* Four coefficients modulo 97, with 22 a fourth root of unity.  The noise *)
(* of these draws lies on both sides of 97/8.  The parameters the code     *)
(* ships are checked for what the transform asks of them.                  *)
(***************************************************************************)
EXTENDS RingLWE, TLC

Poly(c0, c1, c2, c3) == (0 :> c0) @@ (1 :> c1) @@ (2 :> c2) @@ (3 :> c3)

Uniform == {Poly(5, 96, 40, 61), Poly(0, 13, 88, 2)}
Fields == {Poly(0, 1, 2, 3), Poly(3, 3, 0, 2), Poly(0, 0, 0, 0)}
Sums == {Poly(1530, 1500, 1620, 1450), Poly(1530, 1530, 1620, 1530),
         Poly(1200, 1860, 1400, 1500)}
Blinds == {[on |-> TRUE, bytes |-> 0], [on |-> TRUE, bytes |-> 40000],
           [on |-> FALSE, bytes |-> 0]}

(* What ParametersAssumption asks, for NewRingLWE and NewRRLWE: a prime Q, *)
(* N a power of two and Root^(N/2) = -1 modulo Q.                          *)
RECURSIVE Power(_, _, _)
Power(base, exp, m) ==
    IF exp = 0 THEN 1
    ELSE (Power((base * base) % m, exp \div 2, m)
             * (IF exp % 2 = 1 THEN base ELSE 1)) % m

ASSUME ShippedParameters ==
    /\ \A m \in {7681, 12289} : \A d \in 2 .. m - 1 : m % d # 0
    /\ \A length \in 2 .. 256 : 256 % length = 0 => length % 2 = 0
    /\ Power(5685, 128, 7681) = 7681 - 1
    /\ Power(8340, 128, 12289) = 12289 - 1
==============================================================================

------------------------------ MODULE Reconcile ------------------------------
(***************************************************************************)
(* How two ends of the key exchange get the same bit out of two close      *)
(* coefficients modulo Q (ringlwe/ringlwe.go): the initiator rounds its    *)
(* own and sends a one-bit hint, the responder corrects its own with the   *)
(* hint.  The code's comparisons of 2v, 4v and 8v with multiples of Q keep *)
(* everything in integers, and so does this module.                        *)
(***************************************************************************)
EXTENDS Integers

CONSTANT Q  \* the modulus: 7681 or 12289

ASSUME ModulusAssumption == Q \in Nat /\ Q % 2 = 1

Coefficients == 0 .. Q - 1

(* Mistaken variant: the first quarter rounds down, not the first half. *)
RoundBitQuarter(v) == IF 4 * v > Q THEN 1 ELSE 0

(* roundToBits: the initiator's bit. *)
RoundBit(v) == IF 2 * v > Q THEN 1 ELSE 0

(* Mistaken variant: the hint repeats the bit. *)
HelpRecIsBit(v) == IF 2 * v < Q THEN 0 ELSE 1

(* helpRec: which half of its half circle v lies in. *)
HelpRec(v) ==
    IF 4 * v < Q \/ (2 * v >= Q /\ 4 * v < 3 * Q) THEN 0 ELSE 1

(* rec: 8v is compared with the centres of the two quarters the hint       *)
(* allows, around a circle of 8Q.                                          *)
Dist(x, target) ==
    LET d == IF x < target THEN target - x ELSE x - target
    IN  IF d > 4 * Q THEN 8 * Q - d ELSE d

Rec(v, hint) ==
    LET c0 == IF hint = 0 THEN Q ELSE 3 * Q
        c1 == IF hint = 0 THEN 5 * Q ELSE 7 * Q
    IN  IF Dist(8 * v, c0) < Dist(8 * v, c1) THEN 0 ELSE 1

(* The distance of two coefficients around the circle of Q. *)
Gap(v, w) ==
    LET d == IF v < w THEN w - v ELSE v - w
    IN  IF 2 * d > Q THEN Q - d ELSE d

(* Two coefficients less than an eighth of the circle apart reconcile.     *)
Close(v, w) == 8 * Gap(v, w) < Q
=============================================================================

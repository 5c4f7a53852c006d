---------------------------- MODULE RingLWEProofs ----------------------------
(***************************************************************************)
(* The key exchange of ringlwe/ringlwe.go is correct for every odd prime   *)
(* modulus, every number of coefficients that is a power of two and every  *)
(* root of unity of that order: its products are convolutions, and its     *)
(* ends agree whenever the noise is small enough.                          *)
(*                                                                         *)
(* The argument, from the bottom up.  A recursive function is shown to     *)
(* exist before it is reasoned about (Recursion).  The passes of a         *)
(* transform evaluate a polynomial at the powers of a root: a pass joins   *)
(* the values of the even and the odd terms (TransformEvaluates).  The     *)
(* inverse transform evaluates at the inverse powers and divides by N;     *)
(* since the powers of a root cancel out (GeometricZero) that gives the    *)
(* coefficients back (InvNttRecovers).  Values of a convolution are        *)
(* products of values (EvalProduct), so secureMultiply convolves, blinded  *)
(* or not (SecureMultiplyConvolves).  The ends' products then differ by    *)
(* the two error products alone (EndsDiffer), which reconciliation         *)
(* tolerates up to an eighth of the modulus (ReconcileAgrees).             *)
(***************************************************************************)
EXTENDS RingLWE, WellFoundedInduction, TLAPS

-----------------------------------------------------------------------------
(***************************************************************************)
(* Induction and recursion.  A set that contains a number whenever it      *)
(* contains all smaller ones contains every number; a function defined by  *)
(* recursion on numbers exists.  Both come from the least element of a set. *)
(***************************************************************************)

(* A set of numbers that is not empty has a least element. *)
LEMMA Least ==
    ASSUME NEW S \in SUBSET Nat, S # {}
    PROVE  \E m \in S : \A k \in S : m <= k
<1> DEFINE Less == {ss \in Nat \X Nat : ss[1] < ss[2]}
<1>1. IsWellFoundedOn(Less, Nat)
  BY NatLessThanWellFounded DEF OpToRel
<1>2. PICK m \in S : \A k \in S : <<k, m>> \notin Less
  <2> HIDE DEF Less
  <2> QED
    BY <1>1, WFMin
<1>3. \A k \in S : m <= k
  <2> TAKE k \in S
  <2>1. ~(k < m)
    BY <1>2
  <2> QED
    BY <2>1
<1> QED
  BY <1>3

(* Complete induction: a set that contains a number whenever it contains   *)
(* all smaller ones contains them all.                                     *)
LEMMA Induct ==
    ASSUME NEW S, \A n \in Nat : (\A m \in 0 .. n - 1 : m \in S) => n \in S
    PROVE  Nat \subseteq S
<1> SUFFICES ASSUME Nat \ S # {} PROVE FALSE
  OBVIOUS
<1>1. PICK m \in Nat \ S : \A k \in Nat \ S : m <= k
  BY Least
<1>2. \A k \in 0 .. m - 1 : k \in S
  BY <1>1
<1> QED
  BY <1>1, <1>2

(* Induction from each number to the next. *)
LEMMA Count ==
    ASSUME NEW S, 0 \in S, \A n \in Nat : n \in S => n + 1 \in S
    PROVE  Nat \subseteq S
<1>1. ASSUME NEW n \in Nat, \A m \in 0 .. n - 1 : m \in S
      PROVE  n \in S
  <2>1. CASE n = 0
    BY <2>1
  <2>2. CASE n # 0
    <3>1. n - 1 \in Nat /\ n - 1 \in S /\ (n - 1) + 1 = n
      BY <1>1, <2>2
    <3> QED
      BY <3>1
  <2> QED
    BY <2>1, <2>2
<1> QED
  BY <1>1, Induct

(* Definitions by recursion over D with values in X: step[n] makes the     *)
(* value at n from a function, of which it sees only the values below n.   *)
Steps(D, X) ==
    {step \in [D -> [[D -> X] -> X]] :
        \A n \in D : \A g, h \in [D -> X] :
            (\A m \in D : m < n => g[m] = h[m]) => step[n][g] = step[n][h]}

(* The functions that satisfy such a definition. *)
Follows(D, X, step) == {f \in [D -> X] : \A n \in D : f[n] = step[n][f]}

(* There is one.  The functions that satisfy the definition below a bound  *)
(* exist for every bound and agree with each other; the one sought takes   *)
(* each value from the one for the next bound.                             *)
LEMMA Recursion ==
    ASSUME NEW D \in SUBSET Nat, NEW X, NEW x \in X,
           NEW step \in Steps(D, X)
    PROVE  Follows(D, X, step) # {}
<1> SUFFICES \E f \in [D -> X] : \A n \in D : f[n] = step[n][f]
  BY DEF Follows
<1>0. /\ step \in [D -> [[D -> X] -> X]]
      /\ \A n \in D : \A g, h \in [D -> X] :
            (\A m \in D : m < n => g[m] = h[m]) => step[n][g] = step[n][h]
  BY DEF Steps
<1> USE <1>0
<1> DEFINE Good(n) ==
        {g \in [D -> X] : \A m \in D : m < n => g[m] = step[m][g]}
<1>1. \A n \in Nat : Good(n) # {}
  <2> DEFINE S == {n \in Nat : Good(n) # {}}
  <2>1. 0 \in S
    <3>1. [n \in D |-> x] \in Good(0)
      OBVIOUS
    <3> QED
      BY <3>1
  <2>2. ASSUME NEW n \in Nat, n \in S
        PROVE  n + 1 \in S
    <3>0. PICK g \in Good(n) : TRUE
      BY <2>2
    <3>1. g \in [D -> X] /\ \A m \in D : m < n => g[m] = step[m][g]
      BY <3>0
    <3>2. \A m \in D : m < n + 1 <=> (m < n \/ m = n)
      OBVIOUS
    <3>3. CASE n \notin D
      <4>1. g \in Good(n + 1)
        BY <3>1, <3>2, <3>3
      <4> HIDE DEF Good
      <4> QED
        BY <4>1
    <3>4. CASE n \in D
      <4> DEFINE h == [g EXCEPT ![n] = step[n][g]]
      <4>1. h \in [D -> X] /\ h[n] = step[n][g]
            /\ \A m \in D : m < n => h[m] = g[m]
        BY <3>1, <3>4
      <4> HIDE DEF h, Good
      <4>2. step[n][g] = step[n][h]
        BY <3>1, <3>4, <4>1
      <4>3. \A m \in D : m < n => h[m] = step[m][h]
        <5> SUFFICES ASSUME NEW m \in D, m < n PROVE h[m] = step[m][h]
          OBVIOUS
        <5>1. \A k \in D : k < m => g[k] = h[k]
          BY <4>1
        <5>2. step[m][g] = step[m][h]
          BY <3>1, <4>1, <5>1
        <5> QED
          BY <3>1, <4>1, <5>2
      <4>4. \A m \in D : m < n + 1 => h[m] = step[m][h]
        BY <3>2, <4>1, <4>2, <4>3
      <4>5. h \in Good(n + 1)
        BY <4>1, <4>4 DEF Good
      <4> QED
        BY <4>5
    <3> QED
      BY <3>3, <3>4
  <2> HIDE DEF S
  <2>3. Nat \subseteq S
    BY <2>1, <2>2, Count
  <2> QED
    BY <2>3 DEF S
<1>2. ASSUME NEW n \in Nat, NEW g \in Good(n), NEW h \in Good(n)
      PROVE  \A m \in D : m < n => g[m] = h[m]
  <2> DEFINE S == {m \in Nat : m \in D /\ m < n => g[m] = h[m]}
  <2>1. ASSUME NEW m \in Nat, \A k \in 0 .. m - 1 : k \in S
        PROVE  m \in S
    <3> SUFFICES ASSUME m \in D, m < n PROVE g[m] = h[m]
      OBVIOUS
    <3>1. \A k \in D : k < m => g[k] = h[k]
      BY <2>1
    <3>2. step[m][g] = step[m][h]
      BY <3>1
    <3> QED
      BY <3>2
  <2> HIDE DEF S
  <2>2. Nat \subseteq S
    BY <2>1, Induct
  <2> QED
    BY <2>2 DEF S
<1> DEFINE G(n) == CHOOSE g \in Good(n + 1) : TRUE
<1> DEFINE f == [n \in D |-> G(n)[n]]
<1>3. \A n \in D : G(n) \in Good(n + 1)
  <2> HIDE DEF Good
  <2> QED
    BY <1>1
<1>4. \A n \in D : /\ G(n) \in [D -> X]
                   /\ \A m \in D : m < n + 1 => G(n)[m] = step[m][G(n)]
  <2> HIDE DEF G
  <2> QED
    BY <1>3
<1>5. f \in [D -> X]
  <2> HIDE DEF G
  <2> QED
    BY <1>4
<1>6. ASSUME NEW n \in D, NEW m \in D, m < n
      PROVE  G(n)[m] = G(m)[m]
  <2>1. \A k \in D : k < m + 1 => k < n + 1
    <3>1. n \in Nat /\ m \in Nat
      OBVIOUS
    <3>2. \A k \in Nat : k < m + 1 => k < n + 1
      BY <1>6, <3>1
    <3> QED
      BY <3>2
  <2>2. G(n) \in Good(m + 1) /\ G(m) \in Good(m + 1)
    <3> HIDE DEF G
    <3> QED
      BY <1>4, <2>1
  <2> HIDE DEF G, Good
  <2>3. m + 1 \in Nat /\ m < m + 1
    OBVIOUS
  <2> QED
    BY <1>2, <2>2, <2>3
<1>7. ASSUME NEW n \in D
      PROVE  f[n] = step[n][f]
  <2> HIDE DEF G, Good
  <2>1. n < n + 1
    OBVIOUS
  <2>2. G(n)[n] = step[n][G(n)]
    BY <1>4, <2>1
  <2>3. \A m \in D : m < n => G(n)[m] = f[m]
    BY <1>6
  <2>4. f[n] = G(n)[n]
    OBVIOUS
  <2> HIDE DEF f
  <2>5. step[n][G(n)] = step[n][f]
    BY <1>4, <1>5, <2>3
  <2> QED
    BY <2>2, <2>4, <2>5
<1> HIDE DEF f
<1> QED
  BY <1>5, <1>7

-----------------------------------------------------------------------------
(* Remainders modulo Q. *)

(* A remainder and its quotient. *)
LEMMA DivMod ==
    ASSUME NEW a \in Int
    PROVE  /\ a = Q * (a \div Q) + Norm(a)
           /\ Norm(a) \in Int /\ 0 <= Norm(a) /\ Norm(a) < Q
           /\ a \div Q \in Int
BY ModulusAssumption, ParametersAssumption DEF Norm

(* It is the only one. *)
LEMMA NormUnique ==
    ASSUME NEW k \in Int, NEW r \in Int, 0 <= r, r < Q
    PROVE  Norm(Q * k + r) = r
<1>0. Q \in Int /\ Q > 1
  BY ModulusAssumption, ParametersAssumption
<1> DEFINE a == Q * k + r
<1>1. a \in Int
  BY <1>0
<1>2. /\ a = Q * (a \div Q) + Norm(a)
      /\ Norm(a) \in Int /\ 0 <= Norm(a) /\ Norm(a) < Q
      /\ a \div Q \in Int
  BY <1>1, DivMod
<1> DEFINE q == a \div Q
           n == Norm(a)
           e == k - q
<1>3. e \in Int /\ Q * e = n - r
  <2>1. Q * k + r = Q * q + n /\ q \in Int /\ n \in Int
    BY <1>2
  <2> HIDE DEF q, n
  <2> QED
    BY <1>0, <2>1
<1> HIDE DEF e
<1>4. ~(e >= 1)
  BY <1>0, <1>2, <1>3
<1>5. ~(e <= -1)
  BY <1>0, <1>2, <1>3
<1>6. e = 0
  BY <1>3, <1>4, <1>5
<1> QED
  BY <1>0, <1>2, <1>3, <1>6

(* Norm yields coefficients and leaves them alone. *)
LEMMA NormFacts ==
    /\ \A a \in Int : Norm(a) \in Coefficients /\ Norm(a) \in Int
    /\ \A a \in Coefficients : a \in Int /\ Norm(a) = a
    /\ Q \in Int /\ Q > 1
<1>0. Q \in Int /\ Q > 1
  BY ModulusAssumption, ParametersAssumption
<1>1. ASSUME NEW a \in Coefficients PROVE a \in Int /\ Norm(a) = a
  <2>1. a \in Int /\ 0 <= a /\ a < Q /\ 0 \in Int /\ Q * 0 + a = a
    BY <1>0 DEF Coefficients
  <2>2. Norm(Q * 0 + a) = a
    BY <2>1, NormUnique
  <2> QED
    BY <2>1, <2>2
<1>2. ASSUME NEW a \in Int PROVE Norm(a) \in Coefficients /\ Norm(a) \in Int
  BY <1>0, DivMod DEF Coefficients
<1> QED
  BY <1>0, <1>1, <1>2

(* A multiple of the modulus does not count. *)
LEMMA NormShift ==
    ASSUME NEW a \in Int, NEW k \in Int
    PROVE  Norm(a + Q * k) = Norm(a)
<1>0. Q \in Int
  BY NormFacts
<1>1. /\ a = Q * (a \div Q) + Norm(a)
      /\ Norm(a) \in Int /\ 0 <= Norm(a) /\ Norm(a) < Q
      /\ a \div Q \in Int
  BY DivMod
<1> DEFINE q == a \div Q
           r == Norm(a)
<1> HIDE DEF q, r
<1>2. /\ a = Q * q + r /\ r \in Int /\ 0 <= r /\ r < Q /\ q \in Int
  BY <1>1 DEF q, r
<1>3. q + k \in Int /\ a + Q * k = Q * (q + k) + r
  BY <1>0, <1>2
<1>4. Norm(Q * (q + k) + r) = r
  BY <1>2, <1>3, NormUnique
<1> QED
  BY <1>3, <1>4 DEF r

(* Numbers with the same remainder are a multiple of Q apart. *)
LEMMA NormSame ==
    ASSUME NEW a \in Int, NEW b \in Int, Norm(a) = Norm(b)
    PROVE  \E k \in Int : a = b + Q * k
<1>0. Q \in Int
  BY NormFacts
<1>1. /\ a = Q * (a \div Q) + Norm(a) /\ b = Q * (b \div Q) + Norm(b)
      /\ Norm(a) \in Int
      /\ a \div Q \in Int /\ b \div Q \in Int
  BY DivMod
<1> DEFINE k == a \div Q - b \div Q
<1>2. k \in Int /\ a = b + Q * k
  BY <1>0, <1>1
<1> HIDE DEF k
<1> QED
  BY <1>2

(* Remainders of sums, differences and products depend on the remainders   *)
(* of the operands only.                                                   *)
LEMMA NormArith ==
    ASSUME NEW a \in Int, NEW b \in Int, NEW c \in Int, NEW d \in Int,
           Norm(a) = Norm(b), Norm(c) = Norm(d)
    PROVE  /\ Norm(a + c) = Norm(b + d)
           /\ Norm(a - c) = Norm(b - d)
           /\ Norm(a * c) = Norm(b * d)
<1>0. Q \in Int
  BY NormFacts
<1>1. PICK k \in Int : a = b + Q * k
  BY NormSame
<1>2. PICK l \in Int : c = d + Q * l
  BY NormSame
<1>3. /\ a + c = (b + d) + Q * (k + l)
      /\ k + l \in Int /\ b + d \in Int
  BY <1>0, <1>1, <1>2
<1>4. /\ a - c = (b - d) + Q * (k - l)
      /\ k - l \in Int /\ b - d \in Int
  BY <1>0, <1>1, <1>2
<1>5. /\ a * c = b * d + Q * (b * l + k * d + Q * k * l)
      /\ b * l + k * d + Q * k * l \in Int /\ b * d \in Int
  BY <1>0, <1>1, <1>2
<1>6. /\ Norm((b + d) + Q * (k + l)) = Norm(b + d)
      /\ Norm((b - d) + Q * (k - l)) = Norm(b - d)
  BY <1>3, <1>4, NormShift
<1>7. Norm(b * d + Q * (b * l + k * d + Q * k * l)) = Norm(b * d)
  BY <1>5, NormShift
<1> QED
  BY <1>3, <1>4, <1>5, <1>6, <1>7

(* A remainder may be taken on the way. *)
LEMMA NormPlus ==
    ASSUME NEW a \in Int, NEW b \in Int
    PROVE  /\ Norm(Norm(a) + b) = Norm(a + b)
           /\ Norm(a + Norm(b)) = Norm(a + b)
           /\ Norm(Norm(a) + Norm(b)) = Norm(a + b)
<1> DEFINE m == Norm(a)
           n == Norm(b)
<1>1. m \in Int /\ Norm(m) = Norm(a) /\ n \in Int /\ Norm(n) = Norm(b)
  BY NormFacts
<1> HIDE DEF m, n
<1>2. Norm(m + b) = Norm(a + b)
  BY <1>1, NormArith
<1>3. Norm(a + n) = Norm(a + b)
  BY <1>1, NormArith
<1>4. Norm(m + n) = Norm(a + b)
  BY <1>1, NormArith
<1> QED
  BY <1>2, <1>3, <1>4 DEF m, n

(* The same for a difference. *)
LEMMA NormMinus ==
    ASSUME NEW a \in Int, NEW b \in Int
    PROVE  /\ Norm(Norm(a) - b) = Norm(a - b)
           /\ Norm(a - Norm(b)) = Norm(a - b)
           /\ Norm(Norm(a) - Norm(b)) = Norm(a - b)
<1> DEFINE m == Norm(a)
           n == Norm(b)
<1>1. m \in Int /\ Norm(m) = Norm(a) /\ n \in Int /\ Norm(n) = Norm(b)
  BY NormFacts
<1> HIDE DEF m, n
<1>2. Norm(m - b) = Norm(a - b)
  BY <1>1, NormArith
<1>3. Norm(a - n) = Norm(a - b)
  BY <1>1, NormArith
<1>4. Norm(m - n) = Norm(a - b)
  BY <1>1, NormArith
<1> QED
  BY <1>2, <1>3, <1>4 DEF m, n

(* The same for a product. *)
LEMMA NormTimes ==
    ASSUME NEW a \in Int, NEW b \in Int
    PROVE  /\ Norm(Norm(a) * b) = Norm(a * b)
           /\ Norm(a * Norm(b)) = Norm(a * b)
           /\ Norm(Norm(a) * Norm(b)) = Norm(a * b)
<1> DEFINE m == Norm(a)
           n == Norm(b)
<1>1. m \in Int /\ Norm(m) = Norm(a) /\ n \in Int /\ Norm(n) = Norm(b)
  BY NormFacts
<1> HIDE DEF m, n
<1>2. Norm(m * b) = Norm(a * b)
  BY <1>1, NormArith
<1>3. Norm(a * n) = Norm(a * b)
  BY <1>1, NormArith
<1>4. Norm(m * n) = Norm(a * b)
  BY <1>1, NormArith
<1> QED
  BY <1>2, <1>3, <1>4 DEF m, n

-----------------------------------------------------------------------------
(* Sums. *)

(* What the recursion of Sum computes. *)
LEMMA SumFunction ==
    ASSUME NEW n \in Nat, NEW f, \A i \in 0 .. n - 1 : f[i] \in Int
    PROVE  \E g \in [0 .. n -> Int] :
              /\ \A m \in 0 .. n :
                    g[m] = IF m = 0 THEN 0 ELSE g[m - 1] + f[m - 1]
              /\ Sum(f, n) = g[n]
<1> DEFINE D == 0 .. n
           X == Int
           x == 0
           step == [m \in D |-> [g \in [D -> X] |->
                       IF m = 0 THEN 0 ELSE g[m - 1] + f[m - 1]]]
           E(g) == [m \in D |-> IF m = 0 THEN 0 ELSE g[m - 1] + f[m - 1]]
<1>1. step \in Steps(D, X)
  <2>1. step \in [D -> [[D -> X] -> X]]
    OBVIOUS
  <2>2. \A m \in D : \A g, h \in [D -> X] :
           (\A k \in D : k < m => g[k] = h[k]) => step[m][g] = step[m][h]
    OBVIOUS
  <2> HIDE DEF step, D, X
  <2> QED
    BY <2>1, <2>2 DEF Steps
<1>2. D \in SUBSET Nat /\ x \in X
  OBVIOUS
<1>3. \E g \in [D -> X] : \A m \in D : g[m] = step[m][g]
  <2> HIDE DEF step, D, X, x
  <2>1. Follows(D, X, step) # {}
    BY <1>1, <1>2, Recursion
  <2> QED
    BY <2>1 DEF Follows
<1>4. \E g : g = E(g)
  BY <1>3
<1> DEFINE s == CHOOSE g : g = E(g)
<1>5. s = E(s)
  <2> HIDE DEF E
  <2> QED
    BY <1>4
<1>6. Sum(f, n) = s[n]
  BY DEF Sum
<1> HIDE DEF s
<1>7. \A m \in D : s[m] = IF m = 0 THEN 0 ELSE s[m - 1] + f[m - 1]
  BY <1>5
<1>8. \A m \in D : s[m] \in Int
  <2> DEFINE S == {m \in Nat : m \in D => s[m] \in Int}
  <2>1. 0 \in S
    BY <1>7
  <2>2. ASSUME NEW m \in Nat, m \in S PROVE m + 1 \in S
    <3> SUFFICES ASSUME m + 1 \in D PROVE s[m + 1] \in Int
      OBVIOUS
    <3>1. m \in D /\ s[m] \in Int /\ f[m] \in Int
      BY <2>2
    <3>2. s[m + 1] = s[m] + f[m]
      BY <1>7
    <3> QED
      BY <3>1, <3>2
  <2> HIDE DEF S
  <2>3. Nat \subseteq S
    BY <2>1, <2>2, Count
  <2> QED
    BY <2>3 DEF S
<1>9. s \in [D -> Int]
  <2>1. s = [m \in D |-> s[m]]
    BY <1>5
  <2> HIDE DEF D
  <2> QED
    BY <1>8, <2>1
<1> QED
  BY <1>6, <1>7, <1>9

(* An empty sum is zero, and the last summand can be split off. *)
LEMMA SumFacts ==
    ASSUME NEW n \in Nat, NEW f, \A i \in 0 .. n - 1 : f[i] \in Int
    PROVE  /\ Sum(f, n) \in Int
           /\ n = 0 => Sum(f, n) = 0
           /\ n # 0 => Sum(f, n) = Sum(f, n - 1) + f[n - 1]
<1>1. PICK g \in [0 .. n -> Int] :
         /\ \A m \in 0 .. n : g[m] = IF m = 0 THEN 0 ELSE g[m - 1] + f[m - 1]
         /\ Sum(f, n) = g[n]
  BY SumFunction
<1>2. Sum(f, n) \in Int /\ (n = 0 => Sum(f, n) = 0)
  BY <1>1
<1>3. ASSUME n # 0
      PROVE  Sum(f, n) = Sum(f, n - 1) + f[n - 1]
  <2> DEFINE p == n - 1
  <2>1. p \in Nat /\ n = p + 1 /\ \A i \in 0 .. p - 1 : f[i] \in Int
    BY <1>3
  <2> HIDE DEF p
  <2>2. PICK h \in [0 .. p -> Int] :
           /\ \A m \in 0 .. p :
                 h[m] = IF m = 0 THEN 0 ELSE h[m - 1] + f[m - 1]
           /\ Sum(f, p) = h[p]
    BY <2>1, SumFunction
  <2> DEFINE S == {m \in Nat : m <= p => g[m] = h[m]}
  <2>3. 0 \in S
    BY <1>1, <2>1, <2>2
  <2>4. ASSUME NEW m \in Nat, m \in S PROVE m + 1 \in S
    <3> SUFFICES ASSUME m + 1 <= p PROVE g[m + 1] = h[m + 1]
      OBVIOUS
    <3>1. g[m] = h[m]
      BY <2>1, <2>4
    <3>2. /\ m + 1 \in 0 .. p /\ m + 1 \in 0 .. n
          /\ m + 1 # 0 /\ (m + 1) - 1 = m
      BY <2>1
    <3>3. g[m + 1] = g[m] + f[m]
      BY <1>1, <3>2
    <3>4. h[m + 1] = h[m] + f[m]
      BY <2>2, <3>2
    <3> QED
      BY <3>1, <3>3, <3>4
  <2>5. p \in S
    <3> HIDE DEF S
    <3> QED
      BY <2>1, <2>3, <2>4, Count
  <2>6. g[p] = h[p]
    BY <2>1, <2>5
  <2>7. g[n] = g[p] + f[p]
    BY <1>1, <2>1
  <2> QED
    BY <1>1, <2>2, <2>6, <2>7 DEF p
<1> QED
  BY <1>2, <1>3

(* One summand more. *)
LEMMA SumStep ==
    ASSUME NEW n \in Nat, NEW f, \A i \in 0 .. n : f[i] \in Int
    PROVE  /\ Sum(f, 0) = 0
           /\ Sum(f, n) \in Int /\ Sum(f, n + 1) \in Int
           /\ Sum(f, n + 1) = Sum(f, n) + f[n]
<1>1. Sum(f, 0) = 0
  BY SumFacts
<1>2. Sum(f, n) \in Int
  BY SumFacts
<1>3. /\ n + 1 \in Nat /\ n + 1 # 0 /\ (n + 1) - 1 = n
      /\ \A i \in 0 .. (n + 1) - 1 : f[i] \in Int
  OBVIOUS
<1> DEFINE m == n + 1
<1>4. Sum(f, m) \in Int /\ Sum(f, m) = Sum(f, m - 1) + f[m - 1]
  <2> HIDE DEF m
  <2>1. m \in Nat /\ m # 0 /\ \A i \in 0 .. m - 1 : f[i] \in Int
    BY <1>3 DEF m
  <2> QED
    BY <2>1, SumFacts
<1> QED
  BY <1>1, <1>2, <1>3, <1>4

(* Sums of summands that are equal modulo Q are equal modulo Q. *)
LEMMA SumNorm ==
    ASSUME NEW n \in Nat, NEW f, NEW g,
           \A i \in 0 .. n - 1 : /\ f[i] \in Int /\ g[i] \in Int
                                 /\ Norm(f[i]) = Norm(g[i])
    PROVE  Norm(Sum(f, n)) = Norm(Sum(g, n))
<1> DEFINE S == {m \in Nat : m <= n => Norm(Sum(f, m)) = Norm(Sum(g, m))}
<1>1. 0 \in S
  BY SumFacts
<1>2. ASSUME NEW m \in Nat, m \in S PROVE m + 1 \in S
  <2> SUFFICES ASSUME m + 1 <= n
               PROVE  Norm(Sum(f, m + 1)) = Norm(Sum(g, m + 1))
    OBVIOUS
  <2>1. \A i \in 0 .. m : /\ f[i] \in Int /\ g[i] \in Int
                          /\ Norm(f[i]) = Norm(g[i])
    OBVIOUS
  <2>2. /\ Sum(f, m) \in Int /\ Sum(f, m + 1) = Sum(f, m) + f[m]
        /\ Sum(g, m) \in Int /\ Sum(g, m + 1) = Sum(g, m) + g[m]
    BY <2>1, SumStep
  <2>3. Norm(Sum(f, m)) = Norm(Sum(g, m))
    BY <1>2
  <2>4. /\ f[m] \in Int /\ g[m] \in Int /\ Norm(f[m]) = Norm(g[m])
    BY <2>1
  <2> DEFINE a == Sum(f, m)
             b == Sum(g, m)
             c == f[m]
             d == g[m]
  <2>5. /\ a \in Int /\ b \in Int /\ c \in Int /\ d \in Int
        /\ Norm(a) = Norm(b) /\ Norm(c) = Norm(d)
    BY <2>2, <2>3, <2>4
  <2> HIDE DEF a, b, c, d
  <2>6. Norm(a + c) = Norm(b + d)
    BY <2>5, NormArith
  <2>7. Norm(Sum(f, m) + f[m]) = Norm(Sum(g, m) + g[m])
    BY <2>6 DEF a, b, c, d
  <2> QED
    BY <2>2, <2>7
<1> HIDE DEF S
<1>3. n \in S
  BY <1>1, <1>2, Count
<1> QED
  BY <1>3 DEF S

(* The sum of sums is the sum of the sums; equal summands are a case of it.*)
LEMMA SumPlus ==
    ASSUME NEW n \in Nat, NEW f, NEW g, NEW h,
           \A i \in 0 .. n - 1 : /\ f[i] \in Int /\ g[i] \in Int
                                 /\ h[i] \in Int /\ h[i] = f[i] + g[i]
    PROVE  Sum(h, n) = Sum(f, n) + Sum(g, n)
<1> DEFINE S == {m \in Nat : m <= n => Sum(h, m) = Sum(f, m) + Sum(g, m)}
<1>1. 0 \in S
  BY SumFacts
<1>2. ASSUME NEW m \in Nat, m \in S PROVE m + 1 \in S
  <2> SUFFICES ASSUME m + 1 <= n
               PROVE  Sum(h, m + 1) = Sum(f, m + 1) + Sum(g, m + 1)
    OBVIOUS
  <2>1. \A i \in 0 .. m : /\ f[i] \in Int /\ g[i] \in Int
                          /\ h[i] \in Int /\ h[i] = f[i] + g[i]
    OBVIOUS
  <2>2. /\ Sum(f, m) \in Int /\ Sum(f, m + 1) = Sum(f, m) + f[m]
        /\ Sum(g, m) \in Int /\ Sum(g, m + 1) = Sum(g, m) + g[m]
        /\ Sum(h, m) \in Int /\ Sum(h, m + 1) = Sum(h, m) + h[m]
    BY <2>1, SumStep
  <2>3. Sum(h, m) = Sum(f, m) + Sum(g, m)
    BY <1>2
  <2>4. m \in 0 .. m
    OBVIOUS
  <2> QED
    BY <2>1, <2>2, <2>3, <2>4
<1> HIDE DEF S
<1>3. n \in S
  BY <1>1, <1>2, Count
<1> QED
  BY <1>3 DEF S

(* Equal summands have equal sums. *)
LEMMA SumSame ==
    ASSUME NEW n \in Nat, NEW f, NEW g,
           \A i \in 0 .. n - 1 : f[i] \in Int /\ f[i] = g[i]
    PROVE  Sum(f, n) = Sum(g, n)
<1> DEFINE S == {m \in Nat : m <= n => Sum(f, m) = Sum(g, m)}
<1>1. 0 \in S
  BY SumFacts
<1>2. ASSUME NEW m \in Nat, m \in S PROVE m + 1 \in S
  <2> SUFFICES ASSUME m + 1 <= n
               PROVE  Sum(f, m + 1) = Sum(g, m + 1)
    OBVIOUS
  <2>1. \A i \in 0 .. m : f[i] \in Int /\ f[i] = g[i]
    OBVIOUS
  <2>2. /\ Sum(f, m + 1) = Sum(f, m) + f[m]
        /\ Sum(g, m + 1) = Sum(g, m) + g[m]
    BY <2>1, SumStep
  <2>3. Sum(f, m) = Sum(g, m)
    BY <1>2
  <2>4. f[m] = g[m]
    BY <2>1
  <2> QED
    BY <2>2, <2>3, <2>4
<1> HIDE DEF S
<1>3. n \in S
  BY <1>1, <1>2, Count
<1> QED
  BY <1>3 DEF S

(* A factor common to all summands. *)
LEMMA SumTimes ==
    ASSUME NEW n \in Nat, NEW c \in Int, NEW f, NEW g,
           \A i \in 0 .. n - 1 : /\ f[i] \in Int /\ g[i] \in Int
                                 /\ g[i] = c * f[i]
    PROVE  Sum(g, n) = c * Sum(f, n)
<1> DEFINE S == {m \in Nat : m <= n => Sum(g, m) = c * Sum(f, m)}
<1>1. 0 \in S
  <2>1. Sum(f, 0) = 0 /\ Sum(g, 0) = 0
    BY SumFacts
  <2> QED
    BY <2>1
<1>2. ASSUME NEW m \in Nat, m \in S PROVE m + 1 \in S
  <2> SUFFICES ASSUME m + 1 <= n
               PROVE  Sum(g, m + 1) = c * Sum(f, m + 1)
    OBVIOUS
  <2>1. \A i \in 0 .. m : f[i] \in Int /\ g[i] \in Int /\ g[i] = c * f[i]
    OBVIOUS
  <2>2. /\ Sum(f, m) \in Int /\ Sum(f, m + 1) = Sum(f, m) + f[m]
        /\ Sum(g, m) \in Int /\ Sum(g, m + 1) = Sum(g, m) + g[m]
    BY <2>1, SumStep
  <2>3. Sum(g, m) = c * Sum(f, m)
    BY <1>2
  <2>4. f[m] \in Int /\ g[m] \in Int /\ g[m] = c * f[m]
    BY <2>1
  <2>5. c * (Sum(f, m) + f[m]) = c * Sum(f, m) + c * f[m]
    BY <2>2, <2>4
  <2> QED
    BY <2>2, <2>3, <2>4, <2>5
<1> HIDE DEF S
<1>3. n \in S
  BY <1>1, <1>2, Count
<1> QED
  BY <1>3 DEF S

(* A sum taken in two parts. *)
LEMMA SumConcat ==
    ASSUME NEW m \in Nat, NEW n \in Nat, NEW f, NEW g,
           \A i \in 0 .. m + n - 1 : f[i] \in Int,
           \A i \in 0 .. n - 1 : g[i] \in Int /\ g[i] = f[m + i]
    PROVE  Sum(f, m + n) = Sum(f, m) + Sum(g, n)
<1> DEFINE S == {k \in Nat : k <= n => Sum(f, m + k) = Sum(f, m) + Sum(g, k)}
<1>1. 0 \in S
  <2>1. Sum(g, 0) = 0 /\ Sum(f, m) \in Int /\ m + 0 = m
    BY SumFacts
  <2> QED
    BY <2>1
<1>2. ASSUME NEW k \in Nat, k \in S PROVE k + 1 \in S
  <2> SUFFICES ASSUME k + 1 <= n
               PROVE  Sum(f, m + (k + 1)) = Sum(f, m) + Sum(g, k + 1)
    OBVIOUS
  <2>1. /\ \A i \in 0 .. m + k : f[i] \in Int
        /\ \A i \in 0 .. k : g[i] \in Int /\ g[i] = f[m + i]
        /\ m + k \in Nat /\ m + (k + 1) = (m + k) + 1
    OBVIOUS
  <2>2. /\ Sum(f, m + k) \in Int
        /\ Sum(f, (m + k) + 1) = Sum(f, m + k) + f[m + k]
        /\ Sum(g, k) \in Int /\ Sum(g, k + 1) = Sum(g, k) + g[k]
        /\ Sum(f, m) \in Int
    <3>1. /\ Sum(f, m + k) \in Int
          /\ Sum(f, (m + k) + 1) = Sum(f, m + k) + f[m + k]
      BY <2>1, SumStep
    <3>2. Sum(g, k) \in Int /\ Sum(g, k + 1) = Sum(g, k) + g[k]
      BY <2>1, SumStep
    <3>3. \A i \in 0 .. m - 1 : f[i] \in Int
      BY <2>1
    <3>4. Sum(f, m) \in Int
      BY <3>3, SumFacts
    <3> QED
      BY <3>1, <3>2, <3>4
  <2>3. Sum(f, m + k) = Sum(f, m) + Sum(g, k)
    BY <1>2
  <2>4. g[k] \in Int /\ g[k] = f[m + k]
    BY <2>1
  <2> HIDE DEF S
  <2> QED
    BY <2>1, <2>2, <2>3, <2>4
<1> HIDE DEF S
<1>3. n \in S
  BY <1>1, <1>2, Count
<1> QED
  BY <1>3 DEF S

(* A sum taken from its other end. *)
LEMMA SumReverse ==
    ASSUME NEW n \in Nat, NEW f, NEW g,
           \A i \in 0 .. n - 1 : /\ f[i] \in Int /\ g[i] \in Int
                                 /\ g[i] = f[n - 1 - i]
    PROVE  Sum(g, n) = Sum(f, n)
<1> DEFINE tail(k) == [i \in 0 .. k - 1 |-> f[n - k + i]]
           S == {k \in Nat : k <= n => Sum(g, k) = Sum(tail(k), k)}
<1>1. 0 \in S
  <2>1. \A h : Sum(h, 0) = 0
    BY SumFacts
  <2> QED
    BY <2>1
<1>2. ASSUME NEW k \in Nat, k \in S PROVE k + 1 \in S
  <2> SUFFICES ASSUME k + 1 <= n
               PROVE  Sum(g, k + 1) = Sum(tail(k + 1), k + 1)
    OBVIOUS
  <2>1. \A i \in 0 .. k : g[i] \in Int /\ g[i] = f[n - 1 - i]
    OBVIOUS
  <2>2. /\ Sum(g, k) \in Int /\ Sum(g, k + 1) = Sum(g, k) + g[k]
    BY <2>1, SumStep
  <2>3. Sum(g, k) = Sum(tail(k), k)
    BY <1>2
  <2> DEFINE t == tail(k + 1)
             u == tail(k)
  <2>4. \A i \in 0 .. 1 + k - 1 : t[i] \in Int /\ t[i] = f[n - (k + 1) + i]
    OBVIOUS
  <2>5. \A i \in 0 .. k - 1 : u[i] \in Int /\ u[i] = t[1 + i]
    OBVIOUS
  <2>6. t[0] \in Int /\ t[0] = g[k]
    BY <2>1, <2>4
  <2> HIDE DEF t, u
  <2>7. Sum(t, 1 + k) = Sum(t, 1) + Sum(u, k)
    BY <2>4, <2>5, SumConcat
  <2>8. Sum(t, 1) = t[0]
    <3>1. \A i \in 0 .. 0 : t[i] \in Int
      BY <2>6
    <3>2. Sum(t, 0) = 0 /\ Sum(t, 0 + 1) = Sum(t, 0) + t[0]
      BY <3>1, SumStep
    <3> QED
      BY <2>6, <3>2
  <2>9. Sum(u, k) \in Int
    BY <2>5, SumFacts
  <2>10. Sum(t, k + 1) = Sum(g, k + 1)
    BY <2>2, <2>3, <2>6, <2>7, <2>8, <2>9 DEF u
  <2> QED
    BY <2>10 DEF t
<1>3. n \in S
  <2> HIDE DEF S
  <2> QED
    BY <1>1, <1>2, Count
<1>4. Sum(g, n) = Sum(tail(n), n)
  BY <1>3
<1>5. Sum(tail(n), n) = Sum(f, n)
  <2> DEFINE t == tail(n)
  <2>1. \A i \in 0 .. n - 1 : t[i] \in Int /\ t[i] = f[i]
    OBVIOUS
  <2> HIDE DEF t
  <2>2. Sum(t, n) = Sum(f, n)
    BY <2>1, SumSame
  <2> QED
    BY <2>2 DEF t
<1> QED
  BY <1>4, <1>5

(* A sum as that of its even and its odd places. *)
LEMMA SumEvenOdd ==
    ASSUME NEW n \in Nat, NEW f, NEW g, NEW h,
           \A i \in 0 .. 2 * n - 1 : f[i] \in Int,
           \A i \in 0 .. n - 1 : g[i] = f[2 * i] /\ h[i] = f[2 * i + 1]
    PROVE  Sum(f, 2 * n) = Sum(g, n) + Sum(h, n)
<1> DEFINE S == {m \in Nat : m <= n => Sum(f, 2 * m) = Sum(g, m) + Sum(h, m)}
<1>1. 0 \in S
  <2>1. Sum(f, 0) = 0 /\ Sum(g, 0) = 0 /\ Sum(h, 0) = 0 /\ 2 * 0 = 0
    BY SumFacts
  <2> QED
    BY <2>1
<1>2. ASSUME NEW m \in Nat, m \in S PROVE m + 1 \in S
  <2> SUFFICES ASSUME m + 1 <= n
               PROVE  Sum(f, 2 * (m + 1)) = Sum(g, m + 1) + Sum(h, m + 1)
    OBVIOUS
  <2> DEFINE k == 2 * m
  <2>1. /\ k \in Nat /\ 2 * (m + 1) = (k + 1) + 1 /\ k + 1 \in Nat
        /\ \A i \in 0 .. k : f[i] \in Int
        /\ \A i \in 0 .. k + 1 : f[i] \in Int
    OBVIOUS
  <2>2. \A i \in 0 .. m : g[i] \in Int /\ h[i] \in Int
    OBVIOUS
  <2>3. g[m] = f[k] /\ h[m] = f[k + 1]
    OBVIOUS
  <2>4. Sum(f, k) = Sum(g, m) + Sum(h, m)
    BY <1>2
  <2> HIDE DEF k
  <2>5. /\ Sum(f, k) \in Int /\ Sum(f, k + 1) = Sum(f, k) + f[k]
    BY <2>1, SumStep
  <2>6. Sum(f, (k + 1) + 1) = Sum(f, k + 1) + f[k + 1]
    BY <2>1, SumStep
  <2>7. /\ Sum(g, m) \in Int /\ Sum(g, m + 1) = Sum(g, m) + g[m]
        /\ Sum(h, m) \in Int /\ Sum(h, m + 1) = Sum(h, m) + h[m]
    BY <2>2, SumStep
  <2>8. g[m] \in Int /\ h[m] \in Int
    BY <2>2
  <2> HIDE DEF S
  <2> QED
    BY <2>1, <2>3, <2>4, <2>5, <2>6, <2>7, <2>8
<1>3. n \in S
  <2> HIDE DEF S
  <2> QED
    BY <1>1, <1>2, Count
<1> QED
  BY <1>3

(* Nothing but zeros. *)
LEMMA SumZero ==
    ASSUME NEW n \in Nat, NEW f, \A i \in 0 .. n - 1 : f[i] = 0
    PROVE  Sum(f, n) = 0
<1> DEFINE S == {m \in Nat : m <= n => Sum(f, m) = 0}
<1>1. 0 \in S
  BY SumFacts
<1>2. ASSUME NEW m \in Nat, m \in S PROVE m + 1 \in S
  <2> SUFFICES ASSUME m + 1 <= n PROVE Sum(f, m + 1) = 0
    OBVIOUS
  <2>1. \A i \in 0 .. m : f[i] \in Int /\ f[i] = 0
    OBVIOUS
  <2>2. Sum(f, m) = 0 /\ Sum(f, m + 1) = Sum(f, m) + f[m] /\ f[m] = 0
    BY <1>2, <2>1, SumStep
  <2> QED
    BY <2>2
<1> HIDE DEF S
<1>3. n \in S
  BY <1>1, <1>2, Count
<1> QED
  BY <1>3 DEF S

(* One summand that is not zero. *)
LEMMA SumSingle ==
    ASSUME NEW n \in Nat, NEW f, NEW k \in 0 .. n - 1, f[k] \in Int,
           \A i \in 0 .. n - 1 : i # k => f[i] = 0
    PROVE  Sum(f, n) = f[k]
<1> DEFINE S == {m \in Nat : m <= n => Sum(f, m) = IF k < m THEN f[k] ELSE 0}
<1>0. \A i \in 0 .. n - 1 : f[i] \in Int
  OBVIOUS
<1>1. 0 \in S
  BY SumFacts
<1>2. ASSUME NEW m \in Nat, m \in S PROVE m + 1 \in S
  <2> SUFFICES ASSUME m + 1 <= n
               PROVE  Sum(f, m + 1) = IF k < m + 1 THEN f[k] ELSE 0
    OBVIOUS
  <2>1. \A i \in 0 .. m : f[i] \in Int
    BY <1>0
  <2>2. Sum(f, m + 1) = Sum(f, m) + f[m]
    BY <2>1, SumStep
  <2>3. Sum(f, m) = IF k < m THEN f[k] ELSE 0
    BY <1>2
  <2>4. m # k => f[m] = 0
    OBVIOUS
  <2> QED
    BY <2>2, <2>3, <2>4
<1>3. n \in S
  <2> HIDE DEF S
  <2> QED
    BY <1>1, <1>2, Count
<1> QED
  BY <1>3

(* f has the sums of the rows of a matrix, g those of its columns. *)
RowsAndColumns(n, m, F, G, f, g) ==
    /\ \A i \in 0 .. n - 1 : f[i] = Sum(F[i], m)
    /\ \A j \in 0 .. m - 1 : g[j] = Sum(G[j], n)
    /\ \A i \in 0 .. n - 1, j \in 0 .. m - 1 :
           F[i][j] \in Int /\ G[j][i] = F[i][j]

(* The sum of a matrix, by its rows and by its columns. *)
LEMMA SumSwap ==
    ASSUME NEW n \in Nat, NEW m \in Nat, NEW F, NEW G, NEW f, NEW g,
           RowsAndColumns(n, m, F, G, f, g)
    PROVE  Sum(f, n) = Sum(g, m)
<1> USE DEF RowsAndColumns
<1> DEFINE col(k) == [j \in 0 .. m - 1 |-> Sum(G[j], k)]
           S == {k \in Nat : k <= n => Sum(f, k) = Sum(col(k), m)}
<1>1. 0 \in S
  <2> DEFINE c == col(0)
  <2>1. \A j \in 0 .. m - 1 : c[j] = 0
    BY SumFacts
  <2> HIDE DEF c
  <2>2. Sum(c, m) = 0
    BY <2>1, SumZero
  <2>3. Sum(f, 0) = 0
    BY SumFacts
  <2> QED
    BY <2>2, <2>3 DEF c
<1>2. ASSUME NEW k \in Nat, k \in S PROVE k + 1 \in S
  <2> SUFFICES ASSUME k + 1 <= n
               PROVE  Sum(f, k + 1) = Sum(col(k + 1), m)
    OBVIOUS
  <2>1. Sum(f, k) = Sum(col(k), m)
    BY <1>2
  <2> HIDE DEF S
  <2>2. \A i \in 0 .. k : f[i] \in Int /\ f[i] = Sum(F[i], m)
    <3> TAKE i \in 0 .. k
    <3> DEFINE r == F[i]
    <3>1. f[i] = Sum(r, m) /\ \A j \in 0 .. m - 1 : r[j] \in Int
      OBVIOUS
    <3> HIDE DEF r
    <3>2. Sum(r, m) \in Int
      BY <3>1, SumFacts
    <3> QED
      BY <3>1, <3>2 DEF r
  <2>3. Sum(f, k + 1) = Sum(f, k) + f[k]
    BY <2>2, SumStep
  <2> DEFINE c == col(k)
             d == col(k + 1)
             r == F[k]
  <2>4. \A j \in 0 .. m - 1 : /\ c[j] \in Int /\ r[j] \in Int
                                /\ d[j] \in Int /\ d[j] = c[j] + r[j]
    <3> TAKE j \in 0 .. m - 1
    <3> DEFINE h == G[j]
    <3>1. \A i \in 0 .. k : h[i] \in Int
      OBVIOUS
    <3>2. h[k] = r[j] /\ r[j] \in Int
      OBVIOUS
    <3>3. c[j] = Sum(h, k) /\ d[j] = Sum(h, k + 1)
      OBVIOUS
    <3> HIDE DEF h, c, d, r
    <3>4. /\ Sum(h, k) \in Int /\ Sum(h, k + 1) \in Int
          /\ Sum(h, k + 1) = Sum(h, k) + h[k]
      BY <3>1, SumStep
    <3> QED
      BY <3>2, <3>3, <3>4
  <2>5. f[k] = Sum(r, m)
    BY <2>2
  <2> HIDE DEF c, d, r
  <2>6. Sum(d, m) = Sum(c, m) + Sum(r, m)
    BY <2>4, SumPlus
  <2> QED
    BY <2>1, <2>3, <2>5, <2>6 DEF c, d
<1>3. n \in S
  <2> HIDE DEF S
  <2> QED
    BY <1>1, <1>2, Count
<1>4. Sum(f, n) = Sum(col(n), m)
  BY <1>3
<1> DEFINE c == col(n)
<1>5. \A j \in 0 .. m - 1 : c[j] \in Int /\ c[j] = g[j]
  <2> TAKE j \in 0 .. m - 1
  <2> DEFINE h == G[j]
  <2>1. /\ c[j] = Sum(h, n) /\ g[j] = Sum(h, n)
        /\ \A i \in 0 .. n - 1 : h[i] \in Int
    OBVIOUS
  <2> HIDE DEF h, c
  <2>2. Sum(h, n) \in Int
    BY <2>1, SumFacts
  <2> QED
    BY <2>1, <2>2
<1> HIDE DEF c
<1>6. Sum(c, m) = Sum(g, m)
  BY <1>5, SumSame
<1> QED
  BY <1>4, <1>6 DEF c

(* A sum around the circle of n places, backwards from any of them. *)
LEMMA SumReflect ==
    ASSUME NEW n \in Nat, NEW c \in 0 .. n - 1, NEW f, NEW g,
           \A i \in 0 .. n - 1 : /\ f[i] \in Int
                                  /\ g[i] = f[IF i <= c THEN c - i
                                                       ELSE c - i + n]
    PROVE  Sum(g, n) = Sum(f, n)
<1> DEFINE m == c + 1
           k == n - m
           u == [i \in 0 .. k - 1 |-> f[m + i]]
           v == [i \in 0 .. k - 1 |-> g[m + i]]
<1>1. /\ m \in Nat /\ k \in Nat /\ m + k = n
      /\ \A i \in 0 .. n - 1 : f[i] \in Int /\ g[i] \in Int
  OBVIOUS
<1>2. \A i \in 0 .. m - 1 : g[i] = f[m - 1 - i]
  OBVIOUS
<1>3. \A i \in 0 .. k - 1 : /\ u[i] \in Int /\ u[i] = f[m + i]
                             /\ v[i] \in Int /\ v[i] = g[m + i]
                             /\ v[i] = u[k - 1 - i]
  OBVIOUS
<1>4. \A i \in 0 .. m - 1 : i \in 0 .. n - 1
  OBVIOUS
<1> HIDE DEF m, k, u, v
<1>5. Sum(f, m + k) = Sum(f, m) + Sum(u, k)
  BY <1>1, <1>3, SumConcat
<1>6. Sum(g, m + k) = Sum(g, m) + Sum(v, k)
  BY <1>1, <1>3, SumConcat
<1>7. Sum(g, m) = Sum(f, m)
  BY <1>1, <1>2, <1>4, SumReverse
<1>8. Sum(v, k) = Sum(u, k)
  BY <1>1, <1>3, SumReverse
<1> QED
  BY <1>1, <1>5, <1>6, <1>7, <1>8

-----------------------------------------------------------------------------
(* Powers. *)

(* x to the power of n. *)
Powers(x) ==
    CHOOSE g \in [Nat -> Int] :
        \A n \in Nat : g[n] = IF n = 0 THEN 1 ELSE x * g[n - 1]

(* Its value at n. *)
Power(x, n) == Powers(x)[n]

(* What the recursion of Powers computes. *)
LEMMA PowerFacts ==
    ASSUME NEW x \in Int
    PROVE  /\ Power(x, 0) = 1
           /\ Power(x, 1) = x
           /\ \A n \in Nat : /\ Power(x, n) \in Int
                             /\ Power(x, n + 1) = x * Power(x, n)
<1> DEFINE D == Nat
           X == Int
           o == 0
           step == [n \in D |-> [g \in [D -> X] |->
                       IF n = 0 THEN 1 ELSE x * g[n - 1]]]
<1>1. step \in Steps(D, X)
  <2>1. step \in [D -> [[D -> X] -> X]]
    OBVIOUS
  <2>2. \A n \in D : \A g, h \in [D -> X] :
           (\A k \in D : k < n => g[k] = h[k]) => step[n][g] = step[n][h]
    OBVIOUS
  <2> HIDE DEF step, D, X
  <2> QED
    BY <2>1, <2>2 DEF Steps
<1>2. \E g \in [D -> X] : \A n \in D : g[n] = step[n][g]
  <2>1. D \in SUBSET Nat /\ o \in X
    OBVIOUS
  <2> HIDE DEF step, D, X, o
  <2>2. Follows(D, X, step) # {}
    BY <1>1, <2>1, Recursion
  <2> QED
    BY <2>2 DEF Follows
<1>3. \E g \in [Nat -> Int] :
         \A n \in Nat : g[n] = IF n = 0 THEN 1 ELSE x * g[n - 1]
  BY <1>2
<1> DEFINE p == Powers(x)
<1>4. /\ p \in [Nat -> Int]
      /\ \A n \in Nat : p[n] = IF n = 0 THEN 1 ELSE x * p[n - 1]
  BY <1>3 DEF Powers
<1> HIDE DEF p
<1>5. p[0] = 1
  BY <1>4
<1>6. \A n \in Nat : p[n] \in Int /\ p[n + 1] = x * p[n]
  <2> TAKE n \in Nat
  <2>1. n + 1 \in Nat /\ n + 1 # 0 /\ (n + 1) - 1 = n
    OBVIOUS
  <2>2. p[n + 1] = x * p[(n + 1) - 1]
    BY <1>4, <2>1
  <2> QED
    BY <1>4, <2>1, <2>2
<1>7. p[1] = x
  <2>1. p[0 + 1] = x * p[0] /\ 0 + 1 = 1 /\ x * 1 = x
    BY <1>6
  <2> QED
    BY <1>5, <2>1
<1> QED
  BY <1>5, <1>6, <1>7 DEF p, Power

(* Powers of integers are integers. *)
LEMMA PowerInt == ASSUME NEW x \in Int, NEW n \in Nat PROVE Power(x, n) \in Int
BY PowerFacts

(* The power of a sum of exponents. *)
LEMMA PowerPlus ==
    ASSUME NEW x \in Int, NEW m \in Nat, NEW n \in Nat
    PROVE  Power(x, m + n) = Power(x, m) * Power(x, n)
<1> DEFINE S == {k \in Nat : Power(x, m + k) = Power(x, m) * Power(x, k)}
<1>1. 0 \in S
  <2>1. m + 0 = m /\ Power(x, 0) = 1 /\ Power(x, m) \in Int
    BY PowerFacts
  <2> QED
    BY <2>1
<1>2. ASSUME NEW k \in Nat, k \in S PROVE k + 1 \in S
  <2>1. m + k \in Nat /\ m + (k + 1) = (m + k) + 1
    OBVIOUS
  <2>2. Power(x, (m + k) + 1) = x * Power(x, m + k)
    BY <2>1, PowerFacts
  <2>3. Power(x, m + k) = Power(x, m) * Power(x, k)
    BY <1>2
  <2>4. Power(x, k + 1) = x * Power(x, k)
    BY PowerFacts
  <2> DEFINE a == Power(x, m)
             b == Power(x, k)
  <2>5. a \in Int /\ b \in Int
    BY PowerFacts
  <2>6. x * (a * b) = a * (x * b)
    <3> HIDE DEF a, b
    <3> QED
      BY <2>5
  <2> QED
    BY <2>1, <2>2, <2>3, <2>4, <2>6
<1> HIDE DEF S
<1>3. n \in S
  BY <1>1, <1>2, Count
<1> QED
  BY <1>3 DEF S

(* The power of a product of exponents. *)
LEMMA PowerTimes ==
    ASSUME NEW x \in Int, NEW m \in Nat, NEW n \in Nat
    PROVE  Power(x, m * n) = Power(Power(x, m), n)
<1> DEFINE y == Power(x, m)
           S == {k \in Nat : Power(x, m * k) = Power(y, k)}
<1>0. y \in Int
  BY PowerFacts
<1>1. 0 \in S
  <2>1. m * 0 = 0 /\ Power(x, 0) = 1
    BY PowerFacts
  <2>2. Power(y, 0) = 1
    BY <1>0, PowerFacts
  <2> QED
    BY <2>1, <2>2
<1>2. ASSUME NEW k \in Nat, k \in S PROVE k + 1 \in S
  <2> HIDE DEF y
  <2>1. m * k \in Nat /\ m * (k + 1) = m + m * k
    OBVIOUS
  <2>2. Power(x, m + m * k) = y * Power(x, m * k)
    BY <2>1, PowerPlus DEF y
  <2>3. Power(y, k + 1) = y * Power(y, k)
    BY <1>0, PowerFacts
  <2> QED
    BY <1>2, <2>1, <2>2, <2>3
<1> HIDE DEF S
<1>3. n \in S
  BY <1>1, <1>2, Count
<1> QED
  BY <1>3 DEF S

(* Bases that are equal modulo Q have powers that are. *)
LEMMA PowerNorm ==
    ASSUME NEW x \in Int, NEW y \in Int, Norm(x) = Norm(y), NEW n \in Nat
    PROVE  Norm(Power(x, n)) = Norm(Power(y, n))
<1> DEFINE S == {k \in Nat : Norm(Power(x, k)) = Norm(Power(y, k))}
<1>1. 0 \in S
  BY PowerFacts
<1>2. ASSUME NEW k \in Nat, k \in S PROVE k + 1 \in S
  <2>1. Power(x, k) \in Int /\ Power(y, k) \in Int
    BY PowerFacts
  <2>2. Power(x, k + 1) = x * Power(x, k) /\ Power(y, k + 1) = y * Power(y, k)
    BY PowerFacts
  <2>3. Norm(Power(x, k)) = Norm(Power(y, k))
    BY <1>2
  <2> DEFINE a == Power(x, k)
             b == Power(y, k)
  <2> HIDE DEF a, b
  <2>4. a \in Int /\ b \in Int /\ Norm(a) = Norm(b)
    BY <2>1, <2>3 DEF a, b
  <2>5. Norm(x * a) = Norm(y * b)
    BY <2>4, NormArith
  <2> QED
    BY <2>2, <2>5 DEF a, b
<1> HIDE DEF S
<1>3. n \in S
  BY <1>1, <1>2, Count
<1> QED
  BY <1>3 DEF S

(* The power of a product of bases. *)
LEMMA PowerOfProduct ==
    ASSUME NEW x \in Int, NEW y \in Int, NEW n \in Nat
    PROVE  Power(x * y, n) = Power(x, n) * Power(y, n)
<1> DEFINE z == x * y
           S == {k \in Nat : Power(z, k) = Power(x, k) * Power(y, k)}
<1>0. z \in Int
  OBVIOUS
<1>1. 0 \in S
  <2>1. Power(x, 0) = 1 /\ Power(y, 0) = 1 /\ Power(z, 0) = 1
    <3> HIDE DEF z
    <3> QED
      BY <1>0, PowerFacts
  <2> QED
    BY <2>1
<1>2. ASSUME NEW k \in Nat, k \in S PROVE k + 1 \in S
  <2> DEFINE a == Power(x, k)
             b == Power(y, k)
  <2>1. a \in Int /\ b \in Int
    BY PowerFacts
  <2>2. Power(x, k + 1) = x * a /\ Power(y, k + 1) = y * b
    BY PowerFacts
  <2>3. Power(z, k + 1) = z * Power(z, k)
    <3> HIDE DEF z
    <3> QED
      BY <1>0, PowerFacts
  <2>4. Power(z, k) = a * b
    BY <1>2
  <2>5. (x * y) * (a * b) = (x * a) * (y * b)
    <3> HIDE DEF a, b
    <3> QED
      BY <2>1
  <2> HIDE DEF a, b
  <2>6. Power(z, k + 1) = Power(x, k + 1) * Power(y, k + 1)
    BY <2>2, <2>3, <2>4, <2>5
  <2> QED
    BY <2>6
<1>3. n \in S
  <2> HIDE DEF S
  <2> QED
    BY <1>1, <1>2, Count
<1> QED
  BY <1>3

(* Powers of one are one, modulo Q. *)
LEMMA PowerOfOne ==
    ASSUME NEW x \in Int, Norm(x) = 1, NEW n \in Nat
    PROVE  Norm(Power(x, n)) = 1
<1> DEFINE S == {k \in Nat : Norm(Power(x, k)) = 1}
<1>0. Norm(1) = 1
  BY NormFacts DEF Coefficients
<1>1. 0 \in S
  BY <1>0, PowerFacts
<1>2. ASSUME NEW k \in Nat, k \in S PROVE k + 1 \in S
  <2>1. Power(x, k) \in Int /\ Norm(Power(x, k)) = Norm(1) /\ Norm(x) = Norm(1)
    BY <1>0, <1>2, PowerFacts
  <2>2. Power(x, k + 1) = x * Power(x, k)
    BY PowerFacts
  <2> DEFINE a == Power(x, k)
             i == 1
  <2>3. a \in Int /\ i \in Int /\ Norm(a) = Norm(i) /\ Norm(x) = Norm(i)
    BY <2>1
  <2> HIDE DEF a, i
  <2>4. Norm(x * a) = Norm(i * i)
    BY <2>3, NormArith
  <2>5. i * i = 1
    BY DEF i
  <2> QED
    BY <1>0, <2>2, <2>4, <2>5 DEF a
<1> HIDE DEF S
<1>3. n \in S
  BY <1>1, <1>2, Count
<1> QED
  BY <1>3 DEF S

-----------------------------------------------------------------------------
(* Quotients, and the power the code computes by squaring. *)

(* Quotients and remainders. *)
LEMMA Division ==
    ASSUME NEW a \in Int, NEW m \in Nat, m > 0
    PROVE  /\ a \div m \in Int /\ a % m \in 0 .. m - 1
           /\ a = m * (a \div m) + (a % m)
<1>1. a \div m \in Int /\ a % m \in 0 .. m - 1
  OBVIOUS
<1>2. a = m * (a \div m) + (a % m)
  OBVIOUS
<1> QED
  BY <1>1, <1>2

(* Halves of numbers. *)
LEMMA Halves ==
    ASSUME NEW n \in Nat
    PROVE  /\ n \div 2 \in Nat /\ n % 2 \in 0 .. 1
           /\ n = 2 * (n \div 2) + (n % 2)
           /\ n # 0 => n \div 2 \in 0 .. n - 1
<1>1. n = 2 * (n \div 2) + (n % 2)
  OBVIOUS
<1>2. n \div 2 \in Nat /\ n % 2 \in 0 .. 1
  OBVIOUS
<1>3. n # 0 => n \div 2 \in 0 .. n - 1
  <2> DEFINE h == n \div 2
             r == n % 2
  <2>1. n = 2 * h + r /\ h \in Nat /\ r \in 0 .. 1
    BY <1>1, <1>2
  <2> HIDE DEF h, r
  <2>2. n # 0 => h \in 0 .. n - 1
    BY <2>1
  <2> QED
    BY <2>2 DEF h
<1> QED
  BY <1>1, <1>2, <1>3

(* Products of natural numbers are natural numbers. *)
LEMMA Products == \A a, b \in Nat : a * b \in Nat
OBVIOUS

(* PowMod follows its definition. *)
LEMMA PowModFacts ==
    /\ \A e \in Nat : PowMod[e] \in [Nat -> Nat]
    /\ \A e, b \in Nat :
          PowMod[e][b] =
              IF e = 0 THEN 1
              ELSE LET square == PowMod[e \div 2][(b * b) % Q]
                   IN  IF e % 2 = 1 THEN (square * b) % Q ELSE square
<1> DEFINE D == Nat
           X == [Nat -> Nat]
           x == [b \in Nat |-> 0]
           E(n, g) == [b \in Nat |->
               IF n = 0 THEN 1
               ELSE LET square == g[n \div 2][(b * b) % Q]
                    IN  IF n % 2 = 1 THEN (square * b) % Q ELSE square]
           step == [n \in D |-> [g \in [D -> X] |-> E(n, g)]]
<1>0. \A a \in Nat : a % Q \in Nat
  BY ModulusAssumption, ParametersAssumption
<1>1. step \in Steps(D, X)
  <2>1. ASSUME NEW n \in D, NEW g \in [D -> X]
        PROVE  E(n, g) \in X
    <3> SUFFICES ASSUME NEW b \in Nat
                 PROVE  (IF n = 0 THEN 1
                         ELSE LET square == g[n \div 2][(b * b) % Q]
                              IN  IF n % 2 = 1 THEN (square * b) % Q
                                               ELSE square) \in Nat
      OBVIOUS
    <3> DEFINE c == (b * b) % Q
               h == n \div 2
               square == g[h][c]
    <3>1. c \in Nat
      <4>1. b * b \in Nat
        OBVIOUS
      <4> QED
        BY <1>0, <4>1
    <3>2. h \in Nat
      BY Halves
    <3> HIDE DEF c, h
    <3>3. square \in Nat
      BY <3>1, <3>2
    <3> HIDE DEF square
    <3>4. square * b \in Nat
      BY <3>3
    <3>5. (square * b) % Q \in Nat
      BY <1>0, <3>4
    <3> QED
      BY <3>3, <3>5 DEF square, c, h
  <2>2. \A n \in D : \A g, h \in [D -> X] :
           (\A k \in D : k < n => g[k] = h[k]) => E(n, g) = E(n, h)
    <3> SUFFICES ASSUME NEW n \in D, NEW g \in [D -> X], NEW h \in [D -> X],
                        \A k \in D : k < n => g[k] = h[k]
                 PROVE  E(n, g) = E(n, h)
      OBVIOUS
    <3> DEFINE k == n \div 2
    <3>0. n # 0 => k \in D /\ k < n
      <4>1. n # 0 => k \in 0 .. n - 1
        BY Halves
      <4> HIDE DEF k
      <4> QED
        BY <4>1
    <3>1. n # 0 => g[k] = h[k]
      BY <3>0
    <3> QED
      BY <3>1
  <2>3. step \in [D -> [[D -> X] -> X]]
    <3> HIDE DEF E, D, X
    <3> QED
      BY <2>1
  <2>4. \A n \in D : \A g \in [D -> X] : step[n][g] = E(n, g)
    <3> HIDE DEF E, D, X
    <3> QED
      OBVIOUS
  <2> HIDE DEF step, D, X, E
  <2>5. \A n \in D : \A g, h \in [D -> X] :
           (\A k \in D : k < n => g[k] = h[k]) => step[n][g] = step[n][h]
    BY <2>2, <2>4
  <2> QED
    BY <2>3, <2>5 DEF Steps
<1>2. PICK f \in [D -> X] : \A n \in D : f[n] = E(n, f)
  <2>1. D \in SUBSET Nat /\ x \in X
    OBVIOUS
  <2>2. \A n \in D : \A g \in [D -> X] : step[n][g] = E(n, g)
    <3> HIDE DEF E, D, X
    <3> QED
      OBVIOUS
  <2> HIDE DEF step, D, X, x, E
  <2>3. Follows(D, X, step) # {}
    BY <1>1, <2>1, Recursion
  <2> QED
    BY <2>2, <2>3 DEF Follows
<1> DEFINE R(g) == [n \in Nat |-> E(n, g)]
<1>3. f = R(f)
  <2> HIDE DEF E
  <2> QED
    BY <1>2
<1>4. PowMod = CHOOSE g : g = R(g)
  BY DEF PowMod
<1> DEFINE p == PowMod
<1>5. p = R(p)
  <2> HIDE DEF R
  <2> QED
    BY <1>3, <1>4
<1> HIDE DEF p
<1>6. \A n \in Nat : p[n] = E(n, p)
  <2> HIDE DEF E
  <2> QED
    BY <1>5
<1>7. \A n \in Nat : p[n] \in [Nat -> Nat]
  <2> DEFINE S == {n \in Nat : p[n] \in [Nat -> Nat]}
  <2>1. ASSUME NEW n \in Nat, \A m \in 0 .. n - 1 : m \in S
        PROVE  n \in S
    <3> DEFINE h == n \div 2
    <3>1. h \in Nat /\ (n # 0 => h \in S)
      BY <2>1, Halves
    <3>2. n # 0 => p[h] \in [Nat -> Nat]
      BY <3>1
    <3> SUFFICES ASSUME NEW b \in Nat PROVE E(n, p)[b] \in Nat
      BY <1>6
    <3> DEFINE c == (b * b) % Q
               square == p[h][c]
    <3>3. c \in Nat
      <4>1. b * b \in Nat
        OBVIOUS
      <4> QED
        BY <1>0, <4>1
    <3> HIDE DEF c, h
    <3>4. n # 0 => square \in Nat
      BY <3>2, <3>3
    <3> HIDE DEF square
    <3>5. n # 0 => (square * b) % Q \in Nat
      <4> SUFFICES ASSUME n # 0 PROVE (square * b) % Q \in Nat
        OBVIOUS
      <4>1. square \in Nat
        BY <3>4
      <4>2. square * b \in Nat
        BY <4>1, Products
      <4> QED
        BY <1>0, <4>2
    <3> QED
      BY <3>4, <3>5 DEF square, c, h
  <2> HIDE DEF S
  <2>2. Nat \subseteq S
    BY <2>1, Induct
  <2> QED
    BY <2>2 DEF S
<1>8. \A n, b \in Nat :
          p[n][b] =
              IF n = 0 THEN 1
              ELSE LET square == p[n \div 2][(b * b) % Q]
                   IN  IF n % 2 = 1 THEN (square * b) % Q ELSE square
  <2> TAKE n, b \in Nat
  <2>1. p[n] = E(n, p)
    <3> HIDE DEF E
    <3> QED
      BY <1>6
  <2> QED
    BY <2>1
<1> QED
  BY <1>7, <1>8 DEF p

(* PowMod computes powers. *)
LEMMA PowModIsPower ==
    ASSUME NEW e \in Nat, NEW b \in Nat
    PROVE  PowMod[e][b] \in Nat /\ Norm(PowMod[e][b]) = Norm(Power(b, e))
<1> DEFINE S == {n \in Nat :
                    \A c \in Nat : Norm(PowMod[n][c]) = Norm(Power(c, n))}
<1>0. Q \in Nat /\ Q > 1 /\ \A a \in Nat : a % Q \in Nat
  BY ModulusAssumption, ParametersAssumption
<1>1. ASSUME NEW n \in Nat, \A m \in 0 .. n - 1 : m \in S
      PROVE  n \in S
  <2> SUFFICES ASSUME NEW c \in Nat
               PROVE  Norm(PowMod[n][c]) = Norm(Power(c, n))
    OBVIOUS
  <2>1. CASE n = 0
    <3>1. PowMod[0][c] = 1
      BY PowModFacts
    <3>2. Power(c, 0) = 1
      BY PowerFacts
    <3> QED
      BY <2>1, <3>1, <3>2
  <2>2. CASE n # 0
    <3> DEFINE h == n \div 2
               d == (c * c) % Q
               s == PowMod[h][d]
               w == Power(c, h)
    <3>1. /\ h \in Nat /\ h \in S /\ n % 2 \in {0, 1} /\ n = 2 * h + (n % 2)
      BY <1>1, <2>2, Halves
    <3>2. c * c \in Nat /\ d \in Nat /\ Norm(d) = Norm(c * c)
      <4>1. c * c \in Nat
        OBVIOUS
      <4>2. d \in Nat /\ d = Norm(c * c)
        BY <1>0, <4>1 DEF Norm
      <4> HIDE DEF d
      <4>3. Norm(Norm(c * c)) = Norm(c * c)
        BY <4>1, NormFacts
      <4> QED
        BY <4>1, <4>2, <4>3
    <3>3. PowMod[n][c] = IF n % 2 = 1 THEN (s * c) % Q ELSE s
      BY <2>2, PowModFacts
    <3>4. s \in Nat
      <4> HIDE DEF h, d
      <4> QED
        BY <3>1, <3>2, PowModFacts
    <3>5. Norm(s) = Norm(Power(d, h))
      <4> HIDE DEF h, d
      <4> QED
        BY <3>1, <3>2
    <3>6. Norm(Power(d, h)) = Norm(Power(c * c, h))
      <4> HIDE DEF h, d
      <4> QED
        BY <3>1, <3>2, PowerNorm
    <3>7. w \in Int /\ Power(c * c, h) = w * w
      <4> HIDE DEF h
      <4>1. h \in Nat /\ c \in Int
        BY <3>1
      <4> QED
        BY <4>1, PowerOfProduct, PowerFacts
    <3>8. Power(c, 2 * h) = w * w /\ 2 * h \in Nat
      <4>1. 2 * h = h + h /\ 2 * h \in Nat
        BY <3>1
      <4> HIDE DEF h
      <4>2. Power(c, h + h) = Power(c, h) * Power(c, h)
        BY <3>1, PowerPlus
      <4> QED
        BY <4>1, <4>2
    <3> HIDE DEF h, d, s, w
    <3>9. CASE n % 2 = 0
      <4>1. n = 2 * h
        BY <3>1, <3>9
      <4>2. PowMod[n][c] = s
        BY <3>3, <3>9
      <4> QED
        BY <3>5, <3>6, <3>7, <3>8, <4>1, <4>2
    <3>10. CASE n % 2 = 1
      <4> DEFINE k == 2 * h
                 y == Power(c, k)
      <4>1. k \in Nat /\ n = k + 1
        BY <3>1, <3>8, <3>10
      <4>6. y \in Int
        BY <4>1, PowerFacts
      <4>2. Power(c, k + 1) = c * y
        BY <4>1, PowerFacts
      <4>3. Norm(s) = Norm(y)
        BY <3>5, <3>6, <3>7, <3>8
      <4> HIDE DEF k, y
      <4>4. Norm(s * c) = Norm(y * c)
        <5>1. s \in Int /\ c \in Int
          BY <3>4
        <5>2. /\ Norm(Norm(s) * c) = Norm(s * c)
              /\ Norm(Norm(y) * c) = Norm(y * c)
          BY <4>6, <5>1, NormTimes
        <5> QED
          BY <4>3, <5>2
      <4>5. y * c = c * y /\ s * c \in Int
        BY <3>4, <4>6
      <4>7. PowMod[n][c] = Norm(s * c)
        BY <3>3, <3>10 DEF Norm
      <4>8. Norm(Norm(s * c)) = Norm(s * c)
        BY <4>5, NormFacts
      <4> QED
        BY <4>1, <4>2, <4>4, <4>5, <4>7, <4>8
    <3> QED
      BY <3>1, <3>9, <3>10
  <2> QED
    BY <2>1, <2>2
<1>2. PowMod[e][b] \in Nat
  BY PowModFacts
<1> HIDE DEF S
<1>3. e \in S
  BY <1>1, Induct
<1> QED
  BY <1>2, <1>3 DEF S

-----------------------------------------------------------------------------
(* The extended Euclidean algorithm: the inverse modulo a prime. *)

(* Applying a function to three arguments, one after another. *)
LEMMA Applied3 ==
    ASSUME NEW h \in [Nat -> [Int -> [Int -> Int]]],
           NEW a \in Nat, NEW b \in Int, NEW c \in Int
    PROVE  h[a][b][c] \in Int
<1>1. h[a] \in [Int -> [Int -> Int]]
  OBVIOUS
<1>2. h[a][b] \in [Int -> Int]
  BY <1>1
<1> QED
  BY <1>2

(* What the definition of Euclid says of one call. *)
EuclidCall(r, oldR, oldS, s) ==
    /\ Euclid[r][oldR][oldS][s] \in Int
    /\ Euclid[r][oldR][oldS][s] =
          IF r = 0 THEN oldS
          ELSE LET q == oldR \div r
               IN  Euclid[oldR - q * r][r][s][oldS - q * s]

(* Euclid follows its definition. *)
LEMMA EuclidFacts ==
    \A r \in Nat, oldR \in Nat, oldS, s \in Int : EuclidCall(r, oldR, oldS, s)
<1> DEFINE D == Nat
           X == [Nat -> [Int -> [Int -> Int]]]
           x == [oldR \in Nat |-> [oldS \in Int |-> [s \in Int |-> 0]]]
           E(r, g) ==
               [oldR \in Nat |-> [oldS \in Int |-> [s \in Int |->
                   IF r = 0 THEN oldS
                   ELSE LET q == oldR \div r
                        IN  g[oldR - q * r][r][s][oldS - q * s]]]]
           step == [r \in D |-> [g \in [D -> X] |-> E(r, g)]]
<1>0. ASSUME NEW r \in Nat, r # 0, NEW oldR \in Nat
      PROVE  /\ oldR \div r \in Int
             /\ oldR - (oldR \div r) * r \in 0 .. r - 1
  <2> DEFINE q == oldR \div r
             m == oldR % r
  <2>1. q \in Int /\ m \in 0 .. r - 1 /\ oldR = r * q + m
    BY <1>0, Division
  <2> HIDE DEF q, m
  <2>2. oldR - q * r \in 0 .. r - 1
    BY <2>1
  <2> QED
    BY <2>1, <2>2 DEF q
<1>1. ASSUME NEW r \in Nat, NEW g \in [D -> X]
      PROVE  E(r, g) \in X
  <2> SUFFICES ASSUME NEW oldR \in Nat, NEW oldS \in Int, NEW s \in Int,
                      r # 0
               PROVE  LET q == oldR \div r
                      IN  g[oldR - q * r][r][s][oldS - q * s] \in Int
    OBVIOUS
  <2> DEFINE q == oldR \div r
             k == oldR - q * r
  <2>1. q \in Int /\ k \in Nat
    BY <1>0
  <2> HIDE DEF q, k
  <2> DEFINE z == oldS - q * s
  <2>2. z \in Int
    BY <2>1
  <2>3. g[k] \in X
    <3> HIDE DEF X
    <3> QED
      BY <2>1
  <2> DEFINE h == g[k]
  <2>4. h \in X
    BY <2>3
  <2> HIDE DEF z, h
  <2>5. h[r][s][z] \in Int
    BY <2>2, <2>4, Applied3
  <2> QED
    BY <2>5 DEF h, z, k, q
<1>2. ASSUME NEW r \in Nat, NEW g \in [D -> X], NEW h \in [D -> X],
             \A k \in D : k < r => g[k] = h[k]
      PROVE  E(r, g) = E(r, h)
  <2>1. ASSUME NEW oldR \in Nat, r # 0
        PROVE  g[oldR - (oldR \div r) * r] = h[oldR - (oldR \div r) * r]
    <3> DEFINE k == oldR - (oldR \div r) * r
    <3>1. k \in 0 .. r - 1
      BY <1>0, <2>1
    <3> HIDE DEF k
    <3>2. g[k] = h[k]
      BY <1>2, <3>1
    <3> QED
      BY <3>2 DEF k
  <2> QED
    BY <2>1
<1>3. step \in Steps(D, X)
  <2> HIDE DEF E, X
  <2>1. step \in [D -> [[D -> X] -> X]]
    BY <1>1
  <2>2. \A n \in D : \A g, h \in [D -> X] :
           (\A k \in D : k < n => g[k] = h[k]) => step[n][g] = step[n][h]
    BY <1>2
  <2> HIDE DEF step, D
  <2> QED
    BY <2>1, <2>2 DEF Steps
<1>4. PICK f \in [D -> X] : \A r \in D : f[r] = E(r, f)
  <2>1. D \in SUBSET Nat /\ x \in X
    OBVIOUS
  <2>2. \A r \in D : \A g \in [D -> X] : step[r][g] = E(r, g)
    <3> HIDE DEF E, D, X
    <3> QED
      OBVIOUS
  <2> HIDE DEF step, D, X, x, E
  <2>3. Follows(D, X, step) # {}
    BY <1>3, <2>1, Recursion
  <2> QED
    BY <2>2, <2>3 DEF Follows
<1> DEFINE R(g) == [r \in Nat |-> E(r, g)]
<1>5. f = R(f)
  <2> HIDE DEF E
  <2> QED
    BY <1>4
<1>6. Euclid = CHOOSE g : g = R(g)
  BY DEF Euclid
<1> DEFINE p == Euclid
<1>7. p = R(p)
  <2> HIDE DEF R
  <2> QED
    BY <1>5, <1>6
<1> HIDE DEF p
<1>8. \A r \in Nat : p[r] = E(r, p)
  <2> HIDE DEF E
  <2> QED
    BY <1>7
<1>9. \A r \in Nat : p[r] \in X
  <2> DEFINE S == {r \in Nat : p[r] \in X}
  <2>1. ASSUME NEW r \in Nat, \A m \in 0 .. r - 1 : m \in S
        PROVE  r \in S
    <3> DEFINE g == [k \in D |-> IF k \in 0 .. r - 1 THEN p[k] ELSE x]
    <3>1. x \in X
      OBVIOUS
    <3>2. g \in [D -> X]
      <4> HIDE DEF X, x
      <4> QED
        BY <2>1, <3>1
    <3>3. E(r, g) = E(r, p)
      <4>1. ASSUME NEW oldR \in Nat, r # 0
            PROVE  g[oldR - (oldR \div r) * r] = p[oldR - (oldR \div r) * r]
        <5> DEFINE k == oldR - (oldR \div r) * r
        <5>1. k \in 0 .. r - 1
          BY <1>0, <4>1
        <5> HIDE DEF k, x
        <5>2. g[k] = p[k]
          BY <5>1
        <5> QED
          BY <5>2 DEF k
      <4> HIDE DEF g
      <4> QED
        BY <4>1
    <3>4. E(r, g) \in X
      <4> HIDE DEF E, X, g
      <4> QED
        BY <1>1, <3>2
    <3> HIDE DEF E, X
    <3> QED
      BY <1>8, <3>3, <3>4
  <2> HIDE DEF S
  <2>2. Nat \subseteq S
    BY <2>1, Induct
  <2> QED
    BY <2>2 DEF S
<1>10. ASSUME NEW r \in Nat, NEW oldR \in Nat, NEW oldS \in Int, NEW s \in Int
       PROVE  /\ p[r][oldR][oldS][s] \in Int
              /\ p[r][oldR][oldS][s] =
                    IF r = 0 THEN oldS
                    ELSE LET q == oldR \div r
                         IN  p[oldR - q * r][r][s][oldS - q * s]
  <2> DEFINE h == p[r]
  <2>1. h \in X
    <3> HIDE DEF X
    <3> QED
      BY <1>9
  <2>2. h = E(r, p)
    <3> HIDE DEF E
    <3> QED
      BY <1>8
  <2> HIDE DEF h
  <2>3. h[oldR][oldS][s] \in Int
    BY <2>1, Applied3
  <2>4. h[oldR][oldS][s] =
            IF r = 0 THEN oldS
            ELSE LET q == oldR \div r
                 IN  p[oldR - q * r][r][s][oldS - q * s]
    BY <2>2
  <2> QED
    BY <2>3, <2>4 DEF h
<1> QED
  BY <1>10 DEF p, EuclidCall

(* A quotient and a remainder that fit are the ones. *)
LEMMA DivisionUnique ==
    ASSUME NEW m \in Nat, m > 0, NEW k \in Int, NEW r \in 0 .. m - 1
    PROVE  (m * k + r) \div m = k /\ (m * k + r) % m = r
<1> DEFINE a == m * k + r
           q == a \div m
           n == a % m
           e == k - q
<1>1. a \in Int
  OBVIOUS
<1>2. a = m * q + n /\ q \in Int /\ n \in 0 .. m - 1
  <2> HIDE DEF a
  <2> QED
    BY <1>1, Division
<1> HIDE DEF q, n
<1>3. e \in Int /\ m * e = n - r
  BY <1>2
<1> HIDE DEF e
<1>4. ~(e >= 1)
  BY <1>2, <1>3
<1>5. ~(e <= -1)
  BY <1>2, <1>3
<1>6. e = 0
  BY <1>3, <1>4, <1>5
<1>7. q = k /\ n = r
  BY <1>2, <1>3, <1>6 DEF e
<1> QED
  BY <1>7 DEF q, n

(* Euclid's algorithm ends when nothing is left to divide by. *)
LEMMA EuclidEnds ==
    ASSUME NEW oldR \in Nat, NEW oldS \in Int, NEW s \in Int
    PROVE  Euclid[0][oldR][oldS][s] = oldS
<1>1. EuclidCall(0, oldR, oldS, s)
  BY EuclidFacts
<1> QED
  BY <1>1 DEF EuclidCall

(* A multiple leaves no remainder. *)
LEMMA Multiple ==
    ASSUME NEW m \in Nat, m > 0, NEW k \in Int
    PROVE  (m * k) \div m = k /\ (m * k) % m = 0
<1> DEFINE r == 0
<1>1. r \in 0 .. m - 1 /\ m * k + r = m * k
  OBVIOUS
<1> HIDE DEF r
<1>2. (m * k + r) \div m = k /\ (m * k + r) % m = r
  BY <1>1, DivisionUnique
<1> QED
  BY <1>1, <1>2 DEF r

(* One turn of the loop of modInverse. *)
Turn(r, oldR, oldS, s) ==
    \E q \in Int, k \in 0 .. r - 1, z \in Int :
        /\ k = oldR - q * r /\ z = oldS - q * s
        /\ Euclid[r][oldR][oldS][s] = Euclid[k][r][s][z]

(* Every turn but the last is one. *)
LEMMA EuclidTurns ==
    ASSUME NEW r \in Nat, NEW oldR \in Nat, NEW oldS \in Int, NEW s \in Int,
           r # 0
    PROVE  Turn(r, oldR, oldS, s)
<1> DEFINE q == oldR \div r
           m == oldR % r
           k == oldR - q * r
           z == oldS - q * s
<1>1. q \in Int /\ m \in 0 .. r - 1 /\ oldR = r * q + m
  BY Division
<1>2. Euclid[r][oldR][oldS][s] = Euclid[k][r][s][z]
  <2>1. EuclidCall(r, oldR, oldS, s)
    BY EuclidFacts
  <2> QED
    BY <2>1 DEF EuclidCall
<1> HIDE DEF q, m
<1>3. k \in 0 .. r - 1 /\ z \in Int /\ k = oldR - q * r /\ z = oldS - q * s
  BY <1>1
<1> HIDE DEF k, z
<1> QED
  BY <1>1, <1>2, <1>3 DEF Turn

(* d divides a. *)
Divides(d, a) == \E k \in Int : a = d * k

(* x is y times a modulo Q: what the loop keeps true of its numbers. *)
Behind(a, x, y) == Norm(x) = Norm(y * a)

(* A turn with n and o for r and oldR, v and w for oldS and s: it keeps    *)
(* both numbers multiples of a, and any common divisor afterwards was one  *)
(* before.                                                                 *)
Towards(a, n, o, v, w) ==
    \E k \in 0 .. n - 1, z \in Int :
        /\ Behind(a, k, z)
        /\ Euclid[n][o][v][w] = Euclid[k][n][w][z]
        /\ \A g \in Nat : Divides(g, n) /\ Divides(g, k) => Divides(g, o)

(* One turn keeps both numbers multiples of a, and loses no divisor.       *)
LEMMA EuclidStep ==
    ASSUME NEW a \in Int, NEW n \in Nat, NEW o \in Nat,
           NEW v \in Int, NEW w \in Int,
           n # 0, Behind(a, o, v), Behind(a, n, w)
    PROVE  Towards(a, n, o, v, w)
<1>1. PICK q \in Int, k \in 0 .. n - 1, z \in Int :
         /\ k = o - q * n /\ z = v - q * w
         /\ Euclid[n][o][v][w] = Euclid[k][n][w][z]
  <2>1. Turn(n, o, v, w)
    BY EuclidTurns
  <2> QED
    BY <2>1 DEF Turn
<1>2. Behind(a, k, z)
  <2>1. /\ q * n \in Int /\ q * (w * a) \in Int /\ v * a \in Int
        /\ w * a \in Int
    OBVIOUS
  <2>2. Norm(q * n) = Norm(q * (w * a))
    <3> DEFINE i == w * a
    <3>1. i \in Int /\ Norm(n) = Norm(i) /\ n \in Int
      BY DEF Behind
    <3> HIDE DEF i
    <3>2. /\ Norm(q * Norm(n)) = Norm(q * n)
          /\ Norm(q * Norm(i)) = Norm(q * i)
      BY <3>1, NormTimes
    <3>3. Norm(q * n) = Norm(q * i)
      BY <3>1, <3>2
    <3> QED
      BY <3>3 DEF i
  <2>3. Norm(o - q * n) = Norm(v * a - q * (w * a))
    <3> DEFINE i == v * a
               j == q * n
               l == q * (w * a)
    <3>1. /\ i \in Int /\ j \in Int /\ l \in Int
          /\ Norm(o) = Norm(i) /\ Norm(j) = Norm(l)
      BY <2>1, <2>2 DEF Behind
    <3> HIDE DEF i, j, l
    <3>2. Norm(o - j) = Norm(i - l)
      BY <3>1, NormArith
    <3> QED
      BY <3>2 DEF i, j, l
  <2>4. v * a - q * (w * a) = (v - q * w) * a
    OBVIOUS
  <2> QED
    BY <1>1, <2>3, <2>4 DEF Behind
<1>3. ASSUME NEW g \in Nat, Divides(g, n), Divides(g, k)
      PROVE  Divides(g, o)
  <2>1. PICK i \in Int : n = g * i
    BY <1>3 DEF Divides
  <2>2. PICK j \in Int : k = g * j
    BY <1>3 DEF Divides
  <2>3. o = k + q * n
    BY <1>1
  <2>4. o = g * (j + q * i) /\ j + q * i \in Int
    BY <2>1, <2>2, <2>3
  <2> QED
    BY <2>4 DEF Divides
<1> QED
  BY <1>1, <1>2, <1>3 DEF Towards

(* What is left of Euclid's numbers divides both of them, and is a         *)
(* multiple of a modulo Q if they are.                                     *)
LEMMA EuclidDivides ==
    ASSUME NEW a \in Int, NEW r \in Nat, NEW oldR \in Nat,
           NEW oldS \in Int, NEW s \in Int,
           Behind(a, oldR, oldS), Behind(a, r, s)
    PROVE  \E g \in Nat : /\ Divides(g, oldR) /\ Divides(g, r)
                          /\ Behind(a, g, Euclid[r][oldR][oldS][s])
<1> DEFINE Goal(n, o, v, w) ==
        \E g \in Nat : /\ Divides(g, o) /\ Divides(g, n)
                       /\ Behind(a, g, Euclid[n][o][v][w])
           S == {n \in Nat : \A o \in Nat, v, w \in Int :
                    Behind(a, o, v) /\ Behind(a, n, w)
                        => Goal(n, o, v, w)}
<1>1. ASSUME NEW n \in Nat, \A m \in 0 .. n - 1 : m \in S
      PROVE  n \in S
  <2> SUFFICES ASSUME NEW o \in Nat, NEW v \in Int, NEW w \in Int,
                      Behind(a, o, v), Behind(a, n, w)
               PROVE  Goal(n, o, v, w)
    OBVIOUS
  <2>1. CASE n = 0
    <3>1. Euclid[n][o][v][w] = v
      BY <2>1, EuclidEnds
    <3>2. Divides(o, o) /\ Divides(o, n)
      <4>1. o = o * 1 /\ 0 = o * 0
        OBVIOUS
      <4> QED
        BY <2>1, <4>1 DEF Divides
    <3> QED
      BY <3>1, <3>2
  <2>2. CASE n # 0
    <3>1. PICK k \in 0 .. n - 1, z \in Int :
             /\ Behind(a, k, z)
             /\ Euclid[n][o][v][w] = Euclid[k][n][w][z]
             /\ \A g \in Nat : Divides(g, n) /\ Divides(g, k)
                                   => Divides(g, o)
      <4>1. Towards(a, n, o, v, w)
        BY <2>2, EuclidStep
      <4> QED
        BY <4>1 DEF Towards
    <3>2. k \in S
      BY <1>1
    <3> HIDE DEF Goal
    <3>3. Goal(k, n, w, z)
      BY <3>1, <3>2
    <3>4. PICK g \in Nat : /\ Divides(g, n) /\ Divides(g, k)
                           /\ Behind(a, g, Euclid[k][n][w][z])
      BY <3>3 DEF Goal
    <3> QED
      BY <3>1, <3>4 DEF Goal
  <2> QED
    BY <2>1, <2>2
<1> HIDE DEF Goal
<1>2. r \in S
  <2> HIDE DEF S
  <2> QED
    BY <1>1, Induct
<1>3. Goal(r, oldR, oldS, s)
  BY <1>2
<1> QED
  BY <1>3 DEF Goal

(* A number that Q does not divide has the inverse that modInverse finds,  *)
(* for Q is a prime.                                                       *)
THEOREM ModInverseInverts ==
    ASSUME NEW a \in Nat, Norm(a) # 0
    PROVE  /\ ModInverse(a, Q) \in Coefficients
           /\ Norm(a * ModInverse(a, Q)) = 1
<1>0. /\ Q \in Nat /\ Q > 1 /\ \A d \in 2 .. Q - 1 : Q % d # 0
      /\ Norm(1) = 1
  <2>1. 1 \in Coefficients
    BY ModulusAssumption, ParametersAssumption DEF Coefficients
  <2> QED
    BY <2>1, ModulusAssumption, ParametersAssumption, NormFacts
<1> DEFINE u == 1
           z == 0
           e == Euclid[Q][a][u][z]
<1>1. e \in Int
  <2>1. u \in Int /\ z \in Int
    OBVIOUS
  <2> HIDE DEF u, z
  <2> QED
    <3>1. EuclidCall(Q, a, u, z)
      BY <1>0, <2>1, EuclidFacts
    <3> QED
      BY <3>1 DEF EuclidCall
<1>2. Behind(a, a, 1) /\ Behind(a, Q, 0)
  <2>1. 1 * a = a /\ 0 * a = 0 /\ 0 + Q * 1 = Q
    BY <1>0
  <2>2. Norm(0 + Q * 1) = Norm(0)
    BY NormShift
  <2> QED
    BY <2>1, <2>2 DEF Behind
<1>3. PICK g \in Nat : Divides(g, a) /\ Divides(g, Q) /\ Behind(a, g, e)
  <2>1. /\ u \in Int /\ z \in Int /\ a \in Int
        /\ Behind(a, a, u) /\ Behind(a, Q, z)
    BY <1>2
  <2> HIDE DEF u, z
  <2>2. \E g \in Nat : /\ Divides(g, a) /\ Divides(g, Q)
                        /\ Behind(a, g, Euclid[Q][a][u][z])
    <3> HIDE DEF e
    <3> QED
      BY <1>0, <2>1, EuclidDivides
  <2> QED
    BY <2>2
<1>4. g = 1
  <2>1. PICK k \in Int : Q = g * k
    BY <1>3 DEF Divides
  <2>2. g > 0 /\ k > 0
    BY <1>0, <2>1
  <2>3. g <= Q
    BY <1>0, <2>1, <2>2
  <2>4. g \notin 2 .. Q - 1
    <3> SUFFICES ASSUME g \in 2 .. Q - 1 PROVE FALSE
      OBVIOUS
    <3>1. (g * k + 0) % g = 0 /\ g * k + 0 = Q
      BY <2>1, <2>2, DivisionUnique
    <3> QED
      BY <1>0, <3>1
  <2>5. g # Q
    <3> SUFFICES ASSUME g = Q PROVE FALSE
      OBVIOUS
    <3>1. PICK i \in Int : a = Q * i
      BY <1>3 DEF Divides
    <3>2. z + Q * i = a /\ z \in Int
      BY <1>0, <3>1
    <3>3. Norm(z) = z
      BY <1>0, NormFacts DEF Coefficients
    <3> HIDE DEF z
    <3>4. Norm(z + Q * i) = Norm(z)
      BY <3>2, NormShift
    <3> QED
      BY <3>2, <3>3, <3>4 DEF z
  <2> QED
    BY <1>0, <2>2, <2>3, <2>4, <2>5
<1>5. ModInverse(a, Q) = Norm(e)
  BY DEF ModInverse, Norm
<1> HIDE DEF e
<1>6. Norm(e) \in Coefficients
  BY <1>1, NormFacts
<1>8. Norm(a * Norm(e)) = Norm(a * e)
  BY <1>1, NormTimes
<1>7. a * e = e * a
  BY <1>1
<1> QED
  BY <1>0, <1>3, <1>4, <1>5, <1>6, <1>7, <1>8
  DEF Behind

-----------------------------------------------------------------------------
(* The lengths of the blocks of a pass, and the reversed indices. *)

(* A length H, twice it, and how many blocks of that there are. *)
Doubles(H, L, M) ==
    /\ H \in Nat /\ L \in Nat /\ M \in Nat
    /\ H > 0 /\ M > 0 /\ L = 2 * H /\ N = L * M /\ N = H * (2 * M)
    /\ H \in Lengths /\ L \in Lengths /\ M \in Lengths /\ 2 * M \in Lengths
    /\ L \div 2 = H /\ N \div L = M /\ N \div H = 2 * M

(* The number of coefficients. *)
LEMMA NFacts == N \in Nat /\ N > 1
BY ParametersAssumption

(* A divisor with its quotient. *)
LEMMA DivisorFacts ==
    ASSUME NEW L \in Nat, NEW M \in Nat, L * M = N
    PROVE  L \in Lengths /\ M \in Lengths /\ N \div L = M /\ L > 0 /\ M > 0
<1>0. N \in Nat /\ N > 1
  BY NFacts
<1>1. L > 0 /\ M > 0
  BY <1>0
<1>2. L <= N /\ M <= N
  BY <1>0, <1>1
<1>3. (L * M) % L = 0 /\ (L * M) \div L = M
  BY <1>1, Multiple
<1>4. (M * L) % M = 0
  BY <1>1, Multiple
<1>5. M * L = N
  BY <1>0
<1> QED
  BY <1>0, <1>1, <1>2, <1>3, <1>4, <1>5 DEF Lengths

(* Every length divides N. *)
LEMMA LengthFacts ==
    ASSUME NEW L \in Lengths
    PROVE  L \in Nat /\ L > 0 /\ \E M \in Nat : L * M = N
<1>0. N \in Nat /\ N > 1
  BY NFacts
<1>1. L \in 1 .. N /\ N % L = 0
  BY DEF Lengths
<1> DEFINE M == N \div L
<1>2. M \in Int /\ N = L * M + (N % L)
  BY <1>0, <1>1, Division
<1> HIDE DEF M
<1>3. L * M = N
  BY <1>0, <1>1, <1>2
<1>4. M \in Nat
  <2> SUFFICES ASSUME M < 0 PROVE FALSE
    BY <1>2
  <2>1. -M \in Nat /\ L \in Nat
    BY <1>1, <1>2
  <2>2. L * (-M) \in Nat
    BY <2>1, Products
  <2>3. L * (-M) = -(L * M)
    BY <1>1, <1>2
  <2> QED
    BY <1>0, <1>3, <2>2, <2>3
<1>5. \E K \in Nat : L * K = N
  BY <1>3, <1>4, Zenon
<1> QED
  BY <1>0, <1>1, <1>5

(* Every length but one is twice another. *)
LEMMA Halving ==
    ASSUME NEW L \in Lengths, L # 1
    PROVE  \E H, M \in Nat : Doubles(H, L, M)
<1>0. N \in Nat /\ N > 1
  BY NFacts
<1>1. L \in Nat /\ L > 0 /\ L % 2 = 0
  BY LengthFacts, ParametersAssumption
<1>2. PICK M \in Nat : L * M = N
  BY LengthFacts
<1> DEFINE H == L \div 2
<1>3. H \in Nat /\ L = 2 * H + (L % 2)
  BY <1>1, Halves
<1> HIDE DEF H
<1>4. L = 2 * H /\ H > 0
  BY <1>1, <1>3
<1>5. M \in Lengths /\ L \in Lengths /\ N \div L = M /\ M > 0
  BY <1>1, <1>2, DivisorFacts
<1>6. 2 * M \in Nat /\ H * (2 * M) = N
  BY <1>2, <1>3, <1>4
<1>7. H \in Lengths /\ 2 * M \in Lengths /\ N \div H = 2 * M
  <2> DEFINE K == 2 * M
  <2>1. K \in Nat /\ H * K = N
    BY <1>6
  <2> HIDE DEF K
  <2>2. H \in Lengths /\ K \in Lengths /\ N \div H = K
    BY <1>3, <2>1, DivisorFacts
  <2> QED
    BY <2>2 DEF K
<1>8. L \div 2 = H
  BY DEF H
<1>9. N = L * M /\ N = H * (2 * M)
  BY <1>2, <1>6
<1> QED
  BY <1>1, <1>3, <1>4, <1>5, <1>7, <1>8, <1>9 DEF Doubles

(* The first and the last length. *)
LEMMA Ends == 1 \in Lengths /\ N \in Lengths /\ N \div 1 = N /\ N \div N = 1
<1>0. N \in Nat /\ N > 1 /\ 1 \in Nat /\ 1 * N = N /\ N * 1 = N
  BY NFacts
<1>1. 1 \in Lengths /\ N \in Lengths /\ N \div 1 = N
  <2> DEFINE o == 1
  <2>1. o \in Nat /\ o * N = N
    BY <1>0
  <2> HIDE DEF o
  <2>2. o \in Lengths /\ N \in Lengths /\ N \div o = N
    BY <1>0, <2>1, DivisorFacts
  <2> QED
    BY <2>2 DEF o
<1>2. N \div N = 1
  <2> DEFINE o == 1
  <2>1. o \in Nat /\ N * o = N
    BY <1>0
  <2> HIDE DEF o
  <2>2. N \div N = o
    BY <1>0, <2>1, DivisorFacts
  <2> QED
    BY <2>2 DEF o
<1> QED
  BY <1>1, <1>2

(* What the definition of Reversed says of one index. *)
ReversedTurn(n, i) ==
    Reversed[n][i] = IF n < 2 THEN 0
                     ELSE (i % 2) * (n \div 2) + Reversed[n \div 2][i \div 2]

(* Reversed follows its definition. *)
LEMMA ReversedFacts ==
    \A n, i \in Nat : Reversed[n][i] \in Nat /\ ReversedTurn(n, i)
<1> DEFINE D == Nat
           X == [Nat -> Nat]
           x == [i \in Nat |-> 0]
           E(n, g) ==
               [i \in Nat |->
                   IF n < 2 THEN 0
                   ELSE (i % 2) * (n \div 2) + g[n \div 2][i \div 2]]
           step == [n \in D |-> [g \in [D -> X] |-> E(n, g)]]
<1>1. ASSUME NEW n \in Nat, NEW g, n >= 2 => g[n \div 2] \in X
      PROVE  E(n, g) \in X
  <2> SUFFICES ASSUME NEW i \in Nat, n >= 2
               PROVE  (i % 2) * (n \div 2) + g[n \div 2][i \div 2] \in Nat
    OBVIOUS
  <2> DEFINE h == n \div 2
             b == i % 2
             c == i \div 2
             y == g[h]
  <2>1. h \in Nat /\ b \in Nat /\ c \in Nat
    BY Halves
  <2>2. y \in [Nat -> Nat]
    BY <1>1
  <2> HIDE DEF h, b, c, y
  <2>3. b * h \in Nat
    BY <2>1, Products
  <2>4. b * h + y[c] \in Nat
    BY <2>1, <2>2, <2>3
  <2> QED
    BY <2>4 DEF h, b, c, y
<1>2. ASSUME NEW n \in Nat, NEW g, NEW h,
             \A k \in 0 .. n - 1 : g[k] = h[k]
      PROVE  E(n, g) = E(n, h)
  <2> DEFINE k == n \div 2
  <2>1. ~(n < 2) => k \in 0 .. n - 1
    BY Halves
  <2> HIDE DEF k
  <2>2. ~(n < 2) => g[k] = h[k]
    BY <1>2, <2>1
  <2> QED
    BY <2>2 DEF k
<1>3. step \in Steps(D, X)
  <2>1. ASSUME NEW n \in Nat, NEW g \in [D -> X]
        PROVE  E(n, g) \in X
    <3>1. n \div 2 \in Nat
      BY Halves
    <3>2. g[n \div 2] \in X
      BY <3>1
    <3> HIDE DEF E, X
    <3> QED
      BY <1>1, <3>2
  <2> HIDE DEF E, X
  <2>2. step \in [D -> [[D -> X] -> X]]
    BY <2>1
  <2>3. \A n \in D : \A g, h \in [D -> X] :
           (\A k \in D : k < n => g[k] = h[k]) => step[n][g] = step[n][h]
    <3> SUFFICES ASSUME NEW n \in D, NEW g \in [D -> X], NEW h \in [D -> X],
                        \A k \in D : k < n => g[k] = h[k]
                 PROVE  step[n][g] = step[n][h]
      OBVIOUS
    <3>1. \A k \in 0 .. n - 1 : g[k] = h[k]
      OBVIOUS
    <3>2. E(n, g) = E(n, h)
      BY <1>2, <3>1
    <3> QED
      BY <3>2
  <2> HIDE DEF step, D
  <2> QED
    BY <2>2, <2>3 DEF Steps
<1>4. PICK f \in [D -> X] : \A n \in D : f[n] = E(n, f)
  <2>1. D \in SUBSET Nat /\ x \in X
    OBVIOUS
  <2>2. \A n \in D : \A g \in [D -> X] : step[n][g] = E(n, g)
    <3> HIDE DEF E, D, X
    <3> QED
      OBVIOUS
  <2> HIDE DEF step, D, X, x, E
  <2>3. Follows(D, X, step) # {}
    BY <1>3, <2>1, Recursion
  <2> QED
    BY <2>2, <2>3 DEF Follows
<1> DEFINE R(g) == [n \in Nat |-> E(n, g)]
<1>5. f = R(f)
  <2> HIDE DEF E
  <2> QED
    BY <1>4
<1>6. Reversed = CHOOSE g : g = R(g)
  BY DEF Reversed
<1> DEFINE p == Reversed
<1>7. p = R(p)
  <2> HIDE DEF R
  <2> QED
    BY <1>5, <1>6
<1> HIDE DEF p
<1>8. \A n \in Nat : p[n] = E(n, p)
  <2> HIDE DEF E
  <2> QED
    BY <1>7
<1>9. \A n \in Nat : p[n] \in X
  <2> DEFINE S == {n \in Nat : p[n] \in X}
  <2>1. ASSUME NEW n \in Nat, \A m \in 0 .. n - 1 : m \in S
        PROVE  n \in S
    <3> DEFINE k == n \div 2
    <3>1. n >= 2 => k \in 0 .. n - 1
      BY Halves
    <3> HIDE DEF k
    <3>2. n >= 2 => p[k] \in X
      BY <2>1, <3>1
    <3>3. E(n, p) \in X
      <4> HIDE DEF E, X
      <4> QED
        BY <1>1, <3>2 DEF k
    <3> HIDE DEF E, X
    <3> QED
      BY <1>8, <3>3
  <2> HIDE DEF S
  <2>2. Nat \subseteq S
    BY <2>1, Induct
  <2> QED
    BY <2>2 DEF S
<1>10. ASSUME NEW n \in Nat, NEW i \in Nat
       PROVE  /\ p[n][i] \in Nat
              /\ p[n][i] =
                    IF n < 2 THEN 0
                    ELSE (i % 2) * (n \div 2) + p[n \div 2][i \div 2]
  <2>1. p[n][i] \in Nat
    BY <1>9
  <2>2. p[n] = E(n, p)
    <3> HIDE DEF E
    <3> QED
      BY <1>8
  <2>3. E(n, p)[i] =
            IF n < 2 THEN 0
            ELSE (i % 2) * (n \div 2) + p[n \div 2][i \div 2]
    OBVIOUS
  <2> HIDE DEF E
  <2> QED
    BY <2>1, <2>2, <2>3
<1> QED
  BY <1>10 DEF p, ReversedTurn

(* The places of the even and of the odd blocks. *)
LEMMA ReversedTwice ==
    ASSUME NEW m \in Nat, m > 0, NEW b \in Nat
    PROVE  /\ Reversed[1][b] = 0
           /\ Reversed[m][b] \in Nat
           /\ Reversed[2 * m][2 * b] = Reversed[m][b]
           /\ Reversed[2 * m][2 * b + 1] = m + Reversed[m][b]
<1>1. /\ (2 * b + 0) % 2 = 0 /\ (2 * b + 0) \div 2 = b
      /\ (2 * b + 1) % 2 = 1 /\ (2 * b + 1) \div 2 = b
      /\ (2 * m + 0) \div 2 = m
  OBVIOUS
<1>2. /\ 2 * b \in Nat /\ 2 * b + 1 \in Nat /\ 2 * m \in Nat /\ ~(2 * m < 2)
      /\ 2 * b + 0 = 2 * b /\ 2 * m + 0 = 2 * m
  OBVIOUS
<1> DEFINE n == 2 * m
           c == 2 * b
           d == 2 * b + 1
<1>3. /\ n \in Nat /\ c \in Nat /\ d \in Nat /\ ~(n < 2)
      /\ n \div 2 = m /\ c % 2 = 0 /\ c \div 2 = b /\ d % 2 = 1 /\ d \div 2 = b
  BY <1>1, <1>2
<1> HIDE DEF n, c, d
<1>4. Reversed[n][c] = 0 * m + Reversed[m][b]
  <2>1. ReversedTurn(n, c)
    BY <1>3, ReversedFacts
  <2> QED
    BY <1>3, <2>1 DEF ReversedTurn
<1>5. Reversed[n][d] = 1 * m + Reversed[m][b]
  <2>1. ReversedTurn(n, d)
    BY <1>3, ReversedFacts
  <2> QED
    BY <1>3, <2>1 DEF ReversedTurn
<1>6. Reversed[m][b] \in Nat /\ Reversed[1][b] = 0
  <2>1. Reversed[m][b] \in Nat /\ ReversedTurn(1, b)
    BY ReversedFacts
  <2> QED
    BY <2>1 DEF ReversedTurn
<1>7. Reversed[n][c] = Reversed[m][b] /\ Reversed[n][d] = m + Reversed[m][b]
  BY <1>4, <1>5, <1>6
<1> QED
  BY <1>6, <1>7 DEF n, c, d

(* The reversed index is an index. *)
LEMMA ReversedBelow ==
    ASSUME NEW m \in Lengths, NEW b \in 0 .. m - 1
    PROVE  Reversed[m][b] \in 0 .. m - 1
<1> DEFINE S == {n \in Nat : n \in Lengths =>
                    \A i \in 0 .. n - 1 : Reversed[n][i] \in 0 .. n - 1}
<1>1. ASSUME NEW n \in Nat, \A k \in 0 .. n - 1 : k \in S
      PROVE  n \in S
  <2> SUFFICES ASSUME n \in Lengths, NEW i \in 0 .. n - 1
               PROVE  Reversed[n][i] \in 0 .. n - 1
    OBVIOUS
  <2>1. CASE n = 1
    BY <2>1, ReversedTwice
  <2>2. CASE n # 1
    <3>1. PICK h, k \in Nat : Doubles(h, n, k)
      BY <2>2, Halving
    <3>2. /\ h \in Nat /\ h > 0 /\ n = 2 * h /\ h \in Lengths
          /\ h \in 0 .. n - 1
      BY <3>1 DEF Doubles
    <3> DEFINE c == i \div 2
               d == i % 2
    <3>3. c \in Nat /\ d \in 0 .. 1 /\ i = 2 * c + d
      BY Halves
    <3> HIDE DEF c, d
    <3>4. c \in 0 .. h - 1
      BY <3>2, <3>3
    <3>5. Reversed[h][c] \in 0 .. h - 1
      BY <1>1, <3>2, <3>4
    <3>6. /\ Reversed[2 * h][2 * c] = Reversed[h][c]
          /\ Reversed[2 * h][2 * c + 1] = h + Reversed[h][c]
      BY <3>2, <3>3, ReversedTwice
    <3>7. CASE d = 0
      <4>1. i = 2 * c
        BY <3>3, <3>7
      <4> QED
        BY <3>2, <3>5, <3>6, <4>1
    <3>8. CASE d = 1
      <4>1. i = 2 * c + 1
        BY <3>3, <3>8
      <4> QED
        BY <3>2, <3>5, <3>6, <4>1
    <3> QED
      BY <3>3, <3>7, <3>8
  <2> QED
    BY <2>1, <2>2
<1>2. m \in Nat
  BY LengthFacts
<1> HIDE DEF S
<1>3. m \in S
  BY <1>1, <1>2, Induct
<1> QED
  BY <1>3 DEF S

-----------------------------------------------------------------------------
(* A pass of butterflies, and the passes of a transform. *)

(* Every index is in the lower or the upper half of a block. *)
Halved(H, L, k, b, j) ==
    \/ k = L * b + j /\ k % L = j
    \/ k = L * b + (H + j) /\ k % L = H + j

(* Where the two ends of a butterfly lie: in the lower and in the upper    *)
(* half of the block b, at the same distance j from its start.             *)
LEMMA Places ==
    ASSUME NEW H, NEW L, NEW M, Doubles(H, L, M),
           NEW b \in 0 .. M - 1, NEW j \in 0 .. H - 1
    PROVE  /\ L * b + j \in Index /\ L * b + (H + j) \in Index
           /\ (L * b + j) % L = j /\ (L * b + (H + j)) % L = H + j
           /\ (L * b + j) \div L = b /\ (L * b + (H + j)) \div L = b
           /\ (L * b + j) % H = j /\ (L * b + (H + j)) % H = j
<1>1. /\ H \in Nat /\ L \in Nat /\ M \in Nat /\ H > 0 /\ L > 0 /\ M > 0
      /\ L = 2 * H /\ N = L * M /\ j \in 0 .. L - 1 /\ H + j \in 0 .. L - 1
  BY DEF Doubles
<1>2. /\ (L * b + j) % L = j /\ (L * b + (H + j)) % L = H + j
      /\ (L * b + j) \div L = b /\ (L * b + (H + j)) \div L = b
  BY <1>1, DivisionUnique
<1> DEFINE c == 2 * b
           d == 2 * b + 1
<1>3. /\ L * b + j = H * c + j /\ L * b + (H + j) = H * d + j
      /\ c \in Int /\ d \in Int
  BY <1>1
<1>4. (H * c + j) % H = j /\ (H * d + j) % H = j
  <2> HIDE DEF c, d
  <2> QED
    BY <1>1, <1>3, DivisionUnique
<1>5. L * b + j \in Index /\ L * b + (H + j) \in Index
  <2>1. b + 1 <= M /\ M - (b + 1) \in Nat
    BY <1>1
  <2>2. L * (M - (b + 1)) \in Nat
    BY <1>1, <2>1, Products
  <2>3. L * (M - (b + 1)) = N - (L * b + L)
    BY <1>1
  <2>4. L * b \in Nat
    BY <1>1, Products
  <2>5. N \in Nat
    BY NFacts
  <2> DEFINE i == L * b
  <2> HIDE DEF i
  <2>6. i \in Nat /\ N - (i + L) \in Nat
    BY <2>2, <2>3, <2>4 DEF i
  <2>7. i + j \in 0 .. N - 1 /\ i + (H + j) \in 0 .. N - 1
    BY <1>1, <2>5, <2>6
  <2> QED
    BY <2>7 DEF i, Index
<1> QED
  BY <1>2, <1>3, <1>4, <1>5

(* Every index is one end of a butterfly. *)
LEMMA PlacesAll ==
    ASSUME NEW H, NEW L, NEW M, Doubles(H, L, M), NEW k \in Index
    PROVE  \E b \in 0 .. M - 1, j \in 0 .. H - 1 : Halved(H, L, k, b, j)
<1>1. /\ H \in Nat /\ L \in Nat /\ M \in Nat /\ H > 0 /\ L > 0 /\ M > 0
      /\ L = 2 * H /\ N = L * M
  BY DEF Doubles
<1> DEFINE b == k \div L
           r == k % L
<1>2. k \in Nat /\ k < N
  BY NFacts DEF Index
<1>3. b \in Int /\ r \in 0 .. L - 1 /\ k = L * b + r /\ k % L = r
  BY <1>1, <1>2, Division
<1> HIDE DEF b, r
<1>4. b \in 0 .. M - 1
  <2>1. ~(b < 0)
    <3> SUFFICES ASSUME b < 0 PROVE FALSE
      OBVIOUS
    <3>1. -(b + 1) \in Nat
      BY <1>3
    <3>2. L * (-(b + 1)) \in Nat
      BY <1>1, <3>1, Products
    <3>3. L * (-(b + 1)) = -(L * b) - L
      BY <1>1, <1>3
    <3> QED
      BY <1>1, <1>2, <1>3, <3>2, <3>3
  <2>2. ~(b >= M)
    <3> SUFFICES ASSUME b >= M PROVE FALSE
      OBVIOUS
    <3>1. b - M \in Nat
      BY <1>1, <1>3
    <3>2. L * (b - M) \in Nat
      BY <1>1, <3>1, Products
    <3>3. L * (b - M) = L * b - N
      BY <1>1, <1>3
    <3> QED
      BY <1>1, <1>2, <1>3, <3>2, <3>3
  <2> QED
    BY <1>1, <1>3, <2>1, <2>2
<1>5. CASE r < H
  <2>1. r \in 0 .. H - 1 /\ Halved(H, L, k, b, r)
    BY <1>1, <1>3, <1>5 DEF Halved
  <2> QED
    BY <1>4, <2>1
<1>6. CASE r >= H
  <2> DEFINE j == r - H
  <2>1. j \in 0 .. H - 1 /\ H + j = r
    BY <1>1, <1>3, <1>6
  <2> HIDE DEF j
  <2>2. Halved(H, L, k, b, j)
    BY <1>3, <2>1 DEF Halved
  <2> QED
    BY <1>4, <2>1, <2>2
<1> QED
  BY <1>1, <1>3, <1>5, <1>6

(* What a pass of butterflies does to a block. *)
LEMMA ButterflyFacts ==
    ASSUME NEW H, NEW L, NEW M, Doubles(H, L, M), NEW f, NEW w,
           NEW b \in 0 .. M - 1, NEW j \in 0 .. H - 1
    PROVE  LET p == L * b + j
               q == L * b + (H + j)
               v == (f[q] * PowMod[j][w]) % Q
           IN  /\ Butterflies(f, L, w)[p] = (f[p] + v) % Q
               /\ Butterflies(f, L, w)[q] = (f[p] - v + Q) % Q
<1> DEFINE p == L * b + j
           q == L * b + (H + j)
           v == (f[q] * PowMod[j][w]) % Q
<1>1. /\ p \in Index /\ q \in Index /\ p % L = j /\ q % L = H + j
      /\ p \div L = b /\ q \div L = b /\ p % H = j /\ q % H = j
  BY Places
<1>2. /\ H \in Nat /\ L \in Nat /\ M \in Nat /\ L \div 2 = H
  BY DEF Doubles
<1>3. b * L + j = p /\ (b * L + j) + H = q
  BY <1>2
<1> HIDE DEF p, q
<1>4. Butterflies(f, L, w)[p] = (f[p] + v) % Q
  <2>1. j < H
    BY <1>2
  <2> QED
    BY <1>1, <1>2, <1>3, <2>1 DEF Butterflies
<1>5. Butterflies(f, L, w)[q] = (f[p] - v + Q) % Q
  <2>1. ~(H + j < H)
    BY <1>2
  <2> QED
    BY <1>1, <1>2, <1>3, <2>1 DEF Butterflies
<1> QED
  BY <1>4, <1>5 DEF p, q

(* A pass returns coefficients. *)
LEMMA ButterflyType ==
    ASSUME NEW L \in Lengths, L # 1, NEW f \in [Index -> Int], NEW w \in Nat
    PROVE  Butterflies(f, L, w) \in [Index -> Coefficients]
<1>1. PICK H, M \in Nat : Doubles(H, L, M)
  BY Halving
<1>2. H > 0 /\ L \div 2 = H
  BY <1>1 DEF Doubles
<1> DEFINE g == Butterflies(f, L, w)
<1>3. ASSUME NEW k \in Index PROVE g[k] \in Coefficients
  <2>1. PICK b \in 0 .. M - 1, j \in 0 .. H - 1 : Halved(H, L, k, b, j)
    BY <1>1, PlacesAll
  <2> DEFINE p == L * b + j
             q == L * b + (H + j)
             v == (f[q] * PowMod[j][w]) % Q
  <2>2. k = p \/ k = q
    BY <2>1 DEF Halved
  <2>3. g[p] = (f[p] + v) % Q /\ g[q] = (f[p] - v + Q) % Q
    BY <1>1, ButterflyFacts
  <2>4. f[p] \in Int /\ f[q] \in Int
    BY <1>1, Places
  <2>5. PowMod[j][w] \in Nat
    <3>1. j \in Nat
      BY <1>2
    <3> QED
      BY <3>1, PowModFacts
  <2> HIDE DEF g, p, q
  <2>6. f[q] * PowMod[j][w] \in Int
    BY <2>4, <2>5
  <2>7. v \in Int
    BY <2>6, NormFacts DEF Norm
  <2> HIDE DEF v
  <2>8. f[p] + v \in Int /\ f[p] - v + Q \in Int
    BY <2>4, <2>7, NormFacts
  <2>9. g[p] \in Coefficients /\ g[q] \in Coefficients
    BY <2>3, <2>8, NormFacts DEF Norm
  <2> QED
    BY <2>2, <2>9
<1>4. g = [k \in Index |-> g[k]]
  BY DEF Butterflies
<1> HIDE DEF g
<1>5. g \in [Index -> Coefficients]
  BY <1>3, <1>4
<1> QED
  BY <1>5 DEF g

(* The shuffled polynomial is one. *)
LEMMA BitReverseType ==
    ASSUME NEW p \in [Index -> Int]
    PROVE  BitReverse(p) \in [Index -> Int]
<1>1. \A i \in Index : Reversed[N][i] \in Index
  BY Ends, ReversedBelow DEF Index
<1> QED
  BY <1>1 DEF BitReverse

(* The polynomial after each pass of a transform. *)
Passes(p, w) ==
    {g \in [Lengths -> [Index -> Int]] :
        /\ g[1] = BitReverse(p)
        /\ \A L \in Lengths :
              L # 1 => g[L] = Butterflies(g[L \div 2], L, w[L])}

(* The transform goes through its passes. *)
LEMMA TransformPasses ==
    ASSUME NEW p \in [Index -> Int], NEW w \in [Lengths -> Nat]
    PROVE  \E g \in Passes(p, w) : Transform(p, w) = g[N]
<1> DEFINE D == Lengths
           X == [Index -> Int]
           x == BitReverse(p)
           E(L, g) == IF L = 1 THEN BitReverse(p)
                      ELSE Butterflies(g[L \div 2], L, w[L])
           step == [L \in D |-> [g \in [D -> X] |-> E(L, g)]]
<1>1. D \in SUBSET Nat /\ x \in X
  <2>1. D \in SUBSET Nat
    BY NFacts DEF Lengths
  <2> QED
    BY <2>1, BitReverseType
<1>2. ASSUME NEW L \in D, L # 1
      PROVE  L \div 2 \in D /\ L \div 2 \in 0 .. L - 1
  <2>1. PICK H, M \in Nat : Doubles(H, L, M)
    BY <1>2, Halving
  <2> QED
    BY <2>1 DEF Doubles
<1>3. ASSUME NEW L \in D, NEW g, L # 1 => g[L \div 2] \in X
      PROVE  E(L, g) \in X
  <2>1. CASE L = 1
    BY <1>1, <2>1
  <2>2. CASE L # 1
    <3> DEFINE f == g[L \div 2]
               v == w[L]
    <3>1. f \in [Index -> Int] /\ v \in Nat
      BY <1>3, <2>2
    <3> HIDE DEF f, v
    <3>2. Butterflies(f, L, v) \in [Index -> Coefficients]
      BY <2>2, <3>1, ButterflyType
    <3>3. Butterflies(f, L, v) \in [Index -> Int]
      <4> DEFINE B == Butterflies(f, L, v)
      <4> HIDE DEF B
      <4>1. B \in [Index -> Coefficients]
        BY <3>2 DEF B
      <4>2. B \in [Index -> Int]
        BY <4>1, NormFacts
      <4> QED
        BY <4>2 DEF B
    <3> QED
      BY <2>2, <3>3 DEF f, v
  <2> QED
    BY <2>1, <2>2
<1>4. ASSUME NEW L \in D, NEW g, NEW h, \A k \in D : k < L => g[k] = h[k]
      PROVE  E(L, g) = E(L, h)
  <2> DEFINE k == L \div 2
  <2>1. L # 1 => k \in D /\ k < L
    BY <1>1, <1>2
  <2> HIDE DEF k
  <2>2. L # 1 => g[k] = h[k]
    BY <1>4, <2>1
  <2> QED
    BY <2>2 DEF k
<1>5. step \in Steps(D, X)
  <2>1. ASSUME NEW L \in D, NEW g \in [D -> X]
        PROVE  E(L, g) \in X
    <3>1. L # 1 => g[L \div 2] \in X
      <4> HIDE DEF D, X
      <4> QED
        BY <1>2
    <3> HIDE DEF E, D, X
    <3> QED
      BY <1>3, <3>1
  <2> HIDE DEF E, D, X
  <2>2. step \in [D -> [[D -> X] -> X]]
    BY <2>1
  <2>3. \A n \in D : \A g, h \in [D -> X] :
           (\A k \in D : k < n => g[k] = h[k]) => step[n][g] = step[n][h]
    BY <1>4
  <2> HIDE DEF step
  <2> QED
    BY <2>2, <2>3 DEF Steps
<1>6. PICK f \in [D -> X] : \A L \in D : f[L] = E(L, f)
  <2>2. \A L \in D : \A g \in [D -> X] : step[L][g] = E(L, g)
    <3> HIDE DEF E, D, X
    <3> QED
      OBVIOUS
  <2> HIDE DEF step, D, X, x, E
  <2>3. Follows(D, X, step) # {}
    BY <1>1, <1>5, Recursion
  <2> QED
    BY <2>2, <2>3 DEF Follows
<1> DEFINE R(g) == [L \in Lengths |-> E(L, g)]
           g == CHOOSE g : g = R(g)
<1>7. f = R(f)
  <2> HIDE DEF E
  <2> QED
    BY <1>6
<1>8. g = R(g)
  <2> HIDE DEF R
  <2> QED
    BY <1>7
<1>9. Transform(p, w) = g[N]
  BY DEF Transform
<1> HIDE DEF g
<1>10. \A L \in D : g[L] = E(L, g)
  <2> HIDE DEF E
  <2> QED
    BY <1>8
<1>11. \A L \in D : g[L] \in X
  <2> DEFINE S == {L \in Nat : L \in D => g[L] \in X}
  <2>1. ASSUME NEW L \in Nat, \A m \in 0 .. L - 1 : m \in S
        PROVE  L \in S
    <3> SUFFICES ASSUME L \in D PROVE g[L] \in X
      OBVIOUS
    <3>1. L # 1 => g[L \div 2] \in X
      <4> HIDE DEF X, D
      <4> QED
        BY <1>2, <2>1
    <3>2. E(L, g) \in X
      <4> HIDE DEF E, X, D
      <4> QED
        BY <1>3, <3>1
    <3> HIDE DEF E, X, D
    <3> QED
      BY <1>10, <3>2
  <2> HIDE DEF S, D, X
  <2>2. Nat \subseteq S
    BY <2>1, Induct
  <2> QED
    BY <1>1, <2>2 DEF S
<1>12. g \in [D -> X]
  <2>1. g = [L \in D |-> g[L]]
    <3> HIDE DEF E
    <3> QED
      BY <1>8
  <2> HIDE DEF D, X
  <2> QED
    BY <1>11, <2>1
<1>13. g[1] = BitReverse(p)
  BY <1>10, Ends
<1>14. \A L \in Lengths : L # 1 => g[L] = Butterflies(g[L \div 2], L, w[L])
  BY <1>10
<1> QED
  BY <1>9, <1>12, <1>13, <1>14 DEF Passes

-----------------------------------------------------------------------------
(* Values of a polynomial, and what the passes compute of them. *)

(* The coefficients of p from r on, m apart, n of them, as a polynomial in *)
(* x.                                                                      *)
Terms(p, x, r, m, n) == [t \in 0 .. n - 1 |-> p[r + m * t] * Power(x, t)]

(* The value of that polynomial. *)
Value(p, x, r, m, n) == Sum(Terms(p, x, r, m, n), n)

(* Its coefficients are there. *)
Defined(p, r, m, n) == \A t \in 0 .. n - 1 : p[r + m * t] \in Int

(* Its value is that of its even terms plus x times that of its odd ones,  *)
(* both polynomials in the square of x.                                    *)
Splits(p, x, r, m, h) ==
    /\ Value(p, x * x, r, 2 * m, h) \in Int
    /\ Value(p, x * x, m + r, 2 * m, h) \in Int
    /\ Value(p, x, r, m, 2 * h) =
          Value(p, x * x, r, 2 * m, h) + x * Value(p, x * x, m + r, 2 * m, h)

(* The terms are there. *)
LEMMA TermFacts ==
    ASSUME NEW p, NEW x \in Int, NEW r \in Nat, NEW m \in Nat, NEW n \in Nat,
           \A t \in 0 .. n - 1 : p[r + m * t] \in Int
    PROVE  /\ \A t \in 0 .. n - 1 : Terms(p, x, r, m, n)[t] \in Int
           /\ Value(p, x, r, m, n) \in Int
<1> DEFINE f == Terms(p, x, r, m, n)
<1>1. ASSUME NEW t \in 0 .. n - 1 PROVE f[t] \in Int
  <2> DEFINE a == p[r + m * t]
             b == Power(x, t)
  <2>1. a \in Int /\ b \in Int /\ f[t] = a * b
    BY PowerFacts DEF Terms
  <2> HIDE DEF a, b, f
  <2> QED
    BY <2>1
<1> HIDE DEF f
<1>2. Sum(f, n) \in Int
  BY <1>1, SumFacts
<1> QED
  BY <1>1, <1>2 DEF f, Value

(* Its even and its odd terms are polynomials in the square of x. *)
LEMMA ValueSplits ==
    ASSUME NEW p, NEW x \in Int, NEW r \in Nat, NEW m \in Nat, NEW h \in Nat,
           Defined(p, r, m, 2 * h)
    PROVE  Splits(p, x, r, m, h)
<1> DEFINE f == Terms(p, x, r, m, 2 * h)
           a == Terms(p, x * x, r, 2 * m, h)
           b == Terms(p, x * x, m + r, 2 * m, h)
           c == [t \in 0 .. h - 1 |-> x * b[t]]
<1>1. /\ 2 * h \in Nat /\ 2 * m \in Nat /\ m + r \in Nat /\ x * x \in Int
  OBVIOUS
<1>2. /\ \A t \in 0 .. h - 1 : /\ 2 * t \in 0 .. 2 * h - 1
                               /\ 2 * t + 1 \in 0 .. 2 * h - 1
                               /\ r + m * (2 * t) = r + (2 * m) * t
                               /\ r + m * (2 * t + 1) = (m + r) + (2 * m) * t
  OBVIOUS
<1>3. \A t \in 0 .. h - 1 : /\ p[r + (2 * m) * t] \in Int
                            /\ p[(m + r) + (2 * m) * t] \in Int
  <2> TAKE t \in 0 .. h - 1
  <2>1. /\ p[r + m * (2 * t)] \in Int
        /\ p[r + m * (2 * t + 1)] \in Int
    BY <1>2 DEF Defined
  <2> QED
    BY <1>2, <2>1
<1>4. /\ \A t \in 0 .. 2 * h - 1 : f[t] \in Int
      /\ \A t \in 0 .. h - 1 : a[t] \in Int
      /\ \A t \in 0 .. h - 1 : b[t] \in Int
      /\ Value(p, x * x, r, 2 * m, h) \in Int
      /\ Value(p, x * x, m + r, 2 * m, h) \in Int
  <2> DEFINE y == x * x
             k == 2 * m
             s == m + r
             n == 2 * h
  <2>1. /\ y \in Int /\ k \in Nat /\ s \in Nat /\ n \in Nat
        /\ \A t \in 0 .. n - 1 : p[r + m * t] \in Int
        /\ \A t \in 0 .. h - 1 : p[r + k * t] \in Int
        /\ \A t \in 0 .. h - 1 : p[s + k * t] \in Int
    BY <1>1, <1>3 DEF Defined
  <2> HIDE DEF y, k, s, n
  <2>2. \A t \in 0 .. n - 1 : Terms(p, x, r, m, n)[t] \in Int
    BY <2>1, TermFacts
  <2>3. /\ \A t \in 0 .. h - 1 : Terms(p, y, r, k, h)[t] \in Int
        /\ Value(p, y, r, k, h) \in Int
    BY <2>1, TermFacts
  <2>4. /\ \A t \in 0 .. h - 1 : Terms(p, y, s, k, h)[t] \in Int
        /\ Value(p, y, s, k, h) \in Int
    BY <2>1, TermFacts
  <2> QED
    BY <2>2, <2>3, <2>4 DEF y, k, s, n
<1>5. \A t \in 0 .. h - 1 : /\ Power(x, 2 * t) = Power(x * x, t)
                            /\ Power(x, 2 * t + 1) = x * Power(x * x, t)
                            /\ Power(x * x, t) \in Int
  <2> TAKE t \in 0 .. h - 1
  <2> DEFINE k == 2 * t
             y == Power(x, t)
  <2>1. t \in Nat /\ k \in Nat /\ k = t + t
    OBVIOUS
  <2>2. Power(x, t + t) = y * y /\ y \in Int
    <3>1. Power(x, t + t) = Power(x, t) * Power(x, t)
      BY <2>1, PowerPlus
    <3> QED
      BY <2>1, <3>1, PowerInt
  <2>3. Power(x * x, t) = y * y
    BY <2>1, PowerOfProduct
  <2>4. Power(x, k + 1) = x * Power(x, k)
    BY <2>1, PowerFacts
  <2> HIDE DEF y, k
  <2>5. /\ Power(x, k) = Power(x * x, t)
        /\ Power(x, k + 1) = x * Power(x * x, t)
        /\ Power(x * x, t) \in Int
    BY <2>1, <2>2, <2>3, <2>4
  <2> QED
    BY <2>5 DEF k
<1>6. \A t \in 0 .. h - 1 : a[t] = f[2 * t] /\ c[t] = f[2 * t + 1]
  <2> TAKE t \in 0 .. h - 1
  <2>1. f[2 * t] = p[r + m * (2 * t)] * Power(x, 2 * t)
    BY <1>2 DEF Terms
  <2>2. f[2 * t + 1] = p[r + m * (2 * t + 1)] * Power(x, 2 * t + 1)
    BY <1>2 DEF Terms
  <2>3. a[t] = p[r + (2 * m) * t] * Power(x * x, t)
    BY DEF Terms
  <2>4. c[t] = x * (p[(m + r) + (2 * m) * t] * Power(x * x, t))
    BY DEF Terms
  <2> DEFINE i == p[(m + r) + (2 * m) * t]
             y == Power(x * x, t)
  <2>5. i \in Int /\ y \in Int
    BY <1>3, <1>5
  <2>6. x * (i * y) = i * (x * y)
    <3> HIDE DEF i, y
    <3> QED
      BY <2>5
  <2> HIDE DEF f, a, c
  <2>7. a[t] = f[2 * t]
    BY <1>2, <1>5, <2>1, <2>3
  <2>8. c[t] = f[2 * t + 1]
    BY <1>2, <1>5, <2>2, <2>4, <2>6
  <2> QED
    BY <2>7, <2>8
<1>7. \A t \in 0 .. h - 1 : /\ b[t] \in Int /\ c[t] \in Int
                            /\ c[t] = x * b[t]
  <2> TAKE t \in 0 .. h - 1
  <2>1. b[t] \in Int
    BY <1>4
  <2>2. c[t] = x * b[t]
    OBVIOUS
  <2> HIDE DEF b, c
  <2> QED
    BY <2>1, <2>2
<1> HIDE DEF f, a, b, c
<1>8. Sum(f, 2 * h) = Sum(a, h) + Sum(c, h)
  BY <1>4, <1>6, SumEvenOdd
<1>9. Sum(c, h) = x * Sum(b, h)
  BY <1>7, SumTimes
<1> QED
  BY <1>4, <1>8, <1>9 DEF Splits, Value, f, a, b

(* Equal arguments modulo Q give equal values modulo Q. *)
LEMMA ValueNorm ==
    ASSUME NEW p, NEW x \in Int, NEW y \in Int, Norm(x) = Norm(y),
           NEW r \in Nat, NEW m \in Nat, NEW n \in Nat, Defined(p, r, m, n)
    PROVE  Norm(Value(p, x, r, m, n)) = Norm(Value(p, y, r, m, n))
<1> DEFINE f == Terms(p, x, r, m, n)
           g == Terms(p, y, r, m, n)
<1>1. ASSUME NEW t \in 0 .. n - 1
      PROVE  f[t] \in Int /\ g[t] \in Int /\ Norm(f[t]) = Norm(g[t])
  <2> DEFINE a == p[r + m * t]
             b == Power(x, t)
             c == Power(y, t)
  <2>1. a \in Int /\ b \in Int /\ c \in Int
    <3>1. a \in Int
      BY DEF Defined
    <3>2. t \in Nat
      OBVIOUS
    <3> HIDE DEF a, f, g
    <3>3. b \in Int
      BY <3>2, PowerInt
    <3>4. c \in Int
      BY <3>2, PowerInt
    <3> QED
      BY <3>1, <3>3, <3>4
  <2>2. Norm(b) = Norm(c)
    BY PowerNorm
  <2>3. f[t] = a * b /\ g[t] = a * c
    BY DEF Terms
  <2> HIDE DEF a, b, c, f, g
  <2>4. Norm(a * Norm(b)) = Norm(a * b) /\ Norm(a * Norm(c)) = Norm(a * c)
    BY <2>1, NormTimes
  <2> QED
    BY <2>1, <2>2, <2>3, <2>4
<1> HIDE DEF f, g
<1>2. Norm(Sum(f, n)) = Norm(Sum(g, n))
  BY <1>1, SumNorm
<1> QED
  BY <1>2 DEF f, g, Value

(* The value of a polynomial. *)
Eval(p, x) == Value(p, x, 0, 1, N)

(* A root of order N, and the roots of the passes made from it. *)
RootsOf(V, w) ==
    /\ V \in Int /\ Norm(Power(V, N \div 2)) = Norm(-1)
    /\ w \in [Lengths -> Nat]
    /\ \A L \in Lengths : Norm(w[L]) = Norm(Power(V, N \div L))

(* One end of a butterfly adds, the other subtracts, an odd power. *)
LEMMA RootAndOpposite ==
    ASSUME NEW V, NEW w, RootsOf(V, w), NEW H, NEW L, NEW M, Doubles(H, L, M),
           NEW j \in Nat
    PROVE  LET x == Power(V, M * j)
               y == Power(V, M * (H + j))
           IN  /\ x \in Int /\ y \in Int
               /\ Power(V, (2 * M) * j) = x * x
               /\ Norm(y) = Norm(-x)
               /\ PowMod[j][w[L]] \in Nat
               /\ Norm(PowMod[j][w[L]]) = Norm(x)
<1> DEFINE x == Power(V, M * j)
           y == Power(V, M * (H + j))
<1>1. /\ H \in Nat /\ L \in Nat /\ M \in Nat /\ N = H * (2 * M)
      /\ L \in Lengths /\ N \div L = M
  BY DEF Doubles
<1>2. /\ V \in Int /\ Norm(Power(V, N \div 2)) = Norm(-1)
      /\ w[L] \in Nat /\ Norm(w[L]) = Norm(Power(V, M))
  BY <1>1 DEF RootsOf
<1>3. M * j \in Nat /\ M * (H + j) \in Nat /\ M * H \in Nat
  BY <1>1, Products
<1>4. x \in Int /\ y \in Int
  BY <1>2, <1>3, PowerFacts
<1>5. Power(V, (2 * M) * j) = x * x
  <2> DEFINE i == M * j
  <2>1. (2 * M) * j = i + i /\ i \in Nat
    BY <1>1, <1>3
  <2> HIDE DEF i
  <2>2. Power(V, i + i) = Power(V, i) * Power(V, i)
    BY <1>2, <2>1, PowerPlus
  <2> QED
    BY <2>1, <2>2 DEF i
<1>6. Norm(y) = Norm(-x)
  <2>1. N \div 2 = M * H
    <3>1. N = 2 * (M * H)
      BY <1>1
    <3> DEFINE i == M * H
    <3>2. i \in Int /\ N = 2 * i
      BY <1>3, <3>1
    <3> HIDE DEF i
    <3>3. (2 * i) \div 2 = i
      BY <3>2
    <3> QED
      BY <3>2, <3>3 DEF i
  <2> DEFINE h == Power(V, M * H)
  <2>2. h \in Int /\ Norm(h) = Norm(-1)
    BY <1>2, <1>3, <2>1, PowerFacts
  <2>3. y = h * x
    <3> DEFINE i == M * H
               k == M * j
    <3>1. M * (H + j) = i + k /\ i \in Nat /\ k \in Nat
      BY <1>1, <1>3
    <3> HIDE DEF i, k
    <3>2. Power(V, i + k) = Power(V, i) * Power(V, k)
      BY <1>2, <3>1, PowerPlus
    <3> QED
      BY <3>1, <3>2 DEF i, k
  <2> HIDE DEF h, x, y
  <2> DEFINE o == -1
  <2>4. o \in Int /\ Norm(h) = Norm(o) /\ o * x = -x
    BY <1>4, <2>2
  <2> HIDE DEF o
  <2>5. Norm(Norm(h) * x) = Norm(h * x) /\ Norm(Norm(o) * x) = Norm(o * x)
    BY <1>4, <2>2, <2>4, NormTimes
  <2> QED
    BY <2>3, <2>4, <2>5
<1>7. PowMod[j][w[L]] \in Nat /\ Norm(PowMod[j][w[L]]) = Norm(x)
  <2> DEFINE u == w[L]
             v == Power(V, M)
  <2>1. u \in Nat /\ v \in Int /\ Norm(u) = Norm(v) /\ u \in Int
    BY <1>1, <1>2, PowerFacts
  <2> HIDE DEF u, v
  <2>2. PowMod[j][u] \in Nat /\ Norm(PowMod[j][u]) = Norm(Power(u, j))
    BY <2>1, PowModIsPower
  <2>3. Norm(Power(u, j)) = Norm(Power(v, j))
    BY <2>1, PowerNorm
  <2>4. Power(v, j) = x
    BY <1>1, <1>2, PowerTimes DEF v
  <2> QED
    BY <2>2, <2>3, <2>4 DEF u
<1> QED
  BY <1>4, <1>5, <1>6, <1>7

(* What a pass has put at the j-th place of the b-th block: the value of   *)
(* the terms whose index begins, in reversed bits, with b.                 *)
Evaluated(p, V, f, L, M) ==
    \A b \in 0 .. M - 1, j \in 0 .. L - 1 :
        Norm(f[L * b + j])
            = Norm(Value(p, Power(V, M * j), Reversed[M][b], M, L))

(* Every term of every block is a coefficient. *)
LEMMA Reaches ==
    ASSUME NEW L \in Nat, NEW M \in Nat, L * M = N, NEW p \in [Index -> Int],
           NEW b \in 0 .. M - 1
    PROVE  Reversed[M][b] \in Nat /\ Defined(p, Reversed[M][b], M, L)
<1>1. M \in Lengths /\ M > 0
  BY DivisorFacts
<1> DEFINE r == Reversed[M][b]
<1>2. r \in 0 .. M - 1
  BY <1>1, ReversedBelow
<1> HIDE DEF r
<1>3. ASSUME NEW t \in 0 .. L - 1 PROVE r + M * t \in Index
  <2>1. L - (t + 1) \in Nat /\ t \in Nat
    OBVIOUS
  <2>2. M * (L - (t + 1)) \in Nat /\ M * t \in Nat
    BY <2>1, Products
  <2>3. M * (L - (t + 1)) = N - (M * t + M)
    OBVIOUS
  <2> DEFINE i == M * t
  <2>4. i \in Nat /\ N - (i + M) \in Nat /\ N \in Nat
    BY <2>2, <2>3, NFacts
  <2> HIDE DEF i
  <2>5. r + i \in 0 .. N - 1
    BY <1>2, <2>4
  <2> QED
    BY <2>5 DEF i, Index
<1>4. ASSUME NEW t \in 0 .. L - 1 PROVE p[r + M * t] \in Int
  BY <1>3
<1> QED
  BY <1>2, <1>4 DEF Defined, r

(* A pass evaluates blocks of twice the length. *)
LEMMA PassEvaluates ==
    ASSUME NEW p \in [Index -> Int], NEW V, NEW w, RootsOf(V, w),
           NEW H, NEW L, NEW M, Doubles(H, L, M),
           NEW f \in [Index -> Int], Evaluated(p, V, f, H, 2 * M)
    PROVE  Evaluated(p, V, Butterflies(f, L, w[L]), L, M)
<1> DEFINE g == Butterflies(f, L, w[L])
<1>1. /\ H \in Nat /\ L \in Nat /\ M \in Nat /\ H > 0 /\ M > 0 /\ L = 2 * H
      /\ N = L * M /\ L * M = N /\ N = H * (2 * M)
  BY DEF Doubles
<1>2. ASSUME NEW b \in 0 .. M - 1, NEW j \in 0 .. H - 1
      PROVE  LET r == Reversed[M][b]
                 k == L * b + j
                 l == L * b + (H + j)
             IN  /\ Norm(g[k]) = Norm(Value(p, Power(V, M * j), r, M, L))
                 /\ Norm(g[l]) = Norm(Value(p, Power(V, M * (H + j)), r, M, L))
  <2> DEFINE r == Reversed[M][b]
             x == Power(V, M * j)
             y == Power(V, M * (H + j))
             k == L * b + j
             l == L * b + (H + j)
             z == PowMod[j][w[L]]
             v == (f[l] * z) % Q
             A == Value(p, x * x, r, 2 * M, H)
             B == Value(p, x * x, M + r, 2 * M, H)
  <2>1. j \in Nat /\ b \in Nat
    BY <1>1
  <2>2. /\ x \in Int /\ y \in Int /\ Power(V, (2 * M) * j) = x * x
        /\ Norm(y) = Norm(-x) /\ z \in Nat /\ Norm(z) = Norm(x)
    BY <2>1, RootAndOpposite
  <2>3. g[k] = (f[k] + v) % Q /\ g[l] = (f[k] - v + Q) % Q
    BY ButterflyFacts
  <2>4. f[k] \in Int /\ f[l] \in Int
    BY Places
  <2>5. r \in Nat /\ Defined(p, r, M, L)
    BY <1>1, Reaches
  <2>6. Norm(f[k]) = Norm(A) /\ Norm(f[l]) = Norm(B)
    <3> DEFINE c == 2 * b
               d == 2 * b + 1
               K == 2 * M
    <3>1. c \in 0 .. K - 1 /\ d \in 0 .. K - 1 /\ K \in Nat
      BY <1>1
    <3>2. k = H * c + j /\ l = H * d + j
      BY <1>1
    <3>3. Reversed[K][c] = r /\ Reversed[K][d] = M + r
      BY <1>1, <2>1, ReversedTwice
    <3>4. Power(V, K * j) = x * x
      BY <2>2
    <3> HIDE DEF c, d, K, k, l, r, x
    <3>5. /\ Norm(f[H * c + j])
                = Norm(Value(p, Power(V, K * j), Reversed[K][c], K, H))
          /\ Norm(f[H * d + j])
                = Norm(Value(p, Power(V, K * j), Reversed[K][d], K, H))
      BY <3>1 DEF Evaluated, K
    <3> QED
      BY <3>2, <3>3, <3>4, <3>5 DEF K
  <2>7. /\ A \in Int /\ B \in Int
        /\ Value(p, x, r, M, L) = A + x * B
    <3> HIDE DEF x, r
    <3>1. Defined(p, r, M, 2 * H)
      BY <1>1, <2>5
    <3>2. Splits(p, x, r, M, H)
      BY <1>1, <2>2, <2>5, <3>1, ValueSplits
    <3> QED
      BY <1>1, <3>2 DEF Splits
  <2>8. Norm(Value(p, y, r, M, L)) = Norm(A + (-x) * B)
    <3> DEFINE u == -x
    <3>1. u \in Int /\ u * u = x * x /\ Norm(y) = Norm(u)
      BY <2>2
    <3> HIDE DEF x, y, r, u
    <3>2. Defined(p, r, M, 2 * H)
      BY <1>1, <2>5
    <3>3. Splits(p, u, r, M, H)
      BY <1>1, <2>5, <3>1, <3>2, ValueSplits
    <3>4. Norm(Value(p, y, r, M, L)) = Norm(Value(p, u, r, M, L))
      BY <1>1, <2>2, <2>5, <3>1, ValueNorm
    <3> QED
      BY <1>1, <3>1, <3>3, <3>4 DEF Splits, u
  <2> HIDE DEF r, x, y, k, l, z, A, B, g
  <2>9. v \in Int /\ Norm(v) = Norm(x * B)
    <3>1. f[l] * z \in Int
      BY <2>2, <2>4
    <3>2. v = Norm(f[l] * z)
      BY DEF Norm
    <3>3. Norm(Norm(f[l] * z)) = Norm(f[l] * z) /\ Norm(f[l] * z) \in Int
      BY <3>1, NormFacts
    <3> HIDE DEF v
    <3>4. Norm(f[l] * z) = Norm(B * x)
      <4>1. z \in Int
        BY <2>2
      <4> DEFINE a == f[l]
      <4> HIDE DEF a
      <4>2. a \in Int /\ Norm(a) = Norm(B)
        BY <2>4, <2>6 DEF a
      <4>3. Norm(a * z) = Norm(B * x)
        BY <2>2, <2>7, <4>1, <4>2, NormArith
      <4> QED
        BY <4>3 DEF a
    <3>5. B * x = x * B
      BY <2>2, <2>7
    <3> QED
      BY <3>2, <3>3, <3>4, <3>5
  <2> HIDE DEF v
  <2> DEFINE a == f[k]
             c == x * B
  <2>10. /\ a \in Int /\ c \in Int /\ Norm(a) = Norm(A) /\ A \in Int
         /\ v \in Int /\ Norm(v) = Norm(c) /\ (-x) * B = -c
    BY <2>2, <2>4, <2>6, <2>7, <2>9
  <2> HIDE DEF a, c
  <2>11. Norm(a + v) = Norm(A + c) /\ Norm(a - v) = Norm(A - c)
    BY <2>10, NormArith
  <2>12. g[k] = Norm(a + v) /\ Norm(g[k]) = Norm(a + v)
    <3>1. a + v \in Int
      BY <2>10
    <3>2. Norm(Norm(a + v)) = Norm(a + v)
      BY <3>1, NormFacts
    <3>3. g[k] = Norm(a + v)
      BY <2>3 DEF Norm, a
    <3> QED
      BY <3>2, <3>3
  <2>13. Norm(g[l]) = Norm(a - v)
    <3> DEFINE e == a - v
               o == 1
    <3>1. e \in Int /\ e + Q * o \in Int /\ e + Q * o = a - v + Q /\ o \in Int
      BY <2>10, NormFacts
    <3>2. g[l] = Norm(a - v + Q)
      BY <2>3 DEF Norm, a
    <3> HIDE DEF e, o
    <3>3. Norm(e + Q * o) = Norm(e)
      BY <3>1, NormShift
    <3>4. Norm(Norm(e + Q * o)) = Norm(e + Q * o)
      BY <3>1, NormFacts
    <3> QED
      BY <3>1, <3>2, <3>3, <3>4 DEF e
  <2>14. A + (-x) * B = A - c
    BY <2>10
  <2> QED
    BY <2>7, <2>8, <2>11, <2>12, <2>13, <2>14 DEF c, r, x, y, k, l
<1> HIDE DEF g
<1>3. ASSUME NEW b \in 0 .. M - 1, NEW i \in 0 .. L - 1
      PROVE  Norm(g[L * b + i])
                = Norm(Value(p, Power(V, M * i), Reversed[M][b], M, L))
  <2>1. CASE i < H
    <3>1. i \in 0 .. H - 1
      BY <1>1, <2>1
    <3> QED
      BY <1>2, <3>1
  <2>2. CASE ~(i < H)
    <3> DEFINE j == i - H
    <3>1. j \in 0 .. H - 1 /\ i = H + j
      BY <1>1, <2>2
    <3> HIDE DEF j
    <3> QED
      BY <1>2, <3>1
  <2> QED
    BY <2>1, <2>2
<1> QED
  BY <1>3 DEF Evaluated, g

(* A block of one place holds the coefficient of the reversed index. *)
LEMMA BlocksOfOne ==
    ASSUME NEW p \in [Index -> Int], NEW V \in Int
    PROVE  Evaluated(p, V, BitReverse(p), 1, N)
<1> DEFINE u == 1
<1>1. u * N = N /\ u \in Nat /\ N \in Nat
  BY NFacts
<1>2. ASSUME NEW b \in 0 .. N - 1, NEW j \in 0 .. u - 1
      PROVE  Norm(BitReverse(p)[u * b + j])
                = Norm(Value(p, Power(V, N * j), Reversed[N][b], N, u))
  <2> DEFINE r == Reversed[N][b]
             x == Power(V, N * j)
             z == 0
             f == Terms(p, x, r, N, u)
  <2>1. r \in Nat /\ Defined(p, r, N, u)
    BY <1>1, Reaches
  <2>2. j = 0 /\ u * b + j = b /\ b \in Index
    BY DEF Index
  <2>3. N * j = 0 /\ z \in Nat
    BY <1>1, <2>2
  <2>4. x \in Int
    BY <2>3, PowerInt
  <2>5. BitReverse(p)[b] = p[r]
    BY <2>2 DEF BitReverse
  <2>6. r + N * z = r /\ 0 .. u - 1 = {z}
    BY <1>1, <2>1
  <2>7. f[z] = p[r + N * z] * Power(x, z) /\ p[r + N * z] \in Int
    BY <2>1, <2>6 DEF Terms, Defined
  <2>8. Power(x, z) = 1
    BY <2>4, PowerFacts
  <2>9. f[z] = p[r] /\ f[z] \in Int
    BY <2>6, <2>7, <2>8
  <2> HIDE DEF f, r, x
  <2>10. Sum(f, u) = f[z]
    <3>1. \A i \in 0 .. z : f[i] \in Int
      BY <2>6, <2>9
    <3>2. Sum(f, z) = 0 /\ Sum(f, z + 1) = Sum(f, z) + f[z]
      BY <2>3, <3>1, SumStep
    <3> QED
      BY <2>9, <3>2
  <2> QED
    BY <2>2, <2>5, <2>9, <2>10 DEF Value, f, x, r
<1> QED
  BY <1>2 DEF Evaluated, u

(* The passes together evaluate the polynomial at the powers of the root.  *)
LEMMA PassesEvaluate ==
    ASSUME NEW p \in [Index -> Int], NEW V, NEW w, RootsOf(V, w),
           NEW g \in Passes(p, w), NEW L \in Lengths
    PROVE  \A M \in Nat : L * M = N => Evaluated(p, V, g[L], L, M)
<1> DEFINE S == {n \in Nat : n \in Lengths =>
                    \A M \in Nat : n * M = N
                        => Evaluated(p, V, g[n], n, M)}
<1>0. V \in Int
  BY DEF RootsOf
<1>1. ASSUME NEW n \in Nat, \A m \in 0 .. n - 1 : m \in S
      PROVE  n \in S
  <2> SUFFICES ASSUME n \in Lengths, NEW M \in Nat, n * M = N
               PROVE  Evaluated(p, V, g[n], n, M)
    OBVIOUS
  <2>1. CASE n = 1
    <3>1. M = N
      BY <2>1
    <3>2. g[n] = BitReverse(p)
      BY <2>1 DEF Passes
    <3>3. Evaluated(p, V, BitReverse(p), 1, N)
      BY <1>0, BlocksOfOne
    <3> QED
      BY <2>1, <3>1, <3>2, <3>3
  <2>2. CASE n # 1
    <3>1. PICK H \in Nat, K \in Nat : Doubles(H, n, K)
      BY <2>2, Halving
    <3>2. /\ H \in Nat /\ K \in Nat /\ n = 2 * H /\ H > 0
          /\ H \in Lengths /\ n \div 2 = H /\ N \div n = K
          /\ H * (2 * K) = N
      BY <3>1 DEF Doubles
    <3>3. K = M
      BY <3>2, DivisorFacts
    <3>4. H \in 0 .. n - 1 /\ 2 * K \in Nat
      BY <3>2
    <3>5. H \in S
      BY <1>1, <3>4
    <3>6. Evaluated(p, V, g[H], H, 2 * K)
      BY <3>2, <3>4, <3>5
    <3>7. g[n] = Butterflies(g[H], n, w[n]) /\ g[H] \in [Index -> Int]
      BY <2>2, <3>2 DEF Passes
    <3>8. Evaluated(p, V, Butterflies(g[H], n, w[n]), n, K)
      BY <3>1, <3>6, <3>7, PassEvaluates
    <3> QED
      BY <3>3, <3>7, <3>8
  <2> QED
    BY <2>1, <2>2
<1>2. Nat \subseteq S
  <2> HIDE DEF S
  <2> QED
    BY <1>1, Induct
<1>3. L \in Nat
  BY LengthFacts
<1> QED
  BY <1>2, <1>3

(* What the transform computes. *)
LEMMA TransformEvaluates ==
    ASSUME NEW p \in [Index -> Int], NEW V, NEW w, RootsOf(V, w)
    PROVE  /\ Transform(p, w) \in [Index -> Int]
           /\ \A j \in Index :
                 Norm(Transform(p, w)[j]) = Norm(Eval(p, Power(V, j)))
<1>0. w \in [Lengths -> Nat]
  BY DEF RootsOf
<1>1. PICK g \in Passes(p, w) : Transform(p, w) = g[N]
  BY <1>0, TransformPasses
<1>2. N \in Lengths /\ N \in Nat
  BY Ends, NFacts
<1>3. g[N] \in [Index -> Int]
  BY <1>2 DEF Passes
<1> DEFINE u == 1
           z == 0
<1>4. u \in Nat /\ N * u = N /\ z \in 0 .. u - 1
  BY <1>2
<1>5. Evaluated(p, V, g[N], N, u)
  <2> HIDE DEF u
  <2> QED
    BY <1>2, <1>4, PassesEvaluate
<1>6. ASSUME NEW j \in Index
      PROVE  Norm(g[N][j]) = Norm(Eval(p, Power(V, j)))
  <2>1. Norm(g[N][N * z + j])
           = Norm(Value(p, Power(V, u * j), Reversed[u][z], u, N))
    BY <1>4, <1>5 DEF Evaluated, Index
  <2>2. N * z + j = j /\ u * j = j
    BY <1>2 DEF Index
  <2>3. Reversed[u][z] = 0
    BY NFacts, ReversedTwice
  <2> QED
    BY <2>1, <2>2, <2>3 DEF Eval
<1> QED
  BY <1>1, <1>3, <1>6

-----------------------------------------------------------------------------
(* The roots of unity of the transform and of its inverse. *)

(* Inverses modulo Q are unique. *)
LEMMA InverseUnique ==
    ASSUME NEW a \in Int, NEW b \in Int, NEW c \in Int,
           Norm(a * b) = 1, Norm(a * c) = 1
    PROVE  Norm(b) = Norm(c)
<1> DEFINE u == 1
           i == a * b
           j == a * c
<1>1. i \in Int /\ j \in Int /\ u \in Int /\ u \in Coefficients
  BY NormFacts, ModulusAssumption DEF Coefficients
<1>2. Norm(i) = Norm(u) /\ Norm(j) = Norm(u)
  BY <1>1, NormFacts
<1>3. j * b = i * c
  OBVIOUS
<1>4. u * b = b /\ u * c = c
  OBVIOUS
<1> HIDE DEF u, i, j
<1>5. Norm(Norm(i) * c) = Norm(i * c) /\ Norm(Norm(u) * c) = Norm(u * c)
  BY <1>1, NormTimes
<1>6. Norm(Norm(j) * b) = Norm(j * b) /\ Norm(Norm(u) * b) = Norm(u * b)
  BY <1>1, NormTimes
<1> QED
  BY <1>2, <1>3, <1>4, <1>5, <1>6

(* What has an inverse modulo Q is not zero. *)
LEMMA InvertibleNotZero ==
    ASSUME NEW a \in Int, NEW b \in Int, Norm(a * b) = 1
    PROVE  Norm(a) # 0
<1> SUFFICES ASSUME Norm(a) = 0 PROVE FALSE
  OBVIOUS
<1> DEFINE z == 0
<1>1. Norm(z * b) = Norm(a * b)
  <2>1. Norm(Norm(a) * b) = Norm(a * b)
    BY NormTimes
  <2> QED
    BY <2>1
<1>2. z * b = 0 /\ Norm(0) = 0
  BY NormFacts, ModulusAssumption DEF Coefficients
<1> QED
  BY <1>1, <1>2

(* A number whose power N / 2 is -1 has 1 for its power N. *)
LEMMA PowerOfOrder ==
    ASSUME NEW V \in Int, Norm(Power(V, N \div 2)) = Norm(-1)
    PROVE  Norm(Power(V, N)) = 1
<1> DEFINE h == N \div 2
           y == Power(V, h)
           o == -1
<1>1. h \in Nat /\ N = h + h
  <2>1. N % 2 = 0 /\ N \in Nat
    BY Ends, NFacts, ParametersAssumption
  <2> QED
    BY <2>1, Halves
<1>2. y \in Int /\ o \in Int /\ Norm(y) = Norm(o)
  BY <1>1, PowerInt
<1>3. o * o = 1 /\ Norm(1) = 1
  BY NormFacts, ModulusAssumption DEF Coefficients
<1> HIDE DEF h
<1>4. Power(V, N) = y * y
  BY <1>1, PowerPlus
<1> HIDE DEF y, o
<1>5. Norm(y * y) = Norm(o * o)
  BY <1>2, NormArith
<1> QED
  BY <1>3, <1>4, <1>5

(* The configured root is one of order N. *)
LEMMA RootFacts ==
    /\ Root \in Nat /\ Root \in Int
    /\ Norm(Power(Root, N \div 2)) = Norm(-1)
    /\ Norm(Power(Root, N)) = 1
<1>1. Root \in Nat /\ Root \in Int /\ PowMod[N \div 2][Root] = Q - 1
  BY ParametersAssumption
<1>2. N \div 2 \in Nat
  BY NFacts, Halves
<1>3. Norm(Power(Root, N \div 2)) = Norm(Q - 1)
  BY <1>1, <1>2, PowModIsPower
<1>4. Norm(Q - 1) = Norm(-1)
  <2> DEFINE o == -1
             u == 1
  <2>1. o \in Int /\ u \in Int /\ Q - 1 = o + Q * u
    BY NormFacts
  <2> HIDE DEF o, u
  <2>2. Norm(o + Q * u) = Norm(o)
    BY <2>1, NormShift
  <2> QED
    BY <2>1, <2>2 DEF o
<1>5. Norm(Power(Root, N)) = 1
  BY <1>1, <1>3, <1>4, PowerOfOrder
<1> QED
  BY <1>1, <1>3, <1>4, <1>5

(* The power that undoes the root. *)
Back == Power(Root, N - 1)

(* It inverts the root power by power, and is a root of the same order. *)
LEMMA BackFacts ==
    /\ Back \in Int
    /\ \A k \in Nat : Norm(Power(Root, k) * Power(Back, k)) = 1
    /\ Norm(Power(Back, N \div 2)) = Norm(-1)
    /\ Norm(Power(Back, N)) = 1
<1> DEFINE n == N - 1
<1>1. n \in Nat /\ n + 1 = N /\ Root \in Int
  BY NFacts, RootFacts
<1> HIDE DEF n
<1>2. Power(Root, n) \in Int /\ Power(Root, n + 1) = Root * Power(Root, n)
  BY <1>1, PowerFacts
<1>3. Back \in Int /\ Power(Root, N) = Root * Back
  BY <1>1, <1>2 DEF Back, n
<1>4. ASSUME NEW k \in Nat PROVE Norm(Power(Root, k) * Power(Back, k)) = 1
  <2> DEFINE y == Root * Back
  <2>1. y \in Int /\ Norm(y) = 1
    BY <1>1, <1>3, RootFacts
  <2>2. Power(y, k) = Power(Root, k) * Power(Back, k)
    BY <1>1, <1>3, PowerOfProduct
  <2> HIDE DEF y
  <2>3. Norm(Power(y, k)) = 1
    BY <2>1, PowerOfOne
  <2> QED
    BY <2>2, <2>3
<1>5. Norm(Power(Back, N \div 2)) = Norm(-1)
  <2> DEFINE h == N \div 2
             a == Power(Root, h)
             b == Power(Back, h)
             o == -1
  <2>1. h \in Nat
    BY NFacts, Halves
  <2>2. a \in Int /\ b \in Int /\ Norm(a) = Norm(o) /\ Norm(a * b) = 1
    BY <1>1, <1>3, <1>4, <2>1, PowerInt, RootFacts
  <2>3. o \in Int /\ o * o = 1 /\ Norm(1) = 1
    BY NormFacts, ModulusAssumption DEF Coefficients
  <2> HIDE DEF h, a, b, o
  <2>4. Norm(a * o) = Norm(o * o)
    BY <2>2, <2>3, NormArith
  <2>5. Norm(b) = Norm(o)
    BY <2>2, <2>3, <2>4, InverseUnique
  <2> QED
    BY <2>5 DEF b, h, o
<1> QED
  BY <1>3, <1>4, <1>5, PowerOfOrder

(* The roots of the forward passes are powers of the root. *)
LEMMA ForwardRoots ==
    RootsOf(Root, [length \in Lengths |-> Wlen(length)])
<1>1. ASSUME NEW L \in Lengths
      PROVE  /\ Wlen(L) \in Nat /\ N \div L \in Nat
             /\ Norm(Wlen(L)) = Norm(Power(Root, N \div L))
  <2>1. PICK M \in Nat : L * M = N
    BY LengthFacts
  <2>2. N \div L = M
    BY <2>1, LengthFacts, DivisorFacts
  <2> QED
    BY <2>1, <2>2, RootFacts, PowModIsPower DEF Wlen
<1> QED
  BY <1>1, RootFacts DEF RootsOf

(* The passes of the inverse transform use powers of the inverse root. *)
LEMMA BackwardRoots ==
    RootsOf(Back, [length \in Lengths |-> InvWlen(length)])
<1>1. ASSUME NEW L \in Lengths
      PROVE  /\ InvWlen(L) \in Nat
             /\ Norm(InvWlen(L)) = Norm(Power(Back, N \div L))
  <2> DEFINE a == Wlen(L)
             M == N \div L
             c == Power(Root, M)
             b == Power(Back, M)
             i == InvWlen(L)
  <2>1. a \in Nat /\ Norm(a) = Norm(c)
    BY ForwardRoots DEF RootsOf
  <2>2. M \in Nat
    <3>1. PICK K \in Nat : L * K = N
      BY LengthFacts
    <3> QED
      BY <3>1, LengthFacts, DivisorFacts
  <2>3. b \in Int /\ c \in Int /\ Norm(c * b) = 1
    BY <2>2, BackFacts, RootFacts, PowerInt
  <2> HIDE DEF a, M, b, c
  <2>4. Norm(a * b) = Norm(c * b) /\ a \in Int
    <3>1. a \in Int /\ b \in Int /\ c \in Int
      BY <2>1, <2>3
    <3>2. Norm(Norm(a) * b) = Norm(a * b)
      BY <3>1, NormTimes
    <3>3. Norm(Norm(c) * b) = Norm(c * b)
      BY <3>1, NormTimes
    <3> QED
      BY <2>1, <3>1, <3>2, <3>3
  <2>5. Norm(a) # 0
    BY <2>3, <2>4, InvertibleNotZero
  <2>6. i \in Coefficients /\ Norm(a * i) = 1
    BY <2>1, <2>5, ModInverseInverts DEF InvWlen, a
  <2>7. i \in Nat /\ i \in Int
    BY <2>6, NormFacts, ModulusAssumption DEF Coefficients
  <2> HIDE DEF i
  <2>8. Norm(i) = Norm(b)
    BY <2>3, <2>4, <2>6, <2>7, InverseUnique
  <2> QED
    BY <2>7, <2>8 DEF i, b, M
<1> QED
  BY <1>1, BackFacts DEF RootsOf

(* The number of coefficients has an inverse: Q is odd. *)
LEMMA LengthInvertible ==
    ASSUME NEW L \in Lengths PROVE Norm(L) # 0
<1> DEFINE S == {n \in Nat : n \in Lengths => Norm(n) # 0}
<1>1. ASSUME NEW n \in Nat, \A m \in 0 .. n - 1 : m \in S
      PROVE  n \in S
  <2> SUFFICES ASSUME n \in Lengths PROVE Norm(n) # 0
    OBVIOUS
  <2>1. CASE n = 1
    BY <2>1, NormFacts, ModulusAssumption DEF Coefficients
  <2>2. CASE n # 1
    <3>1. PICK H \in Nat, K \in Nat : Doubles(H, n, K)
      BY <2>2, Halving
    <3>2. H \in Nat /\ n = 2 * H /\ H > 0 /\ H \in Lengths
      BY <3>1 DEF Doubles
    <3>3. Norm(H) # 0
      <4>1. H \in 0 .. n - 1
        BY <3>2
      <4> QED
        BY <1>1, <3>2, <4>1
    <3>4. ASSUME Norm(n) = 0 PROVE Norm(H) = 0
      <4> DEFINE k == n \div Q
                 c == Q \div 2
                 i == H - c * k
                 z == 0
      <4>1. n = Q * k /\ k \in Int
        <5>1. n = Q * (n \div Q) + Norm(n) /\ n \div Q \in Int /\ Q \in Int
          BY NormFacts, DivMod
        <5> HIDE DEF k
        <5>2. Q * (n \div Q) \in Int
          BY <5>1
        <5> QED
          BY <3>4, <5>1, <5>2 DEF k
      <4>2. Q = 2 * c + 1 /\ c \in Int
        BY ModulusAssumption
      <4>3. Q * k = 2 * (c * k) + k /\ c * k \in Int
        <5> HIDE DEF k, c
        <5> QED
          BY <4>1, <4>2
      <4>4. i \in Int /\ k = 2 * i
        <5> HIDE DEF c, k
        <5> QED
          BY <3>2, <4>1, <4>3
      <4>5. H = Q * i
        <5> HIDE DEF c, k, i
        <5>1. 2 * H = Q * (2 * i) /\ Q \in Int
          BY <3>2, <4>1, <4>4, ModulusAssumption
        <5>2. Q * (2 * i) = 2 * (Q * i) /\ Q * i \in Int
          BY <4>4, <5>1
        <5> QED
          BY <3>2, <5>1, <5>2
      <4>6. z \in Int /\ H = z + Q * i /\ Norm(z) = 0
        BY <4>4, <4>5, NormFacts, ModulusAssumption DEF Coefficients
      <4> HIDE DEF i, z
      <4>7. Norm(z + Q * i) = Norm(z)
        BY <4>4, <4>6, NormShift
      <4> QED
        BY <4>6, <4>7
    <3> QED
      BY <3>3, <3>4
  <2> QED
    BY <2>1, <2>2
<1>2. Nat \subseteq S
  <2> HIDE DEF S
  <2> QED
    BY <1>1, Induct
<1> QED
  BY <1>2, LengthFacts

-----------------------------------------------------------------------------
(* Geometric sums: what makes the inverse transform one. *)

(* The first n powers of y. *)
PowersOf(y, n) == [t \in 0 .. n - 1 |-> Power(y, t)]

(* Their sum. *)
Geometric(y, n) == Sum(PowersOf(y, n), n)

(* Both are integers. *)
LEMMA GeometricInt ==
    ASSUME NEW y \in Int, NEW n \in Nat
    PROVE  /\ \A t \in 0 .. n - 1 : PowersOf(y, n)[t] \in Int
           /\ Geometric(y, n) \in Int
<1> DEFINE f == PowersOf(y, n)
<1>1. ASSUME NEW t \in 0 .. n - 1 PROVE f[t] \in Int
  <2>1. t \in Nat /\ f[t] = Power(y, t)
    BY DEF PowersOf
  <2> QED
    BY <2>1, PowerInt
<1> HIDE DEF f
<1>2. Sum(f, n) \in Int
  BY <1>1, SumFacts
<1> QED
  BY <1>1, <1>2 DEF f, Geometric

(* Twice as many powers are the first half and the half-power times it.    *)
LEMMA GeometricDoubles ==
    ASSUME NEW y \in Int, NEW h \in Nat
    PROVE  Geometric(y, 2 * h)
              = Geometric(y, h) + Power(y, h) * Geometric(y, h)
<1> DEFINE f == PowersOf(y, 2 * h)
           a == PowersOf(y, h)
           c == Power(y, h)
           b == [t \in 0 .. h - 1 |-> c * a[t]]
<1>1. 2 * h \in Nat /\ h + h = 2 * h /\ c \in Int
  BY PowerInt
<1>2. \A t \in 0 .. h + h - 1 : f[t] \in Int
  <2> DEFINE n == 2 * h
  <2>1. n \in Nat /\ h + h = n
    OBVIOUS
  <2> HIDE DEF n
  <2>2. \A t \in 0 .. n - 1 : PowersOf(y, n)[t] \in Int
    BY <2>1, GeometricInt
  <2> QED
    BY <2>1, <2>2 DEF n
<1>3. ASSUME NEW t \in 0 .. h - 1
      PROVE  /\ a[t] \in Int /\ a[t] = f[t]
             /\ b[t] \in Int /\ b[t] = c * a[t] /\ b[t] = f[h + t]
  <2>1. t \in Nat /\ t \in 0 .. 2 * h - 1 /\ h + t \in 0 .. 2 * h - 1
    OBVIOUS
  <2>2. f[t] = Power(y, t) /\ f[h + t] = Power(y, h + t) /\ a[t] = Power(y, t)
    BY <2>1 DEF PowersOf
  <2>3. Power(y, h + t) = c * Power(y, t) /\ Power(y, t) \in Int
    BY <2>1, PowerPlus, PowerInt
  <2>4. b[t] = c * a[t]
    OBVIOUS
  <2> HIDE DEF a, b, c, f
  <2> QED
    BY <1>1, <2>2, <2>3, <2>4
<1> HIDE DEF f, a, b, c
<1>4. Sum(f, h + h) = Sum(f, h) + Sum(b, h)
  BY <1>2, <1>3, SumConcat
<1>5. Sum(a, h) = Sum(f, h)
  BY <1>3, SumSame
<1>6. Sum(b, h) = c * Sum(a, h)
  BY <1>1, <1>3, SumTimes
<1> QED
  BY <1>1, <1>4, <1>5, <1>6 DEF Geometric, f, a, c

(* Powers of one are one. *)
LEMMA GeometricOne ==
    ASSUME NEW y \in Int, Norm(y) = 1, NEW n \in Nat
    PROVE  Norm(Geometric(y, n)) = Norm(n)
<1> DEFINE f == PowersOf(y, n)
           g == [t \in 0 .. n - 1 |-> 1]
           S == {m \in Nat : m <= n => Sum(g, m) = m}
<1>1. \A t \in 0 .. n - 1 : g[t] = 1 /\ g[t] \in Int
  OBVIOUS
<1>2. \A t \in 0 .. n - 1 : f[t] \in Int
  BY GeometricInt
<1>3. Norm(1) = 1
  BY NormFacts, ModulusAssumption DEF Coefficients
<1>4. ASSUME NEW t \in 0 .. n - 1 PROVE Norm(f[t]) = Norm(g[t])
  <2>1. t \in Nat /\ f[t] = Power(y, t)
    BY DEF PowersOf
  <2> QED
    BY <1>1, <1>3, <2>1, PowerOfOne
<1> HIDE DEF f, g
<1>5. Norm(Sum(f, n)) = Norm(Sum(g, n))
  BY <1>1, <1>2, <1>4, SumNorm
<1>6. 0 \in S
  BY SumFacts
<1>7. ASSUME NEW m \in Nat, m \in S PROVE m + 1 \in S
  <2> SUFFICES ASSUME m + 1 <= n PROVE Sum(g, m + 1) = m + 1
    OBVIOUS
  <2>1. \A t \in 0 .. m : g[t] \in Int /\ g[t] = 1
    BY <1>1
  <2>2. Sum(g, m + 1) = Sum(g, m) + g[m] /\ Sum(g, m) = m /\ g[m] = 1
    BY <1>7, <2>1, SumStep
  <2> QED
    BY <2>2
<1> HIDE DEF S
<1>8. n \in S
  BY <1>6, <1>7, Count
<1> QED
  BY <1>5, <1>8 DEF S, f, Geometric

(* An odd power of minus one. *)
LEMMA OddPower ==
    ASSUME NEW y \in Int, Norm(y) = Norm(-1), NEW e \in Nat
    PROVE  /\ Norm(Power(y, 2 * e)) = 1
           /\ Norm(Power(y, 2 * e + 1)) = Norm(-1)
<1> DEFINE o == -1
           u == 1
           k == 2 * e
           z == Power(y, 2)
           v == Power(y, k)
<1>1. o \in Int /\ u \in Int /\ k \in Nat /\ o * o = 1 /\ Norm(u) = u
  BY NormFacts, ModulusAssumption DEF Coefficients
<1>2. z = y * y
  <2> HIDE DEF u
  <2>1. Power(y, u + u) = Power(y, u) * Power(y, u) /\ Power(y, u) = y
    BY PowerPlus, PowerFacts DEF u
  <2> QED
    BY <2>1 DEF u
<1>3. z \in Int /\ v \in Int
  BY <1>1, PowerInt
<1>4. v = Power(z, e)
  BY PowerTimes
<1>5. Power(y, k + 1) = y * v
  BY <1>1, PowerFacts
<1> HIDE DEF o, u, k, z, v
<1>6. Norm(y * y) = Norm(o * o)
  BY <1>1, NormArith DEF o
<1>7. Norm(v) = 1
  BY <1>1, <1>2, <1>3, <1>4, <1>6, PowerOfOne DEF u
<1>8. Norm(y * v) = Norm(y)
  <2>1. Norm(y * Norm(v)) = Norm(y * v)
    BY <1>3, NormTimes
  <2> QED
    BY <1>7, <2>1
<1> QED
  BY <1>5, <1>7, <1>8 DEF v, k

(* The powers of a power of a root of order L cancel out, unless they are  *)
(* all one.                                                                *)
LEMMA GeometricZero ==
    ASSUME NEW L \in Lengths, NEW x \in Int, NEW d \in Nat,
           Norm(Power(x, L \div 2)) = Norm(-1), d % L # 0
    PROVE  Norm(Geometric(Power(x, d), L)) = 0
<1> DEFINE S == {n \in Nat : n \in Lengths =>
                    \A y \in Int, e \in Nat :
                        Norm(Power(y, n \div 2)) = Norm(-1) /\ e % n # 0
                            => Norm(Geometric(Power(y, e), n)) = 0}
<1>1. ASSUME NEW n \in Nat, \A m \in 0 .. n - 1 : m \in S
      PROVE  n \in S
  <2> SUFFICES ASSUME n \in Lengths, NEW y \in Int, NEW e \in Nat,
                      Norm(Power(y, n \div 2)) = Norm(-1), e % n # 0
               PROVE  Norm(Geometric(Power(y, e), n)) = 0
    OBVIOUS
  <2>1. n # 1
    OBVIOUS
  <2>2. PICK H \in Nat, K \in Nat : Doubles(H, n, K)
    BY <2>1, Halving
  <2>3. /\ H \in Nat /\ n = 2 * H /\ H > 0 /\ H \in Lengths /\ n \div 2 = H
    BY <2>2 DEF Doubles
  <2> DEFINE z == Power(y, e)
             g == Geometric(z, H)
             c == Power(z, H)
             h == Power(y, H)
  <2>4. z \in Int /\ g \in Int /\ c \in Int /\ h \in Int
    BY <2>3, PowerInt, GeometricInt
  <2>5. Norm(h) = Norm(-1)
    BY <2>3
  <2>6. Geometric(z, n) = g + c * g
    <3> HIDE DEF z
    <3> QED
      BY <2>3, <2>4, GeometricDoubles
  <2>7. CASE e % 2 = 1
    <3> DEFINE k == e \div 2
               o == -1
    <3>1. k \in Nat /\ e = 2 * k + 1
      BY <2>7, Halves
    <3>2. c = Power(h, e)
      <4>1. c = Power(y, e * H)
        BY <2>3, PowerTimes
      <4>2. Power(h, e) = Power(y, H * e)
        BY <2>3, PowerTimes
      <4>3. e * H = H * e
        BY <2>3
      <4> QED
        BY <4>1, <4>2, <4>3
    <3> HIDE DEF z, g, c, h, k
    <3>3. Norm(c) = Norm(o)
      BY <2>4, <2>5, <3>1, <3>2, OddPower
    <3>4. Norm(c * g) = Norm(o * g)
      <4>1. Norm(Norm(c) * g) = Norm(c * g)
        BY <2>4, NormTimes
      <4>2. Norm(Norm(o) * g) = Norm(o * g)
        <5>1. o \in Int
          OBVIOUS
        <5> HIDE DEF o
        <5> QED
          BY <2>4, <5>1, NormTimes
      <4> QED
        BY <3>3, <4>1, <4>2
    <3>5. o * g = -g /\ c * g \in Int /\ g + (-g) = 0
      BY <2>4
    <3> DEFINE i == c * g
               j == -g
    <3>6. i \in Int /\ j \in Int /\ Norm(i) = Norm(j)
      BY <2>4, <3>4, <3>5
    <3> HIDE DEF i, j
    <3>7. Norm(g + i) = Norm(g + j)
      <4>1. Norm(g + Norm(i)) = Norm(g + i)
        BY <2>4, <3>6, NormPlus
      <4>2. Norm(g + Norm(j)) = Norm(g + j)
        BY <2>4, <3>6, NormPlus
      <4> QED
        BY <3>6, <4>1, <4>2
    <3>8. Norm(0) = 0
      BY NormFacts, ModulusAssumption DEF Coefficients
    <3> QED
      BY <2>6, <3>5, <3>7, <3>8 DEF i, j, z
  <2>8. CASE e % 2 # 1
    <3> DEFINE k == e \div 2
               v == y * y
               q == H \div 2
    <3>1. k \in Nat /\ e = 2 * k
      BY <2>8, Halves
    <3>2. k % H # 0
      <4> SUFFICES ASSUME k % H = 0 PROVE FALSE
        OBVIOUS
      <4> DEFINE m == k \div H
      <4>1. k = H * m /\ m \in Int
        <5> HIDE DEF k
        <5>1. k = H * m + (k % H) /\ m \in Int
          BY <2>3, <3>1, Division
        <5> HIDE DEF m
        <5>2. H * m \in Int
          BY <2>3, <5>1
        <5> QED
          BY <5>1, <5>2
      <4> HIDE DEF k, m
      <4>2. e = n * m
        BY <2>3, <3>1, <4>1
      <4>3. (n * m) % n = 0
        BY <2>3, <4>1, Multiple
      <4> QED
        BY <4>2, <4>3
    <3>3. H % 2 = 0
      <4>1. H # 1
        BY <3>1, <3>2
      <4> QED
        BY <2>3, <4>1, ParametersAssumption
    <3>4. q \in Nat /\ H = q + q
      BY <2>3, <3>3, Halves
    <3>5. v \in Int /\ Power(v, q) = h
      <4>1. Power(v, q) = Power(y, q) * Power(y, q)
        BY <3>4, PowerOfProduct
      <4> HIDE DEF q
      <4>2. Power(y, q + q) = Power(y, q) * Power(y, q)
        BY <3>4, PowerPlus
      <4> QED
        BY <3>4, <4>1, <4>2
    <3>6. z = Power(v, k)
      <4> HIDE DEF k
      <4>1. Power(v, k) = Power(y, k) * Power(y, k)
        BY <3>1, PowerOfProduct
      <4>2. Power(y, k + k) = Power(y, k) * Power(y, k)
        BY <3>1, PowerPlus
      <4>3. k + k = e
        BY <3>1
      <4> QED
        BY <4>1, <4>2, <4>3
    <3>7. Norm(Geometric(Power(v, k), H)) = 0
      <4>1. H \in 0 .. n - 1
        BY <2>3
      <4>2. H \in S
        BY <1>1, <4>1
      <4>3. Norm(Power(v, H \div 2)) = Norm(-1)
        BY <2>5, <3>5
      <4> HIDE DEF v, k, z, g, c, h
      <4> QED
        BY <2>3, <3>1, <3>2, <3>5, <4>2, <4>3
    <3>8. Norm(g) = 0
      BY <3>6, <3>7
    <3> HIDE DEF z, g, c, h
    <3> DEFINE o == 1
               t == o + c
    <3>9. t \in Int /\ t * g = g + c * g
      BY <2>4
    <3> HIDE DEF t
    <3>10. Norm(t * Norm(g)) = Norm(t * g)
      BY <2>4, <3>9, NormTimes
    <3>11. t * 0 = 0 /\ Norm(0) = 0
      BY <3>9, NormFacts, ModulusAssumption DEF Coefficients
    <3> QED
      BY <2>6, <3>8, <3>9, <3>10, <3>11 DEF z
  <2> QED
    BY <2>7, <2>8
<1>2. Nat \subseteq S
  <2> HIDE DEF S
  <2> QED
    BY <1>1, Induct
<1>3. L \in Nat
  BY LengthFacts
<1> QED
  BY <1>2, <1>3

(* A polynomial's value is the sum of its terms. *)
Monomials(p, x) == [i \in Index |-> p[i] * Power(x, i)]

(* They are integers, and their sum is the value. *)
LEMMA EvalFacts ==
    ASSUME NEW p \in [Index -> Int], NEW x \in Int
    PROVE  /\ \A i \in Index : Monomials(p, x)[i] \in Int
           /\ Eval(p, x) \in Int
           /\ Eval(p, x) = Sum(Monomials(p, x), N)
<1> DEFINE z == 0
           u == 1
           f == Terms(p, x, z, u, N)
           g == Monomials(p, x)
<1>1. N \in Nat /\ Index = 0 .. N - 1
  BY NFacts DEF Index
<1>2. ASSUME NEW t \in 0 .. N - 1
      PROVE  f[t] \in Int /\ g[t] \in Int /\ f[t] = g[t]
  <2> DEFINE a == Power(x, t)
             b == p[t]
  <2>1. t \in Nat /\ t \in Index /\ z + u * t = t
    BY <1>1
  <2>2. a \in Int /\ b \in Int
    BY <2>1, PowerInt
  <2>3. f[t] = b * a /\ g[t] = b * a
    BY <2>1 DEF Terms, Monomials
  <2> HIDE DEF f, g, a, b
  <2> QED
    BY <2>2, <2>3
<1> HIDE DEF f, g
<1>3. Sum(f, N) = Sum(g, N)
  BY <1>1, <1>2, SumSame
<1>4. Sum(g, N) \in Int
  BY <1>1, <1>2, SumFacts
<1> QED
  BY <1>1, <1>2, <1>3, <1>4 DEF Eval, Value, f, g

(* The product of a power of the root and a power of its inverse. *)
Point(i, k) == Power(Root, i) * Power(Back, k)

(* Its powers add up to N if the exponents are the same, and cancel out if *)
(* they are not.                                                           *)
LEMMA PointFacts ==
    ASSUME NEW i \in Index, NEW k \in Index
    PROVE  /\ Point(i, k) \in Int
           /\ i = k => Norm(Geometric(Point(i, k), N)) = Norm(N)
           /\ i # k => Norm(Geometric(Point(i, k), N)) = 0
<1> DEFINE y == Point(i, k)
           n == N - 1
           d == i + n * k
<1>1. /\ i \in Nat /\ k \in Nat /\ n \in Nat /\ N \in Nat /\ N = n + 1
      /\ i < N /\ k < N /\ Root \in Int /\ Back \in Int
  BY NFacts, RootFacts, BackFacts DEF Index
<1>2. y \in Int
  <2>1. Power(Root, i) \in Int /\ Power(Back, k) \in Int
    BY <1>1, PowerInt
  <2> QED
    BY <2>1 DEF Point
<1>3. ASSUME i = k PROVE Norm(Geometric(y, N)) = Norm(N)
  <2>1. Norm(y) = 1
    BY <1>1, <1>3, BackFacts DEF Point
  <2> HIDE DEF y
  <2> QED
    BY <1>1, <1>2, <2>1, GeometricOne
<1>4. ASSUME i # k PROVE Norm(Geometric(y, N)) = 0
  <2>1. y = Power(Root, d) /\ d \in Nat
    <3> HIDE DEF n
    <3> DEFINE m == n * k
    <3>1. m \in Nat /\ d = i + m
      BY <1>1
    <3>2. Power(Back, k) = Power(Root, m)
      BY <1>1, PowerTimes DEF Back, n
    <3> HIDE DEF m
    <3>3. Power(Root, i + m) = Power(Root, i) * Power(Root, m)
      BY <1>1, <3>1, PowerPlus
    <3> QED
      BY <1>1, <3>1, <3>2, <3>3 DEF Point
  <2>2. d % N # 0
    <3> SUFFICES ASSUME d % N = 0 PROVE FALSE
      OBVIOUS
    <3> DEFINE m == d \div N
               e == m - k
    <3>1. d = N * m /\ m \in Int
      <4> HIDE DEF d
      <4>1. d = N * m + (d % N) /\ m \in Int
        BY <1>1, <2>1, Division
      <4> HIDE DEF m
      <4>2. N * m \in Int
        BY <1>1, <4>1
      <4> QED
        BY <4>1, <4>2
    <3>2. d = i - k + N * k
      <4> HIDE DEF n
      <4>1. N * k = n * k + k /\ n * k \in Int
        BY <1>1
      <4> QED
        BY <1>1, <4>1
    <3> HIDE DEF d, m, n
    <3>3. i - k = N * e /\ e \in Int
      <4>1. N * e = N * m - N * k /\ N * m \in Int /\ N * k \in Int
        BY <1>1, <3>1
      <4> QED
        BY <1>1, <3>1, <3>2, <4>1
    <3> HIDE DEF e
    <3>4. e # 0
      BY <1>1, <1>4, <3>3
    <3>5. N * e >= N \/ N * e <= -N
      BY <1>1, <3>3, <3>4
    <3> QED
      BY <1>1, <3>3, <3>5
  <2> HIDE DEF y, d
  <2>3. Norm(Geometric(Power(Root, d), N)) = 0
    BY <1>1, <2>1, <2>2, Ends, RootFacts, GeometricZero
  <2> QED
    BY <2>1, <2>3
<1> QED
  BY <1>2, <1>3, <1>4

(* A term of the back and forth transform. *)
LEMMA RoundTripTerm ==
    ASSUME NEW i \in Index, NEW j \in Index, NEW k \in Index
    PROVE  Power(Power(Root, j), i) * Power(Power(Back, k), j)
              = Power(Point(i, k), j)
<1> DEFINE a == Power(Root, i)
           b == Power(Back, k)
<1>1. /\ i \in Nat /\ j \in Nat /\ k \in Nat /\ Root \in Int /\ Back \in Int
  BY NFacts, RootFacts, BackFacts DEF Index
<1>2. a \in Int /\ b \in Int
  BY <1>1, PowerInt
<1>3. Power(Power(Root, j), i) = Power(a, j)
  <2>1. Power(Root, j * i) = Power(Power(Root, j), i)
    BY <1>1, PowerTimes
  <2>2. Power(Root, i * j) = Power(a, j)
    BY <1>1, PowerTimes
  <2>3. i * j = j * i
    BY <1>1
  <2> QED
    BY <2>1, <2>2, <2>3
<1> HIDE DEF a, b
<1>4. Power(a * b, j) = Power(a, j) * Power(b, j)
  BY <1>1, <1>2, PowerOfProduct
<1> QED
  BY <1>3, <1>4 DEF Point, a, b

(* Evaluating the values of a polynomial at the inverse points gives back  *)
(* its coefficients, N times each.                                         *)
LEMMA Inversion ==
    ASSUME NEW C \in [Index -> Int], NEW X \in [Index -> Int],
           \A j \in Index : Norm(X[j]) = Norm(Eval(C, Power(Root, j))),
           NEW k \in Index
    PROVE  Norm(Eval(X, Power(Back, k))) = Norm(N * C[k])
<1> DEFINE x == Power(Back, k)
           F == [j \in Index |->
                    [i \in Index |-> C[i] * Power(Point(i, k), j)]]
           G == [i \in Index |->
                    [j \in Index |-> C[i] * Power(Point(i, k), j)]]
           f == [j \in Index |-> Sum(F[j], N)]
           g == [i \in Index |-> Sum(G[i], N)]
           h == [i \in Index |-> IF i = k THEN N * C[k] ELSE 0]
           e == Monomials(X, x)
<1>0. N \in Nat
  BY NFacts
<1>1. /\ N \in Nat /\ Index = 0 .. N - 1 /\ x \in Int /\ k \in Nat
      /\ Index \subseteq Nat
  <2>1. N \in Nat /\ Index = 0 .. N - 1 /\ k \in Nat /\ Index \subseteq Nat
    BY NFacts DEF Index
  <2> QED
    BY <2>1, BackFacts, PowerInt
<1>2. ASSUME NEW i \in Index, NEW j \in Index
      PROVE  /\ F[j][i] \in Int /\ G[i][j] = F[j][i]
             /\ F[j][i] = C[i] * Power(Point(i, k), j)
  <2> DEFINE a == Power(Point(i, k), j)
             c == C[i]
  <2>1. a \in Int /\ c \in Int
    BY <1>1, PointFacts, PowerInt
  <2>2. F[j][i] = c * a /\ G[i][j] = c * a
    OBVIOUS
  <2> HIDE DEF F, G, a, c
  <2>3. F[j][i] \in Int
    BY <2>1, <2>2
  <2> QED
    BY <2>2, <2>3 DEF a, c
<1>3. ASSUME NEW j \in Index
      PROVE  f[j] \in Int /\ e[j] \in Int /\ Norm(e[j]) = Norm(f[j])
  <2> DEFINE y == Power(Root, j)
             m == Monomials(C, y)
             b == Power(x, j)
             r == F[j]
             v == Eval(C, y)
             s == X[j]
  <2>1. y \in Int /\ b \in Int /\ s \in Int
    BY <1>1, RootFacts, PowerInt
  <2>2. /\ \A i \in Index : m[i] \in Int
        /\ v \in Int /\ v = Sum(m, N)
    BY <2>1, EvalFacts
  <2>3. ASSUME NEW i \in Index
        PROVE  m[i] \in Int /\ r[i] \in Int /\ r[i] = b * m[i]
    <3> DEFINE c == C[i]
               p == Power(y, i)
    <3>1. p * b = Power(Point(i, k), j)
      BY RoundTripTerm
    <3>2. r[i] = c * Power(Point(i, k), j) /\ r[i] \in Int
      BY <1>2
    <3>3. m[i] = c * p
      BY DEF Monomials
    <3>4. c \in Int /\ p \in Int /\ m[i] \in Int
      BY <1>1, <2>1, <2>2, PowerInt
    <3> HIDE DEF c, p, b, r, m
    <3>5. c * (p * b) = b * (c * p)
      BY <2>1, <3>4
    <3> QED
      BY <3>1, <3>2, <3>3, <3>4, <3>5
  <2>4. e[j] = s * b
    BY DEF Monomials
  <2>5. f[j] = Sum(r, N)
    OBVIOUS
  <2>6. Norm(s) = Norm(v)
    OBVIOUS
  <2> HIDE DEF r, b, m, y, v, s, f, e
  <2>7. Sum(r, N) = b * Sum(m, N)
    <3>1. \A i \in 0 .. N - 1 : m[i] \in Int /\ r[i] \in Int /\ r[i] = b * m[i]
      BY <1>1, <2>3
    <3> QED
      BY <1>0, <2>1, <3>1, SumTimes
  <2>8. Norm(Norm(s) * b) = Norm(s * b)
    BY <2>1, <2>2, NormTimes
  <2>9. Norm(Norm(v) * b) = Norm(v * b)
    BY <2>1, <2>2, NormTimes
  <2>10. s * b \in Int /\ b * v \in Int /\ v * b = b * v
    BY <2>1, <2>2
  <2> QED
    BY <2>2, <2>4, <2>5, <2>6, <2>7, <2>8, <2>9, <2>10
<1>4. Eval(X, x) = Sum(e, N)
  BY <1>1, EvalFacts
<1>5. ASSUME NEW i \in Index
      PROVE  g[i] \in Int /\ h[i] \in Int /\ Norm(g[i]) = Norm(h[i])
  <2> DEFINE y == Point(i, k)
             p == PowersOf(y, N)
             c == C[i]
             r == G[i]
             s == Geometric(y, N)
  <2>1. /\ i = k => Norm(s) = Norm(N)
        /\ i # k => Norm(s) = 0
    BY PointFacts
  <2>3. y \in Int /\ c \in Int
    BY PointFacts
  <2>2. (\A j \in Index : p[j] \in Int) /\ s \in Int
    <3> HIDE DEF y
    <3> QED
      BY <1>1, <2>3, GeometricInt
  <2>4. ASSUME NEW j \in Index
        PROVE  p[j] \in Int /\ r[j] \in Int /\ r[j] = c * p[j]
    <3>1. r[j] \in Int /\ r[j] = c * Power(y, j)
      BY <1>2
    <3>2. p[j] = Power(y, j)
      BY <1>1 DEF PowersOf
    <3> HIDE DEF r, p, c, y
    <3> QED
      BY <2>2, <3>1, <3>2
  <2>5. g[i] = Sum(r, N) /\ s = Sum(p, N)
    BY DEF Geometric
  <2>6. h[i] = IF i = k THEN N * C[k] ELSE 0
    OBVIOUS
  <2>7. i = k => c = C[k]
    OBVIOUS
  <2> HIDE DEF r, p, c, y, g, h, s
  <2>8. Sum(r, N) = c * Sum(p, N)
    <3>1. \A j \in 0 .. N - 1 : p[j] \in Int /\ r[j] \in Int /\ r[j] = c * p[j]
      BY <1>1, <2>4
    <3> QED
      BY <1>0, <2>3, <3>1, SumTimes
  <2>9. g[i] = c * s /\ g[i] \in Int
    BY <2>2, <2>3, <2>5, <2>8
  <2>10. Norm(c * Norm(s)) = Norm(c * s)
    BY <2>2, <2>3, NormTimes
  <2>11. CASE i = k
    <3>1. Norm(c * Norm(N)) = Norm(c * N)
      BY <1>1, <2>3, NormTimes
    <3>2. h[i] = N * c /\ N * c = c * N /\ N * c \in Int
      BY <1>1, <2>3, <2>6, <2>7, <2>11
    <3> QED
      BY <2>1, <2>9, <2>10, <2>11, <3>1, <3>2
  <2>12. CASE i # k
    <3>1. h[i] = 0 /\ c * 0 = 0 /\ h[i] \in Int
      BY <2>3, <2>6, <2>12
    <3> QED
      BY <2>1, <2>9, <2>10, <2>12, <3>1
  <2> QED
    BY <2>11, <2>12
<1>6. h[k] = N * C[k] /\ h[k] \in Int /\ \A i \in Index : i # k => h[i] = 0
  BY <1>5
<1>7. /\ \A j \in Index : f[j] = Sum(F[j], N)
      /\ \A i \in Index : g[i] = Sum(G[i], N)
  OBVIOUS
<1> HIDE DEF F, G, f, g, h, e, x
<1>8. Norm(Sum(e, N)) = Norm(Sum(f, N))
  BY <1>1, <1>3, SumNorm
<1>9. Sum(f, N) = Sum(g, N)
  <2>1. RowsAndColumns(N, N, F, G, f, g)
    BY <1>1, <1>2, <1>7 DEF RowsAndColumns
  <2> QED
    BY <1>1, <2>1, SumSwap
<1>10. Norm(Sum(g, N)) = Norm(Sum(h, N))
  BY <1>1, <1>5, SumNorm
<1>11. Sum(h, N) = h[k]
  BY <1>1, <1>6, SumSingle
<1> QED
  BY <1>4, <1>6, <1>8, <1>9, <1>10, <1>11 DEF x

-----------------------------------------------------------------------------
(* Convolution: the transform turns it into a product of values. *)

(* The place i steps back from k on the circle of N places. *)
LEMMA CircleFacts ==
    ASSUME NEW k \in Index, NEW i \in Index
    PROVE  /\ (k - i) % N \in Index
           /\ (k - i) % N = IF i <= k THEN k - i ELSE k - i + N
<1>1. /\ k \in Int /\ i \in Int /\ N \in Nat /\ N > 0
      /\ 0 <= k /\ k < N /\ 0 <= i /\ i < N /\ Index = 0 .. N - 1
  BY NFacts DEF Index
<1>2. CASE i <= k
  <2> DEFINE r == k - i
             z == 0
  <2>1. r \in 0 .. N - 1 /\ z \in Int /\ N * z + r = k - i
    BY <1>1, <1>2
  <2> HIDE DEF r, z
  <2>2. (N * z + r) % N = r
    BY <1>1, <2>1, DivisionUnique
  <2> QED
    BY <1>1, <1>2, <2>1, <2>2 DEF r
<1>3. CASE ~(i <= k)
  <2> DEFINE r == k - i + N
             z == -1
  <2>1. r \in 0 .. N - 1 /\ z \in Int /\ N * z + r = k - i
    BY <1>1, <1>3
  <2> HIDE DEF r, z
  <2>2. (N * z + r) % N = r
    BY <1>1, <2>1, DivisionUnique
  <2> QED
    BY <1>1, <1>3, <2>1, <2>2 DEF r
<1> QED
  BY <1>2, <1>3

(* g is f moved c places along the circle of n places. *)
Rotated(f, g, n, c) ==
    \A k \in 0 .. n - 1 : /\ f[k] \in Int
                          /\ g[k] = f[IF c <= k THEN k - c ELSE k - c + n]

(* A sum around the circle of n places, begun c places later. *)
LEMMA SumRotate ==
    ASSUME NEW n \in Nat, NEW c \in 0 .. n - 1, NEW f, NEW g,
           Rotated(f, g, n, c)
    PROVE  Sum(g, n) = Sum(f, n)
<1>0. \A k \in 0 .. n - 1 : /\ f[k] \in Int
                            /\ g[k] = f[IF c <= k THEN k - c
                                                  ELSE k - c + n]
  BY DEF Rotated
<1> DEFINE d == n - c
           u == [k \in 0 .. d - 1 |-> g[c + k]]
           v == [k \in 0 .. c - 1 |-> f[d + k]]
<1>1. /\ c \in Nat /\ d \in Nat /\ c + d = n /\ d + c = n
      /\ \A k \in 0 .. n - 1 : f[k] \in Int /\ g[k] \in Int
  BY <1>0
<1>2. \A k \in 0 .. d - 1 : /\ u[k] \in Int /\ u[k] = g[c + k]
                            /\ f[k] \in Int /\ f[k] = u[k]
  BY <1>0
<1>3. \A k \in 0 .. c - 1 : /\ v[k] \in Int /\ v[k] = f[d + k]
                            /\ g[k] \in Int /\ g[k] = v[k]
  BY <1>0
<1> HIDE DEF d, u, v
<1>4. Sum(g, c + d) = Sum(g, c) + Sum(u, d)
  BY <1>1, <1>2, SumConcat
<1>5. Sum(f, d + c) = Sum(f, d) + Sum(v, c)
  BY <1>1, <1>3, SumConcat
<1>6. Sum(f, d) = Sum(u, d) /\ Sum(f, d) \in Int
  BY <1>1, <1>2, SumSame, SumFacts
<1>7. Sum(g, c) = Sum(v, c) /\ Sum(g, c) \in Int
  BY <1>1, <1>3, SumSame, SumFacts
<1> QED
  BY <1>1, <1>4, <1>5, <1>6, <1>7

(* Powers go around the circle when the Nth is one. *)
LEMMA PowerAround ==
    ASSUME NEW x \in Int, Norm(Power(x, N)) = 1,
           NEW k \in Index, NEW i \in Index
    PROVE  Norm(Power(x, k)) = Norm(Power(x, i) * Power(x, (k - i) % N))
<1> DEFINE u == (k - i) % N
           a == Power(x, k)
           b == Power(x, N)
<1>1. /\ k \in Nat /\ i \in Nat /\ N \in Nat /\ u \in Nat
      /\ u = IF i <= k THEN k - i ELSE k - i + N
  BY NFacts, CircleFacts DEF Index
<1>2. a \in Int /\ b \in Int /\ Norm(b) = 1
  BY <1>1, PowerInt
<1> HIDE DEF u
<1>3. Power(x, i + u) = Power(x, i) * Power(x, u)
  BY <1>1, PowerPlus
<1>4. CASE i <= k
  <2>1. i + u = k
    BY <1>1, <1>4
  <2> QED
    BY <1>3, <2>1 DEF u
<1>5. CASE ~(i <= k)
  <2>1. i + u = k + N
    BY <1>1, <1>5
  <2>2. Power(x, k + N) = a * b
    BY <1>1, PowerPlus
  <2> HIDE DEF a, b
  <2>3. Norm(a * Norm(b)) = Norm(a * b) /\ a * 1 = a
    BY <1>2, NormTimes
  <2> QED
    BY <1>2, <1>3, <2>1, <2>2, <2>3 DEF u, a
<1> QED
  BY <1>4, <1>5

(* The summands of a coefficient of the convolution. *)
Folded(p, q, k) == [i \in Index |-> p[i] * q[(k - i) % N]]

(* One coefficient of the convolution. *)
Folds(p, q, k) ==
    /\ \A i \in Index : /\ Folded(p, q, k)[i] \in Int
                        /\ q[(k - i) % N] \in Int
                        /\ Folded(p, q, k)[i] = p[i] * q[(k - i) % N]
    /\ Sum(Folded(p, q, k), N) \in Int
    /\ Convolve(p, q)[k] = Norm(Sum(Folded(p, q, k), N))

(* Its summands are integers, and it is their sum modulo Q. *)
LEMMA FoldedFacts ==
    ASSUME NEW p \in [Index -> Int], NEW q \in [Index -> Int], NEW k \in Index
    PROVE  Folds(p, q, k)
<1>0. N \in Nat /\ Index = 0 .. N - 1
  BY NFacts DEF Index
<1> DEFINE f == Folded(p, q, k)
<1>1. ASSUME NEW i \in Index
      PROVE  /\ f[i] \in Int /\ q[(k - i) % N] \in Int
             /\ f[i] = p[i] * q[(k - i) % N]
  <2> DEFINE a == p[i]
             b == q[(k - i) % N]
  <2>1. a \in Int /\ b \in Int
    BY CircleFacts
  <2>2. f[i] = a * b
    BY DEF Folded
  <2> HIDE DEF a, b, f
  <2>3. f[i] \in Int
    BY <2>1, <2>2
  <2> QED
    BY <2>1, <2>2, <2>3 DEF a, b
<1>2. Convolve(p, q)[k] = Norm(Sum(f, N))
  BY DEF Convolve, Folded
<1> HIDE DEF f
<1>3. Sum(f, N) \in Int
  BY <1>0, <1>1, SumFacts
<1> QED
  BY <1>1, <1>2, <1>3 DEF f, Folds

(* A convolution is a polynomial over the coefficients. *)
LEMMA ConvolveFacts ==
    ASSUME NEW p \in [Index -> Int], NEW q \in [Index -> Int]
    PROVE  /\ Convolve(p, q) \in [Index -> Coefficients]
           /\ Convolve(p, q) \in [Index -> Int]
<1>1. ASSUME NEW k \in Index
      PROVE  /\ Convolve(p, q)[k] \in Coefficients
             /\ Convolve(p, q)[k] \in Int
  <2>1. Folds(p, q, k)
    BY FoldedFacts
  <2> QED
    BY <2>1, NormFacts DEF Folds
<1>2. Convolve(p, q) = [k \in Index |-> Convolve(p, q)[k]]
  BY DEF Convolve
<1> HIDE DEF Convolve
<1> QED
  BY <1>1, <1>2

(* A row of the product: everything one coefficient of p contributes.      *)
LEMMA ProductRow ==
    ASSUME NEW p \in [Index -> Int], NEW q \in [Index -> Int],
           NEW x \in Int, Norm(Power(x, N)) = 1, NEW i \in Index,
           NEW r, \A k \in Index :
                     /\ r[k] \in Int
                     /\ r[k] = Power(x, k) * (p[i] * q[(k - i) % N])
    PROVE  Norm(Sum(r, N)) = Norm(Eval(q, x) * (p[i] * Power(x, i)))
<1> DEFINE m == Monomials(q, x)
           c == p[i] * Power(x, i)
           d == [u \in Index |-> c * m[u]]
           t == [k \in Index |-> d[(k - i) % N]]
<1>1. /\ N \in Nat /\ Index = 0 .. N - 1 /\ Index \subseteq Nat
      /\ Power(x, i) \in Int /\ p[i] \in Int
  <2>1. N \in Nat /\ Index = 0 .. N - 1 /\ Index \subseteq Nat
    BY NFacts DEF Index
  <2> QED
    BY <2>1, PowerInt
<1>2. (\A u \in Index : m[u] \in Int) /\ Eval(q, x) = Sum(m, N)
      /\ Eval(q, x) \in Int
  BY EvalFacts
<1>3. c \in Int
  <2> DEFINE a == p[i]
             b == Power(x, i)
  <2> HIDE DEF a, b
  <2>1. a * b \in Int
    BY <1>1 DEF a, b
  <2> QED
    BY <2>1 DEF a, b
<1>4. ASSUME NEW u \in Index
      PROVE  m[u] \in Int /\ d[u] \in Int /\ d[u] = c * m[u]
  <2>1. d[u] = c * m[u]
    OBVIOUS
  <2> HIDE DEF d, c, m
  <2> QED
    BY <1>2, <1>3, <2>1
<1>5. ASSUME NEW k \in Index
      PROVE  /\ t[k] \in Int
             /\ t[k] = d[IF i <= k THEN k - i ELSE k - i + N]
             /\ Norm(r[k]) = Norm(t[k])
  <2> DEFINE u == (k - i) % N
             a == p[i]
             b == q[u]
             y == Power(x, i)
             z == Power(x, u)
             w == Power(x, k)
  <2>1. u \in Index /\ u = IF i <= k THEN k - i ELSE k - i + N
    BY CircleFacts
  <2>2. t[k] = d[u]
    OBVIOUS
  <2>3. d[u] = c * m[u] /\ m[u] = b * z /\ c = a * y
    <3> HIDE DEF u
    <3> QED
      BY <2>1 DEF Monomials
  <2>4. Norm(w) = Norm(y * z)
    BY PowerAround
  <2>5. r[k] = w * (a * b) /\ r[k] \in Int
    OBVIOUS
  <2>6. a \in Int /\ b \in Int /\ y \in Int /\ z \in Int /\ w \in Int
    <3> HIDE DEF u
    <3>1. u \in Nat /\ k \in Nat
      BY <1>1, <2>1
    <3> QED
      BY <1>1, <2>1, <3>1, PowerInt
  <2> HIDE DEF u, a, b, y, z, w, t, d, m, c
  <2>7. t[k] = (a * y) * (b * z)
    BY <2>2, <2>3
  <2> DEFINE s == a * b
             v == y * z
  <2>8. s \in Int /\ v \in Int /\ (a * y) * (b * z) = v * s
    BY <2>6
  <2> HIDE DEF s, v
  <2>9. Norm(w) = Norm(v) /\ r[k] = w * s
    BY <2>4, <2>5 DEF s, v
  <2>10. Norm(Norm(w) * s) = Norm(w * s)
    BY <2>6, <2>8, NormTimes
  <2>11. Norm(Norm(v) * s) = Norm(v * s)
    BY <2>8, NormTimes
  <2>12. t[k] \in Int
    BY <2>7, <2>8
  <2> QED
    BY <2>1, <2>2, <2>7, <2>8, <2>9, <2>10, <2>11, <2>12
<1> HIDE DEF m, c, d, t
<1>6. Sum(d, N) = c * Sum(m, N)
  <2>1. N \in Nat
    BY <1>1
  <2>2. \A u \in 0 .. N - 1 : m[u] \in Int /\ d[u] \in Int /\ d[u] = c * m[u]
    BY <1>1, <1>4
  <2> QED
    BY <1>3, <2>1, <2>2, SumTimes
<1>7. Sum(t, N) = Sum(d, N)
  <2>1. N \in Nat /\ i \in 0 .. N - 1
    BY <1>1
  <2>2. Rotated(d, t, N, i)
    BY <1>1, <1>4, <1>5 DEF Rotated
  <2> QED
    BY <2>1, <2>2, SumRotate
<1>8. Norm(Sum(r, N)) = Norm(Sum(t, N))
  BY <1>1, <1>5, SumNorm
<1>9. c * Eval(q, x) = Eval(q, x) * c
  BY <1>2, <1>3
<1> QED
  BY <1>2, <1>6, <1>7, <1>8, <1>9 DEF c

(* The value of a convolution is the product of the values. *)
LEMMA EvalProduct ==
    ASSUME NEW p \in [Index -> Int], NEW q \in [Index -> Int],
           NEW x \in Int, Norm(Power(x, N)) = 1
    PROVE  Norm(Eval(Convolve(p, q), x)) = Norm(Eval(p, x) * Eval(q, x))
<1> DEFINE C == Convolve(p, q)
           e == Monomials(C, x)
           F == [k \in Index |->
                    [i \in Index |-> Power(x, k) * (p[i] * q[(k - i) % N])]]
           G == [i \in Index |->
                    [k \in Index |-> Power(x, k) * (p[i] * q[(k - i) % N])]]
           f == [k \in Index |-> Sum(F[k], N)]
           g == [i \in Index |-> Sum(G[i], N)]
           m == Monomials(p, x)
           v == Eval(q, x)
           h == [i \in Index |-> v * m[i]]
<1>1. N \in Nat /\ Index = 0 .. N - 1 /\ Index \subseteq Nat
  BY NFacts DEF Index
<1>2. C \in [Index -> Int] /\ v \in Int
  BY ConvolveFacts, EvalFacts
<1>3. ASSUME NEW k \in Index, NEW i \in Index
      PROVE  /\ F[k][i] \in Int /\ G[i][k] = F[k][i]
             /\ F[k][i] = Power(x, k) * Folded(p, q, k)[i]
             /\ G[i][k] = Power(x, k) * (p[i] * q[(k - i) % N])
  <2> DEFINE a == Folded(p, q, k)[i]
             b == Power(x, k)
             s == p[i] * q[(k - i) % N]
  <2>1. a = s /\ a \in Int
    <3>1. Folds(p, q, k)
      BY FoldedFacts
    <3> QED
      BY <3>1 DEF Folds
  <2>2. b \in Int
    BY <1>1, PowerInt
  <2>3. F[k][i] = b * s /\ G[i][k] = b * s
    OBVIOUS
  <2> HIDE DEF a, b, s, F, G
  <2>4. b * a \in Int
    BY <2>1, <2>2
  <2>5. F[k][i] = b * a
    BY <2>1, <2>3
  <2> QED
    BY <2>3, <2>4, <2>5 DEF a, b, s
<1>4. ASSUME NEW k \in Index
      PROVE  f[k] \in Int /\ e[k] \in Int /\ Norm(e[k]) = Norm(f[k])
  <2> DEFINE a == Folded(p, q, k)
             b == Power(x, k)
             r == F[k]
             s == Sum(a, N)
  <2>1. b \in Int
    BY <1>1, PowerInt
  <2>2. /\ \A i \in Index : a[i] \in Int
        /\ s \in Int /\ C[k] = Norm(s)
    <3>1. Folds(p, q, k)
      BY FoldedFacts
    <3> QED
      BY <3>1 DEF Folds
  <2>3. \A i \in Index : a[i] \in Int /\ r[i] \in Int /\ r[i] = b * a[i]
    <3> HIDE DEF a, b, F
    <3> QED
      BY <1>3, <2>2 DEF a, b
  <2>4. f[k] = Sum(r, N)
    OBVIOUS
  <2>5. e[k] = C[k] * b
    BY DEF Monomials
  <2> HIDE DEF a, b, r, e, f, C, F
  <2>6. Sum(r, N) = b * Sum(a, N)
    BY <1>1, <2>1, <2>3, SumTimes
  <2> HIDE DEF s
  <2>7. Norm(Norm(s) * b) = Norm(s * b)
    BY <2>1, <2>2, NormTimes
  <2>8. b * s \in Int /\ s * b = b * s /\ Norm(s) \in Int
    BY <2>1, <2>2, NormFacts
  <2>9. Norm(s) * b \in Int
    BY <2>1, <2>8
  <2> QED
    BY <2>2, <2>4, <2>5, <2>6, <2>7, <2>8, <2>9 DEF s
<1>5. ASSUME NEW i \in Index
      PROVE  m[i] \in Int /\ h[i] \in Int /\ h[i] = v * m[i]
  <2>1. m[i] \in Int
    BY EvalFacts
  <2>2. h[i] = v * m[i]
    OBVIOUS
  <2> HIDE DEF m, h, v
  <2> QED
    BY <1>2, <2>1, <2>2
<1>6. ASSUME NEW i \in Index
      PROVE  g[i] \in Int /\ Norm(g[i]) = Norm(h[i])
  <2> DEFINE r == G[i]
  <2>1. g[i] = Sum(r, N) /\ m[i] = p[i] * Power(x, i)
    BY DEF Monomials
  <2>2. \A k \in Index : /\ r[k] \in Int
                         /\ r[k] = Power(x, k) * (p[i] * q[(k - i) % N])
    <3> HIDE DEF F, G
    <3> QED
      BY <1>3
  <2> HIDE DEF r, g, h, m, v, G
  <2>3. Norm(Sum(r, N)) = Norm(Eval(q, x) * (p[i] * Power(x, i)))
    BY <2>2, ProductRow
  <2>4. Sum(r, N) \in Int
    BY <1>1, <2>2, SumFacts
  <2> QED
    BY <1>5, <2>1, <2>3, <2>4 DEF v
<1>7. /\ \A k \in Index : f[k] = Sum(F[k], N)
      /\ \A i \in Index : g[i] = Sum(G[i], N)
  OBVIOUS
<1>8. Eval(C, x) = Sum(e, N) /\ Eval(p, x) = Sum(m, N) /\ Eval(p, x) \in Int
  BY <1>2, EvalFacts
<1> HIDE DEF C, F, G, f, g, h, e, m, v
<1>9. Norm(Sum(e, N)) = Norm(Sum(f, N))
  BY <1>1, <1>4, SumNorm
<1>10. Sum(f, N) = Sum(g, N)
  <2>1. RowsAndColumns(N, N, F, G, f, g)
    BY <1>1, <1>3, <1>7 DEF RowsAndColumns
  <2> QED
    BY <1>1, <2>1, SumSwap
<1>11. Norm(Sum(g, N)) = Norm(Sum(h, N))
  BY <1>1, <1>5, <1>6, SumNorm
<1>12. Sum(h, N) = v * Sum(m, N)
  BY <1>1, <1>2, <1>5, SumTimes
<1>13. v * Eval(p, x) = Eval(p, x) * v
  BY <1>2, <1>8
<1> QED
  BY <1>8, <1>9, <1>10, <1>11, <1>12, <1>13 DEF C, v

-----------------------------------------------------------------------------
(* The multiplication of the key exchange. *)

(* Ntt evaluates at the powers of the root. *)
LEMMA NttEvaluates ==
    ASSUME NEW p \in [Index -> Int]
    PROVE  /\ Ntt(p) \in [Index -> Int]
           /\ \A j \in Index :
                 Norm(Ntt(p)[j]) = Norm(Eval(p, Power(Root, j)))
<1> DEFINE w == [length \in Lengths |-> Wlen(length)]
<1>1. RootsOf(Root, w) /\ Ntt(p) = Transform(p, w)
  BY ForwardRoots DEF Ntt
<1> HIDE DEF w
<1> QED
  BY <1>1, TransformEvaluates

(* invNTT finds the coefficients of a polynomial, reduced, from its values *)
(* at the powers of the root: its inverse roots and the final product with *)
(* InvN undo what ntt does.                                                *)
THEOREM InvNttRecovers ==
    ASSUME NEW C \in [Index -> Int], NEW X \in [Index -> Int],
           \A j \in Index : Norm(X[j]) = Norm(Eval(C, Power(Root, j)))
    PROVE  InvNtt(X) = [i \in Index |-> Norm(C[i])]
<1> DEFINE w == [length \in Lengths |-> InvWlen(length)]
           r == Transform(X, w)
           v == ModInverse(N, Q)
<1>1. RootsOf(Back, w)
  BY BackwardRoots
<1>2. InvNtt(X) = [i \in Index |-> (r[i] * v) % Q]
  BY DEF InvNtt
<1>3. v \in Int /\ Norm(N * v) = 1 /\ N \in Nat /\ N \in Int
  <2>1. Norm(N) # 0 /\ N \in Nat
    BY Ends, LengthInvertible, NFacts
  <2> QED
    BY <2>1, ModInverseInverts, NormFacts
<1> HIDE DEF w
<1>4. /\ r \in [Index -> Int]
      /\ \A j \in Index : Norm(r[j]) = Norm(Eval(X, Power(Back, j)))
  BY <1>1, TransformEvaluates
<1> HIDE DEF r, v
<1>5. ASSUME NEW i \in Index PROVE (r[i] * v) % Q = Norm(C[i])
  <2> DEFINE a == r[i]
             c == C[i]
             n == N * v
             m == N * c
  <2>1. Norm(a) = Norm(m)
    BY <1>4, Inversion
  <2>2. a \in Int /\ c \in Int /\ n \in Int /\ m \in Int /\ m * v = c * n
    <3>1. a \in Int /\ c \in Int
      BY <1>4
    <3> HIDE DEF a, c
    <3> QED
      BY <1>3, <3>1
  <2>3. Norm(n) = 1
    BY <1>3
  <2> HIDE DEF a, c, n, m
  <2>4. Norm(Norm(a) * v) = Norm(a * v)
    BY <1>3, <2>2, NormTimes
  <2>5. Norm(Norm(m) * v) = Norm(m * v)
    BY <1>3, <2>2, NormTimes
  <2>6. Norm(c * Norm(n)) = Norm(c * n) /\ c * 1 = c
    BY <2>2, NormTimes
  <2>7. Norm(a * v) = Norm(c)
    BY <2>1, <2>2, <2>3, <2>4, <2>5, <2>6
  <2> QED
    BY <2>7 DEF Norm, a, c
<1> QED
  BY <1>2, <1>5

(* Pairs of operands whose coefficients have the same products. *)
SameProducts(p, q, s, t) ==
    \A i, k \in Index : Norm(p[i] * q[k]) = Norm(s[i] * t[k])

(* They have the same convolution. *)
LEMMA ConvolveSame ==
    ASSUME NEW p \in [Index -> Int], NEW q \in [Index -> Int],
           NEW s \in [Index -> Int], NEW t \in [Index -> Int],
           SameProducts(p, q, s, t)
    PROVE  Convolve(p, q) = Convolve(s, t)
<1> USE DEF SameProducts
<1>1. N \in Nat /\ Index = 0 .. N - 1
  BY NFacts DEF Index
<1>2. ASSUME NEW k \in Index PROVE Convolve(p, q)[k] = Convolve(s, t)[k]
  <2> DEFINE f == Folded(p, q, k)
             g == Folded(s, t, k)
  <2>1. /\ \A i \in Index : f[i] \in Int /\ f[i] = p[i] * q[(k - i) % N]
        /\ Convolve(p, q)[k] = Norm(Sum(f, N))
    <3>1. Folds(p, q, k)
      BY FoldedFacts
    <3> QED
      BY <3>1 DEF Folds
  <2>2. /\ \A i \in Index : g[i] \in Int /\ g[i] = s[i] * t[(k - i) % N]
        /\ Convolve(s, t)[k] = Norm(Sum(g, N))
    <3>1. Folds(s, t, k)
      BY FoldedFacts
    <3> QED
      BY <3>1 DEF Folds
  <2>3. ASSUME NEW i \in Index
        PROVE  f[i] \in Int /\ g[i] \in Int /\ Norm(f[i]) = Norm(g[i])
    <3> DEFINE j == (k - i) % N
    <3>1. j \in Index
      BY CircleFacts
    <3> HIDE DEF f, g
    <3>2. f[i] \in Int /\ f[i] = p[i] * q[j]
      BY <2>1
    <3>3. g[i] \in Int /\ g[i] = s[i] * t[j]
      BY <2>2
    <3> HIDE DEF j
    <3> QED
      BY <3>1, <3>2, <3>3
  <2> HIDE DEF f, g
  <2>4. Norm(Sum(f, N)) = Norm(Sum(g, N))
    BY <1>1, <2>3, SumNorm
  <2> QED
    BY <2>1, <2>2, <2>4
<1>3. /\ Convolve(p, q) \in [Index -> Coefficients]
      /\ Convolve(s, t) \in [Index -> Coefficients]
  BY ConvolveFacts
<1> QED
  BY <1>2, <1>3

(* Transforming with ntt, multiplying the values and going back with       *)
(* invNTT convolves; hardenedNTT and hardenedInvNTT are the same.          *)
THEOREM TransformConvolves ==
    ASSUME NEW p \in [Index -> Int], NEW q \in [Index -> Int]
    PROVE  InvNtt([i \in Index |-> (Ntt(p)[i] * Ntt(q)[i]) % Q])
              = Convolve(p, q)
<1> DEFINE x == Ntt(p)
           y == Ntt(q)
           X == [i \in Index |-> (x[i] * y[i]) % Q]
           C == Convolve(p, q)
<1>1. C \in [Index -> Int] /\ C \in [Index -> Coefficients]
  BY ConvolveFacts
<1>2. /\ x \in [Index -> Int] /\ y \in [Index -> Int]
      /\ \A j \in Index :
            /\ Norm(x[j]) = Norm(Eval(p, Power(Root, j)))
            /\ Norm(y[j]) = Norm(Eval(q, Power(Root, j)))
  BY NttEvaluates
<1> HIDE DEF x, y
<1>3. ASSUME NEW j \in Index
      PROVE  /\ X[j] \in Int
             /\ Norm(X[j]) = Norm(Eval(C, Power(Root, j)))
  <2> DEFINE W == Power(Root, j)
             a == x[j]
             b == y[j]
             c == Eval(p, W)
             d == Eval(q, W)
             s == a * b
             t == c * d
  <2>1. j \in Nat /\ N \in Nat /\ Root \in Int
    BY NFacts, RootFacts DEF Index
  <2>2. W \in Int /\ Norm(Power(W, N)) = 1
    <3> DEFINE r == Power(Root, N)
    <3>1. Power(Root, j * N) = Power(W, N) /\ Power(Root, N * j) = Power(r, j)
      BY <2>1, PowerTimes
    <3>2. r \in Int /\ Norm(r) = 1
      BY <2>1, PowerInt, RootFacts
    <3> HIDE DEF r, W
    <3>3. Norm(Power(r, j)) = 1 /\ N * j = j * N
      BY <2>1, <3>2, PowerOfOne
    <3> QED
      BY <2>1, <3>1, <3>3, PowerInt DEF W
  <2>3. a \in Int /\ b \in Int /\ Norm(a) = Norm(c) /\ Norm(b) = Norm(d)
    BY <1>2
  <2>4. X[j] = Norm(s)
    BY DEF Norm
  <2> HIDE DEF W
  <2>5. c \in Int /\ d \in Int
    BY <2>2, EvalFacts
  <2>6. Norm(Eval(C, W)) = Norm(t)
    BY <2>2, EvalProduct
  <2> HIDE DEF a, b, c, d, X, C
  <2>7. Norm(s) = Norm(t) /\ s \in Int
    BY <2>3, <2>5, NormArith
  <2> HIDE DEF s, t
  <2>8. Norm(Norm(s)) = Norm(s) /\ Norm(s) \in Int
    BY <2>7, NormFacts
  <2> QED
    BY <2>4, <2>6, <2>7, <2>8 DEF W
<1>4. X \in [Index -> Int]
  <2>1. X = [i \in Index |-> X[i]]
    OBVIOUS
  <2> HIDE DEF X
  <2> QED
    BY <1>3, <2>1
<1> HIDE DEF X, C
<1>5. InvNtt(X) = [i \in Index |-> Norm(C[i])]
  BY <1>1, <1>3, <1>4, InvNttRecovers
<1>6. [i \in Index |-> Norm(C[i])] = C
  BY <1>1, NormFacts
<1> QED
  BY <1>5, <1>6 DEF X, C, x, y

(* The blinding factor is a number with an inverse modulo Q. *)
LEMMA BlindFactorFacts ==
    ASSUME NEW bytes \in Nat
    PROVE  /\ BlindFactor(bytes) \in Int
           /\ ModInverse(BlindFactor(bytes), Q) \in Int
           /\ Norm(BlindFactor(bytes) * ModInverse(BlindFactor(bytes), Q)) = 1
<1> DEFINE b == BlindFactor(bytes)
           m == Q - 1
<1>1. m \in Nat /\ m > 0 /\ Q = m + 1
  BY NormFacts
<1>2. b = 1 + (bytes % m)
  BY DEF BlindFactor
<1> HIDE DEF b, m
<1>3. bytes % m \in 0 .. m - 1
  BY <1>1, Division
<1>4. b \in Nat /\ b \in 1 .. m
  BY <1>1, <1>2, <1>3
<1>5. Norm(b) # 0
  BY <1>1, <1>4, NormFacts DEF Coefficients
<1>6. ModInverse(b, Q) \in Coefficients /\ Norm(b * ModInverse(b, Q)) = 1
  BY <1>4, <1>5, ModInverseInverts
<1> QED
  BY <1>4, <1>6, NormFacts DEF b

(* A factor and its inverse cancel out of a product. *)
LEMMA BlindingCancels ==
    ASSUME NEW a \in Int, NEW b \in Int, NEW f \in Int, NEW g \in Int,
           Norm(f * g) = 1
    PROVE  Norm(Norm(Norm(a) * f) * Norm(Norm(b) * g)) = Norm(a * b)
<1> DEFINE s == a * f
           t == b * g
           u == a * b
           v == f * g
<1>1. s \in Int /\ t \in Int /\ u \in Int /\ v \in Int /\ s * t = u * v
  OBVIOUS
<1>2. Norm(Norm(a) * f) = Norm(s) /\ Norm(Norm(b) * g) = Norm(t)
  BY NormTimes
<1>3. Norm(v) = 1
  OBVIOUS
<1> HIDE DEF s, t, u, v
<1>4. Norm(Norm(s) * Norm(t)) = Norm(s * t)
  BY <1>1, NormTimes
<1>5. Norm(u * Norm(v)) = Norm(u * v) /\ u * 1 = u
  BY <1>1, NormTimes
<1> QED
  BY <1>1, <1>2, <1>3, <1>4, <1>5 DEF u

(* secureMultiply, the multiplication of the key exchange, convolves its   *)
(* operands, blinded or not.                                               *)
THEOREM SecureMultiplyConvolves ==
    ASSUME NEW a \in [Index -> Int], NEW b \in [Index -> Int],
           NEW blinding \in [on : BOOLEAN, bytes : Nat]
    PROVE  SecureMultiply(a, b, blinding) = Convolve(a, b)
<1> DEFINE bf == BlindFactor(blinding.bytes)
           v == ModInverse(bf, Q)
           aEff == IF blinding.on THEN Scale(NormalizePoly(a), bf)
                                  ELSE NormalizePoly(a)
           bEff == IF blinding.on THEN Scale(NormalizePoly(b), v)
                                  ELSE NormalizePoly(b)
<1>1. bf \in Int /\ v \in Int /\ Norm(bf * v) = 1
  BY BlindFactorFacts
<1>2. SecureMultiply(a, b, blinding)
         = InvNtt([i \in Index |-> (Ntt(aEff)[i] * Ntt(bEff)[i]) % Q])
  BY DEF SecureMultiply
<1> HIDE DEF bf, v
<1>3. ASSUME NEW i \in Index PROVE a[i] \in Int /\ b[i] \in Int
  OBVIOUS
<1>4. /\ aEff \in [Index -> Int] /\ bEff \in [Index -> Int]
      /\ \A i, k \in Index : Norm(aEff[i] * bEff[k]) = Norm(a[i] * b[k])
  <2>1. CASE blinding.on
    <3>1. /\ aEff = [i \in Index |-> Norm(Norm(a[i]) * bf)]
          /\ bEff = [i \in Index |-> Norm(Norm(b[i]) * v)]
      BY <2>1 DEF Scale, NormalizePoly, Norm
    <3>2. ASSUME NEW i \in Index
          PROVE  Norm(Norm(a[i]) * bf) \in Int /\ Norm(Norm(b[i]) * v) \in Int
      <4>1. Norm(a[i]) \in Int /\ Norm(b[i]) \in Int
        BY <1>3, NormFacts
      <4>2. Norm(a[i]) * bf \in Int /\ Norm(b[i]) * v \in Int
        BY <1>1, <4>1
      <4> QED
        BY <4>2, NormFacts
    <3>3. ASSUME NEW i \in Index, NEW k \in Index
          PROVE  Norm(Norm(Norm(a[i]) * bf) * Norm(Norm(b[k]) * v))
                    = Norm(a[i] * b[k])
      <4> DEFINE m == a[i]
                 n == b[k]
      <4>1. m \in Int /\ n \in Int
        BY <1>3
      <4> HIDE DEF m, n
      <4>2. Norm(Norm(Norm(m) * bf) * Norm(Norm(n) * v)) = Norm(m * n)
        BY <1>1, <4>1, BlindingCancels
      <4> QED
        BY <4>2 DEF m, n
    <3> HIDE DEF aEff, bEff
    <3> QED
      BY <3>1, <3>2, <3>3
  <2>2. CASE ~blinding.on
    <3>1. /\ aEff = [i \in Index |-> Norm(a[i])]
          /\ bEff = [i \in Index |-> Norm(b[i])]
      BY <2>2 DEF NormalizePoly
    <3>2. ASSUME NEW i \in Index PROVE Norm(a[i]) \in Int /\ Norm(b[i]) \in Int
      BY <1>3, NormFacts
    <3>3. ASSUME NEW i \in Index, NEW k \in Index
          PROVE  Norm(Norm(a[i]) * Norm(b[k])) = Norm(a[i] * b[k])
      BY <1>3, NormTimes
    <3> HIDE DEF aEff, bEff
    <3> QED
      BY <3>1, <3>2, <3>3
  <2> QED
    BY <2>1, <2>2
<1> HIDE DEF aEff, bEff
<1>5. InvNtt([i \in Index |-> (Ntt(aEff)[i] * Ntt(bEff)[i]) % Q])
         = Convolve(aEff, bEff)
  BY <1>4, TransformConvolves
<1>6. Convolve(aEff, bEff) = Convolve(a, b)
  <2>1. SameProducts(aEff, bEff, a, b)
    BY <1>4 DEF SameProducts
  <2> QED
    BY <1>4, <2>1, ConvolveSame
<1> QED
  BY <1>2, <1>5, <1>6

(* Values at the powers of the root determine a polynomial over the        *)
(* coefficients: InvNtt finds both of two polynomials with equal values.   *)
LEMMA ValuesDetermine ==
    ASSUME NEW C \in [Index -> Coefficients],
           NEW D \in [Index -> Coefficients],
           \A j \in Index : Norm(Eval(C, Power(Root, j)))
                               = Norm(Eval(D, Power(Root, j)))
    PROVE  C = D
<1> DEFINE X == Ntt(C)
<1>1. C \in [Index -> Int] /\ D \in [Index -> Int]
  BY NormFacts
<1>2. /\ X \in [Index -> Int]
      /\ \A j \in Index : Norm(X[j]) = Norm(Eval(C, Power(Root, j)))
  BY <1>1, NttEvaluates
<1> HIDE DEF X
<1>3. InvNtt(X) = [i \in Index |-> Norm(C[i])]
  BY <1>1, <1>2, InvNttRecovers
<1>4. \A j \in Index : Norm(X[j]) = Norm(Eval(D, Power(Root, j)))
  BY <1>2
<1>5. InvNtt(X) = [i \in Index |-> Norm(D[i])]
  BY <1>1, <1>2, <1>4, InvNttRecovers
<1>6. [i \in Index |-> Norm(C[i])] = C
  BY NormFacts
<1>7. [i \in Index |-> Norm(D[i])] = D
  BY NormFacts
<1> QED
  BY <1>3, <1>5, <1>6, <1>7

(* The powers of the root all have the Nth power one. *)
LEMMA PointsOfOrder ==
    ASSUME NEW j \in Index
    PROVE  /\ Power(Root, j) \in Int
           /\ Norm(Power(Power(Root, j), N)) = 1
<1> DEFINE r == Power(Root, N)
           x == Power(Root, j)
<1>1. j \in Nat /\ N \in Nat /\ Root \in Int /\ N * j = j * N
  BY NFacts, RootFacts DEF Index
<1>2. Power(Root, j * N) = Power(x, N) /\ Power(Root, N * j) = Power(r, j)
  BY <1>1, PowerTimes
<1>3. r \in Int /\ Norm(r) = 1 /\ x \in Int
  BY <1>1, PowerInt, RootFacts
<1> HIDE DEF r, x
<1>4. Norm(Power(r, j)) = 1
  BY <1>1, <1>3, PowerOfOne
<1> QED
  BY <1>1, <1>2, <1>3, <1>4 DEF x

(* The value of a product of three. *)
LEMMA TripleValue ==
    ASSUME NEW a \in [Index -> Int], NEW s \in [Index -> Int],
           NEW t \in [Index -> Int], NEW x \in Int, Norm(Power(x, N)) = 1
    PROVE  /\ Eval(a, x) \in Int /\ Eval(s, x) \in Int /\ Eval(t, x) \in Int
           /\ Norm(Eval(Convolve(Convolve(a, s), t), x))
                 = Norm((Eval(a, x) * Eval(s, x)) * Eval(t, x))
<1> DEFINE C == Convolve(a, s)
           c == Eval(C, x)
           u == Eval(a, x)
           v == Eval(s, x)
           w == Eval(t, x)
           m == u * v
<1>1. C \in [Index -> Int]
  BY ConvolveFacts
<1>2. c \in Int /\ u \in Int /\ v \in Int /\ w \in Int
  BY <1>1, EvalFacts
<1>3. Norm(c) = Norm(m)
  BY EvalProduct
<1> HIDE DEF C
<1>4. Norm(Eval(Convolve(C, t), x)) = Norm(c * w)
  BY <1>1, EvalProduct
<1>5. m \in Int
  BY <1>2
<1> HIDE DEF c, u, v, w, m
<1>6. Norm(Norm(c) * w) = Norm(c * w)
  BY <1>2, NormTimes
<1>7. Norm(Norm(m) * w) = Norm(m * w)
  BY <1>2, <1>5, NormTimes
<1> QED
  BY <1>2, <1>3, <1>4, <1>6, <1>7 DEF C, c, u, v, w, m

(* Two factors may change places: what makes the ends' products meet.      *)
LEMMA FactorsCommute ==
    ASSUME NEW a \in [Index -> Int], NEW s \in [Index -> Int],
           NEW t \in [Index -> Int]
    PROVE  Convolve(Convolve(a, s), t) = Convolve(Convolve(a, t), s)
<1> DEFINE C == Convolve(Convolve(a, s), t)
           D == Convolve(Convolve(a, t), s)
<1>1. Convolve(a, s) \in [Index -> Int] /\ Convolve(a, t) \in [Index -> Int]
  BY ConvolveFacts
<1>2. C \in [Index -> Coefficients] /\ D \in [Index -> Coefficients]
  BY <1>1, ConvolveFacts
<1>3. ASSUME NEW j \in Index
      PROVE  Norm(Eval(C, Power(Root, j))) = Norm(Eval(D, Power(Root, j)))
  <2> DEFINE x == Power(Root, j)
             u == Eval(a, x)
             v == Eval(s, x)
             w == Eval(t, x)
  <2>1. x \in Int /\ Norm(Power(x, N)) = 1
    BY PointsOfOrder
  <2> HIDE DEF x
  <2>2. /\ u \in Int /\ v \in Int /\ w \in Int
        /\ Norm(Eval(C, x)) = Norm((u * v) * w)
    BY <2>1, TripleValue
  <2>3. Norm(Eval(D, x)) = Norm((u * w) * v)
    BY <2>1, TripleValue
  <2> HIDE DEF u, v, w
  <2>4. (u * v) * w = (u * w) * v
    BY <2>2
  <2> QED
    BY <2>2, <2>3, <2>4 DEF x
<1> HIDE DEF C, D
<1>4. C = D
  BY <1>2, <1>3, ValuesDetermine
<1> QED
  BY <1>4 DEF C, D

(* One coefficient of the convolution of a sum. *)
Distributes(p, e, q, k) ==
    Convolve(Plus(p, e), q)[k] = Norm(Convolve(p, q)[k] + Convolve(e, q)[k])

(* A convolution of a sum is the sum of the convolutions. *)
LEMMA ConvolveSum ==
    ASSUME NEW p \in [Index -> Int], NEW e \in [Index -> Int],
           NEW q \in [Index -> Int], NEW k \in Index
    PROVE  Distributes(p, e, q, k)
<1> USE DEF Distributes
<1> DEFINE P == Plus(p, e)
           f == Folded(p, q, k)
           g == Folded(e, q, k)
           h == Folded(P, q, k)
           t == [i \in Index |-> f[i] + g[i]]
<1>1. N \in Nat /\ Index = 0 .. N - 1
  BY NFacts DEF Index
<1>2. ASSUME NEW i \in Index
      PROVE  P[i] = Norm(p[i] + e[i]) /\ P[i] \in Int
  <2>1. p[i] + e[i] \in Int /\ P[i] = Norm(p[i] + e[i])
    BY DEF Plus
  <2> HIDE DEF P
  <2> QED
    BY <2>1, NormFacts
<1>3. P \in [Index -> Int]
  <2>1. P = [i \in Index |-> P[i]]
    BY DEF Plus
  <2> HIDE DEF P
  <2> QED
    BY <1>2, <2>1
<1> HIDE DEF P
<1>4. /\ \A i \in Index : f[i] \in Int /\ f[i] = p[i] * q[(k - i) % N]
      /\ Convolve(p, q)[k] = Norm(Sum(f, N)) /\ Sum(f, N) \in Int
  <2>1. Folds(p, q, k)
    BY FoldedFacts
  <2> QED
    BY <2>1 DEF Folds
<1>5. /\ \A i \in Index : g[i] \in Int /\ g[i] = e[i] * q[(k - i) % N]
      /\ Convolve(e, q)[k] = Norm(Sum(g, N)) /\ Sum(g, N) \in Int
  <2>1. Folds(e, q, k)
    BY FoldedFacts
  <2> QED
    BY <2>1 DEF Folds
<1>6. /\ \A i \in Index : h[i] \in Int /\ h[i] = P[i] * q[(k - i) % N]
      /\ Convolve(P, q)[k] = Norm(Sum(h, N)) /\ Sum(h, N) \in Int
  <2>1. Folds(P, q, k)
    BY <1>3, FoldedFacts
  <2> QED
    BY <2>1 DEF Folds
<1> HIDE DEF f, g, h
<1>7. \A i \in Index : t[i] \in Int /\ t[i] = f[i] + g[i]
  BY <1>4, <1>5
<1> HIDE DEF t
<1>8. ASSUME NEW i \in Index PROVE Norm(h[i]) = Norm(t[i])
  <2> DEFINE a == p[i]
             b == e[i]
             c == q[(k - i) % N]
             s == a + b
  <2>1. a \in Int /\ b \in Int /\ c \in Int
    BY CircleFacts
  <2>2. h[i] = P[i] * c /\ P[i] = Norm(s)
    BY <1>2, <1>6
  <2>3. t[i] = a * c + b * c
    BY <1>4, <1>5, <1>7
  <2> HIDE DEF a, b, c
  <2>4. s \in Int /\ a * c + b * c = s * c
    BY <2>1
  <2> HIDE DEF s
  <2>5. Norm(Norm(s) * c) = Norm(s * c)
    BY <2>1, <2>4, NormTimes
  <2> QED
    BY <2>2, <2>3, <2>4, <2>5
<1>9. Norm(Sum(h, N)) = Norm(Sum(t, N))
  BY <1>1, <1>6, <1>7, <1>8, SumNorm
<1>10. Sum(t, N) = Sum(f, N) + Sum(g, N)
  BY <1>1, <1>4, <1>5, <1>7, SumPlus
<1>11. Norm(Norm(Sum(f, N)) + Norm(Sum(g, N))) = Norm(Sum(f, N) + Sum(g, N))
  BY <1>4, <1>5, NormPlus
<1> QED
  BY <1>4, <1>5, <1>6, <1>9, <1>10, <1>11 DEF P

-----------------------------------------------------------------------------
(* Reconciliation, and the noise between the ends. *)

(* The hint leaves two quarters, and the bit says which one v lies in. *)
LEMMA Quarters ==
    ASSUME NEW v \in Coefficients
    PROVE  \/ HelpRec(v) = 0 /\ RoundBit(v) = 0 /\ 4 * v < Q
           \/ HelpRec(v) = 1 /\ RoundBit(v) = 0 /\ Q <= 4 * v /\ 2 * v < Q
           \/ HelpRec(v) = 0 /\ RoundBit(v) = 1 /\ Q < 2 * v /\ 4 * v < 3 * Q
           \/ HelpRec(v) = 1 /\ RoundBit(v) = 1 /\ 3 * Q <= 4 * v /\ v < Q
<1>1. v \in Int /\ Q \in Int /\ 0 <= v /\ v < Q /\ 2 * v # Q
  BY ModulusAssumption DEF Coefficients
<1> QED
  BY <1>1 DEF HelpRec, RoundBit

(* The responder recovers the initiator's bit from a coefficient that is   *)
(* less than Q/8 away from the initiator's: the exchange of ringlwe.go     *)
(* agrees whenever its noise stays below an eighth of the modulus.         *)
THEOREM ReconcileAgrees ==
    \A v, w \in Coefficients :
        Close(v, w) => Rec(w, HelpRec(v)) = RoundBit(v)
<1> SUFFICES ASSUME NEW v \in Coefficients, NEW w \in Coefficients,
                    Close(v, w)
             PROVE  Rec(w, HelpRec(v)) = RoundBit(v)
  OBVIOUS
<1>1. /\ v \in Int /\ w \in Int /\ Q \in Int
      /\ 0 <= v /\ v < Q /\ 0 <= w /\ w < Q
  BY ModulusAssumption DEF Coefficients
<1>2. \/ 8 * (v - w) < Q /\ 8 * (w - v) < Q
      \/ 8 * (v - w) > 7 * Q
      \/ 8 * (w - v) > 7 * Q
  BY <1>1 DEF Close, Gap
<1>3. CASE HelpRec(v) = 0 /\ RoundBit(v) = 0 /\ 4 * v < Q
  <2>1. Dist(8 * w, Q) < Dist(8 * w, 5 * Q)
    BY <1>1, <1>2, <1>3 DEF Dist
  <2> QED
    BY <1>3, <2>1 DEF Rec
<1>4. CASE HelpRec(v) = 1 /\ RoundBit(v) = 0 /\ Q <= 4 * v /\ 2 * v < Q
  <2>1. Dist(8 * w, 3 * Q) < Dist(8 * w, 7 * Q)
    BY <1>1, <1>2, <1>4 DEF Dist
  <2> QED
    BY <1>4, <2>1 DEF Rec
<1>5. CASE HelpRec(v) = 0 /\ RoundBit(v) = 1 /\ Q < 2 * v /\ 4 * v < 3 * Q
  <2>1. ~(Dist(8 * w, Q) < Dist(8 * w, 5 * Q))
    BY <1>1, <1>2, <1>5 DEF Dist
  <2> QED
    BY <1>5, <2>1 DEF Rec
<1>6. CASE HelpRec(v) = 1 /\ RoundBit(v) = 1 /\ 3 * Q <= 4 * v /\ v < Q
  <2>1. ~(Dist(8 * w, 3 * Q) < Dist(8 * w, 7 * Q))
    BY <1>1, <1>2, <1>6 DEF Dist
  <2> QED
    BY <1>6, <2>1 DEF Rec
<1> QED
  BY <1>3, <1>4, <1>5, <1>6, Quarters

(* The remainder of the difference of two coefficients. *)
LEMMA DifferenceFacts ==
    ASSUME NEW v \in Coefficients, NEW w \in Coefficients
    PROVE  Norm(w - v) = IF v <= w THEN w - v ELSE w - v + Q
<1>1. /\ v \in Int /\ w \in Int /\ Q \in Int /\ 0 <= v /\ v < Q
      /\ 0 <= w /\ w < Q
  BY NormFacts DEF Coefficients
<1>2. CASE v <= w
  <2>1. w - v \in Coefficients
    BY <1>1, <1>2 DEF Coefficients
  <2> QED
    BY <1>2, <2>1, NormFacts
<1>3. CASE ~(v <= w)
  <2> DEFINE d == w - v
             o == 1
  <2>1. d \in Int /\ o \in Int /\ d + Q * o = w - v + Q
    BY <1>1
  <2>2. w - v + Q \in Coefficients
    BY <1>1, <1>3 DEF Coefficients
  <2> HIDE DEF d, o
  <2>3. Norm(d + Q * o) = Norm(d)
    BY <2>1, NormShift
  <2>4. Norm(w - v + Q) = w - v + Q
    BY <2>2, NormFacts
  <2> QED
    BY <1>3, <2>1, <2>3, <2>4 DEF d
<1> QED
  BY <1>2, <1>3

(* How far two coefficients are apart is how far their difference is from  *)
(* zero.                                                                   *)
LEMMA GapOfDifference ==
    ASSUME NEW v \in Coefficients, NEW w \in Coefficients,
           Close(0, Norm(w - v))
    PROVE  Close(v, w)
<1>1. /\ v \in Int /\ w \in Int /\ Q \in Int /\ 0 <= v /\ v < Q
      /\ 0 <= w /\ w < Q
  BY NormFacts DEF Coefficients
<1> DEFINE n == Norm(w - v)
<1>2. n = IF v <= w THEN w - v ELSE w - v + Q
  BY DifferenceFacts
<1>3. Close(0, n)
  OBVIOUS
<1> HIDE DEF n
<1> QED
  BY <1>1, <1>2, <1>3 DEF Close, Gap

(* Noise that keeps a coefficient on its side of both rounding boundaries  *)
(* keeps its bit.                                                          *)
LEMMA ClearKeepsBit ==
    ASSUME NEW v \in Coefficients, NEW w \in Coefficients,
           Clear(v, Norm(w - v))
    PROVE  RoundBit(w) = RoundBit(v)
<1>1. /\ v \in Int /\ w \in Int /\ Q \in Int /\ 0 <= v /\ v < Q
      /\ 0 <= w /\ w < Q
  BY NormFacts DEF Coefficients
<1> DEFINE n == Norm(w - v)
<1>2. n = IF v <= w THEN w - v ELSE w - v + Q
  BY DifferenceFacts
<1>3. Clear(v, n)
  OBVIOUS
<1> HIDE DEF n
<1> QED
  BY <1>1, <1>2, <1>3 DEF Clear, Gap, RoundBit

(* The initiator has a, t and f, the responder a, s and e: their products  *)
(* differ by the error products.                                           *)
ErrorsRemain(a, s, t, e, f, i) ==
    Norm(Convolve(Plus(Convolve(a, t), f), s)[i]
           - Convolve(Plus(Convolve(a, s), e), t)[i])
        = Norm(Convolve(f, s)[i] - Convolve(e, t)[i])

(* The difference of the ends' coefficients is the difference of the error *)
(* products: the common part of the two cancels.                           *)
LEMMA EndsDiffer ==
    ASSUME NEW a \in [Index -> Int], NEW s \in [Index -> Int],
           NEW t \in [Index -> Int], NEW e \in [Index -> Int],
           NEW f \in [Index -> Int], NEW i \in Index
    PROVE  ErrorsRemain(a, s, t, e, f, i)
<1> USE DEF ErrorsRemain
<1> DEFINE A == Convolve(a, t)
           B == Convolve(a, s)
           x == Convolve(f, s)[i]
           y == Convolve(e, t)[i]
           c == Convolve(A, s)[i]
<1>1. A \in [Index -> Int] /\ B \in [Index -> Int]
  BY ConvolveFacts
<1>2. x \in Int /\ y \in Int
  <2>1. Convolve(f, s) \in [Index -> Int]
    BY ConvolveFacts
  <2>2. Convolve(e, t) \in [Index -> Int]
    BY ConvolveFacts
  <2> QED
    BY <2>1, <2>2
<1>3. Convolve(A, s) = Convolve(B, t)
  BY FactorsCommute
<1> HIDE DEF A, B
<1>4. c \in Int
  BY <1>1, ConvolveFacts
<1>5. Convolve(Plus(A, f), s)[i] = Norm(c + x)
  <2>1. Distributes(A, f, s, i)
    BY <1>1, ConvolveSum
  <2> QED
    BY <2>1 DEF Distributes
<1>6. Convolve(Plus(B, e), t)[i] = Norm(c + y)
  <2>1. Convolve(Plus(B, e), t)[i]
           = Norm(Convolve(B, t)[i] + Convolve(e, t)[i])
    <3>1. Distributes(B, e, t, i)
      BY <1>1, ConvolveSum
    <3> QED
      BY <3>1 DEF Distributes
  <2> QED
    BY <1>3, <2>1
<1> HIDE DEF x, y, c
<1> DEFINE u == c + x
           v == c + y
<1>7. u \in Int /\ v \in Int /\ u - v = x - y
  BY <1>2, <1>4
<1>8. Norm(Norm(u) - Norm(v)) = Norm(u - v)
  <2> HIDE DEF u, v
  <2> QED
    BY <1>7, NormMinus
<1> QED
  BY <1>5, <1>6, <1>7, <1>8 DEF A, B, x, y

-----------------------------------------------------------------------------
(* The exchange. *)

(* Polynomials over the coefficients: what goes over the wire, and what    *)
(* the operations on polynomials return.                                   *)
Polys == [Index -> Coefficients]

(* Polynomials before they are reduced. *)
IntPolys == [Index -> Int]

(* Reducing and adding yield polynomials over the coefficients. *)
LEMMA PolyFacts ==
    /\ Polys \subseteq IntPolys
    /\ \A p \in IntPolys : Wire(p) \in Polys
    /\ \A p \in Polys : Wire(p) = p
    /\ \A p, q \in IntPolys : Plus(p, q) \in Polys
<1>1. Coefficients \subseteq Int
  BY NormFacts
<1>2. Polys \subseteq IntPolys
  BY <1>1 DEF Polys, IntPolys
<1>3. \A p \in IntPolys : Wire(p) \in Polys
  BY NormFacts DEF Polys, IntPolys, Wire, NormalizePoly
<1>4. \A p \in Polys : Wire(p) = p
  BY NormFacts DEF Polys, Wire, NormalizePoly
<1>5. ASSUME NEW p \in IntPolys, NEW q \in IntPolys PROVE Plus(p, q) \in Polys
  <2>1. \A i \in Index : p[i] + q[i] \in Int
    BY DEF IntPolys
  <2>2. \A i \in Index : Norm(p[i] + q[i]) \in Coefficients
    BY <2>1, NormFacts
  <2> QED
    BY <2>2 DEF Plus, Polys
<1> QED
  BY <1>2, <1>3, <1>4, <1>5

(* What the responder and the initiator draw are polynomials. *)
LEMMA DrawnFacts ==
    /\ \A a \in UniformPolys : a \in Polys
    /\ \A f \in SmallFields : SmallPoly(f) \in IntPolys
    /\ \A sums \in ErrorSums : ErrorPoly(sums) \in IntPolys
<1>1. \A a \in UniformPolys : a \in Polys
  BY InputsAssumption DEF Polys
<1>2. ASSUME NEW f \in SmallFields PROVE SmallPoly(f) \in IntPolys
  <2>1. f \in [Index -> 0 .. 3]
    BY InputsAssumption
  <2>2. ASSUME NEW i \in Index
        PROVE  (CASE f[i] = 0 -> -1 [] f[i] = 1 -> 0 [] OTHER -> 1) \in Int
    BY <2>1
  <2> QED
    BY <2>2 DEF SmallPoly, IntPolys
<1>3. ASSUME NEW sums \in ErrorSums PROVE ErrorPoly(sums) \in IntPolys
  <2>1. sums \in [Index -> Nat]
    BY InputsAssumption
  <2>2. ASSUME NEW i \in Index
        PROVE  (319 * (sums[i] - 1530)) \div 25500 \in Int
    <3>1. sums[i] \in Nat
      BY <2>1
    <3> QED
      BY <3>1
  <2> QED
    BY <2>2 DEF ErrorPoly, IntPolys
<1> QED
  BY <1>1, <1>2, <1>3

(* Every product of the exchange is a convolution, of what is on the wire  *)
(* as of what was drawn.                                                   *)
LEMMA ProductFacts ==
    ASSUME NEW a \in IntPolys, NEW b \in IntPolys, NEW r \in Blindings
    PROVE  /\ SecureMultiply(a, b, r) = Convolve(a, b)
           /\ Convolve(a, b) \in Polys
           /\ Convolve(Wire(a), Wire(b)) = Convolve(a, b)
<1>1. a \in [Index -> Int] /\ b \in [Index -> Int]
  BY DEF IntPolys
<1>2. r \in [on : BOOLEAN, bytes : Nat]
  BY InputsAssumption
<1>3. SecureMultiply(a, b, r) = Convolve(a, b)
  BY <1>1, <1>2, SecureMultiplyConvolves
<1>4. Convolve(a, b) \in Polys
  BY <1>1, ConvolveFacts DEF Polys
<1>5. Convolve(Wire(a), Wire(b)) = Convolve(a, b)
  <2> DEFINE p == Wire(a)
             q == Wire(b)
  <2>1. p \in [Index -> Int] /\ q \in [Index -> Int]
    BY PolyFacts DEF IntPolys
  <2>2. ASSUME NEW i \in Index, NEW k \in Index
        PROVE  Norm(p[i] * q[k]) = Norm(a[i] * b[k])
    <3> DEFINE c == a[i]
               d == b[k]
    <3>1. p[i] = Norm(c) /\ q[k] = Norm(d)
      BY DEF Wire, NormalizePoly
    <3>2. c \in Int /\ d \in Int
      BY <1>1
    <3> HIDE DEF p, q, c, d
    <3>3. Norm(Norm(c) * Norm(d)) = Norm(c * d)
      BY <3>2, NormTimes
    <3> QED
      BY <3>1, <3>3 DEF c, d
  <2> HIDE DEF p, q
  <2>3. Convolve(p, q) = Convolve(a, b)
    <3>1. SameProducts(p, q, a, b)
      BY <2>2 DEF SameProducts
    <3> QED
      BY <1>1, <2>1, <3>1, ConvolveSame
  <2> QED
    BY <2>3 DEF p, q
<1> QED
  BY <1>3, <1>4, <1>5

(* What a key pair, a ciphertext and a decapsulation are made of. *)
KeyFits ==
    key.made => /\ key.a \in Polys /\ key.s \in Polys /\ key.b \in Polys
                /\ secretE \in IntPolys
                /\ key.b = Plus(Convolve(key.a, key.s), secretE)

(* The ciphertext and what the initiator knows about it. *)
EncapsFits ==
    encaps.made => /\ key.made
                   /\ encaps.s \in IntPolys /\ encaps.e \in IntPolys
                   /\ encaps.u \in Polys /\ encaps.w \in Polys
                   /\ encaps.u = Plus(Convolve(key.a, encaps.s), encaps.e)
                   /\ encaps.w = Convolve(key.b, encaps.s)
                   /\ encaps.hint = Hint(encaps.w)
                   /\ encaps.bits = RoundToBits(encaps.w)

(* What the responder made of it. *)
DecapsFits ==
    decaps.made => /\ encaps.made
                   /\ decaps.w \in Polys
                   /\ decaps.w = Convolve(encaps.u, key.s)
                   /\ decaps.bits = IF decaps.hinted
                                      THEN RecToBits(decaps.w, encaps.hint)
                                      ELSE RoundToBits(decaps.w)

(* The inductive invariant of the exchange. *)
ExchangeInv == KeyFits /\ EncapsFits /\ DecapsFits

(* It holds when nothing has been made. *)
LEMMA ExchangeInit == Init => ExchangeInv
BY DEF Init, None, ExchangeInv, KeyFits, EncapsFits, DecapsFits

(* GenerateKeyPair establishes the part about the key; nothing else has    *)
(* been made when it runs.                                                 *)
LEMMA KeyStep ==
    ASSUME ExchangeInv, GenerateKeyPair PROVE ExchangeInv'
<1>1. /\ ~key.made /\ UNCHANGED <<encaps, decaps>>
      /\ ~encaps.made /\ ~decaps.made
  BY DEF GenerateKeyPair, ExchangeInv, EncapsFits, DecapsFits
<1>2. PICK a \in UniformPolys, f \in SmallFields, sums \in ErrorSums,
           r \in Blindings :
           /\ key' = [made |-> TRUE, a |-> Wire(a), s |-> Wire(SmallPoly(f)),
                      b |-> Wire(Plus(SecureMultiply(a, SmallPoly(f), r),
                                      ErrorPoly(sums)))]
           /\ secretE' = ErrorPoly(sums)
  BY DEF GenerateKeyPair
<1> DEFINE s == SmallPoly(f)
           e == ErrorPoly(sums)
           b == Plus(SecureMultiply(a, s, r), e)
<1>3. a \in IntPolys /\ s \in IntPolys /\ e \in IntPolys
  BY DrawnFacts, PolyFacts
<1>4. /\ key'.a = Wire(a) /\ key'.s = Wire(s) /\ key'.b = Wire(b)
      /\ secretE' = e
  BY <1>2
<1> HIDE DEF s, e
<1>5. /\ SecureMultiply(a, s, r) = Convolve(a, s)
      /\ Convolve(a, s) \in IntPolys
      /\ Convolve(Wire(a), Wire(s)) = Convolve(a, s)
  BY <1>3, ProductFacts, PolyFacts
<1>6. b \in Polys /\ Wire(b) = b /\ Wire(a) \in Polys /\ Wire(s) \in Polys
  BY <1>3, <1>5, PolyFacts
<1>7. KeyFits'
  BY <1>3, <1>4, <1>5, <1>6 DEF KeyFits
<1> QED
  BY <1>1, <1>7 DEF ExchangeInv, EncapsFits, DecapsFits

(* Encapsulate establishes the part about the ciphertext. *)
LEMMA EncapsStep ==
    ASSUME ExchangeInv, Encapsulate PROVE ExchangeInv'
<1>1. /\ key.made /\ decaps' = None /\ UNCHANGED <<key, secretE>>
  BY DEF Encapsulate
<1>2. PICK f \in SmallFields, sums \in ErrorSums, r, t \in Blindings :
          LET s == SmallPoly(f)
              e == ErrorPoly(sums)
              w == SecureMultiply(key.b, s, t)
          IN  encaps' = [made |-> TRUE,
                         u |-> Wire(Plus(SecureMultiply(key.a, s, r), e)),
                         hint |-> Hint(w), bits |-> RoundToBits(w),
                         w |-> w, s |-> s, e |-> e]
  BY DEF Encapsulate
<1> DEFINE s == SmallPoly(f)
           e == ErrorPoly(sums)
           w == SecureMultiply(key.b, s, t)
           u == Plus(SecureMultiply(key.a, s, r), e)
<1>3. s \in IntPolys /\ e \in IntPolys
  BY DrawnFacts, PolyFacts
<1>4. /\ encaps'.s = s /\ encaps'.e = e /\ encaps'.w = w /\ encaps'.u = Wire(u)
      /\ encaps'.hint = Hint(w) /\ encaps'.bits = RoundToBits(w)
  BY <1>2
<1> HIDE DEF s, e
<1>5. key.a \in IntPolys /\ key.b \in IntPolys
  BY <1>1, PolyFacts DEF ExchangeInv, KeyFits
<1>6. w = Convolve(key.b, s) /\ w \in Polys
  BY <1>3, <1>5, ProductFacts
<1>7. /\ SecureMultiply(key.a, s, r) = Convolve(key.a, s)
      /\ Convolve(key.a, s) \in IntPolys
  BY <1>3, <1>5, ProductFacts, PolyFacts
<1>8. u = Plus(Convolve(key.a, s), e) /\ u \in Polys /\ Wire(u) = u
  BY <1>3, <1>7, PolyFacts
<1> HIDE DEF w, u
<1>9. EncapsFits'
  BY <1>1, <1>3, <1>4, <1>6, <1>8 DEF EncapsFits
<1>10. KeyFits'
  BY <1>1 DEF ExchangeInv, KeyFits
<1>11. DecapsFits'
  BY <1>1 DEF DecapsFits, None
<1> QED
  BY <1>9, <1>10, <1>11 DEF ExchangeInv

(* Decapsulate establishes the part about the decapsulation. *)
LEMMA DecapsStep ==
    ASSUME ExchangeInv, Decapsulate PROVE ExchangeInv'
<1>1. encaps.made /\ UNCHANGED <<key, secretE, encaps>>
  BY DEF Decapsulate
<1>2. PICK hinted \in BOOLEAN, r \in Blindings :
          LET w == SecureMultiply(encaps.u, key.s, r)
          IN  decaps' = [made |-> TRUE, hinted |-> hinted, w |-> w,
                         bits |-> IF hinted THEN RecToBits(w, encaps.hint)
                                            ELSE RoundToBits(w)]
  BY DEF Decapsulate
<1> DEFINE w == SecureMultiply(encaps.u, key.s, r)
<1>3. /\ decaps'.w = w /\ decaps'.hinted = hinted
      /\ decaps'.bits = IF hinted THEN RecToBits(w, encaps.hint)
                                  ELSE RoundToBits(w)
  BY <1>2
<1>4. encaps.u \in IntPolys /\ key.s \in IntPolys
  BY <1>1, PolyFacts DEF ExchangeInv, KeyFits, EncapsFits
<1>5. w = Convolve(encaps.u, key.s) /\ w \in Polys
  BY <1>4, ProductFacts
<1> HIDE DEF w
<1>6. DecapsFits'
  BY <1>1, <1>3, <1>5 DEF DecapsFits
<1> QED
  BY <1>1, <1>6 DEF ExchangeInv, KeyFits, EncapsFits

(* Every step keeps the invariant. *)
LEMMA ExchangeStep ==
    ExchangeInv /\ [Next]_vars => ExchangeInv'
<1> SUFFICES ASSUME ExchangeInv, [Next]_vars PROVE ExchangeInv'
  OBVIOUS
<1>1. CASE UNCHANGED vars
  BY <1>1 DEF vars, ExchangeInv, KeyFits, EncapsFits, DecapsFits
<1>2. CASE Next
  BY <1>2, KeyStep, EncapsStep, DecapsStep DEF Next
<1> QED
  BY <1>1, <1>2

(* Whatever the ends draw and however they are blinded, a key pair, a      *)
(* ciphertext and a decapsulation are the convolutions and the roundings   *)
(* they are meant to be: GenerateKeyPair, Encapsulate and Decapsulate of   *)
(* ringlwe.go.                                                             *)
THEOREM Exchanges == Spec => []ExchangeInv
BY ExchangeInit, ExchangeStep, PTL DEF Spec

(* The bits of a polynomial and of a hint. *)
LEMMA BitFacts ==
    /\ \A v \in Coefficients : HelpRec(v) \in {0, 1} /\ RoundBit(v) \in {0, 1}
    /\ \A v, h : Rec(v, h) \in {0, 1}
BY DEF HelpRec, RoundBit, Rec

(* The invariant has the types. *)
LEMMA InvGivesType == ExchangeInv => TypeOK
<1> SUFFICES ASSUME ExchangeInv PROVE TypeOK
  OBVIOUS
<1>1. ASSUME key.made, NEW i \in Index
      PROVE  {key.a[i], key.b[i], key.s[i]} \subseteq Coefficients
  BY <1>1 DEF ExchangeInv, KeyFits, Polys
<1>2. ASSUME encaps.made, NEW i \in Index
      PROVE  encaps.u[i] \in Coefficients /\ encaps.hint[i] \in {0, 1}
  <2>1. /\ encaps.u[i] \in Coefficients /\ encaps.w[i] \in Coefficients
        /\ encaps.hint[i] = HelpRec(encaps.w[i])
    BY <1>2 DEF ExchangeInv, EncapsFits, Polys, Hint
  <2> QED
    BY <2>1, BitFacts
<1>3. ASSUME decaps.made, NEW i \in Index
      PROVE  decaps.bits[i] \in {0, 1}
  <2>1. /\ decaps.w[i] \in Coefficients
        /\ decaps.bits = IF decaps.hinted
                           THEN RecToBits(decaps.w, encaps.hint)
                           ELSE RoundToBits(decaps.w)
    BY <1>3 DEF ExchangeInv, DecapsFits, Polys
  <2>2. \/ decaps.bits[i] = Rec(decaps.w[i], encaps.hint[i])
        \/ decaps.bits[i] = RoundBit(decaps.w[i])
    BY <2>1 DEF RecToBits, RoundToBits
  <2> QED
    BY <2>1, <2>2, BitFacts
<1> QED
  BY <1>1, <1>2, <1>3 DEF TypeOK

(* The invariant contains the products. *)
LEMMA InvGivesProducts == ExchangeInv => MultiplyIsConvolution
BY DEF ExchangeInv, KeyFits, EncapsFits, DecapsFits, MultiplyIsConvolution

(* The ends' coefficients differ by the noise. *)
LEMMA NoiseFacts ==
    ASSUME ExchangeInv, decaps.made, NEW i \in Index
    PROVE  /\ encaps.w[i] \in Coefficients /\ decaps.w[i] \in Coefficients
           /\ Norm(decaps.w[i] - encaps.w[i]) = Noise[i]
<1> DEFINE a == key.a
           s == key.s
           t == encaps.s
           e == secretE
           f == encaps.e
<1>1. encaps.made /\ key.made
  BY DEF ExchangeInv, DecapsFits, EncapsFits
<1>2. /\ a \in Polys /\ s \in Polys /\ t \in IntPolys /\ e \in IntPolys
      /\ f \in IntPolys /\ encaps.w \in Polys /\ decaps.w \in Polys
  BY <1>1 DEF ExchangeInv, KeyFits, EncapsFits, DecapsFits
<1>3. /\ decaps.w = Convolve(Plus(Convolve(a, t), f), s)
      /\ encaps.w = Convolve(Plus(Convolve(a, s), e), t)
  BY <1>1 DEF ExchangeInv, KeyFits, EncapsFits, DecapsFits
<1>4. Noise[i] = Norm(Convolve(f, s)[i] - Convolve(e, t)[i])
  BY DEF Noise
<1> HIDE DEF a, s, t, e, f
<1>5. /\ a \in [Index -> Int] /\ s \in [Index -> Int] /\ t \in [Index -> Int]
      /\ e \in [Index -> Int] /\ f \in [Index -> Int]
  BY <1>2, PolyFacts DEF IntPolys
<1>6. ErrorsRemain(a, s, t, e, f, i)
  BY <1>5, EndsDiffer
<1>7. encaps.w[i] \in Coefficients /\ decaps.w[i] \in Coefficients
  BY <1>2 DEF Polys
<1> QED
  BY <1>3, <1>4, <1>6, <1>7 DEF ErrorsRemain

(* Noise below an eighth of the modulus leaves the ends' coefficients      *)
(* close, and close coefficients reconcile.                                *)
LEMMA InvGivesAgreement == ExchangeInv => SecretsAgree
<1> SUFFICES ASSUME ExchangeInv, decaps.made, decaps.hinted,
                    \A i \in Index : Close(0, Noise[i])
             PROVE  decaps.bits = encaps.bits
  BY DEF SecretsAgree
<1>1. /\ encaps.made /\ decaps.bits = RecToBits(decaps.w, encaps.hint)
      /\ encaps.hint = Hint(encaps.w) /\ encaps.bits = RoundToBits(encaps.w)
  BY DEF ExchangeInv, EncapsFits, DecapsFits
<1>2. ASSUME NEW i \in Index
      PROVE  Rec(decaps.w[i], encaps.hint[i]) = RoundBit(encaps.w[i])
  <2> DEFINE v == encaps.w[i]
             w == decaps.w[i]
  <2>1. v \in Coefficients /\ w \in Coefficients /\ Norm(w - v) = Noise[i]
    BY NoiseFacts
  <2>2. Close(0, Norm(w - v))
    BY <2>1
  <2>3. encaps.hint[i] = HelpRec(v)
    BY <1>1 DEF Hint
  <2> HIDE DEF v, w
  <2>4. Close(v, w)
    BY <2>1, <2>2, GapOfDifference
  <2>5. Rec(w, HelpRec(v)) = RoundBit(v)
    BY <2>1, <2>4, ReconcileAgrees
  <2> QED
    BY <2>3, <2>5 DEF v, w
<1> QED
  BY <1>1, <1>2 DEF RecToBits, RoundToBits

(* Noise that crosses no boundary changes no rounded bit. *)
LEMMA InvGivesMargin == ExchangeInv => HintlessNeedsMargin
<1> SUFFICES ASSUME ExchangeInv, decaps.made, ~decaps.hinted,
                    \A i \in Index : Clear(encaps.w[i], Noise[i])
             PROVE  decaps.bits = encaps.bits
  BY DEF HintlessNeedsMargin
<1>1. /\ encaps.made /\ decaps.bits = RoundToBits(decaps.w)
      /\ encaps.bits = RoundToBits(encaps.w)
  BY DEF ExchangeInv, EncapsFits, DecapsFits
<1>2. ASSUME NEW i \in Index
      PROVE  RoundBit(decaps.w[i]) = RoundBit(encaps.w[i])
  <2> DEFINE v == encaps.w[i]
             w == decaps.w[i]
  <2>1. v \in Coefficients /\ w \in Coefficients /\ Norm(w - v) = Noise[i]
    BY NoiseFacts
  <2>2. Clear(v, Norm(w - v))
    BY <2>1
  <2> HIDE DEF v, w
  <2>3. RoundBit(w) = RoundBit(v)
    BY <2>1, <2>2, ClearKeepsBit
  <2> QED
    BY <2>3 DEF v, w
<1> QED
  BY <1>1, <1>2 DEF RoundToBits

(* Coefficients on the wire are in 0..Q-1, hints and shared bits are bits, *)
(* whatever serialization and blinding do in between.                      *)
THEOREM ExchangeTyped == Spec => []TypeOK
BY Exchanges, InvGivesType, PTL

(* Every product secureMultiply returns during an exchange is the          *)
(* convolution of its operands modulo x^N - 1: the transform, its inverse, *)
(* the bit reversal, the modular inverses and the blinding factors compute *)
(* a multiplication of polynomials and nothing else.                       *)
THEOREM ProductsConvolve == Spec => []MultiplyIsConvolution
BY Exchanges, InvGivesProducts, PTL

(* Both ends of ringlwe.go derive the same bits from a ciphertext with a   *)
(* hint as long as the noise of the exchange stays below Q/8: the key      *)
(* agreement is correct.                                                   *)
THEOREM EndsAgree == Spec => []SecretsAgree
BY Exchanges, InvGivesAgreement, PTL

(* A ciphertext in the old format, without a hint, still yields equal bits *)
(* as long as the noise crosses no rounding boundary.                      *)
THEOREM MarginSuffices == Spec => []HintlessNeedsMargin
BY Exchanges, InvGivesMargin, PTL

=============================================================================

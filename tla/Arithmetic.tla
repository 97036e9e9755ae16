------------------------------ MODULE Arithmetic ------------------------------
(***************************************************************************)
(* Facts on natural numbers that the proofs about pages and blocks share:  *)
(* least elements, induction and recursion, products, quotients and        *)
(* remainders, and multiples of a unit.                                    *)
(***************************************************************************)
EXTENDS Integers, WellFoundedInduction, TLAPS

(* A non-empty set of naturals has a least element. *)
LEMMA LeastExists ==
  ASSUME NEW S \in SUBSET Nat, S # {}
  PROVE  \E x \in S : \A y \in S : x <= y
<1> DEFINE R == {p \in Nat \X Nat : p[1] < p[2]}
<1>1. IsWellFoundedOn(R, Nat)
  BY NatLessThanWellFounded DEF OpToRel
<1>2. \E x \in S : \A y \in S : ~ (<<y, x>> \in R)
  <2> HIDE DEF R
  <2> QED BY <1>1, WFMin
<1>3. PICK x \in S : \A y \in S : ~ (<<y, x>> \in R)
  BY <1>2
<1>4. \A y \in S : x <= y
  <2> TAKE y \in S
  <2>1. ~ (y < x) BY <1>3
  <2> QED BY <2>1
<1> QED BY <1>4

(* Induction: a set with 0 and the successor of each of its members has    *)
(* every natural number.                                                   *)
LEMMA Induction ==
  ASSUME NEW S, 0 \in S, \A n \in S \cap Nat : n + 1 \in S
  PROVE  \A n \in Nat : n \in S
<1> DEFINE Out == Nat \ S
<1>1. Out \subseteq Nat OBVIOUS
<1>2. ASSUME Out # {} PROVE FALSE
  <2>1. PICK n \in Out : \A m \in Out : n <= m BY <1>1, <1>2, LeastExists
  <2>2. n \in Nat /\ n # 0 OBVIOUS
  <2>3. n - 1 \in Nat /\ n - 1 \notin Out BY <2>1, <2>2
  <2>4. n - 1 \in S \cap Nat BY <2>3
  <2>5. (n - 1) + 1 \in S BY <2>4
  <2> QED BY <2>1, <2>2, <2>5
<1> QED BY <1>2

(* Recursion: a first value and a step determine a function.  step is a    *)
(* function of the number and the value there.                             *)
Follows(g, n, first, step) ==
  g[0] = first /\ \A k \in 0 .. n - 1 : g[k + 1] = step[<<k, g[k]>>]

(* A function defined by recursion on the naturals up to a bound. *)
LEMMA Recursion ==
  ASSUME NEW X, NEW first \in X, NEW step \in [Nat \X X -> X]
  PROVE  \A n \in Nat : \E g \in [0 .. n -> X] : Follows(g, n, first, step)
<1> DEFINE S == {n \in Nat : \E g \in [0 .. n -> X] : Follows(g, n, first, step)}
<1>1. 0 \in S
  <2> DEFINE g == [k \in 0 .. 0 |-> first]
  <2>1. g \in [0 .. 0 -> X] /\ g[0] = first OBVIOUS
  <2> HIDE DEF g
  <2>2. Follows(g, 0, first, step) BY <2>1 DEF Follows
  <2> QED BY <2>1, <2>2
<1>2. ASSUME NEW n \in S \cap Nat PROVE n + 1 \in S
  <2>1. PICK g \in [0 .. n -> X] : Follows(g, n, first, step) OBVIOUS
  <2> DEFINE v == step[<<n, g[n]>>]
             h == [k \in 0 .. n + 1 |-> IF k = n + 1 THEN v ELSE g[k]]
  <2>2. g[n] \in X /\ v \in X
    <3>1. n \in 0 .. n OBVIOUS
    <3> QED BY <2>1, <3>1
  <2>3. /\ h \in [0 .. n + 1 -> X] /\ h[n + 1] = v
        /\ \A k \in 0 .. n : h[k] = g[k]
    <3> HIDE DEF v
    <3>1. \A k \in 0 .. n + 1 : k # n + 1 => k \in 0 .. n OBVIOUS
    <3> QED BY <2>1, <2>2, <3>1
  <2> HIDE DEF h
  <2>4. ASSUME NEW k \in 0 .. n PROVE h[k + 1] = step[<<k, h[k]>>]
    <3>1. CASE k = n BY <2>3, <3>1
    <3>2. CASE k # n
      <4>1. k \in 0 .. n - 1 /\ k + 1 \in 0 .. n BY <3>2
      <4>2. g[k + 1] = step[<<k, g[k]>>] BY <2>1, <4>1 DEF Follows
      <4> QED BY <2>3, <4>1, <4>2
    <3> QED BY <3>1, <3>2
  <2>5. h[0] = first BY <2>1, <2>3 DEF Follows
  <2>6. (n + 1) - 1 = n OBVIOUS
  <2>7. Follows(h, n + 1, first, step) BY <2>4, <2>5, <2>6 DEF Follows
  <2> QED BY <2>3, <2>7
<1> HIDE DEF S
<1>3. \A n \in Nat : n \in S BY <1>1, <1>2, Induction
<1> QED BY <1>3 DEF S

(* Multiplication keeps order: n whole units of k lie below m of them.     *)
LEMMA TimesMonotonic ==
  ASSUME NEW k \in Nat, NEW n \in Int, NEW m \in Int, n <= m
  PROVE  k * n \in Int /\ k * m \in Int /\ k * n <= k * m
OBVIOUS

(* A product of naturals is one. *)
LEMMA TimesNat == ASSUME NEW k \in Nat, NEW n \in Nat PROVE k * n \in Nat
OBVIOUS

(* A unit of k and what fits in it stay below the next one. *)
LEMMA UnitsApart ==
  ASSUME NEW k \in Nat, NEW n \in Int, NEW m \in Int, n < m
  PROVE  k * n + k <= k * m
<1>1. k * (n + 1) <= k * m BY TimesMonotonic
<1>2. k * (n + 1) = k * n + k OBVIOUS
<1> QED BY <1>1, <1>2

(* Quotient and remainder. *)
LEMMA DivMod ==
  ASSUME NEW k \in Nat \ {0}, NEW n \in Nat
  PROVE  /\ n \div k \in Nat /\ n % k \in 0 .. k - 1
         /\ n = k * (n \div k) + (n % k)
OBVIOUS

(* Whole units of k in n: what ROUND_DOWN keeps of n. *)
LEMMA DivBounds ==
  ASSUME NEW k \in Nat \ {0}, NEW n \in Nat
  PROVE  /\ n \div k \in Nat
         /\ k * (n \div k) \in Nat
         /\ k * (n \div k) = (n \div k) * k
         /\ k * (n \div k) <= n
         /\ n < k * (n \div k) + k
<1>1. n \div k \in Nat /\ n % k \in 0 .. k - 1 /\ n = k * (n \div k) + (n % k)
  BY DivMod
<1>2. k * (n \div k) \in Nat BY <1>1, TimesNat
<1> QED BY <1>1, <1>2

(* Quotient and remainder are the only ones. *)
LEMMA DivModUnique ==
  ASSUME NEW k \in Nat \ {0}, NEW q \in Nat, NEW r \in 0 .. k - 1
  PROVE  (k * q + r) \div k = q /\ (k * q + r) % k = r
<1> DEFINE n == k * q + r
<1>1. n \in Nat BY TimesNat
<1>2. /\ n \div k \in Nat /\ n % k \in 0 .. k - 1
      /\ n = k * (n \div k) + (n % k) 
  BY <1>1, DivMod
<1>3. ~ (n \div k < q)
  <2> SUFFICES ASSUME n \div k < q PROVE FALSE OBVIOUS
  <2>1. k * (n \div k) + k <= k * q BY <1>2, UnitsApart
  <2> QED BY <2>1, <1>2
<1>4. ~ (q < n \div k)
  <2> SUFFICES ASSUME q < n \div k PROVE FALSE OBVIOUS
  <2>1. k * q + k <= k * (n \div k) BY <1>2, UnitsApart
  <2> QED BY <2>1, <1>2
<1>5. n \div k = q BY <1>2, <1>3, <1>4
<1> QED BY <1>2, <1>5

(* Quotients and remainders by k and by n units of k: what the digits of a *)
(* number are, and what follows.                                           *)
Digits3(k, n, x, m, a, b, r) ==
  /\ k * b \in Nat
  /\ x \div k = n * a + b /\ x % k = r
  /\ x \div m = a /\ x % m = k * b + r

(* A number in three digits. *)
LEMMA NestedDigits ==
  ASSUME NEW k \in Nat \ {0}, NEW n \in Nat \ {0}, NEW x \in Nat,
         NEW m \in Nat \ {0}, m = n * k
  PROVE  \E a \in Nat, b \in 0 .. n - 1, r \in 0 .. k - 1 : Digits3(k, n, x, m, a, b, r)
<1>1. PICK q \in Nat, r \in 0 .. k - 1 : q = x \div k /\ r = x % k /\ x = k * q + r
  BY DivMod
<1>2. PICK a \in Nat, b \in 0 .. n - 1 : a = q \div n /\ b = q % n /\ q = n * a + b
  BY DivMod
<1> DEFINE y == k * b + r
<1>3. k * b \in Nat /\ k * b + k <= k * n BY UnitsApart, TimesNat
<1>4. m = k * n
  <2>1. n * k = k * n OBVIOUS
  <2> QED BY <2>1
<1>5. y \in 0 .. m - 1 BY <1>3, <1>4
<1>6. x = m * a + y
  <2>1. k * (n * a + b) = k * (n * a) + k * b OBVIOUS
  <2>2. k * (n * a) = m * a OBVIOUS
  <2>3. m * a \in Nat OBVIOUS
  <2>4. x = k * (n * a + b) + r BY <1>1, <1>2
  <2>5. x = (m * a + k * b) + r BY <2>1, <2>2, <2>4
  <2>6. (m * a + k * b) + r = m * a + (k * b + r) BY <1>3, <2>3
  <2> QED BY <2>5, <2>6
<1>7. x \div m = a /\ x % m = y
  <2> HIDE DEF y
  <2> QED BY <1>5, <1>6, DivModUnique
<1> QED BY <1>1, <1>2, <1>3, <1>7 DEF Digits3

(* Dividing by a product is dividing twice. *)
LEMMA DivNested ==
  ASSUME NEW k \in Nat \ {0}, NEW n \in Nat \ {0}, NEW x \in Nat,
         NEW m \in Nat \ {0}, m = n * k
  PROVE  x \div m = (x \div k) \div n
<1>1. PICK a \in Nat, b \in 0 .. n - 1, r \in 0 .. k - 1 : Digits3(k, n, x, m, a, b, r)
  BY NestedDigits
<1>2. (n * a + b) \div n = a BY DivModUnique
<1> QED BY <1>1, <1>2 DEF Digits3

(* The rest of a division by a factor is no larger. *)
LEMMA ModNested ==
  ASSUME NEW k \in Nat \ {0}, NEW n \in Nat \ {0}, NEW x \in Nat,
         NEW m \in Nat \ {0}, m = n * k
  PROVE  x % k <= x % m
<1>1. PICK a \in Nat, b \in 0 .. n - 1, r \in 0 .. k - 1 : Digits3(k, n, x, m, a, b, r)
  BY NestedDigits
<1> QED BY <1>1 DEF Digits3

(* A number is a multiple when nothing remains. *)
LEMMA MultipleIs ==
  ASSUME NEW k \in Nat \ {0}, NEW n \in Nat
  PROVE  n % k = 0 <=> \E q \in Nat : n = k * q
<1>1. ASSUME n % k = 0 PROVE \E q \in Nat : n = k * q
  <2>1. n \div k \in Nat /\ n = k * (n \div k) BY <1>1, DivBounds, DivMod
  <2> QED BY <2>1
<1>2. ASSUME NEW q \in Nat, n = k * q PROVE n % k = 0
  <2>1. 0 \in 0 .. k - 1 /\ k * q \in Nat BY TimesNat
  <2>2. (k * q + 0) % k = 0 BY <2>1, DivModUnique
  <2>3. k * q + 0 = k * q BY <2>1
  <2> QED BY <1>2, <2>2, <2>3
<1> QED BY <1>1, <1>2

(* The sum of two multiples is one. *)
LEMMA MultiplesAdd ==
  ASSUME NEW k \in Nat \ {0}, NEW n \in Nat, NEW m \in Nat, n % k = 0, m % k = 0
  PROVE  (n + m) % k = 0
<1>1. PICK q \in Nat : n = k * q BY MultipleIs
<1>2. PICK r \in Nat : m = k * r BY MultipleIs
<1>3. k * (q + r) = k * q + k * r /\ q + r \in Nat OBVIOUS
<1>4. n + m = k * (q + r) /\ n + m \in Nat BY <1>1, <1>2, <1>3
<1> HIDE <1>1, <1>2
<1> QED BY <1>3, <1>4, MultipleIs

(* Between two multiples there is a unit. *)
LEMMA MultiplesApart ==
  ASSUME NEW k \in Nat \ {0}, NEW n \in Nat, NEW m \in Nat, n % k = 0, m % k = 0,
         n < m
  PROVE  n + k <= m
<1>1. PICK q \in Nat : n = k * q BY MultipleIs
<1>2. PICK r \in Nat : m = k * r BY MultipleIs
<1>3. CASE q < r BY <1>1, <1>2, <1>3, UnitsApart
<1>4. CASE r <= q
  <2>1. k * r <= k * q BY <1>4, TimesMonotonic
  <2> QED BY <1>1, <1>2, <2>1
<1> QED BY <1>3, <1>4

(* Rounding up to a multiple. *)
LEMMA RoundsUp ==
  ASSUME NEW k \in Nat \ {0}, NEW n \in Nat
  PROVE  LET s == n + k - 1  r == s - (s % k) IN
         /\ s \in Nat /\ r \in Nat /\ r % k = 0 /\ n <= r /\ r < n + k
<1> DEFINE s == n + k - 1  r == s - (s % k)
<1>1. s \in Nat OBVIOUS
<1> HIDE DEF s
<1>2. s % k \in 0 .. k - 1 /\ s \div k \in Nat /\ s = k * (s \div k) + (s % k)
  BY <1>1, DivMod
<1>3. k * (s \div k) \in Nat BY <1>2, TimesNat
<1>4. r = k * (s \div k) BY <1>1, <1>2, <1>3
<1>5. r \in Nat /\ r % k = 0 BY <1>2, <1>3, <1>4, MultipleIs
<1>6. n <= r /\ r < n + k BY <1>1, <1>2, <1>3, <1>4 DEF s
<1> QED BY <1>1, <1>5, <1>6 DEF s
==============================================================================

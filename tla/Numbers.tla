------------------------------ MODULE Numbers ------------------------------
(***************************************************************************)
(* Facts about numbers that the proofs of several modules rest on:         *)
(* induction up to a number, and division with a remainder.                *)
(***************************************************************************)
EXTENDS Integers, FiniteSetTheorems, FunctionTheorems, TLAPS

(* Induction up to a number: a set that has 0, and k + 1 with every k      *)
(* below n, has n.  The members of 0..n that it lacks could otherwise be   *)
(* moved down by one into themselves, n would be hit, and n + 1 be one.    *)
LEMMA InductionTo ==
  ASSUME NEW n \in Nat, NEW S, 0 \in S, \A k \in 0..(n - 1) : k \in S => k + 1 \in S
  PROVE  n \in S
<1> DEFINE T == {k \in 0..n : k \notin S}
           f == [k \in T |-> k - 1]
<1>1. SUFFICES ASSUME n \in T PROVE FALSE
  OBVIOUS
<1>2. IsFiniteSet(T)
  <2>1. IsFiniteSet(0..n)
    BY FS_Interval
  <2> QED
    BY <2>1, FS_Subset
<1>3. \A k \in T : k - 1 \in T
  OBVIOUS
<1>4. f \in Injection(T, T)
  BY <1>3, Fun_IsInj
<1> HIDE DEF T, f
<1>5. f \in Surjection(T, T)
  BY <1>2, <1>4, FS_Injection
<1>6. \A t \in T : \E k \in T : f[k] = t
  BY <1>5, Fun_SurjectionProperties
<1>7. PICK k \in T : f[k] = n
  BY <1>1, <1>6
<1> QED
  BY <1>7 DEF f, T

(* Division with a remainder, by any divisor. *)
LEMMA Division ==
  ASSUME NEW d \in Nat \ {0}, NEW a \in Nat
  PROVE  /\ a \div d \in Nat /\ a % d \in 0..(d - 1)
         /\ a = d * (a \div d) + (a % d)
<1> DEFINE q == a \div d
           r == a % d
<1>1. q \in Nat /\ r \in 0..(d - 1)
  OBVIOUS
<1>2. a = d * q + r
  OBVIOUS
<1> QED
  BY <1>1, <1>2

(* The quotient and the remainder are the ones there are. *)
LEMMA Quotient ==
  ASSUME NEW d \in Nat \ {0}, NEW q \in Nat, NEW r \in 0..(d - 1)
  PROVE  (d * q + r) \div d = q /\ (d * q + r) % d = r
<1>1. (d * q + r) % d = r
  OBVIOUS
<1>2. (d * q + r) \div d = q
  OBVIOUS
<1> QED
  BY <1>1, <1>2

(* One more: either the remainder grows, or the quotient does. *)
LEMMA OneMore ==
  ASSUME NEW d \in Nat \ {0}, NEW a \in Nat
  PROVE  /\ (a % d) + 1 < d => (a + 1) \div d = a \div d /\ (a + 1) % d = (a % d) + 1
         /\ (a % d) + 1 = d => (a + 1) \div d = (a \div d) + 1 /\ (a + 1) % d = 0
         /\ (a % d) + 1 < d \/ (a % d) + 1 = d
<1> DEFINE q == a \div d
           r == a % d
<1>1. q \in Nat /\ r \in 0..(d - 1) /\ a = d * q + r
  BY Division
<1> HIDE DEF q, r
<1>2. CASE r + 1 < d
  <2>1. r + 1 \in 0..(d - 1) /\ a + 1 = d * q + (r + 1)
    BY <1>1, <1>2
  <2>2. (a + 1) \div d = q /\ (a + 1) % d = r + 1
    BY <1>1, <2>1, Quotient
  <2> QED
    BY <1>2, <2>2 DEF q, r
<1>3. CASE r + 1 = d
  <2>1. a + 1 = d * (q + 1) + 0 /\ q + 1 \in Nat /\ 0 \in 0..(d - 1)
    BY <1>1, <1>3
  <2> DEFINE e == q + 1
  <2>3. e \in Nat /\ a + 1 = d * e + 0
    BY <2>1
  <2> HIDE DEF e
  <2>4. (d * e + 0) \div d = e /\ (d * e + 0) % d = 0
    BY <2>1, <2>3, Quotient
  <2>2. (a + 1) \div d = q + 1 /\ (a + 1) % d = 0
    BY <2>3, <2>4 DEF e
  <2> QED
    BY <1>3, <2>2 DEF q, r
<1> QED
  BY <1>1, <1>2, <1>3

(* A number is a multiple of any divisor and a remainder. *)
LEMMA Divided ==
  ASSUME NEW d \in Nat \ {0}, NEW a \in Int
  PROVE  \E q \in Int : \E r \in 0..(d - 1) : a = d * q + r
<1> DEFINE q == a \div d
           r == a % d
<1>1. q \in Int /\ r \in 0..(d - 1)
  OBVIOUS
<1>2. a = d * q + r
  OBVIOUS
<1> HIDE DEF q, r
<1> QED
  BY <1>1, <1>2

(* The remainder is the one there is. *)
LEMMA Remainder ==
  ASSUME NEW d \in Nat \ {0}, NEW q \in Int, NEW r \in 0..(d - 1)
  PROVE  (d * q + r) % d = r
  OBVIOUS

(* Addresses that wrap can be wrapped at every step or once in the end. *)
LEMMA WrapOnce ==
  ASSUME NEW d \in Nat \ {0}, NEW a \in Int, NEW b \in Int
  PROVE  ((a % d) + b) % d = (a + b) % d
<1>1. PICK q \in Int, r \in 0..(d - 1) : a = d * q + r
  BY Divided
<1>2. r + b \in Int
  OBVIOUS
<1>3. PICK p \in Int, t \in 0..(d - 1) : r + b = d * p + t
  BY <1>2, Divided
<1>4. a + b = d * (q + p) + t /\ q + p \in Int
  BY <1>1, <1>3
<1>5. a % d = r
  BY <1>1, Remainder
<1>6. (r + b) % d = t
  BY <1>3, Remainder
<1>7. (a + b) % d = t
  BY <1>4, Remainder
<1> QED
  BY <1>5, <1>6, <1>7

(* What is in range stays as it is. *)
LEMMA NoWrap ==
  ASSUME NEW d \in Nat \ {0}, NEW r \in 0..(d - 1)
  PROVE  r % d = r
  OBVIOUS

(* A product grows with its factor. *)
LEMMA ProductMonotonic ==
  ASSUME NEW a \in Nat, NEW b \in Nat, NEW p \in Nat, a <= b
  PROVE  a * p \in Nat /\ a * p <= b * p
<1>1. PICK d \in Nat : b = a + d
  <2>1. b - a \in Nat /\ b = a + (b - a)
    OBVIOUS
  <2> QED
    BY <2>1
<1>2. b * p = a * p + d * p /\ a * p \in Nat /\ d * p \in Nat
  BY <1>1
<1> QED
  BY <1>2

(* A quotient reaches m when the number reaches m times the divisor. *)
LEMMA QuotientReaches ==
  ASSUME NEW d \in Nat \ {0}, NEW a \in Nat, NEW m \in Nat
  PROVE  a \div d >= m <=> a >= m * d
<1> DEFINE q == a \div d
           r == a % d
<1>1. q \in Nat /\ r \in 0..(d - 1) /\ a = d * q + r
  BY Division
<1> HIDE DEF q, r
<1>2. CASE q >= m
  <2>1. m * d <= q * d
    BY <1>1, <1>2, ProductMonotonic
  <2>2. q * d = d * q /\ m * d \in Nat /\ d * q \in Nat
    BY <1>1
  <2> QED
    BY <1>1, <1>2, <2>1, <2>2 DEF q
<1>3. CASE ~(q >= m)
  <2>1. q + 1 \in Nat /\ q + 1 <= m
    BY <1>1, <1>3
  <2>2. (q + 1) * d <= m * d /\ (q + 1) * d \in Nat
    BY <2>1, ProductMonotonic
  <2>3. (q + 1) * d = d * q + d /\ m * d \in Nat /\ d * q \in Nat
    BY <1>1
  <2>4. a < m * d
    BY <1>1, <2>2, <2>3
  <2> QED
    BY <1>1, <1>3, <2>3, <2>4 DEF q
<1> QED
  BY <1>2, <1>3

(* A loop of n steps from x0, each of which begins in D. *)
Loop(g, n, x0, F, D) ==
  /\ g = [k \in 0..n |-> g[k]] /\ g[0] = x0
  /\ \A k \in 1..n : g[k] = F[<<k, g[k - 1]>>] /\ g[k - 1] \in D[k - 1]

(* A loop whose steps keep to D runs to its end, in one way only. *)
LEMMA Repeated ==
  ASSUME NEW n \in Nat, NEW D, NEW x0 \in D[0], NEW F,
         \A k \in 1..n : \A x \in D[k - 1] : F[<<k, x>>] \in D[k]
  PROVE  \E g : Loop(g, n, x0, F, D)
<1> DEFINE Body(m, g) == [k \in 0..m |-> IF k = 0 THEN x0 ELSE F[<<k, g[k - 1]>>]]
           S == {m \in 0..n : \E g : g = Body(m, g) /\ \A k \in 0..m : g[k] \in D[k]}
<1>1. 0 \in S
  <2> DEFINE g == [k \in 0..0 |-> x0]
  <2>1. g = Body(0, g) /\ \A k \in 0..0 : g[k] \in D[k]
    OBVIOUS
  <2> HIDE DEF g, Body
  <2> QED
    BY <2>1
<1>2. ASSUME NEW m \in 0..(n - 1), m \in S PROVE m + 1 \in S
  <2>1. PICK g : g = Body(m, g) /\ \A k \in 0..m : g[k] \in D[k]
    BY <1>2
  <2> DEFINE h == [k \in 0..(m + 1) |-> IF k = m + 1 THEN F[<<m + 1, g[m]>>] ELSE g[k]]
  <2>2. \A k \in 0..m : h[k] = g[k] /\ g[k] = IF k = 0 THEN x0 ELSE F[<<k, g[k - 1]>>]
    <3>1. \A k \in 0..m : h[k] = g[k]
      OBVIOUS
    <3> HIDE DEF h
    <3>2. \A k \in 0..m : g[k] = Body(m, g)[k]
      BY <2>1
    <3> QED
      BY <3>1, <3>2
  <2>3. h[m + 1] = F[<<m + 1, g[m]>>] /\ DOMAIN h = 0..(m + 1) /\ h = [k \in 0..(m + 1) |-> h[k]]
    OBVIOUS
  <2> HIDE DEF h
  <2>4. ASSUME NEW k \in 0..(m + 1)
        PROVE  h[k] = (IF k = 0 THEN x0 ELSE F[<<k, h[k - 1]>>]) /\ h[k] \in D[k]
    <3>1. CASE k = m + 1
      <4>1. k # 0 /\ k - 1 = m /\ m \in 0..m /\ k \in 1..n
        BY <3>1
      <4>2. h[k] = F[<<k, g[m]>>] /\ g[m] \in D[k - 1] /\ h[k - 1] = g[m]
        BY <2>1, <2>2, <2>3, <3>1, <4>1
      <4> QED
        BY <4>1, <4>2
    <3>2. CASE k # m + 1
      <4>1. k \in 0..m /\ (k # 0 => k - 1 \in 0..m)
        BY <3>2
      <4> QED
        BY <2>1, <2>2, <4>1
    <3> QED
      BY <3>1, <3>2
  <2>5. h = Body(m + 1, h)
    BY <2>3, <2>4
  <2> HIDE DEF Body
  <2>6. m + 1 \in 0..n
    OBVIOUS
  <2> QED
    BY <2>4, <2>5, <2>6
<1>3. n \in S
  <2> HIDE DEF S
  <2> QED
    BY <1>1, <1>2, InductionTo
<1>4. PICK g : g = Body(n, g) /\ \A k \in 0..n : g[k] \in D[k]
  BY <1>3
<1>5. \A k \in 0..n : g[k] = IF k = 0 THEN x0 ELSE F[<<k, g[k - 1]>>]
  BY <1>4
<1>6. g = [k \in 0..n |-> g[k]]
  BY <1>4
<1>7. \A k \in 1..n : k \in 0..n /\ k - 1 \in 0..n /\ k # 0
  OBVIOUS
<1> HIDE DEF Body, S
<1>8. g[0] = x0
  <2>1. 0 \in 0..n
    OBVIOUS
  <2> QED
    BY <1>5, <2>1
<1>9. \A k \in 1..n : g[k] = F[<<k, g[k - 1]>>] /\ g[k - 1] \in D[k - 1]
  BY <1>4, <1>5, <1>7
<1> QED
  BY <1>6, <1>8, <1>9 DEF Loop

=============================================================================

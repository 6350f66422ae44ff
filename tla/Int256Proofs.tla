---------------------------- MODULE Int256Proofs ----------------------------
(***************************************************************************)
(* The arithmetic of Int256 is that of the integers, for every number and  *)
(* width of digits.                                                        *)
(***************************************************************************)
EXTENDS Int256, NatLemmas, SequenceTheorems

-----------------------------------------------------------------------------
(* The recursive definitions.                                              *)

(* The function by which a power is defined exists. *)
LEMMA PowerFunction ==
  ASSUME NEW b \in Int, NEW n \in Nat
  PROVE  \E p \in [0 .. n -> Int] :
           /\ p[0] = 1 /\ \A k \in 1 .. n : p[k] = b * p[k - 1]
           /\ Power(b, n) = p[n]
<1> DEFINE Body(p, k) == IF k = 0 THEN 1 ELSE b * p[k - 1]
           p == CHOOSE q : q = [k \in 0 .. n |-> Body(q, k)]
           step == [k \in 1 .. n |-> [x \in Int |-> b * x]]
<1>1. \E f : Recursive(f, n, Int, 1, step)
  <2>1. step \in [1 .. n -> [Int -> Int]]
    OBVIOUS
  <2>2. 1 \in Int
    OBVIOUS
  <2> HIDE DEF step
  <2> QED
    BY <2>1, <2>2, RecursionUpTo
<1>2. PICK f \in [0 .. n -> Int] : f[0] = 1 /\ \A i \in 1 .. n : f[i] = b * f[i - 1]
  <2>1. PICK f : Recursive(f, n, Int, 1, step)
    BY <1>1
  <2>2. ASSUME NEW i \in 1 .. n PROVE f[i] = b * f[i - 1]
    <3>1. i - 1 \in 0 .. n /\ f[i - 1] \in Int
      BY <2>1 DEF Recursive
    <3>2. step[i][f[i - 1]] = b * f[i - 1]
      BY <3>1
    <3> QED
      BY <2>1, <3>2 DEF Recursive
  <2> QED
    BY <2>1, <2>2 DEF Recursive
<1>3. \A k \in 0 .. n : f[k] = Body(f, k)
  BY <1>2
<1> HIDE DEF Body
<1>4. f = [k \in 0 .. n |-> Body(f, k)]
  BY <1>2, <1>3
<1>5. p = [k \in 0 .. n |-> Body(p, k)]
  BY <1>4
<1>6. Power(b, n) = p[n]
  BY DEF Power, Body
<1> HIDE DEF p
<1>7. \A k \in 0 .. n : p[k] = Body(p, k)
  BY <1>5
<1>8. p[0] = 1 /\ \A k \in 1 .. n : p[k] = b * p[k - 1]
  BY <1>7 DEF Body
<1>9. \A k \in 0 .. n : p[k] \in Int
  <2> DEFINE S == {k \in 0 .. n : p[k] \in Int}
  <2>1. 0 \in S /\ \A k \in 1 .. n : k - 1 \in S => k \in S
    BY <1>8
  <2> HIDE DEF S
  <2>2. \A k \in 0 .. n : k \in S
    BY <2>1, InductionUpTo
  <2> QED
    BY <2>2 DEF S
<1>10. p \in [0 .. n -> Int]
  <2>1. p = [k \in 0 .. n |-> p[k]]
    BY <1>5
  <2> QED
    BY <1>9, <2>1
<1> QED
  BY <1>6, <1>8, <1>10

(* Powers, recursively. *)
LEMMA PowerIs ==
  ASSUME NEW b \in Int, NEW n \in Nat
  PROVE  /\ Power(b, n) \in Int
         /\ Power(b, 0) = 1
         /\ Power(b, n + 1) = b * Power(b, n)
<1>1. PICK p \in [0 .. n -> Int] : /\ p[0] = 1 /\ \A k \in 1 .. n : p[k] = b * p[k - 1]
                                   /\ Power(b, n) = p[n]
  BY PowerFunction
<1>2. PICK q \in [0 .. n + 1 -> Int] :
        /\ q[0] = 1 /\ \A k \in 1 .. n + 1 : q[k] = b * q[k - 1]
        /\ Power(b, n + 1) = q[n + 1]
  <2>1. n + 1 \in Nat
    OBVIOUS
  <2> QED
    BY <2>1, PowerFunction
<1>3. q[n] = p[n]
  <2> DEFINE S == {k \in 0 .. n : q[k] = p[k]}
  <2>1. 0 \in S /\ \A k \in 1 .. n : k - 1 \in S => k \in S
    BY <1>1, <1>2
  <2> HIDE DEF S
  <2>2. \A k \in 0 .. n : k \in S
    BY <2>1, InductionUpTo
  <2> QED
    BY <2>2 DEF S
<1>4. PICK z \in [0 .. 0 -> Int] : z[0] = 1 /\ Power(b, 0) = z[0]
  BY PowerFunction
<1> QED
  BY <1>1, <1>2, <1>3, <1>4

(* A power of a positive number is positive. *)
LEMMA PowerPositive ==
  ASSUME NEW b \in Nat, b > 0, NEW n \in Nat
  PROVE  Power(b, n) \in Nat /\ Power(b, n) > 0
<1> DEFINE S == {k \in 0 .. n : Power(b, k) > 0}
<1>1. 0 \in S
  BY PowerIs
<1>2. ASSUME NEW k \in 1 .. n, k - 1 \in S PROVE k \in S
  <2>1. Power(b, (k - 1) + 1) = b * Power(b, k - 1) /\ Power(b, k - 1) \in Int
    BY PowerIs
  <2>2. (k - 1) + 1 = k
    OBVIOUS
  <2> DEFINE x == Power(b, k - 1)
  <2>3. x \in Int /\ x > 0 /\ Power(b, k) = b * x
    BY <1>2, <2>1, <2>2
  <2> HIDE DEF x
  <2>4. b * x > 0
    BY <2>3
  <2> QED
    BY <2>3, <2>4
<1> HIDE DEF S
<1>3. \A k \in 0 .. n : k \in S
  BY <1>1, <1>2, InductionUpTo
<1>4. n \in S /\ Power(b, n) \in Int
  BY <1>3, PowerIs
<1> QED
  BY <1>4 DEF S

(* A power of a sum of exponents. *)
LEMMA PowerSum ==
  ASSUME NEW b \in Int, NEW m \in Nat, NEW n \in Nat
  PROVE  Power(b, m + n) = Power(b, m) * Power(b, n)
<1> DEFINE S == {k \in 0 .. n : Power(b, m + k) = Power(b, m) * Power(b, k)}
<1>1. 0 \in S
  <2>1. Power(b, m) \in Int /\ Power(b, 0) = 1 /\ m + 0 = m
    BY PowerIs
  <2> QED
    BY <2>1
<1>2. ASSUME NEW k \in 1 .. n, k - 1 \in S PROVE k \in S
  <2> DEFINE x == Power(b, m)
             y == Power(b, k - 1)
  <2>1. x \in Int /\ y \in Int
    BY PowerIs
  <2>2. Power(b, (k - 1) + 1) = b * y /\ Power(b, (m + (k - 1)) + 1) = b * Power(b, m + (k - 1))
    BY PowerIs
  <2>3. (k - 1) + 1 = k /\ (m + (k - 1)) + 1 = m + k
    OBVIOUS
  <2>4. Power(b, m + (k - 1)) = x * y
    BY <1>2
  <2>5. Power(b, k) = b * y /\ Power(b, m + k) = b * (x * y)
    BY <2>2, <2>3, <2>4
  <2> HIDE DEF x, y
  <2>6. b * (x * y) = x * (b * y)
    BY <2>1
  <2> QED
    BY <2>5, <2>6 DEF x
<1> HIDE DEF S
<1>3. \A k \in 0 .. n : k \in S
  BY <1>1, <1>2, InductionUpTo
<1>4. n \in S
  BY <1>3
<1> QED
  BY <1>4 DEF S

(* A digit has at least four values. *)
LEMMA BaseIs == Base \in Nat /\ Base >= 4
<1> DEFINE n == BITS_PER_DIGIT - 2
<1>1. n \in Nat /\ BITS_PER_DIGIT = n + 2
  BY Int256Assumption
<1>2. Power(2, n) \in Nat /\ Power(2, n) > 0
  BY <1>1, PowerPositive
<1> HIDE DEF n
<1>3. Power(2, n + 1) = 2 * Power(2, n) /\ Power(2, (n + 1) + 1) = 2 * Power(2, n + 1)
  BY <1>1, PowerIs
<1>4. (n + 1) + 1 = n + 2
  BY <1>1
<1> QED
  BY <1>1, <1>2, <1>3, <1>4 DEF Base

-----------------------------------------------------------------------------
(* The integer that digits stand for.                                      *)

(* What a digit in position i + 1 counts. *)
Weight(i) == Power(Base, i)

(* Weights grow by the base. *)
LEMMA WeightIs ==
  ASSUME NEW n \in Nat
  PROVE  /\ Weight(n) \in Nat /\ Weight(n) > 0
         /\ Weight(0) = 1 /\ Weight(n + 1) = Base * Weight(n)
<1>1. Base \in Nat /\ Base > 0
  BY BaseIs
<1> QED
  BY <1>1, PowerIs, PowerPositive DEF Weight

(* The same, from the weight before. *)
LEMMA WeightBefore ==
  ASSUME NEW n \in Nat \ {0}
  PROVE  Weight(n - 1) \in Nat /\ Weight(n) = Base * Weight(n - 1)
<1>1. n - 1 \in Nat /\ (n - 1) + 1 = n
  OBVIOUS
<1> QED
  BY <1>1, WeightIs

(* The function by which the value of digits is defined exists. *)
LEMMA ValueFunction ==
  ASSUME NEW n \in Nat, NEW a, \A i \in 1 .. n : a[i] \in Int
  PROVE  \E v \in [0 .. n -> Int] :
           /\ v[0] = 0 /\ \A i \in 1 .. n : v[i] = v[i - 1] + a[i] * Weight(i - 1)
           /\ Value(a, n) = v[n]
<1> DEFINE w == [i \in 1 .. n |-> a[i] * Weight(i - 1)]
           Body(v, i) == IF i = 0 THEN 0 ELSE v[i - 1] + a[i] * Weight(i - 1)
           v == CHOOSE q : q = [i \in 0 .. n |-> Body(q, i)]
           step == [i \in 1 .. n |-> [x \in Int |-> x + w[i]]]
<1>1. w \in [1 .. n -> Int]
  <2> SUFFICES ASSUME NEW i \in 1 .. n PROVE a[i] * Weight(i - 1) \in Int
    OBVIOUS
  <2>1. Weight(i - 1) \in Int
    BY WeightIs
  <2> QED
    BY <2>1
<1>2. \A i \in 1 .. n : w[i] = a[i] * Weight(i - 1)
  OBVIOUS
<1> HIDE DEF w
<1>3. \E f : Recursive(f, n, Int, 0, step)
  <2>1. step \in [1 .. n -> [Int -> Int]]
    BY <1>1
  <2>2. 0 \in Int
    OBVIOUS
  <2> HIDE DEF step
  <2> QED
    BY <2>1, <2>2, RecursionUpTo
<1>4. PICK f \in [0 .. n -> Int] : f[0] = 0 /\ \A i \in 1 .. n : f[i] = f[i - 1] + w[i]
  <2>1. PICK f : Recursive(f, n, Int, 0, step)
    BY <1>3
  <2>2. ASSUME NEW i \in 1 .. n PROVE f[i] = f[i - 1] + w[i]
    <3>1. i - 1 \in 0 .. n /\ f[i - 1] \in Int
      BY <2>1 DEF Recursive
    <3>2. step[i][f[i - 1]] = f[i - 1] + w[i]
      BY <3>1
    <3> QED
      BY <2>1, <3>2 DEF Recursive
  <2> QED
    BY <2>1, <2>2 DEF Recursive
<1>5. \A i \in 0 .. n : f[i] = Body(f, i)
  BY <1>2, <1>4
<1> HIDE DEF Body
<1>6. f = [i \in 0 .. n |-> Body(f, i)]
  BY <1>4, <1>5
<1>7. v = [i \in 0 .. n |-> Body(v, i)]
  BY <1>6
<1>8. Value(a, n) = v[n]
  BY DEF Value, Body, Weight
<1> HIDE DEF v
<1>9. \A i \in 0 .. n : v[i] = Body(v, i)
  BY <1>7
<1>10. v[0] = 0 /\ \A i \in 1 .. n : v[i] = v[i - 1] + w[i]
  BY <1>2, <1>9 DEF Body
<1>11. \A i \in 0 .. n : v[i] \in Int
  <2> DEFINE S == {i \in 0 .. n : v[i] \in Int}
  <2>1. 0 \in S /\ \A i \in 1 .. n : i - 1 \in S => i \in S
    BY <1>1, <1>10
  <2> HIDE DEF S
  <2>2. \A i \in 0 .. n : i \in S
    BY <2>1, InductionUpTo
  <2> QED
    BY <2>2 DEF S
<1>12. v \in [0 .. n -> Int]
  <2>1. v = [i \in 0 .. n |-> v[i]]
    BY <1>7
  <2> QED
    BY <1>11, <2>1
<1> QED
  BY <1>2, <1>8, <1>10, <1>12

(* The value, digit by digit. *)
LEMMA ValueIs ==
  ASSUME NEW n \in Nat, NEW a, \A i \in 1 .. n : a[i] \in Int
  PROVE  /\ Value(a, n) \in Int
         /\ Value(a, 0) = 0
         /\ \A m \in 1 .. n : Value(a, m) = Value(a, m - 1) + a[m] * Weight(m - 1)
<1>1. PICK v \in [0 .. n -> Int] :
        /\ v[0] = 0 /\ \A i \in 1 .. n : v[i] = v[i - 1] + a[i] * Weight(i - 1)
        /\ Value(a, n) = v[n]
  BY ValueFunction
<1>2. ASSUME NEW m \in 0 .. n PROVE Value(a, m) = v[m]
  <2>1. m \in Nat /\ \A i \in 1 .. m : a[i] \in Int
    OBVIOUS
  <2>2. PICK u \in [0 .. m -> Int] :
          /\ u[0] = 0 /\ \A i \in 1 .. m : u[i] = u[i - 1] + a[i] * Weight(i - 1)
          /\ Value(a, m) = u[m]
    BY <2>1, ValueFunction
  <2> DEFINE S == {i \in 0 .. m : u[i] = v[i]}
  <2>3. 0 \in S
    BY <1>1, <2>2
  <2>4. ASSUME NEW i \in 1 .. m, i - 1 \in S PROVE i \in S
    <3>1. u[i - 1] = v[i - 1]
      BY <2>4
    <3>2. u[i] = u[i - 1] + a[i] * Weight(i - 1)
      BY <2>2
    <3>3. v[i] = v[i - 1] + a[i] * Weight(i - 1)
      BY <1>1
    <3> QED
      BY <3>1, <3>2, <3>3
  <2> HIDE DEF S
  <2>5. \A i \in 0 .. m : i \in S
    BY <2>1, <2>3, <2>4, InductionUpTo
  <2>6. m \in S
    BY <2>1, <2>5
  <2> QED
    BY <2>2, <2>6 DEF S
<1>3. ASSUME NEW m \in 1 .. n PROVE Value(a, m) = Value(a, m - 1) + a[m] * Weight(m - 1)
  <2>1. m \in 0 .. n /\ m - 1 \in 0 .. n
    OBVIOUS
  <2> QED
    BY <1>1, <1>2, <2>1
<1>4. Value(a, 0) = 0
  BY <1>1, <1>2
<1> QED
  BY <1>1, <1>3, <1>4

(* The value is linear in the digits. *)
LEMMA ValueLinear ==
  ASSUME NEW n \in Nat, NEW a, NEW b, NEW c, NEW k \in Int,
         \A i \in 1 .. n : a[i] \in Int /\ b[i] \in Int /\ c[i] = a[i] + k * b[i]
  PROVE  Value(c, n) = Value(a, n) + k * Value(b, n)
<1> DEFINE S == {m \in 0 .. n : Value(c, m) = Value(a, m) + k * Value(b, m)}
<1>0. \A i \in 1 .. n : c[i] \in Int
  OBVIOUS
<1>1. 0 \in S
  <2>1. Value(c, 0) = 0 /\ Value(a, 0) = 0 /\ Value(b, 0) = 0
    BY <1>0, ValueIs
  <2> QED
    BY <2>1
<1>2. ASSUME NEW m \in 1 .. n, m - 1 \in S PROVE m \in S
  <2> DEFINE w == Weight(m - 1)
             x == Value(a, m - 1)
             y == Value(b, m - 1)
  <2>1. w \in Int
    BY WeightIs
  <2>2. /\ x \in Int /\ y \in Int
        /\ Value(c, m - 1) = x + k * y
    <3>1. m - 1 \in Nat /\ \A i \in 1 .. m - 1 : a[i] \in Int /\ b[i] \in Int
      OBVIOUS
    <3> QED
      BY <1>2, <3>1, ValueIs
  <2>3. /\ Value(a, m) = x + a[m] * w /\ Value(b, m) = y + b[m] * w
        /\ Value(c, m) = Value(c, m - 1) + c[m] * w
    BY <1>0, ValueIs
  <2> HIDE DEF w, x, y
  <2>4. a[m] \in Int /\ b[m] \in Int /\ c[m] = a[m] + k * b[m]
    OBVIOUS
  <2>5. (x + k * y) + (a[m] + k * b[m]) * w = (x + a[m] * w) + k * (y + b[m] * w)
    BY <2>1, <2>2, <2>4
  <2> QED
    BY <2>2, <2>3, <2>4, <2>5
<1> HIDE DEF S
<1>3. \A m \in 0 .. n : m \in S
  BY <1>1, <1>2, InductionUpTo
<1>4. n \in S
  BY <1>3
<1> QED
  BY <1>4 DEF S

(* It depends on the digits only. *)
LEMMA ValueSame ==
  ASSUME NEW n \in Nat, NEW a, NEW b, \A i \in 1 .. n : a[i] \in Int /\ b[i] = a[i]
  PROVE  Value(b, n) = Value(a, n)
<1>1. \A i \in 1 .. n : a[i] \in Int /\ a[i] \in Int /\ b[i] = a[i] + 0 * a[i]
  OBVIOUS
<1>2. Value(b, n) = Value(a, n) + 0 * Value(a, n)
  BY <1>1, ValueLinear
<1>3. Value(a, n) \in Int
  BY ValueIs
<1> QED
  BY <1>2, <1>3

(* Digits stand for a natural number below the weight of the next one. *)
LEMMA ValueBound ==
  ASSUME NEW n \in Nat, NEW a, \A i \in 1 .. n : a[i] \in 0 .. Base - 1
  PROVE  Value(a, n) \in 0 .. Weight(n) - 1
<1> DEFINE S == {m \in 0 .. n : Value(a, m) \in 0 .. Weight(m) - 1}
<1>0. \A i \in 1 .. n : a[i] \in Int
  BY BaseIs
<1>1. 0 \in S
  <2>1. Value(a, 0) = 0 /\ Weight(0) = 1
    BY <1>0, ValueIs, WeightIs
  <2> QED
    BY <2>1
<1>2. ASSUME NEW m \in 1 .. n, m - 1 \in S PROVE m \in S
  <2> DEFINE w == Weight(m - 1)
             x == Value(a, m - 1)
             d == a[m]
  <2>1. w \in Nat /\ w > 0 /\ Weight((m - 1) + 1) = Base * w /\ (m - 1) + 1 = m
    BY WeightIs
  <2>2. x \in 0 .. w - 1
    BY <1>2
  <2>3. Value(a, m) = x + d * w
    BY <1>0, ValueIs
  <2>4. d \in 0 .. Base - 1 /\ Base \in Nat
    BY BaseIs
  <2> HIDE DEF w, x, d
  <2>5. d * w >= 0 /\ d * w <= (Base - 1) * w /\ (Base - 1) * w = Base * w - w /\ d * w \in Int
    BY <2>1, <2>4
  <2>6. Base * w \in Int
    BY <2>1, <2>4
  <2> DEFINE p == d * w
             q == Base * w
  <2>7. p \in Int /\ q \in Int /\ p >= 0 /\ p <= q - w
    BY <2>5, <2>6
  <2>8. Value(a, m) = x + p /\ Weight(m) = q
    BY <2>1, <2>3
  <2> HIDE DEF p, q
  <2>9. x + p \in 0 .. q - 1
    BY <2>1, <2>2, <2>7
  <2> QED
    BY <2>8, <2>9
<1> HIDE DEF S
<1>3. \A m \in 0 .. n : m \in S
  BY <1>1, <1>2, InductionUpTo
<1>4. n \in S
  BY <1>3
<1> QED
  BY <1>4 DEF S

(* The value of the first m digits and of those after them. *)
LEMMA ValueSplit ==
  ASSUME NEW m \in Nat, NEW n \in Nat, NEW a, \A i \in 1 .. m + n : a[i] \in Int,
         NEW b, \A i \in 1 .. n : b[i] = a[m + i]
  PROVE  Value(a, m + n) = Value(a, m) + Weight(m) * Value(b, n)
<1> DEFINE S == {k \in 0 .. n : Value(a, m + k) = Value(a, m) + Weight(m) * Value(b, k)}
<1>0. \A i \in 1 .. n : b[i] \in Int
  OBVIOUS
<1>1. Value(a, m) \in Int /\ Weight(m) \in Int
  <2>1. \A i \in 1 .. m : a[i] \in Int
    OBVIOUS
  <2> QED
    BY <2>1, ValueIs, WeightIs
<1>2. 0 \in S
  <2>1. Value(b, 0) = 0 /\ m + 0 = m
    BY <1>0, ValueIs
  <2> QED
    BY <1>1, <2>1
<1>3. ASSUME NEW k \in 1 .. n, k - 1 \in S PROVE k \in S
  <2> DEFINE u == Weight(m)
             w == Weight(k - 1)
             x == Value(a, m)
             y == Value(b, k - 1)
             d == b[k]
  <2>1. u \in Int /\ w \in Int /\ x \in Int /\ d \in Int /\ y \in Int
    <3>1. k - 1 \in Nat /\ \A i \in 1 .. k - 1 : b[i] \in Int
      BY <1>0
    <3> QED
      BY <1>0, <1>1, <3>1, WeightIs, ValueIs
  <2>2. Value(b, k) = y + d * w
    BY <1>0, ValueIs
  <2>3. Weight(m + (k - 1)) = u * w
    BY PowerSum, BaseIs DEF Weight
  <2>4. Value(a, m + k) = Value(a, (m + k) - 1) + a[m + k] * Weight((m + k) - 1)
    <3>1. m + n \in Nat /\ m + k \in 1 .. m + n
      OBVIOUS
    <3> QED
      BY <3>1, ValueIs
  <2>5. (m + k) - 1 = m + (k - 1) /\ a[m + k] = d
    OBVIOUS
  <2>6. Value(a, m + (k - 1)) = x + u * y
    BY <1>3
  <2>7. Value(a, m + k) = (x + u * y) + d * (u * w)
    BY <2>3, <2>4, <2>5, <2>6
  <2> HIDE DEF u, w, x, y, d
  <2>8. (x + u * y) + d * (u * w) = x + u * (y + d * w)
    BY <2>1
  <2> QED
    BY <2>2, <2>7, <2>8 DEF x, u
<1> HIDE DEF S
<1>4. \A k \in 0 .. n : k \in S
  BY <1>2, <1>3, InductionUpTo
<1>5. n \in S
  BY <1>4
<1> QED
  BY <1>5 DEF S

-----------------------------------------------------------------------------
(* The loop that passes on carries and borrows.                            *)

(* The carries exist. *)
LEMMA CarryFunction ==
  ASSUME NEW sums, \A i \in Positions : sums[i] \in Int
  PROVE  \E c \in [0 .. NDIGITS -> Int] :
           /\ c[0] = 0 /\ \A i \in Positions : c[i] = (c[i - 1] + sums[i]) \div Base
           /\ Propagate(sums) = [digits |-> [i \in Positions |-> (c[i - 1] + sums[i]) % Base],
                                 out |-> c[NDIGITS]]
<1> DEFINE n == NDIGITS
           Body(v, i) == IF i = 0 THEN 0 ELSE (v[i - 1] + sums[i]) \div Base
           v == CHOOSE q : q = [i \in 0 .. n |-> Body(q, i)]
           step == [i \in 1 .. n |-> [x \in Int |-> (x + sums[i]) \div Base]]
<1>1. n \in Nat /\ Positions = 1 .. n /\ Base \in Nat /\ Base > 0
  BY Int256Assumption, BaseIs DEF Positions
<1>2. \E f : Recursive(f, n, Int, 0, step)
  <2>1. step \in [1 .. n -> [Int -> Int]]
    <3>1. ASSUME NEW i \in 1 .. n, NEW x \in Int PROVE (x + sums[i]) \div Base \in Int
      BY <1>1, Division
    <3> QED
      BY <3>1
  <2>2. 0 \in Int
    OBVIOUS
  <2> HIDE DEF step, n
  <2> QED
    BY <1>1, <2>1, <2>2, RecursionUpTo
<1>3. PICK f \in [0 .. n -> Int] :
        f[0] = 0 /\ \A i \in 1 .. n : f[i] = (f[i - 1] + sums[i]) \div Base
  <2>1. PICK f : Recursive(f, n, Int, 0, step)
    BY <1>2
  <2>2. ASSUME NEW i \in 1 .. n PROVE f[i] = (f[i - 1] + sums[i]) \div Base
    <3>1. i - 1 \in 0 .. n /\ f[i - 1] \in Int
      BY <1>1, <2>1 DEF Recursive
    <3>2. step[i][f[i - 1]] = (f[i - 1] + sums[i]) \div Base
      BY <3>1
    <3> QED
      BY <2>1, <3>2 DEF Recursive
  <2> QED
    BY <2>1, <2>2 DEF Recursive
<1>4. \A i \in 0 .. n : f[i] = Body(f, i)
  BY <1>1, <1>3
<1>5. Propagate(sums) = [digits |-> [i \in Positions |-> (v[i - 1] + sums[i]) % Base],
                         out |-> v[n]]
  BY DEF Propagate
<1> HIDE DEF Body, n
<1>6. f = [i \in 0 .. n |-> Body(f, i)]
  BY <1>3, <1>4
<1>7. v = [i \in 0 .. n |-> Body(v, i)]
  BY <1>6
<1> HIDE DEF v
<1>8. \A i \in 0 .. n : v[i] = Body(v, i)
  BY <1>7
<1>9. v[0] = 0 /\ \A i \in 1 .. n : v[i] = (v[i - 1] + sums[i]) \div Base
  BY <1>1, <1>8 DEF Body
<1>10. \A i \in 0 .. n : v[i] \in Int
  <2> DEFINE S == {i \in 0 .. n : v[i] \in Int}
  <2>1. 0 \in S
    BY <1>1, <1>9
  <2>2. ASSUME NEW i \in 1 .. n, i - 1 \in S PROVE i \in S
    <3>1. v[i - 1] + sums[i] \in Int
      BY <1>1, <2>2
    <3>2. (v[i - 1] + sums[i]) \div Base \in Int
      BY <1>1, <3>1, Division
    <3> QED
      BY <1>1, <1>9, <3>2
  <2> HIDE DEF S
  <2>3. \A i \in 0 .. n : i \in S
    BY <1>1, <2>1, <2>2, InductionUpTo
  <2> QED
    BY <2>3 DEF S
<1>11. v \in [0 .. n -> Int]
  <2>1. v = [i \in 0 .. n |-> v[i]]
    BY <1>7
  <2> QED
    BY <1>10, <2>1
<1> QED
  BY <1>1, <1>5, <1>9, <1>11 DEF n

(* The account of one digit. *)
LEMMA CarryIdentity ==
  ASSUME NEW x \in Int, NEW y \in Int, NEW w \in Int, NEW e \in Int, NEW s \in Int,
         NEW b \in Int, NEW k \in Int, NEW base \in Int,
         b + s = k * base + e, x + b * w = y
  PROVE  (x + e * w) + k * (base * w) = y + s * w
<1>1. (b + s) * w = (k * base + e) * w
  OBVIOUS
<1>2. (b + s) * w = b * w + s * w /\ (k * base + e) * w = k * (base * w) + e * w
  OBVIOUS
<1> QED
  BY <1>1, <1>2

(* What the loop leaves are digits; with the carry, they stand for the same *)
(* integer as the sums.                                                     *)
LEMMA PropagateIs ==
  ASSUME NEW sums, \A i \in Positions : sums[i] \in Int
  PROVE  LET p == Propagate(sums)
         IN  /\ p.digits \in Ints /\ p.out \in Int
             /\ ValueOf(p.digits) + p.out * Weight(NDIGITS) = ValueOf(sums)
<1> DEFINE n == NDIGITS
           d == Propagate(sums).digits
<1>1. n \in Nat /\ Positions = 1 .. n /\ Base \in Nat /\ Base > 0
  BY Int256Assumption, BaseIs DEF Positions
<1>2. PICK c \in [0 .. n -> Int] :
        /\ c[0] = 0 /\ \A i \in Positions : c[i] = (c[i - 1] + sums[i]) \div Base
        /\ Propagate(sums) = [digits |-> [i \in Positions |-> (c[i - 1] + sums[i]) % Base],
                              out |-> c[NDIGITS]]
  BY CarryFunction
<1>3. ASSUME NEW i \in 1 .. n
      PROVE  /\ d[i] \in 0 .. Base - 1
             /\ c[i - 1] \in Int /\ c[i] \in Int
             /\ c[i - 1] + sums[i] = c[i] * Base + d[i]
  <2>1. c[i - 1] \in Int /\ c[i] \in Int /\ c[i - 1] + sums[i] \in Int
    BY <1>1, <1>2
  <2>2. c[i] = (c[i - 1] + sums[i]) \div Base /\ d[i] = (c[i - 1] + sums[i]) % Base
    BY <1>1, <1>2
  <2> QED
    BY <1>1, <2>1, <2>2, Division
<1>4. d = [i \in Positions |-> d[i]] /\ Propagate(sums).out = c[n]
  BY <1>2
<1> HIDE DEF d, n
<1>5. d \in Ints /\ c[n] \in Int
  <2>1. \A i \in Positions : d[i] \in 0 .. Base - 1
    BY <1>1, <1>3
  <2>2. d \in [Positions -> 0 .. Base - 1]
    BY <1>4, <2>1
  <2> QED
    BY <1>1, <2>2 DEF Ints
<1> DEFINE S == {m \in 0 .. n : Value(d, m) + c[m] * Weight(m) = Value(sums, m)}
<1>6. \A i \in 1 .. n : d[i] \in Int /\ sums[i] \in Int
  BY <1>1, <1>3
<1>7. 0 \in S
  <2>1. Value(d, 0) = 0 /\ Value(sums, 0) = 0 /\ Weight(0) = 1
    BY <1>1, <1>6, ValueIs, WeightIs
  <2> QED
    BY <1>1, <1>2, <2>1
<1>8. ASSUME NEW m \in 1 .. n, m - 1 \in S PROVE m \in S
  <2> DEFINE w == Weight(m - 1)
             x == Value(d, m - 1)
             y == Value(sums, m - 1)
             e == d[m]
             s == sums[m]
             b == c[m - 1]
             k == c[m]
  <2>0. m - 1 \in Nat /\ (m - 1) + 1 = m
    BY <1>1
  <2>1. w \in Int /\ Weight(m) = Base * w
    <3>1. m \in Nat \ {0}
      BY <1>1
    <3> QED
      BY <3>1, WeightBefore
  <2>2. e \in Int /\ s \in Int /\ b \in Int /\ k \in Int /\ b + s = k * Base + e
    BY <1>3, <1>6
  <2>3. x \in Int /\ y \in Int /\ x + b * w = y
    <3>1. m - 1 \in Nat /\ \A i \in 1 .. m - 1 : d[i] \in Int /\ sums[i] \in Int
      BY <1>1, <1>6
    <3> QED
      BY <1>8, <3>1, ValueIs
  <2>4. Value(d, m) = x + e * w /\ Value(sums, m) = y + s * w
    BY <1>1, <1>6, ValueIs
  <2> HIDE DEF w, x, y, e, s, b, k
  <2>5. (x + e * w) + k * (Base * w) = y + s * w
    BY <1>1, <2>1, <2>2, <2>3, CarryIdentity
  <2>6. Value(d, m) + k * Weight(m) = Value(sums, m)
    BY <2>1, <2>4, <2>5
  <2> QED
    BY <2>6 DEF k
<1> HIDE DEF S
<1>9. \A m \in 0 .. n : m \in S
  BY <1>1, <1>7, <1>8, InductionUpTo
<1>10. n \in S
  BY <1>1, <1>9
<1> QED
  BY <1>4, <1>5, <1>10 DEF S, ValueOf, d, n

-----------------------------------------------------------------------------
(* Additions and subtractions.                                             *)

(* One more than the greatest integer. *)
Radix == Weight(NDIGITS)

(* It is positive. *)
LEMMA RadixIs == Radix \in Nat /\ Radix > 0
  BY Int256Assumption, WeightIs DEF Radix

(* An integer lies below the radix. *)
LEMMA IntsAre ==
  ASSUME NEW a \in Ints
  PROVE  ValueOf(a) \in 0 .. Radix - 1 /\ \A i \in Positions : a[i] \in Int
<1>1. \A i \in Positions : a[i] \in 0 .. Base - 1
  BY DEF Ints
<1>2. NDIGITS \in Nat /\ Positions = 1 .. NDIGITS
  BY Int256Assumption DEF Positions
<1> QED
  BY <1>1, <1>2, BaseIs, ValueBound DEF ValueOf, Radix

(* What the loop makes of a + k * b: remainder and quotient. *)
LEMMA PropagateScaled ==
  ASSUME NEW a, NEW b, NEW k \in Int, \A i \in Positions : a[i] \in Int /\ b[i] \in Int,
         NEW sums, \A i \in Positions : sums[i] = a[i] + k * b[i]
  PROVE  LET p == Propagate(sums)
             x == ValueOf(a) + k * ValueOf(b)
         IN  /\ ValueOf(a) \in Int /\ ValueOf(b) \in Int /\ x \in Int
             /\ p.digits \in Ints
             /\ ValueOf(p.digits) = x % Radix /\ p.out = x \div Radix
<1> DEFINE p == Propagate(sums)
           x == ValueOf(a) + k * ValueOf(b)
<1>1. NDIGITS \in Nat /\ Positions = 1 .. NDIGITS
  BY Int256Assumption DEF Positions
<1>2. \A i \in Positions : sums[i] \in Int
  OBVIOUS
<1>3. p.digits \in Ints /\ p.out \in Int /\ ValueOf(p.digits) + p.out * Radix = ValueOf(sums)
  BY <1>2, PropagateIs DEF Radix
<1>4. ValueOf(sums) = x
  BY <1>1, ValueLinear DEF ValueOf
<1>5. ValueOf(p.digits) \in 0 .. Radix - 1
  BY <1>3, IntsAre
<1>6. ValueOf(a) \in Int /\ ValueOf(b) \in Int
  BY <1>1, ValueIs DEF ValueOf
<1>7. x \in Int
  <2> DEFINE y == ValueOf(a)
             z == ValueOf(b)
  <2>1. y \in Int /\ z \in Int
    BY <1>6
  <2> HIDE DEF y, z
  <2>2. y + k * z \in Int
    BY <2>1
  <2> QED
    BY <2>2 DEF y, z
<1> HIDE DEF p, x
<1> DEFINE v == ValueOf(p.digits)
           q == p.out
<1>8. v \in 0 .. Radix - 1 /\ q \in Int /\ x = q * Radix + v
  <2>1. v + q * Radix = x
    BY <1>3, <1>4
  <2>2. v \in Int /\ q \in Int /\ q * Radix \in Int
    BY <1>3, <1>5, RadixIs
  <2> HIDE DEF v, q
  <2> QED
    BY <1>3, <1>5, <2>1, <2>2 DEF v, q
<1> HIDE DEF v, q
<1>9. x \div Radix = q /\ x % Radix = v
  BY <1>7, <1>8, RadixIs, DivisionUnique
<1> QED
  BY <1>3, <1>6, <1>7, <1>9 DEF p, x, v, q

(* Quotients near zero. *)
LEMMA SmallQuotients ==
  ASSUME NEW x \in Int, NEW m \in Nat, m > 0
  PROVE  /\ x \in 0 .. m - 1 => x \div m = 0 /\ x % m = x
         /\ x \in m .. 2 * m - 1 => x \div m = 1 /\ x % m = x - m
         /\ x \in -m .. -1 => x \div m = -1 /\ x % m = x + m
<1>1. ASSUME x \in 0 .. m - 1 PROVE x \div m = 0 /\ x % m = x
  <2>1. x = 0 * m + x
    OBVIOUS
  <2> QED
    BY <1>1, <2>1, DivisionUnique
<1>2. ASSUME x \in m .. 2 * m - 1 PROVE x \div m = 1 /\ x % m = x - m
  <2>1. x = 1 * m + (x - m) /\ x - m \in 0 .. m - 1
    BY <1>2
  <2> QED
    BY <2>1, DivisionUnique
<1>3. ASSUME x \in -m .. -1 PROVE x \div m = -1 /\ x % m = x + m
  <2>1. x = (-1) * m + (x + m) /\ x + m \in 0 .. m - 1
    BY <1>3
  <2>2. -1 \in Int
    OBVIOUS
  <2> QED
    BY <2>1, <2>2, DivisionUnique
<1> QED
  BY <1>1, <1>2, <1>3

(* Int256::add returns the sum and its carry. *)
THEOREM AddIs ==
  ASSUME NEW a \in Ints, NEW b \in Ints
  PROVE  LET s == add(a, b)
         IN  /\ s.digits \in Ints /\ s.out \in 0 .. 1
             /\ ValueOf(s.digits) + s.out * Radix = ValueOf(a) + ValueOf(b)
<1> DEFINE x == ValueOf(a)
           y == ValueOf(b)
           s == add(a, b)
           sums == [i \in Positions |-> a[i] + b[i]]
<1>1. x \in 0 .. Radix - 1 /\ y \in 0 .. Radix - 1 /\ Radix \in Nat /\ Radix > 0
  BY IntsAre, RadixIs
<1>2. \A i \in Positions : a[i] \in Int /\ b[i] \in Int /\ sums[i] = a[i] + 1 * b[i]
  BY IntsAre
<1>3. s = Propagate(sums)
  BY DEF add
<1> HIDE DEF s, sums
<1>4. /\ s.digits \in Ints
      /\ ValueOf(s.digits) = (x + 1 * y) % Radix /\ s.out = (x + 1 * y) \div Radix
  BY <1>2, <1>3, PropagateScaled
<1> HIDE DEF x, y
<1>5. x + 1 * y = x + y /\ x + y \in 0 .. 2 * Radix - 1
  BY <1>1
<1>6. x + y \in 0 .. Radix - 1 \/ x + y \in Radix .. 2 * Radix - 1
  BY <1>1
<1> QED
  BY <1>1, <1>4, <1>5, <1>6, SmallQuotients DEF s, x, y

(* Int256::sub returns the difference and, if it is negative, a borrow. *)
THEOREM SubIs ==
  ASSUME NEW a \in Ints, NEW b \in Ints
  PROVE  LET d == sub(a, b)
         IN  /\ d.digits \in Ints
             /\ d.out = IF ValueOf(a) < ValueOf(b) THEN -1 ELSE 0
             /\ ValueOf(d.digits) + d.out * Radix = ValueOf(a) - ValueOf(b)
<1> DEFINE x == ValueOf(a)
           y == ValueOf(b)
           s == sub(a, b)
           sums == [i \in Positions |-> a[i] - b[i]]
<1>1. x \in 0 .. Radix - 1 /\ y \in 0 .. Radix - 1 /\ Radix \in Nat /\ Radix > 0
  BY IntsAre, RadixIs
<1>2. \A i \in Positions : a[i] \in Int /\ b[i] \in Int /\ sums[i] = a[i] + (-1) * b[i]
  BY IntsAre
<1>3. s = Propagate(sums) /\ -1 \in Int
  BY DEF sub
<1> HIDE DEF s, sums
<1>4. /\ s.digits \in Ints
      /\ ValueOf(s.digits) = (x + (-1) * y) % Radix /\ s.out = (x + (-1) * y) \div Radix
  BY <1>2, <1>3, PropagateScaled
<1> HIDE DEF x, y
<1>5. x + (-1) * y = x - y /\ x - y \in Int
  BY <1>1
<1>6. /\ x < y => x - y \in -Radix .. -1
      /\ ~(x < y) => x - y \in 0 .. Radix - 1
  BY <1>1
<1>7. CASE x < y
  <2>1. s.out = -1 /\ ValueOf(s.digits) = (x - y) + Radix
    BY <1>1, <1>4, <1>5, <1>6, <1>7, SmallQuotients
  <2> QED
    BY <1>1, <1>4, <1>7, <2>1 DEF s, x, y
<1>8. CASE ~(x < y)
  <2>1. s.out = 0 /\ ValueOf(s.digits) = x - y
    BY <1>1, <1>4, <1>5, <1>6, <1>8, SmallQuotients
  <2> QED
    BY <1>1, <1>4, <1>8, <2>1 DEF s, x, y
<1> QED
  BY <1>7, <1>8

(* The constant-time comparison compares. *)
THEOREM LessThanIs ==
  ASSUME NEW a \in Ints, NEW b \in Ints
  PROVE  ct_lt(a, b) <=> ValueOf(a) < ValueOf(b)
BY SubIs DEF ct_lt

(* The borrow or carry of a multiple that is added if a choice is made. *)
LEMMA Conditional ==
  ASSUME NEW a \in Ints, NEW m \in Ints, NEW choice \in BOOLEAN, NEW sign \in {-1, 1},
         NEW sums, \A i \in Positions : sums[i] = a[i] + (IF choice THEN sign * m[i] ELSE 0)
  PROVE  LET p == Propagate(sums)
             x == ValueOf(a) + (IF choice THEN sign * ValueOf(m) ELSE 0)
         IN  /\ p.digits \in Ints /\ x \in Int
             /\ ValueOf(p.digits) = x % Radix /\ p.out = x \div Radix
<1> DEFINE k == IF choice THEN sign ELSE 0
           p == Propagate(sums)
           x == ValueOf(a) + (IF choice THEN sign * ValueOf(m) ELSE 0)
<1>1. k \in Int
  OBVIOUS
<1>2. ASSUME NEW i \in Positions
      PROVE  a[i] \in Int /\ m[i] \in Int /\ sums[i] = a[i] + k * m[i]
  <2>1. a[i] \in Int /\ m[i] \in Int
    BY IntsAre
  <2>2. 0 * m[i] = 0
    BY <2>1
  <2> QED
    BY <2>1, <2>2
<1>3. ValueOf(a) \in Int /\ ValueOf(m) \in Int
  BY IntsAre, RadixIs
<1>4. x = ValueOf(a) + k * ValueOf(m)
  <2>1. 0 * ValueOf(m) = 0
    BY <1>3
  <2> QED
    BY <1>3, <2>1
<1> HIDE DEF k, x
<1> QED
  BY <1>1, <1>2, <1>4, PropagateScaled DEF x

(* sub_conditional and add_conditional without a top digit, as modd and the *)
(* vartime operations use them.                                             *)
LEMMA SubConditional ==
  ASSUME NEW a \in Ints, NEW m \in Ints
  PROVE  LET d == sub_conditional(a, m, 0, TRUE)
             x == ValueOf(a) - ValueOf(m)
         IN  /\ d.digits \in Ints /\ d.negative \in BOOLEAN
             /\ d.negative <=> x < 0
             /\ ValueOf(d.digits) = IF x < 0 THEN x + Radix ELSE x
<1> DEFINE sums == [i \in Positions |-> a[i] - (IF TRUE THEN m[i] ELSE 0)]
           d == sub_conditional(a, m, 0, TRUE)
           p == Propagate(sums)
           u == ValueOf(a)
           v == ValueOf(m)
<1>1. u \in 0 .. Radix - 1 /\ v \in 0 .. Radix - 1 /\ Radix \in Nat /\ Radix > 0
  BY IntsAre, RadixIs
<1>2. \A i \in Positions : sums[i] = a[i] + (IF TRUE THEN (-1) * m[i] ELSE 0)
  BY IntsAre
<1>3. d = [digits |-> p.digits, negative |-> (p.out + 0) % Base = Base - 1]
  BY DEF sub_conditional
<1> HIDE DEF sums, d
<1>4. d.digits = p.digits /\ d.negative = ((p.out + 0) % Base = Base - 1)
  <2> HIDE DEF p
  <2> QED
    BY <1>3, Zenon
<1>5. TRUE \in BOOLEAN /\ -1 \in {-1, 1}
  OBVIOUS
<1>6. /\ p.digits \in Ints
      /\ ValueOf(p.digits) = (u + (-1) * v) % Radix /\ p.out = (u + (-1) * v) \div Radix
  BY <1>2, <1>5, Conditional
<1> HIDE DEF u, v, p
<1>7. u + (-1) * v = u - v /\ u - v \in Int
  BY <1>1
<1>8. CASE u - v < 0
  <2>1. u - v \in -Radix .. -1
    BY <1>1, <1>8
  <2>2. p.out = -1 /\ ValueOf(p.digits) = (u - v) + Radix
    BY <1>1, <1>6, <1>7, <2>1, SmallQuotients
  <2>3. (-1) % Base = Base - 1
    BY BaseIs, SmallQuotients
  <2>4. (p.out + 0) % Base = Base - 1
    BY <2>2, <2>3
  <2>5. d.negative = TRUE
    BY <1>4, <2>4, Zenon
  <2> QED
    BY <1>4, <1>6, <1>8, <2>2, <2>5 DEF d, u, v
<1>9. CASE ~(u - v < 0)
  <2>1. u - v \in 0 .. Radix - 1
    BY <1>1, <1>9
  <2>2. p.out = 0 /\ ValueOf(p.digits) = u - v
    BY <1>1, <1>6, <1>7, <2>1, SmallQuotients
  <2>3. 0 % Base = 0 /\ Base - 1 # 0
    BY BaseIs, SmallQuotients
  <2>4. ~((p.out + 0) % Base = Base - 1)
    BY <2>2, <2>3, BaseIs
  <2>5. d.negative = FALSE
    BY <1>4, <2>4, Zenon
  <2> QED
    BY <1>4, <1>6, <1>9, <2>2, <2>5 DEF d, u, v
<1> QED
  BY <1>8, <1>9

(* The same for an addition. *)
LEMMA AddConditional ==
  ASSUME NEW a \in Ints, NEW m \in Ints, NEW choice \in BOOLEAN
  PROVE  LET d == add_conditional(a, m, 0, choice).digits
             x == ValueOf(a) + (IF choice THEN ValueOf(m) ELSE 0)
         IN  d \in Ints /\ x \in Int /\ ValueOf(d) = x % Radix
<1> DEFINE sums == [i \in Positions |-> a[i] + (IF choice THEN m[i] ELSE 0)]
<1>1. \A i \in Positions : sums[i] = a[i] + (IF choice THEN 1 * m[i] ELSE 0)
  BY IntsAre
<1>2. add_conditional(a, m, 0, choice).digits = Propagate(sums).digits
  BY DEF add_conditional
<1> HIDE DEF sums
<1>3. 1 \in {-1, 1} /\ ValueOf(m) \in Int /\ 1 * ValueOf(m) = ValueOf(m)
  BY IntsAre, RadixIs
<1> QED
  BY <1>1, <1>2, <1>3, Conditional

(* modd reduces every integer, if the modulus has its most significant bit  *)
(* set.                                                                     *)
THEOREM ModdIs ==
  ASSUME NEW a \in Ints, NEW m \in Ints, 2 * ValueOf(m) >= Radix
  PROVE  modd(a, m) \in Ints /\ ValueOf(modd(a, m)) = ValueOf(a) % ValueOf(m)
<1> DEFINE less == sub_conditional(a, m, 0, TRUE)
           r == modd(a, m)
           u == ValueOf(a)
           v == ValueOf(m)
           w == ValueOf(less.digits)
<1>1. /\ u \in 0 .. Radix - 1 /\ v \in 0 .. Radix - 1 /\ Radix \in Nat /\ Radix > 0
      /\ 2 * v >= Radix
  BY IntsAre, RadixIs
<1>2. /\ less.digits \in Ints /\ less.negative \in BOOLEAN
      /\ less.negative <=> u - v < 0
      /\ w = IF u - v < 0 THEN (u - v) + Radix ELSE u - v
  BY SubConditional
<1>3. r = add_conditional(less.digits, m, 0, less.negative).digits
  BY DEF modd
<1> HIDE DEF less, r
<1>4. r \in Ints /\ ValueOf(r) = (w + (IF less.negative THEN v ELSE 0)) % Radix
  BY <1>2, <1>3, AddConditional
<1> HIDE DEF u, v, w
<1>5. CASE u < v
  <2>1. w + (IF less.negative THEN v ELSE 0) = u + Radix /\ u + Radix \in Radix .. 2 * Radix - 1
    BY <1>1, <1>2, <1>5
  <2>2. ValueOf(r) = u
    BY <1>1, <1>4, <2>1, SmallQuotients
  <2>3. u % v = u
    BY <1>1, <1>5, SmallQuotients
  <2> QED
    BY <1>4, <2>2, <2>3 DEF r, u, v
<1>6. CASE ~(u < v)
  <2>1. w + (IF less.negative THEN v ELSE 0) = u - v /\ u - v \in 0 .. Radix - 1
    BY <1>1, <1>2, <1>6
  <2>2. ValueOf(r) = u - v
    BY <1>1, <1>4, <2>1, SmallQuotients
  <2>3. u % v = u - v
    <3>1. u \in v .. 2 * v - 1 /\ v \in Nat /\ v > 0
      BY <1>1, <1>6
    <3> QED
      BY <1>1, <3>1, SmallQuotients
  <2> QED
    BY <1>4, <2>2, <2>3 DEF r, u, v
<1> QED
  BY <1>5, <1>6

(* modsub_vartime, for a difference between -m and m. *)
LEMMA ModSubBetween ==
  ASSUME NEW a \in Ints, NEW b \in Ints, NEW m \in Ints,
         ValueOf(a) - ValueOf(b) \in -ValueOf(m) .. ValueOf(m) - 1
  PROVE  /\ modsub_vartime(a, b, m) \in Ints
         /\ ValueOf(modsub_vartime(a, b, m)) = (ValueOf(a) - ValueOf(b)) % ValueOf(m)
<1> DEFINE diff == sub(a, b)
           u == ValueOf(a)
           v == ValueOf(b)
           w == ValueOf(m)
           r == modsub_vartime(a, b, m)
<1>1. /\ u \in 0 .. Radix - 1 /\ v \in 0 .. Radix - 1 /\ w \in 0 .. Radix - 1
      /\ Radix \in Nat /\ Radix > 0 /\ u - v \in -w .. w - 1
  BY IntsAre, RadixIs
<1>2. /\ diff.digits \in Ints /\ diff.out = (IF u < v THEN -1 ELSE 0)
      /\ ValueOf(diff.digits) + diff.out * Radix = u - v
  BY SubIs
<1>3. r = IF diff.out # 0 THEN add(diff.digits, m).digits ELSE diff.digits
  BY DEF modsub_vartime
<1> HIDE DEF diff, r
<1> DEFINE sum == add(diff.digits, m)
<1>4. /\ sum.digits \in Ints /\ sum.out \in 0 .. 1
      /\ ValueOf(sum.digits) + sum.out * Radix = ValueOf(diff.digits) + w
  BY <1>2, AddIs
<1>5. ValueOf(diff.digits) \in 0 .. Radix - 1 /\ ValueOf(sum.digits) \in 0 .. Radix - 1
  BY <1>2, <1>4, IntsAre
<1> HIDE DEF sum, u, v, w
<1>6. CASE u < v
  <2>1. ValueOf(diff.digits) = (u - v) + Radix /\ r = sum.digits
    BY <1>1, <1>2, <1>3, <1>5, <1>6 DEF sum
  <2>2. ValueOf(sum.digits) + sum.out * Radix = ((u - v) + w) + Radix
    BY <1>1, <1>4, <2>1
  <2>3. sum.out = 1
    BY <1>1, <1>4, <1>5, <2>2
  <2>4. ValueOf(r) = (u - v) + w /\ r \in Ints
    BY <1>1, <1>4, <1>5, <2>1, <2>2, <2>3
  <2>5. (u - v) % w = (u - v) + w
    BY <1>1, <1>6, SmallQuotients
  <2> QED
    BY <2>4, <2>5 DEF r, u, v, w
<1>7. CASE ~(u < v)
  <2>1. ValueOf(r) = u - v /\ r \in Ints
    BY <1>1, <1>2, <1>3, <1>5, <1>7
  <2>2. (u - v) % w = u - v
    BY <1>1, <1>7, SmallQuotients
  <2> QED
    BY <2>1, <2>2 DEF r, u, v, w
<1> QED
  BY <1>6, <1>7

(* modsub_vartime subtracts modulo m. *)
THEOREM ModSubIs ==
  ASSUME NEW a \in Ints, NEW b \in Ints, NEW m \in Ints,
         ValueOf(a) < ValueOf(m), ValueOf(b) < ValueOf(m)
  PROVE  /\ modsub_vartime(a, b, m) \in Ints
         /\ ValueOf(modsub_vartime(a, b, m)) = (ValueOf(a) - ValueOf(b)) % ValueOf(m)
<1>1. /\ ValueOf(a) \in 0 .. Radix - 1 /\ ValueOf(b) \in 0 .. Radix - 1
      /\ ValueOf(m) \in 0 .. Radix - 1 /\ Radix \in Nat
  BY IntsAre, RadixIs
<1>2. ValueOf(a) - ValueOf(b) \in -ValueOf(m) .. ValueOf(m) - 1
  BY <1>1
<1> QED
  BY <1>2, ModSubBetween

(* modadd_vartime adds modulo m, although the sum may not fit. *)
THEOREM ModAddIs ==
  ASSUME NEW a \in Ints, NEW b \in Ints, NEW m \in Ints,
         ValueOf(a) < ValueOf(m), ValueOf(b) < ValueOf(m)
  PROVE  /\ modadd_vartime(a, b, m) \in Ints
         /\ ValueOf(modadd_vartime(a, b, m)) = (ValueOf(a) + ValueOf(b)) % ValueOf(m)
<1> DEFINE sum == add(a, b)
           less == sub(sum.digits, m)
           tmp == IF sum.out # 0 THEN less.digits ELSE sum.digits
           u == ValueOf(a)
           v == ValueOf(b)
           w == ValueOf(m)
           s == ValueOf(sum.digits)
           d == ValueOf(less.digits)
           t == ValueOf(tmp)
           r == modadd_vartime(a, b, m)
<1>1. /\ u \in 0 .. w - 1 /\ v \in 0 .. w - 1 /\ w \in 0 .. Radix - 1
      /\ Radix \in Nat /\ Radix > 0
  BY IntsAre, RadixIs
<1>2. sum.digits \in Ints /\ sum.out \in 0 .. 1 /\ s + sum.out * Radix = u + v
  BY AddIs
<1> HIDE DEF sum
<1>3. /\ less.digits \in Ints /\ less.out = (IF s < w THEN -1 ELSE 0)
      /\ d + less.out * Radix = s - w
  BY <1>2, SubIs
<1>4. s \in 0 .. Radix - 1 /\ d \in 0 .. Radix - 1
  BY <1>2, <1>3, IntsAre
<1>5. r = modsub_vartime(tmp, m, m)
  BY DEF modadd_vartime, sum
<1>6. tmp \in Ints /\ t = IF sum.out # 0 THEN d ELSE s
  BY <1>2, <1>3
<1> HIDE DEF less, tmp, r, u, v, w, s, d
<1>7. CASE sum.out = 1
  <2>1. s = (u + v) - Radix /\ s < w
    BY <1>1, <1>2, <1>4, <1>7
  <2>2. t = (u + v) - w
    BY <1>1, <1>3, <1>4, <1>6, <1>7, <2>1
  <2>3. t - w \in -w .. w - 1 /\ (u + v) - w \in 0 .. w - 1
    BY <1>1, <1>4, <1>6, <1>7, <2>2
  <2>4. r \in Ints /\ ValueOf(r) = (t - w) % w
    BY <1>5, <1>6, <2>3, ModSubBetween DEF w
  <2>5. t - w \in -w .. -1 /\ w \in Nat /\ w > 0
    BY <1>1, <2>2, <2>3
  <2>6. (t - w) % w = (u + v) - w
    BY <2>2, <2>5, <1>1, SmallQuotients
  <2>7. (u + v) % w = (u + v) - w
    BY <1>1, <2>3, <2>5, SmallQuotients
  <2> QED
    BY <2>4, <2>6, <2>7 DEF r, u, v, w
<1>8. CASE sum.out = 0
  <2>1. t = u + v /\ t \in 0 .. 2 * w - 1 /\ w \in Nat /\ w > 0
    BY <1>1, <1>2, <1>4, <1>6, <1>8
  <2>2. t - w \in -w .. w - 1
    BY <1>1, <2>1
  <2>3. r \in Ints /\ ValueOf(r) = (t - w) % w
    BY <1>5, <1>6, <2>2, ModSubBetween DEF w
  <2>4. t % w = (t - w) % w
    <3>1. CASE t < w
      BY <2>1, <3>1, SmallQuotients
    <3>2. CASE ~(t < w)
      BY <2>1, <3>2, SmallQuotients
    <3> QED
      BY <3>1, <3>2
  <2> QED
    BY <2>1, <2>3, <2>4 DEF r, u, v, w
<1> QED
  BY <1>2, <1>7, <1>8

-----------------------------------------------------------------------------
(* Multiplication: the long accumulator.                                   *)

Size == 2 * NDIGITS + 1
Long == [1 .. Size -> 0 .. Base - 1]

(* An accumulator is a sequence of digits. *)
LEMMA LongIs ==
  ASSUME NEW tmp \in Long
  PROVE  /\ tmp \in Seq(0 .. Base - 1) /\ Len(tmp) = Size
         /\ \A j \in 1 .. Size : tmp[j] \in 0 .. Base - 1 /\ tmp[j] \in Int
<1>1. Size \in Nat
  BY Int256Assumption DEF Size
<1>2. tmp \in [1 .. Size -> 0 .. Base - 1]
  BY DEF Long
<1> QED
  BY <1>1, <1>2, BaseIs

(* A slice is an integer, digit by digit. *)
LEMMA SliceIs ==
  ASSUME NEW tmp \in Long, NEW i \in 0 .. NDIGITS
  PROVE  /\ Slice(tmp, i) \in Ints
         /\ \A j \in Positions : Slice(tmp, i)[j] = tmp[i + j]
<1> DEFINE D == 0 .. Base - 1
           s == SubSeq(tmp, i + 1, i + NDIGITS)
<1>1. /\ NDIGITS \in Nat /\ i \in Nat /\ i + NDIGITS <= Size /\ Size \in Nat
      /\ Positions = 1 .. NDIGITS
  BY Int256Assumption DEF Size, Positions
<1>2. tmp \in Seq(D) /\ Len(tmp) = Size
  BY LongIs
<1> HIDE DEF D
<1>3. s \in Seq(D) /\ Len(s) = NDIGITS /\ \A j \in 1 .. NDIGITS : s[j] = tmp[i + j]
  BY <1>1, <1>2
<1> HIDE DEF s
<1>4. s \in [1 .. NDIGITS -> D]
  BY <1>3, LenProperties
<1> QED
  BY <1>1, <1>3, <1>4 DEF Slice, Ints, D, s

(* What is before a slice stays when the slice is replaced. *)
LEMMA WithSliceIs ==
  ASSUME NEW tmp \in Long, NEW i \in 0 .. NDIGITS, NEW d \in Ints
  PROVE  /\ WithSlice(tmp, i, d) \in Long
         /\ \A j \in 1 .. i : WithSlice(tmp, i, d)[j] = tmp[j]
         /\ \A j \in Positions : WithSlice(tmp, i, d)[i + j] = d[j]
<1> DEFINE D == 0 .. Base - 1
           n == NDIGITS
           x == SubSeq(tmp, 1, i)
           z == SubSeq(tmp, i + n + 1, Len(tmp))
           w == WithSlice(tmp, i, d)
<1>1. /\ n \in Nat /\ i \in Nat /\ i + n <= Size /\ Size \in Nat
      /\ Positions = 1 .. n
  BY Int256Assumption DEF Size, Positions
<1>2. tmp \in Seq(D) /\ Len(tmp) = Size
  BY LongIs
<1>3. d \in [1 .. n -> D]
  BY <1>1 DEF Ints
<1>4. w = x \o d \o z
  BY DEF WithSlice
<1> HIDE DEF D, w, n
<1>5. x \in Seq(D) /\ Len(x) = i /\ \A j \in 1 .. i : x[j] = tmp[j]
  BY <1>1, <1>2
<1>6. z \in Seq(D) /\ Len(z) = Size - (i + n)
  BY <1>1, <1>2
<1>7. d \in Seq(D) /\ Len(d) = n
  BY <1>1, <1>3
<1> HIDE DEF x, z
<1>8. /\ x \o d \in Seq(D) /\ Len(x \o d) = i + n
      /\ \A j \in 1 .. i : (x \o d)[j] = x[j]
      /\ \A j \in 1 .. n : (x \o d)[i + j] = d[j]
  BY <1>1, <1>5, <1>7
<1> DEFINE y == x \o d
<1>9. y \in Seq(D) /\ Len(y) = i + n
  BY <1>8
<1> HIDE DEF y
<1>10. /\ y \o z \in Seq(D) /\ Len(y \o z) = Size
      /\ \A j \in 1 .. i + n : (y \o z)[j] = y[j]
  BY <1>1, <1>6, <1>9
<1>11. w = y \o z
  BY <1>4 DEF y
<1>12. w \in [1 .. Size -> D]
  BY <1>10, <1>11, LenProperties
<1>13. \A j \in 1 .. i : w[j] = tmp[j]
  BY <1>1, <1>5, <1>8, <1>10, <1>11 DEF y
<1>14. \A j \in 1 .. n : w[i + j] = d[j]
  BY <1>1, <1>8, <1>10, <1>11 DEF y
<1> QED
  BY <1>1, <1>12, <1>13, <1>14 DEF w, D, Long

(* The value of a slice with the digits before it. *)
LEMMA SliceValue ==
  ASSUME NEW tmp \in Long, NEW i \in 0 .. NDIGITS
  PROVE  Value(tmp, i + NDIGITS) = Value(tmp, i) + Weight(i) * ValueOf(Slice(tmp, i))
<1>1. /\ NDIGITS \in Nat /\ i \in Nat /\ i + NDIGITS <= Size /\ Size \in Nat
      /\ Positions = 1 .. NDIGITS
  BY Int256Assumption DEF Size, Positions
<1>2. \A j \in 1 .. i + NDIGITS : tmp[j] \in Int
  BY <1>1, LongIs
<1>3. \A j \in 1 .. NDIGITS : Slice(tmp, i)[j] = tmp[i + j]
  BY <1>1, SliceIs
<1> QED
  BY <1>1, <1>2, <1>3, ValueSplit DEF ValueOf

(* The value of the digits up to a slice that is replaced. *)
LEMMA WithSliceValue ==
  ASSUME NEW tmp \in Long, NEW i \in 0 .. NDIGITS, NEW d \in Ints
  PROVE  Value(WithSlice(tmp, i, d), i + NDIGITS) = Value(tmp, i) + Weight(i) * ValueOf(d)
<1> DEFINE w == WithSlice(tmp, i, d)
<1>1. /\ NDIGITS \in Nat /\ i \in Nat /\ i + NDIGITS <= Size /\ Size \in Nat
      /\ Positions = 1 .. NDIGITS
  BY Int256Assumption DEF Size, Positions
<1>2. /\ w \in Long /\ \A j \in 1 .. i : w[j] = tmp[j]
      /\ \A j \in 1 .. NDIGITS : d[j] = w[i + j]
  BY <1>1, WithSliceIs
<1> HIDE DEF w
<1>3. \A j \in 1 .. i + NDIGITS : w[j] \in Int
  BY <1>1, <1>2, LongIs
<1>4. Value(w, i + NDIGITS) = Value(w, i) + Weight(i) * ValueOf(d)
  BY <1>1, <1>2, <1>3, ValueSplit DEF ValueOf
<1>5. \A j \in 1 .. i : tmp[j] \in Int /\ w[j] = tmp[j]
  BY <1>1, <1>2, LongIs
<1>6. Value(w, i) = Value(tmp, i)
  BY <1>1, <1>5, ValueSame
<1> QED
  BY <1>4, <1>6 DEF w

(* mul_add returns the product and sum, and the carry is a digit. *)
LEMMA MulAddIs ==
  ASSUME NEW a \in Ints, NEW b \in Ints, NEW k \in 0 .. Base - 1
  PROVE  LET s == mul_add(a, b, k)
         IN  /\ s.digits \in Ints /\ s.out \in 0 .. Base - 1
             /\ ValueOf(s.digits) + s.out * Radix = ValueOf(a) + k * ValueOf(b)
<1> DEFINE s == mul_add(a, b, k)
           sums == [i \in Positions |-> a[i] + b[i] * k]
           u == ValueOf(a)
           v == ValueOf(b)
<1>1. /\ u \in 0 .. Radix - 1 /\ v \in 0 .. Radix - 1 /\ Radix \in Nat /\ Radix > 0
      /\ Base \in Nat /\ Base > 0 /\ k \in Int
  BY IntsAre, RadixIs, BaseIs
<1>2. ASSUME NEW i \in Positions
      PROVE  a[i] \in Int /\ b[i] \in Int /\ sums[i] = a[i] + k * b[i]
  <2>1. a[i] \in Int /\ b[i] \in Int
    BY IntsAre
  <2>2. b[i] * k = k * b[i]
    BY <1>1, <2>1
  <2> QED
    BY <2>1, <2>2
<1>3. s = Propagate(sums)
  BY DEF mul_add
<1> HIDE DEF s, sums
<1>4. s.digits \in Ints /\ ValueOf(s.digits) = (u + k * v) % Radix /\ s.out = (u + k * v) \div Radix
  BY <1>1, <1>2, <1>3, PropagateScaled
<1> HIDE DEF u, v
<1>5. k * v \in Int /\ k * v >= 0 /\ k * v <= (Base - 1) * (Radix - 1)
  <2>1. k * v >= 0 /\ k * v \in Int
    BY <1>1
  <2>2. k * v <= (Base - 1) * v
    BY <1>1
  <2>3. (Base - 1) * v <= (Base - 1) * (Radix - 1)
    BY <1>1
  <2>4. (Base - 1) * v \in Int /\ (Base - 1) * (Radix - 1) \in Int
    BY <1>1
  <2> QED
    BY <2>1, <2>2, <2>3, <2>4
<1> DEFINE x == u + k * v
           q == x \div Radix
           r == x % Radix
<1>6. x \in Int /\ x >= 0 /\ x <= Base * Radix - 1
  <2>1. (Base - 1) * (Radix - 1) = ((Base * Radix - Base) - Radix) + 1
    BY <1>1
  <2>2. Base * Radix \in Int
    BY <1>1
  <2> DEFINE p == k * v
             z == Base * Radix
  <2>3. p \in Int /\ z \in Int /\ p <= ((z - Base) - Radix) + 1 /\ p >= 0
    BY <1>5, <2>1, <2>2
  <2> HIDE DEF p, z
  <2>4. u + p \in Int /\ u + p >= 0 /\ u + p <= z - 1
    BY <1>1, <2>3
  <2> QED
    BY <2>4 DEF p, z
<1> HIDE DEF x
<1>7. q \in Int /\ r \in 0 .. Radix - 1 /\ x = q * Radix + r
  BY <1>1, <1>6, Division
<1> HIDE DEF q, r
<1>8. q \in 0 .. Base - 1
  <2>1. q >= 0
    <3>1. q <= -1 => q * Radix <= -Radix
      BY <1>1, <1>7
    <3>2. q * Radix \in Int
      BY <1>1, <1>7
    <3> QED
      BY <1>1, <1>6, <1>7, <3>1, <3>2
  <2>2. q <= Base - 1
    <3>1. q >= Base => q * Radix >= Base * Radix
      BY <1>1, <1>7
    <3>2. q * Radix \in Int /\ Base * Radix \in Int
      BY <1>1, <1>7
    <3> QED
      BY <1>1, <1>6, <1>7, <3>1, <3>2
  <2> QED
    BY <1>1, <1>7, <2>1, <2>2
<1>9. r + q * Radix = x
  <2>1. q * Radix \in Int
    BY <1>1, <1>7
  <2> QED
    BY <1>1, <1>7, <2>1
<1> QED
  BY <1>4, <1>8, <1>9 DEF s, x, q, r, u, v

(* An accumulator with its top digit, and the value of its first n digits   *)
(* and the top digit after them.                                            *)
Accumulators == [tmp : Long, top : 0 .. Base - 1]

Held(r, n) == Value(r.tmp, n) + r.top * Weight(n)

(* One digit of the product is added in its place. *)
LEMMA MultiplyStepIs ==
  ASSUME NEW r \in Accumulators, NEW i \in 0 .. NDIGITS, NEW a \in Ints, NEW k \in 0 .. Base - 1
  PROVE  LET s == MultiplyStep(r, i, a, k)
         IN  /\ s \in Accumulators
             /\ Held(s, i + NDIGITS) = Held(r, (i + NDIGITS) - 1) + Weight(i) * (k * ValueOf(a))
<1> DEFINE n == i + NDIGITS
           t == [r.tmp EXCEPT ![n] = r.top]
           sum == mul_add(Slice(t, i), a, k)
           s == MultiplyStep(r, i, a, k)
<1>1. /\ NDIGITS \in Nat /\ i \in Nat /\ n \in Nat /\ n \in 1 .. Size /\ Size \in Nat
      /\ Positions = 1 .. NDIGITS /\ Base \in Nat
  BY Int256Assumption, BaseIs DEF Size, Positions
<1>2. r.tmp \in Long /\ r.top \in 0 .. Base - 1 /\ r.top \in Int
  BY <1>1 DEF Accumulators
<1>3. t \in Long /\ t[n] = r.top /\ \A j \in 1 .. n - 1 : t[j] = r.tmp[j]
  <2> DEFINE E == 0 .. Base - 1
             q == r.tmp
             top == r.top
  <2>1. q \in [1 .. Size -> E] /\ top \in E /\ n \in 1 .. Size
    BY <1>1, <1>2 DEF Long
  <2> HIDE DEF E, q, n, top
  <2>2. [q EXCEPT ![n] = top] \in [1 .. Size -> E]
    BY <2>1
  <2>3. [q EXCEPT ![n] = top][n] = top
    BY <2>1
  <2>4. ASSUME NEW j \in 1 .. n - 1 PROVE [q EXCEPT ![n] = top][j] = q[j]
    <3>1. j \in 1 .. Size /\ j # n
      BY <1>1 DEF n
    <3> QED
      BY <2>1, <3>1
  <2> QED
    BY <2>2, <2>3, <2>4 DEF Long, E, q, n, top
<1>4. s = [tmp |-> WithSlice(t, i, sum.digits), top |-> sum.out]
  BY DEF MultiplyStep
<1> HIDE DEF t, s
<1>5. Slice(t, i) \in Ints
  BY <1>3, SliceIs
<1>6. /\ sum.digits \in Ints /\ sum.out \in 0 .. Base - 1
      /\ ValueOf(sum.digits) + sum.out * Radix = ValueOf(Slice(t, i)) + k * ValueOf(a)
  BY <1>5, MulAddIs
<1> HIDE DEF sum
<1>7. /\ WithSlice(t, i, sum.digits) \in Long
      /\ Value(WithSlice(t, i, sum.digits), n) = Value(t, i) + Weight(i) * ValueOf(sum.digits)
  BY <1>3, <1>6, WithSliceIs, WithSliceValue
<1>8. s \in Accumulators
  BY <1>4, <1>6, <1>7 DEF Accumulators
<1>9. Value(t, n) = Value(t, i) + Weight(i) * ValueOf(Slice(t, i))
  BY <1>3, SliceValue
<1>10. Value(t, n) = Held(r, n - 1)
  <2>1. \A j \in 1 .. n : t[j] \in Int
    BY <1>1, <1>3, LongIs
  <2>2. Value(t, n) = Value(t, n - 1) + t[n] * Weight(n - 1)
    <3>1. n \in 1 .. n
      BY <1>1
    <3> QED
      BY <1>1, <2>1, <3>1, ValueIs
  <2>3. n - 1 \in Nat /\ \A j \in 1 .. n - 1 : r.tmp[j] \in Int /\ t[j] = r.tmp[j]
    BY <1>1, <1>2, <1>3, LongIs
  <2>4. Value(t, n - 1) = Value(r.tmp, n - 1)
    BY <2>3, ValueSame
  <2> QED
    BY <1>3, <2>2, <2>4 DEF Held
<1>11. Weight(n) = Weight(i) * Radix
  BY <1>1, BaseIs, PowerSum DEF Weight, Radix
<1> DEFINE V == Value(t, i)
           w == Weight(i)
           S == ValueOf(Slice(t, i))
           D == ValueOf(sum.digits)
           A == ValueOf(a)
           o == sum.out
           p == k * A
<1>12. /\ V \in Int /\ w \in Int /\ S \in Int /\ D \in Int /\ A \in Int /\ o \in Int
       /\ Radix \in Int /\ k \in Int
  <2>1. \A j \in 1 .. i : t[j] \in Int
    BY <1>1, <1>3, LongIs
  <2>2. V \in Int
    BY <1>1, <2>1, ValueIs
  <2>3. w \in Int
    BY <1>1, WeightIs
  <2>4. S \in 0 .. Radix - 1 /\ D \in 0 .. Radix - 1 /\ A \in 0 .. Radix - 1 /\ Radix \in Nat
    BY <1>5, <1>6, IntsAre, RadixIs
  <2> QED
    BY <1>1, <1>6, <2>2, <2>3, <2>4
<1>13. Held(s, n) = (V + w * D) + o * (w * Radix)
  BY <1>4, <1>7, <1>11 DEF Held
<1>14. Held(r, n - 1) = V + w * S /\ D + o * Radix = S + p
  BY <1>6, <1>9, <1>10
<1> HIDE DEF V, w, S, D, A, o
<1>15. p \in Int
  BY <1>12
<1> HIDE DEF p
<1>16. (V + w * D) + o * (w * Radix) = V + w * (D + o * Radix)
  BY <1>12
<1>17. V + w * (S + p) = (V + w * S) + w * p
  BY <1>12, <1>15
<1>18. Held(s, n) = Held(r, n - 1) + w * p
  BY <1>13, <1>14, <1>16, <1>17
<1> QED
  BY <1>8, <1>18 DEF s, w, p, A

(* The rows of the product. *)
Rows(row, a, b) ==
  /\ row \in [0 .. NDIGITS -> Accumulators]
  /\ row[0] = [tmp |-> [j \in 1 .. Size |-> 0], top |-> 0]
  /\ \A i \in 1 .. NDIGITS : row[i] = MultiplyStep(row[i - 1], i - 1, a, b[i])

(* They exist. *)
LEMMA RowFunction ==
  ASSUME NEW a \in Ints, NEW b \in Ints, NEW top_b
  PROVE  \E row : /\ Rows(row, a, b)
                  /\ Product(a, b, top_b) = MultiplyStep(row[NDIGITS], NDIGITS, a, top_b)
<1> DEFINE n == NDIGITS
           zero == [tmp |-> [j \in 1 .. Size |-> 0], top |-> 0]
           Body(q, i) == IF i = 0 THEN zero ELSE MultiplyStep(q[i - 1], i - 1, a, b[i])
           row == CHOOSE q : q = [i \in 0 .. n |-> Body(q, i)]
           step == [i \in 1 .. n |-> [r \in Accumulators |-> MultiplyStep(r, i - 1, a, b[i])]]
<1>1. n \in Nat /\ Positions = 1 .. n /\ Base \in Nat /\ Base > 0
  BY Int256Assumption, BaseIs DEF Positions
<1>2. zero \in Accumulators
  BY <1>1 DEF Accumulators, Long
<1>3. ASSUME NEW i \in 1 .. n, NEW r \in Accumulators
      PROVE  MultiplyStep(r, i - 1, a, b[i]) \in Accumulators
  <2>1. i - 1 \in 0 .. NDIGITS /\ b[i] \in 0 .. Base - 1
    BY <1>1 DEF Ints
  <2> QED
    BY <2>1, MultiplyStepIs
<1>4. Product(a, b, top_b) = MultiplyStep(row[n], n, a, top_b)
  BY DEF Product, Size
<1> HIDE DEF zero
<1>5. \E f : Recursive(f, n, Accumulators, zero, step)
  <2>1. step \in [1 .. n -> [Accumulators -> Accumulators]]
    BY <1>3
  <2> HIDE DEF step, n
  <2> QED
    BY <1>1, <1>2, <2>1, RecursionUpTo
<1> HIDE DEF n
<1>6. PICK f \in [0 .. n -> Accumulators] :
        f[0] = zero /\ \A i \in 1 .. n : f[i] = MultiplyStep(f[i - 1], i - 1, a, b[i])
  <2>1. PICK f : Recursive(f, n, Accumulators, zero, step)
    BY <1>5
  <2>2. ASSUME NEW i \in 1 .. n PROVE f[i] = MultiplyStep(f[i - 1], i - 1, a, b[i])
    <3>1. i - 1 \in 0 .. n /\ f[i - 1] \in Accumulators
      BY <1>1, <2>1 DEF Recursive
    <3>2. step[i][f[i - 1]] = MultiplyStep(f[i - 1], i - 1, a, b[i])
      BY <3>1
    <3> QED
      BY <2>1, <3>2 DEF Recursive
  <2> QED
    BY <2>1, <2>2 DEF Recursive
<1>7. \A i \in 0 .. n : f[i] = Body(f, i)
  BY <1>1, <1>6
<1> HIDE DEF Body
<1>8. f = [i \in 0 .. n |-> Body(f, i)]
  BY <1>6, <1>7
<1>9. row = [i \in 0 .. n |-> Body(row, i)]
  BY <1>8
<1> HIDE DEF row
<1>10. \A i \in 0 .. n : row[i] = Body(row, i)
  BY <1>9
<1>11. row[0] = zero /\ \A i \in 1 .. n : row[i] = MultiplyStep(row[i - 1], i - 1, a, b[i])
  BY <1>1, <1>10 DEF Body
<1>12. \A i \in 0 .. n : row[i] \in Accumulators
  <2> DEFINE S == {i \in 0 .. n : row[i] \in Accumulators}
  <2>1. 0 \in S
    BY <1>1, <1>2, <1>11
  <2>2. ASSUME NEW i \in 1 .. n, i - 1 \in S PROVE i \in S
    <3>1. row[i - 1] \in Accumulators
      BY <2>2
    <3> QED
      BY <1>1, <1>3, <1>11, <3>1
  <2> HIDE DEF S
  <2>3. \A i \in 0 .. n : i \in S
    BY <1>1, <2>1, <2>2, InductionUpTo
  <2> QED
    BY <2>3 DEF S
<1>13. row \in [0 .. n -> Accumulators]
  <2>1. row = [i \in 0 .. n |-> row[i]]
    BY <1>9
  <2> QED
    BY <1>12, <2>1
<1> QED
  BY <1>4, <1>11, <1>13 DEF n, zero, Rows

(* Digits that are zero stand for zero. *)
LEMMA ValueOfZeros ==
  ASSUME NEW n \in Nat, NEW a, \A i \in 1 .. n : a[i] = 0
  PROVE  Value(a, n) = 0
<1>1. \A i \in 1 .. n : a[i] \in Int /\ a[i] \in Int /\ a[i] = a[i] + 1 * a[i]
  OBVIOUS
<1>2. Value(a, n) = Value(a, n) + 1 * Value(a, n)
  BY <1>1, ValueLinear
<1> DEFINE v == Value(a, n)
<1>3. v \in Int /\ v = v + 1 * v
  BY <1>1, <1>2, ValueIs
<1> HIDE DEF v
<1>4. v = 0
  BY <1>3
<1> QED
  BY <1>4 DEF v

(* The product of a and (b, top_b) is complete. *)
LEMMA ProductIs ==
  ASSUME NEW a \in Ints, NEW b \in Ints, NEW top_b \in 0 .. Base - 1
  PROVE  LET p == Product(a, b, top_b)
         IN  /\ p \in Accumulators
             /\ Held(p, NDIGITS + NDIGITS) = ValueOf(a) * (ValueOf(b) + top_b * Radix)
<1> DEFINE n == NDIGITS
           A == ValueOf(a)
           p == Product(a, b, top_b)
<1>1. n \in Nat /\ n > 0 /\ Positions = 1 .. n /\ Base \in Nat /\ Size \in Nat /\ n <= Size
  BY Int256Assumption, BaseIs DEF Positions, Size
<1>2. PICK row : Rows(row, a, b) /\ p = MultiplyStep(row[n], n, a, top_b)
  BY RowFunction
<1>3. /\ row \in [0 .. n -> Accumulators]
      /\ row[0] = [tmp |-> [j \in 1 .. Size |-> 0], top |-> 0]
      /\ \A i \in 1 .. n : row[i] = MultiplyStep(row[i - 1], i - 1, a, b[i])
      /\ p = MultiplyStep(row[n], n, a, top_b)
  BY <1>2 DEF Rows
<1>4. A \in Int /\ A >= 0
  BY IntsAre, RadixIs
<1> HIDE DEF p
<1>5. \A i \in 1 .. n : b[i] \in 0 .. Base - 1 /\ b[i] \in Int
  BY <1>1 DEF Ints
<1> DEFINE S == {i \in 0 .. n : Held(row[i], (i + n) - 1) = A * Value(b, i)}
<1>6. 0 \in S
  <2>1. \A j \in 1 .. n - 1 : row[0].tmp[j] = 0
    BY <1>1, <1>3
  <2>2. n - 1 \in Nat /\ row[0].top = 0
    BY <1>1, <1>3
  <2>3. Value(row[0].tmp, n - 1) = 0 /\ Weight(n - 1) \in Int
    <3> DEFINE t == row[0].tmp
               m == n - 1
    <3>1. m \in Nat /\ \A j \in 1 .. m : t[j] = 0
      BY <2>1, <2>2
    <3> HIDE DEF t, m
    <3>2. Value(t, m) = 0
      BY <3>1, ValueOfZeros
    <3>3. Weight(m) \in Int
      BY <3>1, WeightIs
    <3> QED
      BY <3>2, <3>3 DEF t, m
  <2>4. Held(row[0], n - 1) = 0
    BY <2>2, <2>3 DEF Held
  <2>5. Value(b, 0) = 0
    BY <1>1, <1>5, ValueIs
  <2>6. (0 + n) - 1 = n - 1 /\ A * 0 = 0
    BY <1>1, <1>4
  <2> QED
    BY <1>1, <2>4, <2>5, <2>6
<1>7. ASSUME NEW i \in 1 .. n, i - 1 \in S PROVE i \in S
  <2> DEFINE w == Weight(i - 1)
             v == Value(b, i - 1)
             k == b[i]
  <2>1. /\ i - 1 \in 0 .. NDIGITS /\ row[i - 1] \in Accumulators /\ i \in 0 .. n
        /\ ((i - 1) + n) - 1 \in Int /\ (i - 1) + n = (i + n) - 1 /\ i - 1 \in Nat
    BY <1>1, <1>3
  <2>2. Held(row[i], (i - 1) + n) = Held(row[i - 1], ((i - 1) + n) - 1) + w * (k * A)
    BY <1>3, <1>5, <2>1, MultiplyStepIs
  <2>3. Held(row[i - 1], ((i - 1) + n) - 1) = A * v
    BY <1>7
  <2>4. Value(b, i) = v + k * w
    BY <1>1, <1>5, ValueIs
  <2>5. w \in Int /\ v \in Int /\ k \in Int
    <3>1. \A j \in 1 .. i - 1 : b[j] \in Int
      BY <1>1, <1>5
    <3>2. v \in Int
      BY <2>1, <3>1, ValueIs
    <3>3. w \in Int
      BY <2>1, WeightIs
    <3> QED
      BY <1>5, <3>2, <3>3
  <2> HIDE DEF w, v, k, A
  <2>6. A * v + w * (k * A) = A * (v + k * w)
    BY <1>4, <2>5
  <2> QED
    BY <2>1, <2>2, <2>3, <2>4, <2>6
<1> HIDE DEF S
<1>8. \A i \in 0 .. n : i \in S
  BY <1>1, <1>6, <1>7, InductionUpTo
<1>9. n \in S
  BY <1>1, <1>8
<1>10. Held(row[n], (n + n) - 1) = A * ValueOf(b)
  BY <1>9 DEF S, ValueOf
<1>11. p \in Accumulators /\ Held(p, n + n) = Held(row[n], (n + n) - 1) + Radix * (top_b * A)
  <2>1. n \in 0 .. NDIGITS /\ row[n] \in Accumulators
    BY <1>1, <1>3
  <2> QED
    BY <1>3, <2>1, MultiplyStepIs DEF Radix
<1> DEFINE B == ValueOf(b)
<1>12. B \in Int /\ Radix \in Int /\ top_b \in Int
  BY <1>1, IntsAre, RadixIs
<1> HIDE DEF A, B
<1>13. A * B + Radix * (top_b * A) = A * (B + top_b * Radix)
  BY <1>4, <1>12
<1> QED
  BY <1>10, <1>11, <1>13 DEF p, A, B

-----------------------------------------------------------------------------
(* Reductions.                                                             *)

(* The moduli of the code have a most significant digit of ones.           *)
Moduli == {m \in Ints : m[NDIGITS] = Base - 1}

(* Such a modulus falls short of the radix by at most the weight of that    *)
(* digit.                                                                   *)
LEMMA ModuliAre ==
  ASSUME NEW m \in Moduli
  PROVE  LET w == Weight(NDIGITS - 1)
         IN  /\ m \in Ints
             /\ w \in Nat /\ Radix = Base * w
             /\ ValueOf(m) \in 0 .. Radix - 1
             /\ Radix - ValueOf(m) \in 1 .. w
             /\ 2 * ValueOf(m) >= Radix /\ ValueOf(m) > 0
<1> DEFINE n == NDIGITS
           w == Weight(n - 1)
           v == Value(m, n - 1)
           M == ValueOf(m)
<1>1. n \in Nat \ {0} /\ n - 1 \in Nat /\ Positions = 1 .. n /\ n \in 1 .. n
  BY Int256Assumption DEF Positions
<1>2. m \in Ints /\ m[n] = Base - 1
  BY DEF Moduli
<1>3. \A i \in 1 .. n : m[i] \in 0 .. Base - 1 /\ m[i] \in Int
  BY <1>1, <1>2, BaseIs DEF Ints
<1>4. w \in Nat /\ Radix = Base * w /\ Base \in Nat /\ Base >= 4 /\ Radix \in Nat /\ Radix > 0
  BY <1>1, WeightBefore, BaseIs, RadixIs DEF Radix
<1>5. M = v + (Base - 1) * w
  BY <1>1, <1>2, <1>3, ValueIs DEF ValueOf
<1>6. v \in 0 .. w - 1
  <2>1. \A i \in 1 .. n - 1 : m[i] \in 0 .. Base - 1
    BY <1>1, <1>3
  <2> QED
    BY <1>1, <2>1, ValueBound
<1>7. M \in 0 .. Radix - 1
  BY <1>2, IntsAre
<1> HIDE DEF w, v, M, n
<1>8. (Base - 1) * w = Base * w - w
  BY <1>4
<1>9. Base * w >= 4 * w
  BY <1>4
<1>10. M = (v + Radix) - w /\ Radix >= 4 * w
  BY <1>4, <1>5, <1>6, <1>8, <1>9
<1>11. /\ Radix - M \in 1 .. w
       /\ 2 * M >= Radix /\ M > 0
  BY <1>4, <1>6, <1>7, <1>10
<1> QED
  BY <1>2, <1>4, <1>7, <1>11 DEF w, M, n

(* sub_top subtracts with the top digits. *)
LEMMA SubTopIs ==
  ASSUME NEW a \in Ints, NEW b \in Ints, NEW top \in Int, NEW top_b \in Int
  PROVE  LET d == sub_top(a, b, top, top_b)
             x == (ValueOf(a) + top * Radix) - (ValueOf(b) + top_b * Radix)
         IN  /\ d.digits \in Ints /\ x \in Int
             /\ ValueOf(d.digits) = x % Radix /\ d.out = x \div Radix
<1> DEFINE u == ValueOf(a)
           v == ValueOf(b)
           d == sub_top(a, b, top, top_b)
           sums == [i \in Positions |-> a[i] - b[i]]
           p == Propagate(sums)
<1>1. u \in Int /\ v \in Int /\ Radix \in Nat /\ Radix > 0
  BY IntsAre, RadixIs
<1>2. \A i \in Positions : a[i] \in Int /\ b[i] \in Int /\ sums[i] = a[i] + (-1) * b[i]
  BY IntsAre
<1>3. d = [digits |-> p.digits, out |-> p.out + (top - top_b)]
  BY DEF sub_top
<1> HIDE DEF d, sums
<1>4. /\ p.digits \in Ints
      /\ ValueOf(p.digits) = (u + (-1) * v) % Radix /\ p.out = (u + (-1) * v) \div Radix
  <2>1. p = Propagate(sums) /\ -1 \in Int
    OBVIOUS
  <2> HIDE DEF p
  <2> QED
    BY <1>2, <2>1, PropagateScaled
<1> HIDE DEF u, v, p
<1> DEFINE y == u - v
           q == p.out
           r == ValueOf(p.digits)
           x == (u + top * Radix) - (v + top_b * Radix)
<1>5. u + (-1) * v = y /\ y \in Int
  BY <1>1
<1>6. q \in Int /\ r \in 0 .. Radix - 1 /\ y = q * Radix + r
  <2> HIDE DEF y
  <2> QED
    BY <1>1, <1>4, <1>5, Division
<1> HIDE DEF q, r
<1>7. x = (q + (top - top_b)) * Radix + r /\ x \in Int /\ q + (top - top_b) \in Int
  <2>1. (q + (top - top_b)) * Radix = (q * Radix + top * Radix) - top_b * Radix
    BY <1>1, <1>6
  <2>2. q * Radix \in Int /\ top * Radix \in Int /\ top_b * Radix \in Int
    BY <1>1, <1>6
  <2> QED
    BY <1>1, <1>6, <2>1, <2>2
<1> HIDE DEF x, y
<1>8. x \div Radix = q + (top - top_b) /\ x % Radix = r
  BY <1>1, <1>6, <1>7, DivisionUnique
<1> QED
  BY <1>3, <1>4, <1>7, <1>8 DEF d, x, q, r, u, v

(* What is left of (v, top) after top times the modulus is subtracted: it    *)
(* is not negative, and less than the radix once the modulus is taken once  *)
(* more.                                                                    *)
LEMMA Estimate ==
  ASSUME NEW m \in Moduli, NEW v \in 0 .. Radix - 1, NEW top \in 0 .. Base - 1
  PROVE  LET x == (v + top * Radix) - top * ValueOf(m)
         IN  /\ x \in Int /\ x \in 0 .. 2 * Radix - 1
             /\ x - ValueOf(m) < Radix
<1> DEFINE M == ValueOf(m)
           w == Weight(NDIGITS - 1)
<1>1. /\ w \in Nat /\ Radix = Base * w /\ M \in 0 .. Radix - 1 /\ Radix - M \in 1 .. w
      /\ Base \in Nat /\ Base >= 4 /\ Radix \in Nat
  BY ModuliAre, BaseIs, RadixIs
<1> HIDE DEF M, w
<1>2. M \in Int /\ top \in Int /\ v \in Int /\ top >= 0 /\ top <= Base - 1
  BY <1>1
<1> DEFINE g == Radix - M
           y == top * g
<1>3. g \in Nat /\ g <= w /\ g > 0
  BY <1>1
<1>4. top * Radix - top * M = y /\ top * Radix \in Int /\ top * M \in Int
  BY <1>1, <1>2
<1> HIDE DEF g
<1>5. y \in Int /\ y >= 0 /\ y <= Radix - w
  <2>1. y \in Int /\ y >= 0
    BY <1>2, <1>3
  <2>2. top * g <= (Base - 1) * g
    BY <1>1, <1>2, <1>3
  <2>3. (Base - 1) * g <= (Base - 1) * w
    BY <1>1, <1>3
  <2>4. (Base - 1) * w = Radix - w /\ (Base - 1) * g \in Int
    BY <1>1, <1>3
  <2> QED
    BY <1>1, <2>1, <2>2, <2>3, <2>4
<1> DEFINE s == top * Radix
           t == top * M
<1>6. s \in Int /\ t \in Int /\ s - t = y
  BY <1>4
<1> HIDE DEF s, t, y
<1>7. (v + s) - t \in Int /\ (v + s) - t \in 0 .. 2 * Radix - 1 /\ ((v + s) - t) - M < Radix
  <2>1. (v + s) - t = v + y /\ w >= 0 /\ Radix - M <= w
    BY <1>1, <1>2, <1>3, <1>6
  <2> QED
    BY <1>1, <1>2, <1>5, <2>1
<1> QED
  BY <1>7 DEF s, t, M

(* The subtraction at the end of a step, with the top digit. *)
LEMMA SubConditionalTop ==
  ASSUME NEW a \in Ints, NEW m \in Ints, NEW top \in 0 .. 1,
         LET x == (ValueOf(a) + top * Radix) - top * ValueOf(m) IN x \in 0 .. Radix - 1
  PROVE  LET d == sub_conditional(a, m, top, top = 1)
         IN  /\ d.digits \in Ints /\ d.negative = FALSE
             /\ ValueOf(d.digits) = (ValueOf(a) + top * Radix) - top * ValueOf(m)
<1> DEFINE choice == top = 1
           sums == [i \in Positions |-> a[i] - (IF choice THEN m[i] ELSE 0)]
           d == sub_conditional(a, m, top, choice)
           p == Propagate(sums)
           u == ValueOf(a)
           v == ValueOf(m)
<1>1. u \in 0 .. Radix - 1 /\ v \in 0 .. Radix - 1 /\ Radix \in Nat /\ Radix > 0
  BY IntsAre, RadixIs
<1>2. \A i \in Positions : sums[i] = a[i] + (IF choice THEN (-1) * m[i] ELSE 0)
  BY IntsAre
<1>3. d = [digits |-> p.digits, negative |-> (p.out + top) % Base = Base - 1]
  BY DEF sub_conditional
<1> HIDE DEF sums, d
<1>4. d.digits = p.digits /\ d.negative = ((p.out + top) % Base = Base - 1)
  <2> HIDE DEF p
  <2> QED
    BY <1>3, Zenon
<1>5. choice \in BOOLEAN /\ -1 \in {-1, 1}
  OBVIOUS
<1>6. /\ p.digits \in Ints
      /\ ValueOf(p.digits) = (u + (IF choice THEN (-1) * v ELSE 0)) % Radix
      /\ p.out = (u + (IF choice THEN (-1) * v ELSE 0)) \div Radix
  <2>1. p = Propagate(sums)
    OBVIOUS
  <2> HIDE DEF p, choice
  <2> QED
    BY <1>2, <1>5, <2>1, Conditional
<1> HIDE DEF u, v, p
<1>7. p.out + top = 0 /\ ValueOf(p.digits) = (u + top * Radix) - top * v
  <2>1. CASE top = 1
    <3>1. u + (IF choice THEN (-1) * v ELSE 0) = u - v /\ u - v \in Int
      BY <1>1, <2>1
    <3>2. u - v \in -Radix .. -1 /\ (u + 1 * Radix) - 1 * v = (u - v) + Radix
      BY <1>1, <2>1 DEF u, v
    <3>3. p.out = -1 /\ ValueOf(p.digits) = (u - v) + Radix
      BY <1>1, <1>6, <3>1, <3>2, SmallQuotients
    <3> QED
      BY <1>1, <2>1, <3>2, <3>3
  <2>2. CASE top = 0
    <3>1. u + (IF choice THEN (-1) * v ELSE 0) = u /\ (u + 0 * Radix) - 0 * v = u
      BY <1>1, <2>2
    <3>2. p.out = 0 /\ ValueOf(p.digits) = u
      BY <1>1, <1>6, <3>1, SmallQuotients
    <3> QED
      BY <1>1, <2>2, <3>1, <3>2
  <2> QED
    BY <2>1, <2>2
<1>8. ~((p.out + top) % Base = Base - 1)
  <2>1. 0 % Base = 0 /\ Base - 1 # 0
    BY BaseIs, SmallQuotients
  <2> QED
    BY <1>7, <2>1
<1>9. d.negative = FALSE
  BY <1>4, <1>8, Zenon
<1> QED
  BY <1>4, <1>6, <1>7, <1>9 DEF d, u, v

(* The digits that one step of the reduction computes from those of a slice *)
(* and the top digit: no assertion fails, and they stand for the same       *)
(* integer modulo m.                                                        *)
LEMMA ReduceDigit ==
  ASSUME NEW m \in Moduli, NEW a \in Ints, NEW t \in 0 .. Base - 1
  PROVE  LET reducer == mul_add(ZERO, m, t)
             less == sub_top(a, reducer.digits, t, reducer.out)
             top == less.out % Base
             rest == sub_conditional(less.digits, m, top, top = 1)
         IN  /\ less.out \in 0 .. 1
             /\ rest.digits \in Ints /\ rest.negative = FALSE
             /\ \E q \in Int : ValueOf(rest.digits) = (ValueOf(a) + t * Radix) - q * ValueOf(m)
<1> DEFINE reducer == mul_add(ZERO, m, t)
           less == sub_top(a, reducer.digits, t, reducer.out)
           top == less.out % Base
           rest == sub_conditional(less.digits, m, top, top = 1)
           u == ValueOf(a)
           M == ValueOf(m)
           x == (u + t * Radix) - t * M
<1>1. /\ m \in Ints /\ M \in 0 .. Radix - 1 /\ u \in 0 .. Radix - 1 /\ t \in Int
      /\ Radix \in Nat /\ Radix > 0 /\ Base \in Nat /\ Base >= 4
  BY ModuliAre, IntsAre, RadixIs, BaseIs
<1>2. ZERO \in Ints /\ ValueOf(ZERO) = 0
  <2>1. NDIGITS \in Nat /\ Positions = 1 .. NDIGITS
    BY Int256Assumption DEF Positions
  <2>2. \A i \in 1 .. NDIGITS : ZERO[i] = 0
    BY <2>1 DEF ZERO
  <2>3. ZERO \in Ints
    BY <1>1 DEF ZERO, Ints
  <2> QED
    BY <2>1, <2>2, <2>3, ValueOfZeros DEF ValueOf
<1>3. /\ reducer.digits \in Ints /\ reducer.out \in 0 .. Base - 1
      /\ ValueOf(reducer.digits) + reducer.out * Radix = t * M
  <2>1. ValueOf(reducer.digits) + reducer.out * Radix = 0 + t * M
    BY <1>1, <1>2, MulAddIs
  <2>2. reducer.digits \in Ints /\ reducer.out \in 0 .. Base - 1
    BY <1>1, <1>2, MulAddIs
  <2> HIDE DEF reducer, M
  <2>3. 0 + t * M = t * M
    BY <1>1
  <2> QED
    BY <2>1, <2>2, <2>3
<1> HIDE DEF reducer
<1>4. less.digits \in Ints /\ ValueOf(less.digits) = x % Radix /\ less.out = x \div Radix
  <2>1. t \in Int /\ reducer.out \in Int
    BY <1>1, <1>3
  <2> QED
    BY <1>3, <2>1, SubTopIs
<1>5. x \in Int /\ x \in 0 .. 2 * Radix - 1 /\ x - M < Radix
  BY <1>1, Estimate
<1> HIDE DEF less, x
<1>6. less.out \in 0 .. 1 /\ x = less.out * Radix + ValueOf(less.digits)
  <2>1. CASE x \in 0 .. Radix - 1
    BY <1>1, <1>4, <1>5, <2>1, SmallQuotients
  <2>2. CASE x \in Radix .. 2 * Radix - 1
    BY <1>1, <1>4, <1>5, <2>2, SmallQuotients
  <2> QED
    BY <1>1, <1>5, <2>1, <2>2
<1>7. top = less.out
  <2>1. less.out \in 0 .. Base - 1
    BY <1>1, <1>6
  <2> QED
    BY <1>1, <2>1, SmallQuotients
<1> HIDE DEF top
<1> DEFINE v == ValueOf(less.digits)
<1>8. v \in 0 .. Radix - 1 /\ top \in 0 .. 1
  BY <1>4, <1>6, <1>7, IntsAre
<1>9. (v + top * Radix) - top * M = x - top * M /\ x - top * M \in 0 .. Radix - 1
  <2> HIDE DEF v, M
  <2>1. CASE top = 0
    <3>1. top * Radix = 0 /\ top * M = 0
      BY <1>1, <2>1
    <3> QED
      BY <1>1, <1>5, <1>6, <1>7, <1>8, <3>1 DEF v
  <2>2. CASE top = 1
    <3>1. top * Radix = Radix /\ top * M = M
      BY <1>1, <2>2
    <3> QED
      BY <1>1, <1>5, <1>6, <1>7, <1>8, <3>1 DEF v
  <2> QED
    BY <1>8, <2>1, <2>2
<1>10. rest.digits \in Ints /\ rest.negative = FALSE /\ ValueOf(rest.digits) = x - top * M
  BY <1>1, <1>4, <1>8, <1>9, SubConditionalTop
<1> HIDE DEF rest, v
<1>11. t + top \in Int /\ x - top * M = (u + t * Radix) - (t + top) * M
  <2> HIDE DEF u, M
  <2>1. (t + top) * M = t * M + top * M /\ t * M \in Int /\ top * M \in Int /\ t * Radix \in Int
    BY <1>1, <1>8
  <2> QED
    BY <1>1, <1>8, <2>1 DEF x
<1>12. \E q \in Int : ValueOf(rest.digits) = (u + t * Radix) - q * M
  BY <1>10, <1>11
<1> QED
  BY <1>6, <1>10, <1>12 DEF rest, top, less, reducer

(* The states of the reduction. *)
Reductions == [tmp : Long, top : 0 .. Base - 1, holds : BOOLEAN]

(* One step of the reduction subtracts a multiple of the modulus, and its   *)
(* assertions hold.                                                         *)
LEMMA ReduceStepIs ==
  ASSUME NEW r \in Reductions, NEW i \in 0 .. NDIGITS, NEW m \in Moduli
  PROVE  LET s == ReduceStep(r, i, m)
         IN  /\ s \in Reductions
             /\ s.holds = r.holds
             /\ Held(s, (i + NDIGITS) - 1) = Value(s.tmp, i + NDIGITS)
             /\ \E q \in Int : Value(s.tmp, i + NDIGITS)
                                 = Held(r, i + NDIGITS) - q * (Weight(i) * ValueOf(m))
<1> DEFINE n == i + NDIGITS
           a == Slice(r.tmp, i)
           t == r.top
           reducer == mul_add(ZERO, m, t)
           less == sub_top(a, reducer.digits, t, reducer.out)
           top == less.out % Base
           rest == sub_conditional(less.digits, m, top, top = 1)
           s == ReduceStep(r, i, m)
<1>1. /\ NDIGITS \in Nat /\ i \in Nat /\ n \in Nat /\ n \in 1 .. Size /\ Size \in Nat
      /\ Positions = 1 .. NDIGITS /\ Base \in Nat /\ NDIGITS \in Positions
  BY Int256Assumption, BaseIs DEF Size, Positions
<1>2. r.tmp \in Long /\ t \in 0 .. Base - 1 /\ r.holds \in BOOLEAN
  BY DEF Reductions
<1>3. a \in Ints
  BY <1>2, SliceIs
<1>4. s = [tmp |-> WithSlice(r.tmp, i, rest.digits), top |-> rest.digits[NDIGITS],
           holds |-> r.holds /\ less.out \in 0 .. 1 /\ ~rest.negative]
  BY DEF ReduceStep
<1>5. /\ less.out \in 0 .. 1 /\ rest.digits \in Ints /\ rest.negative = FALSE
      /\ \E q \in Int : ValueOf(rest.digits) = (ValueOf(a) + t * Radix) - q * ValueOf(m)
  <2> HIDE DEF a, t
  <2> QED
    BY <1>2, <1>3, ReduceDigit
<1> HIDE DEF rest, less, s, a
<1> DEFINE z == rest.digits
<1>6. z \in Ints /\ z[NDIGITS] \in 0 .. Base - 1
  BY <1>1, <1>5 DEF Ints
<1>7. s.tmp = WithSlice(r.tmp, i, z) /\ s.top = z[NDIGITS] /\ s.holds = r.holds
  <2>1. (r.holds /\ less.out \in 0 .. 1 /\ ~rest.negative) = r.holds
    BY <1>2, <1>5
  <2> QED
    BY <1>4, <2>1
<1>8. /\ s.tmp \in Long /\ s.tmp[n] = z[NDIGITS]
      /\ Value(s.tmp, n) = Value(r.tmp, i) + Weight(i) * ValueOf(z)
  <2> HIDE DEF z
  <2> QED
    BY <1>1, <1>2, <1>6, <1>7, WithSliceIs, WithSliceValue
<1>9. s \in Reductions
  <2>1. s = [tmp |-> s.tmp, top |-> s.top, holds |-> s.holds]
    BY <1>4
  <2> QED
    BY <1>2, <1>6, <1>7, <1>8, <2>1 DEF Reductions
<1>10. Held(s, n - 1) = Value(s.tmp, n)
  <2>1. \A j \in 1 .. n : s.tmp[j] \in Int
    BY <1>1, <1>8, LongIs
  <2>2. n \in 1 .. n
    BY <1>1
  <2>3. Value(s.tmp, n) = Value(s.tmp, n - 1) + s.tmp[n] * Weight(n - 1)
    BY <1>1, <2>1, <2>2, ValueIs
  <2> QED
    BY <1>7, <1>8, <2>3 DEF Held
<1>11. PICK q \in Int : ValueOf(z) = (ValueOf(a) + t * Radix) - q * ValueOf(m)
  BY <1>5
<1> DEFINE V == Value(r.tmp, i)
           w == Weight(i)
           A == ValueOf(a)
           M == ValueOf(m)
<1>12. V \in Int /\ w \in Int /\ A \in Int /\ M \in Int /\ t \in Int /\ Radix \in Int
  <2>1. \A j \in 1 .. i : r.tmp[j] \in Int
    BY <1>1, <1>2, LongIs
  <2>2. V \in Int
    BY <1>1, <2>1, ValueIs
  <2>3. w \in Int
    BY <1>1, WeightIs
  <2> QED
    BY <1>1, <1>2, <1>3, <2>2, <2>3, IntsAre, ModuliAre, RadixIs
<1>13. Held(r, n) = (V + w * A) + t * (w * Radix)
  <2>1. Weight(n) = w * Radix
    BY <1>1, BaseIs, PowerSum DEF Weight, Radix
  <2>2. Value(r.tmp, n) = V + w * A
    BY <1>2, SliceValue DEF a
  <2> QED
    BY <2>1, <2>2 DEF Held
<1>14. Value(s.tmp, n) = V + w * ((A + t * Radix) - q * M)
  BY <1>8, <1>11
<1> HIDE DEF V, w, A, M, t
<1>15. V + w * ((A + t * Radix) - q * M) = ((V + w * A) + t * (w * Radix)) - q * (w * M)
  BY <1>12
<1>16. Value(s.tmp, n) = Held(r, n) - q * (w * M)
  BY <1>13, <1>14, <1>15
<1> QED
  BY <1>7, <1>9, <1>10, <1>16 DEF s, w, M

(* The steps of the reduction of an accumulator p. *)
Steps(step, p, m) ==
  /\ step \in [0 .. NDIGITS + 1 -> Reductions]
  /\ step[0] = [tmp |-> p.tmp, top |-> p.top, holds |-> TRUE]
  /\ \A j \in 1 .. NDIGITS + 1 : step[j] = ReduceStep(step[j - 1], NDIGITS - (j - 1), m)

(* They exist. *)
LEMMA StepFunction ==
  ASSUME NEW a \in Ints, NEW b \in Ints, NEW top_b \in 0 .. Base - 1, NEW m \in Moduli
  PROVE  \E step : /\ Steps(step, Product(a, b, top_b), m)
                   /\ modmul_top(a, b, top_b, m)
                        = [digits |-> modd(Slice(step[NDIGITS + 1].tmp, 0), m),
                           holds |-> step[NDIGITS + 1].holds]
<1> DEFINE n == NDIGITS + 1
           p == Product(a, b, top_b)
           zero == [tmp |-> p.tmp, top |-> p.top, holds |-> TRUE]
           Body(f, j) == IF j = 0 THEN zero ELSE ReduceStep(f[j - 1], NDIGITS - (j - 1), m)
           step == CHOOSE f : f = [j \in 0 .. n |-> Body(f, j)]
           next == [j \in 1 .. n |-> [r \in Reductions |-> ReduceStep(r, NDIGITS - (j - 1), m)]]
<1>1. n \in Nat /\ n = NDIGITS + 1 /\ NDIGITS \in Nat
  BY Int256Assumption
<1>2. p = Product(a, b, top_b) /\ p \in Accumulators
  BY ProductIs
<1>3. ASSUME NEW j \in 1 .. n, NEW r \in Reductions
      PROVE  ReduceStep(r, NDIGITS - (j - 1), m) \in Reductions
  <2>1. NDIGITS - (j - 1) \in 0 .. NDIGITS
    BY <1>1
  <2> QED
    BY <2>1, ReduceStepIs
<1>4. modmul_top(a, b, top_b, m)
        = [digits |-> modd(Slice(step[n].tmp, 0), m), holds |-> step[n].holds]
  BY DEF modmul_top
<1> HIDE DEF p
<1>5. zero \in Reductions /\ zero = [tmp |-> p.tmp, top |-> p.top, holds |-> TRUE]
  BY <1>2 DEF Accumulators, Reductions
<1> HIDE DEF zero
<1>6. \E f : Recursive(f, n, Reductions, zero, next)
  <2>1. next \in [1 .. n -> [Reductions -> Reductions]]
    BY <1>3
  <2> HIDE DEF next, n
  <2> QED
    BY <1>1, <1>5, <2>1, RecursionUpTo
<1> HIDE DEF n
<1>7. PICK f \in [0 .. n -> Reductions] :
        f[0] = zero /\ \A j \in 1 .. n : f[j] = ReduceStep(f[j - 1], NDIGITS - (j - 1), m)
  <2>1. PICK f : Recursive(f, n, Reductions, zero, next)
    BY <1>6
  <2>2. ASSUME NEW j \in 1 .. n PROVE f[j] = ReduceStep(f[j - 1], NDIGITS - (j - 1), m)
    <3>1. j - 1 \in 0 .. n /\ f[j - 1] \in Reductions
      <4>1. j - 1 \in 0 .. n
        BY <1>1
      <4>2. f \in [0 .. n -> Reductions]
        BY <2>1 DEF Recursive
      <4> QED
        BY <4>1, <4>2
    <3>2. next[j][f[j - 1]] = ReduceStep(f[j - 1], NDIGITS - (j - 1), m)
      BY <3>1
    <3> QED
      BY <2>1, <3>2 DEF Recursive
  <2> QED
    BY <2>1, <2>2 DEF Recursive
<1>8. \A j \in 0 .. n : f[j] = Body(f, j)
  BY <1>1, <1>7
<1> HIDE DEF Body
<1>9. f = [j \in 0 .. n |-> Body(f, j)]
  BY <1>7, <1>8
<1>10. step = [j \in 0 .. n |-> Body(step, j)]
  BY <1>9
<1> HIDE DEF step
<1>11. \A j \in 0 .. n : step[j] = Body(step, j)
  BY <1>10
<1>12. /\ step[0] = zero
       /\ \A j \in 1 .. n : step[j] = ReduceStep(step[j - 1], NDIGITS - (j - 1), m)
  BY <1>1, <1>11 DEF Body
<1>13. \A j \in 0 .. n : step[j] \in Reductions
  <2> DEFINE S == {j \in 0 .. n : step[j] \in Reductions}
  <2>1. 0 \in S
    BY <1>1, <1>5, <1>12
  <2>2. ASSUME NEW j \in 1 .. n, j - 1 \in S PROVE j \in S
    <3>1. step[j - 1] \in Reductions
      BY <2>2
    <3> QED
      BY <1>1, <1>3, <1>12, <3>1
  <2> HIDE DEF S
  <2>3. \A j \in 0 .. n : j \in S
    BY <1>1, <2>1, <2>2, InductionUpTo
  <2> QED
    BY <2>3 DEF S
<1>14. step \in [0 .. n -> Reductions]
  <2>1. step = [j \in 0 .. n |-> step[j]]
    BY <1>10
  <2> QED
    BY <1>13, <2>1
<1>15. Steps(step, Product(a, b, top_b), m)
  BY <1>1, <1>2, <1>5, <1>12, <1>14 DEF Steps
<1> QED
  BY <1>1, <1>4, <1>15

(* A multiple of the modulus does not change the remainder. *)
LEMMA SameRemainder ==
  ASSUME NEW x \in Int, NEW q \in Int, NEW m \in Nat, m > 0
  PROVE  (x - q * m) % m = x % m
<1> DEFINE p == x \div m
           r == x % m
           y == x - q * m
<1>1. p \in Int /\ r \in 0 .. m - 1 /\ x = p * m + r
  BY Division
<1> HIDE DEF p, r
<1>2. (p - q) * m = p * m - q * m /\ p * m \in Int /\ q * m \in Int
  BY <1>1
<1>3. y = (p - q) * m + r /\ y \in Int /\ p - q \in Int
  BY <1>1, <1>2
<1> HIDE DEF y
<1>4. y % m = r
  BY <1>1, <1>3, DivisionUnique
<1> QED
  BY <1>4 DEF y, r

(* modmul_top computes a * (b, top_b) modulo m and none of its assertions   *)
(* fails, for every modulus whose most significant digit is all ones, as    *)
(* those of the field and of the curve order are.                           *)
THEOREM ModMulTopIs ==
  ASSUME NEW a \in Ints, NEW b \in Ints, NEW top_b \in 0 .. Base - 1, NEW m \in Moduli
  PROVE  LET r == modmul_top(a, b, top_b, m)
         IN  /\ r.digits \in Ints /\ r.holds = TRUE
             /\ ValueOf(r.digits) = (ValueOf(a) * (ValueOf(b) + top_b * Radix)) % ValueOf(m)
<1> DEFINE n == NDIGITS
           M == ValueOf(m)
           p == Product(a, b, top_b)
           T == ValueOf(a) * (ValueOf(b) + top_b * Radix)
           r == modmul_top(a, b, top_b, m)
<1>1. /\ n \in Nat /\ n > 0 /\ n = NDIGITS /\ Base \in Nat /\ M \in Nat /\ M > 0
      /\ m \in Ints /\ 2 * M >= Radix
  BY Int256Assumption, BaseIs, RadixIs, ModuliAre
<1>2. p \in Accumulators /\ Held(p, n + n) = T
  BY ProductIs
<1>3. PICK step : /\ Steps(step, p, m)
                  /\ r = [digits |-> modd(Slice(step[n + 1].tmp, 0), m), holds |-> step[n + 1].holds]
  BY StepFunction
<1> HIDE DEF p, r, n
<1>4. /\ step \in [0 .. n + 1 -> Reductions]
      /\ step[0] = [tmp |-> p.tmp, top |-> p.top, holds |-> TRUE]
      /\ \A j \in 1 .. n + 1 : step[j] = ReduceStep(step[j - 1], n - (j - 1), m)
  BY <1>1, <1>3 DEF Steps
<1>5. T \in Int
  <2> DEFINE A == ValueOf(a)
             B == ValueOf(b)
  <2>1. A \in Int /\ B \in Int /\ top_b \in Int /\ Radix \in Int
    BY <1>1, IntsAre, RadixIs
  <2> HIDE DEF A, B
  <2>2. A * (B + top_b * Radix) \in Int
    BY <2>1
  <2> QED
    BY <2>2 DEF A, B
<1> HIDE DEF T, M
<1> DEFINE Left(j) == (n + n) - j
           S == {j \in 0 .. n + 1 : /\ step[j].holds = TRUE
                                    /\ \E q \in Int : Held(step[j], Left(j)) = T - q * M}
<1>6. 0 \in S
  <2>1. step[0].tmp = p.tmp /\ step[0].top = p.top /\ step[0].holds = TRUE
    BY <1>4
  <2>2. Held(step[0], n + n) = Held(p, n + n)
    BY <2>1 DEF Held
  <2>3. Left(0) = n + n /\ T - 0 * M = T /\ 0 \in 0 .. n + 1
    BY <1>1, <1>5
  <2>4. Held(step[0], Left(0)) = T - 0 * M
    BY <1>2, <2>2, <2>3
  <2> HIDE DEF Left
  <2> QED
    BY <2>1, <2>3, <2>4
<1>7. ASSUME NEW j \in 1 .. n + 1, j - 1 \in S PROVE j \in S
  <2> DEFINE i == n - (j - 1)
  <2>1. /\ i \in 0 .. NDIGITS /\ i \in Nat /\ step[j - 1] \in Reductions /\ j \in 0 .. n + 1
        /\ i + NDIGITS = Left(j - 1) /\ (i + NDIGITS) - 1 = Left(j)
    BY <1>1, <1>4
  <2>2. PICK q \in Int : Held(step[j - 1], Left(j - 1)) = T - q * M
    BY <1>7
  <2>3. step[j - 1].holds = TRUE /\ step[j] = ReduceStep(step[j - 1], i, m)
    BY <1>4, <1>7
  <2> HIDE DEF i, Left
  <2>4. /\ step[j].holds = step[j - 1].holds
        /\ \E k \in Int : Held(step[j], (i + NDIGITS) - 1)
                            = Held(step[j - 1], i + NDIGITS) - k * (Weight(i) * M)
    BY <2>1, <2>3, ReduceStepIs DEF M
  <2>5. PICK k \in Int : Held(step[j], Left(j)) = (T - q * M) - k * (Weight(i) * M)
    BY <2>1, <2>2, <2>4
  <2> DEFINE w == Weight(i)
  <2>6. w \in Int
    BY <2>1, WeightIs
  <2> HIDE DEF w
  <2>7. (T - q * M) - k * (w * M) = T - (q + k * w) * M /\ q + k * w \in Int
    BY <1>1, <1>5, <2>6
  <2>8. Held(step[j], Left(j)) = T - (q + k * w) * M
    BY <2>5, <2>7 DEF w
  <2> QED
    BY <2>1, <2>3, <2>4, <2>7, <2>8
<1> HIDE DEF S
<1>8. \A j \in 0 .. n + 1 : j \in S
  <2>1. n + 1 \in Nat
    BY <1>1
  <2> QED
    BY <1>6, <1>7, <2>1, InductionUpTo
<1>9. n + 1 \in S
  BY <1>1, <1>8
<1> DEFINE last == step[n + 1]
           z == Slice(last.tmp, 0)
<1>10. PICK q \in Int : Held(last, n - 1) = T - q * M
  <2>1. Left(n + 1) = n - 1
    BY <1>1
  <2> QED
    BY <1>9, <2>1 DEF S
<1>11. z \in Ints /\ ValueOf(z) = T - q * M
  <2>1. step[n] \in Reductions /\ n + 1 \in 1 .. n + 1 /\ (n + 1) - 1 = n /\ n - n = 0
    BY <1>1, <1>4
  <2>2. last = ReduceStep(step[n], 0, m)
    BY <1>4, <2>1
  <2>3. 0 \in 0 .. NDIGITS /\ 0 + NDIGITS = n /\ 0 \in Nat
    BY <1>1
  <2>4. last \in Reductions /\ Held(last, n - 1) = Value(last.tmp, n)
    BY <2>1, <2>2, <2>3, ReduceStepIs
  <2> HIDE DEF last
  <2>5. last.tmp \in Long
    BY <2>4 DEF Reductions
  <2>6. Value(last.tmp, n) = Value(last.tmp, 0) + Weight(0) * ValueOf(z)
    BY <2>3, <2>5, SliceValue
  <2>7. z \in Ints
    BY <2>3, <2>5, SliceIs
  <2>8. Value(last.tmp, 0) = 0 /\ Weight(0) = 1
    <3>1. \A k \in 1 .. 0 : last.tmp[k] \in Int
      OBVIOUS
    <3> QED
      BY <2>3, <3>1, ValueIs, WeightIs
  <2>9. ValueOf(z) \in Int
    BY <2>7, IntsAre, RadixIs
  <2> QED
    BY <1>10, <2>4, <2>6, <2>7, <2>8, <2>9 DEF last
<1>12. r = [digits |-> modd(z, m), holds |-> last.holds] /\ last.holds = TRUE
  BY <1>3, <1>9 DEF S
<1> HIDE DEF z, last
<1>13. modd(z, m) \in Ints /\ ValueOf(modd(z, m)) = ValueOf(z) % M
  BY <1>1, <1>11, ModdIs DEF M
<1>14. ValueOf(z) % M = T % M
  <2>1. (T - q * M) % M = T % M
    BY <1>1, <1>5, SameRemainder
  <2> QED
    BY <1>11, <2>1
<1> QED
  BY <1>12, <1>13, <1>14 DEF r, T, M

(* modmul, the multiplication of the curve arithmetic, multiplies modulo m. *)
THEOREM ModMulIs ==
  ASSUME NEW a \in Ints, NEW b \in Ints, NEW m \in Moduli
  PROVE  /\ modmul(a, b, m) \in Ints
         /\ ValueOf(modmul(a, b, m)) = (ValueOf(a) * ValueOf(b)) % ValueOf(m)
<1> DEFINE B == ValueOf(b)
<1>1. 0 \in 0 .. Base - 1 /\ B \in Int /\ Radix \in Int
  BY BaseIs, IntsAre, RadixIs
<1> HIDE DEF B
<1>2. B + 0 * Radix = B
  BY <1>1
<1>3. /\ modmul_top(a, b, 0, m).digits \in Ints
      /\ ValueOf(modmul_top(a, b, 0, m).digits) = (ValueOf(a) * (B + 0 * Radix)) % ValueOf(m)
  BY <1>1, ModMulTopIs DEF B
<1> QED
  BY <1>2, <1>3 DEF modmul, B

-----------------------------------------------------------------------------
(* Widths.                                                                 *)

(* The carries of the loop over sums: those of CarryFunction.               *)
Carries(c, sums) ==
  /\ c \in [0 .. NDIGITS -> Int]
  /\ c[0] = 0 /\ \A i \in Positions : c[i] = (c[i - 1] + sums[i]) \div Base

(* No sum that mul_add accumulates exceeds the double digit it is kept in:  *)
(* a carry, a digit and the product of two digits fit exactly.              *)
THEOREM MulAddFits ==
  ASSUME NEW a \in Ints, NEW b \in Ints, NEW k \in 0 .. Base - 1,
         NEW c, Carries(c, [i \in Positions |-> a[i] + b[i] * k])
  PROVE  \A i \in Positions : c[i - 1] + (a[i] + b[i] * k) \in 0 .. Base * Base - 1
<1> DEFINE n == NDIGITS
           sums == [i \in Positions |-> a[i] + b[i] * k]
           S == {i \in 0 .. n : c[i] \in 0 .. Base - 1}
<1>1. n \in Nat /\ Positions = 1 .. n /\ Base \in Nat /\ Base >= 4 /\ k \in Int /\ Base * Base \in Nat
  <2>1. Base \in Nat /\ Base >= 4
    BY BaseIs
  <2> QED
    BY <2>1, Int256Assumption DEF Positions
<1>2. c[0] = 0 /\ \A i \in 1 .. n : c[i] = (c[i - 1] + (a[i] + b[i] * k)) \div Base
  BY <1>1 DEF Carries
<1>3. ASSUME NEW i \in 1 .. n, c[i - 1] \in 0 .. Base - 1
      PROVE  /\ c[i - 1] + (a[i] + b[i] * k) \in 0 .. Base * Base - 1
             /\ c[i] \in 0 .. Base - 1
  <2> DEFINE x == a[i]
             y == b[i]
             z == c[i - 1]
             p == y * k
             s == z + (x + p)
             q == s \div Base
             r == s % Base
  <2>1. x \in 0 .. Base - 1 /\ y \in 0 .. Base - 1 /\ z \in 0 .. Base - 1 /\ q = c[i]
    BY <1>1, <1>2, <1>3 DEF Ints
  <2> HIDE DEF x, y, z
  <2>2. p \in Int /\ p >= 0 /\ p <= (Base * Base - 2 * Base) + 1
    <3>1. p \in Int /\ p >= 0 /\ y * k <= (Base - 1) * k /\ (Base - 1) * k <= (Base - 1) * (Base - 1)
      BY <1>1, <2>1
    <3>2. (Base - 1) * (Base - 1) = (Base * Base - 2 * Base) + 1 /\ (Base - 1) * k \in Int
      BY <1>1
    <3> QED
      BY <1>1, <3>1, <3>2
  <2> HIDE DEF p
  <2>3. s \in 0 .. Base * Base - 1 /\ s \in Int
    BY <1>1, <2>1, <2>2
  <2> HIDE DEF s
  <2>4. q \in Int /\ r \in 0 .. Base - 1 /\ s = q * Base + r
    BY <1>1, <2>3, Division
  <2> HIDE DEF q, r
  <2>5. q \in 0 .. Base - 1
    <3>1. q <= -1 => q * Base <= -Base
      BY <1>1, <2>4
    <3>2. q >= Base => q * Base >= Base * Base
      BY <1>1, <2>4
    <3>3. q * Base \in Int
      BY <1>1, <2>4
    <3> QED
      BY <1>1, <2>3, <2>4, <3>1, <3>2, <3>3
  <2> QED
    BY <2>1, <2>3, <2>5 DEF s, p, x, y, z
<1>4. 0 \in S
  BY <1>1, <1>2
<1>5. ASSUME NEW i \in 1 .. n, i - 1 \in S PROVE i \in S
  <2>1. c[i - 1] \in 0 .. Base - 1
    BY <1>5
  <2> QED
    BY <1>1, <1>3, <2>1
<1> HIDE DEF S
<1>6. \A i \in 0 .. n : i \in S
  BY <1>1, <1>4, <1>5, InductionUpTo
<1>7. ASSUME NEW i \in 1 .. n PROVE c[i - 1] + (a[i] + b[i] * k) \in 0 .. Base * Base - 1
  <2>1. i - 1 \in S
    BY <1>1, <1>6
  <2>2. c[i - 1] \in 0 .. Base - 1
    BY <2>1 DEF S
  <2> QED
    BY <1>3, <2>2
<1> QED
  BY <1>1, <1>7

=============================================================================

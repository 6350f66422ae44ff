------------------------------- MODULE Curve -------------------------------
(***************************************************************************)
(* The elliptic curve y^2 = x^3 - 3 x + b of libraries/crypto/src/ec: field *)
(* elements (gfp256.rs), exponents (exponent256.rs), elements in Montgomery *)
(* form (montgomery.rs) and points (point.rs, precomputed.rs).              *)
(*                                                                         *)
(* The code fixes secp256r1.  Field size, order, coefficient and base point *)
(* are parameters here: a prime order curve whose field size and order have *)
(* a leading digit of ones, as Int256 requires.  A point is affine [x, y]   *)
(* or projective [x, y, z].                                                 *)
(*                                                                         *)
(* What is assumed and not modelled: a Montgomery element is the value that *)
(* its limbs stand for, x R modulo the field size, and the operations of    *)
(* montgomery.rs on limbs (sums, products, carries, degree reduction) are   *)
(* taken to compute these values; the literals of precomputed.rs are taken  *)
(* to be the points that they are said to be.                               *)
(***************************************************************************)
EXTENDS Int256

CONSTANTS FIELD,    \* number of field elements, a prime
          ORDER,    \* number of points, a prime
          COEFF_B,  \* coefficient b
          BASE_X,   \* coordinates of the base point
          BASE_Y

ASSUME CurveAssumption ==
    /\ NBITS % 8 = 0
    /\ \A m \in {FIELD, ORDER} : m \in (Base - 1) * Base ^ (NDIGITS - 1) .. Base ^ NDIGITS - 1
    /\ COEFF_B \in 1 .. FIELD - 1
    /\ BASE_X \in 1 .. FIELD - 1 /\ BASE_Y \in 1 .. FIELD - 1

P == DigitsOf(FIELD)
N == DigitsOf(ORDER)
N_MIN_2 == DigitsOf(ORDER - 2)

(* Ordinary products and (positive) powers modulo m, within 32 bits.        *)
MulMod(a, b, m) == ((((a * (b \div 256)) % m) * 256) + a * (b % 256)) % m

PowMod(a, e, m) ==
    LET pow[k \in 0 .. e] ==
            IF k = 0 THEN 1
            ELSE LET half == pow[k \div 2]
                 IN  IF k % 2 = 0 THEN MulMod(half, half, m)
                     ELSE MulMod(MulMod(half, half, m), a, m)
    IN  IF a = 0 THEN 0 ELSE pow[e]
-----------------------------------------------------------------------------
(* Field elements and exponents: Int256 below the modulus.                  *)
from_int_checked(int) == ct_lt(int, P)

is_valid_point_vartime(x, y) ==
    /\ ~is_zero(x) /\ ~is_zero(y)
    /\ LET x3 == modmul(modmul(x, x, P), x, P)
           less(v) == modsub_vartime(v, x, P)
       IN  modadd_vartime(less(less(less(x3))), DigitsOf(COEFF_B), P) = modmul(y, y, P)

(* The coordinates are those of a public key.                               *)
new_checked_vartime(x, y) ==
    from_int_checked(x) /\ from_int_checked(y) /\ is_valid_point_vartime(x, y)

modn(int) == modd(int, N)
exponent_from_int_checked(int) == ct_lt(int, N)
non_zero_from_int_checked(int) == exponent_from_int_checked(int) /\ ~is_zero(int)

(* A random integer is refused or moved into 1 .. ORDER - 1.                *)
uniform_refused(x) == ct_lt(N_MIN_2, x)
gen_uniform(x) == add_digit(x, 1).digits

exponent_mul(a, b) == modmul(a, b, N)
exponent_mul_top(a, b, top) == modmul_top(a, b, top, N).digits
exponent_inv(a) == modpow(a, N_MIN_2, N)
-----------------------------------------------------------------------------
(* Montgomery form.  R is 2^257 in the code, one more than the bits of an   *)
(* integer.                                                                 *)
R == 2 ^ (NBITS + 1) % FIELD
R_INV == PowMod(R, FIELD - 2, FIELD)

field_to_montgomery(gf) == ValueOf(modmul(gf, DigitsOf(R), P))
montgomery_to_field(x) == modmul(DigitsOf(R_INV), DigitsOf(x), P)

(* Assumed of the limb code: what its operations compute, not how.          *)
mont_add(a, b) == (a + b) % FIELD
mont_sub(a, b) == (a - b) % FIELD
mont_mul(a, b) == MulMod(MulMod(a, b, FIELD), R_INV, FIELD)
mont_square(a) == mont_mul(a, a)
mul_scalar2(a) == (2 * a) % FIELD
mul_scalar3(a) == (3 * a) % FIELD
mul_scalar4(a) == (4 * a) % FIELD

MONT_ONE == R
MONT_B == MulMod(COEFF_B, R, FIELD)

(* The inverse, as the power FIELD - 2 that the code's chain of squarings   *)
(* and products computes for its own field (InvChain).                      *)
mont_inv(a) ==
    LET plain == MulMod(a, R_INV, FIELD) IN MulMod(PowMod(plain, FIELD - 2, FIELD), R, FIELD)

a ++ b == mont_add(a, b)
a -- b == mont_sub(a, b)
a ** b == mont_mul(a, b)

(* The chain itself, at its real size: the exponents it builds, each as the *)
(* set of its bits.  Squaring shifts the bits; the factors of a product     *)
(* must have no bit in common for their exponents to add up to the union.   *)
InvChain ==
    LET sq(e, k) == {b + k : b \in e}
        times(e, f) == IF e \cap f = {} THEN e \cup f ELSE {-1}
        self == {0}
        e2 == times(sq(self, 1), self)
        e4 == times(sq(e2, 2), e2)
        e8 == times(sq(e4, 4), e4)
        e16 == times(sq(e8, 8), e8)
        e32 == times(sq(e16, 16), e16)
        e64 == sq(e32, 32)
        high == sq(times(e64, self), 192)
        e80 == times(sq(times(e64, e32), 16), e16)
        e88 == times(sq(e80, 8), e8)
        e92 == times(sq(e88, 4), e4)
        e94 == times(sq(e92, 2), e2)
        low == times(sq(e94, 2), self)
    IN  times(low, high)

(* 2^256 - 2^224 + 2^192 + 2^96 - 1, the field size of secp256r1, less 2.    *)
P256MinusTwo == {0} \cup (2 .. 95) \cup {192} \cup (224 .. 255)
-----------------------------------------------------------------------------
(* The end of the complete addition formulas, common to both.               *)
FinishSum(t0, t1, t2, t3, t4, y) ==
    LET x == mul_scalar3(y -- (MONT_B ** t2))
        plus == t1 ++ x
        minus == t1 -- x
        t2x3 == mul_scalar3(t2)
        yy == mul_scalar3(((MONT_B ** y) -- t2x3) -- t0)
        t0x3 == mul_scalar3(t0) -- t2x3
    IN  [x |-> (t3 ** plus) -- (t4 ** yy),
         y |-> (plus ** minus) ++ (t0x3 ** yy),
         z |-> (t4 ** minus) ++ (t3 ** t0x3)]

(* Sum of two projective points: complete formula, algorithm 4.             *)
point_add(a, b) ==
    LET t0 == a.x ** b.x
        t1 == a.y ** b.y
        t2 == a.z ** b.z
    IN  FinishSum(t0, t1, t2,
                  ((a.x ++ a.y) ** (b.x ++ b.y)) -- (t0 ++ t1),
                  ((a.y ++ a.z) ** (b.y ++ b.z)) -- (t1 ++ t2),
                  ((a.x ++ a.z) ** (b.x ++ b.z)) -- (t0 ++ t2))

(* Sum of a projective and an affine point: algorithm 5.                    *)
add_mixed(a, b) ==
    LET t0 == a.x ** b.x
        t1 == a.y ** b.y
    IN  FinishSum(t0, t1, a.z,
                  ((a.x ++ a.y) ** (b.x ++ b.y)) -- (t0 ++ t1),
                  (b.y ** a.z) ++ a.y,
                  (b.x ** a.z) ++ a.x)

(* Double of a projective point: algorithm 6.                               *)
double(a) ==
    LET t0 == mont_square(a.x)
        t1 == mont_square(a.y)
        t2 == mont_square(a.z)
        t3 == mul_scalar2(a.x ** a.y)
        xz == mul_scalar2(a.x ** a.z)
        y == mul_scalar3((MONT_B ** t2) -- xz)
        t2x3 == mul_scalar3(t2)
        z == mul_scalar3(((MONT_B ** xz) -- t2x3) -- t0)
        t0x3 == mul_scalar3(t0) -- t2x3
        yz == mul_scalar2(a.y ** a.z)
    IN  [x |-> ((t1 -- y) ** t3) -- (yz ** z),
         y |-> ((t1 -- y) ** (t1 ++ y)) ++ (t0x3 ** z),
         z |-> mul_scalar4(yz ** t1)]

from_affine(p) == [x |-> p.x, y |-> p.y, z |-> MONT_ONE]

projective_to_affine(p) ==
    LET zinv == mont_inv(p.z) IN [x |-> p.x ** zinv, y |-> p.y ** zinv]

to_affine(p) == [x |-> field_to_montgomery(p.x), y |-> field_to_montgomery(p.y)]

from_projective(p) ==
    LET affine == projective_to_affine(p)
    IN  [x |-> montgomery_to_field(affine.x), y |-> montgomery_to_field(affine.y)]

ZeroPoint == [x |-> 0, y |-> 0, z |-> 0]

BasePoint == to_affine([x |-> DigitsOf(BASE_X), y |-> DigitsOf(BASE_Y)])

(* Comb is the number of bits per tooth of the comb: 32 in the code.        *)
Comb == NBITS \div 8

(* 2^e times an affine point, and the table of precomputed points: the sums *)
(* of the base point's multiples by 2^(Comb (offset + 2 b)), for the bits b *)
(* of the index.  The code has them as literals, which depend on the curve; *)
(* they are assumed to be these points, so a wrong one cannot be seen here. *)
Shifted(p, e) ==
    LET d[k \in 0 .. e] == IF k = 0 THEN from_affine(p) ELSE double(d[k - 1])
    IN  projective_to_affine(d[e])

PRECOMPUTED ==
    LET tooth == [offset \in 0 .. 1 |->
                    [b \in 0 .. 3 |-> Shifted(BasePoint, Comb * (offset + 2 * b))]]
        entry(offset, index) ==
            LET sum[b \in 0 .. 4] ==
                    IF b = 0 THEN [x |-> 0, y |-> MONT_ONE, z |-> 0]
                    ELSE IF (index \div 2 ^ (b - 1)) % 2 = 0 THEN sum[b - 1]
                    ELSE add_mixed(sum[b - 1], tooth[offset][b - 1])
            IN  projective_to_affine(sum[4])
    IN  [offset \in 0 .. 1 |-> [index \in 1 .. 15 |-> entry(offset, index)]]

(* Entry of a table of fifteen points; index 0 selects zeros.               *)
affine_select_point(table, index) == IF index = 0 THEN [x |-> 0, y |-> 0] ELSE table[index]
select_point(table, index) == IF index = 0 THEN ZeroPoint ELSE table[index]

(* Mutant: adds the entry for index 0 as well.                              *)
Accumulate_Always(inf, n, p, index, sum) ==
    IF inf THEN [n |-> p, inf |-> index = 0] ELSE [n |-> sum, inf |-> FALSE]

(* One addition of the loops below: p, selected by index, is added to the   *)
(* running sum n, unless the sum (inf) or p (index 0) is still infinite.    *)
Accumulate(inf, n, p, index, sum) ==
    IF inf THEN [n |-> p, inf |-> index = 0]
    ELSE [n |-> IF index = 0 THEN n ELSE sum, inf |-> FALSE]

(* scalar * base point: two additions per doubling.                         *)
scalar_base_mul(scalar) ==
    LET acc[s \in 0 .. 2 * Comb] ==
            IF s = 0 THEN [n |-> ZeroPoint, inf |-> TRUE]
            ELSE LET before == acc[s - 1]
                     i == (s - 1) \div 2
                     offset == (s - 1) % 2
                     n == IF offset = 0 /\ i # 0 THEN double(before.n) ELSE before.n
                     j(b) == Comb - 1 - i + Comb * offset + 2 * Comb * b
                     index == bit(scalar, j(0)) + 2 * bit(scalar, j(1))
                              + 4 * bit(scalar, j(2)) + 8 * bit(scalar, j(3))
                     p == affine_select_point(PRECOMPUTED[offset], index)
                 IN  Accumulate(before.inf, n, from_affine(p), index, add_mixed(n, p))
    IN  acc[2 * Comb].n

(* scalar * p, by windows of four bits and a table of fifteen multiples.    *)
scalar_mul(p, scalar) ==
    LET multiple[k \in 1 .. 15] ==
            IF k = 1 THEN from_affine(p)
            ELSE IF k % 2 = 0 THEN double(multiple[k \div 2])
            ELSE add_mixed(multiple[k - 1], p)
        acc[s \in 0 .. NBITS \div 4] ==
            IF s = 0 THEN [n |-> ZeroPoint, inf |-> TRUE]
            ELSE LET before == acc[s - 1]
                     top == NBITS - 1 - 4 * (s - 1)
                     n == IF s = 1 THEN before.n
                          ELSE double(double(double(double(before.n))))
                     index == 8 * bit(scalar, top) + 4 * bit(scalar, top - 1)
                              + 2 * bit(scalar, top - 2) + bit(scalar, top - 3)
                     q == select_point(multiple, index)
                 IN  Accumulate(before.inf, n, q, index, point_add(n, q))
    IN  acc[NBITS \div 4].n

base_point_mul(n) == from_projective(scalar_base_mul(n))
point_mul(p, n) == from_projective(scalar_mul(to_affine(p), n))
points_mul(p, n1, n2) ==
    from_projective(point_add(scalar_base_mul(n1), scalar_mul(to_affine(p), n2)))
-----------------------------------------------------------------------------
(* Reference: the group law by chord and tangent, on integers.              *)
Infinity == <<>>

RefAdd(a, b) ==
    LET slope(num, den) == MulMod(num % FIELD, PowMod(den % FIELD, FIELD - 2, FIELD), FIELD)
        third(s) == LET x == (MulMod(s, s, FIELD) - a[1] - b[1]) % FIELD
                    IN  <<x, (MulMod(s, (a[1] - x) % FIELD, FIELD) - a[2]) % FIELD>>
    IN  IF a = Infinity THEN b
        ELSE IF b = Infinity THEN a
        ELSE IF a[1] # b[1] THEN third(slope(b[2] - a[2], b[1] - a[1]))
        ELSE IF (a[2] + b[2]) % FIELD = 0 THEN Infinity
        ELSE third(slope(3 * MulMod(a[1], a[1], FIELD) - 3, 2 * a[2]))

RefMul(k, p) ==
    LET m[j \in 0 .. k] ==
            IF j = 0 THEN Infinity
            ELSE LET half == m[j \div 2]
                     twice == RefAdd(half, half)
                 IN  IF j % 2 = 0 THEN twice ELSE RefAdd(twice, p)
    IN  m[k]

Plain(p) == <<ValueOf(p.x), ValueOf(p.y)>>
=============================================================================

------------------------------- MODULE Int256 -------------------------------
(***************************************************************************)
(* Arithmetic on integers of a fixed number of digits                      *)
(* (libraries/crypto/src/ec/int256.rs), as the curve arithmetic uses it    *)
(* modulo the field size and the curve order.                              *)
(*                                                                         *)
(* An integer is the sequence of its digits, the least significant first.  *)
(* The code has 8 digits of 32 bits; the number and width of digits are    *)
(* parameters, so that TLC can compute with them.  A byte of the code's    *)
(* serialisation is a digit here.                                          *)
(***************************************************************************)
EXTENDS Integers, Sequences

CONSTANTS
    NDIGITS,        \* digits of an integer (8 in the code)
    BITS_PER_DIGIT  \* bits of a digit (32 in the code)

ASSUME Int256Assumption ==
    /\ NDIGITS \in Nat \ {0, 1}
    /\ BITS_PER_DIGIT \in Nat \ {0, 1}

Power(b, n) == LET p[k \in 0 .. n] == IF k = 0 THEN 1 ELSE b * p[k - 1] IN p[n]

Base == Power(2, BITS_PER_DIGIT)
NBITS == NDIGITS * BITS_PER_DIGIT
Positions == 1 .. NDIGITS
Ints == [Positions -> 0 .. Base - 1]

ZERO == [i \in Positions |-> 0]
ONE == [i \in Positions |-> IF i = 1 THEN 1 ELSE 0]

(* The integer that digits stand for, and back: used to compare with        *)
(* ordinary arithmetic.                                                     *)
Value(a, n) ==
    LET v[i \in 0 .. n] == IF i = 0 THEN 0 ELSE v[i - 1] + a[i] * Power(Base, i - 1)
    IN  v[n]

ValueOf(a) == Value(a, NDIGITS)

DigitsOf(n) == [i \in Positions |-> (n \div Power(Base, i - 1)) % Base]
-----------------------------------------------------------------------------
(* The loop that every operation shares: the digits' sums or differences    *)
(* are made digits again from the least significant one on, passing on the  *)
(* carry or (negative, by an arithmetic shift) the borrow.                  *)
Propagate(sums) ==
    LET carry[i \in 0 .. NDIGITS] ==
            IF i = 0 THEN 0 ELSE (carry[i - 1] + sums[i]) \div Base
    IN  [digits |-> [i \in Positions |-> (carry[i - 1] + sums[i]) % Base],
         out |-> carry[NDIGITS]]

(* Sum and carry.                                                           *)
add(a, b) == Propagate([i \in Positions |-> a[i] + b[i]])

(* Sum of an integer and a digit, and carry.                                *)
add_digit(a, d) == Propagate([i \in Positions |-> a[i] + (IF i = 1 THEN d ELSE 0)])

(* Difference and borrow (0 or -1).                                         *)
sub(a, b) == Propagate([i \in Positions |-> a[i] - b[i]])

(* dst + mod if the choice is made; the carry goes to the top digit.        *)
add_conditional(dst, m, top, choice) ==
    LET sum == Propagate([i \in Positions |-> dst[i] + (IF choice THEN m[i] ELSE 0)])
    IN  [digits |-> sum.digits, top |-> sum.out + top]

(* dst - mod if the choice is made; whether the new top digit is -1.        *)
sub_conditional(dst, m, top, choice) ==
    LET diff == Propagate([i \in Positions |-> dst[i] - (IF choice THEN m[i] ELSE 0)])
    IN  [digits |-> diff.digits, negative |-> (diff.out + top) % Base = Base - 1]

(* dst + src * factor and the carry digit.                                  *)
mul_add(dst, src, factor) == Propagate([i \in Positions |-> dst[i] + src[i] * factor])

(* (dst, top) - (src, src_top) and the new top digit.                       *)
sub_top(dst, src, top, src_top) ==
    LET diff == Propagate([i \in Positions |-> dst[i] - src[i]])
    IN  [digits |-> diff.digits, out |-> diff.out + top - src_top]

(* Constant-time comparison: the borrow of the difference.                  *)
ct_lt(a, b) == sub(a, b).out = -1

is_zero(a) == \A i \in Positions : a[i] = 0

bit(a, i) == (a[1 + i \div BITS_PER_DIGIT] \div 2 ^ (i % BITS_PER_DIGIT)) % 2
-----------------------------------------------------------------------------
(* Shifts by 0 < n < BITS_PER_DIGIT; shl also returns what is shifted out.  *)
shl(a, n) ==
    [digits |-> [i \in Positions |->
                    ((a[i] * 2 ^ n) % Base)
                    + (IF i = 1 THEN 0 ELSE a[i - 1] \div 2 ^ (BITS_PER_DIGIT - n))],
     out |-> a[NDIGITS] \div 2 ^ (BITS_PER_DIGIT - n)]

shr(a, n) ==
    [i \in Positions |->
        (a[i] \div 2 ^ n)
        + (IF i = NDIGITS THEN 0 ELSE (a[i + 1] * 2 ^ (BITS_PER_DIGIT - n)) % Base)]

(* Reduction: one subtraction, taken back if it was too much.  Enough for   *)
(* every integer when the modulus has its most significant bit set.         *)
modd(a, m) ==
    LET less == sub_conditional(a, m, 0, TRUE)
    IN  add_conditional(less.digits, m, 0, less.negative).digits

modsub_vartime(a, b, m) ==
    LET diff == sub(a, b) IN IF diff.out # 0 THEN add(diff.digits, m).digits ELSE diff.digits

modadd_vartime(a, b, m) ==
    LET sum == add(a, b)
        tmp == IF sum.out # 0 THEN sub(sum.digits, m).digits ELSE sum.digits
    IN  modsub_vartime(tmp, m, m)
-----------------------------------------------------------------------------
(* NDIGITS digits of the long accumulator tmp after the first i, and tmp    *)
(* with them replaced.                                                      *)
Slice(tmp, i) == SubSeq(tmp, i + 1, i + NDIGITS)
WithSlice(tmp, i, digits) ==
    SubSeq(tmp, 1, i) \o digits \o SubSeq(tmp, i + NDIGITS + 1, Len(tmp))

(* One digit of the product: r is [tmp, top], its top digit is put in its    *)
(* place before a * digit is added after the first i digits.                *)
MultiplyStep(r, i, a, digit) ==
    LET tmp == [r.tmp EXCEPT ![i + NDIGITS] = r.top]
        sum == mul_add(Slice(tmp, i), a, digit)
    IN  [tmp |-> WithSlice(tmp, i, sum.digits), top |-> sum.out]

(* The product a * (b, top_b), schoolbook.                                  *)
Product(a, b, top_b) ==
    LET row[i \in 0 .. NDIGITS] ==
            IF i = 0 THEN [tmp |-> [j \in 1 .. 2 * NDIGITS + 1 |-> 0], top |-> 0]
            ELSE MultiplyStep(row[i - 1], i - 1, a, b[i])
    IN  MultiplyStep(row[NDIGITS], NDIGITS, a, top_b)

(* Mutant: takes the estimate of the quotient digit for the digit.          *)
ReduceStep_NoCorrection(r, i, m) ==
    LET reducer == mul_add(ZERO, m, r.top)
        less == sub_top(Slice(r.tmp, i), reducer.digits, r.top, reducer.out)
    IN  [tmp |-> WithSlice(r.tmp, i, less.digits), top |-> less.digits[NDIGITS], holds |-> r.holds]

(* One digit of the reduction: the top digit estimates the quotient of the  *)
(* digits after the first i, because the most significant digit of the      *)
(* modulus is Base - 1, and is at most one too small.  holds gathers the    *)
(* assertions of the code.                                                  *)
ReduceStep(r, i, m) ==
    LET reducer == mul_add(ZERO, m, r.top)
        less == sub_top(Slice(r.tmp, i), reducer.digits, r.top, reducer.out)
        top == less.out % Base
        rest == sub_conditional(less.digits, m, top, top = 1)
    IN  [tmp |-> WithSlice(r.tmp, i, rest.digits),
         top |-> rest.digits[NDIGITS],
         holds |-> /\ r.holds
                   /\ less.out \in 0 .. 1
                   /\ ~rest.negative]

(* a * (b, top_b) modulo m, with whether all assertions of the code held.   *)
(* It is a function's value, so that TLC computes a and b once and first.   *)
modmul_top(a, b, top_b, m) ==
    LET reduced == [p \in Ints \X Ints |->
            LET product == Product(p[1], p[2], top_b)
                step[j \in 0 .. NDIGITS + 1] ==
                    IF j = 0 THEN [tmp |-> product.tmp, top |-> product.top, holds |-> TRUE]
                    ELSE ReduceStep(step[j - 1], NDIGITS - (j - 1), m)
                last == step[NDIGITS + 1]
            IN  [digits |-> modd(Slice(last.tmp, 0), m), holds |-> last.holds]]
    IN  reduced[<<a, b>>]

modmul(a, b, m) == modmul_top(a, b, 0, m).digits

(* Exponentiation by windows of four bits with the table of the first       *)
(* fifteen powers; the multiplication of a zero window is computed and      *)
(* dropped.                                                                 *)
modpow(a, power, m) ==
    LET square(x) == modmul(x, x, m)
        tbl[i \in 1 .. 15] == IF i = 1 THEN a ELSE modmul(tbl[i - 1], a, m)
        window(i) == bit(power, i - 1) * 8 + bit(power, i - 2) * 4
                     + bit(power, i - 3) * 2 + bit(power, i - 4)
        result[j \in 0 .. NBITS \div 4] ==
            IF j = 0 THEN ONE
            ELSE LET x == square(square(square(square(result[j - 1]))))
                     idx == window(NBITS - 4 * (j - 1))
                 IN  IF idx = 0 THEN x ELSE modmul(tbl[idx], x, m)
    IN  result[NBITS \div 4]
-----------------------------------------------------------------------------
(* Big-endian bytes, and the shortest signed big-endian encoding of the     *)
(* integer (the content of a DER INTEGER).                                  *)
to_bin(a) == [i \in Positions |-> a[NDIGITS + 1 - i]]
from_bin(bytes) == [i \in Positions |-> bytes[NDIGITS + 1 - i]]

to_minimal_encoding(a) ==
    LET bytes == to_bin(a)
        first == {i \in Positions : bytes[i] # 0 /\ \A j \in 1 .. i - 1 : bytes[j] = 0}
    IN  IF first = {} THEN <<0>>
        ELSE LET pos == CHOOSE i \in first : TRUE
                 tail == SubSeq(bytes, pos, NDIGITS)
             IN  IF bytes[pos] >= Base \div 2 THEN <<0>> \o tail ELSE tail
=============================================================================

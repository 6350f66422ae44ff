------------------------------- MODULE Ecdsa -------------------------------
(***************************************************************************)
(* Signatures (libraries/crypto/src/ecdsa.rs) and key agreement            *)
(* (libraries/crypto/src/ecdh.rs) over Curve.  The hash of a message is an *)
(* integer given as input; the candidates for the randomization parameter, *)
(* drawn by the random generator or by RFC 6979, are a sequence given as   *)
(* input.                                                                  *)
(***************************************************************************)
EXTENDS Curve

NONE == <<>>

(* A secret key is drawn again until the random integer is in range.        *)
RECURSIVE gensk(_)
gensk(draws) ==
    IF draws = <<>> THEN NONE
    ELSE IF uniform_refused(Head(draws)) THEN gensk(Tail(draws))
    ELSE gen_uniform(Head(draws))

genpk(k) == base_point_mul(k)

(* The key of its serialised form, or NONE.                                 *)
seckey_from_bytes(bytes) ==
    LET k == from_bin(bytes) IN IF non_zero_from_int_checked(k) THEN k ELSE NONE
seckey_to_bytes(k) == to_bin(k)

(* Mutant: drops the carry of the sum of two residues.                      *)
try_sign_NoCarry(sk, k, msg) ==
    LET r == modn(base_point_mul(k).x)
        s == exponent_mul(exponent_inv(k), modd(add(exponent_mul(r, sk), msg).digits, N))
    IN  IF is_zero(r) \/ is_zero(s) THEN NONE ELSE <<r, s>>

(* One attempt with randomization parameter k, or NONE.                     *)
try_sign(sk, k, msg) ==
    LET r == modn(base_point_mul(k).x)
        sum == add(exponent_mul(r, sk), msg)
        s == exponent_mul_top(exponent_inv(k), sum.digits, sum.out)
    IN  IF is_zero(r) \/ is_zero(s) THEN NONE ELSE <<r, s>>

(* Deterministic signature: candidates out of range are passed over, as are *)
(* those that yield no signature.                                           *)
RECURSIVE SignWith(_, _, _)
SignWith(sk, m, candidates) ==
    IF candidates = <<>> THEN NONE
    ELSE LET k == Head(candidates)
             signature == IF non_zero_from_int_checked(k) THEN try_sign(sk, k, m) ELSE NONE
         IN  IF signature # NONE THEN signature ELSE SignWith(sk, m, Tail(candidates))

sign_rfc6979(sk, hash, candidates) == SignWith(sk, modn(hash), candidates)

(* Signature with random parameters: each candidate goes through            *)
(* gen_uniform.                                                             *)
sign_rng(sk, hash, draws) ==
    LET accepted == SelectSeq(draws, LAMBDA x : ~uniform_refused(x))
    IN  SignWith(sk, modn(hash), [i \in 1 .. Len(accepted) |-> gen_uniform(accepted[i])])

verify_vartime(pk, hash, signature) ==
    LET v == exponent_inv(signature[2])
        u1 == exponent_mul(modn(hash), v)
        u2 == exponent_mul(signature[1], v)
    IN  modn(points_mul(pk, u1, u2).x) = signature[1]

(* The fixed-size form of a signature and back, or NONE.                    *)
signature_from_bytes(bytes) ==
    IF Len(bytes) # 2 * NDIGITS THEN NONE
    ELSE LET r == from_bin(SubSeq(bytes, 1, NDIGITS))
             s == from_bin(SubSeq(bytes, NDIGITS + 1, 2 * NDIGITS))
         IN  IF non_zero_from_int_checked(r) /\ non_zero_from_int_checked(s)
             THEN <<r, s>> ELSE NONE

DER_INTEGER_TYPE == 2
DER_DEF_LENGTH_SEQUENCE == 48

to_asn1_der(signature) ==
    LET r == to_minimal_encoding(signature[1])
        s == to_minimal_encoding(signature[2])
    IN  <<DER_DEF_LENGTH_SEQUENCE, Len(r) + Len(s) + 4>>
        \o <<DER_INTEGER_TYPE, Len(r)>> \o r \o <<DER_INTEGER_TYPE, Len(s)>> \o s

(* Public keys from and to coordinates, and the agreed secret: the hash of  *)
(* the abscissa of the product (the hash is left out).                      *)
from_coordinates(x, y) ==
    LET p == [x |-> from_bin(x), y |-> from_bin(y)]
    IN  IF new_checked_vartime(p.x, p.y) THEN p ELSE NONE
to_coordinates(p) == <<to_bin(p.x), to_bin(p.y)>>

B0_BYTE_MARKER == 4
to_uncompressed(p) == <<B0_BYTE_MARKER>> \o to_bin(p.x) \o to_bin(p.y)

(* Its inverse: length, marker and point are checked.                       *)
from_bytes_uncompressed_vartime(bytes) ==
    IF Len(bytes) # 1 + 2 * NDIGITS \/ Head(bytes) # B0_BYTE_MARKER THEN NONE
    ELSE from_coordinates(SubSeq(bytes, 2, 1 + NDIGITS),
                          SubSeq(bytes, 2 + NDIGITS, 1 + 2 * NDIGITS))

exchange_raw(sk, pk) == point_mul(pk, sk)
exchange_x_sha256(sk, pk) == to_bin(exchange_raw(sk, pk).x)
-----------------------------------------------------------------------------
(* Reference for the DER form: a strict decoder.  An integer is in its      *)
(* shortest form if its first byte is needed, as a digit or as a sign.      *)
DerInteger(bytes) ==
    LET len == bytes[2]
        content == SubSeq(bytes, 3, 2 + len)
        short == /\ len > 0 /\ content[1] < Base \div 2
                 /\ len > 1 /\ content[1] = 0 => content[2] >= Base \div 2
        value[i \in 0 .. len] == IF i = 0 THEN 0 ELSE value[i - 1] * Base + content[i]
    IN  IF Len(bytes) >= 2 + len /\ bytes[1] = DER_INTEGER_TYPE /\ short
        THEN [value |-> value[len], rest |-> SubSeq(bytes, 3 + len, Len(bytes))]
        ELSE [value |-> -1, rest |-> bytes]

DerDecodes(bytes, signature) ==
    /\ bytes[1] = DER_DEF_LENGTH_SEQUENCE
    /\ bytes[2] = Len(bytes) - 2
    /\ LET r == DerInteger(SubSeq(bytes, 3, Len(bytes)))
           s == DerInteger(r.rest)
       IN  /\ r.value = ValueOf(signature[1])
           /\ s.value = ValueOf(signature[2])
           /\ s.rest = <<>>
=============================================================================

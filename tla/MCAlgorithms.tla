---------------------------- MODULE MCAlgorithms ----------------------------
(***************************************************************************)
(* The pure algorithms of the system, each computed on a set of inputs and *)
(* compared with a reference.  A behaviour picks an algorithm (bench) and  *)
(* an input, and takes one step, in which the properties compute the       *)
(* output of the algorithm and compare it.                                 *)
(***************************************************************************)
EXTENDS Formats, Words, Apdu, EmbeddedFlash, Hashing

VARIABLES bench, input, computed

vars == <<bench, input, computed>>
-----------------------------------------------------------------------------
(* Integers: a is reduced, b is any integer with a top bit.                 *)
Modulus(name) == IF name = "field" THEN FIELD ELSE ORDER

SomeInts == {0, 1, 15, 16, 256, 4095, 32768, 43690, 61439, 65279, 65535}

IntegerInput ==
    /\ bench = "integer"
    /\ \E m \in {"field", "order"} :
        input \in [m : {m}, top : 0 .. 1,
                   a : {n \in SomeInts : n < Modulus(m)} \cup {Modulus(m) - 2, Modulus(m) - 1},
                   b : SomeInts \cup {Modulus(m) - 1, Modulus(m), Modulus(m) + 1}]

IntegerOutput(in) ==
    LET m == DigitsOf(Modulus(in.m))
        a == DigitsOf(in.a)
        b == DigitsOf(in.b)
        product == modmul_top(a, b, in.top, m)
    IN  [reduced |-> ValueOf(modd(b, m)),
         sum |-> ValueOf(modadd_vartime(a, modd(b, m), m)),
         diff |-> ValueOf(modsub_vartime(a, modd(b, m), m)),
         less |-> ct_lt(a, b),
         left |-> shl(b, 3),
         right |-> ValueOf(shr(b, 3)),
         product |-> ValueOf(product.digits),
         holds |-> product.holds]

(* The arithmetic modulo the field size and modulo the order is ordinary    *)
(* modular arithmetic, and no assertion of the code fails: the estimate of  *)
(* the quotient digit in modmul_top is at most one too small, with a carry, *)
(* a zero digit or an operand with a top digit as well (int256.rs).         *)
ModularArithmetic ==
    [][bench = "integer" =>
        LET output == IntegerOutput(input)
            m == Modulus(input.m)
            b == input.b
        IN  /\ output.reduced = b % m
            /\ output.sum = (input.a + b) % m
            /\ output.diff = (input.a - b) % m
            /\ output.less <=> input.a < b
            /\ ValueOf(output.left.digits) + 65536 * output.left.out = b * 8
            /\ output.right = b \div 8
            /\ output.product = MulMod(input.a, (b + 65536 * input.top) % m, m)
            /\ output.holds]_vars
-----------------------------------------------------------------------------
(* Points: the key pairs of two scalars, and the agreed secret.             *)
SomeScalars == {1, 2, 3, 15, 16, 255, 4096, 4112, 21845, 43690, 61440, ORDER - 2, ORDER - 1}

PointInputs == [a : SomeScalars, b : {1, 2, 94, 32769, ORDER - 1}, dx : {-1, 0}, dy : {0, 1}]

PointInput == bench = "point" /\ input \in PointInputs

PointOutput(in) ==
    LET a == DigitsOf(in.a)
        b == DigitsOf(in.b)
        pa == genpk(a)
        pb == genpk(b)
        x == (ValueOf(pa.x) + in.dx) % FIELD
        y == (ValueOf(pa.y) + in.dy) % FIELD
    IN  [public |-> Plain(pa),
         shared |-> Plain(exchange_raw(a, pb)),
         agrees |-> exchange_x_sha256(a, pb) = exchange_x_sha256(b, pa),
         sum |-> Plain(points_mul(pb, a, b)),
         accepts |-> from_bytes_uncompressed_vartime(
                        to_uncompressed([x |-> DigitsOf(x), y |-> DigitsOf(y)])) # NONE]

(* Scalar multiplication of the base point by the comb with precomputed     *)
(* tables, of a point by windows, and their sum are the multiples of the    *)
(* group law, so the two sides of a key agreement share a secret; the code  *)
(* accepts exactly the points of the curve, and its chain of squarings      *)
(* raises to the field size less two (point.rs, ecdh.rs, inv of             *)
(* montgomery.rs).  Assumed: the limb arithmetic of montgomery.rs computes  *)
(* sums and products in the field, and the literals of precomputed.rs are   *)
(* the multiples of the base point.                                         *)
ScalarMultiplication ==
    [][bench = "point" =>
        LET output == PointOutput(input)
            base == <<BASE_X, BASE_Y>>
            b == RefMul(input.b, base)
            ab == MulMod(input.a, input.b, ORDER)
            sum == RefMul((input.a + MulMod(input.b, input.b, ORDER)) % ORDER, base)
            x == (output.public[1] + input.dx) % FIELD
            y == (output.public[2] + input.dy) % FIELD
        IN  /\ output.public = RefMul(input.a, base)
            /\ output.shared = RefMul(ab, base)
            /\ output.agrees
            /\ sum # Infinity => output.sum = sum
            /\ output.accepts <=>
                 /\ x # 0 /\ y # 0
                 /\ MulMod(y, y, FIELD)
                      = (MulMod(MulMod(x, x, FIELD), x, FIELD) - 3 * x + COEFF_B) % FIELD
            /\ InvChain = P256MinusTwo]_vars
-----------------------------------------------------------------------------
(* Signatures: the first candidate may be out of range, or leave s at zero. *)
Annuls(sk, k) ==
    LET r == RefMul(k, <<BASE_X, BASE_Y>>)[1] IN (-MulMod(r, sk, ORDER)) % ORDER

SignInputs ==
    [sk : {1, 2, 40000, ORDER - 1},
     hash : {1, 4660, ORDER - 1, ORDER + 1, 65535} \cup {Annuls(40000, 2)},
     candidates : {<<2, 30000>>, <<0, 2, 9>>, <<ORDER, 5>>, <<ORDER - 1, 7>>, <<65535, 1, 94>>},
     rng : BOOLEAN]

SignInput == bench = "sign" /\ input \in SignInputs

SignOutput(in) ==
    LET candidates == [i \in DOMAIN in.candidates |-> DigitsOf(in.candidates[i])]
        sk == seckey_from_bytes(seckey_to_bytes(gensk(<<DigitsOf(65535), DigitsOf(in.sk - 1)>>)))
        hash == DigitsOf(in.hash)
        signature == IF in.rng THEN sign_rng(sk, hash, candidates)
                     ELSE sign_rfc6979(sk, hash, candidates)
        pk == genpk(sk)
    IN  IF signature = NONE THEN [signature |-> NONE]
        ELSE [signature |-> signature,
              bytes |-> signature_from_bytes(to_bin(signature[1]) \o to_bin(signature[2])),
              der |-> to_asn1_der(signature),
              verifies |-> verify_vartime(pk, hash, signature),
              other |-> verify_vartime(pk, add_digit(hash, 1).digits, signature)]

(* A signature is found after an unusable candidate, verifies with the      *)
(* public key for the signed hash and for no neighbouring one, and its      *)
(* fixed-size and DER forms decode back to it; hashes at or above the order *)
(* are reduced (ecdsa.rs).  A hash that is zero modulo the order is left    *)
(* out: verify_vartime does not treat a zero multiple of the base point as  *)
(* neutral.                                                                 *)
SignaturesVerify ==
    [][bench = "sign" =>
        LET output == SignOutput(input)
        IN  /\ output.signature # NONE
            /\ output.bytes = output.signature
            /\ DerDecodes(output.der, output.signature)
            /\ output.verifies
            /\ output.other => input.hash \in {65535, ORDER - 1}]_vars
-----------------------------------------------------------------------------
(* Words of the flash: infos of pages, internal entries and user entries.   *)
SomeBytes == {{}, {0, BYTE_BITS - 1}}

SomeValues == UNION {[1 .. n -> SomeBytes] : n \in 0 .. MAX_VALUE_LEN}

WordInput ==
    /\ bench = "word"
    /\ \/ input \in [kind : {"init"}, cycle : 0 .. MAX_ERASE_CYCLE, prefix : 0 .. MAX_PREFIX]
       \/ input \in [kind : {"compact"}, tail : 0 .. MAX_TAIL]
       \/ \E k \in DOMAIN InternalEntry :
            input \in [kind : {k}, value : 0 .. InternalEntry[k].max]
       \/ input \in [kind : {"user"}, key : {0, MAX_KEY_INDEX}, value : SomeValues]

WordOutput(in) ==
    LET w == CASE in.kind = "init" -> build_init(in.cycle, in.prefix)
               [] in.kind = "compact" -> build_compact(in.tail)
               [] in.kind = "user" -> build_user(in.key, in.value)
               [] OTHER -> build_internal(in.kind, in.value)
    IN  IF in.kind = "user" THEN w ELSE [words |-> <<w.word>>, ok |-> w.ok]

ParsedWord(kind, word) ==
    CASE kind = "init" -> parse_init(word)
      [] kind = "compact" -> parse_compact(word)
      [] OTHER -> parse_word(word)

(* Every word that is written can be read back, and no interruption of a    *)
(* write leaves something else that is taken as written: whichever of the   *)
(* bits were cleared, a word is erased or fails its checksum, and a user    *)
(* entry is complete with its last bit only, even if its value ends with    *)
(* ones (format.rs, bitfield.rs).                                           *)
PartialWordsDetected ==
    [][bench = "word" =>
        LET output == WordOutput(input)
            done == ParsedWord(input.kind, output.words[1])
        IN  /\ output.ok
            /\ IF input.kind # "user"
               THEN /\ done.state = input.kind
                    /\ \A f \in DOMAIN input \ {"kind"} : done[f] = input[f]
                    /\ \A words \in Interrupted(output.words) :
                         ParsedWord(input.kind, words[1]) \in {Erased, Partial}
               ELSE /\ done.state = "header" /\ done.key = input.key
                    /\ done.length = Len(input.value)
                    /\ header_check(done, output.words)
                    /\ \A i \in 2 .. Len(output.words) :
                         Read(done, output.words)[i] = ValueWord(input.value, i - 1)
                    /\ parse_word(set_deleted(output.words[1]))
                         = [state |-> "padding", length |-> Len(output.words) - 1]
                    /\ \A words \in Interrupted(output.words) :
                         LET part == parse_word(words[1])
                         IN  \/ part \in {Erased, Partial}
                             \/ part.state = "header" /\ ~header_check(part, words)]_vars
-----------------------------------------------------------------------------
(* CBOR: every short sequence of bytes of each kind, and the encodings of   *)
(* some values with one byte replaced, left out or added.                   *)
SomeCborBytes == {0, 1, 23, 24, 25, 32, 56, 65, 88, 97, 128, 129, 160, 161, 162, 192, 244, 248}

SomeCborValues ==
    LET nested == cbor_array(<<cbor_array(<<cbor_array(<<cbor_bool(TRUE)>>)>>)>>)
        long == cbor_bytes([i \in 1 .. 24 |-> 7])
    IN  {cbor_unsigned(n) : n \in {0, 23, 24, 255, 256, 65535, 65536}}
          \cup {cbor_int(n) : n \in {-1, -24, -25, -256, -257}}
          \cup {[t |-> 0, v |-> <<1, 0, 0, 0, 0>>], [t |-> 1, v |-> <<127, 0, 0, 0, 0, 0, 0, 1>>]}
          \cup {long, cbor_text(<<97, 98>>), nested, cbor_array(<<cbor_array(<<nested>>)>>)}
          \cup {cbor_map(<<<<cbor_text(<<98>>), nested>>, <<cbor_int(-1), long>>,
                           <<cbor_text(<<97>>), cbor_map(<<>>)>>, <<cbor_unsigned(3), cbor_bool(FALSE)>>>>)}

Perturbed(bytes) ==
    {bytes} \cup {ReplaceAt(bytes, i, b) : i \in DOMAIN bytes, b \in SomeCborBytes \cup {27, 127}}
            \cup {RemoveAt(bytes, i) : i \in DOMAIN bytes}
            \cup {Append(bytes, 0)}

CborInput ==
    /\ bench = "cbor"
    /\ \/ \E n \in 0 .. 3 : input \in [kind : {"read"}, bytes : [1 .. n -> SomeCborBytes]]
       \/ \E value \in {v \in SomeCborValues : write(v) # NotWritten} :
            input \in [kind : {"read"}, bytes : Perturbed(write(value))]
       \/ input \in [kind : {"write"}, value : SomeCborValues]

CborOutput(in) == IF in.kind = "write" THEN write(in.value) ELSE read(in.bytes)

RECURSIVE Depth(_)

Depth(value) ==
    CASE value.t = 4 -> 1 + Max({0} \cup {Depth(value.v[i]) : i \in DOMAIN value.v})
      [] value.t = 5 -> 1 + Max({0} \cup {Depth(value.v[i][2]) : i \in DOMAIN value.v})
      [] OTHER -> 0

(* A value has one encoding: what the reader accepts is what the writer     *)
(* writes for the value it returns, so neither a longer length, an unsorted *)
(* or repeated key, nor data at the end is accepted; and the writer and the *)
(* reader agree on every value, and on the depth of nesting that they       *)
(* support (reader.rs, writer.rs).  Strings whose length does not fit usize *)
(* are the exception (read_string_content).                                 *)
CborCanonical ==
    [][bench = "cbor" =>
        LET output == CborOutput(input)
        IN  IF input.kind = "write"
            THEN IF Depth(input.value) <= MAX_NESTING_DEPTH
                 THEN read(output) = Item(input.value, <<>>, FALSE)
                 ELSE output = NotWritten
            ELSE output.ok /\ ~output.cut => write(output.value) = input.bytes]_vars
-----------------------------------------------------------------------------
(* APDUs: fields of lengths, data and expected lengths that fit or do not.  *)
SomeHeaders ==
    {<<0, U2F_REGISTER, 0, 0>>, <<0, U2F_AUTHENTICATE, 3, 0>>, <<0, U2F_AUTHENTICATE, 8, 0>>,
     <<0, U2F_AUTHENTICATE, 0, 0>>, <<0, U2F_VERSION, 0, 0>>, <<0, 4, 0, 0>>, <<0, 64, 0, 0>>,
     <<1, U2F_REGISTER, 7, 0>>}

SomeLcs == {<<>>} \cup {<<n>> : n \in 0 .. 5} \cup {<<0, 0, n>> : n \in 0 .. 5} \cup {<<0, 1, 0>>, <<1, 0, 4>>}

SomeLes == {<<>>, <<0>>, <<9>>, <<0, 0>>, <<1, 2>>, <<0, 0, 5>>, <<3, 0, 0>>, <<0, 0, 0, 0>>}

ApduInput ==
    /\ bench = "apdu"
    /\ \/ input \in {<<>>, <<0>>, <<0, 1, 0>>}
       \/ \E header \in SomeHeaders, lc \in SomeLcs, data \in SeqOf({0, 1}, 4), le \in SomeLes :
            input = header \o lc \o data \o le

ApduOutput(in) == [apdu |-> apdu_try_from(in), command |-> u2f_try_from(in)]

(* What a frame with these fields looks like, by its case.                  *)
Framed(apdu) ==
    LET u16(n) == <<(n \div 256) % 256, n % 256>>
        lc == CASE apdu.case_type \in {"Instruction", "Le1"} -> <<>>
                [] apdu.case_type \in {"Lc1Data", "Lc1DataLe1"} -> <<apdu.lc>>
                [] OTHER -> <<0>> \o u16(apdu.lc)
        le == CASE apdu.case_type \in {"Instruction", "Lc1Data", "Lc3Data"} -> <<>>
                [] apdu.case_type \in {"Le1", "Lc1DataLe1", "Lc3DataLe1"} -> <<apdu.le % 256>>
                [] apdu.case_type = "Lc3DataLe2" -> u16(apdu.le)
                [] OTHER -> <<0>> \o u16(apdu.le)
    IN  apdu.header \o lc \o apdu.data \o le

(* Every byte of an accepted frame is accounted for, once: the lengths      *)
(* found by comparing the size of the frame with the possible fields are    *)
(* those of the frame; and a command that is accepted has a challenge, an   *)
(* application and a key handle of the length that its message declares,    *)
(* none of them read past the data (apdu.rs, ctap1.rs).                     *)
FramesAccountedFor ==
    bench = "apdu" =>
        LET output == ApduOutput(input)
            apdu == output.apdu
            command == output.command
        IN  /\ apdu.ok => Framed(apdu) = input /\ Len(apdu.data) = apdu.lc
            /\ command.ok => apdu.ok
            /\ command.ok /\ command.command \in {"Register", "Authenticate"} =>
                 /\ Len(command.challenge) = HASH_LEN
                 /\ Len(command.application) = HASH_LEN
                 /\ apdu.data = command.challenge \o command.application \o
                      (IF command.command = "Register" THEN <<>>
                       ELSE <<Len(command.key_handle)>> \o command.key_handle)
-----------------------------------------------------------------------------
(* CTAP2: a complete request for each command, and what becomes of it when  *)
(* a part is left out, replaced or added; stored credentials, keys and      *)
(* responses.                                                               *)
\* The public key of 94.
SomeKey == [x |-> DigitsOf(65091), y |-> DigitsOf(39568)]

SomeDescriptor ==
    [key_type |-> "PublicKey", key_id |-> <<1, 2>>, transports |-> <<<<"Usb", "Internal">>>>]

SomeUser ==
    [user_id |-> <<9>>, user_name |-> <<<<97>>>>, user_display_name |-> <<<<98>>>>, user_icon |-> <<<<99>>>>]

SomeRequests ==
    1 :> cbor_map(<<<<tag(1), cbor_bytes(<<1>>)>>,
                    <<tag(2), cbor_map(<<<<text("id"), cbor_text(<<97>>)>>, <<text("name"), cbor_text(<<98>>)>>>>)>>,
                    <<tag(3), FromUserEntity(SomeUser)>>,
                    <<tag(4), cbor_array(<<FromParameter([cred_type |-> "PublicKey", alg |-> "ES256"])>>)>>,
                    <<tag(5), cbor_array(<<FromDescriptor(SomeDescriptor)>>)>>,
                    <<tag(6), cbor_map(<<<<text("credProtect"), tag(2)>>, <<text("hmac-secret"), cbor_bool(TRUE)>>>>)>>,
                    <<tag(7), cbor_map(<<<<text("rk"), cbor_bool(TRUE)>>, <<text("uv"), cbor_bool(FALSE)>>>>)>>,
                    <<tag(8), cbor_bytes(<<3>>)>>, <<tag(9), tag(1)>>>>)
    @@ 2 :> cbor_map(<<<<tag(1), cbor_text(<<97>>)>>, <<tag(2), cbor_bytes(<<1>>)>>,
                       <<tag(3), cbor_array(<<FromDescriptor(SomeDescriptor)>>)>>,
                       <<tag(4), cbor_map(<<<<text("hmac-secret"),
                           cbor_map(<<<<tag(1), CoseKeyFrom(SomeKey)>>, <<tag(2), cbor_bytes(<<1>>)>>,
                                      <<tag(3), cbor_bytes(<<2>>)>>>>)>>>>)>>,
                       <<tag(5), cbor_map(<<<<text("up"), cbor_bool(FALSE)>>>>)>>>>)
    @@ 6 :> cbor_map(<<<<tag(1), tag(1)>>, <<tag(2), tag(9)>>, <<tag(3), CoseKeyFrom(SomeKey)>>,
                       <<tag(6), cbor_bytes(<<1>>)>>, <<tag(7), tag(255)>>,
                       <<tag(8), cbor_array(<<cbor_text(<<97>>)>>)>>, <<tag(9), tag(259)>>,
                       <<tag(10), cbor_text(<<97>>)>>>>)
    @@ 64 :> cbor_map(<<<<tag(1), cbor_bool(TRUE)>>,
                        <<tag(2), cbor_map(<<<<tag(1), cbor_bytes(<<5>>)>>,
                                             <<tag(2), cbor_bytes(<<1, 2, 3, 4>>)>>>>)>>>>)

OtherValues == {tag(4), tag(256), tag(-1), cbor_bytes(<<1>>), cbor_text(<<97>>), cbor_bool(TRUE),
                [t |-> 7, v |-> 22], cbor_array(<<>>), cbor_map(<<>>)}

OtherKeys == {tag(0), tag(5), tag(11), tag(-1), cbor_text(<<2>>), cbor_text(<<3>>), cbor_text(<<127>>)}

RECURSIVE Altered(_)

Altered(value) ==
    {value} \cup OtherValues
    \cup (CASE value.t = 4 ->
                UNION {{cbor_array(ReplaceAt(value.v, i, x)) : x \in Altered(value.v[i])} : i \in DOMAIN value.v}
            [] value.t = 5 ->
                UNION {{[value EXCEPT !.v[i][2] = x] : x \in Altered(value.v[i][2])} : i \in DOMAIN value.v}
                \cup {[value EXCEPT !.v = RemoveAt(value.v, i)] : i \in DOMAIN value.v}
                \cup {cbor_map(Append(value.v, <<key, tag(1)>>)) :
                        key \in OtherKeys \ {value.v[i][1] : i \in DOMAIN value.v}}
            [] OTHER -> {})

SomeCredentials ==
    [credential_id : {<<1>>}, private_key : {DigitsOf(1), DigitsOf(ORDER - 1)}, rp_id : {<<97>>},
     user_handle : {<<>>, <<7>>}, user_display_name : {<<>>, <<<<98>>>>},
     cred_protect_policy : {<<>>, <<1>>, <<3>>}, creation_order : {<<>>, <<5>>, <<255, 255, 255>>},
     user_name : {<<>>, <<<<99>>>>}, user_icon : {<<>>, <<<<100>>>>}]

SomeResponses ==
    {process_get_info(TRUE, 4),
     MakeCredentialResponse([fmt |-> text("packed"), auth_data |-> <<1>>,
                             att_stmt |-> [sig |-> <<2>>, x5c |-> <<<<3>>>>, ecdaa_key_id |-> <<<<4>>>>]]),
     GetAssertionResponse([credential |-> <<SomeDescriptor>>, auth_data |-> <<1>>, signature |-> <<2>>,
                           user |-> <<SomeUser>>, number |-> <<2>>]),
     ClientPinResponse([key_agreement |-> <<SomeKey>>, pin_token |-> <<<<1>>>>, retries |-> <<8>>]),
     VendorResponse([cert_programmed |-> TRUE, pkey_programmed |-> FALSE])}

RequestInputs ==
    UNION {[kind : {"request"}, code : {code}, value : Altered(SomeRequests[code])] :
             code \in DOMAIN SomeRequests}

FormatInputs ==
    RequestInputs
    \cup [kind : {"credential"}, credential : SomeCredentials]
    \cup [kind : {"key"}, dx : {-1, 0, 1}, dy : {-1, 0, 1}]
    \cup [kind : {"response"}, value : SomeResponses]
    \cup [kind : {"bare"}, bytes : {<<>>} \cup {<<code>> : code \in Byte}]

FormatInput == bench = "format" /\ input \in FormatInputs

KeyNear(in) == [x |-> DigitsOf((ValueOf(SomeKey.x) + in.dx) % FIELD),
                y |-> DigitsOf((ValueOf(SomeKey.y) + in.dy) % FIELD)]

FormatOutput(in) ==
    CASE in.kind = "request" -> deserialize(<<in.code>> \o write(in.value))
      [] in.kind = "credential" -> deserialize_credential(serialize_credential(in.credential))
      [] in.kind = "key" -> PubKeyFrom(read(to_cose_key(KeyNear(in))).value.v)
      [] in.kind = "response" -> read(write(in.value))
      [] in.kind = "bare" -> deserialize(in.bytes)

(* The reference: what a map means does not depend on the order in which    *)
(* the code looks at it, nor on the pairs that the code does not know.      *)
Lookup(map, key) == {map[i][2] : i \in {j \in DOMAIN map : map[j][1] = key}}

RECURSIVE Accepts(_, _)

Accepts(type, value) ==
    CASE type.kind = "struct" ->
           /\ value.t = 5
           /\ \A i \in DOMAIN type.fields :
                LET f == type.fields[i]
                    given == Lookup(value.v, f.key)
                IN  IF given = {} THEN f.need # "required"
                    ELSE \A x \in given : Accepts(f.type, x)
      [] type.kind = "array" -> value.t = 4 /\ \A i \in DOMAIN value.v : Accepts(type.of, value.v[i])
      [] OTHER -> Extract(type, value).ok

(* A message means what its parts mean: a request is accepted exactly if    *)
(* every parameter that is required is there and every parameter that the   *)
(* code knows has its type, whatever else the map holds; the deepest        *)
(* requests and responses fit the nesting that the library supports; a      *)
(* stored credential is read back as it was; a key is accepted exactly if   *)
(* it is a point of the curve (data_formats.rs, command.rs, response.rs).   *)
(* FramesAccountedFor says the same of CTAP1.                               *)
RequestsDecoded ==
    bench = "format" =>
        LET output == FormatOutput(input)
        IN  CASE input.kind = "request" ->
                   LET type == Parameters[input.code]
                   IN  /\ output.ok <=> Accepts(type, input.value)
                       /\ output.ok =>
                            \A i \in DOMAIN type.fields :
                                LET f == type.fields[i]
                                IN  \A x \in Lookup(input.value.v, f.key) :
                                        Ok(output.value[f.name]) = ExtractField(f, x)
              [] input.kind = "credential" -> output = Ok(input.credential)
              [] input.kind = "key" ->
                   LET p == KeyNear(input)
                   IN  IF is_valid_point_vartime(p.x, p.y) THEN output = Ok(p) ELSE ~output.ok
              [] input.kind = "response" -> output = Item(input.value, <<>>, FALSE)
              [] input.kind = "bare" -> output.ok <=> input.bytes \in {<<4>>, <<7>>, <<8>>, <<11>>}

MessagesDecoded == [][FramesAccountedFor /\ RequestsDecoded]_vars
-----------------------------------------------------------------------------
(* Flash: the areas that a kernel offers, and one operation on them.        *)
SomeKernels ==
    [word_size : {2}, page_size : {4},
     locations : {<<>>, <<[ptr |-> 4, len |-> 12]>>,
                  <<[ptr |-> 20, len |-> 4], [ptr |-> 8, len |-> 8]>>,
                  <<[ptr |-> 4, len |-> 4], [ptr |-> 8, len |-> 0], [ptr |-> 12, len |-> 4],
                    [ptr |-> 24, len |-> 8]>>,
                  <<[ptr |-> 6, len |-> 8]>>, <<[ptr |-> 8, len |-> 8], [ptr |-> 20, len |-> 6]>>}]
    \cup [word_size : {1, 3, 4, 8}, page_size : {2, 4, 6}, locations : {<<[ptr |-> 12, len |-> 12]>>}]

Untouched == [a \in 0 .. 35 |-> 100 + a]

FlashInput ==
    /\ bench = "flash"
    /\ input \in [kernel : SomeKernels, num_pages : 0 .. 4, page : 0 .. 4, succeeds : BOOLEAN,
                  byte : 0 .. 5, value : {<<>>} \cup {[i \in 1 .. n |-> i] : n \in 1 .. 5}]

FlashOutput(in) ==
    LET s == new_storage(in.kernel, in.num_pages)
    IN  IF s.error # "none" THEN [new |-> s.error]
        ELSE [new |-> "none",
              write |-> flash_write_slice(s, Untouched, in, in.value, in.succeeds),
              erase |-> flash_erase_page(s, Untouched, in.page, in.succeeds)]

\* The addresses of the locations, one after the other.
Flat(locations) ==
    FoldLeft(LAMBDA done, l : done \o [i \in 1 .. l.len |-> l.ptr + i - 1], <<>>, locations)

\* What an operation on the bytes [start, start + length) of one array of
\* pages returns.
OnArray(in, page, byte, bytes) ==
    LET size == in.kernel.page_size
        addresses == SubSeq(Flat(in.kernel.locations), page * size + byte + 1, page * size + byte + Len(bytes))
    IN  CASE page >= in.num_pages \/ byte + Len(bytes) > size -> OutOfBounds
          [] ~in.succeeds -> CustomError
          [] OTHER -> [error |-> "none",
                       memory |-> [a \in DOMAIN Untouched |->
                                    IF a \in Range(addresses)
                                    THEN bytes[CHOOSE i \in DOMAIN bytes : addresses[i] = a]
                                    ELSE Untouched[a]]]

(* The areas of flash that the kernel offers, in any number, order and      *)
(* size, are one array of pages: the storage takes them if and only if they *)
(* are aligned and have enough pages, an operation touches the bytes that   *)
(* its page and offset stand for in this array and no others, and it fails  *)
(* where the storage of the tests of the store fails (syscall.rs,           *)
(* storage.rs).  Writing nothing at the end of the last page is left out:   *)
(* find_slice fails where the range is valid.                               *)
FlashAddressed ==
    [][bench = "flash" =>
        LET output == FlashOutput(input)
            kernel == input.kernel
            aligned == /\ kernel.word_size \in {1, 2, 4, 8} /\ kernel.page_size \in {2, 4}
                       /\ kernel.word_size <= kernel.page_size
                       /\ \A i \in DOMAIN kernel.locations :
                            /\ kernel.locations[i].ptr % kernel.page_size = 0
                            /\ kernel.locations[i].len % kernel.page_size = 0
        IN  /\ output.new = CASE ~aligned -> "CustomError"
                              [] Len(Flat(kernel.locations)) < input.num_pages * kernel.page_size -> "OutOfBounds"
                              [] OTHER -> "none"
            /\ output.new = "none" =>
                 /\ output.erase = OnArray(input, input.page, 0, [i \in 1 .. kernel.page_size |-> 255])
                 /\ IF input.byte % kernel.word_size # 0 \/ Len(input.value) % kernel.word_size # 0
                    THEN output.write = Unaligned
                    ELSE input.value # <<>> =>
                           output.write = OnArray(input, input.page, input.byte, input.value)]_vars
-----------------------------------------------------------------------------
(* Hashing: messages given in pieces, codes, the hmac-secret extension and  *)
(* key handles that were tampered with.  The compression function and the   *)
(* cipher are toys that depend on every byte.                               *)
MCCompress(state, block) == FoldLeft(LAMBDA s, b : (s * 257 + b + 1) % 65521, state, block)

KeySum(key) == FoldLeft(LAMBDA s, b : (3 * s + b) % 256, 0, key)

MCEncrypt(key, b) == (5 * b + KeySum(key)) % 256

MCDecrypt(key, b) == (205 * (b - KeySum(key))) % 256

Sample(n, salt) == [i \in 1 .. n |-> (37 * i + salt) % 256]

HashInput ==
    /\ bench = "hash"
    /\ \/ \E n \in 0 .. 2 * BLOCK_SIZE + 1 :
            input \in [kind : {"hash"}, length : {n}, first : 0 .. n, second : 0 .. n]
       \/ input \in [kind : {"hmac"}, key : {0, 1, BLOCK_SIZE - 1, BLOCK_SIZE, BLOCK_SIZE + 1, 3 * BLOCK_SIZE},
                     length : 0 .. BLOCK_SIZE + 1]
       \/ input \in [kind : {"secret"}, salts : 0 .. 5, auth : {"right", "wrong", "long"}, salt : {1, 90, 200},
                     has_uv : BOOLEAN]
       \/ input \in [kind : {"handle"}, position : 1 .. CREDENTIAL_ID_SIZE, delta : {0, 1, 128},
                     cut : {0, 1}, application : {<<3, 4>>, <<3, 5>>}]

MasterKeys == [encryption |-> Sample(2, 5), hmac |-> Sample(2, 77)]

HashOutput(in) ==
    CASE in.kind = "hash" ->
           LET message == Sample(in.length, 11)
               cut == [first |-> Min({in.first, in.second}), second |-> Max({in.first, in.second})]
               pieces == <<SubSeq(message, 1, cut.first), SubSeq(message, cut.first + 1, cut.second),
                           SubSeq(message, cut.second + 1, in.length)>>
           IN  finalize(FoldLeft(update, sha_new, pieces))
      [] in.kind = "hmac" -> hmac_256(Sample(in.key, 3), Sample(in.length, 9))
      [] in.kind = "secret" ->
           LET secret == Sample(2, in.salt)
               salt_enc == cbc_encrypt(secret, 0, Sample(in.salts, 50))
               auth == SubSeq(hmac_256(secret, salt_enc), 1, 1)
           IN  process_hmac_secret(secret, salt_enc,
                                   CASE in.auth = "right" -> auth
                                     [] in.auth = "wrong" -> <<(auth[1] + 1) % 256>>
                                     [] OTHER -> auth \o auth,
                                   generate_cred_random(Sample(4, 8), Sample(2, 30), in.has_uv))
      [] in.kind = "handle" ->
           LET handle == seal_key_handle(MasterKeys, 60, Sample(2, 30), <<3, 4>>)
               altered == [handle EXCEPT ![in.position] = (@ + in.delta) % 256]
           IN  open_key_handle(MasterKeys, SubSeq(altered, 1, Len(altered) - in.cut), in.application)

\* FIPS 180-4: the end marker, zeros up to the length, and the length in bits.
RefHash(message) ==
    LET n == Len(message)
        padding == (-(n + 1 + LENGTH_SIZE)) % BLOCK_SIZE
        padded == message \o <<128>> \o Zeros(padding) \o BigEndian(8 * n, LENGTH_SIZE)
        block(i) == SubSeq(padded, (i - 1) * BLOCK_SIZE + 1, i * BLOCK_SIZE)
    IN  BigEndian(FoldLeft(MCCompress, H0, [i \in 1 .. Len(padded) \div BLOCK_SIZE |-> block(i)]), HASH_SIZE)

\* RFC 2104
RefHmac(key, message) ==
    LET short == IF Len(key) > BLOCK_SIZE THEN RefHash(key) ELSE key
        full == short \o Zeros(BLOCK_SIZE - Len(short))
        pad(byte) == [i \in 1 .. BLOCK_SIZE |-> full[i] ^^ byte]
    IN  RefHash(pad(92) \o RefHash(pad(54) \o message))

(* A message given in any pieces has the hash of the padded message, also   *)
(* when the marker and the length do not fit its last block; codes are      *)
(* those of RFC 2104 for keys up to and beyond the block; the output of     *)
(* hmac-secret decrypts to the codes of the salts, one or two, under the    *)
(* secret of the credential with or without user verification, and other    *)
(* lengths or a wrong authentication are refused; a key handle opens for    *)
(* the relying party it was made for, and not once it was changed in any    *)
(* place (sha256.rs, hmac.rs, cbc.rs, pin_protocol_v1.rs, mod.rs).          *)
SymmetricCryptography ==
    [][bench = "hash" =>
        LET output == HashOutput(input)
        IN  CASE input.kind = "hash" -> output = RefHash(Sample(input.length, 11))
              [] input.kind = "hmac" -> output = RefHmac(Sample(input.key, 3), Sample(input.length, 9))
              [] input.kind = "secret" ->
                   LET secret == IF input.has_uv THEN SubSeq(Sample(4, 8), 3, 4) ELSE Sample(2, 8)
                       random == RefHmac(secret, Sample(2, 30))
                       Code(i) == RefHmac(random, SubSeq(Sample(4, 50), 2 * i - 1, 2 * i))
                   IN  IF input.auth # "right" \/ input.salts \notin {2, 4}
                       THEN output = UNSUPPORTED_EXTENSION
                       ELSE cbc_decrypt(Sample(2, input.salt), 0, output)
                              = IF input.salts = 2 THEN Code(1) ELSE Code(1) \o Code(2)
              [] input.kind = "handle" ->
                   output = IF input.delta = 0 /\ input.cut = 0 /\ input.application = <<3, 4>>
                            THEN Sample(2, 30) ELSE <<>>]_vars
-----------------------------------------------------------------------------
Init ==
    /\ computed = FALSE
    /\ \/ IntegerInput
       \/ PointInput
       \/ SignInput
       \/ WordInput
       \/ CborInput
       \/ ApduInput
       \/ FormatInput
       \/ FlashInput
       \/ HashInput

Compute == ~computed /\ computed' = TRUE /\ UNCHANGED <<bench, input>>

Spec == Init /\ [][Compute]_vars
=============================================================================

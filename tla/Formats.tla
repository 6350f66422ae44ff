------------------------------- MODULE Formats -------------------------------
(***************************************************************************)
(* The messages of CTAP2 and the stored credentials: ctap/data_formats.rs, *)
(* ctap/command.rs and ctap/response.rs (feature with_ctap2_1), over the   *)
(* CBOR library and the keys of Ecdsa.                                     *)
(*                                                                         *)
(* Each conversion from CBOR is described by a type, which Extract         *)
(* interprets: the keys of a map in the order in which                     *)
(* destructure_cbor_map looks for them, and the order in which the code    *)
(* converts what it found, which decides the status of a failure.          *)
(*                                                                         *)
(* A text of the protocol is abstracted to its rank among Names, which are *)
(* in the order of CBOR keys.  An Option is <<>> or <<value>>.             *)
(***************************************************************************)
EXTENDS Cbor, Ecdsa, TLC

Names == <<"id", "rk", "up", "uv", "alg", "ble", "nfc", "sig", "usb", "x5c", "icon", "name",
           "type", "packed", "unknown", "internal", "clientPin", "ecdaaKeyId", "public-key",
           "transports", "credProtect", "displayName", "hmac-secret">>

text(name) == cbor_text(<<CHOOSE i \in DOMAIN Names : Names[i] = name>>)

Ok(value) == [ok |-> TRUE, value |-> value]
Failed(status) == [ok |-> FALSE, status |-> status]

UNEXPECTED_TYPE == Failed("CTAP2_ERR_CBOR_UNEXPECTED_TYPE")
MISSING_PARAMETER == Failed("CTAP2_ERR_MISSING_PARAMETER")
-----------------------------------------------------------------------------
(* The extractors at the end of data_formats.rs.                            *)
FitsI64(bytes) == Len(bytes) < 8 \/ bytes[1] < 128

extract_unsigned(value) == IF value.t = 0 THEN Ok(value.v) ELSE UNEXPECTED_TYPE
extract_integer(value) ==
    IF value.t = 1 \/ (value.t = 0 /\ FitsI64(value.v)) THEN Ok(value) ELSE UNEXPECTED_TYPE
extract_byte_string(value) == IF value.t = 2 THEN Ok(value.v) ELSE UNEXPECTED_TYPE
extract_text_string(value) == IF value.t = 3 THEN Ok(value.v) ELSE UNEXPECTED_TYPE
extract_array(value) == IF value.t = 4 THEN Ok(value.v) ELSE UNEXPECTED_TYPE
extract_map(value) == IF value.t = 5 THEN Ok(value.v) ELSE UNEXPECTED_TYPE
extract_bool(value) ==
    IF value.t = 7 /\ value.v \in {20, 21} THEN Ok(value.v = 21) ELSE UNEXPECTED_TYPE

(* Types.  An enumeration has cases, pairs of a CBOR value and what it      *)
(* stands for, and a result for other values; a refused option fails after  *)
(* its conversion.                                                          *)
AnyValue == [kind |-> "any"]
Unsigned == [kind |-> "unsigned"]
Integer == [kind |-> "integer"]
Bytes == [kind |-> "bytes"]
Text == [kind |-> "text"]
Bool == [kind |-> "bool"]
Map == [kind |-> "map"]
ArrayOf(type) == [kind |-> "array", of |-> type]
Enum(type, cases, other) == [kind |-> "enum", of |-> type, cases |-> cases, other |-> other]
BytesOf(n, status) == [kind |-> "bytes_of", n |-> n, status |-> status]
RefusedOption(type) == [kind |-> "refused", of |-> type]
U8Checked == [kind |-> "u8_checked"]
U8Cast == [kind |-> "u8_cast"]
Struct(fields, order) == [kind |-> "struct", fields |-> fields, order |-> order]

Req(name, key, type) == [name |-> name, key |-> key, need |-> "required", type |-> type]
Opt(name, key, type) == [name |-> name, key |-> key, need |-> "optional", type |-> type]
Def(name, key, type, default) ==
    [name |-> name, key |-> key, need |-> "default", type |-> type, default |-> default]

tag(n) == cbor_int(n)
-----------------------------------------------------------------------------
RECURSIVE Extract(_, _)

(* map(...).collect(): the first element that fails decides.                *)
ExtractAll(type, array) ==
    FoldLeft(LAMBDA done, value :
                 IF ~done.ok THEN done
                 ELSE LET item == Extract(type, value)
                      IN  IF item.ok THEN Ok(Append(done.value, item.value)) ELSE item,
             Ok(<<>>), array)

(* One field: ok_or_missing, map(...).transpose() or a default.             *)
ExtractField(f, value) ==
    IF value.t = None.t
    THEN CASE f.need = "required" -> MISSING_PARAMETER
           [] f.need = "optional" -> Ok(<<>>)
           [] f.need = "default" -> Ok(f.default)
    ELSE LET x == Extract(f.type, value)
         IN  IF x.ok /\ f.need = "optional" THEN Ok(<<x.value>>) ELSE x

ExtractFields(type, map) ==
    LET values == destructure_cbor_map(map, [i \in DOMAIN type.fields |-> type.fields[i].key])
    IN  FoldLeft(LAMBDA done, i :
                     IF ~done.ok THEN done
                     ELSE LET x == ExtractField(type.fields[i], values[i])
                          IN  IF x.ok THEN Ok(done.value @@ (type.fields[i].name :> x.value)) ELSE x,
                 Ok(<<>>), type.order)

Then(x, result) == IF x.ok THEN result ELSE x

Extract(type, value) ==
    CASE type.kind = "any" -> Ok(value)
      [] type.kind = "unsigned" -> extract_unsigned(value)
      [] type.kind = "integer" -> extract_integer(value)
      [] type.kind = "bytes" -> extract_byte_string(value)
      [] type.kind = "text" -> extract_text_string(value)
      [] type.kind = "bool" -> extract_bool(value)
      [] type.kind = "map" -> extract_map(value)
      [] type.kind = "array" -> Then(extract_array(value), ExtractAll(type.of, value.v))
      [] type.kind = "struct" -> Then(extract_map(value), ExtractFields(type, value.v))
      [] type.kind = "refused" -> Then(Extract(type.of, value), Failed("CTAP2_ERR_INVALID_OPTION"))
      [] type.kind = "bytes_of" ->
           Then(extract_byte_string(value),
                IF Len(value.v) = type.n THEN Ok(value.v) ELSE Failed(type.status))
      [] type.kind = "u8_checked" ->
           Then(extract_unsigned(value),
                IF Len(value.v) <= 1 THEN Ok(BytesToNat(value.v))
                ELSE Failed("CTAP2_ERR_PIN_POLICY_VIOLATION"))
      [] type.kind = "u8_cast" ->
           Then(extract_unsigned(value), Ok(IF value.v = <<>> THEN 0 ELSE Last(value.v)))
      [] type.kind = "enum" ->
           LET cases == {i \in DOMAIN type.cases : type.cases[i][1] = value}
           IN  Then(Extract(type.of, value),
                    IF cases = {} THEN type.other
                    ELSE Ok(type.cases[CHOOSE i \in cases : TRUE][2]))
-----------------------------------------------------------------------------
(* data_formats.rs: entities, descriptors, extensions and options.          *)
PublicKeyCredentialRpEntity ==
    Struct(<<Req("rp_id", text("id"), Text), Opt("rp_icon", text("icon"), Text),
             Opt("rp_name", text("name"), Text)>>, <<1, 3, 2>>)

PublicKeyCredentialUserEntity ==
    Struct(<<Req("user_id", text("id"), Bytes), Opt("user_icon", text("icon"), Text),
             Opt("user_name", text("name"), Text),
             Opt("user_display_name", text("displayName"), Text)>>, <<1, 3, 4, 2>>)

PublicKeyCredentialType == Enum(Text, <<<<text("public-key"), "PublicKey">>>>, Ok("Unknown"))

SignatureAlgorithm == Enum(Integer, <<<<tag(-7), "ES256">>>>, Ok("Unknown"))

PublicKeyCredentialParameter ==
    Struct(<<Req("alg", text("alg"), SignatureAlgorithm),
             Req("cred_type", text("type"), PublicKeyCredentialType)>>, <<2, 1>>)

AuthenticatorTransport ==
    Enum(Text, <<<<text("usb"), "Usb">>, <<text("nfc"), "Nfc">>, <<text("ble"), "Ble">>,
                 <<text("internal"), "Internal">>>>, UNEXPECTED_TYPE)

PublicKeyCredentialDescriptor ==
    Struct(<<Req("key_id", text("id"), Bytes),
             Req("key_type", text("type"), PublicKeyCredentialType),
             Opt("transports", text("transports"), ArrayOf(AuthenticatorTransport))>>, <<2, 1, 3>>)

CredentialProtectionPolicy ==
    Enum(Integer, <<<<tag(1), 1>>, <<tag(2), 2>>, <<tag(3), 3>>>>, UNEXPECTED_TYPE)

MakeCredentialExtensions ==
    Struct(<<Opt("cred_protect", text("credProtect"), CredentialProtectionPolicy),
             Def("hmac_secret", text("hmac-secret"), Bool, FALSE)>>, <<2, 1>>)

GetAssertionHmacSecretInput ==
    Struct(<<Req("key_agreement", tag(1), Map), Req("salt_enc", tag(2), Bytes),
             Req("salt_auth", tag(3), Bytes)>>, <<1, 2, 3>>)

GetAssertionExtensions ==
    Struct(<<Opt("hmac_secret", text("hmac-secret"), GetAssertionHmacSecretInput)>>, <<1>>)

MakeCredentialOptions ==
    Struct(<<Def("rk", text("rk"), Bool, FALSE), Opt("up", text("up"), RefusedOption(AnyValue)),
             Def("uv", text("uv"), Bool, FALSE)>>, <<1, 2, 3>>)

GetAssertionOptions ==
    Struct(<<Opt("rk", text("rk"), RefusedOption(Bool)), Def("up", text("up"), Bool, TRUE),
             Def("uv", text("uv"), Bool, FALSE)>>, <<1, 2, 3>>)

ClientPinSubCommand ==
    Enum(Unsigned, [n \in 1 .. 9 |-> <<tag(n), n>>], Failed("CTAP2_ERR_INVALID_SUBCOMMAND"))
-----------------------------------------------------------------------------
(* command.rs: the parameters of the commands.                              *)
DescriptorList == ArrayOf(PublicKeyCredentialDescriptor)

AuthenticatorMakeCredentialParameters ==
    Struct(<<Req("client_data_hash", tag(1), Bytes),
             Req("rp", tag(2), PublicKeyCredentialRpEntity),
             Req("user", tag(3), PublicKeyCredentialUserEntity),
             Req("pub_key_cred_params", tag(4), ArrayOf(PublicKeyCredentialParameter)),
             Opt("exclude_list", tag(5), DescriptorList),
             Opt("extensions", tag(6), MakeCredentialExtensions),
             Def("options", tag(7), MakeCredentialOptions,
                 [rk |-> FALSE, up |-> <<>>, uv |-> FALSE]),
             Opt("pin_uv_auth_param", tag(8), Bytes),
             Opt("pin_uv_auth_protocol", tag(9), Unsigned)>>, [i \in 1 .. 9 |-> i])

AuthenticatorGetAssertionParameters ==
    Struct(<<Req("rp_id", tag(1), Text), Req("client_data_hash", tag(2), Bytes),
             Opt("allow_list", tag(3), DescriptorList),
             Opt("extensions", tag(4), GetAssertionExtensions),
             Def("options", tag(5), GetAssertionOptions,
                 [rk |-> <<>>, up |-> TRUE, uv |-> FALSE]),
             Opt("pin_uv_auth_param", tag(6), Bytes),
             Opt("pin_uv_auth_protocol", tag(7), Unsigned)>>, [i \in 1 .. 7 |-> i])

AuthenticatorClientPinParameters ==
    Struct(<<Req("pin_protocol", tag(1), Unsigned),
             Req("sub_command", tag(2), ClientPinSubCommand),
             Opt("key_agreement", tag(3), Map), Opt("pin_auth", tag(4), Bytes),
             Opt("new_pin_enc", tag(5), Bytes), Opt("pin_hash_enc", tag(6), Bytes),
             Opt("min_pin_length", tag(7), U8Checked),
             Opt("min_pin_length_rp_ids", tag(8), ArrayOf(Text)),
             Opt("permissions", tag(9), U8Cast),
             Opt("permissions_rp_id", tag(10), Text)>>, [i \in 1 .. 10 |-> i])

AuthenticatorAttestationMaterial ==
    Struct(<<Req("certificate", tag(1), Bytes),
             Req("private_key", tag(2), BytesOf(NDIGITS, "CTAP1_ERR_INVALID_PARAMETER"))>>, <<1, 2>>)

AuthenticatorVendorConfigureParameters ==
    Struct(<<Def("lockdown", tag(1), Bool, FALSE),
             Opt("attestation_material", tag(2), AuthenticatorAttestationMaterial)>>, <<1, 2>>)

Parameters ==
    1 :> AuthenticatorMakeCredentialParameters @@ 2 :> AuthenticatorGetAssertionParameters
      @@ 6 :> AuthenticatorClientPinParameters @@ 64 :> AuthenticatorVendorConfigureParameters

(* GetInfo, Reset, GetNextAssertion and Selection ignore their parameters.  *)
WithoutParameters == {4, 7, 8, 11}

deserialize(bytes) ==
    IF bytes = <<>> THEN MISSING_PARAMETER
    ELSE IF Head(bytes) \in WithoutParameters THEN Ok(<<>>)
    ELSE IF Head(bytes) \notin DOMAIN Parameters THEN Failed("CTAP1_ERR_INVALID_COMMAND")
    ELSE LET decoded == read(Tail(bytes))
         IN  IF ~decoded.ok THEN Failed("CTAP2_ERR_INVALID_CBOR")
             ELSE Extract(Parameters[Head(bytes)], decoded.value)
-----------------------------------------------------------------------------
(* To CBOR: pairs of a key and an Option.                                   *)
cbor_map_options(pairs) ==
    LET given == SelectSeq(pairs, LAMBDA p : p[2] # <<>>)
    IN  cbor_map([i \in DOMAIN given |-> <<given[i][1], given[i][2][1]>>])

Some(x) == <<x>>
TextOf(option) == [i \in DOMAIN option |-> cbor_text(option[i])]
BytesOption(option) == [i \in DOMAIN option |-> cbor_bytes(option[i])]

FromUserEntity(e) ==
    cbor_map_options(<<<<text("id"), Some(cbor_bytes(e.user_id))>>,
                       <<text("name"), TextOf(e.user_name)>>,
                       <<text("displayName"), TextOf(e.user_display_name)>>,
                       <<text("icon"), TextOf(e.user_icon)>>>>)

FromType(cred_type) == IF cred_type = "PublicKey" THEN text("public-key") ELSE text("unknown")

FromParameter(p) ==
    cbor_map_options(<<<<text("type"), Some(FromType(p.cred_type))>>,
                       <<text("alg"), Some(IF p.alg = "ES256" THEN tag(-7) ELSE tag(0))>>>>)

FromTransport(t) ==
    LET cases == AuthenticatorTransport.cases
    IN  cases[CHOOSE i \in DOMAIN cases : cases[i][2] = t][1]

FromDescriptor(d) ==
    cbor_map_options(<<<<text("type"), Some(FromType(d.key_type))>>,
                       <<text("id"), Some(cbor_bytes(d.key_id))>>,
                       <<text("transports"),
                         [i \in DOMAIN d.transports |->
                             cbor_array([j \in DOMAIN d.transports[i] |->
                                            FromTransport(d.transports[i][j])])]>>>>)

FromAttestation(a) ==
    cbor_map_options(<<<<text("alg"), Some(tag(-7))>>, <<text("sig"), Some(cbor_bytes(a.sig))>>,
                       <<text("x5c"), [i \in DOMAIN a.x5c |-> cbor_array(<<cbor_bytes(a.x5c[i])>>)]>>,
                       <<text("ecdaaKeyId"), BytesOption(a.ecdaa_key_id)>>>>)
-----------------------------------------------------------------------------
(* Stored credentials.  The tag 5 is reserved.                              *)
CredentialFields ==
    Struct(<<Req("credential_id", tag(0), Bytes),
             Req("private_key", tag(1), BytesOf(NDIGITS, "CTAP2_ERR_INVALID_CBOR")),
             Req("rp_id", tag(2), Text), Req("user_handle", tag(3), Bytes),
             Opt("user_display_name", tag(4), Text),
             Opt("cred_protect_policy", tag(6), CredentialProtectionPolicy),
             Def("creation_order", tag(7), Unsigned, <<>>),
             Opt("user_name", tag(8), Text), Opt("user_icon", tag(9), Text)>>, [i \in 1 .. 9 |-> i])

FromCredential(c) ==
    cbor_map_options(<<<<tag(0), Some(cbor_bytes(c.credential_id))>>,
                       <<tag(1), Some(cbor_bytes(seckey_to_bytes(c.private_key)))>>,
                       <<tag(2), Some(cbor_text(c.rp_id))>>,
                       <<tag(3), Some(cbor_bytes(c.user_handle))>>,
                       <<tag(4), TextOf(c.user_display_name)>>,
                       <<tag(6), [i \in DOMAIN c.cred_protect_policy |->
                                     tag(c.cred_protect_policy[i])]>>,
                       <<tag(7), Some([t |-> 0, v |-> c.creation_order])>>,
                       <<tag(8), TextOf(c.user_name)>>, <<tag(9), TextOf(c.user_icon)>>>>)

(* The private key is checked before the fields that follow it.             *)
ToCredential(value) ==
    LET whole == Extract(CredentialFields, value)
        first == Extract([CredentialFields EXCEPT !.order = <<1, 2>>], value)
        key == IF first.ok THEN seckey_from_bytes(first.value.private_key) ELSE NONE
    IN  IF ~first.ok THEN first
        ELSE IF key = NONE THEN Failed("CTAP2_ERR_INVALID_CBOR")
        ELSE IF ~whole.ok THEN whole
        ELSE Ok([whole.value EXCEPT !.private_key = key])

serialize_credential(c) == write(FromCredential(c))

deserialize_credential(data) ==
    LET decoded == read(data)
    IN  IF decoded.ok THEN ToCredential(decoded.value) ELSE Failed("CTAP2_ERR_INVALID_CBOR")
-----------------------------------------------------------------------------
(* COSE keys: ECDH keys from and to CBOR, and ECDSA keys to CBOR.           *)
ToCose(p, algorithm) ==
    LET xy == to_coordinates(p)
    IN  cbor_map_options(<<<<tag(1), Some(tag(2))>>, <<tag(3), Some(tag(algorithm))>>,
                           <<tag(-1), Some(tag(1))>>, <<tag(-2), Some(cbor_bytes(xy[1]))>>,
                           <<tag(-3), Some(cbor_bytes(xy[2]))>>>>)

CoseKeyFrom(p) == ToCose(p, -25)
to_cose_key(p) == write(ToCose(p, -7))

UNSUPPORTED_ALGORITHM == Failed("CTAP2_ERR_UNSUPPORTED_ALGORITHM")

CoseFields ==
    LET Coordinate == BytesOf(NDIGITS, "CTAP1_ERR_INVALID_PARAMETER")
    IN  Struct(<<Req("key_type", tag(1), Enum(Integer, <<<<tag(2), 2>>>>, UNSUPPORTED_ALGORITHM)),
                 Req("algorithm", tag(3),
                     Enum(Integer, <<<<tag(-25), -25>>, <<tag(-7), -7>>>>, UNSUPPORTED_ALGORITHM)),
                 Req("curve", tag(-1), Enum(Integer, <<<<tag(1), 1>>>>, UNSUPPORTED_ALGORITHM)),
                 Req("x_bytes", tag(-2), Coordinate), Req("y_bytes", tag(-3), Coordinate)>>,
               [i \in 1 .. 5 |-> i])

PubKeyFrom(map) ==
    LET fields == Extract(CoseFields, [t |-> 5, v |-> map])
        point == IF fields.ok THEN from_coordinates(fields.value.x_bytes, fields.value.y_bytes)
                 ELSE NONE
    IN  IF ~fields.ok THEN fields
        ELSE IF point = NONE THEN Failed("CTAP1_ERR_INVALID_PARAMETER")
        ELSE Ok(point)
-----------------------------------------------------------------------------
(* response.rs: the responses, with what an Option holds already converted. *)
MakeCredentialResponse(r) ==
    cbor_map_options(<<<<tag(1), Some(r.fmt)>>, <<tag(2), Some(cbor_bytes(r.auth_data))>>,
                       <<tag(3), Some(FromAttestation(r.att_stmt))>>>>)

GetAssertionResponse(r) ==
    cbor_map_options(<<<<tag(1), [i \in DOMAIN r.credential |-> FromDescriptor(r.credential[i])]>>,
                       <<tag(2), Some(cbor_bytes(r.auth_data))>>,
                       <<tag(3), Some(cbor_bytes(r.signature))>>,
                       <<tag(4), [i \in DOMAIN r.user |-> FromUserEntity(r.user[i])]>>,
                       <<tag(5), [i \in DOMAIN r.number |-> cbor_unsigned(r.number[i])]>>>>)

ClientPinResponse(r) ==
    cbor_map_options(<<<<tag(1), [i \in DOMAIN r.key_agreement |-> CoseKeyFrom(r.key_agreement[i])]>>,
                       <<tag(2), BytesOption(r.pin_token)>>,
                       <<tag(3), [i \in DOMAIN r.retries |-> cbor_unsigned(r.retries[i])]>>>>)

VendorResponse(r) ==
    cbor_map_options(<<<<tag(1), Some(cbor_bool(r.cert_programmed))>>,
                       <<tag(2), Some(cbor_bool(r.pkey_programmed))>>>>)

(* process_get_info (mod.rs) and its conversion.                            *)
process_get_info(pin_set, min_pin_length) ==
    cbor_map_options(
        <<<<tag(1), Some(cbor_array(<<cbor_text(<<100>>), cbor_text(<<101>>), cbor_text(<<102>>)>>))>>,
          <<tag(2), Some(cbor_array(<<text("hmac-secret")>>))>>,
          <<tag(3), Some(cbor_bytes([i \in 1 .. 16 |-> 0]))>>,
          <<tag(4), Some(cbor_map(<<<<text("rk"), cbor_bool(TRUE)>>, <<text("up"), cbor_bool(TRUE)>>,
                                    <<text("clientPin"), cbor_bool(pin_set)>>>>))>>,
          <<tag(5), Some(cbor_unsigned(1024))>>,
          <<tag(6), Some(cbor_array(<<cbor_unsigned(1)>>))>>,
          <<tag(8), Some(cbor_unsigned(112))>>,
          <<tag(9), Some(cbor_array(<<text("usb")>>))>>,
          <<tag(10), Some(cbor_array(<<FromParameter([cred_type |-> "PublicKey", alg |-> "ES256"])>>))>>,
          <<tag(13), Some(cbor_unsigned(min_pin_length))>>>>)
=============================================================================

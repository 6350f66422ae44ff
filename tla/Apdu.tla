-------------------------------- MODULE Apdu --------------------------------
(***************************************************************************)
(* The parsing of CTAP1 messages: Apdu::try_from (ctap/apdu.rs) and        *)
(* U2fCommand::try_from (ctap/ctap1.rs).  A frame is a sequence of bytes;  *)
(* a result is [ok, ...] with the fields of the record, or [ok, status].   *)
(***************************************************************************)
EXTENDS Integers, Sequences

CONSTANT HASH_LEN       \* 32: the bytes of a challenge and of an application

APDU_HEADER_LEN == 4

Refused(status) == [ok |-> FALSE, status |-> status]

read_u16(bytes) == 256 * bytes[1] + bytes[2]

(* A length expected of zero stands for the largest one.                    *)
Le(bytes) ==
    LET last == CASE Len(bytes) = 0 -> 0
                  [] Len(bytes) = 1 -> bytes[1]
                  [] OTHER -> read_u16(SubSeq(bytes, Len(bytes) - 1, Len(bytes)))
    IN  CASE Len(bytes) = 0 -> 0
          [] last = 0 -> IF Len(bytes) = 1 THEN 256 ELSE 65536
          [] OTHER -> last

(* The first lc bytes after the field of the length, then le.               *)
Parsed(frame, case_type, lc, first, le) ==
    LET payload == SubSeq(frame, APDU_HEADER_LEN + 1, Len(frame))
    IN  [ok |-> TRUE, header |-> SubSeq(frame, 1, APDU_HEADER_LEN), lc |-> lc,
         data |-> SubSeq(payload, first, Len(payload) - le),
         le |-> Le(SubSeq(payload, Len(payload) - le + 1, Len(payload))),
         case_type |-> case_type]

ExtendedCase == <<"Lc3Data", "Lc3DataLe1", "Lc3DataLe2", "Le3">>

ParsedExtended(frame, payload) ==
    LET lc == read_u16(SubSeq(payload, 2, 3))
        le == Len(payload) - (lc + 3)
    IN  IF le < 0 \/ le > 3 THEN Refused("SW_WRONG_LENGTH")
        ELSE IF payload[1] # 0 \/ (le = 3 /\ payload[Len(payload) - 2] # 0)
        THEN Refused("SW_INTERNAL_EXCEPTION")
        ELSE Parsed(frame, ExtendedCase[le + 1], lc, 4, le)

apdu_try_from(frame) ==
    IF Len(frame) < APDU_HEADER_LEN THEN Refused("SW_WRONG_DATA")
    ELSE IF Len(frame) = APDU_HEADER_LEN THEN Parsed(frame, "Instruction", 0, 1, 0)
    ELSE LET payload == SubSeq(frame, APDU_HEADER_LEN + 1, Len(frame))
             byte_0 == payload[1]
         IN  CASE Len(payload) = 1 -> Parsed(frame, "Le1", 0, 1, 1)
               [] byte_0 # 0 /\ Len(payload) = 1 + byte_0 -> Parsed(frame, "Lc1Data", byte_0, 2, 0)
               [] byte_0 # 0 /\ Len(payload) = 2 + byte_0 -> Parsed(frame, "Lc1DataLe1", byte_0, 2, 1)
               [] /\ Len(payload) > 2
                  /\ byte_0 = 0 \/ Len(payload) \notin {1 + byte_0, 2 + byte_0} -> ParsedExtended(frame, payload)
               [] OTHER -> Refused("SW_INTERNAL_EXCEPTION")
-----------------------------------------------------------------------------
(* ctap1.rs.                                                                *)
CTAP1_CLA == 0
U2F_REGISTER == 1
U2F_AUTHENTICATE == 2
U2F_VERSION == 3
VENDOR_SPECIFIC == 64 .. 191

flags_try_from(p1) ==
    CASE p1 = 7 -> "CheckOnly"
      [] p1 = 3 -> "EnforceUpAndSign"
      [] p1 = 8 -> "DontEnforceUpAndSign"
      [] OTHER -> "none"

challenge(data) == SubSeq(data, 1, HASH_LEN)
application(data) == SubSeq(data, HASH_LEN + 1, 2 * HASH_LEN)

register_try_from(apdu) ==
    IF apdu.lc # 2 * HASH_LEN THEN Refused("SW_WRONG_LENGTH")
    ELSE [ok |-> TRUE, command |-> "Register",
          challenge |-> challenge(apdu.data), application |-> application(apdu.data)]

authenticate_try_from(apdu) ==
    LET flags == flags_try_from(apdu.header[3])
        rest == apdu.lc - (2 * HASH_LEN + 1)
    IN  IF rest < 0 THEN Refused("SW_WRONG_LENGTH")
        ELSE IF apdu.data[2 * HASH_LEN + 1] # rest THEN Refused("SW_WRONG_LENGTH")
        ELSE IF flags = "none" THEN Refused("SW_WRONG_DATA")
        ELSE [ok |-> TRUE, command |-> "Authenticate",
              challenge |-> challenge(apdu.data), application |-> application(apdu.data),
              key_handle |-> SubSeq(apdu.data, 2 * HASH_LEN + 2, Len(apdu.data)),
              flags |-> flags]

u2f_try_from(message) ==
    LET apdu == apdu_try_from(message)
    IN  IF ~apdu.ok THEN apdu
        ELSE LET ins == apdu.header[2]
             IN  IF apdu.header[1] # CTAP1_CLA THEN Refused("SW_CLA_INVALID")
                 ELSE IF Len(apdu.data) \notin {apdu.lc, apdu.lc + 2} THEN Refused("SW_WRONG_LENGTH")
                 ELSE   CASE ins = U2F_REGISTER -> register_try_from(apdu)
                          [] ins = U2F_AUTHENTICATE -> authenticate_try_from(apdu)
                          [] ins = U2F_VERSION ->
                               IF apdu.lc # 0 THEN Refused("SW_WRONG_LENGTH")
                               ELSE [ok |-> TRUE, command |-> "Version"]
                          [] ins \in VENDOR_SPECIFIC ->
                               [ok |-> TRUE, command |-> "VendorSpecific", payload |-> apdu.data]
                          [] OTHER -> Refused("SW_INS_INVALID")
=============================================================================

-------------------------------- MODULE Cbor --------------------------------
(***************************************************************************)
(* The CBOR library (libraries/cbor/src): reader, writer, values, macros.  *)
(*                                                                         *)
(* A value is [t, v]: t is the label of its type (0 unsigned, 1 negative,  *)
(* 2 byte string, 3 text string, 4 array, 5 map, 7 simple).  The v of an   *)
(* unsigned integer is its big-endian bytes without leading zeros; that of *)
(* a negative integer n the bytes of -n - 1; a map is the sequence of its  *)
(* pairs in the order of their keys.                                       *)
(***************************************************************************)
EXTENDS Integers, Sequences, SequencesExt, TLC

CONSTANT MAX_NESTING_DEPTH

USIZE_BYTES == 4

Byte == 0 .. 255

(* An integer that fits TLC's, from and to its bytes.                       *)
BytesToNat(bytes) == FoldLeft(LAMBDA n, b : 256 * n + b, 0, bytes)

NatToBytes(n) ==
    CASE n = 0 -> <<>>
      [] n \in 1 .. 255 -> <<n>>
      [] n \in 256 .. 65535 -> <<n \div 256, n % 256>>
      [] OTHER -> <<n \div 65536, (n \div 256) % 256, n % 256>>

StripZeros(bytes) ==
    LET nonzero == {i \in DOMAIN bytes : bytes[i] # 0}
    IN  IF nonzero = {} THEN <<>>
        ELSE SubSeq(bytes, CHOOSE i \in nonzero : \A j \in nonzero : i <= j, Len(bytes))
-----------------------------------------------------------------------------
(* values.rs: labels, and the order of keys.                                *)
cbor_unsigned(n) == [t |-> 0, v |-> NatToBytes(n)]
cbor_int(n) == IF n >= 0 THEN cbor_unsigned(n) ELSE [t |-> 1, v |-> NatToBytes(-n - 1)]
cbor_bytes(b) == [t |-> 2, v |-> b]
cbor_text(b) == [t |-> 3, v |-> b]
cbor_array(a) == [t |-> 4, v |-> a]
cbor_bool(b) == [t |-> 7, v |-> IF b THEN 21 ELSE 20]

IsKey(value) == value.t \in 0 .. 3

SimpleValues == 20 .. 23

LexLess(a, b) ==
    \E i \in DOMAIN a : a[i] < b[i] /\ \A j \in 1 .. i - 1 : a[j] = b[j]

KeyLess(k1, k2) ==
    \/ k1.t < k2.t
    \/ k1.t = k2.t /\ Len(k1.v) < Len(k2.v)
    \/ k1.t = k2.t /\ Len(k1.v) = Len(k2.v) /\ LexLess(k1.v, k2.v)

(* cbor_map and cbor_map_options: the pairs with a value, in order.          *)
cbor_map(pairs) ==
    [t |-> 5, v |-> SortSeq(pairs, LAMBDA p, q : KeyLess(p[1], q[1]))]
-----------------------------------------------------------------------------
(* reader.rs.  A step returns the value read and the bytes that remain, or  *)
(* an error; cut says that the length of a string did not fit usize.        *)
Item(value, rest, cut) == [ok |-> TRUE, value |-> value, rest |-> rest, cut |-> cut]
Error(e) == [ok |-> FALSE, error |-> e]

(* Mutant: does not require the shortest form.                              *)
read_variadic_length_integer_Any(info, rest) ==
    LET n == CASE info \in 24 .. 27 -> 2^(info - 24) [] OTHER -> 0
    IN  IF info <= 23 THEN Item(NatToBytes(info), rest, FALSE)
        ELSE IF info > 27 THEN Error("UnknownAdditionalInfo")
        ELSE IF n > Len(rest) THEN Error("IncompleteCborData")
        ELSE Item(StripZeros(SubSeq(rest, 1, n)), SubSeq(rest, n + 1, Len(rest)), FALSE)

(* The integer after the first byte of an item: its bytes, and the rest.    *)
read_variadic_length_integer(info, rest) ==
    LET n == CASE info \in 24 .. 27 -> 2^(info - 24) [] OTHER -> 0
        size == StripZeros(SubSeq(rest, 1, n))
    IN  IF info <= 23 THEN Item(NatToBytes(info), rest, FALSE)
        ELSE IF info > 27 THEN Error("UnknownAdditionalInfo")
        ELSE IF n > Len(rest) THEN Error("IncompleteCborData")
        ELSE IF (n = 1 /\ BytesToNat(size) < 24) \/ Len(size) <= n \div 2
        THEN Error("NonMinimalCborEncoding")
        ELSE Item(size, SubSeq(rest, n + 1, Len(rest)), FALSE)

decode_value_to_negative(size, rest) ==
    IF Len(size) = 8 /\ size[1] >= 128 THEN Error("OutOfRangeIntegerValue")
    ELSE Item([t |-> 1, v |-> size], rest, FALSE)

(* str::from_utf8 of the core library: external.  The texts of the model    *)
(* are ASCII, or start with a byte that no encoding has.                    *)
IsUtf8(bytes) == \A i \in DOMAIN bytes : bytes[i] < 128

(* Strings: the length is cast to usize.                                    *)
read_string_content(t, size, rest) ==
    LET length == StripZeros(SubSeq(size, Len(size) - USIZE_BYTES + 1, Len(size)))
        cast == IF Len(size) > USIZE_BYTES THEN length ELSE size
        n == BytesToNat(cast)
    IN  IF Len(cast) > 3 \/ n > Len(rest) THEN Error("IncompleteCborData")
        ELSE IF t = 3 /\ ~IsUtf8(SubSeq(rest, 1, n)) THEN Error("InvalidUtf8")
        ELSE Item([t |-> t, v |-> SubSeq(rest, 1, n)], SubSeq(rest, n + 1, Len(rest)), cast # size)

decode_to_simple_value(size, info, rest) ==
    CASE info > 24 -> Error("UnsupportedFloatingPointValue")
      [] info <= 24 /\ BytesToNat(size) \in SimpleValues ->
           Item([t |-> 7, v |-> BytesToNat(size)], rest, FALSE)
      [] OTHER -> Error("UnsupportedSimpleValue")

RECURSIVE decode_complete_data_item(_, _), read_array_content(_, _, _, _),
          read_map_content(_, _, _, _)

(* Each element takes a byte at least, so a count of more than three bytes  *)
(* ends as one of 2^24 - 1 does.                                            *)
Count(size) == IF Len(size) > 3 THEN 16777215 ELSE BytesToNat(size)

decode_complete_data_item(bytes, depth) ==
    IF depth < 0 THEN Error("TooMuchNesting")
    ELSE IF bytes = <<>> THEN Error("IncompleteCborData")
    ELSE LET major == Head(bytes) \div 32
             info == Head(bytes) % 32
             size == read_variadic_length_integer(info, Tail(bytes))
         IN  IF ~size.ok THEN size
             ELSE CASE major = 0 -> Item([t |-> 0, v |-> size.value], size.rest, FALSE)
                    [] major = 1 -> decode_value_to_negative(size.value, size.rest)
                    [] major \in {2, 3} -> read_string_content(major, size.value, size.rest)
                    [] major = 4 ->
                         read_array_content(Count(size.value), size.rest, depth,
                                            Item(<<>>, size.rest, FALSE))
                    [] major = 5 ->
                         read_map_content(Count(size.value), size.rest, depth,
                                          Item(<<>>, size.rest, FALSE))
                    [] major = 7 -> decode_to_simple_value(size.value, info, size.rest)
                    [] OTHER -> Error("UnsupportedMajorType")

(* done is what was read so far.                                            *)
read_array_content(n, bytes, depth, done) ==
    IF n = 0 THEN Item(cbor_array(done.value), done.rest, done.cut)
    ELSE LET item == decode_complete_data_item(bytes, depth - 1)
         IN  IF ~item.ok THEN item
             ELSE read_array_content(n - 1, item.rest, depth,
                      Item(Append(done.value, item.value), item.rest, done.cut \/ item.cut))

read_map_content(n, bytes, depth, done) ==
    IF n = 0 THEN Item([t |-> 5, v |-> done.value], done.rest, done.cut)
    ELSE LET key == decode_complete_data_item(bytes, depth - 1)
         IN  IF ~key.ok THEN key
             ELSE IF ~IsKey(key.value) THEN Error("IncorrectMapKeyType")
             ELSE IF done.value # <<>> /\ ~KeyLess(Last(done.value)[1], key.value)
             THEN Error("OutOfOrderKey")
             ELSE LET item == decode_complete_data_item(key.rest, depth - 1)
                  IN  IF ~item.ok THEN item
                      ELSE read_map_content(n - 1, item.rest, depth,
                               Item(Append(done.value, <<key.value, item.value>>), item.rest,
                                    done.cut \/ key.cut \/ item.cut))

read(bytes) ==
    LET item == decode_complete_data_item(bytes, MAX_NESTING_DEPTH)
    IN  IF item.ok /\ item.rest # <<>> THEN Error("ExtranousData") ELSE item
-----------------------------------------------------------------------------
(* writer.rs.  NotWritten stands for false.                                 *)
NotWritten == <<-1>>

start_item(label, size) ==
    LET n == CASE Len(size) = 0 -> 0
               [] Len(size) = 1 -> IF size[1] < 24 THEN 0 ELSE 1
               [] Len(size) = 2 -> 2
               [] Len(size) \in 3 .. 4 -> 4
               [] OTHER -> 8
        info == CASE n = 0 -> BytesToNat(size) [] n = 1 -> 24 [] n = 2 -> 25 [] n = 4 -> 26
                  [] n = 8 -> 27
    IN  <<32 * label + info>>
          \o (IF n = 0 THEN <<>> ELSE [i \in 1 .. n - Len(size) |-> 0] \o size)

RECURSIVE encode_cbor(_, _)

(* The items of an array, or the keys and values of a map, one by one.      *)
EncodeAll(label, count, items, depth) ==
    FoldLeft(LAMBDA written, item :
                 IF written = NotWritten THEN NotWritten
                 ELSE LET more == encode_cbor(item, depth - 1)
                      IN  IF more = NotWritten THEN NotWritten ELSE written \o more,
             start_item(label, NatToBytes(count)), items)

encode_cbor(value, depth) ==
    IF depth < 0 THEN NotWritten
    ELSE CASE value.t \in {0, 1} -> start_item(value.t, value.v)
           [] value.t \in {2, 3} -> start_item(value.t, NatToBytes(Len(value.v))) \o value.v
           [] value.t = 4 -> EncodeAll(4, Len(value.v), value.v, depth)
           [] value.t = 5 ->
                EncodeAll(5, Len(value.v), FlattenSeq(value.v), depth)
           [] value.t = 7 -> start_item(7, NatToBytes(value.v))

write(value) == encode_cbor(value, MAX_NESTING_DEPTH)
-----------------------------------------------------------------------------
(* macros.rs: destructure_cbor_map, one scan over the sorted map.  it is    *)
(* the position in the map; None is an absent value.                        *)
None == [t |-> -1, v |-> <<>>]

(* The first pair that is not before the needle.                            *)
Peek(map, it, needle) ==
    LET later == {i \in it .. Len(map) : ~KeyLess(map[i][1], needle)}
    IN  IF later = {} THEN Len(map) + 1 ELSE CHOOSE i \in later : \A j \in later : i <= j

(* Mutant: stays at the pair before.                                        *)
destructure_cbor_map_peek_value_Stuck(map, it, needle) ==
    IF it <= Len(map) /\ map[it][1] = needle
    THEN [it |-> it + 1, value |-> map[it][2]]
    ELSE [it |-> it, value |-> None]

destructure_cbor_map_peek_value(map, it, needle) ==
    LET i == Peek(map, it, needle)
    IN  IF i <= Len(map) /\ map[i][1] = needle
        THEN [it |-> i + 1, value |-> map[i][2]]
        ELSE [it |-> i, value |-> None]

(* The values of the keys, in the order of the keys.                        *)
destructure_cbor_map(map, keys) ==
    FoldLeft(LAMBDA done, key :
                 LET found == destructure_cbor_map_peek_value(map, done.it, key)
                 IN  [it |-> found.it, values |-> Append(done.values, found.value)],
             [it |-> 1, values |-> <<>>], keys).values
=============================================================================

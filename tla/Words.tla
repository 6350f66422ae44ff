-------------------------------- MODULE Words --------------------------------
(***************************************************************************)
(* The words of the persistent store, bit by bit                           *)
(* (libraries/persistent_store/src/format.rs and format/bitfield.rs).      *)
(*                                                                         *)
(* Writing flash only clears bits, so a word is the set of the positions   *)
(* of its zeros: ERASED_WORD is empty, a write that is interrupted leaves  *)
(* a subset of the word that was to be written.  Store takes such a word   *)
(* as Partial; the properties of this module say why it may.               *)
(***************************************************************************)
EXTENDS Integers, Sequences, FiniteSets, FiniteSetsExt

CONSTANTS
  WORD_BITS,         \* bits of a word
  BYTE_BITS,         \* bits of a byte
  MAX_ERASE_CYCLE,   \* maxima of the fields
  MAX_PAGE_INDEX,
  MAX_KEY_INDEX,
  MAX_VALUE_LEN,
  MAX_UPDATES,
  MAX_TAIL,          \* MAX_VIRT_PAGE_SIZE * MAX_PAGE_INDEX
  MAX_PREFIX         \* div_ceil(MAX_VALUE_LEN, WORD_SIZE)

WORD_SIZE == WORD_BITS \div BYTE_BITS
ERASED_WORD == {}
count_zeros(word) == Cardinality(word)
-----------------------------------------------------------------------------
(* bitfield.rs                                                              *)

num_bits(x) == CHOOSE n \in 0 .. WORD_BITS : 2^n > x /\ \A m \in 0 .. n - 1 : 2^m <= x

Field(pos, max) == [pos |-> pos, len |-> num_bits(max)]

Bits(f) == f.pos .. f.pos + f.len - 1

get(f, word) == SumSet({2^(b - f.pos) : b \in Bits(f) \ word})

(* Clears the bits that are zero in the value; ok says whether the value     *)
(* can be read back.                                                         *)
set(f, w, value) ==
    LET word == w.word \union {b \in Bits(f) : (value \div 2^(b - f.pos)) % 2 = 0}
    IN  [word |-> word, ok |-> w.ok /\ value < 2^f.len /\ get(f, word) = value]

ConstField(pos, bits) ==
    [pos |-> pos, len |-> Len(bits),
     value |-> SumSet({2^(i - 1) : i \in {j \in DOMAIN bits : bits[j] = 1}})]
check(f, word) == get(f, word) = f.value
set_const(f, w) == set(f, w, f.value)

get_bit(pos, word) == pos \in word
set_bit(pos, w) == [w EXCEPT !.word = @ \union {pos}]

(* A checksum counts the zeros of the other bits, plus a value; negative     *)
(* means InvalidStorage.                                                     *)
get_checksum(f, word) == get(f, word) - count_zeros(word \ Bits(f))

set_checksum(f, w, value) == set(f, w, count_zeros(w.word) + value)
-----------------------------------------------------------------------------
(* The layout of the words: bitfield! puts the fields of a word side by side *)
End(f) == f.pos + f.len

WORD_CHECKSUM == LET len == num_bits(WORD_BITS - 1)
                 IN  [pos |-> WORD_BITS - len, len |-> len]

INIT_CYCLE == Field(0, MAX_ERASE_CYCLE)
INIT_PREFIX == Field(End(INIT_CYCLE), MAX_PREFIX)

COMPACT_TAIL == Field(0, MAX_TAIL)

ID_PADDING == ConstField(0, <<0>>)

ID_HEADER == ConstField(0, <<1, 0>>)
HEADER_DELETED == End(ID_HEADER)
HEADER_FLIPPED == HEADER_DELETED + 1
HEADER_LENGTH == Field(HEADER_FLIPPED + 1, MAX_VALUE_LEN)
HEADER_KEY == Field(End(HEADER_LENGTH), MAX_KEY_INDEX)
HEADER_CHECKSUM == Field(End(HEADER_KEY), 2 * WORD_BITS - num_bits(WORD_BITS))

ID_ERASE == ConstField(0, <<1, 1, 0, 0, 0>>)
ID_CLEAR == ConstField(0, <<1, 1, 0, 0, 1>>)
ID_MARKER == ConstField(0, <<1, 1, 0, 1, 0>>)
ID_REMOVE == ConstField(0, <<1, 1, 0, 1, 1>>)

(* Identifier, field and greatest value of the internal entries.             *)
InternalEntry ==
    [erase |-> [id |-> ID_ERASE, field |-> Field(5, MAX_PAGE_INDEX), max |-> MAX_PAGE_INDEX],
     clear |-> [id |-> ID_CLEAR, field |-> Field(5, MAX_KEY_INDEX), max |-> MAX_KEY_INDEX],
     marker |-> [id |-> ID_MARKER, field |-> Field(5, MAX_UPDATES), max |-> MAX_UPDATES],
     remove |-> [id |-> ID_REMOVE, field |-> Field(5, MAX_KEY_INDEX), max |-> MAX_KEY_INDEX]]
-----------------------------------------------------------------------------
(* format.rs.  A word being built is [word, ok].                             *)
New == [word |-> ERASED_WORD, ok |-> TRUE]
Erased == [state |-> "erased"]
Partial == [state |-> "partial"]
InvalidStorage == [state |-> "invalid"]

build_init(cycle, prefix) ==
    set_checksum(WORD_CHECKSUM, set(INIT_PREFIX, set(INIT_CYCLE, New, cycle), prefix), 0)

parse_init(word) ==
    IF word = ERASED_WORD THEN Erased
    ELSE IF get_checksum(WORD_CHECKSUM, word) < 0 THEN InvalidStorage
    ELSE IF get_checksum(WORD_CHECKSUM, word) # 0 THEN Partial
    ELSE IF get(INIT_CYCLE, word) > MAX_ERASE_CYCLE \/ get(INIT_PREFIX, word) > MAX_PREFIX
    THEN InvalidStorage
    ELSE [state |-> "init", cycle |-> get(INIT_CYCLE, word), prefix |-> get(INIT_PREFIX, word)]

build_compact(tail) == set_checksum(WORD_CHECKSUM, set(COMPACT_TAIL, New, tail), 0)

parse_compact(word) ==
    IF word = ERASED_WORD THEN Erased
    ELSE IF get_checksum(WORD_CHECKSUM, word) < 0 THEN InvalidStorage
    ELSE IF get_checksum(WORD_CHECKSUM, word) # 0 THEN Partial
    ELSE IF get(COMPACT_TAIL, word) > MAX_TAIL THEN InvalidStorage
    ELSE [state |-> "compact", tail |-> get(COMPACT_TAIL, word)]

build_internal(kind, value) ==
    LET e == InternalEntry[kind]
    IN  set_checksum(WORD_CHECKSUM, set(e.field, set_const(e.id, New), value), 0)

bytes_to_words(bytes) == (bytes + WORD_SIZE - 1) \div WORD_SIZE

(* A deleted header is padding over the words of its value.                  *)
parse_header(word) ==
    LET length == get(HEADER_LENGTH, word)
    IN  IF get_bit(HEADER_DELETED, word)
        THEN IF length > MAX_VALUE_LEN THEN InvalidStorage
             ELSE [state |-> "padding", length |-> bytes_to_words(length)]
        ELSE IF get_checksum(HEADER_CHECKSUM, word) < 0 THEN InvalidStorage
        ELSE [state |-> "header", length |-> length, key |-> get(HEADER_KEY, word),
              flipped |-> get_bit(HEADER_FLIPPED, word),
              checksum |-> get_checksum(HEADER_CHECKSUM, word)]

parse_internal(kind, word) ==
    LET e == InternalEntry[kind]
        value == get(e.field, word)
        checksum == get_checksum(WORD_CHECKSUM, word)
    IN  IF checksum < 0 THEN InvalidStorage
        ELSE IF checksum # 0 THEN Partial
        ELSE IF value > e.max THEN InvalidStorage
        ELSE [state |-> kind, value |-> value]

parse_word(word) ==
    LET kinds == {k \in DOMAIN InternalEntry : check(InternalEntry[k].id, word)}
    IN  IF check(ID_PADDING, word) THEN [state |-> "padding", length |-> 0]
        ELSE IF check(ID_HEADER, word) THEN parse_header(word)
        ELSE IF kinds # {} THEN parse_internal(CHOOSE k \in kinds : TRUE, word)
        ELSE IF word = ERASED_WORD THEN Erased
        ELSE Partial

(* The words of a value: bytes, each the set of its zeros, padded with ones. *)
ValueWord(value, i) ==
    UNION {{b + BYTE_BITS * j : b \in value[WORD_SIZE * (i - 1) + j + 1]} :
           j \in {k \in 0 .. WORD_SIZE - 1 : WORD_SIZE * (i - 1) + k + 1 <= Len(value)}}

(* Mutant: leaves an erased footer as it is.                                 *)
build_user_NoFlip(key, value) ==
    LET footer == bytes_to_words(Len(value))
        words == [i \in 1 .. footer |-> ValueWord(value, i)]
        header == set_checksum(HEADER_CHECKSUM,
                      set(HEADER_KEY, set(HEADER_LENGTH, set_const(ID_HEADER, New), Len(value)),
                          key),
                      IF footer = 0 THEN 0 ELSE count_zeros(words[footer]))
    IN  [words |-> <<header.word>> \o words, ok |-> header.ok]

(* Header and value.  If the last word would stay erased, its last bit is    *)
(* flipped, so that a missing footer is noticed.                             *)
build_user(key, value) ==
    LET footer == bytes_to_words(Len(value))
        plain == [i \in 1 .. footer |-> ValueWord(value, i)]
        flip == footer > 0 /\ plain[footer] = ERASED_WORD
        words == [i \in 1 .. footer |->
                     IF flip /\ i = footer THEN {WORD_BITS - 1} ELSE plain[i]]
        id == set_const(ID_HEADER, New)
        fields == set(HEADER_KEY,
                      set(HEADER_LENGTH, IF flip THEN set_bit(HEADER_FLIPPED, id) ELSE id,
                          Len(value)),
                      key)
        header == set_checksum(HEADER_CHECKSUM, fields,
                               IF footer = 0 THEN 0 ELSE count_zeros(words[footer]))
    IN  [words |-> <<header.word>> \o words, ok |-> header.ok]

set_deleted(word) == word \union {HEADER_DELETED}
set_padding(word) == word \union {0}

(* Header::check, with the word that the length of the header makes the      *)
(* footer; past the end of what was written the storage is erased.           *)
header_check(header, words) ==
    LET footer == 1 + bytes_to_words(header.length)
    IN  header.checksum = IF header.length = 0 \/ footer > Len(words) THEN 0
                          ELSE count_zeros(words[footer])
-----------------------------------------------------------------------------
(* What a write may leave: complete words, a partial one, erased words.      *)
Interrupted(words) ==
    UNION {{SubSeq(words, 1, i - 1) \o <<w>> \o [j \in 1 .. Len(words) - i |-> ERASED_WORD] :
            w \in SUBSET words[i] \ {words[i]}} : i \in DOMAIN words}

(* The value of an entry: the flipped bit is not part of it.                 *)
Read(header, words) ==
    IF header.flipped THEN [words EXCEPT ![Len(words)] = @ \ {WORD_BITS - 1}] ELSE words
=============================================================================

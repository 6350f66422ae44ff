------------------------------- MODULE Format -------------------------------
(***************************************************************************)
(* Sizes and positions of the persistent store                             *)
(* (libraries/persistent_store/src/format.rs).                             *)
(*                                                                         *)
(* A storage has NumPages pages of PageWords words.  The first two words   *)
(* of a page hold its init and compact info, the others form its virtual   *)
(* page.  A position counts the words of the virtual storage over the      *)
(* whole lifetime of the flash: cycle, then page, then word.               *)
(*                                                                         *)
(* Lengths are in words: the conversion between bytes and words            *)
(* (bytes_to_words) rounds up and every bound of the store is in words.    *)
(***************************************************************************)
EXTENDS Naturals, Sequences, FiniteSetsExt

CONSTANTS
  NumPages,       \* number of pages of the storage
  PageWords,      \* number of words of a page
  MaxPageErases,  \* how often a page can be erased
  MaxValueWords,  \* MAX_VALUE_LEN (1023 bytes, 256 words)
  MaxKey,         \* MAX_KEY_INDEX (4095)
  MaxUpdates,     \* MAX_UPDATES (31)
  NoValue         \* the value of an update that removes its key

CONTENT_WORD == 2

virt_page_size == PageWords - CONTENT_WORD

max_value_len == IF virt_page_size - 1 <= MaxValueWords
                 THEN virt_page_size - 1
                 ELSE MaxValueWords

max_prefix_len == max_value_len

virt_size == (NumPages - 1) * (virt_page_size - 1) - max_prefix_len

total_capacity == virt_size - NumPages

\* The lower limits of a storage; the upper ones (64 pages, 1024 words, 65535
\* erasures) keep its words and positions within their fields.
is_storage_supported ==
  /\ NumPages \in Nat /\ NumPages >= 3
  /\ PageWords \in Nat /\ PageWords >= 8
  /\ MaxPageErases \in Nat

ASSUME FormatAssumption ==
  /\ is_storage_supported
  /\ MaxValueWords \in Nat \ {0}
  /\ MaxKey \in Nat
  /\ MaxUpdates \in Nat

Pages == 0 .. NumPages - 1

-----------------------------------------------------------------------------
\* Positions.

Position(cycle, page, word) == (cycle * NumPages + page) * virt_page_size + word

page_begin(pos) == (pos \div virt_page_size) * virt_page_size

next_page(pos) == (pos \div virt_page_size + 1) * virt_page_size

CycleOf(pos) == (pos \div virt_page_size) \div NumPages

PageOf(pos) == (pos \div virt_page_size) % NumPages

WordOf(pos) == pos % virt_page_size

\* One past the last position: the last page of the last cycle is not used.
total_lifetime == Position(MaxPageErases, NumPages - 1, 0)

-----------------------------------------------------------------------------
\* Transactions: a sequence of updates, each a key and a value or NoValue.

entry_size(value_len) == 1 + value_len

transaction_valid(updates) ==
  /\ Len(updates) <= MaxUpdates
  /\ \A i \in DOMAIN updates :
       /\ updates[i].key <= MaxKey
       /\ updates[i].value # NoValue => Len(updates[i].value) <= max_value_len
  /\ \A i, j \in DOMAIN updates : i # j => updates[i].key # updates[j].key

update_capacity(update) ==
  IF update.value = NoValue THEN 1 ELSE entry_size(Len(update.value))

transaction_capacity(updates) ==
  CASE Len(updates) = 0 -> 0
    [] Len(updates) = 1 -> IF updates[1].value = NoValue THEN 0
                           ELSE entry_size(Len(updates[1].value))
    [] OTHER -> 1 + MapThenSumSet(LAMBDA i : update_capacity(updates[i]),
                                  DOMAIN updates)

=============================================================================

------------------------------- MODULE Store --------------------------------
(***************************************************************************)
(* The persistent store on its flash                                       *)
(* (libraries/persistent_store/src/store.rs, format.rs, and the storage    *)
(* contract of storage.rs and buffer.rs).                                  *)
(*                                                                         *)
(* The store is sequential: what an operation writes is a function of the  *)
(* flash it starts from and of its argument.  Each Rust function that      *)
(* writes is an operator from a run to a run, a run being the flash as the *)
(* function sees it, the storage operations issued so far and the result.  *)
(* A call computes its run; the behaviour then performs the storage        *)
(* operations one at a time, and power may be lost during any of them.     *)
(*                                                                         *)
(* Words.  A data word is abstracted to its number of bits set to zero     *)
(* (0 is the erased word, WordBits the wiped word), which is what the      *)
(* checksums count; the other words are records of their fields.  An       *)
(* interrupted write leaves a word between its old and its new value; for  *)
(* a word with a checksum every such word is unlike both and fails its     *)
(* checksum (lib.rs, Checksum): Partial(w).                                *)
(***************************************************************************)
EXTENDS StoreOperations, FiniteSets

LOCAL INSTANCE SequencesExt

CONSTANTS
  WordBits,        \* number of bits of a word
  MaxWordWrites,   \* how often a word can be written between two erasures
  MaxPowerLosses   \* bound on the number of power losses

ASSUME StoreAssumption ==
  /\ WordBits \in Nat \ {0}
  /\ MaxWordWrites \in Nat /\ MaxWordWrites >= 2
  /\ MaxPowerLosses \in Nat
  /\ NoOp \notin Operations

VARIABLES
  flash,    \* flash[page][word]
  script,   \* the storage operations that the call or the recovery still issues
  op,       \* the operation under way, or NoOp
  verdict,  \* what that operation will return
  phase,    \* "off", "recovering", "ready" or "running"
  writes,   \* writes[page][word]: writes since the page was erased
  erases,   \* erases[page]: how often the page was erased
  losses,   \* number of power losses
  restored  \* what recovery would make of the flash: its result, the content, the space

vars == <<flash, script, op, verdict, phase, writes, erases, losses, restored>>

-----------------------------------------------------------------------------
\* Words.

Raw(zeros) == [kind |-> "raw", zeros |-> zeros]
Erased == Raw(0)
Wiped == Raw(WordBits)
InitInfo(cycle, prefix) == [kind |-> "init", cycle |-> cycle, prefix |-> prefix]
CompactInfo(tail) == [kind |-> "compact", tail |-> tail]
Header(key, len, flipped, checksum) ==
  [kind |-> "header", key |-> key, len |-> len, flipped |-> flipped,
   checksum |-> checksum]
Deleted(len) == [kind |-> "deleted", len |-> len]
Internal(id, arg) == [kind |-> "internal", id |-> id, arg |-> arg]
Padding == [kind |-> "padding"]
Partial(word) == [kind |-> "partial", of |-> word]

PageIndex == 0 .. PageWords - 1
INIT_WORD == 0
COMPACT_WORD == 1

\* A write only clears bits.
Reachable(old, new) ==
  \/ old = new
  \/ old = Erased
  \/ new \in {Wiped, Padding}
  \/ old.kind = "raw" /\ new.kind = "raw" /\ old.zeros <= new.zeros
  \/ old.kind = "header" /\ new = Deleted(old.len)
  \/ old = Partial(new)

\* The words an interrupted write of new over old may leave.  Deleting and
\* padding clear a single bit.
Written(old, new) ==
  CASE old = new -> {old}
    [] old.kind = "raw" /\ new.kind = "raw" ->
         {Raw(z) : z \in old.zeros .. new.zeros}
    [] new.kind \in {"deleted", "padding"} -> {old, new}
    [] OTHER -> {old, Partial(new), new}

\* The words an interrupted erasure may leave.
Unwritten(old) ==
  CASE old.kind = "raw" -> {Raw(z) : z \in 0 .. old.zeros}
    [] old.kind = "partial" -> {old, Erased}
    [] OTHER -> {old, Partial(old), Erased}

-----------------------------------------------------------------------------
\* The storage interface.

\* The words of a page once words is written at index first.
Overwrite(page, first, words) ==
  [i \in PageIndex |-> IF i \in first .. first + Len(words) - 1
                       THEN words[i - first + 1] ELSE page[i]]

ErasedPage == [i \in PageIndex |-> Erased]

\* The page that operation o leaves when it is performed to its end ...
Performed(o, f) ==
  IF o.name = "erase" THEN ErasedPage
  ELSE Overwrite(f[o.page], o.first, o.words)

\* ... and the pages it may leave when it is interrupted.  Of a page that is
\* being erased, the content words are all kept, all gone or all damaged; its
\* init and compact words are independent of them.
Interrupted(o, f) ==
  LET page == f[o.page]
  IN  IF o.name = "erase"
      THEN { [i \in PageIndex |-> CASE i = INIT_WORD -> init
                                    [] i = COMPACT_WORD -> compact
                                    [] rest = "kept" -> page[i]
                                    [] rest = "gone" -> Erased
                                    [] OTHER -> IF page[i] = Erased THEN Erased
                                                ELSE Partial(page[i])] :
             init \in Unwritten(page[INIT_WORD]),
             compact \in Unwritten(page[COMPACT_WORD]),
             rest \in {"kept", "gone", "damaged"} }
      ELSE { Overwrite(page, o.first, words) :
             words \in { w \in [DOMAIN o.words ->
                                UNION { Written(page[o.first + i - 1], o.words[i]) :
                                        i \in DOMAIN o.words }] :
                         \A i \in DOMAIN o.words :
                           w[i] \in Written(page[o.first + i - 1], o.words[i]) } }

-----------------------------------------------------------------------------
\* Reading the flash.

read_word(f, pos) == f[PageOf(pos)][CONTENT_WORD + WordOf(pos)]

ValidInit(f, page) == f[page][INIT_WORD].kind = "init"

page_head(f, page) ==
  Position(f[page][INIT_WORD].cycle, page, f[page][INIT_WORD].prefix)

PageHeads(f) == { page_head(f, page) : page \in {p \in Pages : ValidInit(f, p)} }

\* parse_init and get_extremum_page_head fail on any other flash.
ValidPages(f) ==
  /\ PageHeads(f) # {}
  /\ \A page \in {p \in Pages : ValidInit(f, p)} :
       /\ f[page][INIT_WORD].cycle <= MaxPageErases
       /\ f[page][INIT_WORD].prefix <= max_prefix_len

head(f) == Min(PageHeads(f))

newest(f) == Max(PageHeads(f))

\* An entry: its kind, the position of its header, the number of words after
\* the header, and its argument (the key of a user entry).
Entry(kind, pos, len, arg) == [kind |-> kind, pos |-> pos, len |-> len, arg |-> arg]

\* The position after an entry.
After(entry) == entry.pos + 1 + entry.len

\* Mutant: does not look past the header.
parse_partial_HeaderOnly(f, pos) ==
  IF read_word(f, pos) = Erased THEN Entry("Tail", pos, 0, 0)
  ELSE Entry("Partial", pos, 0, 0)

\* Looks past an erased or invalid header for words written before it.
parse_partial(f, pos) ==
  LET used == {i \in 0 .. max_prefix_len - 1 : read_word(f, pos + i) # Erased}
  IN  IF used = {} THEN Entry("Tail", pos, 0, 0)
      ELSE Entry("Partial", pos, Max(used), 0)

count_zeros(word) == IF word.kind = "raw" THEN word.zeros ELSE WordBits + 1

\* A user entry is complete when its checksum is the one of its footer.
parse_user(f, pos, header, footer) ==
  CASE count_zeros(footer) = header.checksum ->
         Entry("User", pos, header.len, header.key)
    [] count_zeros(footer) # header.checksum /\ footer = Erased ->
         parse_partial(f, pos)
    [] OTHER -> Entry("PartialUser", pos, header.len, 0)

parse_word(f, pos, word) ==
  CASE word.kind = "padding" \/ word = Wiped -> Entry("Padding", pos, 0, 0)
    [] word.kind = "deleted" -> Entry("Padding", pos, word.len, 0)
    [] word.kind = "header" ->
         parse_user(f, pos, word,
                    IF word.len = 0 THEN Erased ELSE read_word(f, pos + word.len))
    [] word.kind = "internal" -> Entry(word.id, pos, 0, word.arg)
    [] word = Erased \/ word.kind = "partial" -> parse_partial(f, pos)
    \* A data word read as an entry.
    [] OTHER -> Entry("Invalid", pos, 0, 0)

parse_entry(f, pos) == parse_word(f, pos, read_word(f, pos))

\* The entries from pos up to end, to the tail or to an entry that was not
\* written to its end (nothing is written after one).
RECURSIVE EntriesFrom(_, _, _), EntriesWith(_, _, _)
EntriesFrom(f, pos, end) ==
  IF pos >= end THEN <<>> ELSE EntriesWith(f, parse_entry(f, pos), end)
EntriesWith(f, entry, end) ==
  CASE entry.kind = "Tail" -> <<>>
    [] entry.kind \in {"Partial", "PartialUser"} -> <<entry>>
    [] OTHER -> <<entry>> \o EntriesFrom(f, After(entry), end)

Entries(f) == EntriesFrom(f, head(f), head(f) + virt_size)

\* The entries before the first one of another kind.
Prefix(entries, kinds) ==
  LET others == {i \in DOMAIN entries : entries[i].kind \notin kinds}
  IN  IF others = {} THEN entries ELSE SubSeq(entries, 1, Min(others) - 1)

\* One past the last entry of the newest page.
EndOf(pos, entries) == IF entries = <<>> THEN pos ELSE After(Last(entries))

tail(f) ==
  LET last == newest(f)
  IN  EndOf(last, EntriesFrom(f, last, next_page(last)))

\* StoreIter and capacity fail on an entry that is not a user entry or padding.
IterValid(entries) ==
  \A i \in DOMAIN entries : entries[i].kind \in {"User", "Padding"}

Users(entries) == {e \in ToSet(entries) : e.kind = "User"}

get_value(f, pos) ==
  LET header == read_word(f, pos)
  IN  [i \in 1 .. header.len |->
         IF i = header.len /\ header.flipped THEN 0
         ELSE read_word(f, pos + i).zeros]

\* find, for every key.
Find(f, users) ==
  [k \in 0 .. MaxKey |->
     LET at == {e.pos : e \in {u \in users : u.arg = k}}
     IN  IF at = {} THEN NoValue ELSE get_value(f, Min(at))]

\* capacity
Used(entries) == MapThenSumSet(LAMBDA e : entry_size(e.len), Users(entries))

immediate_capacity(f) ==
  LET end == head(f) + virt_size
      last == tail(f)
  IN  IF last > end THEN 0 ELSE end - last

-----------------------------------------------------------------------------
\* Runs.  An operator does nothing once the run has failed (the ? of Rust).

Run(f) == [flash |-> f, script |-> <<>>, result |-> "Ok"]

Ok(run) == run.result = "Ok"

Fail(run, error) == [run EXCEPT !.result = error]

AndThen(run, Then(_)) == IF Ok(run) THEN Then(run) ELSE run

\* Takes Step for each entry in order and fails at one of another kind.
ForEntries(run, entries, kinds, Step(_, _)) ==
  FoldLeft(LAMBDA r, e : CASE ~Ok(r) -> r
                           [] Ok(r) /\ e.kind \notin kinds -> Fail(r, "InvalidStorage")
                           [] OTHER -> Step(r, e),
           run, entries)

Issue(run, o) ==
  [run EXCEPT !.flash[o.page] = Performed(o, run.flash),
              !.script = Append(@, o)]

WriteFrom(run, page, first, words, start) ==
  IF ~Reachable(run.flash[page][first + start - 1], words[start])
  THEN Fail(run, "InvalidStorage")
  ELSE Issue(run, [name |-> "write", page |-> page, first |-> first + start - 1,
                   words |-> SubSeq(words, start, Len(words))])

\* Writes from the first word that needs to be written.
storage_write_slice(run, page, first, words) ==
  LET needed == {i \in DOMAIN words : run.flash[page][first + i - 1] # words[i]}
  IN  IF ~Ok(run) \/ needed = {} THEN run
      ELSE WriteFrom(run, page, first, words, Min(needed))

\* The slice may span two pages.
write_slice(run, pos, words) ==
  LET first == CONTENT_WORD + WordOf(pos)
      room == Min({PageWords - first, Len(words)})
  IN  storage_write_slice(
        storage_write_slice(run, PageOf(pos), first, SubSeq(words, 1, room)),
        PageOf(next_page(pos)), CONTENT_WORD, SubSeq(words, room + 1, Len(words)))

storage_erase_page(run, page) ==
  IF ~Ok(run) \/ run.flash[page] = ErasedPage THEN run
  ELSE Issue(run, [name |-> "erase", page |-> page])

set_padding(run, pos) == write_slice(run, pos, <<Padding>>)

set_deleted(run, pos, len) == write_slice(run, pos, <<Deleted(len)>>)

wipe_span(run, pos, len) == write_slice(run, pos, [i \in 1 .. len |-> Wiped])

delete_pos(run, pos, len) == wipe_span(set_deleted(run, pos, len), pos + 1, len)

\* Mutant: takes the cycle from the page where the entry starts.
init_page_FirstCycle(run, first, last) ==
  LET opens == WordOf(first) = 0
      new_first == IF opens THEN first ELSE last + 1
      page == PageOf(new_first)
  IN  IF \/ ~opens /\ PageOf(first) = PageOf(last)
         \/ ValidInit(run.flash, page)
      THEN run
      ELSE storage_write_slice(run, page, INIT_WORD,
                               <<InitInfo(CycleOf(first), WordOf(new_first))>>)

\* Writes the init info of the page that the entry from first to last opens.
init_page(run, first, last) ==
  LET opens == WordOf(first) = 0
      new_first == IF opens THEN first ELSE last + 1
      page == PageOf(new_first)
  IN  IF \/ ~opens /\ PageOf(first) = PageOf(last)
         \/ ValidInit(run.flash, page)
      THEN run
      ELSE storage_write_slice(run, page, INIT_WORD,
                               <<InitInfo(CycleOf(new_first), WordOf(new_first))>>)

\* Deletes the user entries of keys, from the head up to end.
delete_keys(run, keys, end) ==
  ForEntries(run, EntriesFrom(run.flash, head(run.flash), end), {"User", "Padding"},
             LAMBDA r, e : IF e.kind = "User" /\ e.arg \in keys
                           THEN delete_pos(r, e.pos, e.len) ELSE r)

-----------------------------------------------------------------------------
\* Compaction.

\* Mutant: leaves the end of the last copied entry in the next page.
wipe_prefix_Keep(run, new_head) == run

\* Wipes the end of the entry that started in the page that was erased.
wipe_prefix(run, new_head) ==
  wipe_span(run, page_begin(new_head), new_head - page_begin(new_head))

compact_erase(run, erase) ==
  AndThen(run, LAMBDA marked :
    LET entry == parse_entry(marked.flash, erase)
    IN  IF entry.kind # "Erase" THEN Fail(marked, "InvalidStorage")
        ELSE AndThen(storage_erase_page(marked, entry.arg), LAMBDA erased :
               set_padding(wipe_prefix(erased, head(erased.flash)), erase)))

\* Copies an entry to the tail.
copy_entry(copy, entry) ==
  LET words == [i \in 1 .. 1 + entry.len |->
                  read_word(copy.run.flash, entry.pos + i - 1)]
  IN  [run |-> init_page(write_slice(copy.run, copy.tail, words),
                         copy.tail, copy.tail + entry.len),
       tail |-> copy.tail + 1 + entry.len]

\* parse_compact
ValidCompact(info) ==
  info.kind = "compact" /\ info.tail <= virt_size + max_prefix_len

\* Marks the copy as complete and erases the page.
finish_copy(copy, page) ==
  compact_erase(
    init_page(write_slice(copy.run, copy.tail, <<Internal("Erase", page)>>),
              copy.tail, copy.tail),
    copy.tail)

copy_page(run, from, info) ==
  IF ~ValidCompact(info) \/ from + info.tail < next_page(from)
  THEN Fail(run, "InvalidStorage")
  ELSE finish_copy(
         FoldLeft(copy_entry, [run |-> run, tail |-> from + info.tail],
                  SelectSeq(EntriesFrom(run.flash, from, next_page(from)),
                            LAMBDA e : e.kind = "User")),
         PageOf(from))

\* Continues a compaction after its compact info has been written.
compact_copy(run) ==
  AndThen(run, LAMBDA r :
    copy_page(r, head(r.flash), r.flash[PageOf(head(r.flash))][COMPACT_WORD]))

\* Mutant: does not check the lifetime.
compact_page_Forever(run, from) ==
  compact_copy(storage_write_slice(run, PageOf(from), COMPACT_WORD,
    <<CompactInfo(Max({tail(run.flash), next_page(from)}) - from)>>))

compact_page(run, from) ==
  IF CycleOf(from) >= MaxPageErases THEN Fail(run, "NoLifetime")
  ELSE compact_copy(storage_write_slice(run, PageOf(from), COMPACT_WORD,
         <<CompactInfo(Max({tail(run.flash), next_page(from)}) - from)>>))

compact(run) == AndThen(run, LAMBDA r : compact_page(r, head(r.flash)))

RECURSIVE compact_until(_, _)
compact_until(run, length) ==
  IF ~Ok(run) \/ immediate_capacity(run.flash) >= length THEN run
  ELSE compact_until(compact(run), length)

\* Mutant: refuses the last words of the capacity.
check_capacity_Strict(run, entries, length) ==
  IF ~IterValid(entries) THEN Fail(run, "InvalidStorage")
  ELSE IF total_capacity - Used(entries) <= length THEN Fail(run, "NoCapacity")
  ELSE run

check_capacity(run, entries, length) ==
  IF ~IterValid(entries) THEN Fail(run, "InvalidStorage")
  ELSE IF total_capacity - Used(entries) < length THEN Fail(run, "NoCapacity")
  ELSE run

reserve(run, length) ==
  compact_until(check_capacity(run, Entries(run.flash), length), length)

-----------------------------------------------------------------------------
\* Operations.

\* The words of a user entry: the footer never looks erased.
build_user(key, value) ==
  LET len == Len(value)
      flipped == len > 0 /\ value[len] = 0
      footer == IF flipped THEN 1 ELSE value[len]
  IN  <<Header(key, len, flipped, IF len = 0 THEN 0 ELSE footer)>>
      \o [i \in 1 .. len |-> Raw(IF i = len THEN footer ELSE value[i])]

\* Writes a user entry, its footer last.
write_user(run, pos, words) ==
  write_slice(write_slice(run, pos, SubSeq(words, 1, Len(words) - 1)),
              pos + Len(words) - 1, <<Last(words)>>)

\* Continues an insertion after the entry has been written.
insert_init(run, pos, len, key) ==
  delete_keys(init_page(run, pos, pos + len), {key}, pos)

insert_at(run, pos, key, value) ==
  insert_init(write_user(run, pos, build_user(key, value)), pos, Len(value), key)

insert(run, key, value) ==
  IF key > MaxKey \/ Len(value) > max_value_len THEN Fail(run, "InvalidArgument")
  ELSE AndThen(reserve(run, entry_size(Len(value))), LAMBDA r :
         insert_at(r, tail(r.flash), key, value))

remove(run, key) ==
  IF key > MaxKey THEN Fail(run, "InvalidArgument")
  ELSE delete_keys(run, {key}, tail(run.flash))

\* A handle is where an entry was found.  It is refused once its page was
\* compacted.
check_handle(run, handle) ==
  IF handle.pos < head(run.flash) THEN Fail(run, "InvalidArgument") ELSE run

remove_handle(run, handle) ==
  AndThen(check_handle(run, handle), LAMBDA r : delete_pos(r, handle.pos, handle.len))

\* Pads the remove entries of a transaction.
pad_removes(run, entries) ==
  ForEntries(run, entries, {"User", "Remove"},
             LAMBDA r, e : IF e.kind = "Remove" THEN set_padding(r, e.pos) ELSE r)

\* Mutant: pads the marker before it deletes the replaced entries.
transaction_apply_MarkerFirst(run, keys, marker) ==
  AndThen(delete_keys(set_padding(run, marker), keys, marker), LAMBDA r :
    pad_removes(r, EntriesFrom(r.flash, marker + 1, head(r.flash) + virt_size)))

\* Continues a transaction after it has been written.
transaction_apply(run, keys, marker) ==
  AndThen(set_padding(delete_keys(run, keys, marker), marker), LAMBDA r :
    pad_removes(r, EntriesFrom(r.flash, marker + 1, head(r.flash) + virt_size)))

write_words(write, words) ==
  [run |-> init_page(write_user(write.run, write.pos, words),
                     write.pos, write.pos + Len(words) - 1),
   pos |-> write.pos + Len(words)]

write_updates(run, updates, pos) ==
  FoldLeft(LAMBDA write, update :
             write_words(write, IF update.value = NoValue
                                THEN <<Internal("Remove", update.key)>>
                                ELSE build_user(update.key, update.value)),
           [run |-> run, pos |-> pos], updates).run

transaction_at(run, marker, updates) ==
  transaction_apply(
    write_updates(
      init_page(write_slice(run, marker, <<Internal("Marker", Len(updates))>>),
                marker, marker),
      updates, marker + 1),
    {updates[i].key : i \in DOMAIN updates}, marker)

transaction(run, updates) ==
  CASE Len(updates) = 0 -> run
    [] Len(updates) = 1 -> IF updates[1].value = NoValue
                           THEN remove(run, updates[1].key)
                           ELSE insert(run, updates[1].key, updates[1].value)
    [] OTHER -> IF ~transaction_valid(updates) THEN Fail(run, "InvalidArgument")
                ELSE AndThen(reserve(run, transaction_capacity(updates)), LAMBDA r :
                       transaction_at(r, tail(r.flash), updates))

\* Deletes the entries that a clear entry designates.
clear_delete(run, clear) ==
  AndThen(init_page(run, clear, clear), LAMBDA r :
    set_padding(delete_keys(r, parse_entry(r.flash, clear).arg .. MaxKey, clear), clear))

clear(run, min_key) ==
  IF min_key > MaxKey THEN Fail(run, "InvalidArgument")
  ELSE AndThen(compact_until(run, 1), LAMBDA r :
         LET pos == tail(r.flash)
         IN  clear_delete(write_slice(r, pos, <<Internal("Clear", min_key)>>), pos))

prepare(run, length) ==
  AndThen(check_capacity(run, Entries(run.flash), length), LAMBDA r :
    IF immediate_capacity(r.flash) < length THEN compact(r) ELSE r)

\* The client removes the entry that find_handle returns, if any.
remove_found(run, key) ==
  LET found == {e \in Users(Entries(run.flash)) : e.arg = key}
  IN  IF found = {} THEN run ELSE remove_handle(run, CHOOSE e \in found : TRUE)

Perform(o, f) ==
  CASE o.name = "transaction" -> transaction(Run(f), o.updates)
    [] o.name = "clear" -> clear(Run(f), o.min_key)
    [] o.name = "prepare" -> prepare(Run(f), o.length)
    [] o.name = "remove_found" -> remove_found(Run(f), o.key)

-----------------------------------------------------------------------------
\* Recovery.

\* Initializes the storage if it is erased or partially initialized.
recover_initialize(run) ==
  IF \E page \in Pages, i \in PageIndex :
       run.flash[page][i] # Erased /\ ~(page = 0 /\ i = INIT_WORD)
  THEN run
  ELSE storage_write_slice(run, 0, INIT_WORD, <<InitInfo(0, 0)>>)

\* Completes a compaction interrupted while erasing the page.
recover_erase_in(run, entries) ==
  LET done == Len(Prefix(entries, {"User", "Padding"}))
  IN  IF done < Len(entries) /\ entries[done + 1].kind = "Erase"
      THEN compact_erase(run, entries[done + 1].pos) ELSE run

recover_erase(run) ==
  AndThen(run, LAMBDA r :
    IF ~ValidPages(r.flash) THEN Fail(r, "InvalidStorage")
    ELSE recover_erase_in(r, EntriesFrom(r.flash, newest(r.flash),
                                         next_page(newest(r.flash)))))

\* Completes a compaction interrupted while copying the entries.
recover_compaction(run) ==
  AndThen(run, LAMBDA r :
    LET info == r.flash[PageOf(head(r.flash))][COMPACT_WORD]
    IN  CASE info = Erased -> r
          [] info.kind = "compact" -> compact_copy(r)
          [] OTHER -> compact(r))

recover_wipe_partial(run, pos, len) ==
  set_padding(init_page(wipe_span(run, pos + 1, len), pos, pos + len), pos)

recover_delete_user(run, pos, len) ==
  delete_pos(init_page(run, pos, pos + len), pos, len)

\* The last entry of an operation that was not written to its end.
recover_partial(run, e) ==
  IF e.kind = "Partial" THEN recover_wipe_partial(run, e.pos, e.len)
  ELSE recover_delete_user(run, e.pos, e.len)

\* Deletes the updates of a transaction that was not written to its end.
roll_back(run, entries) ==
  ForEntries(run, entries, {"User", "Padding", "Remove", "Partial", "PartialUser"},
    LAMBDA r, e : CASE e.kind = "User" -> delete_pos(r, e.pos, e.len)
                    [] e.kind = "Padding" -> r
                    [] e.kind = "Remove" -> set_padding(r, e.pos)
                    [] OTHER -> recover_partial(r, e))

\* Mutant: forgets the updates of an incomplete transaction.
recover_updates_Forget(run, marker, rest, updates) ==
  LET keys == {updates[i].arg : i \in DOMAIN updates}
  IN  IF Len(updates) = marker.arg THEN transaction_apply(run, keys, marker.pos)
      ELSE set_padding(init_page(run, marker.pos, marker.pos), marker.pos)

\* rest is the entries after the marker, updates those that were written.
recover_updates(run, marker, rest, updates) ==
  LET keys == {updates[i].arg : i \in DOMAIN updates}
  IN  CASE \/ Cardinality(keys) < Len(updates)
           \/ Len(updates) > marker.arg
           \/ /\ Len(updates) < Len(rest)
              /\ rest[Len(updates) + 1].kind \in {"Erase", "Clear", "Marker", "Invalid"} ->
             Fail(run, "InvalidStorage")
        [] Len(updates) = marker.arg -> transaction_apply(run, keys, marker.pos)
        [] OTHER -> set_padding(init_page(roll_back(run, rest), marker.pos, marker.pos),
                                marker.pos)

recover_transaction(run, marker, rest) ==
  LET updates == Prefix(rest, {"User", "Remove"})
  IN  recover_updates(
        IF updates = <<>> THEN run
        ELSE init_page(run, Last(updates).pos, After(Last(updates)) - 1),
        marker, rest, updates)

\* The entry at which an interrupted operation is recognised.
recover_entry(run, e, rest) ==
  CASE e.kind = "Clear" -> clear_delete(run, e.pos)
    [] e.kind = "Marker" -> recover_transaction(run, e, rest)
    [] e.kind \in {"Partial", "PartialUser"} -> recover_partial(run, e)
    [] OTHER -> Fail(run, "InvalidStorage")

\* An insertion may be interrupted after its entry is written.
recover_insert(run, entries) ==
  IF entries = <<>> \/ Last(entries).kind # "User" THEN run
  ELSE insert_init(run, Last(entries).pos, Last(entries).len, Last(entries).arg)

recover_rest(run, entries, done) ==
  IF done = Len(entries) THEN recover_insert(run, entries)
  ELSE recover_entry(run, entries[done + 1], SubSeq(entries, done + 2, Len(entries)))

\* A deletion may be interrupted before the value is wiped.
recover_deleted(run, e) == wipe_span(run, e.pos + 1, e.len)

recover_entries(run, entries) ==
  LET before == Prefix(entries, {"User", "Padding", "Remove"})
  IN  recover_rest(
        ForEntries(run, before, {"User", "Padding", "Remove"},
          LAMBDA r, e : CASE e.kind = "Padding" -> recover_deleted(r, e)
                          [] e.kind = "Remove" -> set_padding(r, e.pos)
                          [] OTHER -> r),
        entries, Len(before))

\* Recovers an interrupted operation other than a compaction.
recover_operation(run) ==
  AndThen(run, LAMBDA r : recover_entries(r, Entries(r.flash)))

\* Mutant: does not look for an interrupted erasure.
recover_NoErase(f) ==
  recover_operation(recover_compaction(recover_initialize(Run(f))))

recover(f) ==
  recover_operation(recover_compaction(recover_erase(recover_initialize(Run(f)))))

-----------------------------------------------------------------------------
\* The behaviour.

Empty == [page \in Pages |-> ErasedPage]

\* The erasures of each page once the storage operations of a run are performed.
ErasesAfter(counts, run) ==
  [page \in Pages |->
     counts[page] + Cardinality({i \in DOMAIN run.script :
                                   run.script[i].name = "erase" /\ run.script[i].page = page})]

Outcome(run, counts) ==
  LET users == Users(Entries(run.flash))
  IN  [result |-> run.result,
       content |-> Find(run.flash, users),
       head |-> head(run.flash),
       tail |-> tail(run.flash),
       live |-> UNION { e.pos .. e.pos + e.len : e \in users },
       erases |-> ErasesAfter(counts, run)]

\* The log once an interrupted compaction is completed: its entries other than
\* padding, and one past the last one.
LogAfter(run) ==
  LET entries == Entries(run.flash)
      used == {e \in ToSet(entries) : e.kind # "Padding"}
      logged(e) ==
        [kind |-> IF e.kind = "PartialUser" THEN "Partial" ELSE e.kind,
         arg |-> e.arg,
         value |-> IF e.kind = "User" THEN get_value(run.flash, e.pos) ELSE NoValue]
  IN  [entries |->
         [p \in {e.pos : e \in used} |-> logged(CHOOSE e \in used : e.pos = p)],
       tail |-> EndOf(head(run.flash), entries)]

\* What recovery makes of flash f, whose pages were erased counts times.
Restored(f, counts) ==
  LET compacted == recover_compaction(recover_erase(recover_initialize(Run(f))))
  IN  Outcome(recover_operation(compacted), counts) @@ [log |-> LogAfter(compacted)]

Init ==
  /\ flash = Empty
  /\ script = <<>>
  /\ op = NoOp
  /\ verdict = "Ok"
  /\ phase = "off"
  /\ writes = [page \in Pages |-> [i \in PageIndex |-> 0]]
  /\ erases = [page \in Pages |-> 0]
  /\ losses = 0
  /\ restored = Restored(Empty, erases)

Begin(o, run) ==
  /\ phase = "ready"
  /\ phase' = "running"
  /\ op' = o
  /\ script' = run.script
  /\ verdict' = run.result
  /\ UNCHANGED <<flash, writes, erases, losses, restored>>

\* A client calls an operation.
Call(o) == Begin(o, Perform(o, flash))

\* The storage leaves page in the flash while performing o: the counters of
\* BufferStorage count the words that o completes and changes.
Leave(o, page) ==
  /\ flash' = [flash EXCEPT ![o.page] = page]
  /\ IF o.name = "erase" /\ page = ErasedPage
     THEN /\ erases' = [erases EXCEPT ![o.page] = @ + 1]
          /\ writes' = [writes EXCEPT ![o.page] = [i \in PageIndex |-> 0]]
     ELSE /\ LET complete == Performed(o, flash)
                 counted == {i \in PageIndex : /\ o.name = "write"
                                               /\ page[i] # flash[o.page][i]
                                               /\ page[i] = complete[i]}
             IN  writes' = [writes EXCEPT ![o.page] =
                   [i \in PageIndex |-> IF i \in counted THEN @[i] + 1 ELSE @[i]]]
          /\ UNCHANGED erases
  /\ restored' = Restored(flash', erases')

\* The storage performs the next operation.
StorageStep ==
  /\ script # <<>>
  /\ Leave(script[1], Performed(script[1], flash))
  /\ script' = SubSeq(script, 2, Len(script))
  /\ UNCHANGED <<op, verdict, phase, losses>>

Return ==
  /\ phase = "running"
  /\ script = <<>>
  /\ phase' = "ready"
  /\ op' = NoOp
  /\ UNCHANGED <<flash, script, verdict, writes, erases, losses, restored>>

\* Power is lost, possibly during a storage operation.
PowerLoss ==
  /\ phase # "off"
  /\ losses < MaxPowerLosses
  /\ losses' = losses + 1
  /\ phase' = "off"
  /\ script' = <<>>
  /\ op' = NoOp
  /\ verdict' = "Ok"
  /\ IF script = <<>> THEN UNCHANGED <<flash, writes, erases, restored>>
     ELSE \E page \in Interrupted(script[1], flash) : Leave(script[1], page)

\* Store::new after power is back.
Boot ==
  /\ phase = "off"
  /\ phase' = "recovering"
  /\ script' = recover(flash).script
  /\ UNCHANGED <<flash, op, verdict, writes, erases, losses, restored>>

Recovered ==
  /\ phase = "recovering"
  /\ script = <<>>
  /\ phase' = "ready"
  /\ UNCHANGED <<flash, script, op, verdict, writes, erases, losses, restored>>

Next ==
  \/ \E o \in Operations : Call(o)
  \/ StorageStep
  \/ Return
  \/ PowerLoss
  \/ Boot
  \/ Recovered

Spec == Init /\ [][Next]_vars

-----------------------------------------------------------------------------
\* Properties.

Model == INSTANCE StoreModel
  WITH content <- restored.content,
       phase <- IF phase = "recovering" THEN "off" ELSE phase

\* Mutable operations are atomic, including when interrupted: seen through
\* recovery, the store takes the steps of StoreModel and no other.
Atomic == Model!ModelSpec

Space == INSTANCE LogSpace
  WITH head_pos <- restored.head, tail_pos <- restored.tail, live <- restored.live,
       erases <- restored.erases

\* Seen through recovery, the log occupies the flash as LogSpace says: the
\* space it takes, the space it needs before it compacts a page, what moves
\* then, and the erasures.
SpaceKept == Space!Spec

\* How many entries an operation writes, and has written: all of them once the
\* storage operations that are left write over words in use or init infos only.
entry_count(o) ==
  CASE o.name = "transaction" /\ Len(o.updates) = 1 ->
         IF o.updates[1].value = NoValue THEN 0 ELSE 1
    [] o.name = "transaction" /\ Len(o.updates) > 1 -> 1 + Len(o.updates)
    [] o.name = "clear" -> 1
    [] OTHER -> 0

entries_written ==
  LET log == restored.log.entries
      of(kinds) == {p \in DOMAIN log : log[p].kind \in kinds}
      left(o) == \/ o.name = "erase"
                 \/ o.first # INIT_WORD /\ flash[o.page][o.first] = Erased
  IN  CASE phase # "running" \/ verdict # "Ok" -> 0
        [] \A i \in DOMAIN script : ~left(script[i]) -> entry_count(op)
        [] of({"Marker"}) = {} -> 0
        [] OTHER -> 1 + Cardinality({p \in of({"User", "Remove"}) : p > Min(of({"Marker"}))})

Log == INSTANCE StoreLog
  WITH log <- restored.log.entries, tail_pos <- restored.log.tail,
       written <- entries_written, MaxPosition <- total_lifetime

\* Entry by entry, the log changes as StoreLog says.
LogKept == Log!Spec

\* Whatever the instant of a power loss, recovery finds a storage it understands.
RecoverySucceeds == restored.result = "Ok"

\* Between operations the values of entries that were replaced, removed,
\* cleared, compacted or never completed are wiped.
DeletedValuesWiped ==
  phase = "ready" =>
    LET live == UNION { {<<PageOf(q), WordOf(q)>> : q \in e.pos .. e.pos + e.len} :
                        e \in Users(Entries(flash)) }
    IN  \A page \in Pages, i \in 0 .. virt_page_size - 1 :
          LET word == flash[page][CONTENT_WORD + i]
          IN  word.kind = "raw" /\ <<page, i>> \notin live => word \in {Erased, Wiped}

\* A write only clears bits: no storage operation sets a bit of a word that
\* was cleared before.
OnlyClearsBits ==
  [][script # <<>> /\ script'  # script /\ script[1].name = "write" =>
       \A i \in PageIndex : Reachable(flash[script[1].page][i], flash'[script[1].page][i])]_vars

\* What check_storage of the driver compares: the erasures and the words
\* written that the store derives from its head and tail, and those that the
\* storage counted.
check_storage ==
  LET first == head(flash)
      last == tail(flash)
      count(b) == IF b THEN 1 ELSE 0
  IN  \A page \in Pages :
        LET cycle == CycleOf(first) + count(page < PageOf(first))
            start == Position(cycle, page, 0)
        IN  /\ erases[page] = cycle
            /\ writes[page][INIT_WORD] = count(start < last \/ (page = 0 /\ last = 0))
            /\ writes[page][COMPACT_WORD] = 0
            /\ \A i \in 0 .. virt_page_size - 1 :
                 writes[page][CONTENT_WORD + i] > 0 => start + i < last

\* lifetime: the words used and the words there are.
lifetime == [used |-> tail(flash), total |-> total_lifetime]

\* The store tracks the lifetime of the flash: between operations, also after
\* interrupted compactions and erasures, each page was erased as often as the
\* head says and nothing is written past the tail; at any time, the init info
\* of a page counts its erasures.  The lifetime used is at most the total one,
\* or StoreRatio would underflow.
LifetimeTracked ==
  /\ phase = "ready" => check_storage /\ lifetime.used <= lifetime.total
  /\ \A page \in Pages : ValidInit(flash, page) =>
       flash[page][INIT_WORD].cycle = erases[page]

\* The store never asks more of the flash than it offers, and knows what it
\* has asked for: a word is written at most MaxWordWrites times between two
\* erasures, a page is erased at most MaxPageErases times, and the lifetime is
\* tracked.
FlashRespected ==
  /\ \A page \in Pages, i \in PageIndex : writes[page][i] <= MaxWordWrites
  /\ \A page \in Pages : erases[page] <= MaxPageErases
  /\ LifetimeTracked

=============================================================================

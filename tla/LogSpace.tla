------------------------------ MODULE LogSpace ------------------------------
(***************************************************************************)
(* The space of the persistent store: where its log begins and ends, which *)
(* words of it hold user entries, and how often its pages were erased      *)
(* (libraries/persistent_store/src/store.rs, the sizes of format.rs).      *)
(*                                                                         *)
(* This is what Store does to the space of the flash, seen through         *)
(* recovery: Store is checked to implement it (Store!SpaceKept), and       *)
(* LogSpaceProofs proves for every size of the storage that the space      *)
(* reserved in virt_size and total_capacity is enough.  Which entries the  *)
(* words belong to is abstracted: an entry ends at most max_prefix_len     *)
(* words after the page in which it starts.                                *)
(***************************************************************************)
EXTENDS Format

VARIABLES
  head_pos,  \* the position of the first entry
  tail_pos,  \* one past the last entry
  live,      \* the positions of the words of the user entries
  erases     \* erases[page]: how often the page was erased

vars == <<head_pos, tail_pos, live, erases>>

Init ==
  /\ head_pos = 0
  /\ tail_pos = 0
  /\ live = {}
  /\ erases = [page \in Pages |-> 0]

\* Positions that no live word follows: an entry is written at the tail.
Fresh(end) == {p \in head_pos .. end - 1 : \A q \in live : q < p}

\* Words are written at the tail: those of a user entry become live once it is
\* complete, and the words of the entries it replaces are dead.  Until then,
\* and for good if the operation is interrupted, the words written are dead.
\* The words of a marker, a remove or a clear entry are always dead.
Write ==
  /\ tail_pos' \in tail_pos .. head_pos + virt_size
  /\ live' \in SUBSET (live \cup Fresh(tail_pos'))
  /\ Cardinality(live') <= total_capacity
  /\ UNCHANGED <<head_pos, erases>>

\* Entries are removed.
Delete ==
  /\ live' \in SUBSET live
  /\ UNCHANGED <<head_pos, tail_pos, erases>>

\* An operation may ask for the remaining capacity, and clear for one word
\* whatever the capacity.
largest_request == Max({1, total_capacity - Cardinality(live)})

\* Where the entries of the head page are copied to.
copy_begin == Max({tail_pos, next_page(head_pos)})

\* parse_compact: compact_copy fails on any other compact info.
ParsedCompact == copy_begin - head_pos <= virt_size + max_prefix_len

\* There is no room at the tail.
compact_needed == head_pos + virt_size < tail_pos + largest_request

\* The live words before new_head are copied to the tail, an erase entry after
\* them, and the head page is erased.
CompactTo(new_head) ==
  LET moved == {p \in live : p < new_head}
      erase == copy_begin + Cardinality(moved)
  IN  /\ head_pos' = new_head
      /\ tail_pos' = erase + 1
      /\ live' = (live \ moved) \cup (copy_begin .. erase - 1)
      /\ erases' = [erases EXCEPT ![PageOf(head_pos)] = @ + 1]

\* Where the first entry of the next page may start: an entry of the head page
\* may end there.
next_heads ==
  {p \in next_page(head_pos) .. next_page(head_pos) + max_prefix_len :
     p = next_page(head_pos) \/ p <= tail_pos}

\* The head page is compacted and the next page becomes the head page.
Compact ==
  /\ compact_needed
  /\ CycleOf(head_pos) < MaxPageErases
  /\ ParsedCompact
  /\ \E new_head \in next_heads : CompactTo(new_head)

Next == Write \/ Delete \/ Compact

Spec == Init /\ [][Next]_vars

-----------------------------------------------------------------------------
\* Properties.

\* Positions that are the same word of the flash.
SameWord(p, q) == PageOf(p) = PageOf(q) /\ WordOf(p) = WordOf(q)

\* The log never runs into itself: a word that is written, by an operation or
\* by a compaction before it erases the head page, is not the word of an
\* earlier position of the log, nor of the rest of the head page.
NoOverwrite ==
  [][\A q \in tail_pos .. tail_pos' - 1 : \A p \in page_begin(head_pos) .. q - 1 :
       ~SameWord(p, q)]_vars

\* A compaction moves the words of the user entries and loses none: no two are
\* copied to one place, and none is left in the page that is erased.
CompactionLosesNothing ==
  [][head_pos' # head_pos => /\ Cardinality(live') = Cardinality(live)
                             /\ \A p \in live' : PageOf(p) # PageOf(head_pos)]_vars

\* The head counts the erasures of the pages, none of which is erased more
\* often than it can be, and the lifetime used is at most the total lifetime.
LifetimeCounted ==
  /\ \A page \in Pages :
       /\ erases[page] = CycleOf(head_pos) + IF page < PageOf(head_pos) THEN 1 ELSE 0
       /\ erases[page] <= MaxPageErases
  /\ tail_pos <= total_lifetime

\* A compaction never fails on its own compact info, if a prefix may be as
\* long as there are pages but two.
CompactInfoFits ==
  NumPages - 2 <= max_prefix_len /\ compact_needed => ParsedCompact

=============================================================================

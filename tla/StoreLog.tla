------------------------------ MODULE StoreLog ------------------------------
(***************************************************************************)
(* The log of the persistent store, entry by entry                         *)
(* (libraries/persistent_store/src/store.rs).                              *)
(*                                                                         *)
(* An operation appends its entries to the log and then deletes what they  *)
(* replace, one entry at a time; recovery reads from the log how far an    *)
(* operation got, and completes it or rolls it back.  Power may be lost    *)
(* between any two of these steps or in the middle of one, during recovery *)
(* too.                                                                    *)
(*                                                                         *)
(* This is Store without words, pages and capacity: a deleted entry        *)
(* (padding) is no longer in the log, and a compaction, which recovery     *)
(* always completes, is one step.  Store is checked to implement it        *)
(* (Store!LogKept), and StoreLogProofs proves that it implements           *)
(* StoreModel, for any keys, values and number of updates.                 *)
(***************************************************************************)
EXTENDS StoreOperations

CONSTANT MaxPosition  \* the tail never gets past it

VARIABLES
  log,      \* the entries, each at its position
  tail_pos, \* one past the last entry
  op,       \* the operation under way, or NoOp
  verdict,  \* what that operation will return
  phase,    \* "off", "recovering", "ready" or "running"
  written   \* how many of its entries that operation has written

vars == <<log, tail_pos, op, verdict, phase, written>>

-----------------------------------------------------------------------------
\* Entries.  The argument is the key of a user or remove entry, the least key
\* that a clear entry removes and the number of updates after a marker.

Entry(kind, arg, value) == [kind |-> kind, arg |-> arg, value |-> value]

\* An entry that was not written to its end.
Partial == Entry("Partial", 0, NoValue)

UpdateEntry(update) ==
  Entry(IF update.value = NoValue THEN "Remove" ELSE "User", update.key, update.value)

size(e) == IF e.kind = "User" THEN entry_size(Len(e.value)) ELSE 1

\* The entries of some kinds in a log.
At(l, kinds) == {p \in DOMAIN l : l[p].kind \in kinds}

\* The updates that follow a marker, and whether these are all.
Updates(l, marker) == {p \in At(l, {"User", "Remove"}) : p > marker}

Complete(l, marker) == Cardinality(Updates(l, marker)) = l[marker].arg

With(l, pos, e) ==
  [p \in DOMAIN l \cup {pos} |-> IF p = pos THEN e ELSE l[p]]

Without(l, pos) == [p \in DOMAIN l \ {pos} |-> l[p]]

\* find_handle: the first entry of a key.
find(l, k) ==
  LET found == {p \in At(l, {"User"}) : l[p].arg = k}
  IN  IF found = {} THEN NoValue ELSE l[Min(found)].value

-----------------------------------------------------------------------------
\* What a log stands for.

\* An incomplete transaction, the updates after its marker included, does not
\* count.
Effective(l) ==
  {p \in DOMAIN l : \A m \in At(l, {"Marker"}) : Complete(l, m) \/ p < m}

\* The entries that say something about key k.
About(l, k) ==
  {p \in Effective(l) : \/ l[p].kind \in {"User", "Remove"} /\ l[p].arg = k
                        \/ l[p].kind = "Clear" /\ l[p].arg <= k}

\* The last one decides.
Content(l) ==
  [k \in 0 .. MaxKey |-> IF About(l, k) = {} THEN NoValue
                         ELSE l[Max(About(l, k))].value]

Model == INSTANCE StoreModel
  WITH content <- Content(log),
       phase <- IF phase = "recovering" THEN "off" ELSE phase

-----------------------------------------------------------------------------
\* Writing.

\* The entries that an operation writes: insert, transaction and clear.
EntriesOf(o) ==
  CASE o.name = "transaction" /\ Len(o.updates) = 1 ->
         IF o.updates[1].value = NoValue THEN <<>> ELSE <<UpdateEntry(o.updates[1])>>
    [] o.name = "transaction" /\ Len(o.updates) > 1 ->
         [i \in 1 .. 1 + Len(o.updates) |->
            IF i = 1 THEN Entry("Marker", Len(o.updates), NoValue)
            ELSE UpdateEntry(o.updates[i - 1])]
    [] o.name = "clear" -> <<Entry("Clear", o.min_key, NoValue)>>
    [] OTHER -> <<>>

\* Where the next entry goes: an entry whose writing has begun is the last.
write_pos == IF At(log, {"Partial"}) = {} THEN tail_pos ELSE Min(At(log, {"Partial"}))

next_entry == EntriesOf(op)[written + 1]

\* Some words of the next entry are written ...
WritePart ==
  /\ written < Len(EntriesOf(op))
  /\ log' = With(log, write_pos, Partial)
  /\ tail_pos' \in write_pos + 1 .. write_pos + size(next_entry)
  /\ tail_pos' <= MaxPosition

\* ... and then the last ones.
WriteEntry ==
  /\ written < Len(EntriesOf(op))
  /\ log' = With(log, write_pos, next_entry)
  /\ tail_pos' = write_pos + size(next_entry)
  /\ tail_pos' <= MaxPosition

-----------------------------------------------------------------------------
\* Deleting.

\* set_padding and set_deleted: the entry is no longer in the log.
Pad(pos) == log' = Without(log, pos) /\ UNCHANGED tail_pos

\* delete_keys: deletes the user entries of keys before end, in order.
Replaced(l, keys, end) == {p \in At(l, {"User"}) : l[p].arg \in keys /\ p < end}

DeleteKeys(keys, end) ==
  /\ Replaced(log, keys, end) # {}
  /\ Pad(Min(Replaced(log, keys, end)))

\* Deletes what an internal entry replaces, then pads the entry.
Conclude(pos, keys) ==
  \/ DeleteKeys(keys, pos)
  \/ Replaced(log, keys, pos) = {} /\ Pad(pos)

clear_delete(clear) == Conclude(clear, log[clear].arg .. MaxKey)

transaction_apply(marker) ==
  Conclude(marker, {log[p].arg : p \in Updates(log, marker)})

\* Pads the remove entries that are left, once their marker is padded.
PadRemoves ==
  /\ At(log, {"Marker", "Clear", "Partial"}) = {}
  /\ At(log, {"Remove"}) # {}
  /\ Pad(Min(At(log, {"Remove"})))

\* The key and the end that insert, remove and remove_handle give to delete_keys.
deleted_key(o) == IF o.name = "remove_found" THEN o.key ELSE o.updates[1].key

deletes_key(o) ==
  \/ o.name = "remove_found"
  \/ o.name = "transaction" /\ Len(o.updates) = 1

delete_end(o) == IF EntriesOf(o) = <<>> THEN tail_pos ELSE Max(DOMAIN log)

\* Applies an operation once its entries are written.
ApplyStep ==
  /\ written = Len(EntriesOf(op))
  /\ \/ \E clear \in At(log, {"Clear"}) : clear_delete(clear)
     \/ \E marker \in At(log, {"Marker"}) : transaction_apply(marker)
     \/ PadRemoves
     \/ deletes_key(op) /\ DeleteKeys({deleted_key(op)}, delete_end(op))

\* Nothing is left to do.
Applied ==
  /\ written = Len(EntriesOf(op))
  /\ At(log, {"Clear", "Marker", "Remove"}) = {}
  /\ deletes_key(op) => Replaced(log, {deleted_key(op)}, delete_end(op)) = {}

-----------------------------------------------------------------------------
\* Compaction: the entries before the new head are copied to the tail, or after
\* the head page if the tail is in it, and an erase entry after them.

CompactTo(first, begin) ==
  LET moved == {p \in At(log, {"User"}) : p < first}
      words == UNION {p .. p + size(log[p]) - 1 : p \in moved}
      copy == [p \in moved |-> begin + Cardinality({w \in words : w < p})]
      kept == {p \in DOMAIN log : p >= first}
  IN  /\ tail_pos' = begin + Cardinality(words) + 1
      /\ tail_pos' <= MaxPosition
      /\ log' = [p \in kept \cup {copy[q] : q \in moved} |->
                   IF p \in kept THEN log[p]
                   ELSE log[CHOOSE q \in moved : copy[q] = p]]

\* reserve, clear and prepare compact before anything is written.
Compact ==
  /\ op.name = "prepare" \/ EntriesOf(op) # <<>>
  /\ written = 0
  /\ At(log, {"Partial"}) = {}
  /\ \E begin \in {tail_pos, next_page(tail_pos)} : \E first \in 0 .. begin :
       CompactTo(first, begin)

-----------------------------------------------------------------------------
\* Recovery.

\* Deletes the updates of an incomplete transaction, then its marker.
roll_back(marker) ==
  LET after == {p \in DOMAIN log : p > marker}
  IN  IF after = {} THEN Pad(marker) ELSE Pad(Min(after))

recover_transaction(marker) ==
  IF Complete(log, marker) THEN transaction_apply(marker) ELSE roll_back(marker)

\* The last entry, if it is a user entry, may be an insertion.
recover_insert ==
  /\ At(log, {"Marker", "Clear", "Partial", "Remove"}) = {}
  /\ DOMAIN log # {}
  /\ LET last == Max(DOMAIN log)
     IN  /\ last + size(log[last]) = tail_pos
         /\ DeleteKeys({log[last].arg}, last)

\* The next step of recovery.  It depends on the log only: going on after a
\* step and starting again after it are the same.
RecoverStep ==
  \/ PadRemoves
  \/ \E clear \in At(log, {"Clear"}) : clear_delete(clear)
  \/ \E marker \in At(log, {"Marker"}) : recover_transaction(marker)
  \/ /\ At(log, {"Clear", "Marker"}) = {}
     /\ \E partial \in At(log, {"Partial"}) : Pad(partial)
  \/ recover_insert

RecoverDone ==
  /\ At(log, {"Clear", "Marker", "Remove", "Partial"}) = {}
  /\ DOMAIN log # {} =>
       LET last == Max(DOMAIN log)
       IN  last + size(log[last]) = tail_pos => Replaced(log, {log[last].arg}, last) = {}

-----------------------------------------------------------------------------
\* The behaviour.

Init ==
  /\ log = [p \in {} |-> Partial]
  /\ tail_pos = 0
  /\ op = NoOp
  /\ verdict = "Ok"
  /\ phase = "off"
  /\ written = 0

\* A compaction may find that the flash has no erase cycle left.
Call(o) ==
  /\ phase = "ready"
  /\ phase' = "running"
  /\ op' = o
  /\ \/ verdict' = Model!Verdict(o, Content(log))
     \/ /\ verdict' = "NoLifetime"
        /\ o.name = "prepare" \/ EntriesOf(o) # <<>>
        /\ Model!Verdict(o, Content(log)) = "Ok"
  /\ written' = 0
  /\ UNCHANGED <<log, tail_pos>>

\* A step of the operation that is under way.
WriteStep == phase = "running" /\ verdict = "Ok" /\ WriteEntry

OtherStep ==
  \/ phase = "recovering" /\ RecoverStep
  \/ phase = "running" /\ verdict = "Ok" /\ (WritePart \/ ApplyStep)
  \/ phase = "running" /\ verdict \in {"Ok", "NoLifetime"} /\ Compact

Work ==
  /\ \/ WriteStep /\ written' = written + 1
     \/ OtherStep /\ UNCHANGED written
  /\ UNCHANGED <<op, verdict, phase>>

Return ==
  /\ phase = "running"
  /\ verdict = "Ok" => Applied
  /\ phase' = "ready"
  /\ op' = NoOp
  /\ written' = 0
  /\ UNCHANGED <<log, tail_pos, verdict>>

\* Power is lost: the step that is under way is done or not.
PowerLoss ==
  /\ phase # "off"
  /\ UNCHANGED <<log, tail_pos>> \/ WriteStep \/ OtherStep
  /\ phase' = "off"
  /\ op' = NoOp
  /\ verdict' = "Ok"
  /\ written' = 0

Boot ==
  /\ phase = "off"
  /\ phase' = "recovering"
  /\ UNCHANGED <<log, tail_pos, op, verdict, written>>

Recovered ==
  /\ phase = "recovering"
  /\ RecoverDone
  /\ phase' = "ready"
  /\ UNCHANGED <<log, tail_pos, op, verdict, written>>

Next ==
  \/ \E o \in Operations : Call(o)
  \/ Work
  \/ Return
  \/ PowerLoss
  \/ Boot
  \/ Recovered

Spec == Init /\ [][Next]_vars

-----------------------------------------------------------------------------
\* Properties.

\* Operations are atomic, whatever is interrupted and however often: the log
\* stands for the contents that StoreModel goes through.
LogAtomic == Model!ModelSpec

\* Between operations, find returns what the log stands for: nothing that was
\* replaced, removed or never completed is left.
FindsContent ==
  phase = "ready" => \A k \in 0 .. MaxKey : find(log, k) = Content(log)[k]

\* No step finds an entry that it reports as an invalid storage: nothing but
\* user entries precedes a clear entry or a marker, nothing follows a clear
\* entry, no other marker or clear entry follows a marker, no more updates
\* than it announces, and those of a complete transaction have distinct keys
\* and end the log.
LogUnderstood ==
  \A s \in At(log, {"Marker", "Clear"}) :
    /\ \A p \in DOMAIN log : p < s => log[p].kind = "User"
    /\ log[s].kind = "Clear" => \A p \in DOMAIN log : p <= s
    /\ log[s].kind = "Marker" =>
         /\ Cardinality(Updates(log, s)) <= log[s].arg
         /\ \A p \in DOMAIN log : p > s => log[p].kind \in {"User", "Remove", "Partial"}
         /\ Complete(log, s) =>
              /\ \A p \in DOMAIN log : p > s => p \in Updates(log, s)
              /\ \A p, q \in Updates(log, s) : log[p].arg = log[q].arg => p = q

=============================================================================

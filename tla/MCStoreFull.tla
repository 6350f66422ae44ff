---------------------------- MODULE MCStoreFull -----------------------------
(***************************************************************************)
(* A store of many small pages (12 pages of 8 words), filled with live     *)
(* entries before its last words are consumed by updates of one key.       *)
(***************************************************************************)
EXTENDS Store

\* The client: six entries of one page each, then updates of a seventh key.
Stable == 0 .. MaxKey - 1
Large == [i \in 1 .. max_value_len |-> 1]
Insert(key, value) == [name |-> "transaction", updates |-> <<[key |-> key, value |-> value]>>]

MCOperations == {Insert(k, Large) : k \in Stable} \cup {Insert(MaxKey, <<>>)}

Missing == {k \in Stable : restored.content[k] = NoValue}

ClientCall ==
  IF Missing # {} THEN Call(Insert(Min(Missing), Large)) ELSE Call(Insert(MaxKey, <<>>))

ClientSpec == Init /\ [][ClientCall \/ StorageStep \/ Return \/ Boot \/ Recovered]_vars

\* "It should always be possible to fully compact the store" (lib.rs,
\* Compaction): no operation finds the storage invalid.
AlwaysCompactable == verdict # "InvalidStorage"

=============================================================================

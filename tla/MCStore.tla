------------------------------ MODULE MCStore -------------------------------
(***************************************************************************)
(* Instances of Store for TLC.                                             *)
(***************************************************************************)
EXTENDS Store

Insert(key, value) == [key |-> key, value |-> value]
Remove(key) == [key |-> key, value |-> NoValue]
Transaction(updates) == [name |-> "transaction", updates |-> updates]
Clear(min_key) == [name |-> "clear", min_key |-> min_key]
RemoveFound(key) == [name |-> "remove_found", key |-> key]
Prepare(length) == [name |-> "prepare", length |-> length]

\* The calls of the run with power losses and compactions: a value of two
\* words, a transaction of two updates, a removal and a clear.
CrashOperations ==
  { Transaction(<<Insert(0, <<2, 0>>)>>),
    Transaction(<<Remove(0), Insert(1, <<1>>)>>),
    Transaction(<<Remove(1)>>),
    Clear(0) }

\* The calls of the run with power losses during recovery.
TwiceOperations ==
  { Transaction(<<Insert(0, <<2, 0>>)>>),
    Transaction(<<Insert(1, <<1, 1>>)>>),
    Transaction(<<Remove(0), Insert(1, <<1>>)>>),
    RemoveFound(0),
    Clear(1) }

\* The calls of the run without power losses: every result an operation can
\* have, at the limits of its arguments.
ResultOperations ==
  { Transaction(<<>>),
    Transaction(<<Insert(0, <<1>>)>>),
    Transaction(<<Insert(1, <<1, 1>>)>>),
    Transaction(<<Remove(1)>>),
    Transaction(<<Insert(MaxKey + 1, <<>>)>>),
    Transaction(<<Insert(0, [i \in 1 .. max_value_len + 1 |-> 1])>>),
    Transaction(<<Insert(0, <<>>), Insert(1, <<1>>)>>),
    Transaction(<<Insert(0, <<>>), Remove(0)>>),
    Transaction([i \in 1 .. MaxUpdates + 1 |-> Remove(0)]),
    RemoveFound(0),
    Clear(1),
    Clear(MaxKey + 1),
    Prepare(2),
    Prepare(total_capacity) }

=============================================================================

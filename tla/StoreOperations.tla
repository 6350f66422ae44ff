-------------------------- MODULE StoreOperations ---------------------------
(***************************************************************************)
(* The calls that a client makes of the persistent store                   *)
(* (libraries/persistent_store/src/store.rs, StoreOperation of model.rs).  *)
(* An insertion or a removal is a transaction of one update.               *)
(***************************************************************************)
EXTENDS Format

CONSTANTS
  NoOp,        \* no operation is under way
  Operations   \* the calls the client may make

\* The arguments have their types; the store checks their values itself.
ASSUME OperationsAssumption ==
  \A o \in Operations :
    /\ o.name \in {"transaction", "clear", "prepare", "remove_found"}
    /\ o.name = "transaction" =>
         /\ Len(o.updates) \in Nat
         /\ DOMAIN o.updates = 1 .. Len(o.updates)
         /\ \A i \in DOMAIN o.updates :
              /\ o.updates[i].key \in Nat
              /\ o.updates[i].value # NoValue => Len(o.updates[i].value) \in Nat
    /\ o.name = "clear" => o.min_key \in Nat
    /\ o.name = "remove_found" => o.key \in Nat

=============================================================================

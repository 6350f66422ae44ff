----------------------------- MODULE StoreModel -----------------------------
(***************************************************************************)
(* What the persistent store promises                                      *)
(* (libraries/persistent_store/src/model.rs, and driver.rs for the effect  *)
(* of an interruption): a partial function from keys to values, mutable    *)
(* operations that are atomic even when power is lost, and a fixed         *)
(* capacity.                                                               *)
(*                                                                         *)
(* A call is decided when it is made (verdict), takes effect at one later  *)
(* instant (Commit), and returns.  Power may be lost at any instant; the   *)
(* operation under way then either took effect or did not.                 *)
(***************************************************************************)
EXTENDS StoreOperations

VARIABLES
  content,  \* the value of each key
  op,       \* the operation under way, or NoOp
  verdict,  \* what that operation will return
  phase     \* "ready", "running" or "off" (power lost, not yet recovered)

modelVars == <<content, op, verdict, phase>>

Keys == 0 .. MaxKey

Verdicts == {"Ok", "InvalidArgument", "NoCapacity", "NoLifetime"}

-----------------------------------------------------------------------------
used_capacity(c) ==
  MapThenSumSet(LAMBDA k : entry_size(Len(c[k])), {k \in Keys : c[k] # NoValue})

remaining_capacity(c) == total_capacity - used_capacity(c)

\* The result of an operation on content c, and its effect when it succeeds.

Verdict(o, c) ==
  CASE o.name = "transaction" ->
         IF ~transaction_valid(o.updates) THEN "InvalidArgument"
         ELSE IF remaining_capacity(c) < transaction_capacity(o.updates)
         THEN "NoCapacity" ELSE "Ok"
    [] o.name = "clear" ->
         IF o.min_key > MaxKey THEN "InvalidArgument" ELSE "Ok"
    [] o.name = "prepare" ->
         IF remaining_capacity(c) < o.length THEN "NoCapacity" ELSE "Ok"
    [] o.name = "remove_found" -> "Ok"

Updated(updates, k) == {i \in DOMAIN updates : updates[i].key = k}

Apply(o, c) ==
  CASE o.name = "transaction" ->
         [k \in Keys |-> IF Updated(o.updates, k) = {} THEN c[k]
                         ELSE o.updates[CHOOSE i \in Updated(o.updates, k) : TRUE].value]
    [] o.name = "clear" ->
         [k \in Keys |-> IF k < o.min_key THEN c[k] ELSE NoValue]
    [] o.name = "prepare" -> c
    [] o.name = "remove_found" -> [k \in Keys |-> IF k = o.key THEN NoValue ELSE c[k]]

-----------------------------------------------------------------------------

ModelInit ==
  /\ content = [k \in Keys |-> NoValue]
  /\ op = NoOp
  /\ verdict = "Ok"
  /\ phase = "off"

\* An operation may also find that the flash has no erase cycle left.
ModelCall(o) ==
  /\ phase = "ready"
  /\ phase' = "running"
  /\ op' = o
  /\ \/ verdict' = Verdict(o, content)
     \/ verdict' = "NoLifetime" /\ Verdict(o, content) = "Ok"
  /\ UNCHANGED content

ModelCommit ==
  /\ phase = "running"
  /\ verdict = "Ok"
  /\ content' = Apply(op, content)
  /\ UNCHANGED <<op, verdict, phase>>

ModelReturn ==
  /\ phase = "running"
  /\ verdict = "Ok" => content = Apply(op, content)
  /\ phase' = "ready"
  /\ op' = NoOp
  /\ UNCHANGED <<content, verdict>>

\* Power loss: the operation under way took effect or did not.
ModelPowerLoss ==
  /\ phase' = "off"
  /\ op' = NoOp
  /\ verdict' = "Ok"
  /\ \/ UNCHANGED content
     \/ /\ phase = "running" /\ verdict = "Ok"
        /\ content' = Apply(op, content)

ModelRecover ==
  /\ phase = "off"
  /\ phase' = "ready"
  /\ UNCHANGED <<content, op, verdict>>

ModelNext ==
  \/ \E o \in Operations : ModelCall(o)
  \/ ModelCommit
  \/ ModelReturn
  \/ ModelPowerLoss
  \/ ModelRecover

ModelSpec == ModelInit /\ [][ModelNext]_modelVars

=============================================================================

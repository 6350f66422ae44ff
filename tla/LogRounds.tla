----------------------------- MODULE LogRounds ------------------------------
(***************************************************************************)
(* LogSpace with a history variable: the number of compactions in a row,   *)
(* nothing being written or removed in between (the loops of reserve and   *)
(* clear in libraries/persistent_store/src/store.rs).                      *)
(***************************************************************************)
EXTENDS LogSpace

VARIABLE rounds

allVars == <<vars, rounds>>

RoundsInit == Init /\ rounds = 0

RoundsNext ==
  \/ Write /\ rounds' = 0
  \/ Delete /\ rounds' = 0
  \/ Compact /\ rounds' = rounds + 1

RoundsSpec == RoundsInit /\ [][RoundsNext]_allVars

\* After N - 1 compactions in a row the remaining capacity is available: the
\* loops of reserve and clear end, whatever power losses came before them.
RoundsBounded == rounds <= NumPages - 1

=============================================================================

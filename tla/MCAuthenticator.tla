-------------------------- MODULE MCAuthenticator ---------------------------
(***************************************************************************)
(* Instances of Authenticator for TLC.                                     *)
(***************************************************************************)
EXTENDS Authenticator, TLC

Creation(rp_id, user, rk, policy) ==
  [rp_id |-> rp_id, user |-> user, rk |-> rk, policy |-> policy]

\* Two users of a relying party, one of which has its credential updated with
\* another policy, and one of another relying party.
ResidentCreations ==
  { Creation(1, 1, TRUE, "Optional"),
    Creation(1, 1, TRUE, "Required"),
    Creation(1, 2, TRUE, "Optional"),
    Creation(2, 1, TRUE, "OptionalWithList") }

\* Two users of a relying party, and a key handle.
MixedCreations ==
  { Creation(1, 1, TRUE, "Optional"),
    Creation(1, 2, TRUE, "Optional"),
    Creation(1, 1, FALSE, "Optional") }

\* Nothing tells the attestation materials apart.
MaterialSymmetry == Permutations(Materials)

=============================================================================

--------------------------- MODULE MCPinProtocol ----------------------------
(***************************************************************************)
(* The PIN protocol with the limits of the code.  A PIN that is always     *)
(* long enough, one that is too short once the minimum has been raised,    *)
(* and one that fills the padding.                                         *)
(***************************************************************************)
EXTENDS PinProtocol, TLC

CONSTANTS four, six, padded

MCPinLength == (four :> 4) @@ (six :> 6) @@ (padded :> PIN_PADDED_LENGTH)
=============================================================================

------------------------------ MODULE MCDevice ------------------------------
(* Instances of Device for TLC: two channels; the requests of one, CANCEL    *)
(* of both.                                                                  *)
EXTENDS Device

MCPackets ==
  [cid : {"c1"}, cmd : {"u2f", "get", "next", "cancel", "wink"}]
    \union [cid : {"c2"}, cmd : {"cancel"}]

\* The requests that take a U2F touch past the end of the clock.
WinkPackets == [cid : {"c1"}, cmd : {"u2f", "wink"}]

=============================================================================

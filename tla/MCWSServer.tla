----------------------------- MODULE MCWSServer -----------------------------
(* Two connections, from the same address or from two.                     *)
(* Two ticks of silence are more than the timeout.                         *)
EXTENDS WSServer

CONSTANTS i1, i2

MCIds == {i1, i2}
=============================================================================

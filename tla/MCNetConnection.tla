--------------------------- MODULE MCNetConnection ---------------------------
(* Two messages of three units, and the replies: one may be cut, with a    *)
(* rest that fits the write buffer or one that does not, and another be    *)
(* dropped behind it; three units from the peer, so that a read may fill   *)
(* the buffer, overflow it so that it grows, and find it grown.            *)
EXTENDS NetConnection
=============================================================================

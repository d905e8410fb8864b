----------------------------- MODULE MCWSStream -----------------------------
(* The sizes of the code, and a length on each side of every boundary of   *)
(* encodeFrame: nothing, one byte length, 16-bit length, one slice         *)
(* exactly, whole slices, a short last slice (the 2048 of unitest.cpp is   *)
(* one), a long last slice.  The client's frameBuff_ is scaled down to     *)
(* three slices less two bytes, with a message that fits exactly and one   *)
(* that does not.                                                          *)
EXTENDS WSStream

MCLengths == {0, 125, 126, 499, 500, 626, 1000, 1125, 1126, 1498, 1499}
UnitTestLengths == {100, 460, 2048}
ServerLengths == {100, 460, 626}
=============================================================================

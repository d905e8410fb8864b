----------------------------- MODULE WSProtocol -----------------------------
(***************************************************************************)
(* websocket/WSProtocol.cpp: encodeFrame cuts a payload into frames and    *)
(* decodeFrame puts the payloads of frames together again.                 *)
(*                                                                         *)
(* A payload is not spelled out byte by byte.  A frame says which bytes of *)
(* which payload it carries: the len bytes of payload src from offset off. *)
(* So the sizes of the code (SLICE_SIZE 500, SHORT_LENGTH 126) are used as *)
(* they are.  The masking key has 4 bytes, and the masked byte at offset o *)
(* of a payload was combined with key byte o % 4.                          *)
(***************************************************************************)
EXTENDS Integers, Sequences

CONSTANTS SliceSize,     \* SLICE_SIZE
          ShortLength,   \* SHORT_LENGTH
          MaxFrameSize   \* MAX_FRAMESIZE

ASSUME SizesAssumption == /\ SliceSize \in Nat /\ ShortLength \in Nat /\ MaxFrameSize \in Nat
                          /\ 0 < ShortLength /\ ShortLength < SliceSize

(* computeMask runs over the whole payload and computeUnMask over each     *)
(* slice: that fits because a slice is a whole number of masking keys.     *)
ASSUME MaskAssumption == SliceSize % 4 = 0

DataOpcodes == {"text", "blob"}
ControlOpcodes == {"ping", "pong", "close"}
Opcodes == DataOpcodes \cup ControlOpcodes \cup {"continue"}

(* The struct WSHead (FIN, Opcode, PayloadLen) and the bytes that follow.  *)
Frame(fin, op, plen, src, off, len) ==
  [FIN |-> fin, Opcode |-> op, PayloadLen |-> plen,
   src |-> src, off |-> off, len |-> len]

(* The bytes of a payload that a frame carries. *)
Bytes(f) == [src |-> f.src, off |-> f.off, len |-> f.len]

-----------------------------------------------------------------------------
(* The number of frames the slicing branch means to send. *)
Slices(len) == len \div SliceSize + (IF len % SliceSize > 0 THEN 1 ELSE 0)

(* The last pass of the slicing loop. *)
LastSlice(src, len) ==
  LET i == Slices(len) - 1
      lastlen == len % SliceSize
  IN  IF lastlen < ShortLength
      THEN Frame(TRUE, "continue", lastlen, src, (i - 1) * SliceSize, lastlen)
      ELSE Frame(TRUE, "continue", ShortLength, src, i * SliceSize, lastlen)

(* Mutant: the 7-bit length is used in every slice. *)
SliceShortHeader(src, len, op, i) ==
  IF i > 1 /\ i = Slices(len)
  THEN LastSlice(src, len)
  ELSE Frame(FALSE, IF i = 1 THEN op ELSE "continue", SliceSize % 128, src,
             (i - 1) * SliceSize, SliceSize)

(* Pass i of the slicing loop, i counted from 1.  The first pass leaves    *)
(* FIN at 0 even when it is also the last.                                 *)
Slice(src, len, op, i) ==
  IF i > 1 /\ i = Slices(len)
  THEN LastSlice(src, len)
  ELSE Frame(FALSE, IF i = 1 THEN op ELSE "continue", ShortLength, src,
             (i - 1) * SliceSize, SliceSize)

(* encodeFrame, data opcodes: the frames in the order func receives them.  *)
EncodeData(src, len, op) ==
  IF len < ShortLength
  THEN <<Frame(TRUE, op, len, src, 0, len)>>
  ELSE IF len < SliceSize
  THEN <<Frame(TRUE, op, ShortLength, src, 0, len)>>
  ELSE [i \in 1 .. Slices(len) |-> Slice(src, len, op, i)]

(* encodeFrame, ping and pong: PayloadLen is a field of 7 bits. *)
EncodeControl(src, len, op) == <<Frame(TRUE, op, len % 128, src, 0, len)>>

-----------------------------------------------------------------------------
(* decodeFrame.                                                            *)

(* computeUnMask starts at key byte 0 in every frame: the bytes come out   *)
(* clear when the sender's key was at byte 0 there too.  masked tells      *)
(* whether computeMask left the payload combined with the key.             *)
UnMaskable(f) == f.len > 0                      \* assert(len > 0)
Clear(piece, masked) == masked /\ piece.off % 4 = 0

(* Mutant: a first slice does not start a message anew. *)
FrameBufferNoReset(buf, f) ==
  IF f.FIN /\ f.Opcode # "continue" THEN buf ELSE Append(buf, Bytes(f))

(* One pass of decodeFrame's loop: the new contents of frameBuff_, and the *)
(* sequence of payloads it hands to func (none or one).                    *)
FrameBuffer(buf, f) ==
  IF f.FIN
  THEN IF f.Opcode = "continue" THEN Append(buf, Bytes(f)) ELSE buf
  ELSE IF f.Opcode \in DataOpcodes THEN <<Bytes(f)>> ELSE Append(buf, Bytes(f))

(* Mutant: every continuation is taken for the last one. *)
DeliveredEarly(buf, f) ==
  IF f.Opcode = "continue" THEN <<Append(buf, Bytes(f))>>
  ELSE IF f.FIN THEN <<<<Bytes(f)>>>> ELSE <<>>

Delivered(buf, f) ==
  IF ~f.FIN THEN <<>>
  ELSE IF f.Opcode = "continue" THEN <<Append(buf, Bytes(f))>> ELSE <<<<Bytes(f)>>>>

(* Mutant: framePos_ is not reset at a first slice. *)
FrameStartKeeps(pos, f) == pos

(* Where in frameBuff_ the payload of a slice goes when framePos_ is pos:  *)
(* a first slice resets framePos_.                                         *)
FrameStart(pos, f) == IF ~f.FIN /\ f.Opcode \in DataOpcodes THEN 0 ELSE pos

(* framePos_ after the frame; a frame that is a whole message is handed    *)
(* over from where it was read.                                            *)
FramePos(pos, f) ==
  IF f.FIN /\ f.Opcode # "continue" THEN pos ELSE FrameStart(pos, f) + f.len

(* The memcpy of the payload, which nothing checks, ends behind the        *)
(* MAX_FRAMESIZE bytes of frameBuff_.                                      *)
Overruns(pos, f) == FramePos(pos, f) > MaxFrameSize

(* assert(header.PayloadLen == SHORT_LENGTH) and that of computeUnMask *)
Decodable(f) == /\ UnMaskable(f)
                /\ ~f.FIN => f.PayloadLen = ShortLength

-----------------------------------------------------------------------------
(* The bytes of a frame on the wire: WSHead, the 16-bit length if there is *)
(* one, the key and the payload.                                           *)
WireSize(f) == 2 + (IF f.PayloadLen = ShortLength THEN 2 ELSE 0) + 4 + f.len

(* The bytes the frames fs carry, in order. *)
Pieces(fs) == [i \in DOMAIN fs |-> Bytes(fs[i])]

(* Consecutive runs of bytes that together are the payload src of length   *)
(* len, nothing missing, repeated or out of place.                         *)
Tiles(pieces, src, len) ==
  /\ pieces # <<>>
  /\ \A i \in DOMAIN pieces : pieces[i].src = src
  /\ pieces[1].off = 0
  /\ \A i \in 1 .. Len(pieces) - 1 : pieces[i].off + pieces[i].len = pieces[i + 1].off
  /\ pieces[Len(pieces)].off + pieces[Len(pieces)].len = len

(* The lengths encodeFrame handles: below one slice, or with a last slice  *)
(* long enough for the 16-bit length field.  (Whether the receiver has     *)
(* room for a sliced message is another matter: see Overruns.)             *)
GoodLength(len) == len > 0 /\ (len < SliceSize \/ len % SliceSize >= ShortLength)
=============================================================================

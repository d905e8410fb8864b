------------------------------ MODULE WSStream ------------------------------
(***************************************************************************)
(* One direction of a connection, from the callers of encodeFrame to the   *)
(* callback of decodeFrame.  A user thread sends data messages: each slice *)
(* is a send of its own on the connection, so the heartbeat's PING or PONG *)
(* of another thread may come between two slices.  The receiver's          *)
(* handleRead gets whatever the socket holds, at least one byte, and       *)
(* passes exactly that to decodeFrame, which walks it frame by frame.      *)
(*                                                                         *)
(* FreshDecoder is FALSE for the client (WSNet::proto_ lives as long as    *)
(* the connection) and TRUE for the server (WebSocketServer::onConnMessage *)
(* makes a new WSProtocol for every read).                                 *)
(***************************************************************************)
EXTENDS WSProtocol, Functions, FiniteSets

CONSTANTS FreshDecoder,
          Lengths,       \* payload lengths the user may ask to send
          MaxSends,      \* bound: data messages
          MaxBeats       \* bound: heartbeat messages

ASSUME StreamAssumption == /\ FreshDecoder \in BOOLEAN
                           /\ Lengths \subseteq Nat
                           /\ MaxSends \in Nat /\ MaxBeats \in Nat

HeartbeatLength == 4     \* "PING" and "PONG"

VARIABLES sends,      \* per data message: its length, and whether its bytes
                      \* are masked once when encodeFrame copies them
          outbox,     \* frames of the encodeFrame call in progress
          beats,      \* heartbeats sent
          wire,       \* frames in the socket
          chunk,      \* frames of the current read, not yet decoded
          buf,        \* frameBuff_[0 .. framePos_)
          framePos,   \* framePos_
          delivered,  \* payloads handed to the callback of decodeFrame
          status      \* "ok"; or how the behaviour ended: see Endings

(* Assertions failed: of decodeFrame or computeUnMask about a frame        *)
(* ("aborted"), of decodeFrame about the length of a read ("longRead"), of *)
(* computeMask about an empty payload ("emptySend").  Memory was read or   *)
(* written out of bounds: a read ended inside a frame and was decoded past *)
(* its end ("garbled"), or a payload was copied past the end of frameBuff_ *)
(* ("overrun").                                                            *)
Endings == {"aborted", "longRead", "emptySend", "garbled", "overrun"}

vars == <<sends, outbox, beats, wire, chunk, buf, framePos, delivered, status>>

Heartbeats == 0       \* the src of heartbeat payloads; data payloads are 1, 2, ...

Init == /\ sends = <<>> /\ outbox = <<>> /\ beats = 0
        /\ wire = <<>> /\ chunk = <<>> /\ buf = <<>> /\ framePos = 0 /\ delivered = <<>>
        /\ status = "ok"

-----------------------------------------------------------------------------
(* The lengths that pass computeMask's assert(len > 0). *)
Sendable == Lengths \ {0}

(* encodeFrame of an empty payload *)
SendEmpty ==
  /\ status = "ok" /\ outbox = <<>> /\ 0 \in Lengths
  /\ status' = "emptySend"
  /\ UNCHANGED <<sends, outbox, beats, wire, chunk, buf, framePos, delivered>>

(* WSNet::send or WebSocketServer::send of a buffer with a new payload.    *)
SendFresh(len) ==
  /\ status = "ok" /\ outbox = <<>> /\ Len(sends) < MaxSends
  /\ sends' = Append(sends, [len |-> len, masked |-> TRUE])
  /\ outbox' = EncodeData(Len(sends) + 1, len, "text")
  /\ UNCHANGED <<beats, wire, chunk, buf, framePos, delivered, status>>

(* The same buffer is sent again.  computeMask works in place, on the      *)
(* caller's bytes, so the second call takes the mask off again.            *)
SendAgain ==
  /\ status = "ok" /\ outbox = <<>> /\ Len(sends) < MaxSends /\ sends # <<>>
  /\ LET last == sends[Len(sends)]
     IN  /\ sends' = Append(sends, [last EXCEPT !.masked = ~last.masked])
         /\ outbox' = EncodeData(Len(sends) + 1, last.len, "text")
  /\ UNCHANGED <<beats, wire, chunk, buf, framePos, delivered, status>>

(* func(buff, actuallen, context): encFrameCallback sends one frame *)
EmitFrame ==
  /\ status = "ok" /\ outbox # <<>>
  /\ wire' = Append(wire, Head(outbox))
  /\ outbox' = Tail(outbox)
  /\ UNCHANGED <<sends, beats, chunk, buf, framePos, delivered, status>>

(* sendHeartbeat or processPing, by another thread *)
SendHeartbeat ==
  /\ status = "ok" /\ beats < MaxBeats
  /\ beats' = beats + 1
  /\ wire' = wire \o EncodeControl(Heartbeats, HeartbeatLength, "ping")
  /\ UNCHANGED <<sends, outbox, chunk, buf, framePos, delivered, status>>

(* onConnMessage makes a decoder for the read, or goes on with the old one *)
Decoder == IF FreshDecoder THEN buf' = <<>> /\ framePos' = 0 ELSE UNCHANGED <<buf, framePos>>

Octets(fs) == FoldFunction(LAMBDA f, sum : sum + WireSize(f), 0, fs)

(* Mutant: the frame a read ended with is left out. *)
ReadSkips(n) ==
  /\ status = "ok" /\ chunk = <<>> /\ Octets(SubSeq(wire, 1, n)) < MaxFrameSize
  /\ chunk' = SubSeq(wire, 1, n)
  /\ wire' = SubSeq(wire, n + 2, Len(wire))
  /\ Decoder
  /\ UNCHANGED <<sends, outbox, beats, delivered, status>>

(* handleRead returns n whole frames, and onConnMessage starts decodeFrame *)
Read(n) ==
  /\ status = "ok" /\ chunk = <<>> /\ Octets(SubSeq(wire, 1, n)) < MaxFrameSize
  /\ chunk' = SubSeq(wire, 1, n)
  /\ wire' = SubSeq(wire, n + 1, Len(wire))
  /\ Decoder
  /\ UNCHANGED <<sends, outbox, beats, delivered, status>>

(* decodeFrame's assert(len < MAX_FRAMESIZE) *)
ReadLong(n) ==
  /\ status = "ok" /\ chunk = <<>> /\ Octets(SubSeq(wire, 1, n)) >= MaxFrameSize
  /\ status' = "longRead"
  /\ UNCHANGED <<sends, outbox, beats, wire, chunk, buf, framePos, delivered>>

(* The read ends inside a frame: decodeFrame trusts the length fields,     *)
(* reads behind the end of the string, and the rest of the frame is taken  *)
(* for a header by the next call.                                          *)
ReadCut ==
  /\ status = "ok" /\ chunk = <<>> /\ wire # <<>>
  /\ status' = "garbled"
  /\ UNCHANGED <<sends, outbox, beats, wire, chunk, buf, framePos, delivered>>

(* one pass of decodeFrame's loop *)
DecodeFrame ==
  /\ status = "ok" /\ chunk # <<>>
  /\ LET f == Head(chunk)
     IN  \/ /\ ~Decodable(f)
            /\ status' = "aborted"
            /\ UNCHANGED <<buf, framePos, delivered, chunk>>
         \/ /\ Decodable(f) /\ Overruns(framePos, f)
            /\ status' = "overrun"
            /\ UNCHANGED <<buf, framePos, delivered, chunk>>
         \/ /\ Decodable(f) /\ ~Overruns(framePos, f)
            /\ buf' = FrameBuffer(buf, f)
            /\ framePos' = FramePos(framePos, f)
            /\ delivered' = delivered \o Delivered(buf, f)
            /\ chunk' = Tail(chunk)
            /\ UNCHANGED status
  /\ UNCHANGED <<sends, outbox, beats, wire>>

Next == \/ \E len \in Sendable : SendFresh(len)
        \/ SendEmpty
        \/ SendAgain
        \/ EmitFrame
        \/ SendHeartbeat
        \/ \E n \in 1 .. Len(wire) : Read(n) \/ ReadLong(n)
        \/ ReadCut
        \/ DecodeFrame

Spec == Init /\ [][Next]_vars

-----------------------------------------------------------------------------
(* Properties.                                                             *)

TypeOK == /\ sends \in Seq([len : Sendable, masked : BOOLEAN])
          /\ beats \in 0 .. MaxBeats
          /\ framePos \in Nat
          /\ status \in {"ok"} \cup Endings

IsHeartbeat(d) == d = <<[src |-> Heartbeats, off |-> 0, len |-> HeartbeatLength]>>

(* The deliveries, by their number, that are no heartbeats. *)
DataDelivered == {i \in DOMAIN delivered : ~IsHeartbeat(delivered[i])}

(* A message handed to the callback holds bytes of one message only,       *)
(* whatever was sent between its slices; and if its length is one          *)
(* encodeFrame handles, it is that message from its first byte to its      *)
(* last, unmasked (masked instead, if the caller's buffer came to          *)
(* encodeFrame masked already).                                            *)
Intact ==
  \A j \in DataDelivered :
    LET d == delivered[j]
    IN  \E n \in DOMAIN sends :
          /\ \A i \in DOMAIN d : d[i].src = n
          /\ GoodLength(sends[n].len) =>
               /\ Tiles(d, n, sends[n].len)
               /\ \A i \in DOMAIN d : Clear(d[i], sends[n].masked) = sends[n].masked

(* Messages are handed over in the order they were sent, none twice.       *)
DeliveredInOrder ==
  \A i, j \in DataDelivered : i < j => delivered[i][1].src < delivered[j][1].src

(* Once everything sent was read at frame boundaries and decoded, and no   *)
(* message was too long for frameBuff_, every message of a length          *)
(* encodeFrame handles, and every heartbeat, has been handed over: an      *)
(* unfinished message of a bad length before it, or a heartbeat inside it, *)
(* does not swallow it.                                                    *)
NothingSwallowed ==
  outbox = <<>> /\ wire = <<>> /\ chunk = <<>> /\ status = "ok" =>
    /\ \A n \in DOMAIN sends : GoodLength(sends[n].len) =>
          \E d \in Range(delivered) : d[1].src = n
    /\ Cardinality(DOMAIN delivered \ DataDelivered) = beats

(* The receiver aborts over a frame only if its message was of several     *)
(* whole slices: its last frame is empty and computeUnMask asserts         *)
(* len > 0.                                                                *)
AbortsOnlyOnWholeSlices ==
  status = "aborted" =>
    \E n \in DOMAIN sends : sends[n].len > SliceSize /\ sends[n].len % SliceSize = 0

(* decodeFrame writes past the end of frameBuff_ only with a slice of a    *)
(* message that is longer than frameBuff_ itself: earlier messages,        *)
(* finished or not, take up no room, nor do heartbeats between the slices. *)
OverrunsOnlyIfTooLong ==
  status = "overrun" => sends[Head(chunk).src].len > MaxFrameSize

(* WSProtocol.h: "packing, slicing and putting together of data frames":   *)
(* what is handed over is what was sent, whatever its length.              *)
Reassembled ==
  \A j \in DataDelivered :
    LET d == delivered[j]
    IN  Tiles(d, d[1].src, sends[d[1].src].len)
=============================================================================

-------------------------- MODULE WSProtocolProofs --------------------------
(***************************************************************************)
(* encodeFrame, for every slice size and every length it handles: the      *)
(* frames it emits carry the payload from its first byte to its last, and  *)
(* decodeFrame recognises where the message ends.  Then one direction of a *)
(* connection (WSStream), for every set of lengths and any number of       *)
(* messages, heartbeats and reads: what the client hands over is what was  *)
(* sent, in order and with nothing missing, until a message comes that is  *)
(* longer than frameBuff_, and nothing shorter overruns it.                *)
(***************************************************************************)
EXTENDS WSStream, SequenceTheorems, FiniteSetTheorems, TLAPS

LEMMA DivMod ==
  ASSUME NEW n \in Nat, NEW d \in Nat, d > 0
  PROVE  /\ n \div d \in Nat /\ n % d \in Nat /\ n % d < d
         /\ n = d * (n \div d) + (n % d)
  BY Z3

LEMMA DivPositive ==
  ASSUME NEW n \in Nat, NEW d \in Nat, d > 0, n >= d
  PROVE  n \div d >= 1
  BY DivMod, Z3

(* A message of a length that is sliced has at least two slices, and the   *)
(* last one carries what the others leave.                                 *)
LEMMA SliceCount ==
  ASSUME NEW len \in Nat, GoodLength(len), len >= SliceSize
  PROVE  /\ Slices(len) \in Nat /\ Slices(len) >= 2
         /\ (Slices(len) - 1) * SliceSize + (len % SliceSize) = len
  <1> DEFINE q == len \div SliceSize
             r == len % SliceSize
  <1>1. q \in Nat /\ r \in Nat /\ len = SliceSize * q + r
    BY DivMod, SizesAssumption
  <1>2. q >= 1
    BY DivPositive, SizesAssumption
  <1>3. r >= ShortLength /\ r > 0
    BY <1>1, SizesAssumption DEF GoodLength
  <1>4. Slices(len) = q + 1
    BY <1>1, <1>3 DEF Slices
  <1>5. SliceSize * q = (Slices(len) - 1) * SliceSize
    BY <1>1, <1>4, SizesAssumption
  <1> QED BY <1>1, <1>2, <1>4, <1>5

(* A slice starts at a whole number of masking keys.                       *)
LEMMA SliceOnKey ==
  ASSUME NEW m \in Nat
  PROVE  (m * SliceSize) % 4 = 0
  <1> DEFINE k == SliceSize \div 4
  <1>1. k \in Nat /\ SliceSize = 4 * k
    BY DivMod, SizesAssumption, MaskAssumption
  <1>2. m * SliceSize = 4 * (m * k) /\ m * k \in Nat
    BY <1>1
  <1>3. \A j \in Nat : (4 * j) % 4 = 0
    OBVIOUS
  <1> QED BY <1>2, <1>3

(* What the slicing loop emits in pass i, for a length it handles.         *)
LEMMA SliceIs ==
  ASSUME NEW src, NEW len \in Nat, NEW op, GoodLength(len), len >= SliceSize,
         NEW i \in 1 .. Slices(len)
  PROVE  LET f == Slice(src, len, op, i)
         IN  /\ f.FIN <=> i = Slices(len)
             /\ f.Opcode = IF i = 1 THEN op ELSE "continue"
             /\ f.PayloadLen = ShortLength
             /\ f.src = src /\ f.off = (i - 1) * SliceSize
             /\ f.len = IF i = Slices(len) THEN len % SliceSize ELSE SliceSize
  <1>1. Slices(len) \in Nat /\ Slices(len) >= 2
    BY SliceCount
  <1>2. len % SliceSize \in Nat /\ len % SliceSize >= ShortLength
    BY DivMod, SizesAssumption DEF GoodLength
  <1>3. CASE i = Slices(len)
    <2>1. i > 1 /\ ~(i = 1)
      BY <1>1, <1>3
    <2>2. ~(len % SliceSize < ShortLength)
      BY <1>2, SizesAssumption
    <2> QED BY <1>3, <2>1, <2>2 DEF Slice, LastSlice, Frame
  <1>4. CASE i # Slices(len)
    BY <1>4 DEF Slice, Frame
  <1> QED BY <1>3, <1>4

(* Runs of S bytes each, and a last run of what is left, tile a payload.   *)
LEMMA EqualRunsTile ==
  ASSUME NEW ps, NEW n \in Nat, n >= 2, NEW S \in Nat, NEW r \in Nat, NEW src, NEW len,
         ps # <<>>, Len(ps) = n, DOMAIN ps = 1 .. n,
         \A i \in 1 .. n : ps[i].src = src /\ ps[i].off = (i - 1) * S,
         \A i \in 1 .. n : ps[i].len = IF i = n THEN r ELSE S,
         (n - 1) * S + r = len
  PROVE  Tiles(ps, src, len)
  <1>1. ps[1].off = 0
    <2>1. (1 - 1) * S = 0
      OBVIOUS
    <2> QED BY <2>1
  <1>2. ASSUME NEW i \in 1 .. n - 1
        PROVE  ps[i].off + ps[i].len = ps[i + 1].off
    <2>1. i \in 1 .. n /\ i + 1 \in 1 .. n /\ i # n
      OBVIOUS
    <2>2. ps[i].off = (i - 1) * S /\ ps[i].len = S
      BY <2>1
    <2>3. ps[i + 1].off = ((i + 1) - 1) * S
      BY <2>1
    <2>4. (i - 1) * S + S = ((i + 1) - 1) * S
      OBVIOUS
    <2> QED BY <2>2, <2>3, <2>4
  <1>3. ps[n].off + ps[n].len = len
    <2>1. ps[n].off = (n - 1) * S /\ ps[n].len = r
      OBVIOUS
    <2> QED BY <2>1
  <1> QED BY <1>1, <1>2, <1>3 DEF Tiles

-----------------------------------------------------------------------------
(* encodeFrame of a payload of a length it handles: its frames carry the   *)
(* payload exactly, from offset 0 to len, in order; only the last has FIN; *)
(* only the first has the message's opcode; none trips an assertion of     *)
(* decodeFrame, and each starts where the key does.                        *)
WellEncoded(fs, src, len, op) ==
  /\ Tiles(Pieces(fs), src, len)
  /\ \A i \in 1 .. Len(fs) :
       /\ fs[i].FIN <=> i = Len(fs)
       /\ fs[i].Opcode = IF i = 1 THEN op ELSE "continue"
       /\ Decodable(fs[i])
       /\ Clear(Bytes(fs[i]), TRUE)

LEMMA OneFrameWell ==
  ASSUME NEW src, NEW len \in Nat, len > 0, NEW op, NEW plen
  PROVE  WellEncoded(<<Frame(TRUE, op, plen, src, 0, len)>>, src, len, op)
  <1> DEFINE f == Frame(TRUE, op, plen, src, 0, len)
             b == Bytes(f)
             fs == <<f>>
             ps == Pieces(fs)
  <1>1. /\ f.FIN = TRUE /\ f.Opcode = op
        /\ b.src = src /\ b.off = 0 /\ b.len = len
        /\ Decodable(f) /\ Clear(b, TRUE)
    BY DEF Decodable, UnMaskable, Clear, Bytes, Frame
  <1> HIDE DEF f, b
  <1>2. ps = <<b>>
    BY DEF Pieces, b
  <1>3. Len(fs) = 1 /\ fs[1] = f /\ Len(<<b>>) = 1 /\ <<b>>[1] = b /\ DOMAIN <<b>> = {1} /\ <<b>> # <<>>
    OBVIOUS
  <1>4. Tiles(<<b>>, src, len)
    BY <1>1, <1>3 DEF Tiles
  <1>5. ASSUME NEW i \in 1 .. Len(fs) PROVE i = 1
    BY <1>3
  <1>6. Tiles(ps, src, len)
    BY <1>2, <1>4
  <1> HIDE DEF fs
  <1>7. WellEncoded(fs, src, len, op)
    BY <1>1, <1>3, <1>5, <1>6 DEF WellEncoded, b
  <1> QED BY <1>7 DEF fs, f

THEOREM EncodeCorrect ==
  ASSUME NEW src, NEW len \in Nat, NEW op, GoodLength(len)
  PROVE  WellEncoded(EncodeData(src, len, op), src, len, op)
  <1>1. CASE len < SliceSize
    BY <1>1, OneFrameWell DEF EncodeData, GoodLength
  <1>2. CASE len >= SliceSize
    <2> DEFINE n == Slices(len)
               r == len % SliceSize
               fs == EncodeData(src, len, op)
               ps == Pieces(fs)
    <2>1. n \in Nat /\ n >= 2 /\ (n - 1) * SliceSize + r = len
      BY <1>2, SliceCount
    <2>2. r \in Nat /\ r > 0
      BY DivMod, <1>2, SizesAssumption DEF GoodLength
    <2>3. fs = [i \in 1 .. n |-> Slice(src, len, op, i)]
      BY <1>2, SizesAssumption DEF EncodeData
    <2>4. Len(fs) = n /\ DOMAIN fs = 1 .. n
      BY <2>1, <2>3
    <2>5. \A i \in 1 .. n : fs[i] = Slice(src, len, op, i)
      BY <2>3
    <2>6. \A i \in 1 .. n :
             /\ fs[i].FIN <=> i = n
             /\ fs[i].Opcode = IF i = 1 THEN op ELSE "continue"
             /\ fs[i].PayloadLen = ShortLength
             /\ fs[i].src = src /\ fs[i].off = (i - 1) * SliceSize
             /\ fs[i].len = IF i = n THEN r ELSE SliceSize
      BY <2>5, SliceIs, <1>2
    <2>7. Len(ps) = n /\ DOMAIN ps = 1 .. n /\ ps # <<>>
      BY <2>1, <2>4 DEF Pieces
    <2>8. \A i \in 1 .. n : ps[i].src = fs[i].src /\ ps[i].off = fs[i].off /\ ps[i].len = fs[i].len
      BY <2>4 DEF Pieces, Bytes
    <2> HIDE DEF n, r, fs, ps
    <2>9. Tiles(ps, src, len)
      <3>1. SliceSize \in Nat
        BY SizesAssumption
      <3>2. \A i \in 1 .. n : ps[i].src = src /\ ps[i].off = (i - 1) * SliceSize
        BY <2>6, <2>8
      <3>3. \A i \in 1 .. n : ps[i].len = IF i = n THEN r ELSE SliceSize
        BY <2>6, <2>8
      <3> QED BY ONLY <2>1, <2>2, <2>7, <3>1, <3>2, <3>3, EqualRunsTile
    <2>10. ASSUME NEW i \in 1 .. n
           PROVE  Decodable(fs[i]) /\ Clear(Bytes(fs[i]), TRUE)
      <3>1. ((i - 1) * SliceSize) % 4 = 0
        BY <2>1, SliceOnKey
      <3>2. fs[i].len > 0 /\ fs[i].PayloadLen = ShortLength
        BY <2>2, <2>6, SizesAssumption
      <3> QED BY <2>6, <3>1, <3>2 DEF Decodable, UnMaskable, Clear, Bytes
    <2>11. WellEncoded(fs, src, len, op)
      BY <2>4, <2>6, <2>9, <2>10 DEF WellEncoded, ps
    <2> QED BY <2>11 DEF fs
  <1> QED BY <1>1, <1>2, SizesAssumption

-----------------------------------------------------------------------------
(* One direction of a connection.                                          *)

(* The frames of message s of the messages ss; the pieces of its payload   *)
(* that the first k of them carry; and the place of a frame of a message   *)
(* among them.                                                             *)
Enc(ss, s) == EncodeData(s, ss[s].len, "text")
Prefix(ss, s, k) == [i \in 1 .. k |-> Bytes(Enc(ss, s)[i])]
IsData(ss, f) == f.src \in DOMAIN ss /\ \E k \in DOMAIN Enc(ss, f.src) : Enc(ss, f.src)[k] = f
Idx(ss, f) == CHOOSE k \in DOMAIN Enc(ss, f.src) : Enc(ss, f.src)[k] = f

Beat == Frame(TRUE, "ping", HeartbeatLength % 128, Heartbeats, 0, HeartbeatLength)

(* The k-th frame of message s comes before the l-th of message t.         *)
Before(s, k, t, l) == s < t \/ (s = t /\ k < l)

(* The frames that were sent and are not decoded, and those of them, or    *)
(* about to be sent, that carry data.                                      *)
In == chunk \o wire
DataOf(ss, q) == {f \in Range(q) : IsData(ss, f)}
Sent == DataOf(sends, In)
Ahead == Sent \cup (IF outbox = <<>> THEN {} ELSE {outbox[1]})

(* What is under way are heartbeats and frames of messages; the outbox     *)
(* holds the last frames of the last message.                              *)
FramesInv ==
  /\ \A i \in DOMAIN In : In[i] = Beat \/ IsData(sends, In[i])
  /\ outbox # <<>> =>
       /\ Len(sends) > 0
       /\ \A j \in DOMAIN outbox :
            /\ IsData(sends, outbox[j]) /\ outbox[j].src = Len(sends)
            /\ Idx(sends, outbox[j]) = Len(Enc(sends, Len(sends))) - Len(outbox) + j

(* The frames of messages are under way in the order of encodeFrame, none  *)
(* missing: the one before is under way too, or is the last in frameBuff_. *)
QueuedInv ==
  /\ \A i, j \in DOMAIN In : i < j /\ IsData(sends, In[i]) /\ IsData(sends, In[j]) =>
       Before(In[i].src, Idx(sends, In[i]), In[j].src, Idx(sends, In[j]))
  /\ outbox # <<>> => \A f \in Sent :
       Before(f.src, Idx(sends, f), outbox[1].src, Idx(sends, outbox[1]))
  /\ \A f \in Ahead : Idx(sends, f) > 1 =>
       \/ \E g \in Sent : g.src = f.src /\ Idx(sends, g) = Idx(sends, f) - 1
       \/ buf = Prefix(sends, f.src, Idx(sends, f) - 1)

(* frameBuff_ holds the first slices of one message, and what is under way *)
(* comes after them.                                                       *)
BufInv ==
  buf # <<>> =>
    /\ buf[1].src \in DOMAIN sends
    /\ buf = Prefix(sends, buf[1].src, Len(buf))
    /\ \A f \in Ahead : Before(buf[1].src, Len(buf), f.src, Idx(sends, f))

(* What was handed over is all that encodeFrame made of a message, and     *)
(* what is under way are messages after it.                                *)
DeliveredInv ==
  /\ DeliveredInOrder
  /\ \A i \in DataDelivered :
       /\ delivered[i][1].src \in DOMAIN sends
       /\ delivered[i] = Pieces(Enc(sends, delivered[i][1].src))
       /\ \A f \in Ahead : delivered[i][1].src < f.src

(* The last frame of a message is not sent, under way, or was decoded.     *)
LastInv ==
  \A n \in DOMAIN sends : GoodLength(sends[n].len) =>
    \/ \E d \in Range(delivered) : d[1].src = n
    \/ \E f \in Sent : f.src = n /\ Idx(sends, f) = Len(Enc(sends, n))
    \/ outbox # <<>> /\ n = Len(sends)

(* The heartbeats sent are under way or were handed over.                  *)
BeatsIn(q) == {i \in DOMAIN q : q[i] = Beat}
BeatsHanded(ds) == {i \in DOMAIN ds : IsHeartbeat(ds[i])}
BeatsInv == Cardinality(BeatsHanded(delivered)) + Cardinality(BeatsIn(In)) = beats

Fr == [FIN : BOOLEAN, Opcode : {"text", "ping", "continue"}, PayloadLen : Nat, src : Nat,
       off : Int, len : Nat]
Msgs == [len : Sendable, masked : BOOLEAN]

LEMMA MulMono ==
  ASSUME NEW a \in Nat, NEW b \in Nat, a < b, NEW d \in Nat, d > 0
  PROVE  a * d < b * d
  BY Z3

(* Pass i of the slicing loop, for any length.                             *)
LEMMA SliceFacts ==
  ASSUME NEW src \in Nat, NEW len \in Nat, len >= SliceSize, NEW i \in 1 .. Slices(len)
  PROVE  LET f == Slice(src, len, "text", i)
         IN  /\ f \in Fr /\ f.src = src
             /\ f.FIN <=> i > 1 /\ i = Slices(len)
             /\ f.Opcode = IF i = 1 THEN "text" ELSE "continue"
             /\ ~f.FIN => f.off = (i - 1) * SliceSize
             /\ ~Decodable(f) => len > SliceSize /\ len % SliceSize = 0
  <1> DEFINE q == len \div SliceSize
             r == len % SliceSize
             n == Slices(len)
  <1>1. q \in Nat /\ r \in Nat /\ len = SliceSize * q + r
    BY DivMod, SizesAssumption
  <1>2. n \in Nat /\ n = q + (IF r > 0 THEN 1 ELSE 0)
    BY <1>1 DEF Slices
  <1>3. SliceSize \in Nat /\ ShortLength \in Nat /\ SliceSize > 0
    BY SizesAssumption
  <1>4. (i - 1) * SliceSize \in Int /\ (n - 1) * SliceSize \in Int
        /\ (n - 1 - 1) * SliceSize \in Int
    BY <1>2, <1>3
  <1> HIDE DEF q, r
  <1>5. CASE i > 1 /\ i = n
    <2> DEFINE f == LastSlice(src, len)
    <2>1. Slice(src, len, "text", i) = f /\ i # 1
      BY <1>5 DEF Slice
    <2>2. \E off \in Int, plen \in Nat : f = Frame(TRUE, "continue", plen, src, off, r)
      <3>1. CASE r < ShortLength
        BY <1>1, <1>4, <3>1 DEF LastSlice, r
      <3>2. CASE ~(r < ShortLength)
        BY <1>3, <1>4, <3>2 DEF LastSlice, r
      <3> QED BY <3>1, <3>2
    <2>3. f \in Fr /\ f.src = src /\ f.FIN = TRUE /\ f.Opcode = "continue" /\ f.len = r
      <3>1. PICK off \in Int, plen \in Nat : f = Frame(TRUE, "continue", plen, src, off, r)
        BY <2>2
      <3> HIDE DEF f
      <3>2. Frame(TRUE, "continue", plen, src, off, r) \in Fr
        BY <1>1 DEF Frame, Fr
      <3>3. f.src = src /\ f.FIN = TRUE /\ f.Opcode = "continue" /\ f.len = r
        BY <3>1 DEF Frame
      <3> QED BY <3>1, <3>2, <3>3
    <2>4. ~Decodable(f) => r = 0
      BY <1>1, <2>3 DEF Decodable, UnMaskable
    <2>5. r = 0 => len > SliceSize
      <3> SUFFICES ASSUME r = 0 PROVE len > SliceSize
        OBVIOUS
      <3>1. n = q /\ q > 1 /\ len = SliceSize * q
        BY <1>1, <1>2, <1>3, <1>5
      <3>2. 1 * SliceSize < q * SliceSize
        BY <1>1, <1>3, <3>1, MulMono
      <3> QED BY <1>1, <1>3, <3>1, <3>2
    <2> HIDE DEF f
    <2> QED BY <1>5, <2>1, <2>3, <2>4, <2>5 DEF r
  <1>6. CASE ~(i > 1 /\ i = n)
    <2> DEFINE op == IF i = 1 THEN "text" ELSE "continue"
               f == Frame(FALSE, op, ShortLength, src, (i - 1) * SliceSize, SliceSize)
    <2>1. Slice(src, len, "text", i) = f
      BY <1>6 DEF Slice
    <2>2. /\ f \in Fr /\ f.src = src /\ f.FIN = FALSE /\ f.Opcode = op
          /\ f.off = (i - 1) * SliceSize /\ f.len = SliceSize /\ f.PayloadLen = ShortLength
      BY <1>3, <1>4 DEF Frame, Fr
    <2>3. Decodable(f)
      BY <1>3, <2>2 DEF Decodable, UnMaskable
    <2> HIDE DEF f
    <2> QED BY <1>6, <2>1, <2>2, <2>3
  <1> QED BY <1>5, <1>6

(* What encodeFrame makes of a payload of any length: the frames are all   *)
(* different, the first has the opcode, FIN is on no other than the last,  *)
(* and only an empty last slice trips an assertion of decodeFrame.         *)
Frames(fs, src, len) ==
  /\ fs \in Seq(Fr) /\ Len(fs) \in Nat /\ Len(fs) >= 1 /\ DOMAIN fs = 1 .. Len(fs)
  /\ \A k \in 1 .. Len(fs) : fs[k].src = src /\ (fs[k].FIN => k = Len(fs))
  /\ \A k \in 1 .. Len(fs) : fs[k].Opcode = IF k = 1 THEN "text" ELSE "continue"
  /\ \A k, l \in 1 .. Len(fs) : fs[k] = fs[l] => k = l
  /\ \A k \in 1 .. Len(fs) : ~Decodable(fs[k]) => len > SliceSize /\ len % SliceSize = 0
  /\ GoodLength(len) => fs[Len(fs)].FIN

LEMMA EncodeFacts ==
  ASSUME NEW src \in Nat, NEW len \in Nat, len > 0
  PROVE  Frames(EncodeData(src, len, "text"), src, len)
  <1>1. CASE len < SliceSize
    <2>1. PICK plen \in Nat : EncodeData(src, len, "text") = <<Frame(TRUE, "text", plen, src, 0, len)>>
      BY <1>1, SizesAssumption DEF EncodeData
    <2> DEFINE f == Frame(TRUE, "text", plen, src, 0, len)
    <2>2. f \in Fr /\ f.src = src /\ f.FIN = TRUE /\ f.Opcode = "text" /\ Decodable(f)
      BY DEF Frame, Fr, Decodable, UnMaskable
    <2> HIDE DEF f
    <2>3. <<f>> \in Seq(Fr) /\ Len(<<f>>) = 1 /\ DOMAIN <<f>> = 1 .. 1 /\ <<f>>[1] = f
      BY <2>2
    <2>4. Frames(<<f>>, src, len)
      BY <2>2, <2>3 DEF Frames
    <2> QED BY <2>1, <2>4 DEF f
  <1>2. CASE len >= SliceSize
    <2> DEFINE n == Slices(len)
               fs == EncodeData(src, len, "text")
    <2>1. n \in Nat /\ n >= 1
      <3>1. len \div SliceSize \in Nat /\ len % SliceSize \in Nat /\ len \div SliceSize >= 1
        BY <1>2, DivMod, DivPositive, SizesAssumption
      <3> QED BY <3>1 DEF Slices
    <2>2. fs = [i \in 1 .. n |-> Slice(src, len, "text", i)]
      BY <1>2, SizesAssumption DEF EncodeData
    <2>3. \A k \in 1 .. n :
             /\ fs[k] \in Fr /\ fs[k].src = src
             /\ fs[k].FIN <=> k > 1 /\ k = n
             /\ fs[k].Opcode = IF k = 1 THEN "text" ELSE "continue"
             /\ ~fs[k].FIN => fs[k].off = (k - 1) * SliceSize
             /\ ~Decodable(fs[k]) => len > SliceSize /\ len % SliceSize = 0
      <3> SUFFICES ASSUME NEW k \in 1 .. n
                   PROVE  /\ fs[k] \in Fr /\ fs[k].src = src
                          /\ fs[k].FIN <=> k > 1 /\ k = n
                          /\ fs[k].Opcode = IF k = 1 THEN "text" ELSE "continue"
                          /\ ~fs[k].FIN => fs[k].off = (k - 1) * SliceSize
                          /\ ~Decodable(fs[k]) => len > SliceSize /\ len % SliceSize = 0
        OBVIOUS
      <3>1. fs[k] = Slice(src, len, "text", k)
        BY <2>2
      <3> HIDE DEF fs
      <3> QED BY <1>2, <3>1, SliceFacts
    <2>4. fs \in Seq(Fr) /\ Len(fs) = n /\ DOMAIN fs = 1 .. n
      <3>1. \A k \in 1 .. n : Slice(src, len, "text", k) \in Fr
        BY <1>2, SliceFacts
      <3> QED BY <2>1, <2>2, <3>1
    <2> HIDE DEF n, fs
    <2>5. ASSUME NEW k \in 1 .. n, NEW l \in 1 .. n, k < l PROVE fs[k] # fs[l]
      <3>1. ~fs[k].FIN /\ fs[k].off = (k - 1) * SliceSize
        BY <2>1, <2>3, <2>5
      <3>2. CASE fs[l].FIN
        BY <3>1, <3>2
      <3>3. CASE ~fs[l].FIN
        <4>1. fs[l].off = (l - 1) * SliceSize
          BY <2>3, <3>3
        <4>2. k - 1 \in Nat /\ l - 1 \in Nat /\ k - 1 < l - 1
          BY <2>5
        <4>3. (k - 1) * SliceSize < (l - 1) * SliceSize
          BY <4>2, MulMono, SizesAssumption
        <4>4. (k - 1) * SliceSize \in Int /\ (l - 1) * SliceSize \in Int
          BY <4>2, SizesAssumption
        <4>5. fs[k].off # fs[l].off
          BY <3>1, <4>1, <4>3, <4>4
        <4> QED BY <4>5
      <3> QED BY <3>2, <3>3
    <2>6. \A k, l \in 1 .. n : fs[k] = fs[l] => k = l
      <3>1. \A k, l \in 1 .. n : k = l \/ k < l \/ l < k
        BY <2>1
      <3> QED BY <2>5, <3>1
    <2>7. GoodLength(len) => fs[n].FIN
      BY <1>2, <2>1, <2>3, SliceCount DEF n
    <2> QED BY <2>1, <2>3, <2>4, <2>6, <2>7 DEF Frames, fs
  <1> QED BY <1>1, <1>2, SizesAssumption

(* The frames of a message that was sent.                                  *)
LEMMA EncFacts ==
  ASSUME NEW ss \in Seq(Msgs), NEW s \in DOMAIN ss
  PROVE  /\ s \in Nat /\ s > 0 /\ ss[s] \in Msgs /\ ss[s].len \in Nat /\ ss[s].len > 0
         /\ Frames(Enc(ss, s), s, ss[s].len)
  <1>1. s \in Nat /\ s > 0 /\ ss[s] \in Msgs
    BY LenProperties, ElementOfSeq
  <1>2. ss[s].len \in Nat /\ ss[s].len > 0
    <2>1. ss[s].len \in Sendable
      BY <1>1 DEF Msgs
    <2>2. \A l \in Sendable : l \in Nat /\ l > 0
      <3>1. \A l \in Sendable : l \in Nat \ {0}
        BY StreamAssumption, Zenon DEF Sendable
      <3>2. \A l \in Nat \ {0} : l \in Nat /\ l > 0
        OBVIOUS
      <3> QED BY <3>1, <3>2, Zenon
    <2> QED BY <2>1, <2>2, Zenon
  <1> QED BY <1>1, <1>2, EncodeFacts DEF Enc

(* The place of a frame.                                                   *)
LEMMA FrameAt ==
  ASSUME NEW ss \in Seq(Msgs), NEW s \in DOMAIN ss, NEW k \in DOMAIN Enc(ss, s)
  PROVE  LET f == Enc(ss, s)[k]
         IN  IsData(ss, f) /\ f.src = s /\ Idx(ss, f) = k
  <1> DEFINE f == Enc(ss, s)[k]
  <1>1. Frames(Enc(ss, s), s, ss[s].len)
    BY EncFacts
  <1>2. f.src = s
    BY <1>1 DEF Frames
  <1>3. IsData(ss, f)
    BY <1>2 DEF IsData
  <1>4. \A l \in DOMAIN Enc(ss, s) : Enc(ss, s)[l] = f => l = k
    BY <1>1 DEF Frames
  <1>5. Idx(ss, f) = CHOOSE l \in DOMAIN Enc(ss, s) : Enc(ss, s)[l] = f
    BY <1>2 DEF Idx
  <1> QED BY <1>2, <1>3, <1>4, <1>5

LEMMA DataAt ==
  ASSUME NEW ss \in Seq(Msgs), NEW f, IsData(ss, f)
  PROVE  /\ f.src \in DOMAIN ss /\ f.src \in Nat /\ f.src > 0
         /\ Idx(ss, f) \in DOMAIN Enc(ss, f.src) /\ f = Enc(ss, f.src)[Idx(ss, f)]
         /\ Idx(ss, f) \in 1 .. Len(Enc(ss, f.src)) /\ Len(Enc(ss, f.src)) \in Nat
         /\ f \in Fr
  <1>1. PICK k \in DOMAIN Enc(ss, f.src) : Enc(ss, f.src)[k] = f
    BY DEF IsData
  <1>2. f.src \in DOMAIN ss
    BY DEF IsData
  <1>3. Idx(ss, f) = k
    BY <1>1, <1>2, FrameAt
  <1>4. Frames(Enc(ss, f.src), f.src, ss[f.src].len) /\ f.src \in Nat /\ f.src > 0
    BY <1>2, EncFacts
  <1>5. f \in Fr
    BY <1>1, <1>4, ElementOfSeq DEF Frames
  <1> QED BY <1>1, <1>2, <1>3, <1>4, <1>5 DEF Frames

(* A heartbeat is no frame of a message.                                   *)
LEMMA BeatFacts ==
  /\ Beat \in Fr /\ Beat.FIN /\ Beat.Opcode = "ping" /\ Decodable(Beat) /\ Beat.src = Heartbeats
  /\ EncodeControl(Heartbeats, HeartbeatLength, "ping") = <<Beat>>
  /\ IsHeartbeat(<<Bytes(Beat)>>)
  /\ \A ss \in Seq(Msgs) : ~IsData(ss, Beat)
  <1>1. /\ Beat \in Fr /\ Beat.FIN = TRUE /\ Beat.Opcode = "ping" /\ Decodable(Beat)
        /\ Beat.src = Heartbeats /\ Beat.off = 0 /\ Beat.len = HeartbeatLength
    BY DEF Beat, Frame, Fr, Decodable, UnMaskable, Heartbeats, HeartbeatLength
  <1>2. EncodeControl(Heartbeats, HeartbeatLength, "ping") = <<Beat>>
    BY DEF EncodeControl, Beat
  <1>3. IsHeartbeat(<<Bytes(Beat)>>)
    BY <1>1 DEF IsHeartbeat, Bytes
  <1>4. ASSUME NEW ss \in Seq(Msgs) PROVE ~IsData(ss, Beat)
    BY <1>1, DataAt DEF Heartbeats
  <1> QED BY <1>1, <1>2, <1>3, <1>4

-----------------------------------------------------------------------------
(* The steps of the stream, seen from the frames under way.                *)

Piece == [src : Nat, off : Int, len : Nat]

TypesInv ==
  /\ sends \in Seq(Msgs) /\ beats \in Nat
  /\ outbox \in Seq(Fr) /\ wire \in Seq(Fr) /\ chunk \in Seq(Fr)
  /\ buf \in Seq(Piece) /\ framePos \in Nat /\ delivered \in Seq(Seq(Piece))

(* encodeFrame is called for a new message.                                *)
NewMessage ==
  /\ outbox = <<>>
  /\ \E msg \in Msgs : sends' = Append(sends, msg)
  /\ outbox' = Enc(sends', Len(sends'))
  /\ UNCHANGED <<beats, wire, chunk, buf, framePos, delivered, status>>

LEMMA BytesType == ASSUME NEW f \in Fr PROVE Bytes(f) \in Piece /\ Bytes(f).src = f.src
  BY DEF Bytes, Fr, Piece

LEMMA SendIsNewMessage ==
  ASSUME TypesInv, (\E len \in Sendable : SendFresh(len)) \/ SendAgain
  PROVE  NewMessage
  <1>1. sends \in Seq(Msgs)
    BY DEF TypesInv
  <1>2. outbox = <<>> /\ UNCHANGED <<beats, wire, chunk, buf, framePos, delivered, status>>
    BY DEF SendFresh, SendAgain
  <1>3. \A msg \in Msgs : sends' = Append(sends, msg) => sends'[Len(sends) + 1] = msg
                                                         /\ Len(sends') = Len(sends) + 1
    BY <1>1, AppendProperties
  <1>4. ASSUME NEW len \in Sendable, SendFresh(len) PROVE NewMessage
    <2> DEFINE msg == [len |-> len, masked |-> TRUE]
    <2>1. msg \in Msgs /\ msg.len = len
      BY DEF Msgs
    <2>2. sends' = Append(sends, msg) /\ outbox' = EncodeData(Len(sends) + 1, len, "text")
      BY <1>4 DEF SendFresh
    <2> HIDE DEF msg
    <2>3. outbox' = Enc(sends', Len(sends'))
      BY <1>3, <2>1, <2>2 DEF Enc
    <2> QED BY <1>2, <2>1, <2>2, <2>3 DEF NewMessage
  <1>5. CASE SendAgain
    <2> DEFINE last == sends[Len(sends)]
               msg == [last EXCEPT !.masked = ~last.masked]
    <2>1. last \in Msgs
      <3>1. Len(sends) \in 1 .. Len(sends)
        BY <1>1, <1>5, EmptySeq, LenProperties DEF SendAgain
      <3> QED BY <1>1, <3>1, ElementOfSeq
    <2>2. sends' = Append(sends, msg) /\ outbox' = EncodeData(Len(sends) + 1, last.len, "text")
      BY <1>5 DEF SendAgain
    <2> HIDE DEF last
    <2>3. msg \in Msgs /\ msg.len = last.len
      <3>1. last.masked \in BOOLEAN
        BY <2>1 DEF Msgs
      <3>2. (~last.masked) \in BOOLEAN
        BY <3>1, Zenon
      <3> QED BY <2>1, <3>2 DEF Msgs
    <2> HIDE DEF msg
    <2>4. outbox' = Enc(sends', Len(sends'))
      BY <1>3, <2>2, <2>3 DEF Enc
    <2> QED BY <1>2, <2>2, <2>3, <2>4 DEF NewMessage
  <1> QED BY <1>4, <1>5

(* More messages leave the frames of the earlier ones as they are.         *)
LEMMA Grow ==
  ASSUME NEW ss \in Seq(Msgs), NEW msg \in Msgs, NEW tt, tt = Append(ss, msg)
  PROVE  /\ tt \in Seq(Msgs) /\ Len(ss) \in Nat /\ Len(tt) = Len(ss) + 1
         /\ DOMAIN ss = 1 .. Len(ss) /\ DOMAIN tt = 1 .. Len(ss) + 1
         /\ \A s \in DOMAIN ss : /\ s \in DOMAIN tt /\ tt[s] = ss[s] /\ Enc(tt, s) = Enc(ss, s)
                                 /\ \A k \in Nat : Prefix(tt, s, k) = Prefix(ss, s, k)
         /\ \A f \in Fr : IsData(ss, f) => IsData(tt, f) /\ Idx(tt, f) = Idx(ss, f)
  <1>1. /\ tt \in Seq(Msgs) /\ Len(ss) \in Nat /\ Len(tt) = Len(ss) + 1
        /\ DOMAIN ss = 1 .. Len(ss) /\ DOMAIN tt = 1 .. Len(ss) + 1
        /\ \A s \in DOMAIN ss : tt[s] = ss[s]
    BY AppendProperties, LenProperties
  <1>2. ASSUME NEW s \in DOMAIN ss
        PROVE  /\ s \in DOMAIN tt /\ Enc(tt, s) = Enc(ss, s)
               /\ \A k \in Nat : Prefix(tt, s, k) = Prefix(ss, s, k)
    BY <1>1 DEF Enc, Prefix
  <1>3. ASSUME NEW f, IsData(ss, f)
        PROVE  IsData(tt, f) /\ Idx(tt, f) = Idx(ss, f)
    <2>1. f.src \in DOMAIN ss
      BY <1>3 DEF IsData
    <2>2. Enc(tt, f.src) = Enc(ss, f.src) /\ f.src \in DOMAIN tt
      BY <1>2, <2>1
    <2> QED BY <1>3, <2>2 DEF IsData, Idx
  <1> QED BY <1>1, <1>2, <1>3

(* The frame at the head of the chunk.                                     *)
LEMMA HeadChunk ==
  ASSUME TypesInv, chunk # <<>>
  PROVE  /\ In \in Seq(Fr) /\ In # <<>> /\ Head(chunk) = In[1] /\ In[1] \in Fr
         /\ Tail(chunk) \in Seq(Fr) /\ Tail(chunk) \o wire = Tail(In)
  <1>1. chunk \in Seq(Fr) /\ wire \in Seq(Fr)
    BY DEF TypesInv
  <1> DEFINE S == Fr
  <1>2. chunk \in Seq(S) /\ wire \in Seq(S)
    BY <1>1
  <1> HIDE DEF S
  <1>3. /\ chunk \o wire \in Seq(S) /\ chunk \o wire # <<>> /\ Head(chunk) = Head(chunk \o wire)
        /\ Tail(chunk) \in Seq(S) /\ Tail(chunk) \o wire = Tail(chunk \o wire)
        /\ Head(chunk) \in S /\ Head(chunk \o wire) = (chunk \o wire)[1]
    BY ONLY <1>2, chunk # <<>>
  <1> QED BY <1>3 DEF In, S

(* The frame at the head trips no assertion and fits into frameBuff_.      *)
Taken == Decodable(In[1]) /\ ~Overruns(framePos, In[1])

(* One pass of decodeFrame: it takes the frame, or the behaviour ends.     *)
LEMMA DecodeIs ==
  ASSUME TypesInv, DecodeFrame
  PROVE  /\ In \in Seq(Fr) /\ In # <<>> /\ In[1] \in Fr /\ Head(chunk) = In[1]
         /\ UNCHANGED <<sends, outbox, beats, wire>>
         /\ \/ /\ Taken
               /\ buf' = FrameBuffer(buf, In[1]) /\ framePos' = FramePos(framePos, In[1])
               /\ delivered' = delivered \o Delivered(buf, In[1])
               /\ In' = Tail(In) /\ chunk' = Tail(chunk) /\ UNCHANGED status
            \/ /\ ~Taken
               /\ \/ ~Decodable(In[1]) /\ status' = "aborted"
                  \/ Decodable(In[1]) /\ Overruns(framePos, In[1]) /\ status' = "overrun"
               /\ UNCHANGED <<buf, framePos, delivered, chunk>> /\ In' = In
  <1>1. chunk # <<>>
    BY DEF DecodeFrame
  <1>2. /\ In \in Seq(Fr) /\ In # <<>> /\ Head(chunk) = In[1] /\ In[1] \in Fr
        /\ Tail(chunk) \o wire = Tail(In)
    BY <1>1, HeadChunk
  <1>3. UNCHANGED <<sends, outbox, beats, wire>>
    BY DEF DecodeFrame
  <1>4. CASE Taken
    <2>1. /\ buf' = FrameBuffer(buf, In[1]) /\ framePos' = FramePos(framePos, In[1])
          /\ delivered' = delivered \o Delivered(buf, In[1])
          /\ chunk' = Tail(chunk) /\ UNCHANGED status
      BY <1>2, <1>4 DEF DecodeFrame, Taken
    <2>2. In' = Tail(In)
      BY <1>2, <1>3, <2>1 DEF In
    <2> QED BY <1>2, <1>3, <1>4, <2>1, <2>2
  <1>5. CASE ~Taken
    <2>1. /\ \/ ~Decodable(In[1]) /\ status' = "aborted"
             \/ Decodable(In[1]) /\ Overruns(framePos, In[1]) /\ status' = "overrun"
          /\ UNCHANGED <<buf, framePos, delivered, chunk>>
      BY <1>2, <1>5 DEF DecodeFrame, Taken
    <2>2. In' = In
      BY <1>3, <2>1 DEF In
    <2> QED BY <1>2, <1>3, <1>5, <2>1, <2>2
  <1> QED BY <1>4, <1>5

(* The other steps that end a behaviour.                                   *)
Ends == SendEmpty \/ ReadCut \/ \E n \in 1 .. Len(wire) : ReadLong(n)

LEMMA EndsIs ==
  ASSUME Ends
  PROVE  /\ status' \in {"emptySend", "garbled", "longRead"} /\ In' = In
         /\ UNCHANGED <<sends, outbox, beats, wire, chunk, buf, framePos, delivered>>
  BY DEF Ends, SendEmpty, ReadCut, ReadLong, In

(* The frame that is sent next.                                            *)
LEMMA EmitIs ==
  ASSUME TypesInv, EmitFrame
  PROVE  /\ outbox # <<>> /\ outbox[1] \in Fr /\ 1 \in DOMAIN outbox
         /\ In \in Seq(Fr) /\ In' = Append(In, outbox[1])
         /\ wire' \in Seq(Fr) /\ outbox' = Tail(outbox) /\ outbox' \in Seq(Fr)
         /\ Len(outbox') = Len(outbox) - 1 /\ Len(outbox) \in Nat
         /\ DOMAIN outbox = 1 .. Len(outbox) /\ DOMAIN outbox' = 1 .. Len(outbox) - 1
         /\ \A j \in DOMAIN outbox' : outbox'[j] = outbox[j + 1]
         /\ UNCHANGED <<sends, beats, chunk, buf, framePos, delivered, status>>
  <1> DEFINE S == Fr
  <1>1. chunk \in Seq(S) /\ wire \in Seq(S) /\ outbox \in Seq(S) /\ outbox # <<>>
    BY DEF TypesInv, EmitFrame
  <1> HIDE DEF S
  <1>2. /\ Head(outbox) = outbox[1] /\ outbox[1] \in S /\ Tail(outbox) \in Seq(S)
        /\ Len(Tail(outbox)) = Len(outbox) - 1 /\ Len(outbox) \in Nat /\ Len(outbox) > 0
        /\ DOMAIN outbox = 1 .. Len(outbox)
        /\ \A j \in 1 .. Len(Tail(outbox)) : Tail(outbox)[j] = outbox[j + 1]
    BY <1>1, EmptySeq, HeadTailProperties, LenProperties
  <1>3. DOMAIN Tail(outbox) = 1 .. Len(Tail(outbox))
    BY <1>2, LenProperties
  <1>4. chunk \o Append(wire, outbox[1]) = Append(chunk \o wire, outbox[1])
        /\ Append(wire, outbox[1]) \in Seq(S) /\ chunk \o wire \in Seq(S)
    BY ONLY <1>1, <1>2
  <1>5. /\ wire' = Append(wire, outbox[1]) /\ outbox' = Tail(outbox)
        /\ UNCHANGED <<sends, beats, chunk, buf, framePos, delivered, status>>
    BY <1>2 DEF EmitFrame
  <1>6. 1 \in DOMAIN outbox
    BY <1>2
  <1>7. In' = Append(In, outbox[1]) /\ In \in Seq(S)
    BY <1>4, <1>5 DEF In
  <1> QED BY <1>1, <1>2, <1>3, <1>4, <1>5, <1>6, <1>7 DEF S

(* A heartbeat is sent at once.                                            *)
LEMMA HeartbeatIs ==
  ASSUME TypesInv, SendHeartbeat
  PROVE  /\ In \in Seq(Fr) /\ In' = Append(In, Beat) /\ wire' \in Seq(Fr) /\ beats' = beats + 1
         /\ UNCHANGED <<sends, outbox, chunk, buf, framePos, delivered, status>>
  <1> DEFINE S == Fr
  <1>1. chunk \in Seq(S) /\ wire \in Seq(S) /\ Beat \in S
    BY BeatFacts DEF TypesInv
  <1> HIDE DEF S
  <1>2. /\ wire \o <<Beat>> \in Seq(S) /\ chunk \o wire \in Seq(S)
        /\ chunk \o (wire \o <<Beat>>) = Append(chunk \o wire, Beat)
    BY ONLY <1>1
  <1>3. /\ wire' = wire \o <<Beat>> /\ beats' = beats + 1
        /\ UNCHANGED <<sends, outbox, chunk, buf, framePos, delivered, status>>
    BY BeatFacts DEF SendHeartbeat
  <1>4. In' = Append(In, Beat) /\ In \in Seq(S)
    BY <1>2, <1>3 DEF In
  <1> QED BY <1>2, <1>3, <1>4 DEF S

(* A read moves frames from the socket to the decoder.                     *)
LEMMA ReadIs ==
  ASSUME TypesInv, NEW n \in 1 .. Len(wire), Read(n)
  PROVE  /\ In' = In /\ wire' \in Seq(Fr) /\ chunk' \in Seq(Fr)
         /\ IF FreshDecoder THEN buf' = <<>> /\ framePos' = 0 ELSE UNCHANGED <<buf, framePos>>
         /\ UNCHANGED <<sends, outbox, beats, delivered, status>>
  <1> DEFINE S == Fr
  <1>1. wire \in Seq(S) /\ chunk = <<>> /\ Len(wire) \in Nat
    BY LenProperties DEF TypesInv, Read
  <1> HIDE DEF S
  <1>2. SubSeq(wire, 1, n) \in Seq(S) /\ SubSeq(wire, n + 1, Len(wire)) \in Seq(S)
    BY <1>1, SubSeqProperties
  <1>3. SubSeq(wire, 1, n) \o SubSeq(wire, n + 1, Len(wire)) = wire
    BY ONLY <1>1, n \in 1 .. Len(wire)
  <1>4. <<>> \o wire = wire
    BY <1>1, ConcatEmptySeq
  <1>5. /\ chunk' = SubSeq(wire, 1, n) /\ wire' = SubSeq(wire, n + 1, Len(wire))
        /\ IF FreshDecoder THEN buf' = <<>> /\ framePos' = 0 ELSE UNCHANGED <<buf, framePos>>
        /\ UNCHANGED <<sends, outbox, beats, delivered, status>>
    BY DEF Read, Decoder
  <1>6. In' = In
    BY <1>1, <1>3, <1>4, <1>5 DEF In
  <1> QED BY <1>2, <1>5, <1>6 DEF S

-----------------------------------------------------------------------------
(* The types of the stream, and the frames under way.                      *)

LEMMA SendStep ==
  ASSUME TypesInv, NewMessage
  PROVE  /\ sends' \in Seq(Msgs) /\ Len(sends) \in Nat /\ Len(sends') = Len(sends) + 1
         /\ DOMAIN sends = 1 .. Len(sends) /\ DOMAIN sends' = 1 .. Len(sends) + 1
         /\ \A s \in DOMAIN sends :
              /\ sends'[s] = sends[s] /\ Enc(sends', s) = Enc(sends, s)
              /\ \A k \in Nat : Prefix(sends', s, k) = Prefix(sends, s, k)
         /\ \A f \in Fr : IsData(sends, f) => IsData(sends', f) /\ Idx(sends', f) = Idx(sends, f)
         /\ outbox' \in Seq(Fr) /\ Len(outbox') \in Nat /\ Len(outbox') >= 1
         /\ DOMAIN outbox' = 1 .. Len(outbox') /\ outbox' = Enc(sends', Len(sends'))
         /\ \A j \in DOMAIN outbox' : /\ IsData(sends', outbox'[j]) /\ outbox'[j].src = Len(sends')
                                      /\ Idx(sends', outbox'[j]) = j
         /\ In' = In
  <1>1. PICK msg \in Msgs : sends' = Append(sends, msg)
    BY DEF NewMessage
  <1>2. sends \in Seq(Msgs)
    BY DEF TypesInv
  <1> DEFINE ss == sends
             tt == sends'
  <1> HIDE DEF ss, tt
  <1>0. ss \in Seq(Msgs) /\ tt = Append(ss, msg)
    BY <1>1, <1>2 DEF ss, tt
  <1>3. /\ tt \in Seq(Msgs) /\ Len(ss) \in Nat /\ Len(tt) = Len(ss) + 1
        /\ DOMAIN ss = 1 .. Len(ss) /\ DOMAIN tt = 1 .. Len(ss) + 1
        /\ \A s \in DOMAIN ss : /\ s \in DOMAIN tt /\ tt[s] = ss[s] /\ Enc(tt, s) = Enc(ss, s)
                                /\ \A k \in Nat : Prefix(tt, s, k) = Prefix(ss, s, k)
        /\ \A f \in Fr : IsData(ss, f) => IsData(tt, f) /\ Idx(tt, f) = Idx(ss, f)
    <2>1. ASSUME NEW f \in Fr, IsData(ss, f)
          PROVE  IsData(tt, f) /\ Idx(tt, f) = Idx(ss, f)
      BY <1>0, <2>1, Grow
    <2>2. ASSUME NEW s \in DOMAIN ss, NEW k \in Nat
          PROVE  Prefix(tt, s, k) = Prefix(ss, s, k)
      BY <1>0, Grow
    <2>3. /\ tt \in Seq(Msgs) /\ Len(ss) \in Nat /\ Len(tt) = Len(ss) + 1
          /\ DOMAIN ss = 1 .. Len(ss) /\ DOMAIN tt = 1 .. Len(ss) + 1
      BY <1>0, Grow
    <2>4. ASSUME NEW s \in DOMAIN ss
          PROVE  s \in DOMAIN tt /\ tt[s] = ss[s] /\ Enc(tt, s) = Enc(ss, s)
      BY <1>0, Grow, Zenon
    <2> QED BY <2>1, <2>2, <2>3, <2>4
  <1>4. outbox' = Enc(tt, Len(tt)) /\ UNCHANGED <<wire, chunk>>
    BY DEF NewMessage, tt
  <1>5. In' = In
    BY <1>4 DEF In
  <1>6. Len(tt) \in DOMAIN tt
    BY <1>3
  <1>7. Frames(outbox', Len(tt), tt[Len(tt)].len)
    BY <1>3, <1>4, <1>6, EncFacts
  <1>8. \A j \in DOMAIN outbox' : /\ IsData(tt, outbox'[j]) /\ outbox'[j].src = Len(tt)
                                  /\ Idx(tt, outbox'[j]) = j
    BY <1>3, <1>4, <1>6, FrameAt
  <1> QED BY <1>3, <1>4, <1>5, <1>7, <1>8 DEF Frames, ss, tt

LEMMA BufferType ==
  ASSUME NEW b \in Seq(Piece), NEW f \in Fr
  PROVE  /\ FrameBuffer(b, f) \in Seq(Piece)
         /\ Delivered(b, f) \in Seq(Seq(Piece))
  <1> DEFINE P == Piece
             x == Bytes(f)
             Q == Seq(P)
  <1>1. x \in P /\ b \in Seq(P)
    BY BytesType
  <1> HIDE DEF P, x
  <1>2. Append(b, x) \in Seq(P) /\ <<x>> \in Seq(P)
    BY <1>1
  <1>3. FrameBuffer(b, f) \in Seq(P)
    BY <1>1, <1>2 DEF FrameBuffer, x
  <1>4. Append(b, x) \in Q /\ <<x>> \in Q
    BY <1>2
  <1>5. Delivered(b, f) \in {<<>>, <<Append(b, x)>>, <<<<x>>>>}
    BY DEF Delivered, x
  <1> HIDE DEF Q
  <1>6. <<>> \in Seq(Q) /\ \A y \in Q : <<y>> \in Seq(Q)
    OBVIOUS
  <1>7. Delivered(b, f) \in Seq(Q)
    BY <1>4, <1>5, <1>6
  <1> QED BY <1>3, <1>7 DEF P, Q

LEMMA TypesStep ==
  ASSUME TypesInv, [Next]_vars
  PROVE  TypesInv'
  <1>1. CASE (\E len \in Sendable : SendFresh(len)) \/ SendAgain
    <2>1. NewMessage
      BY <1>1, SendIsNewMessage
    <2>2. sends' \in Seq(Msgs) /\ outbox' \in Seq(Fr)
      BY <2>1, SendStep
    <2> QED BY <2>1, <2>2 DEF TypesInv, NewMessage
  <1>2. CASE EmitFrame
    BY <1>2, EmitIs DEF TypesInv
  <1>3. CASE SendHeartbeat
    BY <1>3, HeartbeatIs DEF TypesInv
  <1>4. ASSUME NEW n \in 1 .. Len(wire), Read(n) PROVE TypesInv'
    <2>1. (buf' = <<>> /\ framePos' = 0) \/ UNCHANGED <<buf, framePos>>
      BY <1>4, ReadIs
    <2>2. buf' \in Seq(Piece) /\ framePos' \in Nat
      <3>1. buf' \in {<<>>, buf} /\ framePos' \in {0, framePos}
        BY <2>1
      <3>2. buf' \in Seq(Piece)
        BY <3>1, EmptySeq DEF TypesInv
      <3> QED BY <3>1, <3>2 DEF TypesInv
    <2> QED BY <1>4, <2>2, ReadIs DEF TypesInv
  <1>5. CASE Ends
    BY <1>5, EndsIs DEF TypesInv
  <1>6. CASE DecodeFrame
    <2>1. In[1] \in Fr /\ buf \in Seq(Piece) /\ delivered \in Seq(Seq(Piece))
          /\ UNCHANGED <<sends, outbox, beats, wire>>
      BY <1>6, DecodeIs DEF TypesInv
    <2>2. Tail(chunk) \in Seq(Fr)
      BY <1>6, HeadChunk DEF DecodeFrame
    <2>3. CASE Taken
      <3>1. /\ buf' = FrameBuffer(buf, In[1]) /\ delivered' = delivered \o Delivered(buf, In[1])
            /\ chunk' = Tail(chunk) /\ framePos' = FramePos(framePos, In[1])
        BY <1>6, <2>3, DecodeIs
      <3>a. framePos' \in Nat
        <4>1. framePos \in Nat /\ In[1].len \in Nat
          BY <2>1 DEF TypesInv, Fr
        <4> QED BY <3>1, <4>1 DEF FramePos, FrameStart
      <3>2. buf' \in Seq(Piece) /\ Delivered(buf, In[1]) \in Seq(Seq(Piece))
        BY <2>1, <3>1, BufferType
      <3>3. \A x, y \in Seq(Seq(Piece)) : x \o y \in Seq(Seq(Piece))
        BY ConcatProperties
      <3> QED BY <2>1, <2>2, <3>1, <3>a, <3>2, <3>3 DEF TypesInv
    <2>4. CASE ~Taken
      BY <1>6, <2>1, <2>4, DecodeIs DEF TypesInv
    <2> QED BY <2>3, <2>4
  <1>7. CASE UNCHANGED vars
    BY <1>7 DEF TypesInv, vars
  <1> QED BY <1>1, <1>2, <1>3, <1>4, <1>5, <1>6, <1>7 DEF Next, Ends

LEMMA Appended ==
  ASSUME NEW S, NEW q \in Seq(S), NEW x \in S
  PROVE  /\ Append(q, x) \in Seq(S) /\ Len(q) \in Nat /\ Len(Append(q, x)) = Len(q) + 1
         /\ DOMAIN q = 1 .. Len(q) /\ DOMAIN Append(q, x) = 1 .. Len(q) + 1
         /\ \A i \in 1 .. Len(q) : Append(q, x)[i] = q[i]
         /\ Append(q, x)[Len(q) + 1] = x
         /\ Range(Append(q, x)) = Range(q) \cup {x}
         /\ \A ss : DataOf(ss, Append(q, x)) = DataOf(ss, q) \cup {y \in {x} : IsData(ss, y)}
  <1>1. /\ Append(q, x) \in Seq(S) /\ Len(q) \in Nat /\ Len(Append(q, x)) = Len(q) + 1
        /\ DOMAIN q = 1 .. Len(q) /\ DOMAIN Append(q, x) = 1 .. Len(q) + 1
        /\ \A i \in 1 .. Len(q) : Append(q, x)[i] = q[i]
        /\ Append(q, x)[Len(q) + 1] = x
    BY AppendProperties, LenProperties
  <1>2. Range(Append(q, x)) = Range(q) \cup {x}
    BY <1>1 DEF Range
  <1> QED BY <1>1, <1>2 DEF DataOf

LEMMA Tailed ==
  ASSUME NEW S, NEW q \in Seq(S), q # <<>>
  PROVE  /\ Tail(q) \in Seq(S) /\ Len(q) \in Nat /\ Len(q) > 0
         /\ DOMAIN q = 1 .. Len(q) /\ DOMAIN Tail(q) = 1 .. Len(q) - 1
         /\ \A i \in 1 .. Len(q) - 1 : Tail(q)[i] = q[i + 1]
  <1>1. /\ Tail(q) \in Seq(S) /\ Len(q) \in Nat /\ Len(q) > 0 /\ Len(Tail(q)) = Len(q) - 1
        /\ DOMAIN q = 1 .. Len(q)
        /\ \A i \in 1 .. Len(Tail(q)) : Tail(q)[i] = q[i + 1]
    BY EmptySeq, HeadTailProperties, LenProperties
  <1>2. DOMAIN Tail(q) = 1 .. Len(Tail(q))
    BY <1>1, LenProperties
  <1> QED BY <1>1, <1>2

(* A step that leaves the frames, frameBuff_ and the deliveries alone.     *)
Quiet == In' = In /\ UNCHANGED <<sends, outbox, beats, buf, delivered>>

LEMMA FramesStep ==
  ASSUME TypesInv, FramesInv, [Next]_vars
  PROVE  FramesInv'
  <1>0. In \in Seq(Fr)
    BY ConcatProperties DEF TypesInv, In
  <1>1. CASE (\E len \in Sendable : SendFresh(len)) \/ SendAgain
    <2>1. NewMessage
      BY <1>1, SendIsNewMessage
    <2>2. \A i \in DOMAIN In : In[i] \in Fr
      BY <1>0, LenProperties, ElementOfSeq
    <2>3. /\ In' = In
          /\ \A f \in Fr : IsData(sends, f) => IsData(sends', f)
          /\ Len(sends') \in Nat /\ Len(sends') > 0 /\ outbox' = Enc(sends', Len(sends'))
          /\ Len(outbox') \in Nat /\ DOMAIN outbox' = 1 .. Len(outbox')
          /\ \A j \in DOMAIN outbox' :
               /\ IsData(sends', outbox'[j]) /\ outbox'[j].src = Len(sends')
               /\ Idx(sends', outbox'[j]) = j
      BY <2>1, SendStep
    <2>4. \A i \in DOMAIN In' : In'[i] = Beat \/ IsData(sends', In'[i])
      BY <2>2, <2>3 DEF FramesInv
    <2>5. \A j \in DOMAIN outbox' :
             Idx(sends', outbox'[j]) = Len(Enc(sends', Len(sends'))) - Len(outbox') + j
      BY <2>3
    <2> QED BY <2>3, <2>4, <2>5 DEF FramesInv
  <1>2. CASE EmitFrame
    <2>1. /\ outbox # <<>> /\ 1 \in DOMAIN outbox /\ In' = Append(In, outbox[1]) /\ sends' = sends
          /\ Len(outbox') = Len(outbox) - 1 /\ Len(outbox) \in Nat
          /\ DOMAIN outbox = 1 .. Len(outbox) /\ DOMAIN outbox' = 1 .. Len(outbox) - 1
          /\ \A j \in DOMAIN outbox' : outbox'[j] = outbox[j + 1]
          /\ outbox[1] \in Fr
      BY <1>2, EmitIs
    <2>2. \A i \in DOMAIN In' : In'[i] = Beat \/ IsData(sends', In'[i])
      <3>1. IsData(sends, outbox[1])
        BY <2>1 DEF FramesInv
      <3> QED BY <1>0, <2>1, <3>1, Appended DEF FramesInv
    <2>3. ASSUME outbox' # <<>>
          PROVE  /\ Len(sends') > 0
                 /\ \A j \in DOMAIN outbox' :
                      /\ IsData(sends', outbox'[j]) /\ outbox'[j].src = Len(sends')
                      /\ Idx(sends', outbox'[j]) = Len(Enc(sends', Len(sends'))) - Len(outbox') + j
      <3>1. Len(Enc(sends, Len(sends))) \in Nat /\ Len(sends) > 0
        <4>1. IsData(sends, outbox[1]) /\ outbox[1].src = Len(sends) /\ Len(sends) > 0
          BY <2>1 DEF FramesInv
        <4> QED BY <4>1, DataAt DEF TypesInv
      <3>2. ASSUME NEW j \in DOMAIN outbox'
            PROVE  /\ IsData(sends, outbox'[j]) /\ outbox'[j].src = Len(sends)
                   /\ Idx(sends, outbox'[j]) = Len(Enc(sends, Len(sends))) - Len(outbox') + j
        <4>1. j + 1 \in DOMAIN outbox /\ outbox'[j] = outbox[j + 1] /\ j \in Nat
          BY <2>1
        <4>2. /\ IsData(sends, outbox[j + 1]) /\ outbox[j + 1].src = Len(sends)
              /\ Idx(sends, outbox[j + 1]) = Len(Enc(sends, Len(sends))) - Len(outbox) + (j + 1)
          BY <2>1, <4>1 DEF FramesInv
        <4>3. Idx(sends, outbox[j + 1]) = Len(Enc(sends, Len(sends))) - Len(outbox') + j
          BY <2>1, <3>1, <4>1, <4>2
        <4> QED BY <4>1, <4>2, <4>3
      <3> QED BY <2>1, <3>1, <3>2
    <2> QED BY <2>2, <2>3 DEF FramesInv
  <1>3. CASE SendHeartbeat
    <2>1. In' = Append(In, Beat) /\ UNCHANGED <<sends, outbox>>
      BY <1>3, HeartbeatIs
    <2>2. \A i \in DOMAIN In' : In'[i] = Beat \/ IsData(sends', In'[i])
      BY <1>0, <2>1, Appended, BeatFacts DEF FramesInv
    <2> QED BY <2>1, <2>2 DEF FramesInv
  <1>4. ASSUME NEW n \in 1 .. Len(wire), Read(n) PROVE FramesInv'
    BY <1>4, ReadIs DEF FramesInv
  <1>5. CASE Ends
    BY <1>5, EndsIs DEF FramesInv
  <1>6. CASE DecodeFrame
    <2>1. UNCHANGED <<sends, outbox>> /\ (In' = In \/ (In # <<>> /\ In' = Tail(In)))
      BY <1>6, DecodeIs
    <2>2. \A i \in DOMAIN In' : In'[i] = Beat \/ IsData(sends', In'[i])
      <3>1. CASE In' = In
        BY <2>1, <3>1 DEF FramesInv
      <3>2. CASE In # <<>> /\ In' = Tail(In)
        <4>1. \A i \in DOMAIN In' : In'[i] = In[i + 1] /\ i + 1 \in DOMAIN In
          BY <1>0, <3>2, Tailed
        <4> QED BY <2>1, <4>1 DEF FramesInv
      <3> QED BY <2>1, <3>1, <3>2
    <2> QED BY <2>1, <2>2 DEF FramesInv
  <1>7. CASE UNCHANGED vars
    BY <1>7 DEF FramesInv, vars, In
  <1> QED BY <1>1, <1>2, <1>3, <1>4, <1>5, <1>6, <1>7 DEF Next, Ends

LEMMA StreamInit == Init => TypesInv /\ FramesInv
  <1> SUFFICES ASSUME Init PROVE TypesInv /\ FramesInv
    OBVIOUS
  <1>1. TypesInv
    BY EmptySeq DEF Init, TypesInv
  <1>2. In = <<>>
    BY DEF Init, In
  <1>3. FramesInv
    BY <1>2 DEF FramesInv, Init
  <1> QED BY <1>1, <1>3

(* The receiver, on either side of the connection, aborts over a frame     *)
(* only when it meets the empty last frame of a message of several whole   *)
(* slices: no other frame that encodeFrame makes trips an assertion about  *)
(* a frame in decodeFrame or computeUnMask, for every slice size and       *)
(* every length.                                                           *)
THEOREM AbortNeedsWholeSlices == Spec => []AbortsOnlyOnWholeSlices
  <1> DEFINE I == TypesInv /\ FramesInv /\ AbortsOnlyOnWholeSlices
  <1>1. Init => I
    BY StreamInit DEF Init, AbortsOnlyOnWholeSlices
  <1>2. I /\ [Next]_vars => I'
    <2> SUFFICES ASSUME I, [Next]_vars PROVE I'
      OBVIOUS
    <2>1. TypesInv' /\ FramesInv'
      BY TypesStep, FramesStep
    <2>2. CASE Next /\ ~DecodeFrame
      <3>1. status' # "aborted"
        BY <2>2, EndsIs DEF Next, Ends, SendFresh, SendAgain, EmitFrame, SendHeartbeat, Read
      <3> QED BY <2>1, <3>1 DEF AbortsOnlyOnWholeSlices
    <2>3. CASE DecodeFrame
      <3>1. sends' = sends /\ status = "ok" /\ In # <<>> /\ In \in Seq(Fr)
        BY <2>3, DecodeIs DEF DecodeFrame
      <3>2. CASE Decodable(In[1])
        BY <2>1, <2>3, <3>1, <3>2, DecodeIs DEF AbortsOnlyOnWholeSlices
      <3>3. CASE ~Decodable(In[1])
        <4>1. 1 \in DOMAIN In
          BY <3>1, Tailed
        <4>2. IsData(sends, In[1])
          BY <3>3, <4>1, BeatFacts DEF FramesInv
        <4> DEFINE f == In[1]
        <4> HIDE DEF f
        <4>3. /\ f.src \in DOMAIN sends /\ f = Enc(sends, f.src)[Idx(sends, f)]
              /\ Idx(sends, f) \in 1 .. Len(Enc(sends, f.src))
          BY <4>2, DataAt DEF f, TypesInv
        <4>4. Frames(Enc(sends, f.src), f.src, sends[f.src].len)
          BY <4>3, EncFacts DEF TypesInv
        <4>5. sends[f.src].len > SliceSize /\ sends[f.src].len % SliceSize = 0
          BY <3>3, <4>3, <4>4 DEF Frames, f
        <4> QED BY <2>1, <3>1, <4>3, <4>5 DEF AbortsOnlyOnWholeSlices
      <3> QED BY <3>2, <3>3
    <2>4. CASE UNCHANGED vars
      BY <2>1, <2>4 DEF AbortsOnlyOnWholeSlices, vars
    <2> QED BY <2>2, <2>3, <2>4
  <1>3. I => AbortsOnlyOnWholeSlices
    OBVIOUS
  <1> QED BY <1>1, <1>2, <1>3, PTL DEF Spec

(* Lengths, counts and the state of the receiver stay what they are meant  *)
(* to be: the user sends only lengths above zero, and a buffer that is     *)
(* sent again keeps its length.                                            *)
THEOREM StreamTypes == Spec => []TypeOK
  <1>1. Init => TypesInv /\ TypeOK
    <2>1. ASSUME Init PROVE 0 \in 0 .. MaxBeats /\ sends \in Seq(Msgs)
      BY <2>1, StreamInit, StreamAssumption DEF TypesInv
    <2> QED BY <2>1, StreamInit DEF Init, TypeOK, Msgs
  <1>2. TypesInv /\ TypeOK /\ [Next]_vars => TypesInv' /\ TypeOK'
    <2> SUFFICES ASSUME TypesInv, TypeOK, [Next]_vars PROVE TypesInv' /\ TypeOK'
      OBVIOUS
    <2>1. TypesInv'
      BY TypesStep
    <2>2. beats' \in 0 .. MaxBeats
      <3>1. beats' = beats \/ (beats < MaxBeats /\ beats' = beats + 1)
        BY Zenon DEF Next, SendFresh, SendEmpty, SendAgain, EmitFrame, SendHeartbeat, Read,
           ReadLong, ReadCut, DecodeFrame, vars
      <3>2. MaxBeats \in Nat
        BY StreamAssumption, Zenon
      <3> QED BY <3>1, <3>2 DEF TypeOK
    <2>3. status' \in {"ok"} \cup Endings
      <3>1. \/ status' = status \/ status' = "aborted" \/ status' = "garbled"
            \/ status' = "overrun" \/ status' = "longRead" \/ status' = "emptySend"
        BY Zenon DEF Next, SendFresh, SendEmpty, SendAgain, EmitFrame, SendHeartbeat, Read,
           ReadLong, ReadCut, DecodeFrame, vars
      <3> QED BY <3>1 DEF TypeOK, Endings
    <2> QED BY <2>1, <2>2, <2>3 DEF TypeOK, TypesInv, Msgs
  <1> QED BY <1>1, <1>2, PTL DEF Spec

-----------------------------------------------------------------------------
(* The client's decoder, which lives as long as the connection.            *)

StreamInv == TypesInv /\ FramesInv /\ QueuedInv /\ BufInv /\ DeliveredInv /\ LastInv

LEMMA AheadIs ==
  ASSUME TypesInv, FramesInv
  PROVE  /\ In \in Seq(Fr) /\ Sent \subseteq Ahead
         /\ \A f : f \in Sent <=> IsData(sends, f) /\ \E i \in DOMAIN In : In[i] = f
         /\ \A f \in Ahead : /\ IsData(sends, f) /\ f \in Fr
                             /\ f.src \in DOMAIN sends /\ f.src \in Nat /\ f.src > 0
                             /\ Len(Enc(sends, f.src)) \in Nat
                             /\ Idx(sends, f) \in 1 .. Len(Enc(sends, f.src))
                             /\ f = Enc(sends, f.src)[Idx(sends, f)]
         /\ outbox # <<>> => outbox[1] \in Ahead
  <1>1. In \in Seq(Fr)
    BY ConcatProperties DEF TypesInv, In
  <1>2. \A f : f \in Sent <=> IsData(sends, f) /\ \E i \in DOMAIN In : In[i] = f
    BY DEF Sent, DataOf, Range
  <1>3. outbox # <<>> => IsData(sends, outbox[1])
    <2>1. outbox # <<>> => 1 \in DOMAIN outbox
      BY EmptySeq, LenProperties DEF TypesInv
    <2> QED BY <2>1 DEF FramesInv
  <1>4. \A f \in Ahead : IsData(sends, f)
    BY <1>2, <1>3 DEF Ahead
  <1>5. \A f \in Ahead : /\ f \in Fr
                         /\ f.src \in DOMAIN sends /\ f.src \in Nat /\ f.src > 0
                         /\ Len(Enc(sends, f.src)) \in Nat
                         /\ Idx(sends, f) \in 1 .. Len(Enc(sends, f.src))
                         /\ f = Enc(sends, f.src)[Idx(sends, f)]
    BY <1>4, DataAt DEF TypesInv
  <1>6. Sent \subseteq Ahead /\ (outbox # <<>> => outbox[1] \in Ahead)
    BY DEF Ahead
  <1> QED BY <1>1, <1>2, <1>4, <1>5, <1>6

(* A new message comes after all that was sent.                            *)
LEMMA NewMessageStep ==
  ASSUME StreamInv, NewMessage
  PROVE  QueuedInv' /\ BufInv' /\ DeliveredInv' /\ LastInv'
  <1>0. TypesInv /\ FramesInv /\ QueuedInv /\ BufInv /\ DeliveredInv /\ LastInv
    BY DEF StreamInv
  <1> DEFINE o == outbox'[1]
             N == Len(sends) + 1
  <1>1. /\ sends' \in Seq(Msgs) /\ Len(sends) \in Nat /\ Len(sends') = N
        /\ DOMAIN sends = 1 .. Len(sends) /\ DOMAIN sends' = 1 .. N
        /\ \A f \in Fr : IsData(sends, f) => IsData(sends', f) /\ Idx(sends', f) = Idx(sends, f)
        /\ outbox' # <<>> /\ IsData(sends', o) /\ o.src = N /\ Idx(sends', o) = 1
        /\ In' = In /\ UNCHANGED <<buf, delivered>> /\ outbox = <<>>
    <2>1. /\ sends' \in Seq(Msgs) /\ Len(sends) \in Nat /\ Len(sends') = N
          /\ DOMAIN sends = 1 .. Len(sends) /\ DOMAIN sends' = 1 .. N
          /\ \A f \in Fr : IsData(sends, f) => IsData(sends', f) /\ Idx(sends', f) = Idx(sends, f)
          /\ Len(outbox') >= 1 /\ Len(outbox') \in Nat /\ DOMAIN outbox' = 1 .. Len(outbox')
          /\ \A j \in DOMAIN outbox' : /\ IsData(sends', outbox'[j]) /\ outbox'[j].src = Len(sends')
                                       /\ Idx(sends', outbox'[j]) = j
          /\ In' = In
      BY <1>0, SendStep
    <2>2. 1 \in DOMAIN outbox'
      BY <2>1
    <2>3. outbox' # <<>>
      BY <2>2
    <2> QED BY <2>1, <2>2, <2>3 DEF NewMessage
  <1>2. \A s \in DOMAIN sends :
              /\ s \in Nat /\ s < N
              /\ sends'[s] = sends[s] /\ Enc(sends', s) = Enc(sends, s)
              /\ \A k \in Nat : Prefix(sends', s, k) = Prefix(sends, s, k)
    <2>1. \A s \in DOMAIN sends : /\ sends'[s] = sends[s] /\ Enc(sends', s) = Enc(sends, s)
                                  /\ \A k \in Nat : Prefix(sends', s, k) = Prefix(sends, s, k)
      BY <1>0, SendStep, Zenon
    <2>2. \A s \in DOMAIN sends : s \in Nat /\ s < N
      BY <1>1
    <2> QED BY <2>1, <2>2
  <1> HIDE DEF o, N
  <1>3. \A f : IsData(sends', f) /\ (\E i \in DOMAIN In : In[i] = f) => f \in Sent
    <2>1. \A i \in DOMAIN In : IsData(sends', In[i]) => In[i] # Beat
      BY <1>1, BeatFacts
    <2> QED BY <1>0, <2>1, AheadIs DEF FramesInv
  <1>4. \A f \in Sent : /\ f \in Fr /\ IsData(sends, f) /\ IsData(sends', f)
                        /\ Idx(sends', f) = Idx(sends, f)
                        /\ f.src \in DOMAIN sends /\ Idx(sends, f) \in Nat
    BY <1>0, <1>1, AheadIs
  <1>5. Sent' = Sent
    <2>1. \A f : f \in Sent' <=> IsData(sends', f) /\ \E i \in DOMAIN In : In[i] = f
      BY <1>1 DEF Sent, DataOf, Range
    <2>2. \A f : f \in Sent => IsData(sends', f) /\ \E i \in DOMAIN In : In[i] = f
      BY <1>0, <1>4, AheadIs
    <2> QED BY <1>3, <2>1, <2>2
  <1>6. Ahead = Sent /\ Ahead' = Sent \cup {o}
    BY <1>1, <1>5 DEF Ahead, o
  <1>7. QueuedInv'
    <2>1. ASSUME NEW i \in DOMAIN In, NEW j \in DOMAIN In, i < j, IsData(sends', In[i]),
                 IsData(sends', In[j])
          PROVE  Before(In[i].src, Idx(sends', In[i]), In[j].src, Idx(sends', In[j]))
      <3>1. In[i] \in Sent /\ In[j] \in Sent
        BY <1>3, <2>1
      <3> QED BY <1>0, <1>4, <2>1, <3>1 DEF QueuedInv
    <2>2. \A f \in Sent : Before(f.src, Idx(sends', f), o.src, Idx(sends', o))
      BY <1>1, <1>2, <1>4 DEF Before
    <2>3. ASSUME NEW f \in Ahead', Idx(sends', f) > 1
          PROVE  \/ \E g \in Sent : g.src = f.src /\ Idx(sends', g) = Idx(sends', f) - 1
                 \/ buf = Prefix(sends', f.src, Idx(sends', f) - 1)
      <3>1. f \in Sent
        BY <1>1, <1>6, <2>3
      <3>2. Idx(sends', f) = Idx(sends, f) /\ f.src \in DOMAIN sends /\ Idx(sends, f) - 1 \in Nat
        BY <1>4, <2>3, <3>1
      <3>3. \/ \E g \in Sent : g.src = f.src /\ Idx(sends, g) = Idx(sends, f) - 1
            \/ buf = Prefix(sends, f.src, Idx(sends, f) - 1)
        BY <1>0, <1>6, <2>3, <3>1, <3>2 DEF QueuedInv
      <3> QED BY <1>2, <1>4, <3>2, <3>3
    <2>4. \A f \in Ahead' : Idx(sends', f) > 1 =>
             \/ \E g \in Sent' : g.src = f.src /\ Idx(sends', g) = Idx(sends', f) - 1
             \/ buf' = Prefix(sends', f.src, Idx(sends', f) - 1)
      BY <1>1, <1>5, <2>3
    <2> QED BY <1>1, <1>5, <2>1, <2>2, <2>4 DEF QueuedInv, o
  <1>8. BufInv'
    <2> SUFFICES ASSUME buf # <<>>
                 PROVE  /\ buf[1].src \in DOMAIN sends'
                        /\ buf = Prefix(sends', buf[1].src, Len(buf))
                        /\ \A f \in Ahead' : Before(buf[1].src, Len(buf), f.src, Idx(sends', f))
      BY <1>1 DEF BufInv
    <2>1. /\ buf[1].src \in DOMAIN sends /\ buf = Prefix(sends, buf[1].src, Len(buf))
          /\ \A f \in Ahead : Before(buf[1].src, Len(buf), f.src, Idx(sends, f))
      BY <1>0 DEF BufInv
    <2>2. Len(buf) \in Nat
      BY <1>0, LenProperties DEF TypesInv
    <2>3. buf[1].src \in DOMAIN sends' /\ buf = Prefix(sends', buf[1].src, Len(buf))
      BY <1>1, <1>2, <2>1, <2>2
    <2>4. ASSUME NEW f \in Ahead' PROVE Before(buf[1].src, Len(buf), f.src, Idx(sends', f))
      BY <1>1, <1>2, <1>4, <1>6, <2>1 DEF Before
    <2> QED BY <2>3, <2>4
  <1>9. DeliveredInv'
    <2>1. DataDelivered' = DataDelivered /\ (DeliveredInOrder' <=> DeliveredInOrder)
      BY <1>1 DEF DataDelivered, DeliveredInOrder
    <2>2. ASSUME NEW i \in DataDelivered
          PROVE  /\ delivered[i][1].src \in DOMAIN sends'
                 /\ delivered[i] = Pieces(Enc(sends', delivered[i][1].src))
                 /\ \A f \in Ahead' : delivered[i][1].src < f.src
      <3>1. /\ delivered[i][1].src \in DOMAIN sends
            /\ delivered[i] = Pieces(Enc(sends, delivered[i][1].src))
            /\ \A f \in Ahead : delivered[i][1].src < f.src
        BY <1>0 DEF DeliveredInv
      <3>2. delivered[i][1].src \in DOMAIN sends' /\ delivered[i][1].src < N
            /\ Enc(sends', delivered[i][1].src) = Enc(sends, delivered[i][1].src)
        BY <1>1, <1>2, <3>1
      <3> QED BY <1>1, <1>6, <3>1, <3>2
    <2> QED BY <1>0, <1>1, <2>1, <2>2 DEF DeliveredInv
  <1>10. LastInv'
    <2> SUFFICES ASSUME NEW n \in DOMAIN sends', GoodLength(sends'[n].len)
                 PROVE  \/ \E d \in Range(delivered) : d[1].src = n
                        \/ \E f \in Sent : f.src = n /\ Idx(sends', f) = Len(Enc(sends', n))
                        \/ n = N
      BY <1>1, <1>5 DEF LastInv
    <2>1. n = N \/ n \in DOMAIN sends
      BY <1>1 DEF N
    <2>2. CASE n \in DOMAIN sends
      <3>1. \/ \E d \in Range(delivered) : d[1].src = n
            \/ \E f \in Sent : f.src = n /\ Idx(sends, f) = Len(Enc(sends, n))
        BY <1>0, <1>1, <1>2, <2>2 DEF LastInv
      <3> QED BY <1>2, <1>4, <2>2, <3>1
    <2> QED BY <2>1, <2>2
  <1> QED BY <1>7, <1>8, <1>9, <1>10

(* The next frame of the message is sent: it comes after all that was      *)
(* sent, and the one after it comes after it.                              *)
LEMMA EmitStep ==
  ASSUME StreamInv, EmitFrame
  PROVE  QueuedInv' /\ BufInv' /\ DeliveredInv' /\ LastInv'
  <1>0. TypesInv /\ FramesInv /\ QueuedInv /\ BufInv /\ DeliveredInv /\ LastInv
    BY DEF StreamInv
  <1> DEFINE o == outbox[1]
             p == outbox'[1]
             N == Len(sends)
  <1>1. /\ outbox # <<>> /\ o \in Fr /\ 1 \in DOMAIN outbox /\ In' = Append(In, o)
        /\ Len(outbox') = Len(outbox) - 1 /\ Len(outbox) \in Nat /\ outbox' \in Seq(Fr)
        /\ DOMAIN outbox = 1 .. Len(outbox) /\ DOMAIN outbox' = 1 .. Len(outbox) - 1
        /\ \A j \in DOMAIN outbox' : outbox'[j] = outbox[j + 1]
        /\ UNCHANGED <<sends, buf, delivered>>
    BY <1>0, EmitIs
  <1>2. /\ IsData(sends, o) /\ o.src = N /\ Idx(sends, o) = Len(Enc(sends, N)) - Len(outbox) + 1
    BY <1>0, <1>1 DEF FramesInv
  <1>3. /\ o \in Ahead /\ N \in Nat /\ Len(Enc(sends, N)) \in Nat /\ Idx(sends, o) \in Nat
    BY <1>0, <1>1, <1>2, AheadIs
  <1>4. outbox' # <<>> => p.src = N /\ Idx(sends, p) = Idx(sends, o) + 1 /\ IsData(sends, p)
    <2> SUFFICES ASSUME outbox' # <<>>
                 PROVE  p.src = N /\ Idx(sends, p) = Idx(sends, o) + 1 /\ IsData(sends, p)
      OBVIOUS
    <2>1. Len(outbox') # 0
      BY <1>1, EmptySeq
    <2>2. 2 \in DOMAIN outbox /\ p = outbox[2]
      BY <1>1, <2>1
    <2> QED BY <1>0, <1>1, <1>2, <1>3, <2>2 DEF FramesInv
  <1>5. outbox' = <<>> => Idx(sends, o) = Len(Enc(sends, N))
    <2>1. outbox' = <<>> => Len(outbox') = 0
      OBVIOUS
    <2> QED BY <1>1, <1>2, <1>3, <2>1
  <1>6. Sent' = Sent \cup {o}
    <2>1. DataOf(sends, Append(In, o)) = DataOf(sends, In) \cup {y \in {o} : IsData(sends, y)}
      BY <1>0, <1>1, AheadIs, Appended
    <2> QED BY <1>1, <1>2, <2>1 DEF Sent
  <1>7. Ahead' \subseteq Ahead \cup (IF outbox' = <<>> THEN {} ELSE {p}) /\ Sent \subseteq Ahead
    BY <1>3, <1>6 DEF Ahead
  <1>8. \A f \in Ahead : /\ f.src \in Nat /\ Idx(sends, f) \in Nat
                         /\ f = o \/ Before(f.src, Idx(sends, f), o.src, Idx(sends, o))
    <2>1. \A f \in Ahead : f.src \in Nat /\ Idx(sends, f) \in Nat
      BY <1>0, AheadIs
    <2> QED BY <1>0, <1>1, <2>1 DEF QueuedInv, Ahead
  <1> HIDE DEF o, p, N
  <1>9. QueuedInv'
    <2>1. ASSUME NEW i \in DOMAIN In', NEW j \in DOMAIN In', i < j, IsData(sends, In'[i]),
                 IsData(sends, In'[j])
          PROVE  Before(In'[i].src, Idx(sends, In'[i]), In'[j].src, Idx(sends, In'[j]))
      <3>1. /\ Len(In) \in Nat /\ DOMAIN In = 1 .. Len(In) /\ DOMAIN In' = 1 .. Len(In) + 1
            /\ \A m \in 1 .. Len(In) : In'[m] = In[m]
            /\ In'[Len(In) + 1] = o
        BY <1>0, <1>1, AheadIs, Appended
      <3>2. i \in DOMAIN In /\ In'[i] = In[i]
        BY <2>1, <3>1
      <3>3. CASE j \in DOMAIN In
        BY <1>0, <2>1, <3>1, <3>2, <3>3 DEF QueuedInv
      <3>4. CASE j \notin DOMAIN In
        <4>1. In'[j] = o
          BY <3>1, <3>4
        <4>2. In[i] \in Sent
          BY <1>0, <2>1, <3>2, AheadIs
        <4> QED BY <1>0, <1>1, <3>2, <4>1, <4>2 DEF QueuedInv, o
      <3> QED BY <3>3, <3>4
    <2>2. ASSUME outbox' # <<>>, NEW f \in Sent'
          PROVE  Before(f.src, Idx(sends, f), p.src, Idx(sends, p))
      <3>1. f \in Ahead
        BY <1>3, <1>6, <1>7
      <3>2. Before(o.src, Idx(sends, o), p.src, Idx(sends, p))
        BY <1>2, <1>3, <1>4, <2>2 DEF Before
      <3>3. f = o \/ Before(f.src, Idx(sends, f), o.src, Idx(sends, o))
        BY <1>8, <3>1
      <3>4. f.src \in Nat /\ Idx(sends, f) \in Nat
        BY <1>8, <3>1
      <3> QED BY <1>2, <1>3, <1>4, <2>2, <3>2, <3>3, <3>4 DEF Before
    <2>3. ASSUME NEW f \in Ahead', Idx(sends, f) > 1
          PROVE  \/ \E g \in Sent' : g.src = f.src /\ Idx(sends, g) = Idx(sends, f) - 1
                 \/ buf = Prefix(sends, f.src, Idx(sends, f) - 1)
      <3>1. CASE f \in Ahead
        BY <1>0, <1>6, <2>3, <3>1 DEF QueuedInv
      <3>2. CASE f \notin Ahead
        <4>1. f = p /\ outbox' # <<>>
          BY <1>7, <3>2
        <4> QED BY <1>2, <1>3, <1>4, <1>6, <4>1
      <3> QED BY <3>1, <3>2
    <2> QED BY <1>1, <2>1, <2>2, <2>3 DEF QueuedInv, p
  <1>10. BufInv'
    <2>1. ASSUME buf # <<>>, NEW f \in Ahead'
          PROVE  Before(buf[1].src, Len(buf), f.src, Idx(sends, f))
      <3>1. \A g \in Ahead : Before(buf[1].src, Len(buf), g.src, Idx(sends, g))
        BY <1>0, <2>1 DEF BufInv
      <3>2. CASE f \notin Ahead
        <4>1. f = p /\ outbox' # <<>>
          BY <1>7, <3>2
        <4>2. buf[1].src \in Nat /\ Len(buf) \in Nat
          <5>1. buf[1].src \in DOMAIN sends
            BY <1>0, <2>1 DEF BufInv
          <5> QED BY <1>0, <5>1, LenProperties DEF TypesInv
        <4>3. Before(o.src, Idx(sends, o), p.src, Idx(sends, p))
          BY <1>2, <1>3, <1>4, <4>1 DEF Before
        <4>4. Before(buf[1].src, Len(buf), o.src, Idx(sends, o))
          BY <1>3, <3>1
        <4> QED BY <1>2, <1>3, <1>4, <4>1, <4>2, <4>3, <4>4 DEF Before
      <3> QED BY <3>1, <3>2
    <2> QED BY <1>0, <1>1, <2>1 DEF BufInv
  <1>11. DeliveredInv'
    <2>1. DataDelivered' = DataDelivered /\ (DeliveredInOrder' <=> DeliveredInOrder)
      BY <1>1 DEF DataDelivered, DeliveredInOrder
    <2>2. ASSUME NEW i \in DataDelivered, NEW f \in Ahead' PROVE delivered[i][1].src < f.src
      <3>1. \A g \in Ahead : delivered[i][1].src < g.src
        BY <1>0 DEF DeliveredInv
      <3> QED BY <1>2, <1>3, <1>4, <1>7, <3>1
    <2> QED BY <1>0, <1>1, <2>1, <2>2 DEF DeliveredInv
  <1>12. LastInv'
    <2> SUFFICES ASSUME NEW n \in DOMAIN sends, GoodLength(sends[n].len)
                 PROVE  \/ \E d \in Range(delivered) : d[1].src = n
                        \/ \E f \in Sent' : f.src = n /\ Idx(sends, f) = Len(Enc(sends, n))
                        \/ outbox' # <<>> /\ n = N
      BY <1>1 DEF LastInv, N
    <2>1. \/ \E d \in Range(delivered) : d[1].src = n
          \/ \E f \in Sent : f.src = n /\ Idx(sends, f) = Len(Enc(sends, n))
          \/ n = N
      BY <1>0 DEF LastInv, N
    <2> QED BY <1>2, <1>5, <1>6, <2>1
  <1> QED BY <1>9, <1>10, <1>11, <1>12

(* A heartbeat comes between two frames and is none of them.               *)
LEMMA HeartbeatStep ==
  ASSUME StreamInv, SendHeartbeat
  PROVE  QueuedInv' /\ BufInv' /\ DeliveredInv' /\ LastInv'
  <1>0. TypesInv /\ FramesInv /\ QueuedInv /\ BufInv /\ DeliveredInv /\ LastInv
    BY DEF StreamInv
  <1>1. In \in Seq(Fr) /\ In' = Append(In, Beat) /\ UNCHANGED <<sends, outbox, buf, delivered>>
    BY <1>0, HeartbeatIs
  <1>2. Beat \in Fr /\ ~IsData(sends, Beat)
    BY <1>0, BeatFacts DEF TypesInv
  <1>3. /\ Len(In) \in Nat /\ DOMAIN In = 1 .. Len(In) /\ DOMAIN In' = 1 .. Len(In) + 1
        /\ \A m \in 1 .. Len(In) : In'[m] = In[m]
        /\ In'[Len(In) + 1] = Beat
    BY <1>1, <1>2, Appended
  <1>4. Sent' = Sent
    <2>1. DataOf(sends, Append(In, Beat)) = DataOf(sends, In) \cup {y \in {Beat} : IsData(sends, y)}
      BY <1>1, <1>2, Appended
    <2> QED BY <1>1, <1>2, <2>1 DEF Sent
  <1>5. Ahead' = Ahead
    BY <1>1, <1>4 DEF Ahead
  <1>6. ASSUME NEW i \in DOMAIN In', NEW j \in DOMAIN In', i < j, IsData(sends, In'[i]),
               IsData(sends, In'[j])
        PROVE  Before(In'[i].src, Idx(sends, In'[i]), In'[j].src, Idx(sends, In'[j]))
    <2>1. j \in DOMAIN In /\ i \in DOMAIN In
      BY <1>2, <1>3, <1>6
    <2> QED BY <1>0, <1>3, <1>6, <2>1 DEF QueuedInv
  <1>7. QueuedInv'
    BY <1>0, <1>1, <1>4, <1>5, <1>6 DEF QueuedInv
  <1>8. BufInv'
    BY <1>0, <1>1, <1>5 DEF BufInv
  <1>9. DeliveredInv'
    BY <1>0, <1>1, <1>5 DEF DeliveredInv, DataDelivered, DeliveredInOrder
  <1>10. LastInv'
    BY <1>0, <1>1, <1>4 DEF LastInv
  <1> QED BY <1>7, <1>8, <1>9, <1>10

LEMMA QuietStep ==
  ASSUME StreamInv, Quiet
  PROVE  QueuedInv' /\ BufInv' /\ DeliveredInv' /\ LastInv'
  <1>0. QueuedInv /\ BufInv /\ DeliveredInv /\ LastInv
    BY DEF StreamInv
  <1>1. In' = In /\ UNCHANGED <<sends, outbox, buf, delivered>>
    BY DEF Quiet
  <1>2. Sent' = Sent /\ Ahead' = Ahead
    BY <1>1 DEF Sent, Ahead
  <1>3. QueuedInv'
    BY <1>0, <1>1, <1>2 DEF QueuedInv
  <1>4. BufInv'
    BY <1>0, <1>1, <1>2 DEF BufInv
  <1>5. DeliveredInv'
    BY <1>0, <1>1, <1>2 DEF DeliveredInv, DataDelivered, DeliveredInOrder
  <1>6. LastInv'
    BY <1>0, <1>1, <1>2 DEF LastInv
  <1> QED BY <1>3, <1>4, <1>5, <1>6

(* The pieces of the first frames of a message.                            *)
LEMMA PrefixFacts ==
  ASSUME NEW ss \in Seq(Msgs), NEW s \in DOMAIN ss, NEW k \in 1 .. Len(Enc(ss, s))
  PROVE  /\ Prefix(ss, s, k) # <<>> /\ Len(Prefix(ss, s, k)) = k
         /\ Prefix(ss, s, k)[1].src = s
         /\ k = 1 => Prefix(ss, s, k) = <<Bytes(Enc(ss, s)[1])>>
         /\ k > 1 => Prefix(ss, s, k) = Append(Prefix(ss, s, k - 1), Bytes(Enc(ss, s)[k]))
         /\ k = Len(Enc(ss, s)) => Prefix(ss, s, k) = Pieces(Enc(ss, s))
  <1> DEFINE fs == Enc(ss, s)
  <1>1. fs \in Seq(Fr) /\ Len(fs) \in Nat /\ DOMAIN fs = 1 .. Len(fs)
        /\ \A i \in 1 .. Len(fs) : fs[i].src = s
    BY EncFacts DEF Frames
  <1> DEFINE x(i) == Bytes(fs[i])
  <1>2. Prefix(ss, s, k) = [i \in 1 .. k |-> x(i)] /\ Prefix(ss, s, k - 1) = [i \in 1 .. k - 1 |-> x(i)]
    BY DEF Prefix
  <1>3. x(1).src = s
    BY <1>1 DEF Bytes
  <1>4. k \in Nat /\ k >= 1
    BY <1>1
  <1>5. Pieces(fs) = [i \in 1 .. Len(fs) |-> x(i)]
    BY <1>1 DEF Pieces
  <1> HIDE DEF fs, x
  <1>6. [i \in 1 .. k |-> x(i)] # <<>> /\ Len([i \in 1 .. k |-> x(i)]) = k
        /\ [i \in 1 .. k |-> x(i)][1] = x(1)
    BY <1>4
  <1>7. k = 1 => [i \in 1 .. k |-> x(i)] = <<x(1)>>
    BY <1>4
  <1>8. k > 1 => [i \in 1 .. k |-> x(i)] = Append([i \in 1 .. k - 1 |-> x(i)], x(k))
    BY <1>4
  <1> QED BY <1>2, <1>3, <1>5, <1>6, <1>7, <1>8 DEF fs, x

(* All the pieces of a message.                                            *)
LEMMA PiecesFacts ==
  ASSUME NEW ss \in Seq(Msgs), NEW s \in DOMAIN ss
  PROVE  LET x == Pieces(Enc(ss, s))
         IN  x # <<>> /\ x \in Seq(Piece) /\ x[1].src = s /\ ~IsHeartbeat(x)
  <1> DEFINE fs == Enc(ss, s)
             n == Len(fs)
             y(i) == Bytes(fs[i])
             x == Pieces(fs)
             P == Piece
  <1>1. n \in Nat /\ n \in 1 .. n /\ s > 0 /\ s \in Nat /\ DOMAIN fs = 1 .. n
        /\ \A i \in 1 .. n : fs[i] \in Fr
    BY EncFacts, ElementOfSeq DEF Frames
  <1>2. x # <<>> /\ x[1].src = s
    BY <1>1, PrefixFacts
  <1>3. x = [i \in 1 .. n |-> y(i)] /\ \A i \in 1 .. n : y(i) \in P
    BY <1>1, BytesType DEF Pieces
  <1> HIDE DEF x, y, n, P
  <1>4. x \in Seq(P)
    BY <1>1, <1>3
  <1>5. ~IsHeartbeat(x)
    BY <1>1, <1>2 DEF IsHeartbeat, Heartbeats
  <1> QED BY <1>2, <1>4, <1>5 DEF P, x

(* One pass of decodeFrame over a frame of a message, the first under way: *)
(* if it is not the first of its message, frameBuff_ holds all that comes  *)
(* before it.                                                              *)
LEMMA DecodeData ==
  ASSUME StreamInv, In # <<>>, IsData(sends, In[1])
  PROVE  LET f == In[1]
             s == f.src
             k == Idx(sends, f)
         IN  /\ f \in Sent
             /\ \A i \in DOMAIN In : i > 1 /\ IsData(sends, In[i]) =>
                  Before(s, k, In[i].src, Idx(sends, In[i]))
             /\ outbox # <<>> => Before(s, k, outbox[1].src, Idx(sends, outbox[1]))
             /\ f.FIN => k = Len(Enc(sends, s)) /\ Delivered(buf, f) = <<Pieces(Enc(sends, s))>>
             /\ ~f.FIN => Delivered(buf, f) = <<>>
             /\ FrameBuffer(buf, f) = Prefix(sends, s, k) \/ (k = 1 /\ f.FIN /\ FrameBuffer(buf, f) = buf)
             /\ k > 1 => buf = Prefix(sends, s, k - 1)
  <1>0. TypesInv /\ FramesInv /\ QueuedInv /\ BufInv /\ sends \in Seq(Msgs)
    BY DEF StreamInv, TypesInv
  <1> DEFINE f == In[1]
             s == f.src
             k == Idx(sends, f)
             n == Len(Enc(sends, s))
  <1>1. 1 \in DOMAIN In /\ \A i \in DOMAIN In : i \in Nat /\ i >= 1
    BY <1>0, AheadIs, Tailed
  <1>2. f \in Sent /\ f \in Ahead
    BY <1>0, <1>1, AheadIs
  <1>3. /\ s \in DOMAIN sends /\ s \in Nat /\ s > 0 /\ n \in Nat /\ k \in 1 .. n
        /\ f = Enc(sends, s)[k]
    BY <1>0, <1>2, AheadIs
  <1>4. \A i \in DOMAIN In : i > 1 /\ IsData(sends, In[i]) =>
          Before(s, k, In[i].src, Idx(sends, In[i]))
    BY <1>0, <1>1 DEF QueuedInv
  <1>5. outbox # <<>> => Before(s, k, outbox[1].src, Idx(sends, outbox[1]))
    BY <1>0, <1>2 DEF QueuedInv
  <1>6. (f.FIN => k = n) /\ f.Opcode = IF k = 1 THEN "text" ELSE "continue"
    BY <1>0, <1>3, EncFacts DEF Frames
  <1>7. k > 1 => buf = Prefix(sends, s, k - 1)
    <2> SUFFICES ASSUME k > 1, NEW g \in Sent, g.src = s, Idx(sends, g) = k - 1 PROVE FALSE
      BY <1>0, <1>2 DEF QueuedInv
    <2>1. PICK i \in DOMAIN In : In[i] = g
      BY <1>0, AheadIs
    <2>2. IsData(sends, g)
      BY <1>0, AheadIs
    <2>3. i # 1
      BY <1>3, <2>1
    <2>4. Before(s, k, g.src, Idx(sends, g))
      BY <1>1, <1>4, <2>1, <2>2, <2>3
    <2> QED BY <1>3, <2>4 DEF Before
  <1>8. /\ k = 1 => Prefix(sends, s, k) = <<Bytes(f)>>
        /\ k > 1 => Prefix(sends, s, k) = Append(Prefix(sends, s, k - 1), Bytes(f))
        /\ k = n => Prefix(sends, s, k) = Pieces(Enc(sends, s))
    BY <1>0, <1>3, PrefixFacts
  <1>9. k = 1 \/ k > 1
    BY <1>3
  <1> HIDE DEF f, s, k, n
  <1>10. ~f.FIN => Delivered(buf, f) = <<>>
    BY DEF Delivered
  <1>11. f.FIN => k = n /\ Delivered(buf, f) = <<Pieces(Enc(sends, s))>>
    BY <1>6, <1>7, <1>8, <1>9 DEF Delivered
  <1>12. FrameBuffer(buf, f) = Prefix(sends, s, k) \/ (k = 1 /\ f.FIN /\ FrameBuffer(buf, f) = buf)
    BY <1>6, <1>7, <1>8, <1>9 DEF FrameBuffer, DataOpcodes
  <1> QED BY <1>2, <1>4, <1>5, <1>7, <1>10, <1>11, <1>12 DEF f, s, k, n

(* One more payload is handed over.                                        *)
LEMMA HandedOver ==
  ASSUME NEW S, NEW q \in Seq(S), NEW x \in S
  PROVE  q \o <<x>> = Append(q, x) /\ q \o <<>> = q
  <1>1. q \o <<x>> = Append(q, x)
    OBVIOUS
  <1> QED BY <1>1, ConcatEmptySeq

(* A heartbeat is decoded: it is handed over and frameBuff_ stays.         *)
LEMMA DecodeBeatStep ==
  ASSUME StreamInv, DecodeFrame, Taken, In[1] = Beat
  PROVE  /\ QueuedInv' /\ BufInv' /\ DeliveredInv' /\ LastInv'
         /\ delivered' = Append(delivered, <<Bytes(Beat)>>)
  <1>0. TypesInv /\ FramesInv /\ QueuedInv /\ BufInv /\ DeliveredInv /\ LastInv
    BY DEF StreamInv
  <1> DEFINE x == <<Bytes(Beat)>>
             L == Len(delivered)
  <1>1. /\ In \in Seq(Fr) /\ In # <<>> /\ In' = Tail(In) /\ UNCHANGED <<sends, outbox>>
        /\ buf' = buf /\ delivered' = delivered \o <<x>>
    BY <1>0, DecodeIs, BeatFacts DEF FrameBuffer, Delivered
  <1>2. x \in Seq(Piece) /\ IsHeartbeat(x) /\ delivered \in Seq(Seq(Piece))
    <2>1. Bytes(Beat) \in Piece
      BY BeatFacts, BytesType
    <2> DEFINE P == Piece
    <2> HIDE DEF P
    <2>2. \A y \in P : <<y>> \in Seq(P)
      OBVIOUS
    <2> QED BY <1>0, <2>1, <2>2, BeatFacts DEF TypesInv, P
  <1> HIDE DEF x
  <1>3. delivered' = Append(delivered, x)
    BY <1>1, <1>2, HandedOver
  <1>4. /\ L \in Nat /\ DOMAIN delivered = 1 .. L /\ DOMAIN delivered' = 1 .. L + 1
        /\ \A i \in 1 .. L : delivered'[i] = delivered[i]
        /\ delivered'[L + 1] = x
        /\ Range(delivered') = Range(delivered) \cup {x}
    BY <1>2, <1>3, Appended
  <1>5. DataDelivered' = DataDelivered /\ \A i \in DataDelivered : i \in 1 .. L
    BY <1>2, <1>4 DEF DataDelivered
  <1>6. /\ Len(In) \in Nat /\ DOMAIN In = 1 .. Len(In) /\ DOMAIN In' = 1 .. Len(In) - 1
        /\ \A i \in DOMAIN In' : In'[i] = In[i + 1] /\ i + 1 \in DOMAIN In
    BY <1>1, Tailed
  <1>7. ~IsData(sends, Beat)
    BY <1>0, BeatFacts DEF TypesInv
  <1>8. Sent' = Sent /\ Ahead' = Ahead
    <2>1. \A f : f \in Sent' <=> IsData(sends, f) /\ \E i \in DOMAIN In' : In'[i] = f
      BY <1>1 DEF Sent, DataOf, Range
    <2>2. \A f \in Sent : \E i \in DOMAIN In' : In'[i] = f
      <3> SUFFICES ASSUME NEW f \in Sent PROVE \E i \in DOMAIN In' : In'[i] = f
        OBVIOUS
      <3>1. PICK i \in DOMAIN In : In[i] = f
        BY <1>0, AheadIs
      <3>2. IsData(sends, f)
        BY <1>0, AheadIs
      <3>3. i # 1
        BY <1>7, <3>1, <3>2
      <3>4. i - 1 \in DOMAIN In' /\ In'[i - 1] = In[i]
        BY <1>6, <3>1, <3>3
      <3> QED BY <3>1, <3>4
    <2>3. Sent' = Sent
      BY <1>0, <1>6, <2>1, <2>2, AheadIs
    <2> QED BY <1>1, <2>3 DEF Ahead
  <1>9. QueuedInv'
    <2>1. ASSUME NEW i \in DOMAIN In', NEW j \in DOMAIN In', i < j, IsData(sends, In'[i]),
                 IsData(sends, In'[j])
          PROVE  Before(In'[i].src, Idx(sends, In'[i]), In'[j].src, Idx(sends, In'[j]))
      <3>1. i + 1 < j + 1
        BY <1>6, <2>1
      <3> QED BY <1>0, <1>6, <2>1, <3>1 DEF QueuedInv
    <2> QED BY <1>0, <1>1, <1>8, <2>1 DEF QueuedInv
  <1>10. BufInv'
    BY <1>0, <1>1, <1>8 DEF BufInv
  <1>11. DeliveredInv'
    <2>1. \A i \in DataDelivered : delivered'[i] = delivered[i]
      BY <1>4, <1>5
    <2>2. DeliveredInOrder'
      BY <1>0, <1>5, <2>1 DEF DeliveredInOrder, DeliveredInv
    <2> QED BY <1>0, <1>1, <1>5, <1>8, <2>1, <2>2 DEF DeliveredInv
  <1>12. LastInv'
    BY <1>0, <1>1, <1>4, <1>8 DEF LastInv
  <1> QED BY <1>3, <1>9, <1>10, <1>11, <1>12 DEF x

(* A frame of a message is decoded.  What stays under way comes after it.  *)
LEMMA DecodeDataStep ==
  ASSUME StreamInv, DecodeFrame, Taken, IsData(sends, In[1])
  PROVE  /\ QueuedInv' /\ BufInv' /\ DeliveredInv' /\ LastInv'
         /\ \/ delivered' = delivered
            \/ delivered' = Append(delivered, Pieces(Enc(sends, In[1].src)))
  <1>0. /\ TypesInv /\ FramesInv /\ QueuedInv /\ BufInv /\ DeliveredInv /\ LastInv
        /\ sends \in Seq(Msgs)
    BY DEF StreamInv, TypesInv
  <1> DEFINE f == In[1]
             s == f.src
             k == Idx(sends, f)
             n == Len(Enc(sends, s))
             x == Pieces(Enc(sends, s))
             L == Len(delivered)
  <1>1. /\ In \in Seq(Fr) /\ In # <<>> /\ In' = Tail(In) /\ UNCHANGED <<sends, outbox>>
        /\ buf' = FrameBuffer(buf, f) /\ delivered' = delivered \o Delivered(buf, f)
    BY <1>0, DecodeIs
  <1>2. /\ f \in Sent
        /\ \A i \in DOMAIN In : i > 1 /\ IsData(sends, In[i]) =>
             Before(s, k, In[i].src, Idx(sends, In[i]))
        /\ outbox # <<>> => Before(s, k, outbox[1].src, Idx(sends, outbox[1]))
        /\ f.FIN => k = n /\ Delivered(buf, f) = <<x>>
        /\ ~f.FIN => Delivered(buf, f) = <<>>
        /\ FrameBuffer(buf, f) = Prefix(sends, s, k) \/ (k = 1 /\ f.FIN /\ FrameBuffer(buf, f) = buf)
        /\ k > 1 => buf = Prefix(sends, s, k - 1)
    BY <1>1, DecodeData
  <1>3. /\ f \in Ahead /\ s \in DOMAIN sends /\ s \in Nat /\ s > 0 /\ n \in Nat /\ k \in 1 .. n
        /\ f = Enc(sends, s)[k] /\ IsData(sends, f)
    BY <1>0, <1>2, AheadIs
  <1>4. /\ Len(In) \in Nat /\ DOMAIN In = 1 .. Len(In) /\ DOMAIN In' = 1 .. Len(In) - 1
        /\ \A i \in DOMAIN In' : In'[i] = In[i + 1] /\ i + 1 \in DOMAIN In
    BY <1>1, Tailed
  <1>5. /\ \A g \in Ahead : g # f => g \in Ahead'
        /\ \A g \in Sent : g # f => g \in Sent'
        /\ \A g \in Sent' : g \in Sent
        /\ \A g \in Ahead' : /\ g \in Ahead /\ Before(s, k, g.src, Idx(sends, g))
                             /\ g.src \in Nat /\ Idx(sends, g) \in 1 .. Len(Enc(sends, g.src))
                             /\ Len(Enc(sends, g.src)) \in Nat /\ g.src \in DOMAIN sends
    <2>1. \A g : g \in Sent' <=> IsData(sends, g) /\ \E i \in DOMAIN In' : In'[i] = g
      BY <1>1 DEF Sent, DataOf, Range
    <2>2. ASSUME NEW g \in Sent, g # f PROVE g \in Sent'
      <3>1. PICK i \in DOMAIN In : In[i] = g
        BY <1>0, AheadIs
      <3>2. i # 1 /\ IsData(sends, g)
        BY <1>0, <2>2, <3>1, AheadIs
      <3>3. i - 1 \in DOMAIN In' /\ In'[i - 1] = In[i]
        BY <1>4, <3>1, <3>2
      <3> QED BY <2>1, <3>1, <3>2, <3>3
    <2>3. ASSUME NEW g \in Sent' PROVE g \in Sent /\ Before(s, k, g.src, Idx(sends, g))
      <3>1. IsData(sends, g)
        BY <2>1
      <3>2. PICK i \in DOMAIN In' : In'[i] = g
        BY <2>1
      <3>3. i + 1 \in DOMAIN In /\ i + 1 > 1 /\ In[i + 1] = g
        BY <1>4, <3>2
      <3> QED BY <1>0, <1>2, <3>1, <3>3, AheadIs
    <2>4. Ahead' = Sent' \cup (IF outbox = <<>> THEN {} ELSE {outbox[1]})
          /\ Ahead = Sent \cup (IF outbox = <<>> THEN {} ELSE {outbox[1]})
      BY <1>1 DEF Ahead
    <2>5. \A g \in Ahead' : g \in Ahead /\ Before(s, k, g.src, Idx(sends, g))
      BY <1>2, <2>3, <2>4
    <2>6. \A g \in Ahead : g # f => g \in Ahead'
      BY <2>2, <2>4
    <2> QED BY <1>0, <2>2, <2>3, <2>5, <2>6, AheadIs
  <1>6. /\ delivered \in Seq(Seq(Piece)) /\ L \in Nat /\ DOMAIN delivered = 1 .. L
        /\ delivered' \in Seq(Seq(Piece))
    BY <1>0, LenProperties, TypesStep DEF TypesInv, Next
  <1>7. x # <<>> /\ x \in Seq(Piece) /\ x[1].src = s
    BY <1>0, <1>3, PiecesFacts
  <1> HIDE DEF f, s, k, n, x
  <1>8. \/ ~f.FIN /\ delivered' = delivered
        \/ f.FIN /\ k = n /\ delivered' = Append(delivered, x)
    BY <1>1, <1>2, <1>6, <1>7, HandedOver
  <1>9. QueuedInv'
    <2>1. ASSUME NEW i \in DOMAIN In', NEW j \in DOMAIN In', i < j, IsData(sends, In'[i]),
                 IsData(sends, In'[j])
          PROVE  Before(In'[i].src, Idx(sends, In'[i]), In'[j].src, Idx(sends, In'[j]))
      <3>1. i + 1 < j + 1
        BY <1>4, <2>1
      <3> QED BY <1>0, <1>4, <2>1, <3>1 DEF QueuedInv
    <2>2. outbox # <<>> => \A g \in Sent' :
             Before(g.src, Idx(sends, g), outbox[1].src, Idx(sends, outbox[1]))
      BY <1>0, <1>5 DEF QueuedInv
    <2>3. ASSUME NEW g \in Ahead', Idx(sends, g) > 1
          PROVE  \/ \E h \in Sent' : h.src = g.src /\ Idx(sends, h) = Idx(sends, g) - 1
                 \/ buf' = Prefix(sends, g.src, Idx(sends, g) - 1)
      <3> DEFINE l == Idx(sends, g) - 1
      <3>1. \/ \E h \in Sent : h.src = g.src /\ Idx(sends, h) = l
            \/ buf = Prefix(sends, g.src, l)
        BY <1>0, <1>5, <2>3 DEF QueuedInv
      <3>2. g.src \in Nat /\ l \in 1 .. Len(Enc(sends, g.src)) /\ g.src \in DOMAIN sends
            /\ Before(s, k, g.src, l + 1) /\ l \in Nat
            /\ l + 1 \in 1 .. Len(Enc(sends, g.src)) /\ Len(Enc(sends, g.src)) \in Nat
        BY <1>5, <2>3
      <3> HIDE DEF l
      <3>3. CASE f.src = g.src /\ k = l
        <4>1. s = g.src /\ n = Len(Enc(sends, g.src))
          BY <3>3 DEF s, n
        <4>2. k # n
          BY <1>3, <3>2, <3>3, <4>1
        <4>3. ~(k = 1 /\ f.FIN)
          BY <1>2, <4>2
        <4>4. buf' = Prefix(sends, s, k)
          BY <1>1, <1>2, <4>3
        <4> QED BY <3>3, <4>1, <4>4 DEF l
      <3>4. CASE \E h \in Sent : h.src = g.src /\ Idx(sends, h) = l /\ h # f
        BY <1>5, <3>4 DEF l
      <3>5. CASE buf = Prefix(sends, g.src, l)
        <4>1. buf # <<>> /\ Len(buf) = l /\ buf[1].src = g.src
          BY <1>0, <3>2, <3>5, PrefixFacts
        <4>2. Before(g.src, l, s, k)
          BY <1>0, <1>3, <4>1 DEF BufInv, s, k
        <4> QED BY <1>3, <3>2, <4>2 DEF Before
      <3> QED BY <3>1, <3>3, <3>4, <3>5 DEF k
    <2> QED BY <1>1, <2>1, <2>2, <2>3 DEF QueuedInv
  <1>10. BufInv'
    <2>1. CASE buf' = Prefix(sends, s, k)
      <3>1. buf' # <<>> /\ Len(buf') = k /\ buf'[1].src = s
        BY <1>0, <1>3, <2>1, PrefixFacts DEF n
      <3> QED BY <1>1, <1>3, <1>5, <2>1, <3>1 DEF BufInv
    <2>2. CASE buf' = buf
      BY <1>0, <1>1, <1>5, <2>2 DEF BufInv
    <2> QED BY <1>1, <1>2, <2>1, <2>2
  <1>11. DeliveredInv' /\ (f.FIN => \E d \in Range(delivered') : d[1].src = s)
         /\ Range(delivered) \subseteq Range(delivered')
    <2>1. CASE ~f.FIN /\ delivered' = delivered
      BY <1>0, <1>1, <1>5, <2>1 DEF DeliveredInv, DataDelivered, DeliveredInOrder
    <2>2. CASE f.FIN /\ k = n /\ delivered' = Append(delivered, x)
      <3>1. /\ DOMAIN delivered' = 1 .. L + 1
            /\ \A i \in 1 .. L : delivered'[i] = delivered[i]
            /\ delivered'[L + 1] = x
            /\ Range(delivered') = Range(delivered) \cup {x}
        BY <1>6, <1>7, <2>2, Appended
      <3>2. \A i \in DataDelivered' :
               \/ i \in DataDelivered /\ i \in 1 .. L /\ delivered'[i] = delivered[i]
               \/ i = L + 1 /\ delivered'[i] = x
        BY <1>6, <3>1 DEF DataDelivered
      <3>3. \A g \in Ahead' : s < g.src
        <4> SUFFICES ASSUME NEW g \in Ahead', g.src = s PROVE FALSE
          BY <1>3, <1>5 DEF Before
        <4>1. Idx(sends, g) \in 1 .. n
          BY <1>5 DEF n
        <4> QED BY <1>3, <1>5, <2>2, <4>1 DEF Before
      <3>4. \A i \in DataDelivered : delivered[i][1].src < s
        BY <1>0, <1>3 DEF DeliveredInv, s
      <3>5. DeliveredInOrder'
        <4> SUFFICES ASSUME NEW i \in DataDelivered', NEW j \in DataDelivered', i < j
                     PROVE  delivered'[i][1].src < delivered'[j][1].src
          BY DEF DeliveredInOrder
        <4>1. i \in DataDelivered /\ i \in 1 .. L /\ delivered'[i] = delivered[i]
          BY <1>6, <3>1, <3>2 DEF DataDelivered
        <4>2. CASE j \in DataDelivered /\ delivered'[j] = delivered[j]
          BY <1>0, <4>1, <4>2 DEF DeliveredInv, DeliveredInOrder
        <4>3. CASE delivered'[j] = x
          BY <1>7, <3>4, <4>1, <4>3
        <4> QED BY <3>2, <4>2, <4>3
      <3>6. ASSUME NEW i \in DataDelivered'
            PROVE  /\ delivered'[i][1].src \in DOMAIN sends
                   /\ delivered'[i] = Pieces(Enc(sends, delivered'[i][1].src))
                   /\ \A g \in Ahead' : delivered'[i][1].src < g.src
        <4>1. CASE i \in DataDelivered /\ delivered'[i] = delivered[i]
          BY <1>0, <1>5, <4>1 DEF DeliveredInv
        <4>2. CASE delivered'[i] = x
          BY <1>3, <1>7, <3>3, <4>2 DEF x
        <4> QED BY <3>2, <4>1, <4>2
      <3> QED BY <1>1, <1>7, <3>1, <3>5, <3>6 DEF DeliveredInv
    <2> QED BY <1>8, <2>1, <2>2
  <1>12. LastInv'
    <2> SUFFICES ASSUME NEW m \in DOMAIN sends, GoodLength(sends[m].len)
                 PROVE  \/ \E d \in Range(delivered') : d[1].src = m
                        \/ \E g \in Sent' : g.src = m /\ Idx(sends, g) = Len(Enc(sends, m))
                        \/ outbox # <<>> /\ m = Len(sends)
      BY <1>1 DEF LastInv
    <2>1. \/ \E d \in Range(delivered) : d[1].src = m
          \/ \E g \in Sent : g.src = m /\ Idx(sends, g) = Len(Enc(sends, m))
          \/ outbox # <<>> /\ m = Len(sends)
      BY <1>0 DEF LastInv
    <2>2. CASE s = m /\ k = n
      <3>1. f.FIN
        BY <1>0, <1>3, <2>2, EncFacts DEF Frames, n
      <3> QED BY <1>11, <2>2, <3>1
    <2>3. CASE ~(s = m /\ k = n)
      <3>1. \A g \in Sent : g.src = m /\ Idx(sends, g) = Len(Enc(sends, m)) => g # f
        BY <2>3 DEF s, k, n
      <3> QED BY <1>5, <1>11, <2>1, <3>1
    <2> QED BY <2>2, <2>3
  <1> QED BY <1>8, <1>9, <1>10, <1>11, <1>12 DEF x, s, f

(* The client keeps its decoder from one read to the next, so every step   *)
(* preserves the order of the frames and of what was handed over.          *)
LEMMA StreamStep ==
  ASSUME FreshDecoder = FALSE, StreamInv, [Next]_vars
  PROVE  StreamInv'
  <1>0. TypesInv /\ FramesInv
    BY DEF StreamInv
  <1>1. TypesInv' /\ FramesInv'
    BY <1>0, TypesStep, FramesStep
  <1>2. QueuedInv' /\ BufInv' /\ DeliveredInv' /\ LastInv'
    <2>1. CASE (\E len \in Sendable : SendFresh(len)) \/ SendAgain
      BY <1>0, <2>1, SendIsNewMessage, NewMessageStep
    <2>2. CASE EmitFrame
      BY <2>2, EmitStep
    <2>3. CASE SendHeartbeat
      BY <2>3, HeartbeatStep
    <2>4. ASSUME NEW n \in 1 .. Len(wire), Read(n)
          PROVE  QueuedInv' /\ BufInv' /\ DeliveredInv' /\ LastInv'
      BY <1>0, <2>4, ReadIs, QuietStep DEF Quiet
    <2>5. CASE Ends
      BY <2>5, EndsIs, QuietStep DEF Quiet
    <2>6. CASE DecodeFrame
      <3>1. CASE ~Taken
        BY <1>0, <2>6, <3>1, DecodeIs, QuietStep DEF Quiet
      <3>2. CASE Taken /\ In[1] = Beat
        BY <2>6, <3>2, DecodeBeatStep
      <3>3. In[1] = Beat \/ IsData(sends, In[1])
        <4>1. 1 \in DOMAIN In
          BY <1>0, <2>6, DecodeIs, Tailed
        <4> QED BY <1>0, <4>1 DEF FramesInv
      <3> QED BY <2>6, <3>1, <3>2, <3>3, DecodeDataStep
    <2>7. CASE UNCHANGED vars
      BY <2>7, QuietStep DEF Quiet, vars, In
    <2> QED BY <2>1, <2>2, <2>3, <2>4, <2>5, <2>6, <2>7 DEF Next, Ends
  <1> QED BY <1>1, <1>2 DEF StreamInv

LEMMA StreamStart == Init => StreamInv
  <1> SUFFICES ASSUME Init PROVE StreamInv
    OBVIOUS
  <1>1. TypesInv /\ FramesInv
    BY StreamInit
  <1>2. In = <<>> /\ outbox = <<>> /\ buf = <<>> /\ delivered = <<>> /\ sends = <<>>
    BY DEF Init, In
  <1>3. Sent = {} /\ Ahead = {} /\ DataDelivered = {}
    BY <1>2 DEF Sent, DataOf, Range, Ahead, DataDelivered
  <1> QED BY <1>1, <1>2, <1>3 DEF StreamInv, QueuedInv, BufInv, DeliveredInv, DeliveredInOrder,
             LastInv

LEMMA StreamInvariant == ASSUME FreshDecoder = FALSE PROVE Spec => []StreamInv
  BY StreamStart, StreamStep, PTL DEF Spec

(* A client hands messages over in the order they were sent, none twice,   *)
(* whatever heartbeats come between their slices and however the reads cut *)
(* the stream at frame boundaries.                                         *)
THEOREM ClientDeliversInOrder ==
  ASSUME FreshDecoder = FALSE
  PROVE  Spec => []DeliveredInOrder
  <1>1. StreamInv => DeliveredInOrder
    BY DEF StreamInv, DeliveredInv
  <1> QED BY <1>1, StreamInvariant, PTL

(* What a client hands over is one message: bytes of no other one in it,   *)
(* and, for a length encodeFrame handles, all of its bytes in order, each  *)
(* unmasked at the right byte of the key.  (A message in slices that is    *)
(* longer than frameBuff_ is never handed over: its slices overrun the     *)
(* buffer, and the behaviour ends there.)                                  *)
THEOREM ClientDeliversWhole ==
  ASSUME FreshDecoder = FALSE
  PROVE  Spec => []Intact
  <1>1. StreamInv => Intact
    <2> SUFFICES ASSUME StreamInv, NEW j \in DataDelivered
                 PROVE  LET d == delivered[j]
                        IN  \E n \in DOMAIN sends :
                              /\ \A i \in DOMAIN d : d[i].src = n
                              /\ GoodLength(sends[n].len) =>
                                   /\ Tiles(d, n, sends[n].len)
                                   /\ \A i \in DOMAIN d : Clear(d[i], sends[n].masked) = sends[n].masked
      BY DEF Intact
    <2> DEFINE d == delivered[j]
               n == d[1].src
               fs == Enc(sends, n)
    <2>1. n \in DOMAIN sends /\ d = Pieces(fs)
      BY DEF StreamInv, DeliveredInv
    <2>2. /\ n \in Nat /\ sends[n].len \in Nat /\ sends[n].len > 0 /\ sends[n] \in Msgs
          /\ Frames(fs, n, sends[n].len)
      BY <2>1, EncFacts DEF StreamInv, TypesInv
    <2> HIDE DEF d, n, fs
    <2>3. /\ DOMAIN d = DOMAIN fs /\ DOMAIN fs = 1 .. Len(fs)
          /\ \A i \in DOMAIN fs : d[i] = Bytes(fs[i])
      BY <2>1, <2>2 DEF Pieces, Frames
    <2>4. \A i \in DOMAIN d : d[i].src = n
      <3>1. \A i \in DOMAIN fs : fs[i].src = n
        BY <2>2 DEF Frames
      <3>2. \A i \in DOMAIN fs : Bytes(fs[i]).src = fs[i].src
        BY DEF Bytes
      <3> QED BY <2>3, <3>1, <3>2
    <2>5. ASSUME GoodLength(sends[n].len)
          PROVE  /\ Tiles(d, n, sends[n].len)
                 /\ \A i \in DOMAIN d : Clear(d[i], sends[n].masked) = sends[n].masked
      <3>1. WellEncoded(fs, n, sends[n].len, "text")
        BY <2>2, <2>5, EncodeCorrect DEF Enc, DataOpcodes, fs
      <3>2. Tiles(d, n, sends[n].len)
        BY <2>1, <3>1 DEF WellEncoded
      <3>3. \A i \in DOMAIN d : Clear(d[i], TRUE)
        BY <2>3, <3>1 DEF WellEncoded
      <3>4. sends[n].masked \in BOOLEAN
        BY <2>2 DEF Msgs
      <3>5. \A i \in DOMAIN d : Clear(d[i], sends[n].masked) = sends[n].masked
        BY <3>3, <3>4, Zenon DEF Clear
      <3> QED BY <3>2, <3>5
    <2> QED BY <2>1, <2>4, <2>5 DEF d
  <1> QED BY <1>1, StreamInvariant, PTL

-----------------------------------------------------------------------------
(* The room in frameBuff_.                                                 *)

(* A slice ends inside the message.                                        *)
LEMMA SliceFits ==
  ASSUME NEW ss \in Seq(Msgs), NEW s \in DOMAIN ss, NEW k \in 1 .. Len(Enc(ss, s)),
         Decodable(Enc(ss, s)[k]), ~(k = 1 /\ Enc(ss, s)[k].FIN)
  PROVE  /\ (k - 1) * SliceSize + Enc(ss, s)[k].len <= ss[s].len
         /\ k < Len(Enc(ss, s)) => Enc(ss, s)[k].len = SliceSize
  <1> DEFINE len == ss[s].len
             n == Slices(len)
             q == len \div SliceSize
             r == len % SliceSize
             fs == Enc(ss, s)
             f == fs[k]
  <1>1. len \in Nat /\ fs = EncodeData(s, len, "text") /\ SliceSize \in Nat /\ SliceSize > 0
        /\ ShortLength < SliceSize
    BY EncFacts, SizesAssumption DEF Enc
  <1>2. len >= SliceSize
    <2> SUFFICES ASSUME len < SliceSize PROVE FALSE
      BY <1>1
    <2>1. PICK plen : fs = <<Frame(TRUE, "text", plen, s, 0, len)>>
      BY <1>1 DEF EncodeData
    <2> DEFINE x == Frame(TRUE, "text", plen, s, 0, len)
    <2> HIDE DEF x
    <2>a. fs = <<x>>
      BY <2>1 DEF x
    <2>b. Len(fs) = 1 /\ fs[1] = x
      BY <2>a
    <2>2. k = 1 /\ f = x
      BY <2>b
    <2> QED BY <2>2 DEF Frame, x
  <1>3. fs = [i \in 1 .. n |-> Slice(s, len, "text", i)]
    <2>1. ~(len < ShortLength) /\ ~(len < SliceSize)
      BY <1>1, <1>2, SizesAssumption
    <2> QED BY <1>1, <2>1 DEF EncodeData
  <1>4. q \in Nat /\ r \in Nat /\ len = SliceSize * q + r
    BY <1>1, DivMod
  <1>5. n \in Nat /\ n = q + (IF r > 0 THEN 1 ELSE 0)
    BY <1>4 DEF Slices
  <1>6. Len(fs) = n /\ k \in 1 .. n /\ f = Slice(s, len, "text", k)
    BY <1>3, <1>5
  <1>7. f.len > 0
    BY DEF Decodable, UnMaskable
  <1> HIDE DEF len, q, r, fs, f, n
  <1>8. CASE k > 1 /\ k = n
    <2>1. f.len = r
      BY <1>6, <1>8 DEF Slice, LastSlice, Frame, n, r
    <2>2. n = q + 1
      BY <1>4, <1>5, <1>7, <2>1
    <2>3. (k - 1) * SliceSize + r = len
      BY <1>1, <1>4, <1>8, <2>2
    <2> QED BY <1>1, <1>5, <1>6, <1>8, <2>1, <2>3 DEF len, fs, f
  <1>9. CASE ~(k > 1 /\ k = n)
    <2>1. f.len = SliceSize
      BY <1>6, <1>9 DEF Slice, Frame, n
    <2>2. k \in Nat /\ k <= q
      <3>1. k \in Nat /\ k >= 1 /\ k <= n
        BY <1>5, <1>6
      <3>2. q >= 1
        BY <1>1, <1>2, DivPositive DEF q
      <3> QED BY <1>4, <1>5, <1>9, <3>1, <3>2
    <2>3. k * SliceSize <= q * SliceSize
      <3>1. k < q => k * SliceSize < q * SliceSize
        BY <1>1, <1>4, <2>2, MulMono
      <3>2. k * SliceSize \in Int /\ q * SliceSize \in Int
        BY <1>1, <1>4, <2>2
      <3>3. k = q => k * SliceSize = q * SliceSize
        OBVIOUS
      <3> QED BY <1>4, <2>2, <3>1, <3>2, <3>3
    <2>4. (k - 1) * SliceSize + SliceSize <= len
      BY <1>1, <1>4, <2>2, <2>3
    <2> QED BY <2>1, <2>4 DEF len, fs, f
  <1> QED BY <1>8, <1>9

(* While the slices of a message are not complete, framePos_ is behind     *)
(* them, wherever it was when the message began.                           *)
PosInv == buf # <<>> /\ Len(buf) < Len(Enc(sends, buf[1].src)) =>
            framePos = Len(buf) * SliceSize

(* A slice that is decoded is copied to its place in the message.          *)
LEMMA SlicePos ==
  ASSUME StreamInv, PosInv, In # <<>>, IsData(sends, In[1]), Decodable(In[1])
  PROVE  LET f == In[1]
             s == f.src
             k == Idx(sends, f)
         IN  /\ s \in DOMAIN sends /\ k \in 1 .. Len(Enc(sends, s)) /\ f = Enc(sends, s)[k]
             /\ Len(Enc(sends, s)) \in Nat
             /\ k = 1 /\ f.FIN => FramePos(framePos, f) = framePos
             /\ ~(k = 1 /\ f.FIN) =>
                  /\ FramePos(framePos, f) = (k - 1) * SliceSize + f.len
                  /\ (k - 1) * SliceSize + f.len <= sends[s].len
                  /\ k < Len(Enc(sends, s)) => f.len = SliceSize
  <1>0. TypesInv /\ sends \in Seq(Msgs)
    BY DEF StreamInv, TypesInv
  <1> DEFINE f == In[1]
             s == f.src
             k == Idx(sends, f)
             n == Len(Enc(sends, s))
  <1>1. s \in DOMAIN sends /\ k \in 1 .. n /\ f = Enc(sends, s)[k] /\ n \in Nat
    BY <1>0, DataAt
  <1>2. Frames(Enc(sends, s), s, sends[s].len)
    BY <1>0, <1>1, EncFacts
  <1>3. f.Opcode = IF k = 1 THEN "text" ELSE "continue"
    BY <1>1, <1>2 DEF Frames
  <1>4. ~(k = 1 /\ f.FIN) => /\ (k - 1) * SliceSize + f.len <= sends[s].len
                             /\ k < n => f.len = SliceSize
    BY <1>0, <1>1, SliceFits
  <1>5. k > 1 => buf = Prefix(sends, s, k - 1)
    BY DecodeData
  <1>6. k > 1 => framePos = (k - 1) * SliceSize
    <2> SUFFICES ASSUME k > 1 PROVE framePos = (k - 1) * SliceSize
      OBVIOUS
    <2>1. k - 1 \in 1 .. n
      BY <1>1
    <2>2. buf # <<>> /\ Len(buf) = k - 1 /\ buf[1].src = s
      BY <1>0, <1>1, <1>5, <2>1, PrefixFacts
    <2>3. Len(buf) < Len(Enc(sends, buf[1].src))
      BY <1>1, <2>1, <2>2
    <2> QED BY <2>2, <2>3 DEF PosInv
  <1>7. f.len \in Nat /\ SliceSize \in Nat
    BY <1>0, SizesAssumption, DataAt DEF Fr
  <1>8. k = 1 => (k - 1) * SliceSize = 0
    BY <1>7
  <1>9. k = 1 \/ k > 1
    BY <1>1
  <1> HIDE DEF f, s, k, n
  <1>10. k = 1 /\ f.FIN => FramePos(framePos, f) = framePos
    BY <1>3 DEF FramePos
  <1>11. ~(k = 1 /\ f.FIN) => FramePos(framePos, f) = (k - 1) * SliceSize + f.len
    BY <1>3, <1>6, <1>8, <1>9 DEF FramePos, FrameStart, DataOpcodes
  <1> QED BY <1>1, <1>4, <1>10, <1>11 DEF f, s, k, n

LEMMA PosStep ==
  ASSUME FreshDecoder = FALSE, StreamInv, PosInv, [Next]_vars
  PROVE  PosInv'
  <1>0. TypesInv /\ FramesInv /\ BufInv /\ sends \in Seq(Msgs)
    BY DEF StreamInv, TypesInv
  <1>1. CASE UNCHANGED <<buf, framePos, sends>>
    BY <1>1 DEF PosInv
  <1>2. CASE (\E len \in Sendable : SendFresh(len)) \/ SendAgain
    <2>1. NewMessage
      BY <1>0, <1>2, SendIsNewMessage
    <2>2. \A s \in DOMAIN sends : Enc(sends', s) = Enc(sends, s)
      BY <1>0, <2>1, SendStep, Zenon
    <2>3. buf # <<>> => buf[1].src \in DOMAIN sends
      BY <1>0 DEF BufInv
    <2> QED BY <2>1, <2>2, <2>3 DEF PosInv, NewMessage
  <1>3. CASE DecodeFrame /\ Taken
    <2>1. /\ In \in Seq(Fr) /\ In # <<>> /\ sends' = sends
          /\ buf' = FrameBuffer(buf, In[1]) /\ framePos' = FramePos(framePos, In[1])
      BY <1>0, <1>3, DecodeIs
    <2>2. CASE In[1] = Beat
      <3>1. buf' = buf /\ framePos' = framePos
        BY <2>1, <2>2, BeatFacts DEF FrameBuffer, FramePos
      <3> QED BY <2>1, <3>1 DEF PosInv
    <2>3. CASE IsData(sends, In[1])
      <3> DEFINE f == In[1]
                 s == f.src
                 k == Idx(sends, f)
                 n == Len(Enc(sends, s))
      <3>1. /\ s \in DOMAIN sends /\ k \in 1 .. n /\ n \in Nat
            /\ k = 1 /\ f.FIN => framePos' = framePos
            /\ ~(k = 1 /\ f.FIN) => /\ framePos' = (k - 1) * SliceSize + f.len
                                    /\ k < n => f.len = SliceSize
        BY <1>3, <2>1, <2>3, SlicePos DEF Taken
      <3>2. buf' = Prefix(sends, s, k) \/ (k = 1 /\ f.FIN /\ buf' = buf)
        BY <2>1, <2>3, DecodeData
      <3> HIDE DEF f, s, k, n
      <3>3. CASE k = 1 /\ f.FIN /\ buf' = buf
        BY <2>1, <3>1, <3>3 DEF PosInv
      <3>4. CASE k = 1 /\ f.FIN /\ buf' = Prefix(sends, s, k)
        <4>1. buf' # <<>> /\ Len(buf') = k /\ buf'[1].src = s
          BY <1>0, <3>1, <3>4, PrefixFacts DEF n
        <4>2. k = n
          BY <2>1, <2>3, <3>4, DecodeData DEF f, s, k, n
        <4> QED BY <2>1, <3>1, <4>1, <4>2 DEF PosInv, n
      <3>5. CASE ~(k = 1 /\ f.FIN)
        <4>1. buf' # <<>> /\ Len(buf') = k /\ buf'[1].src = s
          BY <1>0, <3>1, <3>2, <3>5, PrefixFacts DEF n
        <4>2. k < n => framePos' = k * SliceSize
          <5>1. k \in Nat /\ SliceSize \in Nat
            BY <3>1, SizesAssumption
          <5>2. (k - 1) * SliceSize + SliceSize = k * SliceSize
            BY <5>1
          <5> QED BY <3>1, <3>5, <5>2
        <4> QED BY <2>1, <4>1, <4>2 DEF PosInv, n
      <3> QED BY <3>2, <3>3, <3>4, <3>5
    <2>4. In[1] = Beat \/ IsData(sends, In[1])
      <3>1. 1 \in DOMAIN In
        BY <2>1, Tailed
      <3> QED BY <1>0, <3>1 DEF FramesInv
    <2> QED BY <2>2, <2>3, <2>4
  <1>4. CASE DecodeFrame /\ ~Taken
    BY <1>0, <1>1, <1>4, DecodeIs
  <1>5. ASSUME NEW n \in 1 .. Len(wire), Read(n) PROVE PosInv'
    BY <1>0, <1>1, <1>5, ReadIs
  <1>6. CASE Ends
    BY <1>1, <1>6, EndsIs
  <1>7. CASE EmitFrame \/ SendHeartbeat \/ UNCHANGED vars
    BY <1>1, <1>7 DEF EmitFrame, SendHeartbeat, vars
  <1> QED BY <1>2, <1>3, <1>4, <1>5, <1>6, <1>7 DEF Next, Ends

(* A client's decoder writes past the end of frameBuff_ only when a        *)
(* message is longer than frameBuff_: the first slice of a message resets  *)
(* framePos_, whatever was left there, and the slices of one message never *)
(* add up to more than its length; for every size of the buffer.           *)
THEOREM ClientOverrunsOnlyTooLong ==
  ASSUME FreshDecoder = FALSE
  PROVE  Spec => []OverrunsOnlyIfTooLong
  <1> DEFINE RoomInv == framePos <= MaxFrameSize
             I == PosInv /\ RoomInv /\ OverrunsOnlyIfTooLong
  <1>a. MaxFrameSize \in Nat
    BY SizesAssumption
  <1>1. Init => I
    BY <1>a DEF Init, PosInv, OverrunsOnlyIfTooLong
  <1>2. StreamInv /\ I /\ [Next]_vars => I'
    <2> SUFFICES ASSUME StreamInv, I, [Next]_vars PROVE RoomInv' /\ OverrunsOnlyIfTooLong'
      BY PosStep
    <2>0. TypesInv /\ FramesInv /\ framePos \in Nat
      BY DEF StreamInv, TypesInv
    <2>1. CASE Next /\ ~DecodeFrame
      <3>1. status' # "overrun" \/ (UNCHANGED status /\ status = "ok")
        BY <2>1, EndsIs DEF Next, Ends, SendFresh, SendAgain, EmitFrame, SendHeartbeat, Read
      <3>2. framePos' = framePos \/ framePos' = 0
        BY <2>1, EndsIs DEF Next, Ends, SendFresh, SendAgain, EmitFrame, SendHeartbeat, Read, Decoder
      <3> QED BY <1>a, <3>1, <3>2 DEF OverrunsOnlyIfTooLong
    <2>2. CASE DecodeFrame /\ Taken
      <3>1. framePos' = FramePos(framePos, In[1]) /\ ~Overruns(framePos, In[1])
            /\ UNCHANGED status /\ status = "ok"
        BY <2>0, <2>2, DecodeIs DEF DecodeFrame, Taken
      <3>2. framePos' \in Nat
        BY <2>0, TypesStep DEF TypesInv
      <3>3. framePos' <= MaxFrameSize
        BY <1>a, <3>1, <3>2 DEF Overruns
      <3> QED BY <3>1, <3>3 DEF OverrunsOnlyIfTooLong
    <2>3. CASE DecodeFrame /\ ~Taken
      <3>1. /\ In # <<>> /\ In \in Seq(Fr) /\ Head(chunk) = In[1]
            /\ UNCHANGED <<sends, chunk, framePos>>
            /\ \/ status' = "aborted"
               \/ Decodable(In[1]) /\ Overruns(framePos, In[1])
        BY <2>0, <2>3, DecodeIs
      <3>2. ASSUME Decodable(In[1]), Overruns(framePos, In[1])
            PROVE  sends[In[1].src].len > MaxFrameSize
        <4>1. FramePos(framePos, In[1]) > MaxFrameSize
          BY <3>2 DEF Overruns
        <4>2. FramePos(framePos, In[1]) # framePos
          BY <1>a, <2>0, <4>1
        <4>3. IsData(sends, In[1])
          <5>1. 1 \in DOMAIN In
            BY <3>1, Tailed
          <5>2. In[1] # Beat
            BY <4>2, BeatFacts DEF FramePos
          <5> QED BY <2>0, <5>1, <5>2 DEF FramesInv
        <4>4. FramePos(framePos, In[1]) <= sends[In[1].src].len /\ In[1].src \in DOMAIN sends
          BY <3>1, <3>2, <4>2, <4>3, SlicePos
        <4>5. FramePos(framePos, In[1]) \in Nat /\ sends[In[1].src].len \in Nat
          <5>1. In[1].len \in Nat
            BY <2>0, <4>3, DataAt DEF TypesInv, Fr
          <5> QED BY <2>0, <4>4, <5>1, EncFacts DEF TypesInv, FramePos, FrameStart
        <4> QED BY <1>a, <4>1, <4>4, <4>5
      <3> QED BY <3>1, <3>2 DEF OverrunsOnlyIfTooLong
    <2>4. CASE UNCHANGED vars
      BY <2>4 DEF OverrunsOnlyIfTooLong, vars
    <2> QED BY <2>1, <2>2, <2>3, <2>4
  <1> QED BY <1>1, <1>2, StreamInvariant, PTL DEF Spec

-----------------------------------------------------------------------------
(* Counting heartbeats.                                                    *)

LEMMA Counts ==
  ASSUME NEW n \in Nat, NEW S \in SUBSET (1 .. n)
  PROVE  /\ IsFiniteSet(S) /\ Cardinality(S) \in Nat
         /\ Cardinality(S \cup {n + 1}) = Cardinality(S) + 1
         /\ Cardinality({i \in 1 .. n - 1 : i + 1 \in S}) =
              Cardinality(S) - (IF 1 \in S THEN 1 ELSE 0)
  <1>1. IsFiniteSet(S) /\ Cardinality(S) \in Nat
    <2>1. IsFiniteSet(1 .. n)
      BY FS_Interval
    <2>2. IsFiniteSet(S)
      BY <2>1, FS_Subset
    <2> QED BY <2>2, FS_CardinalityType
  <1>2. n + 1 \notin S
    OBVIOUS
  <1>3. Cardinality(S \cup {n + 1}) = Cardinality(S) + 1
    BY <1>1, <1>2, FS_AddElement
  <1> DEFINE T == {i \in 1 .. n - 1 : i + 1 \in S}
             U == S \ {1}
             g == [i \in U |-> i - 1]
  <1>4. g \in [U -> T]
    OBVIOUS
  <1>5. \A a, b \in U : g[a] = g[b] => a = b
    OBVIOUS
  <1>6. \A i \in T : i + 1 \in U /\ g[i + 1] = i
    OBVIOUS
  <1>7. g \in Bijection(U, T)
    BY <1>4, <1>5, <1>6 DEF Bijection, Injection, IsInjective, Surjection
  <1>8. ExistsBijection(U, T)
    BY <1>7 DEF ExistsBijection
  <1>9. IsFiniteSet(U) /\ Cardinality(U) = Cardinality(S) - (IF 1 \in S THEN 1 ELSE 0)
    BY <1>1, FS_RemoveElement
  <1>10. Cardinality(T) = Cardinality(U)
    BY <1>8, <1>9, FS_Bijection
  <1> QED BY <1>1, <1>3, <1>9, <1>10

LEMMA CountIn ==
  ASSUME NEW q \in Seq(Fr)
  PROVE  /\ Cardinality(BeatsIn(q)) \in Nat
         /\ \A f \in Fr : Cardinality(BeatsIn(Append(q, f))) =
              Cardinality(BeatsIn(q)) + (IF f = Beat THEN 1 ELSE 0)
         /\ q # <<>> => Cardinality(BeatsIn(Tail(q))) =
              Cardinality(BeatsIn(q)) - (IF q[1] = Beat THEN 1 ELSE 0)
  <1> DEFINE n == Len(q)
             S == BeatsIn(q)
  <1>1. n \in Nat /\ DOMAIN q = 1 .. n
    BY LenProperties
  <1>2. S \in SUBSET (1 .. n)
    BY <1>1 DEF BeatsIn
  <1> HIDE DEF n, S
  <1>3. /\ Cardinality(S) \in Nat /\ Cardinality(S \cup {n + 1}) = Cardinality(S) + 1
        /\ Cardinality({i \in 1 .. n - 1 : i + 1 \in S}) =
              Cardinality(S) - (IF 1 \in S THEN 1 ELSE 0)
    BY <1>1, <1>2, Counts
  <1>4. ASSUME NEW f \in Fr
        PROVE  BeatsIn(Append(q, f)) = IF f = Beat THEN S \cup {n + 1} ELSE S
    <2>1. /\ DOMAIN Append(q, f) = 1 .. n + 1 /\ Append(q, f)[n + 1] = f
          /\ \A i \in 1 .. n : Append(q, f)[i] = q[i]
      BY Appended DEF n
    <2> QED BY <1>1, <2>1 DEF BeatsIn, S
  <1>5. q # <<>> => BeatsIn(Tail(q)) = {i \in 1 .. n - 1 : i + 1 \in S} /\ (1 \in S <=> q[1] = Beat)
    <2> SUFFICES ASSUME q # <<>>
                 PROVE  BeatsIn(Tail(q)) = {i \in 1 .. n - 1 : i + 1 \in S} /\ (1 \in S <=> q[1] = Beat)
      OBVIOUS
    <2>1. /\ DOMAIN Tail(q) = 1 .. n - 1 /\ n > 0
          /\ \A i \in 1 .. n - 1 : Tail(q)[i] = q[i + 1]
      BY Tailed DEF n
    <2> QED BY <1>1, <2>1 DEF BeatsIn, S
  <1>6. ASSUME NEW f \in Fr
        PROVE  Cardinality(BeatsIn(Append(q, f))) = Cardinality(S) + (IF f = Beat THEN 1 ELSE 0)
    <2>1. CASE f = Beat
      <3>1. BeatsIn(Append(q, f)) = S \cup {n + 1}
        BY <1>4, <2>1
      <3> QED BY <1>3, <2>1, <3>1
    <2>2. CASE f # Beat
      <3>1. BeatsIn(Append(q, f)) = S
        BY <1>4, <2>2
      <3> QED BY <1>3, <2>2, <3>1
    <2> QED BY <2>1, <2>2
  <1>7. q # <<>> => Cardinality(BeatsIn(Tail(q))) =
                      Cardinality(S) - (IF q[1] = Beat THEN 1 ELSE 0)
    BY <1>3, <1>5
  <1> QED BY <1>3, <1>6, <1>7 DEF S

LEMMA CountHanded ==
  ASSUME NEW ds \in Seq(Seq(Piece))
  PROVE  /\ Cardinality(BeatsHanded(ds)) \in Nat
         /\ \A d \in Seq(Piece) : Cardinality(BeatsHanded(Append(ds, d))) =
              Cardinality(BeatsHanded(ds)) + (IF IsHeartbeat(d) THEN 1 ELSE 0)
  <1> DEFINE n == Len(ds)
             S == BeatsHanded(ds)
  <1>1. n \in Nat /\ DOMAIN ds = 1 .. n
    BY LenProperties
  <1>2. S \in SUBSET (1 .. n)
    BY <1>1 DEF BeatsHanded
  <1> HIDE DEF n, S
  <1>3. Cardinality(S) \in Nat /\ Cardinality(S \cup {n + 1}) = Cardinality(S) + 1
    BY <1>1, <1>2, Counts
  <1>4. ASSUME NEW d \in Seq(Piece)
        PROVE  BeatsHanded(Append(ds, d)) = IF IsHeartbeat(d) THEN S \cup {n + 1} ELSE S
    <2>1. /\ DOMAIN Append(ds, d) = 1 .. n + 1 /\ Append(ds, d)[n + 1] = d
          /\ \A i \in 1 .. n : Append(ds, d)[i] = ds[i]
      BY Appended DEF n
    <2> QED BY <1>1, <2>1 DEF BeatsHanded, S
  <1>5. ASSUME NEW d \in Seq(Piece)
        PROVE  Cardinality(BeatsHanded(Append(ds, d))) =
                 Cardinality(S) + (IF IsHeartbeat(d) THEN 1 ELSE 0)
    <2>1. CASE IsHeartbeat(d)
      <3>1. BeatsHanded(Append(ds, d)) = S \cup {n + 1}
        BY <1>4, <2>1
      <3> QED BY <1>3, <2>1, <3>1
    <2>2. CASE ~IsHeartbeat(d)
      <3>1. BeatsHanded(Append(ds, d)) = S
        BY <1>4, <2>2
      <3> QED BY <1>3, <2>2, <3>1
    <2> QED BY <2>1, <2>2
  <1> QED BY <1>3, <1>5 DEF S

LEMMA BeatsStep ==
  ASSUME FreshDecoder = FALSE, StreamInv, BeatsInv, [Next]_vars
  PROVE  BeatsInv'
  <1>0. TypesInv /\ FramesInv /\ delivered \in Seq(Seq(Piece)) /\ In \in Seq(Fr) /\ beats \in Nat
    BY AheadIs DEF StreamInv, TypesInv
  <1> DEFINE H == Cardinality(BeatsHanded(delivered))
             B == Cardinality(BeatsIn(In))
  <1>1. /\ H \in Nat /\ B \in Nat /\ H + B = beats
        /\ \A f \in Fr : Cardinality(BeatsIn(Append(In, f))) = B + (IF f = Beat THEN 1 ELSE 0)
        /\ In # <<>> => Cardinality(BeatsIn(Tail(In))) = B - (IF In[1] = Beat THEN 1 ELSE 0)
        /\ \A d \in Seq(Piece) : Cardinality(BeatsHanded(Append(delivered, d))) =
                                   H + (IF IsHeartbeat(d) THEN 1 ELSE 0)
    <2>1. H \in Nat /\ B \in Nat /\ H + B = beats
      BY <1>0, CountIn, CountHanded DEF BeatsInv
    <2>2. ASSUME NEW f \in Fr
          PROVE  Cardinality(BeatsIn(Append(In, f))) = B + (IF f = Beat THEN 1 ELSE 0)
      BY <1>0, CountIn
    <2>3. ASSUME NEW d \in Seq(Piece)
          PROVE  Cardinality(BeatsHanded(Append(delivered, d))) =
                   H + (IF IsHeartbeat(d) THEN 1 ELSE 0)
      BY <1>0, CountHanded
    <2>4. In # <<>> => Cardinality(BeatsIn(Tail(In))) = B - (IF In[1] = Beat THEN 1 ELSE 0)
      BY <1>0, CountIn
    <2> QED BY <2>1, <2>2, <2>3, <2>4
  <1>2. ASSUME In' = In, UNCHANGED <<delivered, beats>> PROVE BeatsInv'
    BY <1>2 DEF BeatsInv
  <1>3. CASE (\E len \in Sendable : SendFresh(len)) \/ SendAgain
    BY <1>0, <1>2, <1>3, SendIsNewMessage, SendStep DEF NewMessage
  <1>4. CASE EmitFrame
    <2>1. outbox # <<>> /\ outbox[1] \in Fr /\ In' = Append(In, outbox[1])
          /\ UNCHANGED <<delivered, beats>>
      BY <1>0, <1>4, EmitIs
    <2>2. outbox[1] # Beat
      BY <1>0, <2>1, AheadIs, BeatFacts DEF TypesInv
    <2>3. Cardinality(BeatsIn(In')) = B
      BY <1>1, <2>1, <2>2
    <2> QED BY <2>1, <2>3 DEF BeatsInv
  <1>5. CASE SendHeartbeat
    <2>1. In' = Append(In, Beat) /\ beats' = beats + 1 /\ delivered' = delivered
      BY <1>0, <1>5, HeartbeatIs
    <2>2. Cardinality(BeatsIn(In')) = B + 1
      BY <1>1, <2>1, BeatFacts
    <2>3. Cardinality(BeatsHanded(delivered')) = H
      BY <2>1
    <2> HIDE DEF H, B
    <2>4. H + (B + 1) = beats'
      BY <1>0, <1>1, <2>1
    <2> QED BY <2>2, <2>3, <2>4 DEF BeatsInv
  <1>6. ASSUME NEW n \in 1 .. Len(wire), Read(n) PROVE BeatsInv'
    BY <1>0, <1>2, <1>6, ReadIs
  <1>7. CASE Ends
    BY <1>2, <1>7, EndsIs
  <1>8. CASE DecodeFrame
    <2>1. In # <<>> /\ In[1] \in Fr /\ beats' = beats
      BY <1>0, <1>8, DecodeIs
    <2>2. CASE ~Taken
      BY <1>0, <1>2, <1>8, <2>2, DecodeIs
    <2>3. CASE Taken /\ In[1] = Beat
      <3>1. delivered' = Append(delivered, <<Bytes(Beat)>>) /\ In' = Tail(In)
        BY <1>0, <1>8, <2>3, DecodeBeatStep, DecodeIs, BeatFacts
      <3>2. <<Bytes(Beat)>> \in Seq(Piece) /\ IsHeartbeat(<<Bytes(Beat)>>)
        <4>1. Bytes(Beat) \in Piece
          BY BeatFacts, BytesType
        <4> DEFINE P == Piece
        <4> HIDE DEF P
        <4>2. \A y \in P : <<y>> \in Seq(P)
          OBVIOUS
        <4> QED BY <4>1, <4>2, BeatFacts DEF P
      <3>3. Cardinality(BeatsHanded(delivered')) = H + 1
        BY <1>1, <3>1, <3>2
      <3>4. Cardinality(BeatsIn(In')) = B - 1
        BY <1>1, <2>1, <2>3, <3>1
      <3> QED BY <1>0, <1>1, <2>1, <3>3, <3>4 DEF BeatsInv
    <2>4. CASE Taken /\ IsData(sends, In[1])
      <3> DEFINE x == Pieces(Enc(sends, In[1].src))
      <3>1. (delivered' = delivered \/ delivered' = Append(delivered, x)) /\ In' = Tail(In)
        BY <1>0, <1>8, <2>4, DecodeDataStep, DecodeIs
      <3>2. x \in Seq(Piece) /\ ~IsHeartbeat(x)
        <4>1. In[1].src \in DOMAIN sends /\ sends \in Seq(Msgs) /\ In[1].src > 0 /\ In[1].src \in Nat
          BY <1>0, <2>4, DataAt DEF TypesInv
        <4> QED BY <4>1, PiecesFacts
      <3> HIDE DEF x
      <3>3. Cardinality(BeatsHanded(delivered')) = H
        <4>1. Cardinality(BeatsHanded(Append(delivered, x))) = H
          BY <1>1, <3>2
        <4> QED BY <3>1, <4>1
      <3>4. In[1] # Beat
        BY <1>0, <2>4, BeatFacts DEF TypesInv
      <3>5. Cardinality(BeatsIn(In')) = B
        BY <1>1, <2>1, <3>1, <3>4
      <3> QED BY <1>1, <2>1, <3>3, <3>5 DEF BeatsInv
    <2>5. In[1] = Beat \/ IsData(sends, In[1])
      <3>1. 1 \in DOMAIN In
        BY <1>0, <2>1, Tailed
      <3> QED BY <1>0, <3>1 DEF FramesInv
    <2> QED BY <2>2, <2>3, <2>4, <2>5
  <1>9. CASE UNCHANGED vars
    BY <1>2, <1>9 DEF vars, In
  <1> QED BY <1>3, <1>4, <1>5, <1>6, <1>7, <1>8, <1>9 DEF Next, Ends

(* A client loses nothing: once all that was sent was read and decoded,    *)
(* and no message overran frameBuff_, every message of a length            *)
(* encodeFrame handles and every heartbeat has been handed over, whatever  *)
(* unfinished message came before it.                                      *)
THEOREM ClientSwallowsNothing ==
  ASSUME FreshDecoder = FALSE
  PROVE  Spec => []NothingSwallowed
  <1>1. Init => BeatsInv
    <2> SUFFICES ASSUME Init PROVE BeatsInv
      OBVIOUS
    <2>1. BeatsHanded(delivered) = {} /\ BeatsIn(In) = {} /\ beats = 0
      BY DEF Init, In, BeatsHanded, BeatsIn
    <2> QED BY <2>1, FS_EmptySet DEF BeatsInv
  <1>2. StreamInv /\ BeatsInv /\ [Next]_vars => BeatsInv'
    BY BeatsStep
  <1>3. StreamInv /\ BeatsInv => NothingSwallowed
    <2> SUFFICES ASSUME StreamInv, BeatsInv, outbox = <<>>, wire = <<>>, chunk = <<>>
                 PROVE  /\ \A n \in DOMAIN sends : GoodLength(sends[n].len) =>
                             \E d \in Range(delivered) : d[1].src = n
                        /\ Cardinality(DOMAIN delivered \ DataDelivered) = beats
      BY DEF NothingSwallowed
    <2>1. In = <<>>
      BY DEF In
    <2>2. Sent = {} /\ BeatsIn(In) = {}
      BY <2>1 DEF Sent, DataOf, Range, BeatsIn
    <2>3. DOMAIN delivered \ DataDelivered = BeatsHanded(delivered)
      BY DEF DataDelivered, BeatsHanded
    <2>4. Cardinality(BeatsHanded(delivered)) = beats
      <3>1. Cardinality(BeatsHanded(delivered)) \in Nat
        BY CountHanded DEF StreamInv, TypesInv
      <3> QED BY <2>2, <3>1, FS_EmptySet DEF BeatsInv
    <2>5. \A n \in DOMAIN sends : GoodLength(sends[n].len) =>
             \E d \in Range(delivered) : d[1].src = n
      BY <2>2 DEF StreamInv, LastInv
    <2> QED BY <2>3, <2>4, <2>5
  <1> QED BY <1>1, <1>2, <1>3, StreamInvariant, PTL DEF Spec
=============================================================================

---------------------------- MODULE BufferProofs ----------------------------
(***************************************************************************)
(* What Buffer promises a caller that never reads a part of the data and   *)
(* then writes: readPos_ stays at csPrependSize, newSpace always grows,    *)
(* and every byte written comes out in its place.                          *)
(***************************************************************************)
EXTENDS Buffer, SequenceTheorems, TLAPS

(* A buffer of which no part was read. *)
Unread(S, b) ==
  /\ b \in [mem : UNION {[Cells(n) -> S] : n \in Nat}, cap : Nat, size : Nat, r : Nat, w : Nat]
  /\ b.mem \in [Cells(b.cap) -> S]
  /\ b.r = PrependSize /\ b.w \in b.r .. b.cap /\ b.size <= b.cap

-----------------------------------------------------------------------------
(* std::copy into the memory leaves it as large as it was.                 *)
LEMMA CopyToType ==
  ASSUME NEW S, NEW n \in Nat, NEW mem \in [Cells(n) -> S], NEW pos \in Nat,
         NEW data \in Seq(S)
  PROVE  CopyTo(mem, pos, data) \in [Cells(n) -> S]
<1>1. \A i \in Cells(n) : i >= pos /\ i < pos + Len(data) => data[i - pos + 1] \in S
  <2> SUFFICES ASSUME NEW i \in Cells(n), i >= pos, i < pos + Len(data)
               PROVE  data[i - pos + 1] \in S
    OBVIOUS
  <2>1. i - pos + 1 \in 1 .. Len(data)
    BY DEF Cells
  <2> QED  BY <2>1
<1> QED  BY <1>1 DEF CopyTo

(* A cell that std::copy reaches holds its byte of the data.               *)
LEMMA CopyToAt ==
  ASSUME NEW mem, NEW pos, NEW data, NEW i \in DOMAIN mem, i >= pos, i < pos + Len(data)
  PROVE  CopyTo(mem, pos, data)[i] = data[i - pos + 1]
BY DEF CopyTo

(* The bytes that peekRead and readableBytes show.                         *)
LEMMA ContentsType ==
  ASSUME NEW S, NEW b, Unread(S, b)
  PROVE  /\ Contents(b) \in Seq(S)
         /\ Len(Contents(b)) = b.w - PrependSize
         /\ DOMAIN Contents(b) = 1 .. (b.w - PrependSize)
         /\ \A i \in 1 .. (b.w - PrependSize) : Contents(b)[i] = b.mem[PrependSize + i - 1]
<1>1. b.w - b.r \in Nat /\ PrependSize \in Nat /\ b.cap \in Nat /\ b.w \in Nat
  BY DEF Unread
<1>2. \A i \in 1 .. (b.w - b.r) : b.mem[b.r + i - 1] \in S
  <2> SUFFICES ASSUME NEW i \in 1 .. (b.w - b.r) PROVE b.mem[b.r + i - 1] \in S
    OBVIOUS
  <2>1. b.r + i - 1 \in Cells(b.cap)
    BY <1>1 DEF Unread, Cells
  <2>2. b.mem \in [Cells(b.cap) -> S]
    BY DEF Unread
  <2> QED  BY ONLY <2>1, <2>2
<1>3. b.r = PrependSize
  BY DEF Unread
<1> DEFINE n == b.w - b.r
<1>4. Contents(b) = [i \in 1 .. n |-> b.mem[b.r + i - 1]]
  BY DEF Contents, ReadableBytes
<1>5. n \in Nat /\ \A i \in 1 .. n : b.mem[b.r + i - 1] \in S
  BY <1>1, <1>2
<1> HIDE DEF n
<1>6. /\ Contents(b) \in Seq(S) /\ Len(Contents(b)) = n /\ DOMAIN Contents(b) = 1 .. n
      /\ \A i \in 1 .. n : Contents(b)[i] = b.mem[b.r + i - 1]
  BY ONLY <1>4, <1>5
<1> QED  BY ONLY <1>3, <1>6 DEF n

(* newSpace grows, because there is no free space before the data.         *)
LEMMA NeverMoves ==
  ASSUME NEW S, NEW b, Unread(S, b), NEW len \in Nat, WriteableBytes(b) < len
  PROVE  ~Moves(b, len)
BY BufferAssumption DEF Unread, Moves, WriteableBytes

(* The space newSpace makes for len bytes leaves the data as it is.        *)
LEMMA NewSpaceKeeps ==
  ASSUME NEW S, Junk \in S, NEW b, Unread(S, b), NEW len \in Nat, WriteableBytes(b) < len
  PROVE  /\ Unread(S, NewSpace(b, len))
         /\ NewSpace(b, len).w = b.w
         /\ \A i \in PrependSize .. (b.w - 1) : NewSpace(b, len).mem[i] = b.mem[i]
         /\ len <= WriteableBytes(NewSpace(b, len))
<1> DEFINE n == Grown(b, b.w + len)
           data == Contents(b)
           mem == CopyTo(Resized(b, b.w + len), PrependSize, data)
<1>1. /\ PrependSize \in Nat /\ b.w \in Nat /\ b.cap \in Nat /\ b.size \in Nat
      /\ b.r = PrependSize /\ b.r <= b.w /\ b.w <= b.cap /\ b.size <= b.cap
      /\ b.mem \in [Cells(b.cap) -> S]
  BY BufferAssumption DEF Unread
<1>2. n \in Nat /\ n >= b.w + len
  BY <1>1 DEF Grown
<1>3. Resized(b, b.w + len) \in [Cells(n) -> S]
  <2>1. \A i \in Cells(n) : i < b.size => b.mem[i] \in S
    BY <1>1, <1>2 DEF Cells
  <2> QED  BY <2>1 DEF Resized
<1>4. data \in Seq(S) /\ Len(data) = b.w - PrependSize
  BY ContentsType
<1>5. mem \in [Cells(n) -> S]
  BY <1>1, <1>2, <1>3, <1>4, CopyToType
<1>6. \A i \in PrependSize .. (b.w - 1) : mem[i] = b.mem[i]
  <2> SUFFICES ASSUME NEW i \in PrependSize .. (b.w - 1)
               PROVE  mem[i] = b.mem[i]
    OBVIOUS
  <2>1. i \in Cells(n) /\ i >= PrependSize /\ i < PrependSize + Len(data)
    BY <1>1, <1>2, <1>4 DEF Cells
  <2>2. mem[i] = data[i - PrependSize + 1]
    <3>1. i \in DOMAIN Resized(b, b.w + len)
      BY <1>3, <2>1
    <3> QED  BY <2>1, <3>1, CopyToAt
  <2>3. i - PrependSize + 1 \in 1 .. (b.w - PrependSize)
    BY <1>1
  <2>4. data[i - PrependSize + 1] = b.mem[PrependSize + (i - PrependSize + 1) - 1]
    BY <2>3, ContentsType
  <2> QED  BY <1>1, <2>2, <2>4
<1>7. NewSpace(b, len) = [mem |-> mem, cap |-> n, size |-> b.w + len,
                          r |-> PrependSize, w |-> b.w]
  BY <1>1, NeverMoves DEF NewSpace, ReadableBytes
<1> HIDE DEF n, mem
<1>8. Unread(S, NewSpace(b, len))
  BY <1>1, <1>2, <1>5, <1>7 DEF Unread
<1> QED  BY <1>1, <1>2, <1>6, <1>7, <1>8 DEF WriteableBytes

(* ensureWritableBytes leaves the data as it is, and the assertion of      *)
(* write holds after it.                                                   *)
LEMMA EnsureKeeps ==
  ASSUME NEW S, Junk \in S, NEW b, Unread(S, b), NEW len \in Nat
  PROVE  /\ Unread(S, EnsureWritableBytes(b, len))
         /\ EnsureWritableBytes(b, len).w = b.w
         /\ \A i \in PrependSize .. (b.w - 1) : EnsureWritableBytes(b, len).mem[i] = b.mem[i]
         /\ WriteAsserts(b, len)
<1>1. WriteableBytes(b) \in Int
  BY DEF WriteableBytes, Unread
<1>2. CASE WriteableBytes(b) < len
  BY <1>2, NewSpaceKeeps DEF EnsureWritableBytes, WriteAsserts
<1>3. CASE ~(WriteableBytes(b) < len)
  BY <1>1, <1>3 DEF EnsureWritableBytes, WriteAsserts
<1> QED  BY <1>2, <1>3

(* std::copy behind the data, and writePos_ moved over it *)
Appended(b, data) == [b EXCEPT !.mem = CopyTo(b.mem, b.w, data), !.w = b.w + Len(data)]

(* Bytes copied behind the data come out behind it.                        *)
LEMMA CopyAppends ==
  ASSUME NEW S, NEW b, Unread(S, b), NEW data \in Seq(S), b.w + Len(data) <= b.cap
  PROVE  Unread(S, Appended(b, data)) /\ Contents(Appended(b, data)) = Contents(b) \o data
<1> DEFINE c == Appended(b, data)
<1>1. /\ PrependSize \in Nat /\ b.w \in Nat /\ b.cap \in Nat /\ b.size \in Nat
      /\ b.r = PrependSize /\ b.r <= b.w /\ b.w <= b.cap /\ b.size <= b.cap
      /\ b.mem \in [Cells(b.cap) -> S]
      /\ Len(data) \in Nat
  BY BufferAssumption DEF Unread
<1> DEFINE mem == CopyTo(b.mem, b.w, data)
<1>2. mem \in [Cells(b.cap) -> S]
  BY <1>1, CopyToType
<1> DEFINE M == UNION {[Cells(n) -> S] : n \in Nat}
<1>3. mem \in M /\ b \in [mem : M, cap : Nat, size : Nat, r : Nat, w : Nat]
  BY <1>1, <1>2 DEF Unread
<1> HIDE DEF mem, M
<1>8. /\ c.mem = mem /\ c.w = b.w + Len(data) /\ c.cap = b.cap /\ c.r = b.r
      /\ c.size = b.size
      /\ c \in [mem : M, cap : Nat, size : Nat, r : Nat, w : Nat]
  <2> DEFINE W == b.w + Len(data)
  <2>1. c = [b EXCEPT !.mem = mem, !.w = W] /\ W \in Nat
    BY <1>1 DEF mem, Appended
  <2> HIDE DEF W, c
  <2>2. c \in [mem : M, cap : Nat, size : Nat, r : Nat, w : Nat]
    BY <1>3, <2>1
  <2>3. c.mem = mem /\ c.w = W /\ c.cap = b.cap /\ c.r = b.r /\ c.size = b.size
    BY <1>3, <2>1
  <2> QED  BY <2>2, <2>3 DEF W
<1> HIDE DEF c
<1>9. /\ Contents(b) \in Seq(S) /\ Len(Contents(b)) = b.w - PrependSize
      /\ \A i \in 1 .. (b.w - PrependSize) : Contents(b)[i] = b.mem[PrependSize + i - 1]
  BY ContentsType
<1>4. Unread(S, c)
  BY <1>1, <1>2, <1>8 DEF Unread, M
<1>5. \A i \in 1 .. (c.w - PrependSize) : Contents(c)[i] = (Contents(b) \o data)[i]
  <2> SUFFICES ASSUME NEW i \in 1 .. (c.w - PrependSize)
               PROVE  Contents(c)[i] = (Contents(b) \o data)[i]
    OBVIOUS
  <2>1. Contents(c)[i] = mem[PrependSize + i - 1]
    <3>1. \A k \in 1 .. (c.w - PrependSize) : Contents(c)[k] = c.mem[PrependSize + k - 1]
      BY <1>4, ContentsType
    <3> QED  BY <1>8, <3>1
  <2>2. /\ i \in Nat /\ 1 <= i /\ i <= b.w + Len(data) - PrependSize
        /\ PrependSize + i - 1 \in Cells(b.cap)
    BY <1>1, <1>8 DEF Cells
  <2>3. CASE i <= b.w - PrependSize
    <3>1. mem[PrependSize + i - 1] = b.mem[PrependSize + i - 1]
      BY <1>1, <2>2, <2>3 DEF mem, CopyTo
    <3>2. i \in 1 .. (b.w - PrependSize)
      BY <1>1, <2>3
    <3>3. (Contents(b) \o data)[i] = Contents(b)[i]
      BY <1>9, <3>2
    <3> QED  BY <1>9, <2>1, <3>1, <3>2, <3>3
  <2>4. CASE ~(i <= b.w - PrependSize)
    <3>1. mem[PrependSize + i - 1] = data[PrependSize + i - 1 - b.w + 1]
      <4>1. PrependSize + i - 1 >= b.w /\ PrependSize + i - 1 < b.w + Len(data)
        BY <1>1, <2>2, <2>4
      <4> DEFINE k == PrependSize + i - 1
      <4>2. k \in DOMAIN b.mem /\ k \in Int /\ k >= b.w /\ k < b.w + Len(data)
        BY <1>1, <2>2, <4>1 DEF Cells
      <4> HIDE DEF k
      <4>3. mem[k] = data[k - b.w + 1]
        BY <1>1, <4>2, CopyToAt DEF mem
      <4> QED  BY <1>1, <2>2, <4>3 DEF k
    <3>2. PrependSize + i - 1 - b.w + 1 = i - (b.w - PrependSize)
      BY <1>1
    <3>3. (Contents(b) \o data)[i] = data[i - (b.w - PrependSize)]
      <4>1. \A k \in 1 .. Len(Contents(b)) + Len(data) : (Contents(b) \o data)[k] =
               IF k <= Len(Contents(b)) THEN Contents(b)[k] ELSE data[k - Len(Contents(b))]
        BY <1>9, ConcatProperties
      <4>2. i \in 1 .. (b.w - PrependSize) + Len(data)
        BY <1>1, <2>2
      <4> QED  BY <1>9, <2>4, <4>1, <4>2
    <3> QED  BY <2>1, <3>1, <3>2, <3>3
  <2> QED  BY <2>3, <2>4
<1>6. Contents(b) \o data \in Seq(S) /\ Len(Contents(b) \o data) = c.w - PrependSize
  <2>1. Contents(b) \o data \in Seq(S) /\ Len(Contents(b) \o data) = Len(Contents(b)) + Len(data)
    BY <1>9, ConcatProperties
  <2> QED  BY <1>1, <1>8, <1>9, <2>1
<1>7. Contents(c) \in Seq(S) /\ Len(Contents(c)) = c.w - PrependSize
  BY <1>4, ContentsType
<1>10. Contents(c) = Contents(b) \o data
  BY <1>5, <1>6, <1>7, SeqEqual
<1> QED  BY <1>4, <1>10 DEF c

(* A buffer as its constructor leaves it is empty.                         *)
LEMMA NewIsUnread ==
  ASSUME NEW S, Junk \in S
  PROVE  Unread(S, NewBuffer) /\ NewBuffer.w = PrependSize
<1>1. PrependSize + InitialSize \in Nat /\ PrependSize \in Nat /\ InitialSize \in Nat
  BY BufferAssumption
<1>2. [i \in Cells(PrependSize + InitialSize) |-> Junk] \in [Cells(PrependSize + InitialSize) -> S]
  OBVIOUS
<1> QED  BY <1>1, <1>2 DEF NewBuffer, Unread

(* reset and readAll leave an empty buffer.                                *)
LEMMA EmptiedIsUnread ==
  ASSUME NEW S, NEW b, Unread(S, b)
  PROVE  /\ Unread(S, Reset(b)) /\ Reset(b).w = PrependSize
         /\ Unread(S, ReadAll(b)) /\ ReadAll(b).w = PrependSize
<1> DEFINE M == UNION {[Cells(n) -> S] : n \in Nat}
           T == [mem : M, cap : Nat, size : Nat, r : Nat, w : Nat]
<1>1. /\ PrependSize \in Nat /\ b.cap \in Nat /\ b.size \in Nat /\ b.w \in Nat
      /\ b.r = PrependSize /\ b.r <= b.w /\ b.w <= b.cap /\ b.size <= b.cap
      /\ b.mem \in [Cells(b.cap) -> S] /\ b \in T
  BY BufferAssumption DEF Unread
<1>2. ReadAll(b) = [b EXCEPT !.r = PrependSize, !.w = PrependSize]
  BY <1>1 DEF ReadAll, Retrieve, ReadableBytes
<1> HIDE DEF M
<1>3. Reset(b) \in T /\ ReadAll(b) \in T
  BY <1>1, <1>2 DEF Reset
<1>4. /\ Reset(b).mem = b.mem /\ Reset(b).cap = b.cap /\ Reset(b).size = 0
      /\ Reset(b).r = PrependSize /\ Reset(b).w = PrependSize
  BY <1>1 DEF Reset
<1>5. /\ ReadAll(b).mem = b.mem /\ ReadAll(b).cap = b.cap /\ ReadAll(b).size = b.size
      /\ ReadAll(b).r = PrependSize /\ ReadAll(b).w = PrependSize
  BY <1>1, <1>2
<1> QED  BY <1>1, <1>3, <1>4, <1>5 DEF Unread, M

-----------------------------------------------------------------------------
(* write appends the bytes it is given and its assertion holds, whatever   *)
(* the sizes, as long as no part of the data was read before.              *)
THEOREM WriteAppends ==
  ASSUME NEW S, Junk \in S, NEW b, Unread(S, b), NEW data \in Seq(S)
  PROVE  /\ Unread(S, Write(b, data))
         /\ Contents(Write(b, data)) = Contents(b) \o data
         /\ WriteAsserts(b, Len(data))
<1> DEFINE e == EnsureWritableBytes(b, Len(data))
<1>1. Len(data) \in Nat /\ PrependSize \in Nat
  BY BufferAssumption
<1>2. /\ Unread(S, e) /\ e.w = b.w /\ WriteAsserts(b, Len(data))
      /\ \A i \in PrependSize .. (b.w - 1) : e.mem[i] = b.mem[i]
  BY <1>1, EnsureKeeps
<1>3. e.w \in Nat /\ e.cap \in Nat /\ e.w + Len(data) <= e.cap /\ PrependSize <= e.w
  <2>1. e.w \in Nat /\ e.cap \in Nat /\ PrependSize <= e.w
    BY <1>1, <1>2 DEF Unread
  <2>2. Len(data) <= e.cap - e.w
    BY <1>2 DEF WriteAsserts, WriteableBytes
  <2> QED  BY <1>1, <2>1, <2>2
<1>4. Write(b, data) = Appended(e, data)
  BY DEF Write, Appended
<1> HIDE DEF e
<1>5. Unread(S, Write(b, data)) /\ Contents(Write(b, data)) = Contents(e) \o data
  BY <1>2, <1>3, <1>4, CopyAppends
<1>6. Contents(e) = Contents(b)
  <2>1. /\ Contents(e) \in Seq(S) /\ Len(Contents(e)) = e.w - PrependSize
        /\ \A i \in 1 .. (e.w - PrependSize) : Contents(e)[i] = e.mem[PrependSize + i - 1]
    BY <1>2, ContentsType
  <2>2. /\ Contents(b) \in Seq(S) /\ Len(Contents(b)) = b.w - PrependSize
        /\ \A i \in 1 .. (b.w - PrependSize) : Contents(b)[i] = b.mem[PrependSize + i - 1]
    BY ContentsType
  <2>3. \A i \in 1 .. (b.w - PrependSize) : Contents(e)[i] = Contents(b)[i]
    <3> SUFFICES ASSUME NEW i \in 1 .. (b.w - PrependSize)
                 PROVE  Contents(e)[i] = Contents(b)[i]
      OBVIOUS
    <3>1. PrependSize + i - 1 \in PrependSize .. (b.w - 1)
      BY <1>1, <1>2, <1>3
    <3> QED  BY <1>2, <2>1, <2>2, <3>1
  <2> QED  BY <1>2, <2>1, <2>2, <2>3, SeqEqual
<1> QED  BY <1>2, <1>5, <1>6

(* readfd appends what readv took, however much of it went to morebuf.     *)
THEOREM ReadFdAppends ==
  ASSUME NEW S, Junk \in S, NEW b, Unread(S, b), NEW data \in Seq(S)
  PROVE  /\ Unread(S, ReadFd(b, data))
         /\ Contents(ReadFd(b, data)) = Contents(b) \o data
<1> DEFINE writelen == WriteableBytes(b)
           mem == CopyTo(b.mem, b.w, data)
           direct == [b EXCEPT !.mem = mem]
           M == UNION {[Cells(n) -> S] : n \in Nat}
<1>1. /\ Len(data) \in Nat /\ PrependSize \in Nat /\ b.w \in Nat /\ b.cap \in Nat
      /\ b.w <= b.cap /\ b.mem \in [Cells(b.cap) -> S]
  BY BufferAssumption DEF Unread
<1>2. writelen \in Nat /\ b.w + writelen = b.cap
  BY <1>1 DEF WriteableBytes
<1>3. b \in [mem : M, cap : Nat, size : Nat, r : Nat, w : Nat]
  BY DEF Unread
<1> HIDE DEF writelen, M
<1>4. CASE Len(data) <= writelen
  <2>1. ReadFd(b, data) = [direct EXCEPT !.w = b.w + Len(data)]
    BY <1>4 DEF ReadFd, writelen
  <2>2. ReadFd(b, data) = Appended(b, data)
    BY <1>3, <2>1 DEF Appended
  <2>3. b.w + Len(data) <= b.cap
    BY <1>1, <1>2, <1>4
  <2> QED  BY <2>2, <2>3, CopyAppends
<1>5. CASE ~(Len(data) <= writelen)
  <2> DEFINE head == SubSeq(data, 1, writelen)
             tail == SubSeq(data, writelen + 1, Len(data))
             full == [direct EXCEPT !.w = b.w + writelen]
  <2>1. /\ head \in Seq(S) /\ Len(head) = writelen
        /\ \A i \in 1 .. writelen : head[i] = data[i]
    BY <1>1, <1>2, <1>5
  <2>2. tail \in Seq(S)
    BY <1>1, <1>2, <1>5
  <2>3. head \o tail = data
    <3>1. 1 \in 1 .. Len(data) + 1 /\ writelen \in 1 - 1 .. Len(data) /\ Len(data) \in writelen .. Len(data)
      BY <1>1, <1>2, <1>5
    <3>2. head \o tail = SubSeq(data, 1, Len(data))
      BY <3>1, ConcatAdjacentSubSeq
    <3>3. SubSeq(data, 1, Len(data)) = data
      BY SubSeqFull
    <3> QED  BY <3>2, <3>3
  <2>4. mem = CopyTo(b.mem, b.w, head)
    <3> SUFFICES ASSUME NEW i \in Cells(b.cap)
                 PROVE  (IF i >= b.w /\ i < b.w + Len(data)
                         THEN data[i - b.w + 1] ELSE b.mem[i])
                        = IF i >= b.w /\ i < b.w + Len(head)
                          THEN head[i - b.w + 1] ELSE b.mem[i]
      BY <1>1 DEF CopyTo
    <3>1. CASE i >= b.w
      <4>1. i - b.w + 1 \in 1 .. writelen
        BY <1>1, <1>2, <3>1 DEF Cells
      <4>2. i < b.w + Len(data) /\ i < b.w + Len(head)
        BY <1>1, <1>2, <1>5, <2>1 DEF Cells
      <4> QED  BY <2>1, <4>1, <4>2
    <3>2. CASE ~(i >= b.w)
      BY <3>2
    <3> QED  BY <3>1, <3>2
  <2> HIDE DEF head, tail
  <2>5. full = Appended(b, head)
    BY <1>3, <2>1, <2>4 DEF Appended
  <2>6. Unread(S, full) /\ Contents(full) = Contents(b) \o head
    <3>1. b.w + Len(head) <= b.cap
      BY <1>1, <1>2, <2>1
    <3> HIDE DEF full
    <3> QED  BY <2>1, <2>5, <3>1, CopyAppends
  <2>7. ReadFd(b, data) = Write(full, tail)
    BY <1>5 DEF ReadFd, writelen, tail
  <2> HIDE DEF full
  <2>8. Unread(S, ReadFd(b, data)) /\ Contents(ReadFd(b, data)) = (Contents(b) \o head) \o tail
    BY <2>2, <2>6, <2>7, WriteAppends
  <2>9. Contents(b) \in Seq(S)
    BY ContentsType
  <2>10. (Contents(b) \o head) \o tail = Contents(b) \o (head \o tail)
    BY <2>1, <2>2, <2>9, ConcatAssociative
  <2> QED  BY <2>3, <2>8, <2>10
<1> QED  BY <1>4, <1>5
=============================================================================

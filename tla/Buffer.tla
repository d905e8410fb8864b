------------------------------- MODULE Buffer -------------------------------
(***************************************************************************)
(* base/Buffer.h and Buffer.cpp: a queue of bytes in one vector, with a    *)
(* read and a write position.  A buffer is a record                        *)
(*   mem    the vector's memory, of which capacity() cells exist           *)
(*   cap    capacity()                                                     *)
(*   size   size(): what the vector itself knows to be in use, which the   *)
(*          code ignores, as it writes behind it                           *)
(*   r, w   readPos_, writePos_                                            *)
(* and every method is an operator that returns the buffer after it.       *)
(***************************************************************************)
EXTENDS Integers, Sequences

CONSTANTS PrependSize,  \* csPrependSize
          InitialSize,  \* csInitialSize
          MaxBufSize,   \* csMaxBufSize of readfd
          Junk          \* a cell no byte of the stream was put into

ASSUME BufferAssumption ==
  PrependSize \in Nat /\ InitialSize \in Nat /\ MaxBufSize \in Nat \ {0}

Cells(n) == 0 .. (n - 1)

(* reserve: memory, but a size of 0 *)
NewBuffer == [mem |-> [i \in Cells(PrependSize + InitialSize) |-> Junk],
              cap |-> PrependSize + InitialSize, size |-> 0,
              r |-> PrependSize, w |-> PrependSize]

ReadableBytes(b) == b.w - b.r
WriteableBytes(b) == b.cap - b.w

(* What peekRead and readableBytes show. *)
Contents(b) == [i \in 1 .. ReadableBytes(b) |-> b.mem[b.r + i - 1]]

(* std::copy(data, data + len, begin() + pos) *)
CopyTo(mem, pos, data) ==
  [i \in DOMAIN mem |-> IF i >= pos /\ i < pos + Len(data)
                        THEN data[i - pos + 1] ELSE mem[i]]

Retrieve(b, len) ==
  IF len < ReadableBytes(b) THEN [b EXCEPT !.r = b.r + len]
  ELSE [b EXCEPT !.r = PrependSize, !.w = PrependSize]

(* readAll: Contents, and then *)
ReadAll(b) == Retrieve(b, ReadableBytes(b))

Reset(b) == [b EXCEPT !.r = PrependSize, !.w = PrependSize, !.size = 0]

(* buffer_.resize(n) for n > capacity(): new memory, of twice the old size *)
(* or n cells, into which only the old size() cells are taken over.        *)
Grown(b, n) == IF 2 * b.size > n THEN 2 * b.size ELSE n

Resized(b, n) ==
  [i \in Cells(Grown(b, n)) |-> IF i < b.size THEN b.mem[i] ELSE Junk]

(* newSpace moves the data instead of growing if there is room before it.  *)
Moves(b, len) == WriteableBytes(b) + b.r >= len + PrependSize

(* newSpace.  The data that is moved is copied to PrependSize, but readPos_*)
(* is set to 0.                                                            *)
NewSpace(b, len) ==
  IF Moves(b, len)
  THEN [b EXCEPT !.mem = CopyTo(b.mem, PrependSize, Contents(b)),
                 !.r = 0, !.w = ReadableBytes(b)]
  ELSE [mem |-> CopyTo(Resized(b, b.w + len), PrependSize, Contents(b)),
        cap |-> Grown(b, b.w + len), size |-> b.w + len,
        r |-> PrependSize, w |-> PrependSize + ReadableBytes(b)]

EnsureWritableBytes(b, len) ==
  IF WriteableBytes(b) < len THEN NewSpace(b, len) ELSE b

(* assert(len <= writeableBytes()), in write *)
WriteAsserts(b, len) == len <= WriteableBytes(EnsureWritableBytes(b, len))

Write(b, data) ==
  LET e == EnsureWritableBytes(b, Len(data))
  IN  [e EXCEPT !.mem = CopyTo(e.mem, e.w, data), !.w = e.w + Len(data)]

(* What one readv can take: the writeable bytes, and morebuf if they are   *)
(* fewer than its size.                                                    *)
Room(b) == WriteableBytes(b) + (IF WriteableBytes(b) < MaxBufSize THEN MaxBufSize ELSE 0)

(* Mutant: writePos_ = buffer_.size(), as the code had it before. *)
ReadFdSize(b, data) ==
  LET writelen == WriteableBytes(b)
      direct == [b EXCEPT !.mem = CopyTo(b.mem, b.w, data)]
  IN  IF Len(data) <= writelen THEN [direct EXCEPT !.w = b.w + Len(data)]
      ELSE Write([direct EXCEPT !.w = b.size], SubSeq(data, writelen + 1, Len(data)))

(* readfd, when readv takes data: what does not fit behind writePos_ goes  *)
(* to morebuf and is then written.                                         *)
ReadFd(b, data) ==
  LET writelen == WriteableBytes(b)
      direct == [b EXCEPT !.mem = CopyTo(b.mem, b.w, data)]
  IN  IF Len(data) <= writelen THEN [direct EXCEPT !.w = b.w + Len(data)]
      ELSE Write([direct EXCEPT !.w = b.w + writelen],
                 SubSeq(data, writelen + 1, Len(data)))

-----------------------------------------------------------------------------
IsBuffer(b) ==
  /\ b.cap \in Nat /\ b.size \in 0 .. b.cap
  /\ b.r \in Nat /\ b.w \in b.r .. b.cap
  /\ DOMAIN b.mem = Cells(b.cap)
=============================================================================

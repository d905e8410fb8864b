------------------------ MODULE NetConnectionProofs ------------------------
(***************************************************************************)
(* For any number of messages, of any length, and any sizes of the         *)
(* buffers: the message callback is handed what the peer sent; the layer   *)
(* above hears of a connection in order; what goes out is whole messages   *)
(* in the order they were sent; event_ is not used after a close that only *)
(* the peer asked for.                                                     *)
(***************************************************************************)
EXTENDS NetConnection, BufferProofs

(* What may be in a cell of a buffer: units read, and units of messages.   *)
Cell == {Junk} \cup Int \cup (Int \X Int)

(* Between two events the read buffer is empty, and nothing was read from  *)
(* the write buffer, so that both only ever grow.                          *)
BuffersInv ==
  /\ Unread(Cell, readBuffer) /\ readBuffer.w = PrependSize
  /\ Unread(Cell, writeBuffer)

(* What was handed over is what the peer sent, but for what is still in    *)
(* the socket, until a reset takes that away.                              *)
StreamInv ==
  /\ inbox \in Nat /\ received \in Nat /\ handed \in Seq(Int)
  /\ handed = [k \in 1 .. Len(handed) |-> k]
  /\ peer = "open" \/ inbox > 0 => Len(handed) = received - inbox

Functors == [f : {"connEstablished", "sendInReactor", "handleClose", "shutdownInReactor"},
             m : Nat]
QueueInv == tasks \in Seq(Functors) /\ sent \in Nat

ReadInv == BuffersInv /\ StreamInv /\ QueueInv

-----------------------------------------------------------------------------
(* The constructor establishes the invariant.                              *)
LEMMA InitRead == Init => ReadInv
<1> SUFFICES ASSUME Init PROVE ReadInv
  OBVIOUS
<1>1. BuffersInv
  <2>1. Junk \in Cell
    BY DEF Cell
  <2> QED  BY <2>1, NewIsUnread DEF Init, BuffersInv
<1>2. StreamInv
  BY DEF Init, StreamInv
<1>3. QueueInv
  <2>1. Task("connEstablished", 0) \in Functors
    BY DEF Task, Functors
  <2> QED  BY <2>1 DEF Init, QueueInv
<1> QED  BY <1>1, <1>2, <1>3 DEF ReadInv

(* A part of a message is a sequence of cells.                             *)
LEMMA UnitsType ==
  ASSUME NEW m \in Int, NEW a \in Int, NEW b \in Int, a <= b + 1
  PROVE  Units(m, a, b) \in Seq(Cell)
<1>1. \A k \in 1 .. (b + 1 - a) : <<m, a + k - 1>> \in Cell
  BY DEF Cell
<1>2. b + 1 - a \in Nat
  OBVIOUS
<1> QED  BY <1>1, <1>2 DEF Units

(* A message, or the rest of one, is appended to the write buffer.         *)
LEMMA WriteMessageKeeps ==
  ASSUME BuffersInv, NEW m \in Int, WriteMessage(m)
  PROVE  Unread(Cell, writeBuffer')
<1>1. CASE UNCHANGED writeBuffer
  BY <1>1 DEF BuffersInv
<1>2. CASE \E n \in 1 .. Size - 1 : writeBuffer' = Write(writeBuffer, Units(m, n + 1, Size))
  <2>1. PICK n \in 1 .. Size - 1 : writeBuffer' = Write(writeBuffer, Units(m, n + 1, Size))
    BY <1>2
  <2>2. Units(m, n + 1, Size) \in Seq(Cell)
    BY SizeAssumption, UnitsType
  <2>3. Junk \in Cell
    BY DEF Cell
  <2> QED  BY <2>1, <2>2, <2>3, WriteAppends DEF BuffersInv
<1> QED  BY <1>1, <1>2 DEF WriteMessage

(* One read: the buffer is emptied, filled and emptied again.              *)
LEMMA FillKeeps ==
  ASSUME ReadInv, inbox > 0, FillReadBuffer
  PROVE  /\ Unread(Cell, readBuffer') /\ readBuffer'.w = PrependSize
         /\ inbox' \in Nat /\ handed' \in Seq(Int)
         /\ handed' = [k \in 1 .. Len(handed') |-> k]
         /\ Len(handed') = received - inbox'
<1> DEFINE empty == Reset(readBuffer)
           n == IF inbox < Room(empty) THEN inbox ELSE Room(empty)
           data == Available(Room(empty))
           full == ReadFd(empty, data)
<1>1. inbox \in Nat /\ received \in Nat /\ Len(handed) = received - inbox /\ handed \in Seq(Int)
  BY DEF ReadInv, StreamInv
<1>2. Unread(Cell, empty) /\ empty.w = PrependSize
  BY EmptiedIsUnread DEF ReadInv, BuffersInv
<1>3. n \in Nat /\ n <= inbox
  <2>1. Room(empty) \in Nat
    BY <1>2, BufferAssumption DEF Room, WriteableBytes, Unread
  <2> QED  BY <1>1, <2>1
<1>4. data = [k \in 1 .. n |-> received - inbox + k]
  BY DEF Available
<1> HIDE DEF n
<1>5. data \in Seq(Cell) /\ data \in Seq(Int) /\ Len(data) = n
  BY <1>1, <1>3, <1>4 DEF Cell
<1> HIDE DEF empty, data
<1>6. Junk \in Cell
  BY DEF Cell
<1>7. Unread(Cell, full) /\ Contents(full) = Contents(empty) \o data
  BY <1>2, <1>5, <1>6, ReadFdAppends
<1>8. Contents(empty) = <<>>
  <2>1. Contents(empty) \in Seq(Cell) /\ Len(Contents(empty)) = 0
    BY <1>2, ContentsType, BufferAssumption
  <2> QED  BY <2>1, EmptySeq
<1>9. Contents(full) = data
  BY <1>5, <1>7, <1>8, ConcatEmptySeq
<1>10. handed' = handed \o data /\ inbox' = inbox - n /\ readBuffer' = ReadAll(full)
  BY <1>5, <1>9 DEF FillReadBuffer, empty, data
<1> HIDE DEF full
<1>11. Unread(Cell, readBuffer') /\ readBuffer'.w = PrependSize
  BY <1>7, <1>10, EmptiedIsUnread
<1>12. /\ handed \o data \in Seq(Int) /\ Len(handed \o data) = Len(handed) + n
       /\ \A i \in 1 .. Len(handed) + n : (handed \o data)[i] =
            IF i <= Len(handed) THEN handed[i] ELSE data[i - Len(handed)]
  BY <1>1, <1>5, ConcatProperties
<1>13. \A i \in 1 .. Len(handed) + n : (handed \o data)[i] = i
  <2> SUFFICES ASSUME NEW i \in 1 .. Len(handed) + n
               PROVE  (handed \o data)[i] = i
    OBVIOUS
  <2>1. CASE i <= Len(handed)
    <3>1. handed[i] = i
      BY <1>1, <2>1 DEF ReadInv, StreamInv
    <3> QED  BY <1>12, <2>1, <3>1
  <2>2. CASE ~(i <= Len(handed))
    <3>1. i - Len(handed) \in 1 .. n
      BY <1>1, <1>3, <2>2
    <3>2. data[i - Len(handed)] = received - inbox + (i - Len(handed))
      BY <1>4, <3>1
    <3> QED  BY <1>1, <1>12, <2>2, <3>2
  <2> QED  BY <2>1, <2>2
<1>14. handed' = [k \in 1 .. Len(handed') |-> k]
  <2> DEFINE L == Len(handed) + n
             s == [k \in 1 .. L |-> k]
  <2>1. L \in Nat
    BY <1>1, <1>3
  <2>2. s \in Seq(Int) /\ Len(s) = L /\ \A i \in 1 .. L : s[i] = i
    BY <2>1
  <2>3. handed' \in Seq(Int) /\ Len(handed') = L /\ \A i \in 1 .. L : handed'[i] = i
    BY <1>10, <1>12, <1>13
  <2> HIDE DEF s
  <2>4. handed' = s
    BY <2>2, <2>3, SeqEqual
  <2> QED  BY <2>3, <2>4 DEF s
<1> QED  BY <1>1, <1>3, <1>10, <1>11, <1>12, <1>14

(* A read of a socket that has data takes some of it.                      *)
LEMMA FillTakes ==
  ASSUME ReadInv, inbox > 0, FillReadBuffer
  PROVE  inbox' < inbox
<1> DEFINE room == Room(Reset(readBuffer))
<1>1. room \in Nat \ {0}
  <2>1. Unread(Cell, Reset(readBuffer)) /\ Reset(readBuffer).w = PrependSize
    BY EmptiedIsUnread DEF ReadInv, BuffersInv
  <2> QED  BY <2>1, BufferAssumption DEF Room, WriteableBytes, Unread
<1> HIDE DEF room
<1>2. inbox \in Nat /\ received \in Nat
  BY DEF ReadInv, StreamInv
<1> DEFINE n == IF inbox < room THEN inbox ELSE room
<1>3. n \in Nat \ {0}
  BY <1>1, <1>2
<1>4. Available(room) = [k \in 1 .. n |-> received - inbox + k]
  BY DEF Available
<1> HIDE DEF n
<1>5. Len(Available(room)) = n
  BY <1>3, <1>4
<1> QED  BY <1>2, <1>3, <1>5 DEF FillReadBuffer, room

-----------------------------------------------------------------------------
(* The functor at the head of the queue.                                   *)
LEMMA TaskType == ASSUME QueueInv, tasks # <<>>
                  PROVE  Head(tasks).m \in Int /\ Tail(tasks) \in Seq(Functors)
<1>1. Head(tasks) \in Functors /\ Tail(tasks) \in Seq(Functors)
  BY HeadTailProperties DEF QueueInv
<1> QED  BY <1>1 DEF Functors

(* A functor run by the loop writes to the write buffer at most.           *)
LEMMA RunTaskKeeps == ReadInv /\ RunTask => ReadInv'
<1> SUFFICES ASSUME ReadInv, RunTask PROVE ReadInv'
  OBVIOUS
<1>1. QueueInv'
  BY TaskType DEF ReadInv, QueueInv, RunTask, userVars
<1>2. StreamInv'
  BY DEF ReadInv, StreamInv, RunTask, readVars, peerVars
<1>3. Unread(Cell, writeBuffer')
  <2>1. CASE UNCHANGED writeBuffer
    BY <2>1 DEF ReadInv, BuffersInv
  <2>2. CASE WriteMessage(Head(tasks).m)
    BY <2>2, TaskType, WriteMessageKeeps DEF ReadInv, RunTask
  <2> QED  BY <2>1, <2>2 DEF RunTask, ConnEstablished, SendInReactor, ShutdownInReactor, loopVars
<1> QED  BY <1>1, <1>2, <1>3 DEF ReadInv, BuffersInv, RunTask, readVars

(* handleRead with data, and a reply of the callback.                      *)
LEMMA ReadDataKeeps == ReadInv /\ ReadData => ReadInv'
<1> SUFFICES ASSUME ReadInv, ReadData PROVE ReadInv'
  OBVIOUS
<1>1. /\ Unread(Cell, readBuffer') /\ readBuffer'.w = PrependSize
      /\ inbox' \in Nat /\ handed' \in Seq(Int)
      /\ handed' = [k \in 1 .. Len(handed') |-> k]
      /\ Len(handed') = received - inbox'
  BY FillKeeps DEF ReadData
<1>2. Unread(Cell, writeBuffer')
  <2>1. CASE UNCHANGED writeBuffer
    BY <2>1 DEF ReadInv, BuffersInv
  <2>2. CASE WriteMessage(MaxMsgs + Len(handed'))
    <3>1. MaxMsgs + Len(handed') \in Int
      BY <1>1, SizeAssumption
    <3> QED  BY <2>2, <3>1, WriteMessageKeeps DEF ReadInv
  <2> QED  BY <2>1, <2>2 DEF ReadData
<1>3. UNCHANGED <<received, peer, sent, tasks>>
  BY DEF ReadData, userVars
<1> QED  BY <1>1, <1>2, <1>3 DEF ReadInv, BuffersInv, StreamInv, QueueInv

(* An end of stream or an error leaves the read buffer empty; after the    *)
(* error nothing more is read.                                             *)
LEMMA ReadEndKeeps == ReadInv /\ (ReadEof \/ ReadError) => ReadInv'
<1> SUFFICES ASSUME ReadInv, ReadEof \/ ReadError PROVE ReadInv'
  OBVIOUS
<1>1. readBuffer' = Reset(readBuffer) /\ UNCHANGED <<writeBuffer, tasks, sent, received, handed>>
  BY DEF ReadEof, ReadError, loopVars, peerVars, userVars
<1>2. BuffersInv'
  <2>1. Unread(Cell, Reset(readBuffer)) /\ Reset(readBuffer).w = PrependSize
    BY EmptiedIsUnread DEF ReadInv, BuffersInv
  <2> QED  BY <1>1, <2>1 DEF ReadInv, BuffersInv
<1>3. StreamInv'
  BY <1>1 DEF ReadInv, StreamInv, ReadEof, ReadError, peerVars
<1> QED  BY <1>1, <1>2, <1>3 DEF ReadInv, QueueInv

(* The peer appends to the stream, or ends it.                             *)
LEMMA PeerKeeps == ReadInv /\ (PeerSend \/ PeerClose) => ReadInv'
<1> SUFFICES ASSUME ReadInv, PeerSend \/ PeerClose PROVE ReadInv'
  OBVIOUS
<1>1. UNCHANGED <<readBuffer, writeBuffer, tasks, sent, handed>>
  BY DEF PeerSend, PeerClose, loopVars, readVars, userVars
<1>2. StreamInv'
  BY <1>1, SizeAssumption DEF ReadInv, StreamInv, PeerSend, PeerClose
<1> QED  BY <1>1, <1>2 DEF ReadInv, BuffersInv, QueueInv

(* send, shutdown and forceClose only queue functors.                      *)
LEMMA CallsKeep == ReadInv /\ (UserStep \/ TimerStep) => ReadInv'
<1> SUFFICES ASSUME ReadInv, UserStep \/ TimerStep PROVE ReadInv'
  OBVIOUS
<1>1. UNCHANGED <<readBuffer, writeBuffer, handed, peer, inbox, received>>
  BY DEF UserStep, Send, SendQueue, Shutdown, ShutdownQueue, TimerStep, ForceClose, ForceCloseSet,
         ForceCloseQueue, loopVars, readVars, peerVars
<1>2. QueueInv'
  <2>1. sent' \in Nat
    BY DEF ReadInv, QueueInv, UserStep, Send, SendQueue, Shutdown, ShutdownQueue, TimerStep,
           ForceClose, ForceCloseSet, ForceCloseQueue, userVars
  <2>2. \/ UNCHANGED tasks
        \/ \E t \in Functors : tasks' = Append(tasks, t)
    BY DEF ReadInv, QueueInv, Functors, Task, UserStep, Send, SendQueue, Shutdown, ShutdownQueue,
           TimerStep, ForceClose, ForceCloseSet, ForceCloseQueue
  <2> QED  BY <2>1, <2>2 DEF ReadInv, QueueInv
<1> QED  BY <1>1, <1>2 DEF ReadInv, BuffersInv, StreamInv

(* POLLOUT calls handleError, which changes nothing.                       *)
LEMMA WritableKeeps == ReadInv /\ WritableEvent => ReadInv'
<1> SUFFICES ASSUME ReadInv, WritableEvent PROVE ReadInv'
  OBVIOUS
<1>1. UNCHANGED <<readBuffer, writeBuffer, handed, peer, inbox, received, tasks, sent>>
  BY DEF WritableEvent, WriteCallback, loopVars, readVars, peerVars, userVars
<1> QED  BY <1>1 DEF ReadInv, BuffersInv, StreamInv, QueueInv

(* Every step keeps the invariant.                                         *)
LEMMA StepRead == ReadInv /\ [Next]_vars => ReadInv'
<1> SUFFICES ASSUME ReadInv, [Next]_vars PROVE ReadInv'
  OBVIOUS
<1>1. CASE LoopStep
  BY <1>1, RunTaskKeeps, ReadDataKeeps, ReadEndKeeps, WritableKeeps DEF LoopStep
<1>2. CASE UserStep \/ TimerStep
  BY <1>2, CallsKeep
<1>3. CASE PeerSend \/ PeerClose
  BY <1>3, PeerKeeps
<1>4. CASE UNCHANGED vars
  BY <1>4 DEF vars, loopVars, readVars, peerVars, userVars, ReadInv, BuffersInv, StreamInv, QueueInv
<1> QED  BY <1>1, <1>2, <1>3, <1>4 DEF Next

(* The invariant implies the property.                                     *)
LEMMA ReadInvMeansIntact == ReadInv => ReadIntact
<1> SUFFICES ASSUME ReadInv PROVE ReadIntact
  OBVIOUS
<1>1. Junk \in Cell
  BY DEF Cell
<1>2. \A n \in 0 .. MaxIn : WriteAsserts(readBuffer, n) /\ WriteAsserts(writeBuffer, n)
  BY <1>1, SizeAssumption, EnsureKeeps DEF ReadInv, BuffersInv
<1> QED  BY <1>2 DEF ReadIntact, ReadInv, StreamInv

(* What the message callback is handed is what the peer sent, in order,    *)
(* and no assertion of Buffer::write fails, for any number and length of   *)
(* messages and any sizes of the buffers.                                  *)
THEOREM ReadsIntact == Spec => []ReadIntact
<1>1. Spec => []ReadInv
  BY InitRead, StepRead, PTL DEF Spec
<1> QED  BY <1>1, ReadInvMeansIntact, PTL

-----------------------------------------------------------------------------
(* The life of a connection.                                               *)

IsSend(t) == t.f = "sendInReactor"

(* Until connEstablished has run nothing else was queued or called.        *)
FreshInv ==
  /\ upcalls = <<>> =>
       /\ tasks = <<Task("connEstablished", 0)>>
       /\ state = "eDisconnected" /\ event /\ ~reading /\ crash = "no"
       /\ user = "idle" /\ killer = "idle" /\ sent = 0
  /\ upcalls # <<>> => \A i \in DOMAIN tasks : tasks[i].f # "connEstablished"

(* "disconnected" goes with event_, and so does the state eConnected.      *)
UpInv ==
  /\ upcalls \in Seq({"connected", "message", "disconnected"})
  /\ UpcallProtocol
  /\ event => \A i \in DOMAIN upcalls : upcalls[i] # "disconnected"
  /\ state \in {"eConnected", "eDisconnected"}
  /\ state = "eConnected" => event

(* A functor that uses event_ without looking at state_ comes from a call. *)
CloserInv ==
  /\ user = "shutdown" => shutdowns
  /\ \A i \in DOMAIN tasks :
       /\ tasks[i].f = "handleClose" => killer # "idle"
       /\ tasks[i].f = "shutdownInReactor" => shutdowns
  /\ NullOnlyAfterLocalClose

LifeInv == FreshInv /\ UpInv /\ CloserInv

(* A functor taken from the queue: the others move up.                     *)
LEMMA Popped ==
  ASSUME NEW q \in Seq(Functors), q # <<>>
  PROVE  /\ 1 \in DOMAIN q /\ Head(q) = q[1] /\ q[1] \in Functors
         /\ \A i \in DOMAIN Tail(q) : i + 1 \in DOMAIN q /\ Tail(q)[i] = q[i + 1]
         /\ \A j \in DOMAIN q \ {1} : j - 1 \in DOMAIN Tail(q)
<1>1. /\ Len(q) \in Nat /\ Len(q) > 0 /\ DOMAIN q = 1 .. Len(q)
      /\ Tail(q) \in Seq(Functors) /\ Len(Tail(q)) = Len(q) - 1
      /\ \A i \in 1 .. Len(Tail(q)) : Tail(q)[i] = q[i + 1]
  BY EmptySeq, HeadTailProperties, LenProperties
<1> QED  BY <1>1, HeadTailProperties, ElementOfSeq

(* A functor added to the queue comes behind the others.                   *)
LEMMA Pushed ==
  ASSUME NEW S, NEW q \in Seq(S), NEW t \in S
  PROVE  /\ Append(q, t) # <<>> /\ Append(q, t) \in Seq(S)
         /\ Len(Append(q, t)) = Len(q) + 1 /\ Len(q) \in Nat
         /\ DOMAIN Append(q, t) = DOMAIN q \cup {Len(q) + 1}
         /\ DOMAIN q = 1 .. Len(q)
         /\ Append(q, t)[Len(q) + 1] = t
         /\ \A i \in DOMAIN q : Append(q, t)[i] = q[i]
<1>1. /\ Append(q, t) # <<>> /\ Append(q, t) \in Seq(S)
      /\ Len(Append(q, t)) = Len(q) + 1
      /\ Append(q, t)[Len(q) + 1] = t
      /\ \A i \in 1 .. Len(q) : Append(q, t)[i] = q[i]
  BY AppendProperties
<1>2. DOMAIN Append(q, t) = 1 .. Len(q) + 1 /\ DOMAIN q = 1 .. Len(q) /\ Len(q) \in Nat
  BY <1>1, LenProperties
<1> QED  BY <1>1, <1>2

(* A callback while event_ is there keeps the protocol, if "connected" is  *)
(* the first one and event_ goes with "disconnected".                      *)
LEMMA UpcallKeeps ==
  ASSUME UpInv, event, NEW u \in {"connected", "message", "disconnected"},
         upcalls' = Append(upcalls, u), u = "connected" <=> upcalls = <<>>,
         u = "disconnected" => ~event'
  PROVE  /\ upcalls' # <<>> /\ upcalls' \in Seq({"connected", "message", "disconnected"})
         /\ UpcallProtocol'
         /\ event' => \A i \in DOMAIN upcalls' : upcalls'[i] # "disconnected"
<1> DEFINE S == {"connected", "message", "disconnected"}
           n == Len(upcalls)
<1>1. /\ upcalls' # <<>> /\ upcalls' \in Seq(S) /\ Len(upcalls') = n + 1 /\ n \in Nat
      /\ DOMAIN upcalls' = DOMAIN upcalls \cup {n + 1} /\ DOMAIN upcalls = 1 .. n
      /\ upcalls'[n + 1] = u
      /\ \A i \in DOMAIN upcalls : upcalls'[i] = upcalls[i]
  BY Pushed DEF UpInv
<1>2. upcalls = <<>> <=> n = 0
  BY EmptySeq DEF UpInv
<1>3. \A i \in DOMAIN upcalls : upcalls[i] # "disconnected" /\ (upcalls[i] = "connected" <=> i = 1)
  BY DEF UpInv, UpcallProtocol
<1> HIDE DEF n
<1>4. ASSUME NEW i \in DOMAIN upcalls'
      PROVE  /\ upcalls'[i] = "connected" <=> i = 1
             /\ upcalls'[i] = "disconnected" => i = n + 1 /\ ~event'
  <2>1. CASE i \in DOMAIN upcalls
    BY <1>1, <1>3, <2>1
  <2>2. CASE i = n + 1
    BY <1>1, <1>2, <2>2
  <2> QED  BY <1>1, <2>1, <2>2
<1>5. UpcallProtocol'
  <2>1. \A i \in DOMAIN upcalls' : (upcalls'[i] = "connected") = (i = 1)
    BY <1>4
  <2>2. \A i \in DOMAIN upcalls' : upcalls'[i] = "disconnected" => i = Len(upcalls')
    BY <1>1, <1>4
  <2> QED  BY <2>1, <2>2 DEF UpcallProtocol
<1> QED  BY <1>1, <1>4, <1>5

(* The constructor.                                                        *)
LEMMA InitLife == Init => LifeInv
<1> SUFFICES ASSUME Init PROVE LifeInv
  OBVIOUS
<1>1. FreshInv
  BY DEF Init, FreshInv
<1>2. UpInv
  BY DEF Init, UpInv, UpcallProtocol
<1>3. CloserInv
  BY DEF Init, CloserInv, NullOnlyAfterLocalClose, Task
<1> QED  BY <1>1, <1>2, <1>3 DEF LifeInv

(* A functor run by the loop.                                              *)
LEMMA RunTaskLife == QueueInv /\ LifeInv /\ RunTask => LifeInv'
<1> SUFFICES ASSUME QueueInv, LifeInv, RunTask PROVE LifeInv'
  OBVIOUS
<1> DEFINE t == Head(tasks)
<1>1. /\ tasks \in Seq(Functors) /\ tasks # <<>> /\ tasks' = Tail(tasks) /\ crash = "no"
      /\ UNCHANGED <<user, sent, shutdowns, killer>>
  BY DEF QueueInv, RunTask, userVars
<1>2. /\ 1 \in DOMAIN tasks /\ t = tasks[1]
      /\ \A i \in DOMAIN tasks' : i + 1 \in DOMAIN tasks /\ tasks'[i] = tasks[i + 1]
  BY <1>1, Popped
<1> HIDE DEF t
<1>3. CASE t.f = "connEstablished" /\ ConnEstablished
  <2>1. upcalls = <<>>
    BY <1>2, <1>3 DEF LifeInv, FreshInv
  <2>2. /\ tasks = <<Task("connEstablished", 0)>> /\ event /\ user = "idle" /\ killer = "idle"
    BY <2>1 DEF LifeInv, FreshInv
  <2>3. tasks' = <<>>
    BY <1>1, <2>2
  <2>4. event' /\ state' = "eConnected" /\ crash' = crash /\ upcalls' = Append(upcalls, "connected")
    BY <1>3, <2>2 DEF ConnEstablished
  <2>5. UpInv' /\ upcalls' # <<>>
    BY <2>1, <2>2, <2>4, UpcallKeeps DEF LifeInv, UpInv
  <2>6. FreshInv'
    BY <2>3, <2>5 DEF FreshInv
  <2>7. CloserInv'
    BY <1>1, <2>2, <2>3, <2>4 DEF CloserInv, NullOnlyAfterLocalClose
  <2> QED  BY <2>5, <2>6, <2>7 DEF LifeInv
<1>4. ASSUME upcalls # <<>>, upcalls' # <<>>
      PROVE  FreshInv'
  BY <1>2, <1>4 DEF FreshInv, LifeInv
<1>5. ASSUME upcalls = <<>>
      PROVE  t.f = "connEstablished"
  BY <1>2, <1>5 DEF FreshInv, LifeInv, Task
<1>6. ASSUME crash' = "null" => killer # "idle" \/ shutdowns
      PROVE  CloserInv'
  BY <1>1, <1>2, <1>6 DEF CloserInv, NullOnlyAfterLocalClose, LifeInv
<1>7. CASE t.f = "sendInReactor" /\ SendInReactor(t.m)
  <2>1. UNCHANGED <<state, event, upcalls, crash>>
    BY <1>7 DEF SendInReactor, loopVars, LifeInv, UpInv
  <2>2. upcalls # <<>> /\ upcalls' # <<>>
    BY <1>5, <1>7, <2>1
  <2>3. UpInv'
    BY <2>1 DEF LifeInv, UpInv, UpcallProtocol
  <2> QED  BY <1>1, <1>4, <1>6, <2>1, <2>2, <2>3 DEF LifeInv
<1>8. CASE t.f = "handleClose" /\ HandleClose
  <2>1. upcalls # <<>>
    BY <1>5, <1>8
  <2>2. killer # "idle"
    BY <1>2, <1>8 DEF LifeInv, CloserInv
  <2>3. CASE event
    <3>1. state' = "eDisconnected" /\ ~event' /\ upcalls' = Append(upcalls, "disconnected")
      BY <1>8, <2>3 DEF HandleClose
    <3>2. UpInv' /\ upcalls' # <<>>
      BY <2>1, <2>3, <3>1, UpcallKeeps DEF LifeInv, UpInv
    <3> QED  BY <1>4, <1>6, <2>1, <2>2, <3>2 DEF LifeInv
  <2>4. CASE ~event
    <3>1. UNCHANGED <<state, event, upcalls>>
      BY <1>8, <2>4 DEF HandleClose
    <3>2. UpInv'
      BY <3>1 DEF LifeInv, UpInv, UpcallProtocol
    <3> QED  BY <1>4, <1>6, <2>1, <2>2, <3>1, <3>2 DEF LifeInv
  <2> QED  BY <2>3, <2>4
<1>9. CASE t.f = "shutdownInReactor" /\ ShutdownInReactor
  <2>1. UNCHANGED <<state, event, upcalls>>
    BY <1>9 DEF ShutdownInReactor
  <2>2. upcalls # <<>> /\ shutdowns
    BY <1>2, <1>5, <1>9 DEF LifeInv, CloserInv
  <2>3. UpInv'
    BY <2>1 DEF LifeInv, UpInv, UpcallProtocol
  <2> QED  BY <1>4, <1>6, <2>1, <2>2, <2>3 DEF LifeInv
<1> QED  BY <1>3, <1>7, <1>8, <1>9 DEF RunTask, t

(* A socket event.                                                         *)
LEMMA EventLife ==
  QueueInv /\ LifeInv /\ (ReadData \/ ReadEof \/ ReadError \/ WritableEvent) => LifeInv'
<1> SUFFICES ASSUME QueueInv, LifeInv, ReadData \/ ReadEof \/ ReadError \/ WritableEvent
             PROVE  LifeInv'
  OBVIOUS
<1>1. UNCHANGED <<tasks, user, sent, shutdowns, killer>> /\ event /\ crash = "no"
  BY DEF ReadData, ReadEof, ReadError, WritableEvent, userVars
<1>2. CASE ReadData \/ ReadEof
  <2>1. /\ upcalls # <<>>
        /\ \/ upcalls' = Append(upcalls, "message") /\ UNCHANGED <<event, state, crash>>
           \/ upcalls' = Append(upcalls, "disconnected") /\ ~event' /\ state' = "eDisconnected"
              /\ crash' # "null"
    <3>1. reading
      BY <1>2 DEF ReadData, ReadEof
    <3> QED  BY <1>2, <3>1 DEF ReadData, ReadEof, LifeInv, FreshInv
  <2>2. UpInv' /\ upcalls' # <<>>
    BY <1>1, <2>1, UpcallKeeps DEF LifeInv, UpInv
  <2>3. FreshInv'
    BY <1>1, <2>1, <2>2 DEF LifeInv, FreshInv
  <2>4. CloserInv'
    BY <1>1, <2>1 DEF LifeInv, CloserInv, NullOnlyAfterLocalClose
  <2> QED  BY <2>2, <2>3, <2>4 DEF LifeInv
<1>3. CASE ReadError \/ WritableEvent
  <2>1. UNCHANGED <<state, event, reading, upcalls, crash>>
    BY <1>3 DEF ReadError, WritableEvent, WriteCallback, loopVars
  <2> QED  BY <1>1, <2>1 DEF LifeInv, FreshInv, UpInv, UpcallProtocol, CloserInv,
                             NullOnlyAfterLocalClose
<1> QED  BY <1>2, <1>3

(* Another thread queues a functor.                                        *)
LEMMA QueueLife ==
  ASSUME QueueInv, LifeInv, NEW t \in Functors, tasks' = Append(tasks, t),
         user # "idle" \/ killer # "idle", t.f # "connEstablished",
         user' # "shutdown" \/ UNCHANGED user,
         t.f = "handleClose" => killer # "idle", t.f = "shutdownInReactor" => shutdowns,
         killer # "idle" => killer' # "idle",
         UNCHANGED <<state, event, reading, upcalls, crash, shutdowns>>
  PROVE  LifeInv'
<1>1. /\ DOMAIN tasks' = DOMAIN tasks \cup {Len(tasks) + 1}
      /\ tasks'[Len(tasks) + 1] = t
      /\ \A i \in DOMAIN tasks : tasks'[i] = tasks[i]
  BY Pushed DEF QueueInv
<1>2. upcalls # <<>>
  BY DEF LifeInv, FreshInv
<1>3. FreshInv'
  BY <1>1, <1>2 DEF LifeInv, FreshInv
<1>4. UpInv'
  BY DEF LifeInv, UpInv, UpcallProtocol
<1>5. CloserInv'
  BY <1>1 DEF LifeInv, CloserInv, NullOnlyAfterLocalClose
<1> QED  BY <1>3, <1>4, <1>5 DEF LifeInv

(* send, shutdown and forceClose.                                          *)
LEMMA CallLife == QueueInv /\ LifeInv /\ (UserStep \/ TimerStep) => LifeInv'
<1> SUFFICES ASSUME QueueInv, LifeInv, UserStep \/ TimerStep PROVE LifeInv'
  OBVIOUS
<1>1. \A f \in {"sendInReactor", "handleClose", "shutdownInReactor"}, m \in Nat :
        Task(f, m) \in Functors /\ Task(f, m).f = f
  BY DEF Task, Functors
<1>2. CASE SendQueue
  BY <1>1, <1>2, QueueLife DEF SendQueue, loopVars, QueueInv
<1>3. CASE ShutdownQueue
  <2>1. shutdowns
    BY <1>3 DEF ShutdownQueue, LifeInv, CloserInv
  <2> QED  BY <1>1, <1>3, <2>1, QueueLife DEF ShutdownQueue, loopVars
<1>4. CASE ForceCloseQueue
  BY <1>1, <1>4, QueueLife DEF ForceCloseQueue, loopVars, userVars
<1>5. CASE Send \/ Shutdown \/ ForceClose \/ ForceCloseSet
  <2>1. upcalls # <<>>
    BY <1>5 DEF Send, Shutdown, ForceClose, ForceCloseSet, LifeInv, FreshInv
  <2>2. UNCHANGED <<tasks, upcalls, event, reading, crash>>
    BY <1>5 DEF Send, Shutdown, ForceClose, ForceCloseSet, loopVars
  <2>3. FreshInv'
    BY <2>1, <2>2 DEF LifeInv, FreshInv
  <2>4. UpInv'
    BY <1>5, <2>2 DEF Send, Shutdown, ForceClose, ForceCloseSet, loopVars, LifeInv, UpInv,
                      UpcallProtocol
  <2>5. CloserInv'
    BY <1>5, <2>2 DEF Send, Shutdown, ForceClose, ForceCloseSet, userVars, LifeInv, CloserInv,
                      NullOnlyAfterLocalClose
  <2> QED  BY <2>3, <2>4, <2>5 DEF LifeInv
<1> QED  BY <1>2, <1>3, <1>4, <1>5 DEF UserStep, TimerStep

(* Every step keeps the invariant of a connection's life.                  *)
LEMMA StepLife == QueueInv /\ LifeInv /\ [Next]_vars => LifeInv'
<1> SUFFICES ASSUME QueueInv, LifeInv, [Next]_vars PROVE LifeInv'
  OBVIOUS
<1>1. CASE LoopStep
  BY <1>1, RunTaskLife, EventLife DEF LoopStep
<1>2. CASE UserStep \/ TimerStep
  BY <1>2, CallLife
<1>3. CASE PeerSend \/ PeerClose \/ UNCHANGED vars
  <2>1. UNCHANGED <<tasks, state, event, reading, upcalls, crash, user, sent, shutdowns, killer>>
    BY <1>3 DEF PeerSend, PeerClose, vars, loopVars, userVars
  <2> QED  BY <2>1 DEF LifeInv, FreshInv, UpInv, UpcallProtocol, CloserInv,
                       NullOnlyAfterLocalClose
<1> QED  BY <1>1, <1>2, <1>3 DEF Next

(* The invariant of the reading and of the life.                           *)
LEMMA Lives == Spec => [](ReadInv /\ LifeInv)
<1>1. ReadInv /\ LifeInv /\ [Next]_vars => (ReadInv /\ LifeInv)'
  BY StepRead, StepLife DEF ReadInv
<1> QED  BY InitRead, InitLife, <1>1, PTL DEF Spec

(* The layer above hears "connected" once and first, and nothing after a   *)
(* "disconnected", however the peer, send, shutdown and forceClose fall    *)
(* together.                                                               *)
THEOREM UpcallsInOrder == Spec => []UpcallProtocol
<1>1. ReadInv /\ LifeInv => UpcallProtocol
  BY DEF LifeInv, UpInv
<1> QED  BY <1>1, Lives, PTL

(* event_ is never used as NULL on a connection that was not closed or     *)
(* shut down from this side.                                               *)
THEOREM PeerCloseIsSafe == Spec => []NullOnlyAfterLocalClose
<1>1. ReadInv /\ LifeInv => NullOnlyAfterLocalClose
  BY DEF LifeInv, CloserInv
<1> QED  BY <1>1, Lives, PTL

-----------------------------------------------------------------------------
(* What goes out.                                                          *)

(* The functors of send() are queued in the order of the calls, and none   *)
(* of their messages is out yet.                                           *)
OrderInv ==
  /\ sent \in 0 .. MaxMsgs /\ (user = "send" => sent > 0)
  /\ \A i \in DOMAIN tasks : IsSend(tasks[i]) =>
       tasks[i].m \in 1 .. sent /\ (user = "send" => tasks[i].m < sent)
  /\ \A i, j \in DOMAIN tasks : i < j /\ IsSend(tasks[i]) /\ IsSend(tasks[j]) =>
       tasks[i].m < tasks[j].m
  /\ \A k \in DOMAIN Out : Out[k][1] <= MaxMsgs =>
       /\ Out[k][1] <= sent /\ (user = "send" => Out[k][1] < sent)
       /\ \A i \in DOMAIN tasks : IsSend(tasks[i]) => Out[k][1] < tasks[i].m

(* The units that are out are whole messages in the order of the calls.    *)
OutInv == Out \in Seq(Int \X Int) /\ WholeMessages

(* Until a write is cut short nothing is buffered, and a message is on the *)
(* wire, in the queue, or with the user thread about to queue it.          *)
SentInv ==
  /\ wire \in Seq(Int \X Int)
  /\ ~stalled => ReadableBytes(writeBuffer) = 0
  /\ ~stalled /\ state = "eConnected" =>
       \A m \in 1 .. sent : \/ <<m, Size>> \in Range(wire)
                            \/ \E i \in DOMAIN tasks : IsSend(tasks[i]) /\ tasks[i].m = m
                            \/ user = "send" /\ m = sent

SendInv == OrderInv /\ OutInv /\ SentInv

(* The first n units of a message, and the units behind them.              *)
LEMMA FirstUnits ==
  ASSUME NEW m \in Int, NEW n \in Nat
  PROVE  /\ Units(m, 1, n) \in Seq(Int \X Int) /\ Len(Units(m, 1, n)) = n
         /\ \A k \in 1 .. n : Units(m, 1, n)[k] = <<m, k>>
<1>1. n + 1 - 1 = n /\ \A k \in 1 .. n : 1 + k - 1 = k
  OBVIOUS
<1>2. Units(m, 1, n) = [k \in 1 .. n |-> <<m, k>>]
  BY <1>1 DEF Units
<1>3. \A k \in 1 .. n : <<m, k>> \in Int \X Int
  OBVIOUS
<1> QED  BY <1>2, <1>3

LEMMA RestUnits ==
  ASSUME NEW m \in Int, NEW n \in 1 .. Size
  PROVE  /\ Units(m, n + 1, Size) \in Seq(Int \X Int) /\ Len(Units(m, n + 1, Size)) = Size - n
         /\ \A k \in 1 .. Size - n : Units(m, n + 1, Size)[k] = <<m, n + k>>
<1>1. /\ Size + 1 - (n + 1) = Size - n /\ Size - n \in Nat
      /\ \A k \in 1 .. Size - n : (n + 1) + k - 1 = n + k
  BY SizeAssumption
<1>2. Units(m, n + 1, Size) = [k \in 1 .. Size - n |-> <<m, n + k>>]
  BY <1>1 DEF Units
<1>3. \A k \in 1 .. Size - n : <<m, n + k>> \in Int \X Int
  BY SizeAssumption
<1> QED  BY <1>1, <1>2, <1>3

(* A message cut in two is the message.                                    *)
LEMMA Joined ==
  ASSUME NEW m \in Int, NEW n \in 1 .. Size - 1
  PROVE  Units(m, 1, n) \o Units(m, n + 1, Size) = Units(m, 1, Size)
<1> DEFINE u == Units(m, 1, n)
           v == Units(m, n + 1, Size)
           w == Units(m, 1, Size)
<1>1. Size \in Nat /\ n \in Nat /\ n < Size /\ n \in 1 .. Size
  BY SizeAssumption
<1>2. /\ u \in Seq(Int \X Int) /\ Len(u) = n /\ \A k \in 1 .. n : u[k] = <<m, k>>
      /\ v \in Seq(Int \X Int) /\ Len(v) = Size - n
      /\ \A k \in 1 .. Size - n : v[k] = <<m, n + k>>
      /\ w \in Seq(Int \X Int) /\ Len(w) = Size /\ \A k \in 1 .. Size : w[k] = <<m, k>>
  <2>1. u \in Seq(Int \X Int) /\ Len(u) = n /\ \A k \in 1 .. n : u[k] = <<m, k>>
    BY <1>1, FirstUnits
  <2>2. v \in Seq(Int \X Int) /\ Len(v) = Size - n /\ \A k \in 1 .. Size - n : v[k] = <<m, n + k>>
    BY <1>1, RestUnits
  <2>3. w \in Seq(Int \X Int) /\ Len(w) = Size /\ \A k \in 1 .. Size : w[k] = <<m, k>>
    BY <1>1, FirstUnits
  <2> QED  BY <2>1, <2>2, <2>3
<1> HIDE DEF u, v, w
<1>3. /\ u \o v \in Seq(Int \X Int) /\ Len(u \o v) = Size
      /\ \A i \in 1 .. Size : (u \o v)[i] = IF i <= n THEN u[i] ELSE v[i - n]
  <2>1. /\ u \o v \in Seq(Int \X Int) /\ Len(u \o v) = Len(u) + Len(v)
        /\ \A i \in 1 .. Len(u) + Len(v) : (u \o v)[i] =
             IF i <= Len(u) THEN u[i] ELSE v[i - Len(u)]
    BY <1>2, ConcatProperties
  <2>2. Len(u) + Len(v) = Size
    BY <1>1, <1>2
  <2> QED  BY <1>2, <2>1, <2>2
<1>4. \A i \in 1 .. Size : (u \o v)[i] = w[i]
  <2> SUFFICES ASSUME NEW i \in 1 .. Size PROVE (u \o v)[i] = w[i]
    OBVIOUS
  <2>1. CASE i <= n
    <3>1. i \in 1 .. n /\ i \in 1 .. Size
      BY <1>1, <2>1
    <3>2. u[i] = <<m, i>> /\ w[i] = <<m, i>>
      BY <1>2, <3>1
    <3>3. (u \o v)[i] = u[i]
      BY <1>3, <2>1, <3>1
    <3> QED  BY <3>2, <3>3
  <2>2. CASE ~(i <= n)
    <3>1. i - n \in 1 .. Size - n /\ n + (i - n) = i
      BY <1>1, <2>2
    <3>2. v[i - n] = <<m, n + (i - n)>>
      BY <1>2, <3>1
    <3> QED  BY <1>1, <1>2, <1>3, <2>2, <3>1, <3>2
  <2> QED  BY <2>1, <2>2
<1>5. u \o v = w
  BY <1>1, <1>2, <1>3, <1>4, SeqEqual
<1> QED  BY <1>5 DEF u, v, w

(* sendInReactor appends the whole message to what is out, or nothing; and *)
(* as long as no write is cut short it appends to the wire.                *)
LEMMA WriteMessageOut ==
  ASSUME BuffersInv, wire \in Seq(Int \X Int), NEW m \in Int, WriteMessage(m)
  PROVE  /\ wire' \in Seq(Int \X Int)
         /\ Out' = Out \/ Out' = Out \o Units(m, 1, Size)
         /\ ~stalled' => ~stalled
         /\ ~stalled' /\ ReadableBytes(writeBuffer) = 0 =>
              UNCHANGED writeBuffer /\ wire' = wire \o Units(m, 1, Size)
<1>1. CASE UNCHANGED <<wire, writeBuffer, stalled>> /\ ReadableBytes(writeBuffer) > 0
  BY <1>1 DEF Out
<1>2. ASSUME ReadableBytes(writeBuffer) = 0, NEW n \in 0 .. Size,
             wire' = wire \o Units(m, 1, n),
             writeBuffer' = IF n \in 1 .. Size - 1
                            THEN Write(writeBuffer, Units(m, n + 1, Size)) ELSE writeBuffer,
             stalled' = (stalled \/ n < Size)
      PROVE  /\ wire' \in Seq(Int \X Int)
             /\ Out' = Out \/ Out' = Out \o Units(m, 1, Size)
             /\ ~stalled' => ~stalled
             /\ ~stalled' => UNCHANGED writeBuffer /\ wire' = wire \o Units(m, 1, Size)
  <2>1. Size \in Nat \ {0} /\ n \in Nat /\ n <= Size
    BY SizeAssumption, <1>2
  <2>2. Units(m, 1, n) \in Seq(Int \X Int) /\ Len(Units(m, 1, n)) = n
    BY <2>1, FirstUnits
  <2>3. wire' \in Seq(Int \X Int)
    BY <1>2, <2>2, ConcatProperties
  <2>4. Contents(writeBuffer) = <<>>
    <3>1. Contents(writeBuffer) \in Seq(Cell) /\ Len(Contents(writeBuffer)) = 0
      BY <1>2, ContentsType DEF BuffersInv, ReadableBytes, Unread
    <3> QED  BY <3>1, EmptySeq
  <2>5. Out = wire
    BY <2>4, ConcatEmptySeq DEF Out
  <2>6. CASE n = 0
    <3>1. Units(m, 1, n) = <<>>
      BY <2>2, <2>6, EmptySeq
    <3>2. wire' = wire /\ writeBuffer' = writeBuffer
      BY <1>2, <2>1, <2>6, <3>1, ConcatEmptySeq
    <3>3. stalled'
      <4>1. n < Size
        BY <2>1, <2>6
      <4> QED  BY <1>2, <4>1, Zenon
    <3> QED  BY <2>3, <3>2, <3>3 DEF Out
  <2>7. CASE n = Size
    <3>1. writeBuffer' = writeBuffer
      BY <1>2, <2>1, <2>7
    <3>2. Out' = wire'
      BY <2>3, <2>4, <3>1, ConcatEmptySeq DEF Out
    <3>3. ~stalled' => ~stalled
      BY <1>2
    <3> QED  BY <1>2, <2>3, <2>5, <2>7, <3>1, <3>2, <3>3
  <2>8. CASE n \in 1 .. Size - 1
    <3> DEFINE rest == Units(m, n + 1, Size)
    <3>1. rest \in Seq(Cell) /\ rest \in Seq(Int \X Int)
      <4>1. n \in 1 .. Size /\ n + 1 \in Int /\ Size \in Int /\ n + 1 <= Size + 1
        BY <2>1, <2>8
      <4> QED  BY <4>1, UnitsType, RestUnits
    <3>2. Junk \in Cell /\ Unread(Cell, writeBuffer)
      BY DEF Cell, BuffersInv
    <3>3. writeBuffer' = Write(writeBuffer, rest)
      BY <1>2, <2>8
    <3> HIDE DEF rest
    <3>4. Contents(writeBuffer') = Contents(writeBuffer) \o rest
      BY <3>1, <3>2, <3>3, WriteAppends
    <3>5. Contents(writeBuffer') = rest
      BY <2>4, <3>1, <3>4, ConcatEmptySeq
    <3>6. Out' = (wire \o Units(m, 1, n)) \o rest
      BY <1>2, <3>5 DEF Out
    <3>7. Out' = wire \o (Units(m, 1, n) \o rest)
      <4> DEFINE first == Units(m, 1, n)
                 P == Int \X Int
      <4>1. first \in Seq(P) /\ wire \in Seq(P) /\ rest \in Seq(P)
        BY <2>2, <3>1
      <4> HIDE DEF first, P
      <4>2. (wire \o first) \o rest = wire \o (first \o rest)
        BY ONLY <4>1
      <4> QED  BY <3>6, <4>2 DEF first
    <3>8. Out' = Out \o Units(m, 1, Size)
      BY <2>5, <2>8, <3>7, Joined DEF rest
    <3>9. stalled'
      <4>1. n < Size
        BY <2>1, <2>8
      <4> QED  BY <1>2, <4>1, Zenon
    <3> QED  BY <2>3, <3>8, <3>9
  <2>9. n = 0 \/ n = Size \/ n \in 1 .. Size - 1
    BY <2>1
  <2> QED  BY <2>6, <2>7, <2>8, <2>9
<1>3. \A n \in Written(m) : n \in 0 .. Size
  BY SizeAssumption DEF Written
<1>4. ReadableBytes(writeBuffer) \in Nat
  BY DEF BuffersInv, Unread, ReadableBytes
<1> QED  BY <1>1, <1>2, <1>3, <1>4 DEF WriteMessage

(* A whole message behind whole messages.                                  *)
LEMMA WholeAppend ==
  ASSUME NEW out \in Seq(Int \X Int), NEW m \in Int, Whole(out)
  PROVE  Whole(out \o Units(m, 1, Size))
<1> DEFINE u == Units(m, 1, Size)
           new == out \o u
           n == Len(out)
<1>1. Size \in Nat \ {0}
  BY SizeAssumption
<1>2. /\ u \in Seq(Int \X Int) /\ Len(u) = Size
      /\ \A k \in 1 .. Size : u[k] = <<m, k>>
  BY <1>1, FirstUnits
<1>3. n \in Nat
  BY LenProperties
<1> HIDE DEF u, n
<1>4. /\ new \in Seq(Int \X Int) /\ Len(new) = n + Size
      /\ \A i \in 1 .. n + Size : new[i] = IF i <= n THEN out[i] ELSE u[i - n]
  BY <1>2, ConcatProperties DEF n
<1> HIDE DEF new
<1>5. \A i \in 1 .. n : new[i] = out[i]
  <2> SUFFICES ASSUME NEW i \in 1 .. n PROVE new[i] = out[i]
    OBVIOUS
  <2>1. i \in 1 .. n + Size /\ i <= n
    BY <1>1, <1>3
  <2> QED  BY ONLY <1>4, <2>1
<1>6. \A k \in 1 .. Size : new[n + k] = <<m, k>>
  <2> SUFFICES ASSUME NEW k \in 1 .. Size PROVE new[n + k] = <<m, k>>
    OBVIOUS
  <2>1. n + k \in 1 .. n + Size /\ ~(n + k <= n) /\ (n + k) - n = k
    BY <1>1, <1>3
  <2> QED  BY <1>2, <1>4, <2>1
<1>7. new[1][2] = 1
  <2>1. CASE n = 0
    <3>1. new[n + 1] = <<m, 1>>
      BY <1>1, <1>6
    <3> QED  BY <2>1, <3>1
  <2>2. CASE n > 0
    <3>1. out[1][2] = 1
      BY <2>2, EmptySeq DEF Whole, n
    <3> QED  BY <1>3, <1>5, <2>2, <3>1
  <2> QED  BY <1>3, <2>1, <2>2
<1>8. new[Len(new)][2] = Size
  BY <1>1, <1>4, <1>6
<1>9. ASSUME NEW i \in 1 .. Len(new) - 1
      PROVE  IF new[i][2] = Size THEN new[i + 1][2] = 1
             ELSE new[i + 1] = <<new[i][1], new[i][2] + 1>>
  <2>1. i \in 1 .. n + Size - 1
    BY <1>1, <1>3, <1>4, <1>9
  <2>2. CASE i < n
    <3>1. i \in 1 .. Len(out) - 1 /\ i \in 1 .. n /\ i + 1 \in 1 .. n
      BY <1>1, <1>3, <2>1, <2>2 DEF n
    <3>2. IF out[i][2] = Size THEN out[i + 1][2] = 1
          ELSE out[i + 1] = <<out[i][1], out[i][2] + 1>>
      BY <3>1 DEF Whole
    <3>3. new[i] = out[i] /\ new[i + 1] = out[i + 1]
      BY <1>5, <3>1
    <3> QED  BY <3>2, <3>3
  <2>3. CASE i = n
    <3>1. out[n][2] = Size
      BY <1>3, <2>1, <2>3, EmptySeq DEF Whole, n
    <3>2. new[n] = out[n] /\ new[n + 1] = <<m, 1>>
      BY <1>1, <1>3, <1>5, <1>6, <2>1, <2>3
    <3> QED  BY <2>3, <3>1, <3>2
  <2>4. CASE i > n
    <3>1. i - n \in 1 .. Size /\ i - n + 1 \in 1 .. Size /\ i - n # Size
      BY <1>1, <1>3, <2>1, <2>4
    <3>2. new[n + (i - n)] = <<m, i - n>> /\ new[n + (i - n + 1)] = <<m, i - n + 1>>
      BY <1>6, <3>1
    <3>3. n + (i - n) = i /\ n + (i - n + 1) = i + 1
      BY <1>3, <2>1
    <3> QED  BY <3>1, <3>2, <3>3
  <2> QED  BY <1>1, <1>3, <2>1, <2>2, <2>3, <2>4
<1>10. Whole(new)
  BY <1>7, <1>8, <1>9 DEF Whole
<1> QED  BY <1>10 DEF new, u

(* What a message appended adds to what is out.                            *)
LEMMA OutGrows ==
  ASSUME OutInv, NEW m \in Int, Out' = Out \o Units(m, 1, Size),
         m <= MaxMsgs => \A k \in DOMAIN Out : Out[k][1] <= MaxMsgs => Out[k][1] < m
  PROVE  /\ OutInv'
         /\ \A k \in DOMAIN Out' : Out'[k][1] = m \/ \E l \in DOMAIN Out : Out'[k] = Out[l]
<1> DEFINE u == Units(m, 1, Size)
           n == Len(Out)
<1>1. Size \in Nat \ {0}
  BY SizeAssumption
<1>2. u \in Seq(Int \X Int) /\ Len(u) = Size /\ \A k \in 1 .. Size : u[k] = <<m, k>>
  BY <1>1, FirstUnits
<1>3. Out \in Seq(Int \X Int) /\ n \in Nat /\ DOMAIN Out = 1 .. n
  BY LenProperties DEF OutInv
<1>4. Out' = Out \o u
  OBVIOUS
<1> HIDE DEF u, n
<1>5. /\ Out' \in Seq(Int \X Int) /\ Len(Out') = n + Size
      /\ \A i \in 1 .. n + Size : Out'[i] = IF i <= n THEN Out[i] ELSE u[i - n]
  <2> DEFINE s == Out
  <2>1. s \in Seq(Int \X Int) /\ Len(s) = n
    BY <1>3 DEF n
  <2> HIDE DEF s
  <2>2. /\ s \o u \in Seq(Int \X Int) /\ Len(s \o u) = n + Size
        /\ \A i \in 1 .. n + Size : (s \o u)[i] = IF i <= n THEN s[i] ELSE u[i - n]
    BY <1>2, <2>1, ConcatProperties
  <2> QED  BY <1>4, <2>2 DEF s
<1>6. DOMAIN Out' = 1 .. n + Size
  BY <1>5, LenProperties
<1>7. \A i \in DOMAIN Out' : \/ i \in DOMAIN Out /\ i <= n /\ Out'[i] = Out[i]
                             \/ i > n /\ Out'[i] = <<m, i - n>>
  <2> SUFFICES ASSUME NEW i \in DOMAIN Out'
               PROVE  \/ i \in DOMAIN Out /\ i <= n /\ Out'[i] = Out[i]
                      \/ i > n /\ Out'[i] = <<m, i - n>>
    OBVIOUS
  <2>1. CASE i <= n
    BY <1>3, <1>5, <1>6, <2>1
  <2>2. CASE i > n
    <3>1. i - n \in 1 .. Size /\ i \in 1 .. n + Size /\ ~(i <= n)
      BY <1>1, <1>3, <1>6, <2>2
    <3> QED  BY <1>2, <1>5, <2>2, <3>1
  <2> QED  BY <1>3, <1>6, <2>1, <2>2
<1>8. Whole(Out')
  BY <1>3, <1>4, WholeAppend DEF OutInv, WholeMessages, u
<1>9. ASSUME NEW i \in DOMAIN Out', NEW j \in DOMAIN Out', i < j,
             Out'[i][2] = 1, Out'[j][2] = 1, Out'[j][1] <= MaxMsgs
      PROVE  Out'[i][1] > MaxMsgs \/ Out'[i][1] < Out'[j][1]
  <2>0. i \in Int /\ j \in Int
    BY <1>6
  <2>1. CASE j <= n
    <3>1. i \in DOMAIN Out /\ Out'[i] = Out[i] /\ j \in DOMAIN Out /\ Out'[j] = Out[j]
      BY <1>3, <1>7, <1>9, <2>0, <2>1
    <3> QED  BY <1>9, <3>1 DEF OutInv, WholeMessages, InSendOrder
  <2>2. CASE j > n
    <3>1. Out'[j] = <<m, j - n>> /\ j - n = 1 /\ m <= MaxMsgs
      BY <1>3, <1>7, <1>9, <2>0, <2>2
    <3>2. i <= n /\ i \in DOMAIN Out /\ Out'[i] = Out[i]
      BY <1>3, <1>7, <1>9, <2>0, <3>1
    <3>3. Out[i][1] <= MaxMsgs => Out[i][1] < m
      BY <3>1, <3>2
    <3>4. Out[i][1] \in Int
      BY <1>3, <3>2, ElementOfSeq
    <3> QED  BY <3>1, <3>2, <3>3, <3>4, SizeAssumption
  <2> QED  BY <1>3, <2>0, <2>1, <2>2
<1>10. InSendOrder(Out')
  BY <1>9 DEF InSendOrder
<1>11. WholeMessages'
  BY <1>8, <1>10 DEF WholeMessages, Whole, InSendOrder
<1> QED  BY <1>5, <1>7, <1>11 DEF OutInv

(* What is on the wire stays there.                                        *)
LEMMA RangeGrows ==
  ASSUME NEW S, NEW w \in Seq(S), NEW u \in Seq(S)
  PROVE  Range(w) \subseteq Range(w \o u) /\ Range(u) \subseteq Range(w \o u)
<1>1. /\ w \o u \in Seq(S) /\ Len(w \o u) = Len(w) + Len(u)
      /\ \A i \in 1 .. Len(w) + Len(u) : (w \o u)[i] = IF i <= Len(w) THEN w[i] ELSE u[i - Len(w)]
  BY ConcatProperties
<1>2. /\ DOMAIN w = 1 .. Len(w) /\ DOMAIN u = 1 .. Len(u) /\ Len(w) \in Nat /\ Len(u) \in Nat
      /\ DOMAIN (w \o u) = 1 .. Len(w) + Len(u)
  BY <1>1, LenProperties
<1>3. \A i \in DOMAIN w : i \in DOMAIN (w \o u) /\ (w \o u)[i] = w[i]
  BY <1>1, <1>2
<1>4. \A i \in DOMAIN u : Len(w) + i \in DOMAIN (w \o u) /\ (w \o u)[Len(w) + i] = u[i]
  <2> SUFFICES ASSUME NEW i \in 1 .. Len(u)
               PROVE  Len(w) + i \in DOMAIN (w \o u) /\ (w \o u)[Len(w) + i] = u[i]
    BY <1>2
  <2>1. Len(w) + i \in 1 .. Len(w) + Len(u) /\ ~(Len(w) + i <= Len(w)) /\ Len(w) + i - Len(w) = i
    BY <1>2
  <2> QED  BY <1>1, <1>2, <2>1
<1> QED  BY <1>3, <1>4 DEF Range

(* Nothing goes out.                                                       *)
LEMMA QuietOut ==
  ASSUME OutInv, UNCHANGED <<wire, writeBuffer>>
  PROVE  OutInv' /\ Out' = Out
<1>1. Out' = Out
  BY DEF Out
<1> QED  BY <1>1 DEF OutInv, WholeMessages, Whole, InSendOrder

(* The loop takes a functor from the queue; only its message may go out.   *)
LEMMA PopOrder ==
  ASSUME QueueInv, OrderInv, tasks # <<>>, tasks' = Tail(tasks), UNCHANGED <<user, sent>>,
         \A k \in DOMAIN Out' : \/ \E l \in DOMAIN Out : Out'[k] = Out[l]
                                \/ IsSend(tasks[1]) /\ Out'[k][1] = tasks[1].m
  PROVE  OrderInv'
<1>1. /\ 1 \in DOMAIN tasks
      /\ \A i \in DOMAIN tasks' : i + 1 \in DOMAIN tasks /\ tasks'[i] = tasks[i + 1]
  BY Popped DEF QueueInv
<1>2. \A i \in DOMAIN tasks' : i \in Nat /\ i > 0
  BY TaskType, LenProperties DEF QueueInv
<1>3. \A i, j \in DOMAIN tasks' : i < j /\ IsSend(tasks'[i]) /\ IsSend(tasks'[j]) =>
        tasks'[i].m < tasks'[j].m
  BY <1>1, <1>2 DEF OrderInv
<1>4. \A i \in DOMAIN tasks' : IsSend(tasks'[i]) =>
        tasks'[i].m \in 1 .. sent' /\ (user' = "send" => tasks'[i].m < sent')
  BY <1>1 DEF OrderInv
<1>5. ASSUME NEW k \in DOMAIN Out', Out'[k][1] <= MaxMsgs
      PROVE  /\ Out'[k][1] <= sent' /\ (user' = "send" => Out'[k][1] < sent')
             /\ \A i \in DOMAIN tasks' : IsSend(tasks'[i]) => Out'[k][1] < tasks'[i].m
  <2>1. CASE \E l \in DOMAIN Out : Out'[k] = Out[l]
    <3>1. PICK l \in DOMAIN Out : Out'[k] = Out[l]
      BY <2>1
    <3> QED  BY <1>1, <1>5, <3>1 DEF OrderInv
  <2>2. CASE IsSend(tasks[1]) /\ Out'[k][1] = tasks[1].m
    <3>1. tasks[1].m <= sent /\ (user = "send" => tasks[1].m < sent)
      BY <1>1, <2>2 DEF OrderInv
    <3>2. \A i \in DOMAIN tasks' : IsSend(tasks'[i]) => tasks[1].m < tasks'[i].m
      <4> SUFFICES ASSUME NEW i \in DOMAIN tasks', IsSend(tasks'[i])
                   PROVE  tasks[1].m < tasks'[i].m
        OBVIOUS
      <4>1. i + 1 \in DOMAIN tasks /\ 1 < i + 1 /\ tasks'[i] = tasks[i + 1]
        BY <1>1, <1>2
      <4> QED  BY <1>1, <2>2, <4>1 DEF OrderInv
    <3> QED  BY <2>2, <3>1, <3>2
  <2> QED  BY <2>1, <2>2
<1> QED  BY <1>3, <1>4, <1>5 DEF OrderInv

LEMMA PopSent ==
  ASSUME QueueInv, SentInv, tasks # <<>>, tasks' = Tail(tasks), UNCHANGED <<user, sent>>,
         state' = "eConnected" => state = "eConnected", wire' \in Seq(Int \X Int),
         ~stalled' => /\ ~stalled /\ UNCHANGED writeBuffer
                      /\ Range(wire) \subseteq Range(wire'),
         ~stalled' /\ state' = "eConnected" /\ IsSend(tasks[1]) =>
                      <<tasks[1].m, Size>> \in Range(wire')
  PROVE  SentInv'
<1>1. /\ \A j \in DOMAIN tasks \ {1} : j - 1 \in DOMAIN Tail(tasks)
      /\ \A i \in DOMAIN Tail(tasks) : Tail(tasks)[i] = tasks[i + 1]
      /\ DOMAIN tasks \subseteq Int
  BY Popped, LenProperties DEF QueueInv
<1>2. ~stalled' => ReadableBytes(writeBuffer') = 0
  BY DEF SentInv
<1>3. ASSUME ~stalled', state' = "eConnected", NEW m \in 1 .. sent'
      PROVE  \/ <<m, Size>> \in Range(wire')
             \/ \E i \in DOMAIN tasks' : IsSend(tasks'[i]) /\ tasks'[i].m = m
             \/ user' = "send" /\ m = sent'
  <2>1. CASE \E j \in DOMAIN tasks : IsSend(tasks[j]) /\ tasks[j].m = m
    <3>1. PICK j \in DOMAIN tasks : IsSend(tasks[j]) /\ tasks[j].m = m
      BY <2>1
    <3>2. CASE j = 1
      BY <1>3, <3>1, <3>2
    <3>3. CASE j # 1
      <4>1. j - 1 \in DOMAIN tasks' /\ tasks'[j - 1] = tasks[j]
        <5>1. j - 1 \in DOMAIN Tail(tasks) /\ (j - 1) + 1 = j
          BY <1>1, <3>3
        <5> QED  BY <1>1, <5>1
      <4> QED  BY <3>1, <4>1
    <3> QED  BY <3>2, <3>3
  <2>2. CASE <<m, Size>> \in Range(wire) \/ (user = "send" /\ m = sent)
    BY <1>3, <2>2
  <2>3. \/ <<m, Size>> \in Range(wire)
        \/ \E i \in DOMAIN tasks : IsSend(tasks[i]) /\ tasks[i].m = m
        \/ user = "send" /\ m = sent
    BY <1>3 DEF SentInv
  <2> QED  BY <2>1, <2>2, <2>3
<1> QED  BY <1>2, <1>3 DEF SentInv

(* The constructor.                                                        *)
LEMMA InitSend == Init => SendInv
<1> SUFFICES ASSUME Init PROVE SendInv
  OBVIOUS
<1>1. Contents(writeBuffer) = <<>> /\ ReadableBytes(writeBuffer) = 0
  <2>1. Unread(Cell, writeBuffer) /\ writeBuffer.w = PrependSize
    BY NewIsUnread DEF Init, Cell
  <2>2. Contents(writeBuffer) \in Seq(Cell) /\ Len(Contents(writeBuffer)) = 0
    BY <2>1, ContentsType, BufferAssumption
  <2> QED  BY <2>1, <2>2, EmptySeq, BufferAssumption DEF Unread, ReadableBytes
<1>2. Out = <<>>
  BY <1>1, ConcatEmptySeq DEF Init, Out
<1>3. OutInv
  BY <1>2 DEF OutInv, WholeMessages, Whole, InSendOrder
<1>4. sent = 0 /\ user = "idle" /\ \A i \in DOMAIN tasks : ~IsSend(tasks[i])
  BY DEF Init, IsSend, Task
<1>5. OrderInv
  BY <1>2, <1>4, SizeAssumption DEF OrderInv
<1>6. SentInv
  BY <1>1, <1>4 DEF Init, SentInv
<1> QED  BY <1>3, <1>5, <1>6 DEF SendInv

(* A functor run by the loop.                                              *)
LEMMA RunTaskSend == ReadInv /\ LifeInv /\ SendInv /\ RunTask => SendInv'
<1> SUFFICES ASSUME ReadInv, LifeInv, SendInv, RunTask PROVE SendInv'
  OBVIOUS
<1> DEFINE t == Head(tasks)
<1>1. /\ QueueInv /\ BuffersInv /\ OrderInv /\ OutInv /\ SentInv
      /\ tasks # <<>> /\ tasks' = Tail(tasks) /\ UNCHANGED <<user, sent>>
  BY DEF ReadInv, SendInv, RunTask, userVars
<1>2. 1 \in DOMAIN tasks /\ t = tasks[1] /\ t.m \in Int
  BY <1>1, Popped, TaskType DEF QueueInv
<1> HIDE DEF t
<1>3. wire \in Seq(Int \X Int)
  BY <1>1 DEF SentInv
<1>4. ASSUME UNCHANGED <<wire, writeBuffer>>
      PROVE  OrderInv' /\ OutInv'
  <2>1. OutInv' /\ Out' = Out
    BY <1>1, <1>4, QuietOut
  <2>2. \A k \in DOMAIN Out' : \E l \in DOMAIN Out : Out'[k] = Out[l]
    BY <2>1
  <2> QED  BY <1>1, <2>1, <2>2, PopOrder
<1>5. CASE t.f = "connEstablished" /\ ConnEstablished
  <2>1. sent = 0
    BY <1>2, <1>5 DEF LifeInv, FreshInv
  <2>2. UNCHANGED <<wire, writeBuffer, stalled>>
    BY <1>5 DEF ConnEstablished
  <2>3. SentInv'
    BY <1>1, <2>1, <2>2 DEF SentInv
  <2> QED  BY <1>4, <2>2, <2>3 DEF SendInv
<1>6. CASE t.f = "sendInReactor" /\ SendInReactor(t.m)
  <2>1. CASE UNCHANGED loopVars /\ state = "eDisconnected"
    <3>1. UNCHANGED <<wire, writeBuffer, stalled, state>>
      BY <2>1 DEF loopVars
    <3>2. SentInv'
      BY <1>1, <1>3, <2>1, <3>1, PopSent
    <3> QED  BY <1>4, <3>1, <3>2 DEF SendInv
  <2>2. CASE WriteMessage(t.m) /\ UNCHANGED state
    <3>1. /\ wire' \in Seq(Int \X Int)
          /\ Out' = Out \/ Out' = Out \o Units(t.m, 1, Size)
          /\ ~stalled' => ~stalled
          /\ ~stalled' /\ ReadableBytes(writeBuffer) = 0 =>
               UNCHANGED writeBuffer /\ wire' = wire \o Units(t.m, 1, Size)
      BY <1>1, <1>2, <1>3, <2>2, WriteMessageOut
    <3>2. \A k \in DOMAIN Out : Out[k][1] <= MaxMsgs => Out[k][1] < t.m
      BY <1>1, <1>2, <1>6 DEF OrderInv, IsSend
    <3>3. /\ OutInv'
          /\ \A k \in DOMAIN Out' : Out'[k][1] = t.m \/ \E l \in DOMAIN Out : Out'[k] = Out[l]
      <4>1. CASE Out' = Out
        BY <1>1, <4>1 DEF OutInv, WholeMessages, Whole, InSendOrder
      <4>2. CASE Out' = Out \o Units(t.m, 1, Size)
        BY <1>1, <1>2, <3>2, <4>2, OutGrows
      <4> QED  BY <3>1, <4>1, <4>2
    <3>4. OrderInv'
      BY <1>1, <1>2, <1>6, <3>3, PopOrder DEF IsSend
    <3>5. ~stalled' => /\ ~stalled /\ UNCHANGED writeBuffer
                       /\ Range(wire) \subseteq Range(wire')
                       /\ <<t.m, Size>> \in Range(wire')
      <4> SUFFICES ASSUME ~stalled'
                   PROVE  /\ ~stalled /\ UNCHANGED writeBuffer
                          /\ Range(wire) \subseteq Range(wire')
                          /\ <<t.m, Size>> \in Range(wire')
        OBVIOUS
      <4>1. ~stalled /\ UNCHANGED writeBuffer /\ wire' = wire \o Units(t.m, 1, Size)
        BY <1>1, <3>1 DEF SentInv
      <4> DEFINE u == Units(t.m, 1, Size)
      <4>2. u \in Seq(Int \X Int) /\ Size \in DOMAIN u /\ u[Size] = <<t.m, Size>>
        <5>1. Size \in Nat /\ Size \in 1 .. Size
          BY SizeAssumption
        <5>2. u \in Seq(Int \X Int) /\ Len(u) = Size /\ u[Size] = <<t.m, Size>>
          BY <1>2, <5>1, FirstUnits
        <5> HIDE DEF u
        <5>3. DOMAIN u = 1 .. Size
          BY <5>2, LenProperties
        <5> QED  BY <5>1, <5>2, <5>3
      <4> HIDE DEF u
      <4>3. <<t.m, Size>> \in Range(u)
        BY <4>2 DEF Range
      <4>4. Range(wire) \subseteq Range(wire \o u) /\ Range(u) \subseteq Range(wire \o u)
        BY <1>3, <4>2, RangeGrows
      <4> QED  BY <4>1, <4>3, <4>4 DEF u
    <3>6. SentInv'
      BY <1>1, <1>2, <2>2, <3>1, <3>5, PopSent
    <3> QED  BY <3>3, <3>4, <3>6 DEF SendInv
  <2> QED  BY <1>6, <2>1, <2>2 DEF SendInReactor, LifeInv, UpInv
<1>7. CASE \/ t.f = "handleClose" /\ HandleClose /\ UNCHANGED <<writeBuffer, wire, stalled>>
           \/ t.f = "shutdownInReactor" /\ ShutdownInReactor
  <2>1. UNCHANGED <<wire, writeBuffer, stalled>> /\ (state' = "eConnected" => state = "eConnected")
    BY <1>7 DEF HandleClose, ShutdownInReactor
  <2>2. ~IsSend(tasks[1])
    BY <1>2, <1>7 DEF IsSend
  <2>3. SentInv'
    BY <1>1, <1>3, <2>1, <2>2, PopSent
  <2> QED  BY <1>4, <2>1, <2>3 DEF SendInv
<1> QED  BY <1>5, <1>6, <1>7 DEF RunTask, t

(* A reply of the message callback goes out at once.                       *)
LEMMA ReadDataSend == ReadInv /\ LifeInv /\ SendInv /\ ReadData => SendInv'
<1> SUFFICES ASSUME ReadInv, LifeInv, SendInv, ReadData PROVE SendInv'
  OBVIOUS
<1> DEFINE m == MaxMsgs + Len(handed')
<1>1. /\ BuffersInv /\ OrderInv /\ OutInv /\ SentInv
      /\ UNCHANGED <<tasks, user, sent, state>> /\ wire \in Seq(Int \X Int)
  BY DEF ReadInv, SendInv, SentInv, ReadData, userVars
<1>2. CASE UNCHANGED <<wire, writeBuffer, stalled>>
  <2>1. OutInv' /\ Out' = Out
    BY <1>1, <1>2, QuietOut
  <2> QED  BY <1>1, <1>2, <2>1 DEF SendInv, OrderInv, SentInv
<1>3. CASE WriteMessage(m)
  <2>1. m \in Int /\ m > MaxMsgs
    <3>1. /\ handed' \in Seq(Int) /\ Len(handed') = received - inbox'
          /\ inbox' < inbox /\ inbox' \in Nat
      BY FillKeeps, FillTakes DEF ReadData
    <3>2. Len(handed) = received - inbox /\ Len(handed) \in Nat /\ inbox \in Nat /\ received \in Nat
      BY LenProperties DEF ReadInv, StreamInv, ReadData
    <3>3. received - inbox' \in Nat /\ received - inbox' > 0
      <4>1. inbox <= received /\ inbox \in Int /\ received \in Int
        BY <3>2
      <4>2. inbox' < received /\ inbox' \in Int
        BY <3>1, <4>1
      <4>3. \A a, b \in Int : b < a => a - b \in Nat /\ a - b > 0
        OBVIOUS
      <4> QED  BY ONLY <4>1, <4>2, <4>3, Zenon
    <3> QED  BY <3>1, <3>3, SizeAssumption
  <2> HIDE DEF m
  <2>2. /\ wire' \in Seq(Int \X Int)
        /\ Out' = Out \/ Out' = Out \o Units(m, 1, Size)
        /\ ~stalled' => ~stalled
        /\ ~stalled' /\ ReadableBytes(writeBuffer) = 0 =>
             UNCHANGED writeBuffer /\ wire' = wire \o Units(m, 1, Size)
    BY <1>1, <1>3, <2>1, WriteMessageOut
  <2>3. /\ OutInv'
        /\ \A k \in DOMAIN Out' : Out'[k][1] = m \/ \E l \in DOMAIN Out : Out'[k] = Out[l]
    <3>1. CASE Out' = Out
      BY <1>1, <3>1 DEF OutInv, WholeMessages, Whole, InSendOrder
    <3>2. CASE Out' = Out \o Units(m, 1, Size)
      <4>1. ~(m <= MaxMsgs)
        BY <2>1, SizeAssumption
      <4> QED  BY <1>1, <2>1, <3>2, <4>1, OutGrows
    <3> QED  BY <2>2, <3>1, <3>2
  <2>4. \A k \in DOMAIN Out' : Out'[k][1] <= MaxMsgs => \E l \in DOMAIN Out : Out'[k] = Out[l]
    BY <2>1, <2>3, SizeAssumption
  <2>5. OrderInv'
    BY <1>1, <2>4 DEF OrderInv
  <2>6. ~stalled' => ~stalled /\ UNCHANGED writeBuffer /\ Range(wire) \subseteq Range(wire')
    <3>1. Units(m, 1, Size) \in Seq(Int \X Int)
      BY <2>1, SizeAssumption, FirstUnits
    <3>2. Range(wire) \subseteq Range(wire \o Units(m, 1, Size))
      BY <1>1, <3>1, RangeGrows
    <3> QED  BY <1>1, <2>2, <3>2 DEF SentInv
  <2>7. SentInv'
    BY <1>1, <2>2, <2>6 DEF SentInv
  <2> QED  BY <2>3, <2>5, <2>7 DEF SendInv
<1> QED  BY <1>2, <1>3 DEF ReadData

(* The other events of the socket, and the peer.                           *)
LEMMA EventSend ==
  LifeInv /\ SendInv /\ (ReadEof \/ ReadError \/ WritableEvent \/ PeerSend \/ PeerClose
                         \/ UNCHANGED vars) => SendInv'
<1> SUFFICES ASSUME LifeInv, SendInv, ReadEof \/ ReadError \/ WritableEvent \/ PeerSend
                                      \/ PeerClose \/ UNCHANGED vars
             PROVE  SendInv'
  OBVIOUS
<1>1. /\ UNCHANGED <<tasks, user, sent, wire, writeBuffer, stalled>>
      /\ state' = "eConnected" => state = "eConnected"
  BY DEF ReadEof, ReadError, WritableEvent, WriteCallback, PeerSend, PeerClose, vars, userVars,
         loopVars
<1>2. OutInv' /\ Out' = Out
  BY <1>1, QuietOut DEF SendInv
<1>3. OrderInv'
  BY <1>1, <1>2 DEF SendInv, OrderInv
<1>4. SentInv'
  BY <1>1 DEF SendInv, SentInv
<1> QED  BY <1>2, <1>3, <1>4 DEF SendInv

(* Another thread queues a functor that is not send()'s.                   *)
LEMMA QueueOther ==
  ASSUME QueueInv, SendInv, NEW t \in Functors, ~IsSend(t), tasks' = Append(tasks, t),
         user' = "send" <=> user = "send", UNCHANGED <<sent, state, wire, writeBuffer, stalled>>
  PROVE  SendInv'
<1>1. /\ DOMAIN tasks' = DOMAIN tasks \cup {Len(tasks) + 1}
      /\ tasks'[Len(tasks) + 1] = t
      /\ \A i \in DOMAIN tasks : tasks'[i] = tasks[i]
  BY Pushed DEF QueueInv
<1>2. OutInv' /\ Out' = Out
  BY QuietOut DEF SendInv
<1>3. OrderInv'
  BY <1>1, <1>2 DEF SendInv, OrderInv
<1>4. SentInv'
  BY <1>1 DEF SendInv, SentInv
<1> QED  BY <1>2, <1>3, <1>4 DEF SendInv

(* send, shutdown and forceClose.                                          *)
LEMMA CallSend == ReadInv /\ LifeInv /\ SendInv /\ (UserStep \/ TimerStep) => SendInv'
<1> SUFFICES ASSUME ReadInv, LifeInv, SendInv, UserStep \/ TimerStep PROVE SendInv'
  OBVIOUS
<1>1. QueueInv /\ OrderInv /\ OutInv /\ SentInv
  BY DEF ReadInv, SendInv
<1>2. OutInv' /\ Out' = Out /\ UNCHANGED <<wire, writeBuffer, stalled>>
  <2>1. UNCHANGED <<wire, writeBuffer, stalled>>
    BY DEF UserStep, Send, SendQueue, Shutdown, ShutdownQueue, TimerStep, ForceClose, ForceCloseSet,
           ForceCloseQueue, loopVars
  <2> QED  BY <1>1, <2>1, QuietOut
<1>3. CASE Send
  <2>1. /\ sent' = sent + 1 /\ sent < MaxMsgs /\ user = "idle" /\ user' = "send"
        /\ UNCHANGED <<tasks, state>>
    BY <1>3 DEF Send, loopVars
  <2>2. sent \in Nat
    BY <1>1 DEF QueueInv
  <2>3. OrderInv'
    <3>1. \A i \in DOMAIN tasks : IsSend(tasks[i]) =>
            tasks[i].m \in 1 .. sent + 1 /\ tasks[i].m < sent + 1
      BY <1>1, <2>2 DEF OrderInv
    <3>2. \A k \in DOMAIN Out : Out[k][1] <= MaxMsgs =>
            Out[k][1] <= sent + 1 /\ Out[k][1] < sent + 1
      <4>1. \A k \in DOMAIN Out : Out[k][1] \in Int
        BY <1>1, ElementOfSeq, LenProperties DEF OutInv
      <4> QED  BY <1>1, <2>2, <4>1 DEF OrderInv
    <3>3. sent + 1 \in 0 .. MaxMsgs /\ sent + 1 > 0
      BY <2>1, <2>2, SizeAssumption
    <3> QED  BY <1>1, <1>2, <2>1, <3>1, <3>2, <3>3 DEF OrderInv
  <2>4. SentInv'
    <3>1. \A m \in 1 .. sent + 1 : m \in 1 .. sent \/ m = sent + 1
      BY <2>2
    <3> QED  BY <1>1, <1>2, <2>1, <3>1 DEF SentInv
  <2> QED  BY <1>2, <2>3, <2>4 DEF SendInv
<1>4. CASE SendQueue
  <2> DEFINE t == Task("sendInReactor", sent)
  <2>1. tasks' = Append(tasks, t) /\ user = "send" /\ user' = "idle" /\ UNCHANGED <<sent, state>>
    BY <1>4 DEF SendQueue, loopVars
  <2>2. t \in Functors /\ IsSend(t) /\ t.m = sent /\ sent \in Nat
    BY <1>1 DEF QueueInv, Functors, Task, IsSend
  <2> HIDE DEF t
  <2>3. /\ DOMAIN tasks' = DOMAIN tasks \cup {Len(tasks) + 1}
        /\ tasks'[Len(tasks) + 1] = t
        /\ \A i \in DOMAIN tasks : tasks'[i] = tasks[i] /\ i \in Nat /\ i < Len(tasks) + 1
        /\ Len(tasks) \in Nat
    BY <1>1, <2>1, <2>2, Pushed DEF QueueInv
  <2>4. OrderInv'
    <3>1. ASSUME NEW i \in DOMAIN tasks', NEW j \in DOMAIN tasks', i < j,
                 IsSend(tasks'[i]), IsSend(tasks'[j])
          PROVE  tasks'[i].m < tasks'[j].m
      <4>1. i \in DOMAIN tasks
        BY <2>3, <3>1
      <4>2. CASE j \in DOMAIN tasks
        BY <1>1, <2>3, <3>1, <4>1, <4>2 DEF OrderInv
      <4>3. CASE j = Len(tasks) + 1
        BY <1>1, <2>1, <2>2, <2>3, <3>1, <4>1, <4>3 DEF OrderInv
      <4> QED  BY <2>3, <4>2, <4>3
    <3>2. \A i \in DOMAIN tasks' : IsSend(tasks'[i]) => tasks'[i].m \in 1 .. sent
      BY <1>1, <2>1, <2>2, <2>3 DEF OrderInv
    <3>3. \A k \in DOMAIN Out : Out[k][1] <= MaxMsgs =>
            \A i \in DOMAIN tasks' : IsSend(tasks'[i]) => Out[k][1] < tasks'[i].m
      BY <1>1, <2>1, <2>2, <2>3 DEF OrderInv
    <3> QED  BY <1>1, <1>2, <2>1, <3>1, <3>2, <3>3 DEF OrderInv
  <2>5. SentInv'
    BY <1>1, <1>2, <2>1, <2>2, <2>3 DEF SentInv
  <2> QED  BY <1>2, <2>4, <2>5 DEF SendInv
<1>5. CASE ShutdownQueue \/ ForceCloseQueue
  <2>1. \A f \in {"handleClose", "shutdownInReactor"} :
          Task(f, 0) \in Functors /\ ~IsSend(Task(f, 0))
    BY DEF Task, Functors, IsSend
  <2>2. UNCHANGED <<sent, state>> /\ (user' = "send" <=> user = "send")
    BY <1>5 DEF ShutdownQueue, ForceCloseQueue, userVars, loopVars
  <2>3. \E f \in {"handleClose", "shutdownInReactor"} : tasks' = Append(tasks, Task(f, 0))
    BY <1>5 DEF ShutdownQueue, ForceCloseQueue
  <2> QED  BY <1>1, <1>2, <2>1, <2>2, <2>3, QueueOther
<1>6. CASE Shutdown \/ ForceClose \/ ForceCloseSet
  <2>1. /\ UNCHANGED <<tasks, sent>> /\ (user' = "send" <=> user = "send")
        /\ state' = "eConnected" => state = "eConnected"
    BY <1>6 DEF Shutdown, ForceClose, ForceCloseSet, userVars, loopVars
  <2>2. OrderInv'
    BY <1>1, <1>2, <2>1 DEF OrderInv
  <2>3. SentInv'
    BY <1>1, <1>2, <2>1 DEF SentInv
  <2> QED  BY <1>2, <2>2, <2>3 DEF SendInv
<1> QED  BY <1>3, <1>4, <1>5, <1>6 DEF UserStep, TimerStep

(* The invariants of reading, of the life and of sending together.         *)
LEMMA Sends == Spec => [](ReadInv /\ LifeInv /\ SendInv)
<1>1. ReadInv /\ LifeInv /\ SendInv /\ [Next]_vars => SendInv'
  BY RunTaskSend, ReadDataSend, EventSend, CallSend DEF Next, LoopStep
<1>2. ReadInv /\ LifeInv /\ SendInv /\ [Next]_vars => (ReadInv /\ LifeInv /\ SendInv)'
  BY <1>1, StepRead, StepLife DEF ReadInv
<1> QED  BY InitRead, InitLife, InitSend, <1>2, PTL DEF Spec

(* However writes are cut short and messages dropped, what goes out is     *)
(* whole messages, those of the user thread in the order of its calls.     *)
THEOREM MessagesStayWhole == Spec => []WholeMessages
<1>1. ReadInv /\ LifeInv /\ SendInv => WholeMessages
  BY DEF SendInv, OutInv
<1> QED  BY <1>1, Sends, PTL

(* Until a write is cut short no message of send() is lost while the       *)
(* connection lasts.                                                       *)
THEOREM NothingLostUnlessStalled == Spec => []SentUnlessStalled
<1>1. ReadInv /\ LifeInv /\ SendInv => SentUnlessStalled
  <2> SUFFICES ASSUME SentInv, tasks = <<>>, user = "idle", state = "eConnected", ~stalled
               PROVE  \A m \in 1 .. sent : <<m, Size>> \in Range(wire)
    BY DEF SendInv, SentUnlessStalled
  <2>1. DOMAIN tasks = {}
    OBVIOUS
  <2> QED  BY <2>1 DEF SentInv
<1> QED  BY <1>1, Sends, PTL
=============================================================================

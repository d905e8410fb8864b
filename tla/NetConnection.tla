---------------------------- MODULE NetConnection ----------------------------
(***************************************************************************)
(* net/NetConnection.cpp: one TCP connection, owned by an I/O loop.        *)
(*                                                                         *)
(* Actors: the I/O loop, which runs queued functors one at a time in the   *)
(* order they were queued (TaskQueue, which Reactor implements) and        *)
(* handles socket events between them; a user thread that calls send and   *)
(* shutdown; a timer thread that calls forceClose (HeartbeatRecv does);    *)
(* the peer.  event_ and the buffers belong to the loop; state_ is read    *)
(* and written by all, without a lock, so forceClose's test and assignment *)
(* are two steps.                                                          *)
(*                                                                         *)
(* A message to send is Size units long, and a write may take any number   *)
(* of them, or none (EWOULDBLOCK).  What the peer sends is a stream of     *)
(* units.  Both go through a Buffer.  A step through a NULL or deleted     *)
(* event_ ends the behaviour in a crash.                                   *)
(***************************************************************************)
EXTENDS Buffer, Functions

CONSTANTS MaxMsgs,    \* bound: messages the user sends, numbered from 1
          MaxIn,      \* bound: units the peer sends
          Size        \* units of a message

ASSUME SizeAssumption == MaxMsgs \in Nat /\ MaxIn \in Nat /\ Size \in Nat \ {0}

VARIABLES state,        \* state_
          event,        \* event_ # NULL
          reading,      \* events_ has csEventRead
          writing,      \* events_ has csEventWrite
          readBuffer,   \* readBuffer_
          writeBuffer,  \* writeBuffer_
          tasks,        \* functors queued on the loop for this connection
          wire,         \* units written to the socket
          wrShut,       \* shutdownWrite was done
          peer,         \* "open", "closed" (FIN sent), "reset"
          inbox,        \* units in the socket, not yet read
          received,     \* units the peer sent, numbered from 1
          handed,       \* units handed to the message callback, in order
          upcalls,      \* callbacks to the layer above, in order
          user,         \* the user thread: "idle", "send", "shutdown"
          sent,         \* send() calls of the user thread so far
          killer,       \* the timer thread in forceClose: "idle", "set", "queue", "done"
          shutdowns,    \* the user called shutdown()
          stalled,      \* some write took less than it was given
          crash         \* "no", "null": used event_ = NULL, "freed": used a deleted handler,
                        \* "assert": assert(0) of handleWrite

loopVars == <<state, event, reading, writing, writeBuffer, wire, wrShut, upcalls, stalled, crash>>
readVars == <<readBuffer, handed>>
peerVars == <<peer, inbox, received>>
userVars == <<user, sent, shutdowns>>
vars == <<loopVars, readVars, peerVars, userVars, tasks, killer>>

Messages == 1 .. MaxMsgs + MaxIn
Units(m, a, b) == [k \in 1 .. (b + 1 - a) |-> <<m, a + k - 1>>]

TypeOK == /\ state \in {"eConnected", "eDisconnected"}
          /\ event \in BOOLEAN /\ reading \in BOOLEAN /\ writing \in BOOLEAN
          /\ IsBuffer(readBuffer) /\ IsBuffer(writeBuffer)
          /\ handed \in Seq(1 .. MaxIn)
          /\ wire \in Seq(Messages \X (1 .. Size))
          /\ tasks \in Seq([f : {"connEstablished", "sendInReactor", "handleClose",
                                 "shutdownInReactor"}, m : 0 .. MaxMsgs])
          /\ wrShut \in BOOLEAN /\ stalled \in BOOLEAN
          /\ peer \in {"open", "closed", "reset"}
          /\ inbox \in 0 .. MaxIn /\ received \in 0 .. MaxIn
          /\ upcalls \in Seq({"connected", "message", "disconnected"})
          /\ user \in {"idle", "send", "shutdown"} /\ sent \in 0 .. MaxMsgs
          /\ shutdowns \in BOOLEAN
          /\ killer \in {"idle", "set", "queue", "done"}
          /\ crash \in {"no", "null", "freed", "assert"}

Task(f, m) == [f |-> f, m |-> m]

(* The constructor, and connEstablished queued by newConnAccept. *)
Init == /\ state = "eDisconnected" /\ event = TRUE
        /\ reading = FALSE /\ writing = FALSE
        /\ readBuffer = NewBuffer /\ handed = <<>>
        /\ writeBuffer = NewBuffer /\ wire = <<>> /\ wrShut = FALSE
        /\ tasks = <<Task("connEstablished", 0)>>
        /\ peer = "open" /\ inbox = 0 /\ received = 0
        /\ upcalls = <<>>
        /\ user = "idle" /\ sent = 0 /\ shutdowns = FALSE /\ killer = "idle"
        /\ stalled = FALSE /\ crash = "no"

(* The constructor sets the write callback three times; the last one stays. *)
WriteCallback == "handleError"

-----------------------------------------------------------------------------
(* The functions that run in the loop.                                     *)

ConnEstablished ==
  /\ state' = "eConnected"
  /\ upcalls' = Append(upcalls, "connected")
  /\ reading' = TRUE
  /\ UNCHANGED <<event, writing, writeBuffer, wire, wrShut, stalled, crash>>

(* sockets::write: how much of message m the kernel takes; 0 for an error. *)
Written(m) == IF wrShut \/ peer = "reset" THEN {0} ELSE 0 .. Size

(* Mutant: a message is written although the rest of another is buffered. *)
WriteMessageAlways(m) ==
  \E n \in Written(m) :
    /\ wire' = wire \o Units(m, 1, n)
    /\ writeBuffer' = IF n \in 1 .. Size - 1 THEN Write(writeBuffer, Units(m, n + 1, Size))
                      ELSE writeBuffer
    /\ writing' = (writing \/ n \in 1 .. Size - 1)
    /\ stalled' = (stalled \/ n < Size)

(* Written in part, the rest of m is buffered and POLLOUT asked for;       *)
(* refused (EWOULDBLOCK), or behind a rest still buffered, m is dropped:   *)
(* remain stays 0.                                                         *)
WriteMessage(m) ==
  \/ /\ ReadableBytes(writeBuffer) > 0
     /\ UNCHANGED <<wire, writeBuffer, writing, stalled>>
  \/ /\ ReadableBytes(writeBuffer) = 0
     /\ \E n \in Written(m) :
          /\ wire' = wire \o Units(m, 1, n)
          /\ writeBuffer' = IF n \in 1 .. Size - 1
                            THEN Write(writeBuffer, Units(m, n + 1, Size)) ELSE writeBuffer
          /\ writing' = (writing \/ n \in 1 .. Size - 1)
          /\ stalled' = (stalled \/ n < Size)

(* Mutant: state_ is not looked at again in the loop. *)
SendInReactorUnchecked(m) ==
  \/ /\ ~event
     /\ crash' = "null"
     /\ UNCHANGED <<state, event, reading, writing, writeBuffer, wire, wrShut, upcalls, stalled>>
  \/ /\ event
     /\ WriteMessage(m)
     /\ UNCHANGED <<state, event, reading, wrShut, upcalls, crash>>

(* sendInReactor *)
SendInReactor(m) ==
  \/ /\ state = "eDisconnected"
     /\ UNCHANGED loopVars
  \/ /\ state = "eConnected" /\ ~event
     /\ crash' = "null"
     /\ UNCHANGED <<state, event, reading, writing, writeBuffer, wire, wrShut, upcalls, stalled>>
  \/ /\ state = "eConnected" /\ event
     /\ WriteMessage(m)
     /\ UNCHANGED <<state, event, reading, wrShut, upcalls, crash>>

(* Mutant: handleClose does nothing once state_ is eDisconnected. *)
HandleCloseOnce ==
  \/ /\ state = "eDisconnected"
     /\ UNCHANGED <<state, event, reading, writing, upcalls, crash>>
  \/ /\ state = "eConnected" /\ event
     /\ state' = "eDisconnected"
     /\ upcalls' = Append(upcalls, "disconnected")
     /\ event' = FALSE /\ reading' = FALSE /\ writing' = FALSE
     /\ UNCHANGED crash

(* Mutant: handleClose leaves event_ registered. *)
HandleCloseKeepsEvent ==
  \/ /\ ~event
     /\ crash' = "null"
     /\ UNCHANGED <<state, event, reading, writing, upcalls>>
  \/ /\ event
     /\ state' = "eDisconnected"
     /\ upcalls' = Append(upcalls, "disconnected")
     /\ UNCHANGED <<event, reading, writing, crash>>

(* handleClose: ~EventHandler takes the descriptor out of the poller *)
HandleClose ==
  \/ /\ ~event
     /\ crash' = "null"
     /\ UNCHANGED <<state, event, reading, writing, upcalls>>
  \/ /\ event
     /\ state' = "eDisconnected"
     /\ upcalls' = Append(upcalls, "disconnected")
     /\ event' = FALSE /\ reading' = FALSE /\ writing' = FALSE
     /\ UNCHANGED crash

ShutdownInReactor ==
  /\ IF event
     THEN wrShut' = (wrShut \/ ~writing) /\ UNCHANGED crash
     ELSE crash' = "null" /\ UNCHANGED wrShut
  /\ UNCHANGED <<state, event, reading, writing, writeBuffer, wire, upcalls, stalled>>

(* handleWrite, were it the write callback: a write that takes nothing, or *)
(* fails, meets assert(0).                                                 *)
HandleWrite ==
  /\ \/ /\ \E n \in 1 .. ReadableBytes(writeBuffer) :
             /\ wire' = wire \o SubSeq(Contents(writeBuffer), 1, n)
             /\ writeBuffer' = Retrieve(writeBuffer, n)
             /\ writing' = (ReadableBytes(writeBuffer') > 0)
        /\ UNCHANGED crash
     \/ /\ crash' = "assert"
        /\ UNCHANGED <<wire, writeBuffer, writing>>
  /\ UNCHANGED <<state, event, reading, wrShut, upcalls, stalled>>

-----------------------------------------------------------------------------
(* The loop.                                                               *)

RunTask ==
  /\ crash = "no" /\ tasks # <<>>
  /\ tasks' = Tail(tasks)
  /\ LET t == Head(tasks)
     IN  \/ t.f = "connEstablished" /\ ConnEstablished
         \/ t.f = "sendInReactor" /\ SendInReactor(t.m)
         \/ t.f = "handleClose" /\ HandleClose
              /\ UNCHANGED <<writeBuffer, wire, wrShut, stalled>>
         \/ t.f = "shutdownInReactor" /\ ShutdownInReactor
  /\ UNCHANGED <<readVars, peerVars, userVars, killer>>

(* The units a readv of at most room of them takes from the socket. *)
Available(room) ==
  [k \in 1 .. (IF inbox < room THEN inbox ELSE room) |-> received - inbox + k]

(* readBuffer_.reset(), then readfd; the callback takes it all (readAll).  *)
FillReadBuffer ==
  LET empty == Reset(readBuffer)
      data == Available(Room(empty))
      full == ReadFd(empty, data)
  IN  /\ inbox' = inbox - Len(data)
      /\ handed' = handed \o Contents(full)
      /\ readBuffer' = ReadAll(full)

(* handleRead with data: the message callback, which may reply from the    *)
(* loop's own thread (the server's PONG) and then sends at once.           *)
ReadData ==
  /\ crash = "no" /\ event /\ reading /\ inbox > 0 /\ peer # "reset"
  /\ FillReadBuffer
  /\ upcalls' = Append(upcalls, "message")
  /\ \/ UNCHANGED <<wire, writeBuffer, writing, stalled>>
     \/ state = "eConnected" /\ WriteMessage(MaxMsgs + Len(handed'))
  /\ UNCHANGED <<state, event, reading, wrShut, crash, peer, received, userVars, tasks, killer>>

(* handleRead with n = 0: handleClose deletes the handler whose handEvent  *)
(* is running.  If poll reported POLLOUT as well, handEvent goes on to call*)
(* the write callback of the deleted handler.                              *)
ReadEof ==
  /\ crash = "no" /\ event /\ reading /\ inbox = 0 /\ peer = "closed"
  /\ state' = "eDisconnected"
  /\ upcalls' = Append(upcalls, "disconnected")
  /\ event' = FALSE /\ reading' = FALSE /\ writing' = FALSE
  /\ crash' \in IF writing THEN {"no", "freed"} ELSE {"no"}
  /\ readBuffer' = Reset(readBuffer)
  /\ UNCHANGED <<writeBuffer, wire, wrShut, stalled, handed, peerVars, userVars, tasks, killer>>

(* handleRead with n < 0: handleError only clears the socket error; the    *)
(* next read returns 0.                                                    *)
ReadError ==
  /\ crash = "no" /\ event /\ reading /\ peer = "reset"
  /\ peer' = "closed" /\ inbox' = 0
  /\ readBuffer' = Reset(readBuffer)
  /\ UNCHANGED <<received, handed, loopVars, userVars, tasks, killer>>

(* POLLIN is reported: there is something to read, or nothing will come.   *)
Readable == crash = "no" /\ event /\ reading /\ (inbox > 0 \/ peer # "open")

(* POLLOUT *)
WritableEvent ==
  /\ crash = "no" /\ event /\ writing
  /\ CASE WriteCallback = "handleWrite" -> HandleWrite
       [] WriteCallback = "handleClose" ->
            HandleClose /\ UNCHANGED <<writeBuffer, wire, wrShut, stalled>>
       [] WriteCallback = "handleError" -> UNCHANGED loopVars
  /\ UNCHANGED <<readVars, peerVars, userVars, tasks, killer>>

-----------------------------------------------------------------------------
(* The user thread.                                                        *)

(* send(): if (state_ == eConnected), else only a log line *)
Send ==
  /\ crash = "no" /\ user = "idle" /\ sent < MaxMsgs
  /\ state = "eConnected"
  /\ sent' = sent + 1 /\ user' = "send"
  /\ UNCHANGED <<loopVars, readVars, peerVars, shutdowns, tasks, killer>>

(* Mutant: a message is not queued behind another. *)
SendQueueSkips ==
  /\ crash = "no" /\ user = "send"
  /\ tasks' = IF tasks = <<>> THEN <<Task("sendInReactor", sent)>> ELSE tasks
  /\ user' = "idle"
  /\ UNCHANGED <<loopVars, readVars, peerVars, sent, shutdowns, killer>>

(* runInLoop(sendInReactor) *)
SendQueue ==
  /\ crash = "no" /\ user = "send"
  /\ tasks' = Append(tasks, Task("sendInReactor", sent))
  /\ user' = "idle"
  /\ UNCHANGED <<loopVars, readVars, peerVars, sent, shutdowns, killer>>

Shutdown ==
  /\ crash = "no" /\ user = "idle" /\ ~shutdowns
  /\ state = "eConnected"
  /\ user' = "shutdown" /\ shutdowns' = TRUE
  /\ UNCHANGED <<loopVars, readVars, peerVars, sent, tasks, killer>>

ShutdownQueue ==
  /\ crash = "no" /\ user = "shutdown"
  /\ tasks' = Append(tasks, Task("shutdownInReactor", 0))
  /\ user' = "idle"
  /\ UNCHANGED <<loopVars, readVars, peerVars, sent, shutdowns, killer>>

(* The timer thread in forceClose: test, assignment, runInLoop.            *)
ForceClose ==
  /\ crash = "no" /\ killer = "idle"
  /\ state = "eConnected"
  /\ killer' = "set"
  /\ UNCHANGED <<loopVars, readVars, peerVars, userVars, tasks>>

ForceCloseSet ==
  /\ crash = "no" /\ killer = "set"
  /\ state' = "eDisconnected"
  /\ killer' = "queue"
  /\ UNCHANGED <<event, reading, writing, writeBuffer, wire, wrShut, upcalls, stalled,
                 crash, readVars, peerVars, userVars, tasks>>

ForceCloseQueue ==
  /\ crash = "no" /\ killer = "queue"
  /\ tasks' = Append(tasks, Task("handleClose", 0))
  /\ killer' = "done"
  /\ UNCHANGED <<loopVars, readVars, peerVars, userVars>>

-----------------------------------------------------------------------------
(* The peer.                                                               *)

PeerSend ==
  /\ crash = "no" /\ peer = "open"
  /\ \E n \in 1 .. MaxIn - received : received' = received + n /\ inbox' = inbox + n
  /\ UNCHANGED <<loopVars, readVars, peer, userVars, tasks, killer>>

PeerClose ==
  /\ crash = "no" /\ peer = "open"
  /\ peer' \in {"closed", "reset"}
  /\ UNCHANGED <<loopVars, readVars, inbox, received, userVars, tasks, killer>>

-----------------------------------------------------------------------------
UserStep == Send \/ SendQueue \/ Shutdown \/ ShutdownQueue
TimerStep == ForceClose \/ ForceCloseSet \/ ForceCloseQueue
LoopStep == RunTask \/ ReadData \/ ReadEof \/ ReadError \/ WritableEvent
HandleRead == ReadData \/ ReadEof \/ ReadError

Next == LoopStep \/ UserStep \/ TimerStep \/ PeerSend \/ PeerClose

Spec == Init /\ [][Next]_vars

(* The loop keeps running what is queued and handling what poll, which is  *)
(* level-triggered, reports: data, the end of the stream and errors as     *)
(* well as POLLOUT.  Calls that have begun end.  The peer need not send or *)
(* close.  (The clause of reading is WF_vars(HandleRead), with ENABLED     *)
(* written out as Readable.)                                               *)
Fairness == /\ WF_vars(RunTask) /\ WF_vars(WritableEvent)
            /\ []<>~Readable \/ []<><<HandleRead>>_vars
            /\ WF_vars(SendQueue \/ ShutdownQueue)
            /\ WF_vars(ForceCloseSet \/ ForceCloseQueue)

FairSpec == Spec /\ Fairness

-----------------------------------------------------------------------------
(* Properties.                                                             *)

(* The units written, followed by the units buffered.                      *)
Out == wire \o Contents(writeBuffer)

(* A sequence of units is whole messages, one after the other.             *)
Whole(out) ==
  /\ out # <<>> => out[1][2] = 1 /\ out[Len(out)][2] = Size
  /\ \A i \in 1 .. Len(out) - 1 :
       IF out[i][2] = Size THEN out[i + 1][2] = 1
       ELSE out[i + 1] = <<out[i][1], out[i][2] + 1>>

(* The messages of the user thread follow one another in the order of its  *)
(* send() calls, and none twice.                                           *)
InSendOrder(out) ==
  \A i, j \in DOMAIN out :
    i < j /\ out[i][2] = 1 /\ out[j][2] = 1 /\ out[j][1] <= MaxMsgs =>
      out[i][1] > MaxMsgs \/ out[i][1] < out[j][1]

(* However writes are cut short and messages dropped, the bytes on the     *)
(* wire, followed by what is buffered, are whole messages one after the    *)
(* other, those of the user thread in the order of its send() calls and    *)
(* none twice: the peer's frame parser is never handed half a frame with   *)
(* another behind it.  (sendInReactor and Buffer::write.)                  *)
WholeMessages == Whole(Out) /\ InSendOrder(Out)

(* What the message callback is handed is what the peer sent, each unit    *)
(* once and in order, whether a readv finds as much as the buffer holds or *)
(* so much that it overflows into morebuf and the buffer grows; and no     *)
(* assertion of write() can fail.  (handleRead, readfd, newSpace.)         *)
ReadIntact ==
  /\ handed = [k \in 1 .. Len(handed) |-> k]
  /\ \A n \in 0 .. MaxIn : WriteAsserts(readBuffer, n) /\ WriteAsserts(writeBuffer, n)

(* The layer above hears "connected" first, then messages, then at most    *)
(* one "disconnected" with nothing after it, whoever closes and however    *)
(* often.                                                                  *)
UpcallProtocol ==
  \A i \in DOMAIN upcalls :
    /\ (upcalls[i] = "connected") = (i = 1)
    /\ upcalls[i] = "disconnected" => i = Len(upcalls)

(* event_ is used after handleClose set it to NULL only when the           *)
(* connection was closed or shut down from this side; closing by the peer  *)
(* alone never does it, whatever send() calls are queued.                  *)
NullOnlyAfterLocalClose == crash = "null" => killer # "idle" \/ shutdowns

(* As long as no write is cut short, every message of send() reaches the   *)
(* wire while the connection lasts.                                        *)
SentUnlessStalled ==
  tasks = <<>> /\ user = "idle" /\ state = "eConnected" /\ ~stalled =>
    \A m \in 1 .. sent : <<m, Size>> \in Range(wire)

(* After forceClose the layer above is told, or the process crashes.       *)
CloseNotified ==
  killer = "queue" ~> "disconnected" \in Range(upcalls) \/ crash # "no"

(* NetConnection.cpp: "what was not written is kept in the write buffer    *)
(* and sent again when the socket becomes writable".                       *)
RemainderSent ==
  ReadableBytes(writeBuffer) > 0 ~> ReadableBytes(writeBuffer) = 0 \/ ~event \/ crash # "no"
=============================================================================

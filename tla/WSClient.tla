------------------------------ MODULE WSClient ------------------------------
(***************************************************************************)
(* The client: websocket/WSNet.cpp with HeartbeatSender, net/NetClient.cpp *)
(* and net/Connector.cpp, on one I/O loop.                                 *)
(*                                                                         *)
(* Actors: the loop, which connects, reads, and runs queued functors; the  *)
(* threads Timer::run starts, one for each expiry of a heartbeat timer,    *)
(* which run timerHandle; the user thread in WSNet::send; the server.      *)
(* HeartbeatSender::state_ (heart) is read and written by the loop and the *)
(* timer threads; setHeartState's lock covers the one assignment only.     *)
(*                                                                         *)
(* A heartbeat timer may expire whenever it is armed: its interval tells   *)
(* nothing about the delay of the network.  A failed assertion or a NULL   *)
(* pointer used ends the behaviour.                                        *)
(*                                                                         *)
(* The Connector polls the new socket with a handler of its own, and the   *)
(* connection made then with another for the same descriptor.              *)
(***************************************************************************)
EXTENDS Poller

CONSTANTS TimerThreads,  \* bound: timer threads at a time
          MaxPings,      \* bound: no timer expires with as many PINGs unanswered
          MaxTasks,      \* bound: no timer expires with as many functors queued
          MaxTimers      \* bound: heartbeat timers started

ASSUME ClientAssumption == /\ MaxPings \in Nat \ {0} /\ MaxTasks \in Nat \ {0}
                           /\ MaxTimers \in Nat \ {0}

VARIABLES connState,   \* Connector::state_
          connecting,  \* Connector::event_ # NULL: a connect() is under way
          tried,       \* calls of ::connect, counted up to 2
          poller,      \* the loop's SelectPoller
          conn,        \* NetClient::conn_: "NULL", or that connection's state_
          replaced,    \* establishConnection deleted a connection to replace it
          bconnected,  \* WSNet::bconnected_
          heart,       \* HeartbeatSender::state_
          net,         \* HeartbeatSender::net_ was set
          timers,      \* heartbeat timers on the loop
          loop,        \* the loop: "poll", or where it is in onConnected
          thread,      \* where each timer thread is in timerHandle
          tasks,       \* functors queued on the loop
          pings, pongs, \* PINGs the server has not answered, PONGs not read
          server,      \* "open", "silent": answers nothing more, "closed"
          user,        \* WSNet::send: "idle", "spin" (waits for bconnected_)
          crash        \* "no", "assert", "null"

clientVars == <<conn, replaced>>
connectVars == <<connState, connecting, tried, poller, clientVars, bconnected>>
heartVars == <<heart, net, timers>>
wireVars == <<pings, pongs, server>>
vars == <<connectVars, heartVars, wireVars, loop, thread, tasks, user, crash>>

HeartStates == {"eWaitPing", "eWaitPong", "eReconnect"}
LoopPcs == {"poll", "onConnected", "checkPing", "start", "startSet"}
ThreadPcs == {"none", "checkPing", "checkPong", "sendPing", "setPong", "connect", "setReconnect"}

TypeOK == /\ connState \in {"eDisconnected", "eConnected"}
          /\ connecting \in BOOLEAN /\ bconnected \in BOOLEAN /\ net \in BOOLEAN
          /\ tried \in 0 .. 2
          /\ Consistent(poller)
          /\ conn \in {"NULL", "eConnected", "eDisconnected"}
          /\ replaced \in BOOLEAN
          /\ heart \in HeartStates
          /\ timers \in 0 .. MaxTimers
          /\ loop \in LoopPcs
          /\ thread \in [TimerThreads -> ThreadPcs]
          /\ tasks \in Seq({"startInLoop", "ping"})
          /\ pings \in Nat /\ pongs \in Nat
          /\ server \in {"open", "silent", "closed"}
          /\ user \in {"idle", "spin"}
          /\ crash \in {"no", "assert", "null"}

(* WebSocket's constructor: new WSNet, and connect() queues startInLoop.   *)
Init == /\ connState = "eDisconnected" /\ connecting = FALSE /\ tried = 0
        /\ poller = EmptyPoller
        /\ conn = "NULL" /\ replaced = FALSE /\ bconnected = FALSE
        /\ heart = "eWaitPing" /\ net = FALSE /\ timers = 0
        /\ loop = "poll" /\ thread = [p \in TimerThreads |-> "none"]
        /\ tasks = <<"startInLoop">>
        /\ pings = 0 /\ pongs = 0 /\ server = "open"
        /\ user = "idle" /\ crash = "no"

-----------------------------------------------------------------------------
(* Connector and NetClient, in the loop.                                   *)

(* The descriptor of a new socket, and that of conn_: a connection's is    *)
(* never closed, so the number is not given out again.                     *)
NewFd == IF conn = "NULL" THEN 1 ELSE 2
ConnFd == IF replaced THEN 2 ELSE 1

(* Connector::connect: under way, when connectImpl polls the socket for    *)
(* writing unless there is a handler already, or failed at once; then      *)
(* retry only closes the socket, and other errors are ignored.             *)
Connect ==
  /\ tried' = IF tried = 2 THEN 2 ELSE tried + 1
  /\ \/ UNCHANGED <<connecting, poller>>
     \/ /\ ~connecting
        /\ connecting' = TRUE
        /\ poller' = RegisterEvHandler(poller, "connector", NewFd, {"write"})

(* Mutant: startInLoop without its assertion. *)
StartInLoopUnchecked ==
  /\ Connect
  /\ UNCHANGED <<crash, connState, conn, replaced, bconnected>>

StartInLoop ==
  \/ /\ connState = "eConnected"
     /\ crash' = "assert"
     /\ UNCHANGED connectVars
  \/ /\ connState = "eDisconnected"
     /\ Connect
     /\ UNCHANGED <<crash, connState, conn, replaced, bconnected>>

(* sendInReactor for a PING, counted while it may be answered *)
WritePing ==
  pings' = IF conn = "eConnected" /\ server = "open" THEN pings + 1 ELSE pings

RunTask ==
  /\ crash = "no" /\ loop = "poll" /\ tasks # <<>>
  /\ tasks' = Tail(tasks)
  /\ \/ Head(tasks) = "startInLoop" /\ StartInLoop /\ UNCHANGED wireVars
     \/ Head(tasks) = "ping" /\ WritePing /\ UNCHANGED <<connectVars, crash, pongs, server>>
  /\ UNCHANGED <<heartVars, loop, thread, user>>

(* POLLOUT of the socket: Connector::handleWrite *)
Connected == Reports(poller, "connector", NewFd, "write")

(* resetEvent: runInLoop in the loop's own thread deletes event_ at once.  *)
ResetEvent(p) == DeleteEvHandler(p, "connector", NewFd)

(* Mutant: event_ is deleted when the connection polls already. *)
HandOverLate(p) ==
  ResetEvent(RegisterEvHandler(p, "connection", NewFd, {"read"}))

(* connEstablished polls for reading, after resetEvent has freed the       *)
(* descriptor's place.                                                     *)
HandOver(p) ==
  RegisterEvHandler(ResetEvent(p), "connection", NewFd, {"read"})

(* retry returns before it starts its timer. *)
Retry == connState' = "eDisconnected"

(* Connector::handleWrite after an error *)
ConnectFails ==
  /\ crash = "no" /\ loop = "poll" /\ Connected
  /\ connecting' = FALSE /\ poller' = ResetEvent(poller)
  /\ Retry
  /\ UNCHANGED <<tried, conn, replaced, bconnected, heartVars, wireVars, loop, thread, tasks,
                 user, crash>>

(* Mutant: connEstablished is called before conn_ is set. *)
EstablishConnectionLate ==
  /\ UNCHANGED <<replaced, conn>>
  /\ bconnected' = TRUE
  /\ loop' = "onConnected"

(* Mutant: bconnected_ is not set. *)
EstablishConnectionQuiet ==
  /\ replaced' = (replaced \/ conn # "NULL")
  /\ conn' = "eConnected"
  /\ UNCHANGED bconnected
  /\ loop' = "onConnected"

(* establishConnection makes the connection, sets conn_ (deleting the one  *)
(* before) and calls connEstablished, which calls WSNet::onConnected.      *)
EstablishConnection ==
  /\ replaced' = (replaced \/ conn # "NULL")
  /\ conn' = "eConnected"
  /\ bconnected' = TRUE
  /\ loop' = "onConnected"

(* handleWrite without error; no retry timer was ever started to cancel *)
ConnectSucceeds ==
  /\ crash = "no" /\ loop = "poll" /\ Connected
  /\ connecting' = FALSE /\ poller' = HandOver(poller)
  /\ connState' = "eConnected"
  /\ EstablishConnection
  /\ UNCHANGED <<tried, heartVars, wireVars, thread, tasks, user, crash>>

Readable == conn = "eConnected" /\ Reports(poller, "connection", ConnFd, "read")

(* handleRead of an end of stream: handleClose, which calls onConnected    *)
(* and deletes event_.                                                     *)
ConnectionClosed ==
  /\ crash = "no" /\ loop = "poll" /\ Readable /\ server = "closed" /\ pongs = 0
  /\ conn' = "eDisconnected"
  /\ poller' = DeleteEvHandler(poller, "connection", ConnFd)
  /\ bconnected' = FALSE
  /\ loop' = "onConnected"
  /\ UNCHANGED <<connState, connecting, tried, replaced, heartVars, wireVars, thread, tasks,
                 user, crash>>

(* handleRead of a PONG: processPong *)
ProcessPong ==
  /\ crash = "no" /\ loop = "poll" /\ Readable /\ pongs > 0
  /\ pongs' = pongs - 1
  /\ heart' = "eWaitPing"
  /\ UNCHANGED <<connectVars, net, timers, pings, server, loop, thread, tasks, user, crash>>

-----------------------------------------------------------------------------
(* WSNet::onConnected and HeartbeatSender::start, in the loop, called when *)
(* the connection is made and again when it is closed.                     *)

(* sendHeartbeat from the loop: send writes at once.                       *)
SendHeartbeatInLoop ==
  \/ /\ conn = "NULL"
     /\ crash' = "null"
     /\ UNCHANGED pings
  \/ /\ conn # "NULL"
     /\ WritePing
     /\ UNCHANGED crash

(* if (getHeartState() == eReconnect) { setHeartState; sendHeartbeat } *)
OnConnected ==
  /\ crash = "no" /\ loop = "onConnected"
  /\ loop' = "checkPing"
  /\ \/ /\ heart = "eReconnect"
        /\ heart' = "eWaitPing"
        /\ SendHeartbeatInLoop
     \/ /\ heart # "eReconnect"
        /\ UNCHANGED <<heart, pings, crash>>
  /\ UNCHANGED <<connectVars, net, timers, pongs, server, thread, tasks, user>>

(* if (getHeartState() == eWaitPing) *)
OnConnectedCheck ==
  /\ crash = "no" /\ loop = "checkPing"
  /\ loop' = IF heart = "eWaitPing" THEN "start" ELSE "poll"
  /\ UNCHANGED <<connectVars, heartVars, wireVars, thread, tasks, user, crash>>

(* start: net_ = net; sendHeartbeat *)
Start ==
  /\ crash = "no" /\ loop = "start"
  /\ net' = TRUE
  /\ SendHeartbeatInLoop
  /\ loop' = "startSet"
  /\ UNCHANGED <<connectVars, heart, timers, pongs, server, thread, tasks, user>>

(* setHeartState(eWaitPong), and a new timer *)
StartTimer ==
  /\ crash = "no" /\ loop = "startSet"
  /\ heart' = "eWaitPong"
  /\ timers < MaxTimers /\ timers' = timers + 1
  /\ loop' = "poll"
  /\ UNCHANGED <<connectVars, net, wireVars, thread, tasks, user, crash>>

-----------------------------------------------------------------------------
(* The heartbeat timers and the threads that run timerHandle.              *)

At(p, pc) == crash = "no" /\ thread[p] = pc
Goto(p, pc) == thread' = [thread EXCEPT ![p] = pc]

(* eventRead: Timer::run starts a thread; the timer is armed again.        *)
TimerExpires(p) ==
  /\ At(p, "none") /\ loop = "poll" /\ timers > 0
  /\ Len(tasks) < MaxTasks
  /\ server = "open" => pings + pongs < MaxPings
  /\ Goto(p, "checkPing")
  /\ UNCHANGED <<connectVars, heartVars, wireVars, loop, tasks, user, crash>>

(* if (state_ == eWaitPing) *)
TimerCheckPing(p) ==
  /\ At(p, "checkPing")
  /\ Goto(p, IF heart = "eWaitPing" THEN "sendPing" ELSE "checkPong")
  /\ UNCHANGED <<connectVars, heartVars, wireVars, loop, tasks, user, crash>>

(* else if (state_ == eWaitPong); the other branches are empty *)
TimerCheckPong(p) ==
  /\ At(p, "checkPong")
  /\ Goto(p, IF heart = "eWaitPong" THEN "connect" ELSE "none")
  /\ UNCHANGED <<connectVars, heartVars, wireVars, loop, tasks, user, crash>>

(* sendHeartbeat: getConn()->send, queued if the connection is up.         *)
TimerSendPing(p) ==
  /\ At(p, "sendPing")
  /\ Goto(p, "setPong")
  /\ crash' = IF net /\ conn # "NULL" THEN "no" ELSE "null"
  /\ tasks' = IF conn = "eConnected" THEN Append(tasks, "ping") ELSE tasks
  /\ UNCHANGED <<connectVars, heartVars, wireVars, loop, user>>

TimerSetPong(p) ==
  /\ At(p, "setPong")
  /\ Goto(p, "none")
  /\ heart' = "eWaitPong"
  /\ UNCHANGED <<connectVars, net, timers, wireVars, loop, tasks, user, crash>>

(* Mutant: the state is set and connect() forgotten. *)
TimerConnectSkipped(p) ==
  /\ At(p, "connect")
  /\ Goto(p, "setReconnect")
  /\ UNCHANGED <<connectVars, heartVars, wireVars, loop, tasks, user, crash>>

(* net_->connect(): Connector::start queues startInLoop *)
TimerConnect(p) ==
  /\ At(p, "connect")
  /\ Goto(p, "setReconnect")
  /\ tasks' = Append(tasks, "startInLoop")
  /\ UNCHANGED <<connectVars, heartVars, wireVars, loop, user, crash>>

TimerSetReconnect(p) ==
  /\ At(p, "setReconnect")
  /\ Goto(p, "none")
  /\ heart' = "eReconnect"
  /\ UNCHANGED <<connectVars, net, timers, wireVars, loop, tasks, user, crash>>

-----------------------------------------------------------------------------
(* The user thread and the server.                                         *)

Send ==
  /\ crash = "no" /\ user = "idle"
  /\ user' = "spin"
  /\ UNCHANGED <<connectVars, heartVars, wireVars, loop, thread, tasks, crash>>

(* while (!bconnected_) sleep: then encodeFrame, and getConn()->send       *)
SendReturns ==
  /\ crash = "no" /\ user = "spin" /\ bconnected
  /\ user' = "idle"
  /\ UNCHANGED <<connectVars, heartVars, wireVars, loop, thread, tasks, crash>>

ServerPong ==
  /\ crash = "no" /\ server = "open" /\ pings > 0
  /\ pings' = pings - 1 /\ pongs' = pongs + 1
  /\ UNCHANGED <<connectVars, heartVars, server, loop, thread, tasks, user, crash>>

ServerStops ==
  /\ crash = "no" /\ server = "open"
  /\ server' \in {"silent", "closed"}
  /\ UNCHANGED <<connectVars, heartVars, pings, pongs, loop, thread, tasks, user, crash>>

ThreadStep(p) == TimerCheckPing(p) \/ TimerCheckPong(p) \/ TimerSendPing(p) \/ TimerSetPong(p)
                   \/ TimerConnect(p) \/ TimerSetReconnect(p)
LoopStep == RunTask \/ ConnectionClosed \/ ProcessPong
              \/ OnConnected \/ OnConnectedCheck \/ Start \/ StartTimer
ConnectEnds == ConnectFails \/ ConnectSucceeds

Next == \/ LoopStep \/ ConnectEnds
        \/ \E p \in TimerThreads : TimerExpires(p) \/ ThreadStep(p)
        \/ Send \/ SendReturns
        \/ ServerPong \/ ServerStops

Spec == Init /\ [][Next]_vars

(* The loop handles what poll reports and what is queued; connect() ends,  *)
(* by the kernel's timeout at the latest; timers keep expiring and their   *)
(* threads run; the spinning user thread looks again.                      *)
Fairness == /\ WF_vars(RunTask) /\ WF_vars(ConnectionClosed) /\ WF_vars(ProcessPong)
            /\ WF_vars(OnConnected \/ OnConnectedCheck \/ Start \/ StartTimer)
            /\ WF_vars(ConnectEnds)
            /\ WF_vars(\E p \in TimerThreads : TimerExpires(p))
            /\ \A p \in TimerThreads : WF_vars(ThreadStep(p))
            /\ WF_vars(SendReturns)

FairSpec == Spec /\ Fairness

-----------------------------------------------------------------------------
(* Properties.                                                             *)

(* Neither the heartbeat, from the loop or a timer thread, nor a user      *)
(* thread past its wait for bconnected_ finds net_ unset or conn_ NULL:    *)
(* HeartbeatSender::encFrameCallback does not test for it.                 *)
NeverNull ==
  /\ crash # "null"
  /\ bconnected => conn = "eConnected"

(* getConn() reads conn_ without mutex_, and callers keep the pointer; no  *)
(* connection is ever replaced and deleted under them.  A live connection  *)
(* has one heartbeat timer, although onConnected starts one on closing too.*)
OneConnection ==
  /\ ~replaced
  /\ conn = "eConnected" /\ loop = "poll" => timers = 1

(* A live connection is polled for reading, and no deleted handler is      *)
(* called: the Connector's has left the poller before the connection's     *)
(* enters with the same descriptor (Connector::handleWrite, resetEvent).   *)
PolledIsLive ==
  /\ Consistent(poller)
  /\ connecting => Connected
  /\ conn = "eConnected" => Readable
  /\ \A fd \in DOMAIN poller.evHandlers :
       IF poller.evHandlers[fd] = "connector" THEN connecting ELSE conn = "eConnected"

(* In state eReconnect timerHandle does nothing: the state is entered only *)
(* with a connect() under way, whatever PONG or expiry comes between.      *)
ReconnectPending ==
  heart = "eReconnect" => crash # "no" \/ "startInLoop" \in {tasks[i] : i \in DOMAIN tasks}

(* A server that stops answering is noticed: timerHandle calls connect().  *)
SilenceNoticed ==
  server # "open" /\ timers > 0 ~>
    crash # "no" \/ "startInLoop" \in {tasks[i] : i \in DOMAIN tasks}

(* WSNet::send returns, unless the one attempt to connect has failed or    *)
(* the connection was closed; then it waits for ever.                      *)
SendEnds ==
  user = "spin" ~> \/ user = "idle" \/ crash # "no"
                   \/ conn = "NULL" /\ tried > 0 /\ ~connecting
                   \/ conn = "eDisconnected"

(* Connector.cpp, startInLoop: assert(state_ == eDisconnected).            *)
StartsDisconnected == crash # "assert"
=============================================================================

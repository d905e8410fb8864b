--------------------------- MODULE WSClientProofs ---------------------------
(***************************************************************************)
(* Proofs about WSClient: the client makes at most one connection, with    *)
(* one heartbeat timer; no thread uses a connection before it is there;    *)
(* the loop polls exactly the handler that is alive; and the heartbeat     *)
(* waits for a reconnection only with a connect() queued.  For any number  *)
(* of timer threads, unanswered PINGs, queued functors and timers.         *)
(***************************************************************************)
EXTENDS WSClient, SequenceTheorems, TLAPS

(* A poller with one handler, of the first descriptor.                     *)
Sole(handler, events) ==
  [pollFds |-> <<[fd |-> 1, events |-> events]>>, evHandlers |-> [f \in {1} |-> handler]]

(* The Connector connects only while there is no connection, and what is   *)
(* polled is its handler or the live connection's.                         *)
ConnInv ==
  /\ conn = "NULL" <=> connState = "eDisconnected"
  /\ ~replaced
  /\ connecting => conn = "NULL" /\ poller = Sole("connector", {"write"})
  /\ bconnected <=> conn = "eConnected"
  /\ conn = "eConnected" => poller = Sole("connection", {"read"})
  /\ ~connecting /\ conn # "eConnected" => poller = EmptyPoller

(* The heartbeat starts in onConnected, once for a live connection; before *)
(* its first timer no thread runs that could change its state.             *)
HeartInv ==
  /\ loop # "poll" \/ timers > 0 => conn # "NULL"
  /\ loop = "startSet" \/ timers > 0 => net
  /\ timers = 0 => heart = "eWaitPing" /\ \A p \in TimerThreads : thread[p] = "none"
  /\ conn = "eConnected" => timers = IF loop = "poll" THEN 1 ELSE 0
  /\ crash # "null"

(* "startInLoop" is queued, or has run and met an assertion.               *)
Pending == crash # "no" \/ \E i \in DOMAIN tasks : tasks[i] = "startInLoop"

(* A thread that is about to set eReconnect has queued startInLoop.        *)
PendingInv ==
  heart = "eReconnect" \/ (\E p \in TimerThreads : thread[p] = "setReconnect") => Pending

(* TypeOK but for the poller, whose value ConnInv tells. *)
Types == /\ connState \in {"eDisconnected", "eConnected"}
         /\ tried \in 0 .. 2
         /\ conn \in {"NULL", "eConnected", "eDisconnected"}
         /\ heart \in HeartStates /\ timers \in 0 .. MaxTimers /\ loop \in LoopPcs
         /\ thread \in [TimerThreads -> ThreadPcs]
         /\ tasks \in Seq({"startInLoop", "ping"})
         /\ pings \in Nat /\ pongs \in Nat
         /\ server \in {"open", "silent", "closed"}
         /\ user \in {"idle", "spin"} /\ crash \in {"no", "assert", "null"}

Flags == connecting \in BOOLEAN /\ bconnected \in BOOLEAN /\ net \in BOOLEAN /\ replaced \in BOOLEAN

IInv == Types /\ Flags /\ ConnInv /\ HeartInv /\ PendingInv

-----------------------------------------------------------------------------
(* The poller.                                                             *)

(* Registering with an empty poller polls the handler alone.               *)
LEMMA RegisterFirst ==
  ASSUME NEW handler, NEW events
  PROVE  RegisterEvHandler(EmptyPoller, handler, 1, events) = Sole(handler, events)
<1>1. ~ Known(EmptyPoller, 1) /\ DOMAIN EmptyPoller.evHandlers = {}
  BY DEF Known, EmptyPoller
<1>2. Append(EmptyPoller.pollFds, [fd |-> 1, events |-> events]) = <<[fd |-> 1, events |-> events]>>
  BY DEF EmptyPoller
<1>3. [f \in DOMAIN EmptyPoller.evHandlers \cup {1} |->
          IF f = 1 THEN handler ELSE EmptyPoller.evHandlers[f]] = [f \in {1} |-> handler]
  BY <1>1
<1> QED BY <1>1, <1>2, <1>3 DEF RegisterEvHandler, Sole

(* Deleting the only handler leaves an empty poller.                       *)
LEMMA DeleteSole ==
  ASSUME NEW handler, NEW events
  PROVE  DeleteEvHandler(Sole(handler, events), handler, 1) = EmptyPoller
<1> DEFINE e(ev) == [fd |-> 1, events |-> ev]
<1>1. ASSUME NEW ev
      PROVE  /\ Sole(handler, ev).pollFds = <<e(ev)>> /\ Known(Sole(handler, ev), 1)
             /\ Sole(handler, ev).evHandlers = [f \in {1} |-> handler]
             /\ EntryOf(Sole(handler, ev), 1) = 1
  <2>1. /\ Sole(handler, ev).pollFds = <<e(ev)>>
        /\ Sole(handler, ev).evHandlers = [f \in {1} |-> handler]
    BY DEF Sole
  <2>2. Known(Sole(handler, ev), 1)
    BY <2>1 DEF Known
  <2>3. <<e(ev)>>[1].fd = 1 /\ DOMAIN <<e(ev)>> = {1}
    OBVIOUS
  <2>4. EntryOf(Sole(handler, ev), 1) = 1
    BY <2>1, <2>3 DEF EntryOf
  <2> QED BY <2>1, <2>2, <2>4
<1>2. RegisterEvHandler(Sole(handler, events), handler, 1, {}) = Sole(handler, {})
  <2>1. [<<e(events)>> EXCEPT ![1] = e({})] = <<e({})>>
    OBVIOUS
  <2> QED BY <1>1, <2>1 DEF RegisterEvHandler, Sole
<1>3. RemoveAt(<<e({})>>, 1) = <<>>
  BY DEF RemoveAt
<1>4. [f \in DOMAIN Sole(handler, {}).evHandlers \ {1} |-> Sole(handler, {}).evHandlers[f]] = <<>>
  <2> DEFINE g == [f \in DOMAIN Sole(handler, {}).evHandlers \ {1} |-> Sole(handler, {}).evHandlers[f]]
  <2>1. DOMAIN Sole(handler, {}).evHandlers \ {1} = {}
    BY <1>1
  <2>2. g = [f \in {} |-> handler]
    BY <2>1
  <2>3. [f \in {} |-> handler] \in [1 .. 0 -> {handler}]
    OBVIOUS
  <2>4. <<>> \in [1 .. 0 -> {handler}]
    BY EmptySeq, LenProperties
  <2>5. \A a, b \in [1 .. 0 -> {handler}] : a = b
    OBVIOUS
  <2> QED BY <2>2, <2>3, <2>4, <2>5
<1>5. RemoveEvHandler(Sole(handler, {}), 1) = EmptyPoller
  BY <1>1, <1>3, <1>4 DEF RemoveEvHandler, EmptyPoller
<1> QED BY <1>2, <1>5 DEF DeleteEvHandler

(* The sole handler is reported its events, and the poller is consistent.  *)
LEMMA SoleReports ==
  ASSUME NEW handler, NEW events
  PROVE  /\ Consistent(Sole(handler, events))
         /\ \A event \in events : Reports(Sole(handler, events), handler, 1, event)
         /\ DOMAIN Sole(handler, events).evHandlers = {1}
         /\ Sole(handler, events).evHandlers[1] = handler
<1>1. /\ Sole(handler, events).pollFds = <<[fd |-> 1, events |-> events]>>
      /\ Sole(handler, events).evHandlers = [f \in {1} |-> handler]
  BY DEF Sole
<1>2. /\ DOMAIN <<[fd |-> 1, events |-> events]>> = {1}
      /\ <<[fd |-> 1, events |-> events]>>[1] = [fd |-> 1, events |-> events]
  OBVIOUS
<1> QED BY <1>1, <1>2 DEF Consistent, Reports, Known

(* The empty poller is consistent and has no handler.                      *)
LEMMA EmptyReports == Consistent(EmptyPoller) /\ DOMAIN EmptyPoller.evHandlers = {}
BY DEF Consistent, EmptyPoller

-----------------------------------------------------------------------------
(* The types.                                                              *)

(* The functors that can be queued. *)
Functors == {"startInLoop", "ping"}

(* Steps of the loop keep the types.                                       *)
LEMMA LoopTypes == ASSUME Types, LoopStep \/ ConnectEnds PROVE Types'
<1> USE ClientAssumption DEF Types, HeartStates, LoopPcs, connectVars, clientVars, heartVars, wireVars
<1>1. CASE RunTask
  <2>1. tasks' \in Seq({"startInLoop", "ping"})
    BY <1>1, HeadTailProperties DEF RunTask
  <2>2. CASE StartInLoop /\ UNCHANGED wireVars
    BY <1>1, <2>1, <2>2 DEF RunTask, StartInLoop, Connect
  <2>3. CASE WritePing /\ UNCHANGED <<connectVars, crash, pongs, server>>
    BY <1>1, <2>1, <2>3 DEF RunTask, WritePing
  <2> QED BY <1>1, <2>2, <2>3 DEF RunTask
<1>2. CASE ConnectFails \/ ConnectSucceeds
  BY <1>2 DEF ConnectFails, Retry, ConnectSucceeds, EstablishConnection
<1>3. CASE ConnectionClosed \/ ProcessPong
  BY <1>3 DEF ConnectionClosed, ProcessPong
<1>4. CASE OnConnected \/ OnConnectedCheck \/ Start
  BY <1>4 DEF OnConnected, OnConnectedCheck, Start, SendHeartbeatInLoop, WritePing
<1>5. CASE StartTimer
  BY <1>5 DEF StartTimer
<1> QED BY <1>1, <1>2, <1>3, <1>4, <1>5 DEF LoopStep, ConnectEnds

(* So do those of the timer threads, the user and the server.              *)
LEMMA OtherTypes ==
  ASSUME Types,
         \/ \E p \in TimerThreads : TimerExpires(p) \/ ThreadStep(p)
         \/ Send \/ SendReturns \/ ServerPong \/ ServerStops
  PROVE  Types'
<1> USE DEF Types, HeartStates, ThreadPcs, connectVars, clientVars, heartVars, wireVars, At, Goto
<1>1. ASSUME NEW t \in Functors PROVE Append(tasks, t) \in Seq({"startInLoop", "ping"})
  BY <1>1, AppendProperties DEF Functors
<1>2. ASSUME NEW p \in TimerThreads, TimerExpires(p) \/ ThreadStep(p) PROVE Types'
  <2>1. CASE TimerExpires(p) \/ TimerCheckPing(p) \/ TimerCheckPong(p)
    BY <2>1 DEF TimerExpires, TimerCheckPing, TimerCheckPong
  <2>2. CASE TimerSetPong(p) \/ TimerSetReconnect(p)
    BY <2>2 DEF TimerSetPong, TimerSetReconnect
  <2>3. CASE TimerSendPing(p)
    BY <2>3, <1>1 DEF TimerSendPing, Functors
  <2>4. CASE TimerConnect(p)
    BY <2>4, <1>1 DEF TimerConnect, Functors
  <2> QED BY <1>2, <2>1, <2>2, <2>3, <2>4 DEF ThreadStep
<1>3. CASE Send \/ SendReturns \/ ServerPong \/ ServerStops
  BY <1>3 DEF Send, SendReturns, ServerPong, ServerStops
<1> QED BY <1>2, <1>3

(* The flags are Boolean. *)
LEMMA FlagsStep == ASSUME Flags, Next PROVE Flags'
<1> USE DEF Flags, connectVars, clientVars, heartVars
<1>1. CASE LoopStep
  <2>1. CASE RunTask
    BY <2>1, Zenon DEF RunTask, StartInLoop, Connect
  <2>2. CASE ConnectionClosed
    BY <2>2, Zenon DEF ConnectionClosed
  <2>3. CASE Start
    BY <2>3, Zenon DEF Start
  <2>4. CASE ProcessPong \/ OnConnected \/ OnConnectedCheck \/ StartTimer
    BY <2>4 DEF ProcessPong, OnConnected, OnConnectedCheck, StartTimer
  <2> QED BY <1>1, <2>1, <2>2, <2>3, <2>4 DEF LoopStep
<1>2. CASE ConnectFails
  BY <1>2, Zenon DEF ConnectFails
<1>3. CASE ConnectSucceeds
  BY <1>3, Zenon DEF ConnectSucceeds, EstablishConnection
<1>4. ASSUME NEW p \in TimerThreads, TimerExpires(p) \/ ThreadStep(p) PROVE Flags'
  BY <1>4 DEF ThreadStep, TimerExpires, TimerCheckPing, TimerCheckPong, TimerSetPong,
              TimerSetReconnect, TimerSendPing, TimerConnect
<1>5. CASE Send \/ SendReturns \/ ServerPong \/ ServerStops
  BY <1>5 DEF Send, SendReturns, ServerPong, ServerStops
<1> QED BY <1>1, <1>2, <1>3, <1>4, <1>5 DEF Next, ConnectEnds

-----------------------------------------------------------------------------
(* The connection.                                                         *)

(* Only these steps touch the Connector, the poller and conn_.             *)
LEMMA ConnectOnly ==
  ASSUME Next
  PROVE  \/ (RunTask /\ StartInLoop) \/ ConnectFails \/ ConnectSucceeds \/ ConnectionClosed
         \/ UNCHANGED connectVars
<1>1. CASE LoopStep
  BY <1>1 DEF LoopStep, RunTask, ProcessPong, OnConnected, OnConnectedCheck, Start, StartTimer
<1>2. ASSUME NEW p \in TimerThreads, TimerExpires(p) \/ ThreadStep(p) PROVE UNCHANGED connectVars
  BY <1>2 DEF ThreadStep, TimerExpires, TimerCheckPing, TimerCheckPong, TimerSetPong,
              TimerSetReconnect, TimerSendPing, TimerConnect
<1>3. CASE Send \/ SendReturns \/ ServerPong \/ ServerStops
  BY <1>3 DEF Send, SendReturns, ServerPong, ServerStops
<1> QED BY <1>1, <1>2, <1>3 DEF Next, ConnectEnds

(* A connection is made once, its handler polled when the Connector's has  *)
(* left the poller, and taken out when it closes.                          *)
LEMMA ConnStep == ASSUME Types, Flags, ConnInv, Next PROVE ConnInv'
<1> USE DEF Types, ConnInv, connectVars, clientVars
<1>1. CASE RunTask /\ StartInLoop
  <2>1. CASE UNCHANGED connectVars
    BY <2>1
  <2>2. CASE /\ connState = "eDisconnected" /\ ~connecting /\ connecting'
             /\ poller' = RegisterEvHandler(poller, "connector", NewFd, {"write"})
             /\ UNCHANGED <<connState, conn, replaced, bconnected>>
    <3>1. poller = EmptyPoller /\ NewFd = 1
      BY <2>2 DEF NewFd
    <3>2. poller' = Sole("connector", {"write"})
      BY <2>2, <3>1, RegisterFirst
    <3> QED BY <2>2, <3>2
  <2>3. CASE UNCHANGED <<connecting, poller, connState, conn, replaced, bconnected>>
    BY <2>3
  <2> QED BY <1>1, <2>1, <2>2, <2>3 DEF StartInLoop, Connect
<1>2. ASSUME Connected
      PROVE  connecting /\ conn = "NULL" /\ NewFd = 1 /\ ResetEvent(poller) = EmptyPoller
  <2>1. CASE connecting
    BY <2>1, DeleteSole DEF NewFd, ResetEvent
  <2>2. CASE ~connecting /\ conn = "eConnected"
    <3>1. poller.evHandlers = [f \in {1} |-> "connection"]
      BY <2>2 DEF Sole
    <3> QED BY <1>2, <3>1 DEF Connected, Reports, Known
  <2>3. CASE ~connecting /\ conn # "eConnected"
    BY <1>2, <2>3, EmptyReports DEF Connected, Reports, Known
  <2> QED BY <2>1, <2>2, <2>3
<1>3. CASE ConnectFails
  <2>1. ~connecting' /\ poller' = EmptyPoller /\ connState' = "eDisconnected"
        /\ UNCHANGED <<conn, replaced, bconnected>>
    BY <1>2, <1>3 DEF ConnectFails, Retry
  <2> QED BY <1>2, <1>3, <2>1 DEF ConnectFails
<1>4. CASE ConnectSucceeds
  <2>1. poller' = Sole("connection", {"read"})
    BY <1>2, <1>4, RegisterFirst DEF ConnectSucceeds, HandOver
  <2>2. ~connecting' /\ connState' = "eConnected" /\ conn' = "eConnected" /\ bconnected' /\ ~replaced'
    BY <1>2, <1>4 DEF ConnectSucceeds, EstablishConnection
  <2> QED BY <2>1, <2>2
<1>5. CASE ConnectionClosed
  <2>1. conn = "eConnected" /\ ConnFd = 1 /\ ~connecting
    BY <1>5 DEF ConnectionClosed, Readable, ConnFd
  <2>2. poller' = EmptyPoller
    BY <1>5, <2>1, DeleteSole DEF ConnectionClosed
  <2> QED BY <1>5, <2>1, <2>2 DEF ConnectionClosed
<1>6. CASE UNCHANGED connectVars
  BY <1>6
<1> QED BY <1>1, <1>3, <1>4, <1>5, <1>6, ConnectOnly

-----------------------------------------------------------------------------
(* The heartbeat.                                                          *)

(* The loop goes through onConnected once when a connection is made and    *)
(* once when it closes; the threads run only with a timer.                 *)
LEMMA HeartStep == ASSUME Types, ConnInv, HeartInv, Next PROVE HeartInv'
<1> USE ClientAssumption DEF Types, HeartInv, connectVars, clientVars, heartVars, wireVars
<1>1. CASE RunTask
  <2>1. /\ loop = "poll" /\ UNCHANGED <<heartVars, loop, thread, conn>>
        /\ crash' \in {crash, "assert"}
    BY <1>1 DEF RunTask, StartInLoop, Connect
  <2> QED BY <2>1
<1>2. CASE ConnectFails
  BY <1>2 DEF ConnectFails
<1>3. CASE ConnectSucceeds
  <2>1. conn = "NULL"
    <3>1. ~ (conn = "eConnected")
      <4> SUFFICES ASSUME conn = "eConnected" PROVE FALSE
        OBVIOUS
      <4>1. poller.evHandlers = [f \in {1} |-> "connection"]
        BY DEF Sole, ConnInv
      <4> QED BY <1>3, <4>1 DEF ConnectSucceeds, Connected, Reports, Known, ConnInv
    <3>2. ~ (conn = "eDisconnected")
      BY <1>3, EmptyReports DEF ConnectSucceeds, Connected, Reports, Known, ConnInv
    <3> QED BY <3>1, <3>2
  <2>2. timers = 0
    BY <2>1
  <2> QED BY <1>3, <2>2 DEF ConnectSucceeds, EstablishConnection
<1>4. CASE ConnectionClosed
  <2>1. conn = "eConnected" /\ conn' = "eDisconnected" /\ loop = "poll" /\ loop' = "onConnected"
        /\ UNCHANGED <<heartVars, thread, crash>>
    BY <1>4 DEF ConnectionClosed, Readable
  <2> QED BY <2>1
<1>5. CASE ProcessPong
  BY <1>5 DEF ProcessPong
<1>6. CASE OnConnected
  BY <1>6 DEF OnConnected, SendHeartbeatInLoop
<1>7. CASE OnConnectedCheck
  BY <1>7 DEF OnConnectedCheck
<1>8. CASE Start
  BY <1>8 DEF Start, SendHeartbeatInLoop
<1>9. CASE StartTimer
  BY <1>9 DEF StartTimer
<1>10. ASSUME NEW p \in TimerThreads, TimerExpires(p) \/ ThreadStep(p) PROVE HeartInv'
  <2>1. timers > 0 /\ timers # 0
    BY <1>10 DEF ThreadStep, TimerExpires, TimerCheckPing, TimerCheckPong, TimerSetPong,
                 TimerSetReconnect, TimerSendPing, TimerConnect, At
  <2>2. UNCHANGED <<timers, loop, conn, net>>
    BY <1>10 DEF ThreadStep, TimerExpires, TimerCheckPing, TimerCheckPong, TimerSetPong,
                 TimerSetReconnect, TimerSendPing, TimerConnect
  <2>3. crash' # "null"
    <3>1. CASE TimerSendPing(p)
      BY <2>1, <3>1 DEF TimerSendPing
    <3>2. CASE UNCHANGED crash
      BY <3>2
    <3> QED BY <1>10, <3>1, <3>2 DEF ThreadStep, TimerExpires, TimerCheckPing, TimerCheckPong,
                 TimerSetPong, TimerSetReconnect, TimerConnect
  <2> QED BY <2>1, <2>2, <2>3
<1>11. CASE Send \/ SendReturns \/ ServerPong \/ ServerStops
  BY <1>11 DEF Send, SendReturns, ServerPong, ServerStops
<1> QED BY <1>1, <1>2, <1>3, <1>4, <1>5, <1>6, <1>7, <1>8, <1>9, <1>10, <1>11
        DEF Next, LoopStep, ConnectEnds

(* A functor that is queued stays queued while others are.                 *)
LEMMA QueuedStays ==
  ASSUME Types, NEW t \in Functors, tasks' = Append(tasks, t)
  PROVE  /\ \A i \in DOMAIN tasks : i \in DOMAIN tasks' /\ tasks'[i] = tasks[i]
         /\ Len(tasks) + 1 \in DOMAIN tasks' /\ tasks'[Len(tasks) + 1] = t
BY AppendProperties, LenProperties DEF Types, Functors

(* startInLoop, queued when there has been a connection, leaves the queue  *)
(* only to fail its assertion.                                             *)
LEMMA PendingStep == ASSUME Types, ConnInv, HeartInv, PendingInv, Next PROVE PendingInv'
<1> USE DEF Types, PendingInv, Pending, connectVars, clientVars, heartVars, wireVars
<1>1. CASE RunTask
  <2>1. UNCHANGED <<heart, thread, timers>> /\ tasks # <<>> /\ tasks' = Tail(tasks)
    BY <1>1 DEF RunTask
  <2>2. CASE Head(tasks) = "startInLoop" /\ StartInLoop
    <3>1. ASSUME heart' = "eReconnect" \/ \E p \in TimerThreads : thread'[p] = "setReconnect"
          PROVE  crash' = "assert"
      <4>1. connState = "eConnected"
        BY <2>1, <3>1 DEF HeartInv, ConnInv
      <4> QED BY <2>2, <4>1 DEF StartInLoop
    <3> QED BY <3>1
  <2>3. CASE Head(tasks) = "ping" /\ UNCHANGED crash
    <3>1. ASSUME NEW i \in DOMAIN tasks, tasks[i] = "startInLoop"
          PROVE  i - 1 \in DOMAIN tasks' /\ tasks'[i - 1] = "startInLoop"
      <4>1. /\ Head(tasks) = tasks[1] /\ DOMAIN tasks = 1 .. Len(tasks) /\ Len(tasks) \in Nat
            /\ DOMAIN tasks' = 1 .. Len(tasks) - 1
            /\ \A j \in 1 .. Len(tasks) - 1 : tasks'[j] = tasks[j + 1]
        BY <2>1, HeadTailProperties, LenProperties
      <4>2. i # 1
        BY <2>3, <3>1, <4>1
      <4>3. i - 1 \in 1 .. Len(tasks) - 1 /\ (i - 1) + 1 = i
        BY <4>1, <4>2
      <4> QED BY <3>1, <4>1, <4>3
    <3> QED BY <2>1, <2>3, <3>1
  <2> QED BY <1>1, <2>2, <2>3 DEF RunTask
<1>2. ASSUME UNCHANGED tasks, crash' = crash \/ crash' # "no",
             heart' = "eReconnect" => heart = "eReconnect" \/ \E p \in TimerThreads : thread[p] = "setReconnect",
             \A p \in TimerThreads : thread'[p] = "setReconnect" => thread[p] = "setReconnect"
      PROVE  PendingInv'
  BY <1>2
<1>3. CASE ConnectFails \/ ConnectSucceeds \/ ConnectionClosed
  BY <1>2, <1>3 DEF ConnectFails, ConnectSucceeds, ConnectionClosed
<1>4. CASE ProcessPong \/ OnConnectedCheck \/ StartTimer
  BY <1>2, <1>4 DEF ProcessPong, OnConnectedCheck, StartTimer
<1>5. CASE OnConnected \/ Start
  BY <1>2, <1>5 DEF OnConnected, Start, SendHeartbeatInLoop
<1>6. CASE Send \/ SendReturns \/ ServerPong \/ ServerStops
  BY <1>2, <1>6 DEF Send, SendReturns, ServerPong, ServerStops
<1>7. ASSUME NEW p \in TimerThreads, TimerExpires(p) \/ ThreadStep(p) PROVE PendingInv'
  <2>1. CASE TimerExpires(p) \/ TimerCheckPing(p) \/ TimerCheckPong(p)
    BY <1>2, <2>1 DEF TimerExpires, TimerCheckPing, TimerCheckPong, Goto
  <2>2. CASE TimerSetPong(p)
    BY <1>2, <2>2 DEF TimerSetPong, Goto
  <2>3. CASE TimerSetReconnect(p)
    BY <1>2, <2>3 DEF TimerSetReconnect, Goto, At
  <2>4. CASE TimerConnect(p)
    BY <2>4, QueuedStays DEF TimerConnect, Functors
  <2>5. CASE TimerSendPing(p)
    <3>1. \A i \in DOMAIN tasks : i \in DOMAIN tasks' /\ tasks'[i] = tasks[i]
      BY <2>5, QueuedStays DEF TimerSendPing, Functors
    <3>2. \A q \in TimerThreads : thread'[q] = "setReconnect" => thread[q] = "setReconnect"
      BY <2>5 DEF TimerSendPing, Goto
    <3> QED BY <2>5, <3>1, <3>2 DEF TimerSendPing, At
  <2> QED BY <1>7, <2>1, <2>2, <2>3, <2>4, <2>5 DEF ThreadStep
<1> QED BY <1>1, <1>3, <1>4, <1>5, <1>6, <1>7 DEF Next, LoopStep, ConnectEnds

-----------------------------------------------------------------------------
(* The invariant holds from the construction of the WebSocket on.          *)
LEMMA Invariance == Spec => []IInv
<1>1. Init => IInv
  <2> SUFFICES ASSUME Init PROVE IInv
    OBVIOUS
  <2>1. Types
    <3>1. tasks \in Seq({"startInLoop", "ping"})
      BY DEF Init
    <3> QED BY <3>1, ClientAssumption DEF Init, Types, HeartStates, LoopPcs, ThreadPcs
  <2>2. Flags
    BY Zenon DEF Init, Flags
  <2>3. ConnInv /\ HeartInv /\ PendingInv
    BY DEF Init, ConnInv, HeartInv, PendingInv
  <2> QED BY <2>1, <2>2, <2>3 DEF IInv
<1>2. IInv /\ [Next]_vars => IInv'
  <2> SUFFICES ASSUME IInv, [Next]_vars PROVE IInv'
    OBVIOUS
  <2>1. CASE Next
    <3>1. Types'
      BY <2>1, LoopTypes, OtherTypes DEF IInv, Next
    <3> QED BY <2>1, <3>1, FlagsStep, ConnStep, HeartStep, PendingStep DEF IInv
  <2>2. CASE UNCHANGED vars
    BY <2>2 DEF vars, connectVars, clientVars, heartVars, wireVars, IInv, Types, Flags, ConnInv,
                HeartInv, PendingInv, Pending
  <2> QED BY <2>1, <2>2
<1> QED BY <1>1, <1>2, PTL DEF Spec

(* The poller in every state that the invariant allows.                    *)
LEMMA PollerStates == IInv => PolledIsLive
<1> SUFFICES ASSUME IInv PROVE PolledIsLive
  OBVIOUS
<1> USE DEF IInv, ConnInv, Types, PolledIsLive
<1>1. CASE connecting
  <2>1. NewFd = 1 /\ conn # "eConnected" /\ poller = Sole("connector", {"write"})
    BY <1>1 DEF NewFd
  <2> QED BY <1>1, <2>1, SoleReports DEF Connected
<1>2. CASE ~connecting /\ conn = "eConnected"
  <2>1. ConnFd = 1 /\ poller = Sole("connection", {"read"})
    BY <1>2 DEF ConnFd
  <2> QED BY <1>2, <2>1, SoleReports DEF Readable
<1>3. CASE ~connecting /\ conn # "eConnected"
  BY <1>3, EmptyReports
<1> QED BY <1>1, <1>2, <1>3

(* The types of WSNet's, HeartbeatSender's, NetClient's and Connector's    *)
(* members, and a poller whose assertions hold.                            *)
THEOREM ClientTypes == Spec => []TypeOK
<1>1. IInv => TypeOK
  <2> SUFFICES ASSUME IInv PROVE TypeOK
    OBVIOUS
  <2>1. Consistent(poller)
    BY PollerStates DEF PolledIsLive
  <2> QED BY <2>1 DEF IInv, Types, Flags, TypeOK
<1> QED BY <1>1, Invariance, PTL

(* Neither HeartbeatSender::sendHeartbeat, from any thread, nor WSNet::send*)
(* past its wait uses net_ or conn_ before they are set.                   *)
THEOREM ClientNeverNull == Spec => []NeverNull
<1>1. IInv => NeverNull
  BY DEF IInv, ConnInv, HeartInv, NeverNull
<1> QED BY <1>1, Invariance, PTL

(* NetClient::establishConnection runs once at most, so no conn_ that a    *)
(* thread holds is deleted, and a live connection has one heartbeat timer. *)
THEOREM ConnectsOnce == Spec => []OneConnection
<1>1. IInv => OneConnection
  BY DEF IInv, ConnInv, HeartInv, OneConnection
<1> QED BY <1>1, Invariance, PTL

(* HeartbeatSender is in eReconnect only with Connector::startInLoop       *)
(* queued, or after it has failed its assertion.                           *)
THEOREM ReconnectIsPending == Spec => []ReconnectPending
<1>1. IInv => ReconnectPending
  BY DEF IInv, PendingInv, Pending, ReconnectPending
<1> QED BY <1>1, Invariance, PTL

(* The loop polls the Connector's handler while a connect() is under way,  *)
(* the live connection's after it, and no other.                           *)
THEOREM PollsTheLive == Spec => []PolledIsLive
<1> QED BY PollerStates, Invariance, PTL
=============================================================================

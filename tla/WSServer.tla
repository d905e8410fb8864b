------------------------------ MODULE WSServer ------------------------------
(***************************************************************************)
(* The server's bookkeeping: net/NetServer.cpp (conns_), with Acceptor,    *)
(* and websocket/Heartbeat.cpp, HeartbeatRecv (connList_), as              *)
(* WebSocketServer wires them.                                             *)
(*                                                                         *)
(* Actors: the base loop, which accepts connections and removes closed     *)
(* ones from conns_; the one I/O loop (setThreadNum(1)), which runs the    *)
(* connections; the threads Timer::run starts every second, which walk     *)
(* connList_ and force silent connections closed; users of send; the peers.*)
(* There is no lock.  A timer thread compares with the time it took at the *)
(* start of its walk; its forceClose is three steps (as in NetConnection)  *)
(* and its erase another.  The I/O loop walks connList_ in one step here;  *)
(* when a timer thread is about to erase from it, the data race may end    *)
(* the process.                                                            *)
(*                                                                         *)
(* A connection is what NetConnection describes, reduced to state_ and     *)
(* event_.  Its id is its address and port: connIndex_ stays 0.  No        *)
(* NetConnection is ever deleted.                                          *)
(***************************************************************************)
EXTENDS Integers, Sequences, SequencesExt

CONSTANTS MaxConns,      \* bound: connections accepted, numbered from 1
          Ids,           \* addresses, which are the ids of connections
          Timeout,       \* ticks of silence that are allowed
          NoId           \* a connection that was not accepted yet

ASSUME ServerAssumption == MaxConns \in Nat /\ Timeout \in Nat /\ NoId \notin Ids

Conns == 1 .. MaxConns
NULL == 0              \* a NULL pointer in conns_
NoEntry == -1          \* an id conns_ does not have
NoConn == 0            \* a timer thread is at no entry of connList_

VARIABLES conns,      \* NetServer::conns_
          connId,     \* connId_ of each connection
          baseTasks,  \* removeConnInLoop calls queued on the base loop
          ioTasks,    \* functors queued on the I/O loop: <<name, connection>>
          state,      \* state_ of each connection
          event,      \* its event_ # NULL
          reading,    \* its events_ has csEventRead
          connList,   \* HeartbeatRecv::connList_
          age,        \* ticks since the time noted in its entry, 0 without one
          walk,       \* the timer thread in timerCallback: where, at which entry,
                      \* and the entries that are too old at its `now`
          peer,       \* "none", "open", "silent", "closed"
          closedBy,   \* history: who closed each connection
          victim,     \* history: the connection whose handleClose met NULL
          crash       \* "no", "null": handleClose with event_ NULL, "race"

netVars == <<conns, connId, baseTasks, ioTasks, state, event, reading>>
heartVars == <<connList, age, walk>>
histVars == <<closedBy, victim>>
vars == <<netVars, heartVars, peer, histVars, crash>>

TypeOK == /\ conns \in [Ids -> Conns \cup {NoEntry, NULL}]
          /\ connId \in [Conns -> Ids \cup {NoId}]
          /\ baseTasks \in Seq(Conns)
          /\ ioTasks \in Seq({"connEstablished", "handleClose"} \X Conns)
          /\ state \in [Conns -> {"eConnected", "eDisconnected"}]
          /\ event \in [Conns -> BOOLEAN] /\ reading \in [Conns -> BOOLEAN]
          /\ connList \in Seq(Conns)
          /\ age \in [Conns -> 0 .. Timeout + 1]
          /\ walk \in [pc : {"idle", "visit", "test", "set", "queue", "erase"},
                       at : Conns \cup {NoConn}, late : SUBSET Conns]
          /\ peer \in [Conns -> {"none", "open", "silent", "closed"}]
          /\ closedBy \in [Conns -> SUBSET {"peer", "heartbeat"}]
          /\ victim \in Conns \cup {NoConn}
          /\ crash \in {"no", "null", "race"}

Idle == [pc |-> "idle", at |-> NoConn, late |-> {}]
Visit(c, late) == [pc |-> "visit", at |-> c, late |-> late]

(* The constructors, and NetServer::start.                                 *)
Init == /\ conns = [i \in Ids |-> NoEntry] /\ connId = [c \in Conns |-> NoId]
        /\ baseTasks = <<>> /\ ioTasks = <<>>
        /\ state = [c \in Conns |-> "eDisconnected"]
        /\ event = [c \in Conns |-> FALSE] /\ reading = [c \in Conns |-> FALSE]
        /\ connList = <<>> /\ age = [c \in Conns |-> 0]
        /\ walk = Idle
        /\ peer = [c \in Conns |-> "none"]
        /\ closedBy = [c \in Conns |-> {}] /\ victim = NoConn
        /\ crash = "no"

-----------------------------------------------------------------------------
(* The base loop.                                                          *)

(* The next connection, from address i; an address comes again only when   *)
(* its last connection is over there.                                      *)
Connectable(c, i) == /\ \A d \in Conns : peer[d] = "none" <=> d >= c
                     /\ \A d \in Conns : connId[d] = i => peer[d] # "open"

(* Mutant: insert, which leaves an entry that is there as it is. *)
NewConnAcceptInsert(c, i) ==
  /\ crash = "no" /\ Connectable(c, i)
  /\ connId' = [connId EXCEPT ![c] = i]
  /\ peer' = [peer EXCEPT ![c] = "open"]
  /\ event' = [event EXCEPT ![c] = TRUE]
  /\ conns' = IF conns[i] = NoEntry THEN [conns EXCEPT ![i] = c] ELSE conns
  /\ ioTasks' = Append(ioTasks, <<"connEstablished", c>>)
  /\ UNCHANGED <<baseTasks, state, reading, heartVars, histVars, crash>>

(* Acceptor::handleRead and newConnAccept: conns_[buf] = conn, and         *)
(* connEstablished queued on the I/O loop.                                 *)
NewConnAccept(c, i) ==
  /\ crash = "no" /\ Connectable(c, i)
  /\ connId' = [connId EXCEPT ![c] = i]
  /\ peer' = [peer EXCEPT ![c] = "open"]
  /\ event' = [event EXCEPT ![c] = TRUE]
  /\ conns' = [conns EXCEPT ![i] = c]
  /\ ioTasks' = Append(ioTasks, <<"connEstablished", c>>)
  /\ UNCHANGED <<baseTasks, state, reading, heartVars, histVars, crash>>

(* conns_.erase(conn->connId()), whatever connection it is there for *)
RemoveConnInLoop ==
  /\ crash = "no" /\ baseTasks # <<>>
  /\ conns' = [conns EXCEPT ![connId[Head(baseTasks)]] = NoEntry]
  /\ baseTasks' = Tail(baseTasks)
  /\ UNCHANGED <<connId, ioTasks, state, event, reading, heartVars, peer, histVars, crash>>

-----------------------------------------------------------------------------
(* The I/O loop.                                                           *)

(* updateConn: the time is noted in c's entry, or an entry is added; a     *)
(* timer thread that has not looked at it yet will find it young.          *)
UpdateConn(c) ==
  /\ connList' = IF Contains(connList, c) THEN connList ELSE Append(connList, c)
  /\ age' = [age EXCEPT ![c] = 0]
  /\ walk' = [walk EXCEPT !.late = @ \ {c}]
  /\ crash' \in IF walk.pc = "erase" THEN {"no", "race"} ELSE {"no"}

(* WebSocketServer::onConnNew, called when a connection comes up and when  *)
(* it closes                                                               *)
OnConnNew(c) == UpdateConn(c)

(* NetServer::getconn: operator[] adds a NULL entry for an unknown id,     *)
(* unless the map is empty.                                                *)
GetConn(i) ==
  conns' = IF conns[i] = NoEntry /\ \E j \in Ids : conns[j] # NoEntry
           THEN [conns EXCEPT ![i] = NULL] ELSE conns

(* connEstablished *)
ConnEstablished(c) ==
  /\ state' = [state EXCEPT ![c] = "eConnected"]
  /\ OnConnNew(c)
  /\ reading' = [reading EXCEPT ![c] = TRUE]
  /\ UNCHANGED <<event, baseTasks, victim>>

(* handleClose: onConnNew, then NetServer::removeConn *)
HandleClose(c) ==
  \/ /\ ~event[c]
     /\ crash' = "null" /\ victim' = c
     /\ UNCHANGED <<state, event, reading, baseTasks, heartVars>>
  \/ /\ event[c]
     /\ state' = [state EXCEPT ![c] = "eDisconnected"]
     /\ OnConnNew(c)
     /\ baseTasks' = Append(baseTasks, c)
     /\ event' = [event EXCEPT ![c] = FALSE] /\ reading' = [reading EXCEPT ![c] = FALSE]
     /\ UNCHANGED victim

RunTask ==
  /\ crash = "no" /\ ioTasks # <<>>
  /\ ioTasks' = Tail(ioTasks)
  /\ LET t == Head(ioTasks)
     IN  \/ t[1] = "connEstablished" /\ ConnEstablished(t[2])
         \/ t[1] = "handleClose" /\ HandleClose(t[2])
  /\ UNCHANGED <<conns, connId, peer, closedBy>>

(* handleRead of a message: updateConn, then a PONG is sent, or the user's *)
(* callback runs, which may send to any id.                                *)
Message(c) ==
  /\ crash = "no" /\ event[c] /\ reading[c] /\ peer[c] = "open"
  /\ UpdateConn(c)
  /\ UNCHANGED conns \/ \E i \in Ids : GetConn(i)
  /\ UNCHANGED <<connId, baseTasks, ioTasks, state, event, reading, peer, histVars>>

(* handleRead of the end of the stream *)
ReadEof(c) ==
  /\ crash = "no" /\ event[c] /\ reading[c] /\ peer[c] = "closed"
  /\ HandleClose(c)
  /\ closedBy' = [closedBy EXCEPT ![c] = @ \cup {"peer"}]
  /\ UNCHANGED <<conns, connId, ioTasks, peer>>

(* WebSocketServer::send from a thread of the user's *)
Send(i) ==
  /\ crash = "no"
  /\ GetConn(i)
  /\ UNCHANGED <<connId, baseTasks, ioTasks, state, event, reading, heartVars, peer, histVars,
                 crash>>

-----------------------------------------------------------------------------
(* timerCallback, in a thread of its own; one is over before the next      *)
(* starts, a second later.                                                 *)

(* the entry after c, or the end of the walk *)
After(c) ==
  IF \E i \in 1 .. Len(connList) - 1 : connList[i] = c
  THEN Visit(connList[CHOOSE i \in 2 .. Len(connList) : connList[i - 1] = c], walk.late \ {c})
  ELSE Idle

(* now = Timestamp::now(), once, and the first entry *)
TimerStart ==
  /\ crash = "no" /\ walk = Idle /\ connList # <<>>
  /\ walk' = Visit(Head(connList), {c \in Conns : age[c] > Timeout})
  /\ UNCHANGED <<netVars, connList, age, peer, histVars, crash>>

(* if (now - it->second > timeout) *)
TimerVisit ==
  /\ crash = "no" /\ walk.pc = "visit"
  /\ walk' = IF walk.at \in walk.late THEN [walk EXCEPT !.pc = "test"] ELSE After(walk.at)
  /\ UNCHANGED <<netVars, connList, age, peer, histVars, crash>>

(* Mutant: the entry is erased and the connection left open. *)
ForceCloseNever ==
  /\ crash = "no" /\ walk.pc = "test"
  /\ walk' = [walk EXCEPT !.pc = "erase"]
  /\ UNCHANGED <<netVars, connList, age, peer, histVars, crash>>

(* Mutant: the entry of a connection that is closed already is kept. *)
ForceCloseKeeps ==
  /\ crash = "no" /\ walk.pc = "test"
  /\ walk' = IF state[walk.at] = "eConnected" THEN [walk EXCEPT !.pc = "set"]
             ELSE After(walk.at)
  /\ UNCHANGED <<netVars, connList, age, peer, histVars, crash>>

(* it->first->forceClose(): if (state_ == eConnected) *)
ForceClose ==
  /\ crash = "no" /\ walk.pc = "test"
  /\ walk' = [walk EXCEPT !.pc = IF state[walk.at] = "eConnected" THEN "set" ELSE "erase"]
  /\ UNCHANGED <<netVars, connList, age, peer, histVars, crash>>

(* Mutant: state_ is left to handleClose. *)
ForceCloseSetNothing ==
  /\ crash = "no" /\ walk.pc = "set"
  /\ walk' = [walk EXCEPT !.pc = "queue"]
  /\ UNCHANGED <<netVars, connList, age, peer, histVars, crash>>

(* state_ = eDisconnected *)
ForceCloseSet ==
  /\ crash = "no" /\ walk.pc = "set"
  /\ state' = [state EXCEPT ![walk.at] = "eDisconnected"]
  /\ walk' = [walk EXCEPT !.pc = "queue"]
  /\ UNCHANGED <<conns, connId, baseTasks, ioTasks, event, reading, connList, age, peer,
                 histVars, crash>>

(* runInLoop(handleClose) *)
ForceCloseQueue ==
  /\ crash = "no" /\ walk.pc = "queue"
  /\ ioTasks' = Append(ioTasks, <<"handleClose", walk.at>>)
  /\ closedBy' = [closedBy EXCEPT ![walk.at] = @ \cup {"heartbeat"}]
  /\ walk' = [walk EXCEPT !.pc = "erase"]
  /\ UNCHANGED <<conns, connId, baseTasks, state, event, reading, connList, age, peer,
                 victim, crash>>

(* it = connList_.erase(it); it--, and the loop's it++: the next entry,    *)
(* also from the first one, where it-- gives the list's end.               *)
Erase(c) ==
  /\ connList' = RemoveAt(connList, CHOOSE i \in DOMAIN connList : connList[i] = c)
  /\ age' = [age EXCEPT ![c] = 0]
  /\ walk' = After(c)

TimerErase ==
  /\ crash = "no" /\ walk.pc = "erase"
  /\ Erase(walk.at)
  /\ UNCHANGED <<netVars, peer, histVars, crash>>

-----------------------------------------------------------------------------
(* The clock and the peers.                                                *)

Tick ==
  /\ crash = "no"
  /\ age' = [c \in Conns |-> IF Contains(connList, c) /\ age[c] <= Timeout
                             THEN age[c] + 1 ELSE age[c]]
  /\ UNCHANGED <<netVars, connList, walk, peer, histVars, crash>>

PeerStops(c) ==
  /\ crash = "no"
  /\ \/ peer[c] = "open" /\ peer' = [peer EXCEPT ![c] = "silent"]
     \/ peer[c] \in {"open", "silent"} /\ peer' = [peer EXCEPT ![c] = "closed"]
  /\ UNCHANGED <<netVars, heartVars, histVars, crash>>

TimerStep == \/ TimerStart \/ TimerVisit
             \/ ForceClose \/ ForceCloseSet \/ ForceCloseQueue \/ TimerErase

Next == \/ RemoveConnInLoop \/ RunTask \/ Tick
        \/ \E c \in Conns, i \in Ids : NewConnAccept(c, i)
        \/ \E c \in Conns : Message(c) \/ ReadEof(c) \/ PeerStops(c)
        \/ \E i \in Ids : Send(i)
        \/ TimerStep

Spec == Init /\ [][Next]_vars

(* Both loops run, time passes, the timer repeats (TimerQueue) and the     *)
(* threads it starts run.                                                  *)
FairSpec == /\ Spec
            /\ WF_vars(RemoveConnInLoop) /\ WF_vars(RunTask) /\ WF_vars(Tick)
            /\ \A c \in Conns : WF_vars(ReadEof(c))
            /\ WF_vars(TimerStep)

-----------------------------------------------------------------------------
(* Properties.                                                             *)

(* A connection that is up is watched: it has an entry in connList_,       *)
(* although timer threads erase entries and a closing connection adds one. *)
Watched == \A c \in Conns : state[c] = "eConnected" => Contains(connList, c)

(* getconn finds a connection that is up under its id, also after a send   *)
(* to that id left a NULL there; unless another connection had the same    *)
(* address, whose removal takes the new one's entry with it (connIndex_).  *)
Registered ==
  \A c \in Conns :
    state[c] = "eConnected" =>
      \/ conns[connId[c]] = c
      \/ \E d \in Conns \ {c} : connId[d] = connId[c] /\ peer[d] # "none"

(* The connection whose handleClose meets a NULL event_ was closed both by *)
(* its peer (handleRead of the end of its stream) and by the heartbeat     *)
(* (forceClose); a connection that one of them alone closes never leads    *)
(* there, however the steps of forceClose and of the loop interleave.      *)
NullOnlyIfBothClose ==
  crash = "null" => victim \in Conns /\ closedBy[victim] = {"peer", "heartbeat"}

(* A connection whose peer is silent is closed and taken out of conns_.    *)
SilentDropped ==
  \A c \in Conns :
    reading[c] /\ peer[c] = "silent" ~>
      crash # "no" \/ (~event[c] /\ \A i \in Ids : conns[i] # c)

(* A connection that was closed leaves connList_ for good, although        *)
(* closing it adds it again: its NetConnection is not watched for ever.    *)
ClosedForgotten ==
  \A c \in Conns :
    peer[c] # "none" /\ ~event[c] ~> crash # "no" \/ [](~Contains(connList, c))
=============================================================================

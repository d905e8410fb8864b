--------------------------- MODULE WSServerProofs ---------------------------
(***************************************************************************)
(* Proofs about WSServer: a connection that is up is watched by the        *)
(* heartbeat and found under its id, and the connection whose handleClose  *)
(* meets a NULL event_ was closed by its peer and forced closed by the     *)
(* heartbeat; for any number of connections, addresses and any timeout.    *)
(***************************************************************************)
EXTENDS WSServer, SequenceTheorems, TLAPS

Accepted(c) == peer[c] # "none"

(* Only accepted connections have a past.                                  *)
FreshInv ==
  \A c \in Conns :
    IF Accepted(c) THEN connId[c] \in Ids
    ELSE state[c] = "eDisconnected" /\ ~event[c] /\ ~reading[c]

(* What connEstablished and handleClose leave: a connection that is up has *)
(* its handler and reads.                                                  *)
UpInv == \A c \in Conns : state[c] = "eConnected" => event[c] /\ reading[c]

(* A connection has at most one functor on the I/O loop, and is not up     *)
(* while it has: connEstablished is queued once, and forceClose finds the  *)
(* connection up only after that has run and before it is closed.  The     *)
(* handler is gone before only if the end of the peer's stream was read.   *)
TaskInv ==
  /\ \A i, j \in DOMAIN ioTasks : ioTasks[i][2] = ioTasks[j][2] => i = j
  /\ \A i \in DOMAIN ioTasks :
       /\ Accepted(ioTasks[i][2])
       /\ state[ioTasks[i][2]] = "eDisconnected"
       /\ event[ioTasks[i][2]] \/ "peer" \in closedBy[ioTasks[i][2]]
       /\ ioTasks[i][1] = "connEstablished" => event[ioTasks[i][2]] /\ ~reading[ioTasks[i][2]]
       /\ ioTasks[i][1] = "handleClose" => "heartbeat" \in closedBy[ioTasks[i][2]]

(* Closed connections are the ones removed from conns_ by their id.        *)
RemovalInv ==
  \A i \in DOMAIN baseTasks : Accepted(baseTasks[i]) /\ ~event[baseTasks[i]]

(* No other connection had the address of c.                               *)
OwnId(c) == \A d \in Conns \ {c} : Accepted(d) => connId[d] # connId[c]

(* A connection whose handler is alive is in conns_, if it is the only one *)
(* with its id.                                                            *)
EntryInv == \A c \in Conns : event[c] /\ OwnId(c) => conns[connId[c]] = c

(* A connection has one entry in connList_, and the timer thread is at one *)
(* that is in the list: no other thread erases.                            *)
WalkInv ==
  /\ \A i, j \in DOMAIN connList : connList[i] = connList[j] => i = j
  /\ walk.pc # "idle" => \E i \in DOMAIN connList : connList[i] = walk.at

(* A connection in connList_ has been up: its connEstablished has run.     *)
ListInv ==
  \A i \in DOMAIN connList :
    Accepted(connList[i]) /\ (event[connList[i]] => reading[connList[i]])

(* Between its test and its runInLoop, forceClose's connection has nothing *)
(* queued; from its assignment on, the connection is not up.               *)
ForceInv ==
  /\ walk.pc \in {"set", "queue"} =>
       /\ Accepted(walk.at)
       /\ event[walk.at] \/ "peer" \in closedBy[walk.at]
       /\ \A i \in DOMAIN ioTasks : ioTasks[i][2] # walk.at
  /\ walk.pc \in {"queue", "erase"} => state[walk.at] = "eDisconnected"

IInv == /\ TypeOK /\ FreshInv /\ UpInv /\ TaskInv /\ RemovalInv /\ EntryInv /\ WalkInv
        /\ ListInv /\ ForceInv /\ Watched /\ NullOnlyIfBothClose

-----------------------------------------------------------------------------
(* Sequences.                                                              *)

(* RemoveAt closes the gap and keeps every other element.                  *)
LEMMA RemoveAtProperties ==
  ASSUME NEW S, NEW s \in Seq(S), NEW k \in 1 .. Len(s)
  PROVE  /\ RemoveAt(s, k) \in Seq(S)
         /\ Len(RemoveAt(s, k)) = Len(s) - 1
         /\ \A j \in 1 .. Len(s) - 1 : RemoveAt(s, k)[j] = IF j < k THEN s[j] ELSE s[j + 1]
<1> DEFINE a == SubSeq(s, 1, k - 1)
           b == SubSeq(s, k + 1, Len(s))
<1>1. Len(s) \in Nat /\ \A i \in 1 .. Len(s) : s[i] \in S
  BY LenProperties, ElementOfSeq
<1>2. /\ a \in Seq(S) /\ Len(a) = k - 1
      /\ \A i \in 1 .. k - 1 : a[i] = s[i]
  <2>1. \A i \in 1 .. k - 1 : s[i] \in S
    BY <1>1
  <2> QED BY <1>1, <2>1, SubSeqProperties
<1>3. /\ b \in Seq(S) /\ Len(b) = Len(s) - k
      /\ \A i \in 1 .. Len(s) - k : b[i] = s[k + i]
  <2>1. \A i \in k + 1 .. Len(s) : s[i] \in S
    BY <1>1
  <2>2. /\ b \in Seq(S)
        /\ Len(b) = IF k + 1 <= Len(s) THEN Len(s) - (k + 1) + 1 ELSE 0
        /\ \A i \in 1 .. Len(s) - (k + 1) + 1 : b[i] = s[(k + 1) + i - 1]
    BY <1>1, <2>1, SubSeqProperties
  <2> QED BY <1>1, <2>2
<1> HIDE DEF a, b
<1>4. /\ a \o b \in Seq(S) /\ Len(a \o b) = Len(a) + Len(b)
      /\ \A i \in 1 .. Len(a) + Len(b) : (a \o b)[i] = IF i <= Len(a) THEN a[i] ELSE b[i - Len(a)]
  BY <1>2, <1>3, ConcatProperties
<1>5. RemoveAt(s, k) = a \o b
  BY DEF RemoveAt, a, b
<1>6. ASSUME NEW j \in 1 .. Len(s) - 1
      PROVE  (a \o b)[j] = IF j < k THEN s[j] ELSE s[j + 1]
  <2>1. CASE j < k
    <3>1. j \in 1 .. k - 1 /\ j <= Len(a) /\ j \in 1 .. Len(a) + Len(b)
      BY <1>1, <1>2, <1>3, <2>1
    <3> QED BY <2>1, <3>1, <1>2, <1>4
  <2>2. CASE ~ (j < k)
    <3>1. /\ j - (k - 1) \in 1 .. Len(s) - k /\ ~ (j <= Len(a)) /\ j \in 1 .. Len(a) + Len(b)
          /\ k + (j - (k - 1)) = j + 1 /\ j - Len(a) = j - (k - 1)
      BY <1>1, <1>2, <1>3, <2>2
    <3>2. (a \o b)[j] = b[j - (k - 1)]
      BY <3>1, <1>4
    <3>3. b[j - (k - 1)] = s[k + (j - (k - 1))]
      BY <3>1, <1>3
    <3> QED BY <2>2, <3>1, <3>2, <3>3
  <2> QED BY <2>1, <2>2
<1>7. Len(a \o b) = Len(s) - 1
  BY <1>1, <1>2, <1>3, <1>4
<1> QED BY <1>4, <1>5, <1>6, <1>7

-----------------------------------------------------------------------------
(* connList_ and the timer thread.                                         *)

(* c has an entry in the list. *)
In(c, list) == \E i \in DOMAIN list : list[i] = c

(* Contains of a list is the existence of a position.                      *)
LEMMA WatchedIs == ASSUME TypeOK, NEW d PROVE Contains(connList, d) <=> In(d, connList)
BY LenProperties DEF TypeOK, Contains, In

(* updateConn adds an entry only where there is none.                      *)
LEMMA UpdateKeeps ==
  ASSUME TypeOK, WalkInv, NEW c \in Conns, UpdateConn(c)
  PROVE  /\ connList' \in Seq(Conns) /\ WalkInv'
         /\ \A d : In(d, connList) \/ d = c => In(d, connList')
         /\ \A d : In(d, connList') => In(d, connList) \/ d = c
         /\ walk'.pc = walk.pc /\ walk'.at = walk.at
<1>a. walk'.pc = walk.pc /\ walk'.at = walk.at
  BY DEF UpdateConn, TypeOK
<1>1. CASE Contains(connList, c)
  BY <1>1, <1>a, WatchedIs DEF UpdateConn, TypeOK, WalkInv, In
<1>2. CASE ~ Contains(connList, c)
  <2>1. connList' = Append(connList, c)
    BY <1>2 DEF UpdateConn
  <2>2. /\ connList' \in Seq(Conns) /\ Len(connList') = Len(connList) + 1
        /\ \A i \in 1 .. Len(connList) : connList'[i] = connList[i]
        /\ connList'[Len(connList) + 1] = c
        /\ Len(connList) \in Nat /\ DOMAIN connList = 1 .. Len(connList)
        /\ DOMAIN connList' = 1 .. Len(connList) + 1
    BY <2>1, AppendProperties, LenProperties DEF TypeOK
  <2>3. \A i \in DOMAIN connList : connList[i] # c
    BY <1>2, WatchedIs DEF In
  <2> HIDE DEF Conns
  <2>4. WalkInv'
    BY <1>a, <2>2, <2>3 DEF WalkInv
  <2>5. /\ \A d : In(d, connList) \/ d = c => In(d, connList')
        /\ \A d : In(d, connList') => In(d, connList) \/ d = c
    BY <2>2 DEF In
  <2> QED BY <1>a, <2>2, <2>4, <2>5
<1> QED BY <1>1, <1>2

(* The next entry of the walk is another one of the list.                  *)
LEMMA AfterIs ==
  ASSUME TypeOK, WalkInv, NEW c
  PROVE  \/ After(c) = Idle
         \/ \E i \in DOMAIN connList : After(c) = Visit(connList[i], walk.late \ {c})
                                      /\ connList[i] # c
<1>1. Len(connList) \in Nat /\ DOMAIN connList = 1 .. Len(connList)
  BY LenProperties DEF TypeOK
<1>2. CASE \E i \in 1 .. Len(connList) - 1 : connList[i] = c
  <2>1. \E i \in 2 .. Len(connList) : connList[i - 1] = c
    <3>1. PICK i \in 1 .. Len(connList) - 1 : connList[i] = c
      BY <1>2
    <3>2. i + 1 \in 2 .. Len(connList) /\ (i + 1) - 1 = i
      BY <1>1, <3>1
    <3> QED BY <3>1, <3>2
  <2> DEFINE k == CHOOSE i \in 2 .. Len(connList) : connList[i - 1] = c
  <2>2. k \in 2 .. Len(connList) /\ connList[k - 1] = c
    BY <2>1
  <2>3. After(c) = Visit(connList[k], walk.late \ {c})
    BY <1>2 DEF After
  <2> HIDE DEF k
  <2>4. k \in DOMAIN connList /\ k - 1 \in DOMAIN connList /\ k - 1 # k
    BY <1>1, <2>2
  <2> QED BY <2>2, <2>3, <2>4 DEF WalkInv
<1>3. CASE ~ \E i \in 1 .. Len(connList) - 1 : connList[i] = c
  BY <1>3 DEF After
<1> QED BY <1>2, <1>3

(* Erasing the entry the timer thread is at takes no other out, and the    *)
(* thread goes on with one that is still there.                            *)
LEMMA EraseKeeps ==
  ASSUME TypeOK, WalkInv, NEW c \in Conns, In(c, connList), Erase(c)
  PROVE  /\ connList' \in Seq(Conns) /\ WalkInv'
         /\ walk' = Idle \/ \E d \in Conns : walk' = Visit(d, walk.late \ {c})
         /\ \A d : In(d, connList) /\ d # c => In(d, connList')
         /\ \A d : In(d, connList') => In(d, connList)
<1> DEFINE k == CHOOSE i \in DOMAIN connList : connList[i] = c
<1>1. Len(connList) \in Nat /\ DOMAIN connList = 1 .. Len(connList)
  BY LenProperties DEF TypeOK
<1>2. k \in 1 .. Len(connList) /\ connList[k] = c
  BY <1>1 DEF In
<1>3. connList' = RemoveAt(connList, k) /\ walk' = After(c)
  BY DEF Erase
<1> HIDE DEF k, Conns
<1>4. /\ connList' \in Seq(Conns) /\ DOMAIN connList' = 1 .. Len(connList) - 1
      /\ \A j \in 1 .. Len(connList) - 1 :
           connList'[j] = IF j < k THEN connList[j] ELSE connList[j + 1]
  <2>1. connList \in Seq(Conns)
    BY DEF TypeOK
  <2>2. /\ connList' \in Seq(Conns) /\ Len(connList') = Len(connList) - 1
        /\ \A j \in 1 .. Len(connList) - 1 :
             connList'[j] = IF j < k THEN connList[j] ELSE connList[j + 1]
    BY <1>2, <1>3, <2>1, RemoveAtProperties
  <2> QED BY <2>2, LenProperties
<1>5. ASSUME NEW d, In(d, connList), d # c PROVE In(d, connList')
  <2>1. PICK i \in 1 .. Len(connList) : connList[i] = d
    BY <1>1, <1>5 DEF In
  <2>2. CASE i < k
    <3>1. i \in 1 .. Len(connList) - 1
      BY <1>1, <1>2, <2>2
    <3> QED BY <1>4, <2>1, <2>2, <3>1 DEF In
  <2>3. CASE i > k
    <3>1. i - 1 \in 1 .. Len(connList) - 1 /\ ~ (i - 1 < k) /\ (i - 1) + 1 = i
      BY <1>1, <1>2, <2>3
    <3>2. connList'[i - 1] = d
      BY <1>4, <2>1, <3>1
    <3> QED BY <1>4, <3>1, <3>2 DEF In
  <2> QED BY <1>2, <1>5, <2>1, <2>2, <2>3
<1>8. ASSUME NEW d, In(d, connList') PROVE In(d, connList)
  <2>1. PICK j \in 1 .. Len(connList) - 1 : connList'[j] = d
    BY <1>4, <1>8 DEF In
  <2> QED BY <1>1, <1>4, <2>1 DEF In
<1>6. ASSUME NEW i \in DOMAIN connList', NEW j \in DOMAIN connList', connList'[i] = connList'[j]
      PROVE  i = j
  <2> DEFINE o(n) == IF n < k THEN n ELSE n + 1
  <2>1. o(i) \in DOMAIN connList /\ o(j) \in DOMAIN connList
    BY <1>1, <1>2, <1>4
  <2>2. connList'[i] = connList[o(i)] /\ connList'[j] = connList[o(j)]
    BY <1>4
  <2>3. o(i) = o(j)
    BY <1>6, <2>1, <2>2 DEF WalkInv
  <2> QED BY <1>1, <1>2, <1>4, <2>3
<1>7. /\ walk' = Idle \/ \E d \in Conns : walk' = Visit(d, walk.late \ {c})
      /\ walk'.pc # "idle" => In(walk'.at, connList')
  <2>1. CASE After(c) = Idle
    BY <1>3, <2>1 DEF Idle
  <2>2. CASE \E i \in DOMAIN connList :
               After(c) = Visit(connList[i], walk.late \ {c}) /\ connList[i] # c
    <3>1. PICK i \in DOMAIN connList :
            After(c) = Visit(connList[i], walk.late \ {c}) /\ connList[i] # c
      BY <2>2
    <3>2. In(connList[i], connList') /\ connList[i] \in Conns
      BY <3>1, <1>5, <1>1, ElementOfSeq DEF In, TypeOK
    <3>3. walk' = Visit(connList[i], walk.late \ {c})
      BY <1>3, <3>1
    <3>4. walk'.at = connList[i]
      BY <3>3 DEF Visit
    <3> QED BY <3>2, <3>3, <3>4
  <2> QED BY <2>1, <2>2, AfterIs
<1> QED BY <1>4, <1>5, <1>6, <1>7, <1>8 DEF WalkInv, In

-----------------------------------------------------------------------------
(* The types.                                                              *)

(* Where a timer thread can be. *)
Walks == [pc : {"idle", "visit", "test", "set", "queue", "erase"},
          at : Conns \cup {NoConn}, late : SUBSET Conns]

(* What updateConn leaves of the types besides the list's.                 *)
LEMMA UpdateTypes ==
  ASSUME TypeOK, NEW c \in Conns, UpdateConn(c)
  PROVE  /\ age' \in [Conns -> 0 .. Timeout + 1] /\ walk' \in Walks
         /\ crash' \in {"no", "race"}
<1>1. walk' \in Walks
  BY DEF UpdateConn, TypeOK, Walks
<1> QED BY <1>1, ServerAssumption DEF UpdateConn, TypeOK

(* An entry of conns_ is a connection, NULL or absent, also after a send.  *)
LEMMA GetConnTypes ==
  ASSUME TypeOK, NEW i \in Ids, GetConn(i)
  PROVE  conns' \in [Ids -> Conns \cup {NoEntry, NULL}]
BY DEF GetConn, TypeOK

(* The functors of the I/O loop. *)
Functors == {"connEstablished", "handleClose"} \X Conns

(* A step of handleClose keeps the types.                                  *)
LEMMA CloseTypes ==
  ASSUME TypeOK, WalkInv, NEW c \in Conns, HandleClose(c)
  PROVE  /\ state' \in [Conns -> {"eConnected", "eDisconnected"}]
         /\ event' \in [Conns -> BOOLEAN] /\ reading' \in [Conns -> BOOLEAN]
         /\ baseTasks' \in Seq(Conns) /\ connList' \in Seq(Conns)
         /\ age' \in [Conns -> 0 .. Timeout + 1] /\ walk' \in Walks
         /\ victim' \in Conns \cup {NoConn}
         /\ crash' \in {"no", "null", "race"} /\ WalkInv'
<1>1. CASE /\ ~event[c] /\ UNCHANGED <<state, event, reading, baseTasks, heartVars>>
           /\ crash' = "null" /\ victim' = c
  BY <1>1 DEF TypeOK, heartVars, WalkInv, Walks
<1>2. CASE /\ state' = [state EXCEPT ![c] = "eDisconnected"] /\ UpdateConn(c)
           /\ UNCHANGED victim
           /\ baseTasks' = Append(baseTasks, c)
           /\ event' = [event EXCEPT ![c] = FALSE] /\ reading' = [reading EXCEPT ![c] = FALSE]
  <2>1. event' \in [Conns -> BOOLEAN] /\ reading' \in [Conns -> BOOLEAN]
    BY <1>2 DEF TypeOK
  <2>2. baseTasks' \in Seq(Conns)
    BY <1>2, AppendProperties DEF TypeOK
  <2>3. state' \in [Conns -> {"eConnected", "eDisconnected"}]
    BY <1>2 DEF TypeOK
  <2>4. victim' \in Conns \cup {NoConn}
    BY <1>2 DEF TypeOK
  <2> QED BY <1>2, <2>1, <2>2, <2>3, <2>4, UpdateKeeps, UpdateTypes
<1> QED BY <1>1, <1>2 DEF HandleClose, OnConnNew

(* A step keeps the types and the walk.                                    *)
LEMMA TypeStep == ASSUME TypeOK, WalkInv, Next PROVE TypeOK' /\ WalkInv'
<1> USE ServerAssumption DEF TypeOK, netVars, heartVars, histVars, Walks
<1>1. CASE RemoveConnInLoop
  <2>1. Tail(baseTasks) \in Seq(Conns)
    BY <1>1, HeadTailProperties DEF RemoveConnInLoop
  <2>2. conns' \in [Ids -> Conns \cup {NoEntry, NULL}]
    BY <1>1 DEF RemoveConnInLoop
  <2> QED BY <1>1, <2>1, <2>2 DEF RemoveConnInLoop, WalkInv
<1>2. CASE RunTask
  <2> DEFINE t == Head(ioTasks)
  <2>1. t \in Functors /\ Tail(ioTasks) \in Seq(Functors)
    BY <1>2, HeadTailProperties DEF RunTask, Functors
  <2>2. t[2] \in Conns /\ ioTasks' \in Seq(Functors)
        /\ UNCHANGED <<conns, connId, peer, closedBy>>
    BY <1>2, <2>1 DEF Functors, RunTask
  <2>3. CASE HandleClose(t[2])
    BY <2>2, <2>3, CloseTypes DEF Functors
  <2>4. CASE ConnEstablished(t[2])
    <3>1. /\ state' = [state EXCEPT ![t[2]] = "eConnected"] /\ UpdateConn(t[2])
          /\ reading' = [reading EXCEPT ![t[2]] = TRUE]
          /\ UNCHANGED <<event, baseTasks, victim>>
      BY <2>4 DEF ConnEstablished, OnConnNew
    <3>2. reading' \in [Conns -> BOOLEAN]
      BY <3>1
    <3>3. state' \in [Conns -> {"eConnected", "eDisconnected"}]
      BY <3>1
    <3> QED BY <2>2, <3>1, <3>2, <3>3, UpdateKeeps, UpdateTypes DEF Functors
  <2> QED BY <1>2, <2>3, <2>4 DEF RunTask
<1>3. CASE Tick
  <2>1. age' \in [Conns -> 0 .. Timeout + 1]
    BY <1>3 DEF Tick
  <2> QED BY <1>3, <2>1 DEF Tick, WalkInv
<1>4. ASSUME NEW c \in Conns, NEW i \in Ids, NewConnAccept(c, i) PROVE TypeOK' /\ WalkInv'
  <2>1. ioTasks' \in Seq(Functors)
    <3>1. <<"connEstablished", c>> \in Functors /\ ioTasks \in Seq(Functors)
      BY DEF Functors
    <3> QED BY <1>4, <3>1, AppendProperties DEF NewConnAccept
  <2>2. event' \in [Conns -> BOOLEAN]
    BY <1>4 DEF NewConnAccept
  <2>3. connId' \in [Conns -> Ids \cup {NoId}] /\ conns' \in [Ids -> Conns \cup {NoEntry, NULL}]
        /\ peer' \in [Conns -> {"none", "open", "silent", "closed"}]
    BY <1>4 DEF NewConnAccept
  <2> QED BY <1>4, <2>1, <2>2, <2>3 DEF NewConnAccept, Functors, WalkInv
<1>5. ASSUME NEW c \in Conns, Message(c) PROVE TypeOK' /\ WalkInv'
  BY <1>5, UpdateKeeps, UpdateTypes, GetConnTypes DEF Message
<1>6. ASSUME NEW c \in Conns, ReadEof(c) PROVE TypeOK' /\ WalkInv'
  <2>1. closedBy' \in [Conns -> SUBSET {"peer", "heartbeat"}]
    BY <1>6 DEF ReadEof
  <2> QED BY <1>6, <2>1, CloseTypes DEF ReadEof
<1>7. ASSUME NEW c \in Conns, PeerStops(c) PROVE TypeOK' /\ WalkInv'
  BY <1>7 DEF PeerStops, WalkInv
<1>8. ASSUME NEW i \in Ids, Send(i) PROVE TypeOK' /\ WalkInv'
  BY <1>8, GetConnTypes DEF Send, WalkInv
<1>9. CASE TimerStart
  <2>1. Head(connList) \in Conns /\ connList[1] = Head(connList) /\ 1 \in DOMAIN connList
    BY <1>9, HeadTailProperties, EmptySeq DEF TimerStart
  <2> QED BY <1>9, <2>1 DEF TimerStart, Visit, WalkInv
<1>10. CASE TimerVisit
  <2>1. CASE walk' = After(walk.at)
    <3>1. \A i \in DOMAIN connList : connList[i] \in Conns
      BY ElementOfSeq, LenProperties
    <3>2. \/ walk' = Idle
          \/ \E i \in DOMAIN connList : walk' = Visit(connList[i], walk.late \ {walk.at})
      BY <2>1, AfterIs
    <3>3. UNCHANGED <<netVars, connList, age, peer, histVars, crash>>
      BY <1>10 DEF TimerVisit
    <3>4. CASE walk' = Idle
      BY <3>3, <3>4 DEF Idle, WalkInv
    <3>5. ASSUME NEW i \in DOMAIN connList, walk' = Visit(connList[i], walk.late \ {walk.at})
          PROVE  TypeOK' /\ WalkInv'
      <4>1. walk' \in Walks /\ walk'.at = connList[i]
        BY <3>1, <3>5 DEF Visit
      <4> QED BY <3>3, <4>1 DEF WalkInv
    <3> QED BY <3>2, <3>4, <3>5
  <2>2. CASE walk' = [walk EXCEPT !.pc = "test"]
    BY <1>10, <2>2 DEF TimerVisit, WalkInv
  <2> QED BY <1>10, <2>1, <2>2 DEF TimerVisit
<1>b. walk.pc # "idle" => walk.at \in Conns /\ In(walk.at, connList)
  BY ElementOfSeq, LenProperties DEF WalkInv, In
<1>11. CASE ForceClose \/ ForceCloseSet
  <2>1. /\ walk' \in Walks /\ walk'.at = walk.at /\ walk.pc # "idle"
        /\ state' \in [Conns -> {"eConnected", "eDisconnected"}]
    BY <1>11 DEF ForceClose, ForceCloseSet
  <2> QED BY <1>11, <2>1 DEF ForceClose, ForceCloseSet, WalkInv
<1>12. CASE ForceCloseQueue
  <2>1. ioTasks' \in Seq(Functors)
    <3>1. <<"handleClose", walk.at>> \in Functors /\ ioTasks \in Seq(Functors)
      BY <1>12, <1>b DEF Functors, ForceCloseQueue
    <3> QED BY <1>12, <3>1, AppendProperties DEF ForceCloseQueue
  <2>2. /\ walk' \in Walks /\ walk'.at = walk.at /\ walk.pc # "idle"
        /\ closedBy' \in [Conns -> SUBSET {"peer", "heartbeat"}]
    BY <1>12 DEF ForceCloseQueue
  <2> QED BY <1>12, <2>1, <2>2 DEF ForceCloseQueue, Functors, WalkInv
<1>13. CASE TimerErase
  <2>1. age' \in [Conns -> 0 .. Timeout + 1] /\ Erase(walk.at) /\ walk.pc # "idle"
    BY <1>13, <1>b DEF TimerErase, Erase
  <2>2. /\ connList' \in Seq(Conns) /\ WalkInv'
        /\ walk' = Idle \/ \E d \in Conns : walk' = Visit(d, walk.late \ {walk.at})
    BY <1>b, <2>1, EraseKeeps
  <2>3. walk' \in Walks
    BY <2>2 DEF Idle, Visit
  <2> QED BY <1>13, <2>1, <2>2, <2>3 DEF TimerErase
<1> QED BY <1>1, <1>2, <1>3, <1>4, <1>5, <1>6, <1>7, <1>8, <1>9, <1>10, <1>11, <1>12, <1>13
        DEF Next, TimerStep

-----------------------------------------------------------------------------
(* The life of a connection.                                               *)

LifeInv == FreshInv /\ UpInv /\ TaskInv

(* A step that leaves the connections and the I/O loop's queue as they are.*)
LEMMA LifeSame ==
  ASSUME LifeInv, UNCHANGED <<connId, ioTasks, state, event, reading, peer, closedBy>>
  PROVE  LifeInv'
BY DEF LifeInv, FreshInv, UpInv, TaskInv, Accepted

(* The functor that runs is typed, and the others move up by one.          *)
LEMMA RunTaskTakes ==
  ASSUME TypeOK, TaskInv, ioTasks # <<>>, ioTasks' = Tail(ioTasks)
  PROVE  LET c == Head(ioTasks)[2]
         IN  /\ c \in Conns /\ Accepted(c) /\ state[c] = "eDisconnected"
             /\ event[c] \/ "peer" \in closedBy[c]
             /\ Head(ioTasks)[1] = "connEstablished" => event[c] /\ ~reading[c]
             /\ Head(ioTasks)[1] = "handleClose" => "heartbeat" \in closedBy[c]
             /\ \A i \in DOMAIN ioTasks' : /\ i + 1 \in DOMAIN ioTasks
                                           /\ ioTasks'[i] = ioTasks[i + 1]
                                           /\ ioTasks[i + 1][2] # c
                                           /\ ioTasks[i + 1][2] \in Conns
             /\ \A i, j \in DOMAIN ioTasks' : ioTasks'[i][2] = ioTasks'[j][2] => i = j
<1>1. ioTasks \in Seq(Functors)
  BY DEF TypeOK, Functors
<1>2. /\ Head(ioTasks) = ioTasks[1] /\ 1 \in DOMAIN ioTasks
      /\ DOMAIN ioTasks = 1 .. Len(ioTasks) /\ Len(ioTasks) \in Nat
  BY <1>1, LenProperties, EmptySeq
<1>3. /\ DOMAIN ioTasks' = 1 .. Len(ioTasks) - 1
      /\ \A i \in 1 .. Len(ioTasks) - 1 : ioTasks'[i] = ioTasks[i + 1]
  BY <1>1, HeadTailProperties, LenProperties
<1>4. \A i \in DOMAIN ioTasks : ioTasks[i][2] \in Conns
  BY <1>1, <1>2, ElementOfSeq DEF Functors
<1>5. \A i \in DOMAIN ioTasks' : i + 1 \in DOMAIN ioTasks /\ i + 1 # 1
  BY <1>2, <1>3
<1>6. \A i \in DOMAIN ioTasks' : ioTasks[i + 1][2] # ioTasks[1][2]
  BY <1>2, <1>5 DEF TaskInv
<1>7. ASSUME NEW i \in DOMAIN ioTasks', NEW j \in DOMAIN ioTasks', ioTasks'[i][2] = ioTasks'[j][2]
      PROVE  i = j
  <2>1. i + 1 = j + 1
    BY <1>3, <1>5, <1>7 DEF TaskInv
  <2> QED BY <1>2, <1>3, <2>1
<1> QED BY <1>2, <1>3, <1>4, <1>5, <1>6, <1>7 DEF TaskInv

(* Queueing a functor for a connection that is not up and has none.        *)
LEMMA QueueTask ==
  ASSUME TypeOK, NEW t \in Functors, ioTasks' = Append(ioTasks, t)
  PROVE  /\ DOMAIN ioTasks' = 1 .. Len(ioTasks) + 1 /\ DOMAIN ioTasks = 1 .. Len(ioTasks)
         /\ Len(ioTasks) \in Nat
         /\ \A i \in 1 .. Len(ioTasks) : ioTasks'[i] = ioTasks[i] /\ ioTasks[i][2] \in Conns
         /\ ioTasks'[Len(ioTasks) + 1] = t
<1>1. ioTasks \in Seq(Functors)
  BY DEF TypeOK, Functors
<1>2. \A i \in 1 .. Len(ioTasks) : ioTasks[i] \in Functors
  BY <1>1, ElementOfSeq
<1> QED BY <1>1, <1>2, AppendProperties, LenProperties DEF Functors

(* connEstablished comes once and first.                                   *)
LEMMA EstablishedStep ==
  ASSUME TypeOK, LifeInv, RunTask, Head(ioTasks)[1] = "connEstablished",
         ConnEstablished(Head(ioTasks)[2])
  PROVE  LifeInv'
<1> DEFINE c == Head(ioTasks)[2]
<1>1. /\ state' = [state EXCEPT ![c] = "eConnected"] /\ reading' = [reading EXCEPT ![c] = TRUE]
      /\ UNCHANGED <<event, connId, peer, closedBy>>
      /\ ioTasks # <<>> /\ ioTasks' = Tail(ioTasks)
  BY DEF ConnEstablished, RunTask
<1>2. /\ c \in Conns /\ Accepted(c) /\ event[c]
      /\ \A i \in DOMAIN ioTasks' : /\ i + 1 \in DOMAIN ioTasks
                                    /\ ioTasks'[i] = ioTasks[i + 1]
                                    /\ ioTasks[i + 1][2] # c
                                    /\ ioTasks[i + 1][2] \in Conns
      /\ \A i, j \in DOMAIN ioTasks' : ioTasks'[i][2] = ioTasks'[j][2] => i = j
  BY <1>1, RunTaskTakes DEF LifeInv
<1> HIDE DEF c
<1>3. FreshInv'
  BY <1>1, <1>2 DEF LifeInv, FreshInv, Accepted, TypeOK
<1>4. UpInv'
  BY <1>1, <1>2 DEF LifeInv, UpInv, TypeOK
<1>5. \A d \in Conns \ {c} : state'[d] = state[d] /\ reading'[d] = reading[d]
  BY <1>1, <1>2 DEF TypeOK
<1>6. TaskInv'
  BY <1>1, <1>2, <1>5 DEF LifeInv, TaskInv, Accepted
<1> QED BY <1>3, <1>4, <1>6 DEF LifeInv

(* What handleClose does to the connection that has its handler.           *)
Closes(c) ==
  /\ state' = [state EXCEPT ![c] = "eDisconnected"]
  /\ event' = [event EXCEPT ![c] = FALSE] /\ reading' = [reading EXCEPT ![c] = FALSE]

(* A closed connection is not up; the others are as they were.             *)
LEMMA ClosesKeeps ==
  ASSUME TypeOK, FreshInv, UpInv, NEW c \in Conns, Accepted(c), Closes(c),
         UNCHANGED <<connId, peer>>
  PROVE  /\ FreshInv' /\ UpInv'
         /\ \A d \in Conns \ {c} : /\ state'[d] = state[d] /\ reading'[d] = reading[d]
                                   /\ event'[d] = event[d]
         /\ state'[c] = "eDisconnected" /\ ~event'[c] /\ ~reading'[c]
<1>1. /\ \A d \in Conns \ {c} : /\ state'[d] = state[d] /\ reading'[d] = reading[d]
                                /\ event'[d] = event[d]
      /\ state'[c] = "eDisconnected" /\ ~event'[c] /\ ~reading'[c]
  BY DEF TypeOK, Closes
<1>2. FreshInv'
  BY <1>1 DEF FreshInv, Accepted
<1>3. UpInv'
  BY <1>1 DEF UpInv
<1> QED BY <1>1, <1>2, <1>3

(* The queued handleClose is the connection's only functor.                *)
LEMMA QueuedCloseStep ==
  ASSUME TypeOK, LifeInv, RunTask, HandleClose(Head(ioTasks)[2])
  PROVE  LifeInv'
<1> DEFINE c == Head(ioTasks)[2]
<1>1. UNCHANGED <<connId, peer, closedBy>> /\ ioTasks # <<>> /\ ioTasks' = Tail(ioTasks)
  BY DEF RunTask
<1>2. /\ c \in Conns /\ Accepted(c)
      /\ \A i \in DOMAIN ioTasks' : /\ i + 1 \in DOMAIN ioTasks
                                    /\ ioTasks'[i] = ioTasks[i + 1]
                                    /\ ioTasks[i + 1][2] # c
                                    /\ ioTasks[i + 1][2] \in Conns
      /\ \A i, j \in DOMAIN ioTasks' : ioTasks'[i][2] = ioTasks'[j][2] => i = j
  BY <1>1, RunTaskTakes DEF LifeInv
<1>3. Closes(c) \/ UNCHANGED <<state, event, reading>>
  BY DEF HandleClose, Closes
<1> HIDE DEF c
<1>4. CASE Closes(c)
  BY <1>1, <1>2, <1>4, ClosesKeeps DEF LifeInv, TaskInv, Accepted
<1>5. CASE UNCHANGED <<state, event, reading>>
  <2>1. FreshInv' /\ UpInv'
    BY <1>1, <1>5 DEF LifeInv, FreshInv, UpInv, Accepted
  <2>2. TaskInv'
    BY <1>1, <1>2, <1>5 DEF LifeInv, TaskInv, Accepted
  <2> QED BY <2>1, <2>2 DEF LifeInv
<1> QED BY <1>3, <1>4, <1>5

(* A connection that reads the end of its stream may have handleClose      *)
(* queued: the peer has closed it too then.                                *)
LEMMA ReadEofStep ==
  ASSUME TypeOK, LifeInv, NEW c \in Conns, ReadEof(c) PROVE LifeInv'
<1>1. /\ Closes(c) /\ UNCHANGED <<connId, peer, ioTasks>>
      /\ event[c] /\ reading[c] /\ peer[c] = "closed"
  BY DEF ReadEof, HandleClose, Closes
<1>a. /\ \A d \in Conns \ {c} : closedBy'[d] = closedBy[d]
      /\ closedBy'[c] = closedBy[c] \cup {"peer"}
  BY DEF ReadEof, TypeOK
<1>2. Accepted(c)
  BY <1>1 DEF Accepted
<1>3. /\ FreshInv' /\ UpInv'
      /\ \A d \in Conns \ {c} : /\ state'[d] = state[d] /\ reading'[d] = reading[d]
                                /\ event'[d] = event[d]
      /\ state'[c] = "eDisconnected" /\ ~event'[c] /\ ~reading'[c]
  BY <1>1, <1>2, ClosesKeeps DEF LifeInv
<1>4. \A i \in DOMAIN ioTasks : ioTasks[i][2] \in Conns
  BY ElementOfSeq, LenProperties DEF TypeOK
<1>5. TaskInv'
  <2>1. \A i, j \in DOMAIN ioTasks' : ioTasks'[i][2] = ioTasks'[j][2] => i = j
    BY <1>1 DEF LifeInv, TaskInv
  <2>2. ASSUME NEW i \in DOMAIN ioTasks, NEW d, d = ioTasks[i][2]
        PROVE  /\ peer'[d] # "none" /\ state'[d] = "eDisconnected"
               /\ event'[d] \/ "peer" \in closedBy'[d]
               /\ ioTasks[i][1] = "connEstablished" => event'[d] /\ ~reading'[d]
               /\ ioTasks[i][1] = "handleClose" => "heartbeat" \in closedBy'[d]
    BY <1>1, <1>a, <1>2, <1>3, <1>4, <2>2 DEF LifeInv, TaskInv, Accepted
  <2> QED BY <1>1, <2>1, <2>2 DEF TaskInv, Accepted
<1> QED BY <1>3, <1>5 DEF LifeInv

(* A new connection has no functor yet but the connEstablished queued.     *)
LEMMA AcceptStep ==
  ASSUME TypeOK, LifeInv, NEW c \in Conns, NEW i \in Ids, NewConnAccept(c, i) PROVE LifeInv'
<1> DEFINE n == Len(ioTasks)
<1>1. /\ connId' = [connId EXCEPT ![c] = i] /\ peer' = [peer EXCEPT ![c] = "open"]
      /\ event' = [event EXCEPT ![c] = TRUE] /\ UNCHANGED <<state, reading, closedBy>>
      /\ ioTasks' = Append(ioTasks, <<"connEstablished", c>>) /\ ~ Accepted(c)
  BY DEF NewConnAccept, Connectable, Accepted, Conns, histVars
<1>2. /\ \A d \in Conns \ {c} : /\ connId'[d] = connId[d] /\ peer'[d] = peer[d]
                                /\ event'[d] = event[d]
      /\ connId'[c] = i /\ peer'[c] = "open" /\ event'[c]
  BY <1>1 DEF TypeOK
<1>3. FreshInv'
  BY <1>1, <1>2 DEF LifeInv, FreshInv, Accepted
<1>4. UpInv'
  BY <1>1, <1>2 DEF LifeInv, UpInv
<1>5. /\ DOMAIN ioTasks' = 1 .. n + 1 /\ DOMAIN ioTasks = 1 .. n /\ n \in Nat
      /\ \A k \in 1 .. n : ioTasks'[k] = ioTasks[k] /\ ioTasks[k][2] \in Conns
      /\ ioTasks'[n + 1] = <<"connEstablished", c>>
  BY <1>1, QueueTask DEF Functors
<1> HIDE DEF n
<1>6. \A k \in 1 .. n : ioTasks[k][2] # c
  BY <1>1, <1>5 DEF LifeInv, TaskInv
<1>7. state[c] = "eDisconnected" /\ ~reading[c]
  BY <1>1 DEF LifeInv, FreshInv
<1>8. \A k, l \in DOMAIN ioTasks' : ioTasks'[k][2] = ioTasks'[l][2] => k = l
  BY <1>5, <1>6 DEF LifeInv, TaskInv
<1>9. ASSUME NEW k \in DOMAIN ioTasks', NEW d, NEW f, d = ioTasks'[k][2], f = ioTasks'[k][1]
      PROVE  /\ peer'[d] # "none" /\ state'[d] = "eDisconnected"
             /\ event'[d] \/ "peer" \in closedBy'[d]
             /\ f = "connEstablished" => event'[d] /\ ~reading'[d]
             /\ f = "handleClose" => "heartbeat" \in closedBy'[d]
  <2>1. CASE k = n + 1
    <3>1. d = c /\ f = "connEstablished"
      BY <1>5, <1>9, <2>1
    <3> QED BY <1>1, <1>2, <1>7, <3>1
  <2>2. CASE k \in 1 .. n
    <3>1. /\ d \in Conns \ {c} /\ Accepted(d) /\ state[d] = "eDisconnected"
          /\ event[d] \/ "peer" \in closedBy[d]
          /\ f = "connEstablished" => event[d] /\ ~reading[d]
          /\ f = "handleClose" => "heartbeat" \in closedBy[d]
      BY <1>5, <1>6, <1>9, <2>2 DEF LifeInv, TaskInv
    <3> QED BY <1>1, <1>2, <3>1 DEF Accepted
  <2> QED BY <1>5, <2>1, <2>2
<1>10. TaskInv'
  BY <1>8, <1>9 DEF TaskInv, Accepted
<1> QED BY <1>3, <1>4, <1>10 DEF LifeInv

(* forceClose's assignment leaves a connection not up that may have been   *)
(* closed since the test.                                                  *)
LEMMA ForceSetStep ==
  ASSUME TypeOK, WalkInv, LifeInv, ForceCloseSet PROVE LifeInv'
<1> DEFINE c == walk.at
<1>1. /\ c \in Conns /\ UNCHANGED <<connId, peer, event, reading, ioTasks, closedBy>>
      /\ state' = [state EXCEPT ![c] = "eDisconnected"]
  BY ElementOfSeq, LenProperties DEF ForceCloseSet, WalkInv, TypeOK, histVars
<1> HIDE DEF c
<1>2. \A d \in Conns : state'[d] = state[d] \/ state'[d] = "eDisconnected"
  BY <1>1 DEF TypeOK
<1>3. \A i \in DOMAIN ioTasks : ioTasks[i][2] \in Conns
  BY ElementOfSeq, LenProperties DEF TypeOK
<1>4. FreshInv' /\ UpInv'
  BY <1>1, <1>2 DEF LifeInv, FreshInv, UpInv, Accepted
<1>5. TaskInv'
  BY <1>1, <1>2, <1>3 DEF LifeInv, TaskInv, Accepted
<1> QED BY <1>4, <1>5 DEF LifeInv

(* It then queues handleClose for a connection that has nothing queued.    *)
LEMMA ForceQueueStep ==
  ASSUME TypeOK, WalkInv, LifeInv, ForceInv, ForceCloseQueue PROVE LifeInv'
<1> DEFINE c == walk.at
           n == Len(ioTasks)
<1>1. /\ c \in Conns /\ UNCHANGED <<connId, peer, state, event, reading>>
      /\ ioTasks' = Append(ioTasks, <<"handleClose", c>>)
  BY ElementOfSeq, LenProperties DEF ForceCloseQueue, WalkInv, TypeOK
<1>2. /\ \A d \in Conns \ {c} : closedBy'[d] = closedBy[d]
      /\ closedBy'[c] = closedBy[c] \cup {"heartbeat"}
  BY <1>1 DEF ForceCloseQueue, TypeOK
<1>3. /\ Accepted(c) /\ (event[c] \/ "peer" \in closedBy[c]) /\ state[c] = "eDisconnected"
      /\ \A i \in DOMAIN ioTasks : ioTasks[i][2] # c
  BY DEF ForceInv, ForceCloseQueue
<1>4. /\ DOMAIN ioTasks' = 1 .. n + 1 /\ DOMAIN ioTasks = 1 .. n /\ n \in Nat
      /\ \A k \in 1 .. n : ioTasks'[k] = ioTasks[k] /\ ioTasks[k][2] \in Conns
      /\ ioTasks'[n + 1] = <<"handleClose", c>>
  BY <1>1, QueueTask DEF Functors
<1> HIDE DEF c, n
<1>5. \A k, l \in DOMAIN ioTasks' : ioTasks'[k][2] = ioTasks'[l][2] => k = l
  BY <1>3, <1>4 DEF LifeInv, TaskInv
<1>6. FreshInv' /\ UpInv'
  BY <1>1 DEF LifeInv, FreshInv, UpInv, Accepted
<1>7. ASSUME NEW k \in DOMAIN ioTasks', NEW d, NEW f, d = ioTasks'[k][2], f = ioTasks'[k][1]
      PROVE  /\ peer'[d] # "none" /\ state'[d] = "eDisconnected"
             /\ event'[d] \/ "peer" \in closedBy'[d]
             /\ f = "connEstablished" => event'[d] /\ ~reading'[d]
             /\ f = "handleClose" => "heartbeat" \in closedBy'[d]
  <2>1. CASE k = n + 1
    <3>1. d = c /\ f = "handleClose"
      BY <1>4, <1>7, <2>1
    <3> QED BY <1>1, <1>2, <1>3, <3>1 DEF Accepted
  <2>2. CASE k \in 1 .. n
    <3>1. /\ d \in Conns \ {c} /\ Accepted(d) /\ state[d] = "eDisconnected"
          /\ event[d] \/ "peer" \in closedBy[d]
          /\ f = "connEstablished" => event[d] /\ ~reading[d]
          /\ f = "handleClose" => "heartbeat" \in closedBy[d]
      BY <1>3, <1>4, <1>7, <2>2 DEF LifeInv, TaskInv
    <3> QED BY <1>1, <1>2, <3>1 DEF Accepted
  <2> QED BY <1>4, <2>1, <2>2
<1>8. TaskInv'
  BY <1>5, <1>7 DEF TaskInv, Accepted
<1> QED BY <1>6, <1>8 DEF LifeInv

(* A peer that falls silent or closes stays an accepted connection's.      *)
LEMMA PeerStep ==
  ASSUME TypeOK, LifeInv, NEW c \in Conns, PeerStops(c) PROVE LifeInv'
<1>1. /\ UNCHANGED <<connId, ioTasks, state, event, reading, closedBy>> /\ Accepted(c)
      /\ \A d \in Conns \ {c} : peer'[d] = peer[d]
      /\ peer[c] # "closed" /\ peer'[c] \in {"silent", "closed"}
  BY DEF PeerStops, TypeOK, netVars, histVars, Accepted
<1>2. \A i \in DOMAIN ioTasks : ioTasks[i][2] \in Conns
  BY ElementOfSeq, LenProperties DEF TypeOK
<1>3. FreshInv' /\ UpInv'
  BY <1>1 DEF LifeInv, FreshInv, UpInv, Accepted
<1>4. TaskInv'
  BY <1>1, <1>2 DEF LifeInv, TaskInv, Accepted
<1> QED BY <1>3, <1>4 DEF LifeInv

(* Every step keeps the life of the connections in order.                  *)
LEMMA LifeStep == ASSUME TypeOK, WalkInv, LifeInv, ForceInv, Next PROVE LifeInv'
<1>1. ASSUME RunTask PROVE LifeInv'
  BY <1>1, EstablishedStep, QueuedCloseStep DEF RunTask
<1>2. CASE RemoveConnInLoop \/ Tick \/ TimerStart \/ TimerVisit \/ ForceClose \/ TimerErase
  BY <1>2, LifeSame DEF RemoveConnInLoop, Tick, TimerStart, TimerVisit, ForceClose, TimerErase,
                        netVars, histVars
<1>3. ASSUME NEW c \in Conns, Message(c) PROVE LifeInv'
  BY <1>3, LifeSame DEF Message, histVars
<1>4. ASSUME NEW i \in Ids, Send(i) PROVE LifeInv'
  BY <1>4, LifeSame DEF Send, histVars
<1> QED BY <1>1, <1>2, <1>3, <1>4, AcceptStep, ReadEofStep, PeerStep, ForceSetStep,
           ForceQueueStep DEF Next, TimerStep

(* A list that names no new connection keeps ListInv.                      *)
LEMMA ListSame ==
  ASSUME ListInv, UNCHANGED <<event, reading, peer>>,
         \A d : In(d, connList') => In(d, connList)
  PROVE  ListInv'
BY DEF ListInv, In, Accepted

(* updateConn adds no connection but one that has been up.                 *)
LEMMA ListUpdate ==
  ASSUME TypeOK, WalkInv, ListInv, NEW c \in Conns, UpdateConn(c), UNCHANGED peer, Accepted(c),
         event'[c] => reading'[c],
         \A d \in Conns \ {c} : event'[d] = event[d] /\ reading'[d] = reading[d]
  PROVE  ListInv'
<1> SUFFICES ASSUME NEW i \in DOMAIN connList'
             PROVE  /\ peer'[connList'[i]] # "none"
                    /\ event'[connList'[i]] => reading'[connList'[i]]
  BY DEF ListInv, Accepted
<1> DEFINE d == connList'[i]
<1>1. In(d, connList')
  BY DEF In
<1>2. In(d, connList) \/ d = c
  BY <1>1, UpdateKeeps
<1>3. CASE d = c
  BY <1>3 DEF Accepted
<1>4. CASE In(d, connList) /\ d # c
  <2>1. d \in Conns
    BY <1>4, ElementOfSeq, LenProperties DEF In, TypeOK
  <2> QED BY <1>4, <2>1 DEF ListInv, In, Accepted
<1> QED BY <1>2, <1>3, <1>4

(* Every step keeps connList_ to connections that have been up.            *)
LEMMA ListStep == ASSUME TypeOK, WalkInv, LifeInv, ListInv, Next PROVE ListInv'
<1>1. CASE UNCHANGED <<connList, event, reading, peer>>
  BY <1>1 DEF ListInv, Accepted
<1>2. ASSUME NEW c \in Conns, HandleClose(c), Accepted(c), UNCHANGED peer PROVE ListInv'
  <2>1. CASE UNCHANGED <<event, reading, heartVars>>
    BY <1>1, <1>2, <2>1 DEF heartVars
  <2>2. CASE /\ UpdateConn(c) /\ event' = [event EXCEPT ![c] = FALSE]
             /\ reading' = [reading EXCEPT ![c] = FALSE]
    <3>1. /\ \A d \in Conns \ {c} : event'[d] = event[d] /\ reading'[d] = reading[d]
          /\ ~event'[c]
      BY <2>2 DEF TypeOK
    <3> QED BY <1>2, <2>2, <3>1, ListUpdate
  <2> QED BY <1>2, <2>1, <2>2 DEF HandleClose, OnConnNew
<1>3. CASE RunTask
  <2> DEFINE c == Head(ioTasks)[2]
  <2>1. c \in Conns /\ Accepted(c) /\ UNCHANGED peer
    BY <1>3, RunTaskTakes DEF RunTask, LifeInv
  <2>2. CASE ConnEstablished(c)
    <3>1. UpdateConn(c) /\ UNCHANGED event /\ reading' = [reading EXCEPT ![c] = TRUE]
      BY <2>2 DEF ConnEstablished, OnConnNew
    <3> HIDE DEF c
    <3>2. reading'[c] /\ \A d \in Conns \ {c} : event'[d] = event[d] /\ reading'[d] = reading[d]
      BY <2>1, <3>1 DEF TypeOK
    <3> QED BY <2>1, <3>1, <3>2, ListUpdate
  <2> QED BY <1>2, <1>3, <2>1, <2>2 DEF RunTask
<1>4. ASSUME NEW c \in Conns, Message(c) PROVE ListInv'
  <2>1. UpdateConn(c) /\ UNCHANGED <<event, reading, peer>> /\ reading[c] /\ Accepted(c)
    BY <1>4 DEF Message, Accepted
  <2> QED BY <2>1, ListUpdate
<1>5. ASSUME NEW c \in Conns, ReadEof(c) PROVE ListInv'
  BY <1>2, <1>5 DEF ReadEof, Accepted
<1>6. ASSUME NEW c \in Conns, NEW i \in Ids, NewConnAccept(c, i) PROVE ListInv'
  <2>1. /\ ~ Accepted(c) /\ UNCHANGED <<connList, reading>>
        /\ \A d \in Conns \ {c} : event'[d] = event[d] /\ peer'[d] = peer[d]
    BY <1>6 DEF NewConnAccept, Connectable, Accepted, Conns, TypeOK, heartVars
  <2>2. \A k \in DOMAIN connList : connList[k] \in Conns
    BY ElementOfSeq, LenProperties DEF TypeOK
  <2> QED BY <2>1, <2>2 DEF ListInv, Accepted
<1>7. ASSUME NEW c \in Conns, PeerStops(c) PROVE ListInv'
  <2>1. /\ UNCHANGED <<connList, event, reading>>
        /\ \A d \in Conns : Accepted(d) <=> peer'[d] # "none"
    BY <1>7 DEF PeerStops, netVars, heartVars, Accepted, TypeOK
  <2>2. \A k \in DOMAIN connList : connList[k] \in Conns
    BY ElementOfSeq, LenProperties DEF TypeOK
  <2> QED BY <2>1, <2>2 DEF ListInv, Accepted
<1>8. CASE TimerErase
  <2>1. walk.at \in Conns /\ In(walk.at, connList) /\ Erase(walk.at)
    BY <1>8, ElementOfSeq, LenProperties DEF TimerErase, WalkInv, In, TypeOK
  <2>2. \A d : In(d, connList') => In(d, connList)
    BY <2>1, EraseKeeps
  <2> QED BY <1>8, <2>2, ListSame DEF TimerErase, netVars
<1> QED BY <1>1, <1>3, <1>4, <1>5, <1>6, <1>7, <1>8
        DEF Next, TimerStep, RemoveConnInLoop, Tick, Send, TimerStart, TimerVisit, ForceClose,
            ForceCloseSet, ForceCloseQueue, netVars, heartVars


(* What a timer thread in forceClose relies on is kept by a step of        *)
(* another thread that keeps it for its connection.                        *)
LEMMA ForceOther ==
  ASSUME ForceInv, walk'.pc = walk.pc, walk'.at = walk.at,
         walk.pc \in {"set", "queue"} =>
           /\ peer'[walk.at] # "none"
           /\ event'[walk.at] \/ "peer" \in closedBy'[walk.at]
           /\ \A i \in DOMAIN ioTasks' : ioTasks'[i][2] # walk.at,
         walk.pc \in {"queue", "erase"} => state'[walk.at] = "eDisconnected"
  PROVE  ForceInv'
BY DEF ForceInv, Accepted

(* The functors the I/O loop runs meanwhile are of other connections, or   *)
(* find the connection closed.                                             *)
LEMMA ForceRunTask ==
  ASSUME TypeOK, WalkInv, LifeInv, ListInv, ForceInv, RunTask PROVE ForceInv'
<1> DEFINE c == Head(ioTasks)[2]
           f == Head(ioTasks)[1]
           d == walk.at
<1>1. /\ c \in Conns /\ (f = "connEstablished" => event[c] /\ ~reading[c])
      /\ \A i \in DOMAIN ioTasks' : i + 1 \in DOMAIN ioTasks /\ ioTasks'[i] = ioTasks[i + 1]
      /\ UNCHANGED <<peer, closedBy>>
  BY RunTaskTakes DEF LifeInv, RunTask
<1>2. Head(ioTasks) = ioTasks[1] /\ 1 \in DOMAIN ioTasks
  <2>1. ioTasks \in Seq(Functors) /\ ioTasks # <<>>
    BY DEF TypeOK, Functors, RunTask
  <2> QED BY <2>1, LenProperties, EmptySeq
<1>3. walk.pc # "idle" => d \in Conns /\ (event[d] => reading[d])
  BY ElementOfSeq, LenProperties DEF WalkInv, ListInv, TypeOK
<1>4. \/ /\ f = "connEstablished" /\ UpdateConn(c) /\ UNCHANGED event
         /\ state' = [state EXCEPT ![c] = "eConnected"]
      \/ UNCHANGED <<state, event, heartVars>>
      \/ /\ state' = [state EXCEPT ![c] = "eDisconnected"] /\ UpdateConn(c)
         /\ event' = [event EXCEPT ![c] = FALSE]
  BY DEF RunTask, ConnEstablished, HandleClose, OnConnNew
<1>5. walk'.pc = walk.pc /\ walk'.at = walk.at
  BY <1>1, <1>4, UpdateKeeps DEF heartVars
<1>6. ASSUME walk.pc \in {"set", "queue"}
      PROVE  /\ peer'[d] # "none"
             /\ event'[d] \/ "peer" \in closedBy'[d]
             /\ \A i \in DOMAIN ioTasks' : ioTasks'[i][2] # d
  <2>1. c # d
    BY <1>2, <1>6 DEF ForceInv
  <2>2. event'[d] = event[d]
    BY <1>1, <1>3, <1>4, <1>6, <2>1 DEF TypeOK
  <2> QED BY <1>1, <1>6, <2>2 DEF ForceInv, Accepted
<1>7. ASSUME walk.pc \in {"queue", "erase"} PROVE state'[d] = "eDisconnected"
  <2>1. d \in Conns /\ state[d] = "eDisconnected"
    BY <1>3, <1>7 DEF ForceInv
  <2>2. f = "connEstablished" => c # d
    BY <1>1, <1>3, <1>7
  <2> HIDE DEF c, d, f
  <2> QED BY <1>1, <1>4, <2>1, <2>2 DEF TypeOK
<1> QED BY <1>5, <1>6, <1>7, ForceOther

(* Every step keeps what a timer thread in forceClose relies on.           *)
LEMMA ForceStep ==
  ASSUME TypeOK, WalkInv, LifeInv, ListInv, ForceInv, Next PROVE ForceInv'
<1> DEFINE d == walk.at
<1>1. walk.pc # "idle" => d \in Conns /\ Accepted(d)
  BY ElementOfSeq, LenProperties DEF WalkInv, ListInv, TypeOK
<1>2. CASE UNCHANGED <<walk, peer, event, closedBy, ioTasks, state>>
  BY <1>2 DEF ForceInv, Accepted
<1>3. ASSUME NEW c \in Conns, Message(c) PROVE ForceInv'
  <2>1. /\ walk'.pc = walk.pc /\ walk'.at = walk.at
        /\ UNCHANGED <<peer, event, closedBy, ioTasks, state>>
    BY <1>3, UpdateKeeps DEF Message, histVars
  <2> QED BY <2>1 DEF ForceInv, Accepted
<1>4. ASSUME NEW c \in Conns, ReadEof(c) PROVE ForceInv'
  <2>1. /\ Closes(c) /\ UNCHANGED <<peer, ioTasks>> /\ UpdateConn(c)
        /\ closedBy' = [closedBy EXCEPT ![c] = @ \cup {"peer"}]
    BY <1>4 DEF ReadEof, HandleClose, Closes, OnConnNew
  <2>2. walk'.pc = walk.pc /\ walk'.at = walk.at
    BY <2>1, UpdateKeeps
  <2>3. \A e \in Conns : /\ event'[e] = event[e] /\ closedBy'[e] = closedBy[e]
                         \/ "peer" \in closedBy'[e]
    BY <2>1 DEF Closes, TypeOK
  <2>4. \A e \in Conns : state'[e] = state[e] \/ state'[e] = "eDisconnected"
    BY <2>1 DEF Closes, TypeOK
  <2>5. walk.pc \in {"set", "queue"} =>
          /\ peer'[d] # "none"
          /\ event'[d] \/ "peer" \in closedBy'[d]
          /\ \A i \in DOMAIN ioTasks' : ioTasks'[i][2] # d
    BY <1>1, <2>1, <2>3 DEF ForceInv, Accepted
  <2>6. walk.pc \in {"queue", "erase"} => state'[d] = "eDisconnected"
    BY <1>1, <2>4 DEF ForceInv
  <2> QED BY <2>2, <2>5, <2>6, ForceOther
<1>5. ASSUME NEW c \in Conns, NEW i \in Ids, NewConnAccept(c, i) PROVE ForceInv'
  <2>1. /\ ~ Accepted(c) /\ UNCHANGED <<walk, state, closedBy>>
        /\ \A e \in Conns \ {c} : event'[e] = event[e] /\ peer'[e] = peer[e]
        /\ ioTasks' = Append(ioTasks, <<"connEstablished", c>>)
    BY <1>5 DEF NewConnAccept, Connectable, Accepted, Conns, TypeOK, heartVars, histVars
  <2>2. \A k \in DOMAIN ioTasks' : ioTasks'[k][2] = c \/ (k \in DOMAIN ioTasks /\ ioTasks'[k] = ioTasks[k])
    <3>1. /\ DOMAIN ioTasks' = 1 .. Len(ioTasks) + 1 /\ DOMAIN ioTasks = 1 .. Len(ioTasks)
          /\ Len(ioTasks) \in Nat
          /\ \A k \in 1 .. Len(ioTasks) : ioTasks'[k] = ioTasks[k]
          /\ ioTasks'[Len(ioTasks) + 1] = <<"connEstablished", c>>
      BY <2>1, QueueTask DEF Functors
    <3> QED BY <3>1
  <2>3. walk.pc # "idle" => d # c
    BY <1>1, <2>1
  <2> QED BY <1>1, <2>1, <2>2, <2>3 DEF ForceInv, Accepted
<1>6. ASSUME NEW c \in Conns, PeerStops(c) PROVE ForceInv'
  <2>1. /\ UNCHANGED <<walk, event, state, ioTasks, closedBy>>
        /\ \A e \in Conns : Accepted(e) <=> peer'[e] # "none"
    BY <1>6 DEF PeerStops, netVars, heartVars, histVars, Accepted, TypeOK
  <2> QED BY <1>1, <2>1 DEF ForceInv, Accepted
<1>7. CASE walk'.pc \in {"idle", "visit", "test"}
  BY <1>7 DEF ForceInv
<1>8. CASE TimerStart \/ TimerVisit \/ TimerErase
  BY <1>7, <1>8 DEF TimerStart, TimerVisit, TimerErase, Erase, After, Visit, Idle, TypeOK
<1>9. CASE ForceClose
  <2>1. /\ walk'.at = d /\ d \in Conns /\ Accepted(d)
        /\ UNCHANGED <<peer, event, closedBy, ioTasks, state>>
        /\ walk'.pc = IF state[d] = "eConnected" THEN "set" ELSE "erase"
    BY <1>1, <1>9 DEF ForceClose, TypeOK, netVars, histVars
  <2>2. CASE state[d] = "eConnected"
    <3>1. event[d] /\ \A i \in DOMAIN ioTasks : ioTasks[i][2] # d
      BY <2>1, <2>2 DEF LifeInv, UpInv, TaskInv
    <3> QED BY <2>1, <2>2, <3>1 DEF ForceInv, Accepted
  <2>3. CASE state[d] # "eConnected"
    <3>1. state[d] = "eDisconnected"
      BY <2>1, <2>3 DEF TypeOK
    <3> QED BY <2>1, <2>3, <3>1 DEF ForceInv
  <2> QED BY <2>2, <2>3
<1>10. CASE ForceCloseSet
  <2>1. /\ walk'.at = d /\ d \in Conns /\ UNCHANGED <<peer, event, closedBy, ioTasks>>
        /\ walk'.pc = "queue" /\ walk.pc = "set" /\ state'[d] = "eDisconnected"
    BY <1>1, <1>10 DEF ForceCloseSet, TypeOK, histVars
  <2> QED BY <2>1 DEF ForceInv, Accepted
<1>11. CASE ForceCloseQueue
  <2>1. walk'.at = d /\ walk'.pc = "erase" /\ walk.pc = "queue" /\ UNCHANGED state
    BY <1>11 DEF ForceCloseQueue, TypeOK
  <2> QED BY <2>1 DEF ForceInv
<1> QED BY <1>2, <1>3, <1>4, <1>5, <1>6, <1>8, <1>9, <1>10, <1>11, ForceRunTask
        DEF Next, TimerStep, RemoveConnInLoop, Tick, Send, netVars, heartVars, histVars

-----------------------------------------------------------------------------
(* conns_, connList_ and the NULL event_.                                  *)

(* A handleClose that finds event_ NULL was queued by forceClose, and the  *)
(* handler is gone because the end of the peer's stream was read.          *)
LEMMA NullStep ==
  ASSUME TypeOK, LifeInv, NullOnlyIfBothClose, Next PROVE NullOnlyIfBothClose'
<1> SUFFICES ASSUME crash' = "null"
             PROVE  victim' \in Conns /\ closedBy'[victim'] = {"peer", "heartbeat"}
  BY DEF NullOnlyIfBothClose
<1>1. CASE RunTask
  <2> DEFINE c == Head(ioTasks)[2]
  <2>1. ioTasks # <<>> /\ ioTasks' = Tail(ioTasks) /\ UNCHANGED closedBy
    BY <1>1 DEF RunTask
  <2>2. /\ c \in Conns /\ (event[c] \/ "peer" \in closedBy[c])
        /\ Head(ioTasks)[1] = "handleClose" => "heartbeat" \in closedBy[c]
    BY <2>1, RunTaskTakes DEF LifeInv
  <2>3. ~ UpdateConn(c)
    BY DEF UpdateConn
  <2>4. ~event[c] /\ Head(ioTasks)[1] = "handleClose" /\ victim' = c
    BY <1>1, <2>3 DEF RunTask, ConnEstablished, HandleClose, OnConnNew
  <2>5. closedBy[c] \in SUBSET {"peer", "heartbeat"}
    BY <2>2 DEF TypeOK
  <2> QED BY <2>1, <2>2, <2>4, <2>5
<1>2. ASSUME NEW c \in Conns, ReadEof(c) PROVE FALSE
  BY <1>2 DEF ReadEof, HandleClose, OnConnNew, UpdateConn
<1>3. ASSUME NEW c \in Conns, Message(c) PROVE FALSE
  BY <1>3 DEF Message, UpdateConn
<1> QED BY <1>1, <1>2, <1>3 DEF Next, TimerStep, RemoveConnInLoop, Tick, NewConnAccept, PeerStops,
           Send, TimerStart, TimerVisit, ForceClose, ForceCloseSet, ForceCloseQueue, TimerErase

(* Entries of connList_ are taken out by the timer thread only, which has  *)
(* closed the connection before.                                           *)
LEMMA WatchedStep ==
  ASSUME TypeOK, WalkInv, TaskInv, ForceInv, Watched, Next PROVE Watched'
<1>1. \A c \in Conns : state[c] = "eConnected" => In(c, connList)
  BY WatchedIs DEF Watched
<1>2. TypeOK'
  BY TypeStep
<1>3. \A c : Contains(connList', c) <=> In(c, connList')
  <2>1. connList' \in Seq(Conns)
    BY <1>2 DEF TypeOK
  <2>2. DOMAIN connList' = 1 .. Len(connList')
    BY <2>1, LenProperties
  <2> QED BY <2>2 DEF Contains, In
<1> SUFFICES ASSUME NEW d \in Conns, state'[d] = "eConnected" PROVE In(d, connList')
  BY <1>3 DEF Watched
<1>4. ASSUME NEW c \in Conns, UpdateConn(c), state'[d] = state[d] \/ d = c
      PROVE  In(d, connList')
  BY <1>1, <1>4, UpdateKeeps
<1>5. CASE UNCHANGED <<state, connList>>
  BY <1>1, <1>5
<1>6. ASSUME NEW c \in Conns, HandleClose(c) PROVE In(d, connList')
  <2>1. CASE UNCHANGED <<state, connList>>
    BY <1>5, <2>1
  <2>2. CASE UpdateConn(c) /\ state' = [state EXCEPT ![c] = "eDisconnected"]
    BY <1>4, <2>2 DEF TypeOK
  <2> QED BY <1>6, <2>1, <2>2 DEF HandleClose, OnConnNew, heartVars
<1>7. CASE RunTask
  <2>1. Head(ioTasks)[2] \in Conns
    BY <1>7, RunTaskTakes DEF RunTask
  <2>2. CASE ConnEstablished(Head(ioTasks)[2])
    BY <1>4, <2>1, <2>2 DEF ConnEstablished, OnConnNew, TypeOK
  <2> QED BY <1>6, <1>7, <2>1, <2>2 DEF RunTask
<1>8. ASSUME NEW c \in Conns, Message(c) PROVE In(d, connList')
  BY <1>4, <1>8 DEF Message
<1>9. ASSUME NEW c \in Conns, ReadEof(c) PROVE In(d, connList')
  BY <1>6, <1>9 DEF ReadEof
<1>10. CASE ForceCloseSet
  <2>1. walk.at \in Conns /\ state' = [state EXCEPT ![walk.at] = "eDisconnected"]
        /\ UNCHANGED connList
    BY <1>10, ElementOfSeq, LenProperties DEF ForceCloseSet, WalkInv, TypeOK
  <2>2. state[d] = "eConnected"
    BY <2>1 DEF TypeOK
  <2> QED BY <1>1, <2>1, <2>2
<1>11. CASE TimerErase
  <2>1. /\ walk.at \in Conns /\ In(walk.at, connList) /\ state[walk.at] = "eDisconnected"
        /\ Erase(walk.at) /\ UNCHANGED state
    BY <1>11, ElementOfSeq, LenProperties DEF TimerErase, WalkInv, In, TypeOK, ForceInv, netVars
  <2>2. \A c : In(c, connList) /\ c # walk.at => In(c, connList')
    BY <2>1, EraseKeeps
  <2> QED BY <1>1, <2>1, <2>2
<1> QED BY <1>5, <1>7, <1>8, <1>9, <1>10, <1>11
        DEF Next, TimerStep, RemoveConnInLoop, Tick, NewConnAccept, PeerStops,
            Send, TimerStart, TimerVisit, ForceClose, ForceCloseQueue, netVars, heartVars

(* conns_ loses a connection that is alive only to the removal of another  *)
(* with the same id.                                                       *)
IdInv == RemovalInv /\ EntryInv

(* removeConnInLoop erases by id: the closed connection's own entry, or    *)
(* that of another with its address.                                       *)
LEMMA RemoveStep ==
  ASSUME TypeOK, FreshInv, IdInv, RemoveConnInLoop PROVE IdInv'
<1> DEFINE h == Head(baseTasks)
<1>1. /\ baseTasks # <<>> /\ baseTasks' = Tail(baseTasks)
      /\ conns' = [conns EXCEPT ![connId[h]] = NoEntry] /\ UNCHANGED <<connId, event, peer>>
  BY DEF RemoveConnInLoop
<1>2. /\ h = baseTasks[1] /\ 1 \in DOMAIN baseTasks /\ h \in Conns
      /\ \A i \in DOMAIN baseTasks' : i + 1 \in DOMAIN baseTasks /\ baseTasks'[i] = baseTasks[i + 1]
  BY <1>1, HeadTailProperties, LenProperties, EmptySeq DEF TypeOK
<1>3. Accepted(h) /\ ~event[h]
  BY <1>2 DEF IdInv, RemovalInv
<1>4. RemovalInv'
  BY <1>1, <1>2 DEF IdInv, RemovalInv, Accepted
<1> HIDE DEF h
<1>5. ASSUME NEW c \in Conns, event'[c], OwnId(c)' PROVE conns'[connId'[c]] = c
  <2>1. h # c /\ connId[h] # connId[c] /\ conns[connId[c]] = c
    BY <1>1, <1>2, <1>3, <1>5 DEF OwnId, Accepted, IdInv, EntryInv
  <2>2. connId[c] \in Ids
    BY <1>1, <1>5 DEF FreshInv
  <2> QED BY <1>1, <2>1, <2>2 DEF TypeOK
<1> QED BY <1>4, <1>5 DEF IdInv, EntryInv

(* A send changes no entry of a connection.                                *)
LEMMA GetConnStep ==
  ASSUME TypeOK, FreshInv, IdInv, NEW i \in Ids, GetConn(i),
         UNCHANGED <<connId, event, peer, baseTasks>>
  PROVE  IdInv'
<1>1. \A c \in Conns : event[c] => connId[c] \in Ids
  BY DEF FreshInv
<1>2. \A c \in Conns, k \in Ids : conns[k] = c => conns'[k] = c
  BY DEF GetConn, TypeOK, NoEntry, Conns
<1> QED BY <1>1, <1>2 DEF IdInv, RemovalInv, EntryInv, OwnId, Accepted

(* The entry of a new connection is its own.                               *)
LEMMA AcceptEntry ==
  ASSUME TypeOK, FreshInv, IdInv, NEW c \in Conns, NEW i \in Ids, NewConnAccept(c, i)
  PROVE  IdInv'
<1>1. /\ connId' = [connId EXCEPT ![c] = i] /\ peer' = [peer EXCEPT ![c] = "open"]
      /\ event' = [event EXCEPT ![c] = TRUE] /\ UNCHANGED baseTasks
      /\ conns' = [conns EXCEPT ![i] = c] /\ ~ Accepted(c)
  BY DEF NewConnAccept, Connectable, Accepted, Conns
<1>2. /\ \A d \in Conns \ {c} : /\ connId'[d] = connId[d] /\ peer'[d] = peer[d]
                                /\ event'[d] = event[d]
      /\ connId'[c] = i /\ peer'[c] = "open" /\ event'[c]
      /\ conns'[i] = c /\ \A k \in Ids \ {i} : conns'[k] = conns[k]
  BY <1>1 DEF TypeOK
<1>3. \A k \in DOMAIN baseTasks : baseTasks[k] \in Conns
  BY ElementOfSeq, LenProperties DEF TypeOK
<1>4. RemovalInv'
  BY <1>1, <1>2, <1>3 DEF IdInv, RemovalInv, Accepted
<1>5. ASSUME NEW d \in Conns, d # c, event'[d], OwnId(d)' PROVE conns'[connId'[d]] = d
  <2>1. connId'[c] # connId'[d]
    BY <1>2, <1>5 DEF OwnId, Accepted
  <2>2. OwnId(d)
    BY <1>1, <1>2, <1>5 DEF OwnId, Accepted
  <2>3. event[d] /\ connId[d] \in Ids
    BY <1>2, <1>5 DEF FreshInv
  <2> QED BY <1>2, <1>5, <2>1, <2>2, <2>3 DEF IdInv, EntryInv
<1> QED BY <1>2, <1>4, <1>5 DEF IdInv, EntryInv

(* A closed connection is to be removed, and has no claim to its entry.    *)
LEMMA CloseEntry ==
  ASSUME TypeOK, IdInv, NEW c \in Conns, Accepted(c), HandleClose(c), UNCHANGED <<connId, peer, conns>>
  PROVE  IdInv'
<1>1. CASE UNCHANGED <<event, baseTasks>>
  BY <1>1 DEF IdInv, RemovalInv, EntryInv, OwnId, Accepted
<1>2. CASE event' = [event EXCEPT ![c] = FALSE] /\ baseTasks' = Append(baseTasks, c)
  <2>1. /\ \A d \in Conns \ {c} : event'[d] = event[d]
        /\ ~event'[c]
    BY <1>2 DEF TypeOK
  <2>2. \A k \in DOMAIN baseTasks' :
          baseTasks'[k] = c \/ (k \in DOMAIN baseTasks /\ baseTasks'[k] = baseTasks[k]
                                 /\ baseTasks[k] \in Conns)
    BY <1>2, AppendProperties, LenProperties, ElementOfSeq DEF TypeOK
  <2>3. RemovalInv'
    BY <2>1, <2>2 DEF IdInv, RemovalInv, Accepted
  <2>4. EntryInv'
    BY <2>1 DEF IdInv, EntryInv, OwnId, Accepted
  <2> QED BY <2>3, <2>4 DEF IdInv
<1> QED BY <1>1, <1>2 DEF HandleClose

(* Every step keeps conns_ in order.                                       *)
LEMMA IdStep == ASSUME TypeOK, LifeInv, IdInv, Next PROVE IdInv'
<1>a. FreshInv /\ TaskInv
  BY DEF LifeInv
<1>1. CASE UNCHANGED <<connId, event, peer, baseTasks, conns>>
  BY <1>1 DEF IdInv, RemovalInv, EntryInv, OwnId, Accepted
<1>2. CASE RunTask
  <2>1. Head(ioTasks)[2] \in Conns /\ Accepted(Head(ioTasks)[2])
    BY <1>2, <1>a, RunTaskTakes DEF RunTask
  <2>2. UNCHANGED <<connId, peer, conns>>
    BY <1>2 DEF RunTask
  <2> QED BY <1>1, <1>2, <2>1, <2>2, CloseEntry DEF RunTask, ConnEstablished
<1>3. ASSUME NEW c \in Conns, Message(c) PROVE IdInv'
  <2>1. UNCHANGED <<connId, event, peer, baseTasks>> /\ (UNCHANGED conns \/ \E i \in Ids : GetConn(i))
    BY <1>3 DEF Message
  <2> QED BY <1>1, <1>a, <2>1, GetConnStep
<1>4. ASSUME NEW c \in Conns, ReadEof(c) PROVE IdInv'
  <2>1. Accepted(c) /\ HandleClose(c) /\ UNCHANGED <<connId, peer, conns>>
    BY <1>4 DEF ReadEof, Accepted
  <2> QED BY <2>1, CloseEntry
<1>5. ASSUME NEW i \in Ids, Send(i) PROVE IdInv'
  <2>1. GetConn(i) /\ UNCHANGED <<connId, event, peer, baseTasks>>
    BY <1>5 DEF Send
  <2> QED BY <1>a, <2>1, GetConnStep
<1>6. ASSUME NEW c \in Conns, PeerStops(c) PROVE IdInv'
  <2>1. /\ UNCHANGED <<connId, event, baseTasks, conns>>
        /\ \A d \in Conns : Accepted(d) <=> peer'[d] # "none"
    BY <1>6 DEF PeerStops, netVars, Accepted, TypeOK
  <2>2. \A k \in DOMAIN baseTasks : baseTasks[k] \in Conns
    BY ElementOfSeq, LenProperties DEF TypeOK
  <2> QED BY <2>1, <2>2 DEF IdInv, RemovalInv, EntryInv, OwnId, Accepted
<1>7. CASE Tick \/ TimerStep
  BY <1>1, <1>7 DEF Tick, TimerStep, TimerStart, TimerVisit, ForceClose, ForceCloseSet,
                    ForceCloseQueue, TimerErase, netVars
<1> QED BY <1>a, <1>2, <1>3, <1>4, <1>5, <1>6, <1>7, RemoveStep, AcceptEntry DEF Next

-----------------------------------------------------------------------------
(* The invariant holds from NetServer::start on.                           *)
LEMMA Invariance == Spec => []IInv
<1>1. Init => IInv
  <2> SUFFICES ASSUME Init PROVE IInv
    OBVIOUS
  <2>1. TypeOK
    <3>1. <<>> \in Seq(Conns) /\ <<>> \in Seq({"connEstablished", "handleClose"} \X Conns)
      BY EmptySeq
    <3>2. event \in [Conns -> BOOLEAN] /\ reading \in [Conns -> BOOLEAN]
      BY DEF Init
    <3>3. walk \in Walks
      BY DEF Init, Idle, Walks
    <3>5. closedBy \in [Conns -> SUBSET {"peer", "heartbeat"}] /\ victim \in Conns \cup {NoConn}
      BY DEF Init
    <3>4. age \in [Conns -> 0 .. Timeout + 1]
      BY ServerAssumption DEF Init
    <3> QED BY <3>1, <3>2, <3>3, <3>4, <3>5 DEF Init, TypeOK, Walks
  <2>2. FreshInv /\ UpInv /\ RemovalInv /\ EntryInv /\ TaskInv
    BY DEF Init, FreshInv, UpInv, RemovalInv, EntryInv, TaskInv, Accepted
  <2>3. WalkInv /\ ListInv /\ ForceInv
    BY DEF Init, WalkInv, ListInv, ForceInv, Idle
  <2>4. Watched /\ NullOnlyIfBothClose
    BY DEF Init, Watched, NullOnlyIfBothClose
  <2> QED BY <2>1, <2>2, <2>3, <2>4 DEF IInv
<1>2. IInv /\ [Next]_vars => IInv'
  <2> SUFFICES ASSUME IInv, [Next]_vars PROVE IInv'
    OBVIOUS
  <2>1. CASE Next
    BY <2>1, TypeStep, LifeStep, ListStep, ForceStep, IdStep, WatchedStep, NullStep
       DEF IInv, LifeInv, IdInv
  <2>2. CASE UNCHANGED vars
    BY <2>2 DEF vars, netVars, heartVars, histVars, IInv, TypeOK, FreshInv, UpInv, TaskInv,
                RemovalInv, EntryInv, WalkInv, ListInv, ForceInv, Watched, NullOnlyIfBothClose, OwnId, Accepted
  <2> QED BY <2>1, <2>2
<1> QED BY <1>1, <1>2, PTL DEF Spec

(* The types of NetServer's and HeartbeatRecv's members.                   *)
THEOREM ServerTypes == Spec => []TypeOK
<1>1. IInv => TypeOK
  BY DEF IInv
<1> QED BY <1>1, Invariance, PTL

(* Every connection that is up has an entry in HeartbeatRecv::connList_,   *)
(* whatever the timer threads erase while connections come and close.      *)
THEOREM UpMeansWatched == Spec => []Watched
<1>1. IInv => Watched
  BY DEF IInv
<1> QED BY <1>1, Invariance, PTL

(* NetServer::getconn finds every connection that is up, unless another    *)
(* has had its address: removeConnInLoop erases by the id alone.           *)
THEOREM UpMeansRegistered == Spec => []Registered
<1>1. IInv => Registered
  BY DEF IInv, UpInv, EntryInv, OwnId, Registered, Accepted
<1> QED BY <1>1, Invariance, PTL

(* The connection whose NetConnection::handleClose is called without a     *)
(* handler has read the end of its peer's stream and was forced closed by  *)
(* HeartbeatRecv::timerCallback, however their steps interleave.           *)
THEOREM NullNeedsBoth == Spec => []NullOnlyIfBothClose
<1>1. IInv => NullOnlyIfBothClose
  BY DEF IInv
<1> QED BY <1>1, Invariance, PTL
=============================================================================

# A verification development for websocket_cpp

TLA+ models of the event loop and its thread, the thread pool, the timers, the
buffer, the frame codec, the connection, the client and the server of `websocket_cpp`, the TLC runs that check them on small instances,
and TLAPS proofs of what holds for every instance. Every module is written from
the code; `PROJECT.json` maps each definition to the lines it stands for.

## The system

Four layers, each in C++ over Linux system calls.

| part | state | operations | hard behaviour |
|---|---|---|---|
| `base/Reactor`: one loop thread | `functorList_` (under `mutex_`), the eventfd, `bquit_`, `btaskRunning_` | `loop`, `queueInLoop`, `runInLoop`, `quit` from any thread | flags and `empty()` read without the lock; wakeups |
| `base/SelectPoller`, `EventHandler` | the poll array, one handler for a descriptor | `poll`, `handEvent`, `registerEvHandler`, `removeEvHandler` | a callback deletes its own handler; two handlers, one descriptor |
| `base/TimerQueue`, `Timer` | `timerLists_` by wall clock, one timerfd | `addTimer`, `eventRead`, `delTimer` | each expiry runs in a detached thread; the clock may be set |
| `websocket/WSProtocol` | `frameBuff_`, `framePos_` | `encodeFrame`, `decodeFrame` | boundaries of lengths; slices over several reads; masking in place |
| `net/NetConnection` | `state_`, `event_`, the buffers | `send`, `shutdown`, `forceClose` from any thread; `handleRead`, `handleClose` ... in the loop | `state_` is not locked; short writes; two sides closing |
| `net/Connector`, `NetClient` | `Connector::state_`, `event_`, `conn_` | `connect`, `handleWrite`, `retry`, `establishConnection` | failure, reconnection |
| `websocket/WSNet`, `HeartbeatSender`, `WebSocket` | `bconnected_`, the heartbeat `state_` | `send`, `onConnected`, `timerHandle` | timer threads, the loop and the user race on the state |
| `net/NetServer`, `Acceptor`, `websocket/WebSocketServer`, `HeartbeatRecv` | `conns_`, `connList_` | accept, `removeConn`, `timerCallback` | two loops and timer threads on unlocked lists |
| `base/ReactorThread(Pool)` | `loop_`, a pointer to the Reactor on the new thread's stack | `startLoop`, `threadProc`, the destructor | the two threads meet in a condition variable; quit races the end of the Reactor |
| `base/ThreadPool` | `taskList_`, `brunning_`, the workers | `start`, `stop`, `run`, `getTask` | one notify per task; `brunning_` read without the lock; stop while workers do anything |
| `base/Buffer` | a vector, used behind its `size()`, and two positions | `write`, `retrieve`, `reset`, `readfd`, `newSpace` | overflow into a second buffer; growth |

A loop thread (`ReactorThread`) runs `Reactor::loop`. Everything that belongs to
a connection is meant to run there; other threads hand over functors with
`runInLoop`. `TimerQueue` is an event handler of the loop, but `Timer::run`
starts a detached thread for every expiry, so `HeartbeatSender::timerHandle` and
`HeartbeatRecv::timerCallback` run outside the loop. A client (`WebSocket`,
`WSNet`) has one loop, one `NetClient` with its `Connector`, at most one
`NetConnection`, one `WSProtocol` and one `HeartbeatSender`. The server has an
accepting loop and a pool of I/O loops (one, as configured).

What makes each part correct: the loop runs what it is given, once and in order,
and is woken for it; a due timer runs; a message arrives as it was sent; the
stream of bytes is never broken inside a frame; the layer above hears of a
connection and its end once; the client notices a dead server and a waiting
`send` ends; a pool begins every task and can be stopped.

## The modules

| module | models | proofs |
|---|---|---|
| `TaskQueue` | what the Reactor promises (abstract) | |
| `Reactor` | `base/Reactor.cpp` with poll and dispatch | `ReactorProofs` |
| `ReactorThread` | `base/ReactorThread.cpp` around `Reactor` | `ReactorProofs` |
| `ThreadPool` | `base/ThreadPool.cpp`, `Thread.cpp`, `Condition.h` | `ThreadPoolProofs` |
| `TimerQueue` | `base/TimerQueue.cpp`, `base/Timer.cpp` | `TimerQueueProofs` |
| `WSProtocol` | `encodeFrame`, `decodeFrame` as operators | `WSProtocolProofs` |
| `WSStream` | one direction of a connection, over `WSProtocol` | `WSProtocolProofs` |
| `Buffer` | `base/Buffer.h`, `Buffer.cpp` as operators | `BufferProofs` |
| `NetConnection` | `net/NetConnection.cpp`, over `Buffer` | `NetConnectionProofs` |
| `Poller` | `SelectPoller`, `EventHandler` as operators | `WSClientProofs` |
| `WSClient` | `WSNet`, `HeartbeatSender`, `NetClient`, `Connector`, over `Poller` | `WSClientProofs` |
| `WSServer` | `NetServer`, `Acceptor`, `HeartbeatRecv`, `WebSocketServer` | `WSServerProofs` |

`MC*` modules and `.cfg` files hold the instances. Operators called "Mutant" in
their comment are plausible wrong versions of the definition that follows them;
they are no part of the specifications and serve to show that each property can
be violated.

**Reactor.** One action for each step another thread can see. `queueInLoop` is
`QueueLock`, `QueuePush`, `QueueWake`, `QueueWakeAgain`; `quit` is `QuitFlag`,
`QuitWake`; the loop goes through `While`, poll, the handlers, `CheckEmpty` or
`CheckNonEmpty` (which read the list without the lock: while a thread holds it,
either answer is possible), `Swap`, `RunFunctor`, `RunEnd`. Callbacks may call
back into the loop (`LoopQueue`, `LoopRun`, `LoopQuit`). The eventfd is whether
its counter is positive. Descriptors other than the eventfd are one, `"other"`.

**ReactorThread.** Extends `Reactor` by the thread that runs it: `startLoop` with
its wait for `loop_`, `threadProc` (`Construct`, `Publish`, `EnterLoop`,
`LeaveLoop`), and the destructor. The steps of the loop happen only between
`EnterLoop` and `LeaveLoop`, the calls of other threads only once `startLoop` has
returned; a call that finds the Reactor destroyed ends the behaviour
(`crash = "dangling"`). `pthread_create` may fail.

**ThreadPool.** A scope under `mutex_` is one step; `brunning_` is read outside it
in `While`. `notEmpty` is the set of threads that wait, and a wait may end by
itself. A task may throw, which ends the process, and a thread may fail to be
created. `starts` allows a second life of the pool, with the tasks the first left.
`getTask` and the call of the task are two steps (`GetTask`, `BeginTask`), so tasks
leave the list in order and begin in any. `run` tests `threadList_` without the
lock (`RunCheck`) before its scope (`RunPush`), whatever the owner is doing. The
assertions of `start`, `run` and `join` are outcomes (`crash`): a second `start`, a
`run` of a pool that is not started, a thread that was not created. What a `run`
reads of the vector `threadList_` while `start` or `stop` changes it is a data race;
the model takes the test as one step.

**TimerQueue.** Time is what is left until each timer and the timerfd fire, in
ticks. `Tick` passes time, `SetBack` sets the wall clock, which a timerfd armed
relatively does not notice. The first `resetTimerFd` of a process is absolute and
cut to a second, all others are relative. The sentinel, a year away, does not come
closer unless `YearPasses`. `threads` are the detached threads; running the
callback of a deleted `Timer`, or of the sentinel, ends the behaviour (`crash`). A
timestamp that is not `valid()` is `AddInvalid`: `insert` deletes the `Timer` and
`addTimer` goes on to use it. A `Timer` that repeats with `interval_` 0 and no
`compute_` stays due for ever. `addTimer` takes no lock, and `runEvery` or `runAt`
may be called in any thread; the race on the set is not modelled, each `addTimer`
is one step.

**WSProtocol and WSStream.** A frame is its header and which bytes of which
payload it carries, so the code's sizes 500 and 126 are used as they are.
`frameBuff_` has `MaxFrameSize` bytes (4 MiB in the code) and `decodeFrame` copies
slices into it without a test: a copy past its end ends the behaviour
(`status = "overrun"`), as do the failed assertions of `decodeFrame` about the length
of a read (`"longRead"`) or a frame (`"aborted"`), and that of `computeMask` about an
empty payload (`"emptySend"`). The
masking key is kept as the offset modulo 4 and, because `computeMask` changes the
caller's buffer, a flag for each message. `WSStream` sends frame by frame, with
heartbeats of another thread between, and reads any number of frames at a time. A
read that ends inside a frame makes `decodeFrame` read past its input; the
behaviour ends there (`status = "garbled"`). `FreshDecoder` tells the server's
decoder (a new one for each read) from the client's.

**Buffer.** The memory of the vector, its `capacity()` and its `size()` are three
fields, because the code writes to the memory behind `size()`, and growing takes
over only what `size()` covers; memory that no byte was put into is `Junk`. The
constants are the code's 8, 4096 and 65536, scaled down in the runs.

**Poller.** The poll array and the map of handlers. `WSClient` uses it for the one
descriptor that two handlers share, one after the other: the Connector's while
`connect` is under way, then the connection's.

**NetConnection.** The loop with its queue of functors (used as `TaskQueue`
describes it), a user thread, the timer thread in `forceClose`, the peer. A
message is `Size` units and a write takes any number of them; what is read goes
through `readBuffer_`, which is reset, filled by `readfd` and emptied by the
callback. `event_` used when
NULL, or a handler used after its deletion, ends the behaviour (`crash`).
`handleWrite` is there, with its `assert(0)`, and never reached: `WriteCallback` is
what the constructor leaves.

**WSClient.** `HeartbeatSender::state_` is read and written in separate steps by
the loop (`OnConnected`, `Start`, `ProcessPong`) and by timer threads
(`TimerCheckPing` ... `TimerSetReconnect`). A timer may expire whenever it is
armed. The connection is its state; PINGs and PONGs are counted.

**WSServer.** The base loop accepts (`NewConnAccept`) and removes
(`RemoveConnInLoop`); the I/O loop runs `ConnEstablished`, `HandleClose`, `Message`
and `ReadEof`; the timer thread walks `connList_` entry by entry, with the time it
took at the start (`TimerStart`, `TimerVisit`), and closes in the steps of
`forceClose` (`ForceClose`, `ForceCloseSet`, `ForceCloseQueue`) before it erases the
entry (`TimerErase`); one walk is over before the next begins; users
call `Send`, whose `getconn` may add a NULL entry. An id is an address, because
`connIndex_` is never incremented. No list is locked: when the I/O loop reaches
`connList_` while the timer thread is about to erase from it, the process may end
(`crash = "race"`). That is the one place where the race is modelled as such;
walking the list, and `conns_` between the base loop, the I/O loop and users, are
taken as steps that do not overlap.

## The runs

| run | result | shows |
|---|---|---|
| `reactor` | pass | no wakeup, quit or functor is lost; refinement of `TaskQueue`; a queued functor runs and quit ends the loop; `startLoop` returns a loop that exists; the destructor ends, or uses the destroyed Reactor |
| `thread_pool` | pass | one notify per task is enough; tasks leave the list in order and each begins once; `stop` returns and leaves no thread |
| `client_stream` | pass | messages of the lengths `encodeFrame` handles arrive whole, in order, unmasked; bad lengths do not harm others; `frameBuff_` is overrun only by a message longer than it |
| `connection` | pass | whole messages, in order, on the wire; what is read reaches the callback as it came; the upcall protocol; NULL only after a local close; a forced close is reported |
| `timer_queue` | pass | the timerfd is armed for the first timer; repeating timers stay; a due timer runs |
| `ws_client` | pass | no NULL connection used; reconnection is always under way in `eReconnect`; a live connection is polled and no deleted handler called; silence is noticed; `send` ends |
| `server` | pass | a live connection is watched and found under its id; a silent one is dropped; a closed one leaves `connList_`; `handleClose` meets NULL only for a connection that its peer and the heartbeat both closed |
| `unit_test_lengths` | violation | a last slice below 126 bytes is copied from the wrong place (`WSProtocol.cpp:187`) |
| `server_stream` | violation | the server forgets slices between reads (`WebSocketServer.cpp:66`) |
| `write_remainder` | violation | a buffered remainder is never sent, although the peer stays and reads are handled (`NetConnection.cpp:22`) |
| `timer_year` | violation | the sentinel's `assert(0)` runs after a year (`TimerQueue.cpp:104`) |
| `client_assert` | violation | reconnecting fails the assertion of `startInLoop` (`Connector.cpp:104`) |

Passing properties say what holds in spite of the flaws the other runs show, and
name the condition: `SentUnlessStalled`, `NullOnlyAfterLocalClose`,
`AbortsOnlyOnWholeSlices`, `OverrunsOnlyIfTooLong`, the thread that could not be
created in `StartReturns`, the destroyed Reactor in `DestructorEnds`, and in `SendEnds` the failed attempt or the closed
connection after which `send` waits for ever (`Connector::retry` returns before it
starts its timer, although its comment, `Connector.cpp:149`, says that it connects
again at growing intervals). `OneConnection` holds because of that same assertion:
without it a second connection replaces the first under the threads that use it.
`ReadIntact` and `WholeMessages` do not meet the branch of `newSpace` that moves
the data and sets `readPos_` to 0 (`Buffer.h:179`): it needs a buffer that was read
in part, and both buffers of a connection are empty when they are written to.

Bounds. `reactor`: two threads, one of them the owner of the loop, and three
functors, enough for one to be appended by each thread, or by a callback, while a
batch runs and while the owner calls the destructor. `thread_pool`: three workers,
four tasks, two starts: a worker may be waiting, busy or between the two when a
task comes, and tasks be left for the second life. `client_stream`: three
messages and one heartbeat, of lengths on both sides of 126, 500 and 1000, so that
a good message follows an unfinished one with a heartbeat between. `MaxFrameSize`
is scaled down to 1498 there, so that a message fills `frameBuff_`, or is a byte too
long for it, with an earlier one unfinished; the runs of the violations have the
code's 4194304. `connection`:
two messages of the user and the replies, of three units, so that a write is cut,
with a rest that fits the write buffer or makes it grow, and another message
follows; three units of the peer and a read buffer of one, so that one read fills
it or overflows it, and a later one finds it grown. `timer_queue`: two timers with delays and
intervals from 0 to 2, all equal and unequal expiries, one step of the clock.
`ws_client`: two timer threads at a time, three PINGs or PONGs under way, two
functors queued before a timer expires. The heartbeat timers are bounded by 3, and
at most 2 are ever started. `server`: two connections, from one address or from
two, so that one is removed while the other, with the same id, is up; a timeout of
one tick, so that messages may come in time or too late. Deadlock is not checked where the system may stop: all
messages sent, or after a crash.

Fairness. Weak fairness of the loop's steps (its thread runs and callbacks
return), of calls that have begun, and of threads that were started; the tasks of
a pool return. In `NetConnection` reading is fair too, as `poll` is level-triggered:
as long as there is data, the end of the stream or an error, `handleRead` is called
(the clause is weak fairness of `HandleRead`, with its ENABLED written out as
`Readable`). In `Reactor` `poll` is
fair only if the eventfd is readable, so that the one second timeout of `poll` is
not what saves a lost wakeup. A user is never obliged to call, nor the peer to
answer; `connect` ends, with the kernel's timeout at the latest. In `TimerQueue`
and `WSServer` time passes, and in `WSServer` the repeating timer starts its
thread, which is what `timer_queue` shows of it. No strong fairness is used.

## The proofs

Every safety property that a passing run checks is a theorem: it holds for every
value of the constants, not for the instance of the run alone. Each is proved in
the same way: an inductive invariant, checked by TLC first, that implies it; one
step per action of the specification.

**`ReactorProofs`.** `LoopInv` is inductive, for any `Threads` and `Tasks`. It ties
`btaskRunning` to the place of the loop, the owner of `mutex` to the thread in
`QueuePush`, and says who is still to wake the loop whenever the list is not
empty: the eventfd, a thread before its write, or the loop before its next look
at the list. `NoLostWakeup` and `NoLostQuit` follow. `ReactorRefinesTaskQueue`
maps the queue to the rest of the batch followed by `functorList` and shows every
step to be a step of `TaskQueue` or a stutter. `LoopThreadRunsReactor`: `ThreadSpec`
of `ReactorThread` implies `Spec` of `Reactor`, so that all of this holds of a loop
from `startLoop` to the destructor. `StartLoopHandleIsValid` needs `HandleInv`:
`loop_` is set only after the Reactor is constructed, whoever is past `startLoop`
has seen it set, and a loop ends only after `bquit_`.

**`ThreadPoolProofs`**, for any number of workers, tasks and restarts.
`EnoughAwake` counts: a task that is added notifies one of the waiting workers, and
a worker that takes a task lowers both counts by one. It is inductive once
`PhaseInv` says where the workers are in each phase of the owner (only created
threads run, none has ended while the pool runs, `stop` has joined the first ones).
`PhaseInv` also gives `StoppedMeansEnded`. `EachTaskOnce` needs that a worker is
created only when it holds no task, which is in `PhaseInv` too.

**`TimerQueueProofs`.** `TimerInv` is inductive, for any timers, delays and year.
`Armed` alone is not: it needs that timers are nearer than the sentinel, that a
sentinel that does not tick keeps its distance, and, for the one absolute
arming, that nothing is in the list before it. Arming for a minimum and passing
of time commute with it (`ResetArms`, `TickCommutes`). `TimerfdArmed` and
`RepeatingTimersStay` follow.

**`WSProtocolProofs`.** `EncodeCorrect`: for every slice size that is a multiple of
the key's 4 bytes and every good length, the frames tile the payload, only the
last has FIN, none fails the receiver's assertions about a frame, and each starts
on a key boundary. The lengths left out are the ones the runs show to go wrong.

The stream, for any lengths and any number of messages, heartbeats and reads:
`FramesInv` says that what is under way (the frames read and not yet decoded, then
those in the socket) are heartbeats and frames of the messages sent. That is
enough for `AbortNeedsWholeSlices`, on either side of the connection. The other
theorems are about the client, `FreshDecoder = FALSE`; for the server the run
`server_stream` shows them false. `StreamInv` adds, with frames ordered by message and place in it:
`QueuedInv`, the frames under way are in this order and none is missing, so that
the one before a continuation is under way too or the last in `frameBuff_`;
`BufInv`, `frameBuff_` holds the first slices of one message and all that is under
way comes after them; `DeliveredInv`, what was handed over is all that
`encodeFrame` made of a message, and what is under way belongs to later ones;
`LastInv`, the last frame of a message is not sent, under way, or was decoded. When
a continuation is decoded, `frameBuff_` therefore holds exactly the slices before
it. With `EncodeCorrect` that is `Intact`; `DeliveredInOrder` is a part of it.
`NothingSwallowed` also needs the count of heartbeats (`BeatsInv`: sent ones are
under way or handed over).
`frameBuff_` has an end in all of this: the theorems hold up to the frame that
overruns it, where the behaviour ends, and `ClientOverrunsOnlyTooLong` says that this
is a slice of a message longer than `MaxFrameSize`. It needs `PosInv`: as long as the
message in `frameBuff_` is unfinished, `framePos_` is the slices decoded so far times
`SliceSize`, which is where the next one starts in the message.

**`BufferProofs`.** A buffer of which no part was read (`Unread`: `readPos_` is at
`csPrependSize`) stays so under `write`, `readfd`, `reset` and `readAll`; for such a
buffer `newSpace` never takes its other branch (`NeverMoves`), so `WriteAppends`
and `ReadFdAppends` hold for all sizes, overflow and growth included.

**`NetConnectionProofs`**, for any constants. `ReadInv` says that between
events the read buffer is empty and the write buffer unread, and that the units
handed over and those in the socket are together what the peer sent; the last
only until a reset throws away what the socket held, after which nothing is
read. It needs that `handleWrite` is not the write callback: a remainder sent in
parts would leave the write buffer read in part. `ReadsIntact` follows. `LifeInv`
is the life of the connection: nothing is queued or called before
`connEstablished`, `"disconnected"` is reported together with the end of `event_`,
and a functor that uses `event_` untested comes from a call of this side. From it
`UpcallsInOrder` and `PeerCloseIsSafe`. `SendInv`: the functors of `send` are in the
order of the calls and their messages not out yet (`OrderInv`); what is on the wire,
followed by the write buffer, is whole messages (`OutInv`); until a write is cut
short nothing is buffered and a message is on the wire, queued, or with the user's
thread (`SentInv`). From it `MessagesStayWhole` and `NothingLostUnlessStalled`.

**`WSClientProofs`**, for any number of timer threads. `ConnInv` gives the poller's
contents exactly in every state, by lemmas about registering, changing and
deleting the only handler of a descriptor; `HeartInv` says that the heartbeat
starts after the connection exists and that no timer thread runs before it;
`PendingInv`, that a thread about to set `eReconnect` has queued `startInLoop`.

**`WSServerProofs`**, for any connections, addresses and timeout. `Watched` holds
because `connEstablished` enters the connection into `connList_` and the timer thread
erases only the entry of a connection it has just closed; to be inductive it needs that a connection has
one entry (`WalkInv`) and at most one functor on the I/O loop, during which it is
not up (`TaskInv`). `NullNeedsBoth` follows the connection whose `handleClose` crashes
(`victim`): that functor came from `forceClose`, which found the connection up, and
only the end of its stream can have taken `event_` away since. `Registered` needs that a connection is removed from `conns_`
only when its handler is gone, by an id that no other one has (`RemovalInv`,
`EntryInv`).

Assumptions on constants are named in the modules and evaluated by TLC.

Only model-checked: the liveness properties (`QueuedRuns`, `QuitStops`,
`StartReturns`, `DestructorEnds`, `CloseNotified`, `DueRuns`, `SilenceNoticed`,
`SendEnds`, `SilentDropped`, `ClosedForgotten`, `StopReturns`, `QueuedBegins`), since
fairness is outside the prover, and the violations, which are counterexamples.

## Not modelled

Wrappers of system calls (`SocketOpts`, `Singleton`, `BCFProcessCreater`), string
splitting (`Utility`), glog, `Buffer::prepend` and `Condition::waitForSeconds` (nothing
calls them), `ReactorThreadPool` (a list of loop threads handed out in turn; the
server has one), the close frame (nothing sends it), `WSNet::close` and
other destructors that no program reaches. What a read past the end of the input decodes
to is not modelled.

## Plan

1. Done: `Reactor`, `TaskQueue` and `ReactorThread`, `ThreadPool`, `WSProtocol` and
   `WSStream`, `Buffer` and `NetConnection`, `TimerQueue`, `Poller` and `WSClient`,
   `WSServer`.
2. Done: the safety properties of the runs as theorems, the refinement of
   `TaskQueue` by `Reactor` and of `Reactor` by `ReactorThread`.
3. Left: action properties that sharpen the invariants (what no step of `stop`, of
   the decoder or of the heartbeat's walk may undo).

------------------------------- MODULE Reactor -------------------------------
(***************************************************************************)
(* base/Reactor.cpp: one loop thread that polls file descriptors and runs  *)
(* the functors other threads hand it, and the threads that call           *)
(* queueInLoop, runInLoop and quit.                                        *)
(*                                                                         *)
(* What is kept: every step of a thread another thread can observe.        *)
(* queueInLoop is three steps (append under mutex_, eventfdWrite, the      *)
(* second eventfdWrite that btaskRunning_ asks for); quit is two.  The     *)
(* loop reads bquit_, btaskRunning_ and functorList_.empty() without       *)
(* mutex_, as the code does.  What is abstracted: a functor is a name, the *)
(* eventfd counter is whether it is positive, and all descriptors but the  *)
(* eventfd are one, "other", whose readiness nobody controls.              *)
(***************************************************************************)
EXTENDS Sequences, Functions

CONSTANTS Threads,      \* the threads that are not the loop thread
          Tasks,        \* the functors; each is submitted at most once
          NoThread,     \* mutex_ is free
          NoTask        \* a thread appends nothing

ASSUME ThreadsAssumption == NoThread \notin Threads /\ NoTask \notin Tasks

VARIABLES functorList,  \* functorList_, guarded by mutex_
          mutex,        \* the holder of mutex_
          wakeup,       \* taskWakeupFd_ is readable
          bquit,        \* bquit_
          btaskRunning, \* btaskRunning_
          loopPc,       \* where the loop thread is
          active,       \* activeList_: handlers poll() reported, not yet handled
          functor,      \* the local batch of runningTask that remains to be run
          ran,          \* functors run so far, in order
          pc,           \* where each other thread is in queueInLoop or quit
          arg           \* the functor a thread is appending

vars == <<functorList, mutex, wakeup, bquit, btaskRunning, loopPc, active,
          functor, ran, pc, arg>>

Handlers == {"task", "other"}

LoopPcs == {"while", "poll", "dispatch", "handler", "check", "swap", "run",
            "task", "exit"}

(* A functor no one has submitted yet. *)
Fresh(t) == /\ t \notin Range(functorList) \cup Range(functor) \cup Range(ran)
            /\ \A p \in Threads : arg[p] # t

TypeOK == /\ functorList \in Seq(Tasks)
          /\ functor \in Seq(Tasks)
          /\ ran \in Seq(Tasks)
          /\ mutex \in Threads \cup {NoThread}
          /\ wakeup \in BOOLEAN /\ bquit \in BOOLEAN /\ btaskRunning \in BOOLEAN
          /\ loopPc \in LoopPcs
          /\ active \subseteq Handlers
          /\ pc \in [Threads -> {"idle", "push", "wake", "again", "quitWake"}]
          /\ arg \in [Threads -> Tasks \cup {NoTask}]
          /\ \A p \in Threads : pc[p] = "push" => arg[p] \in Tasks

(***************************************************************************)
(* The constructor registers taskHandler_ for reading before the loop runs.*)
(***************************************************************************)
Init == /\ functorList = <<>> /\ functor = <<>> /\ ran = <<>>
        /\ mutex = NoThread
        /\ wakeup = FALSE /\ bquit = FALSE /\ btaskRunning = FALSE
        /\ loopPc = "while" /\ active = {}
        /\ pc = [p \in Threads |-> "idle"]
        /\ arg = [p \in Threads |-> NoTask]

-----------------------------------------------------------------------------
(* queueInLoop from a thread that is not the loop thread; runInLoop from   *)
(* such a thread is the same call.                                         *)

(* LockGuard lock(&mutex_) *)
QueueLock(p, t) ==
  /\ pc[p] = "idle" /\ mutex = NoThread /\ Fresh(t)
  /\ mutex' = p
  /\ pc' = [pc EXCEPT ![p] = "push"]
  /\ arg' = [arg EXCEPT ![p] = t]
  /\ UNCHANGED <<functorList, wakeup, bquit, btaskRunning, loopPc, active,
                 functor, ran>>

(* push_back and the end of the guard's scope *)
QueuePush(p) ==
  /\ pc[p] = "push"
  /\ functorList' = Append(functorList, arg[p])
  /\ mutex' = NoThread
  /\ pc' = [pc EXCEPT ![p] = "wake"]
  /\ arg' = [arg EXCEPT ![p] = NoTask]
  /\ UNCHANGED <<wakeup, bquit, btaskRunning, loopPc, active, functor, ran>>

(* Mutant: the loop is woken only while it runs tasks. *)
QueueWakeIfRunning(p) ==
  /\ pc[p] = "wake"
  /\ wakeup' = (wakeup \/ btaskRunning)
  /\ pc' = [pc EXCEPT ![p] = "again"]
  /\ UNCHANGED <<functorList, mutex, bquit, btaskRunning, loopPc, active,
                 functor, ran, arg>>

(* if (!isInLoopThread()) eventfdWrite(taskWakeupFd_) *)
QueueWake(p) ==
  /\ pc[p] = "wake"
  /\ wakeup' = TRUE
  /\ pc' = [pc EXCEPT ![p] = "again"]
  /\ UNCHANGED <<functorList, mutex, bquit, btaskRunning, loopPc, active,
                 functor, ran, arg>>

(* if (btaskRunning_) eventfdWrite(taskWakeupFd_), read without the lock *)
QueueWakeAgain(p) ==
  /\ pc[p] = "again"
  /\ wakeup' = (wakeup \/ btaskRunning)
  /\ pc' = [pc EXCEPT ![p] = "idle"]
  /\ UNCHANGED <<functorList, mutex, bquit, btaskRunning, loopPc, active,
                 functor, ran, arg>>

(* quit from another thread: bquit_ = true, then eventfdWrite *)
QuitFlag(p) ==
  /\ pc[p] = "idle"
  /\ bquit' = TRUE
  /\ pc' = [pc EXCEPT ![p] = "quitWake"]
  /\ UNCHANGED <<functorList, mutex, wakeup, btaskRunning, loopPc, active,
                 functor, ran, arg>>

QuitWake(p) ==
  /\ pc[p] = "quitWake"
  /\ wakeup' = TRUE
  /\ pc' = [pc EXCEPT ![p] = "idle"]
  /\ UNCHANGED <<functorList, mutex, bquit, btaskRunning, loopPc, active,
                 functor, ran, arg>>

(* Mutant: the loop is woken before the flag is set. *)
QuitSwapped(p) ==
  /\ \/ pc[p] = "idle" /\ wakeup' = TRUE /\ UNCHANGED bquit
        /\ pc' = [pc EXCEPT ![p] = "quitWake"]
     \/ pc[p] = "quitWake" /\ bquit' = TRUE /\ UNCHANGED wakeup
        /\ pc' = [pc EXCEPT ![p] = "idle"]
  /\ UNCHANGED <<functorList, mutex, btaskRunning, loopPc, active, functor,
                 ran, arg>>

(* Mutant: quit only sets the flag. *)
QuitSilent(p) ==
  /\ bquit' = TRUE
  /\ UNCHANGED <<functorList, mutex, wakeup, btaskRunning, loopPc, active,
                 functor, ran, pc, arg>>

Quit(p) == QuitFlag(p) \/ QuitWake(p)

-----------------------------------------------------------------------------
(* The loop thread.                                                        *)

(* while (!bquit_) *)
While ==
  /\ loopPc = "while"
  /\ loopPc' = IF bquit THEN "exit" ELSE "poll"
  /\ UNCHANGED <<functorList, mutex, wakeup, bquit, btaskRunning, active,
                 functor, ran, pc, arg>>

(* poll() with the eventfd readable: findActiveEvHandlers reports it, and  *)
(* whatever else is readable.                                              *)
PollWakeup ==
  /\ loopPc = "poll" /\ wakeup
  /\ \E others \in SUBSET {"other"} : active' = {"task"} \cup others
  /\ loopPc' = "dispatch"
  /\ UNCHANGED <<functorList, mutex, wakeup, bquit, btaskRunning, functor,
                 ran, pc, arg>>

(* poll() returns without the eventfd: another descriptor is readable, or  *)
(* csPollTimeoutMs passed, or a signal came.                               *)
PollOther ==
  /\ loopPc = "poll" /\ ~wakeup
  /\ active' \in SUBSET {"other"}
  /\ loopPc' = "dispatch"
  /\ UNCHANGED <<functorList, mutex, wakeup, bquit, btaskRunning, functor,
                 ran, pc, arg>>

(* taskWakeupRead: pollFds_ holds the eventfd first, so it is handled first *)
HandleTask ==
  /\ loopPc = "dispatch" /\ "task" \in active
  /\ wakeup' = FALSE
  /\ active' = active \ {"task"}
  /\ UNCHANGED <<functorList, mutex, bquit, btaskRunning, loopPc, functor,
                 ran, pc, arg>>

(* handEvent of another handler: its callback starts *)
HandleOther ==
  /\ loopPc = "dispatch" /\ active = {"other"}
  /\ active' = {}
  /\ loopPc' = "handler"
  /\ UNCHANGED <<functorList, mutex, wakeup, bquit, btaskRunning, functor,
                 ran, pc, arg>>

(* the callback of a handler, or a functor, returns *)
CallbackReturn ==
  /\ loopPc \in {"handler", "task"}
  /\ loopPc' = IF loopPc = "handler" THEN "dispatch" ELSE "run"
  /\ UNCHANGED <<functorList, mutex, wakeup, bquit, btaskRunning, active,
                 functor, ran, pc, arg>>

DispatchEnd ==
  /\ loopPc = "dispatch" /\ active = {}
  /\ loopPc' = "check"
  /\ UNCHANGED <<functorList, mutex, wakeup, bquit, btaskRunning, active,
                 functor, ran, pc, arg>>

(* if (functorList_.empty()) return: read without mutex_.  While a thread  *)
(* holds mutex_ its push_back may be half done, and empty() answers either *)
(* way.                                                                    *)
CheckEmpty ==
  /\ loopPc = "check"
  /\ functorList = <<>>
  /\ loopPc' = "while"
  /\ UNCHANGED <<functorList, mutex, wakeup, bquit, btaskRunning, active,
                 functor, ran, pc, arg>>

CheckNonEmpty ==
  /\ loopPc = "check"
  /\ functorList # <<>> \/ mutex # NoThread
  /\ btaskRunning' = TRUE
  /\ loopPc' = "swap"
  /\ UNCHANGED <<functorList, mutex, wakeup, bquit, active, functor, ran, pc,
                 arg>>

(* Mutant: the list is copied, not swapped. *)
SwapCopies ==
  /\ loopPc = "swap" /\ mutex = NoThread
  /\ functor' = functorList
  /\ loopPc' = "run"
  /\ UNCHANGED <<functorList, mutex, wakeup, bquit, btaskRunning, active, ran,
                 pc, arg>>

(* functor.swap(functorList_) under mutex_ *)
Swap ==
  /\ loopPc = "swap" /\ mutex = NoThread
  /\ functor' = functorList
  /\ functorList' = <<>>
  /\ loopPc' = "run"
  /\ UNCHANGED <<mutex, wakeup, bquit, btaskRunning, active, ran, pc, arg>>

(* functor[i]() starts *)
RunFunctor ==
  /\ loopPc = "run" /\ functor # <<>>
  /\ ran' = Append(ran, Head(functor))
  /\ functor' = Tail(functor)
  /\ loopPc' = "task"
  /\ UNCHANGED <<functorList, mutex, wakeup, bquit, btaskRunning, active, pc,
                 arg>>

(* Mutant: btaskRunning_ is not reset. *)
RunEndNoReset ==
  /\ loopPc = "run" /\ functor = <<>>
  /\ loopPc' = "while"
  /\ UNCHANGED <<functorList, mutex, wakeup, bquit, btaskRunning, active,
                 functor, ran, pc, arg>>

RunEnd ==
  /\ loopPc = "run" /\ functor = <<>>
  /\ btaskRunning' = FALSE
  /\ loopPc' = "while"
  /\ UNCHANGED <<functorList, mutex, wakeup, bquit, active, functor, ran, pc,
                 arg>>

-----------------------------------------------------------------------------
(* Calls a callback makes on its own loop.                                 *)
InCallback == loopPc \in {"handler", "task"}

(* Mutant: a task queued by a task does not wake the loop again. *)
LoopQueueSilent(t) ==
  /\ InCallback /\ mutex = NoThread /\ Fresh(t)
  /\ functorList' = Append(functorList, t)
  /\ UNCHANGED <<mutex, wakeup, bquit, btaskRunning, loopPc, active, functor,
                 ran, pc, arg>>

(* queueInLoop: no wakeup of its own, only the one btaskRunning_ asks for *)
LoopQueue(t) ==
  /\ InCallback /\ mutex = NoThread /\ Fresh(t)
  /\ functorList' = Append(functorList, t)
  /\ wakeup' = (wakeup \/ btaskRunning)
  /\ UNCHANGED <<mutex, bquit, btaskRunning, loopPc, active, functor, ran, pc,
                 arg>>

(* runInLoop: func() at once *)
LoopRun(t) ==
  /\ InCallback /\ Fresh(t)
  /\ ran' = Append(ran, t)
  /\ UNCHANGED <<functorList, mutex, wakeup, bquit, btaskRunning, loopPc,
                 active, functor, pc, arg>>

LoopQuit ==
  /\ InCallback
  /\ bquit' = TRUE /\ wakeup' = TRUE
  /\ UNCHANGED <<functorList, mutex, btaskRunning, loopPc, active, functor,
                 ran, pc, arg>>

-----------------------------------------------------------------------------
ThreadStep(p) == \/ \E t \in Tasks : QueueLock(p, t)
                 \/ QueuePush(p)
                 \/ QueueWake(p)
                 \/ QueueWakeAgain(p)
                 \/ Quit(p)

LoopStep == \/ While
            \/ PollWakeup
            \/ PollOther
            \/ HandleTask
            \/ HandleOther
            \/ CallbackReturn
            \/ DispatchEnd
            \/ CheckEmpty
            \/ CheckNonEmpty
            \/ Swap
            \/ RunFunctor
            \/ RunEnd

CallbackStep == \/ \E t \in Tasks : LoopQueue(t) \/ LoopRun(t)
                \/ LoopQuit

Next == LoopStep \/ CallbackStep \/ \E p \in Threads : ThreadStep(p)

(***************************************************************************)
(* A call that has begun ends, callbacks return, and the loop thread runs. *)
(* Nothing makes poll() return while the eventfd is not readable: that the *)
(* timeout rescues a lost wakeup is not assumed.                           *)
(***************************************************************************)
CallProgress(p) == QueuePush(p) \/ QueueWake(p) \/ QueueWakeAgain(p) \/ QuitWake(p)

LoopProgress == \/ While \/ PollWakeup \/ HandleTask \/ HandleOther
                \/ CallbackReturn \/ DispatchEnd \/ CheckEmpty
                \/ CheckNonEmpty \/ Swap \/ RunFunctor \/ RunEnd

Fairness == (\A p \in Threads : WF_vars(CallProgress(p))) /\ WF_vars(LoopProgress)

Spec == Init /\ [][Next]_vars

FairSpec == Spec /\ Fairness

-----------------------------------------------------------------------------
(* Properties.                                                             *)

(* A functor that is still in functorList_ when the loop is past the check *)
(* of runningTask, and up to the poll() that follows, has a wakeup in the  *)
(* eventfd or a caller about to write one: poll() cannot sleep on it.      *)
(* (Reactor.cpp, queueInLoop and runningTask; the reason Reactor.h gives   *)
(* for btaskRunning_.)                                                     *)
NoLostWakeup ==
  loopPc \in {"run", "task", "while", "poll"} /\ functorList # <<>>
    => wakeup \/ \E p \in Threads : pc[p] = "wake"

(* A loop about to sleep in poll() although quit was called has a wakeup   *)
(* in the eventfd or a caller of quit about to write one.                  *)
NoLostQuit ==
  loopPc = "poll" /\ bquit => wakeup \/ \E p \in Threads : pc[p] = "quitWake"

(* The invariant that makes both inductive: who holds mutex_ is the one    *)
(* appending; btaskRunning_ is set exactly while runningTask is past its   *)
(* check; the eventfd the loop is about to read is readable (the assertion *)
(* of eventfdRead); a batch is left only inside runningTask.               *)
LoopInv ==
  /\ TypeOK
  /\ \A p \in Threads : pc[p] = "push" <=> mutex = p
  /\ btaskRunning <=> loopPc \in {"swap", "run", "task"}
  /\ "task" \in active => wakeup /\ loopPc = "dispatch"
  /\ functor # <<>> => loopPc \in {"run", "task"}
  /\ NoLostWakeup
  /\ NoLostQuit

(* The loop and its callers implement one serial queue: a functor handed   *)
(* over runs once, after those handed over before it.                      *)
TQ == INSTANCE TaskQueue WITH queue <- functor \o functorList
RunsInOrder == TQ!QueueSpec

(* Every functor queued runs, unless the loop is told to quit first; poll()*)
(* timing out is not needed for it.                                        *)
QueuedRuns ==
  \A t \in Tasks : t \in Range(functorList) ~> t \in Range(ran) \/ bquit

(* After quit() the loop ends, without help of the poll() timeout.         *)
QuitStops == bquit ~> loopPc = "exit"
=============================================================================

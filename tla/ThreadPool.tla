----------------------------- MODULE ThreadPool -----------------------------
(***************************************************************************)
(* base/ThreadPool.cpp with base/Thread.cpp, Condition.h and MutexLock.h:  *)
(* worker threads that take tasks from one list, the owner, which starts   *)
(* and stops the pool, and the threads that call run.                      *)
(*                                                                         *)
(* mutex_ is held from the start to the end of a LockGuard's scope, or to  *)
(* the wait inside it, and no thread looks at what it guards without it,   *)
(* except at brunning_, which each scope writes at most once: a scope is   *)
(* one step.  A task begins when the scope it was taken in is over.  run   *)
(* looks at threadList_ without the mutex, before its scope.  notEmpty_ is *)
(* the set of threads that wait in it.                                     *)
(*                                                                         *)
(* A task is its number, in the order of the calls of run.                 *)
(***************************************************************************)
EXTENDS Integers, Sequences, FiniteSets

CONSTANTS ThreadNum,    \* threadNum, the argument of start
          MaxTasks,     \* bound: calls of run
          MaxStarts     \* bound: calls of start

ASSUME PoolAssumption ==
  ThreadNum \in Nat \ {0} /\ MaxTasks \in Nat /\ MaxStarts \in Nat

Workers == 1 .. ThreadNum

VARIABLES taskList,   \* taskList_
          brunning,   \* brunning_
          notEmpty,   \* the threads waiting in notEmpty_
          threads,    \* the length of threadList_
          bstarted,   \* the threads with bstarted_ set
          pc,         \* where each worker is
          task,       \* the worker's local t, 0 for an empty one
          owner,      \* "idle", "start", "running", "join": in stop
          joined,     \* threads the owner has joined and deleted in stop
          starts,     \* calls of start
          calling,    \* threads in run, past its assertion
          pushed,     \* tasks handed over by run
          begun,      \* history: how often each task was begun
          crash       \* "no", "abort": a task threw; or the function whose
                      \* assertion failed: "start", "run", "join"

poolVars == <<taskList, brunning, notEmpty, threads, bstarted>>
workerVars == <<pc, task, begun>>
ownerVars == <<owner, joined, starts>>
runVars == <<calling, pushed>>
vars == <<poolVars, workerVars, ownerVars, runVars, crash>>

WorkerPcs == {"none", "while", "getTask", "begin", "run", "sleep", "exit"}

TypeOK == /\ taskList \in Seq(1 .. MaxTasks)
          /\ begun \in [1 .. MaxTasks -> Nat]
          /\ brunning \in BOOLEAN
          /\ notEmpty \subseteq Workers /\ bstarted \subseteq Workers
          /\ threads \in 0 .. ThreadNum /\ joined \in 0 .. ThreadNum
          /\ pc \in [Workers -> WorkerPcs]
          /\ task \in [Workers -> 0 .. MaxTasks]
          /\ owner \in {"idle", "start", "running", "join"}
          /\ starts \in 0 .. MaxStarts
          /\ calling \in Nat /\ pushed \in Nat /\ pushed + calling <= MaxTasks
          /\ crash \in {"no", "start", "run", "join", "abort"}

Init == /\ taskList = <<>> /\ brunning = FALSE /\ notEmpty = {}
        /\ threads = 0 /\ bstarted = {}
        /\ pc = [w \in Workers |-> "none"] /\ task = [w \in Workers |-> 0]
        /\ owner = "idle" /\ joined = 0 /\ starts = 0
        /\ calling = 0 /\ pushed = 0 /\ begun = [t \in 1 .. MaxTasks |-> 0]
        /\ crash = "no"

-----------------------------------------------------------------------------
(* Condition.                                                              *)

(* notify: one of the waiting threads, or nobody if there is none *)
Notify == \/ notEmpty = {} /\ UNCHANGED notEmpty
          \/ \E w \in notEmpty : notEmpty' = notEmpty \ {w}

NotifyAll == notEmpty' = {}

(* pthread_cond_wait may return although nobody called notify.             *)
SpuriousWakeup(w) ==
  /\ crash = "no" /\ w \in notEmpty
  /\ notEmpty' = notEmpty \ {w}
  /\ UNCHANGED <<taskList, brunning, threads, bstarted, workerVars, ownerVars, runVars, crash>>

-----------------------------------------------------------------------------
(* The owner: the thread that starts and stops the pool.                   *)

(* start asserts that threadList_ is empty, which it is not in a pool that *)
(* was started and not stopped.                                            *)
Start ==
  /\ crash = "no" /\ owner \in {"idle", "running"} /\ starts < MaxStarts
  /\ starts' = starts + 1
  /\ IF threads = 0
     THEN brunning' = TRUE /\ owner' = "start" /\ UNCHANGED crash
     ELSE crash' = "start" /\ UNCHANGED <<brunning, owner>>
  /\ UNCHANGED <<taskList, notEmpty, threads, bstarted, workerVars, joined, runVars>>

(* Thread::start: pthread_create, which may fail and leaves bstarted_      *)
(* unset then                                                              *)
ThreadStart(w) ==
  \/ /\ bstarted' = bstarted \cup {w}
     /\ pc' = [pc EXCEPT ![w] = "while"]
  \/ UNCHANGED <<bstarted, pc>>

(* one pass of start's loop, and the end of start after the last *)
StartThread ==
  /\ crash = "no" /\ owner = "start"
  /\ threads' = threads + 1
  /\ ThreadStart(threads')
  /\ owner' = IF threads' = ThreadNum THEN "running" ELSE "start"
  /\ UNCHANGED <<taskList, brunning, notEmpty, task, begun, joined, starts, runVars, crash>>

(* Mutant: stop wakes one thread. *)
StopOne ==
  /\ crash = "no" /\ owner \in {"idle", "running"}
  /\ brunning' = FALSE
  /\ Notify
  /\ owner' = "join" /\ joined' = 0
  /\ UNCHANGED <<taskList, threads, bstarted, workerVars, starts, runVars, crash>>

(* stop, under mutex_; also of a pool that is not started *)
Stop ==
  /\ crash = "no" /\ owner \in {"idle", "running"}
  /\ brunning' = FALSE
  /\ NotifyAll
  /\ owner' = "join" /\ joined' = 0
  /\ UNCHANGED <<taskList, threads, bstarted, workerVars, starts, runVars, crash>>

(* Mutant: the thread is deleted, which detaches it, and not joined. *)
JoinDetaches ==
  /\ crash = "no" /\ owner = "join" /\ joined < threads
  /\ joined' = joined + 1
  /\ UNCHANGED <<poolVars, workerVars, owner, starts, runVars, crash>>

(* Thread::join asserts bstarted_ and waits for the thread's end; then the *)
(* Thread is deleted.                                                      *)
Join ==
  /\ crash = "no" /\ owner = "join" /\ joined < threads
  /\ LET w == joined + 1
     IN  \/ w \in bstarted /\ pc[w] = "exit" /\ joined' = w /\ UNCHANGED crash
         \/ w \notin bstarted /\ crash' = "join" /\ UNCHANGED joined
  /\ UNCHANGED <<poolVars, workerVars, owner, starts, runVars>>

(* threadList_.clear(), and stop returns *)
StopEnd ==
  /\ crash = "no" /\ owner = "join" /\ joined = threads
  /\ threads' = 0 /\ bstarted' = {}
  /\ owner' = "idle"
  /\ UNCHANGED <<taskList, brunning, notEmpty, workerVars, joined, starts, runVars, crash>>

-----------------------------------------------------------------------------
(* run, by any thread or by a task.                                        *)

(* assert(!threadList_.empty()), without mutex_ and whatever the owner is  *)
(* doing                                                                   *)
RunCheck ==
  /\ crash = "no" /\ pushed + calling < MaxTasks
  /\ IF threads > 0 THEN calling' = calling + 1 /\ UNCHANGED crash
     ELSE crash' = "run" /\ UNCHANGED calling
  /\ UNCHANGED <<poolVars, workerVars, ownerVars, pushed>>

(* Mutant: a thread is notified only if the list was empty. *)
RunPushIfEmpty ==
  /\ crash = "no" /\ calling > 0
  /\ calling' = calling - 1 /\ pushed' = pushed + 1
  /\ taskList' = Append(taskList, pushed')
  /\ IF taskList = <<>> THEN Notify ELSE UNCHANGED notEmpty
  /\ UNCHANGED <<brunning, threads, bstarted, workerVars, ownerVars, crash>>

(* Mutant: no thread is notified. *)
RunPushSilent ==
  /\ crash = "no" /\ calling > 0
  /\ calling' = calling - 1 /\ pushed' = pushed + 1
  /\ taskList' = Append(taskList, pushed')
  /\ UNCHANGED <<brunning, notEmpty, threads, bstarted, workerVars, ownerVars, crash>>

(* run's scope, also of a call that a stop has overtaken *)
RunPush ==
  /\ crash = "no" /\ calling > 0
  /\ calling' = calling - 1 /\ pushed' = pushed + 1
  /\ taskList' = Append(taskList, pushed')
  /\ Notify
  /\ UNCHANGED <<brunning, threads, bstarted, workerVars, ownerVars, crash>>

-----------------------------------------------------------------------------
(* A worker in runInThread.                                                *)

At(w, p) == crash = "no" /\ pc[w] = p /\ w \notin notEmpty
Goto(w, p) == pc' = [pc EXCEPT ![w] = p]

(* while (brunning_), read without mutex_ *)
While(w) ==
  /\ At(w, "while")
  /\ Goto(w, IF brunning THEN "getTask" ELSE "exit")
  /\ UNCHANGED <<poolVars, task, begun, ownerVars, runVars, crash>>

(* Mutant: the newest task is taken. *)
TakeLast(w) ==
  /\ taskList # <<>>
  /\ task' = [task EXCEPT ![w] = taskList[Len(taskList)]]
  /\ taskList' = SubSeq(taskList, 1, Len(taskList) - 1)

(* t = taskList_.front(); taskList_.pop_front() *)
Take(w) ==
  /\ taskList # <<>>
  /\ task' = [task EXCEPT ![w] = Head(taskList)]
  /\ taskList' = Tail(taskList)

(* getTask: waits while the list is empty and the pool runs; then a task,  *)
(* also of a pool that was stopped meanwhile, or an empty one.  A worker   *)
(* woken from the wait comes here again.                                   *)
GetTask(w) ==
  /\ At(w, "getTask")
  /\ \/ /\ taskList = <<>> /\ brunning
        /\ notEmpty' = notEmpty \cup {w}
        /\ UNCHANGED <<taskList, task, pc>>
     \/ /\ Take(w)
        /\ Goto(w, "begin")
        /\ UNCHANGED notEmpty
     \/ /\ taskList = <<>> /\ ~brunning
        /\ Goto(w, "sleep")
        /\ UNCHANGED <<taskList, notEmpty, task>>
  /\ UNCHANGED <<brunning, threads, bstarted, begun, ownerVars, runVars, crash>>

(* t(), when getTask has released mutex_ *)
BeginTask(w) ==
  /\ At(w, "begin")
  /\ begun' = [begun EXCEPT ![task[w]] = @ + 1]
  /\ Goto(w, "run")
  /\ UNCHANGED <<poolVars, task, ownerVars, runVars, crash>>

(* the task returns, or 40 ms have passed *)
TaskReturns(w) ==
  /\ At(w, "run") \/ At(w, "sleep")
  /\ Goto(w, "while")
  /\ task' = [task EXCEPT ![w] = 0]
  /\ UNCHANGED <<poolVars, begun, ownerVars, runVars, crash>>

(* the task throws: caught, reported, and abort() or thrown on *)
TaskThrows(w) ==
  /\ At(w, "run")
  /\ crash' = "abort"
  /\ UNCHANGED <<poolVars, workerVars, ownerVars, runVars>>

-----------------------------------------------------------------------------
OwnerStep == Start \/ StartThread \/ Stop \/ Join \/ StopEnd
WorkerStep(w) == While(w) \/ GetTask(w) \/ BeginTask(w) \/ TaskReturns(w)

Next == \/ OwnerStep \/ RunCheck \/ RunPush
        \/ \E w \in Workers : WorkerStep(w) \/ TaskThrows(w) \/ SpuriousWakeup(w)

Spec == Init /\ [][Next]_vars

(* start, stop and run go on once called; the workers run and tasks        *)
(* return.  Nobody has to call run or stop, and no wakeup is spurious by   *)
(* duty.                                                                   *)
FairSpec == /\ Spec
            /\ WF_vars(StartThread) /\ WF_vars(Join) /\ WF_vars(StopEnd) /\ WF_vars(RunPush)
            /\ \A w \in Workers : WF_vars(WorkerStep(w))

-----------------------------------------------------------------------------
(* Properties.                                                             *)

Awake == {w \in bstarted : pc[w] \in {"while", "getTask"} /\ w \notin notEmpty}

(* The one notify of each run is enough: no worker waits in notEmpty_      *)
(* while more tasks are queued than workers are on their way to fetch one. *)
EnoughAwake == notEmpty # {} => Len(taskList) <= Cardinality(Awake)

(* The workers that have taken task t out of the list and not begun it.    *)
Holders(t) == {w \in Workers : pc[w] = "begin" /\ task[w] = t}

(* No task handed to run is lost, run twice or overtaken in the list: the  *)
(* list holds the youngest in the order of run's scopes, and each older    *)
(* one was begun once or is held by one worker that will begin it.  (They  *)
(* leave the list in order; in which order they begin is up to the         *)
(* scheduler, since getTask has released mutex_ by then.)  A stop leaves   *)
(* the list as it is, and a pool started again goes on with it.            *)
EachTaskOnce ==
  LET taken == pushed - Len(taskList)
  IN  /\ taken >= 0
      /\ taskList = [i \in 1 .. Len(taskList) |-> taken + i]
      /\ \A t \in 1 .. MaxTasks :
           \/ t <= taken /\ begun[t] = 1 /\ Holders(t) = {}
           \/ t <= taken /\ begun[t] = 0 /\ \E w \in Workers : Holders(t) = {w}
           \/ t > taken /\ begun[t] = 0 /\ Holders(t) = {}

(* When stop has returned no thread of the pool is left that could use it, *)
(* although workers read brunning_ without mutex_ and may have been about  *)
(* to wait, to run a task or to sleep when it was called.                  *)
StoppedMeansEnded ==
  owner = "idle" /\ crash = "no" =>
    notEmpty = {} /\ \A w \in Workers : pc[w] \in {"none", "exit"}

(* stop returns, whatever the workers were doing when it was called.       *)
StopReturns == owner = "join" ~> owner = "idle" \/ crash # "no"

(* A task that was queued is begun, as long as the pool is not stopped and *)
(* has a thread.                                                           *)
QueuedBegins ==
  \A t \in 1 .. MaxTasks :
    pushed >= t ~> \/ begun[t] > 0
                   \/ owner \in {"idle", "join"} \/ bstarted = {} \/ crash # "no"
=============================================================================

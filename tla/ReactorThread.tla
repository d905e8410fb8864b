---------------------------- MODULE ReactorThread ----------------------------
(***************************************************************************)
(* base/ReactorThread.cpp with base/Thread.cpp and Condition.h: the life   *)
(* of a loop thread around the Reactor it runs.  The Reactor is a local    *)
(* variable of threadProc, so it comes to be after the thread was created  *)
(* and is destroyed when loop() returns; other threads reach it through    *)
(* the pointer startLoop returned.                                         *)
(*                                                                         *)
(* The owner is one of the threads that use the loop: it calls startLoop,  *)
(* hands the pointer to the others, and may end in ~ReactorThread.  A step *)
(* that uses a destroyed Reactor ends the behaviour.                       *)
(***************************************************************************)
EXTENDS Reactor

CONSTANT Owner          \* the thread that has the ReactorThread

ASSUME OwnerAssumption == Owner \in Threads

VARIABLES loop,      \* loop_ # NULL
          thread,    \* thread_: "none", "failed": not created, "proc", "loop", "exit"
          reactor,   \* threadProc's local Reactor: "none", "alive", "destroyed"
          owner,     \* "new", "test", "wait": in startLoop; "using"; "quit",
                     \* "quitWake", "join": in the destructor; "done"
          crash      \* "no", "dangling": a destroyed Reactor was used

threadVars == <<loop, thread, reactor, owner, crash>>
allVars == <<vars, threadVars>>

ThreadTypeOK == /\ TypeOK
                /\ loop \in BOOLEAN
                /\ thread \in {"none", "failed", "proc", "loop", "exit"}
                /\ reactor \in {"none", "alive", "destroyed"}
                /\ owner \in {"new", "test", "wait", "using", "quit", "quitWake",
                              "join", "done"}
                /\ crash \in {"no", "dangling"}

ThreadInit == /\ Init
              /\ loop = FALSE /\ thread = "none" /\ reactor = "none"
              /\ owner = "new" /\ crash = "no"

-----------------------------------------------------------------------------
(* startLoop, by the owner.                                                *)

(* thread_.start(): pthread_create may fail, which nobody is told *)
StartLoop ==
  /\ owner = "new"
  /\ thread' \in {"proc", "failed"}
  /\ owner' = "test"
  /\ UNCHANGED <<vars, loop, reactor, crash>>

(* while (loop_ == NULL) wait_.wait(), under mutex_; then startLoop returns *)
StartLoopTest ==
  /\ owner = "test"
  /\ owner' = IF loop THEN "using" ELSE "wait"
  /\ UNCHANGED <<vars, loop, thread, reactor, crash>>

(* Mutant: if instead of while, so that any return from wait() is enough. *)
SpuriousReturn ==
  /\ owner = "wait"
  /\ owner' = "using"
  /\ UNCHANGED <<vars, loop, thread, reactor, crash>>

(* wait() returns although nobody called notify *)
SpuriousWakeup ==
  /\ owner = "wait"
  /\ owner' = "test"
  /\ UNCHANGED <<vars, loop, thread, reactor, crash>>

-----------------------------------------------------------------------------
(* threadProc, in the new thread.                                          *)

Construct ==
  /\ thread = "proc" /\ reactor = "none"
  /\ reactor' = "alive"
  /\ UNCHANGED <<vars, loop, thread, owner, crash>>

(* Mutant: the owner is not notified. *)
PublishSilent ==
  /\ thread = "proc" /\ reactor = "alive" /\ ~loop
  /\ loop' = TRUE
  /\ UNCHANGED <<vars, thread, reactor, owner, crash>>

(* loop_ = &loop; wait_.notify(), under mutex_ *)
Publish ==
  /\ thread = "proc" /\ reactor = "alive" /\ ~loop
  /\ loop' = TRUE
  /\ owner' = IF owner = "wait" THEN "test" ELSE owner
  /\ UNCHANGED <<vars, thread, reactor, crash>>

(* Mutant: loop() begins with bquit_ = false. *)
EnterLoopResets ==
  /\ thread = "proc" /\ loop
  /\ thread' = "loop"
  /\ bquit' = FALSE
  /\ UNCHANGED <<functorList, mutex, wakeup, btaskRunning, loopPc, active, functor,
                 ran, pc, arg, loop, reactor, owner, crash>>

(* loop.loop() is called; quit may have been called before *)
EnterLoop ==
  /\ thread = "proc" /\ loop
  /\ thread' = "loop"
  /\ UNCHANGED <<vars, loop, reactor, owner, crash>>

InLoop(step) == thread = "loop" /\ step /\ UNCHANGED threadVars

(* loop() has returned: ~Reactor, and the thread ends; loop_ stays as it is *)
LeaveLoop ==
  /\ thread = "loop" /\ loopPc = "exit"
  /\ thread' = "exit" /\ reactor' = "destroyed"
  /\ UNCHANGED <<vars, loop, owner, crash>>

-----------------------------------------------------------------------------
(* The threads that use the loop, once startLoop has returned it; the      *)
(* owner until it destroys the ReactorThread.                              *)
MayUse(p) == IF p = Owner THEN owner = "using"
             ELSE owner \notin {"new", "test", "wait"} /\ loop

InQuit == owner \in {"quit", "quitWake"}

UserCall(p, step) ==
  /\ MayUse(p) /\ reactor = "alive"
  /\ step
  /\ UNCHANGED threadVars

UseDestroyed(p) ==
  /\ MayUse(p) \/ (p = Owner /\ InQuit)
  /\ reactor = "destroyed"
  /\ crash' = "dangling"
  /\ UNCHANGED <<vars, loop, thread, reactor, owner>>

(* ~ReactorThread: nothing to do without a loop *)
Destroy ==
  /\ owner \in {"new", "using"} /\ pc[Owner] = "idle"
  /\ owner' = IF loop THEN "quit" ELSE "done"
  /\ UNCHANGED <<vars, loop, thread, reactor, crash>>

(* loop_->quit() *)
DestroyQuit ==
  /\ reactor = "alive"
  /\ \/ owner = "quit" /\ QuitFlag(Owner) /\ owner' = "quitWake"
     \/ owner = "quitWake" /\ QuitWake(Owner) /\ owner' = "join"
  /\ UNCHANGED <<loop, thread, reactor, crash>>

(* thread_.join() *)
DestroyJoin ==
  /\ owner = "join" /\ thread = "exit"
  /\ owner' = "done"
  /\ UNCHANGED <<vars, loop, thread, reactor, crash>>

-----------------------------------------------------------------------------
ThreadProc == Construct \/ Publish \/ EnterLoop \/ LeaveLoop

ThreadNext ==
  /\ crash = "no"
  /\ \/ StartLoop \/ StartLoopTest \/ SpuriousWakeup
     \/ ThreadProc
     \/ InLoop(LoopStep) \/ InLoop(CallbackStep)
     \/ \E p \in Threads : UserCall(p, ThreadStep(p)) \/ UseDestroyed(p)
     \/ Destroy \/ DestroyQuit \/ DestroyJoin

ThreadSpec == ThreadInit /\ [][ThreadNext]_allVars

(* As for Reactor; and the new thread runs, startLoop looks at loop_ when  *)
(* it is woken, and a destructor that was called goes on.                  *)
ThreadFairSpec ==
  /\ ThreadSpec
  /\ \A p \in Threads : WF_allVars(crash = "no" /\ UserCall(p, CallProgress(p)))
  /\ WF_allVars(crash = "no" /\ InLoop(LoopProgress))
  /\ WF_allVars(crash = "no" /\ ThreadProc)
  /\ WF_allVars(crash = "no" /\ StartLoopTest)
  /\ WF_allVars(crash = "no" /\ (DestroyQuit \/ DestroyJoin \/ (InQuit /\ UseDestroyed(Owner))))

-----------------------------------------------------------------------------
(* Properties.                                                             *)

(* "returns a valid handle" (ReactorThread.cpp, startLoop): no thread uses *)
(* the loop before its Reactor was constructed, whenever wait() returns;   *)
(* and until somebody calls quit the Reactor stays, although loop_ points  *)
(* into another thread's stack.                                            *)
HandleValid ==
  owner = "using" => loop /\ (reactor = "alive" \/ bquit)

(* startLoop returns, whichever thread comes first, unless the thread      *)
(* could not be created: then it waits for ever.                           *)
StartReturns == owner = "test" ~> owner = "using" \/ thread = "failed"

(* ~ReactorThread ends, also when it is called before the new thread is in *)
(* loop(), unless it runs into the destroyed Reactor: the loop may end     *)
(* between the two steps of quit.                                          *)
DestructorEnds == owner = "quit" ~> owner = "done" \/ crash # "no"
=============================================================================

---------------------------- MODULE ReactorProofs ----------------------------
(***************************************************************************)
(* For every set of threads and functors: the loop never sleeps on a       *)
(* functor or on a quit, and the reactor implements one serial queue; and  *)
(* a loop thread runs a reactor that stays until somebody calls quit.      *)
(***************************************************************************)
EXTENDS ReactorThread, TLAPS

LEMMA InitInv == Init => LoopInv
  <1> SUFFICES ASSUME Init PROVE LoopInv
    OBVIOUS
  <1> USE DEF Init
  <1>1. TypeOK
    <2>1. <<>> \in Seq(Tasks)
      OBVIOUS
    <2>2. pc \in [Threads -> {"idle", "push", "wake", "again", "quitWake"}]
      OBVIOUS
    <2> QED BY <2>1, <2>2 DEF TypeOK, LoopPcs
  <1>2. NoLostWakeup /\ NoLostQuit
    BY DEF NoLostWakeup, NoLostQuit
  <1>3. \A p \in Threads : pc[p] = "push" <=> mutex = p
    BY ThreadsAssumption
  <1> QED BY <1>1, <1>2, <1>3 DEF LoopInv

(* The part of the invariant that speaks of types is kept by every step.   *)
LEMMA TypeStep == ASSUME TypeOK, [Next]_vars PROVE TypeOK'
  <1> USE DEF TypeOK, LoopPcs, Handlers
  <1>1. ASSUME NEW p \in Threads, ThreadStep(p) PROVE TypeOK'
    <2>1. ASSUME NEW t \in Tasks, QueueLock(p, t) PROVE TypeOK'
      BY <2>1 DEF QueueLock
    <2>2. CASE QueuePush(p)
      BY <2>2 DEF QueuePush
    <2>3. CASE QueueWake(p)
      BY <2>3 DEF QueueWake
    <2>4. CASE QueueWakeAgain(p)
      BY <2>4 DEF QueueWakeAgain
    <2>5. CASE Quit(p)
      BY <2>5 DEF Quit, QuitFlag, QuitWake
    <2> QED BY <1>1, <2>1, <2>2, <2>3, <2>4, <2>5 DEF ThreadStep
  <1>2. ASSUME CallbackStep PROVE TypeOK'
    <2>1. ASSUME NEW t \in Tasks, LoopQueue(t) PROVE TypeOK'
      BY <2>1 DEF LoopQueue
    <2>2. ASSUME NEW t \in Tasks, LoopRun(t) PROVE TypeOK'
      BY <2>2 DEF LoopRun
    <2>3. CASE LoopQuit
      BY <2>3 DEF LoopQuit
    <2> QED BY <1>2, <2>1, <2>2, <2>3 DEF CallbackStep
  <1>3. ASSUME LoopStep PROVE TypeOK'
    <2>1. CASE While \/ PollWakeup \/ PollOther \/ HandleTask \/ HandleOther
      BY <2>1 DEF While, PollWakeup, PollOther, HandleTask, HandleOther
    <2>2. CASE CallbackReturn \/ DispatchEnd \/ CheckEmpty \/ CheckNonEmpty
      BY <2>2 DEF CallbackReturn, DispatchEnd, CheckEmpty, CheckNonEmpty
    <2>3. CASE Swap
      BY <2>3 DEF Swap
    <2>4. CASE RunFunctor
      BY <2>4 DEF RunFunctor
    <2>5. CASE RunEnd
      BY <2>5 DEF RunEnd
    <2> QED BY <1>3, <2>1, <2>2, <2>3, <2>4, <2>5 DEF LoopStep
  <1>4. CASE UNCHANGED vars
    BY <1>4 DEF vars
  <1> QED BY <1>1, <1>2, <1>3, <1>4 DEF Next

-----------------------------------------------------------------------------
LEMMA ThreadInv == ASSUME LoopInv, NEW q \in Threads, ThreadStep(q) PROVE LoopInv'
  <1> USE DEF LoopInv, TypeOK, NoLostWakeup, NoLostQuit
  <1>0. TypeOK'
    BY TypeStep DEF Next
  <1>1. ASSUME NEW t \in Tasks, QueueLock(q, t) PROVE LoopInv'
    BY <1>0, <1>1, ThreadsAssumption DEF QueueLock
  <1>2. CASE QueuePush(q)
    BY <1>0, <1>2, ThreadsAssumption DEF QueuePush
  <1>3. CASE QueueWake(q)
    BY <1>0, <1>3 DEF QueueWake
  <1>4. CASE QueueWakeAgain(q)
    BY <1>0, <1>4 DEF QueueWakeAgain
  <1>5. CASE QuitFlag(q)
    BY <1>0, <1>5 DEF QuitFlag
  <1>6. CASE QuitWake(q)
    BY <1>0, <1>6 DEF QuitWake
  <1> QED BY ONLY ThreadStep(q), <1>1, <1>2, <1>3, <1>4, <1>5, <1>6 DEF ThreadStep, Quit

LEMMA LoopStepInv == ASSUME LoopInv, LoopStep PROVE LoopInv'
  <1> USE DEF LoopInv, TypeOK, NoLostWakeup, NoLostQuit
  <1>0. TypeOK'
    BY TypeStep DEF Next
  <1>1. CASE While
    BY <1>0, <1>1 DEF While
  <1>2. CASE PollWakeup
    BY <1>0, <1>2 DEF PollWakeup
  <1>3. CASE PollOther
    BY <1>0, <1>3 DEF PollOther
  <1>4. CASE HandleTask
    BY <1>0, <1>4 DEF HandleTask
  <1>5. CASE HandleOther
    BY <1>0, <1>5 DEF HandleOther
  <1>6. CASE CallbackReturn
    BY <1>0, <1>6 DEF CallbackReturn
  <1>7. CASE DispatchEnd
    BY <1>0, <1>7 DEF DispatchEnd
  <1>8. CASE CheckEmpty
    BY <1>0, <1>8 DEF CheckEmpty
  <1>9. CASE CheckNonEmpty
    BY <1>0, <1>9 DEF CheckNonEmpty
  <1>10. CASE Swap
    BY <1>0, <1>10 DEF Swap
  <1>11. CASE RunFunctor
    BY <1>0, <1>11 DEF RunFunctor
  <1>12. CASE RunEnd
    BY <1>0, <1>12 DEF RunEnd
  <1> QED BY ONLY LoopStep, <1>1, <1>2, <1>3, <1>4, <1>5, <1>6, <1>7, <1>8, <1>9,
                  <1>10, <1>11, <1>12 DEF LoopStep

LEMMA CallbackInv == ASSUME LoopInv, CallbackStep PROVE LoopInv'
  <1> USE DEF LoopInv, TypeOK, NoLostWakeup, NoLostQuit, InCallback
  <1>0. TypeOK'
    BY TypeStep DEF Next
  <1>1. ASSUME NEW t \in Tasks, LoopQueue(t) PROVE LoopInv'
    BY <1>0, <1>1 DEF LoopQueue
  <1>2. ASSUME NEW t \in Tasks, LoopRun(t) PROVE LoopInv'
    BY <1>0, <1>2 DEF LoopRun
  <1>3. CASE LoopQuit
    BY <1>0, <1>3 DEF LoopQuit
  <1> QED BY ONLY CallbackStep, <1>1, <1>2, <1>3 DEF CallbackStep

(* The inductive invariant of the reactor: in particular eventfdRead never *)
(* meets its assert(0), since the loop only reads an eventfd that is       *)
(* readable.                                                               *)
THEOREM ReactorInvariant == Spec => []LoopInv
  <1>1. LoopInv /\ [Next]_vars => LoopInv'
    <2>1. ASSUME LoopInv, UNCHANGED vars PROVE LoopInv'
      BY <2>1 DEF LoopInv, TypeOK, NoLostWakeup, NoLostQuit, vars
    <2> QED BY <2>1, ThreadInv, LoopStepInv, CallbackInv DEF Next
  <1> QED BY InitInv, <1>1, PTL DEF Spec

(* No functor is left in functorList_ while the loop may sleep in poll():  *)
(* queueInLoop and runningTask lose no wakeup, for any number of threads.  *)
THEOREM WakeupNeverLost == Spec => []NoLostWakeup
  <1>1. LoopInv => NoLostWakeup
    BY DEF LoopInv
  <1> QED BY ReactorInvariant, <1>1, PTL

(* quit() is never slept over.                                             *)
THEOREM QuitNeverLost == Spec => []NoLostQuit
  <1>1. LoopInv => NoLostQuit
    BY DEF LoopInv
  <1> QED BY ReactorInvariant, <1>1, PTL

-----------------------------------------------------------------------------
(* Facts on concatenation the refinement rests on.                         *)
LEMMA ConcatAppend ==
  ASSUME NEW S, NEW u \in Seq(S), NEW v \in Seq(S), NEW x \in S
  PROVE  u \o Append(v, x) = Append(u \o v, x)
  OBVIOUS

LEMMA ConcatHeadTail ==
  ASSUME NEW S, NEW u \in Seq(S), NEW v \in Seq(S), u # <<>>
  PROVE  /\ u \o v # <<>>
         /\ Head(u \o v) = Head(u)
         /\ Tail(u \o v) = Tail(u) \o v
  OBVIOUS

LEMMA ConcatEmpty ==
  ASSUME NEW S, NEW u \in Seq(S)
  PROVE  <<>> \o u = u /\ u \o <<>> = u
  OBVIOUS

(* Every step of the reactor is a step of the serial queue, or leaves it   *)
(* alone.                                                                  *)
LEMMA StepRefines ==
  ASSUME LoopInv, [Next]_vars
  PROVE  [TQ!QueueNext]_<<functor \o functorList, ran>>
  <1> USE DEF LoopInv, TypeOK
  <1>1. ASSUME NEW p \in Threads, QueuePush(p)
        PROVE  TQ!QueueNext
    <2>1. functor \o functorList' = Append(functor \o functorList, arg[p]) /\ arg[p] \in Tasks
      BY <1>1, ConcatAppend DEF QueuePush
    <2> QED BY <1>1, <2>1 DEF QueuePush, TQ!QueueNext, TQ!Submit
  <1>2. CASE Swap
    BY <1>2, ConcatEmpty DEF Swap
  <1>3. CASE RunFunctor
    BY <1>3, ConcatHeadTail DEF RunFunctor, TQ!QueueNext, TQ!RunOldest
  <1>4. ASSUME NEW t \in Tasks, LoopQueue(t)
        PROVE  TQ!QueueNext
    BY <1>4, ConcatAppend DEF LoopQueue, TQ!QueueNext, TQ!Submit
  <1>5. ASSUME NEW t \in Tasks, LoopRun(t)
        PROVE  TQ!QueueNext
    BY <1>5 DEF LoopRun, TQ!QueueNext, TQ!RunDirect
  <1>6. ASSUME UNCHANGED <<functorList, functor, ran>>
        PROVE  UNCHANGED <<functor \o functorList, ran>>
    BY <1>6
  <1>7. ASSUME NEW p \in Threads, ThreadStep(p), ~QueuePush(p)
        PROVE  UNCHANGED <<functorList, functor, ran>>
    BY <1>7 DEF ThreadStep, QueueLock, QueueWake, QueueWakeAgain, Quit, QuitFlag, QuitWake
  <1>8. ASSUME LoopStep, ~Swap, ~RunFunctor
        PROVE  UNCHANGED <<functorList, functor, ran>>
    BY <1>8 DEF LoopStep, While, PollWakeup, PollOther, HandleTask, HandleOther,
                CallbackReturn, DispatchEnd, CheckEmpty, CheckNonEmpty, RunEnd
  <1>9. ASSUME LoopQuit \/ UNCHANGED vars
        PROVE  UNCHANGED <<functorList, functor, ran>>
    BY <1>9 DEF LoopQuit, vars
  <1> QED BY ONLY [Next]_vars, <1>1, <1>2, <1>3, <1>4, <1>5, <1>6, <1>7, <1>8, <1>9
             DEF Next, CallbackStep

(* The reactor implements the serial queue of TaskQueue: what Reactor.h    *)
(* calls asynchronous, safe, sequential execution.                         *)
THEOREM ReactorRefinesTaskQueue == Spec => RunsInOrder
  <1>1. Init => TQ!QueueInit
    BY DEF Init, TQ!QueueInit
  <1> QED BY ReactorInvariant, <1>1, StepRefines, PTL DEF Spec, RunsInOrder, TQ!QueueSpec

-----------------------------------------------------------------------------
(* The loop thread.                                                        *)

(* What a loop thread, its owner and its users do to the reactor are steps *)
(* of the reactor.                                                         *)
LEMMA ThreadStepRefines == [ThreadNext]_allVars => [Next]_vars
  <1> SUFFICES ASSUME [ThreadNext]_allVars PROVE [Next]_vars
    OBVIOUS
  <1>1. CASE StartLoop \/ StartLoopTest \/ SpuriousWakeup \/ ThreadProc \/ Destroy \/ DestroyJoin
    BY <1>1 DEF StartLoop, StartLoopTest, SpuriousWakeup, ThreadProc, Construct, Publish,
                EnterLoop, LeaveLoop, Destroy, DestroyJoin
  <1>2. CASE InLoop(LoopStep) \/ InLoop(CallbackStep)
    BY <1>2 DEF InLoop, Next
  <1>3. ASSUME NEW p \in Threads, UserCall(p, ThreadStep(p)) \/ UseDestroyed(p)
        PROVE  [Next]_vars
    BY <1>3 DEF UserCall, UseDestroyed, Next
  <1>4. CASE DestroyQuit
    BY <1>4, OwnerAssumption DEF DestroyQuit, Next, ThreadStep, Quit
  <1>5. CASE UNCHANGED allVars
    BY <1>5 DEF allVars
  <1> QED BY <1>1, <1>2, <1>3, <1>4, <1>5 DEF ThreadNext

(* The reactor of a loop thread is the one of Reactor: all that is proved  *)
(* of it holds in a loop thread, also when quit and queueInLoop are called *)
(* before loop() was entered.                                              *)
THEOREM LoopThreadRunsReactor == ThreadSpec => Spec
  <1>1. ThreadInit => Init
    BY DEF ThreadInit
  <1> QED BY <1>1, ThreadStepRefines, PTL DEF ThreadSpec, Spec

(* loop_ points to a reactor that was constructed; whoever is past         *)
(* startLoop has seen it; and a loop ends, and its reactor goes, only      *)
(* after a call of quit.                                                   *)
HandleInv ==
  /\ loop => reactor # "none"
  /\ owner \in {"using", "quit", "quitWake", "join"} => loop
  /\ reactor \in {"none", "alive", "destroyed"}
  /\ reactor = "destroyed" \/ loopPc = "exit" => bquit

(* A step of the reactor ends the loop only after quit.                    *)
LEMMA QuitStays == ASSUME [Next]_vars, loopPc = "exit" => bquit
                   PROVE  (bquit => bquit') /\ (loopPc' = "exit" => bquit')
  <1>1. ASSUME NEW p \in Threads, ThreadStep(p)
        PROVE  (bquit => bquit') /\ UNCHANGED loopPc
    BY <1>1 DEF ThreadStep, QueueLock, QueuePush, QueueWake, QueueWakeAgain, Quit, QuitFlag, QuitWake
  <1>2. CASE LoopStep
    BY <1>2 DEF LoopStep, While, PollWakeup, PollOther, HandleTask, HandleOther, CallbackReturn,
                DispatchEnd, CheckEmpty, CheckNonEmpty, Swap, RunFunctor, RunEnd
  <1>3. CASE CallbackStep
    BY <1>3 DEF CallbackStep, LoopQueue, LoopRun, LoopQuit
  <1>4. CASE UNCHANGED vars
    BY <1>4 DEF vars
  <1> QED BY <1>1, <1>2, <1>3, <1>4 DEF Next

LEMMA HandleStep == HandleInv /\ [ThreadNext]_allVars => HandleInv'
  <1> SUFFICES ASSUME HandleInv, [ThreadNext]_allVars PROVE HandleInv'
    OBVIOUS
  <1>1. (bquit => bquit') /\ (loopPc' = "exit" => bquit')
    BY ThreadStepRefines, QuitStays DEF HandleInv
  <1>2. ASSUME UNCHANGED <<loop, reactor, owner>> PROVE HandleInv'
    BY <1>1, <1>2 DEF HandleInv
  <1>3. CASE StartLoop \/ StartLoopTest \/ SpuriousWakeup \/ Destroy \/ DestroyJoin
    BY <1>1, <1>3 DEF HandleInv, StartLoop, StartLoopTest, SpuriousWakeup, Destroy, DestroyJoin
  <1>4. CASE ThreadProc
    <2>1. CASE Construct
      BY <1>1, <2>1 DEF HandleInv, Construct
    <2>2. CASE Publish
      BY <1>1, <2>2 DEF HandleInv, Publish
    <2>3. CASE EnterLoop
      BY <1>2, <2>3 DEF EnterLoop
    <2>4. CASE LeaveLoop
      BY <1>1, <2>4 DEF HandleInv, LeaveLoop
    <2> QED BY <1>4, <2>1, <2>2, <2>3, <2>4 DEF ThreadProc
  <1>5. CASE InLoop(LoopStep) \/ InLoop(CallbackStep)
    BY <1>2, <1>5 DEF InLoop, threadVars
  <1>6. ASSUME NEW p \in Threads, UserCall(p, ThreadStep(p)) \/ UseDestroyed(p)
        PROVE  HandleInv'
    BY <1>2, <1>6 DEF UserCall, UseDestroyed, threadVars
  <1>7. CASE DestroyQuit
    BY <1>1, <1>7 DEF HandleInv, DestroyQuit
  <1>8. CASE UNCHANGED allVars
    BY <1>2, <1>8 DEF allVars, threadVars
  <1> QED BY <1>3, <1>4, <1>5, <1>6, <1>7, <1>8 DEF ThreadNext

(* startLoop returns a loop that exists, however wait() returns, and it    *)
(* exists until somebody calls quit.                                       *)
THEOREM StartLoopHandleIsValid == ThreadSpec => []HandleValid
  <1>1. ThreadInit => HandleInv
    BY DEF ThreadInit, Init, HandleInv
  <1>2. HandleInv => HandleValid
    BY DEF HandleInv, HandleValid
  <1> QED BY <1>1, <1>2, HandleStep, PTL DEF ThreadSpec
=============================================================================

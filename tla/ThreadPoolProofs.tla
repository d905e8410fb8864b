-------------------------- MODULE ThreadPoolProofs --------------------------
(***************************************************************************)
(* Proofs about ThreadPool: no task is lost or run twice, and none leaves  *)
(* the list before an older one; the one notify of run wakes enough        *)
(* workers; stop leaves no worker behind; for any number of workers, tasks *)
(* and restarts.                                                           *)
(***************************************************************************)
EXTENDS ThreadPool, SequenceTheorems, FiniteSetTheorems, TLAPS

(* Where the workers of each phase of the owner can be: only created       *)
(* threads run, none has ended while the pool runs, stop has joined the    *)
(* first ones in order.                                                    *)
PhaseInv ==
  /\ bstarted \subseteq 1 .. threads
  /\ \A w \in Workers \ bstarted : pc[w] \in {"none", "exit"}
  /\ \A w \in notEmpty : pc[w] = "getTask"
  /\ owner = "idle" => threads = 0
  /\ owner = "start" => threads < ThreadNum
  /\ owner \in {"start", "running"} => brunning
  /\ owner \in {"idle", "join"} => ~brunning /\ notEmpty = {}
  /\ owner = "join" => joined <= threads /\ \A w \in 1 .. joined : pc[w] = "exit"

(* The inductive invariant: with the two properties that are inductive as  *)
(* they stand, given the phases.                                           *)
IInv == TypeOK /\ PhaseInv /\ EachTaskOnce /\ EnoughAwake

(* The n tasks that follow the first m, in the order of run. *)
Following(m, n) == [i \in 1 .. n |-> m + i]

-----------------------------------------------------------------------------
(* run's scope appends the next number.                                    *)
LEMMA FollowingAppend ==
  ASSUME NEW m \in Nat, NEW n \in Nat
  PROVE  Append(Following(m, n), m + n + 1) = Following(m, n + 1)
<1>1. Following(m, n) \in Seq(Nat) /\ Len(Following(m, n)) = n
  BY DEF Following
<1>2. Following(m, n + 1) \in Seq(Nat) /\ Len(Following(m, n + 1)) = n + 1
  BY DEF Following
<1>3. Append(Following(m, n), m + n + 1) \in Seq(Nat)
      /\ Len(Append(Following(m, n), m + n + 1)) = n + 1
  BY <1>1, AppendProperties
<1>4. ASSUME NEW i \in 1 .. n + 1
      PROVE  Append(Following(m, n), m + n + 1)[i] = Following(m, n + 1)[i]
  BY <1>1, AppendProperties DEF Following
<1> QED BY <1>1, <1>2, <1>3, <1>4, SeqEqual

(* getTask takes the first of them and leaves those that follow it.        *)
LEMMA FollowingTail ==
  ASSUME NEW m \in Nat, NEW n \in Nat \ {0}
  PROVE  Head(Following(m, n)) = m + 1 /\ Tail(Following(m, n)) = Following(m + 1, n - 1)
<1> DEFINE s == Following(m, n)
<1>1. s \in Seq(Nat) /\ Len(s) = n /\ \A i \in 1 .. n : s[i] = m + i
  BY DEF Following
<1>a. s # <<>> /\ 1 \in 1 .. n
  BY <1>1
<1>2. Following(m + 1, n - 1) \in Seq(Nat) /\ Len(Following(m + 1, n - 1)) = n - 1
      /\ \A i \in 1 .. n - 1 : Following(m + 1, n - 1)[i] = (m + 1) + i
  BY DEF Following
<1> HIDE DEF s
<1>3. Head(s) = s[1] /\ Tail(s) \in Seq(Nat) /\ Len(Tail(s)) = n - 1
      /\ \A i \in 1 .. n - 1 : Tail(s)[i] = s[i + 1]
  BY <1>1, <1>a, HeadTailProperties
<1>4. ASSUME NEW i \in 1 .. n - 1 PROVE Tail(s)[i] = Following(m + 1, n - 1)[i]
  <2>1. i + 1 \in 1 .. n /\ m + (i + 1) = (m + 1) + i
    OBVIOUS
  <2> QED BY <1>1, <1>2, <1>3, <2>1
<1>5. Tail(s) = Following(m + 1, n - 1)
  BY <1>2, <1>3, <1>4, SeqEqual
<1> QED BY <1>1, <1>a, <1>3, <1>5 DEF s

-----------------------------------------------------------------------------
(* A step keeps the types; start stops creating threads at ThreadNum.      *)
LEMMA TypeStep ==
  ASSUME TypeOK, owner = "start" => threads < ThreadNum, Next
  PROVE  TypeOK'
<1> USE PoolAssumption DEF TypeOK, Workers, WorkerPcs, poolVars, workerVars, ownerVars, runVars
<1>1. CASE Start
  <2>1. brunning' \in BOOLEAN
    BY <1>1, Zenon DEF Start
  <2> QED BY <1>1, <2>1 DEF Start
<1>2. CASE StartThread
  <2>1. threads' = threads + 1 /\ threads' \in 1 .. ThreadNum
    BY <1>2 DEF StartThread
  <2>2. bstarted' \subseteq Workers /\ pc' \in [Workers -> WorkerPcs]
    BY <1>2, <2>1 DEF StartThread, ThreadStart
  <2>3. owner' \in {"start", "running"}
    BY <1>2 DEF StartThread
  <2>4. UNCHANGED <<taskList, brunning, notEmpty, task, begun, joined, starts, runVars, crash>>
    BY <1>2 DEF StartThread
  <2> QED BY <2>1, <2>2, <2>3, <2>4
<1>3. CASE Stop
  <2>1. brunning' \in BOOLEAN
    BY <1>3, Zenon DEF Stop
  <2>2. joined' = 0 /\ notEmpty' = {} /\ owner' = "join"
        /\ UNCHANGED <<taskList, threads, bstarted, workerVars, starts, runVars, crash>>
    BY <1>3, Zenon DEF Stop, NotifyAll
  <2> QED BY <2>1, <2>2
<1>4. CASE Join
  BY <1>4 DEF Join
<1>5. CASE StopEnd
  BY <1>5 DEF StopEnd
<1>6. CASE RunCheck
  <2>1. /\ UNCHANGED <<poolVars, workerVars, ownerVars, pushed>>
        /\ calling' = calling \/ (calling' = calling + 1 /\ pushed + calling < MaxTasks)
    BY <1>6 DEF RunCheck
  <2>2. calling' \in Nat /\ pushed' + calling' <= MaxTasks
    BY <2>1
  <2>3. crash' \in {"no", "start", "run", "join", "abort"}
    BY <1>6 DEF RunCheck
  <2> QED BY <2>1, <2>2, <2>3
<1>8. CASE RunPush
  <2>1. /\ calling' \in Nat /\ pushed' \in Nat /\ pushed' + calling' <= MaxTasks
        /\ pushed' \in 1 .. MaxTasks
    BY <1>8 DEF RunPush
  <2>2. taskList' \in Seq(1 .. MaxTasks)
    BY <1>8, <2>1, AppendProperties DEF RunPush
  <2> QED BY <1>8, <2>1, <2>2 DEF RunPush, Notify
<1>7. ASSUME NEW w \in Workers, WorkerStep(w) \/ TaskThrows(w) \/ SpuriousWakeup(w)
      PROVE  TypeOK'
  <2>1. CASE While(w)
    BY <2>1 DEF While, Goto
  <2>2. CASE GetTask(w)
    <3>1. CASE taskList = <<>> /\ UNCHANGED <<taskList, task>>
      BY <2>2, <3>1 DEF GetTask, Goto, Take
    <3>2. CASE Take(w) /\ Goto(w, "begin") /\ UNCHANGED notEmpty
      <4>1. Head(taskList) \in 1 .. MaxTasks /\ Tail(taskList) \in Seq(1 .. MaxTasks)
        BY <3>2, HeadTailProperties DEF Take
      <4>4. task' \in [Workers -> 0 .. MaxTasks]
        BY <3>2, <4>1 DEF Take
      <4>5. taskList' \in Seq(1 .. MaxTasks)
        BY <3>2, <4>1 DEF Take
      <4>6. pc' \in [Workers -> WorkerPcs]
        BY <3>2 DEF Goto
      <4> QED BY <2>2, <3>2, <4>4, <4>5, <4>6 DEF GetTask
    <3> QED BY <2>2, <3>1, <3>2 DEF GetTask
  <2>6. CASE BeginTask(w)
    <3>1. pc' \in [Workers -> WorkerPcs]
      BY <2>6 DEF BeginTask, Goto
    <3>2. begun' \in [1 .. MaxTasks -> Nat]
      <4> DEFINE k == task[w]
      <4>1. begun' = [begun EXCEPT ![k] = begun[k] + 1]
        BY <2>6 DEF BeginTask
      <4> HIDE DEF k
      <4>2. ASSUME NEW t \in 1 .. MaxTasks
            PROVE  (IF t = k THEN begun[k] + 1 ELSE begun[t]) \in Nat
        BY begun \in [1 .. MaxTasks -> Nat]
      <4>3. begun' = [t \in 1 .. MaxTasks |-> IF t = k THEN begun[k] + 1 ELSE begun[t]]
        BY ONLY <4>1, begun \in [1 .. MaxTasks -> Nat]
      <4> QED BY ONLY <4>2, <4>3
    <3> QED BY <2>6, <3>1, <3>2 DEF BeginTask
  <2>3. CASE TaskReturns(w)
    BY <2>3 DEF TaskReturns, Goto
  <2>4. CASE TaskThrows(w)
    BY <2>4 DEF TaskThrows
  <2>5. CASE SpuriousWakeup(w)
    BY <2>5 DEF SpuriousWakeup
  <2> QED BY <1>7, <2>1, <2>2, <2>3, <2>4, <2>5, <2>6 DEF WorkerStep
<1> QED BY <1>1, <1>2, <1>3, <1>4, <1>5, <1>6, <1>7, <1>8 DEF Next, OwnerStep

(* A step keeps the phases.                                                *)
LEMMA PhaseStep == TypeOK /\ PhaseInv /\ Next => TypeOK' /\ PhaseInv'
<1> SUFFICES ASSUME TypeOK, PhaseInv, Next PROVE PhaseInv'
  BY TypeStep DEF PhaseInv
<1> USE PoolAssumption DEF TypeOK, PhaseInv, Workers, WorkerPcs, poolVars, workerVars, ownerVars
<1>1. CASE Start
  BY <1>1 DEF Start
<1>2. CASE StartThread
  <2>1. threads' = threads + 1 /\ threads' \in 1 .. ThreadNum /\ threads' \notin bstarted
    BY <1>2 DEF StartThread
  <2>2. threads' \notin notEmpty
    BY <2>1
  <2>3. /\ owner' \in {"start", "running"} /\ (owner' = "start" => threads' < ThreadNum)
        /\ UNCHANGED <<brunning, notEmpty, crash>> /\ crash = "no" /\ owner = "start"
    BY <1>2, <2>1 DEF StartThread
  <2>4. CASE UNCHANGED <<bstarted, pc>>
    BY <2>1, <2>3, <2>4
  <2>5. CASE bstarted' = bstarted \cup {threads'} /\ pc' = [pc EXCEPT ![threads'] = "while"]
    <3>1. \A w \in Workers \ bstarted' : pc'[w] \in {"none", "exit"}
      BY <2>1, <2>5
    <3>2. \A w \in notEmpty' : pc'[w] = "getTask"
      BY <2>1, <2>2, <2>3, <2>5
    <3>3. bstarted' \subseteq 1 .. threads'
      BY <2>1, <2>5
    <3> QED BY <2>3, <3>1, <3>2, <3>3
  <2> QED BY <1>2, <2>4, <2>5 DEF StartThread, ThreadStart
<1>3. CASE Stop
  <2>1. 1 .. joined' = {} /\ joined' <= threads'
    BY <1>3 DEF Stop
  <2> QED BY <1>3, <2>1 DEF Stop, NotifyAll
<1>4. CASE Join
  BY <1>4 DEF Join
<1>5. CASE StopEnd
  <2>1. \A w \in Workers : pc[w] \in {"none", "exit"}
    BY <1>5 DEF StopEnd
  <2> QED BY <1>5, <2>1 DEF StopEnd
<1>6. CASE RunCheck
  BY <1>6 DEF RunCheck
<1>8. CASE RunPush
  BY <1>8 DEF RunPush, Notify
<1>7. ASSUME NEW w \in Workers, WorkerStep(w) \/ TaskThrows(w) \/ SpuriousWakeup(w)
      PROVE  PhaseInv'
  <2>1. CASE While(w)
    BY <2>1 DEF While, At, Goto
  <2>2. CASE GetTask(w)
    <3>1. pc[w] = "getTask" /\ crash = "no"
          /\ UNCHANGED <<brunning, threads, bstarted, ownerVars, crash>>
      BY <2>2 DEF GetTask, At
    <3>a. w \in bstarted
      BY <3>1
    <3>2. CASE taskList = <<>> /\ brunning
      BY <2>2, <3>1, <3>2 DEF GetTask, At, Take
    <3>3. CASE Take(w) /\ Goto(w, "begin") /\ UNCHANGED notEmpty
      BY <2>2, <3>1, <3>3 DEF GetTask, At, Goto
    <3>4. CASE taskList = <<>> /\ ~brunning
      <4>1. owner \in {"idle", "join"}
        BY <3>4
      <4>2. pc' = [pc EXCEPT ![w] = "sleep"] /\ notEmpty' = notEmpty
        BY <2>2, <3>4 DEF GetTask, Goto, Take
      <4>3. ~brunning' /\ notEmpty' = {}
        BY <3>1, <3>4, <4>1, <4>2
      <4>4. \A v \in Workers \ bstarted' : pc'[v] \in {"none", "exit"}
        BY <3>1, <3>a, <4>2
      <4>5. owner' = "join" => joined' <= threads' /\ \A v \in 1 .. joined' : pc'[v] = "exit"
        BY <3>1, <4>2
      <4> QED BY <3>1, <4>1, <4>2, <4>3, <4>4, <4>5
    <3> QED BY <2>2, <3>2, <3>3, <3>4 DEF GetTask
  <2>3. CASE TaskReturns(w)
    BY <2>3 DEF TaskReturns, At, Goto
  <2>4. CASE TaskThrows(w)
    BY <2>4 DEF TaskThrows, At
  <2>5. CASE SpuriousWakeup(w)
    BY <2>5 DEF SpuriousWakeup
  <2>6. CASE BeginTask(w)
    BY <2>6 DEF BeginTask, At, Goto
  <2> QED BY <1>7, <2>1, <2>2, <2>3, <2>4, <2>5, <2>6 DEF WorkerStep
<1> QED BY <1>1, <1>2, <1>3, <1>4, <1>5, <1>6, <1>7, <1>8 DEF Next, OwnerStep

(* Where task t is when m tasks have been taken out of the list.           *)
Once(t, m) ==
  \/ t <= m /\ begun[t] = 1 /\ Holders(t) = {}
  \/ t <= m /\ begun[t] = 0 /\ \E w \in Workers : Holders(t) = {w}
  \/ t > m /\ begun[t] = 0 /\ Holders(t) = {}

(* EachTaskOnce in terms of the number of tasks taken and of those queued. *)
LEMMA OnceNext ==
  ASSUME NEW m \in Nat, NEW n \in Nat, taskList' = Following(m, n), pushed' = m + n,
         \A t \in 1 .. MaxTasks : Once(t, m)'
  PROVE  EachTaskOnce'
<1>1. Len(taskList') = n
  BY DEF Following
<1>2. pushed' - Len(taskList') = m
  BY <1>1
<1>3. taskList' = [i \in 1 .. Len(taskList') |-> m + i]
  BY <1>1 DEF Following
<1> QED BY <1>2, <1>3 DEF EachTaskOnce, Once

(* Nothing changes where no worker takes a task or begins one.             *)
LEMMA HoldersSame ==
  ASSUME EachTaskOnce, UNCHANGED <<taskList, pushed, begun>>,
         \A v \in Workers : (pc'[v] = "begin") <=> (pc[v] = "begin"),
         \A v \in Workers : pc[v] = "begin" => task'[v] = task[v]
  PROVE  EachTaskOnce'
<1>1. \A t : Holders(t)' = Holders(t)
  BY DEF Holders
<1> QED BY <1>1 DEF EachTaskOnce

(* run's scope adds the youngest task; getTask hands the oldest in the     *)
(* list to its worker; the worker begins it.                               *)
LEMMA OnceStep == TypeOK /\ PhaseInv /\ EachTaskOnce /\ Next => EachTaskOnce'
<1> SUFFICES ASSUME TypeOK, PhaseInv, EachTaskOnce, Next PROVE EachTaskOnce'
  OBVIOUS
<1>a. PICK m \in Nat, n \in Nat : taskList = Following(m, n) /\ pushed = m + n
                                  /\ \A t \in 1 .. MaxTasks : Once(t, m)
  <2> DEFINE q == Len(taskList)
             r == pushed - q
  <2>1. q \in Nat /\ pushed \in Nat /\ r \in Nat
    BY LenProperties DEF TypeOK, EachTaskOnce
  <2>2. taskList = Following(r, q) /\ \A t \in 1 .. MaxTasks : Once(t, r)
    BY DEF EachTaskOnce, Following, Once
  <2> HIDE DEF q
  <2>3. pushed = r + q
    BY <2>1
  <2> HIDE DEF r
  <2> QED BY <2>1, <2>2, <2>3
<1>b. Len(taskList) = n
  BY <1>a DEF Following
<1>1. ASSUME RunPush PROVE EachTaskOnce'
  <2>1. pushed' = pushed + 1 /\ taskList' = Append(taskList, pushed + 1)
        /\ UNCHANGED <<pc, task, begun>>
    BY <1>1 DEF RunPush, workerVars
  <2>3. taskList' = Following(m, n + 1)
    BY <1>a, <2>1, FollowingAppend
  <2>4. pushed' = m + (n + 1)
    BY <1>a, <2>1
  <2>5. \A t \in 1 .. MaxTasks : Once(t, m)'
    BY <1>a, <2>1 DEF Once, Holders
  <2> QED BY <2>3, <2>4, <2>5, OnceNext, n + 1 \in Nat
<1>2. ASSUME NEW w \in Workers, GetTask(w), taskList # <<>> PROVE EachTaskOnce'
  <2>1. /\ taskList' = Tail(taskList) /\ UNCHANGED <<pushed, begun>>
        /\ task' = [task EXCEPT ![w] = Head(taskList)]
        /\ pc' = [pc EXCEPT ![w] = "begin"] /\ pc[w] = "getTask"
    BY <1>2 DEF GetTask, Take, Goto, At, runVars
  <2>2. n \in Nat \ {0}
    <3>1. n # 0
      BY <1>2, <1>b DEF TypeOK
    <3> QED BY <3>1
  <2>3. Head(taskList) = m + 1 /\ taskList' = Following(m + 1, n - 1)
    BY <1>a, <2>1, <2>2, FollowingTail
  <2>4. pushed' = (m + 1) + (n - 1)
    BY <1>a, <2>1
  <2>5. \A v \in Workers : pc'[v] = IF v = w THEN "begin" ELSE pc[v]
    BY <2>1 DEF TypeOK
  <2>6. \A v \in Workers : task'[v] = IF v = w THEN m + 1 ELSE task[v]
    BY <2>1, <2>3 DEF TypeOK
  <2>7. ASSUME NEW t \in 1 .. MaxTasks PROVE Once(t, m + 1)'
    <3>a. t \in Int /\ begun'[t] = begun[t] /\ Once(t, m)
      BY <1>a, <2>1
    <3>1. CASE t = m + 1
      <4>1. begun[t] = 0 /\ Holders(t) = {}
        BY <3>a, <3>1 DEF Once
      <4>2. Holders(t)' = {w}
        BY <2>5, <2>6, <3>1, <4>1 DEF Holders
      <4> QED BY <3>a, <3>1, <4>1, <4>2 DEF Once
    <3>2. CASE t # m + 1
      <4>1. (t <= m + 1) <=> (t <= m)
        BY <3>a, <3>2
      <4>2. Holders(t)' = Holders(t)
        BY <2>1, <2>5, <2>6, <3>2 DEF Holders
      <4> QED BY <3>a, <4>1, <4>2 DEF Once
    <3> QED BY <3>1, <3>2
  <2> QED BY <2>2, <2>3, <2>4, <2>7, OnceNext, m + 1 \in Nat, n - 1 \in Nat
<1>3. ASSUME NEW w \in Workers, BeginTask(w) PROVE EachTaskOnce'
  <2> DEFINE k == task[w]
  <2>1. /\ UNCHANGED <<taskList, pushed, task>> /\ pc[w] = "begin"
        /\ pc' = [pc EXCEPT ![w] = "run"]
        /\ begun' = [begun EXCEPT ![k] = begun[k] + 1]
    BY <1>3 DEF BeginTask, Goto, At, poolVars, runVars
  <2>a. \A t : w \in Holders(t) <=> t = k
    BY <2>1 DEF Holders
  <2> HIDE DEF k
  <2>2. ASSUME NEW t \in 1 .. MaxTasks PROVE Once(t, m)'
    <3>1. Holders(t)' = Holders(t) \ {w}
      BY <2>1 DEF Holders, TypeOK
    <3>2. begun'[t] = IF t = k THEN begun[t] + 1 ELSE begun[t]
      BY <2>1 DEF TypeOK
    <3>3. CASE t = k
      <4>1. t <= m /\ begun[t] = 0 /\ Holders(t) = {w}
        BY <1>a, <2>a, <3>3 DEF Once
      <4>2. Holders(t)' = {} /\ begun'[t] = 1
        BY <3>1, <3>2, <3>3, <4>1
      <4> QED BY <4>1, <4>2 DEF Once
    <3>4. CASE t # k
      <4>1. Holders(t)' = Holders(t) /\ begun'[t] = begun[t]
        BY <2>a, <3>1, <3>2, <3>4
      <4> QED BY <1>a, <4>1 DEF Once
    <3> QED BY <3>3, <3>4
  <2> QED BY <1>a, <2>1, <2>2, OnceNext
<1>4. ASSUME NEW w \in Workers, GetTask(w), taskList = <<>> PROVE EachTaskOnce'
  <2>1. UNCHANGED <<taskList, pushed, begun, task>>
        /\ (pc' = pc \/ pc' = [pc EXCEPT ![w] = "sleep"]) /\ pc[w] = "getTask"
    BY <1>4 DEF GetTask, Take, Goto, At, runVars
  <2>2. \A v \in Workers : (pc'[v] = "begin") <=> (pc[v] = "begin")
    BY <2>1 DEF TypeOK
  <2> QED BY <2>1, <2>2, HoldersSame
<1>5. ASSUME NEW w \in Workers, While(w) \/ TaskReturns(w) PROVE EachTaskOnce'
  <2>1. /\ UNCHANGED <<taskList, pushed, begun>> /\ pc[w] # "begin"
        /\ \/ pc' = [pc EXCEPT ![w] = "getTask"] \/ pc' = [pc EXCEPT ![w] = "exit"]
           \/ pc' = [pc EXCEPT ![w] = "while"]
        /\ task' = task \/ task' = [task EXCEPT ![w] = 0]
    BY <1>5 DEF While, TaskReturns, Goto, At, runVars, poolVars
  <2>2. \A v \in Workers : (pc'[v] = "begin") <=> (pc[v] = "begin")
    BY <2>1 DEF TypeOK
  <2>3. \A v \in Workers : pc[v] = "begin" => task'[v] = task[v]
    BY <2>1 DEF TypeOK
  <2> QED BY <2>1, <2>2, <2>3, HoldersSame
<1>6. CASE StartThread
  <2>1. /\ UNCHANGED <<taskList, pushed, begun, task>>
        /\ pc' = pc \/ (threads' = threads + 1 /\ pc' = [pc EXCEPT ![threads'] = "while"])
    BY <1>6 DEF StartThread, ThreadStart, runVars
  <2>2. threads + 1 \in Workers => pc[threads + 1] # "begin"
    <3>1. threads + 1 \notin bstarted
      BY DEF PhaseInv, TypeOK
    <3> QED BY <3>1 DEF PhaseInv
  <2>3. \A v \in Workers : (pc'[v] = "begin") <=> (pc[v] = "begin")
    BY <2>1, <2>2 DEF TypeOK
  <2> QED BY <2>1, <2>3, HoldersSame
<1>7. CASE UNCHANGED <<taskList, pushed, begun, pc, task>>
  BY <1>7, HoldersSame
<1> QED BY <1>1, <1>2, <1>3, <1>4, <1>5, <1>6, <1>7 DEF Next, OwnerStep, WorkerStep, Start, Stop,
           Join, StopEnd, RunCheck, TaskThrows, SpuriousWakeup, poolVars, workerVars, ownerVars,
           runVars

(* Awake is a finite set: its size can be compared with a length.          *)
LEMMA AwakeFinite == TypeOK => IsFiniteSet(Awake) /\ Cardinality(Awake) \in Nat
<1> SUFFICES ASSUME TypeOK PROVE IsFiniteSet(Awake)
  BY FS_CardinalityType
<1>1. IsFiniteSet(1 .. ThreadNum)
  BY PoolAssumption, FS_Interval
<1> QED BY <1>1, FS_Subset DEF Awake, TypeOK, Workers

(* Each queued task keeps its worker: run wakes one with every task it     *)
(* adds while any waits, and a worker that is no longer on its way has     *)
(* taken a task; where one goes to sleep or ends, none waits.              *)
LEMMA AwakeStep == TypeOK /\ PhaseInv /\ EnoughAwake /\ Next => EnoughAwake'
<1> SUFFICES ASSUME TypeOK, PhaseInv, EnoughAwake, Next, notEmpty' # {}
             PROVE  Len(taskList') <= Cardinality(Awake')
  BY DEF EnoughAwake
<1>a. TypeOK' /\ PhaseInv'
  BY PhaseStep
<1>b. /\ IsFiniteSet(Awake) /\ Cardinality(Awake) \in Nat
      /\ IsFiniteSet(Awake') /\ Cardinality(Awake') \in Nat
  <2>1. (IsFiniteSet(Awake) /\ Cardinality(Awake) \in Nat)'
    BY <1>a, AwakeFinite, PTL
  <2> QED BY <2>1, AwakeFinite
<1>c. Len(taskList) \in Nat
  BY LenProperties DEF TypeOK
<1>d. brunning' /\ notEmpty \subseteq bstarted
  BY <1>a DEF TypeOK, PhaseInv, Workers
<1>1. ASSUME Awake \subseteq Awake', taskList' = taskList, notEmpty # {}
      PROVE  Len(taskList') <= Cardinality(Awake')
  <2>1. Cardinality(Awake) <= Cardinality(Awake')
    BY <1>1, <1>b, FS_Subset
  <2> QED BY <1>1, <1>b, <1>c, <2>1 DEF EnoughAwake
<1> USE DEF Awake, poolVars, workerVars, ownerVars
<1>2. CASE OwnerStep
  <2>1. CASE StartThread
    <3>1. threads' \notin bstarted
      BY <2>1 DEF StartThread, PhaseInv, TypeOK, Workers
    <3> QED BY <2>1, <3>1, <1>1 DEF StartThread, ThreadStart, TypeOK
  <2>2. ~ Stop /\ ~ StopEnd
    BY <1>a DEF Stop, NotifyAll, StopEnd, PhaseInv
  <2>4. CASE Start
    <3>1. UNCHANGED <<taskList, notEmpty, bstarted, pc>>
      BY <2>4 DEF Start
    <3> QED BY <3>1, <1>1
  <2>3. CASE Join
    BY <2>3, <1>1 DEF Join
  <2> QED BY <1>2, <2>1, <2>2, <2>3, <2>4 DEF OwnerStep
<1>5. CASE RunCheck
  BY <1>5, <1>1 DEF RunCheck
<1>3. CASE RunPush
  <2>1. Len(taskList') = Len(taskList) + 1
    <3>1. pushed' \in 1 .. MaxTasks
      BY <1>3, PoolAssumption DEF RunPush, TypeOK
    <3> QED BY <1>3, <3>1, AppendProperties DEF RunPush, TypeOK
  <2>2. PICK w \in notEmpty : notEmpty' = notEmpty \ {w}
    BY <1>3 DEF RunPush, Notify
  <2>3. Awake' = Awake \cup {w} /\ w \notin Awake
    BY <1>3, <2>2, <1>d DEF RunPush, PhaseInv
  <2>4. Cardinality(Awake') = Cardinality(Awake) + 1
    BY <2>3, <1>b, FS_AddElement
  <2> QED BY <2>1, <2>2, <2>4, <1>b, <1>c DEF EnoughAwake
<1>4. ASSUME NEW w \in Workers, WorkerStep(w) \/ TaskThrows(w) \/ SpuriousWakeup(w)
      PROVE  Len(taskList') <= Cardinality(Awake')
  <2> USE DEF TypeOK, Workers
  <2>1. CASE While(w)
    BY <2>1, <1>1, <1>d DEF While, At, Goto
  <2>2. CASE GetTask(w) /\ taskList = <<>>
    <3>1. taskList' = <<>>
      BY <2>2 DEF GetTask, Take
    <3> QED BY <3>1, <1>b
  <2>3. CASE GetTask(w) /\ taskList # <<>>
    <3>1. Len(taskList') = Len(taskList) - 1
      BY <2>3, HeadTailProperties DEF GetTask, Take
    <3>2. Awake' = Awake \ {w} /\ notEmpty' = notEmpty
      BY <2>3 DEF GetTask, Take, At, Goto
    <3>3. Cardinality(Awake') >= Cardinality(Awake) - 1
      <4> HIDE DEF Awake
      <4>1. Cardinality(Awake \ {w})
              = IF w \in Awake THEN Cardinality(Awake) - 1 ELSE Cardinality(Awake)
        BY <1>b, FS_RemoveElement
      <4> QED BY <3>2, <4>1, <1>b
    <3> QED BY <3>1, <3>2, <3>3, <1>b, <1>c DEF EnoughAwake
  <2>4. CASE TaskReturns(w)
    BY <2>4, <1>1 DEF TaskReturns, At, Goto
  <2>5. CASE TaskThrows(w)
    BY <2>5, <1>1 DEF TaskThrows
  <2>6. CASE SpuriousWakeup(w)
    BY <2>6, <1>1 DEF SpuriousWakeup
  <2>7. CASE BeginTask(w)
    BY <2>7, <1>1 DEF BeginTask, At, Goto
  <2> QED BY <1>4, <2>1, <2>2, <2>3, <2>4, <2>5, <2>6, <2>7 DEF WorkerStep
<1> QED BY <1>2, <1>3, <1>4, <1>5 DEF Next

-----------------------------------------------------------------------------
(* The invariant holds from the construction of the pool on.               *)
LEMMA Invariance == Spec => []IInv
<1>1. Init => IInv
  <2> SUFFICES ASSUME Init PROVE IInv
    OBVIOUS
  <2>1. TypeOK
    <3>1. <<>> \in Seq(1 .. MaxTasks)
      BY EmptySeq
    <3>2. pc \in [Workers -> WorkerPcs] /\ task \in [Workers -> 0 .. MaxTasks]
      BY PoolAssumption DEF Init, WorkerPcs
    <3>3. brunning \in BOOLEAN
      BY Zenon DEF Init
    <3> QED BY <3>1, <3>2, <3>3, PoolAssumption DEF Init, TypeOK
  <2>a. PhaseInv
    BY PoolAssumption DEF Init, PhaseInv, Workers
  <2>2. EnoughAwake
    BY DEF Init, EnoughAwake
  <2>3. EachTaskOnce
    <3>1. Len(taskList) = 0 /\ pushed = 0 /\ taskList = <<>> /\ begun = [t \in 1 .. MaxTasks |-> 0]
          /\ \A t : Holders(t) = {}
      BY DEF Init, Holders
    <3>2. taskList = [i \in 1 .. 0 |-> 0 + i]
      BY <3>1
    <3>3. pushed - Len(taskList) = 0
      BY <3>1
    <3> QED BY <3>1, <3>2, <3>3 DEF EachTaskOnce
  <2> QED BY <2>1, <2>a, <2>2, <2>3 DEF IInv
<1>2. IInv /\ [Next]_vars => IInv'
  <2>1. IInv /\ Next => IInv'
    BY PhaseStep, OnceStep, AwakeStep DEF IInv
  <2>2. IInv /\ UNCHANGED vars => IInv'
    <3> SUFFICES ASSUME IInv, UNCHANGED vars PROVE IInv'
      OBVIOUS
    <3>1. EachTaskOnce'
      BY HoldersSame DEF IInv, vars, poolVars, workerVars, runVars
    <3> QED BY <3>1 DEF IInv, vars, poolVars, workerVars, ownerVars, runVars, TypeOK, PhaseInv,
               EnoughAwake, Awake, Workers
  <2> QED BY <2>1, <2>2
<1> QED BY <1>1, <1>2, PTL DEF Spec

(* The types of ThreadPool's members and of the threads' local state.      *)
THEOREM PoolTypes == Spec => []TypeOK
<1>1. IInv => TypeOK
  BY DEF IInv
<1> QED BY <1>1, Invariance, PTL

(* One notify for each run is enough: no worker waits while more tasks are *)
(* queued than workers are on their way to fetch one (ThreadPool::run and  *)
(* getTask), for any number of workers and although a wait may end by      *)
(* itself.                                                                 *)
THEOREM NotifySuffices == Spec => []EnoughAwake
<1>1. IInv => EnoughAwake
  BY DEF IInv
<1> QED BY <1>1, Invariance, PTL

(* ThreadPool loses no task and runs none twice: a task that run queued is *)
(* in the list, in its place, or with one worker between getTask and t(),  *)
(* or was begun once; also over a stop and a new start.                    *)
THEOREM NoTaskLost == Spec => []EachTaskOnce
<1>1. IInv => EachTaskOnce
  BY DEF IInv
<1> QED BY <1>1, Invariance, PTL

(* When ThreadPool::stop has returned, no worker is left in the pool.      *)
THEOREM StopJoinsAll == Spec => []StoppedMeansEnded
<1>1. IInv => StoppedMeansEnded
  BY DEF IInv, TypeOK, PhaseInv, StoppedMeansEnded, Workers
<1> QED BY <1>1, Invariance, PTL
=============================================================================

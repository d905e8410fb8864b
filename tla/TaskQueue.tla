------------------------------ MODULE TaskQueue ------------------------------
(***************************************************************************)
(* What Reactor.h promises to the callers of runInLoop and queueInLoop:    *)
(* "asynchronous, safe, sequential execution under several threads".       *)
(* A task handed over is appended to one queue; the loop runs the tasks of *)
(* that queue one at a time, each once, oldest first.  A task submitted    *)
(* with runInLoop by the loop's own thread runs at once, ahead of the      *)
(* queue.                                                                  *)
(***************************************************************************)
EXTENDS Sequences

CONSTANT Tasks

VARIABLES queue,    \* tasks handed over and not yet run
          ran       \* tasks run so far, in the order they ran

QueueInit == queue = <<>> /\ ran = <<>>

Submit(t) == queue' = Append(queue, t) /\ UNCHANGED ran

RunOldest == /\ queue # <<>>
             /\ ran' = Append(ran, Head(queue))
             /\ queue' = Tail(queue)

RunDirect(t) == ran' = Append(ran, t) /\ UNCHANGED queue

QueueNext == RunOldest \/ \E t \in Tasks : Submit(t) \/ RunDirect(t)

QueueSpec == QueueInit /\ [][QueueNext]_<<queue, ran>>
=============================================================================

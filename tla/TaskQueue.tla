----------------------------- MODULE TaskQueue -----------------------------
(***************************************************************************)
(* What an EventLoop promises about the tasks given to queueInLoop, with   *)
(* no threads, no wake-up descriptor and no batches: a FIFO from which the *)
(* loop takes one task at a time, each task run once, in the order it was  *)
(* queued.                                                                 *)
(***************************************************************************)
EXTENDS Sequences, Naturals

CONSTANT Tasks          \* the closures that callers may queue

VARIABLES queue,        \* queued and not yet started, oldest first
          executed      \* started, in the order they were started

Init == /\ queue = <<>>
        /\ executed = <<>>

(* Some thread queues t.                                                   *)
Submit(t) == /\ queue' = Append(queue, t)
             /\ UNCHANGED executed

(* The loop thread starts the oldest queued task.                          *)
Execute == /\ queue # <<>>
           /\ executed' = Append(executed, Head(queue))
           /\ queue' = Tail(queue)

Next == Execute \/ \E t \in Tasks : Submit(t)

Spec == Init /\ [][Next]_<<queue, executed>>
=============================================================================

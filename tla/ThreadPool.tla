----------------------------- MODULE ThreadPool -----------------------------
(***************************************************************************)
(* ThreadPool (ThreadPool.cc): producers call runTask, worker threads take *)
(* from a bounded queue, the owner calls stop().  taskQueue_ is only used  *)
(* under mutex_, so a critical section is one step - except in take():     *)
(* running_ is stored by stop() without the mutex, and a worker that has   *)
(* tested it sleeps in a step of its own, holding mutex_ in between.       *)
(* Condition variables may wake a thread for no reason.  Asserts are       *)
(* compiled out: runTask does not stop a caller that comes after stop().   *)
(***************************************************************************)
EXTENDS Naturals, Sequences, FiniteSets, Functions

CONSTANTS Workers,        \* threads_
          Producers,      \* threads that call runTask
          Tasks,          \* the closures, each submitted at most once
          maxQueueSize_,
          Nobody          \* no thread, no task

ASSUME SizeAssumption == maxQueueSize_ \in Nat \ {0}
ASSUME ThreadsAssumption == Workers # {} /\ Workers \cap Producers = {}
ASSUME NobodyAssumption == Nobody \notin Workers /\ Nobody \notin Tasks

VARIABLES running_, taskQueue_,
          mutex_,         \* the worker that holds it between two steps
          wpc,            \* where each worker is
          ppc,            \* where each producer is
          arg,            \* the task each producer is submitting
          spc,            \* where the owner's call of stop() is
          submitted,      \* history: tasks pushed, in order
          taken           \* history: tasks popped, in order

queueVars == <<taskQueue_, submitted, taken>>
producerVars == <<ppc, arg>>
vars == <<running_, queueVars, mutex_, wpc, producerVars, spc>>

(* wpc: "loop" at while (running_), "take" waiting for mutex_ in take(),   *)
(* "tested" about to sleep, "asleep" on notEmpty_, "task" running a task.  *)
(* ppc: "lock" waiting for mutex_ in runTask, "asleep" on notFull_.        *)
WorkerPoints == {"loop", "take", "tested", "asleep", "task", "exited"}
ProducerPoints == {"idle", "lock", "asleep"}

Init == /\ running_ = TRUE /\ taskQueue_ = <<>> /\ mutex_ = Nobody
        /\ wpc = [w \in Workers |-> "loop"] /\ ppc = [p \in Producers |-> "idle"]
        /\ arg = [p \in Producers |-> Nobody] /\ spc = "none"
        /\ submitted = <<>> /\ taken = <<>>

Goes(w, from, to) == wpc[w] = from /\ wpc' = [wpc EXCEPT ![w] = to]

(* notify_one and notify_all: what the sleepers in pcs may look like       *)
(* afterwards.  Variants: left out; one instead of all.                    *)
NotifyNobody(pcs, awake) == {pcs}
NotifyOne(pcs, awake) ==
  LET sleepers == {i \in DOMAIN pcs : pcs[i] = "asleep"}
  IN  IF sleepers = {} THEN {pcs} ELSE {[pcs EXCEPT ![i] = awake] : i \in sleepers}
NotifyAll(pcs, awake) ==
  {[i \in DOMAIN pcs |-> IF pcs[i] = "asleep" THEN awake ELSE pcs[i]]}
-----------------------------------------------------------------------------
Fresh(t) == t \notin Range(submitted) \cup Range(arg)

runTask(p, t) ==
  /\ ppc[p] = "idle" /\ Fresh(t) /\ spc # "stopped"
  /\ ppc' = [ppc EXCEPT ![p] = "lock"]
  /\ arg' = [arg EXCEPT ![p] = t]
  /\ UNCHANGED <<running_, queueVars, mutex_, wpc, spc>>

(* runTask with mutex_: sleep while the queue is full, else push.          *)
runTaskLocked(p) ==
  /\ ppc[p] = "lock" /\ mutex_ = Nobody
  /\ IF Len(taskQueue_) >= maxQueueSize_
     THEN /\ ppc' = [ppc EXCEPT ![p] = "asleep"]
          /\ UNCHANGED <<taskQueue_, wpc, submitted, arg>>
     ELSE /\ taskQueue_' = Append(taskQueue_, arg[p])
          /\ submitted' = Append(submitted, arg[p])
          /\ wpc' \in NotifyOne(wpc, "take")
          /\ ppc' = [ppc EXCEPT ![p] = "idle"]
          /\ arg' = [arg EXCEPT ![p] = Nobody]
  /\ UNCHANGED <<running_, mutex_, spc, taken>>
-----------------------------------------------------------------------------
(* stop(): the store; then mutex_ and notify_all; then the joins.          *)
stop == /\ spc = "none" /\ spc' = "lock"
        /\ running_' = FALSE
        /\ UNCHANGED <<queueVars, mutex_, wpc, producerVars>>

(* lock_guard in stop().  Variant: left out.                               *)
Unlocked == TRUE
Locked == mutex_ = Nobody

stopNotifies == /\ spc = "lock" /\ Locked /\ spc' = "join"
                /\ wpc' \in NotifyAll(wpc, "take")
                /\ UNCHANGED <<running_, queueVars, mutex_, producerVars>>

stopJoins == /\ spc = "join" /\ \A w \in Workers : wpc[w] = "exited"
             /\ spc' = "stopped"
             /\ UNCHANGED <<running_, queueVars, mutex_, wpc, producerVars>>
-----------------------------------------------------------------------------
(* The workers.                                                            *)

(* while (running_) in runInThread.                                        *)
runInThread(w) ==
  /\ Goes(w, "loop", IF running_ THEN "take" ELSE "exited")
  /\ UNCHANGED <<running_, queueVars, mutex_, producerVars, spc>>

(* front() and pop().  Variant: the task stays in the queue.               *)
Front == taken' = Append(taken, Head(taskQueue_)) /\ UNCHANGED taskQueue_
FrontAndPop == /\ taken' = Append(taken, Head(taskQueue_))
               /\ taskQueue_' = Tail(taskQueue_)

(* take() with mutex_: a task, the decision to sleep, or an empty Task     *)
(* (which runInThread skips).                                              *)
take(w) ==
  /\ mutex_ = Nobody
  /\ IF taskQueue_ # <<>> THEN
       /\ Goes(w, "take", "task")
       /\ FrontAndPop
       /\ ppc' \in NotifyOne(ppc, "lock")
       /\ UNCHANGED mutex_
     ELSE
       /\ Goes(w, "take", IF running_ THEN "tested" ELSE "loop")
       /\ mutex_' = IF running_ THEN w ELSE mutex_
       /\ UNCHANGED <<taskQueue_, ppc, taken>>
  /\ UNCHANGED <<running_, arg, spc, submitted>>

(* notEmpty_.wait: release mutex_ and sleep.                               *)
takeSleeps(w) ==
  /\ Goes(w, "tested", "asleep")
  /\ mutex_' = Nobody
  /\ UNCHANGED <<running_, queueVars, producerVars, spc>>

taskReturns(w) ==
  /\ Goes(w, "task", "loop")
  /\ UNCHANGED <<running_, queueVars, mutex_, producerVars, spc>>

(* Wake-ups for no reason.                                                 *)
spuriousWorker(w) ==
  /\ Goes(w, "asleep", "take")
  /\ UNCHANGED <<running_, queueVars, mutex_, producerVars, spc>>

spuriousProducer(p) ==
  /\ ppc[p] = "asleep" /\ ppc' = [ppc EXCEPT ![p] = "lock"]
  /\ UNCHANGED <<running_, queueVars, mutex_, wpc, arg, spc>>
-----------------------------------------------------------------------------
Next == \/ stop \/ stopNotifies \/ stopJoins
        \/ \E w \in Workers : \/ runInThread(w) \/ take(w) \/ takeSleeps(w)
                              \/ taskReturns(w) \/ spuriousWorker(w)
        \/ \E p \in Producers : \/ \E t \in Tasks : runTask(p, t)
                                \/ runTaskLocked(p) \/ spuriousProducer(p)

Spec == Init /\ [][Next]_vars
-----------------------------------------------------------------------------
TypeOK == /\ running_ \in BOOLEAN /\ taskQueue_ \in Seq(Tasks)
          /\ mutex_ \in Workers \cup {Nobody}
          /\ wpc \in [Workers -> WorkerPoints] /\ ppc \in [Producers -> ProducerPoints]
          /\ arg \in [Producers -> Tasks \cup {Nobody}]
          /\ \A p \in Producers : ppc[p] = "idle" <=> arg[p] = Nobody
          /\ spc \in {"none", "lock", "join", "stopped"}
          /\ submitted \in Seq(Tasks) /\ taken \in Seq(Tasks)

(* Every task pushed is popped once, in order, or still queued, and the    *)
(* queue never holds more than maxQueueSize_: producers that wake up for a *)
(* place a newcomer has taken wait again.                                  *)
PoppedInOrderOnce ==
  submitted = taken \o taskQueue_ /\ Len(taskQueue_) <= maxQueueSize_

(* Once stop() has notified, no worker sleeps or is about to: the store to *)
(* running_ outside mutex_ cannot slip between a worker's test and its     *)
(* wait without being followed by the notification.                        *)
NoSleepAfterStop ==
  spc \in {"join", "stopped"} => \A w \in Workers : wpc[w] \notin {"tested", "asleep"}
=============================================================================

-------------------------- MODULE EventLoopProofs --------------------------
(***************************************************************************)
(* Proofs about EventLoop, for any number of threads, tasks and channels   *)
(* and any size of the event array and of the eventfd counter.             *)
(***************************************************************************)
EXTENDS EventLoop, SequenceTheorems, TLAPS

(* Where the loop thread can be while the pieces of its state are set.     *)
BatchShape == /\ doingPendingTasks_ <=> pc \in {"tasks", "task"}
              /\ tasks # <<>> => pc \in {"tasks", "task"}
              /\ call[LoopThread] # "none" => pc \in InUserCode

LoopInv == TypeOK /\ BatchShape /\ TasksInOrderOnce /\ NoLostWakeup
-----------------------------------------------------------------------------
(* Appending a task adds exactly that task to what the sequence holds.     *)
LEMMA RangeOfAppend ==
  ASSUME NEW S, NEW s \in Seq(S), NEW e \in S
  PROVE  Range(Append(s, e)) = Range(s) \cup {e}
<1> DEFINE r == Append(s, e)
<1>1. /\ Len(s) \in Nat /\ DOMAIN s = 1..Len(s)
      /\ DOMAIN r = 1..(Len(s) + 1) /\ r[Len(s) + 1] = e
  OBVIOUS
<1>2. \A i \in 1..Len(s) : r[i] = s[i]
  OBVIOUS
<1>3. DOMAIN r = DOMAIN s \cup {Len(s) + 1}
  BY <1>1
<1> HIDE DEF r
<1>4. Range(r) = Range(s) \cup {e}
  <2>1. ASSUME NEW x \in Range(r) PROVE x \in Range(s) \cup {e}
    BY <1>1, <1>2, <1>3 DEF Range
  <2>2. ASSUME NEW x \in Range(s) PROVE x \in Range(r)
    BY <1>1, <1>2, <1>3 DEF Range
  <2>3. e \in Range(r)
    BY <1>1, <1>3 DEF Range
  <2> QED
    BY <2>1, <2>2, <2>3
<1> QED
  BY <1>4 DEF r

(* The empty sequence holds nothing.                                       *)
LEMMA RangeOfEmpty == Range(<<>>) = {}
BY DEF Range

(* TypeOK is inductive: every call and every step of the loop thread keeps *)
(* the members of EventLoop within their types.                            *)
LEMMA TypeStep == TypeOK /\ [Next]_vars => TypeOK'
<1> SUFFICES ASSUME TypeOK, [Next]_vars PROVE TypeOK'
  OBVIOUS
<1> USE ThreadsAssumption, ChannelsAssumption, BoundsAssumption DEF TypeOK, LoopPoints, InUserCode
<1>1. ASSUME NEW th \in Threads, NEW t \in Tasks, queueInLoop(th, t) PROVE TypeOK'
  BY <1>1 DEF queueInLoop, loopVars, CanCall
<1>2. ASSUME NEW th \in Threads, NEW t \in Tasks, runInLoop(th, t) PROVE TypeOK'
  BY <1>1, <1>2 DEF runInLoop, loopVars
<1>3. ASSUME NEW th \in Threads, queueInLoopWake(th) PROVE TypeOK'
  BY <1>3 DEF queueInLoopWake, loopVars, histVars, wakeup
<1>4. ASSUME NEW th \in Threads, quit(th) PROVE TypeOK'
  BY <1>4 DEF quit, histVars
<1>5. ASSUME NEW th \in Threads, quitWake(th) PROVE TypeOK'
  BY <1>5 DEF quitWake, loopVars, histVars, wakeup
<1>6. CASE loop
  BY <1>6 DEF loop, histVars
<1>7. CASE loopTest
  BY <1>7 DEF loopTest, histVars
<1>8. CASE poll
  BY <1>8 DEF poll, Enlarged, Ready, histVars
<1>9. CASE pollFails
  BY <1>9 DEF pollFails, histVars
<1>10. ASSUME NEW c \in Channels, handleEvents(c) PROVE TypeOK'
  BY <1>10 DEF handleEvents, histVars
<1>11. CASE handleRead
  BY <1>11 DEF handleRead, histVars
<1>12. CASE callbackReturns
  BY <1>12 DEF callbackReturns, histVars
<1>13. CASE doPendingTasks
  BY <1>13 DEF doPendingTasks, AllHandled, Swapped, histVars
<1>14. CASE runTask
  BY <1>14 DEF runTask
<1>15. CASE taskReturns
  BY <1>15 DEF taskReturns, histVars
<1>16. CASE tasksDone
  BY <1>16 DEF tasksDone, histVars
<1>17. ASSUME NEW c \in Channels, fdReady(c) PROVE TypeOK'
  BY <1>17 DEF fdReady, loopVars, histVars
<1>18. CASE UNCHANGED vars
  BY <1>18 DEF vars, loopVars, histVars
<1> QED
  BY <1>1, <1>2, <1>3, <1>4, <1>5, <1>6, <1>7, <1>8, <1>9, <1>10, <1>11, <1>12,
     <1>13, <1>14, <1>15, <1>16, <1>17, <1>18 DEF Next, LoopStep, Call

(* doingPendingTasks_, the batch and the calls of the loop thread agree    *)
(* with where it is, whatever the other threads do.                        *)
LEMMA BatchStep == TypeOK /\ BatchShape /\ [Next]_vars => BatchShape'
<1> SUFFICES ASSUME TypeOK, BatchShape, [Next]_vars PROVE BatchShape'
  OBVIOUS
<1> USE ThreadsAssumption DEF TypeOK, LoopPoints, InUserCode, BatchShape
<1>1. ASSUME NEW th \in Threads, NEW t \in Tasks, queueInLoop(th, t) PROVE BatchShape'
  BY <1>1 DEF queueInLoop, loopVars, CanCall, isInLoopThread
<1>2. ASSUME NEW th \in Threads, NEW t \in Tasks, runInLoop(th, t) PROVE BatchShape'
  BY <1>2, <1>1 DEF runInLoop, loopVars, CanCall, isInLoopThread
<1>3. ASSUME NEW th \in Threads, queueInLoopWake(th) PROVE BatchShape'
  BY <1>3 DEF queueInLoopWake, loopVars, histVars, isInLoopThread
<1>4. ASSUME NEW th \in Threads, quit(th) PROVE BatchShape'
  BY <1>4 DEF quit, histVars, CanCall
<1>5. ASSUME NEW th \in Threads, quitWake(th) PROVE BatchShape'
  BY <1>5 DEF quitWake, loopVars, histVars, isInLoopThread
<1>6. CASE loop
  BY <1>6 DEF loop, histVars
<1>7. CASE loopTest
  BY <1>7 DEF loopTest, histVars
<1>8. CASE poll
  BY <1>8 DEF poll, histVars
<1>9. CASE pollFails
  BY <1>9 DEF pollFails, histVars
<1>10. ASSUME NEW c \in Channels, handleEvents(c) PROVE BatchShape'
  BY <1>10 DEF handleEvents, histVars
<1>11. CASE handleRead
  BY <1>11 DEF handleRead, histVars
<1>12. CASE callbackReturns
  BY <1>12 DEF callbackReturns, histVars
<1>13. CASE doPendingTasks
  BY <1>13 DEF doPendingTasks, AllHandled, Swapped, histVars
<1>14. CASE runTask
  BY <1>14 DEF runTask
<1>15. CASE taskReturns
  BY <1>15 DEF taskReturns, histVars
<1>16. CASE tasksDone
  BY <1>16 DEF tasksDone, histVars
<1>17. ASSUME NEW c \in Channels, fdReady(c) PROVE BatchShape'
  BY <1>17 DEF fdReady, loopVars, histVars
<1>18. CASE UNCHANGED vars
  BY <1>18 DEF vars, loopVars, histVars
<1> QED
  BY <1>1, <1>2, <1>3, <1>4, <1>5, <1>6, <1>7, <1>8, <1>9, <1>10, <1>11, <1>12,
     <1>13, <1>14, <1>15, <1>16, <1>17, <1>18 DEF Next, LoopStep, Call

(* A task that is pushed is the last one of the concatenation.             *)
LEMMA PushExtends ==
  ASSUME NEW S, NEW p \in Seq(S), NEW m \in Seq(S), NEW q \in Seq(S), NEW e \in S
  PROVE  p \o m \o Append(q, e) = Append(p \o m \o q, e)
  OBVIOUS

(* The task that starts moves from the head of the batch to what has run.  *)
LEMMA HeadMoves ==
  ASSUME NEW S, NEW p \in Seq(S), NEW m \in Seq(S), NEW q \in Seq(S), m # <<>>
  PROVE  Append(p, Head(m)) \o Tail(m) \o q = p \o m \o q
<1>1. Append(p, Head(m)) \o Tail(m) = p \o m
  OBVIOUS
<1> QED
  BY <1>1

(* The batch is empty when the swap is made, so nothing is overwritten,    *)
(* and a push, the swap and the start of a task keep the concatenation.    *)
LEMMA OrderStep == TypeOK /\ BatchShape /\ TasksInOrderOnce /\ [Next]_vars => TasksInOrderOnce'
<1> SUFFICES ASSUME TypeOK, BatchShape, TasksInOrderOnce, [Next]_vars PROVE TasksInOrderOnce'
  OBVIOUS
<1> USE DEF TypeOK, TasksInOrderOnce
<1>1. ASSUME NEW th \in Threads, NEW t \in Tasks, queueInLoop(th, t) PROVE TasksInOrderOnce'
  <2>1. executed \o tasks \o Append(pendingTasks_, t) = Append(submitted, t)
    <3>1. tasks \in Seq(Tasks) /\ executed \in Seq(Tasks) /\ pendingTasks_ \in Seq(Tasks)
      OBVIOUS
    <3>2. submitted = executed \o tasks \o pendingTasks_
      OBVIOUS
    <3> HIDE DEF TypeOK, TasksInOrderOnce
    <3> QED
      BY <3>1, <3>2, PushExtends
  <2> QED
    BY <1>1, <2>1 DEF queueInLoop, loopVars
<1>2. ASSUME NEW th \in Threads, NEW t \in Tasks, runInLoop(th, t) PROVE TasksInOrderOnce'
  BY <1>2, <1>1 DEF runInLoop, loopVars
<1>3. ASSUME NEW th \in Threads, queueInLoopWake(th) PROVE TasksInOrderOnce'
  BY <1>3 DEF queueInLoopWake, loopVars, histVars
<1>4. ASSUME NEW th \in Threads, quit(th) PROVE TasksInOrderOnce'
  BY <1>4 DEF quit, histVars
<1>5. ASSUME NEW th \in Threads, quitWake(th) PROVE TasksInOrderOnce'
  BY <1>5 DEF quitWake, loopVars, histVars
<1>6. CASE loop
  BY <1>6 DEF loop, histVars
<1>7. CASE loopTest
  BY <1>7 DEF loopTest, histVars
<1>8. CASE poll
  BY <1>8 DEF poll, histVars
<1>9. CASE pollFails
  BY <1>9 DEF pollFails, histVars
<1>10. ASSUME NEW c \in Channels, handleEvents(c) PROVE TasksInOrderOnce'
  BY <1>10 DEF handleEvents, histVars
<1>11. CASE handleRead
  BY <1>11 DEF handleRead, histVars
<1>12. CASE callbackReturns
  BY <1>12 DEF callbackReturns, histVars
<1>13. CASE doPendingTasks
  <2>1. tasks = <<>>
    BY <1>13 DEF doPendingTasks, AllHandled, BatchShape
  <2>2. executed \o tasks \o pendingTasks_ = executed \o pendingTasks_ \o <<>>
    BY <2>1
  <2> QED
    BY <1>13, <2>2 DEF doPendingTasks, AllHandled, Swapped, histVars
<1>14. CASE runTask
  <2>1. Append(executed, Head(tasks)) \o Tail(tasks) \o pendingTasks_
          = executed \o tasks \o pendingTasks_
    <3>1. tasks # <<>>
      BY <1>14 DEF runTask
    <3>2. tasks \in Seq(Tasks) /\ executed \in Seq(Tasks) /\ pendingTasks_ \in Seq(Tasks)
      OBVIOUS
    <3> HIDE DEF TypeOK, TasksInOrderOnce
    <3> QED
      BY <3>1, <3>2, HeadMoves
  <2> QED
    BY <1>14, <2>1 DEF runTask
<1>15. CASE taskReturns
  BY <1>15 DEF taskReturns, histVars
<1>16. CASE tasksDone
  BY <1>16 DEF tasksDone, histVars
<1>17. ASSUME NEW c \in Channels, fdReady(c) PROVE TasksInOrderOnce'
  BY <1>17 DEF fdReady, loopVars, histVars
<1>18. CASE UNCHANGED vars
  BY <1>18 DEF vars, loopVars, histVars
<1> QED
  BY <1>1, <1>2, <1>3, <1>4, <1>5, <1>6, <1>7, <1>8, <1>9, <1>10, <1>11, <1>12,
     <1>13, <1>14, <1>15, <1>16, <1>17, <1>18 DEF Next, LoopStep, Call

(* NoLostWakeup is preserved: the eventfd is emptied only between          *)
(* epoll_wait and the swap, a push past the swap is followed by a write to *)
(* the eventfd, and the swap takes whatever was pushed before it.          *)
LEMMA WakeupStep == TypeOK /\ BatchShape /\ NoLostWakeup /\ [Next]_vars => NoLostWakeup'
<1> SUFFICES ASSUME TypeOK, BatchShape, NoLostWakeup, [Next]_vars PROVE NoLostWakeup'
  OBVIOUS
<1> USE ThreadsAssumption, BoundsAssumption DEF TypeOK, BatchShape, NoLostWakeup, WakeupComing, QueueWakes, isInLoopThread
<1>1. ASSUME NEW th \in Threads, NEW t \in Tasks, queueInLoop(th, t) PROVE NoLostWakeup'
  BY <1>1, RangeOfAppend DEF queueInLoop, loopVars, CanCall, InUserCode
<1>2. ASSUME NEW th \in Threads, NEW t \in Tasks, runInLoop(th, t) PROVE NoLostWakeup'
  BY <1>2, <1>1 DEF runInLoop, loopVars, CanCall
<1>3. ASSUME NEW th \in Threads, queueInLoopWake(th) PROVE NoLostWakeup'
  BY <1>3 DEF queueInLoopWake, loopVars, histVars, wakeup
<1>4. ASSUME NEW th \in Threads, quit(th) PROVE NoLostWakeup'
  BY <1>4 DEF quit, histVars, CanCall
<1>5. ASSUME NEW th \in Threads, quitWake(th) PROVE NoLostWakeup'
  BY <1>5 DEF quitWake, loopVars, histVars, wakeup
<1>6. CASE loop
  BY <1>6 DEF loop, histVars
<1>7. CASE loopTest
  BY <1>7 DEF loopTest, histVars
<1>8. CASE poll
  BY <1>8 DEF poll, histVars
<1>9. CASE pollFails
  BY <1>9 DEF pollFails, histVars
<1>10. ASSUME NEW c \in Channels, handleEvents(c) PROVE NoLostWakeup'
  BY <1>10 DEF handleEvents, histVars
<1>11. CASE handleRead
  BY <1>11 DEF handleRead, histVars
<1>12. CASE callbackReturns
  BY <1>12 DEF callbackReturns, histVars
<1>13. CASE doPendingTasks
  BY <1>13, RangeOfEmpty DEF doPendingTasks, AllHandled, Swapped, histVars
<1>14. CASE runTask
  BY <1>14 DEF runTask
<1>15. CASE taskReturns
  BY <1>15 DEF taskReturns, histVars
<1>16. CASE tasksDone
  BY <1>16 DEF tasksDone, histVars, InUserCode
<1>17. ASSUME NEW c \in Channels, fdReady(c) PROVE NoLostWakeup'
  BY <1>17 DEF fdReady, loopVars, histVars
<1>18. CASE UNCHANGED vars
  BY <1>18 DEF vars, loopVars, histVars
<1> QED
  BY <1>1, <1>2, <1>3, <1>4, <1>5, <1>6, <1>7, <1>8, <1>9, <1>10, <1>11, <1>12,
     <1>13, <1>14, <1>15, <1>16, <1>17, <1>18 DEF Next, LoopStep, Call
-----------------------------------------------------------------------------
(* The loop starts in a state of the invariant: nothing queued, nobody     *)
(* inside a call.                                                          *)
LEMMA InitInv == Init => LoopInv
<1> SUFFICES ASSUME Init PROVE LoopInv
  OBVIOUS
<1>1. TypeOK
  <2>1. <<>> \in Seq(Tasks)
    OBVIOUS
  <2>2. call \in [Threads -> {"none", "queue", "quit"}]
    BY DEF Init
  <2>3. pc \in LoopPoints
    BY DEF Init, LoopPoints, InUserCode
  <2>4. eventsSize \in Nat \ {0} /\ wakeupfd \in 0..EventfdMax
    BY BoundsAssumption DEF Init
  <2> QED
    BY <2>1, <2>2, <2>3, <2>4 DEF Init, TypeOK
<1>2. BatchShape
  BY ThreadsAssumption DEF Init, BatchShape, InUserCode
<1>3. TasksInOrderOnce
  BY DEF Init, TasksInOrderOnce
<1>4. NoLostWakeup
  BY RangeOfEmpty DEF Init, NoLostWakeup
<1> QED
  BY <1>1, <1>2, <1>3, <1>4 DEF LoopInv

(* LoopInv is an inductive invariant of EventLoop.                         *)
LEMMA LoopInvariant == Spec => []LoopInv
<1>1. LoopInv /\ [Next]_vars => LoopInv'
  BY TypeStep, BatchStep, OrderStep, WakeupStep DEF LoopInv
<1> QED
  BY InitInv, <1>1, PTL DEF Spec

(* The members of EventLoop stay within their types.                       *)
THEOREM TypeCorrect == Spec => []TypeOK
<1>1. LoopInv => TypeOK
  BY DEF LoopInv
<1> QED
  BY LoopInvariant, <1>1, PTL

(* queueInLoop and doPendingTasks together lose, repeat and reorder no     *)
(* task, for any number of threads and tasks.                              *)
THEOREM TasksAreInOrderOnce == Spec => []TasksInOrderOnce
<1>1. LoopInv => TasksInOrderOnce
  BY DEF LoopInv
<1> QED
  BY LoopInvariant, <1>1, PTL

(* The wake-up protocol of queueInLoop, handleRead and doPendingTasks      *)
(* never leaves the loop blocked over a task queued during loop() or by    *)
(* another thread.                                                         *)
THEOREM WakeupIsNeverLost == Spec => []NoLostWakeup
<1>1. LoopInv => NoLostWakeup
  BY DEF LoopInv
<1> QED
  BY LoopInvariant, <1>1, PTL

(* Only doPendingTasks fills the batch and it runs between batches: a      *)
(* batch that is being run only gets shorter.                              *)
THEOREM BatchesNeverGrow == Spec => BatchNeverGrows
<1> DEFINE Shrinks == (pc \in {"tasks", "task"}) => Len(tasks') <= Len(tasks)
<1>1. ASSUME TypeOK, [Next]_vars PROVE [Shrinks]_vars
  <2>1. ASSUME tasks' = tasks PROVE Shrinks
    BY <1>1, <2>1 DEF TypeOK
  <2>2. CASE runTask
    BY <1>1, <2>2 DEF runTask, TypeOK
  <2>3. CASE doPendingTasks
    BY <2>3 DEF doPendingTasks, AllHandled
  <2>4. ASSUME Next, ~runTask, ~doPendingTasks PROVE tasks' = tasks
    BY <2>4 DEF Next, LoopStep, Call, queueInLoop, runInLoop, queueInLoopWake, quit,
       quitWake, loop, loopTest, poll, pollFails, handleEvents, handleRead,
       callbackReturns, taskReturns, tasksDone, fdReady, loopVars
  <2> QED
    BY <1>1, <2>1, <2>2, <2>3, <2>4
<1>2. LoopInv => TypeOK
  BY DEF LoopInv
<1> QED
  BY LoopInvariant, <1>1, <1>2, PTL DEF Spec, BatchNeverGrows

(* Every behaviour of EventLoop is one of the abstract FIFO: a push        *)
(* submits, the start of a task executes the oldest one, and the swap and  *)
(* all other steps change nothing that TaskQueue sees.                     *)
THEOREM ImplementsTaskQueue == Spec => RefinesTaskQueue
<1> DEFINE q == tasks \o pendingTasks_
<1>1. Init => TQ!Init
  BY DEF Init, TQ!Init
<1>2. ASSUME LoopInv, [Next]_vars PROVE [TQ!Next]_<<q, executed>>
  <2> USE <1>2 DEF LoopInv, TypeOK
  <2>1. ASSUME NEW th \in Threads, NEW t \in Tasks, queueInLoop(th, t) PROVE TQ!Submit(t)
    <3>1. tasks \o Append(pendingTasks_, t) = Append(q, t)
      OBVIOUS
    <3> QED
      BY <2>1, <3>1 DEF queueInLoop, loopVars, TQ!Submit
  <2>2. CASE runTask
    <3>1. q # <<>> /\ Head(q) = Head(tasks) /\ Tail(q) = Tail(tasks) \o pendingTasks_
      BY <2>2 DEF runTask
    <3> QED
      BY <2>2, <3>1 DEF runTask, TQ!Next, TQ!Execute
  <2>3. CASE doPendingTasks
    <3>1. tasks = <<>>
      BY <2>3 DEF doPendingTasks, AllHandled, BatchShape
    <3>2. pendingTasks_ \o <<>> = q
      BY <3>1
    <3> QED
      BY <2>3, <3>2 DEF doPendingTasks, AllHandled, Swapped, histVars
  <2>4. ASSUME Next, ~runTask, ~doPendingTasks,
               \A th \in Threads, t \in Tasks : ~queueInLoop(th, t)
        PROVE  UNCHANGED <<tasks, pendingTasks_, executed>>
    BY <2>4 DEF Next, LoopStep, Call, runInLoop, queueInLoopWake, quit, quitWake,
       loop, loopTest, poll, pollFails, handleEvents, handleRead, callbackReturns,
       taskReturns, tasksDone, fdReady, loopVars, histVars
  <2>5. CASE UNCHANGED vars
    BY <2>5 DEF vars, loopVars, histVars
  <2>6. ASSUME NEW th \in Threads, NEW t \in Tasks, queueInLoop(th, t) PROVE TQ!Next
    BY <2>1, <2>6 DEF TQ!Next
  <2> QED
    BY <2>2, <2>3, <2>4, <2>5, <2>6
<1> QED
  BY LoopInvariant, <1>1, <1>2, PTL DEF Spec, RefinesTaskQueue, TQ!Spec
=============================================================================

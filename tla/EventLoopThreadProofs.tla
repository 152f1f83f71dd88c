----------------------- MODULE EventLoopThreadProofs -----------------------
(***************************************************************************)
(* Proofs about EventLoopThread, for any tasks and channels: it uses its   *)
(* EventLoop by the rules, and startLoop returns a loop that runs.         *)
(***************************************************************************)
EXTENDS EventLoopThread, EventLoopProofs

(* Every step of the owner and of the thread is a step of EventLoop, or    *)
(* none of it.                                                             *)
LEMMA ThreadSteps == [ThreadNext]_allVars => [Next]_vars
<1> SUFFICES ASSUME [ThreadNext]_allVars PROVE [Next]_vars
  OBVIOUS
<1> USE OwnerAssumption
<1>1. CASE ownerCalls
  BY <1>1 DEF ownerCalls, Next, Call
<1>2. CASE OwnerStep
  BY <1>2 DEF OwnerStep, latchWait, startLoopReturns, destructorQuits, destructorWakes, join,
     Next, Call
<1>3. CASE ThreadStep
  BY <1>3 DEF ThreadStep, construct, publish, latchCount, enterLoop, clearLoop, destroyLoop, Next
<1>4. CASE loopRuns
  BY <1>4 DEF loopRuns, Next
<1>5. CASE startLoop \/ destructor \/ Finished \/ UNCHANGED allVars
  BY <1>5 DEF startLoop, destructor, Finished, allVars
<1> QED
  BY <1>1, <1>2, <1>3, <1>4, <1>5 DEF ThreadNext

(* What EventLoop promises holds for the loop of an EventLoopThread.       *)
THEOREM ThreadImplementsLoop == ThreadSpec => Spec
<1>1. ThreadInit => Init
  BY DEF ThreadInit
<1> QED
  BY <1>1, ThreadSteps, PTL DEF ThreadSpec, Spec
-----------------------------------------------------------------------------
(* Nobody has the pointer yet, so the loop has nothing to do and no reason *)
(* to end.                                                                 *)
Quiet == /\ ~quit_ /\ pendingTasks_ = <<>> /\ tasks = <<>> /\ readyfds = {}
         /\ activeChannels_ \subseteq {Wakeup} /\ call[LoopThread] = "none"
         /\ pc \in {"user", "loop", "poll", "dispatch", "tasks"}
         /\ tpc = "running" => pc # "user"

(* The order of the thread's stores: object, pointer, latch.               *)
Published == /\ tpc \in {"none", "construct", "publish", "count", "enter", "running"}
             /\ latch_ = IF tpc \in {"enter", "running"} THEN 0 ELSE 1
             /\ tpc \in {"publish", "count", "enter", "running"} => alive
             /\ tpc \in {"count", "enter", "running"} => loop_

StartInv == /\ opc \in {"new", "wait", "asleep", "returning"} => Quiet /\ Published
            /\ opc = "new" => tpc = "none"
            /\ opc = "returning" => latch_ = 0

(* Until startLoop returns, the loop goes round without running anything.  *)
LEMMA QuietLoop ==
  ASSUME Quiet, loopRuns, opc \in {"wait", "asleep", "returning"}
  PROVE  Quiet'
<1> USE DEF Quiet
<1>1. CASE loopTest
  BY <1>1 DEF loopTest, loopRuns, threadVars
<1>2. CASE poll
  BY <1>2 DEF poll, Ready, loopRuns, threadVars
<1>3. CASE handleRead
  BY <1>3 DEF handleRead, loopRuns, threadVars
<1>4. CASE doPendingTasks
  BY <1>4 DEF doPendingTasks, Swapped, loopRuns, threadVars
<1>5. CASE tasksDone
  BY <1>5 DEF tasksDone, loopRuns, threadVars
<1>6. CASE pollFails
  BY <1>6 DEF pollFails, loopRuns, threadVars
<1>7. ~runTask /\ (\A c \in Channels : ~handleEvents(c)) /\ ~callbackReturns /\ ~taskReturns
  BY DEF runTask, handleEvents, callbackReturns, taskReturns
<1>8. ~Call(LoopThread)
  BY DEF loopRuns, Call, queueInLoop, runInLoop, queueInLoopWake, quit, quitWake, CanCall,
     InUserCode, isInLoopThread
<1> QED
  BY <1>1, <1>2, <1>3, <1>4, <1>5, <1>6, <1>7, <1>8 DEF loopRuns, LoopStep

LEMMA StartStep == StartInv /\ [ThreadNext]_allVars => StartInv'
<1> SUFFICES ASSUME StartInv, [ThreadNext]_allVars PROVE StartInv'
  OBVIOUS
<1> USE DEF StartInv, Published
<1>1. CASE startLoop
  BY <1>1 DEF startLoop, Quiet, vars, loopVars, histVars
<1>2. CASE latchWait
  BY <1>2 DEF latchWait, Quiet, vars, loopVars, histVars
<1>3. CASE startLoopReturns \/ ownerCalls \/ destructor \/ destructorQuits \/ destructorWakes \/ join
  BY <1>3 DEF startLoopReturns, ownerCalls, destructor, destructorQuits, destructorWakes, join,
     threadVars
<1>4. CASE construct \/ publish
  BY <1>4 DEF construct, publish, Quiet, vars, loopVars, histVars
<1>5. CASE latchCount
  BY <1>5 DEF latchCount, Quiet, vars, loopVars, histVars
<1>6. CASE enterLoop
  BY <1>6 DEF enterLoop, loop, Quiet
<1>7. CASE clearLoop \/ destroyLoop
  BY <1>7 DEF clearLoop, destroyLoop, Quiet
<1>8. CASE loopRuns
  <2>1. opc' = opc /\ tpc' = tpc /\ latch_' = latch_ /\ alive' = alive /\ loop_' = loop_
    BY <1>8 DEF loopRuns, threadVars
  <2>2. opc # "new"
    BY <1>8 DEF loopRuns
  <2> QED
    BY <1>8, <2>1, <2>2, QuietLoop
<1>9. CASE Finished \/ UNCHANGED allVars
  BY <1>9 DEF Finished, allVars, threadVars, Quiet, vars, loopVars, histVars
<1> QED
  BY <1>1, <1>2, <1>3, <1>4, <1>5, <1>6, <1>7, <1>8, <1>9 DEF ThreadNext, OwnerStep, ThreadStep

(* EventLoopThread::startLoop: the latch orders the stores of the new      *)
(* thread before the return, and the loop cannot end before somebody has   *)
(* the pointer.                                                            *)
THEOREM StartLoopIsSafe == ThreadSpec => []StartLoopReturnsLoop
<1>1. ThreadInit => StartInv
  BY OwnerAssumption DEF ThreadInit, Init, StartInv, Quiet, Published
<1>2. StartInv => StartLoopReturnsLoop
  BY DEF StartInv, Published, StartLoopReturnsLoop
<1> QED
  BY <1>1, <1>2, StartStep, PTL DEF ThreadSpec
=============================================================================

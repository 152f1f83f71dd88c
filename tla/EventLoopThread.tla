-------------------------- MODULE EventLoopThread --------------------------
(***************************************************************************)
(* EventLoopThread (EventLoopThread.cc) with CountDownLatch, around the    *)
(* whole of EventLoop: an owner thread starts a thread whose function      *)
(* keeps an EventLoop on its stack, publishes its address, signals the     *)
(* latch and runs loop(); the owner's destructor calls quit() through the  *)
(* published pointer and joins.  LoopThread is the started thread.         *)
(***************************************************************************)
EXTENDS EventLoop

CONSTANT Owner          \* the thread that owns the EventLoopThread

ASSUME OwnerAssumption == Threads = {Owner, LoopThread} /\ Owner # LoopThread

VARIABLES started_,
          loop_,        \* TRUE: the address of the loop; FALSE: nullptr
          latch_,       \* count_ of the latch
          alive,        \* the EventLoop object on the thread's stack exists
          tpc,          \* where the thread function runInThread is
          opc           \* where the owner is

threadVars == <<started_, loop_, latch_, alive, tpc, opc>>
allVars == <<vars, threadVars>>

ThreadInit == /\ Init
              /\ started_ = FALSE /\ loop_ = FALSE /\ latch_ = 1 /\ alive = FALSE
              /\ tpc = "none" /\ opc = "new"
-----------------------------------------------------------------------------
(* The owner.                                                              *)

(* startLoop up to latch_.wait().                                          *)
startLoop == /\ opc = "new"
             /\ started_' = TRUE
             /\ tpc' = "construct"
             /\ opc' = "wait"
             /\ UNCHANGED <<vars, loop_, latch_, alive>>

(* CountDownLatch::wait: sleep on cond_ while count_ > 0.                  *)
latchWait == /\ opc = "wait"
             /\ opc' = IF latch_ > 0 THEN "asleep" ELSE "returning"
             /\ UNCHANGED <<vars, started_, loop_, latch_, alive, tpc>>

(* startLoop returns loop_ and the owner may use it from now on.           *)
startLoopReturns == /\ opc = "returning"
                    /\ opc' = "user"
                    /\ UNCHANGED <<vars, started_, loop_, latch_, alive, tpc>>

(* The owner queues work through the pointer it was given.                 *)
ownerCalls == /\ opc = "user"
              /\ \/ \E t \in Tasks : queueInLoop(Owner, t)
                 \/ queueInLoopWake(Owner)
              /\ UNCHANGED threadVars

(* ~EventLoopThread: the two tests, then quit() in its two steps, then     *)
(* join().                                                                 *)
destructor == /\ opc \in {"new", "user"} /\ call[Owner] = "none"
              /\ opc' = IF ~started_ THEN "joined" ELSE IF loop_ THEN "quit" ELSE "join"
              /\ UNCHANGED <<vars, started_, loop_, latch_, alive, tpc>>

destructorQuits == /\ opc = "quit"
                   /\ quit(Owner)
                   /\ opc' = "wakeup"
                   /\ UNCHANGED <<started_, loop_, latch_, alive, tpc>>

destructorWakes == /\ opc = "wakeup"
                   /\ quitWake(Owner)
                   /\ opc' = "join"
                   /\ UNCHANGED <<started_, loop_, latch_, alive, tpc>>

join == /\ opc = "join" /\ tpc = "done"
        /\ opc' = "joined"
        /\ UNCHANGED <<vars, started_, loop_, latch_, alive, tpc>>
-----------------------------------------------------------------------------
(* The thread function.                                                    *)

construct == /\ tpc = "construct"
             /\ alive' = TRUE
             /\ tpc' = "publish"
             /\ UNCHANGED <<vars, started_, loop_, latch_, opc>>

(* Variant: the latch is signalled before the pointer is stored.           *)
CountThenPublish == \/ /\ tpc = "publish"
                       /\ latch_' = 0
                       /\ opc' = IF opc = "asleep" THEN "wait" ELSE opc
                       /\ tpc' = "count"
                       /\ UNCHANGED <<vars, started_, loop_, alive>>
                    \/ /\ tpc = "count"
                       /\ loop_' = TRUE
                       /\ tpc' = "enter"
                       /\ UNCHANGED <<vars, started_, latch_, alive, opc>>

publish == /\ tpc = "publish"
           /\ loop_' = TRUE
           /\ tpc' = "count"
           /\ UNCHANGED <<vars, started_, latch_, alive, opc>>

(* CountDownLatch::count: the last count wakes whoever sleeps.             *)
latchCount == /\ tpc = "count"
              /\ latch_' = latch_ - 1
              /\ opc' = IF opc = "asleep" /\ latch_' <= 0 THEN "wait" ELSE opc
              /\ tpc' = "enter"
              /\ UNCHANGED <<vars, started_, loop_, alive>>

enterLoop == /\ tpc = "enter"
             /\ loop
             /\ tpc' = "running"
             /\ UNCHANGED <<started_, loop_, latch_, alive, opc>>

(* loop() runs: its own steps, what tasks and callbacks call in it, and    *)
(* the descriptors that become ready meanwhile.  Channels are registered   *)
(* by those who have the pointer, so not before startLoop returned it.     *)
loopRuns == /\ tpc = "running" /\ pc # "user"
            /\ \/ LoopStep \/ pollFails \/ callbackReturns \/ taskReturns
               \/ Call(LoopThread)
               \/ /\ opc \notin {"wait", "asleep", "returning"}
                  /\ \E c \in Channels : fdReady(c)
            /\ UNCHANGED threadVars

(* loop() has returned: loop_ = nullptr, then the stack frame goes.        *)
clearLoop == /\ tpc = "running" /\ pc = "user"
             /\ loop_' = FALSE
             /\ tpc' = "destroy"
             /\ UNCHANGED <<vars, started_, latch_, alive, opc>>

destroyLoop == /\ tpc = "destroy"
               /\ alive' = FALSE
               /\ tpc' = "done"
               /\ UNCHANGED <<vars, started_, loop_, latch_, opc>>

ThreadStep == construct \/ publish \/ latchCount \/ enterLoop \/ clearLoop \/ destroyLoop
OwnerStep == latchWait \/ startLoopReturns \/ destructorQuits \/ destructorWakes \/ join

(* The owner is done and so is the thread, if there ever was one.          *)
Finished == opc = "joined" /\ tpc \in {"none", "done"} /\ UNCHANGED allVars

ThreadNext == \/ startLoop \/ ownerCalls \/ destructor \/ OwnerStep
              \/ ThreadStep \/ loopRuns \/ Finished

(* Both threads are scheduled and leave the functions they are in; the     *)
(* loop is fair as in EventLoop.  The owner need not start or destroy.     *)
ThreadFairness == /\ WF_allVars(ThreadStep) /\ WF_allVars(OwnerStep)
                  /\ WF_allVars(loopRuns /\ LoopStep) /\ SF_allVars(loopRuns /\ poll)
                  /\ SF_allVars(loopRuns /\ callbackReturns)
                  /\ SF_allVars(loopRuns /\ taskReturns)
                  /\ WF_allVars(loopRuns /\ (queueInLoopWake(LoopThread) \/ quitWake(LoopThread)))
                  /\ WF_allVars(ownerCalls /\ queueInLoopWake(Owner))

ThreadSpec == ThreadInit /\ [][ThreadNext]_allVars /\ ThreadFairness
-----------------------------------------------------------------------------
(* When startLoop is about to return, the pointer it returns is set and    *)
(* the object behind it exists (the assertion at the end of startLoop):    *)
(* the latch orders the other thread's stores before the return.           *)
StartLoopReturnsLoop == opc = "returning" => loop_ /\ alive

(* A destructor that runs once the thread is inside loop() comes back:     *)
(* quit() ends the loop, the thread function returns and join() succeeds.  *)
DestructorJoinsRunningLoop ==
  (opc = "quit" /\ tpc = "running" /\ pc # "user") ~> opc = "joined"

(* EventLoopThread.cc:38 on loop.loop(): "the loop stops when the          *)
(* EventLoopThread is destroyed".  The destructor must therefore come back *)
(* wherever the started thread is when quit() is called.                   *)
DestructorStopsLoop == opc \in {"quit", "join"} ~> opc = "joined"
=============================================================================

----------------------------- MODULE EventLoop -----------------------------
(***************************************************************************)
(* EventLoop (EventLoop.cc) with EPollPoller::poll: one thread runs loop() *)
(* and every thread may call queueInLoop, runInLoop and quit.  A call by   *)
(* another thread touches shared state twice - the push under mutex_ (or   *)
(* the store to quit_) and then the write to wakeupfd_ - and the loop      *)
(* thread may take any number of steps in between.                         *)
(*                                                                         *)
(* Tasks and channel callbacks are user code: while one runs, the loop     *)
(* thread may itself call the three operations any number of times.        *)
(***************************************************************************)
EXTENDS Naturals, Sequences, FiniteSets, Functions

CONSTANTS Threads,      \* the threads that hold a pointer to the loop
          LoopThread,   \* tid_, the thread the loop was constructed in
          Tasks,        \* the closures that may be submitted
          Channels,     \* channels in the poller other than wakeupChannel_
          Wakeup,       \* wakeupChannel_
          InitEvents,   \* events_.size() at construction (128 in the code)
          EventfdMax    \* largest value of an eventfd counter

ASSUME ThreadsAssumption == LoopThread \in Threads
ASSUME ChannelsAssumption == Wakeup \notin Channels
ASSUME BoundsAssumption == InitEvents \in Nat \ {0} /\ EventfdMax \in Nat \ {0}

VARIABLES quit_, doingPendingTasks_, pendingTasks_, activeChannels_,
          tasks,        \* the local vector of doPendingTasks
          eventsSize,   \* events_.size() of the poller
          wakeupfd,     \* the counter behind wakeupfd_
          readyfds,     \* the channels of Channels whose descriptor is ready
          pc,           \* where the loop thread is
          call,         \* the call each thread is in the middle of
          submitted,    \* history: tasks pushed by queueInLoop, in order
          executed,     \* history: tasks taken off the queue and started
          inlined,      \* history: tasks that runInLoop ran on the spot
          early         \* history: tasks the loop thread queued outside loop()

loopVars == <<quit_, doingPendingTasks_, activeChannels_, tasks, eventsSize, pc>>
histVars == <<submitted, executed, inlined, early>>
vars == <<loopVars, pendingTasks_, wakeupfd, readyfds, call, histVars>>

-----------------------------------------------------------------------------
(* pc = "user": outside loop(); "loop": at the while test; "poll": in      *)
(* epoll_wait; "dispatch": between two handleEvents; "callback": inside    *)
(* the callback of a channel; "tasks": between two tasks of the batch;     *)
(* "task": inside a task.                                                  *)
InUserCode == {"user", "callback", "task"}
LoopPoints == InUserCode \cup {"loop", "poll", "dispatch", "tasks"}

(* call[th] = "queue": th pushed a task and has not yet reached the end of *)
(* queueInLoop; "quit": th stored quit_ and has not left quit() yet.       *)
CanCall(th) == /\ call[th] = "none"
               /\ th = LoopThread => pc \in InUserCode

isInLoopThread(th) == th = LoopThread

(* write(wakeupfd_): a non-blocking eventfd refuses to pass its maximum    *)
(* and the code only logs that.                                            *)
wakeup == wakeupfd' = IF wakeupfd < EventfdMax THEN wakeupfd + 1 ELSE wakeupfd

Fresh(t) == t \notin Range(submitted) \cup inlined

Init == /\ quit_ = FALSE /\ doingPendingTasks_ = FALSE
        /\ pendingTasks_ = <<>> /\ tasks = <<>> /\ activeChannels_ = {}
        /\ eventsSize = InitEvents /\ wakeupfd = 0 /\ readyfds = {}
        /\ pc = "user" /\ call = [th \in Threads |-> "none"]
        /\ submitted = <<>> /\ executed = <<>> /\ inlined = {} /\ early = {}
-----------------------------------------------------------------------------
(* Calls, by any thread.                                                   *)

(* queueInLoop up to the unlock.                                           *)
queueInLoop(th, t) ==
  /\ CanCall(th) /\ Fresh(t)
  /\ pendingTasks_' = Append(pendingTasks_, t)
  /\ call' = [call EXCEPT ![th] = "queue"]
  /\ submitted' = Append(submitted, t)
  /\ early' = IF isInLoopThread(th) /\ pc = "user" THEN early \cup {t} ELSE early
  /\ UNCHANGED <<loopVars, wakeupfd, readyfds, executed, inlined>>

(* queueInLoop wakes the loop unless the caller is the loop thread and     *)
(* will reach doPendingTasks by itself.  Variant: only for other threads.  *)
WakeOthersOnly(th) == ~isInLoopThread(th)
QueueWakes(th) == ~isInLoopThread(th) \/ doingPendingTasks_

(* The rest of queueInLoop.                                                *)
queueInLoopWake(th) ==
  /\ call[th] = "queue"
  /\ call' = [call EXCEPT ![th] = "none"]
  /\ IF QueueWakes(th) THEN wakeup ELSE UNCHANGED wakeupfd
  /\ UNCHANGED <<loopVars, pendingTasks_, readyfds, histVars>>

(* runInLoop: on the loop thread the task runs before the call returns.    *)
runInLoop(th, t) ==
  IF isInLoopThread(th)
  THEN /\ CanCall(th) /\ Fresh(t)
       /\ inlined' = inlined \cup {t}
       /\ UNCHANGED <<loopVars, pendingTasks_, wakeupfd, readyfds, call,
                      submitted, executed, early>>
  ELSE queueInLoop(th, t)

(* quit() up to the store.                                                 *)
quit(th) ==
  /\ CanCall(th)
  /\ quit_' = TRUE
  /\ call' = [call EXCEPT ![th] = "quit"]
  /\ UNCHANGED <<doingPendingTasks_, activeChannels_, tasks, eventsSize, pc,
                 pendingTasks_, wakeupfd, readyfds, histVars>>

(* Variant: quit() relies on the next event to end epoll_wait.             *)
QuitWithoutWakeup(th) == FALSE
QuitWakes(th) == ~isInLoopThread(th)

(* The rest of quit().                                                     *)
quitWake(th) ==
  /\ call[th] = "quit"
  /\ call' = [call EXCEPT ![th] = "none"]
  /\ IF QuitWakes(th) THEN wakeup ELSE UNCHANGED wakeupfd
  /\ UNCHANGED <<loopVars, pendingTasks_, readyfds, histVars>>
-----------------------------------------------------------------------------
(* Steps of the loop thread.                                               *)

(* loop() is called (again): quit_ is reset.                               *)
loop ==
  /\ pc = "user" /\ call[LoopThread] = "none"
  /\ quit_' = FALSE
  /\ pc' = "loop"
  /\ UNCHANGED <<doingPendingTasks_, activeChannels_, tasks, eventsSize,
                 pendingTasks_, wakeupfd, readyfds, call, histVars>>

(* while (!quit_): leave, or clear activeChannels_ and enter epoll_wait.   *)
loopTest ==
  /\ pc = "loop"
  /\ IF quit_ THEN pc' = "user" /\ UNCHANGED activeChannels_
              ELSE pc' = "poll" /\ activeChannels_' = {}
  /\ UNCHANGED <<quit_, doingPendingTasks_, tasks, eventsSize,
                 pendingTasks_, wakeupfd, readyfds, call, histVars>>

Ready == readyfds \cup (IF wakeupfd > 0 THEN {Wakeup} ELSE {})

(* A full events_ is doubled.  Variant: it is not.                         *)
FixedArray(n) == eventsSize
Enlarged(n) == IF n = eventsSize THEN 2 * eventsSize ELSE eventsSize

(* epoll_wait returns some of the ready channels, at most events_.size()   *)
(* of them, in an order the code does not control (hence a set).           *)
poll ==
  /\ pc = "poll"
  /\ \E active \in SUBSET Ready \ {{}} :
       /\ Cardinality(active) =
            IF Cardinality(Ready) < eventsSize THEN Cardinality(Ready) ELSE eventsSize
       /\ activeChannels_' = active
       /\ eventsSize' = Enlarged(Cardinality(active))
  /\ pc' = "dispatch"
  /\ UNCHANGED <<quit_, doingPendingTasks_, tasks, pendingTasks_, wakeupfd,
                 readyfds, call, histVars>>

(* epoll_wait fails, with EINTR or otherwise: no channel is active.        *)
pollFails ==
  /\ pc = "poll"
  /\ pc' = "dispatch"
  /\ UNCHANGED <<quit_, doingPendingTasks_, activeChannels_, tasks, eventsSize,
                 pendingTasks_, wakeupfd, readyfds, call, histVars>>

(* handleEvents of an active channel other than wakeupChannel_: its        *)
(* callback starts and consumes what made the descriptor ready.            *)
handleEvents(c) ==
  /\ pc = "dispatch" /\ c \in activeChannels_ \ {Wakeup}
  /\ activeChannels_' = activeChannels_ \ {c}
  /\ readyfds' = readyfds \ {c}
  /\ pc' = "callback"
  /\ UNCHANGED <<quit_, doingPendingTasks_, tasks, eventsSize, pendingTasks_,
                 wakeupfd, call, histVars>>

(* handleRead, the callback of wakeupChannel_: one read empties the eventfd. *)
handleRead ==
  /\ pc = "dispatch" /\ Wakeup \in activeChannels_
  /\ activeChannels_' = activeChannels_ \ {Wakeup}
  /\ wakeupfd' = 0
  /\ UNCHANGED <<quit_, doingPendingTasks_, tasks, eventsSize, pc, pendingTasks_,
                 readyfds, call, histVars>>

callbackReturns ==
  /\ pc = "callback" /\ call[LoopThread] = "none"
  /\ pc' = "dispatch"
  /\ UNCHANGED <<quit_, doingPendingTasks_, activeChannels_, tasks, eventsSize,
                 pendingTasks_, wakeupfd, readyfds, call, histVars>>

(* The dispatch is over.  Variant: the queue is taken again after each     *)
(* batch until it is empty.                                                *)
TakeUntilEmpty ==
  \/ pc = "dispatch" /\ activeChannels_ = {}
  \/ pc = "tasks" /\ tasks = <<>> /\ pendingTasks_ # <<>>
AllHandled == pc = "dispatch" /\ activeChannels_ = {}

(* What the swap leaves in the queue.  Variant: the queue is copied.       *)
CopyTasks == pendingTasks_
Swapped == <<>>

(* doPendingTasks up to the for loop.  Only the loop thread's own calls    *)
(* depend on doingPendingTasks_, and it makes none here, so the swap and   *)
(* the store are one step.                                                 *)
doPendingTasks ==
  /\ AllHandled
  /\ tasks' = pendingTasks_
  /\ pendingTasks_' = Swapped
  /\ doingPendingTasks_' = TRUE
  /\ pc' = "tasks"
  /\ UNCHANGED <<quit_, activeChannels_, eventsSize, wakeupfd, readyfds, call,
                 histVars>>

runTask ==
  /\ pc = "tasks" /\ tasks # <<>>
  /\ tasks' = Tail(tasks)
  /\ executed' = Append(executed, Head(tasks))
  /\ pc' = "task"
  /\ UNCHANGED <<quit_, doingPendingTasks_, activeChannels_, eventsSize,
                 pendingTasks_, wakeupfd, readyfds, call, submitted, inlined, early>>

taskReturns ==
  /\ pc = "task" /\ call[LoopThread] = "none"
  /\ pc' = "tasks"
  /\ UNCHANGED <<quit_, doingPendingTasks_, activeChannels_, tasks, eventsSize,
                 pendingTasks_, wakeupfd, readyfds, call, histVars>>

tasksDone ==
  /\ pc = "tasks" /\ tasks = <<>>
  /\ doingPendingTasks_' = FALSE
  /\ pc' = "loop"
  /\ UNCHANGED <<quit_, activeChannels_, tasks, eventsSize, pendingTasks_,
                 wakeupfd, readyfds, call, histVars>>

(* The kernel: a descriptor becomes ready (a timer expires, data arrives). *)
fdReady(c) ==
  /\ c \notin readyfds
  /\ readyfds' = readyfds \cup {c}
  /\ UNCHANGED <<loopVars, pendingTasks_, wakeupfd, call, histVars>>
-----------------------------------------------------------------------------
Call(th) == \/ \E t \in Tasks : queueInLoop(th, t) \/ runInLoop(th, t)
            \/ queueInLoopWake(th) \/ quit(th) \/ quitWake(th)

LoopStep == \/ loopTest \/ poll \/ handleRead \/ doPendingTasks \/ runTask
            \/ tasksDone \/ \E c \in Channels : handleEvents(c)

Next == \/ LoopStep \/ loop \/ pollFails \/ callbackReturns \/ taskReturns
        \/ \E th \in Threads : Call(th)
        \/ \E c \in Channels : fdReady(c)

Spec == Init /\ [][Next]_vars

(* The scheduler runs the loop thread and lets a thread that is inside a   *)
(* call finish it; callbacks and tasks return, and epoll_wait with ready   *)
(* descriptors is not interrupted every single time.  Nobody has to call   *)
(* anything, no descriptor has to become ready and no signal has to come.  *)
Fairness == /\ WF_vars(LoopStep) /\ SF_vars(poll)
            /\ SF_vars(callbackReturns) /\ SF_vars(taskReturns)
            /\ \A th \in Threads : WF_vars(queueInLoopWake(th)) /\ WF_vars(quitWake(th))

FairSpec == Spec /\ Fairness
-----------------------------------------------------------------------------
TypeOK == /\ quit_ \in BOOLEAN /\ doingPendingTasks_ \in BOOLEAN
          /\ pendingTasks_ \in Seq(Tasks) /\ tasks \in Seq(Tasks)
          /\ activeChannels_ \subseteq Channels \cup {Wakeup}
          /\ eventsSize \in Nat \ {0} /\ wakeupfd \in 0..EventfdMax
          /\ readyfds \subseteq Channels
          /\ pc \in LoopPoints
          /\ call \in [Threads -> {"none", "queue", "quit"}]
          /\ submitted \in Seq(Tasks) /\ executed \in Seq(Tasks)
          /\ inlined \subseteq Tasks /\ early \subseteq Tasks

(* Every task given to queueInLoop is started exactly once, in the order   *)
(* of the pushes, or is still waiting: the swap in doPendingTasks neither  *)
(* loses nor repeats a task that arrives while a batch is taken or run.    *)
TasksInOrderOnce == submitted = executed \o tasks \o pendingTasks_

(* A call that is going to write wakeupfd_.                                *)
WakeupComing == \E th \in Threads :
                  call[th] = "queue" /\ QueueWakes(th)

(* The loop never blocks in epoll_wait over a non-empty queue: whenever a  *)
(* task is pending past the last chance of the iteration, wakeupfd_ is     *)
(* readable or a thread is on its way to make it so (queueInLoop against   *)
(* handleRead and the swap).  The tasks in early are left out: the loop    *)
(* thread queued them outside loop(), where queueInLoop wakes nobody.      *)
NoLostWakeup ==
  /\ pc \notin {"dispatch", "callback"}
  /\ ~(Range(pendingTasks_) \subseteq early)
  => wakeupfd > 0 \/ WakeupComing

(* A task queued while a batch runs waits for the next iteration, so that  *)
(* tasks that queue tasks cannot keep doPendingTasks from returning to     *)
(* epoll_wait.                                                             *)
BatchNeverGrows == [][(pc \in {"tasks", "task"}) => Len(tasks') <= Len(tasks)]_vars

(* Whatever the interleaving, a task queued by queueInLoop (other than the *)
(* ones of early) is started or loop() returns.                            *)
QueuedTaskStarts ==
  \A t \in Tasks : (t \in Range(pendingTasks_) \ early /\ pc # "user")
                     ~> (t \in Range(executed) \/ pc = "user")

(* quit() during loop() makes loop() return, even if it is blocked in      *)
(* epoll_wait with nothing to do.                                          *)
QuitHonoured == (quit_ /\ pc # "user") ~> pc = "user"

(* No ready channel waits for ever behind others although epoll_wait       *)
(* reports at most events_.size() of them: poll doubles a full array.      *)
ReadyChannelServed ==
  \A c \in Channels : (c \in readyfds /\ pc # "user") ~> (c \notin readyfds \/ pc = "user")

(* EventLoop implements the abstract queue: the batch followed by the      *)
(* pending tasks is the queue.                                             *)
TQ == INSTANCE TaskQueue WITH queue <- tasks \o pendingTasks_
RefinesTaskQueue == TQ!Spec
=============================================================================

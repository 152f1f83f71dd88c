----------------------------- MODULE TimerQueue -----------------------------
(***************************************************************************)
(* TimerQueue (TimerQueue.cc) with Timer, on its loop: timers are added    *)
(* and cancelled by the loop thread on the spot and by other threads       *)
(* through the task queue; one timerfd is armed for the earliest of them.  *)
(*                                                                         *)
(* Times are in ticks of 1 ms and relative to the present: a tick moves    *)
(* every time one down, and <= 0 is past.  A Timer* is an element of       *)
(* Timers; heap is the set of those that exist, and a deleted one may be   *)
(* allocated again.                                                        *)
(***************************************************************************)
EXTENDS Integers, Sequences, FiniteSets, FiniteSetsExt

CONSTANTS Timers,
          Interval,          \* interval_ of each timer, 0 for a one-shot
          MaxDelay,          \* bound on the delay a timer is added with
          MaxLate,           \* bound on how late the loop can be, in ticks
          None

ASSUME TimesAssumption == /\ Interval \in [Timers -> Nat]
                          /\ MaxDelay \in Nat /\ MaxLate \in Nat \ {0}
ASSUME NoneAssumption == None \notin Timers /\ None \notin Int

VARIABLES timers_,           \* the set of <<when, timer>>
          when_, canceled_,  \* of each timer
          heap,              \* the timers that exist
          byLoop,            \* the timers the loop thread added
          asked,             \* the timers cancelTimer was called with
          armed,             \* expiry of timerfd_, None when disarmed
          pendingTasks_, tasks,
          lpc,               \* phase of the loop: "poll", "dispatch", "tasks"
          active,            \* timerChannel_ waits in activeChannels_
          hpc,               \* handleRead: "none", "batch", "callback"
          batch,             \* what getExpired returned and is still to do
          running            \* the timer the for loop of handleRead is at

queueVars == <<pendingTasks_, tasks>>
handleVars == <<active, hpc, batch, running>>
timerVars == <<timers_, when_, canceled_, heap, armed>>
vars == <<timerVars, byLoop, asked, queueVars, lpc, handleVars>>

Init == /\ timers_ = {} /\ when_ = [t \in Timers |-> 0]
        /\ canceled_ = [t \in Timers |-> FALSE] /\ heap = {} /\ byLoop = {}
        /\ asked = {} /\ armed = None /\ pendingTasks_ = <<>> /\ tasks = <<>>
        /\ lpc = "poll" /\ active = FALSE /\ hpc = "none" /\ batch = {}
        /\ running = None

(* timerfdSet: durationFromNow never gives less than a millisecond.        *)
(* Variant: it does, and a time that has passed disarms the timerfd.       *)
TimerfdSetRaw(when) == IF when <= 0 THEN None ELSE when
timerfdSet(when) == Max({when, 1})

Earliest(entries) == Min({e[1] : e \in entries})
Expired == armed # None /\ armed <= 0
-----------------------------------------------------------------------------
(* The two closures that addTimer and cancelTimer run in the loop thread.  *)

(* Insert; a timer that became the first in timers_ re-arms timerfd_.      *)
(* Among equal times the address decides which is first.                   *)
insert(t) ==
  /\ timers_' = timers_ \cup {<<when_'[t], t>>}
  /\ \/ /\ \A e \in timers_ : when_'[t] <= e[1]
        /\ armed' = timerfdSet(when_'[t])
     \/ /\ \E e \in timers_ : when_'[t] >= e[1]
        /\ UNCHANGED armed

(* timers_.erase.  Variant: the entry stays.                               *)
NotErased(t) == timers_
Erased(t) == timers_ \ {<<when_[t], t>>}

cancel(t) ==
  /\ canceled_' = [canceled_ EXCEPT ![t] = TRUE]
  /\ timers_' = Erased(t)
  /\ heap' = heap \ {t}
  /\ UNCHANGED <<when_, armed>>

(* new Timer.                                                              *)
New(t, delay) ==
  /\ t \notin heap
  /\ heap' = heap \cup {t}
  /\ when_' = [when_ EXCEPT ![t] = delay]
  /\ canceled_' = [canceled_ EXCEPT ![t] = FALSE]
  /\ asked' = asked \ {t}
-----------------------------------------------------------------------------
(* Calls.  User code runs in the loop thread inside timer callbacks, the   *)
(* callbacks of other channels and tasks.                                  *)
InUserCode == hpc = "callback" \/ (lpc # "poll" /\ hpc = "none")

addTimer(t, delay) ==
  /\ InUserCode
  /\ New(t, delay)
  /\ insert(t)
  /\ byLoop' = byLoop \cup {t}
  /\ UNCHANGED <<queueVars, lpc, handleVars>>

(* Cancelling is for repeating timers: a one-shot may be gone by then.     *)
(* It is done once, by the side that added the timer, and not inside the   *)
(* callback of a timer, where the Timer deleted may be one of the batch.   *)
MayCancel(t) == t \in heap /\ Interval[t] > 0 /\ t \notin asked

cancelTimer(t) ==
  /\ InUserCode /\ hpc = "none" /\ MayCancel(t) /\ t \in byLoop
  /\ asked' = asked \cup {t}
  /\ cancel(t)
  /\ UNCHANGED <<byLoop, queueVars, lpc, handleVars>>

(* The same from another thread: the closure is queued.                    *)
otherAddTimer(t, delay) ==
  /\ New(t, delay)
  /\ pendingTasks_' = Append(pendingTasks_, [op |-> "insert", timer |-> t])
  /\ byLoop' = byLoop \ {t}
  /\ UNCHANGED <<timers_, armed, tasks, lpc, handleVars>>

otherCancelTimer(t) ==
  /\ MayCancel(t) /\ t \notin byLoop
  /\ asked' = asked \cup {t}
  /\ pendingTasks_' = Append(pendingTasks_, [op |-> "cancel", timer |-> t])
  /\ UNCHANGED <<timerVars, byLoop, tasks, lpc, handleVars>>
-----------------------------------------------------------------------------
(* The loop.                                                               *)
poll ==
  /\ lpc = "poll"
  /\ lpc' = "dispatch"
  /\ active' = Expired
  /\ UNCHANGED <<timerVars, byLoop, asked, queueVars, hpc, batch, running>>

getExpired == {e \in timers_ : e[1] <= 0}

(* handleRead up to its for loop; reading an expired timerfd disarms it.   *)
handleRead ==
  /\ lpc = "dispatch" /\ active /\ hpc = "none"
  /\ active' = FALSE
  /\ armed' = IF Expired THEN None ELSE armed
  /\ batch' = getExpired
  /\ timers_' = timers_ \ getExpired
  /\ hpc' = "batch"
  /\ UNCHANGED <<when_, canceled_, heap, byLoop, asked, queueVars, lpc, running>>

(* The next entry, earliest first: its callback.  The test of canceled()   *)
(* never fails: a timer that was cancelled has been deleted as well.       *)
run ==
  /\ hpc = "batch"
  /\ \E e \in batch : /\ \A f \in batch : e[1] <= f[1]
                      /\ batch' = batch \ {e}
                      /\ running' = e[2]
  /\ hpc' = "callback"
  /\ UNCHANGED <<timerVars, byLoop, asked, queueVars, lpc, active>>

(* After the callback: restart and reinsert, or delete.                    *)
restart(t) ==
  IF ~canceled_[t] /\ Interval[t] > 0
  THEN /\ when_' = [when_ EXCEPT ![t] = @ + Interval[t]]
       /\ timers_' = timers_ \cup {<<when_'[t], t>>}
       /\ UNCHANGED heap
  ELSE /\ heap' = heap \ {t}
       /\ UNCHANGED <<when_, timers_>>

callbackReturns ==
  /\ hpc = "callback"
  /\ restart(running)
  /\ running' = None
  /\ hpc' = "batch"
  /\ UNCHANGED <<canceled_, armed, byLoop, asked, queueVars, lpc, active, batch>>

(* The end of handleRead arms the timerfd again.  Variant: it does not.    *)
LeftDisarmed == armed
Rearmed == IF timers_ # {} THEN timerfdSet(Earliest(timers_)) ELSE armed

handleReadReturns ==
  /\ hpc = "batch" /\ batch = {}
  /\ armed' = Rearmed
  /\ hpc' = "none"
  /\ UNCHANGED <<timers_, when_, canceled_, heap, byLoop, asked, queueVars, lpc,
                 active, batch, running>>

doPendingTasks ==
  /\ lpc = "dispatch" /\ ~active /\ hpc = "none"
  /\ tasks' = pendingTasks_
  /\ pendingTasks_' = <<>>
  /\ lpc' = "tasks"
  /\ UNCHANGED <<timerVars, byLoop, asked, handleVars>>

runTask ==
  /\ lpc = "tasks" /\ tasks # <<>>
  /\ tasks' = Tail(tasks)
  /\ IF Head(tasks).op = "insert"
     THEN /\ UNCHANGED <<when_, canceled_, heap>>
          /\ insert(Head(tasks).timer)
     ELSE cancel(Head(tasks).timer)
  /\ UNCHANGED <<byLoop, asked, pendingTasks_, lpc, handleVars>>

tasksDone ==
  /\ lpc = "tasks" /\ tasks = <<>>
  /\ lpc' = "poll"
  /\ UNCHANGED <<timerVars, byLoop, asked, queueVars, handleVars>>

(* A millisecond passes.  With a timer MaxLate late already, only if the   *)
(* loop has to wait for timerfd_, and MaxLate stands for more then: the    *)
(* loop is not held up without limit.                                      *)
Sooner(time) == IF time = -MaxLate THEN time ELSE time - 1
Later(entries) == {<<Sooner(e[1]), e[2]>> : e \in entries}
tick ==
  /\ (armed = None \/ armed <= 0) => \A t \in heap : when_[t] > -MaxLate
  /\ timers_' = Later(timers_)
  /\ batch' = Later(batch)
  /\ when_' = [t \in Timers |-> IF t \in heap THEN Sooner(when_[t]) ELSE when_[t]]
  /\ armed' = IF armed = None \/ armed = 0 THEN armed ELSE armed - 1
  /\ UNCHANGED <<canceled_, heap, byLoop, asked, queueVars, lpc, active, hpc, running>>
-----------------------------------------------------------------------------
LoopStep == \/ poll \/ handleRead \/ run \/ callbackReturns \/ handleReadReturns
            \/ doPendingTasks \/ runTask \/ tasksDone

Next == \/ LoopStep \/ tick
        \/ \E t \in Timers : \/ \E delay \in 0..MaxDelay : addTimer(t, delay) \/ otherAddTimer(t, delay)
                             \/ cancelTimer(t) \/ otherCancelTimer(t)

Spec == Init /\ [][Next]_vars

-----------------------------------------------------------------------------
Queued == {tasks[i] : i \in DOMAIN tasks}
            \cup {pendingTasks_[i] : i \in DOMAIN pendingTasks_}

(* The timers that the queue will still reach.                             *)
Reachable == {e[2] : e \in timers_ \cup batch} \cup ({running} \ {None})
               \cup {task.timer : task \in {q \in Queued : q.op = "insert"}}

(* Timers are neither leaked nor used after deletion: the Timer objects    *)
(* that exist are exactly those in timers_, in the batch of handleRead, in *)
(* its current iteration, or on their way into timers_ - whichever side    *)
(* adds and cancels, and whatever expires in between.                      *)
TimersOwned == heap = Reachable

(* Outside handleRead timerfd_ is armed for the earliest timer, at the     *)
(* latest a millisecond from now, also after the timer it was armed for    *)
(* has been cancelled and after callbacks have added timers.               *)
ArmedForEarliest ==
  (hpc = "none" /\ timers_ # {}) => armed # None /\ armed <= Max({Earliest(timers_), 1})

(* TimerQueue.cc:127 on the else branch of handleRead: "it has been        *)
(* cancelled, just discard it".  The timer tested there, and those of the  *)
(* batch still to be tested, must therefore exist, cancelled or not.       *)
BatchTimersExist == {e[2] : e \in batch} \cup ({running} \ {None}) \subseteq heap
=============================================================================

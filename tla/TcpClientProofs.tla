-------------------------- MODULE TcpClientProofs --------------------------
(***************************************************************************)
(* Proofs about TimerQueue, for any timers, delays and intervals, and then *)
(* about TcpClient with its Connector on top of it, for any descriptors,   *)
(* as long as connect() does not return at once (Remote): the server is    *)
(* not on the same machine.  The lemmas about TimerQueue speak of the      *)
(* closures of addTimer and cancelTimer rather than of who calls them, so  *)
(* that the client's steps can use them.                                   *)
(***************************************************************************)
EXTENDS TcpClient, SequenceTheorems, WellFoundedInduction, TLAPS

Task == [op : {"insert", "cancel"}, timer : Timers] \cup {[op |-> "forceClose", timer |-> None]}

(* The batch that is being run and the queue behind it.                    *)
Q == tasks \o pendingTasks_

(* A set of entries has one for t; a queue has a task of that kind for t.  *)
At(entries, t) == \E e \in entries : e[2] = t
Waits(q, op, t) == \E i \in DOMAIN q : q[i].op = op /\ q[i].timer = t

(* No timer is queued for the same twice, nor cancelled before inserted.   *)
Once(q) == \A i, j \in DOMAIN q :
  q[i].op = q[j].op /\ q[i].timer = q[j].timer /\ q[i].timer # None => i = j
InsertFirst(q) == \A i, j \in DOMAIN q :
  q[i].op = "insert" /\ q[j].op = "cancel" /\ q[i].timer = q[j].timer => i < j
-----------------------------------------------------------------------------
(* A queued task inserts or cancels a timer, or closes the connection.     *)
LEMMA TaskShape ==
  ASSUME NEW x \in Task, x.op # "forceClose"
  PROVE  x.op \in {"insert", "cancel"} /\ x.timer \in Timers
BY DEF Task

(* What a push does to a queue.                                            *)
LEMMA PushFacts ==
  ASSUME NEW q \in Seq(Task), NEW x \in Task
  PROVE  /\ Append(q, x) \in Seq(Task)
         /\ \A op, t : Waits(Append(q, x), op, t) <=> Waits(q, op, t) \/ (x.op = op /\ x.timer = t)
         /\ Once(q) /\ (x.timer # None => ~Waits(q, x.op, x.timer)) => Once(Append(q, x))
         /\ InsertFirst(q) /\ (x.op = "insert" => ~Waits(q, "cancel", x.timer))
              => InsertFirst(Append(q, x))
<1> DEFINE r == Append(q, x)
<1>1. /\ r \in Seq(Task) /\ Len(q) \in Nat /\ DOMAIN q = 1..Len(q) /\ DOMAIN r = 1..(Len(q) + 1)
      /\ r[Len(q) + 1] = x /\ \A i \in 1..Len(q) : r[i] = q[i]
  OBVIOUS
<1> HIDE DEF r
<1>2. ASSUME NEW i \in DOMAIN r PROVE (i \in DOMAIN q /\ r[i] = q[i]) \/ (i = Len(q) + 1 /\ r[i] = x)
  BY <1>1
<1>3. /\ Len(q) + 1 \in DOMAIN r /\ r[Len(q) + 1] = x
      /\ \A i \in DOMAIN q : i \in DOMAIN r /\ r[i] = q[i] /\ i < Len(q) + 1 /\ i \in Nat
  BY <1>1
<1>4. ASSUME NEW op, NEW t PROVE Waits(r, op, t) <=> Waits(q, op, t) \/ (x.op = op /\ x.timer = t)
  BY <1>2, <1>3 DEF Waits
<1>5. ASSUME Once(q), x.timer # None => ~Waits(q, x.op, x.timer) PROVE Once(r)
  BY <1>2, <1>3, <1>5 DEF Once, Waits
<1>6. ASSUME InsertFirst(q), x.op = "insert" => ~Waits(q, "cancel", x.timer) PROVE InsertFirst(r)
  <2>1. ASSUME NEW i \in DOMAIN r, NEW j \in DOMAIN r,
               r[i].op = "insert", r[j].op = "cancel", r[i].timer = r[j].timer
        PROVE  i < j
    <3>1. CASE i \in DOMAIN q /\ r[i] = q[i] /\ j \in DOMAIN q /\ r[j] = q[j]
      BY <1>6, <2>1, <3>1 DEF InsertFirst
    <3>2. CASE i \in DOMAIN q /\ r[i] = q[i] /\ j = Len(q) + 1
      BY <1>3, <3>2
    <3>3. CASE i = Len(q) + 1 /\ r[i] = x /\ j \in DOMAIN q /\ r[j] = q[j]
      BY <1>6, <2>1, <3>3 DEF Waits
    <3>4. CASE i = Len(q) + 1 /\ r[i] = x /\ j = Len(q) + 1 /\ r[j] = x
      BY <2>1, <3>4
    <3> QED
      BY <1>2, <3>1, <3>2, <3>3, <3>4
  <2> QED
    BY <2>1 DEF InsertFirst
<1> QED
  BY <1>1, <1>4, <1>5, <1>6 DEF r

(* What taking the first task does to a queue.                             *)
LEMMA PopFacts ==
  ASSUME NEW q \in Seq(Task), q # <<>>
  PROVE  /\ Tail(q) \in Seq(Task) /\ Head(q) \in Task
         /\ \A op, t : Waits(q, op, t) <=> Waits(Tail(q), op, t) \/ (Head(q).op = op /\ Head(q).timer = t)
         /\ Once(q) => /\ Once(Tail(q))
                       /\ Head(q).timer # None => ~Waits(Tail(q), Head(q).op, Head(q).timer)
         /\ InsertFirst(q) => /\ InsertFirst(Tail(q))
                              /\ Head(q).op = "cancel" => ~Waits(q, "insert", Head(q).timer)
<1> DEFINE r == Tail(q)
<1>1. /\ r \in Seq(Task) /\ Len(q) \in Nat \ {0} /\ DOMAIN q = 1..Len(q)
      /\ DOMAIN r = 1..(Len(q) - 1) /\ \A i \in 1..(Len(q) - 1) : r[i] = q[i + 1]
      /\ Head(q) = q[1] /\ q[1] \in Task
  OBVIOUS
<1> HIDE DEF r
<1>2. \A i \in DOMAIN r : i + 1 \in DOMAIN q /\ r[i] = q[i + 1] /\ i + 1 # 1 /\ i \in Nat
  BY <1>1
<1>3. \A i \in DOMAIN q : i \in Nat /\ i >= 1 /\ (i # 1 => i - 1 \in DOMAIN r /\ r[i - 1] = q[i])
  BY <1>1
<1>4. 1 \in DOMAIN q
  BY <1>1
<1>5. ASSUME NEW op, NEW t
      PROVE  Waits(q, op, t) <=> Waits(r, op, t) \/ (Head(q).op = op /\ Head(q).timer = t)
  <2>1. ASSUME Waits(q, op, t) PROVE Waits(r, op, t) \/ (Head(q).op = op /\ Head(q).timer = t)
    <3>1. PICK i \in DOMAIN q : q[i].op = op /\ q[i].timer = t
      BY <2>1 DEF Waits
    <3>2. CASE i = 1
      BY <1>1, <3>1, <3>2
    <3>3. CASE i # 1
      BY <1>3, <3>1, <3>3 DEF Waits
    <3> QED
      BY <3>2, <3>3
  <2>2. ASSUME Waits(r, op, t) PROVE Waits(q, op, t)
    <3>1. PICK i \in DOMAIN r : r[i].op = op /\ r[i].timer = t
      BY <2>2 DEF Waits
    <3> QED
      BY <1>2, <3>1 DEF Waits
  <2>3. ASSUME Head(q).op = op, Head(q).timer = t PROVE Waits(q, op, t)
    BY <1>1, <1>4, <2>3 DEF Waits
  <2> QED
    BY <2>1, <2>2, <2>3
<1>6. ASSUME Once(q) PROVE Once(r)
  <2>1. ASSUME NEW i \in DOMAIN r, NEW j \in DOMAIN r,
               r[i].op = r[j].op, r[i].timer = r[j].timer, r[i].timer # None
        PROVE  i = j
    <3>1. i + 1 = j + 1
      BY <1>2, <1>6, <2>1 DEF Once
    <3> QED
      BY <1>2, <3>1
  <2> QED
    BY <2>1 DEF Once
<1>7. ASSUME Once(q), Head(q).timer # None PROVE ~Waits(r, Head(q).op, Head(q).timer)
  BY <1>1, <1>2, <1>4, <1>7 DEF Once, Waits
<1>8. ASSUME InsertFirst(q) PROVE InsertFirst(r)
  <2>1. ASSUME NEW i \in DOMAIN r, NEW j \in DOMAIN r,
               r[i].op = "insert", r[j].op = "cancel", r[i].timer = r[j].timer
        PROVE  i < j
    <3>1. i + 1 < j + 1
      BY <1>2, <1>8, <2>1 DEF InsertFirst
    <3> QED
      BY <1>2, <3>1
  <2> QED
    BY <2>1 DEF InsertFirst
<1>9. ASSUME InsertFirst(q), Head(q).op = "cancel" PROVE ~Waits(q, "insert", Head(q).timer)
  <2>1. ASSUME NEW i \in DOMAIN q, q[i].op = "insert", q[i].timer = Head(q).timer PROVE FALSE
    <3>1. i < 1
      BY <1>1, <1>4, <1>9, <2>1 DEF InsertFirst
    <3> QED
      BY <1>3, <3>1
  <2> QED
    BY <2>1 DEF Waits
<1> QED
  BY <1>1, <1>5, <1>6, <1>7, <1>8, <1>9 DEF r
-----------------------------------------------------------------------------
Types == /\ timers_ \subseteq Int \X Timers /\ batch \subseteq Int \X Timers
         /\ when_ \in [Timers -> Int] /\ canceled_ \in [Timers -> BOOLEAN]
         /\ heap \subseteq Timers /\ byLoop \subseteq Timers /\ asked \subseteq Timers
         /\ tasks \in Seq(Task) /\ pendingTasks_ \in Seq(Task)
         /\ running \in Timers \cup {None}

(* What the loop can be doing at the same time.                            *)
Phases == /\ hpc \in {"none", "batch", "callback"}
          /\ hpc = "none" => batch = {}
          /\ hpc = "callback" <=> running # None
          /\ hpc # "none" => lpc = "dispatch"
          /\ tasks # <<>> => lpc = "tasks"

(* An entry of timers_ and of the batch has the time of its timer.         *)
Entries == \A e \in timers_ \cup batch : e[1] = when_[e[2]]

(* A timer that exists is in exactly one place, and not cancelled.         *)
Places == \A t \in Timers :
  /\ t \in heap <=> At(timers_, t) \/ At(batch, t) \/ running = t \/ Waits(Q, "insert", t)
  /\ At(timers_, t) => ~At(batch, t) /\ running # t /\ ~Waits(Q, "insert", t)
  /\ At(batch, t) => running # t /\ ~Waits(Q, "insert", t)
  /\ running = t => ~Waits(Q, "insert", t)
  /\ t \in heap => ~canceled_[t]

(* What the queue will do is for timers of other threads, and cancelled is *)
(* one that exists, repeats and was asked for.                             *)
Orders == \A t \in Timers :
  /\ Waits(Q, "insert", t) => t \notin byLoop
  /\ Waits(Q, "cancel", t) => t \in (heap \cap asked) \ byLoop /\ Interval[t] > 0

TimerInv == Types /\ Phases /\ Entries /\ Places /\ Orders /\ Once(Q) /\ InsertFirst(Q)

(* Each timer in its place: none is leaked, none used after deletion.      *)
LEMMA InvOwned == TimerInv => TimersOwned
<1> SUFFICES ASSUME TimerInv PROVE TimersOwned
  OBVIOUS
<1> USE DEF TimerInv, Types
<1>1. \A x : x \in Queued <=> \E i \in DOMAIN Q : Q[i] = x
  <2>1. Len(tasks) \in Nat /\ Len(pendingTasks_) \in Nat
    OBVIOUS
  <2>2. ASSUME NEW i \in DOMAIN tasks PROVE i \in DOMAIN Q /\ Q[i] = tasks[i]
    BY <2>1 DEF Q
  <2>3. ASSUME NEW i \in DOMAIN pendingTasks_
        PROVE  Len(tasks) + i \in DOMAIN Q /\ Q[Len(tasks) + i] = pendingTasks_[i]
    BY <2>1 DEF Q
  <2>4. ASSUME NEW i \in DOMAIN Q
        PROVE  \/ i \in DOMAIN tasks /\ Q[i] = tasks[i]
               \/ i - Len(tasks) \in DOMAIN pendingTasks_ /\ Q[i] = pendingTasks_[i - Len(tasks)]
    BY <2>1 DEF Q
  <2> QED
    BY <2>2, <2>3, <2>4 DEF Queued
<1>2. \A t : t \in {task.timer : task \in {q \in Queued : q.op = "insert"}} <=> Waits(Q, "insert", t)
  BY <1>1 DEF Waits
<1>3. \A t : t \in {e[2] : e \in timers_ \cup batch} <=> At(timers_, t) \/ At(batch, t)
  BY DEF At
<1>4. \A t : At(timers_, t) \/ At(batch, t) => t \in Timers
  BY DEF At
<1>5. \A t : Waits(Q, "insert", t) => t \in Timers
  <2>1. Q \in Seq(Task)
    BY DEF Q
  <2>2. ASSUME NEW i \in DOMAIN Q, Q[i].op = "insert" PROVE Q[i].timer \in Timers
    <3>1. Q[i] \in Task
      BY <2>1
    <3> QED
      BY <2>2, <3>1 DEF Task
  <2> QED
    BY <2>2 DEF Waits
<1>6. \A t : t \in Reachable <=> At(timers_, t) \/ At(batch, t) \/ (t = running /\ t # None)
                                  \/ Waits(Q, "insert", t)
  BY <1>2, <1>3 DEF Reachable
<1>7. \A t : t \in Reachable <=> t \in heap
  BY <1>4, <1>5, <1>6, NoneAssumption DEF Places
<1> QED
  BY <1>7 DEF TimersOwned
-----------------------------------------------------------------------------
(* A step that leaves the work queued for timers as it is.                 *)
SameWork == /\ tasks' = tasks /\ pendingTasks_' \in Seq(Task)
            /\ \A op \in {"insert", "cancel"}, t \in Timers : Waits(Q, op, t)' <=> Waits(Q, op, t)
            /\ Once(Q)' /\ InsertFirst(Q)'

LEMMA QueueLeft == TimerInv /\ UNCHANGED queueVars => SameWork
<1> SUFFICES ASSUME TimerInv, UNCHANGED queueVars PROVE SameWork
  OBVIOUS
<1>1. tasks' = tasks /\ pendingTasks_' = pendingTasks_
  BY DEF queueVars
<1>2. Q' = Q
  BY <1>1 DEF Q
<1> QED
  BY <1>1, <1>2 DEF SameWork, TimerInv, Types, Waits, Once, InsertFirst

(* One more entry.                                                         *)
LEMMA EntryAdded ==
  ASSUME NEW S, NEW time, NEW t
  PROVE  \A u : At(S \cup {<<time, t>>}, u) <=> At(S, u) \/ u = t
<1>1. <<time, t>>[2] = t
  OBVIOUS
<1>2. ASSUME NEW u, At(S, u) \/ u = t PROVE At(S \cup {<<time, t>>}, u)
  BY <1>1, <1>2 DEF At
<1>3. ASSUME NEW u, At(S \cup {<<time, t>>}, u) PROVE At(S, u) \/ u = t
  BY <1>1, <1>3 DEF At
<1> QED
  BY <1>2, <1>3

(* The closure of addTimer, run by the loop thread for a new Timer.        *)
LEMMA AddKeeps ==
  ASSUME TimerInv, NEW t \in Timers, NEW delay \in Int, New(t, delay), insert(t), SameWork,
         byLoop' = byLoop \cup {t}, UNCHANGED <<lpc, handleVars>>
  PROVE  TimerInv'
<1> USE DEF TimerInv
<1>1. /\ t \notin heap /\ heap' = heap \cup {t} /\ when_' = [when_ EXCEPT ![t] = delay]
      /\ canceled_' = [canceled_ EXCEPT ![t] = FALSE] /\ asked' = asked \ {t}
  BY DEF New
<1>2. timers_' = timers_ \cup {<<delay, t>>}
  BY <1>1 DEF insert, Types
<1>3. batch' = batch /\ running' = running /\ hpc' = hpc /\ lpc' = lpc /\ tasks' = tasks
  BY DEF handleVars, SameWork
<1>4. /\ ~At(timers_, t) /\ ~At(batch, t) /\ running # t
      /\ ~Waits(Q, "insert", t) /\ ~Waits(Q, "cancel", t)
  BY <1>1 DEF Places, Orders
<1>5. Types'
  BY <1>1, <1>2, <1>3 DEF Types, SameWork
<1>6. Phases'
  BY <1>3 DEF Phases
<1>7. Entries'
  <2>1. ASSUME NEW e \in timers_ \cup batch PROVE when_'[e[2]] = when_[e[2]]
    BY <1>1, <1>4 DEF At, Types
  <2> QED
    BY <1>1, <1>2, <1>3, <2>1 DEF Entries, Types
<1>8. \A u : At(timers_, u)' <=> At(timers_, u) \/ u = t
  BY <1>2, EntryAdded
<1>9. \A u : At(batch, u)' <=> At(batch, u)
  BY <1>3 DEF At
<1>10. \A u \in Timers : canceled_'[u] = IF u = t THEN FALSE ELSE canceled_[u]
  BY <1>1 DEF Types
<1>11. Places'
  BY <1>1, <1>3, <1>4, <1>8, <1>9, <1>10 DEF Places, SameWork
<1>12. Orders'
  BY <1>1, <1>4 DEF Orders, SameWork
<1> QED
  BY <1>5, <1>6, <1>7, <1>11, <1>12 DEF SameWork

(* The closure of cancelTimer, outside handleRead, for a timer that exists *)
(* and is not about to be inserted: it is in timers_.  Work is the rest of *)
(* the queue.                                                              *)
LEMMA CancelKeeps ==
  ASSUME TimerInv, NEW t \in heap, cancel(t), hpc = "none", ~Waits(Q, "insert", t),
         Types', tasks' # <<>> => lpc = "tasks", UNCHANGED <<byLoop, lpc, handleVars>>,
         asked \subseteq asked',
         \A u \in Timers : /\ Waits(Q, "insert", u)' <=> Waits(Q, "insert", u)
                           /\ Waits(Q, "cancel", u)' => Waits(Q, "cancel", u) /\ u # t,
         Once(Q)', InsertFirst(Q)'
  PROVE  TimerInv'
<1> USE DEF TimerInv
<1>1. /\ canceled_' = [canceled_ EXCEPT ![t] = TRUE] /\ timers_' = timers_ \ {<<when_[t], t>>}
      /\ heap' = heap \ {t} /\ when_' = when_
  BY DEF cancel, Erased
<1>2. batch' = batch /\ running' = running /\ hpc' = hpc /\ lpc' = lpc
  BY DEF handleVars
<1>3. batch = {} /\ running = None /\ t \in Timers
  BY DEF Phases, Types
<1>4. Phases'
  BY <1>2 DEF Phases
<1>5. Entries'
  BY <1>1, <1>2 DEF Entries
<1>6. ASSUME NEW e \in timers_, e[2] = t PROVE e = <<when_[t], t>>
  BY <1>6 DEF Types, Entries
<1>7. \A u \in Timers : At(timers_, u)' <=> At(timers_, u) /\ u # t
  BY <1>1, <1>6 DEF At
<1>8. \A u : ~At(batch, u)'
  BY <1>2, <1>3 DEF At
<1>9. \A u \in Timers : canceled_'[u] = IF u = t THEN TRUE ELSE canceled_[u]
  BY <1>1 DEF Types
<1>10. \A u : ~At(batch, u)
  BY <1>3 DEF At
<1>11. Places'
  BY <1>1, <1>2, <1>3, <1>7, <1>8, <1>9, <1>10, NoneAssumption DEF Places
<1>12. Orders'
  BY <1>1 DEF Orders, Types
<1> QED
  BY <1>4, <1>5, <1>11, <1>12

(* cancelTimer called by the loop thread for a timer that is its own.      *)
LEMMA OwnCancelKeeps ==
  ASSUME TimerInv, NEW t \in heap \cap byLoop, cancel(t), hpc = "none", SameWork,
         asked' = asked \cup {t}, UNCHANGED <<byLoop, lpc, handleVars>>
  PROVE  TimerInv'
<1>1. t \in Timers /\ ~Waits(Q, "insert", t) /\ ~Waits(Q, "cancel", t)
  BY DEF TimerInv, Types, Orders
<1>2. Types'
  BY <1>1 DEF TimerInv, Types, cancel, Erased, SameWork, handleVars
<1>3. tasks' # <<>> => lpc = "tasks"
  BY DEF TimerInv, Phases, SameWork
<1>4. \A u \in Timers : /\ Waits(Q, "insert", u)' <=> Waits(Q, "insert", u)
                        /\ Waits(Q, "cancel", u)' => Waits(Q, "cancel", u) /\ u # t
  BY <1>1 DEF SameWork
<1> QED
  BY <1>1, <1>2, <1>3, <1>4, CancelKeeps DEF SameWork
-----------------------------------------------------------------------------
(* The queue as the steps of the threads see it.                           *)
LEMMA QueueFacts ==
  ASSUME Types
  PROVE  /\ Q \in Seq(Task)
         /\ tasks = <<>> => Q = pendingTasks_
         /\ \A x \in Task : tasks \o Append(pendingTasks_, x) = Append(Q, x)
         /\ tasks # <<>> => /\ Q # <<>> /\ Head(Q) = Head(tasks)
                            /\ Tail(Q) = Tail(tasks) \o pendingTasks_
<1> USE DEF Types, Q
<1>1. Q \in Seq(Task) /\ (tasks = <<>> => Q = pendingTasks_)
  OBVIOUS
<1>2. ASSUME NEW x \in Task PROVE tasks \o Append(pendingTasks_, x) = Append(Q, x)
  OBVIOUS
<1>3. ASSUME tasks # <<>> PROVE Q # <<>> /\ Head(Q) = Head(tasks)
  BY <1>3
<1>4. ASSUME tasks # <<>> PROVE Tail(Q) = Tail(tasks) \o pendingTasks_
  BY <1>4
<1> QED
  BY <1>1, <1>2, <1>3, <1>4

(* addTimer by another thread: a new Timer on its way into timers_.        *)
LEMMA OtherAddKeeps ==
  ASSUME TimerInv, NEW t \in Timers, NEW delay \in Int, otherAddTimer(t, delay)
  PROVE  TimerInv'
<1> USE DEF TimerInv
<1> DEFINE x == [op |-> "insert", timer |-> t]
<1>1. /\ t \notin heap /\ heap' = heap \cup {t} /\ when_' = [when_ EXCEPT ![t] = delay]
      /\ canceled_' = [canceled_ EXCEPT ![t] = FALSE] /\ asked' = asked \ {t}
      /\ byLoop' = byLoop \ {t}
  BY DEF otherAddTimer, New
<1>2. /\ pendingTasks_' = Append(pendingTasks_, x) /\ x \in Task /\ x.op = "insert" /\ x.timer = t
      /\ tasks' = tasks /\ timers_' = timers_ /\ batch' = batch /\ running' = running
      /\ hpc' = hpc /\ lpc' = lpc
  BY DEF otherAddTimer, Task, handleVars
<1> HIDE DEF x
<1>3. /\ ~At(timers_, t) /\ ~At(batch, t) /\ running # t
      /\ ~Waits(Q, "insert", t) /\ ~Waits(Q, "cancel", t)
  BY <1>1 DEF Places, Orders
<1>4. Q' = Append(Q, x)
  BY <1>2, QueueFacts DEF Q
<1>5. /\ Append(Q, x) \in Seq(Task) /\ Once(Append(Q, x)) /\ InsertFirst(Append(Q, x))
      /\ \A op, u : Waits(Append(Q, x), op, u) <=> Waits(Q, op, u) \/ (op = "insert" /\ u = t)
  BY <1>2, <1>3, QueueFacts, PushFacts
<1>6. /\ Once(Q)' /\ InsertFirst(Q)'
      /\ \A op, u : Waits(Q, op, u)' <=> Waits(Q, op, u) \/ (op = "insert" /\ u = t)
  BY <1>4, <1>5
<1>7. Types'
  <2>1. Append(pendingTasks_, x) \in Seq(Task)
    BY <1>2 DEF Types
  <2> QED
    BY <1>1, <1>2, <2>1 DEF Types
<1>8. Phases'
  BY <1>2 DEF Phases
<1>9. Entries'
  <2>1. ASSUME NEW e \in timers_ \cup batch PROVE when_'[e[2]] = when_[e[2]]
    BY <1>1, <1>3 DEF At, Types
  <2> QED
    BY <1>2, <2>1 DEF Entries
<1>10. \A u \in Timers : canceled_'[u] = IF u = t THEN FALSE ELSE canceled_[u]
  BY <1>1 DEF Types
<1>11. \A u : (At(timers_, u)' <=> At(timers_, u)) /\ (At(batch, u)' <=> At(batch, u))
  BY <1>2 DEF At
<1>12. Places'
  BY <1>1, <1>2, <1>3, <1>6, <1>10, <1>11 DEF Places
<1>13. Orders'
  BY <1>1, <1>3, <1>6 DEF Orders
<1> QED
  BY <1>6, <1>7, <1>8, <1>9, <1>12, <1>13

(* cancelTimer by another thread.                                          *)
LEMMA OtherCancelKeeps ==
  ASSUME TimerInv, NEW t \in Timers, otherCancelTimer(t)
  PROVE  TimerInv'
<1> USE DEF TimerInv
<1> DEFINE x == [op |-> "cancel", timer |-> t]
<1>1. /\ t \in heap /\ Interval[t] > 0 /\ t \notin asked /\ t \notin byLoop
      /\ asked' = asked \cup {t}
  BY DEF otherCancelTimer, MayCancel
<1>2. /\ pendingTasks_' = Append(pendingTasks_, x) /\ x \in Task /\ x.op = "cancel" /\ x.timer = t
      /\ tasks' = tasks /\ timers_' = timers_ /\ batch' = batch /\ running' = running
      /\ hpc' = hpc /\ lpc' = lpc /\ heap' = heap /\ when_' = when_ /\ canceled_' = canceled_
      /\ byLoop' = byLoop
  BY DEF otherCancelTimer, Task, handleVars, timerVars
<1> HIDE DEF x
<1>3. ~Waits(Q, "cancel", t)
  BY <1>1 DEF Orders
<1>4. Q' = Append(Q, x)
  BY <1>2, QueueFacts DEF Q
<1>5. /\ Append(Q, x) \in Seq(Task) /\ Once(Append(Q, x)) /\ InsertFirst(Append(Q, x))
      /\ \A op, u : Waits(Append(Q, x), op, u) <=> Waits(Q, op, u) \/ (op = "cancel" /\ u = t)
  BY <1>2, <1>3, QueueFacts, PushFacts
<1>6. /\ Once(Q)' /\ InsertFirst(Q)'
      /\ \A op, u : Waits(Q, op, u)' <=> Waits(Q, op, u) \/ (op = "cancel" /\ u = t)
  BY <1>4, <1>5
<1>7. Types'
  <2>1. Append(pendingTasks_, x) \in Seq(Task)
    BY <1>2 DEF Types
  <2> QED
    BY <1>1, <1>2, <2>1 DEF Types
<1>8. Phases' /\ Entries'
  BY <1>2 DEF Phases, Entries
<1>9. \A u : (At(timers_, u)' <=> At(timers_, u)) /\ (At(batch, u)' <=> At(batch, u))
  BY <1>2 DEF At
<1>10. Places'
  BY <1>2, <1>6, <1>9 DEF Places
<1>11. Orders'
  BY <1>1, <1>2, <1>6 DEF Orders
<1> QED
  BY <1>6, <1>7, <1>8, <1>10, <1>11
-----------------------------------------------------------------------------
(* The steps of the loop and of time.                                      *)

(* handleRead takes the expired timers into its batch.                     *)
LEMMA ReadKeeps == ASSUME TimerInv, handleRead PROVE TimerInv'
<1> USE DEF TimerInv
<1>1. /\ batch' = getExpired /\ timers_' = timers_ \ getExpired /\ hpc' = "batch"
      /\ UNCHANGED <<when_, canceled_, heap, byLoop, asked, lpc, running>>
      /\ lpc = "dispatch" /\ hpc = "none" /\ UNCHANGED queueVars
  BY DEF handleRead
<1>2. SameWork
  BY <1>1, QueueLeft
<1>3. getExpired \subseteq timers_ /\ batch = {} /\ running = None
  BY <1>1 DEF getExpired, Phases
<1>4. Types'
  BY <1>1, <1>2, <1>3 DEF Types, SameWork
<1>5. Phases' /\ Entries'
  BY <1>1, <1>2, <1>3 DEF Phases, Entries, SameWork
<1>6. ASSUME NEW e \in timers_, NEW f \in timers_, e[2] = f[2] PROVE e = f
  BY <1>6 DEF Types, Entries
<1>7. \A u : At(timers_, u) <=> At(timers_, u)' \/ At(batch, u)'
  BY <1>1, <1>3 DEF At
<1>8. \A u : ~(At(timers_, u)' /\ At(batch, u)')
  BY <1>1, <1>3, <1>6 DEF At
<1>9. \A u : ~At(batch, u)
  BY <1>3 DEF At
<1>10. Places'
  BY <1>1, <1>2, <1>3, <1>7, <1>8, <1>9 DEF Places, SameWork
<1>11. Orders'
  BY <1>1, <1>2 DEF Orders, SameWork
<1> QED
  BY <1>2, <1>4, <1>5, <1>10, <1>11 DEF SameWork

(* The next timer of the batch.                                            *)
LEMMA RunKeeps == ASSUME TimerInv, run PROVE TimerInv'
<1> USE DEF TimerInv
<1>1. PICK e \in batch : batch' = batch \ {e} /\ running' = e[2]
  BY DEF run
<1>2. /\ hpc = "batch" /\ hpc' = "callback" /\ UNCHANGED queueVars
      /\ UNCHANGED <<timers_, when_, canceled_, heap, byLoop, asked, lpc>>
  BY DEF run, timerVars
<1>3. SameWork
  BY <1>2, QueueLeft
<1>4. e[2] \in Timers /\ running = None
  BY <1>2 DEF Types, Phases
<1>5. Types'
  BY <1>1, <1>2, <1>3, <1>4 DEF Types, SameWork
<1>6. Phases'
  BY <1>1, <1>2, <1>3, <1>4, NoneAssumption DEF Phases, SameWork
<1>7. Entries'
  BY <1>1, <1>2 DEF Entries
<1>8. ASSUME NEW f \in batch, f[2] = e[2] PROVE f = e
  BY <1>8 DEF Types, Entries
<1>9. \A u : At(batch, u)' <=> At(batch, u) /\ u # e[2]
  BY <1>1, <1>8 DEF At
<1>10. At(batch, e[2]) /\ \A u : At(timers_, u)' <=> At(timers_, u)
  BY <1>2 DEF At
<1>11. Places'
  BY <1>1, <1>2, <1>3, <1>4, <1>9, <1>10, NoneAssumption DEF Places, SameWork
<1>12. Orders'
  BY <1>2, <1>3 DEF Orders, SameWork
<1> QED
  BY <1>3, <1>5, <1>6, <1>7, <1>11, <1>12 DEF SameWork

(* The callback returns: a repeating timer goes back, a one-shot is        *)
(* deleted, and nobody can have asked to cancel that one.                  *)
LEMMA ReturnKeeps == ASSUME TimerInv, callbackReturns PROVE TimerInv'
<1> USE DEF TimerInv
<1> DEFINE t == running
<1>1. /\ hpc = "callback" /\ hpc' = "batch" /\ running' = None /\ UNCHANGED queueVars
      /\ restart(t) /\ UNCHANGED <<canceled_, byLoop, asked, lpc, batch>>
  BY DEF callbackReturns
<1>2. SameWork
  BY <1>1, QueueLeft
<1>3. t \in Timers /\ t # None /\ t \in heap
  BY <1>1 DEF Types, Phases, Places
<1>4. /\ ~At(timers_, t) /\ ~At(batch, t) /\ ~Waits(Q, "insert", t) /\ ~canceled_[t]
  BY <1>3 DEF Places
<1>5. Phases'
  BY <1>1, <1>2 DEF Phases, SameWork
<1>6. CASE Interval[t] > 0
  <2>1. /\ when_' = [when_ EXCEPT ![t] = when_[t] + Interval[t]]
        /\ timers_' = timers_ \cup {<<when_'[t], t>>} /\ heap' = heap
    BY <1>1, <1>4, <1>6 DEF restart
  <2>2. when_' \in [Timers -> Int] /\ when_'[t] \in Int
    <3>1. when_[t] \in Int /\ Interval[t] \in Int
      BY <1>3, TimesAssumption DEF Types
    <3>2. when_[t] + Interval[t] \in Int
      BY <3>1
    <3> QED
      BY <1>3, <2>1, <3>2 DEF Types
  <2>3. Types'
    BY <1>1, <1>2, <1>3, <2>1, <2>2 DEF Types, SameWork
  <2>4. ASSUME NEW e \in timers_ \cup batch PROVE when_'[e[2]] = when_[e[2]]
    BY <1>4, <2>1 DEF At, Types
  <2>5. Entries'
    BY <1>1, <2>1, <2>4 DEF Entries
  <2>6. \A u : At(timers_, u)' <=> At(timers_, u) \/ u = t
    BY <2>1, EntryAdded
  <2>7. \A u : At(batch, u)' <=> At(batch, u)
    BY <1>1 DEF At
  <2>8. Places'
    BY <1>1, <1>2, <1>3, <1>4, <2>1, <2>6, <2>7, NoneAssumption DEF Places, SameWork
  <2>9. Orders'
    BY <1>1, <1>2, <2>1 DEF Orders, SameWork
  <2> QED
    BY <1>2, <1>5, <2>3, <2>5, <2>8, <2>9 DEF SameWork
<1>7. CASE ~(Interval[t] > 0)
  <2>1. heap' = heap \ {t} /\ when_' = when_ /\ timers_' = timers_
    BY <1>1, <1>7 DEF restart
  <2>2. Types' /\ Entries'
    BY <1>1, <1>2, <2>1 DEF Types, Entries, SameWork
  <2>3. \A u : (At(timers_, u)' <=> At(timers_, u)) /\ (At(batch, u)' <=> At(batch, u))
    BY <1>1, <2>1 DEF At
  <2>4. Places'
    BY <1>1, <1>2, <1>3, <1>4, <2>1, <2>3, NoneAssumption DEF Places, SameWork
  <2>5. Orders'
    BY <1>1, <1>2, <1>7, <2>1 DEF Orders, SameWork
  <2> QED
    BY <1>2, <1>5, <2>2, <2>4, <2>5 DEF SameWork
<1> QED
  BY <1>6, <1>7

(* A millisecond: every entry keeps up with its timer.                     *)
LEMMA TickKeeps == ASSUME TimerInv, tick PROVE TimerInv'
<1> USE DEF TimerInv
<1>1. /\ timers_' = Later(timers_) /\ batch' = Later(batch)
      /\ when_' = [t \in Timers |-> IF t \in heap THEN Sooner(when_[t]) ELSE when_[t]]
      /\ UNCHANGED <<canceled_, heap, byLoop, asked, lpc, hpc, running>> /\ UNCHANGED queueVars
  BY DEF tick
<1>2. SameWork
  BY <1>1, QueueLeft
<1>3. \A n \in Int : Sooner(n) \in Int
  BY TimesAssumption DEF Sooner
<1>4. ASSUME NEW S, NEW u PROVE At(Later(S), u) <=> At(S, u)
  <2>1. ASSUME NEW e \in S PROVE <<Sooner(e[1]), e[2]>> \in Later(S) /\ <<Sooner(e[1]), e[2]>>[2] = e[2]
    BY DEF Later
  <2>2. ASSUME NEW f \in Later(S) PROVE \E e \in S : f[2] = e[2]
    BY DEF Later
  <2> QED
    BY <2>1, <2>2 DEF At
<1>5. Types'
  <2>1. when_' \in [Timers -> Int]
    BY <1>1, <1>3 DEF Types
  <2>2. timers_' \subseteq Int \X Timers /\ batch' \subseteq Int \X Timers
    <3>1. ASSUME NEW S, S \subseteq Int \X Timers PROVE Later(S) \subseteq Int \X Timers
      <4>1. ASSUME NEW e \in S PROVE <<Sooner(e[1]), e[2]>> \in Int \X Timers
        <5>1. e[1] \in Int /\ e[2] \in Timers
          BY <3>1
        <5> QED
          BY <1>3, <5>1
      <4> QED
        BY <4>1 DEF Later
    <3> QED
      BY <1>1, <3>1 DEF Types
  <2> QED
    BY <1>1, <1>2, <2>1, <2>2 DEF Types, SameWork
<1>6. Phases'
  BY <1>1, <1>2 DEF Phases, Later, SameWork
<1>7. Entries'
  <2>1. ASSUME NEW e \in (timers_ \cup batch)' PROVE e[1] = when_'[e[2]]
    <3>1. PICK f \in timers_ \cup batch : e = <<Sooner(f[1]), f[2]>>
      BY <1>1, <2>1 DEF Later
    <3>2. f[2] \in Timers /\ f[1] = when_[f[2]] /\ f[2] \in heap
      BY DEF Types, Entries, Places, At
    <3> QED
      BY <1>1, <3>1, <3>2
  <2> QED
    BY <2>1 DEF Entries
<1>8. Places'
  BY <1>1, <1>2, <1>4 DEF Places, SameWork
<1>9. Orders'
  BY <1>1, <1>2 DEF Orders, SameWork
<1> QED
  BY <1>2, <1>5, <1>6, <1>7, <1>8, <1>9 DEF SameWork

(* A task of the queue: the closure of addTimer or of cancelTimer.         *)
LEMMA TaskKeeps == ASSUME TimerInv, runTask, Head(tasks).op # "forceClose" PROVE TimerInv'
<1> USE DEF TimerInv
<1>1. /\ lpc = "tasks" /\ tasks # <<>> /\ tasks' = Tail(tasks) /\ lpc' = "tasks"
      /\ UNCHANGED <<pendingTasks_, byLoop, asked, batch, running, hpc>>
  BY DEF runTask, handleVars
<1>2. /\ Q # <<>> /\ Head(Q) = Head(tasks) /\ Q' = Tail(Q) /\ Q \in Seq(Task)
  <2>1. Tail(Q) = Tail(tasks) \o pendingTasks_ /\ Q # <<>> /\ Head(Q) = Head(tasks) /\ Q \in Seq(Task)
    BY <1>1, QueueFacts
  <2> QED
    BY <1>1, <2>1 DEF Q
<1>3. PICK x \in Task : x = Head(tasks)
  BY <1>2, PopFacts
<1>4. PICK t \in Timers : t = x.timer
  BY <1>3 DEF Task
<1>5. /\ Once(Q)' /\ InsertFirst(Q)' /\ ~Waits(Q, x.op, t)'
      /\ x.op = "cancel" => ~Waits(Q, "insert", t)
      /\ \A op, u : Waits(Q, op, u) <=> Waits(Q, op, u)' \/ (x.op = op /\ t = u)
  <2>1. t # None
    BY NoneAssumption
  <2>2. /\ Once(Tail(Q)) /\ InsertFirst(Tail(Q)) /\ ~Waits(Tail(Q), x.op, t)
        /\ x.op = "cancel" => ~Waits(Q, "insert", t)
        /\ \A op, u : Waits(Q, op, u) <=> Waits(Tail(Q), op, u) \/ (x.op = op /\ t = u)
    BY <1>2, <1>3, <1>4, <2>1, PopFacts
  <2> QED
    BY <1>2, <2>2
<1>6. x.op \in {"insert", "cancel"}
  BY <1>3 DEF Task
<1>7. hpc = "none" /\ batch = {} /\ running = None
  BY <1>1 DEF Phases
<1>8. Tail(tasks) \in Seq(Task)
  BY <1>1 DEF Types
<1>9. CASE x.op = "insert"
  <2>1. insert(t) /\ UNCHANGED <<when_, canceled_, heap>>
    BY <1>3, <1>4, <1>9 DEF runTask
  <2>2. timers_' = timers_ \cup {<<when_[t], t>>}
    BY <2>1 DEF insert
  <2>3. Types'
    BY <1>1, <1>4, <1>8, <2>1, <2>2 DEF Types
  <2>4. Phases'
    BY <1>1 DEF Phases
  <2>5. Entries'
    BY <1>1, <2>1, <2>2 DEF Entries
  <2>6. \A u : At(timers_, u)' <=> At(timers_, u) \/ u = t
    BY <2>2, EntryAdded
  <2>7. \A u : ~At(batch, u) /\ ~At(batch, u)'
    BY <1>1, <1>7 DEF At
  <2>8. ~Waits(Q, "insert", t)' /\ Waits(Q, "insert", t)
    BY <1>5, <1>9
  <2>9. \A u \in Timers : Waits(Q, "insert", u)' <=> Waits(Q, "insert", u) /\ u # t
    BY <1>5, <1>9, <2>8
  <2>10. Places'
    BY <1>1, <1>7, <2>1, <2>6, <2>7, <2>8, <2>9, NoneAssumption DEF Places
  <2>11. Orders'
    BY <1>1, <1>5, <2>1 DEF Orders
  <2> QED
    BY <1>5, <2>3, <2>4, <2>5, <2>10, <2>11
<1>10. CASE x.op = "cancel"
  <2>1. cancel(t)
    BY <1>3, <1>4, <1>10 DEF runTask
  <2>2. Waits(Q, "cancel", t) /\ ~Waits(Q, "cancel", t)' /\ ~Waits(Q, "insert", t)
    BY <1>5, <1>10
  <2>3. t \in heap
    BY <1>4, <2>2 DEF Orders
  <2>4. Types'
    BY <1>1, <1>4, <1>8, <2>1 DEF Types, cancel, Erased
  <2>5. \A u \in Timers : /\ Waits(Q, "insert", u)' <=> Waits(Q, "insert", u)
                          /\ Waits(Q, "cancel", u)' => Waits(Q, "cancel", u) /\ u # t
    BY <1>5, <1>10, <2>2
  <2>6. UNCHANGED <<byLoop, lpc, handleVars>> /\ asked \subseteq asked'
    BY <1>1 DEF runTask
  <2> QED
    BY <1>1, <1>5, <1>7, <2>1, <2>2, <2>3, <2>4, <2>5, <2>6, CancelKeeps
<1> QED
  BY <1>6, <1>9, <1>10

(* The steps of the loop that move nothing but the loop.                   *)
LEMMA TurnKeeps ==
  ASSUME TimerInv, poll \/ handleReadReturns \/ doPendingTasks \/ tasksDone
  PROVE  TimerInv'
<1> USE DEF TimerInv
<1>1. UNCHANGED <<timers_, when_, canceled_, heap, byLoop, asked, batch, running>>
  BY DEF poll, handleReadReturns, doPendingTasks, tasksDone, timerVars, handleVars
<1>2. Q' = Q /\ tasks' \in Seq(Task) /\ pendingTasks_' \in Seq(Task)
  <2>1. CASE doPendingTasks
    <3>1. tasks = <<>> /\ tasks' = pendingTasks_ /\ pendingTasks_' = <<>>
      BY <2>1 DEF doPendingTasks, Phases
    <3>2. pendingTasks_ \o <<>> = Q
      BY <3>1, QueueFacts DEF Types
    <3> QED
      BY <3>1, <3>2 DEF Q, Types
  <2>2. CASE ~doPendingTasks
    BY <2>2 DEF poll, handleReadReturns, tasksDone, queueVars, Q, Types
  <2> QED
    BY <2>1, <2>2
<1>3. Types' /\ Entries'
  BY <1>1, <1>2 DEF Types, Entries
<1>4. Phases'
  BY <1>1 DEF Phases, poll, handleReadReturns, doPendingTasks, tasksDone, handleVars, queueVars
<1>5. Places' /\ Orders' /\ Once(Q)' /\ InsertFirst(Q)'
  BY <1>1, <1>2 DEF Places, Orders, At, Waits, Once, InsertFirst
<1> QED
  BY <1>3, <1>4, <1>5
-----------------------------------------------------------------------------
LEMMA TimerStart == Init => TimerInv
<1> SUFFICES ASSUME Init PROVE TimerInv
  OBVIOUS
<1>1. Q = <<>> /\ \A op, u : ~Waits(<<>>, op, u)
  BY DEF Init, Q, Waits
<1>2. Types /\ Phases /\ Entries
  BY DEF Init, Types, Phases, Entries
<1>3. \A u : ~At({}, u)
  BY DEF At
<1>4. Places /\ Orders
  BY <1>1, <1>3, NoneAssumption DEF Init, Places, Orders
<1>5. Once(Q) /\ InsertFirst(Q)
  BY <1>1 DEF Once, InsertFirst
<1> QED
  BY <1>2, <1>4, <1>5 DEF TimerInv

(* In a program without TcpClients the queue has timer tasks only.         *)
Plain == ~Waits(Q, "forceClose", None)

LEMMA PlainTask == ASSUME TimerInv, Plain, runTask PROVE Head(tasks).op # "forceClose"
<1>1. /\ Q # <<>> /\ Head(Q) = Head(tasks) /\ Q \in Seq(Task)
  BY QueueFacts DEF runTask, TimerInv
<1>2. Head(tasks) \in Task /\ ~(Head(tasks).op = "forceClose" /\ Head(tasks).timer = None)
  BY <1>1, PopFacts DEF Plain
<1>3. PICK x \in Task : x = Head(tasks)
  BY <1>2, Zenon
<1>4. x.op = "forceClose" => x.timer = None
  BY DEF Task
<1> QED
  BY <1>2, <1>3, <1>4

LEMMA PlainStep == TimerInv /\ Plain /\ [Next]_vars => Plain'
<1> SUFFICES ASSUME TimerInv, Plain, [Next]_vars PROVE Plain'
  OBVIOUS
<1> USE DEF TimerInv
<1>1. ASSUME NEW x \in Task, x.op # "forceClose", pendingTasks_' = Append(pendingTasks_, x),
             tasks' = tasks
      PROVE  Plain'
  <2>1. Q' = Append(Q, x)
    BY <1>1, QueueFacts DEF Q
  <2> QED
    BY <1>1, <2>1, QueueFacts, PushFacts DEF Plain
<1>2. ASSUME NEW t \in Timers, NEW delay \in 0..MaxDelay, otherAddTimer(t, delay) PROVE Plain'
  BY <1>1, <1>2 DEF otherAddTimer, Task
<1>3. ASSUME NEW t \in Timers, otherCancelTimer(t) PROVE Plain'
  BY <1>1, <1>3 DEF otherCancelTimer, Task
<1>4. CASE runTask
  <2>1. /\ Q' = Tail(Q) /\ Q # <<>> /\ Q \in Seq(Task)
    BY <1>4, QueueFacts DEF runTask, Q
  <2> QED
    BY <2>1, PopFacts DEF Plain
<1>5. CASE doPendingTasks
  <2>1. tasks = <<>> /\ tasks' = pendingTasks_ /\ pendingTasks_' = <<>>
    BY <1>5 DEF doPendingTasks, Phases
  <2>2. pendingTasks_ \o <<>> = Q
    BY <2>1, QueueFacts DEF Types
  <2> QED
    BY <2>1, <2>2 DEF Q, Plain
<1>6. CASE UNCHANGED queueVars
  BY <1>6 DEF queueVars, Plain, Q, Waits
<1>7. ASSUME ~runTask, ~doPendingTasks, \A t \in Timers : ~otherCancelTimer(t),
             \A t \in Timers, delay \in 0..MaxDelay : ~otherAddTimer(t, delay)
      PROVE  UNCHANGED queueVars
  BY <1>7 DEF Next, LoopStep, vars, poll, handleRead, run, callbackReturns, handleReadReturns,
     tasksDone, tick, addTimer, cancelTimer
<1> QED
  BY <1>2, <1>3, <1>4, <1>5, <1>6, <1>7

LEMMA TimerNext == TimerInv /\ Plain /\ [Next]_vars => TimerInv'
<1> SUFFICES ASSUME TimerInv, Plain, [Next]_vars PROVE TimerInv'
  OBVIOUS
<1>1. ASSUME NEW t \in Timers, NEW delay \in 0..MaxDelay, addTimer(t, delay) PROVE TimerInv'
  BY <1>1, QueueLeft, AddKeeps DEF addTimer
<1>2. ASSUME NEW t \in Timers, NEW delay \in 0..MaxDelay, otherAddTimer(t, delay) PROVE TimerInv'
  BY <1>2, OtherAddKeeps
<1>3. ASSUME NEW t \in Timers, cancelTimer(t) PROVE TimerInv'
  BY <1>3, QueueLeft, OwnCancelKeeps DEF cancelTimer, MayCancel
<1>4. ASSUME NEW t \in Timers, otherCancelTimer(t) PROVE TimerInv'
  BY <1>4, OtherCancelKeeps
<1>5. CASE runTask
  BY <1>5, PlainTask, TaskKeeps
<1>6. CASE LoopStep /\ ~runTask
  BY <1>6, ReadKeeps, RunKeeps, ReturnKeeps, TurnKeeps DEF LoopStep
<1>7. CASE tick
  BY <1>7, TickKeeps
<1>8. CASE UNCHANGED vars
  <2>1. SameWork
    BY <1>8, QueueLeft DEF vars
  <2> QED
    BY <1>8, <2>1 DEF vars, timerVars, queueVars, handleVars, TimerInv, Types, Phases, Entries,
       Places, Orders, At, SameWork
<1> QED
  BY <1>1, <1>2, <1>3, <1>4, <1>5, <1>6, <1>7, <1>8 DEF Next

LEMMA TimerInvariant == Spec => [](TimerInv /\ Plain)
<1>1. Init => Plain
  BY DEF Init, Plain, Q, Waits
<1> QED
  BY <1>1, TimerStart, TimerNext, PlainStep, PTL DEF Spec

-----------------------------------------------------------------------------
(* The earliest of a set of times.  A set of numbers with a lower bound    *)
(* has a least element, because the order of Nat is well-founded.          *)
LEMMA LeastNat == ASSUME NEW S, S \subseteq Nat, S # {} PROVE \E x \in S : \A y \in S : x <= y
<1> DEFINE R == OpToRel(<, Nat)
<1>1. IsWellFoundedOn(R, Nat)
  BY NatLessThanWellFounded
<1>2. \A x, y \in Nat : <<x, y>> \in R <=> x < y
  BY DEF OpToRel
<1> HIDE DEF R
<1>3. PICK x \in S : \A y \in S : ~(<<y, x>> \in R)
  BY <1>1, WFMin
<1>4. \A y \in S : ~(y < x) /\ x \in Nat /\ y \in Nat
  BY <1>2, <1>3
<1>5. \A y \in S : x <= y
  BY <1>4
<1> QED
  BY <1>5

LEMMA LeastInt ==
  ASSUME NEW S, S \subseteq Int, S # {}, NEW low \in Int, \A x \in S : x >= low
  PROVE  Min(S) \in S /\ \A y \in S : Min(S) <= y
<1> DEFINE T == {x - low : x \in S}
<1>1. T \subseteq Nat
  <2>1. \A x \in S : x - low \in Nat
    OBVIOUS
  <2> QED
    BY <2>1
<1>2. T # {}
  OBVIOUS
<1>3. PICK n \in T : \A y \in T : n <= y
  BY <1>1, <1>2, LeastNat
<1>4. PICK x \in S : n = x - low
  OBVIOUS
<1>5. ASSUME NEW y \in S PROVE x <= y
  <2>1. y - low \in T
    OBVIOUS
  <2>2. x - low <= y - low /\ x \in Int /\ y \in Int
    BY <1>3, <1>4, <2>1
  <2> QED
    BY <2>2
<1> QED
  BY <1>5 DEF Min

LEMMA SetFacts ==
  ASSUME NEW when \in Int
  PROVE  /\ timerfdSet(when) \in Nat /\ timerfdSet(when) >= when /\ timerfdSet(when) >= 1
         /\ timerfdSet(when) = when \/ timerfdSet(when) = 1
<1>1. \E x \in {when, 1} : \A y \in {when, 1} : x >= y
  <2>1. CASE when >= 1
    BY <2>1
  <2>2. CASE ~(when >= 1)
    BY <2>2
  <2> QED
    BY <2>1, <2>2
<1>2. PICK x : x = timerfdSet(when)
  OBVIOUS
<1>3. x \in {when, 1} /\ \A y \in {when, 1} : x >= y
  BY <1>1, <1>2 DEF timerfdSet, Max
<1> QED
  BY <1>2, <1>3

(* No timer is later than tick lets it be; outside handleRead the timerfd  *)
(* covers every entry of timers_, and none only if there is no entry.      *)
Covered == \A e \in timers_ : armed # None /\ (armed <= e[1] \/ armed <= 1)
NotTooLate == \A t \in Timers : when_[t] >= -MaxLate
ArmedInv == /\ armed \in Nat \cup {None}
            /\ NotTooLate
            /\ hpc = "none" => Covered

LEMMA InvArmed == TimerInv /\ ArmedInv => ArmedForEarliest
<1> SUFFICES ASSUME TimerInv, ArmedInv, hpc = "none", timers_ # {}
             PROVE  armed # None /\ armed <= Max({Earliest(timers_), 1})
  BY DEF ArmedForEarliest
<1> DEFINE S == {e[1] : e \in timers_}
<1>1. S \subseteq Int /\ S # {} /\ -MaxLate \in Int /\ \A x \in S : x >= -MaxLate
  <2>1. \A e \in timers_ : e[1] \in Int /\ e[1] >= -MaxLate
    BY DEF TimerInv, Types, Entries, ArmedInv, NotTooLate
  <2> QED
    BY <2>1, TimesAssumption
<1>2. Earliest(timers_) \in S
  BY <1>1, LeastInt DEF Earliest
<1>3. PICK e \in timers_ : e[1] = Earliest(timers_)
  BY <1>2
<1>4. armed \in Nat /\ (armed <= e[1] \/ armed <= 1) /\ e[1] \in Int
  BY <1>1 DEF ArmedInv, Covered
<1>5. timerfdSet(e[1]) \in Nat /\ timerfdSet(e[1]) >= e[1] /\ timerfdSet(e[1]) >= 1
  BY <1>4, SetFacts
<1>6. armed <= timerfdSet(e[1])
  BY <1>4, <1>5
<1> QED
  BY <1>3, <1>4, <1>6, NoneAssumption DEF timerfdSet

(* Entering a timer: it becomes the first and the timerfd is set for it,   *)
(* or an entry that is not later is covered already.                       *)
LEMMA InsertArms ==
  ASSUME TimerInv, ArmedInv, NEW t \in Timers, insert(t), when_'[t] \in Int, NotTooLate', hpc' = hpc
  PROVE  ArmedInv'
<1> DEFINE w == when_'[t]
<1>1. timers_' = timers_ \cup {<<w, t>>} /\ \A e \in timers_ : e[1] \in Int
  BY DEF insert, TimerInv, Types
<1> HIDE DEF w
<1>2. w \in Int
  BY DEF w
<1>3. CASE (\A e \in timers_ : w <= e[1]) /\ armed' = timerfdSet(w)
  <2>1. PICK a \in Nat : a = timerfdSet(w) /\ a >= w /\ a >= 1 /\ (a = w \/ a = 1)
    BY <1>2, SetFacts
  <2>2. \A e \in timers_' : a <= e[1] \/ a <= 1
    BY <1>1, <1>2, <1>3, <2>1
  <2> QED
    BY <1>3, <2>1, <2>2, NoneAssumption DEF ArmedInv, Covered
<1>4. CASE (\E e \in timers_ : w >= e[1]) /\ armed' = armed
  <2>1. PICK e \in timers_ : w >= e[1]
    BY <1>4
  <2>2. ASSUME hpc = "none" PROVE Covered'
    <3>1. armed \in Nat /\ (armed <= e[1] \/ armed <= 1) /\ e[1] \in Int
      BY <1>1, <2>2 DEF ArmedInv, Covered
    <3>2. armed <= w \/ armed <= 1
      BY <1>2, <2>1, <3>1
    <3> QED
      BY <1>1, <1>4, <2>2, <3>2 DEF ArmedInv, Covered
  <2> QED
    BY <1>4, <2>2 DEF ArmedInv
<1> QED
  BY <1>3, <1>4 DEF insert, w

(* A step that enters no timer and leaves the timerfd alone.               *)
LEMMA ArmedLeft ==
  ASSUME ArmedInv, timers_' \subseteq timers_, armed' = armed, NotTooLate',
         hpc' = "none" => hpc = "none"
  PROVE  ArmedInv'
BY DEF ArmedInv, Covered

LEMMA WhenKept == ASSUME NotTooLate, when_' = when_ PROVE NotTooLate'
BY DEF NotTooLate

LEMMA NewWhen ==
  ASSUME TimerInv, NotTooLate, NEW t \in Timers, NEW delay \in Nat, New(t, delay)
  PROVE  NotTooLate' /\ when_'[t] = delay
BY TimesAssumption DEF TimerInv, Types, NotTooLate, New

LEMMA CancelArms ==
  ASSUME ArmedInv, NEW t, cancel(t), hpc' = hpc PROVE ArmedInv'
BY ArmedLeft, WhenKept DEF cancel, Erased, ArmedInv

(* A task of the queue.                                                    *)
LEMMA TaskArms ==
  ASSUME TimerInv, ArmedInv, runTask, Head(tasks).op # "forceClose" PROVE ArmedInv'
<1>1. tasks # <<>> /\ Head(tasks) \in Task /\ hpc' = hpc
  BY DEF runTask, TimerInv, Types, handleVars
<1>2. Head(tasks).op \in {"insert", "cancel"} /\ Head(tasks).timer \in Timers
  BY <1>1 DEF Task
<1>3. CASE Head(tasks).op = "insert"
  <2>1. insert(Head(tasks).timer) /\ when_' = when_
    BY <1>3 DEF runTask
  <2>2. when_'[Head(tasks).timer] \in Int /\ NotTooLate'
    BY <1>2, <2>1, WhenKept DEF TimerInv, Types, ArmedInv
  <2> QED
    BY <1>1, <1>2, <2>1, <2>2, InsertArms
<1>4. CASE Head(tasks).op = "cancel"
  BY <1>1, <1>4, CancelArms DEF runTask
<1> QED
  BY <1>2, <1>3, <1>4

(* The steps of the loop; handleRead ends with the timerfd set for the     *)
(* earliest of what is in timers_ by then.                                 *)
LEMMA TurnArms ==
  ASSUME TimerInv, ArmedInv,
         poll \/ handleRead \/ run \/ callbackReturns \/ handleReadReturns \/ doPendingTasks \/ tasksDone
  PROVE  ArmedInv'
<1>1. CASE poll \/ run \/ doPendingTasks \/ tasksDone
  <2>1. UNCHANGED <<timers_, when_, armed>> /\ (hpc' = "none" => hpc = "none")
    BY <1>1 DEF poll, run, doPendingTasks, tasksDone, timerVars, handleVars
  <2> QED
    BY <2>1, ArmedLeft, WhenKept DEF ArmedInv
<1>2. CASE handleRead
  <2>1. hpc' = "batch" /\ armed' \in {armed, None} /\ when_' = when_
    BY <1>2 DEF handleRead
  <2> QED
    BY <2>1, WhenKept DEF ArmedInv
<1>3. CASE callbackReturns
  <2>1. hpc' = "batch" /\ armed' = armed /\ restart(running) /\ running \in Timers
    BY <1>3 DEF callbackReturns, TimerInv, Types, Phases
  <2>2. NotTooLate'
    <3>1. when_' \in {when_, [when_ EXCEPT ![running] = @ + Interval[running]]}
      BY <2>1 DEF restart
    <3>2. ASSUME NEW t \in Timers PROVE when_'[t] >= -MaxLate
      <4>1. /\ when_[t] \in Int /\ when_[t] >= -MaxLate
            /\ Interval[running] \in Nat /\ MaxLate \in Nat
        BY <2>1, TimesAssumption DEF TimerInv, Types, ArmedInv, NotTooLate
      <4>2. when_'[t] = when_[t] \/ when_'[t] = when_[t] + Interval[running]
        BY <2>1, <3>1 DEF TimerInv, Types
      <4> QED
        BY <4>1, <4>2
    <3> QED
      BY <3>2 DEF NotTooLate
  <2> QED
    BY <2>1, <2>2 DEF ArmedInv
<1>4. CASE handleReadReturns
  <2>1. UNCHANGED <<timers_, when_>> /\ armed' = Rearmed
    BY <1>4 DEF handleReadReturns
  <2>2. NotTooLate'
    BY <2>1, WhenKept DEF ArmedInv
  <2>3. CASE timers_ = {}
    BY <2>1, <2>2, <2>3 DEF ArmedInv, Covered, Rearmed
  <2>4. CASE timers_ # {}
    <3> DEFINE S == {e[1] : e \in timers_}
    <3>1. S \subseteq Int /\ S # {} /\ -MaxLate \in Int /\ \A x \in S : x >= -MaxLate
      <4>1. \A e \in timers_ : e[1] \in Int /\ e[1] >= -MaxLate
        BY DEF TimerInv, Types, Entries, ArmedInv, NotTooLate
      <4> QED
        BY <2>4, <4>1, TimesAssumption
    <3>2. PICK w : w = Earliest(timers_)
      OBVIOUS
    <3>3. w \in S /\ \A y \in S : w <= y
      BY <3>1, <3>2, LeastInt DEF Earliest
    <3>4. w \in Int /\ \A e \in timers_ : w <= e[1] /\ e[1] \in Int
      BY <3>1, <3>3
    <3>5. PICK a \in Nat : a = timerfdSet(w) /\ (a = w \/ a = 1)
      BY <3>4, SetFacts
    <3>6. armed' = a
      BY <2>1, <2>4, <3>2, <3>5 DEF Rearmed
    <3>7. \A e \in timers_ : a <= e[1] \/ a <= 1
      BY <3>4, <3>5
    <3> QED
      BY <2>1, <2>2, <3>6, <3>7, NoneAssumption DEF ArmedInv, Covered
  <2> QED
    BY <2>3, <2>4
<1> QED
  BY <1>1, <1>2, <1>3, <1>4

(* A millisecond passes for the timers and the timerfd alike.              *)
LEMMA TickArms == ASSUME TimerInv, ArmedInv, tick PROVE ArmedInv'
<1>1. /\ timers_' = Later(timers_) /\ hpc' = hpc
      /\ when_' = [t \in Timers |-> IF t \in heap THEN Sooner(when_[t]) ELSE when_[t]]
      /\ armed' = IF armed = None \/ armed = 0 THEN armed ELSE armed - 1
  BY DEF tick
<1>2. MaxLate \in Nat /\ when_ \in [Timers -> Int]
  BY TimesAssumption DEF TimerInv, Types
<1>3. NotTooLate'
  <2> SUFFICES ASSUME NEW t \in Timers PROVE when_'[t] >= -MaxLate
    BY DEF NotTooLate
  <2>1. when_[t] \in Int /\ when_[t] >= -MaxLate
    BY <1>2 DEF ArmedInv, NotTooLate
  <2>2. Sooner(when_[t]) >= -MaxLate
    BY <1>2, <2>1 DEF Sooner
  <2> QED
    BY <1>1, <2>1, <2>2
<1>4. armed' \in Nat \cup {None}
  BY <1>1 DEF ArmedInv
<1>5. ASSUME hpc = "none" PROVE Covered'
  <2> SUFFICES ASSUME NEW f \in timers_' PROVE armed' # None /\ (armed' <= f[1] \/ armed' <= 1)
    BY DEF Covered
  <2>1. PICK e \in timers_ : f = <<Sooner(e[1]), e[2]>>
    BY <1>1 DEF Later
  <2>2. armed \in Nat /\ (armed <= e[1] \/ armed <= 1) /\ e[1] \in Int /\ armed # None
    BY <1>5 DEF ArmedInv, Covered, TimerInv, Types
  <2>3. f[1] \in Int /\ f[1] >= e[1] - 1
    BY <1>2, <2>1, <2>2 DEF Sooner
  <2>4. armed' = IF armed = 0 THEN 0 ELSE armed - 1
    BY <1>1, <2>2
  <2>5. armed' \in Nat /\ (armed' <= f[1] \/ armed' <= 1)
    BY <2>2, <2>3, <2>4
  <2> QED
    BY <2>5, NoneAssumption
<1> QED
  BY <1>1, <1>3, <1>4, <1>5 DEF ArmedInv

(* What the rest of the program does, from the loop thread or another one. *)
LEMMA CallArms ==
  ASSUME TimerInv, ArmedInv, NEW t \in Timers,
         \/ \E delay \in 0..MaxDelay : addTimer(t, delay) \/ otherAddTimer(t, delay)
         \/ cancelTimer(t) \/ otherCancelTimer(t)
  PROVE  ArmedInv'
<1>1. ASSUME NEW delay \in 0..MaxDelay, addTimer(t, delay) PROVE ArmedInv'
  <2>1. New(t, delay) /\ insert(t) /\ hpc' = hpc /\ delay \in Nat
    BY <1>1, TimesAssumption DEF addTimer, handleVars
  <2>2. NotTooLate' /\ when_'[t] \in Int
    BY <2>1, NewWhen DEF ArmedInv
  <2> QED
    BY <2>1, <2>2, InsertArms
<1>2. ASSUME NEW delay \in 0..MaxDelay, otherAddTimer(t, delay) PROVE ArmedInv'
  <2>1. New(t, delay) /\ hpc' = hpc /\ delay \in Nat /\ UNCHANGED <<timers_, armed>>
    BY <1>2, TimesAssumption DEF otherAddTimer, handleVars
  <2>2. NotTooLate'
    BY <2>1, NewWhen DEF ArmedInv
  <2> QED
    BY <2>1, <2>2, ArmedLeft
<1>3. CASE cancelTimer(t)
  BY <1>3, CancelArms DEF cancelTimer, handleVars
<1>4. CASE otherCancelTimer(t)
  BY <1>4, ArmedLeft, WhenKept DEF otherCancelTimer, timerVars, handleVars, ArmedInv
<1> QED
  BY <1>1, <1>2, <1>3, <1>4

LEMMA ArmedStart == Init => ArmedInv
BY TimesAssumption DEF Init, ArmedInv, Covered, NotTooLate

LEMMA ArmedNext == TimerInv /\ Plain /\ ArmedInv /\ [Next]_vars => ArmedInv'
<1> SUFFICES ASSUME TimerInv, Plain, ArmedInv, [Next]_vars PROVE ArmedInv'
  OBVIOUS
<1>1. CASE runTask
  BY <1>1, PlainTask, TaskArms
<1>2. CASE UNCHANGED vars
  BY <1>2, ArmedLeft, WhenKept DEF vars, timerVars, handleVars, ArmedInv
<1> QED
  BY <1>1, <1>2, TurnArms, TickArms, CallArms DEF Next, LoopStep

(* addTimer, cancelTimer and handleRead, by whichever thread and in        *)
(* whatever order: the Timers that exist are those that are in timers_, in *)
(* the batch, running, or on their way into timers_.                       *)
THEOREM TimersAreOwned == Spec => []TimersOwned
BY TimerInvariant, InvOwned, PTL

(* handleRead, restart and the test of canceled() never touch a Timer that *)
(* has been deleted, as long as cancelTimer is not called from inside a    *)
(* timer's callback.                                                       *)
THEOREM BatchIsAlive == Spec => []BatchTimersExist
<1>1. TimersOwned => BatchTimersExist
  BY DEF TimersOwned, Reachable, BatchTimersExist
<1> QED
  BY <1>1, TimersAreOwned, PTL

(* Outside handleRead the timerfd is armed for the earliest timer or a     *)
(* millisecond from now: insertions from callbacks and other threads,      *)
(* cancelled timers and the passing of time included.                      *)
THEOREM EarliestIsArmed == Spec => []ArmedForEarliest
<1>1. Spec => []ArmedInv
  BY ArmedStart, ArmedNext, TimerInvariant, PTL DEF Spec
<1> QED
  BY <1>1, TimerInvariant, InvArmed, PTL
-----------------------------------------------------------------------------
(* TcpClient.                                                              *)
Remote == ConnectResults = {"EINPROGRESS"}

Attempts == {"connecting", "established", "refused"}

(* The Connector and the connection: what has been handed over is the      *)
(* connection's, and only a client that has started attempts anything.     *)
Handover ==
  /\ connector_ \in [sockfd : Fds, connected : BOOLEAN, phase : {"new", "handled"} \cup Attempts]
  /\ connection_ \in Fds \cup {None} /\ cpc \in {"new", "started", "destroyed"}
  /\ connected_ \in BOOLEAN /\ connected_ = connector_.connected
  /\ connection_ # None => connected_ /\ connection_ = connector_.sockfd
  /\ connector_.phase \in Attempts => cpc = "started" /\ ~connected_
  /\ ready => connector_.phase \in {"established", "refused"}
  /\ cpc = "new" => ~connected_
  /\ closing # None => cpc = "destroyed" /\ connection_ = None

(* The retry timer: while the client is started and not connected it has   *)
(* one that exists, repeats, is its own and nobody else will cancel.       *)
Retry ==
  /\ retryTimer_ # None => retryTimer_ \in (heap \cap byLoop) \ asked /\ Interval[retryTimer_] > 0
  /\ retryTimer_ # None <=> cpc = "started" /\ ~connected_
  /\ retrying => hpc = "callback" /\ running = retryTimer_

ClientInv == TimerInv /\ Handover /\ Retry /\ SocketsOwned
-----------------------------------------------------------------------------
(* A descriptor that is free: one socket is open at most.                  *)
LEMMA SocketFacts == ASSUME NEW used, NEW fd, used \subseteq {fd}
                     PROVE  Socket(used) \in Fds /\ Socket(used) \notin used
<1>1. Fds \ used # {}
  BY FdsAssumption
<1> QED
  BY <1>1 DEF Socket

LEMMA NoneIsNoFd == None \notin Fds
<1>1. \A fd \in Fds : fd \in Int
  BY FdsAssumption
<1> QED
  BY <1>1, NoneAssumption, Zenon

(* A step of which the timers see at most a forceClose task queued.        *)
LEMMA WorkKept ==
  ASSUME TimerInv, tasks' = tasks,
         pendingTasks_' \in {pendingTasks_, Append(pendingTasks_, [op |-> "forceClose", timer |-> None])}
  PROVE  SameWork
<1> USE DEF TimerInv
<1>1. CASE pendingTasks_' = pendingTasks_
  BY <1>1, QueueLeft DEF queueVars
<1>2. CASE pendingTasks_' = Append(pendingTasks_, [op |-> "forceClose", timer |-> None])
  <2>1. PICK x \in Task : x = [op |-> "forceClose", timer |-> None]
    BY DEF Task
  <2>2. Q' = Append(Q, x) /\ x.op = "forceClose" /\ x.timer = None
    BY <1>2, <2>1, QueueFacts DEF Q
  <2>3. /\ Once(Append(Q, x)) /\ InsertFirst(Append(Q, x))
        /\ \A op \in {"insert", "cancel"}, t \in Timers : Waits(Append(Q, x), op, t) <=> Waits(Q, op, t)
    BY <2>2, QueueFacts, PushFacts
  <2>4. pendingTasks_' \in Seq(Task)
    BY <1>2, <2>1 DEF Types
  <2> QED
    BY <2>2, <2>3, <2>4 DEF SameWork
<1> QED
  BY <1>1, <1>2

LEMMA TimersLeft ==
  ASSUME TimerInv, SameWork, UNCHANGED <<timers_, when_, canceled_, heap, byLoop, asked, lpc, handleVars>>
  PROVE  TimerInv'
BY DEF TimerInv, Types, Phases, Entries, Places, Orders, At, SameWork, handleVars

(* start(): the first attempt and the timer.                               *)
LEMMA StartKeeps == ASSUME ClientInv, start PROVE ClientInv'
<1> USE DEF ClientInv
<1>1. PICK t \in Timers : /\ Interval[t] > 0 /\ New(t, Interval[t]) /\ insert(t)
                          /\ byLoop' = byLoop \cup {t} /\ retryTimer_' = t
  BY DEF start
<1>2. /\ cpc = "new" /\ cpc' = "started" /\ connector_' = [connector_ EXCEPT !.phase = "connecting"]
      /\ UNCHANGED queueVars
      /\ UNCHANGED <<lpc, handleVars, connected_, connection_, retrying, ready, open, closing>>
  BY DEF start, Defined
<1>3. TimerInv'
  BY <1>1, <1>2, QueueLeft, AddKeeps, TimesAssumption
<1>4. retryTimer_ = None /\ ~connected_ /\ connection_ = None /\ ~ready /\ ~retrying
  BY <1>2, NoneAssumption DEF Handover, Retry, Attempts, TimerInv, Phases
<1>5. Handover'
  BY <1>2, <1>4 DEF Handover, Attempts
<1>6. Retry'
  BY <1>1, <1>2, <1>4, NoneAssumption DEF Retry, New
<1>7. SocketsOwned'
  BY <1>2, <1>4 DEF SocketsOwned, Handover
<1> QED
  BY <1>3, <1>5, <1>6, <1>7

(* retry(): the old socket is closed, the new one is the Connector's.      *)
LEMMA RetryKeeps == ASSUME Remote, ClientInv, retry PROVE ClientInv'
<1> USE DEF ClientInv
<1>1. cpc = "started" /\ ~connected_ /\ retryTimer_ # None /\ connection_ = None /\ closing = None
  <2>1. retrying /\ running = retryTimer_ /\ hpc = "callback"
    BY DEF retry, Retry
  <2>2. running # None
    BY <2>1 DEF TimerInv, Phases
  <2> QED
    BY <2>1, <2>2 DEF Retry, Handover
<1>2. open = {connector_.sockfd} /\ ~connector_.connected
  BY <1>1 DEF SocketsOwned, Handover
<1>3. PICK fd : /\ fd = Socket(open) /\ open' = CloseUnlessConnected \cup {fd} /\ ready' = FALSE
                /\ connector_' = Connector(fd, "connecting")
                /\ UNCHANGED <<timerVars, asked, retryTimer_, connected_, connection_>>
  BY <1>1 DEF retry, connectorStart, Remote
<1>4. fd \in Fds /\ fd \notin open
  BY <1>2, <1>3, SocketFacts
<1>5. retrying' = FALSE /\ UNCHANGED <<byLoop, lpc, handleVars, cpc, closing>> /\ UNCHANGED queueVars
  BY DEF retry, Defined
<1>6. TimerInv'
  BY <1>3, <1>5, QueueLeft, TimersLeft DEF timerVars
<1>7. open' = {fd}
  BY <1>2, <1>3 DEF CloseUnlessConnected
<1>8. connector_' = [sockfd |-> fd, connected |-> FALSE, phase |-> "connecting"]
  BY <1>3 DEF Connector
<1>9. Handover'
  <2>1. /\ connected_' = FALSE /\ connection_' = None /\ cpc' = "started" /\ ready' = FALSE
        /\ closing' = None
    BY <1>1, <1>3, <1>5 DEF Handover
  <2> QED
    BY <1>4, <1>8, <2>1 DEF Handover, Attempts
<1>10. Retry'
  BY <1>3, <1>5 DEF Retry, timerVars
<1>11. SocketsOwned'
  <2>1. cpc' = "started" /\ connection_' = None /\ closing' = None
    BY <1>1, <1>3, <1>5 DEF Handover
  <2>2. connector_'.sockfd = fd /\ ~connector_'.connected
    BY <1>8
  <2> QED
    BY <1>7, <2>1, <2>2 DEF SocketsOwned
<1> QED
  BY <1>6, <1>9, <1>10, <1>11

(* handleWrite: the connection is made and the timer cancelled, or the     *)
(* attempt has failed and the timer will repeat it.                        *)
LEMMA WriteKeeps == ASSUME ClientInv, handleWrite PROVE ClientInv'
<1> USE DEF ClientInv
<1>1. /\ ready /\ ready' = FALSE /\ hpc = "none" /\ UNCHANGED queueVars
      /\ connector_' = [connector_ EXCEPT !.phase = "handled", !.connected = ~ConnectFailed]
      /\ UNCHANGED <<byLoop, lpc, handleVars, cpc, retrying, open, closing>>
  BY DEF handleWrite, Defined
<1>2. cpc = "started" /\ ~connected_ /\ connection_ = None /\ retryTimer_ # None /\ closing = None
  BY <1>1 DEF Handover, Attempts, Retry
<1>3. open = {connector_.sockfd} /\ connector_.sockfd \in Fds /\ ~connector_.connected
  BY <1>2 DEF SocketsOwned, Handover
<1>4. ~retrying
  BY <1>1 DEF Retry
<1>5. CASE ConnectFailed
  <2>1. UNCHANGED <<timerVars, asked, retryTimer_, connected_, connection_>>
    BY <1>5 DEF handleWrite
  <2>2. TimerInv'
    BY <1>1, <2>1, QueueLeft, TimersLeft DEF timerVars
  <2>3. /\ connector_'.sockfd = connector_.sockfd /\ ~connector_'.connected /\ connector_'.phase = "handled"
        /\ connector_' \in [sockfd : Fds, connected : BOOLEAN, phase : {"new", "handled"} \cup Attempts]
    BY <1>1, <1>3, <1>5 DEF Handover
  <2>4. Handover'
    BY <1>1, <1>2, <2>1, <2>3 DEF Handover, Attempts
  <2>5. Retry'
    BY <1>1, <1>4, <2>1 DEF Retry, timerVars
  <2>6. SocketsOwned'
    BY <1>1, <1>2, <1>3, <2>1, <2>3 DEF SocketsOwned
  <2> QED
    BY <2>2, <2>4, <2>5, <2>6
<1>6. CASE ~ConnectFailed
  <2>1. /\ cancel(retryTimer_) /\ asked' = asked \cup {retryTimer_} /\ retryTimer_' = None
        /\ connected_' = TRUE /\ connection_' = connector_.sockfd
    BY <1>6 DEF handleWrite, newConnection
  <2>2. TimerInv'
    BY <1>1, <1>2, <2>1, QueueLeft, OwnCancelKeeps DEF Retry
  <2>3. /\ connector_'.sockfd = connector_.sockfd /\ connector_'.connected = TRUE
        /\ connector_'.phase = "handled"
        /\ connector_' \in [sockfd : Fds, connected : BOOLEAN, phase : {"new", "handled"} \cup Attempts]
    BY <1>1, <1>3, <1>6 DEF Handover
  <2>4. Handover'
    BY <1>1, <1>2, <1>3, <2>1, <2>3 DEF Handover, Attempts
  <2>5. Retry'
    BY <1>1, <1>2, <1>4, <2>1 DEF Retry
  <2>6. SocketsOwned'
    BY <1>1, <1>2, <1>3, <2>1, <2>3, NoneIsNoFd DEF SocketsOwned
  <2> QED
    BY <2>2, <2>4, <2>5, <2>6
<1> QED
  BY <1>5, <1>6

(* The end of the connection, while the client exists.                     *)
LEMMA CloseKeeps ==
  ASSUME ClientInv, closeConnection, UNCHANGED <<heap, byLoop, asked, hpc, running, closing>>
  PROVE  Handover' /\ Retry' /\ SocketsOwned'
<1>1. /\ connection_ # None /\ connection_' = None /\ open' = open \ {connection_}
      /\ UNCHANGED <<cpc, connected_, retryTimer_, retrying, connector_, ready>>
  BY DEF closeConnection
<1>2. Handover'
  BY <1>1 DEF ClientInv, Handover
<1>3. Retry'
  BY <1>1 DEF ClientInv, Retry
<1>4. SocketsOwned'
  BY <1>1 DEF ClientInv, Handover, SocketsOwned
<1> QED
  BY <1>2, <1>3, <1>4

(* ~TcpClient: a socket that was not handed over is closed, the timer      *)
(* cancelled; a connection is left to the task.                            *)
LEMMA DestructorKeeps == ASSUME ClientInv, destructor PROVE ClientInv'
<1> USE DEF ClientInv
<1>1. /\ hpc = "none" /\ cpc' = "destroyed" /\ retryTimer_' = None /\ ready' = FALSE
      /\ open' = CloseUnlessConnected /\ connector_' = [connector_ EXCEPT !.phase = "handled"]
      /\ tasks' = tasks /\ cpc \in {"new", "started"} /\ connection_' = None /\ closing' = connection_
      /\ UNCHANGED <<byLoop, lpc, handleVars, connected_, retrying>>
  BY DEF destructor
<1>2. SameWork
  BY <1>1, WorkKept DEF destructor
<1>3. ~retrying
  BY <1>1 DEF Retry
<1>4. TimerInv'
  <2>1. CASE retryTimer_ = None
    BY <1>1, <1>2, <2>1, TimersLeft DEF destructor, timerVars
  <2>2. CASE retryTimer_ # None
    BY <1>1, <1>2, <2>2, OwnCancelKeeps DEF destructor, Retry
  <2> QED
    BY <2>1, <2>2
<1>5. /\ connector_'.sockfd = connector_.sockfd /\ connector_'.connected = connector_.connected
      /\ connector_'.phase = "handled"
      /\ connector_' \in [sockfd : Fds, connected : BOOLEAN, phase : {"new", "handled"} \cup Attempts]
  BY <1>1 DEF Handover
<1>6. Handover'
  BY <1>1, <1>5 DEF Handover, Attempts
<1>7. Retry'
  BY <1>1, <1>3 DEF Retry
<1>8. SocketsOwned'
  <2>1. CASE connected_
    BY <1>1, <2>1 DEF Handover, SocketsOwned, CloseUnlessConnected
  <2>2. CASE ~connected_
    BY <1>1, <2>2 DEF Handover, SocketsOwned, CloseUnlessConnected
  <2> QED
    BY <2>1, <2>2
<1> QED
  BY <1>4, <1>6, <1>7, <1>8

(* The task that ~TcpClient queued.                                        *)
LEMMA ForceCloseKeeps == ASSUME ClientInv, forceCloseInLoop PROVE ClientInv'
<1> USE DEF ClientInv
<1>1. /\ tasks # <<>> /\ Head(tasks).op = "forceClose" /\ tasks' = Tail(tasks) /\ lpc = "tasks"
      /\ UNCHANGED <<timers_, when_, canceled_, heap, byLoop, asked, pendingTasks_, lpc, handleVars>>
  BY DEF forceCloseInLoop, timerVars
<1>2. Q # <<>> /\ Head(Q) = Head(tasks) /\ Q' = Tail(Q) /\ Q \in Seq(Task)
  <2>1. Tail(Q) = Tail(tasks) \o pendingTasks_ /\ Q # <<>> /\ Head(Q) = Head(tasks) /\ Q \in Seq(Task)
    BY <1>1, QueueFacts DEF TimerInv
  <2> QED
    BY <1>1, <2>1 DEF Q
<1>3. /\ Once(Q)' /\ InsertFirst(Q)'
      /\ \A op \in {"insert", "cancel"} : \A u : Waits(Q, op, u)' <=> Waits(Q, op, u)
  <2>1. /\ Once(Tail(Q)) /\ InsertFirst(Tail(Q))
        /\ \A op \in {"insert", "cancel"} : \A u : Waits(Tail(Q), op, u) <=> Waits(Q, op, u)
    BY <1>1, <1>2, PopFacts DEF TimerInv
  <2> QED
    BY <1>2, <2>1
<1>4. Types'
  <2>1. Tail(tasks) \in Seq(Task)
    BY <1>1 DEF TimerInv, Types
  <2> QED
    BY <1>1, <2>1 DEF TimerInv, Types, handleVars
<1>5. Phases' /\ Entries'
  BY <1>1 DEF TimerInv, Phases, Entries, handleVars
<1>6. Places' /\ Orders'
  BY <1>1, <1>3 DEF TimerInv, Places, Orders, At, handleVars
<1>7. TimerInv'
  BY <1>3, <1>4, <1>5, <1>6 DEF TimerInv
<1>8. UNCHANGED <<cpc, connected_, retryTimer_, connection_, retrying, connector_, ready, open, closing>>
  BY DEF forceCloseInLoop, closeDestroyed, memberVars, connectorVars
<1> QED
  BY <1>1, <1>7, <1>8 DEF Handover, Retry, SocketsOwned, handleVars

(* A step of the timers alone that keeps the client's timer and, while     *)
(* retry() is due, the callback it is due in.                              *)
LEMMA ClientLeft ==
  ASSUME ClientInv, TimerInv', UNCHANGED clientVars,
         retryTimer_ # None => retryTimer_ \in (heap' \cap byLoop') \ asked',
         retrying => hpc' = hpc /\ running' = running
  PROVE  ClientInv'
<1>1. UNCHANGED <<cpc, connected_, retryTimer_, connection_, retrying, connector_, ready, open, closing>>
  BY DEF clientVars, memberVars, connectorVars
<1>2. Handover' /\ SocketsOwned'
  BY <1>1 DEF ClientInv, Handover, SocketsOwned
<1>3. Retry'
  BY <1>1 DEF ClientInv, Retry
<1> QED
  BY <1>2, <1>3 DEF ClientInv

(* The loop's steps in TimerQueue.                                         *)
LEMMA TimerStepKeeps == ASSUME ClientInv, TimerStep, UNCHANGED clientVars PROVE ClientInv'
<1> USE DEF ClientInv
<1> DEFINE Kept == retryTimer_ # None => retryTimer_ \in (heap' \cap byLoop') \ asked'
<1>1. CASE handleRead
  <2>1. ~retrying /\ UNCHANGED <<heap, byLoop, asked>>
    BY <1>1 DEF handleRead, Retry
  <2> QED
    BY <1>1, <2>1, ReadKeeps, ClientLeft DEF Retry
<1>2. CASE handleReadReturns \/ tasksDone \/ doPendingTasks
  <2>1. ~retrying /\ UNCHANGED <<heap, byLoop, asked>>
    BY <1>2 DEF handleReadReturns, tasksDone, doPendingTasks, Retry, TimerInv, Phases, timerVars
  <2> QED
    BY <1>2, <2>1, TurnKeeps, ClientLeft DEF Retry
<1>3. CASE callbackReturns /\ ~retrying
  <2>1. UNCHANGED <<byLoop, asked>>
    BY <1>3 DEF callbackReturns
  <2>2. ASSUME retryTimer_ # None PROVE retryTimer_ \in heap'
    <3>1. retryTimer_ \in heap /\ Interval[retryTimer_] > 0 /\ retryTimer_ \in Timers
      BY <2>2 DEF Retry, TimerInv, Types
    <3>2. ~canceled_[retryTimer_]
      BY <3>1 DEF TimerInv, Places
    <3> QED
      BY <1>3, <3>1, <3>2 DEF callbackReturns, restart
  <2> QED
    BY <1>3, <2>1, <2>2, ReturnKeeps, ClientLeft DEF Retry
<1>4. CASE tasks # <<>> /\ Head(tasks).op # "forceClose" /\ runTask
  <2>1. UNCHANGED <<byLoop, asked>> /\ hpc' = hpc /\ running' = running
    BY <1>4 DEF runTask, handleVars
  <2>2. ASSUME retryTimer_ # None PROVE retryTimer_ \in heap'
    <3>1. retryTimer_ \in heap /\ retryTimer_ \notin asked
      BY <2>2 DEF Retry
    <3>2. Head(tasks).op = "insert" => heap' = heap
      BY <1>4 DEF runTask
    <3>3. ASSUME Head(tasks).op = "cancel" PROVE retryTimer_ \in heap'
      <4>1. Q # <<>> /\ Head(Q) = Head(tasks) /\ Q \in Seq(Task)
        BY <1>4, QueueFacts DEF TimerInv
      <4>2. Waits(Q, "cancel", Head(tasks).timer) /\ Head(tasks) \in Task
        BY <3>3, <4>1, PopFacts
      <4>3. Head(tasks).timer \in asked
        <5>1. Head(tasks).timer \in Timers
          BY <1>4, <4>2, TaskShape, Zenon
        <5> QED
          BY <4>2, <5>1 DEF TimerInv, Orders
      <4>4. heap' = heap \ {Head(tasks).timer}
        BY <1>4, <3>3 DEF runTask, cancel
      <4> QED
        BY <3>1, <4>3, <4>4
    <3>4. Head(tasks).op \in {"insert", "cancel"}
      <4>1. Head(tasks) \in Task
        BY <1>4 DEF TimerInv, Types
      <4> QED
        BY <1>4, <4>1, TaskShape, Zenon
    <3> QED
      BY <3>1, <3>2, <3>3, <3>4
  <2> QED
    BY <1>4, <2>1, <2>2, TaskKeeps, ClientLeft DEF Retry
<1> QED
  BY <1>1, <1>2, <1>3, <1>4 DEF TimerStep

(* Time, and the rest of the program with its own timers.                  *)
LEMMA OtherKeeps == ASSUME ClientInv, tick \/ OtherCode, UNCHANGED clientVars PROVE ClientInv'
<1> USE DEF ClientInv
<1>1. CASE tick
  <2>1. UNCHANGED <<heap, byLoop, asked, hpc, running>>
    BY <1>1 DEF tick
  <2> QED
    BY <1>1, <2>1, TickKeeps, ClientLeft DEF Retry
<1>2. ASSUME NEW t \in Timers, NEW delay \in 0..MaxDelay, addTimer(t, delay) PROVE ClientInv'
  <2>1. TimerInv'
    BY <1>2, QueueLeft, AddKeeps DEF addTimer
  <2>2. /\ t \notin heap /\ heap' = heap \cup {t} /\ asked' = asked \ {t} /\ byLoop' = byLoop \cup {t}
        /\ hpc' = hpc /\ running' = running
    BY <1>2 DEF addTimer, New, handleVars
  <2> QED
    BY <2>1, <2>2, ClientLeft DEF Retry
<1>3. ASSUME NEW t \in Timers, NEW delay \in 0..MaxDelay, otherAddTimer(t, delay) PROVE ClientInv'
  <2>1. /\ t \notin heap /\ heap' = heap \cup {t} /\ asked' = asked \ {t} /\ byLoop' = byLoop \ {t}
        /\ hpc' = hpc /\ running' = running
    BY <1>3 DEF otherAddTimer, New, handleVars
  <2>2. TimerInv'
    BY <1>3, OtherAddKeeps
  <2>3. retryTimer_ # None => retryTimer_ \in (heap' \cap byLoop') \ asked'
    BY <2>1 DEF Retry
  <2> QED
    BY <2>1, <2>2, <2>3, ClientLeft
<1>4. ASSUME NEW t \in Timers, cancelTimer(t), ~retrying, t # retryTimer_ PROVE ClientInv'
  <2>1. TimerInv'
    BY <1>4, QueueLeft, OwnCancelKeeps DEF cancelTimer, MayCancel
  <2>2. heap' = heap \ {t} /\ asked' = asked \cup {t} /\ byLoop' = byLoop
    BY <1>4 DEF cancelTimer, cancel
  <2> QED
    BY <1>4, <2>1, <2>2, ClientLeft DEF Retry
<1>5. ASSUME NEW t \in Timers, otherCancelTimer(t) PROVE ClientInv'
  <2>1. /\ t \notin byLoop /\ heap' = heap /\ asked' = asked \cup {t} /\ byLoop' = byLoop
        /\ hpc' = hpc /\ running' = running
    BY <1>5 DEF otherCancelTimer, MayCancel, timerVars, handleVars
  <2> QED
    BY <1>5, <2>1, OtherCancelKeeps, ClientLeft DEF Retry
<1> QED
  BY <1>1, <1>2, <1>3, <1>4, <1>5 DEF OtherCode

(* epoll_wait, which may bring the answer to connect(), and the start of a *)
(* timer's callback, which may be retry().                                 *)
LEMMA PollKeeps == ASSUME ClientInv, NEW result \in Results, clientPoll(result) PROVE ClientInv'
<1> USE DEF ClientInv
<1>1. TimerInv'
  BY TurnKeeps DEF clientPoll
<1>2. UNCHANGED <<heap, byLoop, asked, hpc, running, cpc, connected_, retryTimer_, connection_, retrying,
                  open, closing>>
  BY DEF clientPoll, poll, memberVars, timerVars, Defined
<1>3. CASE connector_.phase = "connecting" /\ result # "none"
  <2>1. connector_' = [connector_ EXCEPT !.phase = result] /\ ready' = TRUE
    BY <1>3 DEF clientPoll
  <2>2. result \in {"established", "refused"}
    BY <1>3 DEF Results
  <2>3. /\ connector_'.sockfd = connector_.sockfd /\ connector_'.connected = connector_.connected
        /\ connector_'.phase = result
        /\ connector_' \in [sockfd : Fds, connected : BOOLEAN, phase : {"new", "handled"} \cup Attempts]
    BY <2>1, <2>2 DEF Handover, Attempts
  <2>4. Handover'
    BY <1>2, <1>3, <2>2, <2>3 DEF Handover, Attempts
  <2>5. Retry' /\ SocketsOwned'
    BY <1>2, <2>3 DEF Retry, SocketsOwned
  <2> QED
    BY <1>1, <2>4, <2>5
<1>4. CASE ~(connector_.phase = "connecting" /\ result # "none")
  <2>1. UNCHANGED <<connector_, ready>>
    BY <1>4 DEF clientPoll
  <2> QED
    BY <1>1, <1>2, <2>1 DEF Handover, Retry, SocketsOwned
<1> QED
  BY <1>3, <1>4

LEMMA ClientRunKeeps == ASSUME ClientInv, clientRun PROVE ClientInv'
<1> USE DEF ClientInv
<1>1. TimerInv'
  BY RunKeeps DEF clientRun
<1>2. /\ UNCHANGED <<heap, byLoop, asked, cpc, connected_, retryTimer_, connection_, connector_, ready, open>>
      /\ hpc' = "callback" /\ retrying' = (running' = retryTimer_) /\ closing' = closing
  BY DEF clientRun, run, memberVars, connectorVars, timerVars, Defined
<1>3. Handover' /\ SocketsOwned'
  BY <1>2 DEF Handover, SocketsOwned
<1>4. Retry'
  BY <1>2 DEF Retry
<1> QED
  BY <1>1, <1>3, <1>4

LEMMA ClientStart == ClientInit => ClientInv
<1> SUFFICES ASSUME ClientInit PROVE ClientInv
  OBVIOUS
<1>1. TimerInv
  BY TimerStart DEF ClientInit
<1>2. Socket({}) \in Fds
  BY SocketFacts
<1>3. connector_ = [sockfd |-> Socket({}), connected |-> FALSE, phase |-> "new"] /\ open = {Socket({})}
  BY DEF ClientInit, Connector
<1>4. Handover
  <2>1. /\ connector_.sockfd = Socket({}) /\ connector_.connected = FALSE /\ connector_.phase = "new"
        /\ connector_ \in [sockfd : Fds, connected : BOOLEAN, phase : {"new", "handled"} \cup Attempts]
    BY <1>2, <1>3
  <2>2. connection_ = None /\ connected_ = FALSE /\ ready = FALSE /\ cpc = "new" /\ closing = None
    BY DEF ClientInit
  <2> QED
    BY <2>1, <2>2 DEF Handover, Attempts
<1>5. Retry /\ SocketsOwned
  BY <1>3 DEF ClientInit, Retry, SocketsOwned
<1> QED
  BY <1>1, <1>4, <1>5 DEF ClientInv

LEMMA ClientStep == Remote /\ ClientInv /\ [ClientNext]_allVars => ClientInv'
<1> SUFFICES ASSUME Remote, ClientInv, [ClientNext]_allVars PROVE ClientInv'
  OBVIOUS
<1>1. CASE start \/ destructor \/ retry \/ handleWrite \/ forceCloseInLoop \/ clientRun
  BY <1>1, StartKeeps, DestructorKeeps, RetryKeeps, WriteKeeps, ForceCloseKeeps, ClientRunKeeps
<1>2. ASSUME NEW result \in Results, clientPoll(result) PROVE ClientInv'
  BY <1>2, PollKeeps
<1>3. CASE (TimerStep \/ tick \/ OtherCode) /\ UNCHANGED clientVars
  BY <1>3, TimerStepKeeps, OtherKeeps
<1>4. ASSUME UNCHANGED vars PROVE TimerInv' /\ UNCHANGED <<heap, byLoop, asked, hpc, running>>
  BY <1>4, QueueLeft, TimersLeft DEF vars, timerVars, ClientInv, handleVars
<1>5. CASE UNCHANGED vars /\ (staleEvents \/ closeDestroyed)
  <2>1. UNCHANGED <<cpc, connected_, retryTimer_, connection_, retrying, connector_, ready, open, closing>>
    BY <1>5 DEF staleEvents, closeDestroyed, memberVars, connectorVars
  <2> QED
    BY <1>4, <1>5, <2>1 DEF ClientInv, Handover, Retry, SocketsOwned
<1>6. CASE UNCHANGED vars /\ Defined /\ closeConnection
  BY <1>4, <1>6, CloseKeeps DEF Defined, ClientInv
<1>7. CASE UNCHANGED allVars
  BY <1>4, <1>7, ClientLeft DEF allVars, ClientInv, Retry
<1> QED
  BY <1>1, <1>2, <1>3, <1>5, <1>6, <1>7 DEF ClientNext, ClientLoopStep, staleEvents, connectionCloses, Ended
-----------------------------------------------------------------------------
LEMMA ClientKeeps == ASSUME Remote PROVE ClientSpec => []ClientInv
<1>1. ClientInv /\ [ClientNext]_allVars => ClientInv'
  BY ClientStep
<1> QED
  BY <1>1, ClientStart, PTL DEF ClientSpec

(* With a server that is never reached at once, and until the channel of a *)
(* destroyed Connector or the callback of a destroyed client is used, every*)
(* open socket belongs to the Connector that has not handed it over, to the*)
(* client's connection or to the task that closes it after ~TcpClient: for *)
(* any number of descriptors and whatever else uses the TimerQueue.        *)
THEOREM ClientSockets == ASSUME Remote PROVE ClientSpec => []SocketsOwned
<1>1. ClientInv => SocketsOwned
  BY DEF ClientInv
<1> QED
  BY <1>1, ClientKeeps, PTL

(* The retryTimer_ that newConnection and ~TcpClient cancel exists and is  *)
(* pending; a started client has it exactly until it has a connection.     *)
THEOREM ClientTimer == ASSUME Remote PROVE ClientSpec => []RetryTimerOwned
<1>1. ClientInv => RetryTimerOwned
  BY DEF ClientInv, Retry, Handover, RetryTimerOwned
<1> QED
  BY <1>1, ClientKeeps, PTL

(* The client leaves TimerQueue's ownership of timers as it was.           *)
THEOREM ClientTimersOwned == ASSUME Remote PROVE ClientSpec => []TimersOwned
<1>1. ClientInv => TimersOwned
  BY InvOwned DEF ClientInv
<1> QED
  BY <1>1, ClientKeeps, PTL

(* A client gets at most one connection, and only for an attempt whose     *)
(* SO_ERROR says that connect() succeeded, whatever the server answers and *)
(* the other users of the TimerQueue do; until an object that is gone is   *)
(* used, after which nothing is claimed.                                   *)
THEOREM ClientConnectsOnce == ASSUME Remote PROVE ClientSpec => OneConnection
<1> DEFINE Fresh == connection_' # connection_ /\ connection_' # None
                      => connection_ = None /\ ~connected_ /\ connector_.phase = "established"
<1>1. ASSUME ClientInv, [ClientNext]_allVars PROVE [Fresh]_allVars
  <2>1. CASE handleWrite
    <3>1. connector_.phase \in {"established", "refused"}
      BY <1>1, <2>1 DEF handleWrite, ClientInv, Handover
    <3>2. connection_ = None /\ ~connected_
      BY <1>1, <3>1 DEF ClientInv, Handover, Attempts
    <3>3. ConnectFailed => connection_' = connection_
      BY <2>1 DEF handleWrite
    <3> QED
      BY <3>1, <3>2, <3>3 DEF ConnectFailed
  <2>2. CASE retry
    <3>1. connection_' = connection_
      BY <1>1, <2>2 DEF retry, connectorStart, Remote
    <3> QED
      BY <3>1
  <2>3. CASE start \/ clientRun \/ staleEvents \/ UNCHANGED clientVars
    <3>1. connection_' = connection_
      BY <2>3 DEF start, clientRun, staleEvents, clientVars, memberVars
    <3> QED
      BY <3>1
  <2>4. ASSUME NEW result \in Results, clientPoll(result) PROVE Fresh
    <3>1. connection_' = connection_
      BY <2>4 DEF clientPoll, memberVars
    <3> QED
      BY <3>1
  <2>5. CASE destructor \/ forceCloseInLoop \/ connectionCloses
    <3>1. connection_' \in {connection_, None}
      BY <2>5 DEF destructor, forceCloseInLoop, connectionCloses, closeConnection, closeDestroyed, memberVars
    <3> QED
      BY <3>1
  <2> QED
    BY <1>1, <2>1, <2>2, <2>3, <2>4, <2>5 DEF ClientNext, ClientLoopStep, Ended, allVars
<1> QED
  BY <1>1, ClientKeeps, PTL DEF ClientSpec, OneConnection

(* The client's steps leave the timerfd armed for what is in timers_.      *)
LEMMA ClientArms == Remote /\ ClientInv /\ ArmedInv /\ [ClientNext]_allVars => ArmedInv'
<1> SUFFICES ASSUME Remote, ClientInv, ArmedInv, [ClientNext]_allVars PROVE ArmedInv'
  OBVIOUS
<1> USE DEF ClientInv
<1>1. CASE start
  <2>1. PICK t \in Timers : New(t, Interval[t]) /\ insert(t) /\ hpc' = hpc
    BY <1>1 DEF start, handleVars
  <2>2. NotTooLate' /\ when_'[t] \in Int
    BY <2>1, NewWhen, TimesAssumption DEF ArmedInv
  <2> QED
    BY <2>1, <2>2, InsertArms
<1>2. CASE handleWrite \/ destructor
  <2>1. hpc' = hpc /\ ((\E t : cancel(t)) \/ UNCHANGED timerVars)
    BY <1>2 DEF handleWrite, newConnection, destructor, handleVars
  <2> QED
    BY <2>1, CancelArms, ArmedLeft, WhenKept DEF timerVars, ArmedInv
<1>3. CASE retry \/ forceCloseInLoop \/ staleEvents \/ connectionCloses \/ UNCHANGED allVars
  <2>1. hpc' = hpc /\ UNCHANGED timerVars
    BY <1>3 DEF retry, connectorStart, Remote, forceCloseInLoop, staleEvents, connectionCloses, allVars, vars,
       handleVars
  <2> QED
    BY <2>1, ArmedLeft, WhenKept DEF timerVars, ArmedInv
<1>4. CASE clientRun \/ (\E result \in Results : clientPoll(result))
  BY <1>4, TurnArms DEF clientRun, clientPoll
<1>5. CASE TimerStep
  BY <1>5, TurnArms, TaskArms DEF TimerStep
<1>6. CASE tick \/ OtherCode
  BY <1>6, TickArms, CallArms DEF OtherCode
<1> QED
  BY <1>1, <1>2, <1>3, <1>4, <1>5, <1>6 DEF ClientNext, ClientLoopStep, Ended

(* The retry timer does not upset the timerfd, which is shared: it is      *)
(* armed for the earliest timer of the loop, the client's or another's.    *)
THEOREM ClientTimerfdArmed == ASSUME Remote PROVE ClientSpec => []ArmedForEarliest
<1>1. ClientInv /\ ArmedInv /\ [ClientNext]_allVars => ArmedInv'
  BY ClientArms
<1>2. ClientInit => ArmedInv
  BY ArmedStart DEF ClientInit
<1>3. ClientSpec => []ArmedInv
  BY <1>1, <1>2, ClientKeeps, PTL DEF ClientSpec
<1>4. ClientInv /\ ArmedInv => ArmedForEarliest
  BY InvArmed DEF ClientInv
<1> QED
  BY <1>3, <1>4, ClientKeeps, PTL

=============================================================================

-------------------------- MODULE ThreadPoolProofs --------------------------
(***************************************************************************)
(* Proofs about ThreadPool and AddOneServer, for any number of workers,    *)
(* producers, loops and tasks and any size of the queue.  Nothing is used  *)
(* of the condition variables but that a notification wakes sleepers only. *)
(***************************************************************************)
EXTENDS AddOneServer, SequenceTheorems, TLAPS

(* mutex_ is held between steps only by a worker about to sleep.           *)
MutexHeld == \A w \in Workers : mutex_ = w <=> wpc[w] = "tested"

(* running_ is cleared by the first step of stop() and by nothing else.    *)
StopFlag == running_ <=> spc = "none"

PoolInv == TypeOK /\ MutexHeld /\ StopFlag /\ NoSleepAfterStop /\ PoppedInOrderOnce
-----------------------------------------------------------------------------
(* A notification changes nobody but sleepers, and wakes those.            *)
LEMMA NotifyOneWorker ==
  ASSUME TypeOK, NEW after \in NotifyOne(wpc, "take")
  PROVE  /\ after \in [Workers -> WorkerPoints]
         /\ \A w \in Workers : after[w] = wpc[w] \/ (wpc[w] = "asleep" /\ after[w] = "take")
BY DEF NotifyOne, TypeOK, WorkerPoints

LEMMA NotifyOneProducer ==
  ASSUME TypeOK, NEW after \in NotifyOne(ppc, "lock")
  PROVE  /\ after \in [Producers -> ProducerPoints]
         /\ \A p \in Producers : after[p] = ppc[p] \/ (ppc[p] = "asleep" /\ after[p] = "lock")
BY DEF NotifyOne, TypeOK, ProducerPoints

(* notify_all leaves no sleeper.                                           *)
LEMMA NotifyAllWorkers ==
  ASSUME TypeOK, NEW after \in NotifyAll(wpc, "take")
  PROVE  /\ after \in [Workers -> WorkerPoints]
         /\ \A w \in Workers : after[w] = IF wpc[w] = "asleep" THEN "take" ELSE wpc[w]
BY DEF NotifyAll, TypeOK, WorkerPoints

(* What a push and a pop make of sequences over S.                         *)
LEMMA SeqFacts ==
  ASSUME NEW S, NEW p \in Seq(S), NEW q \in Seq(S), NEW e \in S
  PROVE  /\ Append(q, e) \in Seq(S) /\ Len(Append(q, e)) = Len(q) + 1
         /\ p \o Append(q, e) = Append(p \o q, e)
         /\ q # <<>> => /\ Head(q) \in S /\ Tail(q) \in Seq(S)
                        /\ Len(Tail(q)) = Len(q) - 1
                        /\ Append(p, Head(q)) \in Seq(S)
                        /\ Append(p, Head(q)) \o Tail(q) = p \o q
<1>1. /\ Append(q, e) \in Seq(S) /\ Len(Append(q, e)) = Len(q) + 1
      /\ p \o Append(q, e) = Append(p \o q, e)
  OBVIOUS
<1>2. ASSUME q # <<>> PROVE /\ Head(q) \in S /\ Tail(q) \in Seq(S)
                           /\ Len(Tail(q)) = Len(q) - 1
  BY <1>2
<1>3. ASSUME q # <<>> PROVE /\ Append(p, Head(q)) \in Seq(S)
                           /\ Append(p, Head(q)) \o Tail(q) = p \o q
  BY <1>2, <1>3
<1> QED
  BY <1>1, <1>2, <1>3

(* The members of ThreadPool stay within their types, and a producer has a *)
(* task in hand exactly while it is inside runTask.                        *)
LEMMA TypeStep == TypeOK /\ [Next]_vars => TypeOK'
<1> SUFFICES ASSUME TypeOK, [Next]_vars PROVE TypeOK'
  OBVIOUS
<1> USE NobodyAssumption, SizeAssumption DEF TypeOK, WorkerPoints, ProducerPoints, queueVars, producerVars
<1>1. ASSUME NEW p \in Producers, NEW t \in Tasks, runTask(p, t) PROVE TypeOK'
  BY <1>1 DEF runTask
<1>2. ASSUME NEW p \in Producers, runTaskLocked(p) PROVE TypeOK'
  <2>1. CASE Len(taskQueue_) >= maxQueueSize_
    BY <1>2, <2>1 DEF runTaskLocked
  <2>2. CASE ~(Len(taskQueue_) >= maxQueueSize_)
    <3>1. arg[p] \in Tasks
      BY <1>2 DEF runTaskLocked
    <3>2. wpc' \in [Workers -> WorkerPoints]
      <4>1. wpc' \in NotifyOne(wpc, "take")
        BY <1>2, <2>2 DEF runTaskLocked
      <4> QED
        BY <4>1, NotifyOneWorker
    <3>3. taskQueue_' \in Seq(Tasks) /\ submitted' \in Seq(Tasks)
      <4>1. /\ taskQueue_' = Append(taskQueue_, arg[p])
            /\ submitted' = Append(submitted, arg[p])
        BY <1>2, <2>2 DEF runTaskLocked
      <4>2. /\ Append(taskQueue_, arg[p]) \in Seq(Tasks)
            /\ Append(submitted, arg[p]) \in Seq(Tasks)
        BY <3>1
      <4> QED
        BY <4>1, <4>2
    <3>4. /\ ppc' = [ppc EXCEPT ![p] = "idle"] /\ arg' = [arg EXCEPT ![p] = Nobody]
          /\ UNCHANGED <<running_, mutex_, spc, taken>>
      BY <1>2, <2>2 DEF runTaskLocked
    <3> QED
      BY <3>2, <3>3, <3>4
  <2> QED
    BY <2>1, <2>2
<1>3. CASE stop
  BY <1>3 DEF stop
<1>4. CASE stopNotifies
  <2>1. wpc' \in [Workers -> WorkerPoints]
    BY <1>4, NotifyAllWorkers DEF stopNotifies
  <2> QED
    BY <1>4, <2>1 DEF stopNotifies
<1>5. CASE stopJoins
  BY <1>5 DEF stopJoins
<1>6. ASSUME NEW w \in Workers, runInThread(w) PROVE TypeOK'
  BY <1>6 DEF runInThread, Goes
<1>7. ASSUME NEW w \in Workers, take(w) PROVE TypeOK'
  <2>1. CASE taskQueue_ # <<>>
    <3>1. /\ ppc' \in [Producers -> ProducerPoints]
          /\ \A p \in Producers : ppc'[p] = ppc[p] \/ (ppc[p] = "asleep" /\ ppc'[p] = "lock")
      BY <1>7, <2>1, NotifyOneProducer DEF take
    <3>2. taskQueue_' \in Seq(Tasks) /\ taken' \in Seq(Tasks)
      <4>1. PICK t \in Tasks : TRUE
        BY <2>1
      <4>2. taken' = Append(taken, Head(taskQueue_)) /\ taskQueue_' = Tail(taskQueue_)
        BY <1>7, <2>1 DEF take, FrontAndPop
      <4>3. Append(taken, Head(taskQueue_)) \in Seq(Tasks) /\ Tail(taskQueue_) \in Seq(Tasks)
        BY <4>1, <2>1, SeqFacts
      <4> QED
        BY <4>2, <4>3
    <3>3. /\ wpc' = [wpc EXCEPT ![w] = "task"]
          /\ UNCHANGED <<mutex_, running_, arg, spc, submitted>>
      BY <1>7, <2>1 DEF take, Goes
    <3> QED
      BY <3>1, <3>2, <3>3
  <2>2. CASE taskQueue_ = <<>>
    BY <1>7, <2>2 DEF take, Goes
  <2> QED
    BY <2>1, <2>2
<1>8. ASSUME NEW w \in Workers, takeSleeps(w) PROVE TypeOK'
  BY <1>8 DEF takeSleeps, Goes
<1>9. ASSUME NEW w \in Workers, taskReturns(w) PROVE TypeOK'
  BY <1>9 DEF taskReturns, Goes
<1>10. ASSUME NEW w \in Workers, spuriousWorker(w) PROVE TypeOK'
  BY <1>10 DEF spuriousWorker, Goes
<1>11. ASSUME NEW p \in Producers, spuriousProducer(p) PROVE TypeOK'
  BY <1>11 DEF spuriousProducer
<1>12. CASE UNCHANGED vars
  BY <1>12 DEF vars
<1> QED
  BY <1>1, <1>2, <1>3, <1>4, <1>5, <1>6, <1>7, <1>8, <1>9, <1>10, <1>11, <1>12 DEF Next

(* A worker that has seen running_ holds mutex_ until it sleeps, so stop() *)
(* cannot notify in between: after its notification nobody sleeps.         *)
Control == MutexHeld /\ StopFlag /\ NoSleepAfterStop

LEMMA ControlStep == TypeOK /\ Control /\ [Next]_vars => Control'
<1> SUFFICES ASSUME TypeOK, Control, [Next]_vars PROVE Control'
  OBVIOUS
<1> USE NobodyAssumption DEF TypeOK, Control, MutexHeld, StopFlag, NoSleepAfterStop, queueVars, producerVars
<1>1. ASSUME NEW p \in Producers, NEW t \in Tasks, runTask(p, t) PROVE Control'
  BY <1>1 DEF runTask
<1>2. ASSUME NEW p \in Producers, runTaskLocked(p) PROVE Control'
  <2>1. CASE Len(taskQueue_) >= maxQueueSize_
    BY <1>2, <2>1 DEF runTaskLocked
  <2>2. CASE ~(Len(taskQueue_) >= maxQueueSize_)
    <3>1. wpc' \in NotifyOne(wpc, "take")
      BY <1>2, <2>2 DEF runTaskLocked
    <3>2. \A w \in Workers : wpc'[w] = wpc[w] \/ (wpc[w] = "asleep" /\ wpc'[w] = "take")
      BY <3>1, NotifyOneWorker
    <3>3. UNCHANGED <<running_, mutex_, spc>>
      BY <1>2 DEF runTaskLocked
    <3> QED
      BY <3>2, <3>3
  <2> QED
    BY <2>1, <2>2
<1>3. CASE stop
  BY <1>3 DEF stop
<1>4. CASE stopNotifies
  <2>1. \A w \in Workers : wpc'[w] = IF wpc[w] = "asleep" THEN "take" ELSE wpc[w]
    BY <1>4, NotifyAllWorkers DEF stopNotifies
  <2>2. \A w \in Workers : wpc[w] # "tested"
    BY <1>4 DEF stopNotifies, Locked
  <2> QED
    BY <1>4, <2>1, <2>2 DEF stopNotifies
<1>5. CASE stopJoins
  BY <1>5 DEF stopJoins
<1>6. ASSUME NEW w \in Workers, runInThread(w) PROVE Control'
  BY <1>6 DEF runInThread, Goes
<1>7. ASSUME NEW w \in Workers, take(w) PROVE Control'
  BY <1>7 DEF take, Goes
<1>8. ASSUME NEW w \in Workers, takeSleeps(w) PROVE Control'
  BY <1>8 DEF takeSleeps, Goes
<1>9. ASSUME NEW w \in Workers, taskReturns(w) PROVE Control'
  BY <1>9 DEF taskReturns, Goes
<1>10. ASSUME NEW w \in Workers, spuriousWorker(w) PROVE Control'
  BY <1>10 DEF spuriousWorker, Goes
<1>11. ASSUME NEW p \in Producers, spuriousProducer(p) PROVE Control'
  BY <1>11 DEF spuriousProducer
<1>12. CASE UNCHANGED vars
  BY <1>12 DEF vars
<1> QED
  BY <1>1, <1>2, <1>3, <1>4, <1>5, <1>6, <1>7, <1>8, <1>9, <1>10, <1>11, <1>12 DEF Next

(* Only a push and a pop touch the queue, both with mutex_.                *)
LEMMA OrderStep == TypeOK /\ PoppedInOrderOnce /\ [Next]_vars => PoppedInOrderOnce'
<1> SUFFICES ASSUME TypeOK, PoppedInOrderOnce, [Next]_vars PROVE PoppedInOrderOnce'
  OBVIOUS
<1> USE SizeAssumption, NobodyAssumption DEF TypeOK, PoppedInOrderOnce, queueVars
<1>1. ASSUME NEW p \in Producers, runTaskLocked(p) PROVE PoppedInOrderOnce'
  <2>1. CASE Len(taskQueue_) >= maxQueueSize_
    BY <1>1, <2>1 DEF runTaskLocked
  <2>2. CASE ~(Len(taskQueue_) >= maxQueueSize_)
    <3>1. arg[p] \in Tasks
      BY <1>1 DEF runTaskLocked
    <3>2. /\ taskQueue_' = Append(taskQueue_, arg[p])
          /\ submitted' = Append(submitted, arg[p]) /\ taken' = taken
      BY <1>1, <2>2 DEF runTaskLocked
    <3>3. /\ taken \o Append(taskQueue_, arg[p]) = Append(submitted, arg[p])
          /\ Len(Append(taskQueue_, arg[p])) = Len(taskQueue_) + 1
      BY <3>1, SeqFacts
    <3>4. Len(taskQueue_) + 1 <= maxQueueSize_
      BY <2>2
    <3> QED
      BY <3>2, <3>3, <3>4
  <2> QED
    BY <2>1, <2>2
<1>2. ASSUME NEW w \in Workers, take(w) PROVE PoppedInOrderOnce'
  <2>1. CASE taskQueue_ # <<>>
    <3>1. PICK t \in Tasks : TRUE
      BY <2>1
    <3>2. /\ taken' = Append(taken, Head(taskQueue_)) /\ taskQueue_' = Tail(taskQueue_)
          /\ submitted' = submitted
      BY <1>2, <2>1 DEF take, FrontAndPop
    <3>3. /\ Append(taken, Head(taskQueue_)) \o Tail(taskQueue_) = submitted
          /\ Len(Tail(taskQueue_)) = Len(taskQueue_) - 1
      BY <3>1, <2>1, SeqFacts
    <3>4. Len(taskQueue_) - 1 <= maxQueueSize_
      OBVIOUS
    <3> QED
      BY <3>2, <3>3, <3>4
  <2>2. CASE taskQueue_ = <<>>
    BY <1>2, <2>2 DEF take
  <2> QED
    BY <2>1, <2>2
<1>3. CASE UNCHANGED queueVars
  BY <1>3
<1>4. ASSUME [Next]_vars, \A p \in Producers : ~runTaskLocked(p), \A w \in Workers : ~take(w)
      PROVE  UNCHANGED queueVars
  BY <1>4 DEF Next, vars, stop, stopNotifies, stopJoins, runInThread, takeSleeps,
              taskReturns, spuriousWorker, spuriousProducer, runTask
<1> QED
  BY <1>1, <1>2, <1>3, <1>4

LEMMA PoolStart == Init => PoolInv
<1> SUFFICES ASSUME Init PROVE PoolInv
  OBVIOUS
<1>1. TypeOK
  BY NobodyAssumption DEF Init, TypeOK, WorkerPoints, ProducerPoints
<1>2. MutexHeld /\ StopFlag /\ NoSleepAfterStop
  BY NobodyAssumption DEF Init, MutexHeld, StopFlag, NoSleepAfterStop
<1>3. PoppedInOrderOnce
  BY SizeAssumption DEF Init, PoppedInOrderOnce
<1> QED
  BY <1>1, <1>2, <1>3 DEF PoolInv

LEMMA PoolStepKeeps == PoolInv /\ [Next]_vars => PoolInv'
BY TypeStep, ControlStep, OrderStep DEF PoolInv, Control

LEMMA PoolInvariant == Spec => []PoolInv
BY PoolStart, PoolStepKeeps, PTL DEF Spec

(* ThreadPool::take and runTask: whatever the number of threads, tasks are *)
(* popped once, in the order they were pushed, from a queue that never     *)
(* exceeds maxQueueSize_.                                                  *)
THEOREM PoolOrder == Spec => []PoppedInOrderOnce
<1>1. PoolInv => PoppedInOrderOnce
  BY DEF PoolInv
<1> QED
  BY <1>1, PoolInvariant, PTL

(* ThreadPool::stop: no worker sleeps once it has notified, although       *)
(* running_ is stored without mutex_.                                      *)
THEOREM PoolStops == Spec => []NoSleepAfterStop
<1>1. PoolInv => NoSleepAfterStop
  BY DEF PoolInv
<1> QED
  BY <1>1, PoolInvariant, PTL
-----------------------------------------------------------------------------
(* Every step of the server is a step of the pool, or none of it.          *)
LEMMA ServerStep == [ServerNext]_allVars => [Next]_vars
<1> SUFFICES ASSUME [ServerNext]_allVars PROVE [Next]_vars
  OBVIOUS
<1>1. Left # {} => NewTask \in Tasks
  BY DEF Left, NewTask
<1>2. CASE PoolStep
  BY <1>2 DEF PoolStep, Next
<1>3. CASE Finished
  BY <1>3 DEF Finished, allVars
<1>4. ASSUME NEW w \in Workers, WorkerStep(w) PROVE [Next]_vars
  BY <1>4 DEF WorkerStep, serverTake, setValue, stollThrows, serverTaskReturns, Next
<1>5. ASSUME NEW l \in Loops, onMessage(l) PROVE [Next]_vars
  BY <1>1, <1>5, LoopsAssumption DEF onMessage, Next
<1>6. ASSUME NEW l \in Loops, onMessageReturns(l) PROVE [Next]_vars
  BY <1>6 DEF onMessageReturns
<1>7. ASSUME NEW p \in Producers, otherRunTask(p) PROVE [Next]_vars
  BY <1>1, <1>7 DEF otherRunTask, Next
<1>8. CASE UNCHANGED allVars
  BY <1>8 DEF allVars
<1> QED
  BY <1>2, <1>3, <1>4, <1>5, <1>6, <1>7, <1>8 DEF ServerNext

(* AddOneServer uses the pool by its rules, so it has what ThreadPool      *)
(* promises: stop(), called while the loops still run, finds no sleeper.   *)
THEOREM ServerImplementsPool == ServerSpec => Spec
<1>1. ServerInit => Init
  BY DEF ServerInit
<1> QED
  BY <1>1, ServerStep, PTL DEF ServerSpec, Spec

(* Which tasks are closures of a frame: those onMessage has submitted or   *)
(* is submitting; a loop inside runTask has its frame, and no other thread *)
(* submits a closure.                                                      *)
FrameType == /\ frame \in [Loops -> Tasks \cup {Nobody}]
             /\ current \in [Workers -> Tasks \cup {Nobody}]
             /\ closures \subseteq Tasks
             /\ closures \subseteq Range(submitted) \cup Range(arg)
FrameOwner == /\ \A l \in Loops : arg[l] # Nobody => frame[l] = arg[l]
              /\ \A p \in Producers \ Loops : arg[p] \notin closures
FrameInv == FrameType /\ FrameOwner /\ FramesAlive

(* What Append and Tail make of the range of a queue.                      *)
LEMMA RangeFacts ==
  ASSUME NEW S, NEW q \in Seq(S), NEW e \in S
  PROVE  /\ Range(Append(q, e)) = Range(q) \cup {e}
         /\ q # <<>> => Head(q) \in Range(q) /\ Range(Tail(q)) \subseteq Range(q)
<1>1. Range(Append(q, e)) \subseteq Range(q) \cup {e}
  BY DEF Range
<1>2. ASSUME NEW x \in Range(q) PROVE x \in Range(Append(q, e))
  <2>1. PICK i \in 1..Len(q) : q[i] = x
    BY <1>2 DEF Range
  <2>2. i \in DOMAIN Append(q, e) /\ Append(q, e)[i] = x
    BY <2>1
  <2> QED
    BY <2>2 DEF Range
<1>3. e \in Range(Append(q, e))
  <2>1. Len(q) + 1 \in DOMAIN Append(q, e) /\ Append(q, e)[Len(q) + 1] = e
    OBVIOUS
  <2> QED
    BY <2>1 DEF Range
<1>4. ASSUME q # <<>> PROVE Head(q) \in Range(q)
  <2>1. 1 \in DOMAIN q /\ Head(q) = q[1]
    BY <1>4
  <2> QED
    BY <2>1 DEF Range
<1>5. ASSUME q # <<>>, NEW x \in Range(Tail(q)) PROVE x \in Range(q)
  <2>1. PICK i \in 1..(Len(q) - 1) : Tail(q)[i] = x
    BY <1>5 DEF Range
  <2>2. i + 1 \in DOMAIN q /\ q[i + 1] = x
    BY <1>5, <2>1
  <2> QED
    BY <2>2 DEF Range
<1> QED
  BY <1>1, <1>2, <1>3, <1>4, <1>5

(* A step that leaves alone what FrameInv speaks of.                       *)
LEMMA FrameStutter ==
  FrameInv /\ UNCHANGED <<frame, current, ready, closures, taskQueue_, submitted, arg>> => FrameInv'
BY DEF FrameInv, FrameType, FrameOwner, FramesAlive

(* A push makes a closure reachable by the workers while onMessage is      *)
(* still inside runTask.                                                   *)
LEMMA FramePush ==
  ASSUME TypeOK, FrameInv, NEW p \in Producers, runTaskLocked(p), PoolOnly
  PROVE  FrameInv'
<1>1. CASE Len(taskQueue_) >= maxQueueSize_
  BY <1>1, FrameStutter DEF runTaskLocked, PoolOnly, serverVars
<1>2. CASE ~(Len(taskQueue_) >= maxQueueSize_)
  <2>1. arg[p] \in Tasks
    BY NobodyAssumption DEF runTaskLocked, TypeOK
  <2>2. /\ taskQueue_' = Append(taskQueue_, arg[p]) /\ submitted' = Append(submitted, arg[p])
        /\ arg' = [arg EXCEPT ![p] = Nobody]
    BY <1>2 DEF runTaskLocked
  <2>3. Range(taskQueue_') = Range(taskQueue_) \cup {arg[p]}
    BY <2>1, <2>2, RangeFacts DEF TypeOK
  <2>4. Range(submitted') = Range(submitted) \cup {arg[p]}
    BY <2>1, <2>2, RangeFacts DEF TypeOK
  <2>5. Range(arg) \subseteq Range(arg') \cup {arg[p]}
    BY <2>2 DEF TypeOK, Range
  <2>6. FrameType'
    BY <2>4, <2>5 DEF FrameInv, FrameType, PoolOnly, serverVars
  <2>7. FrameOwner'
    BY <2>2, LoopsAssumption, NobodyAssumption DEF FrameInv, FrameType, FrameOwner, PoolOnly, serverVars, TypeOK
  <2>8. arg[p] \in closures => arg[p] \in Range(frame)
    BY <2>1, NobodyAssumption DEF FrameInv, FrameType, FrameOwner, Range
  <2>9. FramesAlive'
    BY <2>3, <2>8 DEF FrameInv, FramesAlive, PoolOnly, serverVars
  <2> QED
    BY <2>6, <2>7, <2>9 DEF FrameInv
<1> QED
  BY <1>1, <1>2

(* A worker that takes a closure has it from the queue.                    *)
LEMMA FrameTake ==
  ASSUME TypeOK, FrameInv, NEW w \in Workers, serverTake(w)
  PROVE  FrameInv'
<1>1. CASE taskQueue_ = <<>>
  <2>1. wpc'[w] # "task" /\ UNCHANGED <<taskQueue_, submitted, arg>>
    BY <1>1 DEF serverTake, take, Goes, TypeOK
  <2> QED
    BY <2>1, FrameStutter DEF serverTake
<1>2. CASE taskQueue_ # <<>>
  <2>1. /\ taskQueue_' = Tail(taskQueue_) /\ UNCHANGED <<submitted, arg>>
        /\ wpc'[w] = "task"
    BY <1>2 DEF serverTake, take, Goes, TypeOK, FrontAndPop
  <2>2. current' = [current EXCEPT ![w] = Head(taskQueue_)] /\ UNCHANGED <<frame, ready, closures>>
    BY <2>1 DEF serverTake
  <2>3. Head(taskQueue_) \in Tasks
    BY <1>2 DEF TypeOK
  <2>4. Head(taskQueue_) \in Range(taskQueue_) /\ Range(taskQueue_') \subseteq Range(taskQueue_)
    BY <1>2, <2>1, <2>3, RangeFacts DEF TypeOK
  <2>5. Range(current') \subseteq Range(current) \cup Range(taskQueue_)
    BY <2>2, <2>4 DEF Range, FrameInv, FrameType
  <2>6. FrameType' /\ FrameOwner'
    BY <2>1, <2>2, <2>3 DEF FrameInv, FrameType, FrameOwner
  <2>7. FramesAlive'
    BY <2>2, <2>4, <2>5 DEF FrameInv, FramesAlive
  <2> QED
    BY <2>6, <2>7 DEF FrameInv
<1> QED
  BY <1>1, <1>2

(* onMessage submits a closure nobody has, and has its frame from then on. *)
LEMMA FrameNew ==
  ASSUME TypeOK, FrameInv, NEW l \in Loops, onMessage(l)
  PROVE  FrameInv'
<1> DEFINE t == NewTask
<1>1. t \in Tasks /\ Fresh(t)
  BY DEF onMessage, Left, NewTask
<1>2. /\ frame' = [frame EXCEPT ![l] = t] /\ closures' = closures \cup {t}
      /\ arg' = [arg EXCEPT ![l] = t] /\ frame[l] = Nobody /\ ppc[l] = "idle"
      /\ UNCHANGED <<current, ready, taskQueue_, submitted>>
  BY DEF onMessage, runTask, queueVars
<1> HIDE DEF t
<1>3. l \in Producers /\ arg[l] = Nobody
  BY <1>2, LoopsAssumption DEF TypeOK
<1>4. t \in Range(arg') /\ Range(arg) \subseteq Range(arg') \cup {Nobody}
  BY <1>2, <1>3 DEF TypeOK, Range
<1>5. t \in Range(frame') /\ Range(frame) \subseteq Range(frame') \cup {Nobody}
  BY <1>2 DEF FrameInv, FrameType, Range
<1>6. FrameType'
  BY <1>1, <1>2, <1>4, NobodyAssumption DEF FrameInv, FrameType
<1>7. \A p \in Producers : arg[p] # t
  BY <1>1 DEF Fresh, Range, TypeOK
<1>8. FrameOwner'
  BY <1>2, <1>3, <1>7, LoopsAssumption DEF FrameInv, FrameType, FrameOwner, TypeOK
<1>9. FramesAlive'
  BY <1>2, <1>5, NobodyAssumption DEF FrameInv, FrameType, FramesAlive
<1> QED
  BY <1>6, <1>8, <1>9 DEF FrameInv

(* Another thread's task is no closure: a new one is none of those there   *)
(* have been.                                                              *)
LEMMA FrameOther ==
  ASSUME TypeOK, FrameInv, NEW p \in Producers, otherRunTask(p)
  PROVE  FrameInv'
<1> DEFINE t == NewTask
<1>1. t \in Tasks /\ Fresh(t)
  BY DEF otherRunTask, Left, NewTask
<1>2. /\ arg' = [arg EXCEPT ![p] = t] /\ p \notin Loops /\ ppc[p] = "idle"
      /\ UNCHANGED <<frame, current, ready, closures, taskQueue_, submitted>>
  BY DEF otherRunTask, runTask, queueVars, PoolOnly, serverVars
<1> HIDE DEF t
<1>3. arg[p] = Nobody
  BY <1>2 DEF TypeOK
<1>4. Range(arg) \subseteq Range(arg') \cup {Nobody}
  BY <1>2, <1>3 DEF TypeOK, Range
<1>5. t \notin closures
  BY <1>1 DEF Fresh, FrameInv, FrameType
<1>6. FrameType' /\ FramesAlive'
  BY <1>2, <1>4, NobodyAssumption DEF FrameInv, FrameType, FramesAlive
<1>7. FrameOwner'
  BY <1>2, <1>5, LoopsAssumption DEF FrameInv, FrameOwner, TypeOK
<1> QED
  BY <1>6, <1>7 DEF FrameInv

(* The frame goes only when its closure has called set_value.              *)
LEMMA FrameReturns ==
  ASSUME TypeOK, FrameInv, NEW l \in Loops, onMessageReturns(l)
  PROVE  FrameInv'
<1>1. /\ frame' = [frame EXCEPT ![l] = Nobody] /\ frame[l] \in ready /\ ppc[l] = "idle"
      /\ UNCHANGED <<current, ready, closures, taskQueue_, submitted, arg>>
  BY DEF onMessageReturns, Got, vars, queueVars, producerVars
<1>2. arg[l] = Nobody
  BY <1>1, LoopsAssumption DEF TypeOK
<1>3. Range(frame) \subseteq Range(frame') \cup ready
  BY <1>1 DEF FrameInv, FrameType, Range
<1>4. FrameType' /\ FrameOwner'
  BY <1>1, <1>2 DEF FrameInv, FrameType, FrameOwner
<1>5. FramesAlive'
  BY <1>1, <1>3 DEF FrameInv, FramesAlive
<1> QED
  BY <1>4, <1>5 DEF FrameInv

LEMMA FrameWorker ==
  ASSUME TypeOK, FrameInv, NEW w \in Workers, WorkerStep(w)
  PROVE  FrameInv'
<1>1. CASE serverTake(w)
  BY <1>1, FrameTake
<1>2. CASE setValue(w)
  BY <1>2 DEF setValue, vars, queueVars, producerVars, FrameInv, FrameType, FrameOwner, FramesAlive
<1>3. CASE serverTaskReturns(w)
  <2>1. /\ current' = [current EXCEPT ![w] = Nobody]
        /\ UNCHANGED <<frame, ready, closures, taskQueue_, submitted, arg>>
    BY <1>3 DEF serverTaskReturns, taskReturns, queueVars, producerVars
  <2>2. Range(current') \subseteq Range(current) \cup {Nobody}
    BY <2>1 DEF FrameInv, FrameType, Range
  <2> QED
    BY <2>1, <2>2, NobodyAssumption DEF FrameInv, FrameType, FrameOwner, FramesAlive
<1>4. CASE (runInThread(w) \/ takeSleeps(w)) /\ PoolOnly
  BY <1>4, FrameStutter DEF runInThread, takeSleeps, PoolOnly, serverVars, queueVars, producerVars
<1>5. CASE stollThrows(w)
  BY <1>5, FrameStutter DEF stollThrows, vars, queueVars, producerVars
<1> QED
  BY <1>1, <1>2, <1>3, <1>4, <1>5 DEF WorkerStep

LEMMA FrameStep == TypeOK /\ FrameInv /\ [ServerNext]_allVars => FrameInv'
<1> SUFFICES ASSUME TypeOK, FrameInv, [ServerNext]_allVars PROVE FrameInv'
  OBVIOUS
<1>1. CASE PoolStep /\ PoolOnly
  <2>1. ASSUME NEW p \in Producers, runTaskLocked(p) PROVE FrameInv'
    BY <1>1, <2>1, FramePush
  <2>2. ASSUME \A p \in Producers : ~runTaskLocked(p) PROVE FrameInv'
    BY <1>1, <2>2, FrameStutter DEF PoolStep, stop, stopNotifies, stopJoins, spuriousWorker,
       spuriousProducer, PoolOnly, serverVars, queueVars, producerVars
  <2> QED
    BY <2>1, <2>2
<1>2. CASE UNCHANGED allVars
  BY <1>2, FrameStutter DEF allVars, vars, serverVars, queueVars, producerVars
<1>3. CASE Finished
  BY <1>2, <1>3 DEF Finished
<1> QED
  BY <1>1, <1>2, <1>3, FrameWorker, FrameReturns, FrameNew, FrameOther DEF ServerNext

LEMMA FrameStart == ServerInit => FrameInv
<1> SUFFICES ASSUME ServerInit PROVE FrameInv
  OBVIOUS
<1>1. FrameType
  BY DEF ServerInit, FrameType
<1>2. FrameOwner
  BY LoopsAssumption DEF ServerInit, Init, FrameOwner
<1>3. FramesAlive
  BY DEF ServerInit, FramesAlive
<1> QED
  BY <1>1, <1>2, <1>3 DEF FrameInv

(* AddOneServer::onMessage: the closures that the workers run, or may yet  *)
(* run, refer to frames that exist, for any number of loops and workers.   *)
THEOREM ServerFrames == ServerSpec => []FramesAlive
<1>1. ServerInit => PoolInv /\ FrameInv
  BY PoolStart, FrameStart DEF ServerInit
<1>2. PoolInv /\ FrameInv /\ [ServerNext]_allVars => (PoolInv /\ FrameInv)'
  BY ServerStep, PoolStepKeeps, FrameStep DEF PoolInv
<1>3. FrameInv => FramesAlive
  BY DEF FrameInv
<1> QED
  BY <1>1, <1>2, <1>3, PTL DEF ServerSpec

=============================================================================

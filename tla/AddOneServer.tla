---------------------------- MODULE AddOneServer ----------------------------
(***************************************************************************)
(* The computation of examples/AddOneServer.cc: onMessage, in any of the   *)
(* server's loop threads, hands the pool a closure that refers to its      *)
(* stack frame and blocks the loop on the future.  Other threads use the   *)
(* pool without waiting.  ~AddOneServer destroys the pool first, while the *)
(* loops still run.  std::stoll throws on a message that is no number: the *)
(* worker has no handler, so that std::terminate ends the process.         *)
(***************************************************************************)
EXTENDS ThreadPool

CONSTANT Loops            \* the producers that are loop threads

ASSUME LoopsAssumption == Loops \subseteq Producers

VARIABLES frame,          \* the closure the frame of onMessage belongs to
          current,        \* the task each worker runs
          ready,          \* the tasks that have got to set_value
          closures,       \* history: the tasks that onMessage submitted
          terminated      \* std::terminate has ended the process

serverVars == <<frame, current, ready, closures, terminated>>
allVars == <<vars, serverVars>>

ServerInit == /\ Init
              /\ frame = [l \in Loops |-> Nobody]
              /\ current = [w \in Workers |-> Nobody] /\ ready = {}
              /\ closures = {} /\ terminated = FALSE

(* A step of the pool in which the server has no part.                     *)
PoolOnly == ~terminated /\ UNCHANGED serverVars
-----------------------------------------------------------------------------
(* A closure not used yet; which one does not matter.                      *)
Left == {t \in Tasks : Fresh(t)}
NewTask == CHOOSE t \in Left : TRUE

(* onMessage up to runTask.                                                *)
onMessage(l) == LET t == NewTask IN
  /\ ~terminated /\ Left # {}
  /\ frame[l] = Nobody
  /\ runTask(l, t)
  /\ frame' = [frame EXCEPT ![l] = t]
  /\ closures' = closures \cup {t}
  /\ UNCHANGED <<current, ready, terminated>>

(* res_future.get() returns, the answer is sent, the frame goes.           *)
(* Variant: onMessage does not wait.                                       *)
NotWaited(l) == TRUE
Got(l) == frame[l] \in ready

onMessageReturns(l) ==
  /\ ~terminated /\ frame[l] # Nobody /\ ppc[l] = "idle" /\ Got(l)
  /\ frame' = [frame EXCEPT ![l] = Nobody]
  /\ UNCHANGED <<vars, current, ready, closures, terminated>>

(* Another thread's task.                                                  *)
otherRunTask(p) == p \notin Loops /\ Left # {} /\ runTask(p, NewTask) /\ PoolOnly

(* A worker takes a task; the closure of onMessage stores its result or    *)
(* std::stoll throws; the task returns.                                    *)
serverTake(w) ==
  /\ ~terminated /\ take(w)
  /\ current' = IF wpc'[w] = "task" THEN [current EXCEPT ![w] = Head(taskQueue_)]
                ELSE current
  /\ UNCHANGED <<frame, ready, closures, terminated>>

setValue(w) ==
  /\ ~terminated /\ wpc[w] = "task" /\ current[w] \notin ready
  /\ ready' = ready \cup {current[w]}
  /\ UNCHANGED <<vars, frame, current, closures, terminated>>

stollThrows(w) ==
  /\ ~terminated /\ wpc[w] = "task" /\ current[w] \in closures \ ready
  /\ terminated' = TRUE
  /\ UNCHANGED <<vars, frame, current, ready, closures>>

serverTaskReturns(w) ==
  /\ ~terminated /\ taskReturns(w) /\ current[w] \in ready
  /\ current' = [current EXCEPT ![w] = Nobody]
  /\ UNCHANGED <<frame, ready, closures, terminated>>

WorkerStep(w) == \/ serverTake(w) \/ setValue(w) \/ stollThrows(w) \/ serverTaskReturns(w)
                 \/ (runInThread(w) \/ takeSleeps(w)) /\ PoolOnly

PoolStep == \/ stop \/ stopNotifies \/ stopJoins
            \/ \E w \in Workers : spuriousWorker(w)
            \/ \E p \in Producers : runTaskLocked(p) \/ spuriousProducer(p)

Finished == (spc = "stopped" \/ terminated) /\ UNCHANGED allVars

ServerNext == \/ PoolStep /\ PoolOnly
              \/ Finished
              \/ \E w \in Workers : WorkerStep(w)
              \/ \E l \in Loops : onMessageReturns(l) \/ onMessage(l)
              \/ \E p \in Producers : otherRunTask(p)

(* Every thread is scheduled, tasks return or throw, and whoever waits for *)
(* mutex_ gets it in the end (strong fairness).  Nobody has to call        *)
(* runTask or stop, and nothing wakes a sleeper but a notification.        *)
ServerFairness ==
  /\ SF_allVars(stopNotifies /\ PoolOnly)
  /\ WF_allVars(stopJoins /\ PoolOnly)
  /\ \A w \in Workers : WF_allVars(WorkerStep(w)) /\ SF_allVars(serverTake(w))
  /\ \A p \in Producers : SF_allVars(runTaskLocked(p) /\ PoolOnly)
  /\ \A l \in Loops : WF_allVars(onMessageReturns(l))

ServerSpec == ServerInit /\ [][ServerNext]_allVars /\ ServerFairness
-----------------------------------------------------------------------------
(* The closure of onMessage captures the frame by reference: from the call *)
(* of runTask until it has called set_value the frame exists, in whichever *)
(* worker and however late it runs.                                        *)
FramesAlive ==
  (Range(taskQueue_) \cup Range(current)) \cap closures \subseteq Range(frame) \cup ready

(* A message is answered unless the pool is stopped or a message that is   *)
(* no number has ended the process: the loops that block on a full queue   *)
(* and on their futures never wait for one another.                        *)
RequestAnswered ==
  \A l \in Loops : (frame[l] # Nobody) ~> (frame[l] = Nobody \/ ~running_ \/ terminated)

(* stop() returns while the loops go on submitting: every worker sees      *)
(* running_ and exits, unless the process ends first.                      *)
StopReturns == (spc = "lock") ~> (spc = "stopped" \/ terminated)
=============================================================================

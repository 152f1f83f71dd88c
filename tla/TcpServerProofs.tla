-------------------------- MODULE TcpServerProofs --------------------------
(***************************************************************************)
(* Proofs about TcpServer, for any number of loops, connections and        *)
(* descriptors.                                                            *)
(***************************************************************************)
EXTENDS TcpServer, TLAPS

ThreadPoints == {"none", "publish", "listen", "enter", "poll", "accept", "events", "left",
                 "cleared", "exited"}

(* The part of the state the threads are started and joined with.  While   *)
(* startInLoop is in its for loop, or quit() in its two steps, the index   *)
(* is that of a loop.                                                      *)
ThreadType == /\ eventLoops_ \in [Loops -> BOOLEAN] /\ tpc \in [Loops -> ThreadPoints]
              /\ threads_ \subseteq Loops \ {0} /\ at \in 1..numThreads_
              /\ spc \in StartPoints \cup {"wakeup"} => at < numThreads_

(* A thread that exists is one of threads_, or the one startInLoop waits   *)
(* for.                                                                    *)
Recorded == \A i \in Loops \ {0} :
  tpc[i] # "none" => i \in threads_ \/ (spc \in {"wait", "asleep"} /\ i = at)

ThreadInv == ThreadType /\ Recorded /\ NoThreadOutlivesServer
-----------------------------------------------------------------------------
LEMMA ThreadStart == Init => ThreadInv
BY ThreadsAssumption DEF Init, ThreadInv, ThreadType, ThreadPoints, StartPoints, Recorded,
   NoThreadOutlivesServer, Loops

(* Each step of startInLoop, of the destructor and of the threads.         *)
LEMMA ThreadKeeps == ThreadInv /\ [Next]_vars => ThreadInv'
<1> SUFFICES ASSUME ThreadInv, [Next]_vars PROVE ThreadInv'
  OBVIOUS
<1> USE ThreadsAssumption DEF ThreadInv, ThreadType, ThreadPoints, StartPoints, Recorded,
        NoThreadOutlivesServer, Loops, serverVars, loopVars
<1>1. CASE start
  BY <1>1 DEF start
<1>2. CASE startInLoop
  BY <1>2 DEF startInLoop, NextThread
<1>3. CASE spawn
  <2>1. /\ tpc' = [tpc EXCEPT ![at] = "publish"] /\ spc' = "wait"
        /\ UNCHANGED <<eventLoops_, threads_, at>> /\ spc = "spawn"
    BY <1>3 DEF spawn
  <2>2. ThreadType'
    BY <2>1
  <2>3. Recorded'
    BY <2>1
  <2> QED
    BY <2>1, <2>2, <2>3
<1>4. CASE waitForLoop
  <2>1. CASE eventLoops_[at]
    <3>1. /\ threads_' = threads_ \cup {at} /\ at' = at + 1 /\ spc = "wait"
          /\ spc' = (IF at + 1 < numThreads_ THEN "spawn" ELSE "started")
          /\ UNCHANGED <<eventLoops_, tpc>>
      BY <1>4, <2>1 DEF waitForLoop, NextThread
    <3>2. ThreadType'
      BY <3>1
    <3>3. Recorded'
      BY <3>1
    <3> QED
      BY <3>1, <3>2, <3>3
  <2>2. CASE ~eventLoops_[at]
    BY <1>4, <2>2 DEF waitForLoop
  <2> QED
    BY <2>1, <2>2
<1>5. CASE quitBase
  BY <1>5 DEF quitBase
<1>6. CASE quitLoop
  BY <1>6 DEF quitLoop
<1>7. CASE wakeupLoop
  BY <1>7 DEF wakeupLoop
<1>8. CASE joinThreads
  BY <1>8 DEF joinThreads, Joined
<1>9. ASSUME NEW i \in Loops, publish(i) PROVE ThreadInv'
  BY <1>9 DEF publish, Goes, notified
<1>10. ASSUME NEW i \in Loops, listen(i) \/ enter(i) \/ test(i) \/ handleRead(i) PROVE ThreadInv'
  BY <1>10 DEF listen, enter, test, handleRead, Goes
<1>11. ASSUME NEW i \in Loops, clear(i) \/ return(i) PROVE ThreadInv'
  BY <1>11 DEF clear, return, Goes
<1>12. ASSUME NEW i \in Loops, poll(i) \/ request(i) PROVE ThreadInv'
  BY <1>12 DEF poll, request, Goes
<1>13. ASSUME NEW c \in Conns, closeConnection(c) \/ release(c) PROVE ThreadInv'
  BY <1>13 DEF closeConnection, release
<1>14. CASE UNCHANGED vars
  BY <1>14 DEF vars
<1>15. CASE destructor
  <2>1. /\ spc \notin {"wait", "asleep"} /\ spc' = "quit" /\ at' = 1
        /\ UNCHANGED <<eventLoops_, threads_, tpc>>
    BY <1>15 DEF destructor
  <2>2. ThreadType'
    BY <2>1
  <2> QED
    BY <2>1, <2>2
<1> QED
  BY <1>1, <1>2, <1>3, <1>4, <1>5, <1>6, <1>7, <1>8, <1>9, <1>10, <1>11, <1>12, <1>13, <1>14, <1>15
     DEF Next, BaseStep, ThreadStep, Finished

(* ~TcpServer: threads_ names every thread that was ever started when the  *)
(* destructor joins them, so none is left to write to the server.          *)
THEOREM ServerOutlivesThreads == Spec => []NoThreadOutlivesServer
<1>1. ThreadInv => NoThreadOutlivesServer
  BY DEF ThreadInv
<1> QED
  BY <1>1, ThreadStart, ThreadKeeps, PTL DEF Spec
-----------------------------------------------------------------------------
(* The part of the state descriptors are kept in; a loop that is about to  *)
(* accept has an object left for the connection.                           *)
ConnType == /\ heap \subseteq Conns /\ connections_ \subseteq heap /\ held \subseteq heap
            /\ sockfd_ \in [Conns -> Fds \cup {-1}] /\ open \subseteq Fds
            /\ tpc \in [Loops -> ThreadPoints]
Room == \A i \in Loops : tpc[i] = "accept" => ~(Of(i) \subseteq heap)

ConnInv == ConnType /\ Room /\ DescriptorsOwned

(* Deleting the objects nobody points to closes their descriptors and no   *)
(* other.                                                                  *)
LEMMA DropKeeps ==
  ASSUME ConnInv, NEW C \in SUBSET connections_, NEW H \in SUBSET held, Drop(C, H)
  PROVE  /\ DescriptorsOwned' /\ heap' \subseteq heap
         /\ heap' \subseteq Conns /\ connections_' \subseteq heap' /\ held' \subseteq heap'
         /\ sockfd_' \in [Conns -> Fds \cup {-1}] /\ open' \subseteq Fds
<1> USE DEF ConnInv, ConnType
<1>1. /\ connections_' = C /\ held' = H /\ heap' = C \cup H
      /\ open' = open \ {sockfd_[c] : c \in heap \ heap'}
      /\ sockfd_' = [c \in Conns |-> IF c \in heap' THEN sockfd_[c] ELSE -1]
  BY DEF Drop
<1>2. heap' \subseteq heap /\ heap' \subseteq Conns
  BY <1>1
<1>3. \A c \in heap' : sockfd_'[c] = sockfd_[c]
  BY <1>1, <1>2
<1>4. sockfd_' \in [Conns -> Fds \cup {-1}] /\ open' \subseteq Fds
  BY <1>1
<1>5. ASSUME NEW fd \in open' PROVE fd \in {sockfd_'[c] : c \in heap'} \ {-1}
  BY <1>1, <1>2, <1>3, <1>5 DEF DescriptorsOwned
<1>6. ASSUME NEW c \in heap', sockfd_'[c] # -1 PROVE sockfd_'[c] \in open'
  BY <1>1, <1>2, <1>3, <1>6 DEF DescriptorsOwned
<1>7. DescriptorsOwned'
  BY <1>2, <1>3, <1>5, <1>6 DEF DescriptorsOwned
<1> QED
  BY <1>1, <1>2, <1>4, <1>7

(* A new connection with a descriptor that was free, or with none.         *)
LEMMA NewKeeps ==
  ASSUME ConnInv, NEW i \in Loops, ~(Of(i) \subseteq heap),
         NEW fd \in (Fds \ open) \cup {-1}, newConnection(i, fd)
  PROVE  /\ DescriptorsOwned' /\ \E c \in Of(i) : heap' = heap \cup {c}
         /\ heap' \subseteq Conns /\ connections_' \subseteq heap' /\ held' \subseteq heap'
         /\ sockfd_' \in [Conns -> Fds \cup {-1}] /\ open' \subseteq Fds
<1> USE DEF ConnInv, ConnType
<1> DEFINE c == CHOOSE c \in Of(i) \ heap : TRUE
<1>1. c \in Of(i) /\ c \notin heap
  OBVIOUS
<1>2. /\ heap' = heap \cup {c} /\ connections_' = connections_ \cup {c}
      /\ sockfd_' = [sockfd_ EXCEPT ![c] = fd] /\ held' \in {held, held \cup {c}}
      /\ open' = (open \cup {fd}) \ {-1}
  BY DEF newConnection
<1> HIDE DEF c
<1>3. c \in Conns
  BY <1>1 DEF Of
<1>4. /\ heap' \subseteq Conns /\ connections_' \subseteq heap' /\ held' \subseteq heap'
      /\ sockfd_' \in [Conns -> Fds \cup {-1}] /\ open' \subseteq Fds
  BY <1>2, <1>3
<1>5. sockfd_'[c] = fd /\ \A d \in heap : sockfd_'[d] = sockfd_[d] /\ d # c
  BY <1>1, <1>2, <1>3
<1>6. -1 \notin Fds
  BY FdsAssumption
<1>7. open' = {sockfd_'[d] : d \in heap'} \ {-1}
  BY <1>2, <1>5, <1>6 DEF DescriptorsOwned
<1>8. \A d \in heap : sockfd_[d] = -1 \/ sockfd_[d] \in open
  BY DEF DescriptorsOwned
<1>9. \A d \in heap : fd # -1 => sockfd_[d] # fd
  BY <1>6, <1>8
<1>10. ASSUME NEW a \in heap', NEW b \in heap', sockfd_'[a] = sockfd_'[b], sockfd_'[a] # -1
       PROVE  a = b
  BY <1>2, <1>5, <1>9, <1>10 DEF DescriptorsOwned
<1>11. DescriptorsOwned'
  BY <1>7, <1>10 DEF DescriptorsOwned
<1> QED
  BY <1>1, <1>2, <1>4, <1>11

(* A step of loop i that ends its accept or has none, and drops objects or *)
(* leaves them.                                                            *)
LEMMA RoomKeeps ==
  ASSUME Room, heap' \subseteq heap,
         \A i \in Loops : tpc'[i] = "accept" => tpc[i] = "accept" \/ AcceptReady(i)
  PROVE  Room'
BY DEF Room, AcceptReady, Of

LEMMA ConnStart == Init => ConnInv
BY ThreadsAssumption DEF Init, ConnInv, ConnType, ThreadPoints, Room, DescriptorsOwned, Loops

(* Each step of the loops, of the application and of the destructor.       *)
LEMMA ConnKeeps == ConnInv /\ [Next]_vars => ConnInv'
<1> SUFFICES ASSUME ConnInv, [Next]_vars PROVE ConnInv'
  OBVIOUS
<1> USE DEF ThreadPoints
<1>1. ASSUME UNCHANGED connVars, tpc' \in [Loops -> ThreadPoints],
             \A i \in Loops : tpc'[i] = "accept" => tpc[i] = "accept" \/ AcceptReady(i)
      PROVE  ConnInv'
  <2>1. Room'
    BY <1>1, RoomKeeps DEF ConnInv, connVars
  <2> QED
    BY <1>1, <2>1 DEF ConnInv, ConnType, DescriptorsOwned, connVars
<1>2. ASSUME NEW C \in SUBSET connections_, NEW H \in SUBSET held, Drop(C, H),
             tpc' \in [Loops -> ThreadPoints],
             \A i \in Loops : tpc'[i] = "accept" => tpc[i] = "accept"
      PROVE  ConnInv'
  <2>1. /\ DescriptorsOwned' /\ heap' \subseteq heap
        /\ heap' \subseteq Conns /\ connections_' \subseteq heap' /\ held' \subseteq heap'
        /\ sockfd_' \in [Conns -> Fds \cup {-1}] /\ open' \subseteq Fds
    BY <1>2, DropKeeps
  <2>2. Room'
    BY <1>2, <2>1, RoomKeeps DEF ConnInv
  <2> QED
    BY <1>2, <2>1, <2>2 DEF ConnInv, ConnType
<1>3. ASSUME NEW i \in Loops, handleRead(i) PROVE ConnInv'
  <2>1. /\ tpc[i] = "accept" /\ tpc' = [tpc EXCEPT ![i] = "events"]
        /\ tpc' \in [Loops -> ThreadPoints]
    BY <1>3 DEF handleRead, Goes, ConnInv, ConnType
  <2>2. ~(Of(i) \subseteq heap)
    BY <2>1 DEF ConnInv, Room
  <2>3. PICK fd \in (Fds \ open) \cup {-1} : newConnection(i, fd)
    BY <1>3 DEF handleRead
  <2>4. /\ DescriptorsOwned' /\ \E c \in Of(i) : heap' = heap \cup {c}
        /\ heap' \subseteq Conns /\ connections_' \subseteq heap' /\ held' \subseteq heap'
        /\ sockfd_' \in [Conns -> Fds \cup {-1}] /\ open' \subseteq Fds
    BY <2>2, <2>3, NewKeeps
  <2>5. ASSUME NEW j \in Loops, tpc'[j] = "accept" PROVE ~(Of(j) \subseteq heap')
    <3>1. j # i /\ tpc[j] = "accept"
      BY <2>1, <2>5 DEF ConnInv, ConnType
    <3>2. PICK d \in Of(j) : d \notin heap
      BY <3>1 DEF ConnInv, Room
    <3>3. d \notin Of(i)
      BY <3>1, <3>2 DEF Of
    <3> QED
      BY <2>4, <3>2, <3>3
  <2>6. Room'
    BY <2>5 DEF Room, Of
  <2> QED
    BY <2>1, <2>4, <2>6 DEF ConnInv, ConnType
<1>4. ASSUME NEW c \in Conns, closeConnection(c) \/ release(c) PROVE ConnInv'
  <2>1. tpc' = tpc
    BY <1>4 DEF closeConnection, release, loopVars
  <2>2. Drop(connections_ \ {c}, held) \/ Drop(connections_, held \ {c})
    BY <1>4 DEF closeConnection, release
  <2> QED
    BY <1>2, <2>1, <2>2 DEF ConnInv, ConnType
<1>5. ASSUME NEW i \in Loops, return(i) PROVE ConnInv'
  <2>1. tpc' = [tpc EXCEPT ![i] = "exited"] /\ Drop(connections_ \ Of(i), held)
    BY <1>5 DEF return, Goes, DestroyServer
  <2> QED
    BY <1>2, <2>1 DEF ConnInv, ConnType
<1>6. CASE joinThreads
  <2>1. tpc' = tpc /\ Drop(connections_ \ Of(0), held)
    BY <1>6 DEF joinThreads, DestroyServer, loopVars
  <2> QED
    BY <1>2, <2>1 DEF ConnInv, ConnType
<1>7. ASSUME NEW i \in Loops, publish(i) \/ listen(i) \/ enter(i) \/ clear(i)
      PROVE  ConnInv'
  <2>1. /\ UNCHANGED connVars
        /\ \E p \in {"listen", "enter", "poll", "cleared"} : tpc' = [tpc EXCEPT ![i] = p]
    BY <1>7 DEF publish, listen, enter, clear, Goes
  <2> QED
    BY <1>1, <2>1 DEF ConnInv, ConnType
<1>8. ASSUME NEW i \in Loops, test(i) PROVE ConnInv'
  <2>1. /\ UNCHANGED connVars
        /\ \E p \in {"left", "poll"} : tpc' = [tpc EXCEPT ![i] = p]
    BY <1>8 DEF test, Goes
  <2> QED
    BY <1>1, <2>1 DEF ConnInv, ConnType
<1>9. ASSUME NEW i \in Loops, poll(i) PROVE ConnInv'
  <2>1. /\ UNCHANGED connVars
        /\ tpc' = [tpc EXCEPT ![i] = IF AcceptReady(i) THEN "accept" ELSE "events"]
    BY <1>9 DEF poll, Goes
  <2> QED
    BY <1>1, <2>1 DEF ConnInv, ConnType
<1>10. CASE spawn
  <2>1. UNCHANGED connVars /\ tpc' = [tpc EXCEPT ![at] = "publish"]
    BY <1>10 DEF spawn
  <2> QED
    BY <1>1, <2>1 DEF ConnInv, ConnType
<1>11. ASSUME UNCHANGED <<connVars, tpc>> PROVE ConnInv'
  BY <1>1, <1>11 DEF ConnInv, ConnType
<1>12. CASE start \/ startInLoop \/ waitForLoop \/ quitBase \/ destructor \/ quitLoop \/ wakeupLoop
  BY <1>11, <1>12 DEF start, startInLoop, waitForLoop, quitBase, destructor, quitLoop,
     wakeupLoop, loopVars
<1>13. ASSUME NEW i \in Loops, request(i) PROVE ConnInv'
  BY <1>11, <1>13 DEF request, loopVars
<1>14. CASE UNCHANGED vars
  BY <1>11, <1>14 DEF vars, loopVars
<1> QED
  BY <1>3, <1>4, <1>5, <1>6, <1>7, <1>8, <1>9, <1>10, <1>12, <1>13, <1>14
     DEF Next, BaseStep, ThreadStep, Finished

(* TcpServerSingle and ~TcpConnection: whatever the number of loops, and   *)
(* whether accept4 fails or loops end with connections open, descriptors   *)
(* are neither leaked nor shared.                                          *)
THEOREM ServerDescriptors == Spec => []DescriptorsOwned
<1>1. ConnInv => DescriptorsOwned
  BY DEF ConnInv
<1> QED
  BY <1>1, ConnStart, ConnKeeps, PTL DEF Spec

=============================================================================

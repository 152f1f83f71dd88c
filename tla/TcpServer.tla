----------------------------- MODULE TcpServer -----------------------------
(***************************************************************************)
(* TcpServer (TcpServer.cc) with its TcpServerSingles (TcpServerSingle.cc) *)
(* and their Acceptors (Acceptor.cc): the base loop, number 0, starts one  *)
(* thread per further loop and waits until each has published its loop;    *)
(* every loop accepts on a listening socket of its own; the destructor     *)
(* makes the other loops quit and joins their threads.                     *)
(*                                                                         *)
(* A loop is reduced to what EventLoop promises: epoll_wait ends when the  *)
(* wake-up descriptor or a request is there, and may end for other         *)
(* channels; quit_ is tested before every epoll_wait.  A TcpConnection is  *)
(* an object of Conns with a descriptor: TcpConnection has the details.    *)
(***************************************************************************)
EXTENDS Integers, FiniteSets

CONSTANTS numThreads_,
          MaxConns,      \* bound on the TcpConnection objects of one loop
          Fds,           \* descriptors the process has for connections
          MaxBacklog     \* bound on the requests that wait at one socket

ASSUME ThreadsAssumption == numThreads_ \in Nat \ {0}
ASSUME FdsAssumption == Fds \subseteq Nat /\ MaxBacklog \in Nat /\ MaxConns \in Nat

Loops == 0..numThreads_ - 1
Conns == Loops \X (1..MaxConns)    \* <<loop_, number>>

VARIABLES started_, eventLoops_, threads_,
          spc,           \* where startInLoop or ~TcpServer is, in the base thread
          at,            \* the index of its for loop
          tpc,           \* where each loop's thread is
          quit_, wakeupfd,
          listening,     \* sockets that listen and are watched
          backlog,       \* requests waiting at each socket
          connections_,  \* of all the TcpServerSingles
          heap,          \* TcpConnection objects that exist
          sockfd_,       \* the descriptor of each, -1 for none
          held,          \* objects the application has pointers to
          open           \* descriptors open in the kernel

serverVars == <<started_, eventLoops_, threads_, spc, at>>
loopVars == <<tpc, quit_, wakeupfd>>
connVars == <<connections_, heap, sockfd_, held, open>>
vars == <<serverVars, loopVars, listening, backlog, connVars>>

(* spc: "queued" start() was called; "spawn", "wait", "asleep" on cond_ in *)
(* the for loop of startInLoop; "quit", "wakeup", "join" in the destructor.*)
StartPoints == {"spawn", "wait", "asleep"}

Init == /\ started_ = FALSE /\ eventLoops_ = [i \in Loops |-> FALSE] /\ threads_ = {}
        /\ spc = "new" /\ at = 1
        /\ tpc = [i \in Loops |-> IF i = 0 THEN "enter" ELSE "none"]
        /\ quit_ = [i \in Loops |-> FALSE] /\ wakeupfd = [i \in Loops |-> FALSE]
        /\ listening = {} /\ backlog = [i \in Loops |-> 0]
        /\ connections_ = {} /\ heap = {} /\ held = {} /\ open = {}
        /\ sockfd_ = [c \in Conns |-> -1]

(* The base thread runs its loop, and not startInLoop inside it.           *)
Free(i) == i = 0 => spc \notin StartPoints

(* The write to loop i's eventfd.  Variant: left out.                      *)
noWakeup(i) == wakeupfd' = wakeupfd
wakeup(i) == wakeupfd' = [wakeupfd EXCEPT ![i] = TRUE]

Goes(i, from, to) == tpc[i] = from /\ Free(i) /\ tpc' = [tpc EXCEPT ![i] = to]
-----------------------------------------------------------------------------
(* start(), by any thread: the closure is run on the spot by the base      *)
(* thread or queued for it.                                                *)
start == /\ spc = "new" /\ tpc[0] # "left" /\ ~started_
         /\ started_' = TRUE
         /\ spc' = "queued"
         /\ wakeup(0)
         /\ UNCHANGED <<eventLoops_, threads_, at, tpc, quit_, listening, backlog, connVars>>

NextThread(i) == IF i < numThreads_ THEN "spawn" ELSE "started"

(* startInLoop up to its for loop: baseServer_ listens.                    *)
startInLoop == /\ spc = "queued" /\ tpc[0] \in {"enter", "events"}
               /\ listening' = listening \cup {0}
               /\ spc' = NextThread(at)
               /\ UNCHANGED <<started_, eventLoops_, threads_, at, loopVars, backlog, connVars>>

spawn == /\ spc = "spawn"
         /\ tpc' = [tpc EXCEPT ![at] = "publish"]
         /\ spc' = "wait"
         /\ UNCHANGED <<started_, eventLoops_, threads_, at, quit_, wakeupfd, listening,
                        backlog, connVars>>

(* while (eventLoops_[i] == nullptr) cond_.wait(lock), under mutex_.       *)
waitForLoop ==
  /\ spc = "wait"
  /\ IF eventLoops_[at]
     THEN /\ threads_' = threads_ \cup {at}
          /\ at' = at + 1
          /\ spc' = NextThread(at + 1)
     ELSE spc' = "asleep" /\ UNCHANGED <<threads_, at>>
  /\ UNCHANGED <<started_, eventLoops_, loopVars, listening, backlog, connVars>>
-----------------------------------------------------------------------------
(* runInThread.                                                            *)

(* cond_.notify_one().  Variant: left out.                                 *)
notNotified == spc
notified == IF spc = "asleep" THEN "wait" ELSE spc

(* The EventLoop and the TcpServerSingle exist: publish the loop.          *)
publish(i) == /\ Goes(i, "publish", "listen")
              /\ eventLoops_' = [eventLoops_ EXCEPT ![i] = TRUE]
              /\ spc' = notified
              /\ UNCHANGED <<started_, threads_, at, quit_, wakeupfd, listening, backlog,
                             connVars>>

(* threadInitCallback_ and server.start().                                 *)
listen(i) == /\ Goes(i, "listen", "enter")
             /\ listening' = listening \cup {i}
             /\ UNCHANGED <<serverVars, quit_, wakeupfd, backlog, connVars>>

(* loop() is entered (the base loop as well), and its first test passed.   *)
enter(i) == /\ Goes(i, "enter", "poll")
            /\ quit_' = [quit_ EXCEPT ![i] = FALSE]
            /\ UNCHANGED <<serverVars, wakeupfd, listening, backlog, connVars>>

Of(i) == {c \in Conns : c[1] = i}

(* epoll reports the acceptor's channel.  Variant: enableRead() left out.  *)
AcceptUnwatched(i) == FALSE
AcceptReady(i) == i \in listening /\ backlog[i] > 0 /\ ~(Of(i) \subseteq heap)

poll(i) == /\ Goes(i, "poll", IF AcceptReady(i) THEN "accept" ELSE "events")
           /\ wakeupfd' = [wakeupfd EXCEPT ![i] = FALSE]
           /\ UNCHANGED <<serverVars, quit_, listening, backlog, connVars>>

(* The end of an iteration and the test of quit_.  The iteration ran       *)
(* startInLoop unless that was queued, and the loop woken, too late for it.*)
test(i) == /\ Goes(i, "events", IF quit_[i] THEN "left" ELSE "poll")
           /\ i = 0 /\ spc = "queued" => wakeupfd[0]
           /\ UNCHANGED <<serverVars, quit_, wakeupfd, listening, backlog, connVars>>

(* The application ends the base loop.                                     *)
quitBase == /\ tpc[0] = "events" /\ Free(0)
            /\ quit_' = [quit_ EXCEPT ![0] = TRUE]
            /\ UNCHANGED <<serverVars, tpc, wakeupfd, listening, backlog, connVars>>
-----------------------------------------------------------------------------
(* Destroying a set of owners of connections: an object nobody points to   *)
(* is deleted, and ~TcpConnection closes its descriptor.                   *)
(* Variant: the descriptor stays open.                                     *)
DropOpen(inServers, pointers) ==
  /\ connections_' = inServers /\ held' = pointers /\ heap' = inServers \cup pointers
  /\ UNCHANGED <<open, sockfd_>>
Drop(inServers, pointers) ==
  /\ connections_' = inServers /\ held' = pointers
  /\ heap' = inServers \cup pointers
  /\ open' = open \ {sockfd_[c] : c \in heap \ heap'}
  /\ sockfd_' = [c \in Conns |-> IF c \in heap' THEN sockfd_[c] ELSE -1]

(* TcpServerSingle::newConnection for the descriptor fd; the connection    *)
(* callback may keep the pointer.                                          *)
newConnection(i, fd) ==
  LET c == CHOOSE c \in Of(i) \ heap : TRUE
  IN  /\ heap' = heap \cup {c}
      /\ connections_' = connections_ \cup {c}
      /\ sockfd_' = [sockfd_ EXCEPT ![c] = fd]
      /\ held' \in {held, held \cup {c}}
      /\ open' = (open \cup {fd}) \ {-1}

(* Acceptor::handleRead: accept4 gives a new descriptor, or fails because  *)
(* the peer gave up (ECONNABORTED) or for want of descriptors (EMFILE,     *)
(* which leaves the request where it is).  The failures are logged and -1  *)
(* is passed on; other errors are fatal and not modelled.                  *)
handleRead(i) ==
  /\ Goes(i, "accept", "events")
  /\ \/ /\ \E fd \in Fds \ open : newConnection(i, fd)
        /\ backlog' = [backlog EXCEPT ![i] = @ - 1]
     \/ newConnection(i, -1) /\ backlog' = [backlog EXCEPT ![i] = @ - 1]
     \/ open = Fds /\ newConnection(i, -1) /\ UNCHANGED backlog
  /\ UNCHANGED <<serverVars, quit_, wakeupfd, listening>>

(* TcpServerSingle::closeConnection, from handleClose of the connection:   *)
(* the peer closed it or the application's idle timeout did.               *)
closeConnection(c) ==
  /\ tpc[c[1]] = "events" /\ Free(c[1]) /\ c \in connections_
  /\ Drop(connections_ \ {c}, held)
  /\ UNCHANGED <<serverVars, loopVars, listening, backlog>>

(* The application lets go of a pointer.                                   *)
release(c) == /\ c \in held
              /\ Drop(connections_, held \ {c})
              /\ UNCHANGED <<serverVars, loopVars, listening, backlog>>

(* ~TcpServerSingle with its Acceptor: the listening socket and connections_ go. *)
DestroyServer(i) ==
  /\ Drop(connections_ \ Of(i), held)
  /\ listening' = listening \ {i}
  /\ backlog' = [backlog EXCEPT ![i] = 0]

(* loop() has returned: eventLoops_[index] = nullptr, then the stack frame *)
(* with the TcpServerSingle and the EventLoop goes.                        *)
clear(i) == /\ i # 0 /\ Goes(i, "left", "cleared")
            /\ eventLoops_' = [eventLoops_ EXCEPT ![i] = FALSE]
            /\ UNCHANGED <<started_, threads_, spc, at, quit_, wakeupfd, listening, backlog,
                           connVars>>

return(i) == /\ Goes(i, "cleared", "exited")
             /\ DestroyServer(i)
             /\ UNCHANGED <<serverVars, quit_, wakeupfd>>
-----------------------------------------------------------------------------
(* ~TcpServer, in the base thread once its loop has ended: quit() of each  *)
(* loop in its two steps, then the joins, then the members.                *)
destructor == /\ spc \in {"new", "queued", "started"} /\ tpc[0] = "left"
              /\ spc' = "quit" /\ at' = 1
              /\ UNCHANGED <<started_, eventLoops_, threads_, loopVars, listening, backlog,
                             connVars>>

quitLoop == /\ spc = "quit" /\ at < numThreads_
            /\ IF eventLoops_[at]
               THEN spc' = "wakeup" /\ quit_' = [quit_ EXCEPT ![at] = TRUE] /\ UNCHANGED at
               ELSE at' = at + 1 /\ UNCHANGED <<spc, quit_>>
            /\ UNCHANGED <<started_, eventLoops_, threads_, tpc, wakeupfd, listening, backlog,
                           connVars>>

wakeupLoop == /\ spc = "wakeup"
              /\ wakeup(at)
              /\ at' = at + 1
              /\ spc' = "quit"
              /\ UNCHANGED <<started_, eventLoops_, threads_, tpc, quit_, listening, backlog,
                             connVars>>

(* Every thread->join() has returned.  Variant: the pointers are cleared.  *)
Cleared == \A i \in threads_ : ~eventLoops_[i]
Joined == \A i \in threads_ : tpc[i] = "exited"

joinThreads == /\ spc = "quit" /\ at >= numThreads_
               /\ Joined
               /\ spc' = "destroyed"
               /\ DestroyServer(0)
               /\ UNCHANGED <<started_, eventLoops_, threads_, at, loopVars>>

(* The kernel: a client's request reaches one of the sockets.              *)
request(i) == /\ i \in listening /\ backlog[i] < MaxBacklog
              /\ backlog' = [backlog EXCEPT ![i] = @ + 1]
              /\ UNCHANGED <<serverVars, loopVars, listening, connVars>>
-----------------------------------------------------------------------------
ThreadStep(i) == \/ publish(i) \/ listen(i) \/ enter(i) \/ test(i)
                 \/ handleRead(i) \/ clear(i) \/ return(i)
BaseStep == \/ startInLoop \/ spawn \/ waitForLoop
            \/ quitLoop \/ wakeupLoop \/ joinThreads

Finished == spc = "destroyed" /\ UNCHANGED vars

Next == \/ start \/ BaseStep \/ quitBase \/ destructor \/ Finished
        \/ \E i \in Loops : ThreadStep(i) \/ poll(i) \/ request(i)
        \/ \E c \in Conns : closeConnection(c) \/ release(c)

Spec == Init /\ [][Next]_vars

(* Every thread is scheduled; epoll_wait ends for the wake-up descriptor   *)
(* and for requests; and connections come to an end: peers close them or   *)
(* an idle timeout does, as in examples/EchoServer.cc, and the application *)
(* drops its pointers.  Nobody has to start or destroy the server.         *)
Fairness ==
  /\ WF_vars(BaseStep)
  /\ \A i \in Loops :
       /\ WF_vars(ThreadStep(i))
       /\ WF_vars(poll(i) /\ (wakeupfd[i] \/ AcceptReady(i) \/ connections_ \cap Of(i) # {}))
  /\ \A c \in Conns : SF_vars(closeConnection(c)) /\ WF_vars(release(c))

FairSpec == Spec /\ Fairness
-----------------------------------------------------------------------------
(* start() gets every loop to accept and comes back to the base loop: the  *)
(* wait for each new loop ends, whether the loop is published before or    *)
(* after startInLoop looks.                                                *)
StartCompletes ==
  (spc = "queued") ~> ((spc = "started" /\ listening = Loops) \/ tpc[0] = "left")

(* No thread outlives the TcpServer it writes eventLoops_ and reads        *)
(* callbacks of: every thread startInLoop created has been joined.         *)
NoThreadOutlivesServer == spc = "destroyed" => \A i \in Loops \ {0} : tpc[i] \in {"none", "exited"}

Serving(i) == tpc[i] \in {"poll", "accept", "events"}

(* A destructor that runs once every other loop is inside loop() returns,  *)
(* whatever those loops are busy with.                                     *)
DestructorReturns ==
  (spc = "quit" /\ at = 1 /\ \A i \in threads_ : Serving(i)) ~> spc = "destroyed"

(* Every open descriptor belongs to exactly one TcpConnection that exists, *)
(* and every such object with a descriptor has it open: accept failures,   *)
(* pointers kept past the close, and loops that end with connections open  *)
(* neither leak a descriptor nor close it twice.                           *)
DescriptorsOwned ==
  /\ open = {sockfd_[c] : c \in heap} \ {-1}
  /\ \A c, d \in heap : sockfd_[c] = sockfd_[d] /\ sockfd_[c] # -1 => c = d

(* Requests wait for ever at a loop that runs only if descriptors run out  *)
(* again and again.                                                        *)
RequestAccepted ==
  \A i \in Loops :
    (backlog[i] = MaxBacklog) ~> (backlog[i] < MaxBacklog \/ open = Fds \/ tpc[i] = "left")
=============================================================================

----------------------------- MODULE TcpClient -----------------------------
(***************************************************************************)
(* TcpClient (TcpClient.cc) and its Connector (Connector.cc) on a loop     *)
(* with its TimerQueue: the client connects, a repeating timer replaces    *)
(* the Connector by a new one until a connection is made, and the          *)
(* connection cancels the timer.  Other code of the program uses the same  *)
(* TimerQueue.                                                             *)
(*                                                                         *)
(* A Connector is its socket and how far connect() has come; TcpConnection *)
(* is reduced to its descriptor, and nobody else keeps a pointer to it.    *)
(*                                                                         *)
(* Two steps of the code use an object that is gone: the turn of a         *)
(* destroyed Connector's channel, and the close callback of a connection   *)
(* that outlives its client.  The behaviour is undefined from there on and *)
(* the model ends: the properties are about what comes before.             *)
(***************************************************************************)
EXTENDS TimerQueue

CONSTANTS Fds,             \* descriptors the process has for sockets
          ConnectResults   \* how connect() returns: "EINPROGRESS", "0", "error"

ASSUME FdsAssumption == Fds \subseteq Nat /\ \E a, b \in Fds : a # b
ASSUME ResultsAssumption == ConnectResults \subseteq {"EINPROGRESS", "0", "error"}

VARIABLES cpc,             \* the client: "new", "started", "destroyed"
          connected_, retryTimer_,
          connection_,     \* the descriptor of connection_
          retrying,        \* the timer runs retry(), which is still to begin
          connector_,
          ready,           \* the connector's channel waits in activeChannels_
          stale,           \* and so does the channel of a destroyed one
          open,            \* descriptors open in the kernel
          closing,         \* the connection that only a forceClose task still owns
          undefined        \* a destroyed object has been used

memberVars == <<cpc, connected_, retryTimer_, connection_>>
connectorVars == <<connector_, ready, stale, open>>
clientVars == <<memberVars, retrying, connectorVars, closing, undefined>>
allVars == <<vars, clientVars>>

(* phase: "new", "connecting", what connect() came to, "handled".          *)
Connector(fd, phase) == [sockfd |-> fd, connected |-> FALSE, phase |-> phase]

(* socket(): a descriptor that is not in use; which one does not matter.   *)
Socket(used) == CHOOSE fd \in Fds \ used : TRUE

ClientInit == /\ Init
              /\ cpc = "new" /\ connected_ = FALSE /\ retryTimer_ = None
              /\ connection_ = None /\ retrying = FALSE
              /\ ready = FALSE /\ stale = FALSE
              /\ closing = None /\ undefined = FALSE
              /\ connector_ = Connector(Socket({}), "new") /\ open = {Socket({})}

UserCode == InUserCode /\ ~retrying

(* A step that uses no object that is gone.                                *)
Defined == ~undefined /\ UNCHANGED <<closing, undefined>>
-----------------------------------------------------------------------------
(* newConnection, once the Connector has set its connected_: the timer is  *)
(* cancelled.  Variant: it is not.                                         *)
ConnectKeepsTimer(fd) ==
  /\ connected_' = TRUE /\ connection_' = fd
  /\ UNCHANGED <<timerVars, asked, retryTimer_>>
newConnection(fd) ==
  /\ cancel(retryTimer_)
  /\ asked' = asked \cup {retryTimer_}
  /\ retryTimer_' = None
  /\ connected_' = TRUE /\ connection_' = fd

(* What is open after ~Connector.  Variant: connected_ is not looked at.   *)
CloseAlways == open \ {connector_.sockfd}
CloseUnlessConnected == IF connector_.connected THEN open ELSE open \ {connector_.sockfd}

(* start(): connect() and the timer.  When connect() does not return       *)
(* EINPROGRESS, newConnection is called at once and dereferences the       *)
(* retryTimer_ that is not set yet: the program ends there.                *)
start ==
  /\ Defined /\ cpc = "new" /\ UserCode /\ "EINPROGRESS" \in ConnectResults
  /\ connector_' = [connector_ EXCEPT !.phase = "connecting"]
  /\ \E t \in Timers : /\ Interval[t] > 0 /\ New(t, Interval[t]) /\ insert(t)
                       /\ byLoop' = byLoop \cup {t}
                       /\ retryTimer_' = t
  /\ cpc' = "started"
  /\ UNCHANGED <<queueVars, lpc, handleVars, connected_, connection_, retrying, ready,
                 stale, open>>

(* Connector::start on a new socket: without EINPROGRESS handleWrite comes *)
(* at once.  After a connect() that failed SO_ERROR is 0, so that it sees  *)
(* success either way.                                                     *)
connectorStart(fd) == \E r \in ConnectResults :
  IF r = "EINPROGRESS"
  THEN /\ connector_' = Connector(fd, "connecting")
       /\ UNCHANGED <<timerVars, asked, retryTimer_, connected_, connection_>>
  ELSE /\ connector_' = [Connector(fd, "handled") EXCEPT !.connected = TRUE]
       /\ newConnection(fd)

(* retry(), the callback of retryTimer_: a new Connector takes the place   *)
(* of the old one, whose channel may be waiting in activeChannels_.        *)
(* Variant: the old Connector stays.                                       *)
RetryNothing ==
  /\ Defined /\ retrying /\ retrying' = FALSE
  /\ UNCHANGED <<vars, memberVars, connectorVars>>
retry ==
  /\ Defined /\ retrying /\ retrying' = FALSE
  /\ IF connected_
     THEN UNCHANGED <<timerVars, asked, retryTimer_, connected_, connection_, connectorVars>>
     ELSE LET fd == Socket(open) IN
       /\ open' = CloseUnlessConnected \cup {fd}
       /\ ready' = FALSE /\ stale' = (stale \/ ready)
       /\ connectorStart(fd)
  /\ UNCHANGED <<byLoop, queueVars, lpc, handleVars, cpc>>

(* Connector::handleWrite for a channel that epoll reported: the channel   *)
(* is removed; an error is logged and left to the retry timer.  Variant:   *)
(* SO_ERROR is not looked at.                                              *)
IgnoreError == FALSE
ConnectFailed == connector_.phase = "refused"
handleWrite ==
  /\ Defined /\ lpc = "dispatch" /\ hpc = "none" /\ ready
  /\ ready' = FALSE
  /\ connector_' = [connector_ EXCEPT !.phase = "handled", !.connected = ~ConnectFailed]
  /\ IF ConnectFailed
     THEN UNCHANGED <<timerVars, asked, retryTimer_, connected_, connection_>>
     ELSE newConnection(connector_.sockfd)
  /\ UNCHANGED <<byLoop, queueVars, lpc, handleVars, cpc, retrying, stale, open>>

(* The channel of a destroyed Connector gets its turn.                     *)
staleEvents ==
  /\ ~undefined /\ lpc = "dispatch" /\ hpc = "none" /\ stale
  /\ undefined' = TRUE
  /\ UNCHANGED <<vars, memberVars, retrying, connectorVars, closing>>

(* closeConnection, and with it the end of the TcpConnection.              *)
closeConnection ==
  /\ connection_ # None
  /\ connection_' = None
  /\ open' = open \ {connection_}
  /\ UNCHANGED <<cpc, connected_, retryTimer_, retrying, connector_, ready, stale>>

(* closeConnection of a client that is destroyed: handleClose of the       *)
(* connection it left behind calls it through the bound this.              *)
closeDestroyed ==
  /\ ~undefined /\ closing # None
  /\ undefined' = TRUE
  /\ UNCHANGED <<memberVars, retrying, connectorVars, closing>>

(* handleClose of the connection for an event of its channel.              *)
connectionCloses ==
  /\ lpc = "dispatch" /\ hpc = "none"
  /\ (Defined /\ closeConnection) \/ closeDestroyed
  /\ UNCHANGED vars

(* ~TcpClient, in the loop thread outside timer callbacks: an open         *)
(* connection is closed by a task, to which the member leaves it.         *)
destructor ==
  /\ ~undefined /\ cpc \in {"new", "started"} /\ UserCode /\ hpc = "none"
  /\ cpc' = "destroyed"
  /\ pendingTasks_' = IF connection_ = None THEN pendingTasks_
                      ELSE Append(pendingTasks_, [op |-> "forceClose", timer |-> None])
  /\ connection_' = None /\ closing' = connection_
  /\ IF retryTimer_ = None THEN UNCHANGED <<timerVars, asked>>
     ELSE cancel(retryTimer_) /\ asked' = asked \cup {retryTimer_}
  /\ retryTimer_' = None
  /\ open' = CloseUnlessConnected
  /\ connector_' = [connector_ EXCEPT !.phase = "handled"]
  /\ ready' = FALSE /\ stale' = (stale \/ ready)
  /\ UNCHANGED <<byLoop, tasks, lpc, handleVars, connected_, retrying, undefined>>

(* forceCloseInLoop of that task, for a connection that is not closed.     *)
forceCloseInLoop ==
  /\ lpc = "tasks" /\ tasks # <<>> /\ Head(tasks).op = "forceClose"
  /\ tasks' = Tail(tasks)
  /\ closeDestroyed
  /\ UNCHANGED <<timerVars, byLoop, asked, pendingTasks_, lpc, handleVars>>
-----------------------------------------------------------------------------
(* The steps of TimerQueue and its loop, with what they mean here.         *)
(* The kernel's answer to connect() counts when epoll_wait sees it.        *)
clientPoll(result) ==
  /\ Defined /\ poll
  /\ IF connector_.phase = "connecting" /\ result # "none"
     THEN connector_' = [connector_ EXCEPT !.phase = result] /\ ready' = TRUE
     ELSE UNCHANGED <<connector_, ready>>
  /\ UNCHANGED <<memberVars, retrying, stale, open>>

clientRun == /\ Defined /\ run
             /\ retrying' = (running' = retryTimer_)
             /\ UNCHANGED <<memberVars, connectorVars>>

TimerStep == \/ handleRead \/ handleReadReturns \/ tasksDone
             \/ callbackReturns /\ ~retrying
             \/ doPendingTasks /\ ~ready /\ ~stale
             \/ tasks # <<>> /\ Head(tasks).op # "forceClose" /\ runTask

OtherCode == \E t \in Timers :
  \/ \E delay \in 0..MaxDelay : (addTimer(t, delay) /\ ~retrying) \/ otherAddTimer(t, delay)
  \/ cancelTimer(t) /\ ~retrying /\ t # retryTimer_
  \/ otherCancelTimer(t)

Results == {"none", "established", "refused"}
ClientLoopStep == \/ \E result \in Results : clientPoll(result)
                  \/ clientRun \/ retry \/ handleWrite \/ staleEvents
                  \/ forceCloseInLoop
                  \/ Defined /\ TimerStep /\ UNCHANGED clientVars

(* Undefined behaviour: nothing more is said.                              *)
Ended == undefined /\ UNCHANGED allVars

ClientNext == \/ start \/ destructor \/ ClientLoopStep \/ connectionCloses
              \/ Defined /\ (tick \/ OtherCode) /\ UNCHANGED clientVars
              \/ Ended

ClientSpec == ClientInit /\ [][ClientNext]_allVars

(* The loop runs, callbacks return, time passes; and a server that is      *)
(* asked again and again accepts, before the next retry is due, in the end.*)
(* Nobody has to call.                                                     *)
ClientFairness ==
  /\ WF_allVars(ClientLoopStep) /\ WF_allVars(Defined /\ tick /\ UNCHANGED clientVars)
  /\ SF_allVars(connector_.phase = "connecting" /\ clientPoll("established"))
  /\ SF_allVars(handleWrite /\ ~ConnectFailed)

ClientFairSpec == ClientSpec /\ ClientFairness
-----------------------------------------------------------------------------
(* The retry timer and the connection exclude each other: a client that    *)
(* has started owns a timer that exists until it has a connection, and     *)
(* holds no pointer to a timer afterwards.                                 *)
RetryTimerOwned ==
  /\ retryTimer_ # None => retryTimer_ \in heap \ asked
  /\ cpc = "started" => (connected_ <=> retryTimer_ = None)

(* Every open socket has one owner: a Connector that has not handed it     *)
(* over, the client's connection, or the task that ~TcpClient left the     *)
(* connection to.  Until an object that is gone is used, retries, refused  *)
(* attempts and the client's end neither leak a descriptor nor close one   *)
(* under a connection.                                                     *)
SocketsOwned ==
  open = (IF connector_.connected \/ cpc = "destroyed" THEN {} ELSE {connector_.sockfd})
           \cup ({connection_, closing} \ {None})

(* A client gets at most one connection in its life, and only from a       *)
(* connect() that has succeeded; a refused attempt never becomes one.      *)
OneConnection ==
  [][connection_' # connection_ /\ connection_' # None
       => connection_ = None /\ ~connected_ /\ connector_.phase = "established"]_allVars

(* Every timer of the loop runs or is cancelled, and a repeating one does  *)
(* so again and again, while the client starts, retries and ends beside it.*)
TimerRuns == \A t \in Timers : (t \in heap) ~> (running = t \/ t \notin heap \/ undefined)

(* Refused attempts are repeated until one succeeds.                       *)
ClientConnects == (cpc = "started") ~> (connected_ \/ cpc = "destroyed" \/ undefined)
=============================================================================

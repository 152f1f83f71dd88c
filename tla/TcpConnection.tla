--------------------------- MODULE TcpConnection ---------------------------
(***************************************************************************)
(* One TcpConnection (TcpConnection.cc) on its loop, with its Channel, the *)
(* closeConnection of the TcpServerSingle that owns it, the application's  *)
(* threads and the kernel socket.                                          *)
(*                                                                         *)
(* The loop thread is modelled as EventLoop specifies it - epoll_wait, the *)
(* active channels, then the batch of queued tasks - with the wake-ups     *)
(* left out: EventLoopProofs shows that a queued task is not forgotten.    *)
(* The loop has other channels, so epoll_wait may return at any time.      *)
(* Asserts are compiled out (the default build is Release): a failed one   *)
(* does not stop the program.                                              *)
(*                                                                         *)
(* A message is [by |-> thread, n |-> count of sends] and is MsgLen units  *)
(* long.                                                                   *)
(***************************************************************************)
EXTENDS Channel, Integers, FiniteSets

CONSTANTS LoopThread,      \* the thread of loop_
          Users,           \* other application threads given the pointer
          Ops,             \* Ops[th]: the operations thread th calls
          MaxCalls,        \* MaxCalls[th]: bound on the calls of th
          MsgLen,          \* units in a message
          HighWaterMark,   \* highWaterMark_, in units
          MaxRcv           \* bound on what the peer has sent and we not read

Threads == {LoopThread} \cup Users
AllOps == {"send", "shutdown", "forceClose", "stopRead", "startRead"}

ASSUME ThreadsAssumption == LoopThread \notin Users
ASSUME OpsAssumption == /\ Ops \in [Threads -> SUBSET AllOps]
                        /\ MaxCalls \in [Threads -> Nat]
ASSUME SizesAssumption == MsgLen \in Nat \ {0} /\ HighWaterMark \in Nat /\ MaxRcv \in Nat

VARIABLES state_, outputBuffer_,
          channel,         \* channel_
          revents,         \* revents_ while the channel waits in activeChannels_
          todo,            \* callbacks handleEventWithGuard has yet to call
          cb,              \* the user callback in progress, "none" or "aborted"
          lpc,             \* phase of the loop: "new", "poll", "dispatch", "tasks"
          pendingTasks_, tasks,
          inSet,           \* the connection is in the server's connections_
          held,            \* threads whose own code holds a TcpConnectionPtr
          ucall,           \* what a user thread has left to do in a call
          left,            \* calls each thread may still make
          sock,            \* the kernel socket
          wire,            \* units handed to the kernel, in order
          sent,            \* history: sends of each thread that were not refused
          accepted,        \* history: messages written or buffered by sendInLoop
          shutters,        \* history: threads whose shutdown() took effect
          closes,          \* history: calls of closeCallback_
          hupUrgent        \* history: a turn had EPOLLHUP and EPOLLPRI, not EPOLLIN

connVars == <<state_, outputBuffer_, channel, sock, wire>>
loopVars == <<revents, todo, cb, lpc, tasks>>
userVars == <<held, ucall, left>>
histVars == <<sent, accepted, shutters, closes, hupUrgent>>
vars == <<connVars, loopVars, pendingTasks_, inSet, userVars, histVars>>

Msg(th, n) == [by |-> th, n |-> n]
Units(m) == [i \in 1..MsgLen |-> [msg |-> m, unit |-> i]]
InCallback == cb \notin {"none", "aborted"}
Task(op, m) == [op |-> op, msg |-> m]
NoMsg == Msg("none", 0)

(* The closures of stopRead and startRead capture this, all others a       *)
(* shared_ptr.                                                             *)
HoldsConnection(task) == task.op \notin {"stopRead", "startRead"}

(* Somebody still owns the connection.  Once false it stays false: the     *)
(* destructor has run and sockfd_ is closed.                               *)
Alive == \/ lpc = "new" \/ inSet \/ held # {} \/ cb # "none" \/ todo # <<>>
         \/ \E i \in DOMAIN tasks : HoldsConnection(tasks[i])
         \/ \E i \in DOMAIN pendingTasks_ : HoldsConnection(pendingTasks_[i])

Init == /\ state_ = "kConnecting" /\ outputBuffer_ = <<>> /\ channel = NewChannel
        /\ sock = [rcv |-> 0, urg |-> -1, fin |-> FALSE, rst |-> FALSE,
                   soError |-> FALSE, shutWr |-> FALSE]
        /\ wire = <<>> /\ revents = {} /\ todo = <<>> /\ cb = "none" /\ lpc = "new"
        /\ tasks = <<>> /\ pendingTasks_ = <<>> /\ inSet = FALSE /\ held = {}
        /\ ucall = [th \in Users |-> "none"] /\ left = MaxCalls
        /\ sent = [th \in Threads |-> 0] /\ accepted = <<>> /\ shutters = {}
        /\ closes = 0 /\ hupUrgent = FALSE

(* Variant: the task is pushed to the front.                               *)
QueueFront(task) == pendingTasks_' = <<task>> \o pendingTasks_

(* queueInLoop, seen from outside the loop: the task is in the queue.      *)
Queue(task) == pendingTasks_' = Append(pendingTasks_, task)
-----------------------------------------------------------------------------
(* Functions that run in the loop thread.  Each constrains the primed      *)
(* variables of connVars, pendingTasks_, accepted that it may assign.      *)

(* What write(sockfd_, len units) may return: -1 for EPIPE or ECONNRESET,  *)
(* 0 for EAGAIN and other errors that leave the data to be retried.        *)
WriteResults(len) == IF sock.shutWr \/ sock.rst THEN {-1} ELSE 0..len

AfterWrite(n) == [sock EXCEPT !.soError = @ /\ n # -1]

(* The output has reached the mark.  Variant: it has passed it.            *)
MarkExceeded(oldLen, newLen) == oldLen < HighWaterMark /\ newLen > HighWaterMark
MarkReached(oldLen, newLen) == oldLen < HighWaterMark /\ newLen >= HighWaterMark

(* The channel once output waits.  Variant: EPOLLOUT is not asked for.     *)
NotWriting(c) == c
Writing(c) == enableWrite(c)

(* sendInLoop after a direct write of n units: queue the rest.             *)
BufferRest(m, n) ==
  LET rest == SubSeq(Units(m), n + 1, MsgLen)
      oldLen == Len(outputBuffer_)
  IN  /\ outputBuffer_' = outputBuffer_ \o rest
      /\ channel' = Writing(channel)
      /\ IF MarkReached(oldLen, oldLen + Len(rest))
         THEN Queue(Task("highWaterMark", NoMsg)) ELSE UNCHANGED pendingTasks_

(* No direct write: output is waiting.  Variant: it is not looked at.      *)
SendPastOutput == FALSE
OutputWaits == isWriting(channel)

sendInLoop(m) ==
  /\ UNCHANGED state_
  /\ IF state_ = "kDisconnected" THEN
       UNCHANGED <<outputBuffer_, channel, sock, wire, pendingTasks_, accepted>>
     ELSE IF OutputWaits THEN
       BufferRest(m, 0) /\ accepted' = Append(accepted, m) /\ UNCHANGED <<sock, wire>>
     ELSE \E n \in WriteResults(MsgLen) :
       /\ sock' = AfterWrite(n)
       /\ wire' = wire \o SubSeq(Units(m), 1, n)
       /\ accepted' = IF n = -1 THEN accepted ELSE Append(accepted, m)
       /\ CASE n = -1     -> UNCHANGED <<outputBuffer_, channel, pendingTasks_>>
            [] n = MsgLen -> /\ Queue(Task("writeComplete", NoMsg))
                             /\ UNCHANGED <<outputBuffer_, channel>>
            [] OTHER      -> BufferRest(m, n)

(* Variants: shut down over waiting output; only while kConnected.         *)
ShutdownAtOnce(c, s) == IF state_ # "kDisconnected" THEN [s EXCEPT !.shutWr = TRUE] ELSE s
ShutdownIfConnected(c, s) ==
  IF state_ = "kConnected" /\ ~isWriting(c)
  THEN [s EXCEPT !.shutWr = TRUE] ELSE s

(* shutdownInLoop, with the channel as the caller left it: the socket.     *)
shutdownInLoop(c, s) ==
  IF state_ # "kDisconnected" /\ ~isWriting(c) THEN [s EXCEPT !.shutWr = TRUE] ELSE s

(* closeCallback_, TcpServerSingle::closeConnection, up to the user's      *)
(* connection callback.  FATAL aborts when the erase finds nothing: the    *)
(* loop thread never comes out of cb = "aborted".                          *)
closeConnection ==
  /\ closes' = closes + 1
  /\ inSet' = FALSE
  /\ cb' = IF inSet THEN "down" ELSE "aborted"

handleClose ==
  /\ state_' = "kDisconnected"
  /\ channel' = removeChannel(channel)
  /\ closeConnection

(* handleError: SO_ERROR is read, which clears it, and logged.             *)
handleError == sock' = [sock EXCEPT !.soError = FALSE]

(* Variant: the state is not looked at again when the task runs.           *)
CloseAgain == handleClose

forceCloseInLoop == IF state_ # "kDisconnected" THEN handleClose
                    ELSE UNCHANGED <<state_, channel, closes, inSet, cb>>

(* What readv returns and what it leaves.  urg is the number of messages   *)
(* in front of an urgent byte, -1 without one: readv stops in front of the *)
(* byte, and at the byte skips it and takes what is behind.                *)
Readable == IF sock.urg > 0 THEN sock.urg ELSE sock.rcv
AfterRead == [sock EXCEPT !.rcv = @ - Readable, !.urg = IF @ > 0 THEN 0 ELSE -1]

(* handleRead: data goes to the message callback, end of stream closes.    *)
(* A pending error makes readv fail and is consumed by that.               *)
handleRead ==
  IF Readable > 0 THEN
    /\ sock' = AfterRead
    /\ cb' = "message"
    /\ UNCHANGED <<state_, channel, closes, inSet>>
  ELSE IF sock.soError THEN
    /\ sock' = [AfterRead EXCEPT !.soError = FALSE]
    /\ UNCHANGED <<state_, channel, closes, inSet, cb>>
  ELSE
    /\ sock' = AfterRead
    /\ IF sock.fin \/ sock.rst THEN handleClose
       ELSE UNCHANGED <<state_, channel, closes, inSet, cb>>

(* handleWrite: EPOLLOUT promises room for at least one unit, and writing  *)
(* an empty buffer returns 0.                                              *)
handleWrite ==
  /\ UNCHANGED state_
  /\ IF state_ = "kDisconnected" THEN
       UNCHANGED <<outputBuffer_, channel, sock, wire, pendingTasks_>>
     ELSE \E n \in WriteResults(Len(outputBuffer_)) :
       /\ n = 0 => outputBuffer_ = <<>>
       /\ wire' = wire \o SubSeq(outputBuffer_, 1, n)
       /\ IF n < Len(outputBuffer_) THEN
            /\ outputBuffer_' = IF n = -1 THEN outputBuffer_
                                ELSE SubSeq(outputBuffer_, n + 1, Len(outputBuffer_))
            /\ sock' = AfterWrite(n)
            /\ UNCHANGED <<channel, pendingTasks_>>
          ELSE
            /\ outputBuffer_' = <<>>
            /\ channel' = disableWrite(channel)
            /\ sock' = IF state_ = "kDisconnecting"
                       THEN shutdownInLoop(disableWrite(channel), sock) ELSE sock
            /\ Queue(Task("writeComplete", NoMsg))
-----------------------------------------------------------------------------
(* The loop.                                                               *)

connectEstablished == state_' = "kConnected" /\ channel' = enableRead(channel)

(* TcpServerSingle::newConnection, run by the acceptor's channel; the      *)
(* connection callback hands out the pointer.                              *)
newConnection ==
  /\ lpc = "new"
  /\ connectEstablished
  /\ inSet' = TRUE
  /\ held' = Threads
  /\ cb' = "up"
  /\ lpc' = "dispatch"
  /\ UNCHANGED <<outputBuffer_, sock, wire, revents, todo, tasks, pendingTasks_,
                 ucall, left, histVars>>

(* What epoll_wait reports for sockfd_; room: the send buffer has space.   *)
Revents(room) ==
  IF ~Alive \/ channel.epoll = NotInEpoll THEN {}
  ELSE (IF sock.rcv > 0 \/ sock.fin \/ sock.rst THEN {"IN"} \cap channel.epoll ELSE {})
       \cup (IF sock.urg >= 0 THEN {"PRI"} \cap channel.epoll ELSE {})
       \cup (IF room \/ sock.rst \/ sock.shutWr THEN {"OUT"} \cap channel.epoll ELSE {})
       \cup (IF sock.rst \/ (sock.fin /\ sock.shutWr) THEN {"HUP"} ELSE {})
       \cup (IF sock.soError THEN {"ERR"} ELSE {})

poll(room) ==
  /\ lpc = "poll"
  /\ revents' = Revents(room)
  /\ lpc' = "dispatch"
  /\ UNCHANGED <<connVars, todo, cb, tasks, pendingTasks_, inSet, userVars, histVars>>

(* Channel::handleEvents when its turn in activeChannels_ comes.           *)
handleEvents ==
  /\ lpc = "dispatch" /\ cb = "none" /\ todo = <<>> /\ revents # {}
  /\ todo' = handleEventWithGuard(revents)
  /\ revents' = {}
  /\ hupUrgent' = (hupUrgent \/ (HungUp(revents) /\ "PRI" \in revents))
  /\ UNCHANGED <<connVars, cb, lpc, tasks, pendingTasks_, inSet, userVars, sent, accepted,
                 shutters, closes>>

(* The next callback of the channel.                                       *)
handler ==
  /\ cb = "none" /\ todo # <<>>
  /\ todo' = Tail(todo)
  /\ CASE Head(todo) = "close" -> handleClose /\ UNCHANGED <<outputBuffer_, sock, wire, pendingTasks_>>
       [] Head(todo) = "error" -> /\ handleError
                                  /\ UNCHANGED <<state_, outputBuffer_, channel, wire,
                                                 closes, inSet, cb, pendingTasks_>>
       [] Head(todo) = "read"  -> handleRead /\ UNCHANGED <<outputBuffer_, wire, pendingTasks_>>
       [] Head(todo) = "write" -> handleWrite /\ UNCHANGED <<closes, inSet, cb>>
  /\ UNCHANGED <<revents, lpc, tasks, userVars, sent, accepted, shutters, hupUrgent>>

callbackReturns ==
  /\ InCallback
  /\ cb' = "none"
  /\ UNCHANGED <<connVars, revents, todo, lpc, tasks, pendingTasks_, inSet, userVars,
                 histVars>>

(* The dispatch is over.  Variant: channels still wait for their turn.     *)
TasksFirst == lpc = "dispatch" /\ cb = "none" /\ todo = <<>>
AllHandled == lpc = "dispatch" /\ cb = "none" /\ todo = <<>> /\ revents = {}

(* EventLoop::doPendingTasks, once every active channel has been handled.  *)
doPendingTasks ==
  /\ AllHandled
  /\ tasks' = pendingTasks_
  /\ pendingTasks_' = <<>>
  /\ lpc' = "tasks"
  /\ UNCHANGED <<connVars, revents, todo, cb, inSet, userVars, histVars>>

(* One queued task.  A closure that captured this and outlived the         *)
(* connection is undefined behaviour; nothing of the model changes.        *)
runTask ==
  /\ lpc = "tasks" /\ cb = "none" /\ tasks # <<>>
  /\ tasks' = Tail(tasks)
  /\ LET task == Head(tasks) IN
     CASE task.op = "send" ->
            sendInLoop(task.msg) /\ UNCHANGED <<cb, inSet, closes>>
       [] task.op = "shutdown" ->
            /\ sock' = shutdownInLoop(channel, sock)
            /\ UNCHANGED <<state_, outputBuffer_, channel, wire, pendingTasks_, cb,
                           inSet, accepted, closes>>
       [] task.op = "forceClose" ->
            forceCloseInLoop /\ UNCHANGED <<outputBuffer_, sock, wire, pendingTasks_, accepted>>
       [] task.op \in {"stopRead", "startRead"} ->
            /\ channel' = IF ~Alive THEN channel
                          ELSE IF task.op = "stopRead" /\ isReading(channel) THEN disableRead(channel)
                          ELSE IF task.op = "startRead" /\ ~isReading(channel) THEN enableRead(channel)
                          ELSE channel
            /\ UNCHANGED <<state_, outputBuffer_, sock, wire, pendingTasks_, cb, inSet,
                           accepted, closes>>
       [] task.op \in {"writeComplete", "highWaterMark"} ->
            /\ cb' = task.op
            /\ UNCHANGED <<connVars, pendingTasks_, inSet, accepted, closes>>
  /\ UNCHANGED <<revents, todo, lpc, userVars, sent, shutters, hupUrgent>>

tasksDone ==
  /\ lpc = "tasks" /\ cb = "none" /\ tasks = <<>>
  /\ lpc' = "poll"
  /\ UNCHANGED <<connVars, revents, todo, cb, tasks, pendingTasks_, inSet, userVars,
                 histVars>>
-----------------------------------------------------------------------------
(* Calls by application code in the loop thread: inside a callback of the  *)
(* connection, or elsewhere (a timer, another channel, a queued closure)   *)
(* with a pointer of its own.  send to startRead are the functions as the  *)
(* loop thread executes them.                                              *)
OtherLoopCode == lpc \in {"dispatch", "tasks"} /\ cb = "none" /\ todo = <<>>

LoopCall(op) ==
  /\ op \in Ops[LoopThread] /\ left[LoopThread] > 0
  /\ left' = [left EXCEPT ![LoopThread] = @ - 1]
  /\ InCallback \/ (OtherLoopCode /\ LoopThread \in held)

send == IF state_ = "kConnected"
        THEN /\ sendInLoop(Msg(LoopThread, sent[LoopThread] + 1))
             /\ sent' = [sent EXCEPT ![LoopThread] = @ + 1]
        ELSE UNCHANGED <<connVars, pendingTasks_, sent, accepted>>

shutdown ==
  /\ state_' = "kDisconnecting"
  /\ sock' = IF state_ = "kConnected" THEN shutdownInLoop(channel, sock) ELSE sock
  /\ shutters' = IF state_ = "kConnected" THEN shutters \cup {LoopThread} ELSE shutters

forceClose == IF state_ # "kDisconnected"
              THEN state_' = "kDisconnecting" /\ Queue(Task("forceClose", NoMsg))
              ELSE UNCHANGED <<state_, pendingTasks_>>

stopRead == channel' = IF isReading(channel) THEN disableRead(channel) ELSE channel
startRead == channel' = IF isReading(channel) THEN channel ELSE enableRead(channel)

loopSend == /\ LoopCall("send") /\ send
            /\ UNCHANGED <<loopVars, inSet, held, ucall, shutters, closes, hupUrgent>>

(* The caller is in the loop thread, so it can and must keep the asserted  *)
(* precondition state_ != kDisconnected.                                   *)
loopShutdown == /\ LoopCall("shutdown") /\ state_ # "kDisconnected" /\ shutdown
                /\ UNCHANGED <<outputBuffer_, channel, wire, loopVars, pendingTasks_,
                               inSet, held, ucall, sent, accepted, closes, hupUrgent>>

loopForceClose == /\ LoopCall("forceClose") /\ forceClose
                  /\ UNCHANGED <<outputBuffer_, channel, sock, wire, loopVars, inSet,
                                 held, ucall, histVars>>

loopStopRead == /\ LoopCall("stopRead") /\ stopRead
                /\ UNCHANGED <<state_, outputBuffer_, sock, wire, loopVars,
                               pendingTasks_, inSet, held, ucall, histVars>>

(* Application code in the loop thread reads again only while the          *)
(* connection is up; EchoServer.cc does not test that, see EchoServer.     *)
loopStartRead == /\ LoopCall("startRead") /\ state_ = "kConnected" /\ startRead
                 /\ UNCHANGED <<state_, outputBuffer_, sock, wire, loopVars,
                                pendingTasks_, inSet, held, ucall, histVars>>

(* Calls by other threads: a test or an exchange of state_, then the push. *)
UserCall(th, op) ==
  /\ op \in Ops[th] /\ left[th] > 0 /\ th \in held /\ ucall[th] = "none"
  /\ left' = [left EXCEPT ![th] = @ - 1]

userSend(th) ==
  /\ UserCall(th, "send")
  /\ IF state_ = "kConnected"
     THEN /\ ucall' = [ucall EXCEPT ![th] = "send"]
          /\ sent' = [sent EXCEPT ![th] = @ + 1]
     ELSE UNCHANGED <<ucall, sent>>
  /\ UNCHANGED <<connVars, loopVars, pendingTasks_, inSet, held, accepted, shutters,
                 closes, hupUrgent>>

userShutdown(th) ==
  /\ UserCall(th, "shutdown")
  /\ state_' = "kDisconnecting"
  /\ IF state_ = "kConnected"
     THEN /\ ucall' = [ucall EXCEPT ![th] = "shutdown"]
          /\ shutters' = shutters \cup {th}
     ELSE UNCHANGED <<ucall, shutters>>
  /\ UNCHANGED <<outputBuffer_, channel, sock, wire, loopVars, pendingTasks_, inSet,
                 held, sent, accepted, closes, hupUrgent>>

userForceClose(th) ==
  /\ UserCall(th, "forceClose")
  /\ ucall' = [ucall EXCEPT ![th] = IF state_ # "kDisconnected" THEN "exchange" ELSE "none"]
  /\ UNCHANGED <<connVars, loopVars, pendingTasks_, inSet, held, histVars>>

userExchange(th) ==
  /\ ucall[th] = "exchange"
  /\ state_' = "kDisconnecting"
  /\ ucall' = [ucall EXCEPT ![th] = IF state_ # "kDisconnected" THEN "forceClose" ELSE "none"]
  /\ UNCHANGED <<outputBuffer_, channel, sock, wire, loopVars, pendingTasks_, inSet,
                 held, left, histVars>>

userQueues(th) ==
  /\ ucall[th] \in {"send", "shutdown", "forceClose"}
  /\ Queue(Task(ucall[th], Msg(th, sent[th])))
  /\ ucall' = [ucall EXCEPT ![th] = "none"]
  /\ UNCHANGED <<connVars, loopVars, inSet, held, left, histVars>>

userReadControl(th) ==
  /\ \E op \in {"stopRead", "startRead"} : UserCall(th, op) /\ Queue(Task(op, NoMsg))
  /\ UNCHANGED <<connVars, loopVars, inSet, held, ucall, histVars>>

(* A thread lets go of its TcpConnectionPtr.                               *)
release(th) ==
  /\ th \in held
  /\ IF th = LoopThread THEN InCallback \/ OtherLoopCode ELSE ucall[th] = "none"
  /\ held' = held \ {th}
  /\ UNCHANGED <<connVars, loopVars, pendingTasks_, inSet, ucall, left, histVars>>
-----------------------------------------------------------------------------
(* The peer: sends, sends an urgent byte when none is waiting, closes its  *)
(* side, resets.                                                           *)
PeerActs(s) ==
  /\ lpc # "new" /\ Alive /\ ~sock.rst
  /\ sock' = s
  /\ UNCHANGED <<state_, outputBuffer_, channel, wire, loopVars, pendingTasks_, inSet,
                 userVars, histVars>>

peerSends == ~sock.fin /\ sock.rcv < MaxRcv /\ PeerActs([sock EXCEPT !.rcv = @ + 1])
peerSendsUrgent == ~sock.fin /\ sock.urg = -1 /\ PeerActs([sock EXCEPT !.urg = sock.rcv])
peerCloses == ~sock.fin /\ PeerActs([sock EXCEPT !.fin = TRUE])
peerResets == PeerActs([sock EXCEPT !.rst = TRUE, !.soError = TRUE])
-----------------------------------------------------------------------------
LoopStep == \/ \E room \in BOOLEAN : poll(room)
            \/ handleEvents \/ handler \/ doPendingTasks \/ runTask \/ tasksDone
LoopCalls == loopSend \/ loopShutdown \/ loopForceClose \/ loopStopRead \/ loopStartRead
UserStep(th) == \/ userSend(th) \/ userShutdown(th) \/ userForceClose(th)
                \/ userExchange(th) \/ userQueues(th) \/ userReadControl(th)
Peer == peerSends \/ peerSendsUrgent \/ peerCloses \/ peerResets

Next == \/ newConnection \/ LoopStep \/ callbackReturns \/ LoopCalls \/ Peer
        \/ \E th \in Users : UserStep(th)
        \/ \E th \in Threads : release(th)

Spec == Init /\ [][Next]_vars

(* The loop keeps running and callbacks return, a thread inside a call     *)
(* finishes it, and a peer that does not reset the connection keeps        *)
(* reading, so that the send buffer has room again and again.  Nobody has  *)
(* to call anything or to let go of a pointer.                             *)
Fairness == /\ WF_vars(LoopStep) /\ WF_vars(callbackReturns)
            /\ SF_vars(poll(TRUE))
            /\ \A th \in Users : WF_vars(userExchange(th)) /\ WF_vars(userQueues(th))

FairSpec == Spec /\ Fairness
-----------------------------------------------------------------------------
(* The messages that sendInLoop took, as one stream of units.              *)
Stream == [i \in 1..(Len(accepted) * MsgLen) |->
             Units(accepted[((i - 1) \div MsgLen) + 1])[((i - 1) % MsgLen) + 1]]

(* What was handed to the kernel followed by what waits in outputBuffer_   *)
(* is exactly the accepted messages one after the other: direct writes,    *)
(* partial writes, appends and handleWrite neither tear, repeat, drop nor  *)
(* overtake data.                                                          *)
OutputIntact == wire \o outputBuffer_ = Stream

(* The messages of one thread are accepted in the order of its send()      *)
(* calls and without a gap, wherever the thread runs.                      *)
SendOrder ==
  \A i \in DOMAIN accepted :
    /\ accepted[i].n >= 1
    /\ \A j \in DOMAIN accepted :
         i < j /\ accepted[i].by = accepted[j].by => accepted[i].n < accepted[j].n
    /\ accepted[i].n > 1 =>
         \E j \in DOMAIN accepted : accepted[j] = Msg(accepted[i].by, accepted[i].n - 1)

(* While the connection is open the channel asks for EPOLLOUT exactly when *)
(* there is buffered output: neither does output wait with nobody to send  *)
(* it nor does handleWrite find an empty buffer (the asserts of            *)
(* handleWrite and sendInLoop).                                            *)
WritingIffOutput == closes = 0 => (isWriting(channel) <=> outputBuffer_ # <<>>)

(* The poller's view (pooling, events_) is what the kernel holds, so no    *)
(* epoll_ctl ever fails.                                                   *)
EpollAgrees == channel.epoll = IF channel.pooling THEN channel.events ELSE NotInEpoll

(* closeCallback_ runs at most once and finds the connection in the        *)
(* server's set (the FATAL of closeConnection is not reached), and from    *)
(* then on the connection stays out of epoll and disconnected.  There is   *)
(* one exception: handleEventWithGuard runs closeCallback_ on EPOLLHUP     *)
(* without EPOLLIN and then readCallback_ on EPOLLPRI, which stopRead      *)
(* leaves registered, and that read may find the end of the stream.        *)
ClosedOnce ==
  ~hupUrgent => /\ cb # "aborted" /\ closes <= 1
                /\ closes = 1 => ~inSet /\ ~channel.pooling /\ state_ = "kDisconnected"

(* A channel waiting in activeChannels_ belongs to a living connection:    *)
(* forceClose always goes through the queue, so nothing that runs before   *)
(* the channel's turn can destroy it.                                      *)
ActiveChannelAlive == revents # {} => Alive

(* A thread that sends and then calls shutdown() gets everything out: when *)
(* the write side is shut, all it sent has reached the kernel (unless the  *)
(* peer reset the connection).  Holds for shutdown() in the loop thread; a *)
(* thread elsewhere stores kDisconnecting before its sends have been run,  *)
(* and handleWrite may then shut the socket too early.                     *)
GracefulShutdown ==
  sock.shutWr /\ ~sock.rst =>
    \A th \in shutters : \A n \in 1..sent[th] :
      \E i \in DOMAIN wire : wire[i] = [msg |-> Msg(th, n), unit |-> MsgLen]

(* shutdown() and forceClose() take effect: a connection that started to   *)
(* disconnect has its write side shut or is closed in the end, whatever    *)
(* was buffered.                                                           *)
DisconnectingEnds ==
  state_ = "kDisconnecting" ~> (sock.shutWr \/ sock.rst \/ closes > 0)

(* The close callback follows a reset by the peer, whichever of read,      *)
(* write and error handling meets it first.                                *)
ResetCloses == sock.rst ~> closes > 0
=============================================================================

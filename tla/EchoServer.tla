----------------------------- MODULE EchoServer -----------------------------
(***************************************************************************)
(* The callbacks of examples/EchoServer.cc on one TcpConnection: echo what *)
(* arrives, stop reading when the output passes the high-water mark, read  *)
(* again when it has been written, and force-close idle connections from a *)
(* timer.  The server runs on one loop, so that every callback is in the   *)
(* loop thread and Users is empty; LoopThread \in held stands for the      *)
(* entry of the connection in EchoServer::connections_.                    *)
(***************************************************************************)
EXTENDS TcpConnection

CONSTANTS MaxRequests,  \* bound on the messages the peer sends
          MaxUrgent     \* bound on its urgent bytes

ASSUME EchoAssumption == Users = {} /\ {MaxRequests, MaxUrgent} \subseteq Nat /\ HighWaterMark > 0

VARIABLES echoed,       \* sends made by the onMessage in progress
          requests,     \* messages the peer has sent so far
          urgents       \* urgent bytes it has sent so far

echoVars == <<vars, echoed, requests, urgents>>

EchoInit == Init /\ echoed = 0 /\ requests = 0 /\ urgents = 0

Same == UNCHANGED <<echoed, requests, urgents>>

(* onConnection, up: set the high-water mark, enter the timeout table;     *)
(* down: leave the table.                                                  *)
onConnection ==
  /\ cb \in {"up", "down"}
  /\ held' = IF cb = "up" THEN held \cup {LoopThread} ELSE held \ {LoopThread}
  /\ cb' = "none"
  /\ UNCHANGED <<connVars, revents, todo, lpc, tasks, pendingTasks_, inSet, ucall, left, histVars>>
  /\ Same

(* onMessage: the greeting, then the buffer.                               *)
onMessageSends ==
  /\ cb = "message" /\ echoed < 2
  /\ send
  /\ echoed' = echoed + 1
  /\ UNCHANGED <<loopVars, inSet, userVars, shutters, closes, hupUrgent,
                 requests, urgents>>

(* The end of onMessage: a new deadline in the table.                      *)
onMessageReturns ==
  /\ cb = "message" /\ echoed = 2
  /\ cb' = "none"
  /\ echoed' = 0
  /\ held' = held \cup {LoopThread}
  /\ UNCHANGED <<connVars, revents, todo, lpc, tasks, pendingTasks_, inSet, ucall, left,
                 histVars, requests, urgents>>

onWriteComplete ==
  /\ cb = "writeComplete"
  /\ IF ~isReading(channel) THEN startRead /\ held' = held \cup {LoopThread}
                            ELSE UNCHANGED <<channel, held>>
  /\ cb' = "none"
  /\ UNCHANGED <<state_, outputBuffer_, sock, wire, revents, todo, lpc, tasks,
                 pendingTasks_, inSet, ucall, left, histVars>>
  /\ Same

onHighWaterMark ==
  /\ cb = "highWaterMark"
  /\ stopRead
  /\ held' = held \cup {LoopThread}
  /\ cb' = "none"
  /\ UNCHANGED <<state_, outputBuffer_, sock, wire, revents, todo, lpc, tasks,
                 pendingTasks_, inSet, ucall, left, histVars>>
  /\ Same

(* onTimeout, run by the timer's channel, finds the connection expired.    *)
(* Variant: the entry is erased and the connection left open.              *)
TimeoutForgets ==
  /\ lpc = "dispatch" /\ cb = "none" /\ todo = <<>> /\ LoopThread \in held
  /\ held' = held \ {LoopThread}
  /\ UNCHANGED <<connVars, loopVars, pendingTasks_, inSet, ucall, left, histVars>>
  /\ Same
onTimeout ==
  /\ lpc = "dispatch" /\ cb = "none" /\ todo = <<>> /\ LoopThread \in held
  /\ forceClose
  /\ held' = held \ {LoopThread}
  /\ UNCHANGED <<outputBuffer_, channel, sock, wire, loopVars, inSet, ucall, left, histVars>>
  /\ Same

echoPeerSends == /\ requests < MaxRequests
                 /\ peerSends
                 /\ requests' = requests + 1
                 /\ UNCHANGED <<echoed, urgents>>

echoPeerSendsUrgent == /\ urgents < MaxUrgent
                       /\ peerSendsUrgent
                       /\ urgents' = urgents + 1
                       /\ UNCHANGED <<echoed, requests>>

EchoCallback == \/ onConnection \/ onMessageSends \/ onMessageReturns
                \/ onWriteComplete \/ onHighWaterMark

EchoNext == \/ EchoCallback \/ onTimeout \/ echoPeerSends \/ echoPeerSendsUrgent
            \/ newConnection /\ Same
            \/ LoopStep /\ Same
            \/ peerCloses /\ Same
            \/ peerResets /\ Same

(* As in TcpConnection: the loop runs, callbacks go on, the peer reads.    *)
EchoFairness == /\ WF_echoVars(LoopStep /\ Same) /\ WF_echoVars(EchoCallback)
                /\ SF_echoVars(poll(TRUE) /\ Same)

EchoSpec == EchoInit /\ [][EchoNext]_echoVars /\ EchoFairness
-----------------------------------------------------------------------------
(* The output of a connection stays bounded however many ordinary messages *)
(* the peer sends and however slowly it reads: from the mark on EPOLLIN is *)
(* off, so only the two sends of the callback that passed the mark come on *)
(* top.  stopRead leaves EPOLLPRI on: an urgent byte lets a connection     *)
(* that stopped reading read twice more, in front of the byte and past it, *)
(* and answer each time.                                                   *)
OutputBounded == Len(outputBuffer_) <= HighWaterMark - 1 + 2 * MsgLen * (1 + 2 * urgents)

(* Reading is never stopped for good: whatever the order in which the      *)
(* high-water-mark and write-complete callbacks were queued, a connection  *)
(* that stopped reading reads again or is closed.                          *)
ReadingResumes ==
  (lpc # "new" /\ ~isReading(channel)) ~> (isReading(channel) \/ closes > 0)

(* An open connection is always in the timeout table, where onTimeout      *)
(* finds it when it falls idle: an entry is erased only with the           *)
(* connection on its way to the end, whatever callbacks ran in between.    *)
OpenIsTimed == (lpc # "new" /\ cb # "up" /\ state_ = "kConnected") => LoopThread \in held

(* The assertion at the top of TcpConnection::handleRead: read events are  *)
(* only handled while the connection is not kDisconnected.                 *)
ReadOnlyWhileOpen ==
  (todo # <<>> /\ cb = "none" /\ Head(todo) = "read") => state_ # "kDisconnected"
=============================================================================

-------------------------- MODULE EchoServerProofs --------------------------
(***************************************************************************)
(* Proofs about EchoServer, for any number of requests, message length and *)
(* positive high-water mark: the output of a connection stays bounded,     *)
(* intact and in order, and the channel's registration stays consistent,   *)
(* even after onWriteComplete has registered a closed connection again.    *)
(***************************************************************************)
EXTENDS EchoServer, TcpConnectionProofs

(* The tasks that are ever queued when all code runs in the loop thread.   *)
EchoOps == {"writeComplete", "highWaterMark", "forceClose"}

NoneIn(q, op) == \A i \in 1..Len(q) : q[i].op # op
NoRead(q) == \A i \in 1..Len(q) : q[i] # "read"
OneRead(q) == \A i, j \in 1..Len(q) : q[i] = "read" /\ q[j] = "read" => i = j

(* In the queue q a high-water-mark callback waits that no write-complete  *)
(* callback follows.                                                       *)
StopIn(q) == \E i \in 1..Len(q) : /\ q[i].op = "highWaterMark"
                                  /\ \A j \in 1..Len(q) : j > i => q[j].op # "writeComplete"

(* With q queued, callback c in progress and the channel reading or not:   *)
(* when everything queued has run the channel does not read.               *)
WillStop(q, c, reading) ==
  \/ StopIn(q)
  \/ NoneIn(q, "writeComplete") /\ c = "highWaterMark"
  \/ NoneIn(q, "writeComplete") /\ c # "writeComplete" /\ ~reading

(* handleRead is to be called in this turn of the loop.                    *)
ReadDue == "IN" \in revents \/ "PRI" \in revents \/ ~NoRead(todo)

(* The reads that the urgent byte in the socket still allows a connection  *)
(* that has stopped reading, how many at most it has made, and the output  *)
(* that k onMessage calls leave on top of what is below the mark.          *)
Allowed == IF sock.urg > 0 THEN 2 ELSE IF sock.urg = 0 THEN 1 ELSE 0
Spent == 2 * urgents - Allowed
Past(k) == HighWaterMark - 1 + 2 * MsgLen * k

(* Where in its turn the loop is.                                          *)
EchoTurn ==
  /\ lpc # "tasks" => tasks = <<>>
  /\ lpc \in {"tasks", "poll"} => pendingTasks_ = <<>>
  /\ lpc # "dispatch" => todo = <<>> /\ revents = {} /\ cb # "message"
  /\ lpc = "poll" => cb = "none"
  /\ todo # <<>> \/ cb = "message" => revents = {}
  /\ cb = "message" => NoRead(todo)
  /\ OneRead(todo)
  /\ lpc = "new" => outputBuffer_ = <<>> /\ closes = 0
  /\ closes # 0 => state_ = "kDisconnected"

EchoQueue == \A i \in 1..Len(Queued) : Queued[i].op \in EchoOps

EchoCount == echoed \in 0..2 /\ (cb # "message" => echoed = 0) /\ urgents \in Nat /\ Spent \in Nat

(* While the connection is open: onMessage starts below the mark or spends *)
(* an urgent byte, nothing else is read from the mark on, and reading      *)
(* stops or has stopped.                                                   *)
EchoLimit ==
  /\ OutputBounded
  /\ state_ # "kDisconnected" =>
       /\ cb = "message" => Len(outputBuffer_) <= Past(Spent) + echoed * MsgLen
       /\ cb # "message" => Len(outputBuffer_) <= Past(Spent + 1)
       /\ ReadDue => Len(outputBuffer_) < HighWaterMark \/ sock.urg >= 0
       /\ Len(outputBuffer_) >= HighWaterMark => WillStop(Queued, cb, isReading(channel))

EchoInv == EchoTurn /\ EchoQueue /\ EchoCount /\ EchoLimit
-----------------------------------------------------------------------------
LEMMA PastFacts ==
  ASSUME NEW k \in Nat, NEW j \in Nat, k <= j
  PROVE  /\ Past(k) \in Int /\ Past(j) \in Int /\ Past(k) <= Past(j) /\ HighWaterMark - 1 <= Past(k)
         /\ Past(k + 1) = Past(k) + 2 * MsgLen
<1> USE SizesAssumption
<1>1. PICK d \in Nat : j = k + d
  <2>1. j - k \in Nat /\ j = k + (j - k)
    OBVIOUS
  <2> QED
    BY <2>1
<1>2. MsgLen * k \in Nat /\ MsgLen * d \in Nat
  OBVIOUS
<1>3. 2 * MsgLen * j = 2 * (MsgLen * k) + 2 * (MsgLen * d) /\ 2 * MsgLen * k = 2 * (MsgLen * k)
  BY <1>1
<1>4. 2 * MsgLen * (k + 1) = 2 * (MsgLen * k) + 2 * MsgLen
  OBVIOUS
<1> QED
  BY <1>2, <1>3, <1>4 DEF Past

LEMMA BoundedFacts == OutputBounded <=> Len(outputBuffer_) <= Past(1 + 2 * urgents)
BY DEF OutputBounded, Past

(* What bounds the output at every step bounds it for good.                *)
LEMMA SpentFacts ==
  ASSUME urgents \in Nat, Spent \in Nat
  PROVE  /\ Past(Spent + 1) <= Past(1 + 2 * urgents) /\ Past(Spent + 1) = Past(Spent) + 2 * MsgLen
         /\ Past(Spent) \in Int /\ Past(Spent + 1) \in Int /\ Past(1 + 2 * urgents) \in Int
         /\ HighWaterMark - 1 <= Past(Spent)
<1>1. Spent + 1 <= 1 + 2 * urgents /\ Spent + 1 \in Nat /\ 1 + 2 * urgents \in Nat
  BY DEF Spent, Allowed
<1> QED
  BY <1>1, PastFacts

(* The queue.                                                              *)
LEMMA PushStop ==
  ASSUME NEW q \in Seq(TaskSet), NEW x \in TaskSet, x.op = "highWaterMark" PROVE StopIn(Append(q, x))
<1>1. PICK p \in Seq(TaskSet) : p = Append(q, x)
  <2>1. Append(q, x) \in Seq(TaskSet)
    OBVIOUS
  <2> QED
    BY <2>1, Zenon
<1>2. Len(p) = Len(q) + 1 /\ p[Len(p)] = x /\ Len(p) \in 1..Len(p)
  BY <1>1
<1>3. \A j \in 1..Len(p) : ~(j > Len(p))
  BY <1>2
<1> QED
  BY <1>1, <1>2, <1>3 DEF StopIn

LEMMA PushNone ==
  ASSUME NEW q \in Seq(TaskSet), NEW x \in TaskSet, NEW op, NoneIn(q, op), x.op # op
  PROVE  NoneIn(Append(q, x), op)
<1>1. PICK p \in Seq(TaskSet) : p = Append(q, x)
  <2>1. Append(q, x) \in Seq(TaskSet)
    OBVIOUS
  <2> QED
    BY <2>1, Zenon
<1>2. \A i \in 1..Len(p) : p[i] = x \/ (i \in 1..Len(q) /\ p[i] = q[i])
  BY <1>1
<1> QED
  BY <1>1, <1>2 DEF NoneIn

LEMMA PushKeepsStop ==
  ASSUME NEW q \in Seq(TaskSet), NEW x \in TaskSet, x.op # "writeComplete",
         NEW c, NEW r, WillStop(q, c, r)
  PROVE  WillStop(Append(q, x), c, r)
<1>1. PICK p \in Seq(TaskSet) : p = Append(q, x)
  <2>1. Append(q, x) \in Seq(TaskSet)
    OBVIOUS
  <2> QED
    BY <2>1, Zenon
<1>2. CASE StopIn(q)
  <2>1. PICK i \in 1..Len(q) : /\ q[i].op = "highWaterMark"
                               /\ \A j \in 1..Len(q) : j > i => q[j].op # "writeComplete"
    BY <1>2 DEF StopIn
  <2>2. i \in 1..Len(p) /\ p[i] = q[i]
    BY <1>1
  <2>3. \A j \in 1..Len(p) : p[j] = x \/ (j \in 1..Len(q) /\ p[j] = q[j])
    BY <1>1
  <2>4. StopIn(p)
    BY <2>1, <2>2, <2>3 DEF StopIn
  <2> QED
    BY <1>1, <2>4 DEF WillStop
<1>3. CASE NoneIn(q, "writeComplete")
  BY <1>2, <1>3, PushNone DEF WillStop
<1> QED
  BY <1>2, <1>3 DEF WillStop

LEMMA PopKeepsStop ==
  ASSUME NEW q \in Seq(TaskSet), q # <<>>, NEW r, WillStop(q, "none", r),
         Head(q).op \in {"writeComplete", "highWaterMark"}
  PROVE  WillStop(Tail(q), Head(q).op, r)
<1>1. PICK p \in Seq(TaskSet) : p = Tail(q)
  <2>1. Tail(q) \in Seq(TaskSet)
    OBVIOUS
  <2> QED
    BY <2>1, Zenon
<1>2. /\ Len(p) = Len(q) - 1 /\ Head(q) = q[1] /\ 1 \in 1..Len(q)
      /\ \A i \in 1..Len(p) : i + 1 \in 1..Len(q) /\ p[i] = q[i + 1]
      /\ \A i \in 1..Len(q) : i = 1 \/ (i - 1 \in 1..Len(p) /\ p[i - 1] = q[i])
  BY <1>1
<1>3. CASE StopIn(q)
  <2>1. PICK i \in 1..Len(q) : /\ q[i].op = "highWaterMark"
                               /\ \A j \in 1..Len(q) : j > i => q[j].op # "writeComplete"
    BY <1>3 DEF StopIn
  <2>2. CASE i = 1
    <3>1. NoneIn(p, "writeComplete")
      BY <1>2, <2>1, <2>2 DEF NoneIn
    <3> QED
      BY <1>1, <1>2, <2>1, <2>2, <3>1 DEF WillStop
  <2>3. CASE i # 1
    <3>1. i - 1 \in 1..Len(p) /\ p[i - 1] = q[i]
      BY <1>2, <2>3
    <3>2. \A j \in 1..Len(p) : j > i - 1 => p[j].op # "writeComplete"
      BY <1>2, <2>1
    <3>3. StopIn(p)
      BY <2>1, <3>1, <3>2 DEF StopIn
    <3> QED
      BY <1>1, <3>3 DEF WillStop
  <2> QED
    BY <2>2, <2>3
<1>4. CASE NoneIn(q, "writeComplete")
  <2>1. NoneIn(p, "writeComplete") /\ Head(q).op = "highWaterMark"
    BY <1>2, <1>4 DEF NoneIn
  <2> QED
    BY <1>1, <2>1 DEF WillStop
<1> QED
  BY <1>3, <1>4 DEF WillStop
-----------------------------------------------------------------------------
(* The channel, seen through EPOLLIN.                                      *)
LEMMA ReadingFacts ==
  ASSUME NEW c, Good(c)
  PROVE  /\ isReading(enableWrite(c)) = isReading(c) /\ isReading(disableWrite(c)) = isReading(c)
         /\ ~isReading(disableRead(c)) /\ isReading(enableRead(c))
         /\ "IN" \in c.epoll => isReading(c)
<1>1. c.events \in EventMasks /\ c.pooling \in BOOLEAN
  BY DEF Good, ChannelState
<1>2. /\ c.events \cup {"OUT"} \in EventMasks /\ c.events \ {"IN"} \in EventMasks
      /\ c.events \ {"OUT"} \in EventMasks /\ c.events \cup {"IN", "PRI"} \in EventMasks
  BY <1>1 DEF EventMasks
<1>3. /\ Updated(c, c.events \cup {"OUT"}, enableWrite(c))
      /\ Updated(c, c.events \ {"IN"}, disableRead(c))
      /\ Updated(c, c.events \ {"OUT"}, disableWrite(c))
      /\ Updated(c, c.events \cup {"IN", "PRI"}, enableRead(c))
  BY <1>2, UpdateFacts DEF enableWrite, disableRead, disableWrite, enableRead
<1>4. "IN" \in c.epoll => isReading(c)
  BY <1>1 DEF Good, NotInEpoll, isReading
<1> QED
  BY <1>3, <1>4 DEF Updated, isReading

(* The callbacks.                                                          *)
LEMMA JoinNoRead ==
  ASSUME NEW p \in Seq(Callbacks), NEW q \in Seq(Callbacks), NoRead(q)
  PROVE  (NoRead(p) => NoRead(p \o q)) /\ (OneRead(p) => OneRead(p \o q))
<1>1. PICK s \in Seq(Callbacks) : s = p \o q
  <2>1. p \o q \in Seq(Callbacks)
    OBVIOUS
  <2> QED
    BY <2>1, Zenon
<1>2. \A i \in 1..Len(s) : (i \in 1..Len(p) /\ s[i] = p[i])
                           \/ (i - Len(p) \in 1..Len(q) /\ s[i] = q[i - Len(p)])
  BY <1>1
<1>3. \A i \in 1..Len(s) : s[i] = "read" => i \in 1..Len(p) /\ s[i] = p[i]
  BY <1>2 DEF NoRead
<1>4. NoRead(p) => NoRead(s)
  BY <1>3 DEF NoRead
<1>5. OneRead(p) => OneRead(s)
  BY <1>3 DEF OneRead
<1> QED
  BY <1>1, <1>4, <1>5

LEMMA JoinOneRead ==
  ASSUME NEW p \in Seq(Callbacks), NEW q \in Seq(Callbacks), NoRead(p), OneRead(q)
  PROVE  OneRead(p \o q)
<1>1. PICK s \in Seq(Callbacks) : s = p \o q
  <2>1. p \o q \in Seq(Callbacks)
    OBVIOUS
  <2> QED
    BY <2>1, Zenon
<1>2. \A i \in 1..Len(s) : (i \in 1..Len(p) /\ s[i] = p[i])
                           \/ (i - Len(p) \in 1..Len(q) /\ s[i] = q[i - Len(p)])
  BY <1>1
<1>3. \A i \in 1..Len(s) : s[i] = "read" => i - Len(p) \in 1..Len(q) /\ s[i] = q[i - Len(p)]
  BY <1>2 DEF NoRead
<1>4. ASSUME NEW i \in 1..Len(s), NEW j \in 1..Len(s), s[i] = "read", s[j] = "read" PROVE i = j
  <2>1. i - Len(p) = j - Len(p)
    BY <1>3, <1>4 DEF OneRead
  <2> QED
    BY <2>1
<1> QED
  BY <1>1, <1>4 DEF OneRead

LEMMA GuardReads ==
  ASSUME NEW r \in SUBSET {"IN", "PRI", "OUT", "HUP", "ERR"}
  PROVE  /\ OneRead(handleEventWithGuard(r))
         /\ "IN" \notin r /\ "PRI" \notin r => NoRead(handleEventWithGuard(r))
<1>1. /\ <<"close">> \in Seq(Callbacks) /\ <<"error">> \in Seq(Callbacks)
      /\ <<"read">> \in Seq(Callbacks) /\ <<"write">> \in Seq(Callbacks) /\ <<>> \in Seq(Callbacks)
  BY DEF Callbacks
<1>2. NoRead(<<>>) /\ NoRead(<<"error">>) /\ NoRead(<<"write">>) /\ NoRead(<<"close">>)
  BY DEF NoRead
<1>3. OneRead(<<"read">>) /\ OneRead(<<>>)
  BY DEF OneRead
<1>4. PICK a \in Seq(Callbacks) : a = IF HungUp(r) THEN <<"close">> ELSE <<>>
  BY <1>1, Zenon
<1>5. PICK b \in Seq(Callbacks) : b = IF "ERR" \in r THEN <<"error">> ELSE <<>>
  BY <1>1, Zenon
<1>6. PICK c \in Seq(Callbacks) : c = IF r \cap {"IN", "PRI", "RDHUP"} # {} THEN <<"read">> ELSE <<>>
  BY <1>1, Zenon
<1>7. PICK d \in Seq(Callbacks) : d = IF "OUT" \in r THEN <<"write">> ELSE <<>>
  BY <1>1, Zenon
<1>8. NoRead(a) /\ NoRead(b) /\ NoRead(d) /\ OneRead(c)
  BY <1>2, <1>3, <1>4, <1>5, <1>6, <1>7, Zenon
<1>9. a \o b \in Seq(Callbacks) /\ (a \o b) \o c \in Seq(Callbacks)
  OBVIOUS
<1>10. NoRead(a \o b)
  BY <1>8, JoinNoRead, Zenon
<1>11. OneRead((a \o b) \o c)
  BY <1>8, <1>9, <1>10, JoinOneRead, Zenon
<1>12. OneRead(((a \o b) \o c) \o d)
  BY <1>8, <1>9, <1>11, JoinNoRead, Zenon
<1>13. handleEventWithGuard(r) = ((a \o b) \o c) \o d
  BY <1>4, <1>5, <1>6, <1>7, Zenon DEF handleEventWithGuard
<1>14. ASSUME "IN" \notin r, "PRI" \notin r PROVE NoRead(((a \o b) \o c) \o d)
  <2>1. r \cap {"IN", "PRI", "RDHUP"} = {}
    BY <1>14
  <2>2. NoRead(c)
    BY <1>2, <1>6, <2>1
  <2>3. NoRead((a \o b) \o c)
    BY <1>9, <1>10, <2>2, JoinNoRead, Zenon
  <2> QED
    BY <1>8, <1>9, <2>3, JoinNoRead, Zenon
<1> QED
  BY <1>12, <1>13, <1>14, Zenon

LEMMA TailReads ==
  ASSUME NEW q \in Seq(Callbacks), OneRead(q), q # <<>>
  PROVE  /\ NoRead(q) => NoRead(Tail(q)) /\ Head(q) # "read"
         /\ Head(q) = "read" => NoRead(Tail(q))
         /\ OneRead(Tail(q))
<1>1. PICK t \in Seq(Callbacks) : t = Tail(q)
  <2>1. Tail(q) \in Seq(Callbacks)
    OBVIOUS
  <2> QED
    BY <2>1, Zenon
<1>2. Len(q) > 0 /\ Head(q) = q[1] /\ 1 \in 1..Len(q)
  OBVIOUS
<1>3. \A i \in 1..Len(t) : i + 1 \in 1..Len(q) /\ t[i] = q[i + 1] /\ i + 1 # 1
  BY <1>1, <1>2
<1>4. NoRead(q) => NoRead(t) /\ Head(q) # "read"
  BY <1>2, <1>3 DEF NoRead
<1>5. ASSUME Head(q) = "read" PROVE NoRead(t)
  BY <1>2, <1>3, <1>5 DEF OneRead, NoRead
<1>6. ASSUME NEW i \in 1..Len(t), NEW j \in 1..Len(t), t[i] = "read", t[j] = "read" PROVE i = j
  <2>1. i + 1 = j + 1
    BY <1>3, <1>6 DEF OneRead
  <2> QED
    BY <2>1
<1> QED
  BY <1>1, <1>4, <1>5, <1>6 DEF OneRead
-----------------------------------------------------------------------------
(* What is queued, and how the output moves across the mark.               *)
Adds(op) == \E x \in TaskSet : x.op = op /\ pendingTasks_' = Append(pendingTasks_, x)

LEMMA QueueAdds == ASSUME NEW op \in TaskOps, Queue(Task(op, NoMsg)) PROVE Adds(op)
<1>1. PICK x \in TaskSet : x = Task(op, NoMsg)
  BY TaskFacts, NoMsgFacts, Zenon
<1> QED
  BY <1>1 DEF Adds, Queue, Task

LEMMA AddsFacts ==
  ASSUME QueueType, EchoQueue, tasks' = tasks,
         pendingTasks_' = pendingTasks_ \/ \E op \in EchoOps : Adds(op)
  PROVE  /\ EchoQueue'
         /\ pendingTasks_' = pendingTasks_ => Queued' = Queued
         /\ Adds("highWaterMark") => StopIn(Queued')
         /\ Adds("forceClose") =>
              \A c, r : WillStop(Queued, c, r) => WillStop(Queued', c, r)
<1>1. Queued \in Seq(TaskSet)
  BY QueuedFacts
<1>2. ASSUME NEW x \in TaskSet, pendingTasks_' = Append(pendingTasks_, x) PROVE Queued' = Append(Queued, x)
  BY <1>2, QueuedFacts DEF Queued
<1>3. pendingTasks_' = pendingTasks_ => Queued' = Queued
  BY DEF Queued
<1>4. ASSUME NEW op \in EchoOps, Adds(op) PROVE EchoQueue'
  <2>1. PICK x \in TaskSet : x.op = op /\ pendingTasks_' = Append(pendingTasks_, x)
    BY <1>4 DEF Adds
  <2>2. Queued' = Append(Queued, x)
    BY <1>2, <2>1
  <2>3. \A i \in 1..Len(Queued') : Queued'[i] = x \/ (i \in 1..Len(Queued) /\ Queued'[i] = Queued[i])
    BY <1>1, <2>2
  <2> QED
    BY <1>4, <2>1, <2>3 DEF EchoQueue
<1>5. EchoQueue'
  BY <1>3, <1>4 DEF EchoQueue
<1>6. ASSUME Adds("highWaterMark") PROVE StopIn(Queued')
  BY <1>1, <1>2, <1>6, PushStop DEF Adds
<1>7. ASSUME Adds("forceClose"), NEW c, NEW r, WillStop(Queued, c, r) PROVE WillStop(Queued', c, r)
  <2>1. PICK x \in TaskSet : x.op = "forceClose" /\ pendingTasks_' = Append(pendingTasks_, x)
    BY <1>7 DEF Adds
  <2> QED
    BY <1>1, <1>2, <1>7, <2>1, PushKeepsStop
<1> QED
  BY <1>3, <1>5, <1>6, <1>7

LEMMA RestMark ==
  ASSUME Base, NEW m \in Msgs, NEW n \in 0..(MsgLen - 1), BufferRest(m, n)
  PROVE  /\ Len(outputBuffer_') = Len(outputBuffer_) + MsgLen - n
         /\ isReading(channel') = isReading(channel)
         /\ \/ Adds("highWaterMark")
            \/ /\ pendingTasks_' = pendingTasks_
               /\ Len(outputBuffer_') >= HighWaterMark => Len(outputBuffer_) >= HighWaterMark
<1> USE SizesAssumption
<1>1. outputBuffer_ \in Seq(UnitSet) /\ Good(channel)
  BY DEF Base, ConnType
<1>2. PICK rest \in Seq(UnitSet) : rest = SubSeq(Units(m), n + 1, MsgLen) /\ Len(rest) = MsgLen - n
  <2>1. /\ SubSeq(Units(m), n + 1, MsgLen) \in Seq(UnitSet)
        /\ Len(SubSeq(Units(m), n + 1, MsgLen)) = MsgLen - n
    BY UnitsFacts
  <2> QED
    BY <2>1, Zenon
<1>3. /\ outputBuffer_' = outputBuffer_ \o rest /\ channel' = enableWrite(channel)
      /\ IF MarkReached(Len(outputBuffer_), Len(outputBuffer_) + Len(rest))
         THEN Queue(Task("highWaterMark", NoMsg)) ELSE UNCHANGED pendingTasks_
  BY <1>2 DEF BufferRest, Writing
<1>4. Len(outputBuffer_') = Len(outputBuffer_) + Len(rest) /\ Len(outputBuffer_) \in Nat
  BY <1>1, <1>3
<1>5. isReading(channel') = isReading(channel)
  BY <1>1, <1>3, ReadingFacts
<1>6. CASE MarkReached(Len(outputBuffer_), Len(outputBuffer_) + Len(rest))
  <2>1. "highWaterMark" \in TaskOps
    BY DEF TaskOps
  <2>2. Adds("highWaterMark")
    BY <1>3, <1>6, <2>1, QueueAdds
  <2> QED
    BY <1>2, <1>4, <1>5, <2>2
<1>7. CASE ~MarkReached(Len(outputBuffer_), Len(outputBuffer_) + Len(rest))
  BY <1>2, <1>3, <1>4, <1>5, <1>7 DEF MarkReached
<1> QED
  BY <1>6, <1>7

(* What sendInLoop does: at most one message more, and when the output is  *)
(* at or past the mark afterwards, it was so before or the high-water-mark *)
(* callback has just been queued.                                          *)
LEMMA SendMark ==
  ASSUME Base, closes = 0, NEW m \in Msgs, sendInLoop(m)
  PROVE  /\ Len(outputBuffer_') <= Len(outputBuffer_) + MsgLen
         /\ isReading(channel') = isReading(channel)
         /\ pendingTasks_' = pendingTasks_ \/ \E op \in EchoOps : Adds(op)
         /\ Len(outputBuffer_') >= HighWaterMark =>
              \/ Adds("highWaterMark")
              \/ pendingTasks_' = pendingTasks_ /\ Len(outputBuffer_) >= HighWaterMark
<1> USE SizesAssumption, EchoAssumption
<1>1. /\ outputBuffer_ \in Seq(UnitSet) /\ state_ # "kDisconnected"
      /\ (~isWriting(channel) => outputBuffer_ = <<>>)
  BY DEF Base, ConnType, Open, WritingIffOutput
<1>2. Len(outputBuffer_) \in Nat
  BY <1>1
<1>3. ASSUME NEW n \in 0..(MsgLen - 1), BufferRest(m, n)
      PROVE  /\ Len(outputBuffer_') <= Len(outputBuffer_) + MsgLen
             /\ isReading(channel') = isReading(channel)
             /\ pendingTasks_' = pendingTasks_ \/ \E op \in EchoOps : Adds(op)
             /\ Len(outputBuffer_') >= HighWaterMark =>
                  \/ Adds("highWaterMark")
                  \/ pendingTasks_' = pendingTasks_ /\ Len(outputBuffer_) >= HighWaterMark
  BY <1>2, <1>3, RestMark DEF EchoOps
<1>4. CASE OutputWaits
  <2>1. BufferRest(m, 0) /\ 0 \in 0..(MsgLen - 1)
    BY <1>1, <1>4 DEF sendInLoop
  <2> QED
    BY <1>3, <2>1
<1>5. CASE ~OutputWaits
  <2>1. PICK n \in WriteResults(MsgLen) :
          CASE n = -1     -> UNCHANGED <<outputBuffer_, channel, pendingTasks_>>
            [] n = MsgLen -> /\ Queue(Task("writeComplete", NoMsg))
                             /\ UNCHANGED <<outputBuffer_, channel>>
            [] OTHER      -> BufferRest(m, n)
    BY <1>1, <1>5 DEF sendInLoop
  <2>2. n \in -1..MsgLen
    BY <2>1 DEF WriteResults
  <2>3. Len(outputBuffer_) = 0
    BY <1>1, <1>5 DEF OutputWaits
  <2>4. CASE n = -1
    BY <2>1, <2>3, <2>4
  <2>5. CASE n = MsgLen
    <3>1. Queue(Task("writeComplete", NoMsg)) /\ UNCHANGED <<outputBuffer_, channel>>
      BY <2>1, <2>5
    <3>2. Adds("writeComplete")
      BY <3>1, QueueAdds DEF TaskOps
    <3> QED
      BY <2>3, <3>1, <3>2 DEF EchoOps
  <2>6. CASE n # -1 /\ n # MsgLen
    <3>1. BufferRest(m, n) /\ n \in 0..(MsgLen - 1)
      BY <2>1, <2>2, <2>6
    <3> QED
      BY <1>3, <3>1
  <2> QED
    BY <2>4, <2>5, <2>6
<1> QED
  BY <1>4, <1>5

(* handleWrite never adds output, and queues nothing while some is left.   *)
LEMMA WriteMark ==
  ASSUME Base, handleWrite
  PROVE  /\ Len(outputBuffer_') <= Len(outputBuffer_)
         /\ pendingTasks_' = pendingTasks_ \/ \E op \in EchoOps : Adds(op)
         /\ Len(outputBuffer_') > 0 => pendingTasks_' = pendingTasks_ /\ channel' = channel
<1>1. outputBuffer_ \in Seq(UnitSet)
  BY DEF Base, ConnType
<1>2. Len(outputBuffer_) \in Nat
  BY <1>1
<1>3. CASE state_ = "kDisconnected"
  BY <1>2, <1>3 DEF handleWrite
<1>4. CASE state_ # "kDisconnected"
  <2>1. PICK n \in WriteResults(Len(outputBuffer_)) :
          IF n < Len(outputBuffer_) THEN
            /\ outputBuffer_' = IF n = -1 THEN outputBuffer_
                                ELSE SubSeq(outputBuffer_, n + 1, Len(outputBuffer_))
            /\ UNCHANGED <<channel, pendingTasks_>>
          ELSE outputBuffer_' = <<>> /\ Queue(Task("writeComplete", NoMsg))
    BY <1>4 DEF handleWrite
  <2>2. n \in -1..Len(outputBuffer_)
    BY <1>2, <2>1 DEF WriteResults
  <2>3. CASE n < Len(outputBuffer_)
    <3>1. Len(outputBuffer_') <= Len(outputBuffer_)
      <4>1. CASE n = -1
        BY <1>2, <2>1, <2>3, <4>1
      <4>2. CASE n # -1
        <5>1. outputBuffer_' = SubSeq(outputBuffer_, n + 1, Len(outputBuffer_)) /\ n \in 0..Len(outputBuffer_)
          BY <2>1, <2>2, <2>3, <4>2
        <5> QED
          BY <1>1, <1>2, <5>1
      <4> QED
        BY <4>1, <4>2
    <3> QED
      BY <2>1, <2>3, <3>1
  <2>4. CASE ~(n < Len(outputBuffer_))
    <3>1. outputBuffer_' = <<>> /\ Adds("writeComplete")
      BY <2>1, <2>4, QueueAdds DEF TaskOps
    <3>2. Len(outputBuffer_') = 0
      BY <3>1
    <3> QED
      BY <1>2, <3>1, <3>2 DEF EchoOps
  <2> QED
    BY <2>3, <2>4
<1> QED
  BY <1>3, <1>4
-----------------------------------------------------------------------------
(* Base holds of the echo server too: its callbacks are calls of the loop  *)
(* thread.                                                                 *)
QuietPeer == peerSends \/ peerCloses \/ peerResets
EchoCalls == onConnection \/ onMessageReturns \/ onWriteComplete \/ onHighWaterMark

LEMMA EchoSteps ==
  ASSUME [EchoNext]_echoVars
  PROVE  \/ EchoCalls \/ onMessageSends \/ onTimeout
         \/ /\ [Next]_vars /\ UNCHANGED <<echoed, urgents>>
            /\ newConnection \/ LoopStep \/ QuietPeer \/ UNCHANGED vars
         \/ [Next]_vars /\ echoPeerSendsUrgent
BY DEF EchoNext, EchoCallback, EchoCalls, echoPeerSends, echoPeerSendsUrgent, Same, Next, Peer,
       QuietPeer, echoVars

LEMMA CallsFacts ==
  ASSUME EchoCalls
  PROVE  /\ channel' \in {channel, disableRead(channel), enableRead(channel)}
         /\ UNCHANGED <<state_, outputBuffer_, sock, wire, pendingTasks_, closes, sent, accepted, todo,
                        revents, tasks, ucall, lpc, urgents>>
         /\ cb # "none" /\ cb' = "none" /\ echoed' = (IF cb = "message" THEN 0 ELSE echoed)
         /\ cb = "message" => echoed = 2
BY DEF EchoCalls, onConnection, onMessageReturns, onWriteComplete, onHighWaterMark, startRead, stopRead,
       connVars, histVars, Same

LEMMA SendsFacts ==
  ASSUME onMessageSends
  PROVE  /\ cb = "message" /\ echoed < 2 /\ send /\ echoed' = echoed + 1
         /\ UNCHANGED <<todo, revents, cb, lpc, tasks, ucall, closes, urgents>>
BY DEF onMessageSends, loopVars, userVars

LEMMA TimeoutFacts ==
  ASSUME onTimeout
  PROVE  /\ lpc = "dispatch" /\ cb = "none" /\ todo = <<>> /\ forceClose
         /\ UNCHANGED <<outputBuffer_, channel, sock, wire, revents, todo, cb, lpc, tasks, ucall, sent,
                        accepted, closes, echoed, urgents>>
BY DEF onTimeout, loopVars, histVars, Same

LEMMA EchoKeepsBase == ASSUME Base, [EchoNext]_echoVars PROVE Base'
<1>1. CASE EchoCalls
  BY <1>1, CallsFacts, ReadCallKeepsBase
<1>2. CASE onMessageSends
  BY <1>2, SendsFacts, SendCallKeepsBase
<1>3. CASE onTimeout
  BY <1>3, TimeoutFacts, CloseCallKeepsBase
<1> QED
  BY <1>1, <1>2, <1>3, EchoSteps, BaseKeeps

LEMMA EchoBase == EchoSpec => []Base
<1>1. EchoInit => Base
  BY BaseStart DEF EchoInit
<1>2. Base /\ [EchoNext]_echoVars => Base'
  BY EchoKeepsBase
<1> QED
  BY <1>1, <1>2, PTL DEF EchoSpec
-----------------------------------------------------------------------------
(* The steps that keep EchoInv.                                            *)
LEMMA EchoStart == EchoInit => EchoInv
<1> SUFFICES ASSUME EchoInit PROVE EchoInv
  OBVIOUS
<1>1. /\ lpc = "new" /\ tasks = <<>> /\ pendingTasks_ = <<>> /\ todo = <<>> /\ revents = {} /\ cb = "none"
      /\ outputBuffer_ = <<>> /\ closes = 0 /\ echoed = 0 /\ urgents = 0 /\ sock.urg = -1
  BY DEF EchoInit, Init
<1>2. Len(outputBuffer_) = 0 /\ Len(todo) = 0 /\ Queued = <<>>
  BY <1>1 DEF Queued
<1>3. EchoTurn /\ EchoQueue /\ EchoCount
  BY <1>1, <1>2 DEF EchoTurn, EchoQueue, EchoCount, OneRead, Spent, Allowed
<1>4. EchoLimit
  <2>1. 0 <= Past(Spent + 1) /\ 0 <= Past(1 + 2 * urgents)
    BY <1>3, SpentFacts, SizesAssumption, EchoAssumption DEF EchoCount
  <2> QED
    BY <1>1, <1>2, <2>1, BoundedFacts, EchoAssumption, SizesAssumption DEF EchoLimit, ReadDue, NoRead
<1> QED
  BY <1>3, <1>4 DEF EchoInv

(* The allowance of the urgent bytes never shrinks.                        *)
UrgentKept == /\ urgents' \in Nat /\ urgents <= urgents'
              /\ Spent' \in Nat /\ Spent <= Spent'

LEMMA UrgentSame ==
  ASSUME EchoCount, urgents' = urgents, sock'.urg = sock.urg
  PROVE  UrgentKept /\ Spent' = Spent
BY DEF EchoCount, UrgentKept, Spent, Allowed

LEMMA UrgentRead ==
  ASSUME Base, EchoCount, urgents' = urgents, handleRead
  PROVE  UrgentKept /\ (sock.urg >= 0 => Spent' = Spent + 1)
<1>1. sock.urg \in Int /\ sock \in Socks
  BY DEF Base, ConnType, Socks
<1>2. sock' \in {AfterRead, [AfterRead EXCEPT !.soError = FALSE]}
  BY DEF handleRead
<1>3. sock'.urg = IF sock.urg > 0 THEN 0 ELSE -1
  BY <1>1, <1>2 DEF AfterRead, Socks
<1>4. Spent \in Nat /\ urgents \in Nat
  BY DEF EchoCount
<1>5. Spent = 2 * urgents - Allowed /\ Spent' = 2 * urgents - Allowed'
  BY DEF Spent
<1>6. Allowed' = IF sock.urg > 0 THEN 1 ELSE 0
  BY <1>1, <1>3 DEF Allowed
<1>7. Allowed = IF sock.urg > 0 THEN 2 ELSE IF sock.urg = 0 THEN 1 ELSE 0
  BY DEF Allowed
<1> QED
  BY <1>1, <1>4, <1>5, <1>6, <1>7 DEF UrgentKept

LEMMA UrgentSent ==
  ASSUME Base, EchoCount, echoPeerSendsUrgent
  PROVE  /\ UrgentKept /\ ~(sock.urg >= 0)
         /\ UNCHANGED <<state_, outputBuffer_, channel, revents, todo, cb, lpc, tasks, pendingTasks_, closes,
                        echoed>>
<1>1. /\ urgents' = urgents + 1 /\ sock.urg = -1 /\ Spent \in Nat /\ urgents \in Nat
  BY DEF EchoCount, echoPeerSendsUrgent, peerSendsUrgent
<1>2. Spent = 2 * urgents /\ Spent' \in {2 * urgents', 2 * urgents' - 1, 2 * urgents' - 2}
  BY <1>1 DEF Spent, Allowed
<1>3. UrgentKept
  BY <1>1, <1>2 DEF UrgentKept
<1> QED
  BY <1>1, <1>3 DEF echoPeerSendsUrgent, peerSendsUrgent, PeerActs, loopVars, histVars

LEMMA NextNat ==
  ASSUME NEW k \in Nat, NEW j \in Nat, k <= j
  PROVE  /\ k + 1 \in Nat /\ j + 1 \in Nat /\ k + 1 <= j + 1
         /\ 1 + 2 * k \in Nat /\ 1 + 2 * j \in Nat /\ 1 + 2 * k <= 1 + 2 * j
OBVIOUS

LEMMA SpentBelow == ASSUME NEW u \in Nat, NEW a \in 0..2 PROVE (2 * u - a) + 1 <= 1 + 2 * u
OBVIOUS

LEMMA BoundGrows ==
  ASSUME EchoCount, UrgentKept
  PROVE  /\ Past(Spent) <= Past(Spent') /\ Past(Spent + 1) <= Past(Spent' + 1)
         /\ Past(1 + 2 * urgents) <= Past(1 + 2 * urgents')
         /\ Past(Spent') \in Int /\ Past(Spent' + 1) \in Int /\ Past(1 + 2 * urgents') \in Int
         /\ Past(Spent') = Past(Spent)' /\ Past(Spent' + 1) = Past(Spent + 1)'
         /\ Past(1 + 2 * urgents') = Past(1 + 2 * urgents)'
         /\ Past(Spent' + 1) = Past(Spent') + 2 * MsgLen
         /\ Past(Spent' + 1) <= Past(1 + 2 * urgents') /\ HighWaterMark - 1 <= Past(Spent')
<1>1. Spent \in Nat /\ Spent' \in Nat /\ Spent <= Spent' /\ urgents \in Nat /\ urgents' \in Nat /\ urgents <= urgents'
  BY DEF EchoCount, UrgentKept
<1>2. Spent + 1 \in Nat /\ Spent' + 1 \in Nat /\ Spent + 1 <= Spent' + 1
  BY <1>1, NextNat
<1>3. 1 + 2 * urgents \in Nat /\ 1 + 2 * urgents' \in Nat /\ 1 + 2 * urgents <= 1 + 2 * urgents'
  BY <1>1, NextNat
<1>4. Spent' + 1 <= 1 + 2 * urgents'
  <2>1. Allowed' \in 0..2
    BY DEF Allowed
  <2>2. Spent' = 2 * urgents' - Allowed'
    BY DEF Spent
  <2> QED
    BY <1>1, <2>1, <2>2, SpentBelow
<1>5. /\ Past(Spent') = Past(Spent)' /\ Past(Spent' + 1) = Past(Spent + 1)'
      /\ Past(1 + 2 * urgents') = Past(1 + 2 * urgents)'
  BY DEF Past
<1>6. /\ Past(Spent) <= Past(Spent') /\ Past(Spent') \in Int /\ HighWaterMark - 1 <= Past(Spent')
      /\ Past(Spent' + 1) = Past(Spent') + 2 * MsgLen
  BY <1>1, PastFacts
<1>7. Past(Spent + 1) <= Past(Spent' + 1) /\ Past(Spent' + 1) \in Int
  BY <1>2, PastFacts
<1>8. Past(1 + 2 * urgents) <= Past(1 + 2 * urgents') /\ Past(1 + 2 * urgents') \in Int
  BY <1>3, PastFacts
<1>9. Past(Spent' + 1) <= Past(1 + 2 * urgents')
  BY <1>2, <1>3, <1>4, PastFacts
<1> QED
  BY <1>5, <1>6, <1>7, <1>8, <1>9

(* Once disconnected, the output does not change any more.                 *)
LEMMA LimitGone ==
  ASSUME Base, EchoCount, UrgentKept, EchoLimit, UNCHANGED outputBuffer_, state_' = "kDisconnected"
  PROVE  EchoLimit'
<1>1. Len(outputBuffer_) \in Nat
  BY DEF Base, ConnType
<1>2. Past(1 + 2 * urgents) \in Int
  BY SpentFacts DEF EchoCount
<1>3. Len(outputBuffer_) <= Past(1 + 2 * urgents)'
  BY <1>1, <1>2, BoundGrows, BoundedFacts DEF EchoLimit
<1>4. OutputBounded'
  BY <1>3 DEF OutputBounded, Past
<1> QED
  BY <1>4 DEF EchoLimit

(* A step that at most turns off what is due.                              *)
LEMMA LimitStays ==
  ASSUME Base, EchoCount, UrgentKept, EchoLimit, UNCHANGED outputBuffer_,
         state_ = "kDisconnected" => state_' = "kDisconnected",
         cb' = "message" => cb = "message" /\ echoed' = echoed,
         cb = "message" /\ cb' # "message" => echoed = 2,
         ReadDue' => ReadDue /\ (sock.urg >= 0 => sock'.urg >= 0),
         WillStop(Queued, cb, isReading(channel)) => WillStop(Queued', cb', isReading(channel'))
  PROVE  EchoLimit'
<1>1. CASE state_' = "kDisconnected"
  BY <1>1, LimitGone
<1>2. CASE state_' # "kDisconnected"
  <2>1. Len(outputBuffer_) \in Nat
    BY DEF Base, ConnType
  <2>2. Past(Spent) \in Int /\ Past(Spent + 1) \in Int /\ Past(1 + 2 * urgents) \in Int
    BY SpentFacts DEF EchoCount
  <2>3. OutputBounded'
    <3>1. Len(outputBuffer_) <= Past(1 + 2 * urgents)'
      BY <2>1, <2>2, BoundGrows, BoundedFacts DEF EchoLimit
    <3> QED
      BY <3>1 DEF OutputBounded, Past
  <2>4. ASSUME cb' = "message" PROVE Len(outputBuffer_) <= Past(Spent') + echoed' * MsgLen
    <3>1. PICK e \in Int : e = echoed * MsgLen
      BY SizesAssumption DEF EchoCount
    <3>2. Len(outputBuffer_) <= Past(Spent) + e
      BY <1>2, <2>4, <3>1 DEF EchoLimit
    <3>3. Len(outputBuffer_) <= Past(Spent') + e
      BY <2>1, <2>2, <3>2, BoundGrows
    <3> QED
      BY <2>4, <3>1, <3>3
  <2>5. ASSUME cb' # "message" PROVE Len(outputBuffer_) <= Past(Spent' + 1)
    <3>1. Len(outputBuffer_) <= Past(Spent + 1)
      <4>1. CASE cb = "message"
        BY <1>2, <2>1, <2>2, <2>5, <4>1, SpentFacts DEF EchoLimit, EchoCount
      <4>2. CASE cb # "message"
        BY <1>2, <4>2 DEF EchoLimit
      <4> QED
        BY <4>1, <4>2
    <3> QED
      BY <2>1, <2>2, <3>1, BoundGrows
  <2>6. ReadDue' => Len(outputBuffer_) < HighWaterMark \/ sock'.urg >= 0
    BY <1>2 DEF EchoLimit
  <2>7. Len(outputBuffer_) >= HighWaterMark => WillStop(Queued', cb', isReading(channel'))
    BY <1>2 DEF EchoLimit
  <2> QED
    BY <2>3, <2>4, <2>5, <2>6, <2>7, BoundGrows DEF EchoLimit
<1> QED
  BY <1>1, <1>2

LEMMA CallsKeepEcho == ASSUME Base, EchoInv, EchoCalls PROVE EchoInv'
<1>1. /\ UNCHANGED <<state_, outputBuffer_, pendingTasks_, closes, todo, revents, tasks, lpc, sock, urgents>>
      /\ cb # "none" /\ cb' = "none" /\ echoed' = (IF cb = "message" THEN 0 ELSE echoed)
      /\ cb = "message" => echoed = 2
  BY CallsFacts
<1>2. Queued' = Queued /\ ReadDue' = ReadDue /\ UrgentKept
  BY <1>1, UrgentSame DEF Queued, ReadDue, EchoInv
<1>3. EchoTurn' /\ EchoQueue' /\ EchoCount'
  <2>1. EchoTurn'
    BY <1>1 DEF EchoInv, EchoTurn
  <2>2. EchoQueue'
    BY <1>2 DEF EchoInv, EchoQueue
  <2> QED
    BY <1>1, <1>2, <2>1, <2>2 DEF EchoInv, EchoCount, UrgentKept
<1>4. ASSUME WillStop(Queued, cb, isReading(channel)) PROVE WillStop(Queued, "none", isReading(channel'))
  <2>1. CASE onWriteComplete
    BY <1>4, <2>1 DEF WillStop, onWriteComplete
  <2>2. CASE onHighWaterMark
    <3>1. ~isReading(channel')
      BY <2>2, ReadingFacts DEF onHighWaterMark, stopRead, Base, ConnType
    <3> QED
      BY <1>4, <2>2, <3>1 DEF WillStop, onHighWaterMark
  <2>3. CASE onConnection \/ onMessageReturns
    <3>1. channel' = channel /\ cb # "highWaterMark"
      BY <2>3 DEF onConnection, onMessageReturns, connVars
    <3> QED
      BY <1>4, <3>1 DEF WillStop
  <2> QED
    BY <2>1, <2>2, <2>3 DEF EchoCalls
<1>5. EchoLimit'
  BY <1>1, <1>2, <1>4, LimitStays DEF EchoInv
<1> QED
  BY <1>3, <1>5 DEF EchoInv

LEMMA TimeoutKeepsEcho == ASSUME Base, EchoInv, onTimeout PROVE EchoInv'
<1>1. /\ lpc = "dispatch" /\ cb = "none" /\ todo = <<>> /\ forceClose
      /\ UNCHANGED <<outputBuffer_, channel, revents, todo, cb, lpc, tasks, closes, echoed, sock, urgents>>
  BY TimeoutFacts
<1>2. \/ UNCHANGED <<state_, pendingTasks_>>
      \/ state_ # "kDisconnected" /\ Adds("forceClose")
  BY <1>1, QueueAdds DEF forceClose, TaskOps, AllOps
<1>3. EchoQueue' /\ \A c, r : WillStop(Queued, c, r) => WillStop(Queued', c, r)
  BY <1>1, <1>2, AddsFacts DEF Base, EchoInv, EchoOps
<1>4. EchoTurn' /\ EchoCount' /\ ReadDue' = ReadDue /\ UrgentKept
  <2>1. closes' # 0 => state_' = "kDisconnected"
    BY <1>1, <1>2 DEF EchoInv, EchoTurn
  <2>2. UrgentKept
    BY <1>1, UrgentSame DEF EchoInv
  <2> QED
    BY <1>1, <2>1, <2>2 DEF EchoInv, EchoTurn, EchoCount, ReadDue, UrgentKept
<1>5. EchoLimit'
  BY <1>1, <1>2, <1>3, <1>4, LimitStays DEF EchoInv
<1> QED
  BY <1>3, <1>4, <1>5 DEF EchoInv

LEMMA EchoSendIs ==
  ASSUME Base, onMessageSends
  PROVE  UNCHANGED <<wire, outputBuffer_, accepted, channel, sock, pendingTasks_, sent>>
         \/ (state_ = "kConnected" /\ \E m \in Msgs : sendInLoop(m))
<1>1. CASE state_ = "kConnected"
  <2>1. PICK k \in Nat : k = sent[LoopThread] + 1
    BY DEF Base, HistType, Threads
  <2>2. sendInLoop(Msg(LoopThread, k)) /\ Msg(LoopThread, k) \in Msgs
    BY <1>1, <2>1, SendsFacts DEF send, Msg, Msgs, Threads
  <2> QED
    BY <1>1, <2>2
<1> QED
  BY <1>1, SendsFacts DEF send, connVars

(* Writing leaves the urgent byte of the peer alone.                       *)
LEMMA UrgentWrite ==
  ASSUME Base, handleWrite \/ (\E m \in Msgs : sendInLoop(m))
  PROVE  sock'.urg = sock.urg
<1>1. sock \in Socks
  BY DEF Base, ConnType
<1>2. \A n : AfterWrite(n).urg = sock.urg
  BY <1>1 DEF AfterWrite, Socks
<1>3. \A c : shutdownInLoop(c, sock).urg = sock.urg
  BY <1>1 DEF shutdownInLoop, Socks
<1>4. CASE handleWrite
  BY <1>2, <1>3, <1>4 DEF handleWrite
<1>5. ASSUME NEW m \in Msgs, sendInLoop(m) PROVE sock'.urg = sock.urg
  BY <1>2, <1>5 DEF sendInLoop
<1> QED
  BY <1>4, <1>5

LEMMA SendRoom ==
  ASSUME EchoCount, echoed \in {0, 1}, NEW k \in Nat, NEW j \in Nat, j <= k + MsgLen,
         k <= Past(Spent) + echoed * MsgLen
  PROVE  j <= Past(Spent) + (echoed + 1) * MsgLen
<1>1. PICK b \in Int : b = Past(Spent)
  BY SpentFacts DEF EchoCount
<1>2. CASE echoed = 0
  BY <1>1, <1>2, SizesAssumption
<1>3. CASE echoed = 1
  BY <1>1, <1>3, SizesAssumption
<1> QED
  BY <1>2, <1>3

LEMMA SendLimit ==
  ASSUME EchoCount', Spent' = Spent, EchoCount, UrgentKept, echoed \in {0, 1}, echoed' = echoed + 1,
         cb' = "message", ~ReadDue', Len(outputBuffer_') \in Nat,
         Len(outputBuffer_') <= Past(Spent) + (echoed + 1) * MsgLen,
         Len(outputBuffer_') >= HighWaterMark => WillStop(Queued', cb', isReading(channel'))
  PROVE  EchoLimit'
<1>1. Len(outputBuffer_') <= Past(Spent)' + echoed' * MsgLen
  BY BoundGrows
<1>2. PICK b \in Int : b = Past(Spent')
  BY BoundGrows
<1>3. Len(outputBuffer_') <= b + 2 * MsgLen
  <2>1. CASE echoed = 0
    BY <1>2, <2>1, SizesAssumption
  <2>2. CASE echoed = 1
    BY <1>2, <2>2, SizesAssumption
  <2> QED
    BY <2>1, <2>2
<1>4. Len(outputBuffer_') <= Past(1 + 2 * urgents)'
  BY <1>2, <1>3, BoundGrows
<1>5. OutputBounded'
  BY <1>4 DEF OutputBounded, Past
<1> QED
  BY <1>1, <1>5 DEF EchoLimit

LEMMA SendsKeepEcho == ASSUME Base, EchoInv, onMessageSends PROVE EchoInv'
<1> USE SizesAssumption, EchoAssumption
<1>1. /\ cb = "message" /\ echoed \in {0, 1} /\ send /\ echoed' = echoed + 1
      /\ UNCHANGED <<todo, revents, cb, lpc, tasks, closes, urgents>>
  BY SendsFacts DEF EchoInv, EchoCount
<1>2. lpc = "dispatch" /\ revents = {} /\ NoRead(todo)
  BY <1>1 DEF EchoInv, EchoTurn
<1>3. outputBuffer_ \in Seq(UnitSet) /\ Len(outputBuffer_) \in Nat
  BY DEF Base, ConnType
<1>4. EchoCount' /\ ~ReadDue' /\ state_' = state_ /\ UrgentKept /\ Spent' = Spent
  <2>1. sock'.urg = sock.urg
    BY EchoSendIs, UrgentWrite
  <2>2. UrgentKept /\ Spent' = Spent
    BY <1>1, <2>1, UrgentSame DEF EchoInv
  <2> QED
    BY <1>1, <1>2, <2>2 DEF EchoCount, ReadDue, send, sendInLoop, connVars, UrgentKept
<1>5. EchoTurn'
  BY <1>1, <1>2, <1>4 DEF EchoInv, EchoTurn
<1>6. CASE state_ = "kConnected"
  <2>1. closes = 0
    BY <1>6 DEF EchoInv, EchoTurn
  <2>2. PICK m \in Msgs : sendInLoop(m)
    <3>1. PICK k \in Nat : k = sent[LoopThread] + 1
      BY DEF Base, HistType, Threads
    <3>2. sendInLoop(Msg(LoopThread, k)) /\ Msg(LoopThread, k) \in Msgs
      BY <1>1, <1>6, <3>1 DEF send, Msg, Msgs, Threads
    <3> QED
      BY <3>2
  <2>3. /\ Len(outputBuffer_') <= Len(outputBuffer_) + MsgLen
        /\ isReading(channel') = isReading(channel)
        /\ pendingTasks_' = pendingTasks_ \/ \E op \in EchoOps : Adds(op)
        /\ Len(outputBuffer_') >= HighWaterMark =>
             \/ Adds("highWaterMark")
             \/ pendingTasks_' = pendingTasks_ /\ Len(outputBuffer_) >= HighWaterMark
    BY <2>1, <2>2, SendMark
  <2>4. EchoQueue'
    BY <1>1, <2>3, AddsFacts DEF Base, EchoInv
  <2>5. ASSUME Len(outputBuffer_') >= HighWaterMark PROVE WillStop(Queued', cb', isReading(channel'))
    <3>1. CASE Adds("highWaterMark")
      BY <1>1, <2>3, <3>1, AddsFacts DEF Base, EchoInv, WillStop
    <3>2. CASE pendingTasks_' = pendingTasks_ /\ Len(outputBuffer_) >= HighWaterMark
      BY <1>1, <1>6, <2>3, <3>2, AddsFacts DEF Base, EchoInv, EchoLimit
    <3> QED
      BY <2>3, <2>5, <3>1, <3>2
  <2>6. EchoLimit'
    <3>1. Len(outputBuffer_) <= Past(Spent) + echoed * MsgLen
      BY <1>1, <1>6 DEF EchoInv, EchoLimit
    <3>2. Len(outputBuffer_') \in Nat
      <4>1. outputBuffer_' \in Seq(UnitSet)
        BY <1>1, SendsFacts, SendCallKeepsBase DEF Base, ConnType
      <4> QED
        BY <4>1
    <3>3. Len(outputBuffer_') <= Past(Spent) + (echoed + 1) * MsgLen
      BY <1>1, <1>3, <2>3, <3>1, <3>2, SendRoom DEF EchoInv
    <3> QED
      BY <1>1, <1>4, <2>5, <3>2, <3>3, SendLimit DEF EchoInv
  <2> QED
    BY <1>4, <1>5, <2>4, <2>6 DEF EchoInv
<1>7. CASE state_ # "kConnected"
  <2>1. UNCHANGED <<outputBuffer_, channel, pendingTasks_, tasks, state_>>
    BY <1>1, <1>7 DEF send, connVars
  <2>2. EchoQueue' /\ Queued' = Queued
    BY <2>1, AddsFacts DEF Base, EchoInv
  <2>3. EchoLimit'
    <3>1. CASE state_ = "kDisconnected"
      BY <1>4, <2>1, <3>1, LimitGone DEF EchoInv
    <3>2. CASE state_ # "kDisconnected"
      <4>1. Len(outputBuffer_) <= Past(Spent) + echoed * MsgLen
        BY <1>1, <3>2 DEF EchoInv, EchoLimit
      <4>2. Len(outputBuffer_') <= Past(Spent) + (echoed + 1) * MsgLen
        BY <1>1, <1>3, <2>1, <4>1, SendRoom DEF EchoInv
      <4>3. Len(outputBuffer_') >= HighWaterMark => WillStop(Queued', cb', isReading(channel'))
        BY <1>1, <2>1, <2>2, <3>2 DEF EchoInv, EchoLimit
      <4> QED
        BY <1>1, <1>3, <1>4, <2>1, <4>2, <4>3, SendLimit DEF EchoInv
    <3> QED
      BY <3>1, <3>2
  <2> QED
    BY <1>4, <1>5, <2>2, <2>3 DEF EchoInv
<1> QED
  BY <1>6, <1>7

LEMMA HandlerKeepsEcho == ASSUME Base, EchoInv, handler, UNCHANGED <<echoed, urgents>> PROVE EchoInv'
<1> USE SizesAssumption, EchoAssumption
<1>1. /\ cb = "none" /\ todo # <<>> /\ todo' = Tail(todo) /\ UNCHANGED <<revents, lpc, tasks>>
      /\ Head(todo) \in Callbacks /\ OneRead(todo') /\ OneRead(todo) /\ todo \in Seq(Callbacks)
  BY TailFacts, TailReads DEF handler, Base, TodoType, EchoInv, EchoTurn
<1>2. lpc = "dispatch" /\ revents = {} /\ echoed = 0 /\ tasks = <<>>
  BY <1>1 DEF EchoInv, EchoTurn, EchoCount
<1>3. (ReadDue' => ReadDue) /\ (Head(todo) = "read" => NoRead(todo') /\ ~ReadDue' /\ ReadDue)
  BY <1>1, <1>2, TailReads DEF ReadDue
<1>4. /\ UrgentKept
      /\ Head(todo) # "read" => sock'.urg = sock.urg /\ Spent' = Spent
      /\ Head(todo) = "read" /\ sock.urg >= 0 => Spent' = Spent + 1
  <2>1. CASE Head(todo) = "read"
    BY <1>1, <2>1, UrgentRead DEF handler, EchoInv
  <2>2. CASE Head(todo) # "read"
    <3>1. sock'.urg = sock.urg
      <4>1. CASE Head(todo) = "write"
        BY <4>1, UrgentWrite DEF handler
      <4>2. CASE Head(todo) = "error"
        <5>1. sock \in Socks /\ handleError
          BY <4>2 DEF handler, Base, ConnType
        <5> QED
          BY <5>1 DEF handleError, Socks
      <4>3. CASE Head(todo) = "close"
        BY <4>3 DEF handler
      <4> QED
        BY <1>1, <2>2, <4>1, <4>2, <4>3 DEF Callbacks
    <3> QED
      BY <2>2, <3>1, UrgentSame DEF EchoInv
  <2> QED
    BY <2>1, <2>2
<1>5. EchoCount'
  BY <1>2, <1>4 DEF EchoCount, UrgentKept
<1>6. outputBuffer_ \in Seq(UnitSet) /\ Len(outputBuffer_) \in Nat
  BY DEF Base, ConnType
<1>7. CASE Head(todo) = "write"
  <2>1. handleWrite /\ UNCHANGED <<closes, cb, state_>>
    BY <1>1, <1>7 DEF handler, handleWrite
  <2>2. /\ Len(outputBuffer_') <= Len(outputBuffer_)
        /\ pendingTasks_' = pendingTasks_ \/ \E op \in EchoOps : Adds(op)
        /\ Len(outputBuffer_') > 0 => pendingTasks_' = pendingTasks_ /\ channel' = channel
    BY <2>1, WriteMark
  <2>3. EchoQueue' /\ (pendingTasks_' = pendingTasks_ => Queued' = Queued)
    BY <1>1, <2>2, AddsFacts DEF Base, EchoInv
  <2>4. EchoTurn'
    BY <1>1, <1>2, <2>1 DEF EchoInv, EchoTurn
  <2>5. Len(outputBuffer_') \in Nat
    <3>1. outputBuffer_' \in Seq(UnitSet)
      BY HandlerKeepsBase DEF Base, ConnType
    <3> QED
      BY <3>1
  <2>6. EchoLimit'
    <3>1. OutputBounded'
      <4>1. Past(1 + 2 * urgents) \in Int /\ Len(outputBuffer_) <= Past(1 + 2 * urgents)
        BY SpentFacts, BoundedFacts DEF EchoInv, EchoLimit, EchoCount
      <4>2. Len(outputBuffer_') <= Past(1 + 2 * urgents)
        BY <1>6, <2>2, <2>5, <4>1
      <4> QED
        BY <4>2 DEF OutputBounded, Past
    <3>2. ASSUME state_' # "kDisconnected", ReadDue'
          PROVE  Len(outputBuffer_') < HighWaterMark \/ sock'.urg >= 0
      <4>1. Len(outputBuffer_) < HighWaterMark \/ sock.urg >= 0
        BY <1>3, <2>1, <3>2 DEF EchoInv, EchoLimit
      <4> QED
        BY <1>4, <1>6, <1>7, <2>2, <2>5, <4>1
    <3>4. ASSUME state_' # "kDisconnected" PROVE Len(outputBuffer_') <= Past(Spent + 1)'
      <4>1. Past(Spent + 1) \in Int /\ Past(Spent + 1)' = Past(Spent + 1)
        BY <1>4, <1>7, SpentFacts DEF EchoInv, EchoCount, Past
      <4>2. Len(outputBuffer_) <= Past(Spent + 1)
        BY <1>1, <2>1, <3>4 DEF EchoInv, EchoLimit
      <4> QED
        BY <1>6, <2>2, <2>5, <4>1, <4>2
    <3>3. ASSUME state_' # "kDisconnected", Len(outputBuffer_') >= HighWaterMark
          PROVE  WillStop(Queued', cb', isReading(channel'))
      <4>1. Len(outputBuffer_) >= HighWaterMark /\ Len(outputBuffer_') > 0
        BY <1>6, <2>2, <2>5, <3>3
      <4> QED
        BY <2>1, <2>2, <2>3, <3>3, <4>1 DEF EchoInv, EchoLimit
    <3> QED
      BY <1>1, <2>1, <3>1, <3>2, <3>3, <3>4 DEF EchoLimit
  <2> QED
    BY <1>5, <2>3, <2>4, <2>6 DEF EchoInv
<1>8. CASE Head(todo) # "write"
  <2>1. /\ UNCHANGED <<outputBuffer_, pendingTasks_>>
        /\ \/ state_' = "kDisconnected" /\ cb' \in {"down", "aborted"}
           \/ UNCHANGED <<state_, channel, closes>> /\ cb' \in {cb, "message"}
        /\ cb' = "message" => Head(todo) = "read"
    <3>1. CASE Head(todo) = "close"
      BY <1>1, <3>1 DEF handler, handleClose, closeConnection
    <3>2. CASE Head(todo) = "error"
      BY <1>1, <3>2 DEF handler
    <3>3. CASE Head(todo) = "read"
      BY <1>1, <3>3 DEF handler, handleRead, handleClose, closeConnection
    <3> QED
      BY <1>1, <1>8, <3>1, <3>2, <3>3 DEF Callbacks
  <2>2. EchoQueue' /\ Queued' = Queued
    BY <1>1, <2>1, AddsFacts DEF Base, EchoInv
  <2>3. EchoTurn'
    BY <1>1, <1>2, <1>3, <2>1 DEF EchoInv, EchoTurn
  <2>4. EchoLimit'
    <3>1. CASE state_' = "kDisconnected"
      BY <1>4, <2>1, <3>1, LimitGone DEF EchoInv
    <3>2. CASE cb' = "none" /\ state_' # "kDisconnected"
      <4>1. ReadDue' => ReadDue /\ (sock.urg >= 0 => sock'.urg >= 0)
        BY <1>3, <1>4
      <4> QED
        BY <1>1, <1>4, <2>1, <2>2, <3>2, <4>1, LimitStays DEF EchoInv
    <3>3. CASE cb' = "message" /\ state_' # "kDisconnected"
      <4>1. /\ Len(outputBuffer_) < HighWaterMark \/ sock.urg >= 0
            /\ ~ReadDue' /\ Head(todo) = "read"
        BY <1>3, <2>1, <3>3 DEF EchoInv, EchoLimit
      <4>2. echoed' * MsgLen = 0
        BY <1>2
      <4>3. Len(outputBuffer_) <= Past(Spent')
        <5>1. Past(Spent') \in Int /\ HighWaterMark - 1 <= Past(Spent')
          BY <1>4, BoundGrows DEF EchoInv
        <5>2. CASE Len(outputBuffer_) < HighWaterMark
          BY <1>6, <5>1, <5>2
        <5>3. CASE sock.urg >= 0
          <6>1. Spent' = Spent + 1
            BY <1>4, <4>1, <5>3
          <6>2. Len(outputBuffer_) <= Past(Spent + 1)
            BY <1>1, <2>1, <3>3 DEF EchoInv, EchoLimit
          <6> QED
            BY <6>1, <6>2
        <5> QED
          BY <4>1, <5>2, <5>3
      <4>4. Len(outputBuffer_') <= Past(Spent)' + echoed' * MsgLen
        <5>1. Past(Spent)' = Past(Spent') /\ Past(Spent') \in Int
          BY <1>4, BoundGrows DEF EchoInv
        <5> QED
          BY <1>6, <2>1, <4>2, <4>3, <5>1
      <4>5. OutputBounded'
        BY <2>1 DEF EchoInv, EchoLimit, OutputBounded
      <4>6. Len(outputBuffer_') >= HighWaterMark => WillStop(Queued', cb', isReading(channel'))
        <5>1. Len(outputBuffer_) >= HighWaterMark => WillStop(Queued, "none", isReading(channel))
          BY <1>1, <2>1, <3>3 DEF EchoInv, EchoLimit
        <5>2. state_' # "kDisconnected" => channel' = channel
          BY <2>1
        <5> QED
          BY <2>1, <2>2, <3>3, <5>1, <5>2 DEF WillStop
      <4> QED
        BY <3>3, <4>1, <4>4, <4>5, <4>6 DEF EchoLimit
    <3> QED
      BY <1>1, <2>1, <3>1, <3>2, <3>3
  <2> QED
    BY <1>5, <2>2, <2>3, <2>4 DEF EchoInv
<1> QED
  BY <1>7, <1>8

LEMMA TaskKeepsEcho == ASSUME Base, EchoInv, runTask, UNCHANGED <<echoed, urgents>> PROVE EchoInv'
<1>1. /\ lpc = "tasks" /\ cb = "none" /\ tasks # <<>> /\ tasks' = Tail(tasks)
      /\ UNCHANGED <<revents, todo, lpc>>
  BY DEF runTask
<1>2. /\ pendingTasks_ = <<>> /\ todo = <<>> /\ revents = {} /\ echoed = 0
  BY <1>1 DEF EchoInv, EchoTurn, EchoCount
<1>3. PICK x \in TaskSet : x = Head(tasks)
  <2>1. Head(tasks) \in TaskSet
    BY <1>1 DEF Base, QueueType
  <2> QED
    BY <2>1, Zenon
<1>4. /\ Queued \in Seq(TaskSet) /\ Queued # <<>> /\ Head(Queued) = x
      /\ Tail(Queued) = Tail(tasks) \o pendingTasks_
  BY <1>1, <1>3, QueuedFacts DEF Base
<1>5. /\ x.op \in EchoOps
      /\ \A i \in 1..Len(Tail(Queued)) : Tail(Queued)[i].op \in EchoOps
  <2>1. 1 \in 1..Len(Queued) /\ Head(Queued) = Queued[1]
    BY <1>4
  <2>2. \A i \in 1..Len(Tail(Queued)) : i + 1 \in 1..Len(Queued) /\ Tail(Queued)[i] = Queued[i + 1]
    BY <1>4
  <2> QED
    BY <1>4, <2>1, <2>2 DEF EchoInv, EchoQueue
<1>6. CASE x.op = "forceClose"
  <2>1. /\ forceCloseInLoop /\ UNCHANGED <<outputBuffer_, pendingTasks_, sock>>
    BY <1>3, <1>6 DEF runTask
  <2>2. state_' = "kDisconnected" /\ cb' # "message"
    BY <1>1, <2>1 DEF forceCloseInLoop, handleClose, closeConnection
  <2>3. Queued' = Tail(Queued)
    BY <1>1, <1>4, <2>1 DEF Queued
  <2>4. EchoQueue' /\ EchoCount' /\ UrgentKept
    <3>1. UrgentKept
      BY <2>1, UrgentSame DEF EchoInv
    <3> QED
      BY <1>2, <1>5, <2>3, <3>1 DEF EchoQueue, EchoCount, UrgentKept
  <2>5. EchoTurn'
    BY <1>1, <1>2, <2>1, <2>2 DEF EchoInv, EchoTurn
  <2> QED
    BY <2>1, <2>2, <2>4, <2>5, LimitGone DEF EchoInv
<1>7. CASE x.op # "forceClose"
  <2>1. x.op \in {"writeComplete", "highWaterMark"}
    BY <1>5, <1>7 DEF EchoOps
  <2>2. cb' = x.op /\ UNCHANGED <<connVars, pendingTasks_, closes>>
    BY <1>3, <2>1 DEF runTask
  <2>3. UNCHANGED <<state_, outputBuffer_, channel, pendingTasks_, closes, sock>> /\ cb' # "message"
    BY <2>1, <2>2 DEF connVars
  <2>4. Queued' = Tail(Queued)
    BY <1>1, <1>4, <2>3 DEF Queued
  <2>5. EchoQueue' /\ EchoCount' /\ UrgentKept
    <3>1. UrgentKept
      BY <2>3, UrgentSame DEF EchoInv
    <3> QED
      BY <1>2, <1>5, <2>4, <3>1 DEF EchoQueue, EchoCount, UrgentKept
  <2>6. EchoTurn'
    BY <1>1, <1>2, <2>3 DEF EchoInv, EchoTurn
  <2>7. WillStop(Queued, cb, isReading(channel)) => WillStop(Queued', cb', isReading(channel'))
    BY <1>1, <1>4, <2>1, <2>2, <2>3, <2>4, PopKeepsStop
  <2>8. EchoLimit'
    BY <1>1, <2>3, <2>5, <2>7, LimitStays DEF EchoInv, ReadDue
  <2> QED
    BY <2>5, <2>6, <2>8 DEF EchoInv
<1> QED
  BY <1>6, <1>7

LEMMA PollKeepsEcho ==
  ASSUME Base, EchoInv, NEW room \in BOOLEAN, poll(room), UNCHANGED <<echoed, urgents>> PROVE EchoInv'
<1>1. /\ lpc = "poll" /\ lpc' = "dispatch" /\ revents' = Revents(room)
      /\ UNCHANGED <<state_, outputBuffer_, channel, todo, cb, tasks, pendingTasks_, closes, sock>>
  BY DEF poll, connVars, histVars
<1>2. tasks = <<>> /\ pendingTasks_ = <<>> /\ todo = <<>> /\ cb = "none" /\ echoed = 0
  BY <1>1 DEF EchoInv, EchoTurn, EchoCount
<1>3. Queued = <<>> /\ Queued' = Queued
  BY <1>1, <1>2 DEF Queued
<1>4. EchoTurn' /\ EchoQueue' /\ EchoCount' /\ Spent' = Spent
  <2>1. UrgentKept /\ Spent' = Spent
    BY <1>1, UrgentSame DEF EchoInv
  <2> QED
    BY <1>1, <1>2, <1>3, <2>1 DEF EchoInv, EchoTurn, EchoQueue, EchoCount, UrgentKept
<1>5. "IN" \in revents' => isReading(channel)
  <2>1. "IN" \in revents' => "IN" \in channel.epoll
    BY <1>1 DEF Revents
  <2> QED
    BY <2>1, ReadingFacts DEF Base, ConnType
<1>6. ReadDue' => isReading(channel) \/ sock.urg >= 0
  <2>1. "PRI" \in revents' => sock.urg >= 0
    BY <1>1 DEF Revents
  <2> QED
    BY <1>1, <1>2, <1>5, <2>1 DEF ReadDue, NoRead
<1>7. Len(outputBuffer_) >= HighWaterMark /\ state_ # "kDisconnected" => ~isReading(channel)
  <2>1. ~StopIn(Queued)
    BY <1>3 DEF StopIn
  <2> QED
    BY <1>2, <2>1 DEF EchoInv, EchoLimit, WillStop
<1>8. Len(outputBuffer_) \in Nat
  BY DEF Base, ConnType
<1>9. EchoLimit'
  <2>1. ReadDue' /\ state_ # "kDisconnected" => Len(outputBuffer_) < HighWaterMark \/ sock.urg >= 0
    BY <1>6, <1>7, <1>8, SizesAssumption
  <2> QED
    BY <1>1, <1>2, <1>3, <1>4, <2>1 DEF EchoInv, EchoLimit, OutputBounded, Past
<1> QED
  BY <1>4, <1>9 DEF EchoInv

LEMMA EventsKeepEcho == ASSUME Base, EchoInv, handleEvents, UNCHANGED <<echoed, urgents>> PROVE EchoInv'
<1>1. /\ lpc = "dispatch" /\ cb = "none" /\ todo' = handleEventWithGuard(revents) /\ revents' = {}
      /\ UNCHANGED <<state_, outputBuffer_, channel, lpc, cb, tasks, pendingTasks_, closes, sock>>
      /\ OneRead(todo')
  BY GuardReads DEF handleEvents, connVars, Base, TodoType
<1>2. Queued' = Queued
  BY <1>1 DEF Queued
<1>3. EchoTurn' /\ EchoQueue' /\ EchoCount' /\ UrgentKept
  <2>1. UrgentKept
    BY <1>1, UrgentSame DEF EchoInv
  <2> QED
    BY <1>1, <1>2, <2>1 DEF EchoInv, EchoTurn, EchoQueue, EchoCount, UrgentKept
<1>4. ReadDue' => ReadDue
  BY <1>1, GuardReads DEF ReadDue, Base, TodoType
<1>5. EchoLimit'
  BY <1>1, <1>2, <1>3, <1>4, LimitStays DEF EchoInv
<1> QED
  BY <1>3, <1>5 DEF EchoInv

LEMMA TurnKeepsEcho ==
  ASSUME Base, EchoInv,
         \/ (doPendingTasks \/ tasksDone \/ QuietPeer \/ UNCHANGED vars) /\ UNCHANGED <<echoed, urgents>>
         \/ echoPeerSendsUrgent
  PROVE  EchoInv'
<1>1. UNCHANGED <<state_, outputBuffer_, channel, revents, todo, cb, closes, echoed>>
  BY UrgentSent DEF doPendingTasks, tasksDone, QuietPeer, peerSends, peerCloses, peerResets, PeerActs, vars,
         connVars, loopVars, histVars, EchoInv
<1>2. UrgentKept /\ (sock.urg >= 0 => sock'.urg >= 0)
  <2>1. CASE echoPeerSendsUrgent
    BY <2>1, UrgentSent DEF EchoInv
  <2>2. CASE (doPendingTasks \/ tasksDone \/ QuietPeer \/ UNCHANGED vars) /\ UNCHANGED <<echoed, urgents>>
    <3>1. sock \in Socks
      BY DEF Base, ConnType
    <3>2. sock'.urg = sock.urg
      <4>1. CASE QuietPeer
        BY <3>1, <4>1 DEF QuietPeer, peerSends, peerCloses, peerResets, PeerActs, Socks
      <4>2. CASE ~QuietPeer
        BY <2>2, <4>2 DEF doPendingTasks, tasksDone, vars, connVars
      <4> QED
        BY <4>1, <4>2
    <3> QED
      BY <2>2, <3>2, UrgentSame DEF EchoInv
  <2> QED
    BY <2>1, <2>2
<1>3. Queued' = Queued /\ EchoTurn'
  <2>1. CASE doPendingTasks
    <3>1. /\ lpc = "dispatch" /\ lpc' = "tasks" /\ tasks' = pendingTasks_ /\ pendingTasks_' = <<>>
          /\ todo = <<>> /\ revents = {} /\ cb = "none"
      BY <2>1 DEF doPendingTasks, AllHandled
    <3>2. tasks = <<>> /\ pendingTasks_ \in Seq(TaskSet)
      BY <3>1 DEF EchoInv, EchoTurn, Base, QueueType
    <3>3. Queued' = Queued
      BY <3>1, <3>2 DEF Queued
    <3> QED
      BY <1>1, <3>1, <3>3 DEF EchoInv, EchoTurn
  <2>2. CASE tasksDone
    BY <1>1, <2>2 DEF tasksDone, EchoInv, EchoTurn, Queued
  <2>3. CASE QuietPeer \/ echoPeerSendsUrgent \/ UNCHANGED vars
    <3>1. UNCHANGED <<lpc, tasks, pendingTasks_>>
      BY <2>3, UrgentSent DEF QuietPeer, peerSends, peerCloses, peerResets, PeerActs, vars, loopVars, EchoInv
    <3> QED
      BY <1>1, <3>1 DEF EchoInv, EchoTurn, Queued
  <2> QED
    BY <2>1, <2>2, <2>3
<1>4. EchoQueue' /\ EchoCount'
  BY <1>1, <1>3, <1>2 DEF EchoInv, EchoQueue, EchoCount, UrgentKept
<1>5. EchoLimit'
  BY <1>1, <1>3, <1>2, LimitStays DEF EchoInv, ReadDue
<1> QED
  BY <1>3, <1>4, <1>5 DEF EchoInv

LEMMA UpKeepsEcho == ASSUME Base, EchoInv, newConnection, UNCHANGED <<echoed, urgents>> PROVE EchoInv'
<1>1. /\ lpc = "new" /\ lpc' = "dispatch" /\ cb' = "up"
      /\ UNCHANGED <<outputBuffer_, revents, todo, tasks, pendingTasks_, closes, sock>>
  BY DEF newConnection, histVars
<1>2. outputBuffer_ = <<>> /\ closes = 0 /\ tasks = <<>> /\ todo = <<>> /\ revents = {} /\ echoed = 0
  BY <1>1 DEF EchoInv, EchoTurn, EchoCount
<1>3. EchoTurn' /\ EchoCount'
  <2>1. UrgentKept
    BY <1>1, UrgentSame DEF EchoInv
  <2> QED
    BY <1>1, <1>2, <2>1 DEF EchoTurn, EchoCount, UrgentKept, EchoInv
<1>4. EchoQueue'
  BY <1>1 DEF EchoInv, EchoQueue, Queued
<1>5. Len(outputBuffer_') = 0 /\ Len(todo') = 0
  BY <1>1, <1>2
<1>6. EchoLimit'
  <2>1. ~ReadDue'
    BY <1>1, <1>2, <1>5 DEF ReadDue, NoRead
  <2>2. UrgentKept /\ EchoCount
    BY <1>1, UrgentSame DEF EchoInv
  <2>3. 0 <= Past(Spent + 1)' /\ 0 <= Past(1 + 2 * urgents)'
    BY <2>2, BoundGrows, SizesAssumption, EchoAssumption
  <2>4. OutputBounded'
    BY <1>5, <2>3 DEF OutputBounded, Past
  <2> QED
    BY <1>1, <1>5, <2>1, <2>3, <2>4, EchoAssumption, SizesAssumption DEF EchoLimit
<1> QED
  BY <1>3, <1>4, <1>6 DEF EchoInv

LEMMA EchoKept == ASSUME Base, EchoInv, [EchoNext]_echoVars PROVE EchoInv'
BY EchoSteps, CallsKeepEcho, TimeoutKeepsEcho, SendsKeepEcho, HandlerKeepsEcho, TaskKeepsEcho,
   PollKeepsEcho, EventsKeepEcho, TurnKeepsEcho, UpKeepsEcho DEF LoopStep

LEMMA EchoHolds == EchoSpec => []EchoInv
<1>1. Base /\ EchoInv /\ [EchoNext]_echoVars => EchoInv'
  BY EchoKept
<1> QED
  BY <1>1, EchoStart, EchoBase, PTL DEF EchoSpec

(* However many ordinary messages the peer sends and however slowly it     *)
(* reads, the output of a connection never exceeds the mark by more than   *)
(* the two sends of one onMessage: the high-water-mark callback stops      *)
(* reading in the turn in which the output passed the mark, before         *)
(* epoll_wait is called again.  Only urgent bytes, for which stopRead      *)
(* leaves EPOLLPRI registered, make it grow further, by two more calls of  *)
(* onMessage each.                                                         *)
THEOREM EchoOutputBounded == EchoSpec => []OutputBounded
<1>1. EchoInv => OutputBounded
  BY DEF EchoInv, EchoLimit
<1> QED
  BY <1>1, EchoHolds, PTL
-----------------------------------------------------------------------------
(* What the library promises any application, for this one: here code in   *)
(* the loop thread reads again without asking whether the connection is    *)
(* open, which the theorems of TcpConnectionProofs leave out.              *)
LEMMA DeadIsSilent ==
  ASSUME Base, EchoInv, [EchoNext]_echoVars, closes # 0
  PROVE  UNCHANGED <<wire, outputBuffer_, accepted>>
<1>1. state_ = "kDisconnected"
  BY DEF EchoInv, EchoTurn
<1>2. CASE EchoCalls
  BY <1>2, CallsFacts
<1>3. CASE onMessageSends
  BY <1>1, <1>3, SendsFacts DEF send, connVars
<1>4. CASE onTimeout
  BY <1>4, TimeoutFacts
<1>5. CASE [Next]_vars
  BY <1>1, <1>5, OutputMoves DEF sendInLoop, handleWrite
<1> QED
  BY <1>2, <1>3, <1>4, <1>5, EchoSteps

LEMMA EchoCloses ==
  ASSUME Base, [EchoNext]_echoVars, closes' = 0 PROVE closes = 0
<1>1. CASE [Next]_vars
  BY <1>1, ClosesCounts DEF Base, ConnType
<1> QED
  BY <1>1, EchoSteps, CallsFacts, SendsFacts, TimeoutFacts

(* The channel's registration agrees with the kernel's at every step, also *)
(* when onWriteComplete registers the channel of a closed connection.      *)
THEOREM EchoEpoll == EchoSpec => []EpollAgrees
<1>1. Base => EpollAgrees
  BY DEF Base, ConnType, Good, EpollAgrees
<1> QED
  BY <1>1, EchoBase, PTL

(* What the peer gets is the greeting and the echo of each onMessage, one  *)
(* message after the other: nothing torn, repeated, dropped or overtaken.  *)
THEOREM EchoOutputIntact == EchoSpec => []OutputIntact
<1>1. EchoInit => OutputIntact
  BY OutputStart DEF EchoInit
<1>2. Base /\ EchoInv /\ OutputIntact /\ [EchoNext]_echoVars => OutputIntact'
  <2> SUFFICES ASSUME Base, EchoInv, OutputIntact, [EchoNext]_echoVars PROVE OutputIntact'
    OBVIOUS
  <2>1. CASE closes # 0
    BY <2>1, DeadIsSilent, OutputSame
  <2>2. CASE closes = 0
    <3>1. CASE EchoCalls \/ onTimeout
      BY <3>1, CallsFacts, TimeoutFacts, OutputSame
    <3>2. CASE onMessageSends
      BY <2>2, <3>2, EchoSendIs, SendKeepsOutput, OutputSame
    <3>3. CASE [Next]_vars
      BY <2>2, <3>3, OutputKept
    <3> QED
      BY <3>1, <3>2, <3>3, EchoSteps
  <2> QED
    BY <2>1, <2>2
<1> QED
  BY <1>1, <1>2, EchoBase, EchoHolds, PTL DEF EchoSpec

LEMMA EchoKeepsOrder ==
  ASSUME Base, closes = 0, closes' = 0, OrderInv, [EchoNext]_echoVars PROVE OrderInv'
<1>1. CASE EchoCalls
  <2>1. /\ UNCHANGED <<sock, pendingTasks_, tasks, lpc, ucall, sent, accepted>>
        /\ channel' \in {channel, disableRead(channel), enableRead(channel)}
    BY <1>1, CallsFacts
  <2>2. isWriting(channel') = isWriting(channel)
    BY <2>1, ChannelFacts DEF Base, ConnType
  <2> QED
    BY <2>1, <2>2, OrderSame DEF MayQueue, Lost
<1>2. CASE onMessageSends
  <2>1. send /\ UNCHANGED <<tasks, lpc, ucall>>
    BY <1>2, SendsFacts
  <2>2. CASE state_ = "kConnected"
    BY <2>1, <2>2, SendCallKeepsOrder
  <2>3. CASE state_ # "kConnected"
    <3>1. UNCHANGED <<sock, channel, pendingTasks_, sent, accepted>>
      BY <2>1, <2>3 DEF send, connVars
    <3> QED
      BY <2>1, <3>1, OrderSame DEF MayQueue, Lost
  <2> QED
    BY <2>2, <2>3
<1>3. CASE onTimeout
  <2>1. forceClose /\ UNCHANGED <<channel, sock, tasks, lpc, ucall, sent, accepted>>
    BY <1>3, TimeoutFacts
  <2>2. MayQueue
    BY <2>1, QueueQuiet, NoMsgFacts DEF forceClose, MayQueue, TaskOps, AllOps
  <2> QED
    BY <2>1, <2>2, OrderSame DEF Lost
<1> QED
  BY <1>1, <1>2, <1>3, EchoSteps, OrderKept

(* The sends of the echo server are accepted in order and without a gap.   *)
THEOREM EchoSendOrder == EchoSpec => []SendOrder
<1>1. EchoSpec => [](closes = 0 => SendOrder)
  <2>1. EchoInit => (closes = 0 => OrderInv)
    BY OrderStart DEF EchoInit
  <2>2. Base /\ (closes = 0 => OrderInv) /\ [EchoNext]_echoVars => (closes = 0 => OrderInv)'
    BY EchoCloses, EchoKeepsOrder
  <2>3. Base /\ (closes = 0 => OrderInv) => (closes = 0 => SendOrder)
    BY OrderFacts DEF OrderInv, Ordered
  <2> QED
    BY <2>1, <2>2, <2>3, EchoBase, PTL DEF EchoSpec
<1>2. EchoInit => SendOrder
  BY BaseStart, OrderStart, OrderFacts DEF EchoInit, OrderInv, Ordered
<1>3. Base /\ EchoInv /\ SendOrder /\ (closes = 0 => SendOrder)' /\ [EchoNext]_echoVars => SendOrder'
  <2> SUFFICES ASSUME Base, EchoInv, SendOrder, (closes = 0 => SendOrder)', [EchoNext]_echoVars
               PROVE  SendOrder'
    OBVIOUS
  <2>1. CASE closes' = 0
    BY <2>1
  <2>2. CASE closes' # 0
    <3>1. accepted' = accepted
      <4>1. CASE closes # 0
        BY <4>1, DeadIsSilent
      <4>2. CASE closes = 0
        <5>1. [Next]_vars
          BY <2>2, <4>2, EchoSteps, CallsFacts, SendsFacts, TimeoutFacts
        <5> QED
          BY <2>2, <4>2, <5>1, CloseAcceptsNone
      <4> QED
        BY <4>1, <4>2
    <3> QED
      BY <3>1 DEF SendOrder
  <2> QED
    BY <2>1, <2>2
<1> QED
  BY <1>1, <1>2, <1>3, EchoBase, EchoHolds, PTL DEF EchoSpec
-----------------------------------------------------------------------------
(* The safety that ReadingResumes rests on.  In the queue q a write-       *)
(* complete callback waits behind position i.                              *)
Resumes(q, i) == \E j \in 1..Len(q) : j > i /\ q[j].op = "writeComplete"

(* With q queued and callback c in progress: each callback that stops, or  *)
(* has stopped, the reading is followed by a write-complete callback, or   *)
(* output waits whose writing will queue one.                              *)
ResumeDue(q, c, reading, writing) ==
  /\ \A i \in 1..Len(q) : q[i].op = "highWaterMark" => writing \/ Resumes(q, i)
  /\ c = "highWaterMark" \/ (~reading /\ c # "writeComplete") => writing \/ Resumes(q, 0)

ResumeInv ==
  /\ lpc = "new" => pendingTasks_ = <<>>
  /\ closes = 0 /\ lpc # "new" => ResumeDue(Queued, cb, isReading(channel), isWriting(channel))

LEMMA PushDue ==
  ASSUME NEW q \in Seq(TaskSet), NEW x \in TaskSet, x.op \in {"forceClose", "writeComplete"},
         NEW c, NEW r, NEW w, NEW v, ResumeDue(q, c, r, w), x.op = "writeComplete" \/ v = w
  PROVE  ResumeDue(Append(q, x), c, r, v)
<1>1. PICK p \in Seq(TaskSet) : p = Append(q, x)
  <2>1. Append(q, x) \in Seq(TaskSet)
    OBVIOUS
  <2> QED
    BY <2>1, Zenon
<1>2. /\ Len(p) = Len(q) + 1 /\ Len(p) \in 1..Len(p) /\ p[Len(p)] = x
      /\ \A i \in 1..Len(q) : i \in 1..Len(p) /\ p[i] = q[i]
      /\ \A i \in 1..Len(p) : i = Len(p) \/ i \in 1..Len(q)
  <2>1. Len(p) = Len(q) + 1 /\ Len(q) \in Nat /\ p[Len(q) + 1] = x
    BY <1>1
  <2>2. \A i \in 1..Len(q) : p[i] = q[i]
    BY <1>1
  <2> HIDE <1>1
  <2>3. /\ Len(p) \in 1..Len(p)
        /\ \A i \in 1..Len(q) : i \in 1..Len(p)
        /\ \A i \in 1..Len(p) : i = Len(p) \/ i \in 1..Len(q)
    BY <2>1
  <2> QED
    BY <2>1, <2>2, <2>3
<1>3. CASE x.op = "writeComplete"
  <2>1. \A i \in 0..Len(q) : Resumes(p, i)
    BY <1>2, <1>3 DEF Resumes
  <2>2. \A i \in 1..Len(p) : p[i].op = "highWaterMark" => i \in 0..Len(q)
    BY <1>2, <1>3
  <2>3. ResumeDue(p, c, r, v)
    BY <2>1, <2>2 DEF ResumeDue
  <2> QED
    BY <1>1, <2>3
<1>4. CASE x.op = "forceClose"
  <2>1. \A i \in 0..Len(q) : Resumes(q, i) => Resumes(p, i)
    BY <1>2 DEF Resumes
  <2>2. \A i \in 1..Len(p) : p[i].op = "highWaterMark" => i \in 1..Len(q) /\ p[i] = q[i]
    BY <1>2, <1>4
  <2>3. v = w
    BY <1>4
  <2>4. ResumeDue(p, c, r, v)
    BY <2>1, <2>2, <2>3 DEF ResumeDue
  <2> QED
    BY <1>1, <2>4
<1> QED
  BY <1>3, <1>4

LEMMA PopDue ==
  ASSUME NEW q \in Seq(TaskSet), q # <<>>, Head(q).op \in {"writeComplete", "highWaterMark"},
         NEW r, NEW w, ResumeDue(q, "none", r, w)
  PROVE  ResumeDue(Tail(q), Head(q).op, r, w)
<1>1. PICK p \in Seq(TaskSet) : p = Tail(q)
  <2>1. Tail(q) \in Seq(TaskSet)
    OBVIOUS
  <2> QED
    BY <2>1, Zenon
<1>2. /\ Len(p) = Len(q) - 1 /\ Head(q) = q[1] /\ 1 \in 1..Len(q) /\ Len(q) \in Nat
      /\ \A i \in 1..Len(p) : i + 1 \in 1..Len(q) /\ p[i] = q[i + 1]
      /\ \A i \in 1..Len(q) : i = 1 \/ (i - 1 \in 1..Len(p) /\ p[i - 1] = q[i])
  BY <1>1
<1>3. \A i \in 0..Len(p) : Resumes(q, i + 1) => Resumes(p, i)
  <2> SUFFICES ASSUME NEW i \in 0..Len(p), Resumes(q, i + 1) PROVE Resumes(p, i)
    OBVIOUS
  <2>1. PICK j \in 1..Len(q) : j > i + 1 /\ q[j].op = "writeComplete"
    BY DEF Resumes
  <2>2. j - 1 \in 1..Len(p) /\ p[j - 1] = q[j] /\ j - 1 > i
    BY <1>2, <2>1
  <2> QED
    BY <2>1, <2>2 DEF Resumes
<1>4. \A i \in 1..Len(p) : p[i].op = "highWaterMark" => w \/ Resumes(p, i)
  BY <1>2, <1>3 DEF ResumeDue
<1>5. Head(q).op = "highWaterMark" => w \/ Resumes(p, 0)
  <2>1. 0 \in 0..Len(p) /\ 0 + 1 = 1
    BY <1>2
  <2>2. Resumes(q, 1) => Resumes(p, 0)
    BY <1>3, <2>1
  <2> QED
    BY <1>2, <2>2 DEF ResumeDue
<1>6. ResumeDue(p, Head(q).op, r, w)
  BY <1>4, <1>5 DEF ResumeDue
<1> QED
  BY <1>1, <1>6

LEMMA WritingDue ==
  ASSUME NEW q, NEW c, NEW r, NEW w, w PROVE ResumeDue(q, c, r, w)
BY DEF ResumeDue

(* What the two writers leave behind.                                      *)
LEMMA SendDue ==
  ASSUME Base, closes = 0, NEW m \in Msgs, sendInLoop(m)
  PROVE  isWriting(channel') \/ UNCHANGED <<channel, pendingTasks_>>
         \/ (UNCHANGED channel /\ Adds("writeComplete"))
<1> USE SizesAssumption
<1>1. state_ # "kDisconnected" /\ Good(channel)
  BY DEF Base, ConnType, Open
<1>2. ASSUME NEW n, BufferRest(m, n) PROVE isWriting(channel')
  BY <1>1, <1>2, ChannelFacts DEF BufferRest, Writing
<1>3. CASE OutputWaits
  BY <1>1, <1>2, <1>3 DEF sendInLoop
<1>4. CASE ~OutputWaits
  <2>1. PICK n \in WriteResults(MsgLen) :
          CASE n = -1     -> UNCHANGED <<outputBuffer_, channel, pendingTasks_>>
            [] n = MsgLen -> /\ Queue(Task("writeComplete", NoMsg))
                             /\ UNCHANGED <<outputBuffer_, channel>>
            [] OTHER      -> BufferRest(m, n)
    BY <1>1, <1>4 DEF sendInLoop
  <2>2. CASE n = -1
    BY <2>1, <2>2
  <2>3. CASE n = MsgLen
    BY <2>1, <2>3, QueueAdds DEF TaskOps
  <2>4. CASE n # -1 /\ n # MsgLen
    BY <1>2, <2>1, <2>4
  <2> QED
    BY <2>2, <2>3, <2>4
<1> QED
  BY <1>3, <1>4

LEMMA WriteDue ==
  ASSUME Base, handleWrite
  PROVE  UNCHANGED <<channel, pendingTasks_>>
         \/ (isReading(channel') = isReading(channel) /\ Adds("writeComplete"))
<1>1. Good(channel)
  BY DEF Base, ConnType
<1>2. \/ UNCHANGED <<channel, pendingTasks_>>
      \/ channel' = disableWrite(channel) /\ Queue(Task("writeComplete", NoMsg))
  BY DEF handleWrite
<1> QED
  BY <1>1, <1>2, QueueAdds, ReadingFacts DEF TaskOps

(* A step that leaves queue and channel as they are.                       *)
LEMMA DueStays ==
  ASSUME ResumeInv, closes' = 0 => closes = 0, lpc' = "new" <=> lpc = "new",
         UNCHANGED <<channel, tasks, pendingTasks_>>,
         cb' = cb \/ {cb, cb'} \cap {"highWaterMark", "writeComplete"} = {}
  PROVE  ResumeInv'
<1>1. Queued' = Queued
  BY DEF Queued
<1>2. \A q, r, w : ResumeDue(q, cb, r, w) => ResumeDue(q, cb', r, w)
  BY DEF ResumeDue
<1> QED
  BY <1>1, <1>2 DEF ResumeInv

(* A step that queues one more task.                                       *)
LEMMA DueAdds ==
  ASSUME Base, ResumeInv, lpc # "new", closes = 0, UNCHANGED <<tasks, lpc, cb>>,
         isReading(channel') = isReading(channel),
         \/ Adds("writeComplete")
         \/ Adds("forceClose") /\ UNCHANGED channel
  PROVE  ResumeInv'
<1>1. PICK x \in TaskSet : /\ pendingTasks_' = Append(pendingTasks_, x)
                           /\ x.op = "writeComplete" \/ (x.op = "forceClose" /\ UNCHANGED channel)
  BY DEF Adds
<1>2. Queued' = Append(Queued, x) /\ Queued \in Seq(TaskSet)
  BY <1>1, QueuedFacts DEF Queued, Base
<1>3. ResumeDue(Queued, cb, isReading(channel), isWriting(channel))
  BY DEF ResumeInv
<1>4. ResumeDue(Append(Queued, x), cb, isReading(channel), isWriting(channel'))
  BY <1>1, <1>2, <1>3, PushDue
<1> QED
  BY <1>2, <1>4 DEF ResumeInv

LEMMA DueKept == ASSUME Base, EchoInv, ResumeInv, [EchoNext]_echoVars PROVE ResumeInv'
<1> USE DEF Base, ConnType
<1>1. closes' = 0 => closes = 0
  BY EchoCloses
<1>2. CASE EchoCalls
  <2>1. /\ UNCHANGED <<pendingTasks_, tasks, lpc, closes>> /\ cb' = "none"
        /\ isWriting(channel') = isWriting(channel)
    BY <1>2, CallsFacts, ChannelFacts
  <2>2. Queued' = Queued
    BY <2>1 DEF Queued
  <2>3. ASSUME NEW q, ResumeDue(q, cb, isReading(channel), isWriting(channel))
        PROVE  ResumeDue(q, "none", isReading(channel'), isWriting(channel))
    <3>1. CASE onWriteComplete
      <4>1. isReading(channel')
        BY <3>1, ReadingFacts DEF onWriteComplete, startRead
      <4> QED
        BY <2>3, <4>1 DEF ResumeDue
    <3>2. CASE onHighWaterMark
      BY <2>3, <3>2 DEF ResumeDue, onHighWaterMark
    <3>3. CASE onConnection \/ onMessageReturns
      <4>1. channel' = channel /\ cb # "writeComplete"
        BY <3>3 DEF onConnection, onMessageReturns, connVars
      <4> QED
        BY <2>3, <4>1 DEF ResumeDue
    <3> QED
      BY <1>2, <3>1, <3>2, <3>3 DEF EchoCalls
  <2> QED
    BY <2>1, <2>2, <2>3 DEF ResumeInv
<1>3. CASE onMessageSends
  <2>1. UNCHANGED <<tasks, lpc, cb, closes>> /\ lpc # "new"
    BY <1>3, SendsFacts DEF EchoInv, EchoTurn
  <2>2. CASE UNCHANGED <<channel, pendingTasks_>>
    BY <2>1, <2>2, DueStays
  <2>3. CASE closes # 0
    BY <2>1, <2>3 DEF ResumeInv
  <2>4. ASSUME closes = 0, NEW m \in Msgs, sendInLoop(m) PROVE ResumeInv'
    <3>1. CASE isWriting(channel')
      BY <2>1, <3>1, WritingDue DEF ResumeInv
    <3>2. CASE UNCHANGED channel /\ Adds("writeComplete")
      BY <2>1, <2>4, <3>2, DueAdds
    <3> QED
      BY <2>2, <2>4, <3>1, <3>2, SendDue
  <2> QED
    BY <1>3, <2>2, <2>3, <2>4, EchoSendIs
<1>4. CASE onTimeout
  <2>1. /\ lpc = "dispatch" /\ forceClose /\ UNCHANGED <<channel, tasks, lpc, cb, closes>>
    BY <1>4, TimeoutFacts
  <2>2. CASE UNCHANGED pendingTasks_
    BY <2>1, <2>2, DueStays
  <2>3. CASE closes # 0
    BY <2>1, <2>3 DEF ResumeInv
  <2>4. CASE closes = 0 /\ Adds("forceClose")
    BY <2>1, <2>4, DueAdds
  <2> QED
    BY <2>1, <2>2, <2>3, <2>4, QueueAdds DEF forceClose, TaskOps, AllOps
<1>5. CASE handler
  <2>1. /\ cb = "none" /\ todo # <<>> /\ UNCHANGED <<lpc, tasks>> /\ Head(todo) \in Callbacks
    BY <1>5, TailFacts DEF handler, TodoType
  <2>2. lpc # "new"
    BY <2>1 DEF EchoInv, EchoTurn
  <2>3. CASE closes' # 0
    BY <2>1, <2>2, <2>3 DEF ResumeInv
  <2>4. CASE closes' = 0 /\ Head(todo) = "write"
    <3>1. handleWrite /\ cb' = cb
      BY <1>5, <2>4 DEF handler
    <3>2. CASE UNCHANGED <<channel, pendingTasks_>>
      BY <1>1, <2>1, <3>1, <3>2, DueStays
    <3>3. CASE isReading(channel') = isReading(channel) /\ Adds("writeComplete")
      BY <1>1, <2>1, <2>2, <2>4, <3>1, <3>3, DueAdds
    <3> QED
      BY <3>1, <3>2, <3>3, WriteDue
  <2>5. CASE closes' = 0 /\ Head(todo) # "write"
    <3>1. ~handleClose
      BY <1>1, <2>5 DEF handleClose, closeConnection
    <3>2. UNCHANGED <<channel, pendingTasks_>> /\ cb' \in {"none", "message"}
      <4>1. CASE Head(todo) = "close"
        BY <1>5, <3>1, <4>1 DEF handler
      <4>2. CASE Head(todo) = "error"
        BY <1>5, <2>1, <4>2 DEF handler
      <4>3. CASE Head(todo) = "read"
        <5>1. handleRead /\ UNCHANGED pendingTasks_
          BY <1>5, <4>3 DEF handler
        <5> QED
          BY <2>1, <3>1, <5>1 DEF handleRead
      <4> QED
        BY <2>1, <2>5, <4>1, <4>2, <4>3 DEF Callbacks
    <3> QED
      BY <1>1, <2>1, <3>2, DueStays
  <2> QED
    BY <2>3, <2>4, <2>5
<1>6. CASE runTask
  <2>1. /\ lpc = "tasks" /\ cb = "none" /\ tasks # <<>> /\ tasks' = Tail(tasks) /\ UNCHANGED lpc
    BY <1>6 DEF runTask
  <2>2. CASE closes' # 0
    BY <2>1, <2>2 DEF ResumeInv
  <2>3. CASE closes' = 0
    <3>1. closes = 0 /\ state_ # "kDisconnected"
      BY <1>1, <2>3 DEF Open
    <3>2. PICK x \in TaskSet : x = Head(tasks)
      <4>1. Head(tasks) \in TaskSet
        BY <2>1 DEF QueueType
      <4> QED
        BY <4>1, Zenon
    <3>3. /\ Queued \in Seq(TaskSet) /\ Queued # <<>> /\ Head(Queued) = x
          /\ Tail(Queued) = Tail(tasks) \o pendingTasks_
      BY <2>1, <3>2, QueuedFacts
    <3>4. x.op \in EchoOps
      <4>1. 1 \in 1..Len(Queued) /\ Head(Queued) = Queued[1]
        BY <3>3
      <4> QED
        BY <3>3, <4>1 DEF EchoInv, EchoQueue
    <3>5. x.op # "forceClose"
      <4>1. CASE x.op = "forceClose"
        <5>1. forceCloseInLoop
          BY <1>6, <3>2, <4>1 DEF runTask
        <5> QED
          BY <2>3, <3>1, <5>1 DEF forceCloseInLoop, handleClose, closeConnection
      <4> QED
        BY <4>1
    <3>6. x.op \in {"writeComplete", "highWaterMark"}
      BY <3>4, <3>5 DEF EchoOps
    <3>7. cb' = x.op /\ UNCHANGED <<channel, pendingTasks_>>
      BY <1>6, <3>2, <3>6 DEF runTask, connVars
    <3>8. Queued' = Tail(Queued)
      BY <2>1, <3>3, <3>7 DEF Queued
    <3>9. ResumeDue(Tail(Queued), x.op, isReading(channel), isWriting(channel))
      BY <2>1, <3>1, <3>3, <3>6, PopDue DEF ResumeInv
    <3> QED
      BY <2>1, <3>7, <3>8, <3>9 DEF ResumeInv
  <2> QED
    BY <2>2, <2>3
<1>7. CASE newConnection
  <2>1. /\ lpc = "new" /\ lpc' = "dispatch" /\ cb' = "up" /\ channel' = enableRead(channel)
        /\ UNCHANGED <<tasks, pendingTasks_>>
    BY <1>7 DEF newConnection, connectEstablished
  <2>2. Queued' = <<>>
    BY <2>1 DEF EchoInv, EchoTurn, ResumeInv, Queued
  <2>3. isReading(channel')
    BY <2>1, ReadingFacts
  <2> QED
    BY <2>1, <2>2, <2>3 DEF ResumeInv, ResumeDue
<1>8. CASE doPendingTasks
  <2>1. /\ lpc = "dispatch" /\ lpc' = "tasks" /\ tasks' = pendingTasks_ /\ pendingTasks_' = <<>>
        /\ UNCHANGED <<channel, cb, closes>>
    BY <1>8 DEF doPendingTasks, AllHandled, connVars, histVars
  <2>2. tasks = <<>> /\ pendingTasks_ \in Seq(TaskSet)
    BY <2>1 DEF EchoInv, EchoTurn, QueueType
  <2>3. Queued' = Queued
    BY <2>1, <2>2 DEF Queued
  <2> QED
    BY <2>1, <2>3 DEF ResumeInv
<1>9. CASE handleEvents \/ tasksDone \/ QuietPeer \/ echoPeerSendsUrgent \/ UNCHANGED vars \/ (\E room \in BOOLEAN : poll(room))
  <2>1. UNCHANGED <<channel, tasks, pendingTasks_, cb>> /\ (lpc' = "new" <=> lpc = "new")
    BY <1>9 DEF handleEvents, tasksDone, QuietPeer, echoPeerSendsUrgent, peerSendsUrgent, peerSends, peerCloses,
                peerResets, PeerActs, poll, vars, connVars, loopVars
  <2> QED
    BY <1>1, <2>1, DueStays
<1> QED
  BY <1>2, <1>3, <1>4, <1>5, <1>6, <1>7, <1>8, <1>9, EchoSteps DEF LoopStep

(* Reading that has stopped on an open connection is about to resume: a    *)
(* write-complete callback runs or waits in the queue, or output waits     *)
(* that the channel asks EPOLLOUT for.                                     *)
ReadingDue ==
  lpc # "new" /\ closes = 0 /\ ~isReading(channel) =>
    \/ outputBuffer_ # <<>> /\ isWriting(channel)
    \/ cb = "writeComplete" \/ \E i \in 1..Len(Queued) : Queued[i].op = "writeComplete"

(* In whatever order the high-water-mark and write-complete callbacks are  *)
(* queued and run, EchoServer never stops reading with nothing left that   *)
(* would start it again.                                                   *)
THEOREM EchoReadingDue == EchoSpec => []ReadingDue
<1>1. EchoInit => ResumeInv
  BY DEF EchoInit, Init, ResumeInv
<1>2. Base /\ EchoInv /\ ResumeInv /\ [EchoNext]_echoVars => ResumeInv'
  BY DueKept
<1>3. Base /\ ResumeInv => ReadingDue
  BY DEF Base, Open, WritingIffOutput, ResumeInv, ResumeDue, Resumes, ReadingDue
<1> QED
  BY <1>1, <1>2, <1>3, EchoBase, EchoHolds, PTL DEF EchoSpec

(* Nothing is sent on a connection that was closed, although its channel   *)
(* may have been registered again.                                         *)
THEOREM EchoSilent == EchoSpec => ClosedIsSilent
<1>1. Base /\ EchoInv /\ [EchoNext]_echoVars =>
        [closes # 0 => UNCHANGED <<wire, outputBuffer_, accepted>>]_vars
  BY DeadIsSilent
<1> QED
  BY <1>1, EchoBase, EchoHolds, PTL DEF EchoSpec, ClosedIsSilent
-----------------------------------------------------------------------------
(* The timeout table: the connection callback that erases the entry comes  *)
(* with a connection that is closed.                                       *)
TimedInv == OpenIsTimed /\ (cb = "down" => state_ # "kConnected")

(* A step of the loop, seen from the table.                                *)
TableKept ==
  /\ state_' = state_ \/ state_' = "kDisconnected"
  /\ cb' = cb \/ (cb # "up" /\ cb' # "up")
  /\ cb' = "down" => cb = "down" \/ state_' = "kDisconnected"
  /\ held' = held /\ (lpc' # "new" => lpc # "new")

LEMMA TableTimed == ASSUME TimedInv, TableKept PROVE TimedInv'
BY DEF TimedInv, OpenIsTimed, TableKept

LEMMA HandlerTable == ASSUME Base, handler PROVE TableKept
<1>1. /\ cb = "none" /\ UNCHANGED <<held, lpc>> /\ Head(todo) \in Callbacks
  BY TailFacts DEF handler, userVars, Base, TodoType
<1>2. CASE Head(todo) = "close"
  BY <1>1, <1>2 DEF handler, handleClose, closeConnection, TableKept
<1>3. CASE Head(todo) = "error"
  BY <1>1, <1>3 DEF handler, TableKept
<1>4. CASE Head(todo) = "read"
  BY <1>1, <1>4 DEF handler, handleRead, handleClose, closeConnection, TableKept
<1>5. CASE Head(todo) = "write"
  BY <1>1, <1>5 DEF handler, handleWrite, TableKept
<1> QED
  BY <1>1, <1>2, <1>3, <1>4, <1>5 DEF Callbacks

LEMMA TaskTable == ASSUME Base, EchoInv, runTask PROVE TableKept
<1>1. lpc = "tasks" /\ cb = "none" /\ tasks # <<>> /\ UNCHANGED <<held, lpc>>
  BY DEF runTask, userVars
<1>2. PICK x \in TaskSet : x = Head(tasks)
  <2>1. Head(tasks) \in TaskSet
    BY <1>1 DEF Base, QueueType
  <2> QED
    BY <2>1, Zenon
<1>3. x.op \in EchoOps
  <2>1. /\ Queued \in Seq(TaskSet) /\ Queued # <<>> /\ Head(Queued) = x
    BY <1>1, <1>2, QueuedFacts DEF Base
  <2>2. 1 \in 1..Len(Queued) /\ Head(Queued) = Queued[1]
    BY <2>1
  <2> QED
    BY <2>1, <2>2 DEF EchoInv, EchoQueue
<1>4. CASE x.op = "forceClose"
  <2>1. forceCloseInLoop
    BY <1>2, <1>4 DEF runTask
  <2> QED
    BY <1>1, <2>1 DEF forceCloseInLoop, handleClose, closeConnection, TableKept
<1>5. CASE x.op \in {"writeComplete", "highWaterMark"}
  <2>1. state_' = state_ /\ cb' = x.op
    BY <1>2, <1>5 DEF runTask, connVars
  <2> QED
    BY <1>1, <1>5, <2>1 DEF TableKept
<1> QED
  BY <1>3, <1>4, <1>5 DEF EchoOps

(* Its callbacks enter the connection in the table, or it is closed.       *)
LEMMA CallsTimed == ASSUME Base, TimedInv, EchoCalls PROVE TimedInv'
<1>1. UNCHANGED <<state_, lpc>> /\ cb' = "none"
  BY CallsFacts
<1>2. \/ LoopThread \in held' \/ cb = "down" \/ (cb = "writeComplete" /\ held' = held)
  BY DEF EchoCalls, onConnection, onMessageReturns, onWriteComplete, onHighWaterMark
<1> QED
  BY <1>1, <1>2 DEF TimedInv, OpenIsTimed

LEMMA TimedKept == ASSUME Base, EchoInv, TimedInv, [EchoNext]_echoVars PROVE TimedInv'
<1>1. CASE onMessageSends
  <2>1. state_' = state_ /\ UNCHANGED <<cb, lpc, held>>
    BY <1>1 DEF onMessageSends, loopVars, userVars, send, sendInLoop, connVars
  <2> QED
    BY <2>1 DEF TimedInv, OpenIsTimed
<1>2. CASE onTimeout
  <2>1. cb' = "none" /\ state_' # "kConnected"
    BY <1>2, TimeoutFacts DEF forceClose
  <2> QED
    BY <2>1 DEF TimedInv, OpenIsTimed
<1>3. CASE newConnection
  BY <1>3 DEF newConnection, TimedInv, OpenIsTimed
<1>4. CASE LoopStep
  <2>1. CASE (\E room \in BOOLEAN : poll(room)) \/ handleEvents \/ doPendingTasks \/ tasksDone
    <3>1. TableKept
      BY <2>1 DEF poll, handleEvents, doPendingTasks, AllHandled, tasksDone, connVars, userVars, TableKept
    <3> QED
      BY <3>1, TableTimed
  <2> QED
    BY <1>4, <2>1, HandlerTable, TaskTable, TableTimed DEF LoopStep
<1>5. CASE QuietPeer \/ peerSendsUrgent \/ UNCHANGED vars
  <2>1. TableKept
    BY <1>5 DEF QuietPeer, peerSends, peerSendsUrgent, peerCloses, peerResets, PeerActs, vars, connVars,
       loopVars, userVars, TableKept
  <2> QED
    BY <2>1, TableTimed
<1> QED
  BY <1>1, <1>2, <1>3, <1>4, <1>5, CallsTimed, EchoSteps DEF echoPeerSendsUrgent

(* An open connection of EchoServer always has a deadline in connections_, *)
(* so that onTimeout can find it idle: for any messages, marks and order of*)
(* the callbacks that erase and renew the entry.                           *)
THEOREM EchoTimed == EchoSpec => []OpenIsTimed
<1>1. EchoInit => TimedInv
  BY DEF EchoInit, Init, TimedInv, OpenIsTimed
<1>2. Base /\ EchoInv /\ TimedInv /\ [EchoNext]_echoVars => TimedInv'
  BY TimedKept
<1>3. TimedInv => OpenIsTimed
  BY DEF TimedInv
<1> QED
  BY <1>1, <1>2, <1>3, EchoBase, EchoHolds, PTL DEF EchoSpec
=============================================================================

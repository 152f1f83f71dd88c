------------------------ MODULE TcpConnectionProofs ------------------------
(***************************************************************************)
(* Proofs about TcpConnection, for any threads, calls, message length and  *)
(* high-water mark.  Part of them assume LoopControls: the connection is   *)
(* shut, closed and read again only by code in its own loop thread.        *)
(***************************************************************************)
EXTENDS TcpConnection, SequenceTheorems, TLAPS

LoopControls == \A th \in Users : Ops[th] \subseteq {"send", "stopRead"}
-----------------------------------------------------------------------------
(* Types.                                                                  *)
States == {"kConnecting", "kConnected", "kDisconnecting", "kDisconnected"}
Msgs == [by : Threads \cup {"none"}, n : Nat]
UnitSet == [msg : Msgs, unit : 1..MsgLen]
TaskOps == AllOps \cup {"writeComplete", "highWaterMark"}
TaskSet == [op : TaskOps, msg : Msgs]
Socks == [rcv : Int, urg : Int, fin : BOOLEAN, rst : BOOLEAN, soError : BOOLEAN,
          shutWr : BOOLEAN]
Callbacks == {"close", "error", "read", "write"}

(* The callbacks that one pass of handleEventWithGuard calls: at most one  *)
(* of them can close the connection, unless EPOLLHUP comes with EPOLLPRI.  *)
Closer == {"close", "read"}
NoCloser(q) == q \in Seq(Callbacks) /\ \A i \in 1..Len(q) : q[i] \notin Closer
OneCloser(q) == q \in Seq(Callbacks)
                /\ \A i, j \in 1..Len(q) : q[i] \in Closer /\ q[j] \in Closer => i = j

(* A channel whose registration the poller and the kernel agree on.        *)
Good(c) == c \in ChannelState /\ c.epoll = IF c.pooling THEN c.events ELSE NotInEpoll

ConnType ==
  /\ state_ \in States /\ Good(channel) /\ sock \in Socks /\ closes \in Nat
  /\ outputBuffer_ \in Seq(UnitSet) /\ wire \in Seq(UnitSet)
QueueType == tasks \in Seq(TaskSet) /\ pendingTasks_ \in Seq(TaskSet)
HistType == sent \in [Threads -> Nat] /\ accepted \in Seq(Msgs)
CallType == ucall \in [Users -> {"none", "exchange", "send", "shutdown", "forceClose"}]
TodoType == todo \in Seq(Callbacks) /\ revents \in SUBSET {"IN", "PRI", "OUT", "HUP", "ERR"}

(* The inductive invariant of what holds whoever calls what.               *)
Open == (closes = 0 => state_ # "kDisconnected") /\ WritingIffOutput
Base == ConnType /\ QueueType /\ HistType /\ CallType /\ TodoType /\ Open
-----------------------------------------------------------------------------
(* Queue q holds sends of each thread in order, acc was accepted earlier,  *)
(* and between them nothing is missing of the g[th] sends.                 *)
WaitsIn(q, i) == i \in 1..Len(q) /\ q[i].op = "send"
InQueue(q, g) ==
  \A i \in 1..Len(q) : WaitsIn(q, i) =>
    /\ q[i].msg.by \in Users /\ q[i].msg.n >= 1 /\ q[i].msg.n <= g[q[i].msg.by]
    /\ \A j \in 1..Len(q) : WaitsIn(q, j) /\ i < j /\ q[i].msg.by = q[j].msg.by
                              => q[i].msg.n < q[j].msg.n
Before(acc, q) == \A i \in 1..Len(acc), j \in 1..Len(q) :
                    WaitsIn(q, j) /\ acc[i].by = q[j].msg.by => acc[i].n < q[j].msg.n
TakenOf(acc, g) == \A i \in 1..Len(acc) : acc[i].by \in Threads /\ acc[i].n >= 1 /\ acc[i].n <= g[acc[i].by]
InOrder(acc) ==
  \A i \in 1..Len(acc) :
    /\ acc[i].n >= 1
    /\ \A j \in 1..Len(acc) : i < j /\ acc[i].by = acc[j].by => acc[i].n < acc[j].n
    /\ acc[i].n > 1 => \E j \in 1..Len(acc) : acc[j] = Msg(acc[i].by, acc[i].n - 1)
Ordered(q, acc, g) == InQueue(q, g) /\ Before(acc, q) /\ TakenOf(acc, g) /\ InOrder(acc)

Has(acc, th, n) == \E i \in 1..Len(acc) : acc[i] = Msg(th, n)
Complete(q, acc, g) ==
  \A th \in Threads, n \in Nat :
    1 <= n /\ n <= g[th] => Has(acc, th, n) \/ \E i \in 1..Len(q) : WaitsIn(q, i) /\ q[i].msg = Msg(th, n)

LEMMA MsgFacts == /\ \A th, n : Msg(th, n).by = th /\ Msg(th, n).n = n
                  /\ \A m \in Msgs : m = Msg(m.by, m.n)
BY DEF Msg, Msgs

LEMMA QueuedTypes ==
  ASSUME NEW q \in Seq(TaskSet)
  PROVE  \A i \in 1..Len(q) : q[i] \in TaskSet /\ q[i].msg \in Msgs /\ q[i].msg.n \in Nat
<1>1. \A i \in 1..Len(q) : q[i] \in TaskSet
  OBVIOUS
<1> QED
  BY <1>1 DEF TaskSet, Msgs

LEMMA AcceptedTypes ==
  ASSUME NEW acc \in Seq(Msgs) PROVE \A i \in 1..Len(acc) : acc[i] \in Msgs /\ acc[i].n \in Nat
<1>1. \A i \in 1..Len(acc) : acc[i] \in Msgs
  OBVIOUS
<1> QED
  BY <1>1 DEF Msgs

LEMMA GrowFacts ==
  ASSUME NEW S, NEW s \in Seq(S), NEW x \in S, NEW u, u = Append(s, x)
  PROVE  /\ u \in Seq(S) /\ Len(s) \in Nat /\ Len(u) = Len(s) + 1 /\ u[Len(u)] = x
         /\ \A i \in 1..Len(s) : i \in 1..Len(u) /\ u[i] = s[i]
         /\ \A i \in 1..Len(u) : (i \in 1..Len(s) /\ u[i] = s[i]) \/ (i = Len(u) /\ i > Len(s) /\ u[i] = x)
OBVIOUS

LEMMA ShrinkFacts ==
  ASSUME NEW S, NEW s \in Seq(S), s # <<>>, NEW u, u = Tail(s)
  PROVE  /\ u \in Seq(S) /\ Len(s) \in Nat /\ Len(s) = Len(u) + 1 /\ Head(s) = s[1] /\ Head(s) \in S
         /\ \A i \in 1..Len(u) : i + 1 \in 1..Len(s) /\ u[i] = s[i + 1]
         /\ \A i \in 1..Len(s) : i = 1 \/ (i - 1 \in 1..Len(u) /\ u[i - 1] = s[i])
OBVIOUS

(* A task that is not a send joins the queue.                              *)
LEMMA PushOther ==
  ASSUME NEW q \in Seq(TaskSet), NEW acc \in Seq(Msgs), NEW g, NEW x \in TaskSet, x.op # "send",
         NEW u, u = Append(q, x)
  PROVE  /\ Ordered(q, acc, g) => Ordered(u, acc, g)
         /\ Complete(q, acc, g) => Complete(u, acc, g)
<1>1. /\ \A i \in 1..Len(q) : i \in 1..Len(u) /\ u[i] = q[i]
      /\ \A i \in 1..Len(u) : (i \in 1..Len(q) /\ u[i] = q[i]) \/ u[i] = x
  BY GrowFacts
<1>2. /\ \A i \in 1..Len(u) : WaitsIn(u, i) => i \in 1..Len(q) /\ WaitsIn(q, i) /\ u[i] = q[i]
      /\ \A i \in 1..Len(q) : WaitsIn(q, i) => i \in 1..Len(u) /\ WaitsIn(u, i) /\ u[i] = q[i]
  BY <1>1 DEF WaitsIn
<1>3. InQueue(q, g) => InQueue(u, g)
  BY <1>2 DEF InQueue
<1>4. Before(acc, q) => Before(acc, u)
  BY <1>2 DEF Before
<1>5. Complete(q, acc, g) => Complete(u, acc, g)
  BY <1>2 DEF Complete
<1> QED
  BY <1>3, <1>4, <1>5 DEF Ordered

(* So does the next send of a thread.                                      *)
NextSend(x, th, g, h) == /\ x.op = "send" /\ x.msg = Msg(th, g[th] + 1)
                         /\ g[th] >= 0 /\ h = [g EXCEPT ![th] = @ + 1]

LEMMA PushSend ==
  ASSUME NEW q \in Seq(TaskSet), NEW acc \in Seq(Msgs), NEW g \in [Threads -> Int], NEW th \in Users,
         NEW x \in TaskSet, NEW h, NextSend(x, th, g, h), NEW u, u = Append(q, x)
  PROVE  /\ Ordered(q, acc, g) => Ordered(u, acc, h)
         /\ Complete(q, acc, g) => Complete(u, acc, h)
<1>1. /\ Len(q) \in Nat /\ Len(u) = Len(q) + 1 /\ u[Len(u)] = x
      /\ \A i \in 1..Len(q) : i \in 1..Len(u) /\ u[i] = q[i]
      /\ \A i \in 1..Len(u) : (i \in 1..Len(q) /\ u[i] = q[i]) \/ (i = Len(u) /\ i > Len(q) /\ u[i] = x)
  BY GrowFacts
<1>2. /\ \A i \in 1..Len(u) : WaitsIn(u, i) => \/ i \in 1..Len(q) /\ WaitsIn(q, i) /\ u[i] = q[i]
                                               \/ i = Len(u) /\ i > Len(q) /\ u[i] = x
      /\ \A i \in 1..Len(q) : WaitsIn(q, i) => i \in 1..Len(u) /\ WaitsIn(u, i) /\ u[i] = q[i]
      /\ Len(u) \in 1..Len(u) /\ WaitsIn(u, Len(u))
  BY <1>1 DEF WaitsIn, NextSend
<1>3. /\ x.msg = Msg(th, g[th] + 1) /\ g[th] \in Int /\ g[th] >= 0
      /\ x.msg.by = th /\ x.msg.n = g[th] + 1 /\ th \in Threads
      /\ h \in [Threads -> Int] /\ h[th] = g[th] + 1 /\ \A v \in Threads : v # th => h[v] = g[v]
  BY MsgFacts DEF Threads, NextSend
<1>4. \A v \in Threads : g[v] \in Int /\ h[v] \in Int /\ g[v] <= h[v]
  <2> SUFFICES ASSUME NEW v \in Threads PROVE g[v] \in Int /\ h[v] \in Int /\ g[v] <= h[v]
    OBVIOUS
  <2>1. g[v] \in Int
    OBVIOUS
  <2> QED
    BY <1>3, <2>1
<1>5. ASSUME InQueue(q, g) PROVE InQueue(u, h)
  <2>1. \A i \in 1..Len(q) : WaitsIn(q, i) => /\ q[i].msg.by \in Users /\ q[i].msg.n >= 1
                                              /\ q[i].msg.n <= g[q[i].msg.by]
                                              /\ q[i].msg.n \in Nat /\ q[i].msg.by \in Threads
    BY <1>5, QueuedTypes DEF InQueue, Threads
  <2>2. ASSUME NEW i \in 1..Len(u), WaitsIn(u, i)
        PROVE  u[i].msg.by \in Users /\ u[i].msg.n >= 1 /\ u[i].msg.n <= h[u[i].msg.by]
    BY <1>2, <1>3, <1>4, <2>1, <2>2
  <2>3. ASSUME NEW i \in 1..Len(u), NEW j \in 1..Len(u), WaitsIn(u, i), WaitsIn(u, j), i < j,
               u[i].msg.by = u[j].msg.by
        PROVE  u[i].msg.n < u[j].msg.n
    <3>1. i \in 1..Len(q) /\ WaitsIn(q, i) /\ u[i] = q[i]
      BY <1>1, <1>2, <2>3
    <3>2. CASE j \in 1..Len(q) /\ WaitsIn(q, j) /\ u[j] = q[j]
      BY <1>5, <2>3, <3>1, <3>2 DEF InQueue
    <3>3. CASE u[j] = x
      <4>1. u[i].msg.n <= g[th] /\ u[i].msg.n \in Nat
        BY <1>3, <2>1, <2>3, <3>1, <3>3
      <4> QED
        BY <1>3, <3>3, <4>1
    <3> QED
      BY <1>2, <2>3, <3>2, <3>3
  <2> QED
    BY <2>2, <2>3 DEF InQueue
<1>6. ASSUME Before(acc, q), TakenOf(acc, g) PROVE Before(acc, u) /\ TakenOf(acc, h)
  <2>1. \A i \in 1..Len(acc) : /\ acc[i].n \in Nat /\ acc[i].by \in Threads /\ acc[i].n <= g[acc[i].by]
                               /\ acc[i].n >= 1
    BY <1>6, AcceptedTypes DEF TakenOf
  <2>2. ASSUME NEW i \in 1..Len(acc), NEW j \in 1..Len(u), WaitsIn(u, j), acc[i].by = u[j].msg.by
        PROVE  acc[i].n < u[j].msg.n
    <3>1. CASE j \in 1..Len(q) /\ WaitsIn(q, j) /\ u[j] = q[j]
      BY <1>6, <2>2, <3>1 DEF Before
    <3>2. CASE u[j] = x
      BY <1>3, <2>1, <2>2, <3>2
    <3> QED
      BY <1>2, <2>2, <3>1, <3>2
  <2>3. TakenOf(acc, h)
    BY <1>4, <2>1 DEF TakenOf
  <2> QED
    BY <2>2, <2>3 DEF Before
<1>7. ASSUME Complete(q, acc, g) PROVE Complete(u, acc, h)
  <2> SUFFICES ASSUME NEW v \in Threads, NEW n \in Nat, 1 <= n, n <= h[v], ~Has(acc, v, n)
               PROVE  \E i \in 1..Len(u) : WaitsIn(u, i) /\ u[i].msg = Msg(v, n)
    BY DEF Complete
  <2>1. CASE n <= g[v]
    <3>1. PICK i \in 1..Len(q) : WaitsIn(q, i) /\ q[i].msg = Msg(v, n)
      BY <1>7, <2>1 DEF Complete
    <3> QED
      BY <1>2, <3>1
  <2>2. CASE ~(n <= g[v])
    <3>1. v = th /\ n = g[th] + 1
      BY <1>3, <2>2
    <3> QED
      BY <1>1, <1>2, <1>3, <3>1
  <2> QED
    BY <2>1, <2>2
<1> QED
  BY <1>5, <1>6, <1>7 DEF Ordered

(* The first task leaves the queue.                                        *)
LEMMA PopTask ==
  ASSUME NEW q \in Seq(TaskSet), q # <<>>, NEW acc \in Seq(Msgs), NEW g, NEW u, u = Tail(q)
  PROVE  /\ Ordered(q, acc, g) => Ordered(u, acc, g)
         /\ Complete(q, acc, g) /\ Head(q).op # "send" => Complete(u, acc, g)
<1>1. /\ Len(q) \in Nat /\ Len(q) = Len(u) + 1 /\ Head(q) = q[1] /\ Len(u) \in Nat
      /\ \A i \in 1..Len(u) : i + 1 \in 1..Len(q) /\ u[i] = q[i + 1]
      /\ \A i \in 1..Len(q) : i = 1 \/ (i - 1 \in 1..Len(u) /\ u[i - 1] = q[i])
  BY ShrinkFacts
<1>2. /\ \A i \in 1..Len(u) : WaitsIn(u, i) => i + 1 \in 1..Len(q) /\ WaitsIn(q, i + 1) /\ u[i] = q[i + 1]
      /\ \A i \in 1..Len(q) : WaitsIn(q, i) => i = 1 \/ (i - 1 \in 1..Len(u) /\ WaitsIn(u, i - 1) /\ u[i - 1] = q[i])
  BY <1>1 DEF WaitsIn
<1>3. ASSUME InQueue(q, g) PROVE InQueue(u, g)
  <2>1. ASSUME NEW i \in 1..Len(u), WaitsIn(u, i)
        PROVE  u[i].msg.by \in Users /\ u[i].msg.n >= 1 /\ u[i].msg.n <= g[u[i].msg.by]
    BY <1>2, <1>3, <2>1 DEF InQueue
  <2>2. ASSUME NEW i \in 1..Len(u), NEW j \in 1..Len(u), WaitsIn(u, i), WaitsIn(u, j), i < j,
               u[i].msg.by = u[j].msg.by
        PROVE  u[i].msg.n < u[j].msg.n
    <3>1. /\ i + 1 \in 1..Len(q) /\ WaitsIn(q, i + 1) /\ u[i] = q[i + 1]
          /\ j + 1 \in 1..Len(q) /\ WaitsIn(q, j + 1) /\ u[j] = q[j + 1]
      BY <1>2, <2>2
    <3>2. i + 1 < j + 1
      BY <2>2
    <3>3. q[i + 1].msg.by = q[j + 1].msg.by
      BY <2>2, <3>1
    <3>4. q[i + 1].msg.n < q[j + 1].msg.n
      BY <1>3, <3>1, <3>2, <3>3 DEF InQueue
    <3> QED
      BY <3>1, <3>4
  <2> QED
    BY <2>1, <2>2 DEF InQueue
<1>4. Before(acc, q) => Before(acc, u)
  BY <1>2 DEF Before
<1>5. ASSUME Complete(q, acc, g), Head(q).op # "send" PROVE Complete(u, acc, g)
  <2>1. ~WaitsIn(q, 1)
    BY <1>1, <1>5 DEF WaitsIn
  <2> SUFFICES ASSUME NEW v \in Threads, NEW n \in Nat, 1 <= n, n <= g[v], ~Has(acc, v, n)
               PROVE  \E i \in 1..Len(u) : WaitsIn(u, i) /\ u[i].msg = Msg(v, n)
    BY DEF Complete
  <2>2. PICK i \in 1..Len(q) : WaitsIn(q, i) /\ q[i].msg = Msg(v, n)
    BY <1>5 DEF Complete
  <2>3. i - 1 \in 1..Len(u) /\ WaitsIn(u, i - 1) /\ u[i - 1].msg = Msg(v, n)
    BY <1>2, <2>1, <2>2
  <2> QED
    BY <2>3
<1> QED
  BY <1>3, <1>4, <1>5 DEF Ordered

(* A message is accepted that follows all of its thread's and precedes the *)
(* ones that wait.                                                         *)
LEMMA AcceptNext ==
  ASSUME NEW q \in Seq(TaskSet), NEW acc \in Seq(Msgs), NEW g \in [Threads -> Int], NEW m \in Msgs,
         Before(acc, q), TakenOf(acc, g), InOrder(acc),
         m.by \in Threads, m.n >= 1, m.n <= g[m.by],
         \A i \in 1..Len(acc) : acc[i].by = m.by => acc[i].n < m.n,
         \A j \in 1..Len(q) : WaitsIn(q, j) /\ q[j].msg.by = m.by => m.n < q[j].msg.n,
         m.n > 1 => Has(acc, m.by, m.n - 1),
         NEW u, u = Append(acc, m)
  PROVE  Before(u, q) /\ TakenOf(u, g) /\ InOrder(u)
<1>1. /\ Len(acc) \in Nat /\ Len(u) = Len(acc) + 1 /\ u[Len(u)] = m
      /\ \A i \in 1..Len(acc) : i \in 1..Len(u) /\ u[i] = acc[i]
      /\ \A i \in 1..Len(u) : (i \in 1..Len(acc) /\ u[i] = acc[i]) \/ (i = Len(u) /\ i > Len(acc) /\ u[i] = m)
  BY GrowFacts
<1>2. Before(u, q)
  BY <1>1 DEF Before
<1>3. TakenOf(u, g)
  BY <1>1 DEF TakenOf
<1>4. InOrder(u)
  <2> SUFFICES ASSUME NEW i \in 1..Len(u)
               PROVE  /\ u[i].n >= 1
                      /\ \A j \in 1..Len(u) : i < j /\ u[i].by = u[j].by => u[i].n < u[j].n
                      /\ u[i].n > 1 => \E j \in 1..Len(u) : u[j] = Msg(u[i].by, u[i].n - 1)
    BY DEF InOrder
  <2>1. u[i].n >= 1
    BY <1>1 DEF InOrder
  <2>2. ASSUME NEW j \in 1..Len(u), i < j, u[i].by = u[j].by PROVE u[i].n < u[j].n
    <3>1. i \in 1..Len(acc) /\ u[i] = acc[i]
      BY <1>1, <2>2
    <3>2. CASE j \in 1..Len(acc) /\ u[j] = acc[j]
      BY <2>2, <3>1, <3>2 DEF InOrder
    <3>3. CASE u[j] = m
      BY <2>2, <3>1, <3>3
    <3> QED
      BY <1>1, <3>2, <3>3
  <2>3. ASSUME u[i].n > 1 PROVE \E j \in 1..Len(u) : u[j] = Msg(u[i].by, u[i].n - 1)
    <3>1. CASE i \in 1..Len(acc) /\ u[i] = acc[i]
      <4>1. PICK j \in 1..Len(acc) : acc[j] = Msg(acc[i].by, acc[i].n - 1)
        BY <2>3, <3>1 DEF InOrder
      <4> QED
        BY <1>1, <3>1, <4>1
    <3>2. CASE u[i] = m
      <4>1. PICK j \in 1..Len(acc) : acc[j] = Msg(m.by, m.n - 1)
        BY <2>3, <3>2 DEF Has
      <4> QED
        BY <1>1, <3>2, <4>1
    <3> QED
      BY <1>1, <3>1, <3>2
  <2> QED
    BY <2>1, <2>2, <2>3
<1> QED
  BY <1>2, <1>3, <1>4

LEMMA HasMore ==
  ASSUME NEW acc \in Seq(Msgs), NEW m \in Msgs, NEW u, u = Append(acc, m)
  PROVE  /\ \A th, n : Has(acc, th, n) => Has(u, th, n)
         /\ Has(u, m.by, m.n)
<1>1. /\ \A i \in 1..Len(acc) : i \in 1..Len(u) /\ u[i] = acc[i]
      /\ Len(u) \in 1..Len(u) /\ u[Len(u)] = m /\ m = Msg(m.by, m.n)
  BY GrowFacts, MsgFacts
<1> QED
  BY <1>1 DEF Has

(* The first task of the queue is a send, and is accepted.                 *)
LEMMA AcceptQueued ==
  ASSUME NEW q \in Seq(TaskSet), q # <<>>, NEW acc \in Seq(Msgs), NEW g \in [Threads -> Int],
         Ordered(q, acc, g), Complete(q, acc, g), Head(q).op = "send", NEW m \in Msgs, m = Head(q).msg,
         NEW u, u = Append(acc, m), NEW r, r = Tail(q)
  PROVE  Ordered(r, u, g) /\ Complete(r, u, g)
<1>1. /\ Len(q) \in Nat /\ Len(q) = Len(r) + 1 /\ Head(q) = q[1] /\ r \in Seq(TaskSet) /\ Len(r) \in Nat
      /\ \A i \in 1..Len(r) : i + 1 \in 1..Len(q) /\ r[i] = q[i + 1]
      /\ \A i \in 1..Len(q) : i = 1 \/ (i - 1 \in 1..Len(r) /\ r[i - 1] = q[i])
  BY ShrinkFacts
<1>2. /\ \A i \in 1..Len(r) : WaitsIn(r, i) => i + 1 \in 1..Len(q) /\ WaitsIn(q, i + 1) /\ r[i] = q[i + 1]
      /\ \A i \in 1..Len(q) : WaitsIn(q, i) => i = 1 \/ (i - 1 \in 1..Len(r) /\ WaitsIn(r, i - 1) /\ r[i - 1] = q[i])
      /\ 1 \in 1..Len(q) /\ WaitsIn(q, 1) /\ q[1].msg = m
  BY <1>1 DEF WaitsIn
<1>3. m.by \in Users /\ m.by \in Threads /\ m.n >= 1 /\ m.n <= g[m.by] /\ m.n \in Nat
  BY <1>2 DEF Ordered, InQueue, Threads, Msgs
<1>4. \A i \in 1..Len(acc) : acc[i].by = m.by => acc[i].n < m.n
  BY <1>2 DEF Ordered, Before
<1>5. ASSUME NEW j \in 1..Len(r), WaitsIn(r, j), r[j].msg.by = m.by PROVE m.n < r[j].msg.n
  <2>1. j + 1 \in 1..Len(q) /\ WaitsIn(q, j + 1) /\ r[j] = q[j + 1] /\ 1 < j + 1
    BY <1>2, <1>5
  <2> QED
    BY <1>2, <1>5, <2>1 DEF Ordered, InQueue
<1>6. ASSUME m.n > 1 PROVE Has(acc, m.by, m.n - 1)
  <2>1. m.n - 1 \in Nat /\ 1 <= m.n - 1 /\ m.n - 1 <= g[m.by]
    BY <1>3, <1>6
  <2>2. ASSUME NEW i \in 1..Len(q), WaitsIn(q, i), q[i].msg = Msg(m.by, m.n - 1) PROVE FALSE
    <3>1. q[i].msg.by = m.by /\ q[i].msg.n = m.n - 1
      BY <2>2, MsgFacts
    <3>2. i # 1
      BY <1>2, <1>3, <3>1
    <3>3. i - 1 \in 1..Len(r) /\ WaitsIn(r, i - 1) /\ r[i - 1] = q[i]
      BY <1>2, <2>2, <3>2
    <3>4. m.n < m.n - 1
      BY <1>5, <3>1, <3>3
    <3> QED
      BY <1>3, <3>4
  <2> QED
    BY <1>3, <2>1, <2>2 DEF Complete
<1>7. Ordered(r, acc, g)
  BY PopTask
<1>8. Ordered(r, u, g)
  <2>1. Before(u, r) /\ TakenOf(u, g) /\ InOrder(u)
    BY <1>1, <1>3, <1>4, <1>5, <1>6, <1>7, AcceptNext DEF Ordered
  <2> QED
    BY <1>7, <2>1 DEF Ordered
<1>9. Complete(r, u, g)
  <2> SUFFICES ASSUME NEW v \in Threads, NEW n \in Nat, 1 <= n, n <= g[v], ~Has(u, v, n)
               PROVE  \E i \in 1..Len(r) : WaitsIn(r, i) /\ r[i].msg = Msg(v, n)
    BY DEF Complete
  <2>1. ~Has(acc, v, n)
    BY HasMore
  <2>2. PICK i \in 1..Len(q) : WaitsIn(q, i) /\ q[i].msg = Msg(v, n)
    BY <2>1 DEF Complete
  <2>3. i # 1
    <3>1. ASSUME i = 1 PROVE FALSE
      <4>1. m = Msg(v, n)
        BY <1>2, <2>2, <3>1
      <4>2. m.by = v /\ m.n = n
        BY <4>1, MsgFacts
      <4> QED
        BY <4>2, HasMore
    <3> QED
      BY <3>1
  <2> QED
    BY <1>2, <2>2, <2>3
<1> QED
  BY <1>8, <1>9

(* The loop thread's own next send is run at once.                         *)
LEMMA SentMore ==
  ASSUME NEW q \in Seq(TaskSet), NEW acc \in Seq(Msgs), NEW g \in [Threads -> Int], Ordered(q, acc, g),
         NEW h, h = [g EXCEPT ![LoopThread] = @ + 1]
  PROVE  Ordered(q, acc, h)
<1>1. h \in [Threads -> Int] /\ \A v \in Threads : g[v] \in Int /\ g[v] <= h[v]
  BY DEF Threads
<1>2. \A i \in 1..Len(q) : q[i].msg.n \in Nat
  BY QueuedTypes
<1>3. \A i \in 1..Len(acc) : acc[i].n \in Nat
  BY AcceptedTypes
<1>4. InQueue(q, h)
  BY <1>1, <1>2 DEF Ordered, InQueue, Threads
<1>5. TakenOf(acc, h)
  BY <1>1, <1>3 DEF Ordered, TakenOf
<1> QED
  BY <1>4, <1>5 DEF Ordered

LEMMA AcceptOwn ==
  ASSUME NEW q \in Seq(TaskSet), NEW acc \in Seq(Msgs), NEW g \in [Threads -> Int], g[LoopThread] >= 0,
         Ordered(q, acc, g), Complete(q, acc, g), NEW m \in Msgs, m = Msg(LoopThread, g[LoopThread] + 1),
         NEW h, h = [g EXCEPT ![LoopThread] = @ + 1], NEW u, u = Append(acc, m)
  PROVE  Ordered(q, u, h) /\ Complete(q, u, h)
<1>1. Ordered(q, acc, h)
  BY SentMore
<1>2. /\ m.by = LoopThread /\ m.n = g[LoopThread] + 1 /\ LoopThread \in Threads /\ g[LoopThread] \in Nat
      /\ h \in [Threads -> Int] /\ h[LoopThread] = g[LoopThread] + 1
      /\ \A v \in Threads : v # LoopThread => h[v] = g[v]
  BY MsgFacts DEF Threads
<1>3. \A j \in 1..Len(q) : WaitsIn(q, j) => q[j].msg.by # LoopThread
  BY ThreadsAssumption DEF Ordered, InQueue
<1>4. \A i \in 1..Len(acc) : acc[i].by = m.by => acc[i].n < m.n
  BY <1>2, AcceptedTypes DEF Ordered, TakenOf
<1>5. ASSUME m.n > 1 PROVE Has(acc, m.by, m.n - 1)
  <2>1. g[LoopThread] \in Nat /\ 1 <= g[LoopThread] /\ m.n - 1 = g[LoopThread]
    BY <1>2, <1>5
  <2>2. ~\E i \in 1..Len(q) : WaitsIn(q, i) /\ q[i].msg = Msg(LoopThread, g[LoopThread])
    BY <1>3, MsgFacts
  <2>3. Has(acc, LoopThread, g[LoopThread])
    BY <1>2, <2>1, <2>2 DEF Complete
  <2> QED
    BY <1>2, <2>1, <2>3
<1>6. Before(u, q) /\ TakenOf(u, h) /\ InOrder(u)
  <2>1. m.by \in Threads /\ m.n >= 1 /\ m.n <= h[m.by]
    BY <1>2
  <2>2. \A j \in 1..Len(q) : WaitsIn(q, j) /\ q[j].msg.by = m.by => m.n < q[j].msg.n
    BY <1>2, <1>3
  <2>3. Before(acc, q) /\ TakenOf(acc, h) /\ InOrder(acc)
    BY <1>1 DEF Ordered
  <2> QED
    BY <1>2, <1>4, <1>5, <2>1, <2>2, <2>3, AcceptNext
<1>7. Complete(q, u, h)
  <2> SUFFICES ASSUME NEW v \in Threads, NEW n \in Nat, 1 <= n, n <= h[v], ~Has(u, v, n)
               PROVE  \E i \in 1..Len(q) : WaitsIn(q, i) /\ q[i].msg = Msg(v, n)
    BY DEF Complete
  <2>1. ~Has(acc, v, n) /\ ~(v = m.by /\ n = m.n)
    <3>1. (\A t, k : Has(acc, t, k) => Has(u, t, k)) /\ Has(u, m.by, m.n)
      BY HasMore, Zenon
    <3> QED
      BY <3>1, Zenon
  <2>2. n <= g[v]
    BY <1>2, <2>1
  <2> QED
    BY <2>1, <2>2 DEF Complete
<1> QED
  BY <1>1, <1>6, <1>7 DEF Ordered
-----------------------------------------------------------------------------
(* The channel.                                                            *)
Updated(c, ev, d) == /\ Good(d) /\ d.events = ev
                     /\ c.pooling => (d.pooling <=> ev # {})

LEMMA UpdateFacts ==
  ASSUME NEW c, Good(c), NEW ev \in EventMasks
  PROVE  Updated(c, ev, updateChannel(c, ev))
<1> SUFFICES ASSUME NEW d, d = updateChannel(c, ev) PROVE Updated(c, ev, d)
  OBVIOUS
<1> USE DEF Updated
<1> USE DEF ChannelState
<1>1. NotInEpoll \notin EventMasks
  BY DEF NotInEpoll, EventMasks
<1>2. /\ c \in ChannelState /\ c.events \in EventMasks /\ c.pooling \in BOOLEAN
      /\ c.epoll = IF c.pooling THEN c.events ELSE NotInEpoll
  BY DEF Good
<1>3. CASE ~c.pooling
  <2>1. d = [events |-> ev, pooling |-> TRUE, epoll |-> ev]
    BY <1>2, <1>3 DEF updateChannel, EpollAdd
  <2> QED
    BY <1>3, <2>1 DEF Good
<1>4. CASE c.pooling /\ ev # {}
  <2>1. d = [events |-> ev, pooling |-> TRUE, epoll |-> ev]
    BY <1>1, <1>2, <1>4 DEF updateChannel, EpollMod
  <2> QED
    BY <1>4, <2>1 DEF Good
<1>5. CASE c.pooling /\ ev = {}
  <2>1. d = [events |-> ev, pooling |-> FALSE, epoll |-> NotInEpoll]
    BY <1>5 DEF updateChannel, Removed
  <2>2. d \in ChannelState
    BY <2>1
  <2>3. d.events = ev /\ d.pooling = FALSE /\ d.epoll = NotInEpoll
    BY <2>1
  <2> QED
    BY <1>5, <2>2, <2>3 DEF Good
<1> QED
  BY <1>3, <1>4, <1>5

(* enableRead to disableWrite, seen through EPOLLOUT and EPOLLPRI.         *)
LEMMA ChannelFacts ==
  ASSUME NEW c, Good(c)
  PROVE  /\ Good(enableRead(c)) /\ isWriting(enableRead(c)) = isWriting(c)
         /\ enableRead(c).pooling /\ "PRI" \in enableRead(c).events
         /\ Good(enableWrite(c)) /\ isWriting(enableWrite(c))
         /\ Good(disableRead(c)) /\ isWriting(disableRead(c)) = isWriting(c)
         /\ Good(disableWrite(c)) /\ ~isWriting(disableWrite(c))
         /\ Good(removeChannel(c))
         /\ c.pooling => ~removeChannel(c).pooling /\ removeChannel(c).events = {}
         /\ c.pooling /\ "PRI" \in c.events =>
              /\ enableWrite(c).pooling /\ "PRI" \in enableWrite(c).events
              /\ disableRead(c).pooling /\ "PRI" \in disableRead(c).events
              /\ disableWrite(c).pooling /\ "PRI" \in disableWrite(c).events
<1>1. c.events \in EventMasks /\ c.pooling \in BOOLEAN
  BY DEF Good, ChannelState
<1>2. /\ c.events \cup {"IN", "PRI"} \in EventMasks /\ c.events \cup {"OUT"} \in EventMasks
      /\ c.events \ {"IN"} \in EventMasks /\ c.events \ {"OUT"} \in EventMasks /\ {} \in EventMasks
  BY <1>1 DEF EventMasks
<1>3. /\ Updated(c, c.events \cup {"IN", "PRI"}, enableRead(c))
      /\ Updated(c, c.events \cup {"OUT"}, enableWrite(c))
      /\ Updated(c, c.events \ {"IN"}, disableRead(c))
      /\ Updated(c, c.events \ {"OUT"}, disableWrite(c))
      /\ Updated(c, {}, removeChannel(c))
  BY <1>2, UpdateFacts DEF enableRead, enableWrite, disableRead, disableWrite, removeChannel, disableAll
<1>4. enableRead(c).pooling
  <2>1. c.events \cup {"IN", "PRI"} # {}
    OBVIOUS
  <2> QED
    BY <2>1 DEF enableRead, updateChannel
<1>5. Good(enableRead(c)) /\ isWriting(enableRead(c)) = isWriting(c) /\ "PRI" \in enableRead(c).events
  BY <1>3 DEF Updated, isWriting
<1>6. /\ Good(enableWrite(c)) /\ isWriting(enableWrite(c))
      /\ c.pooling /\ "PRI" \in c.events => enableWrite(c).pooling /\ "PRI" \in enableWrite(c).events
  BY <1>3 DEF Updated, isWriting
<1>7. /\ Good(disableRead(c)) /\ isWriting(disableRead(c)) = isWriting(c)
      /\ c.pooling /\ "PRI" \in c.events => disableRead(c).pooling /\ "PRI" \in disableRead(c).events
  BY <1>3 DEF Updated, isWriting
<1>8. /\ Good(disableWrite(c)) /\ ~isWriting(disableWrite(c))
      /\ c.pooling /\ "PRI" \in c.events => disableWrite(c).pooling /\ "PRI" \in disableWrite(c).events
  BY <1>3 DEF Updated, isWriting
<1>9. Good(removeChannel(c)) /\ (c.pooling => ~removeChannel(c).pooling /\ removeChannel(c).events = {})
  BY <1>3 DEF Updated
<1> QED
  BY <1>4, <1>5, <1>6, <1>7, <1>8, <1>9

(* No interest change takes a polled channel out of epoll or drops EPOLLPRI. *)
LEMMA StaysPolled ==
  ASSUME NEW c, Good(c), c.pooling, "PRI" \in c.events,
         NEW d, \/ d = c \/ d = enableRead(c) \/ d = enableWrite(c)
                \/ d = disableRead(c) \/ d = disableWrite(c)
  PROVE  d.pooling /\ "PRI" \in d.events
BY ChannelFacts

(* stopRead and startRead leave EPOLLOUT as it is.                         *)
LEMMA ReadControlFacts ==
  ASSUME NEW c, Good(c), NEW d \in {c, disableRead(c), enableRead(c)}
  PROVE  Good(d) /\ isWriting(d) = isWriting(c)
BY ChannelFacts
-----------------------------------------------------------------------------
(* What is written or buffered is made of the message's units.             *)
LEMMA UnitsFacts ==
  ASSUME NEW m \in Msgs, NEW n \in -1..MsgLen
  PROVE  /\ Units(m) \in Seq(UnitSet) /\ Len(Units(m)) = MsgLen
         /\ SubSeq(Units(m), 1, n) \in Seq(UnitSet)
         /\ n >= 0 => /\ SubSeq(Units(m), n + 1, MsgLen) \in Seq(UnitSet)
                      /\ Len(SubSeq(Units(m), n + 1, MsgLen)) = MsgLen - n
<1> USE SizesAssumption
<1>1. \A i \in 1..MsgLen : [msg |-> m, unit |-> i] \in UnitSet
  BY DEF UnitSet
<1>2. Units(m) \in [1..MsgLen -> UnitSet]
  BY <1>1 DEF Units
<1>3. Units(m) \in Seq(UnitSet) /\ Len(Units(m)) = MsgLen
  BY <1>2
<1>4. PICK u \in Seq(UnitSet) : u = Units(m)
  BY <1>3, Zenon
<1>5. Len(u) = MsgLen
  BY <1>3, <1>4
<1>6. SubSeq(u, 1, n) \in Seq(UnitSet)
  BY <1>5
<1>7. ASSUME n >= 0 PROVE /\ SubSeq(u, n + 1, MsgLen) \in Seq(UnitSet)
                          /\ Len(SubSeq(u, n + 1, MsgLen)) = MsgLen - n
  BY <1>5, <1>7
<1> QED
  BY <1>3, <1>4, <1>6, <1>7

LEMMA TaskFacts ==
  ASSUME NEW op \in TaskOps, NEW m \in Msgs PROVE Task(op, m) \in TaskSet /\ NoMsg \in Msgs
BY DEF Task, TaskSet, NoMsg, Msg, Msgs

LEMMA QueueFacts ==
  ASSUME QueueType, NEW op \in TaskOps, NEW m \in Msgs, Queue(Task(op, m))
  PROVE  pendingTasks_' \in Seq(TaskSet)
<1>1. PICK x \in TaskSet : x = Task(op, m)
  BY TaskFacts, Zenon
<1> QED
  BY <1>1 DEF QueueType, Queue

LEMMA NoMsgFacts == NoMsg \in Msgs
BY DEF NoMsg, Msg, Msgs

(* Output that waits, after n units were written at once.                  *)
LEMMA BufferKeeps ==
  ASSUME Base, NEW m \in Msgs, NEW n \in 0..(MsgLen - 1), BufferRest(m, n)
  PROVE  /\ outputBuffer_' \in Seq(UnitSet) /\ outputBuffer_' # <<>>
         /\ Good(channel') /\ isWriting(channel') /\ pendingTasks_' \in Seq(TaskSet)
<1> USE SizesAssumption
<1>1. outputBuffer_ \in Seq(UnitSet) /\ Good(channel)
  BY DEF Base, ConnType
<1>2. /\ SubSeq(Units(m), n + 1, MsgLen) \in Seq(UnitSet)
      /\ Len(SubSeq(Units(m), n + 1, MsgLen)) = MsgLen - n
  BY UnitsFacts
<1>3. PICK rest \in Seq(UnitSet) : rest = SubSeq(Units(m), n + 1, MsgLen)
  BY <1>2, Zenon
<1>4. Len(rest) > 0
  BY <1>2, <1>3
<1>5. outputBuffer_' = outputBuffer_ \o rest /\ channel' = enableWrite(channel)
  BY <1>3 DEF BufferRest, Writing
<1>6. Queue(Task("highWaterMark", NoMsg)) \/ pendingTasks_' = pendingTasks_
  BY DEF BufferRest
<1>7. pendingTasks_' \in Seq(TaskSet)
  <2>1. "highWaterMark" \in TaskOps
    BY DEF TaskOps
  <2> QED
    BY <1>6, <2>1, QueueFacts, NoMsgFacts DEF Base, QueueType
<1>8. outputBuffer_' \in Seq(UnitSet) /\ Len(outputBuffer_') > 0
  BY <1>1, <1>4, <1>5
<1> QED
  BY <1>1, <1>5, <1>7, <1>8, ChannelFacts

LEMMA SockFacts == ASSUME sock \in Socks, NEW n PROVE AfterWrite(n) \in Socks
BY DEF Socks, AfterWrite

(* sendInLoop.                                                             *)
LEMMA SendKeeps ==
  ASSUME Base, NEW m \in Msgs, sendInLoop(m), closes' = closes
  PROVE  ConnType' /\ Open' /\ pendingTasks_' \in Seq(TaskSet) /\ accepted' \in Seq(Msgs)
<1> USE SizesAssumption
<1>1. /\ state_ \in States /\ Good(channel) /\ sock \in Socks /\ closes \in Nat
      /\ outputBuffer_ \in Seq(UnitSet) /\ wire \in Seq(UnitSet) /\ accepted \in Seq(Msgs)
      /\ pendingTasks_ \in Seq(TaskSet)
  BY DEF Base, ConnType, HistType, QueueType
<1>2. state_' = state_
  BY DEF sendInLoop
<1>3. CASE state_ = "kDisconnected"
  <2>1. UNCHANGED <<outputBuffer_, channel, sock, wire, pendingTasks_, accepted>>
    BY <1>3 DEF sendInLoop
  <2> QED
    BY <1>1, <1>2, <2>1 DEF Base, ConnType, Open, WritingIffOutput
<1>4. CASE state_ # "kDisconnected" /\ OutputWaits
  <2>1. BufferRest(m, 0) /\ accepted' = Append(accepted, m) /\ UNCHANGED <<sock, wire>>
    BY <1>4 DEF sendInLoop
  <2>2. /\ outputBuffer_' \in Seq(UnitSet) /\ outputBuffer_' # <<>>
        /\ Good(channel') /\ isWriting(channel') /\ pendingTasks_' \in Seq(TaskSet)
    <3>1. 0 \in 0..(MsgLen - 1)
      OBVIOUS
    <3> QED
      BY <2>1, <3>1, BufferKeeps
  <2>3. accepted' \in Seq(Msgs)
    BY <1>1, <2>1
  <2> QED
    BY <1>1, <1>2, <2>1, <2>2, <2>3 DEF Base, ConnType, Open, WritingIffOutput
<1>5. CASE state_ # "kDisconnected" /\ ~OutputWaits
  <2>1. PICK n \in WriteResults(MsgLen) :
          /\ sock' = AfterWrite(n)
          /\ wire' = wire \o SubSeq(Units(m), 1, n)
          /\ accepted' = IF n = -1 THEN accepted ELSE Append(accepted, m)
          /\ CASE n = -1     -> UNCHANGED <<outputBuffer_, channel, pendingTasks_>>
               [] n = MsgLen -> /\ Queue(Task("writeComplete", NoMsg))
                                /\ UNCHANGED <<outputBuffer_, channel>>
               [] OTHER      -> BufferRest(m, n)
    BY <1>5 DEF sendInLoop
  <2>2. n \in -1..MsgLen
    BY DEF WriteResults
  <2>3. SubSeq(Units(m), 1, n) \in Seq(UnitSet)
    BY <2>2, UnitsFacts
  <2>4. PICK part \in Seq(UnitSet) : part = SubSeq(Units(m), 1, n)
    BY <2>3, Zenon
  <2>5. wire' \in Seq(UnitSet) /\ sock' \in Socks /\ accepted' \in Seq(Msgs)
    <3>1. wire' \in Seq(UnitSet)
      BY <1>1, <2>1, <2>4
    <3>2. sock' \in Socks
      BY <1>1, <2>1, SockFacts
    <3>3. accepted' \in Seq(Msgs)
      BY <1>1, <2>1
    <3> QED
      BY <3>1, <3>2, <3>3
  <2>6. CASE n = -1
    <3>1. UNCHANGED <<outputBuffer_, channel, pendingTasks_>>
      BY <2>1, <2>6
    <3> QED
      BY <1>1, <1>2, <2>5, <3>1 DEF Base, ConnType, Open, WritingIffOutput
  <2>7. CASE n = MsgLen
    <3>1. Queue(Task("writeComplete", NoMsg)) /\ UNCHANGED <<outputBuffer_, channel>>
      BY <2>1, <2>7
    <3>2. pendingTasks_' \in Seq(TaskSet)
      BY <3>1, QueueFacts, NoMsgFacts DEF TaskOps, Base
    <3> QED
      BY <1>1, <1>2, <2>5, <3>1, <3>2 DEF Base, ConnType, Open, WritingIffOutput
  <2>8. CASE n # -1 /\ n # MsgLen
    <3>1. BufferRest(m, n) /\ n \in 0..(MsgLen - 1)
      BY <2>1, <2>2, <2>8
    <3>2. /\ outputBuffer_' \in Seq(UnitSet) /\ outputBuffer_' # <<>>
          /\ Good(channel') /\ isWriting(channel') /\ pendingTasks_' \in Seq(TaskSet)
      BY <3>1, BufferKeeps
    <3> QED
      BY <1>1, <1>2, <2>5, <3>2 DEF Base, ConnType, Open, WritingIffOutput
  <2> QED
    BY <2>6, <2>7, <2>8
<1> QED
  BY <1>3, <1>4, <1>5

(* handleWrite.                                                            *)
LEMMA ShutFacts == ASSUME sock \in Socks, NEW c PROVE shutdownInLoop(c, sock) \in Socks
BY DEF Socks, shutdownInLoop

LEMMA WriteKeeps ==
  ASSUME Base, handleWrite, closes' = closes
  PROVE  ConnType' /\ Open' /\ pendingTasks_' \in Seq(TaskSet)
<1>1. /\ state_ \in States /\ Good(channel) /\ sock \in Socks /\ closes \in Nat
      /\ outputBuffer_ \in Seq(UnitSet) /\ wire \in Seq(UnitSet) /\ pendingTasks_ \in Seq(TaskSet)
  BY DEF Base, ConnType, QueueType
<1>2. state_' = state_
  BY DEF handleWrite
<1>3. CASE state_ = "kDisconnected"
  <2>1. UNCHANGED <<outputBuffer_, channel, sock, wire, pendingTasks_>>
    BY <1>3 DEF handleWrite
  <2> QED
    BY <1>1, <1>2, <2>1 DEF Base, ConnType, Open, WritingIffOutput
<1>4. CASE state_ # "kDisconnected"
  <2>1. PICK n \in WriteResults(Len(outputBuffer_)) :
          /\ n = 0 => outputBuffer_ = <<>>
          /\ wire' = wire \o SubSeq(outputBuffer_, 1, n)
          /\ IF n < Len(outputBuffer_) THEN
               /\ outputBuffer_' = IF n = -1 THEN outputBuffer_
                                   ELSE SubSeq(outputBuffer_, n + 1, Len(outputBuffer_))
               /\ sock' = AfterWrite(n)
               /\ UNCHANGED <<channel, pendingTasks_>>
             ELSE
               /\ outputBuffer_' = <<>>
               /\ channel' = disableWrite(channel)
               /\ sock' = IF state_ = "kDisconnecting"
                          THEN shutdownInLoop(disableWrite(channel), sock) ELSE sock
               /\ Queue(Task("writeComplete", NoMsg))
    BY <1>4 DEF handleWrite
  <2>2. n \in -1..Len(outputBuffer_)
    BY <1>1 DEF WriteResults
  <2>3. SubSeq(outputBuffer_, 1, n) \in Seq(UnitSet)
    BY <1>1, <2>2
  <2>4. PICK part \in Seq(UnitSet) : part = SubSeq(outputBuffer_, 1, n)
    BY <2>3, Zenon
  <2>5. wire' \in Seq(UnitSet)
    BY <1>1, <2>1, <2>4
  <2>6. CASE n < Len(outputBuffer_)
    <3>1. /\ outputBuffer_' = IF n = -1 THEN outputBuffer_
                              ELSE SubSeq(outputBuffer_, n + 1, Len(outputBuffer_))
          /\ sock' = AfterWrite(n) /\ UNCHANGED <<channel, pendingTasks_>>
      BY <2>1, <2>6
    <3>2. ASSUME n = -1 PROVE outputBuffer_' = outputBuffer_
      BY <3>1, <3>2
    <3>3. ASSUME n # -1 PROVE outputBuffer_' \in Seq(UnitSet) /\ outputBuffer_' # <<>> /\ outputBuffer_ # <<>>
      <4>1. outputBuffer_' = SubSeq(outputBuffer_, n + 1, Len(outputBuffer_))
        BY <3>1, <3>3
      <4>2. n \in 0..(Len(outputBuffer_) - 1)
        BY <1>1, <2>2, <2>6, <3>3
      <4>3. outputBuffer_' \in Seq(UnitSet) /\ Len(outputBuffer_') = Len(outputBuffer_) - n
        BY <1>1, <4>1, <4>2
      <4> QED
        BY <1>1, <4>2, <4>3
    <3>4. sock' \in Socks
      BY <1>1, <3>1, SockFacts
    <3> QED
      BY <1>1, <1>2, <2>5, <3>1, <3>2, <3>3, <3>4 DEF Base, ConnType, Open, WritingIffOutput
  <2>7. CASE ~(n < Len(outputBuffer_))
    <3>1. /\ outputBuffer_' = <<>> /\ channel' = disableWrite(channel)
          /\ sock' = IF state_ = "kDisconnecting"
                     THEN shutdownInLoop(disableWrite(channel), sock) ELSE sock
          /\ Queue(Task("writeComplete", NoMsg))
      BY <2>1, <2>7
    <3>2. pendingTasks_' \in Seq(TaskSet)
      BY <3>1, QueueFacts, NoMsgFacts DEF TaskOps, Base
    <3>3. Good(channel') /\ ~isWriting(channel') /\ sock' \in Socks
      BY <1>1, <3>1, ChannelFacts, ShutFacts
    <3> QED
      BY <1>1, <1>2, <2>5, <3>1, <3>2, <3>3 DEF Base, ConnType, Open, WritingIffOutput
  <2> QED
    BY <2>6, <2>7
<1> QED
  BY <1>3, <1>4

LEMMA CloseKeeps ==
  ASSUME Base, handleClose, sock' \in Socks, UNCHANGED <<outputBuffer_, wire>>
  PROVE  ConnType' /\ Open'
<1>1. state_' = "kDisconnected" /\ channel' = removeChannel(channel) /\ closes' = closes + 1
  BY DEF handleClose, closeConnection
<1> QED
  BY <1>1, ChannelFacts DEF Base, ConnType, Open, WritingIffOutput, States

LEMMA AfterReadFacts ==
  ASSUME sock \in Socks
  PROVE  /\ AfterRead \in Socks /\ [AfterRead EXCEPT !.soError = FALSE] \in Socks
         /\ AfterRead.rst = sock.rst /\ AfterRead.shutWr = sock.shutWr
         /\ [AfterRead EXCEPT !.soError = FALSE].rst = sock.rst
         /\ [AfterRead EXCEPT !.soError = FALSE].shutWr = sock.shutWr
<1>1. PICK a \in Int : a = sock.rcv - Readable
  BY DEF Readable, Socks
<1>2. PICK u \in Int : u = IF sock.urg > 0 THEN 0 ELSE -1
  OBVIOUS
<1>3. AfterRead = [sock EXCEPT !.rcv = a, !.urg = u]
  BY <1>1, <1>2 DEF AfterRead, Socks
<1> QED
  BY <1>3 DEF Socks

LEMMA ReadKeeps ==
  ASSUME Base, handleRead, UNCHANGED <<outputBuffer_, wire>>
  PROVE  ConnType' /\ Open'
<1>1. sock \in Socks
  BY DEF Base, ConnType
<1>2. sock' \in Socks
  BY <1>1, AfterReadFacts DEF handleRead
<1>3. CASE handleClose
  BY <1>2, <1>3, CloseKeeps
<1>4. CASE UNCHANGED <<state_, channel, closes>>
  BY <1>2, <1>4 DEF Base, ConnType, Open, WritingIffOutput
<1> QED
  BY <1>3, <1>4 DEF handleRead

LEMMA JoinCallbacks ==
  ASSUME NEW p \in Seq(Callbacks), NEW q \in Seq(Callbacks)
  PROVE  /\ NoCloser(p) /\ NoCloser(q) => NoCloser(p \o q)
         /\ OneCloser(p) /\ NoCloser(q) => OneCloser(p \o q)
         /\ NoCloser(p) /\ OneCloser(q) => OneCloser(p \o q)
<1>1. p \o q \in Seq(Callbacks)
  OBVIOUS
<1>2. PICK u \in Seq(Callbacks) : u = p \o q
  BY <1>1, Zenon
<1>3. /\ Len(u) = Len(p) + Len(q)
      /\ \A i \in 1..Len(u) : u[i] = IF i <= Len(p) THEN p[i] ELSE q[i - Len(p)]
  BY <1>2
<1>4. ASSUME NoCloser(p), NoCloser(q) PROVE NoCloser(u)
  <2> SUFFICES ASSUME NEW i \in 1..Len(u) PROVE u[i] \notin Closer
    BY DEF NoCloser
  <2>1. CASE i <= Len(p)
    <3>1. i \in 1..Len(p) /\ u[i] = p[i]
      BY <1>3, <2>1
    <3> QED
      BY <1>4, <3>1 DEF NoCloser
  <2>2. CASE ~(i <= Len(p))
    <3>1. i - Len(p) \in 1..Len(q) /\ u[i] = q[i - Len(p)]
      BY <1>3, <2>2
    <3> QED
      BY <1>4, <3>1 DEF NoCloser
  <2> QED
    BY <2>1, <2>2
<1>5. ASSUME OneCloser(p), NoCloser(q) PROVE OneCloser(u)
  <2>1. \A i \in 1..Len(u) : u[i] \in Closer => i \in 1..Len(p) /\ u[i] = p[i]
    BY <1>3, <1>5 DEF NoCloser
  <2> QED
    BY <1>5, <2>1 DEF OneCloser
<1>6. ASSUME NoCloser(p), OneCloser(q) PROVE OneCloser(u)
  <2>1. \A i \in 1..Len(u) : u[i] \in Closer => i - Len(p) \in 1..Len(q) /\ u[i] = q[i - Len(p)]
    BY <1>3, <1>6 DEF NoCloser
  <2>2. ASSUME NEW i \in 1..Len(u), NEW j \in 1..Len(u), u[i] \in Closer, u[j] \in Closer PROVE i = j
    <3>1. i - Len(p) = j - Len(p)
      BY <1>6, <2>1, <2>2 DEF OneCloser
    <3> QED
      BY <3>1
  <2> QED
    BY <2>2 DEF OneCloser
<1> QED
  BY <1>2, <1>4, <1>5, <1>6

LEMMA TailFacts ==
  ASSUME NEW q \in Seq(Callbacks), q # <<>>
  PROVE  /\ Head(q) \in Callbacks /\ Tail(q) \in Seq(Callbacks)
         /\ OneCloser(q) => OneCloser(Tail(q)) /\ (Head(q) \in Closer => NoCloser(Tail(q)))
         /\ NoCloser(q) => NoCloser(Tail(q)) /\ Head(q) \notin Closer
<1>1. Tail(q) \in Seq(Callbacks) /\ Head(q) = q[1] /\ Len(q) > 0 /\ Head(q) \in Callbacks
  OBVIOUS
<1>2. Len(Tail(q)) = Len(q) - 1 /\ \A i \in 1..Len(Tail(q)) : Tail(q)[i] = q[i + 1] /\ i + 1 \in 1..Len(q)
  BY <1>1
<1>3. PICK t \in Seq(Callbacks) : t = Tail(q)
  BY <1>1, Zenon
<1>4. ASSUME OneCloser(q) PROVE OneCloser(t)
  BY <1>2, <1>3, <1>4 DEF OneCloser
<1>5. ASSUME OneCloser(q), Head(q) \in Closer PROVE NoCloser(t)
  BY <1>1, <1>2, <1>3, <1>5 DEF OneCloser, NoCloser
<1>6. ASSUME NoCloser(q) PROVE NoCloser(t) /\ Head(q) \notin Closer
  BY <1>1, <1>2, <1>3, <1>6 DEF NoCloser
<1> QED
  BY <1>1, <1>3, <1>4, <1>5, <1>6

LEMMA TodoFacts ==
  ASSUME NEW r
  PROVE  /\ handleEventWithGuard(r) \in Seq(Callbacks)
         /\ ~(HungUp(r) /\ "PRI" \in r) /\ "RDHUP" \notin r => OneCloser(handleEventWithGuard(r))
<1>1. /\ <<"close">> \in Seq(Callbacks) /\ <<"error">> \in Seq(Callbacks)
      /\ <<"read">> \in Seq(Callbacks) /\ <<"write">> \in Seq(Callbacks) /\ <<>> \in Seq(Callbacks)
  BY DEF Callbacks
<1>2. NoCloser(<<>>) /\ NoCloser(<<"error">>) /\ NoCloser(<<"write">>)
  BY <1>1 DEF NoCloser, Closer
<1>3. OneCloser(<<"close">>) /\ OneCloser(<<"read">>) /\ OneCloser(<<>>)
  BY <1>1 DEF OneCloser
<1>4. PICK a \in Seq(Callbacks) : a = IF HungUp(r) THEN <<"close">> ELSE <<>>
  BY <1>1, Zenon
<1>5. PICK b \in Seq(Callbacks) : b = IF "ERR" \in r THEN <<"error">> ELSE <<>>
  BY <1>1, Zenon
<1>6. PICK c \in Seq(Callbacks) : c = IF r \cap {"IN", "PRI", "RDHUP"} # {} THEN <<"read">> ELSE <<>>
  BY <1>1, Zenon
<1>7. PICK d \in Seq(Callbacks) : d = IF "OUT" \in r THEN <<"write">> ELSE <<>>
  BY <1>1, Zenon
<1>8. NoCloser(b) /\ NoCloser(d)
  BY <1>2, <1>5, <1>7, Zenon
<1>9. a \o b \in Seq(Callbacks) /\ (a \o b) \o c \in Seq(Callbacks) /\ ((a \o b) \o c) \o d \in Seq(Callbacks)
  OBVIOUS
<1>10. ASSUME ~(HungUp(r) /\ "PRI" \in r), "RDHUP" \notin r PROVE OneCloser((a \o b) \o c)
  <2>1. CASE HungUp(r)
    <3>1. r \cap {"IN", "PRI", "RDHUP"} = {}
      BY <1>10, <2>1 DEF HungUp
    <3>2. OneCloser(a) /\ NoCloser(c)
      BY <1>2, <1>3, <1>4, <1>6, <2>1, <3>1
    <3> QED
      BY <1>8, <1>9, <3>2, JoinCallbacks, Zenon
  <2>2. CASE ~HungUp(r)
    <3>1. NoCloser(a) /\ OneCloser(c)
      BY <1>2, <1>3, <1>4, <1>6, <2>2, Zenon
    <3> QED
      BY <1>8, <1>9, <3>1, JoinCallbacks, Zenon
  <2> QED
    BY <2>1, <2>2
<1>11. ASSUME ~(HungUp(r) /\ "PRI" \in r), "RDHUP" \notin r PROVE OneCloser(((a \o b) \o c) \o d)
  BY <1>8, <1>9, <1>10, <1>11, JoinCallbacks, Zenon
<1>12. handleEventWithGuard(r) = ((a \o b) \o c) \o d
  BY <1>4, <1>5, <1>6, <1>7, Zenon DEF handleEventWithGuard
<1> QED
  BY <1>9, <1>11, <1>12, Zenon
-----------------------------------------------------------------------------
(* The steps that keep Base.                                               *)
LEMMA BaseStart == Init => Base
<1> SUFFICES ASSUME Init PROVE Base
  OBVIOUS
<1>1. Good(NewChannel) /\ ~isWriting(NewChannel)
  BY DEF Good, NewChannel, ChannelState, EventMasks, isWriting
<1>2. sock \in Socks
  BY DEF Init, Socks
<1>3. ConnType
  BY <1>1, <1>2 DEF Init, ConnType, States
<1>4. QueueType /\ HistType /\ CallType /\ TodoType
  BY DEF Init, QueueType, HistType, CallType, TodoType
<1>5. Open
  BY <1>1 DEF Init, Open, WritingIffOutput
<1> QED
  BY <1>3, <1>4, <1>5 DEF Base

LEMMA HandlerKeepsBase == ASSUME Base, handler PROVE Base'
<1>1. HistType' /\ CallType'
  BY DEF handler, Base, HistType, CallType, userVars
<1>2. TodoType'
  BY TailFacts DEF handler, Base, TodoType
<1>3. /\ todo # <<>> /\ tasks' = tasks /\ Head(todo) \in Callbacks
      /\ sock \in Socks /\ pendingTasks_ \in Seq(TaskSet)
  BY TailFacts DEF handler, Base, TodoType, ConnType, QueueType
<1>4. CASE Head(todo) = "close"
  <2>1. handleClose /\ UNCHANGED <<outputBuffer_, wire, pendingTasks_>> /\ sock' \in Socks
    BY <1>3, <1>4 DEF handler
  <2> QED
    BY <1>1, <1>2, <1>3, <2>1, CloseKeeps DEF Base, QueueType
<1>5. CASE Head(todo) = "error"
  <2>1. /\ handleError /\ UNCHANGED <<state_, outputBuffer_, channel, wire, closes, pendingTasks_>>
    BY <1>5 DEF handler
  <2>2. sock' \in Socks
    BY <1>3, <2>1 DEF handleError, Socks
  <2>3. ConnType' /\ Open'
    BY <2>1, <2>2 DEF Base, ConnType, Open, WritingIffOutput
  <2> QED
    BY <1>1, <1>2, <1>3, <2>1, <2>3 DEF Base, QueueType
<1>6. CASE Head(todo) = "read"
  <2>1. handleRead /\ UNCHANGED <<outputBuffer_, wire, pendingTasks_>>
    BY <1>6 DEF handler
  <2> QED
    BY <1>1, <1>2, <1>3, <2>1, ReadKeeps DEF Base, QueueType
<1>7. CASE Head(todo) = "write"
  <2>1. handleWrite /\ closes' = closes
    BY <1>7 DEF handler
  <2> QED
    BY <1>1, <1>2, <1>3, <2>1, WriteKeeps DEF Base, QueueType
<1> QED
  BY <1>3, <1>4, <1>5, <1>6, <1>7 DEF Callbacks

LEMMA TaskKeepsBase == ASSUME Base, runTask PROVE Base'
<1>1. /\ tasks # <<>> /\ tasks \in Seq(TaskSet) /\ pendingTasks_ \in Seq(TaskSet)
      /\ tasks' = Tail(tasks) /\ sock \in Socks /\ accepted \in Seq(Msgs)
  BY DEF runTask, Base, QueueType, ConnType, HistType
<1>2. PICK x \in TaskSet : x = Head(tasks)
  <2>1. Head(tasks) \in TaskSet
    BY <1>1
  <2> QED
    BY <2>1, Zenon
<1>3. x.msg \in Msgs /\ x.op \in TaskOps
  BY DEF TaskSet
<1>4. tasks' \in Seq(TaskSet) /\ sent' = sent
  BY <1>1 DEF runTask
<1>5. CallType' /\ TodoType'
  BY DEF runTask, userVars, Base, CallType, TodoType
<1>6. CASE x.op = "send"
  <2>1. sendInLoop(x.msg) /\ closes' = closes
    BY <1>2, <1>6 DEF runTask
  <2> QED
    BY <1>3, <1>4, <1>5, <2>1, SendKeeps DEF Base, QueueType, HistType
<1>7. CASE x.op = "shutdown"
  <2>1. /\ sock' = shutdownInLoop(channel, sock)
        /\ UNCHANGED <<state_, outputBuffer_, channel, wire, pendingTasks_, accepted, closes>>
    BY <1>2, <1>7 DEF runTask
  <2>2. sock' \in Socks
    BY <1>1, <2>1, ShutFacts
  <2>3. ConnType' /\ Open'
    BY <2>1, <2>2 DEF Base, ConnType, Open, WritingIffOutput
  <2> QED
    BY <1>1, <1>4, <1>5, <2>1, <2>3 DEF Base, QueueType, HistType
<1>8. CASE x.op = "forceClose"
  <2>1. forceCloseInLoop /\ UNCHANGED <<outputBuffer_, sock, wire, pendingTasks_, accepted>>
    BY <1>2, <1>8 DEF runTask
  <2>2. ConnType' /\ Open'
    <3>1. CASE handleClose
      BY <2>1, <3>1, CloseKeeps DEF Base, ConnType
    <3>2. CASE UNCHANGED <<state_, channel, closes>>
      BY <2>1, <3>2 DEF Base, ConnType, Open, WritingIffOutput
    <3> QED
      BY <2>1, <3>1, <3>2 DEF forceCloseInLoop
  <2> QED
    BY <1>1, <1>4, <1>5, <2>1, <2>2 DEF Base, QueueType, HistType
<1>9. CASE x.op \in {"stopRead", "startRead"}
  <2>1. /\ channel' \in {channel, disableRead(channel), enableRead(channel)}
        /\ UNCHANGED <<state_, outputBuffer_, sock, wire, pendingTasks_, accepted, closes>>
    BY <1>2, <1>9 DEF runTask
  <2>2. Good(channel') /\ isWriting(channel') = isWriting(channel)
    <3>1. Good(channel)
      BY Zenon DEF Base, ConnType
    <3> QED
      BY <2>1, <3>1, ReadControlFacts, Zenon
  <2>3. ConnType' /\ Open'
    BY <2>1, <2>2 DEF Base, ConnType, Open, WritingIffOutput
  <2> QED
    BY <1>1, <1>4, <1>5, <2>1, <2>3 DEF Base, QueueType, HistType
<1>10. CASE x.op \in {"writeComplete", "highWaterMark"}
  <2>1. UNCHANGED <<connVars, pendingTasks_, accepted, closes>>
    BY <1>2, <1>10 DEF runTask
  <2>2. ConnType' /\ Open'
    BY <2>1 DEF Base, ConnType, Open, WritingIffOutput, connVars
  <2> QED
    BY <1>1, <1>4, <1>5, <2>1, <2>2 DEF Base, QueueType, HistType
<1> QED
  BY <1>3, <1>6, <1>7, <1>8, <1>9, <1>10 DEF TaskOps, AllOps

(* The calls of the loop thread.                                           *)
LEMMA SendCallKeepsBase ==
  ASSUME Base, send, UNCHANGED <<todo, revents, tasks, ucall, closes>> PROVE Base'
<1>1. /\ tasks \in Seq(TaskSet) /\ pendingTasks_ \in Seq(TaskSet) /\ sent \in [Threads -> Nat]
      /\ accepted \in Seq(Msgs) /\ LoopThread \in Threads
  BY DEF Base, QueueType, HistType, Threads
<1>2. TodoType' /\ CallType' /\ tasks' \in Seq(TaskSet)
  BY <1>1 DEF Base, TodoType, CallType
<1>3. CASE state_ = "kConnected"
  <2>1. /\ sendInLoop(Msg(LoopThread, sent[LoopThread] + 1))
        /\ sent' = [sent EXCEPT ![LoopThread] = @ + 1]
    BY <1>3 DEF send
  <2>2. Msg(LoopThread, sent[LoopThread] + 1) \in Msgs /\ sent' \in [Threads -> Nat]
    BY <1>1, <2>1 DEF Msg, Msgs
  <2> QED
    BY <1>2, <2>1, <2>2, SendKeeps DEF Base, QueueType, HistType
<1>4. CASE state_ # "kConnected"
  <2>1. UNCHANGED <<connVars, pendingTasks_, sent, accepted>>
    BY <1>4 DEF send
  <2>2. ConnType' /\ Open'
    BY <2>1 DEF Base, ConnType, Open, WritingIffOutput, connVars
  <2> QED
    BY <1>1, <1>2, <2>1, <2>2 DEF Base, QueueType, HistType
<1> QED
  BY <1>3, <1>4

LEMMA CloseCallKeepsBase ==
  ASSUME Base, forceClose,
         UNCHANGED <<outputBuffer_, channel, sock, wire, closes, sent, accepted, todo, revents, tasks, ucall>>
  PROVE  Base'
<1>1. \/ state_' = "kDisconnecting" /\ Queue(Task("forceClose", NoMsg))
      \/ UNCHANGED <<state_, pendingTasks_>>
  BY DEF forceClose
<1>2. pendingTasks_' \in Seq(TaskSet)
  BY <1>1, QueueFacts, NoMsgFacts DEF TaskOps, AllOps, Base, QueueType
<1>3. ConnType' /\ Open'
  BY <1>1 DEF Base, ConnType, Open, WritingIffOutput, States
<1> QED
  BY <1>2, <1>3 DEF Base, QueueType, HistType, TodoType, CallType

LEMMA ReadCallKeepsBase ==
  ASSUME Base, channel' \in {channel, disableRead(channel), enableRead(channel)},
         UNCHANGED <<state_, outputBuffer_, sock, wire, pendingTasks_, closes, sent, accepted, todo, revents,
                     tasks, ucall>>
  PROVE  Base'
<1>1. Good(channel') /\ isWriting(channel') = isWriting(channel)
  <2>1. Good(channel)
    BY Zenon DEF Base, ConnType
  <2> QED
    BY <2>1, ReadControlFacts, Zenon
<1>2. ConnType' /\ Open'
  BY <1>1 DEF Base, ConnType, Open, WritingIffOutput
<1> QED
  BY <1>2 DEF Base, QueueType, HistType, TodoType, CallType

LEMMA LoopCallKeepsBase == ASSUME Base, LoopCalls PROVE Base'
<1>1. /\ UNCHANGED <<todo, revents, tasks, ucall>> /\ sock \in Socks
  BY DEF LoopCalls, loopSend, loopShutdown, loopForceClose, loopStopRead, loopStartRead, loopVars,
         Base, ConnType
<1>2. CASE loopSend
  BY <1>1, <1>2, SendCallKeepsBase DEF loopSend
<1>3. CASE loopShutdown
  <2>1. /\ state_' = "kDisconnecting"
        /\ sock' = IF state_ = "kConnected" THEN shutdownInLoop(channel, sock) ELSE sock
        /\ UNCHANGED <<outputBuffer_, channel, wire, pendingTasks_, sent, accepted, closes>>
    BY <1>3 DEF loopShutdown, shutdown
  <2>2. sock' \in Socks
    BY <1>1, <2>1, ShutFacts
  <2>3. ConnType' /\ Open'
    BY <2>1, <2>2 DEF Base, ConnType, Open, WritingIffOutput, States
  <2> QED
    BY <1>1, <2>1, <2>3 DEF Base, QueueType, HistType, TodoType, CallType
<1>4. CASE loopForceClose
  BY <1>1, <1>4, CloseCallKeepsBase DEF loopForceClose, histVars
<1>5. CASE loopStopRead \/ loopStartRead
  BY <1>1, <1>5, ReadCallKeepsBase DEF loopStopRead, loopStartRead, stopRead, startRead, histVars
<1> QED
  BY <1>2, <1>3, <1>4, <1>5 DEF LoopCalls

(* The calls of the other threads.                                         *)
LEMMA UserKeepsBase == ASSUME Base, NEW th \in Users, UserStep(th) PROVE Base'
<1>1. /\ UNCHANGED <<outputBuffer_, channel, sock, wire, closes, todo, revents, tasks, accepted>>
      /\ state_' \in {state_, "kDisconnecting"} /\ th \in Threads
  BY DEF UserStep, userSend, userShutdown, userForceClose, userExchange, userQueues,
         userReadControl, connVars, loopVars, histVars, Threads
<1>2. ConnType' /\ Open' /\ TodoType'
  BY <1>1 DEF Base, ConnType, Open, WritingIffOutput, TodoType, States
<1>3. CallType'
  BY DEF UserStep, userSend, userShutdown, userForceClose, userExchange, userQueues,
         userReadControl, Base, CallType
<1>4. HistType'
  <2>1. sent' = sent \/ sent' = [sent EXCEPT ![th] = @ + 1]
    BY DEF UserStep, userSend, userShutdown, userForceClose, userExchange, userQueues,
           userReadControl, histVars
  <2> QED
    BY <1>1, <2>1 DEF Base, HistType
<1>5. pendingTasks_' \in Seq(TaskSet)
  <2>1. CASE userQueues(th)
    <3>1. Msg(th, sent[th]) \in Msgs /\ ucall[th] \in TaskOps
      BY <1>1, <2>1 DEF userQueues, Base, HistType, Msg, Msgs, TaskOps, AllOps
    <3> QED
      BY <2>1, <3>1, QueueFacts DEF userQueues, Base
  <2>2. CASE userReadControl(th)
    <3>1. PICK op \in {"stopRead", "startRead"} : Queue(Task(op, NoMsg))
      BY <2>2 DEF userReadControl
    <3>2. op \in TaskOps
      BY DEF TaskOps, AllOps
    <3> QED
      BY <3>1, <3>2, NoMsgFacts, QueueFacts DEF Base
  <2>3. CASE pendingTasks_' = pendingTasks_
    BY <2>3 DEF Base, QueueType
  <2> QED
    BY <2>1, <2>2, <2>3 DEF UserStep, userSend, userShutdown, userForceClose, userExchange
<1> QED
  BY <1>1, <1>2, <1>3, <1>4, <1>5 DEF Base, QueueType

LEMMA BaseKeeps == ASSUME Base, [Next]_vars PROVE Base'
<1>1. CASE newConnection
  <2>1. /\ state_' = "kConnected" /\ channel' = enableRead(channel)
        /\ UNCHANGED <<outputBuffer_, sock, wire, revents, todo, tasks, pendingTasks_, ucall, histVars>>
    BY <1>1 DEF newConnection, connectEstablished
  <2>2. ConnType' /\ Open'
    BY <2>1, ChannelFacts DEF Base, ConnType, Open, WritingIffOutput, States, histVars
  <2> QED
    BY <2>1, <2>2 DEF Base, QueueType, HistType, CallType, TodoType, histVars
<1>2. ASSUME NEW room \in BOOLEAN, poll(room) PROVE Base'
  <2>1. revents' = Revents(room) /\ UNCHANGED <<connVars, todo, tasks, pendingTasks_, userVars, histVars>>
    BY <1>2 DEF poll
  <2>2. Revents(room) \in SUBSET {"IN", "PRI", "OUT", "HUP", "ERR"}
    BY DEF Revents
  <2>3. ConnType' /\ Open'
    BY <2>1 DEF Base, ConnType, Open, WritingIffOutput, connVars, histVars
  <2>4. QueueType' /\ HistType' /\ CallType'
    BY <2>1 DEF Base, QueueType, HistType, CallType, userVars, histVars
  <2>5. TodoType'
    BY <2>1, <2>2 DEF Base, TodoType
  <2> QED
    BY <2>3, <2>4, <2>5 DEF Base
<1>3. CASE handleEvents
  <2>1. /\ todo' = handleEventWithGuard(revents) /\ revents' = {}
        /\ UNCHANGED <<connVars, tasks, pendingTasks_, userVars, sent, accepted, closes>>
    BY <1>3 DEF handleEvents
  <2>2. TodoType'
    BY <2>1, TodoFacts DEF Base, TodoType
  <2>3. ConnType' /\ Open'
    BY <2>1 DEF Base, ConnType, Open, WritingIffOutput, connVars
  <2>4. QueueType' /\ HistType' /\ CallType'
    BY <2>1 DEF Base, QueueType, HistType, CallType, userVars
  <2> QED
    BY <2>2, <2>3, <2>4 DEF Base
<1>4. CASE doPendingTasks
  <2>1. /\ tasks' = pendingTasks_ /\ pendingTasks_' = <<>>
        /\ UNCHANGED <<connVars, revents, todo, userVars, histVars>>
    BY <1>4 DEF doPendingTasks
  <2>2. ConnType' /\ Open'
    BY <2>1 DEF Base, ConnType, Open, WritingIffOutput, connVars, histVars
  <2> QED
    BY <2>1, <2>2 DEF Base, QueueType, HistType, CallType, TodoType, userVars, histVars
<1>5. CASE callbackReturns \/ tasksDone \/ (\E th \in Threads : release(th)) \/ UNCHANGED vars
  <2>1. UNCHANGED <<connVars, tasks, pendingTasks_, revents, todo, ucall, histVars>>
    BY <1>5 DEF callbackReturns, tasksDone, release, loopVars, userVars, vars
  <2>2. ConnType' /\ Open'
    BY <2>1 DEF Base, ConnType, Open, WritingIffOutput, connVars, histVars
  <2> QED
    BY <2>1, <2>2 DEF Base, QueueType, HistType, CallType, TodoType, histVars
<1>6. CASE Peer
  <2>1. UNCHANGED <<state_, outputBuffer_, channel, wire, tasks, pendingTasks_, revents, todo, ucall, histVars>>
    BY <1>6 DEF Peer, peerSends, peerSendsUrgent, peerCloses, peerResets, PeerActs, loopVars, userVars
  <2>2. sock' \in Socks
    <3>1. sock \in Socks
      BY DEF Base, ConnType
    <3>2. \/ sock' = [sock EXCEPT !.rcv = @ + 1] \/ sock' = [sock EXCEPT !.urg = sock.rcv] \/ sock' = [sock EXCEPT !.fin = TRUE]
          \/ sock' = [sock EXCEPT !.rst = TRUE, !.soError = TRUE]
      BY <1>6 DEF Peer, peerSends, peerSendsUrgent, peerCloses, peerResets, PeerActs
    <3>3. CASE sock' = [sock EXCEPT !.rcv = @ + 1]
      <4>1. sock.rcv + 1 \in Int
        BY <3>1 DEF Socks
      <4> QED
        BY <3>1, <3>3, <4>1 DEF Socks
    <3>6. CASE sock' = [sock EXCEPT !.urg = sock.rcv]
      BY <3>1, <3>6 DEF Socks
    <3>4. CASE sock' = [sock EXCEPT !.fin = TRUE]
      BY <3>1, <3>4 DEF Socks
    <3>5. CASE sock' = [sock EXCEPT !.rst = TRUE, !.soError = TRUE]
      BY <3>1, <3>5 DEF Socks
    <3> QED
      BY <3>2, <3>3, <3>4, <3>5, <3>6
  <2>3. ConnType' /\ Open'
    BY <2>1, <2>2 DEF Base, ConnType, Open, WritingIffOutput, histVars
  <2> QED
    BY <2>1, <2>3 DEF Base, QueueType, HistType, CallType, TodoType, histVars
<1> QED
  BY <1>1, <1>2, <1>3, <1>4, <1>5, <1>6, HandlerKeepsBase, TaskKeepsBase, LoopCallKeepsBase,
     UserKeepsBase DEF Next, LoopStep

LEMMA BaseHolds == Spec => []Base
BY BaseStart, BaseKeeps, PTL DEF Spec

(* Whatever threads call whatever, the poller's view of the channel is the *)
(* kernel's: every epoll_ctl of EPoller::updateChannel is one the kernel   *)
(* accepts.                                                                *)
THEOREM ConnectionEpoll == Spec => []EpollAgrees
<1>1. Base => EpollAgrees
  BY DEF Base, ConnType, Good, EpollAgrees
<1> QED
  BY <1>1, BaseHolds, PTL

(* Whatever threads call whatever, sendInLoop and handleWrite keep         *)
(* EPOLLOUT set exactly while output waits, until the connection closes.   *)
THEOREM ConnectionOutput == Spec => []WritingIffOutput
<1>1. Base => WritingIffOutput
  BY DEF Base, Open
<1> QED
  BY <1>1, BaseHolds, PTL
-----------------------------------------------------------------------------
(* Closing, when only the loop thread controls the connection: the user    *)
(* threads' calls and the queued tasks.                                    *)
LoopOps == {"send", "forceClose", "stopRead", "writeComplete", "highWaterMark"}
LoopTasks == [op : LoopOps, msg : Msgs]
CallsOf == /\ ucall \in [Users -> {"none", "send"}]
           /\ tasks \in Seq(LoopTasks) /\ pendingTasks_ \in Seq(LoopTasks)

(* Before newConnection nothing has happened.                              *)
Fresh == lpc = "new" => /\ closes = 0 /\ cb = "none" /\ todo = <<>> /\ revents = {} /\ held = {}
                        /\ ucall = [th \in Users |-> "none"]

(* A connection that is up is in the set and in epoll, a closed one is in  *)
(* neither and stays kDisconnected.                                        *)
Up == inSet /\ channel.pooling /\ "PRI" \in channel.events
Down == ~inSet /\ ~channel.pooling /\ channel.events = {} /\ state_ = "kDisconnected"
Closed == /\ cb # "aborted" /\ closes \in {0, 1} /\ (closes = 1 => Down)
          /\ closes = 0 /\ lpc # "new" => Up

(* A channel that waits for its turn, or has a closing callback to come,   *)
(* belongs to an open connection.                                          *)
Turn == /\ revents # {} => closes = 0 /\ todo = <<>> /\ lpc = "dispatch"
        /\ todo # <<>> => lpc = "dispatch"
        /\ hupUrgent \/ (OneCloser(todo) /\ (closes = 0 \/ NoCloser(todo)))

(* EPOLLHUP with EPOLLPRI has closed the connection twice: the process is  *)
(* gone.                                                                   *)
Dead == /\ cb = "aborted" /\ hupUrgent /\ closes # 0 /\ lpc = "dispatch" /\ revents = {}
        /\ state_ = "kDisconnected"

CloseInv == CallsOf /\ Fresh /\ Turn /\ (Closed \/ Dead)

LEMMA ClosedStays == ASSUME CloseInv, closes # 0 PROVE state_ = "kDisconnected"
BY DEF CloseInv, Closed, Down, Dead

(* A step that does not close: once disconnected nothing changes, and the  *)
(* channel of an open connection stays in epoll.                           *)
Quiet == /\ UNCHANGED <<closes, inSet>> /\ cb' # "aborted"
         /\ state_ = "kDisconnected" => UNCHANGED <<state_, channel>>
         /\ channel.pooling /\ "PRI" \in channel.events =>
              channel'.pooling /\ "PRI" \in channel'.events

LEMMA QuietKeeps == ASSUME Closed, Quiet, lpc # "new" PROVE Closed'
BY DEF Closed, Quiet, Up, Down

LEMMA CloseCloses ==
  ASSUME Base, Closed, handleClose, closes = 0, lpc # "new" PROVE Closed' /\ closes' = 1
<1>1. Up /\ Good(channel)
  BY DEF Closed, Base, ConnType
<1>2. /\ inSet' = FALSE /\ state_' = "kDisconnected" /\ closes' = 1 /\ cb' = "down"
      /\ channel' = removeChannel(channel)
  BY <1>1 DEF handleClose, closeConnection, Up
<1>3. ~channel'.pooling /\ channel'.events = {}
  BY <1>1, <1>2, ChannelFacts DEF Up
<1> QED
  BY <1>2, <1>3 DEF Closed, Down

LEMMA QueueLoopTask ==
  ASSUME CallsOf, NEW op \in LoopOps, NEW m \in Msgs, Queue(Task(op, m))
  PROVE  pendingTasks_' \in Seq(LoopTasks)
<1>1. Task(op, m) \in LoopTasks
  BY DEF LoopTasks, Task
<1>2. PICK x \in LoopTasks : x = Task(op, m)
  BY <1>1, Zenon
<1> QED
  BY <1>2 DEF CallsOf, Queue

LEMMA SendIsQuiet ==
  ASSUME Base, CallsOf, NEW m, sendInLoop(m), UNCHANGED <<closes, inSet, cb>>, cb # "aborted"
  PROVE  Quiet /\ pendingTasks_' \in Seq(LoopTasks)
<1>1. channel' = channel \/ channel' = enableWrite(channel)
  BY DEF sendInLoop, BufferRest, Writing
<1>2. /\ state_' = state_
      /\ state_ = "kDisconnected" => channel' = channel
  BY DEF sendInLoop
<1>3. Quiet
  <2>1. Good(channel)
    BY DEF Base, ConnType
  <2>2. channel.pooling /\ "PRI" \in channel.events => channel'.pooling /\ "PRI" \in channel'.events
    BY <1>1, <2>1, StaysPolled, Zenon
  <2> QED
    BY <1>2, <2>2, Zenon DEF Quiet
<1>4. \/ UNCHANGED pendingTasks_ \/ Queue(Task("highWaterMark", NoMsg))
      \/ Queue(Task("writeComplete", NoMsg))
  BY DEF sendInLoop, BufferRest
<1> QED
  BY <1>3, <1>4, QueueLoopTask, NoMsgFacts DEF LoopOps, CallsOf

LEMMA WriteIsQuiet ==
  ASSUME Base, CallsOf, handleWrite, UNCHANGED <<closes, inSet, cb>>, cb # "aborted"
  PROVE  Quiet /\ pendingTasks_' \in Seq(LoopTasks)
<1>1. channel' = channel \/ channel' = disableWrite(channel)
  BY DEF handleWrite
<1>2. /\ state_' = state_
      /\ state_ = "kDisconnected" => channel' = channel
  BY DEF handleWrite
<1>3. Quiet
  <2>1. Good(channel)
    BY DEF Base, ConnType
  <2>2. channel.pooling /\ "PRI" \in channel.events => channel'.pooling /\ "PRI" \in channel'.events
    BY <1>1, <2>1, StaysPolled, Zenon
  <2> QED
    BY <1>2, <2>2, Zenon DEF Quiet
<1>4. \/ UNCHANGED pendingTasks_ \/ Queue(Task("writeComplete", NoMsg))
  BY DEF handleWrite
<1> QED
  BY <1>3, <1>4, QueueLoopTask, NoMsgFacts DEF LoopOps, CallsOf

LEMMA CloseAborts ==
  ASSUME Closed, handleClose, closes = 1, hupUrgent, UNCHANGED <<hupUrgent, lpc, revents>>,
         lpc = "dispatch", revents = {}
  PROVE  Dead'
<1>1. ~inSet
  BY DEF Closed, Down
<1>2. cb' = "aborted" /\ closes' = closes + 1 /\ state_' = "kDisconnected"
  BY <1>1 DEF handleClose, closeConnection
<1> QED
  BY <1>2 DEF Dead

LEMMA HandlerKeepsClose == ASSUME Base, CloseInv, handler PROVE CloseInv'
<1>1. /\ todo # <<>> /\ lpc = "dispatch" /\ revents = {} /\ lpc' = lpc /\ revents' = revents
      /\ todo' = Tail(todo) /\ tasks' = tasks /\ ucall' = ucall /\ cb = "none"
      /\ hupUrgent' = hupUrgent
  BY DEF handler, CloseInv, Turn, userVars
<1>2. /\ Head(todo) \in Callbacks
      /\ ~hupUrgent => /\ OneCloser(todo')
                       /\ Head(todo) \in Closer => closes = 0 /\ NoCloser(todo')
                       /\ NoCloser(todo) => NoCloser(todo')
  <2>1. todo \in Seq(Callbacks)
    BY DEF Base, TodoType
  <2> QED
    BY <1>1, <2>1, TailFacts DEF CloseInv, Turn
<1>3. Fresh'
  BY <1>1 DEF Fresh
<1>4. CallsOf /\ Closed
  BY <1>1 DEF CloseInv, Dead
<1>5. ASSUME Quiet, pendingTasks_' \in Seq(LoopTasks) PROVE CloseInv'
  <2>1. Closed'
    BY <1>1, <1>4, <1>5, QuietKeeps
  <2>2. Turn'
    BY <1>1, <1>2, <1>5 DEF Turn, Quiet, CloseInv
  <2> QED
    BY <1>1, <1>3, <1>4, <1>5, <2>1, <2>2 DEF CloseInv, CallsOf
<1>6. ASSUME handleClose, Head(todo) \in Closer, UNCHANGED pendingTasks_ PROVE CloseInv'
  <2>1. Closed' \/ Dead'
    <3>1. CASE closes = 0
      BY <1>1, <1>4, <1>6, <3>1, CloseCloses
    <3>2. CASE closes = 1
      <4>1. hupUrgent
        BY <1>2, <1>6, <3>2
      <4> QED
        BY <1>1, <1>4, <1>6, <3>2, <4>1, CloseAborts
    <3> QED
      BY <1>4, <3>1, <3>2 DEF Closed
  <2>2. Turn'
    BY <1>1, <1>2, <1>6 DEF Turn
  <2> QED
    BY <1>1, <1>3, <1>4, <1>6, <2>1, <2>2 DEF CloseInv, CallsOf
<1>7. CASE Head(todo) = "close"
  BY <1>6, <1>7 DEF handler, Closer
<1>8. CASE Head(todo) = "error"
  BY <1>1, <1>4, <1>5, <1>8 DEF handler, Quiet, CallsOf
<1>9. CASE Head(todo) = "read"
  <2>1. handleRead /\ UNCHANGED pendingTasks_
    BY <1>9 DEF handler
  <2>2. CASE handleClose
    BY <1>6, <1>9, <2>1, <2>2 DEF Closer
  <2>3. CASE UNCHANGED <<state_, channel, closes, inSet>> /\ cb' \in {"none", "message"}
    BY <1>4, <1>5, <2>1, <2>3 DEF Quiet, CallsOf
  <2> QED
    BY <1>1, <2>1, <2>2, <2>3 DEF handleRead
<1>10. CASE Head(todo) = "write"
  <2>1. handleWrite /\ UNCHANGED <<closes, inSet, cb>>
    BY <1>10 DEF handler
  <2> QED
    BY <1>1, <1>4, <1>5, <2>1, WriteIsQuiet
<1> QED
  BY <1>2, <1>7, <1>8, <1>9, <1>10 DEF Callbacks

LEMMA TaskKeepsClose == ASSUME Base, CloseInv, runTask PROVE CloseInv'
<1>1. /\ tasks # <<>> /\ lpc = "tasks" /\ revents' = revents /\ lpc' = lpc /\ todo' = todo
      /\ tasks' = Tail(tasks) /\ ucall' = ucall /\ cb = "none" /\ tasks \in Seq(LoopTasks)
      /\ hupUrgent' = hupUrgent
  BY DEF runTask, userVars, CloseInv, CallsOf
<1>2. PICK x \in LoopTasks : x = Head(tasks)
  <2>1. Head(tasks) \in LoopTasks
    BY <1>1
  <2> QED
    BY <2>1, Zenon
<1>3. x.op \in LoopOps /\ tasks' \in Seq(LoopTasks)
  BY <1>1 DEF LoopTasks
<1>4. CallsOf /\ Closed /\ Fresh' /\ todo = <<>> /\ revents = {}
  BY <1>1 DEF CloseInv, Fresh, Turn, Dead
<1>5. Turn'
  BY <1>1, <1>4 DEF CloseInv, Turn, NoCloser
<1>6. ASSUME Quiet, pendingTasks_' \in Seq(LoopTasks) PROVE CloseInv'
  <2>1. Closed'
    BY <1>1, <1>4, <1>6, QuietKeeps
  <2> QED
    BY <1>1, <1>3, <1>4, <1>5, <1>6, <2>1 DEF CloseInv, CallsOf
<1>7. CASE x.op = "send"
  <2>1. sendInLoop(x.msg) /\ UNCHANGED <<closes, inSet, cb>>
    BY <1>2, <1>7 DEF runTask
  <2> QED
    BY <1>1, <1>4, <1>6, <2>1, SendIsQuiet
<1>8. CASE x.op = "forceClose"
  <2>1. forceCloseInLoop /\ UNCHANGED pendingTasks_
    BY <1>2, <1>8 DEF runTask
  <2>2. CASE state_ # "kDisconnected"
    <3>1. closes = 0 /\ handleClose
      BY <1>4, <2>1, <2>2 DEF Closed, Down, forceCloseInLoop
    <3>2. Closed'
      BY <1>1, <1>4, <3>1, CloseCloses
    <3> QED
      BY <1>1, <1>3, <1>4, <1>5, <2>1, <3>2 DEF CloseInv, CallsOf
  <2>3. CASE state_ = "kDisconnected"
    BY <1>1, <1>4, <1>6, <2>1, <2>3 DEF forceCloseInLoop, Quiet, CallsOf
  <2> QED
    BY <2>2, <2>3
<1>9. CASE x.op = "stopRead"
  <2>1. /\ channel' \in {channel, disableRead(channel)}
        /\ ~isReading(channel) => channel' = channel
        /\ UNCHANGED <<state_, pendingTasks_, cb, inSet, closes>>
    BY <1>2, <1>9 DEF runTask
  <2>2. state_ = "kDisconnected" => ~isReading(channel)
    BY <1>4 DEF Closed, Down, isReading, Base, Open
  <2>3. Quiet
    <3>1. Good(channel)
      BY DEF Base, ConnType
    <3>2. channel.pooling /\ "PRI" \in channel.events => channel'.pooling /\ "PRI" \in channel'.events
      BY <2>1, <3>1, StaysPolled, Zenon
    <3> QED
      BY <1>1, <2>1, <2>2, <3>2 DEF Quiet
  <2> QED
    BY <1>4, <1>6, <2>1, <2>3 DEF CallsOf
<1>10. CASE x.op \in {"writeComplete", "highWaterMark"}
  <2>1. cb' = x.op /\ UNCHANGED <<connVars, pendingTasks_, inSet, closes>>
    BY <1>2, <1>10 DEF runTask
  <2> QED
    BY <1>4, <1>6, <1>10, <2>1 DEF CallsOf, Quiet, connVars
<1> QED
  BY <1>3, <1>7, <1>8, <1>9, <1>10 DEF LoopOps

LEMMA LoopCallKeepsClose == ASSUME Base, CloseInv, LoopCalls PROVE CloseInv'
<1>1. /\ UNCHANGED <<todo, revents, lpc, cb, tasks, ucall, inSet, closes, hupUrgent>>
      /\ InCallback \/ OtherLoopCode
  BY DEF LoopCalls, loopSend, loopShutdown, loopForceClose, loopStopRead, loopStartRead, loopVars,
         histVars, LoopCall
<1>2. lpc # "new" /\ cb # "aborted" /\ CallsOf /\ Closed
  BY <1>1 DEF InCallback, OtherLoopCode, CloseInv, Fresh, Dead
<1>3. Turn' /\ Fresh'
  BY <1>1, <1>2 DEF CloseInv, Turn, Fresh
<1>4. ASSUME Quiet, pendingTasks_' \in Seq(LoopTasks) PROVE CloseInv'
  <2>1. Closed'
    BY <1>2, <1>4, QuietKeeps
  <2> QED
    BY <1>1, <1>2, <1>3, <1>4, <2>1 DEF CloseInv, CallsOf
<1>5. CASE loopSend
  <2>1. CASE state_ = "kConnected"
    <3>1. sendInLoop(Msg(LoopThread, sent[LoopThread] + 1))
      BY <1>5, <2>1 DEF loopSend, send
    <3> QED
      BY <1>1, <1>2, <1>4, <3>1, SendIsQuiet
  <2>2. CASE state_ # "kConnected"
    BY <1>1, <1>2, <1>4, <1>5, <2>2 DEF loopSend, send, connVars, Quiet, CallsOf
  <2> QED
    BY <2>1, <2>2
<1>6. CASE loopShutdown
  BY <1>1, <1>2, <1>4, <1>6 DEF loopShutdown, Quiet, CallsOf
<1>7. CASE loopForceClose
  <2>1. /\ UNCHANGED channel /\ (state_ = "kDisconnected" => UNCHANGED state_)
        /\ UNCHANGED pendingTasks_ \/ Queue(Task("forceClose", NoMsg))
    BY <1>7 DEF loopForceClose, forceClose
  <2>2. pendingTasks_' \in Seq(LoopTasks)
    BY <1>2, <2>1, QueueLoopTask, NoMsgFacts DEF LoopOps, CallsOf
  <2> QED
    BY <1>1, <1>2, <1>4, <2>1, <2>2 DEF Quiet
<1>8. CASE loopStopRead \/ loopStartRead
  <2>1. /\ channel' \in {channel, disableRead(channel), enableRead(channel)}
        /\ ~isReading(channel) /\ state_ = "kDisconnected" => channel' = channel
        /\ UNCHANGED <<state_, pendingTasks_>>
    BY <1>8 DEF loopStopRead, loopStartRead, stopRead, startRead
  <2>2. state_ = "kDisconnected" => ~isReading(channel)
    BY <1>2 DEF Closed, Down, isReading, Base, Open
  <2>3. Quiet
    <3>1. Good(channel)
      BY DEF Base, ConnType
    <3>2. channel.pooling /\ "PRI" \in channel.events => channel'.pooling /\ "PRI" \in channel'.events
      BY <2>1, <3>1, StaysPolled, Zenon
    <3> QED
      BY <1>1, <1>2, <2>1, <2>2, <3>2 DEF Quiet
  <2> QED
    BY <1>2, <1>4, <2>1, <2>3 DEF CallsOf
<1> QED
  BY <1>5, <1>6, <1>7, <1>8 DEF LoopCalls

LEMMA UserKeepsClose ==
  ASSUME LoopControls, Base, CloseInv, NEW th \in Users, UserStep(th) PROVE CloseInv'
<1>1. /\ Ops[th] \subseteq {"send", "stopRead"} /\ ucall[th] \in {"none", "send"} /\ CallsOf
  BY DEF LoopControls, CloseInv, CallsOf
<1>2. userSend(th) \/ userQueues(th) \/ userReadControl(th)
  BY <1>1 DEF UserStep, userShutdown, userForceClose, userExchange, UserCall
<1>3. UNCHANGED <<connVars, loopVars, inSet, held, closes, hupUrgent>>
  BY <1>2 DEF userSend, userQueues, userReadControl, histVars
<1>4. lpc # "new"
  BY <1>2 DEF userSend, userQueues, userReadControl, UserCall, CloseInv, Fresh
<1>5. (Closed' \/ Dead') /\ Turn' /\ Fresh'
  BY <1>3, <1>4 DEF CloseInv, Closed, Up, Down, Dead, Turn, Fresh, connVars, loopVars
<1>6. ucall' \in [Users -> {"none", "send"}]
  BY <1>1, <1>2 DEF userSend, userQueues, userReadControl, CallsOf
<1>7. pendingTasks_' \in Seq(LoopTasks)
  <2>1. CASE userQueues(th)
    <3>1. th \in Threads
      BY DEF Threads
    <3>2. Msg(th, sent[th]) \in Msgs /\ ucall[th] \in LoopOps
      BY <1>1, <2>1, <3>1 DEF userQueues, Base, HistType, Msg, Msgs, LoopOps
    <3> QED
      BY <1>1, <2>1, <3>2, QueueLoopTask DEF userQueues
  <2>2. CASE userReadControl(th)
    <3>1. PICK op \in {"stopRead", "startRead"} : UserCall(th, op) /\ Queue(Task(op, NoMsg))
      BY <2>2 DEF userReadControl
    <3>2. op \in LoopOps
      BY <1>1, <3>1 DEF UserCall, LoopOps
    <3> QED
      BY <1>1, <3>1, <3>2, NoMsgFacts, QueueLoopTask
  <2>3. CASE userSend(th)
    BY <1>1, <2>3 DEF userSend, CallsOf
  <2> QED
    BY <1>2, <2>1, <2>2, <2>3
<1> QED
  BY <1>1, <1>3, <1>5, <1>6, <1>7 DEF CloseInv, CallsOf, loopVars

LEMMA CloseStart == ASSUME Init PROVE CloseInv
<1>1. /\ revents = {} /\ todo = <<>> /\ cb = "none" /\ lpc = "new" /\ tasks = <<>> /\ pendingTasks_ = <<>>
      /\ held = {} /\ ucall = [th \in Users |-> "none"] /\ closes = 0
  BY DEF Init
<1>2. CallsOf
  BY <1>1 DEF CallsOf
<1>3. Fresh
  BY <1>1, Zenon DEF Fresh
<1>4. OneCloser(<<>>)
  BY DEF OneCloser
<1>5. Turn
  BY <1>1, <1>4, Zenon DEF Turn
<1>6. Closed
  BY <1>1 DEF Closed
<1> QED
  BY <1>2, <1>3, <1>5, <1>6 DEF CloseInv

LEMMA CloseKept == ASSUME LoopControls, Base, CloseInv, [Next]_vars PROVE CloseInv'
<1>1. CASE newConnection
  <2>1. /\ lpc = "new" /\ channel' = enableRead(channel) /\ inSet' = TRUE /\ cb' = "up"
        /\ lpc' = "dispatch"
        /\ UNCHANGED <<revents, todo, tasks, pendingTasks_, ucall, closes, hupUrgent>>
    BY <1>1 DEF newConnection, connectEstablished, histVars
  <2>2. Up'
    BY <2>1, ChannelFacts DEF Up, Base, ConnType
  <2> QED
    BY <2>1, <2>2 DEF CloseInv, CallsOf, Fresh, Closed, Dead, Turn
<1>2. ASSUME NEW room \in BOOLEAN, poll(room) PROVE CloseInv'
  <2>1. /\ revents' = Revents(room) /\ lpc = "poll" /\ lpc' = "dispatch"
        /\ UNCHANGED <<connVars, todo, cb, tasks, pendingTasks_, inSet, ucall, closes, hupUrgent>>
    BY <1>2 DEF poll, userVars, histVars
  <2>2. CallsOf' /\ Fresh'
    BY <2>1 DEF CloseInv, CallsOf, Fresh, connVars
  <2>3. CASE Closed
    <3>1. Closed'
      BY <2>1, <2>3 DEF Closed, Up, Down, connVars
    <3>2. closes = 1 => Revents(room) = {}
      BY <2>3 DEF Revents, Closed, Down, Base, ConnType, Good
    <3>3. Turn'
      BY <2>1, <2>3, <3>2 DEF CloseInv, Turn, Closed
    <3> QED
      BY <2>2, <3>1, <3>3 DEF CloseInv
  <2> QED
    BY <2>1, <2>3 DEF CloseInv, Dead
<1>3. CASE handleEvents
  <2>1. /\ lpc = "dispatch" /\ revents # {} /\ revents' = {} /\ cb = "none"
        /\ todo' = handleEventWithGuard(revents)
        /\ hupUrgent' = (hupUrgent \/ (HungUp(revents) /\ "PRI" \in revents))
        /\ UNCHANGED <<connVars, cb, lpc, tasks, pendingTasks_, inSet, ucall, closes>>
    BY <1>3 DEF handleEvents, userVars
  <2>2. closes = 0 /\ Closed
    BY <2>1 DEF CloseInv, Turn, Dead
  <2>3. CallsOf' /\ Fresh' /\ Closed'
    BY <2>1, <2>2 DEF CloseInv, CallsOf, Closed, Fresh, Up, Down, connVars
  <2>4. "RDHUP" \notin revents
    BY DEF Base, TodoType
  <2>5. Turn'
    BY <2>1, <2>2, <2>4, TodoFacts DEF Turn
  <2> QED
    BY <2>3, <2>5 DEF CloseInv
<1>4. CASE doPendingTasks \/ tasksDone \/ callbackReturns
  <2>1. /\ lpc # "new" /\ lpc' # "new" /\ cb' # "aborted"
        /\ UNCHANGED <<connVars, revents, todo, inSet, ucall, closes, hupUrgent>> /\ cb # "aborted"
        /\ lpc' = lpc \/ (revents = {} /\ todo = <<>>)
    BY <1>4 DEF doPendingTasks, AllHandled, tasksDone, callbackReturns, InCallback, userVars, histVars,
                CloseInv, Fresh, Turn
  <2>2. Closed' /\ Fresh'
    BY <2>1 DEF CloseInv, Closed, Dead, Fresh, Up, Down, connVars
  <2>3. Turn'
    BY <2>1 DEF CloseInv, Turn
  <2>4. CallsOf'
    <3>1. \/ tasks' = pendingTasks_ /\ pendingTasks_' = <<>>
          \/ UNCHANGED <<tasks, pendingTasks_>>
      BY <1>4 DEF doPendingTasks, tasksDone, callbackReturns
    <3>2. ucall' = ucall
      BY <2>1
    <3>3. <<>> \in Seq(LoopTasks)
      OBVIOUS
    <3> QED
      BY <3>1, <3>2, <3>3 DEF CloseInv, CallsOf
  <2> QED
    BY <2>2, <2>3, <2>4 DEF CloseInv
<1>5. CASE (\E th \in Threads : release(th)) \/ Peer \/ UNCHANGED vars
  <2>1. /\ UNCHANGED <<channel, state_, loopVars, pendingTasks_, inSet, ucall, closes, hupUrgent>>
        /\ held' \subseteq held
    BY <1>5 DEF release, Peer, peerSends, peerSendsUrgent, peerCloses, peerResets, PeerActs, vars, connVars, userVars, histVars
  <2> QED
    BY <2>1 DEF CloseInv, CallsOf, Closed, Dead, Fresh, Turn, Up, Down, loopVars
<1> QED
  BY <1>1, <1>2, <1>3, <1>4, <1>5, HandlerKeepsClose, TaskKeepsClose, LoopCallKeepsClose,
     UserKeepsClose DEF Next, LoopStep

LEMMA CloseHolds == ASSUME LoopControls PROVE Spec => []CloseInv
<1>1. Init => CloseInv
  BY CloseStart
<1>2. Base /\ CloseInv /\ [Next]_vars => CloseInv'
  BY CloseKept
<1> QED
  BY <1>1, <1>2, BaseHolds, PTL DEF Spec

(* When only the loop thread shuts, closes and reads again, handleClose    *)
(* runs at most once, always finds the connection in the server's set, and *)
(* the connection is out of epoll and kDisconnected ever after - as long   *)
(* as no turn of its channel had EPOLLHUP and EPOLLPRI without EPOLLIN.    *)
THEOREM ConnectionClosedOnce == ASSUME LoopControls PROVE Spec => []ClosedOnce
<1>1. CloseInv => ClosedOnce
  BY DEF CloseInv, Closed, Dead, Down, ClosedOnce
<1> QED
  BY <1>1, CloseHolds, PTL

(* Under the same condition a channel waiting in activeChannels_ is that   *)
(* of a connection its server still owns.                                  *)
THEOREM ActiveChannelIsAlive == ASSUME LoopControls PROVE Spec => []ActiveChannelAlive
<1>1. CloseInv => ActiveChannelAlive
  BY DEF CloseInv, Closed, Dead, Turn, Up, Alive, ActiveChannelAlive
<1> QED
  BY <1>1, CloseHolds, PTL
-----------------------------------------------------------------------------
(* The output.  \o and SubSeq under names of their own, so that proofs use *)
(* only the facts below.                                                   *)
Cat(s, t) == s \o t
Cut(s, a, b) == SubSeq(s, a, b)
StreamOf(acc) == [i \in 1..(Len(acc) * MsgLen) |->
                    Units(acc[((i - 1) \div MsgLen) + 1])[((i - 1) % MsgLen) + 1]]

LEMMA CatFacts ==
  ASSUME NEW s \in Seq(UnitSet), NEW t \in Seq(UnitSet), NEW u \in Seq(UnitSet)
  PROVE  /\ Cat(s, t) \in Seq(UnitSet) /\ Cat(s, <<>>) = s /\ Cat(<<>>, s) = s
         /\ Cat(Cat(s, t), u) = Cat(s, Cat(t, u))
<1>1. s \o t \in Seq(UnitSet)
  OBVIOUS
<1>2. s \o <<>> = s /\ <<>> \o s = s
  BY ConcatEmptySeq
<1>3. (s \o t) \o u = s \o (t \o u)
  BY ConcatAssociative
<1> QED
  BY <1>1, <1>2, <1>3, Zenon DEF Cat

LEMMA CutFacts ==
  ASSUME NEW s \in Seq(UnitSet), NEW n \in 0..Len(s)
  PROVE  /\ Cut(s, 1, n) \in Seq(UnitSet) /\ Cut(s, n + 1, Len(s)) \in Seq(UnitSet)
         /\ Cat(Cut(s, 1, n), Cut(s, n + 1, Len(s))) = s
         /\ Cut(s, 1, Len(s)) = s /\ Cut(s, 1, -1) = <<>>
<1>1. SubSeq(s, 1, n) \in Seq(UnitSet) /\ SubSeq(s, n + 1, Len(s)) \in Seq(UnitSet)
  OBVIOUS
<1>2. SubSeq(s, 1, n) \o SubSeq(s, n + 1, Len(s)) = SubSeq(s, 1, Len(s))
  <2>1. 1 \in 1..(Len(s) + 1) /\ n \in (1 - 1)..Len(s) /\ Len(s) \in n..Len(s)
    OBVIOUS
  <2> QED
    BY <2>1, ConcatAdjacentSubSeq
<1>3. SubSeq(s, 1, Len(s)) = s
  BY SubSeqFull
<1>4. SubSeq(s, 1, -1) = <<>>
  BY SubSeqEmpty
<1> QED
  BY <1>1, <1>2, <1>3, <1>4, Zenon DEF Cat, Cut

(* Division with remainder.                                                *)
LEMMA TimesFacts ==
  ASSUME NEW M \in Nat \ {0}, NEW a \in Int, NEW b \in Int, a < b PROVE a * M + M <= b * M
<1>1. (b - a - 1) \in Nat /\ (b - a - 1) * M >= 0
  OBVIOUS
<1>2. (b - a - 1) * M = b * M - a * M - M
  OBVIOUS
<1> QED
  BY <1>1, <1>2

LEMMA DivMod ==
  ASSUME NEW M \in Nat \ {0}, NEW x \in Nat
  PROVE  /\ x \div M \in Nat /\ x % M \in 0..(M - 1) /\ x = M * (x \div M) + (x % M)
OBVIOUS

LEMMA DivUnique ==
  ASSUME NEW M \in Nat \ {0}, NEW L \in Nat, NEW j \in 0..(M - 1)
  PROVE  (L * M + j) \div M = L /\ (L * M + j) % M = j
<1>1. PICK x \in Nat : x = L * M + j
  OBVIOUS
<1>2. PICK q \in Nat : q = x \div M
  BY DivMod
<1>3. PICK r \in 0..(M - 1) : r = x % M
  BY DivMod
<1>4. x = q * M + r
  BY <1>2, <1>3, DivMod
<1>5. ASSUME q < L PROVE FALSE
  <2>1. q * M + M <= L * M
    BY <1>5, TimesFacts
  <2> QED
    BY <1>1, <1>4, <2>1
<1>6. ASSUME L < q PROVE FALSE
  <2>1. L * M + M <= q * M
    BY <1>6, TimesFacts
  <2> QED
    BY <1>1, <1>4, <2>1
<1>7. q = L
  BY <1>5, <1>6
<1> QED
  BY <1>1, <1>2, <1>3, <1>4, <1>7

LEMMA JoinFacts ==
  ASSUME NEW s \in Seq(UnitSet), NEW u \in Seq(UnitSet), NEW a \in Nat, NEW b \in Nat, Len(s) = a, Len(u) = b
  PROVE  Cat(s, u) = [i \in 1..(a + b) |-> IF i <= a THEN s[i] ELSE u[i - a]]
<1>1. /\ Cat(s, u) \in Seq(UnitSet) /\ Len(Cat(s, u)) = Len(s) + Len(u)
      /\ \A i \in 1..(Len(s) + Len(u)) : Cat(s, u)[i] = IF i <= Len(s) THEN s[i] ELSE u[i - Len(s)]
  BY ConcatProperties, Zenon DEF Cat
<1>2. PICK c \in Seq(UnitSet) : c = Cat(s, u)
  BY <1>1, Zenon
<1>3. Len(c) = a + b /\ \A i \in 1..(a + b) : c[i] = IF i <= a THEN s[i] ELSE u[i - a]
  BY <1>1, <1>2
<1>4. c = [i \in 1..(a + b) |-> c[i]]
  BY <1>3
<1>5. c = [i \in 1..(a + b) |-> IF i <= a THEN s[i] ELSE u[i - a]]
  BY <1>3, <1>4
<1> QED
  BY <1>2, <1>5

(* One more message appends its units to the stream.                       *)
LEMMA StreamGrows ==
  ASSUME NEW acc \in Seq(Msgs), NEW m \in Msgs
  PROVE  /\ StreamOf(acc) \in Seq(UnitSet)
         /\ StreamOf(Append(acc, m)) = Cat(StreamOf(acc), Units(m))
<1> USE SizesAssumption
<1>1. PICK L \in Nat : L = Len(acc)
  OBVIOUS
<1>2. PICK top \in Nat : top = L * MsgLen
  OBVIOUS
<1>3. (L + 1) * MsgLen = top + MsgLen
  BY <1>2
<1>4. ASSUME NEW i \in 1..top
      PROVE  /\ (i - 1) \div MsgLen \in 0..(L - 1)
             /\ (i - 1) % MsgLen \in 0..(MsgLen - 1)
  <2>1. i - 1 \in Nat
    OBVIOUS
  <2>2. PICK q \in Nat : q = (i - 1) \div MsgLen
    BY <2>1, DivMod
  <2>3. PICK r \in 0..(MsgLen - 1) : r = (i - 1) % MsgLen
    BY <2>1, DivMod
  <2>4. i - 1 = q * MsgLen + r
    BY <2>1, <2>2, <2>3, DivMod
  <2>5. ASSUME ~(q < L) PROVE FALSE
    <3>1. L * MsgLen <= q * MsgLen
      <4>1. CASE q = L
        BY <4>1
      <4>2. CASE L < q
        <5>1. L * MsgLen + MsgLen <= q * MsgLen
          BY <4>2, TimesFacts
        <5> QED
          BY <5>1
      <4> QED
        BY <2>5, <4>1, <4>2
    <3> QED
      BY <1>2, <2>4, <3>1
  <2> QED
    BY <2>2, <2>3, <2>5
<1>5. ASSUME NEW i \in (top + 1)..(top + MsgLen)
      PROVE  /\ (i - 1) \div MsgLen = L /\ (i - 1) % MsgLen = i - 1 - top
  <2>1. PICK j \in 0..(MsgLen - 1) : j = i - 1 - top
    OBVIOUS
  <2>2. (L * MsgLen + j) \div MsgLen = L /\ (L * MsgLen + j) % MsgLen = j
    BY DivUnique
  <2>3. L * MsgLen + j = i - 1
    BY <1>2, <2>1
  <2> QED
    BY <2>1, <2>2, <2>3
<1>6. PICK u \in Seq(UnitSet) : u = Units(m) /\ Len(u) = MsgLen
  <2>1. MsgLen \in -1..MsgLen
    OBVIOUS
  <2> QED
    BY <2>1, UnitsFacts
<1>7. ASSUME NEW x \in Msgs, NEW r \in 1..MsgLen PROVE Units(x)[r] \in UnitSet
  BY DEF Units, UnitSet
<1>8. StreamOf(acc) \in [1..top -> UnitSet]
  <2>1. \A i \in 1..top : Units(acc[((i - 1) \div MsgLen) + 1])[((i - 1) % MsgLen) + 1] \in UnitSet
    <3> TAKE i \in 1..top
    <3>1. PICK q \in 0..(L - 1) : q = (i - 1) \div MsgLen
      BY <1>4
    <3>2. PICK r \in 0..(MsgLen - 1) : r = (i - 1) % MsgLen
      BY <1>4
    <3>3. acc[q + 1] \in Msgs /\ r + 1 \in 1..MsgLen
      BY <1>1
    <3> QED
      BY <1>7, <3>1, <3>2, <3>3
  <2> QED
    BY <1>1, <1>2, <2>1 DEF StreamOf
<1>9. PICK s \in Seq(UnitSet) : s = StreamOf(acc) /\ Len(s) = top
  BY <1>8
<1>10. Len(Append(acc, m)) = L + 1 /\ Append(acc, m)[L + 1] = m
       /\ \A k \in 1..L : Append(acc, m)[k] = acc[k]
  BY <1>1
<1>11. StreamOf(Append(acc, m)) = [i \in 1..(top + MsgLen) |-> IF i <= top THEN s[i] ELSE u[i - top]]
  <2>1. ASSUME NEW i \in 1..(top + MsgLen)
        PROVE Units(Append(acc, m)[((i - 1) \div MsgLen) + 1])[((i - 1) % MsgLen) + 1]
                = IF i <= top THEN s[i] ELSE u[i - top]
    <3>1. CASE i <= top
      <4>1. PICK q \in 0..(L - 1) : q = (i - 1) \div MsgLen
        BY <1>4, <3>1
      <4>2. Append(acc, m)[q + 1] = acc[q + 1]
        BY <1>10
      <4>3. s[i] = Units(acc[((i - 1) \div MsgLen) + 1])[((i - 1) % MsgLen) + 1]
        BY <1>1, <1>2, <1>9, <3>1 DEF StreamOf
      <4> QED
        BY <3>1, <4>1, <4>2, <4>3
    <3>2. CASE ~(i <= top)
      <4>1. (i - 1) \div MsgLen = L /\ (i - 1) % MsgLen = i - 1 - top
        BY <1>5, <3>2
      <4>2. (i - 1 - top) + 1 = i - top
        OBVIOUS
      <4> QED
        BY <1>6, <1>10, <3>2, <4>1, <4>2
    <3> QED
      BY <3>1, <3>2
  <2> QED
    BY <1>3, <1>10, <2>1 DEF StreamOf
<1>12. Cat(s, u) = [i \in 1..(top + MsgLen) |-> IF i <= top THEN s[i] ELSE u[i - top]]
  <2>1. Len(s) = top /\ Len(u) = MsgLen
    BY <1>6, <1>9
  <2> QED
    BY <2>1, JoinFacts
<1> QED
  BY <1>6, <1>9, <1>11, <1>12

LEMMA IntactFacts == OutputIntact <=> Cat(wire, outputBuffer_) = StreamOf(accepted)
BY DEF OutputIntact, Cat, Stream, StreamOf

(* The output is untouched.                                                *)
LEMMA OutputSame ==
  ASSUME OutputIntact, UNCHANGED <<wire, outputBuffer_, accepted>> PROVE OutputIntact'
BY DEF OutputIntact, Stream

LEMMA SendKeepsOutput ==
  ASSUME Base, closes = 0, OutputIntact, NEW m \in Msgs, sendInLoop(m) PROVE OutputIntact'
<1> USE SizesAssumption
<1>1. /\ outputBuffer_ \in Seq(UnitSet) /\ wire \in Seq(UnitSet) /\ accepted \in Seq(Msgs)
      /\ state_ # "kDisconnected" /\ (~isWriting(channel) => outputBuffer_ = <<>>)
      /\ Cat(wire, outputBuffer_) = StreamOf(accepted)
  BY IntactFacts DEF Base, ConnType, HistType, Open, WritingIffOutput
<1>2. PICK u \in Seq(UnitSet) : u = Units(m) /\ Len(u) = MsgLen
  <2>1. MsgLen \in -1..MsgLen
    OBVIOUS
  <2> QED
    BY <2>1, UnitsFacts
<1>3. StreamOf(Append(accepted, m)) = Cat(StreamOf(accepted), u)
  BY <1>1, <1>2, StreamGrows
<1>4. CASE OutputWaits
  <2>1. BufferRest(m, 0) /\ accepted' = Append(accepted, m) /\ wire' = wire
    BY <1>1, <1>4 DEF sendInLoop
  <2>2. outputBuffer_' = Cat(outputBuffer_, Cut(u, 1, Len(u)))
    BY <1>2, <2>1 DEF BufferRest, Cat, Cut
  <2>3. 0 \in 0..Len(u)
    BY <1>2
  <2>4. outputBuffer_' = Cat(outputBuffer_, u)
    BY <2>2, <2>3, CutFacts
  <2>5. Cat(wire', outputBuffer_') = StreamOf(accepted')
    <3>1. Cat(wire', outputBuffer_') = Cat(wire, Cat(outputBuffer_, u))
      BY <2>1, <2>4
    <3>2. Cat(wire, Cat(outputBuffer_, u)) = Cat(Cat(wire, outputBuffer_), u)
      BY <1>1, <1>2, CatFacts
    <3> QED
      BY <1>1, <1>3, <2>1, <3>1, <3>2
  <2> QED
    BY <2>5 DEF OutputIntact, Cat, Stream, StreamOf
<1>5. CASE ~OutputWaits
  <2>1. PICK n \in WriteResults(MsgLen) :
          /\ wire' = wire \o SubSeq(Units(m), 1, n)
          /\ accepted' = IF n = -1 THEN accepted ELSE Append(accepted, m)
          /\ CASE n = -1     -> UNCHANGED <<outputBuffer_, channel, pendingTasks_>>
               [] n = MsgLen -> /\ Queue(Task("writeComplete", NoMsg))
                                /\ UNCHANGED <<outputBuffer_, channel>>
               [] OTHER      -> BufferRest(m, n)
    BY <1>1, <1>5 DEF sendInLoop
  <2>2. n \in -1..MsgLen /\ outputBuffer_ = <<>> /\ wire = StreamOf(accepted)
    <3>1. n \in -1..MsgLen
      BY DEF WriteResults
    <3>2. outputBuffer_ = <<>>
      BY <1>1, <1>5 DEF OutputWaits
    <3>3. Cat(wire, <<>>) = wire
      BY <1>1, CatFacts
    <3> QED
      BY <1>1, <3>1, <3>2, <3>3
  <2>3. wire' = Cat(wire, Cut(u, 1, n))
    BY <1>2, <2>1 DEF Cat, Cut
  <2>4. Len(u) \in 0..Len(u)
    BY <1>2
  <2>5. CASE n = -1
    <3>1. accepted' = accepted /\ outputBuffer_' = outputBuffer_ /\ wire' = wire
      BY <1>1, <2>1, <2>3, <2>4, <2>5, CutFacts, CatFacts
    <3> QED
      BY <3>1, OutputSame
  <2>6. CASE n = MsgLen
    <3>1. accepted' = Append(accepted, m) /\ outputBuffer_' = <<>> /\ n # -1
      BY <2>1, <2>2, <2>6
    <3>2. wire' = Cat(wire, u)
      BY <1>2, <2>3, <2>4, <2>6, CutFacts
    <3>3. Cat(wire', outputBuffer_') = StreamOf(accepted')
      BY <1>1, <1>3, <2>2, <3>1, <3>2, CatFacts
    <3> QED
      BY <3>3 DEF OutputIntact, Cat, Stream, StreamOf
  <2>7. CASE n # -1 /\ n # MsgLen
    <3>1. BufferRest(m, n) /\ accepted' = Append(accepted, m) /\ n \in 0..Len(u)
      BY <1>2, <2>1, <2>2, <2>7
    <3>2. outputBuffer_' = Cat(<<>>, Cut(u, n + 1, Len(u)))
      BY <1>2, <2>2, <3>1 DEF BufferRest, Cat, Cut
    <3>3. PICK p \in Seq(UnitSet) : p = Cut(u, 1, n)
      BY <3>1, CutFacts
    <3>4. PICK q \in Seq(UnitSet) : q = Cut(u, n + 1, Len(u))
      BY <3>1, CutFacts
    <3>5. Cat(p, q) = u
      BY <3>1, <3>3, <3>4, CutFacts
    <3>6. wire' = Cat(wire, p) /\ outputBuffer_' = q
      BY <2>3, <3>2, <3>3, <3>4, CatFacts
    <3>7. Cat(wire', outputBuffer_') = StreamOf(accepted')
      BY <1>1, <1>3, <2>2, <3>1, <3>5, <3>6, CatFacts
    <3> QED
      BY <3>7 DEF OutputIntact, Cat, Stream, StreamOf
  <2> QED
    BY <2>5, <2>6, <2>7
<1> QED
  BY <1>4, <1>5

LEMMA WriteKeepsOutput ==
  ASSUME Base, closes = 0, OutputIntact, handleWrite, accepted' = accepted PROVE OutputIntact'
<1>1. /\ outputBuffer_ \in Seq(UnitSet) /\ wire \in Seq(UnitSet) /\ accepted \in Seq(Msgs)
      /\ state_ # "kDisconnected" /\ Cat(wire, outputBuffer_) = StreamOf(accepted)
  BY IntactFacts DEF Base, ConnType, HistType, Open
<1>2. PICK n \in WriteResults(Len(outputBuffer_)) :
        /\ wire' = wire \o SubSeq(outputBuffer_, 1, n)
        /\ n < Len(outputBuffer_) => outputBuffer_' = IF n = -1 THEN outputBuffer_
                                       ELSE SubSeq(outputBuffer_, n + 1, Len(outputBuffer_))
        /\ ~(n < Len(outputBuffer_)) => outputBuffer_' = <<>>
  BY <1>1 DEF handleWrite
<1>3. PICK o \in Seq(UnitSet) : o = outputBuffer_
  BY <1>1, Zenon
<1>4. n \in -1..Len(o) /\ Len(o) \in 0..Len(o) /\ wire' = Cat(wire, Cut(o, 1, n))
  BY <1>1, <1>2, <1>3 DEF WriteResults, Cat, Cut
<1>5. CASE n = -1
  <2>1. outputBuffer_' = outputBuffer_
    BY <1>2, <1>3, <1>5
  <2>2. Cut(o, 1, n) = <<>>
    BY <1>4, <1>5, CutFacts
  <2>3. wire' = wire
    BY <1>1, <1>4, <2>2, CatFacts
  <2> QED
    BY <2>1, <2>3, OutputSame
<1>6. CASE n = Len(o)
  <2>1. outputBuffer_' = <<>>
    BY <1>2, <1>3, <1>6
  <2>2. wire' = Cat(wire, o)
    BY <1>4, <1>6, CutFacts
  <2>3. PICK w \in Seq(UnitSet) : w = Cat(wire, o)
    BY <1>1, CatFacts
  <2>4. Cat(wire', outputBuffer_') = StreamOf(accepted')
    BY <1>1, <1>3, <2>1, <2>2, <2>3, CatFacts
  <2> QED
    BY <2>4 DEF OutputIntact, Cat, Stream, StreamOf
<1>7. CASE n # -1 /\ n < Len(o)
  <2>1. n \in 0..Len(o)
    BY <1>4, <1>7
  <2>2. outputBuffer_' = Cut(o, n + 1, Len(o))
    BY <1>2, <1>3, <1>7 DEF Cut
  <2>3. PICK p \in Seq(UnitSet) : p = Cut(o, 1, n)
    BY <2>1, CutFacts
  <2>4. PICK q \in Seq(UnitSet) : q = Cut(o, n + 1, Len(o))
    BY <2>1, CutFacts
  <2>5. Cat(p, q) = o
    BY <2>1, <2>3, <2>4, CutFacts
  <2>6. Cat(wire', outputBuffer_') = StreamOf(accepted')
    <3>1. wire' = Cat(wire, p) /\ outputBuffer_' = q
      BY <1>4, <2>2, <2>3, <2>4, Zenon
    <3>2. Cat(Cat(wire, p), q) = Cat(wire, o)
      BY <1>1, <2>5, CatFacts
    <3> QED
      BY <1>1, <1>3, <3>1, <3>2
  <2> QED
    BY <2>6 DEF OutputIntact, Cat, Stream, StreamOf
<1> QED
  BY <1>4, <1>5, <1>6, <1>7

(* Only sendInLoop and handleWrite move output.                            *)
LEMMA OutputMoves ==
  ASSUME Base, [Next]_vars
  PROVE  \/ UNCHANGED <<wire, outputBuffer_, accepted>>
         \/ \E m \in Msgs : sendInLoop(m)
         \/ handleWrite /\ accepted' = accepted
<1>1. CASE handler
  <2>1. Head(todo) \in Callbacks /\ accepted' = accepted
    BY <1>1, TailFacts DEF handler, Base, TodoType
  <2> QED
    BY <1>1, <2>1 DEF handler, Callbacks
<1>2. CASE runTask
  <2>1. PICK x \in TaskSet : x = Head(tasks)
    <3>1. Head(tasks) \in TaskSet
      BY <1>2 DEF runTask, Base, QueueType
    <3> QED
      BY <3>1, Zenon
  <2>2. x.op \in TaskOps /\ x.msg \in Msgs
    BY DEF TaskSet
  <2>3. CASE x.op = "send"
    <3>1. sendInLoop(x.msg)
      BY <1>2, <2>1, <2>3 DEF runTask
    <3> QED
      BY <2>2, <3>1
  <2>4. CASE x.op # "send"
    BY <1>2, <2>1, <2>2, <2>4 DEF runTask, TaskOps, AllOps, connVars
  <2> QED
    BY <2>3, <2>4
<1>3. CASE LoopCalls
  <2>1. CASE loopSend /\ state_ = "kConnected"
    <3>1. PICK k \in Nat : k = sent[LoopThread] + 1
      BY DEF Base, HistType, Threads
    <3>2. sendInLoop(Msg(LoopThread, k)) /\ Msg(LoopThread, k) \in Msgs
      BY <2>1, <3>1 DEF loopSend, send, Msg, Msgs, Threads
    <3> QED
      BY <3>2
  <2>2. CASE ~(loopSend /\ state_ = "kConnected")
    BY <1>3, <2>2 DEF LoopCalls, loopSend, send, loopShutdown, loopForceClose, loopStopRead,
                      loopStartRead, connVars, histVars
  <2> QED
    BY <2>1, <2>2
<1>4. CASE newConnection \/ handleEvents \/ doPendingTasks \/ tasksDone \/ callbackReturns \/ Peer
           \/ UNCHANGED vars
  BY <1>4 DEF newConnection, handleEvents, doPendingTasks, tasksDone, callbackReturns, Peer, peerSends, peerSendsUrgent,
              peerCloses, peerResets, PeerActs, vars, connVars, histVars
<1>5. ASSUME NEW room \in BOOLEAN, poll(room) PROVE UNCHANGED <<wire, outputBuffer_, accepted>>
  BY <1>5 DEF poll, connVars, histVars
<1>6. ASSUME NEW th \in Users, UserStep(th) PROVE UNCHANGED <<wire, outputBuffer_, accepted>>
  BY <1>6 DEF UserStep, userSend, userShutdown, userForceClose, userExchange, userQueues,
              userReadControl, connVars, histVars
<1>7. ASSUME NEW th \in Threads, release(th) PROVE UNCHANGED <<wire, outputBuffer_, accepted>>
  BY <1>7 DEF release, connVars, histVars
<1> QED
  BY <1>1, <1>2, <1>3, <1>4, <1>5, <1>6, <1>7 DEF Next, LoopStep

LEMMA OutputKept ==
  ASSUME Base, [Next]_vars, closes = 0, OutputIntact PROVE OutputIntact'
BY OutputMoves, OutputSame, SendKeepsOutput, WriteKeepsOutput

LEMMA CloseSteps ==
  ASSUME [Next]_vars, ~runTask, ~handler PROVE closes' = closes
<1>1. CASE LoopCalls \/ newConnection \/ handleEvents \/ doPendingTasks \/ tasksDone \/ callbackReturns
           \/ Peer \/ UNCHANGED vars \/ (\E room \in BOOLEAN : poll(room))
  BY <1>1 DEF LoopCalls, loopSend, loopShutdown, loopForceClose, loopStopRead, loopStartRead,
              newConnection, handleEvents, doPendingTasks, tasksDone, callbackReturns, poll, Peer,
              peerSends, peerSendsUrgent, peerCloses, peerResets, PeerActs, vars, histVars
<1>2. ASSUME NEW th \in Users, UserStep(th) PROVE closes' = closes
  BY <1>2 DEF UserStep, userSend, userShutdown, userForceClose, userExchange, userQueues,
              userReadControl, histVars
<1>3. ASSUME NEW th \in Threads, release(th) PROVE closes' = closes
  BY <1>3 DEF release, histVars
<1> QED
  BY <1>1, <1>2, <1>3 DEF Next, LoopStep

LEMMA ClosesCounts ==
  ASSUME Base, [Next]_vars PROVE closes' = closes \/ closes' = closes + 1
<1>1. CASE handler
  <2>1. Head(todo) \in Callbacks
    BY <1>1, TailFacts DEF handler, Base, TodoType
  <2> QED
    BY <1>1, <2>1 DEF handler, Callbacks, handleRead, handleClose, closeConnection
<1>2. CASE runTask
  <2>1. PICK x \in TaskSet : x = Head(tasks)
    <3>1. Head(tasks) \in TaskSet
      BY <1>2 DEF runTask, Base, QueueType
    <3> QED
      BY <3>1, Zenon
  <2>2. x.op \in TaskOps
    BY DEF TaskSet
  <2> QED
    BY <1>2, <2>1, <2>2 DEF runTask, TaskOps, AllOps, forceCloseInLoop, handleClose, closeConnection
<1> QED
  BY <1>1, <1>2, CloseSteps

LEMMA OutputStart == Init => OutputIntact
<1> SUFFICES ASSUME Init PROVE OutputIntact
  OBVIOUS
<1>1. wire = <<>> /\ outputBuffer_ = <<>> /\ accepted = <<>>
  BY DEF Init
<1>2. Len(accepted) * MsgLen = 0
  BY <1>1, SizesAssumption
<1>3. Stream = <<>>
  BY <1>2 DEF Stream
<1>4. wire \o outputBuffer_ = <<>>
  BY <1>1
<1> QED
  BY <1>3, <1>4 DEF OutputIntact

(* Whatever threads call whatever: until the connection is closed, what    *)
(* sendInLoop and handleWrite gave the kernel followed by outputBuffer_ is *)
(* the accepted messages, one after the other.                             *)
THEOREM OpenOutputIntact == Spec => [](closes = 0 => OutputIntact)
<1>1. Init => (closes = 0 => OutputIntact)
  BY OutputStart
<1>2. Base /\ (closes = 0 => OutputIntact) /\ [Next]_vars => (closes = 0 => OutputIntact)'
  <2> SUFFICES ASSUME Base, closes = 0 => OutputIntact, [Next]_vars, closes' = 0 PROVE OutputIntact'
    OBVIOUS
  <2>1. closes = 0
    BY ClosesCounts DEF Base, ConnType
  <2> QED
    BY <2>1, OutputKept
<1> QED
  BY <1>1, <1>2, BaseHolds, PTL DEF Spec

(* When only the loop thread controls the connection, no queued send or    *)
(* late handleWrite disturbs that after the close either.                  *)
THEOREM ConnectionOutputIntact == ASSUME LoopControls PROVE Spec => []OutputIntact
<1>1. Init => OutputIntact
  BY OutputStart
<1>2. Base /\ CloseInv /\ OutputIntact /\ [Next]_vars => OutputIntact'
  <2> SUFFICES ASSUME Base, CloseInv, OutputIntact, [Next]_vars PROVE OutputIntact'
    OBVIOUS
  <2>1. CASE closes = 0
    BY <2>1, OutputKept
  <2>2. CASE closes # 0
    <3>1. state_ = "kDisconnected"
      BY <2>2, ClosedStays
    <3>2. UNCHANGED <<wire, outputBuffer_, accepted>>
      BY <3>1, OutputMoves DEF sendInLoop, handleWrite
    <3> QED
      BY <3>2, OutputSame
  <2> QED
    BY <2>1, <2>2
<1> QED
  BY <1>1, <1>2, BaseHolds, CloseHolds, PTL DEF Spec
-----------------------------------------------------------------------------
(* The half-close, when only the loop thread controls the connection.      *)
Taken == \A n \in 1..sent[LoopThread] :
           \E i \in 1..Len(accepted) : accepted[i] = Msg(LoopThread, n)

ShutInv ==
  /\ shutters \subseteq {LoopThread} /\ (shutters # {} => state_ # "kConnected" /\ lpc # "new")
  /\ sock.shutWr => outputBuffer_ = <<>> /\ state_ # "kConnected" /\ lpc # "new"
  /\ ~sock.rst => Taken

(* A step that neither moves output nor shuts anything.                    *)
Still == /\ UNCHANGED <<outputBuffer_, accepted, shutters>> /\ sent'[LoopThread] = sent[LoopThread]
         /\ sock'.shutWr = sock.shutWr /\ (sock.rst => sock'.rst)
         /\ state_' = "kConnected" => state_ = "kConnected" \/ lpc = "new"
         /\ lpc' = "new" => lpc = "new"

LEMMA StillKeeps == ASSUME ShutInv, Still PROVE ShutInv'
<1>1. Taken => Taken'
  BY DEF Still, Taken
<1> QED
  BY <1>1 DEF ShutInv, Still

LEMMA AcceptMore ==
  ASSUME Base, NEW m \in Msgs, Taken, sent'[LoopThread] = sent[LoopThread],
         accepted' = accepted \/ accepted' = Append(accepted, m)
  PROVE  Taken'
<1>1. accepted \in Seq(Msgs)
  BY DEF Base, HistType
<1>2. Len(accepted') >= Len(accepted) /\ \A i \in 1..Len(accepted) : accepted'[i] = accepted[i]
  BY <1>1
<1>3. \A i \in 1..Len(accepted) : i \in 1..Len(accepted') /\ accepted'[i] = accepted[i]
  <2>1. Len(accepted) \in Nat /\ Len(accepted') \in Nat
    BY <1>1
  <2> QED
    BY <1>2, <2>1
<1> QED
  BY <1>3 DEF Taken

LEMMA AcceptNew ==
  ASSUME Base, Taken, sent' = [sent EXCEPT ![LoopThread] = @ + 1],
         accepted' = Append(accepted, Msg(LoopThread, sent[LoopThread] + 1))
  PROVE  Taken'
<1>1. accepted \in Seq(Msgs) /\ sent \in [Threads -> Nat] /\ LoopThread \in Threads
  BY DEF Base, HistType, Threads
<1>2. PICK k \in Nat : k = sent[LoopThread]
  BY <1>1
<1>3. sent'[LoopThread] = k + 1
  BY <1>1, <1>2
<1>4. PICK m \in Msgs : m = Msg(LoopThread, k + 1)
  <2>1. Msg(LoopThread, k + 1) \in Msgs
    BY <1>1 DEF Msg, Msgs
  <2> QED
    BY <2>1, Zenon
<1>5. /\ accepted' = Append(accepted, m) /\ Len(accepted) \in Nat
  BY <1>1, <1>2, <1>4
<1>6. /\ Len(accepted') = Len(accepted) + 1 /\ accepted'[Len(accepted) + 1] = m
      /\ \A i \in 1..Len(accepted) : accepted'[i] = accepted[i]
  BY <1>1, <1>5
<1>7. ASSUME NEW n \in 1..(k + 1)
      PROVE  \E i \in 1..Len(accepted') : accepted'[i] = Msg(LoopThread, n)
  <2>1. CASE n = k + 1
    <3>1. Len(accepted) + 1 \in 1..Len(accepted')
      BY <1>5, <1>6
    <3> QED
      BY <1>4, <1>6, <2>1, <3>1
  <2>2. CASE n # k + 1
    <3>1. n \in 1..sent[LoopThread]
      BY <1>2, <2>2
    <3>2. PICK i \in 1..Len(accepted) : accepted[i] = Msg(LoopThread, n)
      BY <3>1 DEF Taken
    <3>3. i \in 1..Len(accepted') /\ accepted'[i] = accepted[i]
      BY <1>5, <1>6
    <3> QED
      BY <3>2, <3>3
  <2> QED
    BY <2>1, <2>2
<1> QED
  BY <1>3, <1>7 DEF Taken

(* sendInLoop: a socket that is shut takes nothing, and one that is        *)
(* neither shut nor reset takes the message.                               *)
LEMMA SendShut ==
  ASSUME Base, closes = 0, ShutInv, NEW m \in Msgs, sendInLoop(m)
  PROVE  /\ sock'.shutWr = sock.shutWr /\ sock'.rst = sock.rst /\ state_' = state_
         /\ sock.shutWr => outputBuffer_' = outputBuffer_
         /\ accepted' = accepted \/ accepted' = Append(accepted, m)
         /\ ~sock.shutWr /\ ~sock.rst => accepted' = Append(accepted, m)
<1>1. state_ # "kDisconnected" /\ state_' = state_ /\ (isWriting(channel) <=> outputBuffer_ # <<>>)
      /\ sock \in Socks
  BY DEF Base, Open, WritingIffOutput, sendInLoop, ConnType
<1>2. CASE OutputWaits
  <2>1. UNCHANGED sock /\ accepted' = Append(accepted, m)
    BY <1>1, <1>2 DEF sendInLoop
  <2>2. ~sock.shutWr
    BY <1>1, <1>2 DEF ShutInv, OutputWaits
  <2> QED
    BY <1>1, <2>1, <2>2
<1>3. CASE ~OutputWaits
  <2>1. PICK n \in WriteResults(MsgLen) :
          /\ sock' = AfterWrite(n)
          /\ accepted' = IF n = -1 THEN accepted ELSE Append(accepted, m)
          /\ n = -1 => UNCHANGED outputBuffer_
    BY <1>1, <1>3 DEF sendInLoop
  <2>2. sock'.shutWr = sock.shutWr /\ sock'.rst = sock.rst
    BY <1>1, <2>1 DEF AfterWrite, Socks
  <2>3. sock.shutWr => n = -1
    BY DEF WriteResults
  <2>4. ~sock.shutWr /\ ~sock.rst => n # -1
    BY SizesAssumption DEF WriteResults
  <2> QED
    BY <1>1, <2>1, <2>2, <2>3, <2>4
<1> QED
  BY <1>2, <1>3

LEMMA WriteShut ==
  ASSUME Base, closes = 0, ShutInv, handleWrite
  PROVE  /\ sock'.rst = sock.rst /\ state_' = state_
         /\ sock'.shutWr => outputBuffer_' = <<>> /\ state_ # "kConnected"
<1>1. state_ # "kDisconnected" /\ state_' = state_ /\ sock \in Socks /\ outputBuffer_ \in Seq(UnitSet)
  BY DEF Base, Open, handleWrite, ConnType
<1>2. PICK n \in WriteResults(Len(outputBuffer_)) :
        IF n < Len(outputBuffer_)
        THEN sock' = AfterWrite(n) /\ (n = -1 => outputBuffer_' = outputBuffer_)
        ELSE /\ outputBuffer_' = <<>>
             /\ sock' = IF state_ = "kDisconnecting"
                        THEN shutdownInLoop(disableWrite(channel), sock) ELSE sock
  BY <1>1 DEF handleWrite
<1>3. CASE n < Len(outputBuffer_)
  <2>1. sock'.rst = sock.rst /\ sock'.shutWr = sock.shutWr
    BY <1>1, <1>2, <1>3 DEF AfterWrite, Socks
  <2>2. sock.shutWr => n = -1 /\ outputBuffer_ = <<>> /\ state_ # "kConnected"
    BY DEF WriteResults, ShutInv
  <2> QED
    BY <1>1, <1>2, <1>3, <2>1, <2>2
<1>4. CASE ~(n < Len(outputBuffer_))
  <2>1. /\ outputBuffer_' = <<>>
        /\ sock' = IF state_ = "kDisconnecting"
                   THEN shutdownInLoop(disableWrite(channel), sock) ELSE sock
    BY <1>2, <1>4
  <2>2. sock'.rst = sock.rst /\ (state_ # "kDisconnecting" => sock' = sock)
    BY <1>1, <2>1 DEF shutdownInLoop, Socks
  <2> QED
    BY <1>1, <2>1, <2>2 DEF ShutInv
<1> QED
  BY <1>3, <1>4

(* A sendInLoop that is not a send of the loop thread, and a handleWrite.  *)
LEMMA SendKeepsShut ==
  ASSUME Base, CloseInv, ShutInv, NEW m \in Msgs, sendInLoop(m), UNCHANGED <<sent, shutters, lpc>>
  PROVE  ShutInv'
<1>1. CASE closes = 0
  <2>1. Taken => Taken'
    BY <1>1, SendShut, AcceptMore
  <2> QED
    BY <1>1, <2>1, SendShut DEF ShutInv
<1>2. CASE closes # 0
  <2>1. Still
    BY <1>2, ClosedStays DEF sendInLoop, Still
  <2> QED
    BY <2>1, StillKeeps
<1> QED
  BY <1>1, <1>2

LEMMA WriteKeepsShut ==
  ASSUME Base, CloseInv, ShutInv, handleWrite, UNCHANGED <<sent, accepted, shutters, lpc>>, lpc # "new"
  PROVE  ShutInv'
<1>1. CASE closes = 0
  <2>1. Taken => Taken'
    BY DEF Taken
  <2> QED
    BY <1>1, <2>1, WriteShut DEF ShutInv
<1>2. CASE closes # 0
  <2>1. Still
    BY <1>2, ClosedStays DEF handleWrite, Still
  <2> QED
    BY <2>1, StillKeeps
<1> QED
  BY <1>1, <1>2

LEMMA LoopCallKeepsShut == ASSUME Base, CloseInv, ShutInv, LoopCalls PROVE ShutInv'
<1>1. lpc' = lpc /\ lpc # "new"
  BY DEF LoopCalls, loopSend, loopShutdown, loopForceClose, loopStopRead, loopStartRead, loopVars,
         LoopCall, InCallback, OtherLoopCode, CloseInv, Fresh
<1>2. CASE loopSend
  <2>1. UNCHANGED shutters
    BY <1>2 DEF loopSend
  <2>2. CASE state_ # "kConnected"
    <3>1. Still
      BY <1>1, <1>2, <2>1, <2>2 DEF loopSend, send, connVars, Still
    <3> QED
      BY <3>1, StillKeeps
  <2>3. CASE state_ = "kConnected"
    <3>1. closes = 0 /\ ~sock.shutWr /\ shutters = {}
      BY <2>3, ClosedStays DEF ShutInv
    <3>2. PICK m \in Msgs : m = Msg(LoopThread, sent[LoopThread] + 1)
      <4>1. Msg(LoopThread, sent[LoopThread] + 1) \in Msgs
        BY DEF Base, HistType, Msg, Msgs, Threads
      <4> QED
        BY <4>1, Zenon
    <3>3. sendInLoop(m) /\ sent' = [sent EXCEPT ![LoopThread] = @ + 1]
      BY <1>2, <2>3, <3>2 DEF loopSend, send
    <3>4. /\ sock'.shutWr = sock.shutWr /\ sock'.rst = sock.rst /\ state_' = state_
          /\ ~sock.rst => accepted' = Append(accepted, m)
      BY <3>1, <3>3, SendShut
    <3>5. ~sock'.rst => Taken'
      BY <3>2, <3>3, <3>4, AcceptNew DEF ShutInv
    <3> QED
      BY <2>1, <3>1, <3>4, <3>5 DEF ShutInv
  <2> QED
    BY <2>2, <2>3
<1>3. CASE loopShutdown
  <2>1. /\ state_' = "kDisconnecting" /\ state_ # "kDisconnected"
        /\ sock' = IF state_ = "kConnected" THEN shutdownInLoop(channel, sock) ELSE sock
        /\ shutters' = IF state_ = "kConnected" THEN shutters \cup {LoopThread} ELSE shutters
        /\ UNCHANGED <<outputBuffer_, sent, accepted>>
    BY <1>3 DEF loopShutdown, shutdown
  <2>2. sock \in Socks /\ (isWriting(channel) <=> outputBuffer_ # <<>>)
    BY <2>1, ClosedStays DEF Base, Open, WritingIffOutput, ConnType
  <2>3. sock'.rst = sock.rst /\ (sock'.shutWr => sock.shutWr \/ ~isWriting(channel))
    BY <2>1, <2>2 DEF shutdownInLoop, Socks
  <2>4. Taken => Taken'
    BY <2>1 DEF Taken
  <2> QED
    BY <1>1, <2>1, <2>2, <2>3, <2>4 DEF ShutInv
<1>4. CASE loopForceClose \/ loopStopRead \/ loopStartRead
  <2>1. Still
    BY <1>1, <1>4 DEF loopForceClose, forceClose, loopStopRead, loopStartRead, histVars, Still
  <2> QED
    BY <2>1, StillKeeps
<1> QED
  BY <1>2, <1>3, <1>4 DEF LoopCalls

LEMMA ShutKept ==
  ASSUME LoopControls, Base, CloseInv, ShutInv, [Next]_vars PROVE ShutInv'
<1>1. CASE handler
  <2>1. /\ Head(todo) \in Callbacks /\ UNCHANGED <<lpc, sent, accepted, shutters>> /\ lpc # "new"
        /\ sock \in Socks
    BY <1>1, TailFacts DEF handler, Base, TodoType, CloseInv, Fresh, ConnType
  <2>2. CASE Head(todo) = "write"
    BY <1>1, <2>1, <2>2, WriteKeepsShut DEF handler
  <2>3. CASE Head(todo) # "write"
    <3>1. /\ UNCHANGED outputBuffer_ /\ state_' \in {state_, "kDisconnected"}
          /\ sock' \in {sock, [sock EXCEPT !.soError = FALSE], AfterRead, [AfterRead EXCEPT !.soError = FALSE]}
      BY <1>1, <2>1, <2>3 DEF handler, Callbacks, handleRead, handleClose, handleError
    <3>2. sock'.shutWr = sock.shutWr /\ sock'.rst = sock.rst
      BY <2>1, <3>1, AfterReadFacts DEF Socks
    <3> QED
      BY <2>1, <3>1, <3>2, StillKeeps DEF Still
  <2> QED
    BY <2>2, <2>3
<1>2. CASE runTask
  <2>1. UNCHANGED <<lpc, sent, shutters>>
    BY <1>2 DEF runTask
  <2>2. PICK x \in LoopTasks : x = Head(tasks)
    <3>1. Head(tasks) \in LoopTasks
      BY <1>2 DEF runTask, CloseInv, CallsOf
    <3> QED
      BY <3>1, Zenon
  <2>3. x.op \in LoopOps /\ x.msg \in Msgs
    BY DEF LoopTasks
  <2>4. CASE x.op = "send"
    <3>1. sendInLoop(x.msg)
      BY <1>2, <2>2, <2>4 DEF runTask
    <3> QED
      BY <2>1, <2>3, <3>1, SendKeepsShut
  <2>5. CASE x.op # "send"
    <3>1. UNCHANGED <<outputBuffer_, sock, accepted>> /\ state_' \in {state_, "kDisconnected"}
      BY <1>2, <2>2, <2>3, <2>5 DEF runTask, LoopOps, forceCloseInLoop, handleClose, connVars
    <3> QED
      BY <2>1, <3>1, StillKeeps DEF Still
  <2> QED
    BY <2>4, <2>5
<1>3. ASSUME NEW th \in Users, UserStep(th) PROVE ShutInv'
  <2>1. /\ Ops[th] \subseteq {"send", "stopRead"} /\ ucall[th] \in {"none", "send"}
        /\ th # LoopThread /\ sent \in [Threads -> Nat] /\ LoopThread \in Threads
    BY ThreadsAssumption DEF LoopControls, CloseInv, CallsOf, Base, HistType, Threads
  <2>2. userSend(th) \/ userQueues(th) \/ userReadControl(th)
    BY <1>3, <2>1 DEF UserStep, userShutdown, userForceClose, userExchange, UserCall
  <2>3. sent'[LoopThread] = sent[LoopThread]
    BY <2>1, <2>2 DEF userSend, userQueues, userReadControl, histVars
  <2>4. UNCHANGED <<connVars, lpc, accepted, shutters>>
    BY <2>2 DEF userSend, userQueues, userReadControl, histVars, loopVars
  <2> QED
    BY <2>3, <2>4, StillKeeps DEF Still, connVars
<1>4. CASE newConnection
  <2>1. lpc = "new" /\ lpc' # "new" /\ UNCHANGED <<outputBuffer_, sock, histVars>>
    BY <1>4 DEF newConnection
  <2> QED
    BY <2>1, StillKeeps DEF Still, histVars
<1>5. CASE handleEvents \/ doPendingTasks \/ tasksDone \/ callbackReturns \/ UNCHANGED vars
           \/ (\E room \in BOOLEAN : poll(room)) \/ (\E th \in Threads : release(th))
  <2>1. UNCHANGED <<connVars, sent, accepted, shutters>> /\ (lpc' = "new" => lpc = "new")
    BY <1>5 DEF handleEvents, doPendingTasks, tasksDone, callbackReturns, poll, release, vars, loopVars,
                histVars
  <2> QED
    BY <2>1, StillKeeps DEF Still, connVars
<1>6. CASE Peer
  <2>1. UNCHANGED <<state_, outputBuffer_, lpc, histVars>> /\ ~sock.rst
    BY <1>6 DEF Peer, peerSends, peerSendsUrgent, peerCloses, peerResets, PeerActs, loopVars
  <2>2. sock'.shutWr = sock.shutWr
    BY <1>6 DEF Peer, peerSends, peerSendsUrgent, peerCloses, peerResets, PeerActs, Base, ConnType, Socks
  <2> QED
    BY <2>1, <2>2, StillKeeps DEF Still, histVars
<1> QED
  BY <1>1, <1>2, <1>3, <1>4, <1>5, <1>6, LoopCallKeepsShut DEF Next, LoopStep

(* Each message of the stream ends in its last unit.                       *)
LEMMA StreamEnds ==
  ASSUME NEW acc \in Seq(Msgs), NEW i \in 1..Len(acc)
  PROVE  /\ i * MsgLen \in DOMAIN StreamOf(acc)
         /\ StreamOf(acc)[i * MsgLen] = [msg |-> acc[i], unit |-> MsgLen]
<1> USE SizesAssumption
<1>1. PICK k \in Nat : k = i - 1
  OBVIOUS
<1>2. PICK j \in 0..(MsgLen - 1) : j = MsgLen - 1
  OBVIOUS
<1>3. (k * MsgLen + j) \div MsgLen = k /\ (k * MsgLen + j) % MsgLen = j
  BY DivUnique
<1>4. k * MsgLen + j = i * MsgLen - 1
  BY <1>1, <1>2
<1>5. i * MsgLen \in 1..(Len(acc) * MsgLen)
  <2>1. i * MsgLen <= Len(acc) * MsgLen
    <3>1. CASE i = Len(acc)
      BY <3>1
    <3>2. CASE i < Len(acc)
      <4>1. i * MsgLen + MsgLen <= Len(acc) * MsgLen
        BY <3>2, TimesFacts
      <4> QED
        BY <4>1
    <3> QED
      BY <3>1, <3>2
  <2>2. i * MsgLen >= 1
    OBVIOUS
  <2> QED
    BY <2>1, <2>2
<1>6. PICK p \in 1..(Len(acc) * MsgLen) : p = i * MsgLen
  BY <1>5
<1>7. (p - 1) \div MsgLen = k /\ (p - 1) % MsgLen = j /\ k + 1 = i /\ j + 1 = MsgLen
  BY <1>1, <1>2, <1>3, <1>4, <1>6
<1>8. StreamOf(acc)[p] = Units(acc[i])[MsgLen] /\ p \in DOMAIN StreamOf(acc)
  BY <1>7 DEF StreamOf
<1>9. Units(acc[i])[MsgLen] = [msg |-> acc[i], unit |-> MsgLen]
  BY DEF Units
<1> QED
  BY <1>6, <1>8, <1>9

(* When only the loop thread controls the connection, shutdown() after     *)
(* send() lets everything sent reach the kernel before the write side is   *)
(* shut, whatever the writes return and whatever else the threads send.    *)
THEOREM ShutdownIsGraceful == ASSUME LoopControls PROVE Spec => []GracefulShutdown
<1>1. Init => ShutInv
  <2> SUFFICES ASSUME Init PROVE ShutInv
    OBVIOUS
  <2>1. sent[LoopThread] = 0 /\ ~sock.shutWr /\ shutters = {}
    BY DEF Init, Threads
  <2>2. Taken
    BY <2>1 DEF Taken
  <2> QED
    BY <2>1, <2>2 DEF ShutInv
<1>2. Base /\ CloseInv /\ ShutInv /\ [Next]_vars => ShutInv'
  BY ShutKept
<1>3. Base /\ OutputIntact /\ ShutInv => GracefulShutdown
  <2> SUFFICES ASSUME Base, OutputIntact, ShutInv, sock.shutWr, ~sock.rst,
                      NEW th \in shutters, NEW n \in 1..sent[th]
               PROVE  \E i \in DOMAIN wire : wire[i] = [msg |-> Msg(th, n), unit |-> MsgLen]
    BY DEF GracefulShutdown
  <2>1. th = LoopThread /\ outputBuffer_ = <<>> /\ Taken
    BY DEF ShutInv
  <2>2. wire \in Seq(UnitSet) /\ accepted \in Seq(Msgs)
    BY DEF Base, ConnType, HistType
  <2>3. wire = StreamOf(accepted)
    BY <2>1, <2>2, CatFacts, IntactFacts
  <2>4. PICK i \in 1..Len(accepted) : accepted[i] = Msg(th, n)
    BY <2>1 DEF Taken
  <2>5. i * MsgLen \in DOMAIN wire /\ wire[i * MsgLen] = [msg |-> accepted[i], unit |-> MsgLen]
    BY <2>2, <2>3, StreamEnds
  <2> QED
    BY <2>4, <2>5
<1> QED
  BY <1>1, <1>2, <1>3, BaseHolds, CloseHolds, ConnectionOutputIntact, PTL DEF Spec
-----------------------------------------------------------------------------
(* The order of the sends.  Queued is what the loop has yet to run, Given  *)
(* how many sends of each thread have been queued or run, and Lost means   *)
(* that sendInLoop drops what it gets: the direct write fails.             *)
Queued == tasks \o pendingTasks_
Given == [th \in Threads |-> IF th \in Users /\ ucall[th] = "send" THEN sent[th] - 1 ELSE sent[th]]
Lost == (sock.rst \/ sock.shutWr) /\ ~isWriting(channel)

OrderInv == /\ lpc # "tasks" => tasks = <<>>
            /\ Given \in [Threads -> Nat]
            /\ Ordered(Queued, accepted, Given)
            /\ ~Lost => Complete(Queued, accepted, Given)

(* What sendInLoop does to the queue and to accepted while the connection  *)
(* is open, and that a direct write that has failed fails again.           *)
Quiets(x) == x \in TaskSet /\ x.op # "send"
MayQueue == pendingTasks_' = pendingTasks_ \/ \E x \in TaskSet : Quiets(x) /\ pendingTasks_' = Append(pendingTasks_, x)

LEMMA QueueQuiet ==
  ASSUME NEW op \in TaskOps, op # "send", NEW m \in Msgs, Queue(Task(op, m)) PROVE MayQueue
<1>1. PICK x \in TaskSet : x = Task(op, m)
  BY TaskFacts, Zenon
<1>2. Quiets(x)
  BY <1>1 DEF Quiets, Task
<1> QED
  BY <1>1, <1>2 DEF MayQueue, Queue

LEMMA SendOutcome ==
  ASSUME Base, NEW m \in Msgs, sendInLoop(m), state_ # "kDisconnected"
  PROVE  /\ MayQueue
         /\ \/ accepted' = Append(accepted, m) /\ ~Lost
            \/ accepted' = accepted /\ Lost'
         /\ Lost => Lost'
<1>1. sock \in Socks /\ "writeComplete" \in TaskOps /\ "highWaterMark" \in TaskOps
  BY DEF Base, ConnType, TaskOps
<1>2. \A n : BufferRest(m, n) => MayQueue
  BY <1>1, QueueQuiet, NoMsgFacts DEF BufferRest, MayQueue
<1>3. CASE OutputWaits
  <2>1. BufferRest(m, 0) /\ accepted' = Append(accepted, m)
    BY <1>3 DEF sendInLoop
  <2> QED
    BY <1>2, <1>3, <2>1 DEF OutputWaits, Lost
<1>4. CASE ~OutputWaits
  <2>1. PICK n \in WriteResults(MsgLen) :
          /\ sock' = AfterWrite(n)
          /\ accepted' = IF n = -1 THEN accepted ELSE Append(accepted, m)
          /\ CASE n = -1     -> UNCHANGED <<outputBuffer_, channel, pendingTasks_>>
               [] n = MsgLen -> /\ Queue(Task("writeComplete", NoMsg))
                                /\ UNCHANGED <<outputBuffer_, channel>>
               [] OTHER      -> BufferRest(m, n)
    BY <1>4 DEF sendInLoop
  <2>2. sock'.rst = sock.rst /\ sock'.shutWr = sock.shutWr
    BY <1>1, <2>1 DEF AfterWrite, Socks
  <2>3. CASE n = -1
    <3>1. accepted' = accepted /\ UNCHANGED <<channel, pendingTasks_>>
      BY <2>1, <2>3, SizesAssumption
    <3>2. sock.shutWr \/ sock.rst
      BY <2>3, SizesAssumption DEF WriteResults
    <3> QED
      BY <1>4, <2>2, <3>1, <3>2 DEF Lost, OutputWaits, MayQueue
  <2>4. CASE n # -1
    <3>1. ~sock.shutWr /\ ~sock.rst
      BY <2>4 DEF WriteResults
    <3>2. MayQueue
      <4>1. CASE n = MsgLen
        BY <1>1, <2>1, <2>4, <4>1, QueueQuiet, NoMsgFacts
      <4>2. CASE n # MsgLen
        BY <1>2, <2>1, <2>4, <4>2
      <4> QED
        BY <4>1, <4>2
    <3> QED
      BY <2>1, <2>4, <3>1, <3>2 DEF Lost
  <2> QED
    BY <2>3, <2>4
<1> QED
  BY <1>3, <1>4

LEMMA WriteOutcome ==
  ASSUME Base, handleWrite PROVE MayQueue /\ (Lost => Lost')
<1>1. sock \in Socks /\ "writeComplete" \in TaskOps /\ outputBuffer_ \in Seq(UnitSet)
  BY DEF Base, ConnType, TaskOps
<1>2. CASE state_ = "kDisconnected"
  BY <1>2 DEF handleWrite, MayQueue, Lost
<1>3. CASE state_ # "kDisconnected"
  <2>1. PICK n \in WriteResults(Len(outputBuffer_)) :
          IF n < Len(outputBuffer_) THEN
            /\ sock' = AfterWrite(n)
            /\ UNCHANGED <<channel, pendingTasks_>>
          ELSE Queue(Task("writeComplete", NoMsg))
    BY <1>3 DEF handleWrite
  <2>2. CASE n < Len(outputBuffer_)
    <3>1. sock'.rst = sock.rst /\ sock'.shutWr = sock.shutWr /\ UNCHANGED <<channel, pendingTasks_>>
      BY <1>1, <2>1, <2>2 DEF AfterWrite, Socks
    <3> QED
      BY <3>1 DEF Lost, MayQueue
  <2>3. CASE ~(n < Len(outputBuffer_))
    <3>1. ~sock.rst /\ ~sock.shutWr
      BY <1>1, <2>1, <2>3 DEF WriteResults
    <3>2. MayQueue
      BY <1>1, <2>1, <2>3, QueueQuiet, NoMsgFacts
    <3> QED
      BY <3>1, <3>2 DEF Lost
  <2> QED
    BY <2>2, <2>3
<1> QED
  BY <1>2, <1>3

(* The queue as the steps see it.                                          *)
LEMMA QueuedFacts ==
  ASSUME QueueType
  PROVE  /\ Queued \in Seq(TaskSet)
         /\ tasks = <<>> => Queued = pendingTasks_
         /\ \A x \in TaskSet : tasks \o Append(pendingTasks_, x) = Append(Queued, x)
         /\ tasks # <<>> => /\ Queued # <<>> /\ Head(Queued) = Head(tasks)
                            /\ Tail(Queued) = Tail(tasks) \o pendingTasks_
                            /\ Tail(tasks) \in Seq(TaskSet)
<1> USE DEF QueueType, Queued
<1>1. Queued \in Seq(TaskSet) /\ (tasks = <<>> => Queued = pendingTasks_)
  OBVIOUS
<1>2. ASSUME NEW x \in TaskSet PROVE tasks \o Append(pendingTasks_, x) = Append(Queued, x)
  OBVIOUS
<1>3. ASSUME tasks # <<>> PROVE Queued # <<>> /\ Head(Queued) = Head(tasks) /\ Tail(tasks) \in Seq(TaskSet)
  BY <1>3
<1>4. ASSUME tasks # <<>> PROVE Tail(Queued) = Tail(tasks) \o pendingTasks_
  BY <1>4
<1> QED
  BY <1>1, <1>2, <1>3, <1>4

LEMMA OrderFacts == ASSUME Base PROVE SendOrder <=> InOrder(accepted)
<1>1. DOMAIN accepted = 1..Len(accepted)
  BY DEF Base, HistType
<1> QED
  BY <1>1, Zenon DEF SendOrder, InOrder

(* A step that leaves the sends alone, but may queue another task.         *)
LEMMA OrderSame ==
  ASSUME Base, OrderInv, MayQueue, UNCHANGED <<tasks, accepted, sent, ucall>>,
         lpc' # "tasks" => lpc # "tasks", Lost => Lost'
  PROVE  OrderInv'
<1>1. Given' = Given
  BY DEF Given
<1>2. Queued \in Seq(TaskSet) /\ accepted \in Seq(Msgs)
  BY QueuedFacts DEF Base, HistType
<1>3. Ordered(Queued', accepted, Given) /\ (~Lost => Complete(Queued', accepted, Given))
  <2>1. CASE pendingTasks_' = pendingTasks_
    <3>1. Queued' = Queued
      BY <2>1 DEF Queued
    <3> QED
      BY <3>1 DEF OrderInv
  <2>2. ASSUME NEW x \in TaskSet, Quiets(x), pendingTasks_' = Append(pendingTasks_, x)
        PROVE  Ordered(Queued', accepted, Given) /\ (~Lost => Complete(Queued', accepted, Given))
    <3>1. Queued' = Append(Queued, x)
      BY <2>2, QueuedFacts DEF Queued, Base
    <3> QED
      BY <1>2, <2>2, <3>1, PushOther DEF OrderInv, Quiets
  <2> QED
    BY <2>1, <2>2 DEF MayQueue
<1> QED
  BY <1>1, <1>3 DEF OrderInv

(* A queued task.                                                          *)
LEMMA TaskKeepsOrder ==
  ASSUME Base, OrderInv, runTask, closes = 0, closes' = 0 PROVE OrderInv'
<1>1. /\ tasks # <<>> /\ tasks' = Tail(tasks) /\ lpc = "tasks" /\ lpc' = lpc
      /\ UNCHANGED <<sent, ucall>> /\ state_ # "kDisconnected"
  BY DEF runTask, userVars, Base, Open
<1>2. /\ Queued \in Seq(TaskSet) /\ Queued # <<>> /\ accepted \in Seq(Msgs)
      /\ Head(Queued) = Head(tasks) /\ Tail(Queued) = Tail(tasks) \o pendingTasks_
      /\ Tail(tasks) \in Seq(TaskSet) /\ pendingTasks_ \in Seq(TaskSet)
  BY <1>1, QueuedFacts DEF Base, HistType, QueueType
<1>3. PICK x \in TaskSet : x = Head(tasks)
  <2>1. Head(tasks) \in TaskSet
    BY <1>1 DEF Base, QueueType
  <2> QED
    BY <2>1, Zenon
<1>4. x.msg \in Msgs /\ x.op \in TaskOps
  BY DEF TaskSet
<1>5. Given' = Given /\ Given \in [Threads -> Int]
  <2>1. Given' = Given
    BY <1>1, Zenon DEF Given
  <2>2. Given \in [Threads -> Nat]
    BY Zenon DEF OrderInv
  <2> QED
    BY <2>1, <2>2
<1>6. CASE x.op # "send"
  <2>1. UNCHANGED <<pendingTasks_, accepted>> /\ (Lost => Lost')
    <3>1. CASE x.op = "shutdown"
      <4>1. UNCHANGED <<pendingTasks_, accepted, channel>> /\ sock' = shutdownInLoop(channel, sock)
        BY <1>1, <1>3, <3>1 DEF runTask
      <4>2. sock'.rst = sock.rst /\ (sock.shutWr => sock'.shutWr)
        BY <4>1 DEF shutdownInLoop, Base, ConnType, Socks
      <4> QED
        BY <4>1, <4>2 DEF Lost
    <3>2. CASE x.op = "forceClose"
      <4>1. forceCloseInLoop /\ UNCHANGED <<sock, pendingTasks_, accepted>>
        BY <1>1, <1>3, <3>2 DEF runTask
      <4> QED
        BY <4>1 DEF forceCloseInLoop, handleClose, closeConnection, Lost
    <3>3. CASE x.op \in {"stopRead", "startRead"}
      <4>1. /\ channel' \in {channel, disableRead(channel), enableRead(channel)}
            /\ UNCHANGED <<sock, pendingTasks_, accepted>>
        BY <1>1, <1>3, <3>3 DEF runTask
      <4>2. isWriting(channel') = isWriting(channel)
        BY <4>1, ChannelFacts DEF Base, ConnType
      <4> QED
        BY <4>1, <4>2 DEF Lost
    <3>4. CASE x.op \in {"writeComplete", "highWaterMark"}
      BY <1>1, <1>3, <3>4 DEF runTask, connVars, Lost
    <3> QED
      BY <1>4, <1>6, <3>1, <3>2, <3>3, <3>4 DEF TaskOps, AllOps
  <2>2. Queued' = Tail(Queued)
    BY <1>1, <1>2, <2>1 DEF Queued
  <2>3. /\ Ordered(Queued', accepted, Given)
        /\ Complete(Queued, accepted, Given) => Complete(Queued', accepted, Given)
    BY <1>2, <1>3, <1>6, <2>2, PopTask DEF OrderInv
  <2> QED
    BY <1>1, <1>5, <2>1, <2>3 DEF OrderInv
<1>7. CASE x.op = "send"
  <2>1. sendInLoop(x.msg)
    BY <1>1, <1>3, <1>7 DEF runTask
  <2>2. /\ MayQueue
        /\ \/ accepted' = Append(accepted, x.msg) /\ ~Lost
           \/ accepted' = accepted /\ Lost'
    BY <1>1, <1>4, <2>1, SendOutcome
  <2>3. PICK r \in Seq(TaskSet) : r = Tail(Queued)
    <3>1. Tail(Queued) \in Seq(TaskSet)
      BY <1>2, ShrinkFacts
    <3> QED
      BY <3>1, Zenon
  <2>4. accepted' \in Seq(Msgs)
    <3>1. PICK m \in Msgs : m = x.msg
      BY <1>4
    <3>2. accepted \in Seq(Msgs)
      BY <1>2
    <3>3. Append(accepted, m) \in Seq(Msgs)
      BY <3>2
    <3> QED
      BY <2>2, <3>1, <3>2, <3>3, Zenon
  <2>5. Ordered(r, accepted', Given) /\ (~Lost' => Complete(r, accepted', Given))
    <3>1. CASE accepted' = Append(accepted, x.msg) /\ ~Lost
      BY <1>2, <1>3, <1>4, <1>5, <1>7, <2>3, <3>1, AcceptQueued DEF OrderInv
    <3>2. CASE accepted' = accepted /\ Lost'
      BY <1>2, <2>3, <3>2, PopTask DEF OrderInv
    <3> QED
      BY <2>2, <3>1, <3>2
  <2>6. Ordered(Queued', accepted', Given) /\ (~Lost' => Complete(Queued', accepted', Given))
    <3>1. CASE pendingTasks_' = pendingTasks_
      <4>1. Queued' = r
        BY <1>1, <1>2, <2>3, <3>1 DEF Queued
      <4> QED
        BY <2>5, <4>1
    <3>2. ASSUME NEW y \in TaskSet, Quiets(y), pendingTasks_' = Append(pendingTasks_, y)
          PROVE  Ordered(Queued', accepted', Given) /\ (~Lost' => Complete(Queued', accepted', Given))
      <4>1. Queued' = Tail(tasks) \o Append(pendingTasks_, y)
        BY <1>1, <3>2 DEF Queued
      <4>2. Tail(tasks) \o Append(pendingTasks_, y) = Append(Tail(tasks) \o pendingTasks_, y)
        <5>1. PICK t \in Seq(TaskSet) : t = Tail(tasks)
          BY <1>2, Zenon
        <5>2. pendingTasks_ \in Seq(TaskSet)
          BY <1>2
        <5>3. t \o Append(pendingTasks_, y) = Append(t \o pendingTasks_, y)
          BY <5>2
        <5> QED
          BY <5>1, <5>3, Zenon
      <4>3. Queued' = Append(r, y)
        BY <1>2, <2>3, <4>1, <4>2
      <4> QED
        BY <2>4, <2>5, <3>2, <4>3, PushOther DEF Quiets
    <3> QED
      BY <2>2, <3>1, <3>2 DEF MayQueue
  <2> QED
    BY <1>1, <1>5, <2>6 DEF OrderInv
<1> QED
  BY <1>6, <1>7

(* The loop thread's calls.                                                *)
LEMMA SendCallKeepsOrder ==
  ASSUME Base, OrderInv, send, state_ = "kConnected", UNCHANGED <<tasks, lpc, ucall>> PROVE OrderInv'
<1>1. PICK k \in Nat : k = sent[LoopThread]
  BY DEF Base, HistType, Threads
<1>2. /\ Given \in [Threads -> Int] /\ Given[LoopThread] = k /\ Given[LoopThread] >= 0
      /\ LoopThread \in Threads
  <2>1. LoopThread \in Threads /\ LoopThread \notin Users
    BY ThreadsAssumption, Zenon DEF Threads
  <2>2. Given \in [Threads -> Nat]
    BY Zenon DEF OrderInv
  <2>3. Given[LoopThread] = k
    BY <1>1, <2>1, Zenon DEF Given
  <2> QED
    BY <2>1, <2>2, <2>3
<1>3. PICK m \in Msgs : m = Msg(LoopThread, k + 1)
  <2>1. Msg(LoopThread, k + 1) \in Msgs
    BY <1>2 DEF Msg, Msgs
  <2> QED
    BY <2>1, Zenon
<1>4. sendInLoop(m) /\ sent' = [sent EXCEPT ![LoopThread] = @ + 1]
  BY <1>1, <1>3 DEF send
<1>5. Given' = [Given EXCEPT ![LoopThread] = @ + 1] /\ Given' \in [Threads -> Nat]
  <2>1. sent \in [Threads -> Nat]
    BY DEF Base, HistType
  <2>2. \A th \in Threads : Given'[th] = IF th = LoopThread THEN Given[th] + 1 ELSE Given[th]
    BY <1>2, <1>4, <2>1, ThreadsAssumption DEF Given
  <2>3. Given' = [th \in Threads |-> Given'[th]]
    BY DEF Given
  <2>4. Given' \in [Threads -> Nat]
    BY <2>2, <2>3 DEF OrderInv
  <2> QED
    BY <1>2, <2>2, <2>4
<1>6. /\ MayQueue
      /\ \/ accepted' = Append(accepted, m) /\ ~Lost
         \/ accepted' = accepted /\ Lost'
  BY <1>4, SendOutcome
<1>7. Queued \in Seq(TaskSet) /\ accepted \in Seq(Msgs)
  BY QueuedFacts DEF Base, HistType
<1>8. Ordered(Queued, accepted', Given') /\ (~Lost' => Complete(Queued, accepted', Given'))
  <2>1. CASE accepted' = Append(accepted, m) /\ ~Lost
    BY <1>2, <1>3, <1>5, <1>7, <2>1, AcceptOwn DEF OrderInv
  <2>2. CASE accepted' = accepted /\ Lost'
    BY <1>2, <1>5, <1>7, <2>2, SentMore DEF OrderInv
  <2> QED
    BY <1>6, <2>1, <2>2
<1>9. Ordered(Queued', accepted', Given') /\ (~Lost' => Complete(Queued', accepted', Given'))
  <2>1. CASE pendingTasks_' = pendingTasks_
    BY <1>8, <2>1 DEF Queued
  <2>2. ASSUME NEW y \in TaskSet, Quiets(y), pendingTasks_' = Append(pendingTasks_, y)
        PROVE  Ordered(Queued', accepted', Given') /\ (~Lost' => Complete(Queued', accepted', Given'))
    <3>1. Queued' = Append(Queued, y)
      BY <2>2, QueuedFacts DEF Queued, Base
    <3>2. accepted' \in Seq(Msgs)
      BY <1>6, <1>7
    <3> QED
      BY <1>7, <1>8, <2>2, <3>1, <3>2, PushOther DEF Quiets
  <2> QED
    BY <1>6, <2>1, <2>2 DEF MayQueue
<1> QED
  BY <1>5, <1>9 DEF OrderInv

LEMMA LoopCallKeepsOrder ==
  ASSUME Base, OrderInv, LoopCalls, closes = 0 PROVE OrderInv'
<1>1. UNCHANGED <<tasks, lpc, ucall>> /\ sock \in Socks /\ Good(channel) /\ state_ # "kDisconnected"
  BY DEF LoopCalls, loopSend, loopShutdown, loopForceClose, loopStopRead, loopStartRead, loopVars,
         Base, ConnType, Open
<1>2. CASE loopSend /\ state_ = "kConnected"
  BY <1>1, <1>2, SendCallKeepsOrder DEF loopSend
<1>3. CASE loopSend /\ state_ # "kConnected"
  BY <1>1, <1>3, OrderSame DEF loopSend, send, MayQueue, Lost, connVars
<1>4. CASE loopShutdown
  <2>1. /\ UNCHANGED <<channel, pendingTasks_, accepted, sent>>
        /\ sock' \in {sock, shutdownInLoop(channel, sock)}
    BY <1>4 DEF loopShutdown, shutdown
  <2>2. sock'.rst = sock.rst /\ (sock.shutWr => sock'.shutWr)
    BY <1>1, <2>1 DEF shutdownInLoop, Socks
  <2> QED
    BY <1>1, <2>1, <2>2, OrderSame DEF MayQueue, Lost
<1>5. CASE loopForceClose
  <2>1. MayQueue /\ UNCHANGED <<channel, sock, accepted, sent>>
    <3>1. "forceClose" \in TaskOps
      BY DEF TaskOps, AllOps
    <3> QED
      BY <1>5, <3>1, QueueQuiet, NoMsgFacts DEF loopForceClose, forceClose, MayQueue, histVars
  <2> QED
    BY <1>1, <2>1, OrderSame DEF Lost
<1>6. CASE loopStopRead \/ loopStartRead
  <2>1. /\ channel' \in {channel, disableRead(channel), enableRead(channel)}
        /\ UNCHANGED <<sock, pendingTasks_, sent, accepted>>
    BY <1>6 DEF loopStopRead, loopStartRead, stopRead, startRead, histVars
  <2>2. isWriting(channel') = isWriting(channel)
    BY <1>1, <2>1, ChannelFacts
  <2> QED
    BY <1>1, <2>1, <2>2, OrderSame DEF MayQueue, Lost
<1> QED
  BY <1>2, <1>3, <1>4, <1>5, <1>6 DEF LoopCalls

(* The other threads' calls: a send is queued with the number it got.      *)
LEMMA UserKeepsOrder ==
  ASSUME Base, OrderInv, NEW th \in Users, UserStep(th) PROVE OrderInv'
<1>1. /\ UNCHANGED <<tasks, lpc, accepted, channel, sock>> /\ th \in Threads
      /\ sent \in [Threads -> Nat] /\ ucall \in [Users -> {"none", "exchange", "send", "shutdown", "forceClose"}]
  BY DEF UserStep, userSend, userShutdown, userForceClose, userExchange, userQueues,
         userReadControl, connVars, loopVars, histVars, Threads, Base, HistType, CallType
<1>2. Queued \in Seq(TaskSet) /\ accepted \in Seq(Msgs) /\ Lost' = Lost
  BY <1>1, QueuedFacts DEF Base, HistType, Lost
<1>3. ASSUME Given' = Given, MayQueue PROVE OrderInv'
  <2>1. CASE pendingTasks_' = pendingTasks_
    <3>1. Queued' = Queued
      BY <1>1, <2>1 DEF Queued
    <3> QED
      BY <1>1, <1>2, <1>3, <3>1 DEF OrderInv
  <2>2. ASSUME NEW x \in TaskSet, Quiets(x), pendingTasks_' = Append(pendingTasks_, x) PROVE OrderInv'
    <3>1. Queued' = Append(Queued, x)
      BY <1>1, <2>2, QueuedFacts DEF Queued, Base
    <3>2. Ordered(Queued', accepted, Given) /\ (~Lost => Complete(Queued', accepted, Given))
      BY <1>2, <2>2, <3>1, PushOther DEF OrderInv, Quiets
    <3> QED
      BY <1>1, <1>2, <1>3, <3>2 DEF OrderInv
  <2> QED
    BY <1>3, <2>1, <2>2 DEF MayQueue
<1>4. CASE userQueues(th) /\ ucall[th] = "send"
  <2>1. Queue(Task("send", Msg(th, sent[th]))) /\ ucall' = [ucall EXCEPT ![th] = "none"] /\ sent' = sent
    BY <1>4 DEF userQueues, histVars
  <2>2. Given \in [Threads -> Int] /\ Given[th] = sent[th] - 1 /\ Given[th] >= 0
    <3>1. Given \in [Threads -> Nat]
      BY DEF OrderInv
    <3>2. Given[th] = sent[th] - 1
      BY <1>1, <1>4 DEF Given
    <3> QED
      BY <1>1, <3>1, <3>2
  <2>3. Given' = [Given EXCEPT ![th] = @ + 1] /\ Given' \in [Threads -> Nat]
    <3>1. \A v \in Threads : Given'[v] = IF v = th THEN Given[v] + 1 ELSE Given[v]
      <4>1. ucall'[th] = "none" /\ \A v \in Users \ {th} : ucall'[v] = ucall[v]
        BY <1>1, <2>1
      <4>2. Given'[th] = sent[th]
        BY <1>1, <2>1, <4>1, Zenon DEF Given
      <4>3. Given'[th] = Given[th] + 1
        BY <1>1, <2>2, <4>2
      <4>4. \A v \in Threads \ {th} : Given'[v] = Given[v]
        BY <2>1, <4>1, Zenon DEF Given
      <4> QED
        BY <4>3, <4>4, Zenon
    <3>2. Given' = [v \in Threads |-> Given'[v]]
      BY DEF Given
    <3>3. Given' \in [Threads -> Nat]
      BY <3>1, <3>2 DEF OrderInv
    <3> QED
      BY <2>2, <3>1, <3>3
  <2>4. PICK x \in TaskSet : x = Task("send", Msg(th, sent[th]))
    <3>1. "send" \in TaskOps /\ Msg(th, sent[th]) \in Msgs
      BY <1>1 DEF TaskOps, AllOps, Msg, Msgs
    <3> QED
      BY <3>1, TaskFacts, Zenon
  <2>5. x.op = "send" /\ x.msg = Msg(th, Given[th] + 1)
    <3>1. Given[th] + 1 = sent[th]
      BY <1>1, <2>2
    <3> QED
      BY <2>4, <3>1 DEF Task
  <2>6. Queued' = Append(Queued, x)
    BY <1>1, <2>1, <2>4, QueuedFacts DEF Queue, Queued, Base
  <2>7. /\ Ordered(Queued', accepted, Given')
        /\ Complete(Queued, accepted, Given) => Complete(Queued', accepted, Given')
    <3>1. NextSend(x, th, Given, Given')
      BY <2>2, <2>3, <2>5 DEF NextSend
    <3> QED
      BY <1>2, <2>2, <2>6, <3>1, PushSend DEF OrderInv
  <2> QED
    BY <1>1, <1>2, <2>3, <2>7 DEF OrderInv
<1>5. CASE userQueues(th) /\ ucall[th] # "send"
  <2>1. /\ Queue(Task(ucall[th], Msg(th, sent[th]))) /\ ucall' = [ucall EXCEPT ![th] = "none"] /\ sent' = sent
        /\ ucall[th] \in TaskOps
    BY <1>5 DEF userQueues, histVars, TaskOps, AllOps
  <2>2. Msg(th, sent[th]) \in Msgs
    BY <1>1 DEF Msg, Msgs
  <2>3. MayQueue
    BY <1>5, <2>1, <2>2, QueueQuiet
  <2>4. Given' = Given
    BY <1>1, <1>5, <2>1 DEF Given
  <2> QED
    BY <1>3, <2>3, <2>4
<1>6. CASE userReadControl(th)
  <2>1. PICK op \in {"stopRead", "startRead"} : Queue(Task(op, NoMsg))
    BY <1>6 DEF userReadControl
  <2>2. MayQueue
    BY <2>1, QueueQuiet, NoMsgFacts DEF TaskOps, AllOps
  <2>3. Given' = Given
    BY <1>6 DEF userReadControl, histVars, Given
  <2> QED
    BY <1>3, <2>2, <2>3
<1>7. CASE userSend(th)
  <2>1. /\ pendingTasks_' = pendingTasks_ /\ ucall[th] = "none"
        /\ \/ ucall' = [ucall EXCEPT ![th] = "send"] /\ sent' = [sent EXCEPT ![th] = @ + 1]
           \/ UNCHANGED <<ucall, sent>>
    BY <1>7 DEF userSend, UserCall
  <2>2. Given' = Given
    <3>1. \A v \in Threads : Given'[v] = Given[v]
      BY <1>1, <2>1 DEF Given
    <3> QED
      BY <3>1 DEF Given
  <2> QED
    BY <1>3, <2>1, <2>2 DEF MayQueue
<1>8. CASE userShutdown(th) \/ userForceClose(th) \/ userExchange(th)
  <2>1. /\ pendingTasks_' = pendingTasks_ /\ sent' = sent /\ ucall[th] # "send"
        /\ \E c \in {"none", "exchange", "shutdown", "forceClose"} : ucall' = [ucall EXCEPT ![th] = c]
    BY <1>1, <1>8 DEF userShutdown, userForceClose, userExchange, UserCall, histVars
  <2>2. Given' = Given
    BY <1>1, <2>1 DEF Given
  <2> QED
    BY <1>3, <2>1, <2>2 DEF MayQueue
<1> QED
  BY <1>4, <1>5, <1>6, <1>7, <1>8 DEF UserStep

LEMMA OrderStart == Init => OrderInv
<1> SUFFICES ASSUME Init PROVE OrderInv
  OBVIOUS
<1>1. /\ tasks = <<>> /\ pendingTasks_ = <<>> /\ accepted = <<>> /\ sent = [th \in Threads |-> 0]
      /\ ucall = [th \in Users |-> "none"]
  BY DEF Init
<1>2. Queued = <<>> /\ Given = [th \in Threads |-> 0]
  BY <1>1 DEF Queued, Given
<1>3. Given \in [Threads -> Nat]
  BY <1>2
<1>4. Ordered(Queued, accepted, Given)
  <2>1. 1..Len(Queued) = {} /\ 1..Len(accepted) = {}
    BY <1>1, <1>2
  <2> QED
    BY <2>1, Zenon DEF Ordered, InQueue, Before, TakenOf, InOrder
<1>5. Complete(Queued, accepted, Given)
  <2>1. \A th \in Threads, n \in Nat : ~(1 <= n /\ n <= Given[th])
    BY <1>2
  <2> QED
    BY <2>1, Zenon DEF Complete
<1> QED
  BY <1>1, <1>3, <1>4, <1>5, Zenon DEF OrderInv

LEMMA OrderKept ==
  ASSUME Base, OrderInv, [Next]_vars, closes = 0, closes' = 0 PROVE OrderInv'
<1>1. sock \in Socks /\ Good(channel)
  BY DEF Base, ConnType
<1>2. CASE handler
  <2>1. Head(todo) \in Callbacks /\ UNCHANGED <<tasks, accepted, sent, ucall, lpc>>
    BY <1>2, TailFacts DEF handler, Base, TodoType, userVars
  <2>2. CASE Head(todo) = "write"
    BY <1>2, <2>1, <2>2, WriteOutcome, OrderSame DEF handler
  <2>3. CASE Head(todo) # "write"
    <3>1. UNCHANGED <<channel, pendingTasks_>> /\ sock'.rst = sock.rst /\ sock'.shutWr = sock.shutWr
      <4>1. CASE Head(todo) = "close"
        <5>1. handleClose
          BY <1>2, <4>1 DEF handler
        <5> QED
          BY <5>1 DEF handleClose, closeConnection
      <4>2. CASE Head(todo) = "error"
        <5>1. handleError /\ UNCHANGED <<channel, pendingTasks_>>
          BY <1>2, <4>2 DEF handler
        <5> QED
          BY <1>1, <5>1 DEF handleError, Socks
      <4>3. CASE Head(todo) = "read"
        <5>1. handleRead /\ pendingTasks_' = pendingTasks_
          BY <1>2, <4>3 DEF handler
        <5>2. ~handleClose
          BY DEF handleClose, closeConnection
        <5>3. channel' = channel /\ sock' \in {AfterRead, [AfterRead EXCEPT !.soError = FALSE]}
          BY <5>1, <5>2 DEF handleRead
        <5> QED
          BY <1>1, <5>1, <5>3, AfterReadFacts
      <4> QED
        BY <2>1, <2>3, <4>1, <4>2, <4>3 DEF Callbacks
    <3> QED
      BY <2>1, <3>1, OrderSame DEF MayQueue, Lost
  <2> QED
    BY <2>2, <2>3
<1>3. CASE newConnection
  <2>1. /\ channel' = enableRead(channel) /\ lpc = "new"
        /\ UNCHANGED <<sock, tasks, pendingTasks_, ucall, sent, accepted>>
    BY <1>3 DEF newConnection, connectEstablished, histVars
  <2>2. isWriting(channel') = isWriting(channel)
    BY <1>1, <2>1, ChannelFacts
  <2> QED
    BY <2>1, <2>2, OrderSame DEF MayQueue, Lost
<1>4. CASE doPendingTasks
  <2>1. /\ lpc = "dispatch" /\ lpc' = "tasks" /\ tasks' = pendingTasks_ /\ pendingTasks_' = <<>>
        /\ UNCHANGED <<sock, channel, ucall, sent, accepted>>
    BY <1>4 DEF doPendingTasks, AllHandled, connVars, userVars, histVars
  <2>2. Queued' = Queued
    <3>1. tasks = <<>> /\ pendingTasks_ \in Seq(TaskSet)
      BY <2>1 DEF OrderInv, Base, QueueType
    <3> QED
      BY <2>1, <3>1 DEF Queued
  <2>3. Given' = Given /\ Lost' = Lost
    BY <2>1 DEF Given, Lost
  <2> QED
    BY <2>1, <2>2, <2>3 DEF OrderInv
<1>5. CASE tasksDone
  <2>1. /\ tasks = <<>> /\ UNCHANGED <<sock, channel, ucall, sent, accepted, tasks, pendingTasks_>>
    BY <1>5 DEF tasksDone, connVars, userVars, histVars
  <2>2. Queued' = Queued /\ Given' = Given /\ Lost' = Lost
    BY <2>1 DEF Queued, Given, Lost
  <2> QED
    BY <2>1, <2>2 DEF OrderInv
<1>6. CASE Peer
  <2>1. UNCHANGED <<channel, tasks, pendingTasks_, lpc, ucall, sent, accepted>>
    BY <1>6 DEF Peer, peerSends, peerSendsUrgent, peerCloses, peerResets, PeerActs, loopVars, userVars, histVars
  <2>2. (sock.rst => sock'.rst) /\ sock'.shutWr = sock.shutWr
    BY <1>1, <1>6 DEF Peer, peerSends, peerSendsUrgent, peerCloses, peerResets, PeerActs, Socks
  <2> QED
    BY <2>1, <2>2, OrderSame DEF MayQueue, Lost
<1>7. CASE handleEvents \/ callbackReturns \/ (\E room \in BOOLEAN : poll(room))
           \/ (\E th \in Threads : release(th)) \/ UNCHANGED vars
  <2>1. /\ UNCHANGED <<channel, sock, tasks, pendingTasks_, ucall, sent, accepted>>
        /\ (lpc' # "tasks" => lpc # "tasks")
    BY <1>7 DEF handleEvents, callbackReturns, poll, release, vars, connVars, loopVars, userVars, histVars
  <2> QED
    BY <2>1, OrderSame DEF MayQueue, Lost
<1> QED
  BY <1>2, <1>3, <1>4, <1>5, <1>6, <1>7, TaskKeepsOrder, LoopCallKeepsOrder, UserKeepsOrder
     DEF Next, LoopStep

(* A step that closes the connection accepts nothing.                      *)
LEMMA CloseAcceptsNone ==
  ASSUME Base, [Next]_vars, closes = 0, closes' # 0 PROVE accepted' = accepted
<1>1. CASE runTask
  <2>1. PICK x \in TaskSet : x = Head(tasks)
    <3>1. Head(tasks) \in TaskSet
      BY <1>1 DEF runTask, Base, QueueType
    <3> QED
      BY <3>1, Zenon
  <2>2. x.op \in TaskOps
    BY DEF TaskSet
  <2> QED
    BY <1>1, <2>1, <2>2 DEF runTask, TaskOps, AllOps
<1>2. CASE handler
  BY <1>2 DEF handler
<1>3. CASE ~runTask /\ ~handler
  <2>1. closes' = closes
    BY <1>3, CloseSteps
  <2> QED
    BY <2>1
<1> QED
  BY <1>1, <1>2, <1>3

(* Whatever threads call whatever: while the connection is open, the       *)
(* messages of a thread are accepted in the order of its send() calls and  *)
(* without a gap, be they run at once or through the queue.                *)
THEOREM OpenSendOrder == Spec => [](closes = 0 => SendOrder)
<1>1. Spec => [](closes = 0 => OrderInv)
  <2>1. Base /\ (closes = 0 => OrderInv) /\ [Next]_vars => (closes = 0 => OrderInv)'
    <3> SUFFICES ASSUME Base, closes = 0 => OrderInv, [Next]_vars, closes' = 0 PROVE OrderInv'
      OBVIOUS
    <3>1. closes = 0
      BY ClosesCounts DEF Base, ConnType
    <3> QED
      BY <3>1, OrderKept
  <2> QED
    BY <2>1, OrderStart, BaseHolds, PTL DEF Spec
<1>2. Base /\ (closes = 0 => OrderInv) => (closes = 0 => SendOrder)
  BY OrderFacts DEF OrderInv, Ordered
<1> QED
  BY <1>1, <1>2, BaseHolds, PTL

(* When only the loop thread controls the connection, it holds for good:   *)
(* a queued send that comes after the close is not accepted.               *)
THEOREM ConnectionSendOrder == ASSUME LoopControls PROVE Spec => []SendOrder
<1>1. Init => SendOrder
  BY BaseStart, OrderStart, OrderFacts DEF OrderInv, Ordered
<1>2. Base /\ CloseInv /\ SendOrder /\ (closes = 0 => SendOrder)' /\ [Next]_vars => SendOrder'
  <2> SUFFICES ASSUME Base, CloseInv, SendOrder, (closes = 0 => SendOrder)', [Next]_vars PROVE SendOrder'
    OBVIOUS
  <2>1. CASE closes = 0
    <3>1. CASE closes' = 0
      BY <3>1
    <3>2. CASE closes' # 0
      <4>1. accepted' = accepted
        BY <2>1, <3>2, CloseAcceptsNone
      <4> QED
        BY <4>1 DEF SendOrder
    <3> QED
      BY <3>1, <3>2
  <2>2. CASE closes # 0
    <3>1. state_ = "kDisconnected"
      BY <2>2, ClosedStays
    <3>2. accepted' = accepted
      BY <3>1, OutputMoves DEF sendInLoop, handleWrite
    <3> QED
      BY <3>2 DEF SendOrder
  <2> QED
    BY <2>1, <2>2
<1> QED
  BY <1>1, <1>2, BaseHolds, CloseHolds, OpenSendOrder, PTL DEF Spec

(* After the close callback nothing reaches the socket and no message is   *)
(* accepted any more: queued sends, EPOLLOUT and calls that come late find *)
(* kDisconnected.                                                          *)
ClosedIsSilent == [][closes # 0 => UNCHANGED <<wire, outputBuffer_, accepted>>]_vars

(* So it is when only the loop thread controls the connection.             *)
THEOREM ConnectionSilent == ASSUME LoopControls PROVE Spec => ClosedIsSilent
<1>1. Base /\ CloseInv /\ [Next]_vars => [closes # 0 => UNCHANGED <<wire, outputBuffer_, accepted>>]_vars
  <2> SUFFICES ASSUME Base, CloseInv, [Next]_vars, closes # 0
               PROVE  UNCHANGED <<wire, outputBuffer_, accepted>>
    OBVIOUS
  <2>1. state_ = "kDisconnected"
    BY ClosedStays
  <2> QED
    BY <2>1, OutputMoves DEF sendInLoop, handleWrite
<1> QED
  BY <1>1, BaseHolds, CloseHolds, PTL DEF Spec, ClosedIsSilent
=============================================================================

# A verification of mudong-ev in TLA+

mudong-ev is an event-driven network library: one `EventLoop` per thread waits
in epoll, calls the callbacks of its channels and runs the tasks that other
threads queued.  TCP connections, timers, a thread pool and the servers of
`examples/` are built on that loop.  This directory models the parts in which
threads, callbacks and the kernel interleave, checks them with TLC on small
instances, and proves the safety properties that hold with TLAPS for every value
of the constants (sections 4 and 6).

The models follow the Release build: assertions are compiled out, so a failing
one does not stop the program.  `FATAL` aborts it.

## 1. Inventory

| part | state | operations | interacts with | what is hard |
|---|---|---|---|---|
| EventLoop | `quit_`, `pendingTasks_`, `doingPendingTasks_`, `activeChannels_`, the eventfd | `loop`, `quit`, `queueInLoop`, `runInLoop`, `wakeup`, `handleRead`, `doPendingTasks` | every thread with a pointer | push, wake-up, drain and swap interleave |
| EPollPoller | `events_`, kernel registrations | `poll`, `updateChannel` | EventLoop, Channel | array too small, failing epoll calls |
| Channel | `events_`, `revents_`, `pooling`, `tie_` | enable/disable, `handleEvents` | poller, owner | owner dies while the channel is active |
| EventLoopThread, CountDownLatch | `started_`, `loop_`, `latch_` | `startLoop`, thread function, destructor | EventLoop | pointer to another thread's stack; quit before loop |
| TcpConnection | `state_`, `outputBuffer_`, `inputBuffer_`, its channel | `send`, `shutdown`, `forceClose`, `stopRead`, `startRead`, four event handlers | loop, server, application threads, peer | partial writes, closing from several sides, life time |
| TcpServerSingle | `connections_` | `newConnection`, `closeConnection` | Acceptor, TcpConnection | closing exactly once |
| TcpServer | `eventLoops_`, `threads_`, `started_` | `start`, `runInThread`, destructor | EventLoops | pointers to sub-loops |
| Acceptor | listening socket | `listen`, `handleRead` | TcpServerSingle | failing `accept4` |
| Connector, TcpClient | socket, `retryTimer_`, `connection_` | `start`, `retry`, `newConnection`, `closeConnection` | TimerQueue, TcpConnection | retry against late completion |
| TimerQueue, Timer | `timers_`, the timerfd, `canceled_` | `addTimer`, `cancelTimer`, `handleRead` | loop, other threads, the clock | deletion, re-arming, cancel in a callback |
| ThreadPool | `taskQueue_`, `running_`, `mutex_`, two conditions | `runTask`, `stop`, `take` | producers | lost notifications, stop |
| Buffer | `buffer_`, `readerIndex_`, `writerIndex_` | `append`, `retrieve`, `prepend`, `readFd`, `makeSpace` | TcpConnection | boundaries of the vector |
| examples | `connections_` with deadlines | callbacks, `onTimeout` | all of the above | back-pressure, idle time-outs |
| Logger, InetAddress, Timestamp | none that matters here | | | |

The properties each part should have are the ones of section 4; the places
where they could fail are the `hazards` of `PROJECT.json`.

## 2. Modules

| module | models | how state and actions correspond |
|---|---|---|
| `TaskQueue` | what an EventLoop promises | an abstract FIFO: submit, execute |
| `EventLoop` | `EventLoop.cc`, `EPollPoller::poll` | a call by a thread is two steps, the store (push or `quit_`) and the write to the eventfd; the loop thread has a program counter `pc` |
| `EventLoopThread` | `EventLoopThread.cc`, `CountDownLatch.hpp` | extends `EventLoop`; program counters of the owner and of the thread function |
| `Channel` | `Channel.cc`, `EPollPoller::updateChannel` | operators on a record of mask, `pooling` and the kernel's mask |
| `TcpConnection` | `TcpConnection.cc`, `newConnection` and `closeConnection` of `TcpServerSingle.cc` | extends `Channel`; loop phases, the event handlers, calls by the loop thread and by others, the socket |
| `EchoServer` | `examples/EchoServer.cc` | extends `TcpConnection`; its callbacks replace the arbitrary application |
| `TcpServer` | `TcpServer.cc`, `TcpServerSingle.cc`, `Acceptor.cc` | the base thread in `startInLoop` or the destructor (`spc`), one program counter per loop thread (`tpc`), the connections of all loops and the descriptors of the process |
| `ThreadPool` | `ThreadPool.cc` | a critical section is a step, except that `take` tests and sleeps in two |
| `AddOneServer` | `examples/AddOneServer.cc` | extends `ThreadPool`; the loops are producers that wait for their future, `frame` is the stack frame a closure refers to |
| `TimerQueue` | `TimerQueue.cc`, `Timer.hpp` | times relative to now in milliseconds; `heap` is the set of Timer objects that exist |
| `TcpClient` | `TcpClient.cc`, `Connector.cc` | extends `TimerQueue`, which runs the retries; a Connector is its socket and the fate of its `connect()` |
| `Buffer` | `Buffer.hpp`, `Buffer.cc` | the vector and its indices; `content` is what should be readable |
| `...Proofs` | | the theorems of section 6 |
| `MC...` | | constants for TLC |

Definitions called "variant" in a comment are plausible mistakes in the
definition that follows them; they are used to see that a property notices.

Abstractions to know about:

- `TcpConnection` keeps the order of the loop (epoll_wait, channels, tasks) and
  leaves out its wake-ups, which `EventLoop` is about.  A message has `MsgLen`
  units so that a write can be partial.  `write` may return any count; after a
  reset or a half-close it fails with EPIPE.  The peer may send an urgent byte,
  of which one at a time is unread: epoll reports it as EPOLLPRI, `readv` stops
  in front of it and then skips it.
- Ownership is the predicate `Alive`: the server's set, pointers held by
  threads, callbacks in progress and queued closures that capture a
  `shared_ptr`.
- Application code in the loop thread keeps the preconditions the code asserts
  (`shutdown` while not disconnected) and calls `startRead` only while
  connected.  `EchoServer` replaces that assumption by what the example does.
- `TcpServer` reduces a connection to an object with a descriptor and a loop to
  its waits and tests of `quit_`; `TcpConnection` and `EventLoop` have the
  details.  The errors of `accept4` that `handleRead` survives are all there,
  those that end in `SYSFATAL` are not.
- `TcpClient` reduces a connection the same way and lets nobody else keep a
  pointer to it.  `start()` is modelled for a `connect()` that returns
  EINPROGRESS: any other answer makes `newConnection` dereference a
  `retryTimer_` that is still null.  `retry()` has every answer.  `~TcpClient`
  releases `connection_`: from there on only the closure of `forceClose` owns
  the connection (`closing`).  Two steps use an object that is gone, the turn of
  a destroyed Connector's channel that is still in `activeChannels_`
  (`staleEvents`) and the close callback of a connection that outlived its
  client (`closeDestroyed`).  They set `undefined`, and the model ends there:
  the properties of `TcpClient` are about what comes before.
- In `AddOneServer` the closure of `onMessage` either reaches `set_value` or
  throws in `std::stoll` (`stollThrows`); a worker has no handler, so that
  `std::terminate` ends the process (`terminated`) and the model with it.  The
  numbers are left out, and with them that `oldNum + 1` overflows for the
  largest one.
- `runTask` on a stopped pool, and cancelling a one-shot timer or the same timer
  twice, are excluded: the code gives them no meaning.  In `TimerQueue` a timer
  is cancelled by the side (loop thread or others) that added it, and not inside
  a timer's callback; only the client's own retry may do that.
- `state_`, `quit_`, `running_` are accessed atomically, one access per step
  where another thread can tell the difference.

## 3. Bounds

`EventLoop`: three threads, two tasks, two channels beside the wake-up channel,
`InitEvents = 1` so that the event array is too small, and an eventfd limit of 1
so that it is reached. `EventLoopThread`: one owner, two tasks. `TcpConnection`:
one other thread, one or two calls per thread, messages of two units, a mark of
two, one unread message; every pair of operations meets every partial write,
close and reset. In `tcpconnection_live`, where another thread uses every
operation, messages have one unit: a write takes all or nothing there, and
partial writes are left to `tcpconnection_safety`. `EchoServer`: four requests,
two of which may be unread, two urgent bytes and a mark of three; two requests
and no urgent byte suffice for finding 2. `TcpServer`: two loops, one connection
each and a single descriptor for both, so that descriptors run out; one waiting
request per socket. `AddOneServer`: two workers, two loops and a third producer,
three tasks, a queue of one, so that both conditions have sleepers. `TcpClient`:
a one-shot and a repeating timer of two ticks, delays up to two ticks, at most
two late; either may be deleted and allocated again, and the client's retry
timer is the repeating one; two descriptors. With more timers the bound on
lateness makes the ages of overdue timers indistinguishable, and `TimerRuns`
says nothing about the code any more. `Buffer`: two kinds of bytes, header and
capacity of two, `extrabuf` of two, appends of up to three, at most four
readable.

The theorems of section 6 hold for every value of these constants.

`CHECK_DEADLOCK FALSE` appears in `TcpConnection_safety`, `TcpConnection_live`
and `EchoServer_pressure`, where the program can abort in `FATAL`.  Elsewhere a
system that is finished, or whose behaviour is undefined, stutters in an
explicit action.

## 4. Runs

| run | checks | result |
|---|---|---|
| `eventloop` | `TasksInOrderOnce`, `NoLostWakeup`, `BatchNeverGrows`, `RefinesTaskQueue`, `QueuedTaskStarts`, `QuitHonoured`, `ReadyChannelServed` | hold |
| `eventloopthread` | `StartLoopReturnsLoop`, `DestructorJoinsRunningLoop` | hold |
| `eventloopthread_lostquit` | `DestructorStopsLoop` | violated (finding 1) |
| `tcpconnection_safety` | `OutputIntact`, `SendOrder`, `WritingIffOutput`, `ClosedOnce`, `ActiveChannelAlive`, `GracefulShutdown`, when other threads only send | hold |
| `tcpconnection_live` | `EpollAgrees`, `DisconnectingEnds`, `ResetCloses`, when another thread uses every operation | hold |
| `echoserver_pressure` | `OutputBounded`, `OpenIsTimed`, `ReadingResumes` | hold |
| `echoserver_reopen` | `ReadOnlyWhileOpen` | violated (finding 2) |
| `addoneserver` | `PoppedInOrderOnce`, `NoSleepAfterStop`, `FramesAlive`; until `std::terminate`, `StopReturns`, `RequestAnswered` | hold |
| `tcpclient` | `TimersOwned`, `ArmedForEarliest`, `RetryTimerOwned`, `SocketsOwned`, `TimerRuns`, `OneConnection`, `ClientConnects`, when `connect()` returns EINPROGRESS and until an object that is gone is used | hold |
| `tcpclient_cancelled` | `BatchTimersExist`, when `connect()` may return at once | violated (finding 3) |
| `tcpserver` | `NoThreadOutlivesServer`, `DescriptorsOwned`, `StartCompletes`, `DestructorReturns`, `RequestAccepted` | hold |
| `buffer` | `ContentIntact`, `MemoryBounded` | hold |

Each property is stated, in words and with the code it is about, above its
definition.  `ThreadPool` and `TimerQueue` are run under the component that
drives them.

Findings, with the line each contradicts in `PROJECT.json`:

1. `quit()` between `latch_.count()` and `quit_ = false` is lost; the destructor
   of EventLoopThread waits for ever.
2. EchoServer's write-complete callback can register a closed connection again.
3. A retry whose `connect()` does not return EINPROGRESS cancels the retry timer
   inside its own callback, and `TimerQueue::handleRead` goes on with the
   deleted Timer.

Limits of the guarantees above, where no document promises more:

- A task the loop thread queues before `loop()` wakes nobody and waits for the
  next event (`early` in `NoLostWakeup` and `QueuedTaskStarts`).
- `GracefulShutdown` is about `shutdown()` in the loop thread.  From another
  thread, `send` then `shutdown` while earlier output drains can shut the write
  side before the message is written: `handleWrite` sees kDisconnecting first.
- `forceClose`, `shutdown` and `startRead` from another thread can turn
  kDisconnected back into kDisconnecting, or register a closed channel again;
  `ClosedOnce` is stated for the other cases.
- `enableRead` asks for EPOLLIN and EPOLLPRI, `disableRead` gives back EPOLLIN
  only, and `handleEventWithGuard` reads on either.  After `stopRead` urgent data
  is therefore still read: each urgent byte costs two more `onMessage` calls in
  `OutputBounded`.  And EPOLLHUP with EPOLLPRI but without EPOLLIN, possible
  after `stopRead`, calls `closeCallback_` and then `readCallback_`: the message
  callback of a closed connection, or a second `handleClose` that ends in
  `FATAL`.  `ClosedOnce` leaves that combination out (`hupUrgent`).
- The closures of `stopRead` and `startRead` called from another thread capture
  `this` and can run after the connection is gone.
- `~EventLoopThread` and `~TcpServer` test a loop pointer and call `quit()`,
  which writes to the loop's eventfd last: a loop that sees `quit_` by itself is
  gone by then.  In the models that write has no effect.
- `DestructorReturns` is stated for sub-loops inside `loop()`; before that,
  finding 1 applies to them too.
- Stopping a ThreadPool leaves queued tasks undone, and producers asleep on a
  full queue where they are; `RequestAnswered` is stated while the pool runs.
- A message to AddOneServer that is no number, or too large a one, ends the
  process; `RequestAnswered` and `StopReturns` are stated up to then.
- A Connector replaced by a retry in the iteration that reports its completion
  leaves its channel in `activeChannels_` (`staleEvents`).
- `~TcpClient` with an open connection queues a `forceClose` whose `handleClose`
  calls `closeConnection` of the client that is gone, and so does any event that
  closes the connection before (`closeDestroyed`): an open connection must be
  closed before its TcpClient is destroyed.

## 5. Fairness

The loop thread and threads inside a call are scheduled (weak fairness).
Callbacks and tasks return; because they may call the loop's operations first,
`callbackReturns` and `taskReturns` of `EventLoop` are strongly fair.
`epoll_wait` is not interrupted for ever (strong fairness of `poll`).  A peer
that keeps the connection reads now and then, so the socket has room again and
again (strong fairness of `poll(TRUE)`).  A mutex is granted to a waiter in the
end (strong fairness in `AddOneServer`).  The clock ticks, and a server that is
asked again and again accepts in the end, before the next retry (strong fairness
in `TcpClient`).  Connections of `TcpServer` end in the end, by their peers or an
idle timeout, and the application drops its pointers, so that descriptors come
back.  No call, no signal, no spurious wake-up and no other event is ever
assumed.

## 6. Proofs

Every theorem is for all values of the constants, from the named assumptions of
the module that declares them (threads are distinct, sizes are naturals, a queue
has room for one, and so on).

| module | theorems | inductive invariant |
|---|---|---|
| `EventLoopProofs` | `TypeCorrect`, `TasksAreInOrderOnce`, `WakeupIsNeverLost`, `BatchesNeverGrow`; `ImplementsTaskQueue`: the refinement of `TaskQueue` | `LoopInv` |
| `EventLoopThreadProofs` | `ThreadImplementsLoop`: `ThreadSpec => Spec`, so the theorems above hold for its loop; `StartLoopIsSafe` | `StartInv` |
| `ThreadPoolProofs` | `PoolOrder`, `PoolStops`; `ServerImplementsPool`: `ServerSpec => Spec`; `ServerFrames` | `PoolInv`, `FrameInv` |
| `TcpServerProofs` | `ServerOutlivesThreads`, `ServerDescriptors` | `ThreadInv`, `ConnInv` |
| `TcpClientProofs` | of `TimerQueue`: `TimersAreOwned`, `BatchIsAlive`, `EarliestIsArmed`; of `TcpClient`, assuming `Remote`: `ClientSockets`, `ClientTimer`, `ClientTimersOwned`, `ClientConnectsOnce`, `ClientTimerfdArmed` | `TimerInv`, `ArmedInv`; `ClientInv` |
| `BufferProofs` | `BufferContent`, `BufferMemory`, `BufferRoom` | `BufferInv` |
| `TcpConnectionProofs` | `ConnectionEpoll`, `ConnectionOutput`, `OpenOutputIntact`, `OpenSendOrder`; assuming `LoopControls`: `ConnectionClosedOnce`, `ActiveChannelIsAlive`, `ConnectionOutputIntact`, `ShutdownIsGraceful`, `ConnectionSendOrder`, `ConnectionSilent` | `Base`, `CloseInv`, `ShutInv`, `OrderInv` |
| `EchoServerProofs` | `EchoOutputBounded`, `EchoReadingDue`, `EchoOutputIntact`, `EchoSendOrder`, `EchoEpoll`, `EchoSilent`, `EchoTimed` | `Base`, `EchoInv`, `ResumeInv`, `TimedInv` |

How the arguments go:

- `LoopInv`: that a batch is only non-empty, and `doingPendingTasks_` only set,
  between the swap and the end of the batch (`BatchShape`) is needed to know
  which calls of the loop thread will write the eventfd.
- `StartInv`: until `startLoop()` returns, nobody has the pointer, so the loop
  has no reason to end; the thread stores object, pointer and latch in that
  order.
- `PoolInv`: `mutex_` is held between steps only by a worker about to sleep, so
  that `stop()` cannot notify between its test and its wait.  `FrameInv` links
  every closure in the queue or in a worker to the loop that waits for it.
- `ThreadInv`: a thread that exists is in `threads_` or is the one `startInLoop`
  waits for.  `ConnInv`: connections in the set or with a holder exist, and no
  two share a descriptor.
- `TimerInv`: a timer is queued at most once for each operation and never
  cancelled before its insertion; a cancelled timer is out of `timers_`.  The
  lemmas speak of the closures and not of who queues them, so that `ClientInv`
  can reuse them.
- `ArmedInv`: outside `handleRead` every entry of `timers_` is covered, that is,
  the timerfd is set for it, for something earlier or for the next millisecond,
  and no entry is later than the clock lets it be.  Only the entry that becomes
  the first re-arms the timerfd in `addTimer`; that this is enough needs the
  minimum of a set of times, which exists because the times are bounded below.
- `ClientInv` adds that a started client without a connection has a repeating
  timer of its own that nobody else cancels, and that a connection left to a
  `forceClose` task is one whose client is gone.  `Remote`, that `connect()` returns
  EINPROGRESS, is needed: finding 3 is what happens otherwise.
- `BufferInv`: the indices are in order and the vector is never shorter than its
  header; growing, moving and copying are then compared byte by byte.
- `Base` holds whoever calls what: types, the agreement of poller and kernel,
  and EPOLLOUT set exactly while output waits.  `LoopControls` - other threads
  call only `send` and `stopRead` - is what `ClosedOnce` and the rest need (see
  the limits of section 4).  `CloseInv` says that a closed connection is out of
  the set, out of epoll and kDisconnected, that a channel waiting for its turn
  is open, and that one pass of `handleEventWithGuard` has at most one callback
  that closes, unless EPOLLHUP came with EPOLLPRI: then the process may have
  aborted (`Dead`).  `ShutInv` says that a shut socket has no output waiting and that
  every send of the loop thread was accepted unless the peer reset.
- `OrderInv` follows the sends of a thread through three places: accepted, in the
  queue, and between the test of `state_` and the push.  What is queued is in
  order and later than what was accepted, and nothing is missing between the
  two unless the direct write has failed, in which case it fails again
  (`Lost`).  After the close nothing is accepted, so the order stays.
- `EchoInv`: when the output is at or past the mark, running what is queued ends
  with the channel not reading (`WillStop`): a high-water-mark callback comes
  after every write-complete callback, or reading has stopped and no
  write-complete callback waits.  The queue is empty when `epoll_wait` is called,
  so then the channel does not read; a read event that is due therefore means
  that the output is below the mark, and one `onMessage` adds two messages.
  Urgent bytes are the exception: each allows two reads past the mark, and
  `Spent` counts the ones that have been made, so that the bound grows by what
  those reads add.  A
  closed connection can be registered again (finding 2), but it stays
  kDisconnected and its output is frozen, which is why `EchoServer` does not need
  `LoopControls`.  `EchoAssumption` asks for a positive mark: with a mark of 0
  the callback is never queued.
- `ResumeInv`: whatever stops reading, or has stopped it, is followed by a
  write-complete callback in the queue, or output waits whose last byte queues
  one.  This is the safety half of `ReadingResumes`; that the callback then runs
  is left to fairness and TLC.

- `TimedInv`: the connection callback that erases the entry comes with a
  connection that is no longer open, and `onTimeout` erases only what it closes.

`BatchIsAlive` and finding 3 are about the same property: it holds for the
TimerQueue used by its rules, which the client breaks.

Only model-checked: the liveness properties (`QueuedTaskStarts`, `QuitHonoured`,
`ReadyChannelServed`, `DestructorJoinsRunningLoop`, `DisconnectingEnds`,
`ResetCloses`, `ReadingResumes`, `StopReturns`, `RequestAnswered`, `TimerRuns`,
`ClientConnects`, `StartCompletes`, `DestructorReturns`, `RequestAccepted`): the
prover has no rules for fairness and ENABLED.  Every safety property that a run
finds to hold has a theorem.  Induction is used only in the form that a
non-empty set of naturals has a least element; statements are written so that
no other is needed, `SendOrder` with positions rather than with a filter of the
sequence.

## 7. Not modelled

Logger, InetAddress, Timestamp and the aliases have no behaviour of interest.
Of Buffer, the integer conversions, searches and `swap` are left out; of
ThreadPool, the pool without threads, which runs the task in the caller.
EchoServer is modelled with one loop: with several, its callbacks share
`connections_` without a lock, which is undefined behaviour.  AddOneServer's
other callbacks are those of EchoServer, except that its `onConnection` sets no
deadline: a connection that never sends is not in its timeout table.  Of the example clients, the terminal is
left out; what they do to their connection from another thread is part of
`tcpconnection_live`.

------------------------------ MODULE Channel ------------------------------
(***************************************************************************)
(* Channel (Channel.cc) and EPollPoller::updateChannel (EPollPoller.cc) as *)
(* operators on one channel's state, a record of                           *)
(*   events   events_, the set of epoll events asked for;                  *)
(*   pooling  whether the poller believes the descriptor is registered;    *)
(*   epoll    the mask the kernel holds for the descriptor, or NotInEpoll. *)
(***************************************************************************)
EXTENDS Sequences

EventMasks == SUBSET {"IN", "PRI", "OUT"}
NotInEpoll == {"unregistered"}
ChannelState == [events : EventMasks, pooling : BOOLEAN, epoll : EventMasks \cup {NotInEpoll}]

NewChannel == [events |-> {}, pooling |-> FALSE, epoll |-> NotInEpoll]

(* epoll_ctl.  The poller logs a failure (EEXIST, ENOENT) and goes on.     *)
EpollAdd(epoll, mask) == IF epoll = NotInEpoll THEN mask ELSE epoll
EpollMod(epoll, mask) == IF epoll = NotInEpoll THEN NotInEpoll ELSE mask

(* pooling after EPOLL_CTL_DEL.  Variant: it is not reset.                 *)
KeepsPooling == TRUE
Removed == FALSE

(* update() with events_ = ev: register, modify or remove.                 *)
updateChannel(c, ev) ==
  IF ~c.pooling THEN
    [events |-> ev, pooling |-> TRUE, epoll |-> EpollAdd(c.epoll, ev)]
  ELSE IF ev # {} THEN
    [events |-> ev, pooling |-> TRUE, epoll |-> EpollMod(c.epoll, ev)]
  ELSE
    [events |-> {}, pooling |-> Removed, epoll |-> NotInEpoll]

enableRead(c) == updateChannel(c, c.events \cup {"IN", "PRI"})
enableWrite(c) == updateChannel(c, c.events \cup {"OUT"})
disableRead(c) == updateChannel(c, c.events \ {"IN"})
disableWrite(c) == updateChannel(c, c.events \ {"OUT"})
disableAll(c) == updateChannel(c, {})

(* EventLoop::removeChannel.                                               *)
removeChannel(c) == disableAll(c)

isReading(c) == "IN" \in c.events
isWriting(c) == "OUT" \in c.events

(* A hang-up with nothing left to read.  Variant: it is not handled.       *)
IgnoreHangup(revents) == FALSE
HungUp(revents) == "HUP" \in revents /\ "IN" \notin revents

(* handleEventWithGuard: the callbacks that revents_ calls for, in order.  *)
handleEventWithGuard(revents) ==
     (IF HungUp(revents) THEN <<"close">> ELSE <<>>)
  \o (IF "ERR" \in revents THEN <<"error">> ELSE <<>>)
  \o (IF revents \cap {"IN", "PRI", "RDHUP"} # {} THEN <<"read">> ELSE <<>>)
  \o (IF "OUT" \in revents THEN <<"write">> ELSE <<>>)
=============================================================================

--------------------------- MODULE TcpConnection ---------------------------
(***************************************************************************)
(* src/src/TcpConnection.cc, with the Channel.cc and EPollPoller.cc it is  *)
(* registered by: one connection on its I/O loop, the user's callbacks on  *)
(* that loop, other threads that call it, and the peer.                    *)
(*                                                                         *)
(* A step of the loop thread is one handler or one functor, cut at the     *)
(* user callbacks; a step of another thread is one access to state_ or one *)
(* push to the loop's queue.  The loop is that of EventLoop.tla; here it   *)
(* may take up functors that wait before it looks for events.  Bytes are   *)
(* pairs of a message and a position.                                      *)
(***************************************************************************)
EXTENDS Naturals, Sequences, SequencesExt

CONSTANTS
  Messages,     \* bound: the sequence of what is sent, each of two bytes
  Threads,      \* threads other than the loop thread
  ThreadCalls,  \* the calls they make: "send", "shutdown", "forceClose"
  MaxCloses     \* bound: their calls of shutdown and forceClose, taken together

CallNames == {"send", "shutdown", "forceClose"}

(* Functors of the connection on the loop's queue; a message is its send.  *)
Guarded == ToSet(Messages) \cup
             {"connectEstablished", "forceCloseInLoop", "connectDestroyed"}
Raw == {"shutdownInLoop", "writeComplete"}

ASSUME ConnectionAssumption ==
  /\ Messages \in Seq(ToSet(Messages))
  /\ ThreadCalls \subseteq CallNames /\ MaxCloses \in Nat
  /\ ToSet(Messages) \cap (Raw \cup CallNames \cup {"connectEstablished",
       "forceCloseInLoop", "connectDestroyed", "idle"}) = {}

VARIABLES
  state,     \* state_
  events,    \* channel_->events_: some of "read" and "write"
  index,     \* channel_->index_: its registration with the poller
  output,    \* outputBuffer_
  queue,     \* the functors of this connection on the loop's queue
  todo,      \* how many of them doPendingFunctors has taken and not run
  held,      \* one it has run, and not yet destroyed, holds a reference
  revents,   \* what is left of channel_->revents_ in handleEventWithGuard
  callback,  \* the user callback the loop thread is inside: "up", "message"
  removals,  \* closeCallback_ calls the server has not acted on
  pc,        \* pc[t]: what thread t does next in its call, and for what
  peer,      \* the peer's end: "open", "closed" or "reset"
  soError,   \* the socket's pending error
  input,     \* data has arrived that was not read
  room,      \* the socket's send buffer has room
  fin,       \* the write half was shut down
  wire,      \* history: the bytes written to the socket
  sent,      \* history: the bytes sendInLoop took on
  given,     \* history: how many messages were given to send
  closes,    \* history: calls of shutdown and forceClose by other threads
  late,      \* history: how often such a call has set kDisconnecting over
             \* kDisconnected
  ups, downs \* history: connectionCallback_ calls, connected and not

socketVars == <<peer, soError, input, room, fin, wire>>
channelVars == <<events, index>>
userVars == <<pc, given, closes, late>>
connVars == <<state, channelVars, output, queue, todo, held, revents, callback,
              removals, userVars, socketVars, sent, ups, downs>>

States == {"kDisconnected", "kConnecting", "kConnected", "kDisconnecting"}

Bytes(m) == <<<<m, 1>>, <<m, 2>>>>

(* The constructor; connectEstablished is still to be queued. *)
ConnInit ==
  /\ state = "kConnecting" /\ events = {} /\ index = "kNew"
  /\ output = <<>> /\ queue = <<>> /\ todo = 0 /\ held = FALSE
  /\ revents = {} /\ callback = "none"
  /\ removals = 0
  /\ pc = [t \in Threads |-> <<"idle", "idle">>]
  /\ peer = "open" /\ soError = FALSE /\ input = FALSE
  /\ room = TRUE /\ fin = FALSE
  /\ wire = <<>> /\ sent = <<>> /\ given = 0
  /\ closes = 0 /\ late = 0
  /\ ups = 0 /\ downs = 0

-----------------------------------------------------------------------------
(* Channel and poller.                                                     *)

(* Channel::update after events_ was set: a channel that is not in the     *)
(* epoll set is added whatever it asks for, one that is there and asks for *)
(* nothing is taken out.                                                   *)
Update(wanted) ==
  /\ events' = wanted
  /\ index' = IF index = "kAdded" /\ wanted = {} THEN "kDeleted" ELSE "kAdded"

(* What epoll_wait reports.  An error and a hang-up need not be asked for. *)
Ready ==
  {r \in {"hup", "err", "in", "out"} :
     /\ index = "kAdded"
     /\ CASE r = "in"  -> "read" \in events /\ (input \/ peer # "open")
          [] r = "out" -> "write" \in events /\ (room \/ peer = "reset")
          [] r = "err" -> soError
          [] r = "hup" -> peer = "reset" \/ (peer = "closed" /\ fin)}

(* The connection is kept by a reference: the server's map (see            *)
(* TcpServer), a functor, a caller, or the handler that is running.        *)
Referenced ==
  \/ removals > 0 \/ held
  \/ \E i \in 1..Len(queue) : queue[i] \in Guarded
  \/ \E t \in Threads : pc[t][1] # "idle"
  \/ revents # {} \/ callback # "none"

-----------------------------------------------------------------------------
(* Sending.                                                                *)

Fault == fin \/ peer = "reset"

(* The kernel takes k of n bytes: all, some, or none if it has no room.    *)
Takes(n, k) == IF room /\ n > 0 THEN k \in 1..n ELSE k = 0

(* Mutant: a direct write although older bytes wait in outputBuffer_. *)
SendOvertaking(m, q) ==
  IF state = "kDisconnected" \/ Fault
    THEN queue' = q /\ UNCHANGED <<output, wire, sent, room, channelVars>>
    ELSE \E k \in 0..2 :
           /\ Takes(2, k)
           /\ room' = (room /\ k = 2)
           /\ wire' = wire \o SubSeq(Bytes(m), 1, k)
           /\ output' = output \o SubSeq(Bytes(m), k + 1, 2)
           /\ sent' = sent \o Bytes(m)
           /\ queue' = IF k = 2 THEN Append(q, "writeComplete") ELSE q
           /\ IF k < 2 /\ "write" \notin events
                THEN Update(events \cup {"write"}) ELSE UNCHANGED channelVars

(* Mutant: the bytes that were not written are kept, EPOLLOUT not asked for. *)
SendForgettingEnable(m, q) ==
  LET direct == "write" \notin events /\ output = <<>> IN
  IF state = "kDisconnected" \/ (direct /\ Fault)
    THEN queue' = q /\ UNCHANGED <<output, wire, sent, room, channelVars>>
    ELSE \E k \in 0..2 :
           /\ IF direct THEN Takes(2, k) ELSE k = 0
           /\ room' = (room /\ (direct => k = 2))
           /\ wire' = wire \o SubSeq(Bytes(m), 1, k)
           /\ output' = output \o SubSeq(Bytes(m), k + 1, 2)
           /\ sent' = sent \o Bytes(m)
           /\ queue' = IF k = 2 THEN Append(q, "writeComplete") ELSE q
           /\ UNCHANGED channelVars

(* sendInLoop: a direct write if nothing waits, the rest to outputBuffer_. *)
(* A write the socket refuses for good drops the message.  q is what is    *)
(* queued before.                                                          *)
SendInLoop(m, q) ==
  LET direct == "write" \notin events /\ output = <<>> IN
  IF state = "kDisconnected" \/ (direct /\ Fault)
    THEN queue' = q /\ UNCHANGED <<output, wire, sent, room, channelVars>>
    ELSE \E k \in 0..2 :
           /\ IF direct THEN Takes(2, k) ELSE k = 0
           /\ room' = (room /\ (direct => k = 2))
           /\ wire' = wire \o SubSeq(Bytes(m), 1, k)
           /\ output' = output \o SubSeq(Bytes(m), k + 1, 2)
           /\ sent' = sent \o Bytes(m)
           /\ queue' = IF k = 2 THEN Append(q, "writeComplete") ELSE q
           /\ IF k < 2 /\ "write" \notin events
                THEN Update(events \cup {"write"}) ELSE UNCHANGED channelVars

-----------------------------------------------------------------------------
(* Closing.                                                                *)

(* The write half is shut down unless bytes wait for EPOLLOUT. *)
ShutdownInLoop == fin' = (fin \/ "write" \notin events)

(* connectionCallback_ and closeCallback_ included. *)
HandleClose ==
  /\ state' = "kDisconnected"
  /\ Update({})
  /\ downs' = downs + 1
  /\ removals' = removals + 1

ForceCloseInLoop ==
  IF state \in {"kConnected", "kDisconnecting"}
    THEN HandleClose
    ELSE UNCHANGED <<state, channelVars, downs, removals>>

-----------------------------------------------------------------------------
(* The loop thread: functors.                                              *)

LoopFree == revents = {} /\ callback = "none"

(* doPendingFunctors takes all that wait. *)
SwapFunctors ==
  /\ LoopFree /\ todo = 0 /\ queue # <<>>
  /\ todo' = Len(queue)
  /\ UNCHANGED <<state, channelVars, output, queue, held, revents, callback,
                 removals, userVars, socketVars, sent, ups, downs>>

(* It calls the next one, f, and destroys them all after the last.         *)
Call(f) == /\ LoopFree
           /\ todo > 0 /\ Head(queue) = f
           /\ todo' = todo - 1
           /\ held' = (todo > 1 /\ (held \/ f \in Guarded))

(* The user is told at once that the connection is up. *)
ConnectEstablished ==
  /\ Call("connectEstablished")
  /\ queue' = Tail(queue)
  /\ state' = "kConnected"
  /\ Update(events \cup {"read"})
  /\ ups' = ups + 1
  /\ callback' = "up"
  /\ UNCHANGED <<output, revents, removals, userVars, socketVars, sent, downs>>

RunShutdown ==
  /\ Call("shutdownInLoop")
  /\ queue' = Tail(queue)
  /\ ShutdownInLoop
  /\ UNCHANGED <<state, channelVars, output, revents, callback, removals,
                 userVars, peer, soError, input, room, wire, sent, ups, downs>>

RunForceClose ==
  /\ Call("forceCloseInLoop")
  /\ queue' = Tail(queue)
  /\ ForceCloseInLoop
  /\ UNCHANGED <<output, revents, callback, userVars, socketVars, sent, ups>>

(* writeCompleteCallback_ does nothing here. *)
RunWriteComplete ==
  /\ Call("writeComplete")
  /\ queue' = Tail(queue)
  /\ UNCHANGED <<state, channelVars, output, revents, callback, removals,
                 userVars, socketVars, sent, ups, downs>>

(* The send of another thread. *)
RunSend(m) ==
  /\ Call(m)
  /\ SendInLoop(m, Tail(queue))
  /\ UNCHANGED <<state, revents, callback, removals, userVars, peer, soError,
                 input, fin, ups, downs>>

(* Mutant: the user is told whatever the state. *)
ConnectDestroyedTelling ==
  /\ Call("connectDestroyed")
  /\ queue' = Tail(queue)
  /\ state' = "kDisconnected" /\ downs' = downs + 1 /\ events' = {}
  /\ index' = "kNew"
  /\ UNCHANGED <<output, revents, callback, removals, userVars, socketVars,
                 sent, ups>>

(* Channel::remove takes the channel out of the epoll set in every case. *)
ConnectDestroyed ==
  /\ Call("connectDestroyed")
  /\ queue' = Tail(queue)
  /\ IF state = "kConnected"
       THEN state' = "kDisconnected" /\ downs' = downs + 1 /\ events' = {}
       ELSE UNCHANGED <<state, downs, events>>
  /\ index' = "kNew"
  /\ UNCHANGED <<output, revents, callback, removals, userVars, socketVars,
                 sent, ups>>

-----------------------------------------------------------------------------
(* The loop thread: events.                                                *)

(* epoll_wait returns.  closeCallback_ is for a hang-up with nothing to    *)
(* read only.                                                              *)
Poll ==
  /\ LoopFree /\ todo = 0
  /\ Ready # {}
  /\ revents' = IF "in" \in Ready THEN Ready \ {"hup"} ELSE Ready
  /\ UNCHANGED <<todo, held, state, channelVars, output, queue, callback,
                 removals, userVars, socketVars, sent, ups, downs>>

(* The handlers run in this order, one event each. *)
Dispatch(r) ==
  /\ callback = "none"
  /\ r \in revents
  /\ \A x \in revents : CASE r = "hup" -> TRUE
                          [] r = "err" -> x # "hup"
                          [] r = "in"  -> x \notin {"hup", "err"}
                          [] r = "out" -> x = "out"
  /\ revents' = revents \ {r}

HandleHup ==
  /\ Dispatch("hup")
  /\ HandleClose
  /\ UNCHANGED <<todo, held, output, queue, callback, userVars, socketVars,
                 sent, ups>>

(* handleError: getsockopt(SO_ERROR) clears the error. *)
HandleError ==
  /\ Dispatch("err")
  /\ soError' = FALSE
  /\ UNCHANGED <<todo, held, state, channelVars, output, queue, callback,
                 removals, userVars, peer, input, room, fin, wire, sent, ups,
                 downs>>

(* handleRead: data, if there is any, goes to messageCallback_. *)
HandleRead ==
  /\ Dispatch("in")
  /\ input
  /\ input' = FALSE
  /\ callback' = "message"
  /\ UNCHANGED <<todo, held, state, channelVars, output, queue, removals,
                 userVars, peer, soError, room, fin, wire, sent, ups, downs>>

(* handleRead: the read fails, which reports and clears the error.  This   *)
(* is the branch for a negative result as it is written; in the build a    *)
(* failed readv never comes back as one (FailingBufferSpec of Buffer.tla). *)
HandleReadFails ==
  /\ Dispatch("in")
  /\ ~input /\ soError
  /\ soError' = FALSE
  /\ UNCHANGED <<todo, held, state, channelVars, output, queue, callback,
                 removals, userVars, peer, input, room, fin, wire, sent, ups,
                 downs>>

(* Mutant: a read of no bytes is taken for no data. *)
HandleReadEndsQuietly ==
  /\ Dispatch("in")
  /\ ~input /\ ~soError
  /\ UNCHANGED <<state, channelVars, downs, removals>>
  /\ UNCHANGED <<todo, held, output, queue, callback, userVars, socketVars,
                 sent, ups>>

(* handleRead: the end of the stream closes the connection. *)
HandleReadEnds ==
  /\ Dispatch("in")
  /\ ~input /\ ~soError
  /\ HandleClose
  /\ UNCHANGED <<todo, held, output, queue, callback, userVars, socketVars,
                 sent, ups>>

(* handleWrite: with the last byte EPOLLOUT is no longer asked for, and a  *)
(* shutdown that waited for it is done.                                    *)
HandleWrite ==
  /\ Dispatch("out")
  /\ \E k \in 0..Len(output) :
       /\ IF "write" \in events /\ ~Fault THEN Takes(Len(output), k) ELSE k = 0
       /\ wire' = wire \o SubSeq(output, 1, k)
       /\ output' = SubSeq(output, k + 1, Len(output))
       /\ room' = (room /\ (k = Len(output) \/ "write" \notin events \/ Fault))
       /\ IF k > 0 /\ k = Len(output)
            THEN /\ Update(events \ {"write"})
                 /\ queue' = Append(queue, "writeComplete")
                 /\ fin' = (fin \/ state = "kDisconnecting")
            ELSE UNCHANGED <<channelVars, queue, fin>>
  /\ UNCHANGED <<todo, held, state, callback, removals, userVars, peer,
                 soError, input, sent, ups, downs>>

-----------------------------------------------------------------------------
(* The loop thread: the user's code in connectionCallback_ and             *)
(* messageCallback_.                                                       *)

InCallback == callback # "none"

UserSends ==
  /\ InCallback /\ given < Len(Messages)
  /\ given' = given + 1
  /\ IF state = "kConnected"
       THEN SendInLoop(Messages[given'], queue)
       ELSE UNCHANGED <<output, queue, wire, sent, room, channelVars>>
  /\ UNCHANGED <<todo, held, state, revents, callback, removals, pc,
                 closes, late, peer, soError, input, fin, ups, downs>>

UserShutsDown ==
  /\ InCallback
  /\ state = "kConnected"
  /\ state' = "kDisconnecting"
  /\ ShutdownInLoop
  /\ UNCHANGED <<todo, held, channelVars, output, queue, revents, callback,
                 removals, userVars, peer, soError, input, room, wire, sent,
                 ups, downs>>

UserForceCloses ==
  /\ InCallback
  /\ ForceCloseInLoop
  /\ UNCHANGED <<todo, held, output, queue, revents, callback, userVars,
                 socketVars, sent, ups>>

UserReturns ==
  /\ InCallback
  /\ callback' = "none"
  /\ UNCHANGED <<todo, held, state, channelVars, output, queue, revents,
                 removals, userVars, socketVars, sent, ups, downs>>

-----------------------------------------------------------------------------
(* Other threads.  They hold a reference until their call returns; one     *)
(* that a thread keeps between its calls is its own affair.                *)

ThreadUnchanged ==
  UNCHANGED <<todo, held, channelVars, output, revents, callback, removals,
              socketVars, sent, ups, downs>>

At(t, where, what) == pc[t] = <<where, what>>
Goto(t, where, what) == pc' = [pc EXCEPT ![t] = <<where, what>>]

(* send: state_ is tested. *)
ThreadSends(t) ==
  /\ "send" \in ThreadCalls
  /\ At(t, "idle", "idle") /\ given < Len(Messages) /\ ups > 0
  /\ state = "kConnected"
  /\ given' = given + 1
  /\ Goto(t, "push", Messages[given'])
  /\ UNCHANGED <<state, queue, closes, late>> /\ ThreadUnchanged

(* shutdown and forceClose: state_ is tested. *)
ThreadCloses(t, call) ==
  /\ call \in ThreadCalls \ {"send"} /\ closes < MaxCloses
  /\ At(t, "idle", "idle") /\ ups > 0
  /\ state = "kConnected" \/ (call = "forceClose" /\ state = "kDisconnecting")
  /\ Goto(t, "set", call)
  /\ closes' = closes + 1
  /\ UNCHANGED <<state, queue, given, late>> /\ ThreadUnchanged

(* shutdown and forceClose: state_ is set, whatever it has become. *)
ThreadSetsState(t, call) ==
  /\ At(t, "set", call)
  /\ state' = "kDisconnecting"
  /\ late' = IF state = "kDisconnected" THEN late + 1 ELSE late
  /\ Goto(t, "push",
          IF call = "shutdown" THEN "shutdownInLoop" ELSE "forceCloseInLoop")
  /\ UNCHANGED <<queue, given, closes>> /\ ThreadUnchanged

(* The functor is queued; the caller's reference goes. *)
ThreadPushes(t) ==
  /\ pc[t][1] = "push"
  /\ queue' = Append(queue, pc[t][2])
  /\ Goto(t, "idle", "idle")
  /\ UNCHANGED <<state, given, closes, late>> /\ ThreadUnchanged

-----------------------------------------------------------------------------
(* The peer and the kernel.                                                *)

PeerUnchanged ==
  UNCHANGED <<todo, held, state, channelVars, output, queue, revents, callback,
              removals, userVars, fin, wire, sent, ups, downs>>

PeerSends ==
  /\ peer = "open" /\ ~input
  /\ input' = TRUE
  /\ UNCHANGED <<peer, soError, room>> /\ PeerUnchanged

PeerCloses ==
  /\ peer = "open"
  /\ peer' = "closed"
  /\ UNCHANGED <<input, soError, room>> /\ PeerUnchanged

PeerResets ==
  /\ peer # "reset"
  /\ peer' = "reset" /\ soError' = TRUE
  /\ UNCHANGED <<input, room>> /\ PeerUnchanged

(* The peer acknowledges what fills the send buffer. *)
Drain ==
  /\ ~room
  /\ room' = TRUE
  /\ UNCHANGED <<peer, soError, input>> /\ PeerUnchanged

-----------------------------------------------------------------------------

LoopStep ==
  \/ SwapFunctors
  \/ ConnectEstablished \/ RunShutdown \/ RunForceClose \/ RunWriteComplete
  \/ ConnectDestroyed \/ \E m \in ToSet(Messages) : RunSend(m)
  \/ Poll \/ HandleHup \/ HandleError \/ HandleRead \/ HandleReadFails
  \/ HandleReadEnds \/ HandleWrite \/ UserReturns

UserStep == UserShutsDown \/ UserForceCloses \/ UserSends

ThreadReturns(t) ==
  ThreadPushes(t) \/ \E call \in CallNames : ThreadSetsState(t, call)

ThreadStep(t) ==
  \/ ThreadReturns(t)
  \/ ThreadSends(t)
  \/ \E call \in CallNames : ThreadCloses(t, call)

PeerStep == PeerSends \/ PeerCloses \/ PeerResets \/ Drain

-----------------------------------------------------------------------------
(* Properties.                                                             *)

ConnTypeOK ==
  /\ state \in States
  /\ events \subseteq {"read", "write"}
  /\ index \in {"kNew", "kAdded", "kDeleted"}
  /\ queue \in Seq(Guarded \cup Raw)
  /\ revents \subseteq {"hup", "err", "in", "out"}
  /\ callback \in {"none", "up", "message"}
  /\ todo \in 0..Len(queue)
  /\ removals \in Nat /\ ups \in Nat /\ downs \in Nat
  /\ peer \in {"open", "closed", "reset"}
  /\ held \in BOOLEAN /\ soError \in BOOLEAN /\ input \in BOOLEAN
  /\ room \in BOOLEAN /\ fin \in BOOLEAN

(* The bytes sendInLoop took on reach the socket in order and without a    *)
(* gap, whether written at once or from outputBuffer_ (TcpConnection.cc:   *)
(* 116-155 and 233-241).                                                   *)
BytesInOrder == sent = wire \o output

(* The peer sees the end of the stream after the last byte, not before,    *)
(* unless the connection was closed with bytes waiting (TcpConnection.cc:  *)
(* 184-192 and 250-254).                                                   *)
FinAfterBytes == fin => output = <<>> \/ downs > 0

(* The peer reads what was sent, in order and whole, and then the end.     *)
StreamInOrder == BytesInOrder /\ FinAfterBytes

(* Bytes that wait are not forgotten: until the connection is closed or    *)
(* destroyed, EPOLLOUT is asked for (TcpConnection.cc:152-154 and          *)
(* 239-242).                                                               *)
WaitingBytesAreWatched ==
  output # <<>> /\ downs = 0 /\ index # "kNew" =>
    index = "kAdded" /\ "write" \in events

(* Until it is closed or destroyed a connection is read from, half closed  *)
(* or not (TcpConnection.cc:175-183 and 194-209).                          *)
OpenAreRead ==
  /\ state = "kConnected" => index = "kAdded"
  /\ state \in {"kConnected", "kDisconnecting"} /\ downs = 0 /\ index # "kNew" =>
       index = "kAdded" /\ "read" \in events

(* The plain form of DownOnce of TcpServer: the user is told at most once  *)
(* that the connection is down (TcpConnection.cc:168-173).  A shutdown or  *)
(* a forceClose of another thread that has tested state_ before            *)
(* handleClose and sets it afterwards breaks it.                           *)
DownAtMostOnce == downs <= 1

(* The plain form of ClosedAreSilent of TcpServer: what is disconnected is *)
(* out of the epoll set (TcpConnection.cc:268-269, EPollPoller.cc:55-69).  *)
DisconnectedHasLeft == state = "kDisconnected" => index # "kAdded"
=============================================================================

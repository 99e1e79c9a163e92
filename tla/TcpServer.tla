----------------------------- MODULE TcpServer -----------------------------
(***************************************************************************)
(* src/src/TcpServer.cc: the life of one connection, from accept on the    *)
(* base loop to connectDestroyed on its I/O loop, across the two loops'    *)
(* queues, and the destruction of the server.  The connection is that of   *)
(* TcpConnection.tla.  The threads of a server are two here; with none the *)
(* base loop is the I/O loop and removals are immediate, which is one of   *)
(* the schedules of this model.                                            *)
(***************************************************************************)
EXTENDS TcpConnection

VARIABLES
  inMap,   \* connections_ holds the connection
  phase    \* the server: "listening", "serving" or "gone"

serverVars == <<inMap, phase>>
vars == <<connVars, serverVars>>

Init == ConnInit /\ inMap = FALSE /\ phase = "listening"

-----------------------------------------------------------------------------

ConnUnchangedBut(q) ==
  /\ queue' = q
  /\ UNCHANGED <<state, channelVars, output, todo, held, revents, callback, userVars,
                 socketVars, sent, ups, downs>>

(* Acceptor::handleRead and newConnection. *)
NewConnection ==
  /\ phase = "listening"
  /\ phase' = "serving"
  /\ inMap' = TRUE
  /\ ConnUnchangedBut(Append(queue, "connectEstablished"))
  /\ UNCHANGED removals

(* Mutant: the map's reference goes and connectDestroyed is not queued. *)
RemoveConnectionDropping ==
  /\ phase = "serving"
  /\ removals > 0
  /\ removals' = removals - 1
  /\ inMap' = FALSE
  /\ ConnUnchangedBut(queue)
  /\ UNCHANGED phase

(* removeConnectionInLoop on the base loop. *)
RemoveConnection ==
  /\ phase = "serving"
  /\ removals > 0
  /\ removals' = removals - 1
  /\ inMap' = FALSE
  /\ ConnUnchangedBut(Append(queue, "connectDestroyed"))
  /\ UNCHANGED phase

(* ~TcpServer once the base loop has ended: what was queued on the base    *)
(* loop will not run.                                                      *)
DestroyServer ==
  /\ phase \in {"listening", "serving"}
  /\ phase' = "gone"
  /\ inMap' = FALSE
  /\ removals' = 0
  /\ ConnUnchangedBut(IF inMap THEN Append(queue, "connectDestroyed") ELSE queue)

Connection(A) == A /\ UNCHANGED serverVars

Next ==
  \/ NewConnection \/ RemoveConnection \/ DestroyServer
  \/ Connection(LoopStep)
  \/ Connection(UserStep)
  \/ Connection(PeerStep)
  \/ Connection(\E t \in Threads : ThreadStep(t))

Spec == Init /\ [][Next]_vars

Serving(A) == phase = "serving" /\ Connection(A)

(* Both loops run and callbacks return; after the events come the functors *)
(* (EventLoop.cc:69-77), so they are not put off for ever.  Threads in a   *)
(* call are scheduled; the peer takes in what it is sent, or resets.  Once *)
(* the server is gone, ~EventLoopThread makes the I/O loop quit: it may    *)
(* stop after any step.                                                    *)
Fairness ==
  /\ WF_vars(RemoveConnection)
  /\ WF_vars(Serving(LoopStep)) /\ SF_vars(Serving(SwapFunctors))
  /\ WF_vars(Serving(Drain))
  /\ \A t \in Threads : WF_vars(Serving(ThreadReturns(t)))

FairSpec == Spec /\ Fairness

-----------------------------------------------------------------------------
(* Properties.                                                             *)

(* A disconnected connection waits for nothing and has left the epoll set, *)
(* so that no event reaches it.  As long as the server is there, only a    *)
(* late store of kDisconnecting can bring it back: forceCloseInLoop then   *)
(* calls handleClose once more, and disableAll adds a channel that is not  *)
(* in the set (TcpConnection.cc:158-183 and 265-276, EPollPoller.cc:       *)
(* 55-69).                                                                 *)
ClosedAreSilent ==
  state = "kDisconnected" =>
    events = {} /\ (index # "kAdded" \/ late > 0 \/ phase = "gone")

(* The epoll set and the connection agree about what is waited for.        *)
EventsAsWanted ==
  ConnTypeOK /\ OpenAreRead /\ ClosedAreSilent /\ WaitingBytesAreWatched

(* The user is told once that the connection is up; no connection becomes  *)
(* disconnected without the user being told; and it is told once: by the   *)
(* end of the stream, a hang-up, a forceClose or the destruction of the    *)
(* server (TcpConnection.cc:168-173, 202-209, 265-276).  A late store of   *)
(* kDisconnecting over kDisconnected costs two reports more at most, one   *)
(* by the forceCloseInLoop it lets through and one by the hang-up of the   *)
(* channel that this has put back into the epoll set; and once the server  *)
(* is gone, connectDestroyed may have removed a half closed connection     *)
(* without a word, whose forceCloseInLoop puts it back as well.            *)
DownOnce ==
  /\ ups <= 1 /\ (downs > 0 => ups = 1)
  /\ state = "kDisconnected" => downs > late
  /\ downs <= 1 + 2 * late + (IF phase = "gone" THEN 1 ELSE 0)

Alive == Referenced \/ inMap

(* README.md:46: shared_from_this and weak_ptr keep a connection alive     *)
(* against the threads that share it, and there are no dangling pointers:  *)
(* while the server exists, a functor that captured this and no reference  *)
(* runs on a connection that exists (TcpConnection.cc:123, 179, 246).      *)
NoDanglingFunctor ==
  phase = "serving" /\ queue # <<>> /\ Head(queue) \in Raw => Alive

Destroyed == ~Alive /\ index = "kNew" /\ phase # "listening"

(* What was closed is destroyed: taken out of the map by the base loop and *)
(* out of the epoll set by the I/O loop, and no reference to it is left    *)
(* (TcpServer.cc:97-113, TcpConnection.cc:202-209).                        *)
ClosedAreDestroyed == (downs > 0) ~> (Destroyed \/ phase = "gone")

(* The end or the reset of the peer's stream is noticed and closes the     *)
(* connection (Channel.cc:48-71, TcpConnection.cc:211-228).                *)
PeerEndNoticed ==
  (peer # "open" /\ ups > 0) ~> (downs > 0 \/ phase = "gone")

(* After shutdown the bytes that wait are still sent, and the end of the   *)
(* stream follows them, unless the connection is closed or destroyed       *)
(* (TcpConnection.cc:175-192 and 250-254).                                 *)
HalfCloseCompletes ==
  (state = "kDisconnecting")
     ~> (fin \/ state = "kDisconnected" \/ index = "kNew" \/ phase = "gone")

(* Whichever side closes first, and half or wholly, the close is carried   *)
(* through to the end.                                                     *)
ClosesComplete == ClosedAreDestroyed /\ HalfCloseCompletes
=============================================================================

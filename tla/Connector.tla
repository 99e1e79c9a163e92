------------------------------ MODULE Connector -------------------------------
(***************************************************************************)
(* src/src/Connector.cc: attempts to connect, on the loop they belong to.  *)
(* The operators are the member functions; q is the loop's queue and t the *)
(* number of retry timers as the caller leaves them.  A module that owns a *)
(* connector extends this one and gives it its loop and its callbacks.     *)
(***************************************************************************)
EXTENDS Naturals, Sequences

CONSTANTS
  Retrying,    \* retry_, as enableRetry sets it
  Reporting,   \* errorCallback_ is set
  Fds          \* bound: the descriptors a process may have

ASSUME ConnectorAssumption ==
  /\ Retrying \in BOOLEAN /\ Reporting \in BOOLEAN
  /\ Fds \subseteq Nat \ {0}

None == 0   \* no descriptor

VARIABLES
  state,       \* state_
  connect,     \* connect_
  channel,     \* channel_, by its descriptor; None when it is null
  fds,         \* descriptors that are open
  queue,       \* functors on the loop's queue
  retryTimers  \* timers that will call start()

connectorVars == <<state, connect, channel, fds, queue, retryTimers>>

ConnectorInit ==
  /\ state = "kDisconnected" /\ connect = FALSE /\ channel = None
  /\ fds = {} /\ queue = <<>> /\ retryTimers = 0

ConnectorTypeOK ==
  /\ state \in {"kDisconnected", "kConnecting", "kConnected"}
  /\ connect \in BOOLEAN
  /\ channel \in Fds \cup {None} /\ fds \subseteq Fds
  /\ retryTimers \in Nat

(* socket() gives the lowest descriptor that is free. *)
Free(fd, open) == fd \in Fds \ open /\ \A x \in Fds \ open : fd <= x

-----------------------------------------------------------------------------

(* connecting: an old channel is dropped, its descriptor closed. *)
Connecting(fd, q, t) ==
  /\ state' = "kConnecting"
  /\ channel' = fd
  /\ fds' = (fds \ {channel}) \cup {fd}
  /\ queue' = q /\ retryTimers' = t

(* retry: this descriptor is closed; then a timer, or the error callback.  *)
(* The descriptor of a channel left from an earlier attempt stays open.    *)
Retry(fd, err, wanted, q, t) ==
  /\ state' = "kDisconnected"
  /\ channel' = None
  /\ fds' = fds \ {fd}
  /\ retryTimers' = IF wanted /\ Retrying THEN t + 1 ELSE t
  /\ queue' = IF ~Retrying /\ Reporting THEN Append(q, <<"error", err>>) ELSE q

(* connect: errors that connect() returns at once are retried, but for     *)
(* those of the default case, of which nobody hears.                       *)
Connect(q, t) ==
  \/ \E fd \in Fds : Free(fd, fds) /\ Connecting(fd, q, t)
  \/ \E fd \in Fds, err \in {"EAGAIN", "ECONNREFUSED"} :
       Free(fd, fds) /\ Retry(fd, err, TRUE, q, t)
  \/ /\ Fds # fds
     /\ queue' = q /\ retryTimers' = t /\ UNCHANGED <<state, channel, fds>>

(* start(), called on the loop thread. *)
Start(q, t) == connect' = TRUE /\ Connect(q, t)

(* stop(): the rest is a functor's. *)
Stop(q) ==
  /\ connect' = FALSE
  /\ queue' = Append(q, <<"stopInLoop">>)
  /\ UNCHANGED <<state, channel, fds, retryTimers>>

(* stopInLoop: the channel goes, its descriptor stays open. *)
StopInLoop(q) ==
  /\ state' = "kDisconnected"
  /\ channel' = None
  /\ queue' = q
  /\ UNCHANGED <<connect, fds, retryTimers>>

(* handleWrite, connected, but stop() was called: the descriptor is closed *)
(* under the channel, which stays registered.                              *)
ConnectedUnwanted ==
  /\ state' = "kConnected"
  /\ fds' = fds \ {channel}
  /\ UNCHANGED <<connect, channel, queue, retryTimers>>

(* handleWrite, connected: the descriptor goes to newConnectionCallback_.  *)
Connected ==
  /\ state' = "kConnected"
  /\ channel' = None
  /\ UNCHANGED <<connect, retryTimers>>
=============================================================================

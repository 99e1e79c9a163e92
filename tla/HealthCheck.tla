------------------------------ MODULE HealthCheck -----------------------------
(***************************************************************************)
(* src/Proxy/src/L4/HealthCheck: one CheckerTask, its TcpClient and        *)
(* Connector, and the ServerNode it reports on, on the checker's loop.     *)
(*                                                                         *)
(* An iteration of the loop is Poll, then timers and the channel's events  *)
(* in either order, then the functors queued by then.  The timers that are *)
(* due ring in one batch in the order of their deadlines: a probe's, 2 s   *)
(* after its start, before the pacing timer that starts the next, 3 s      *)
(* after (CheckerTask.cc:41, HealthChecker.h:17).                          *)
(***************************************************************************)
EXTENDS Connector

CONSTANTS
  SuccessStandard, FailStandard,   \* success_standard_, fail_standard_
  Punctual,                        \* the loop is never a second late
  MaxProbes                        \* bound: probes started

ASSUME HealthAssumption ==
  /\ SuccessStandard \in Nat \ {0} /\ FailStandard \in Nat \ {0}
  /\ Punctual \in BOOLEAN /\ MaxProbes \in Nat

VARIABLES
  todo,        \* functors doPendingFunctors has taken and not run
  batch,       \* the timers of this iteration; "none" outside its events
  revents,     \* the channel's events that are not handled yet
  soError,     \* SO_ERROR of the channel's socket is set
  conn,        \* TcpClient's conn_, by its descriptor
  determined,  \* has_determined_
  probing,     \* is_probing_
  armed,       \* the timer *timerId_ waits
  node,        \* the ServerNode
  probe,       \* history: probes started
  verdicts     \* history: updateStatus calls, [probe, success]

loopVars == <<todo, batch>>
taskVars == <<determined, probing, armed, node, probe, verdicts>>
vars == <<connectorVars, loopVars, revents, soError, conn, taskVars>>

TypeOK ==
  /\ ConnectorTypeOK
  /\ todo \in 0..Len(queue) /\ batch \in {"none", "due", "ringing", "rung"}
  /\ revents \subseteq {"err", "out"} /\ soError \in BOOLEAN
  /\ conn \in Fds \cup {None}
  /\ determined \in BOOLEAN /\ probing \in BOOLEAN /\ armed \in BOOLEAN
  /\ probe \in 0..MaxProbes
  /\ node \in [alive : BOOLEAN, successes : 0..SuccessStandard,
               failures : 0..FailStandard]

Init ==
  /\ ConnectorInit
  /\ todo = 0 /\ batch = "none"
  /\ revents = {} /\ soError = FALSE /\ conn = None
  /\ determined = FALSE /\ probing = FALSE /\ armed = FALSE
  /\ node = [alive |-> TRUE, successes |-> 0, failures |-> 0]
  /\ probe = 0 /\ verdicts = <<>>

-----------------------------------------------------------------------------
(* The loop.                                                               *)

(* epoll_wait: the connector's socket is connected, or failed, or quiet.   *)
Poll ==
  /\ batch = "none" /\ todo = 0
  /\ batch' = "due"
  /\ \/ soError' = soError /\ revents' = {}
     \/ /\ channel # None /\ channel \in fds
        /\ \/ soError' = FALSE /\ revents' = {"out"}
           \/ soError' = TRUE /\ revents' \in {{"out"}, {"err", "out"}}
  /\ UNCHANGED <<connectorVars, todo, conn, taskVars>>

SwapFunctors ==
  /\ batch # "none" /\ revents = {}
  /\ batch' = "none" /\ todo' = Len(queue)
  /\ UNCHANGED <<connectorVars, revents, soError, conn, taskVars>>

(* The channel's events are whole: not one of two has been handled. *)
TimersTurn == /\ batch \in {"due", "ringing"}
              /\ revents # {} => channel # None

ChannelsTurn == /\ revents # {} /\ UNCHANGED todo
                /\ batch' = IF batch = "ringing" THEN "rung" ELSE batch

Least(x, y) == IF x < y THEN x ELSE y

(* Mutant: a success does not end a run of failures. *)
UpdateStatusKeepingFailures(n, success) ==
  IF success
    THEN LET s == Least(n.successes + 1, SuccessStandard) IN
         [n EXCEPT !.successes = s, !.alive = @ \/ s = SuccessStandard]
    ELSE LET f == Least(n.failures + 1, FailStandard) IN
         [successes |-> 0, failures |-> f, alive |-> n.alive /\ f < FailStandard]

UpdateStatus(n, success) ==
  IF success
    THEN LET s == Least(n.successes + 1, SuccessStandard) IN
         [successes |-> s, failures |-> 0, alive |-> n.alive \/ s = SuccessStandard]
    ELSE LET f == Least(n.failures + 1, FailStandard) IN
         [successes |-> 0, failures |-> f, alive |-> n.alive /\ f < FailStandard]

Judge(success) ==
  /\ determined' = TRUE
  /\ probing' = FALSE
  /\ node' = UpdateStatus(node, success)
  /\ verdicts' = Append(verdicts, [probe |-> probe, success |-> success])

(* CheckerTask::start, from the pacing timer, after the timer of the probe *)
(* before, and so never while that is under way.  connecting() destroys a  *)
(* channel that is left, events and all: what handleEvent makes of it then *)
(* is not followed.                                                        *)
StartProbe ==
  /\ TimersTurn /\ batch' = "rung"
  /\ ~armed /\ ~probing /\ probe < MaxProbes
  /\ Punctual => queue = <<>>
  /\ probing' = TRUE /\ determined' = FALSE
  /\ Start(queue, retryTimers)
  /\ revents' = IF channel' \in {channel, None} THEN revents ELSE {}
  /\ probe' = probe + 1
  /\ armed' = TRUE
  /\ UNCHANGED <<todo, soError, conn, node, verdicts>>

(* Mutant: the timeout leaves the client connecting. *)
OnTimeoutNotStopping ==
  /\ TimersTurn /\ batch' = "ringing"
  /\ armed /\ armed' = FALSE
  /\ IF determined THEN UNCHANGED <<determined, probing, node, verdicts>>
                   ELSE Judge(FALSE)
  /\ UNCHANGED <<connectorVars, todo, revents, soError, conn, probe>>

(* onTimeout; client_->stop() finds conn_ null or closed. *)
OnTimeout ==
  /\ TimersTurn /\ batch' = "ringing"
  /\ armed /\ armed' = FALSE
  /\ IF determined
       THEN UNCHANGED <<connectorVars, determined, probing, node, verdicts>>
       ELSE Judge(FALSE) /\ Stop(queue)
  /\ UNCHANGED <<todo, revents, soError, conn, probe>>

-----------------------------------------------------------------------------
(* The connector's channel.                                                *)

HandleError ==
  /\ "err" \in revents /\ channel # None /\ ChannelsTurn
  /\ revents' = revents \ {"err"}
  /\ soError' = FALSE
  /\ Retry(channel, "ECONNREFUSED", connect, queue, retryTimers) /\ UNCHANGED connect
  /\ UNCHANGED <<conn, taskVars>>

WriteTurn == revents = {"out"} /\ revents' = {} /\ ChannelsTurn

(* handleError came first and has given the attempt up. *)
HandleWriteTooLate ==
  /\ WriteTurn /\ state # "kConnecting"
  /\ UNCHANGED <<connectorVars, soError, conn, taskVars>>

HandleWriteFails ==
  /\ WriteTurn /\ state = "kConnecting" /\ soError
  /\ soError' = FALSE
  /\ Retry(channel, "ECONNREFUSED", connect, queue, retryTimers) /\ UNCHANGED connect
  /\ UNCHANGED <<conn, taskVars>>

HandleWriteUnwanted ==
  /\ WriteTurn /\ state = "kConnecting" /\ ~soError /\ ~connect
  /\ ConnectedUnwanted
  /\ UNCHANGED <<soError, conn, taskVars>>

(* TcpClient::newConnection: connectEstablished calls onConnection, which  *)
(* judges and forces the close; handleClose calls onConnection again and   *)
(* removeConnection, which resets conn_.  Back in newConnection the closed  *)
(* connection is stored in conn_, and the one that was there goes with its *)
(* descriptor.                                                             *)
HandleWriteConnects ==
  /\ WriteTurn /\ state = "kConnecting" /\ ~soError /\ connect /\ ~determined
  /\ Connected
  /\ fds' = fds \ {conn}
  /\ conn' = channel
  /\ armed' = FALSE
  /\ Judge(TRUE)
  /\ UNCHANGED <<queue, soError, probe>>

-----------------------------------------------------------------------------
(* Functors.                                                               *)

Call(f) ==
  /\ todo > 0 /\ Head(queue)[1] = f
  /\ todo' = todo - 1
  /\ UNCHANGED <<batch, revents, soError, conn>>

RunStopInLoop == Call("stopInLoop") /\ StopInLoop(Tail(queue)) /\ UNCHANGED taskVars

(* Mutant: onError does not ask whether the probe was determined. *)
OnErrorRegardless ==
  /\ Call("error") /\ determined
  /\ armed' = FALSE
  /\ Judge(FALSE)
  /\ Stop(Tail(queue))
  /\ UNCHANGED probe

(* onError after the probe was determined. *)
OnErrorTooLate ==
  /\ Call("error") /\ determined
  /\ queue' = Tail(queue)
  /\ UNCHANGED <<state, connect, channel, fds, retryTimers, taskVars>>

(* onError for want of local resources: no verdict, and the timer stays. *)
OnErrorSkips ==
  /\ Call("error") /\ ~determined /\ Head(queue)[2] = "EAGAIN"
  /\ determined' = TRUE /\ probing' = FALSE
  /\ queue' = Tail(queue)
  /\ UNCHANGED <<state, connect, channel, fds, retryTimers, armed, node,
                 probe, verdicts>>

(* Mutant: is_probing_ is left set. *)
OnErrorStillProbing ==
  /\ Call("error") /\ ~determined /\ Head(queue)[2] # "EAGAIN"
  /\ armed' = FALSE
  /\ determined' = TRUE
  /\ node' = UpdateStatus(node, FALSE)
  /\ verdicts' = Append(verdicts, [probe |-> probe, success |-> FALSE])
  /\ Stop(Tail(queue))
  /\ UNCHANGED <<probing, probe>>

OnError ==
  /\ Call("error") /\ ~determined /\ Head(queue)[2] # "EAGAIN"
  /\ armed' = FALSE
  /\ Judge(FALSE)
  /\ Stop(Tail(queue))
  /\ UNCHANGED probe

-----------------------------------------------------------------------------

Handle == \/ HandleError \/ HandleWriteTooLate \/ HandleWriteFails
          \/ HandleWriteUnwanted \/ HandleWriteConnects

Functors == RunStopInLoop \/ OnErrorTooLate \/ OnErrorSkips \/ OnError

Loop == Poll \/ Handle \/ SwapFunctors \/ Functors

Next == StartProbe \/ OnTimeout \/ Loop

Spec == Init /\ [][Next]_vars

(* The loop runs; a timer that is due makes the timerfd readable until an  *)
(* iteration rings it.  Neither the backend nor the network need answer.   *)
FairSpec == Spec /\ WF_vars(Loop) /\ SF_vars(OnTimeout)

-----------------------------------------------------------------------------
(* Properties.                                                             *)

(* handleWrite and handleError find a channel with an open descriptor,     *)
(* whatever the callback before them in the same event has done            *)
(* (Connector.cc:102-107, 152-153, 207-216).                               *)
AttemptHasChannel ==
  /\ state = "kConnecting" => channel \in fds
  /\ "err" \in revents => channel # None

(* A probe ends in one verdict at most, whichever of the connection, the   *)
(* error and the timeout come, and in which order (CheckerTask.cc:46-105). *)
OneVerdictPerProbe ==
  \A i, j \in 1..Len(verdicts) : verdicts[i].probe = verdicts[j].probe => i = j

(* A connection comes up only for a probe that still waits for it; in any  *)
(* other onConnection would return and leave it open                       *)
(* (CheckerTask.cc:62-66).                                                 *)
NoConnectionUnasked == state = "kConnecting" /\ connect => ~determined

(* An attempt has a socket as long as it lasts, and a probe that wants it. *)
AttemptsAreWanted == TypeOK /\ AttemptHasChannel /\ NoConnectionUnasked

LastAre(n, success) ==
  /\ Len(verdicts') >= n
  /\ \A i \in (Len(verdicts') - n + 1)..Len(verdicts') :
       verdicts'[i].success = success

(* A node dies of FailStandard failures in a row, not of fewer, and comes  *)
(* back after SuccessStandard successes in a row (ServerNode.h:15-36).     *)
FlipsNeedARow ==
  [][/\ node.alive /\ ~node'.alive => LastAre(FailStandard, FALSE)
     /\ ~node.alive /\ node'.alive => LastAre(SuccessStandard, TRUE)]_vars

(* A probe ends, even if nothing is ever heard from the backend, so that   *)
(* the next may start (CheckerTask.cc:31-44).                              *)
ProbesEnd == probing ~> ~probing

(* What the code does not keep.                                            *)

(* Connector.cc:154: "the channel must be cleaned up before ::close".      *)
RegisteredIsOpen == channel # None => channel \in fds

(* A descriptor that is open belongs to the channel or to conn_.           *)
NoDescriptorLost == fds \subseteq {channel, conn}

(* Connector.cc:160: a channel is destroyed only "when this round of event *)
(* dispatch has ended".  Fails when Punctual is FALSE.                     *)
DestroyedAfterDispatch ==
  [][batch' = "rung" /\ revents # {} => channel' \in {channel, None}]_vars

(* The functor of a stop() does not stop the attempt of a later start().   *)
(* Fails when Punctual is FALSE.                                           *)
StopsOwnAttempt ==
  [][RunStopInLoop => ~connect]_vars
=============================================================================

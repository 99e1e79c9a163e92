--------------------------- MODULE HealthCheckProofs --------------------------
(***************************************************************************)
(* For any number of probes and descriptors and any standards: a probe is  *)
(* judged once at most and a node flips after a row of verdicts, also on a *)
(* loop that is late; on one that is not, an attempt to connect has its    *)
(* socket and a probe that waits for it.                                   *)
(***************************************************************************)
EXTENDS HealthCheck, SequenceTheorems, TLAPS

Verdicts == [probe : Nat, success : BOOLEAN]

(* Verdicts are about probes that were started; while the last probe is    *)
(* undetermined it has none.                                               *)
VerdictInv ==
  /\ probe \in Nat
  /\ verdicts \in Seq(Verdicts)
  /\ \A i \in 1..Len(verdicts) :
       /\ verdicts[i].probe <= probe
       /\ ~determined => verdicts[i].probe < probe
  /\ OneVerdictPerProbe

LEMMA VerdictsAreTyped ==
  ASSUME verdicts \in Seq(Verdicts)
  PROVE  \A i \in 1..Len(verdicts) : verdicts[i].probe \in Nat
<1> SUFFICES ASSUME NEW i \in 1..Len(verdicts) PROVE verdicts[i].probe \in Nat
  OBVIOUS
<1>1. verdicts[i] \in Verdicts
  OBVIOUS
<1> QED BY <1>1 DEF Verdicts

(* A verdict on a probe that was undetermined is its only one              *)
(* (CheckerTask.cc:46-105: has_determined_ is set with the verdict).       *)
LEMMA JudgeOnce ==
  ASSUME VerdictInv, ~determined, probe' = probe,
         NEW success \in BOOLEAN, Judge(success)
  PROVE  VerdictInv'
<1> DEFINE new == [probe |-> probe, success |-> success]
<1>1. new \in Verdicts
  BY DEF VerdictInv, Verdicts
<1>2. /\ verdicts \in Seq(Verdicts)
      /\ verdicts' = Append(verdicts, new)
      /\ determined'
  BY DEF VerdictInv, Judge
<1>3. /\ verdicts' \in Seq(Verdicts)
      /\ Len(verdicts') = Len(verdicts) + 1
      /\ \A i \in 1..Len(verdicts) : verdicts'[i] = verdicts[i]
      /\ verdicts'[Len(verdicts) + 1] = new
  <2> HIDE DEF new
  <2> QED BY <1>1, <1>2
<1>4. \A i \in 1..Len(verdicts) : verdicts[i].probe \in Nat
  BY VerdictsAreTyped, <1>2
<1>5. \A i \in 1..Len(verdicts) : verdicts'[i].probe < probe
  BY <1>3, <1>4 DEF VerdictInv
<1>6. verdicts'[Len(verdicts) + 1].probe = probe
  BY <1>3
<1>7. Len(verdicts) \in Nat
  BY <1>2
<1>8. \A i \in 1..Len(verdicts') : verdicts'[i].probe <= probe'
  BY <1>3, <1>4, <1>5, <1>6, <1>7 DEF VerdictInv
<1>9. OneVerdictPerProbe'
  <2> SUFFICES ASSUME NEW i \in 1..Len(verdicts'), NEW j \in 1..Len(verdicts'),
                      verdicts'[i].probe = verdicts'[j].probe
               PROVE  i = j
    BY DEF OneVerdictPerProbe
  <2>1. CASE i \in 1..Len(verdicts) /\ j \in 1..Len(verdicts)
    BY <2>1, <1>3 DEF VerdictInv, OneVerdictPerProbe
  <2>2. CASE i = Len(verdicts) + 1 /\ j \in 1..Len(verdicts)
    BY <2>2, <1>4, <1>3, <1>5, <1>6 DEF VerdictInv
  <2>3. CASE j = Len(verdicts) + 1 /\ i \in 1..Len(verdicts)
    BY <2>3, <1>4, <1>3, <1>5, <1>6 DEF VerdictInv
  <2> QED BY <2>1, <2>2, <2>3, <1>3, <1>7
<1> QED BY <1>2, <1>3, <1>8, <1>9 DEF VerdictInv

(* A step that judges nothing keeps what was judged; only start() makes a  *)
(* probe undetermined, and it is a new one.                                *)
LEMMA NotJudging ==
  ASSUME VerdictInv, verdicts' = verdicts,
         \/ probe' = probe /\ (determined => determined')
         \/ probe' = probe + 1
  PROVE  VerdictInv'
<1>1. \A i \in 1..Len(verdicts) : verdicts[i].probe \in Nat
  BY VerdictsAreTyped DEF VerdictInv
<1>2. OneVerdictPerProbe'
  BY DEF VerdictInv, OneVerdictPerProbe
<1>3. CASE probe' = probe /\ (determined => determined')
  BY <1>1, <1>2, <1>3 DEF VerdictInv
<1>4. CASE probe' = probe + 1
  <2>1. \A i \in 1..Len(verdicts) : verdicts[i].probe < probe + 1
    BY <1>1 DEF VerdictInv
  <2> QED BY <1>1, <1>2, <1>4, <2>1 DEF VerdictInv
<1> QED BY <1>3, <1>4

LEMMA InitVerdicts == Init => VerdictInv
  BY DEF Init, VerdictInv, OneVerdictPerProbe

LEMMA StepVerdicts == VerdictInv /\ [Next]_vars => VerdictInv'
<1> SUFFICES ASSUME VerdictInv, [Next]_vars PROVE VerdictInv'
  OBVIOUS
<1>1. CASE StartProbe
  BY <1>1, NotJudging DEF StartProbe
<1>2. CASE OnTimeout
  <2>1. CASE determined
    BY <1>2, <2>1, NotJudging DEF OnTimeout
  <2>2. CASE ~determined
    BY <1>2, <2>2, JudgeOnce DEF OnTimeout
  <2> QED BY <2>1, <2>2
<1>3. CASE Poll \/ SwapFunctors
  BY <1>3, NotJudging DEF Poll, SwapFunctors, taskVars
<1>4. CASE HandleError \/ HandleWriteTooLate \/ HandleWriteFails \/ HandleWriteUnwanted
  BY <1>4, NotJudging
     DEF HandleError, HandleWriteTooLate, HandleWriteFails, HandleWriteUnwanted, taskVars
<1>5. CASE HandleWriteConnects
  BY <1>5, JudgeOnce DEF HandleWriteConnects
<1>6. CASE RunStopInLoop \/ OnErrorTooLate
  BY <1>6, NotJudging DEF RunStopInLoop, OnErrorTooLate, taskVars
<1>7. CASE OnErrorSkips
  BY <1>7, NotJudging DEF OnErrorSkips
<1>8. CASE OnError
  BY <1>8, JudgeOnce DEF OnError
<1>9. CASE UNCHANGED vars
  BY <1>9, NotJudging DEF vars, taskVars
<1> QED
  BY <1>1, <1>2, <1>3, <1>4, <1>5, <1>6, <1>7, <1>8, <1>9 DEF Next, Loop, Handle, Functors

(* The connection, the connector's error and the timeout of a probe give   *)
(* one verdict at most, in whichever order they come, also when the loop   *)
(* is late and the next probe starts in the same iteration                 *)
(* (CheckerTask.cc:31-105).                                                *)
THEOREM ProbesAreJudgedOnce == Spec => []OneVerdictPerProbe
<1>1. VerdictInv => OneVerdictPerProbe
  BY DEF VerdictInv
<1> QED BY <1>1, InitVerdicts, StepVerdicts, PTL DEF Spec

-----------------------------------------------------------------------------
(* On a punctual loop nothing of a probe is left when the next starts: a   *)
(* channel belongs to the probe that is under way or is about to be        *)
(* stopped, and an error that waits to be reported has no channel.         *)

QueuedFunctors == {<<"stopInLoop">>} \cup ({"error"} \X {"EAGAIN", "ECONNREFUSED"})

Kind(f) == f[1]

Kinds == {"stopInLoop", "error"}

Has(q, kind) == \E i \in 1..Len(q) : Kind(q[i]) = kind

LeftNothing ==
  /\ Has(queue, "error") => channel = None
  /\ channel # None => probing \/ Has(queue, "stopInLoop")

Dispatch ==
  /\ queue \in Seq(QueuedFunctors)
  /\ todo > 0 => revents = {}

WantedInv == AttemptsAreWanted /\ Dispatch /\ LeftNothing

LEMMA HasFacts ==
  ASSUME NEW q \in Seq(QueuedFunctors)
  PROVE  /\ \A f \in QueuedFunctors, k \in Kinds :
              Has(Append(q, f), k) <=> Has(q, k) \/ Kind(f) = k
         /\ q # <<>> =>
              /\ Has(q, Kind(Head(q)))
              /\ \A k \in Kinds :
                   /\ Has(Tail(q), k) => Has(q, k)
                   /\ Has(q, k) /\ Kind(Head(q)) # k => Has(Tail(q), k)
<1> USE DEF Has
<1>1. ASSUME NEW f \in QueuedFunctors, NEW k \in Kinds
      PROVE  Has(Append(q, f), k) <=> Has(q, k) \/ Kind(f) = k
  <2>1. /\ Len(Append(q, f)) = Len(q) + 1 /\ Len(q) \in Nat
        /\ \A i \in 1..Len(q) : Append(q, f)[i] = q[i]
        /\ Append(q, f)[Len(q) + 1] = f
    BY AppendProperties
  <2>2. \A i : i \in 1..(Len(q) + 1) <=> i \in 1..Len(q) \/ i = Len(q) + 1
    BY <2>1
  <2> DEFINE r == Append(q, f)
  <2> HIDE DEF r
  <2>3. /\ Len(r) = Len(q) + 1
        /\ \A i \in 1..Len(q) : r[i] = q[i]
        /\ r[Len(q) + 1] = f
    BY <2>1 DEF r
  <2>4. Has(r, k) <=> Has(q, k) \/ Kind(f) = k
    BY <2>2, <2>3, Zenon
  <2>5. QED
    BY <2>4 DEF r
<1>2. ASSUME q # <<>>
      PROVE  /\ Has(q, Kind(Head(q)))
             /\ \A k \in Kinds :
                  /\ Has(Tail(q), k) => Has(q, k)
                  /\ Has(q, k) /\ Kind(Head(q)) # k => Has(Tail(q), k)
  <2>1. /\ Len(q) \in Nat /\ Len(q) >= 1 /\ 1 \in 1..Len(q) /\ Head(q) = q[1]
        /\ Len(Tail(q)) = Len(q) - 1
        /\ \A i \in 1..(Len(q) - 1) : Tail(q)[i] = q[i + 1] /\ i + 1 \in 1..Len(q)
    BY <1>2
  <2>2. \A i \in 1..Len(q) : i = 1 \/ (i - 1 \in 1..(Len(q) - 1) /\ Tail(q)[i - 1] = q[i])
    BY <2>1
  <2>3. QED
    BY <2>1, <2>2
<1>3. QED
  BY <1>1, <1>2

(* The counters stop at the standards (ServerNode.h:15-36). *)
LEMMA UpdatesAreTyped ==
  ASSUME NEW n \in [alive : BOOLEAN, successes : 0..SuccessStandard,
                    failures : 0..FailStandard],
         NEW success \in BOOLEAN
  PROVE  UpdateStatus(n, success)
           \in [alive : BOOLEAN, successes : 0..SuccessStandard, failures : 0..FailStandard]
  BY HealthAssumption DEF UpdateStatus, Least

(* What stays typed through the operations of the connector. *)
LEMMA StoppingIsTyped ==
  ASSUME TypeOK, NEW q \in Seq(QueuedFunctors), Stop(q)
  PROVE  /\ queue' \in Seq(QueuedFunctors) /\ Len(queue') = Len(q) + 1
         /\ connect' = FALSE /\ Has(queue', "stopInLoop")
         /\ Has(queue', "error") <=> Has(q, "error")
         /\ UNCHANGED <<state, channel, fds, retryTimers>>
<1>1. PICK f \in QueuedFunctors : f = <<"stopInLoop">> /\ Kind(f) = "stopInLoop"
  <2>1. <<"stopInLoop">> \in QueuedFunctors
    BY DEF QueuedFunctors
  <2>2. Kind(<<"stopInLoop">>) = "stopInLoop"
    BY DEF Kind
  <2>3. QED
    BY <2>1, <2>2
<1>2. queue' = Append(q, f)
  BY <1>1 DEF Stop
<1>3. \A k \in Kinds : Has(queue', k) <=> Has(q, k) \/ "stopInLoop" = k
  BY <1>1, <1>2, HasFacts
<1>4. queue' \in Seq(QueuedFunctors) /\ Len(queue') = Len(q) + 1
  <2>1. Append(q, f) \in Seq(QueuedFunctors) /\ Len(Append(q, f)) = Len(q) + 1
    BY AppendProperties
  <2>2. QED
    BY <1>2, <2>1
<1>5. Has(queue', "stopInLoop")
  BY <1>3 DEF Kinds
<1>6. Has(queue', "error") <=> Has(q, "error")
  BY <1>3 DEF Kinds, Has
<1>7. QED
  BY <1>4, <1>5, <1>6 DEF Stop

LEMMA RetryingIsTyped ==
  ASSUME TypeOK, queue \in Seq(QueuedFunctors), NEW fd, NEW err \in {"EAGAIN", "ECONNREFUSED"},
         NEW wanted \in BOOLEAN, Retry(fd, err, wanted, queue, retryTimers)
  PROVE  /\ queue' \in Seq(QueuedFunctors) /\ Len(queue') >= Len(queue)
         /\ channel' = None /\ state' = "kDisconnected"
         /\ fds' \subseteq Fds /\ retryTimers' \in Nat
<1>1. PICK f \in QueuedFunctors : f = <<"error", err>>
  BY DEF QueuedFunctors
<1>2. queue' = queue \/ queue' = Append(queue, f)
  BY <1>1 DEF Retry
<1>3. queue' \in Seq(QueuedFunctors) /\ Len(queue') >= Len(queue)
  BY <1>1, <1>2, AppendProperties
<1>4. QED
  BY <1>3 DEF Retry, TypeOK, ConnectorTypeOK

LEMMA ConnectingIsTyped ==
  ASSUME TypeOK, queue \in Seq(QueuedFunctors), Start(queue, retryTimers)
  PROVE  /\ queue' \in Seq(QueuedFunctors) /\ Len(queue') >= Len(queue)
         /\ ConnectorTypeOK' /\ connect' = TRUE
         /\ \/ state' = "kConnecting" /\ channel' \in fds' /\ queue' = queue
            \/ state' = "kDisconnected" /\ channel' = None
            \/ UNCHANGED <<queue, state, channel, fds>>
<1> USE DEF TypeOK, ConnectorTypeOK
<1>1. connect' = TRUE /\ Connect(queue, retryTimers) /\ Len(queue) \in Nat
  BY DEF Start
<1>2. ASSUME NEW fd \in Fds, Connecting(fd, queue, retryTimers)
      PROVE  /\ queue' = queue /\ channel' = fd /\ fd \in fds' /\ fds' \subseteq Fds
             /\ state' = "kConnecting" /\ retryTimers' \in Nat
  BY <1>2 DEF Connecting
<1>3. ASSUME NEW fd \in Fds, NEW err \in {"EAGAIN", "ECONNREFUSED"},
             Retry(fd, err, TRUE, queue, retryTimers)
      PROVE  /\ queue' \in Seq(QueuedFunctors) /\ Len(queue') >= Len(queue)
             /\ channel' = None /\ state' = "kDisconnected"
             /\ fds' \subseteq Fds /\ retryTimers' \in Nat
  BY <1>3, RetryingIsTyped
<1>4. CASE \E fd \in Fds : Free(fd, fds) /\ Connecting(fd, queue, retryTimers)
  BY <1>1, <1>2, <1>4
<1>5. CASE \E fd \in Fds, err \in {"EAGAIN", "ECONNREFUSED"} :
             Free(fd, fds) /\ Retry(fd, err, TRUE, queue, retryTimers)
  BY <1>1, <1>3, <1>5
<1>6. CASE UNCHANGED <<queue, state, channel, fds, retryTimers>>
  BY <1>1, <1>6
<1>7. QED
  BY <1>1, <1>4, <1>5, <1>6 DEF Connect

LEMMA NodesAreTyped ==
  ASSUME TypeOK, NEW success \in BOOLEAN
  PROVE  UpdateStatus(node, success)
           \in [alive : BOOLEAN, successes : 0..SuccessStandard, failures : 0..FailStandard]
  BY UpdatesAreTyped DEF TypeOK

(* Calling a functor takes it from the queue of a loop that has handled    *)
(* its channel's events.                                                   *)
LEMMA CallTakesHead ==
  ASSUME WantedInv, NEW kind \in Kinds, Call(kind)
  PROVE  /\ todo \in Nat /\ todo' = todo - 1 /\ todo' \in 0..Len(Tail(queue))
         /\ Tail(queue) \in Seq(QueuedFunctors) /\ Len(Tail(queue)) \in Nat
         /\ UNCHANGED <<batch, revents, soError, conn>> /\ revents = {}
         /\ Has(queue, kind)
         /\ \A k \in Kinds :
              /\ Has(Tail(queue), k) => Has(queue, k)
              /\ Has(queue, k) /\ k # kind => Has(Tail(queue), k)
<1>1. /\ todo > 0 /\ todo' = todo - 1 /\ revents = {}
      /\ todo \in 0..Len(queue) /\ queue \in Seq(QueuedFunctors)
      /\ UNCHANGED <<batch, revents, soError, conn>>
  BY DEF Call, WantedInv, AttemptsAreWanted, TypeOK, Dispatch
<1>2. queue # <<>> /\ Len(Tail(queue)) = Len(queue) - 1 /\ Len(queue) \in Nat
      /\ Tail(queue) \in Seq(QueuedFunctors)
  BY <1>1
<1>3. Kind(Head(queue)) = kind
  BY DEF Call, Kind
<1>4. /\ Has(queue, kind)
      /\ \A k \in Kinds :
           /\ Has(Tail(queue), k) => Has(queue, k)
           /\ Has(queue, k) /\ k # kind => Has(Tail(queue), k)
  BY <1>1, <1>2, <1>3, HasFacts
<1>5. QED
  BY <1>1, <1>2, <1>4

LEMMA StartProbeStep ==
  ASSUME WantedInv, Punctual, StartProbe
  PROVE  WantedInv'
<1> USE DEF WantedInv, AttemptsAreWanted, AttemptHasChannel, NoConnectionUnasked, Dispatch,
            LeftNothing, Has
<1>1. queue = <<>> /\ queue \in Seq(QueuedFunctors) /\ ~probing
  BY DEF StartProbe
<1>2. channel = None
  BY <1>1
<1>3. /\ queue' \in Seq(QueuedFunctors) /\ Len(queue') >= Len(queue)
      /\ ConnectorTypeOK' /\ connect' = TRUE
      /\ \/ state' = "kConnecting" /\ channel' \in fds' /\ queue' = queue
         \/ state' = "kDisconnected" /\ channel' = None
         \/ UNCHANGED <<queue, state, channel, fds>>
  BY <1>1, ConnectingIsTyped DEF StartProbe
<1>4. revents = {}
  BY <1>2 DEF StartProbe, TimersTurn
<1>5. revents' = {} /\ ~determined' /\ probing' = TRUE /\ determined' = FALSE /\ armed' = TRUE
  BY <1>4 DEF StartProbe
<1>6. todo = 0 /\ todo' = 0 /\ batch' = "rung"
  BY <1>1 DEF StartProbe, TypeOK
<1>7. probe' \in 0..MaxProbes
  BY HealthAssumption DEF StartProbe, TypeOK
<1>8. TypeOK'
  <2>1. todo' \in 0..Len(queue')
    BY <1>1, <1>3, <1>6
  <2>2. UNCHANGED <<soError, conn, node>>
    BY DEF StartProbe
  <2>3. QED
    BY <1>3, <1>5, <1>6, <1>7, <2>1, <2>2 DEF TypeOK
<1>9. AttemptHasChannel' /\ NoConnectionUnasked'
  BY <1>2, <1>3, <1>5
<1>10. Dispatch'
  BY <1>3, <1>5
<1>11. LeftNothing'
  <2>1. CASE queue' = queue
    BY <1>1, <1>5, <2>1
  <2>2. CASE channel' = None
    BY <2>2
  <2>3. QED
    BY <1>3, <2>1, <2>2
<1>12. QED
  BY <1>8, <1>9, <1>10, <1>11

LEMMA OnTimeoutStep ==
  ASSUME WantedInv, OnTimeout
  PROVE  WantedInv'
<1> USE DEF WantedInv, AttemptsAreWanted
<1>1. /\ UNCHANGED <<todo, revents, soError, conn, probe>>
      /\ armed' = FALSE /\ batch' = "ringing"
      /\ todo \in 0..Len(queue) /\ queue \in Seq(QueuedFunctors)
  BY DEF OnTimeout, TypeOK, Dispatch
<1>2. CASE determined
  <2>1. /\ UNCHANGED <<state, connect, channel, fds, queue, retryTimers>>
        /\ UNCHANGED <<determined, probing, node>>
    BY <1>2 DEF OnTimeout, connectorVars
  <2>2. TypeOK'
    BY <1>1, <2>1 DEF TypeOK, ConnectorTypeOK
  <2>3. QED
    BY <1>1, <2>1, <2>2
       DEF AttemptHasChannel, NoConnectionUnasked, Dispatch, LeftNothing
<1>3. CASE ~determined
  <2>1. Judge(FALSE) /\ Stop(queue)
    BY <1>3 DEF OnTimeout
  <2>2. /\ queue' \in Seq(QueuedFunctors) /\ Len(queue') = Len(queue) + 1
        /\ connect' = FALSE /\ Has(queue', "stopInLoop")
        /\ (Has(queue', "error") <=> Has(queue, "error"))
        /\ UNCHANGED <<state, channel, fds, retryTimers>>
    BY <1>1, <2>1, StoppingIsTyped
  <2>3. /\ determined' = TRUE /\ probing' = FALSE
        /\ node' \in [alive : BOOLEAN, successes : 0..SuccessStandard,
                      failures : 0..FailStandard]
    BY <2>1, NodesAreTyped DEF Judge
  <2>4. todo' \in 0..Len(queue')
    BY <1>1, <2>2
  <2>5. TypeOK'
    BY <1>1, <2>2, <2>3, <2>4 DEF TypeOK, ConnectorTypeOK
  <2>6. QED
    BY <1>1, <2>2, <2>3, <2>5
       DEF AttemptHasChannel, NoConnectionUnasked, Dispatch, LeftNothing
<1>4. QED
  BY <1>2, <1>3

LEMMA ChannelStep ==
  ASSUME WantedInv, Handle
  PROVE  WantedInv'
<1> USE DEF WantedInv, AttemptsAreWanted
<1>1. /\ UNCHANGED todo /\ todo \in 0..Len(queue) /\ queue \in Seq(QueuedFunctors)
      /\ revents # {} /\ revents' \subseteq revents
      /\ batch' \in {"none", "due", "ringing", "rung"}
  BY DEF Handle, HandleError, HandleWriteTooLate, HandleWriteFails, HandleWriteUnwanted,
         HandleWriteConnects, WriteTurn, ChannelsTurn, TypeOK, Dispatch
<1>2. CASE HandleError \/ HandleWriteFails
  <2>1. Retry(channel, "ECONNREFUSED", connect, queue, retryTimers)
    BY <1>2 DEF HandleError, HandleWriteFails
  <2>2. /\ queue' \in Seq(QueuedFunctors) /\ Len(queue') >= Len(queue)
        /\ channel' = None /\ state' = "kDisconnected"
        /\ fds' \subseteq Fds /\ retryTimers' \in Nat
    BY <1>1, <2>1, RetryingIsTyped DEF TypeOK, ConnectorTypeOK
  <2>3. "err" \notin revents' /\ soError' = FALSE
    BY <1>2 DEF HandleError, HandleWriteFails, WriteTurn
  <2>4. UNCHANGED <<connect, conn, determined, probing, armed, node, probe>>
    BY <1>2 DEF HandleError, HandleWriteFails, taskVars
  <2>5. todo' \in 0..Len(queue')
    BY <1>1, <2>2
  <2>6. TypeOK'
    BY <1>1, <2>2, <2>3, <2>4, <2>5 DEF TypeOK, ConnectorTypeOK
  <2>7. todo = 0 /\ todo' = 0
    BY <1>1 DEF Dispatch
  <2>8. QED
    BY <2>2, <2>3, <2>6, <2>7
       DEF AttemptHasChannel, NoConnectionUnasked, Dispatch, LeftNothing
<1>3. CASE HandleWriteTooLate
  <2>1. /\ revents' = {}
        /\ UNCHANGED <<state, connect, channel, fds, queue, retryTimers, soError, conn>>
        /\ UNCHANGED <<determined, probing, armed, node, probe>>
    BY <1>3 DEF HandleWriteTooLate, WriteTurn, connectorVars, taskVars
  <2>2. TypeOK'
    BY <1>1, <2>1 DEF TypeOK, ConnectorTypeOK
  <2>3. QED
    BY <1>1, <2>1, <2>2
       DEF AttemptHasChannel, NoConnectionUnasked, Dispatch, LeftNothing
<1>4. CASE HandleWriteUnwanted
  <2>1. /\ state' = "kConnected" /\ fds' \subseteq fds /\ revents' = {}
        /\ UNCHANGED <<connect, channel, queue, retryTimers, soError, conn>>
    BY <1>4 DEF HandleWriteUnwanted, ConnectedUnwanted, WriteTurn
  <2>2. UNCHANGED <<determined, probing, armed, node, probe>>
    BY <1>4 DEF HandleWriteUnwanted, taskVars
  <2>3. TypeOK'
    BY <1>1, <2>1, <2>2 DEF TypeOK, ConnectorTypeOK
  <2>4. QED
    BY <1>1, <2>1, <2>2, <2>3
       DEF AttemptHasChannel, NoConnectionUnasked, Dispatch, LeftNothing
<1>5. CASE HandleWriteConnects
  <2>1. /\ channel' = None /\ state' = "kConnected" /\ revents' = {}
        /\ fds' \subseteq fds /\ conn' = channel /\ armed' = FALSE
        /\ UNCHANGED <<connect, retryTimers, queue, soError, probe>>
    BY <1>5 DEF HandleWriteConnects, Connected, WriteTurn
  <2>2. /\ determined' = TRUE /\ probing' = FALSE
        /\ node' \in [alive : BOOLEAN, successes : 0..SuccessStandard,
                      failures : 0..FailStandard]
    BY <1>5, NodesAreTyped DEF HandleWriteConnects, Judge
  <2>3. TypeOK'
    BY <1>1, <2>1, <2>2 DEF TypeOK, ConnectorTypeOK
  <2>4. QED
    BY <1>1, <2>1, <2>2, <2>3
       DEF AttemptHasChannel, NoConnectionUnasked, Dispatch, LeftNothing
<1>6. QED
  BY <1>2, <1>3, <1>4, <1>5 DEF Handle

LEMMA FunctorStep ==
  ASSUME WantedInv, Functors
  PROVE  WantedInv'
<1> USE DEF WantedInv, AttemptsAreWanted
<1>1. CASE RunStopInLoop
  <2>1. Call("stopInLoop") /\ StopInLoop(Tail(queue)) /\ UNCHANGED taskVars
    BY <1>1 DEF RunStopInLoop
  <2>2. /\ todo' \in 0..Len(Tail(queue)) /\ Tail(queue) \in Seq(QueuedFunctors)
        /\ UNCHANGED <<batch, revents, soError, conn>> /\ revents = {}
    BY <2>1, CallTakesHead DEF Kinds
  <2>3. /\ queue' = Tail(queue) /\ channel' = None /\ state' = "kDisconnected"
        /\ UNCHANGED <<connect, fds, retryTimers>>
    BY <2>1 DEF StopInLoop
  <2>4. TypeOK'
    BY <2>1, <2>2, <2>3 DEF TypeOK, ConnectorTypeOK, taskVars
  <2>5. QED
    BY <2>2, <2>3, <2>4 DEF AttemptHasChannel, NoConnectionUnasked, Dispatch, LeftNothing
<1>2. ASSUME Call("error")
      PROVE  /\ todo' \in 0..Len(Tail(queue)) /\ Tail(queue) \in Seq(QueuedFunctors)
             /\ Len(Tail(queue)) \in Nat
             /\ UNCHANGED <<batch, revents, soError, conn>> /\ revents = {}
             /\ channel = None /\ state # "kConnecting"
  <2>1. /\ todo' \in 0..Len(Tail(queue)) /\ Tail(queue) \in Seq(QueuedFunctors)
        /\ Len(Tail(queue)) \in Nat
        /\ UNCHANGED <<batch, revents, soError, conn>> /\ revents = {}
        /\ Has(queue, "error")
    BY <1>2, CallTakesHead DEF Kinds
  <2>2. channel = None
    BY <2>1 DEF LeftNothing
  <2>3. None \notin fds
    BY ConnectorAssumption DEF TypeOK, ConnectorTypeOK, None
  <2>4. QED
    BY <2>1, <2>2, <2>3 DEF AttemptHasChannel
<1>3. CASE OnErrorTooLate \/ OnErrorSkips
  <2>1. /\ Call("error") /\ queue' = Tail(queue)
        /\ UNCHANGED <<state, connect, channel, fds, retryTimers, armed, node, probe>>
    BY <1>3 DEF OnErrorTooLate, OnErrorSkips, taskVars
  <2>2. /\ determined' = determined \/ determined' = TRUE
        /\ probing' = probing \/ probing' = FALSE
    BY <1>3 DEF OnErrorTooLate, OnErrorSkips, taskVars
  <2>3. TypeOK'
    BY <1>2, <2>1, <2>2 DEF TypeOK, ConnectorTypeOK
  <2>4. QED
    BY <1>2, <2>1, <2>3 DEF AttemptHasChannel, NoConnectionUnasked, Dispatch, LeftNothing
<1>4. CASE OnError
  <2>1. Call("error") /\ armed' = FALSE /\ Judge(FALSE) /\ Stop(Tail(queue)) /\ UNCHANGED probe
    BY <1>4 DEF OnError
  <2>2. /\ queue' \in Seq(QueuedFunctors) /\ Len(queue') = Len(Tail(queue)) + 1
        /\ connect' = FALSE /\ UNCHANGED <<state, channel, fds, retryTimers>>
    BY <1>2, <2>1, StoppingIsTyped
  <2>3. /\ determined' = TRUE /\ probing' = FALSE
        /\ node' \in [alive : BOOLEAN, successes : 0..SuccessStandard,
                      failures : 0..FailStandard]
    BY <2>1, NodesAreTyped DEF Judge
  <2>4. todo' \in 0..Len(queue')
    BY <1>2, <2>1, <2>2
  <2>5. TypeOK'
    BY <1>2, <2>1, <2>2, <2>3, <2>4 DEF TypeOK, ConnectorTypeOK
  <2>6. QED
    BY <1>2, <2>1, <2>2, <2>5
       DEF AttemptHasChannel, NoConnectionUnasked, Dispatch, LeftNothing
<1>5. QED
  BY <1>1, <1>3, <1>4 DEF Functors

LEMMA PollStep ==
  ASSUME WantedInv, Poll \/ SwapFunctors
  PROVE  WantedInv'
<1> USE DEF WantedInv, AttemptsAreWanted
<1>1. UNCHANGED <<state, connect, channel, fds, queue, retryTimers, conn, determined,
                  probing, armed, node, probe>>
  BY DEF Poll, SwapFunctors, connectorVars, taskVars
<1>2. Len(queue) \in Nat
  BY DEF Dispatch
<1>3. CASE Poll
  <2>1. /\ todo = 0 /\ todo' = 0 /\ batch' = "due"
        /\ revents' \subseteq {"err", "out"} /\ ("err" \in revents' => channel # None)
    BY <1>3 DEF Poll
  <2>2. soError' = soError \/ soError' = TRUE \/ soError' = FALSE
    BY <1>3 DEF Poll
  <2>3. TypeOK'
    BY <1>1, <2>1, <2>2 DEF TypeOK, ConnectorTypeOK
  <2>4. QED
    BY <1>1, <2>1, <2>3
       DEF AttemptHasChannel, NoConnectionUnasked, Dispatch, LeftNothing
<1>4. CASE SwapFunctors
  <2>1. /\ todo' \in 0..Len(queue') /\ batch' = "none" /\ revents' = {}
        /\ UNCHANGED soError
    BY <1>1, <1>2, <1>4 DEF SwapFunctors
  <2>2. TypeOK'
    BY <1>1, <2>1 DEF TypeOK, ConnectorTypeOK
  <2>3. QED
    BY <1>1, <2>1, <2>2
       DEF AttemptHasChannel, NoConnectionUnasked, Dispatch, LeftNothing
<1>5. QED
  BY <1>3, <1>4

(* An attempt has its socket as long as it lasts, and a probe that waits   *)
(* for it, on a loop that is never a second late; on one that is, a stop() *)
(* of one probe reaches the attempt of the next (Connector.cc:102-163,     *)
(* CheckerTask.cc:31-105).                                                 *)
THEOREM AttemptsHaveTheirProbe == ASSUME Punctual PROVE Spec => []AttemptsAreWanted
<1>1. Init => WantedInv
  <2>1. Init => TypeOK
    <3>1. Init => /\ node \in [alive : BOOLEAN, successes : 0..SuccessStandard,
                               failures : 0..FailStandard]
                  /\ probe \in 0..MaxProbes
      BY HealthAssumption DEF Init
    <3>2. Init => ConnectorTypeOK
      <4>1. Init => /\ state = "kDisconnected" /\ connect = FALSE /\ channel = None
                    /\ fds = {} /\ retryTimers = 0
        BY DEF Init, ConnectorInit
      <4>2. None \in Fds \cup {None} /\ {} \subseteq Fds /\ 0 \in Nat
        OBVIOUS
      <4>3. QED
        BY <4>1, <4>2, Zenon DEF ConnectorTypeOK
    <3>3. Init => /\ todo \in 0..Len(queue) /\ batch = "none" /\ conn = None
                  /\ revents = {} /\ soError = FALSE /\ determined = FALSE
                  /\ probing = FALSE /\ armed = FALSE
      BY DEF Init, ConnectorInit
    <3>4. QED
      BY <3>1, <3>2, <3>3 DEF TypeOK
  <2>2. Init => AttemptHasChannel /\ NoConnectionUnasked /\ Dispatch /\ LeftNothing
    BY DEF Init, ConnectorInit, AttemptHasChannel, NoConnectionUnasked, Dispatch,
           LeftNothing, Has
  <2>3. QED
    BY <2>1, <2>2 DEF WantedInv, AttemptsAreWanted
<1>2. WantedInv /\ [Next]_vars => WantedInv'
  <2> SUFFICES ASSUME WantedInv, [Next]_vars PROVE WantedInv'
    OBVIOUS
  <2>1. CASE UNCHANGED vars
    BY <2>1 DEF vars, connectorVars, loopVars, taskVars, WantedInv, AttemptsAreWanted,
       TypeOK, ConnectorTypeOK, AttemptHasChannel, NoConnectionUnasked, Dispatch,
       LeftNothing
  <2>2. QED
    BY <2>1, StartProbeStep, OnTimeoutStep, ChannelStep, FunctorStep, PollStep DEF Next, Loop
<1>3. WantedInv => AttemptsAreWanted
  BY DEF WantedInv
<1>4. QED
  BY <1>1, <1>2, <1>3, PTL DEF Spec
-----------------------------------------------------------------------------
(* The counters of the node are the lengths of the row that ends in the    *)
(* last verdict, up to the standards.                                      *)

EndsWith(q, n, success) ==
  /\ Len(q) >= n
  /\ \A i \in (Len(q) - n + 1)..Len(q) : q[i].success = success

RowInv ==
  /\ verdicts \in Seq(Verdicts)
  /\ node \in [alive : BOOLEAN, successes : 0..SuccessStandard, failures : 0..FailStandard]
  /\ EndsWith(verdicts, node.failures, FALSE)
  /\ EndsWith(verdicts, node.successes, TRUE)

(* Every sequence ends with a row of none. *)
LEMMA NoRow == ASSUME NEW q \in Seq(Verdicts), NEW success PROVE EndsWith(q, 0, success)
  BY DEF EndsWith

(* A verdict makes the row it continues longer by one. *)
LEMMA RowGrows ==
  ASSUME NEW q \in Seq(Verdicts), NEW v \in Verdicts, NEW n \in Nat,
         EndsWith(q, n, v.success), NEW m \in 0..(n + 1)
  PROVE  EndsWith(Append(q, v), m, v.success)
<1> DEFINE r == Append(q, v)
<1>1. /\ Len(r) = Len(q) + 1 /\ Len(q) \in Nat
      /\ \A i \in 1..Len(q) : r[i] = q[i]
      /\ r[Len(q) + 1] = v
  BY AppendProperties
<1>2. Len(q) >= n /\ \A i \in (Len(q) - n + 1)..Len(q) : q[i].success = v.success
  BY DEF EndsWith
<1> HIDE DEF r
<1>3. ASSUME NEW i \in (Len(r) - m + 1)..Len(r) PROVE r[i].success = v.success
  <2>1. \/ i \in (Len(q) - n + 1)..Len(q) /\ i \in 1..Len(q)
        \/ i = Len(q) + 1
    BY <1>1, <1>2
  <2>2. QED
    BY <1>1, <1>2, <2>1
<1>4. QED
  BY <1>1, <1>2, <1>3 DEF EndsWith, r

(* updateStatus counts the verdict into one row and ends the other, and     *)
(* flips the node only when the row is as long as the standard.            *)
LEMMA RowsAreCounted ==
  ASSUME RowInv, NEW success \in BOOLEAN, Judge(success), probe \in Nat
  PROVE  /\ RowInv'
         /\ node.alive /\ ~node'.alive => LastAre(FailStandard, FALSE)
         /\ ~node.alive /\ node'.alive => LastAre(SuccessStandard, TRUE)
<1> DEFINE v == [probe |-> probe, success |-> success]
<1>1. v \in Verdicts /\ v.success = success /\ verdicts' = Append(verdicts, v)
  BY DEF Verdicts, Judge
<1> HIDE DEF v
<1>2. verdicts' \in Seq(Verdicts) /\ verdicts \in Seq(Verdicts)
  BY <1>1 DEF RowInv
<1>3. node.successes \in Nat /\ node.failures \in Nat /\ node.alive \in BOOLEAN
  BY HealthAssumption DEF RowInv
<1>4. ASSUME NEW n \in Nat, EndsWith(verdicts, n, success), NEW m \in 0..(n + 1)
      PROVE  EndsWith(verdicts', m, success)
  BY <1>1, <1>2, <1>4, RowGrows
<1>5. ASSUME NEW b PROVE EndsWith(verdicts', 0, b)
  BY <1>2, NoRow
<1>6. /\ node' = UpdateStatus(node, success)
      /\ UpdateStatus(node, success) \in [alive : BOOLEAN, successes : 0..SuccessStandard,
                                          failures : 0..FailStandard]
  BY UpdatesAreTyped DEF Judge, RowInv
<1>7. CASE success = TRUE
  <2> DEFINE s == Least(node.successes + 1, SuccessStandard)
  <2>1. /\ s \in 0..(node.successes + 1) /\ s \in 0..SuccessStandard
    BY <1>3, HealthAssumption DEF Least
  <2>2. /\ node' \in [alive : BOOLEAN, successes : 0..SuccessStandard,
                    failures : 0..FailStandard]
        /\ node'.successes = s /\ node'.failures = 0
        /\ node'.alive = (node.alive \/ s = SuccessStandard)
    BY <1>7, <1>6 DEF Judge, UpdateStatus
  <2> HIDE DEF s
  <2>3. EndsWith(verdicts', s, TRUE)
    BY <1>3, <1>4, <1>7, <2>1 DEF RowInv
  <2>4. RowInv'
    BY <1>2, <1>5, <2>2, <2>3 DEF RowInv
  <2>5. ~node.alive /\ node'.alive => s = SuccessStandard
    BY <1>3, <2>2
  <2>6. node.alive => node'.alive
    BY <1>3, <2>2
  <2>7. QED
    BY <2>3, <2>4, <2>5, <2>6 DEF LastAre, EndsWith
<1>8. CASE success = FALSE
  <2> DEFINE f == Least(node.failures + 1, FailStandard)
  <2>1. /\ f \in 0..(node.failures + 1) /\ f \in 0..FailStandard
    BY <1>3, HealthAssumption DEF Least
  <2>2. /\ node' \in [alive : BOOLEAN, successes : 0..SuccessStandard,
                    failures : 0..FailStandard]
        /\ node'.successes = 0 /\ node'.failures = f
        /\ node'.alive = (node.alive /\ f < FailStandard)
    BY <1>8, <1>6 DEF Judge, UpdateStatus
  <2> HIDE DEF f
  <2>3. EndsWith(verdicts', f, FALSE)
    BY <1>3, <1>4, <1>8, <2>1 DEF RowInv
  <2>4. RowInv'
    BY <1>2, <1>5, <2>2, <2>3 DEF RowInv
  <2>5. node.alive /\ ~node'.alive => f = FailStandard
    <3>1. node.alive /\ ~node'.alive => ~(f < FailStandard)
      BY <1>3, <2>2, Zenon
    <3>2. QED
      BY <2>1, <3>1, HealthAssumption
  <2>6. node'.alive => node.alive
    BY <1>3, <2>2
  <2>7. QED
    BY <2>3, <2>4, <2>5, <2>6 DEF LastAre, EndsWith
<1>9. QED
  BY <1>7, <1>8

(* The node changes with a verdict only. *)
LEMMA OnlyVerdictsCount ==
  ASSUME [Next]_vars
  PROVE  \/ \E success \in BOOLEAN : Judge(success)
         \/ UNCHANGED <<node, verdicts>>
<1>1. CASE StartProbe \/ Poll \/ SwapFunctors
  BY <1>1 DEF StartProbe, Poll, SwapFunctors, taskVars
<1>2. CASE OnTimeout
  BY <1>2 DEF OnTimeout
<1>3. CASE Handle
  BY <1>3 DEF Handle, HandleError, HandleWriteTooLate, HandleWriteFails, HandleWriteUnwanted,
              HandleWriteConnects, taskVars
<1>4. CASE Functors
  BY <1>4 DEF Functors, RunStopInLoop, OnErrorTooLate, OnErrorSkips, OnError, taskVars
<1>5. CASE UNCHANGED vars
  BY <1>5 DEF vars, taskVars
<1>6. QED
  BY <1>1, <1>2, <1>3, <1>4, <1>5 DEF Next, Loop

(* A node dies of FailStandard failures in a row and comes back after      *)
(* SuccessStandard successes in a row, whatever the standards, and         *)
(* whichever of the connection, the error and the timeout judged the       *)
(* probes (ServerNode.h:15-36, CheckerTask.cc:46-105).                     *)
THEOREM NodesFlipAfterARow == Spec => FlipsNeedARow
<1> DEFINE A == /\ node.alive /\ ~node'.alive => LastAre(FailStandard, FALSE)
                /\ ~node.alive /\ node'.alive => LastAre(SuccessStandard, TRUE)
<1>1. Init => RowInv
  <2>1. <<>> \in Seq(Verdicts)
    OBVIOUS
  <2>2. EndsWith(<<>>, 0, FALSE) /\ EndsWith(<<>>, 0, TRUE)
    BY <2>1, NoRow
  <2>3. SUFFICES ASSUME Init PROVE RowInv
    OBVIOUS
  <2>4. /\ node = [alive |-> TRUE, successes |-> 0, failures |-> 0] /\ verdicts = <<>>
        /\ 0 \in 0..SuccessStandard /\ 0 \in 0..FailStandard
    BY <2>3, HealthAssumption DEF Init
  <2>5. /\ node \in [alive : BOOLEAN, successes : 0..SuccessStandard,
                     failures : 0..FailStandard]
        /\ node.failures = 0 /\ node.successes = 0
    BY <2>4
  <2>6. QED
    BY <2>1, <2>2, <2>4, <2>5, Zenon DEF RowInv
<1>2. VerdictInv /\ RowInv /\ [Next]_vars => RowInv' /\ A
  <2> SUFFICES ASSUME VerdictInv, RowInv, [Next]_vars PROVE RowInv' /\ A
    OBVIOUS
  <2>1. CASE \E success \in BOOLEAN : Judge(success)
    <3>1. probe \in Nat
      BY DEF VerdictInv
    <3>2. QED
      BY <2>1, <3>1, RowsAreCounted
  <2>2. CASE UNCHANGED <<node, verdicts>>
    BY <2>2 DEF RowInv
  <2>3. QED
    BY <2>1, <2>2, OnlyVerdictsCount
<1>3. VerdictInv /\ RowInv /\ [Next]_vars => [A]_vars
  BY <1>2
<1>4. QED
  BY <1>1, <1>2, <1>3, InitVerdicts, StepVerdicts, PTL DEF Spec, FlipsNeedARow
=============================================================================

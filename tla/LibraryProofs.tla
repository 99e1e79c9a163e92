----------------------------- MODULE LibraryProofs ---------------------------
(***************************************************************************)
(* Proofs about two components of the library that are alone with their    *)
(* data.                                                                   *)
(*                                                                         *)
(* TimerQueue.tla, for any number of timers, intervals and delays.  What   *)
(* is true whatever callers cancel comes first: the timerfd is armed in    *)
(* time and no timer is early.  That the sets agree needs that callers     *)
(* leave the timers that are executing alone (~AnyCancel).                 *)
(*                                                                         *)
(* Buffer.tla, for vectors and bytes of any size: the indices of a Buffer  *)
(* stay in order, and it is a queue of bytes.                              *)
(***************************************************************************)
EXTENDS TimerQueue, Buffer, SequenceTheorems, TLAPS

Filed == timers \cup batch \cup ranBatch

(* handleRead's locals are empty outside it. *)
Locals ==
  /\ ~handling => batch = {} /\ ranBatch = {}
  /\ due => ~handling

(* A timer is in one place: on its way in requests, waiting in timers_, or *)
(* in the batch of handleRead.                                             *)
OnePlace ==
  /\ timers \cap (batch \cup ranBatch) = {}
  /\ \A e \in Filed : \A x \in Filed : e[2] = x[2] => e = x
  /\ \A i \in 1..Len(requests) :
       /\ requests[i] \in created
       /\ \A e \in Filed : e[2] # requests[i]
       /\ \A j \in 1..Len(requests) : requests[i] = requests[j] => i = j
  /\ \A e \in Filed : e[2] \in created

(* No timer is filed for an earlier time than its own. *)
FiledInTime ==
  /\ \A e \in timers \cup batch : expiration[e[2]] <= e[1]
  /\ \A e \in batch : e[1] <= now

PlaceInv == TypeOK /\ Locals /\ OnePlace /\ FiledInTime

(* With TimersFiled: timers on their way exist and are not active yet.     *)
OnTheWay ==
  /\ activeTimers \cup heap \subseteq created
  /\ \A i \in 1..Len(requests) : requests[i] \in heap \ activeTimers

FiledInv == PlaceInv /\ SetsAgree /\ OnTheWay

-----------------------------------------------------------------------------

LEMMA TypeStep ==
  ASSUME TypeOK, [Next]_vars
  PROVE  TypeOK'
<1> USE TimerAssumption DEF TypeOK
<1>1. ASSUME NEW when \in Nat, ResetTimerfd(when)
      PROVE  armed' \in Nat /\ readable' \in BOOLEAN
  <2>1. now + 1 \in Nat
    OBVIOUS
  <2>2. AtLeast(when, now + 1) \in Nat
    BY <2>1 DEF AtLeast
  <2>3. armed' \in Nat
    BY <1>1, <2>2 DEF ResetTimerfd
  <2>4. readable' = FALSE
    BY <1>1 DEF ResetTimerfd
  <2>5. QED
    BY <2>3, <2>4
<1>2. ASSUME NEW t \in Timers, NEW when \in Nat, AddTimerInLoop(t, when)
      PROVE  /\ timers' \subseteq Nat \X Timers /\ activeTimers' \subseteq Timers
             /\ armed' \in Nat /\ readable' \in BOOLEAN /\ cancelingTimers' = cancelingTimers
  BY <1>1, <1>2 DEF AddTimerInLoop
<1>3. ASSUME NEW t \in Timers, NEW d \in Delays, New(t, d)
      PROVE  /\ created' \subseteq Timers /\ heap' \subseteq Timers
             /\ expiration' \in [Timers -> Nat] /\ now + d \in Nat
  BY <1>3 DEF New
<1>4. CASE Tick
  BY <1>4 DEF Tick, sets, local
<1>5. CASE Ring \/ PollTimer
  <2>1. CASE Ring
    BY <2>1 DEF Ring, sets, local
  <2>2. CASE PollTimer
    BY <2>2 DEF PollTimer, clock, sets, local
  <2>3. QED
    BY <1>5, <2>1, <2>2
<1>6. CASE RunRequest
  <2>1. Head(requests) \in Timers /\ requests' \in Seq(Timers)
    BY <1>6 DEF RunRequest
  <2>2. QED
    BY <1>2, <1>6, <2>1 DEF RunRequest, local
<1>7. CASE HandleRead
  <2>1. Expired \subseteq timers /\ {e[2] : e \in Expired} \subseteq Timers
    BY DEF Expired
  <2>2. /\ timers' \cup batch' \cup ranBatch' \subseteq Nat \X Timers
        /\ activeTimers' \subseteq Timers /\ readTime' \in Nat
    BY <1>7, <2>1 DEF HandleRead
  <2>3. readable' = FALSE /\ due' = FALSE /\ calling' = TRUE /\ handling' = TRUE
    BY <1>7 DEF HandleRead
  <2>4. UNCHANGED <<now, armed, cancelingTimers, expiration, heap, created, requests>>
    BY <1>7 DEF HandleRead
  <2>5. QED
    BY <2>2, <2>3, <2>4
<1>8. CASE RunTimer
  BY <1>8 DEF RunTimer, clock, sets
<1>9. CASE FinishRead
  <2>1. Ran \subseteq Timers /\ Again \subseteq Timers
    BY DEF Ran, Again
  <2>2. \A t \in Timers : NextRun(t) \in Nat
    BY DEF NextRun
  <2>3. timers' \subseteq Nat \X Timers /\ expiration' \in [Timers -> Nat]
    BY <1>9, <2>1, <2>2 DEF FinishRead
  <2>4. armed' \in Nat /\ readable' \in BOOLEAN
    BY <1>1, <1>9, <2>3 DEF FinishRead, ArmNext
  <2>5. QED
    BY <1>9, <2>1, <2>3, <2>4 DEF FinishRead
<1>10. ASSUME NEW t \in Timers, NEW d \in Delays, AddTimer(t, d)
       PROVE  TypeOK'
  BY <1>2, <1>3, <1>10 DEF AddTimer, local
<1>11. ASSUME NEW t \in Timers, NEW d \in Delays, QueueAddTimer(t, d)
       PROVE  TypeOK'
  BY <1>3, <1>11 DEF QueueAddTimer, clock, sets, local
<1>12. ASSUME NEW t \in Timers, Cancel(t)
       PROVE  TypeOK'
  <2>1. CASE t \in activeTimers
    BY <1>1, <1>12, <2>1, SMTT(40) DEF Cancel, CancelInLoop, Free, local
  <2>2. CASE t \notin activeTimers
    BY <1>12, <2>2 DEF Cancel, CancelInLoop, local
  <2>3. QED
    BY <2>1, <2>2
<1>13. CASE UNCHANGED vars
  BY <1>13 DEF vars, clock, sets, local
<1>14. QED
  BY <1>4, <1>5, <1>6, <1>7, <1>8, <1>9, <1>10, <1>11, <1>12, <1>13
     DEF Next, LoopStep, UserStep

(* AddTimerInLoop files one timer more, for its own time. *)
LEMMA AddingFiles ==
  ASSUME TypeOK, NEW t \in Timers, NEW when \in Nat, AddTimerInLoop(t, when)
  PROVE  timers' = timers \cup {<<when, t>>} /\ activeTimers' = activeTimers \cup {t}
  BY DEF AddTimerInLoop

LEMMA LocalsStep ==
  ASSUME TypeOK, Locals, [Next]_vars
  PROVE  Locals'
<1> USE DEF Locals
<1>1. CASE Tick \/ Ring \/ PollTimer \/ RunRequest
  <2>1. UNCHANGED <<batch, ranBatch, handling>> /\ (due' = due \/ ~handling)
    BY <1>1 DEF Tick, Ring, PollTimer, RunRequest, local
  <2>2. QED
    BY <2>1
<1>2. CASE HandleRead
  BY <1>2 DEF HandleRead
<1>3. CASE RunTimer
  BY <1>3 DEF RunTimer
<1>4. CASE FinishRead
  BY <1>4 DEF FinishRead
<1>5. CASE UserStep
  BY <1>5 DEF UserStep, Cancel, AddTimer, QueueAddTimer, local
<1>6. CASE UNCHANGED vars
  BY <1>6 DEF vars, local
<1>7. QED
  BY <1>1, <1>2, <1>3, <1>4, <1>5, <1>6 DEF Next, LoopStep

LEMMA OnePlaceStep ==
  ASSUME TypeOK, Locals, OnePlace, [Next]_vars
  PROVE  OnePlace'
<1> USE DEF OnePlace, Filed
<1>1. ASSUME timers' \subseteq timers, batch' \cup ranBatch' \subseteq batch \cup ranBatch,
             UNCHANGED <<requests, created>>
      PROVE  OnePlace'
  BY <1>1
<1>2. CASE Tick \/ Ring \/ PollTimer
  BY <1>1, <1>2 DEF Tick, Ring, PollTimer, sets, local
<1>3. CASE RunRequest
  <2> DEFINE t == Head(requests)
  <2>1. /\ t = requests[1] /\ 1 \in 1..Len(requests) /\ requests' = Tail(requests)
        /\ t \in Timers /\ expiration[t] \in Nat
        /\ \A i \in 1..Len(requests') : i + 1 \in 1..Len(requests)
                                        /\ requests'[i] = requests[i + 1]
    BY <1>3 DEF RunRequest, TypeOK
  <2>2. timers' = timers \cup {<<expiration[t], t>>} /\ UNCHANGED <<created, batch, ranBatch>>
    BY <1>3, <2>1, AddingFiles DEF RunRequest, local
  <2>3. t \in created /\ \A e \in timers \cup batch \cup ranBatch : e[2] # t
    BY <2>1
  <2>4. \A i \in 1..Len(requests') : requests'[i] # t
    BY <2>1
  <2>5. \A i \in 1..Len(requests') :
          \A j \in 1..Len(requests') : requests'[i] = requests'[j] => i = j
    BY <2>1
  <2>6. \A e \in timers' \cup batch' \cup ranBatch' :
          e \in timers \cup batch \cup ranBatch \/ e = <<expiration[t], t>>
    BY <2>2
  <2>7. QED
    BY <2>1, <2>2, <2>3, <2>4, <2>5, <2>6
<1>4. CASE HandleRead
  <2>1. batch = {} /\ ranBatch = {}
    BY <1>4 DEF HandleRead, Locals
  <2>2. /\ timers' = timers \ Expired /\ batch' = Expired /\ ranBatch' = {}
        /\ Expired \subseteq timers /\ UNCHANGED <<requests, created>>
    BY <1>4 DEF HandleRead, Expired
  <2>3. QED
    BY <2>1, <2>2
<1>5. CASE RunTimer
  BY <1>1, <1>5 DEF RunTimer, sets
<1>6. CASE FinishRead
  <2>1. /\ timers' = timers \cup {<<NextRun(t), t>> : t \in Again}
        /\ batch' = {} /\ ranBatch' = {} /\ UNCHANGED <<requests, created>>
    BY <1>6 DEF FinishRead
  <2>2. \A t \in Again : \E x \in ranBatch : x[2] = t
    BY DEF Again, Ran
  <2>3. \A e \in timers : \A t \in Again : e[2] # t
    BY <2>2
  <2>4. \A e \in timers' : e \in timers \/ \E t \in Again : e = <<NextRun(t), t>>
    BY <2>1
  <2>5. \A e \in timers' : \A x \in timers' : e[2] = x[2] => e = x
    BY <2>3, <2>4
  <2>6. \A e \in timers' : \E x \in Filed : x[2] = e[2]
    BY <2>2, <2>4
  <2>7. QED
    BY <2>1, <2>5, <2>6
<1>7. ASSUME NEW t \in Timers, NEW d \in Delays, New(t, d), UNCHANGED <<batch, ranBatch>>,
             \/ timers' = timers \cup {<<now + d, t>>} /\ requests' = requests
             \/ timers' = timers /\ requests' = Append(requests, t)
      PROVE  OnePlace'
  <2>1. t \notin created /\ created' = created \cup {t}
    BY <1>7 DEF New
  <2>2. /\ \A e \in Filed : e[2] # t
        /\ \A i \in 1..Len(requests) : requests[i] # t
    BY <2>1
  <2>3. CASE timers' = timers \cup {<<now + d, t>>} /\ requests' = requests
    <3>1. \A e \in Filed' : e \in Filed \/ e = <<now + d, t>>
      BY <1>7, <2>3
    <3>2. QED
      BY <1>7, <2>1, <2>2, <2>3, <3>1
  <2>4. CASE timers' = timers /\ requests' = Append(requests, t)
    <3>1. \A i \in 1..Len(requests') :
            \/ i \in 1..Len(requests) /\ requests'[i] = requests[i]
            \/ i = Len(requests) + 1 /\ requests'[i] = t
      BY <2>4 DEF TypeOK
    <3>2. Filed' = Filed
      BY <1>7, <2>4
    <3>3. \A i \in 1..Len(requests') : requests'[i] \in created'
                                       /\ \A e \in Filed' : e[2] # requests'[i]
      BY <2>1, <2>2, <3>1, <3>2
    <3>4. \A i \in 1..Len(requests') :
            \A j \in 1..Len(requests') : requests'[i] = requests'[j] => i = j
      BY <2>2, <3>1
    <3>5. QED
      BY <1>7, <2>1, <2>4, <3>2, <3>3, <3>4
  <2>5. QED
    BY <1>7, <2>3, <2>4
<1>8. ASSUME NEW t \in Timers, NEW d \in Delays, AddTimer(t, d) \/ QueueAddTimer(t, d)
      PROVE  OnePlace'
  BY <1>7, <1>8 DEF AddTimer, AddTimerInLoop, QueueAddTimer, sets, local
<1>9. ASSUME NEW t \in Timers, Cancel(t)
      PROVE  OnePlace'
  BY <1>1, <1>9 DEF Cancel, CancelInLoop, local
<1>10. CASE UNCHANGED vars
  BY <1>1, <1>10 DEF vars, sets, local
<1>11. QED
  BY <1>2, <1>3, <1>4, <1>5, <1>6, <1>8, <1>9, <1>10 DEF Next, LoopStep, UserStep

LEMMA FiledInTimeStep ==
  ASSUME TypeOK, Locals, OnePlace, FiledInTime, [Next]_vars
  PROVE  FiledInTime'
<1> USE DEF FiledInTime
<1>1. ASSUME timers' \cup batch' \subseteq timers \cup batch, batch' \subseteq batch,
             UNCHANGED <<now, expiration>>
      PROVE  FiledInTime'
  BY <1>1
<1>2. CASE Tick
  <2>1. now \in Nat /\ now' = now + 1 /\ UNCHANGED <<timers, batch, expiration>>
    BY <1>2 DEF Tick, TypeOK, sets, local
  <2>2. \A e \in batch : e[1] \in Nat
    BY DEF TypeOK
  <2>3. QED
    BY <2>1, <2>2
<1>3. CASE Ring \/ PollTimer \/ RunTimer
  BY <1>1, <1>3 DEF Ring, PollTimer, RunTimer, clock, sets, local
<1>4. CASE RunRequest
  <2>1. Head(requests) \in Timers /\ expiration[Head(requests)] \in Nat
    BY <1>4 DEF RunRequest, TypeOK
  <2>2. QED
    BY <1>4, <2>1, AddingFiles DEF RunRequest, local
<1>5. CASE HandleRead
  BY <1>5 DEF HandleRead, Expired
<1>6. CASE FinishRead
  <2>1. \A e \in timers : e[2] \in Timers /\ e[2] \notin Ran
    BY DEF OnePlace, Filed, Ran, TypeOK
  <2>2. \A t \in Again : t \in Timers
    BY DEF Again, Ran, TypeOK
  <2>3. /\ timers' = timers \cup {<<NextRun(t), t>> : t \in Again} /\ batch' = {}
        /\ \A t \in Timers : expiration'[t] = IF t \in Again THEN NextRun(t)
                                            ELSE IF t \in Ran THEN 0 ELSE expiration[t]
    BY <1>6 DEF FinishRead
  <2>4. \A t \in Again : NextRun(t) \in Nat
    BY <2>2, TimerAssumption DEF NextRun, TypeOK
  <2>5. Again \subseteq Ran
    BY DEF Again
  <2>6. QED
    BY <2>1, <2>2, <2>3, <2>4, <2>5
<1>7. ASSUME NEW t \in Timers, NEW d \in Delays, New(t, d), UNCHANGED <<batch, now>>,
             timers' = timers \cup {<<now + d, t>>} \/ timers' = timers
      PROVE  FiledInTime'
  <2>1. t \notin created /\ expiration' = [expiration EXCEPT ![t] = now + d] /\ now + d \in Nat
    BY <1>7, TimerAssumption DEF New, TypeOK
  <2>2. \A e \in timers \cup batch : e[2] # t /\ e[2] \in Timers
    BY <2>1 DEF OnePlace, Filed, TypeOK
  <2>3. \A e \in timers \cup batch : expiration'[e[2]] = expiration[e[2]]
    BY <2>1, <2>2 DEF TypeOK
  <2>4. expiration'[t] = now + d
    BY <2>1 DEF TypeOK
  <2>5. QED
    BY <1>7, <2>1, <2>3, <2>4
<1>8. ASSUME NEW t \in Timers, NEW d \in Delays, AddTimer(t, d) \/ QueueAddTimer(t, d)
      PROVE  FiledInTime'
  BY <1>7, <1>8 DEF AddTimer, AddTimerInLoop, QueueAddTimer, clock, sets, local
<1>9. ASSUME NEW t \in Timers, Cancel(t)
      PROVE  FiledInTime'
  <2>1. timers' \subseteq timers /\ UNCHANGED <<now, batch>>
    BY <1>9 DEF Cancel, CancelInLoop, local
  <2>2. \A x \in Timers : expiration'[x] = expiration[x] \/ expiration'[x] = 0
    BY <1>9 DEF Cancel, CancelInLoop, Free
  <2>3. \A e \in timers \cup batch : e[1] \in Nat /\ e[2] \in Timers
    BY DEF TypeOK
  <2>4. QED
    BY <2>1, <2>2, <2>3
<1>10. CASE UNCHANGED vars
  BY <1>1, <1>10 DEF vars, clock, sets, local
<1>11. QED
  BY <1>2, <1>3, <1>4, <1>5, <1>6, <1>8, <1>9, <1>10 DEF Next, LoopStep, UserStep

LEMMA PlaceInvInductive == Spec => []PlaceInv
<1>1. Init => PlaceInv
  <2>1. Init => TypeOK
    <3>1. Init => now \in 1..MaxTime /\ requests \in Seq(Timers)
      BY TimerAssumption DEF Init
    <3>2. Init => expiration \in [Timers -> Nat] /\ armed \in Nat /\ readTime \in Nat
      BY DEF Init
    <3>3. Init => readable = FALSE /\ due = FALSE /\ calling = FALSE /\ handling = FALSE
      BY DEF Init
    <3>4. Init => /\ timers \cup batch \cup ranBatch = {}
                  /\ activeTimers \cup cancelingTimers \cup heap \cup created = {}
      BY DEF Init
    <3>5. QED
      BY <3>1, <3>2, <3>3, <3>4 DEF TypeOK
  <2>2. Init => Locals /\ OnePlace /\ FiledInTime
    BY DEF Init, Locals, OnePlace, Filed, FiledInTime
  <2>3. QED
    BY <2>1, <2>2 DEF PlaceInv
<1>2. PlaceInv /\ [Next]_vars => PlaceInv'
  BY TypeStep, LocalsStep, OnePlaceStep, FiledInTimeStep DEF PlaceInv
<1>3. QED
  BY <1>1, <1>2, PTL DEF Spec

(* A callback is called only when the time its timer is filed for has      *)
(* come, whatever is cancelled meanwhile (TimerQueue.cc:42-60, 94-101).    *)
THEOREM NoCallbackIsEarly == Spec => NeverEarly
<1> DEFINE OnTime == \A e \in ranBatch' \ ranBatch : expiration[e[2]] <= now
<1>1. ASSUME PlaceInv, [Next]_vars
      PROVE  OnTime
  <2>1. CASE RunTimer
    <3>1. \A e \in ranBatch' \ ranBatch : e \in batch
      BY <2>1 DEF RunTimer
    <3>2. \A e \in batch : expiration[e[2]] <= e[1] /\ e[1] <= now
      BY <1>1 DEF PlaceInv, FiledInTime
    <3>3. /\ \A e \in batch : e[1] \in Nat /\ expiration[e[2]] \in Nat
          /\ now \in Nat
      BY <1>1 DEF PlaceInv, TypeOK
    <3>4. QED
      BY <3>1, <3>2, <3>3
  <2>2. CASE HandleRead \/ FinishRead
    BY <2>2 DEF HandleRead, FinishRead
  <2>3. CASE Tick \/ Ring \/ PollTimer \/ RunRequest \/ UserStep \/ UNCHANGED vars
    BY <2>3 DEF Tick, Ring, PollTimer, RunRequest, UserStep, Cancel, AddTimer,
                QueueAddTimer, vars, local
  <2>4. QED
    BY <1>1, <2>1, <2>2, <2>3 DEF Next, LoopStep
<1>2. PlaceInv /\ [Next]_vars => [OnTime]_vars
  BY <1>1
<1>3. QED
  BY <1>2, PlaceInvInductive, PTL DEF Spec, NeverEarly

-----------------------------------------------------------------------------
(* The timerfd.                                                            *)

RingsInTime == armed # 0 /\ \A e \in timers : armed <= AtLeast(e[1], now + 1)

LEMMA Later ==
  \A x, y, n \in Nat : x <= y => AtLeast(x, n) <= AtLeast(y, n)
  BY DEF AtLeast

(* Setting the timerfd for a time that is not after any timer's.           *)
LEMMA ResetRingsInTime ==
  ASSUME TypeOK, NEW when \in Nat, ResetTimerfd(when), now' = now,
         \A e \in timers' : e[1] \in Nat /\ when <= e[1]
  PROVE  RingsInTime'
<1>1. armed' = AtLeast(when, now + 1) /\ now + 1 \in Nat /\ now \in Nat
  BY DEF ResetTimerfd, TypeOK
<1>2. AtLeast(when, now + 1) # 0
  BY <1>1 DEF AtLeast
<1>3. \A e \in timers' : AtLeast(when, now + 1) <= AtLeast(e[1], now + 1)
  BY <1>1, Later
<1>4. QED
  BY <1>1, <1>2, <1>3 DEF RingsInTime

(* A new timer is the earliest and the timerfd is set for it, or there is  *)
(* a timer before it that the timerfd was set for.                         *)
LEMMA AddingRingsInTime ==
  ASSUME TypeOK, NEW t \in Timers, NEW when \in Nat, AddTimerInLoop(t, when), now' = now,
         timers # {} => readable \/ RingsInTime
  PROVE  readable' \/ RingsInTime'
<1>1. timers' = timers \cup {<<when, t>>} /\ \A e \in timers : e[1] \in Nat
  BY AddingFiles DEF TypeOK
<1>2. CASE Earliest(when)
  <2>1. \A e \in timers' : e[1] \in Nat /\ when <= e[1]
    BY <1>1, <1>2 DEF Earliest
  <2>2. QED
    BY <1>2, <2>1, ResetRingsInTime DEF AddTimerInLoop
<1>3. CASE ~Earliest(when)
  <2>1. UNCHANGED <<armed, readable>>
    BY <1>3 DEF AddTimerInLoop
  <2>2. PICK first \in timers : first[1] <= when
    BY <1>1, <1>3 DEF Earliest
  <2>3. now + 1 \in Nat /\ armed \in Nat
    BY DEF TypeOK
  <2>4. AtLeast(first[1], now + 1) <= AtLeast(when, now + 1)
    BY <1>1, <2>2, <2>3, Later
  <2>5. CASE RingsInTime
    <3>1. armed <= AtLeast(first[1], now + 1)
      BY <2>5 DEF RingsInTime
    <3>2. armed <= AtLeast(when, now + 1)
      BY <1>1, <2>3, <2>4, <3>1 DEF AtLeast
    <3>3. \A e \in timers' : e \in timers \/ e = <<when, t>>
      BY <1>1
    <3>4. QED
      BY <2>1, <2>5, <3>2, <3>3 DEF RingsInTime
  <2>6. CASE ~RingsInTime
    BY <2>1, <2>2, <2>6
  <2>7. QED
    BY <2>5, <2>6
<1>4. QED
  BY <1>2, <1>3

LEMMA TimerfdArmedStep ==
  ASSUME TypeOK, TimerfdArmed, [Next]_vars
  PROVE  TimerfdArmed'
<1> USE DEF TimerfdArmed
<1>1. ASSUME timers' # {}, ~handling', UNCHANGED handling
      PROVE  timers # {} /\ ~due => readable \/ RingsInTime
  BY <1>1 DEF RingsInTime
<1>2. CASE readable' \/ RingsInTime' \/ due' \/ handling' \/ timers' = {}
  BY <1>2 DEF RingsInTime
<1>3. ASSUME timers' \subseteq timers, UNCHANGED <<now, armed, readable, due, handling>>
      PROVE  TimerfdArmed'
  BY <1>3
<1>4. CASE Tick
  <2>1. /\ UNCHANGED <<timers, armed, readable, due, handling>>
        /\ now \in Nat /\ now' = now + 1
    BY <1>4 DEF Tick, sets, local, TypeOK
  <2>2. \A e \in timers : e[1] \in Nat
    BY DEF TypeOK
  <2>3. \A e \in timers : AtLeast(e[1], now + 1) <= AtLeast(e[1], now + 1 + 1)
    BY <2>1, <2>2 DEF AtLeast
  <2>4. ASSUME NEW e \in timers, armed <= AtLeast(e[1], now + 1)
        PROVE  armed <= AtLeast(e[1], now + 1 + 1)
    BY <2>1, <2>2, <2>4 DEF AtLeast, TypeOK
  <2>5. QED
    BY <2>1, <2>4
<1>5. CASE Ring \/ PollTimer
  BY <1>2, <1>5 DEF Ring, PollTimer
<1>6. CASE RunRequest
  <2>1. Head(requests) \in Timers /\ expiration[Head(requests)] \in Nat
    BY <1>6 DEF RunRequest, TypeOK
  <2>2. timers # {} => readable \/ RingsInTime
    BY <1>6 DEF RunRequest, RingsInTime
  <2>3. QED
    BY <1>2, <1>6, <2>1, <2>2, AddingRingsInTime DEF RunRequest
<1>7. CASE HandleRead \/ RunTimer
  BY <1>2, <1>7 DEF HandleRead, RunTimer
<1>8. CASE FinishRead
  <2>1. ArmNext /\ UNCHANGED now
    BY <1>8 DEF FinishRead
  <2>2. CASE timers' = {}
    BY <1>2, <2>2
  <2>3. ASSUME NEW e \in timers', \A x \in timers' : e[1] <= x[1], ResetTimerfd(e[1])
        PROVE  TimerfdArmed'
    <3>1. \A x \in timers' : x[1] \in Nat
      BY TypeStep DEF TypeOK
    <3>2. QED
      BY <1>2, <2>1, <2>3, <3>1, ResetRingsInTime
  <2>4. QED
    BY <2>1, <2>2, <2>3 DEF ArmNext
<1>9. ASSUME NEW t \in Timers, NEW d \in Delays, AddTimer(t, d)
      PROVE  TimerfdArmed'
  <2>1. now + d \in Nat
    BY TimerAssumption DEF TypeOK
  <2>2. UNCHANGED <<now, due, handling>> /\ AddTimerInLoop(t, now + d)
    BY <1>9 DEF AddTimer, local
  <2>3. CASE ~due /\ ~handling
    <3>1. timers # {} => readable \/ RingsInTime
      BY <2>3 DEF RingsInTime
    <3>2. QED
      BY <1>2, <2>1, <2>2, <3>1, AddingRingsInTime
  <2>4. QED
    BY <1>2, <2>2, <2>3
<1>10. ASSUME NEW t \in Timers, NEW d \in Delays, QueueAddTimer(t, d)
       PROVE  TimerfdArmed'
  BY <1>3, <1>10 DEF QueueAddTimer, clock, sets, local
<1>11. ASSUME NEW t \in Timers, Cancel(t)
       PROVE  TimerfdArmed'
  <2>1. timers' \subseteq timers /\ UNCHANGED <<now, due, handling>>
    BY <1>11 DEF Cancel, CancelInLoop, local
  <2>2. CASE UNCHANGED <<armed, readable>>
    BY <1>3, <2>1, <2>2
  <2>3. CASE First(Entry(t)) /\ ResetTimerfd(expiration[t])
    <3>1. \A e \in timers' : e[1] \in Nat /\ expiration[t] <= e[1]
      BY <2>1, <2>3 DEF First, Entry, TypeOK
    <3>2. expiration[t] \in Nat
      BY DEF TypeOK
    <3>3. QED
      BY <1>2, <2>1, <2>3, <3>1, <3>2, ResetRingsInTime
  <2>4. QED
    BY <1>11, <2>2, <2>3 DEF Cancel, CancelInLoop
<1>12. CASE UNCHANGED vars
  BY <1>3, <1>12 DEF vars, clock, sets, local
<1>13. QED
  BY <1>4, <1>5, <1>6, <1>7, <1>8, <1>9, <1>10, <1>11, <1>12 DEF Next, LoopStep, UserStep

(* While a timer waits, the kernel will ring, or has rung, no later than   *)
(* it is due, whatever is cancelled (TimerQueue.cc:18-40, 80-86, 118-124). *)
THEOREM TimerfdIsArmed == Spec => []TimerfdArmed
<1>1. Init => TimerfdArmed
  BY DEF Init, TimerfdArmed
<1>2. PlaceInv /\ TimerfdArmed /\ [Next]_vars => TimerfdArmed'
  BY TimerfdArmedStep DEF PlaceInv
<1>3. QED
  BY <1>1, <1>2, PlaceInvInductive, PTL DEF Spec

-----------------------------------------------------------------------------
(* The sets, when callers leave the timers that are executing alone.       *)

LEMMA SetsAgreeStep ==
  ASSUME FiledInv, ~AnyCancel, [Next]_vars
  PROVE  SetsAgree' /\ OnTheWay'
<1> USE DEF SetsAgree, OnTheWay, FiledInv, PlaceInv
<1>0. \A e \in Filed : e[2] \in Timers /\ e \in Nat \X Timers
  BY DEF TypeOK, Filed
<1>1. ASSUME Filed' \subseteq Filed, UNCHANGED <<activeTimers, expiration, heap, created, requests>>
      PROVE  SetsAgree' /\ OnTheWay'
  BY <1>1 DEF Filed, Entry
<1>2. CASE Tick \/ Ring \/ PollTimer
  BY <1>1, <1>2 DEF Tick, Ring, PollTimer, clock, sets, local, Filed
<1>3. CASE RunTimer
  BY <1>1, <1>3 DEF RunTimer, clock, sets, Filed
<1>4. CASE RunRequest
  <2> DEFINE t == Head(requests)
  <2>1. /\ t = requests[1] /\ 1 \in 1..Len(requests) /\ requests' = Tail(requests)
        /\ t \in Timers /\ expiration[t] \in Nat
        /\ \A i \in 1..Len(requests') : i + 1 \in 1..Len(requests) /\ i + 1 # 1
                                        /\ requests'[i] = requests[i + 1]
    BY <1>4 DEF RunRequest, TypeOK
  <2>2. /\ timers' = timers \cup {Entry(t)} /\ activeTimers' = activeTimers \cup {t}
        /\ UNCHANGED <<created, heap, expiration, batch, ranBatch>>
    BY <1>4, <2>1, AddingFiles DEF RunRequest, local, Entry
  <2>3. t \in heap /\ t \in created
    BY <2>1 DEF OnePlace
  <2>4. \A i \in 1..Len(requests') : requests'[i] # t /\ requests'[i] \in heap \ activeTimers
    BY <2>1 DEF OnePlace
  <2>5. \A e \in Filed' : e \in Filed \/ e = Entry(t)
    BY <2>2 DEF Filed
  <2>6. Entry(t)[2] = t /\ \A x \in Timers : Entry(x)' = Entry(x)
    BY <2>2 DEF Entry
  <2>7. SetsAgree'
    BY <1>0, <2>2, <2>3, <2>5, <2>6 DEF Filed, Entry
  <2>8. OnTheWay'
    BY <2>1, <2>2, <2>3, <2>4
  <2>9. QED
    BY <2>7, <2>8
<1>5. CASE HandleRead
  <2>1. /\ Expired \subseteq timers
        /\ {e[2] : e \in Expired} \subseteq activeTimers
    BY DEF Expired
  <2>2. activeTimers' = activeTimers
    BY <1>5, <2>1 DEF HandleRead
  <2>3. QED
    BY <1>1, <1>5, <2>1, <2>2 DEF HandleRead, Filed
<1>6. CASE FinishRead
  <2>1. /\ timers' = timers \cup {<<NextRun(t), t>> : t \in Again}
        /\ batch' = {} /\ ranBatch' = {} /\ UNCHANGED <<requests, created>>
        /\ activeTimers' = activeTimers \cup Again
        /\ heap' = heap \ (Ran \ Again)
    BY <1>6 DEF FinishRead
  <2>2. \A t \in Timers : expiration'[t] = IF t \in Again THEN NextRun(t)
                                         ELSE IF t \in Ran THEN 0 ELSE expiration[t]
    BY <1>6 DEF FinishRead
  <2>3. \A t \in Ran : t \in Timers /\ \E x \in Filed : x[2] = t /\ x \in ranBatch
    BY <1>0 DEF Ran, Filed
  <2>4. Ran \subseteq heap \cap activeTimers /\ Again \subseteq Ran
    BY <2>3 DEF Again, Filed
  <2>5. \A e \in timers : e[2] \notin Ran
    BY <2>3 DEF OnePlace, Filed
  <2>6. \A i \in 1..Len(requests) : requests[i] \notin Ran
    BY <2>3 DEF OnePlace, Filed
  <2>7. activeTimers' = activeTimers
    BY <2>1, <2>4
  <2>8. ASSUME NEW e \in timers
        PROVE  e[2] \in heap' /\ e[2] \in activeTimers' /\ e = Entry(e[2])'
    BY <1>0, <2>1, <2>2, <2>4, <2>5, <2>7 DEF Filed, Entry
  <2>9. ASSUME NEW t \in Again
        PROVE  t \in heap' /\ t \in activeTimers' /\ <<NextRun(t), t>> = <<expiration'[t], t>>
    BY <2>1, <2>2, <2>3, <2>4
  <2>10. SetsAgree'
    <3>1. \A e \in timers' : e \in timers \/ \E t \in Again : e = <<NextRun(t), t>>
      BY <2>1
    <3>2. QED
      BY <2>1, <2>8, <2>9, <3>1 DEF Entry
  <2>11. OnTheWay'
    BY <2>1, <2>6, <2>7
  <2>12. QED
    BY <2>10, <2>11
<1>7. ASSUME NEW t \in Timers, NEW d \in Delays, New(t, d), UNCHANGED <<batch, ranBatch>>,
             \/ /\ timers' = timers \cup {<<now + d, t>>} /\ requests' = requests
                /\ activeTimers' = activeTimers \cup {t}
             \/ /\ timers' = timers /\ requests' = Append(requests, t)
                /\ activeTimers' = activeTimers
      PROVE  SetsAgree' /\ OnTheWay'
  <2>1. /\ t \notin created /\ created' = created \cup {t} /\ heap' = heap \cup {t}
        /\ expiration' = [expiration EXCEPT ![t] = now + d] /\ now + d \in Nat
    BY <1>7, TimerAssumption DEF New, TypeOK
  <2>2. /\ \A e \in Filed : e[2] # t
        /\ \A i \in 1..Len(requests) : requests[i] # t
        /\ t \notin activeTimers /\ t \notin heap
    BY <2>1 DEF OnePlace
  <2>3. expiration'[t] = now + d /\ \A e \in Filed : expiration'[e[2]] = expiration[e[2]]
    BY <1>0, <2>1, <2>2 DEF TypeOK
  <2>4. \A e \in Filed' : e \in Filed \/ (e = <<now + d, t>> /\ t \in activeTimers')
    BY <1>7 DEF Filed
  <2>5. SetsAgree'
    BY <1>7, <2>1, <2>3, <2>4 DEF Filed, Entry
  <2>6. OnTheWay'
    <3>1. CASE requests' = requests
      BY <1>7, <2>1, <2>2, <3>1
    <3>2. CASE activeTimers' = activeTimers /\ requests' = Append(requests, t)
      <4>1. \A i \in 1..Len(requests') :
              requests'[i] = t \/ \E j \in 1..Len(requests) : requests'[i] = requests[j]
        BY <3>2 DEF TypeOK
      <4>2. QED
        BY <2>1, <2>2, <3>2, <4>1
    <3>3. QED
      BY <1>7, <3>1, <3>2
  <2>7. QED
    BY <2>5, <2>6
<1>8. ASSUME NEW t \in Timers, NEW d \in Delays, AddTimer(t, d) \/ QueueAddTimer(t, d)
      PROVE  SetsAgree' /\ OnTheWay'
  BY <1>7, <1>8 DEF AddTimer, AddTimerInLoop, QueueAddTimer, sets, local
<1>9. ASSUME NEW t \in Timers, Cancel(t)
      PROVE  SetsAgree' /\ OnTheWay'
  <2>1. UNCHANGED <<created, requests, batch, ranBatch>>
    BY <1>9 DEF Cancel, local
  <2>2. CASE t \notin activeTimers
    BY <1>1, <1>9, <2>1, <2>2 DEF Cancel, CancelInLoop, Filed
  <2>3. CASE t \in activeTimers
    <3>1. Entry(t) \in timers
      BY <1>9, <2>3 DEF Cancel, Cancellable
    <3>2. /\ timers' = timers \ {Entry(t)} /\ activeTimers' = activeTimers \ {t}
          /\ heap' = heap \ {t}
          /\ \A x \in Timers : x # t => expiration'[x] = expiration[x]
      BY <1>9, <2>3 DEF Cancel, CancelInLoop, Free
    <3>3. \A e \in Filed : e[2] = t => e = Entry(t)
      BY DEF Filed
    <3>4. Entry(t) \notin batch \cup ranBatch
      BY <3>1 DEF OnePlace
    <3>5. \A e \in Filed' : e \in Filed /\ e[2] # t
      BY <2>1, <3>2, <3>3, <3>4 DEF Filed
    <3>6. SetsAgree'
      BY <1>0, <3>2, <3>5 DEF Filed, Entry
    <3>7. OnTheWay'
      BY <2>1, <2>3, <3>2
    <3>8. QED
      BY <3>6, <3>7
  <2>4. QED
    BY <2>2, <2>3
<1>10. CASE UNCHANGED vars
  BY <1>1, <1>10 DEF vars, sets, local, Filed
<1>11. QED
  BY <1>2, <1>3, <1>4, <1>5, <1>6, <1>8, <1>9, <1>10 DEF Next, LoopStep, UserStep

(* What is due is found where it is looked for, as long as callers cancel  *)
(* no timer that is executing or has executed; the run with AnyCancel      *)
(* shows that the condition is needed (TimerQueue.cc:62-78, 94-160).       *)
THEOREM TimersAreFiled == ASSUME ~AnyCancel PROVE Spec => []TimersFiled
<1>1. Init => SetsAgree /\ OnTheWay
  BY DEF Init, SetsAgree, OnTheWay
<1>2. PlaceInv /\ SetsAgree /\ OnTheWay /\ [Next]_vars => SetsAgree' /\ OnTheWay'
  BY SetsAgreeStep DEF FiledInv
<1>3. SetsAgree /\ TimerfdArmed => TimersFiled
  BY DEF TimersFiled
<1>4. QED
  BY <1>1, <1>2, <1>3, PlaceInvInductive, TimerfdIsArmed, PTL DEF Spec

-----------------------------------------------------------------------------
(* Buffer.                                                                 *)

(* A buffer as IndicesOK has it, but that it may be empty away from the    *)
(* front, as in the middle of readFd.                                      *)
Ordered(v) ==
  /\ v \in Fields
  /\ kCheapPrepend <= v.readerIndex
  /\ v.readerIndex <= v.writerIndex
  /\ v.writerIndex <= Len(v.buffer)

(* What copying to the vector leaves in it (Buffer.h:59, Buffer.h:84). *)
LEMMA CopyFacts ==
  ASSUME BufferAssumption, NEW s \in Seq(Bytes), NEW at \in Nat,
         NEW data \in Seq(Bytes), at + Len(data) <= Len(s)
  PROVE  /\ Copy(s, at, data) \in Seq(Bytes)
         /\ Len(Copy(s, at, data)) = Len(s)
         /\ \A i \in 1..Len(data) : Copy(s, at, data)[at + i] = data[i]
         /\ \A i \in 1..at : Copy(s, at, data)[i] = s[i]
<1> DEFINE f == [i \in 1..Len(s) |->
                   IF at < i /\ i <= at + Len(data) THEN data[i - at] ELSE s[i]]
<1>1. \A i \in 1..Len(s) : f[i] \in Bytes
  OBVIOUS
<1>2. f \in Seq(Bytes) /\ Len(f) = Len(s)
  BY <1>1
<1>3. \A i \in 1..Len(data) : f[at + i] = data[i]
  OBVIOUS
<1>4. \A i \in 1..at : f[i] = s[i]
  OBVIOUS
<1> QED BY <1>2, <1>3, <1>4 DEF Copy

(* What is read from a buffer is a sequence of bytes (Buffer.h:14-29). *)
LEMMA ReadableFacts ==
  ASSUME NEW v, Ordered(v), BufferAssumption
  PROVE  /\ Readable(v) \in Seq(Bytes)
         /\ Len(Readable(v)) = v.writerIndex - v.readerIndex
         /\ \A i \in 1..Len(Readable(v)) :
              Readable(v)[i] = v.buffer[v.readerIndex + i]
<1> DEFINE n == v.writerIndex - v.readerIndex
<1>1. n \in Nat
  BY DEF Ordered, Fields, BufferAssumption
<1>2. \A i \in 1..n : v.buffer[v.readerIndex + i] \in Bytes
  BY DEF Ordered, Fields, BufferAssumption
<1>3. [i \in 1..n |-> v.buffer[v.readerIndex + i]] \in Seq(Bytes)
  BY <1>1, <1>2
<1> QED BY <1>1, <1>3 DEF Readable, readableBytes

(* makeSpace makes the room it is asked for and keeps the bytes that wait  *)
(* (Buffer.h:78-90).                                                       *)
LEMMA MakeSpaceFacts ==
  ASSUME BufferAssumption, NEW v, Ordered(v), NEW n \in Nat, writeableBytes(v) < n
  PROVE  LET w == makeSpace(v, n) IN
         /\ Ordered(w)
         /\ n <= writeableBytes(w)
         /\ readableBytes(w) = readableBytes(v)
         /\ Readable(w) = Readable(v)
<1>1. CASE writeableBytes(v) + v.readerIndex < n + kCheapPrepend
  <2> DEFINE w == Grow(v, n)
  <2>1. Len(v.buffer) \in Nat /\ v.writerIndex + n \in Nat
    BY DEF Ordered, Fields
  <2>2. \A i \in 1..(v.writerIndex + n) :
          (IF i <= Len(v.buffer) THEN v.buffer[i] ELSE 0) \in Bytes
    BY <2>1 DEF Ordered, Fields, BufferAssumption
  <2>3. w.buffer \in Seq(Bytes) /\ Len(w.buffer) = v.writerIndex + n
    <3> DEFINE m == v.writerIndex + n
               g == [i \in 1..m |-> IF i <= Len(v.buffer) THEN v.buffer[i] ELSE 0]
    <3>1. g \in [1..m -> Bytes]
      BY <2>2
    <3>2. g \in Seq(Bytes) /\ Len(g) = m
      <4> HIDE DEF g, m
      <4> QED BY <2>1, <3>1 DEF m
    <3>3. w.buffer = g
      BY DEF Grow, Resize, Ordered, Fields
    <3> QED BY <3>2, <3>3
  <2>4. w = [buffer |-> w.buffer, readerIndex |-> v.readerIndex,
             writerIndex |-> v.writerIndex]
    BY SMTT(30) DEF Grow, Ordered, Fields
  <2>5. Ordered(w) /\ n <= writeableBytes(w)
    BY <2>1, <2>3, <2>4, SMTT(30) DEF Ordered, Fields, writeableBytes
  <2>6. \A i \in 1..readableBytes(v) :
          w.buffer[v.readerIndex + i] = v.buffer[v.readerIndex + i]
    BY SMTT(30) DEF Grow, Resize, Ordered, Fields, readableBytes, BufferAssumption
  <2> QED
    BY <1>1, <2>4, <2>5, <2>6 DEF makeSpace, Readable, readableBytes
<1>2. CASE ~(writeableBytes(v) + v.readerIndex < n + kCheapPrepend)
  <2> DEFINE w == Compact(v)
             r == Readable(v)
  <2>1. r \in Seq(Bytes) /\ Len(r) = v.writerIndex - v.readerIndex
    BY ReadableFacts
  <2>2. kCheapPrepend + Len(r) <= Len(v.buffer)
    BY <2>1 DEF Ordered, Fields, BufferAssumption
  <2>3. /\ Copy(v.buffer, kCheapPrepend, r) \in Seq(Bytes)
        /\ Len(Copy(v.buffer, kCheapPrepend, r)) = Len(v.buffer)
        /\ \A i \in 1..Len(r) : Copy(v.buffer, kCheapPrepend, r)[kCheapPrepend + i] = r[i]
    BY <2>1, <2>2, CopyFacts DEF Ordered, Fields, BufferAssumption
  <2>4. Ordered(w) /\ n <= writeableBytes(w) /\ readableBytes(w) = readableBytes(v)
    BY <1>2, <2>1, <2>2, <2>3
       DEF Compact, Ordered, Fields, writeableBytes, readableBytes, BufferAssumption
  <2>5. Readable(w) = [i \in 1..readableBytes(v) |-> r[i]]
    BY <2>1, <2>3, <2>4 DEF Compact, Readable, readableBytes
  <2> QED BY <1>2, <2>1, <2>4, <2>5, SMTT(30) DEF makeSpace, readableBytes
<1> QED BY <1>1, <1>2

(* Writing into the room there is appends to what waits (Buffer.h:57-61). *)
LEMMA WriteFacts ==
  ASSUME BufferAssumption, NEW v, Ordered(v), NEW data \in Seq(Bytes),
         Len(data) <= writeableBytes(v)
  PROVE  LET w == Write(v, data) IN
         /\ Ordered(w)
         /\ Readable(w) = Readable(v) \o data
         /\ readableBytes(w) = readableBytes(v) + Len(data)
         /\ Len(w.buffer) = Len(v.buffer)
         /\ w.readerIndex = v.readerIndex
<1> DEFINE c == Copy(v.buffer, v.writerIndex, data)
           w == Write(v, data)
           r == Readable(v)
<1>1. v.writerIndex + Len(data) <= Len(v.buffer)
  BY DEF Ordered, Fields, writeableBytes
<1>2. /\ c \in Seq(Bytes) /\ Len(c) = Len(v.buffer)
      /\ \A i \in 1..Len(data) : c[v.writerIndex + i] = data[i]
      /\ \A i \in 1..v.writerIndex : c[i] = v.buffer[i]
  BY <1>1, CopyFacts DEF Ordered, Fields
<1>3. w = [buffer |-> c, readerIndex |-> v.readerIndex,
           writerIndex |-> v.writerIndex + Len(data)]
  <2>1. v = [buffer |-> v.buffer, readerIndex |-> v.readerIndex,
             writerIndex |-> v.writerIndex]
    BY DEF Ordered, Fields
  <2>2. Write(v, data) = [v EXCEPT !.buffer = c,
                                   !.writerIndex = v.writerIndex + Len(data)]
    BY DEF Write
  <2> HIDE DEF c
  <2> QED BY <2>1, <2>2
<1>4. Ordered(w)
  BY <1>1, <1>2, <1>3 DEF Ordered, Fields
<1>5. readableBytes(w) = readableBytes(v) + Len(data)
  BY <1>3 DEF readableBytes, Ordered, Fields
<1>6. r \in Seq(Bytes) /\ Len(r) = readableBytes(v)
  BY ReadableFacts DEF readableBytes
<1>7. Readable(w) \in Seq(Bytes) /\ Len(Readable(w)) = readableBytes(w)
  BY <1>4, ReadableFacts DEF readableBytes
<1>8. \A i \in 1..Len(Readable(w)) : Readable(w)[i] = (r \o data)[i]
  <2> SUFFICES ASSUME NEW i \in 1..(readableBytes(v) + Len(data))
               PROVE  Readable(w)[i] = (r \o data)[i]
    BY <1>5, <1>7
  <2>1. Readable(w)[i] = c[v.readerIndex + i]
    BY <1>3, <1>4, <1>5, <1>7, ReadableFacts, SMTT(40)
  <2>2. CASE i <= readableBytes(v)
    <3>1. v.readerIndex + i \in 1..v.writerIndex
      BY <2>2 DEF Ordered, Fields, readableBytes
    <3>2. r[i] = v.buffer[v.readerIndex + i]
      BY <1>6, <2>2, ReadableFacts
    <3> QED BY <1>2, <1>6, <2>1, <2>2, <3>1, <3>2
  <2>3. CASE readableBytes(v) < i
    <3> DEFINE j == i - readableBytes(v)
    <3>1. j \in 1..Len(data) /\ v.readerIndex + i = v.writerIndex + j
      BY <2>3 DEF Ordered, Fields, readableBytes
    <3>2. Readable(w)[i] = data[j]
      BY <1>2, <2>1, <3>1
    <3>3. (r \o data)[i] = data[i - Len(r)]
      BY <1>6, <2>3, ConcatProperties
    <3> QED BY <1>6, <3>2, <3>3
  <2>4. i <= readableBytes(v) \/ readableBytes(v) < i
    BY DEF Ordered, Fields, readableBytes
  <2> HIDE DEF c, w, r
  <2> QED BY <2>2, <2>3, <2>4
<1>9. Readable(w) = r \o data
  <2>1. r \o data \in Seq(Bytes) /\ Len(r \o data) = Len(r) + Len(data)
    BY <1>6
  <2>2. Len(Readable(w)) = Len(r \o data)
    BY <1>5, <1>6, <1>7, <2>1
  <2> DEFINE x == Readable(w)
             y == r \o data
  <2>3. x \in Seq(Bytes) /\ y \in Seq(Bytes) /\ Len(x) = Len(y)
    BY <1>7, <2>1, <2>2
  <2>4. \A i \in 1..Len(x) : x[i] = y[i]
    BY <1>8
  <2> HIDE DEF x, y
  <2>5. x = y
    BY <2>3, <2>4, SeqEqual
  <2> QED BY <2>5 DEF x, y
<1>10. Len(w.buffer) = Len(v.buffer) /\ w.readerIndex = v.readerIndex
  <2> HIDE DEF c, w
  <2> QED BY <1>2, <1>3
<1> HIDE DEF c
<1> QED BY <1>4, <1>5, <1>9, <1>10

(* append, wherever the room comes from (Buffer.h:51-61). *)
LEMMA AppendFacts ==
  ASSUME BufferAssumption, NEW v, Ordered(v), NEW data \in Seq(Bytes)
  PROVE  LET w == append(v, data) IN
         /\ Ordered(w)
         /\ Readable(w) = Readable(v) \o data
         /\ readableBytes(w) = readableBytes(v) + Len(data)
         /\ Len(data) = 0 => w.readerIndex = v.readerIndex
<1> DEFINE e == ensureWriteableBytes(v, Len(data))
<1>1. Len(data) \in Nat /\ writeableBytes(v) \in Nat
  BY DEF Ordered, Fields, writeableBytes
<1>2. /\ Ordered(e) /\ Len(data) <= writeableBytes(e)
      /\ readableBytes(e) = readableBytes(v) /\ Readable(e) = Readable(v)
  BY <1>1, MakeSpaceFacts DEF ensureWriteableBytes
<1>3. Len(data) = 0 => e = v
  BY <1>1 DEF ensureWriteableBytes
<1> HIDE DEF e
<1>4. /\ Ordered(Write(e, data)) /\ Readable(Write(e, data)) = Readable(e) \o data
      /\ readableBytes(Write(e, data)) = readableBytes(e) + Len(data)
      /\ Write(e, data).readerIndex = e.readerIndex
  BY <1>2, WriteFacts
<1> QED BY <1>2, <1>3, <1>4 DEF append, e

LEMMA BytesAssociate ==
  ASSUME NEW s \in Seq(Bytes), NEW t \in Seq(Bytes), NEW u \in Seq(Bytes)
  PROVE  (s \o t) \o u = s \o (t \o u)
BY ConcatAssociative

(* readFd takes what readv gave it, however it is split between the vector *)
(* and extrabuf (Buffer.cc:19-29).                                         *)
LEMMA ReadFdFacts ==
  ASSUME BufferAssumption, NEW v, Ordered(v), NEW data \in Seq(Bytes)
  PROVE  LET w == readFd(v, data) IN
         /\ Ordered(w)
         /\ Readable(w) = Readable(v) \o data
         /\ readableBytes(w) = readableBytes(v) + Len(data)
         /\ Len(data) = 0 => w.readerIndex = v.readerIndex
<1> DEFINE n == writeableBytes(v)
           first == SubSeq(data, 1, n)
           rest == SubSeq(data, n + 1, Len(data))
           full == Write(v, first)
<1>1. n \in Nat /\ Len(data) \in Nat /\ readableBytes(v) \in Nat
  BY DEF Ordered, Fields, writeableBytes, readableBytes
<1>2. CASE Len(data) <= n
  BY <1>1, <1>2, WriteFacts DEF readFd
<1>3. CASE ~(Len(data) <= n)
  <2>1. /\ first \in Seq(Bytes) /\ rest \in Seq(Bytes)
        /\ Len(first) = n /\ Len(rest) = Len(data) - n
    BY <1>1, <1>3
  <2>2. first \o rest = data
    <3>1. first \o rest = SubSeq(data, 1, Len(data))
      BY <1>1, <1>3, ConcatAdjacentSubSeq, SMTT(30)
    <3>2. SubSeq(data, 1, Len(data)) = data
      OBVIOUS
    <3> QED BY <3>1, <3>2
  <2> HIDE DEF n, first, rest
  <2>3. /\ Ordered(full) /\ Readable(full) = Readable(v) \o first
        /\ readableBytes(full) = readableBytes(v) + Len(first)
    BY <2>1, WriteFacts, SMTT(40) DEF n
  <2> HIDE DEF full
  <2>4. /\ Ordered(append(full, rest))
        /\ Readable(append(full, rest)) = Readable(full) \o rest
        /\ readableBytes(append(full, rest)) = readableBytes(full) + Len(rest)
    BY <2>1, <2>3, AppendFacts
  <2>5. (Readable(v) \o first) \o rest = Readable(v) \o data
    <3> DEFINE r == Readable(v)
    <3>1. r \in Seq(Bytes)
      BY ReadableFacts
    <3> HIDE DEF r
    <3>2. first \in Seq(Bytes) /\ rest \in Seq(Bytes)
      BY <2>1
    <3>3. (r \o first) \o rest = r \o (first \o rest)
      BY <3>1, <3>2, BytesAssociate
    <3> QED BY <2>2, <3>3 DEF r
  <2>6. readFd(v, data) = append(full, rest)
    BY <1>3 DEF readFd, n, first, rest, full
  <2>7. Len(data) # 0
    BY <1>1, <1>3 DEF n
  <2>8. readableBytes(append(full, rest)) = readableBytes(v) + Len(data)
    BY <1>1, <2>1, <2>3, <2>4 DEF n
  <2> QED BY <2>3, <2>4, <2>5, <2>6, <2>7, <2>8
<1> QED BY <1>2, <1>3

(* retrieve takes from the front (Buffer.h:30-41). *)
LEMMA RetrieveFacts ==
  ASSUME BufferAssumption, NEW v, Ordered(v), NEW n \in 0..readableBytes(v)
  PROVE  LET w == retrieve(v, n)
             r == Readable(v) IN
         /\ Ordered(w)
         /\ Readable(w) = SubSeq(r, n + 1, Len(r))
         /\ readableBytes(w) = 0 => w.readerIndex = kCheapPrepend
<1> DEFINE w == retrieve(v, n)
           r == Readable(v)
           x == Readable(w)
           y == SubSeq(r, n + 1, Len(r))
<1>1. r \in Seq(Bytes) /\ Len(r) = readableBytes(v)
  BY ReadableFacts DEF readableBytes
<1>2. y \in Seq(Bytes) /\ Len(y) = readableBytes(v) - n
  BY <1>1
<1>3. v = [buffer |-> v.buffer, readerIndex |-> v.readerIndex,
           writerIndex |-> v.writerIndex]
  BY DEF Ordered, Fields
<1>4. CASE n < readableBytes(v)
  <2>1. w = [buffer |-> v.buffer, readerIndex |-> v.readerIndex + n,
             writerIndex |-> v.writerIndex]
    BY <1>3, <1>4 DEF retrieve
  <2>2. Ordered(w) /\ readableBytes(w) = readableBytes(v) - n
    BY <1>4, <2>1 DEF Ordered, Fields, readableBytes
  <2>3. x \in Seq(Bytes) /\ Len(x) = readableBytes(v) - n
    BY <2>2, ReadableFacts DEF readableBytes
  <2>4. \A i \in 1..Len(x) : x[i] = v.buffer[v.readerIndex + n + i]
    BY <2>1, <2>2, ReadableFacts, ZenonT(60) DEF Ordered, Fields, readableBytes
  <2>5. \A i \in 1..Len(y) : y[i] = v.buffer[v.readerIndex + n + i]
    <3>1. \A i \in 1..Len(y) : y[i] = r[n + i]
      BY <1>1, <1>2, SubSeqProperties
    <3>2. \A i \in 1..Len(y) : n + i \in 1..Len(r)
      BY <1>1, <1>2
    <3>3. \A i \in 1..Len(r) : r[i] = v.buffer[v.readerIndex + i]
      BY ReadableFacts
    <3> SUFFICES ASSUME NEW i \in 1..Len(y)
                 PROVE  y[i] = v.buffer[v.readerIndex + n + i]
      OBVIOUS
    <3>4. y[i] = v.buffer[v.readerIndex + (n + i)]
      <4> HIDE DEF r, y
      <4> QED BY <3>1, <3>2, <3>3
    <3>5. v.readerIndex + (n + i) = v.readerIndex + n + i
      BY <1>1, <1>2 DEF Ordered, Fields
    <3> QED BY <3>4, <3>5
  <2> HIDE DEF x, y
  <2>6. x = y
    BY <1>2, <2>3, <2>4, <2>5, SeqEqual
  <2>7. readableBytes(w) # 0
    BY <1>4, <2>2 DEF Ordered, Fields, readableBytes
  <2> HIDE DEF w, r
  <2> QED BY <2>2, <2>6, <2>7 DEF x, y, w, r
<1>5. CASE ~(n < readableBytes(v))
  <2>1. w = [buffer |-> v.buffer, readerIndex |-> kCheapPrepend,
             writerIndex |-> kCheapPrepend]
    BY <1>3, <1>5 DEF retrieve
  <2>2. Ordered(w) /\ readableBytes(w) = 0
    BY <2>1 DEF Ordered, Fields, readableBytes, BufferAssumption
  <2>3. x \in Seq(Bytes) /\ Len(x) = 0
    BY <2>2, ReadableFacts DEF readableBytes
  <2>4. Len(y) = 0
    <3>1. n = readableBytes(v) /\ readableBytes(v) - n = 0
      BY <1>5 DEF Ordered, Fields, readableBytes
    <3> QED BY <1>2, <3>1
  <2> HIDE DEF x, y
  <2>5. x = y
    BY <1>2, <2>3, <2>4
  <2>6. readableBytes(w) = 0 => w.readerIndex = kCheapPrepend
    BY <2>1
  <2> HIDE DEF w, r
  <2> QED BY <2>2, <2>5, <2>6 DEF x, y, w, r
<1> QED BY <1>4, <1>5

-----------------------------------------------------------------------------
(* The theorems.                                                           *)

(* An addition, however it is made, is the queue's. *)
LEMMA Added ==
  ASSUME IndicesOK, Ordered(b'), input' \in Seq(Bytes),
         Readable(b') = Readable(b) \o input',
         readableBytes(b') = readableBytes(b) + Len(input'),
         Len(input') = 0 => b'.readerIndex = b.readerIndex
  PROVE  IndicesOK' /\ Queue!Next
<1>1. readableBytes(b') = 0 => readableBytes(b) = 0 /\ Len(input') = 0
  <2>1. readableBytes(b) \in Nat /\ Len(input') \in Nat
    BY DEF IndicesOK, Fields, readableBytes
  <2> QED BY <2>1
<1>2. IndicesOK'
  BY <1>1 DEF IndicesOK, Ordered
<1> QED BY <1>2 DEF Queue!Next, Queue!Add

(* A step adds what it was given to the end of what waits, or takes from   *)
(* the front.                                                              *)
LEMMA StepFacts ==
  ASSUME BufferAssumption, IndicesOK, [BufferNext]_bufferVars
  PROVE  IndicesOK' /\ [Queue!Next]_<<Readable(b), input>>
<1>1. Ordered(b)
  BY DEF IndicesOK, Ordered
<1>2. \A s \in Data : s \in Seq(Bytes)
  BY DEF Data, BufferAssumption
<1>3. CASE Append_
  <2>1. input' \in Seq(Bytes) /\ b' = append(b, input')
    BY <1>2, <1>3 DEF Append_
  <2> QED BY <1>1, <2>1, AppendFacts, Added
<1>4. CASE ReadFd_
  <2>1. input' \in Seq(Bytes) /\ b' = readFd(b, input')
    BY <1>2, <1>4 DEF ReadFd_
  <2> QED BY <1>1, <2>1, ReadFdFacts, Added
<1>5. CASE Retrieve_
  <2>1. PICK n \in 0..readableBytes(b) : b' = retrieve(b, n)
    BY <1>5 DEF Retrieve_
  <2>2. /\ Ordered(b') /\ Readable(b') = SubSeq(Readable(b), n + 1, Len(Readable(b)))
        /\ readableBytes(b') = 0 => b'.readerIndex = kCheapPrepend
    BY <1>1, <2>1, RetrieveFacts
  <2>3. n \in 0..Len(Readable(b))
    BY <1>1, ReadableFacts DEF readableBytes
  <2>4. IndicesOK'
    BY <2>2 DEF IndicesOK, Ordered
  <2> QED BY <1>5, <2>2, <2>3, <2>4 DEF Retrieve_, Queue!Next, Queue!Take
<1>6. CASE UNCHANGED bufferVars
  BY <1>6 DEF bufferVars, IndicesOK, Readable, readableBytes
<1> QED BY <1>3, <1>4, <1>5, <1>6 DEF BufferNext

LEMMA InitFacts == ASSUME BufferAssumption, BufferInit PROVE IndicesOK /\ Queue!Init
<1> DEFINE n == kCheapPrepend + kInitiaSize
           s == [i \in 1..n |-> 0]
<1>1. n \in Nat /\ s \in [1..n -> Bytes]
  BY DEF BufferAssumption
<1>2. s \in Seq(Bytes) /\ Len(s) = n
  <2> HIDE DEF n, s
  <2> QED BY <1>1 DEF s
<1>3. b.buffer = s /\ b.readerIndex = kCheapPrepend /\ b.writerIndex = kCheapPrepend
  BY DEF BufferInit
<1>4. b \in Fields
  <2> HIDE DEF s
  <2> QED BY <1>2, <1>3 DEF BufferInit, Fields, BufferAssumption, s
<1>5. IndicesOK
  <2> HIDE DEF s
  <2> QED BY <1>2, <1>3, <1>4 DEF IndicesOK, BufferAssumption
<1>6. Readable(b) \in Seq(Bytes) /\ Len(Readable(b)) = 0
  BY <1>3, <1>5, ReadableFacts DEF IndicesOK, Ordered, BufferAssumption
<1> QED BY <1>5, <1>6 DEF BufferInit, Queue!Init

(* The reader never passes the writer nor the writer the end, and the      *)
(* space in front stays free, whatever is added and taken.                 *)
THEOREM IndicesCorrect == BufferSpec => []IndicesOK
<1>1. BufferInit => IndicesOK
  BY InitFacts, BufferAssumption
<1>2. IndicesOK /\ [BufferNext]_bufferVars => IndicesOK'
  BY StepFacts, BufferAssumption
<1> QED BY <1>1, <1>2, PTL DEF BufferSpec

(* A Buffer is a queue of bytes: nothing is lost, doubled or reordered by  *)
(* growing, by moving to the front, or by reading into two parts.          *)
THEOREM QueueImplemented == BufferSpec => ImplementsByteQueue
<1>1. BufferInit => Queue!Init
  BY InitFacts, BufferAssumption
<1>2. IndicesOK /\ [BufferNext]_bufferVars => [Queue!Next]_<<Readable(b), input>>
  BY StepFacts, BufferAssumption
<1> QED BY <1>1, <1>2, IndicesCorrect, PTL DEF BufferSpec, ImplementsByteQueue, Queue!Spec, Queue!vars
=============================================================================

----------------------------- MODULE TimerQueue -----------------------------
(***************************************************************************)
(* src/src/TimerQueue.cc and Timer.cc: the timers of one EventLoop, kept   *)
(* in a set ordered by expiration and served by one timerfd.  Timers are   *)
(* added and cancelled by the loop thread on the spot, by other threads    *)
(* through queueInLoop.                                                    *)
(*                                                                         *)
(* A Timer object is a member of Timers and its address at once; freed     *)
(* addresses are not allocated again.                                      *)
(***************************************************************************)
EXTENDS Naturals, Sequences, FiniteSets

CONSTANTS
  Timers,     \* the Timer objects that may be created
  Interval,   \* Interval[t]: 0 for a one-shot timer, else its period
  Delays,     \* the delays runAfter is called with
  MaxTime,    \* bound: the clock stops here
  AnyCancel   \* whether callers cancel timers that are executing or executed

ASSUME TimerAssumption ==
  /\ Interval \in [Timers -> Nat]
  /\ Delays \subseteq Nat
  /\ MaxTime \in Nat \ {0}
  /\ AnyCancel \in BOOLEAN

VARIABLES
  now,          \* the monotonic clock
  armed,        \* when the timerfd rings, 0 if it is disarmed
  readable,     \* the timerfd has rung and was neither read nor set again
  due,          \* the timer channel is in activeChannels_
  timers,       \* timers_: pairs of an expiration and a timer
  activeTimers,     \* activeTimers_
  cancelingTimers,  \* cancelingTimers_
  calling,      \* callingExpiredTimers_
  expiration,   \* expiration[t]: expiration_
  heap,         \* the Timer objects that exist
  created,      \* history: the Timer objects that were ever created
  requests,     \* timers whose addTimerInLoop other threads have queued
  batch,        \* handleRead's vector expired: what has still to run
  ranBatch,     \* the part of expired that ran
  readTime,     \* handleRead's now
  handling      \* the loop thread is in handleRead

vars == <<now, armed, readable, due, timers, activeTimers, cancelingTimers,
          calling, expiration, heap, created, requests, batch, ranBatch,
          readTime, handling>>

clock == <<now, armed, readable>>
sets  == <<timers, activeTimers, cancelingTimers>>
local == <<batch, ranBatch, readTime, handling>>

Entry(t) == <<expiration[t], t>>

Init ==
  /\ now = 1 /\ armed = 0 /\ readable = FALSE /\ due = FALSE
  /\ timers = {} /\ activeTimers = {} /\ cancelingTimers = {}
  /\ calling = FALSE
  /\ expiration = [t \in Timers |-> 0]
  /\ heap = {} /\ created = {}
  /\ requests = <<>>
  /\ batch = {} /\ ranBatch = {} /\ readTime = 0 /\ handling = FALSE

-----------------------------------------------------------------------------
(* The timerfd.                                                            *)

AtLeast(x, y) == IF x < y THEN y ELSE x

(* resetTimerfd(when): timerfd_settime disarms and rearms, so an expiry    *)
(* that was not read is forgotten.  At least 100us in the future.          *)
ResetTimerfd(when) ==
  /\ armed' = AtLeast(when, now + 1)
  /\ readable' = FALSE

Tick ==
  /\ now < MaxTime
  /\ now' = now + 1
  /\ UNCHANGED <<armed, readable, due, sets, calling, expiration, heap, created,
                 requests, local>>

(* The timerfd rings.  Where the clock stands still for good, the 100us    *)
(* that resetTimerfd adds still pass.                                      *)
Ring ==
  /\ armed # 0
  /\ armed <= now \/ (now = MaxTime /\ armed = MaxTime + 1)
  /\ armed' = 0
  /\ readable' = TRUE
  /\ UNCHANGED <<now, due, sets, calling, expiration, heap, created, requests,
                 local>>

(* epoll_wait reports the timer channel. *)
PollTimer ==
  /\ readable /\ ~due /\ ~handling
  /\ due' = TRUE
  /\ UNCHANGED <<clock, sets, calling, expiration, heap, created, requests,
                 local>>

-----------------------------------------------------------------------------
(* Adding.                                                                 *)

Earliest(when) == \A e \in timers : when < e[1]

(* insert and addTimerInLoop: the timerfd is set if the timer is earliest. *)
AddTimerInLoop(t, when) ==
  /\ timers' = timers \cup {<<when, t>>}
  /\ activeTimers' = activeTimers \cup {t}
  /\ IF Earliest(when) THEN ResetTimerfd(when) ELSE UNCHANGED <<armed, readable>>
  /\ UNCHANGED cancelingTimers

New(t, d) ==
  /\ t \notin created
  /\ created' = created \cup {t}
  /\ heap' = heap \cup {t}
  /\ expiration' = [expiration EXCEPT ![t] = now + d]

(* The loop thread runs user code: between polls' own handlers, or in the  *)
(* callback of a timer.                                                    *)
UserCode == handling => ranBatch # {}

(* addTimer on the loop thread. *)
AddTimer(t, d) ==
  /\ UserCode
  /\ New(t, d)
  /\ AddTimerInLoop(t, now + d)
  /\ UNCHANGED <<now, due, calling, requests, local>>

(* addTimer on another thread. *)
QueueAddTimer(t, d) ==
  /\ New(t, d)
  /\ requests' = Append(requests, t)
  /\ UNCHANGED <<clock, due, sets, calling, local>>

-----------------------------------------------------------------------------
(* Cancelling.                                                             *)

First(e) == e \in timers /\ \A x \in timers : e[1] <= x[1]

(* Deleted timers; what is read through a dangling pointer is 0 here. *)
Free(gone) == /\ heap' = heap \ gone
              /\ expiration' = [t \in Timers |-> IF t \in gone THEN 0 ELSE expiration[t]]

(* cancelInLoop.  A timer found in activeTimers_ is taken for one that     *)
(* waits in timers_.  When it is the first, the timerfd is set again, for  *)
(* the cancelled timer's own time: it++ yields the old position.  Reading  *)
(* the end of an empty timers_ is undefined: here, it has no effect.       *)
CancelInLoop(t) ==
  IF t \in activeTimers
    THEN /\ IF First(Entry(t)) THEN ResetTimerfd(expiration[t])
                               ELSE UNCHANGED <<armed, readable>>
         /\ timers' = timers \ {Entry(t)}
         /\ activeTimers' = activeTimers \ {t}
         /\ Free({t})
         /\ UNCHANGED cancelingTimers
    ELSE /\ cancelingTimers' = IF calling THEN cancelingTimers \cup {t}
                                          ELSE cancelingTimers
         /\ UNCHANGED <<armed, readable, timers, activeTimers, heap, expiration>>

(* What callers cancel: without AnyCancel, timers that wait for their      *)
(* (next) expiry and timers that were cancelled before, as CheckerTask.    *)
Cancellable(t) ==
  /\ t \in created
  /\ AnyCancel \/ Entry(t) \in timers \/ t \notin activeTimers

(* cancel on the loop thread. *)
Cancel(t) ==
  /\ UserCode
  /\ Cancellable(t)
  /\ CancelInLoop(t)
  /\ UNCHANGED <<now, due, calling, created, requests, local>>

(* A functor queued by addTimer on another thread runs in doPendingFunctors. *)
RunRequest ==
  /\ ~handling /\ ~due
  /\ requests # <<>>
  /\ AddTimerInLoop(Head(requests), expiration[Head(requests)])
  /\ requests' = Tail(requests)
  /\ UNCHANGED <<now, due, calling, expiration, heap, created, local>>

-----------------------------------------------------------------------------
(* handleRead.                                                             *)

(* Mutant: the bound of getExpired is one unit too late. *)
ExpiredSoon == {e \in timers : e[1] <= now + 1}

Expired == {e \in timers : e[1] <= now}

(* The timerfd is read and the expired timers leave timers_; getExpired    *)
(* inserts them into activeTimers_, where they already are.                *)
HandleRead ==
  /\ due
  /\ due' = FALSE
  /\ readable' = FALSE
  /\ readTime' = now
  /\ batch' = Expired /\ ranBatch' = {}
  /\ timers' = timers \ Expired
  /\ activeTimers' = activeTimers \cup {e[2] : e \in Expired}
  /\ calling' = TRUE
  /\ handling' = TRUE
  /\ UNCHANGED <<now, armed, cancelingTimers, expiration, heap, created, requests>>

(* The callback of the next expired timer is called. *)
RunTimer ==
  /\ handling
  /\ \E e \in batch :
       /\ \A x \in batch : e[1] <= x[1]
       /\ batch' = batch \ {e}
       /\ ranBatch' = ranBatch \cup {e}
  /\ UNCHANGED <<clock, due, sets, calling, expiration, heap, created, requests,
                 readTime, handling>>

Ran == {e[2] : e \in ranBatch}
Again == {t \in Ran : Interval[t] > 0 /\ t \notin cancelingTimers}
NextRun(t) == readTime + Interval[t]

(* Mutant: the timerfd is not set again for the timers that remain. *)
ArmNothing == UNCHANGED <<armed, readable>>

(* The timerfd is set for the earliest timer, if there is one. *)
ArmNext ==
  \/ timers' = {} /\ UNCHANGED <<armed, readable>>
  \/ \E e \in timers' : /\ \A x \in timers' : e[1] <= x[1]
                        /\ ResetTimerfd(e[1])

(* Mutant: every timer that ran is deleted, restarted or not. *)
FinishReadDeletingAll ==
  /\ handling /\ batch = {}
  /\ handling' = FALSE
  /\ ranBatch' = {}
  /\ expiration' = [t \in Timers |-> IF t \in Again THEN NextRun(t)
                                   ELSE IF t \in Ran THEN 0 ELSE expiration[t]]
  /\ timers' = timers \cup {<<NextRun(t), t>> : t \in Again}
  /\ activeTimers' = activeTimers \cup Again
  /\ heap' = heap \ Ran
  /\ cancelingTimers' = {}
  /\ ArmNext
  /\ readTime' = 0
  /\ UNCHANGED <<now, due, calling, created, requests, batch>>

(* Repeating timers are restarted from handleRead's now and inserted, the  *)
(* others deleted; the timerfd is set for the earliest timer.              *)
FinishRead ==
  /\ handling /\ batch = {}
  /\ handling' = FALSE
  /\ ranBatch' = {}
  /\ expiration' = [t \in Timers |-> IF t \in Again THEN NextRun(t)
                                   ELSE IF t \in Ran THEN 0 ELSE expiration[t]]
  /\ timers' = timers \cup {<<NextRun(t), t>> : t \in Again}
  /\ activeTimers' = activeTimers \cup Again
  /\ heap' = heap \ (Ran \ Again)
  /\ cancelingTimers' = {}
  /\ ArmNext
  /\ readTime' = 0
  /\ UNCHANGED <<now, due, calling, created, requests, batch>>

-----------------------------------------------------------------------------

LoopStep == PollTimer \/ RunRequest \/ HandleRead \/ RunTimer \/ FinishRead

UserStep ==
  \E t \in Timers : \/ Cancel(t)
                    \/ \E d \in Delays : AddTimer(t, d) \/ QueueAddTimer(t, d)

Next == Tick \/ Ring \/ LoopStep \/ UserStep

Spec == Init /\ [][Next]_vars

(* The clock and the loop thread never stop for good; callers may.         *)
Fairness == WF_vars(Tick) /\ WF_vars(Ring) /\ WF_vars(LoopStep)

FairSpec == Spec /\ Fairness

-----------------------------------------------------------------------------
(* Properties.                                                             *)

TypeOK ==
  /\ now \in 1..MaxTime
  /\ armed \in Nat
  /\ readable \in BOOLEAN /\ due \in BOOLEAN
  /\ calling \in BOOLEAN /\ handling \in BOOLEAN
  /\ timers \cup batch \cup ranBatch \subseteq Nat \X Timers
  /\ activeTimers \cup cancelingTimers \cup heap \cup created \subseteq Timers
  /\ expiration \in [Timers -> Nat]
  /\ requests \in Seq(Timers)
  /\ readTime \in Nat

(* The sets TimerQueue keeps agree: a timer that waits in timers_ or is    *)
(* being handled exists, is known to activeTimers_, and is filed under its *)
(* own expiration, so that cancelInLoop finds it (TimerQueue.cc:62-78,     *)
(* 94-106 and 146-160).                                                    *)
SetsAgree ==
  \A e \in timers \cup batch \cup ranBatch :
    /\ e[2] \in heap
    /\ e[2] \in activeTimers
    /\ e = Entry(e[2])

(* While a timer waits, the timerfd has rung or will ring no later than    *)
(* that timer is due, or at the next unit of time (TimerQueue.cc:18-40,    *)
(* 80-86, 118-124 and 152-156).                                            *)
TimerfdArmed ==
  timers # {} /\ ~handling =>
    \/ due \/ readable
    \/ /\ armed # 0
       /\ \A e \in timers : armed <= AtLeast(e[1], now + 1)

(* What is due is found where it is looked for, and the kernel is asked    *)
(* for it in time.                                                         *)
TimersFiled == SetsAgree /\ TimerfdArmed

(* No callback is called before its time (TimerQueue.cc:94-101).           *)
NeverEarly ==
  [][\A e \in ranBatch' \ ranBatch : expiration[e[2]] <= now]_vars

(* A waiting timer runs once its time has come, unless it is cancelled.    *)
WaitingTimersRun ==
  \A t \in Timers, k \in 1..MaxTime :
    (<<k, t>> \in timers) ~> (<<k, t>> \in ranBatch \/ t \notin heap)

(* TimerQueue.cc:70 and TimerQueue.h:31: cancelling a timer while the      *)
(* expired timers run is deferred, so the timers being handled exist until *)
(* handleRead is done with them.                                           *)
CancelIsDeferred == \A e \in batch \cup ranBatch : e[2] \in heap
=============================================================================

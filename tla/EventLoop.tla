----------------------------- MODULE EventLoop -----------------------------
(***************************************************************************)
(* src/src/EventLoop.cc: one reactor thread (the loop thread), the         *)
(* functors handed to it by other threads and by its own callbacks, the    *)
(* eventfd that wakes it out of epoll_wait, and quit().                    *)
(*                                                                         *)
(* An atomic step of the model is one access to shared state: the push     *)
(* under mutex_, the write to the eventfd, one epoll_wait, one read of the *)
(* eventfd, one test of quit_.                                             *)
(***************************************************************************)
EXTENDS Sequences, SequencesExt

CONSTANTS Functors,   \* functors that may be queued, each at most once
          Threads     \* threads other than the loop thread

(* The values beside Functors that "pc" and "current" take. *)
Reserved == {"idle", "quit", "none", "io"}

ASSUME FunctorsAssumption == Functors \cap Reserved = {}

VARIABLES
  phase,     \* where the loop thread is in loop()
  quit,      \* quit_
  calling,   \* callingPendingFunctors_
  pending,   \* pendingFunctors_, protected by mutex_
  running,   \* doPendingFunctors' local vector: what it has still to call
  current,   \* the callback the loop thread is inside: a functor, "io", "none"
  wakeupFd,  \* the counter of the eventfd is positive
  active,    \* activeChannels_ not handled yet: "wakeup" and "io"
  pc,        \* pc[t]: why thread t is about to call wakeup(), or "idle"
  source,    \* history: who queued each functor
  ran        \* history: the functors executed, in order

vars == <<phase, quit, calling, pending, running, current, wakeupFd, active,
          pc, source, ran>>

Phases == {"constructed", "test", "poll", "events", "swap", "functors", "ended"}

TypeOK ==
  /\ phase \in Phases
  /\ quit \in BOOLEAN
  /\ calling \in BOOLEAN
  /\ pending \in Seq(Functors)
  /\ running \in Seq(Functors)
  /\ current \in Functors \cup {"none", "io"}
  /\ wakeupFd \in BOOLEAN
  /\ active \subseteq {"wakeup", "io"}
  /\ pc \in [Threads -> Functors \cup {"idle", "quit"}]
  /\ source \in [Functors -> {"unused", "thread", "handler", "functor"}]
  /\ ran \in Seq(Functors)

Init ==
  /\ phase = "constructed"
  /\ quit = FALSE
  /\ calling = FALSE
  /\ pending = <<>>
  /\ running = <<>>
  /\ current = "none"
  /\ wakeupFd = FALSE
  /\ active = {}
  /\ pc = [t \in Threads |-> "idle"]
  /\ source = [f \in Functors |-> "unused"]
  /\ ran = <<>>

-----------------------------------------------------------------------------
(* Calls from other threads.                                               *)

(* queueInLoop, and runInLoop, which is the same off the loop thread: the  *)
(* push; the wakeup() that follows is ThreadWakeup.                        *)
ThreadQueue(t, f) ==
  /\ pc[t] = "idle"
  /\ source[f] = "unused"
  /\ pending' = Append(pending, f)
  /\ source' = [source EXCEPT ![f] = "thread"]
  /\ pc' = [pc EXCEPT ![t] = f]
  /\ UNCHANGED <<phase, quit, calling, running, current, wakeupFd, active, ran>>

(* Mutant: quit_ is set and the loop is not woken. *)
ThreadQuitSilently(t) ==
  /\ pc[t] = "idle"
  /\ quit' = TRUE
  /\ UNCHANGED <<pc, phase, calling, pending, running, current, wakeupFd,
                 active, source, ran>>

(* quit() off the loop thread: the store to quit_; then ThreadWakeup. *)
ThreadQuit(t) ==
  /\ pc[t] = "idle"
  /\ quit' = TRUE
  /\ pc' = [pc EXCEPT ![t] = "quit"]
  /\ UNCHANGED <<phase, calling, pending, running, current, wakeupFd, active,
                 source, ran>>

(* wakeup(): the write to the eventfd. *)
ThreadWakeup(t) ==
  /\ pc[t] # "idle"
  /\ wakeupFd' = TRUE
  /\ pc' = [pc EXCEPT ![t] = "idle"]
  /\ UNCHANGED <<phase, quit, calling, pending, running, current, active,
                 source, ran>>

-----------------------------------------------------------------------------
(* Calls from the loop thread: inside a callback, and from the code that   *)
(* owns the loop before loop() is entered and after it has returned.       *)

InLoopCode == current # "none" \/ phase \in {"constructed", "ended"}

(* Mutant: the wakeup() is only for other threads. *)
LoopQueueSilently(f) ==
  /\ InLoopCode
  /\ source[f] = "unused"
  /\ pending' = Append(pending, f)
  /\ source' = [source EXCEPT ![f] = IF calling THEN "functor" ELSE "handler"]
  /\ UNCHANGED <<phase, quit, calling, running, current, wakeupFd, active, pc, ran>>

(* queueInLoop on the loop thread calls wakeup() unless it is inside       *)
(* doPendingFunctors.  No other thread reads the eventfd, so the push and  *)
(* the write are one step.                                                 *)
LoopQueue(f) ==
  /\ InLoopCode
  /\ source[f] = "unused"
  /\ pending' = Append(pending, f)
  /\ source' = [source EXCEPT ![f] = IF calling THEN "functor" ELSE "handler"]
  /\ wakeupFd' = IF calling THEN wakeupFd ELSE TRUE
  /\ UNCHANGED <<phase, quit, calling, running, current, active, pc, ran>>

(* runInLoop on the loop thread calls the functor on the spot. *)
LoopRunInline(f) ==
  /\ InLoopCode
  /\ source[f] = "unused"
  /\ ran' = Append(ran, f)
  /\ source' = [source EXCEPT ![f] = IF calling THEN "functor" ELSE "handler"]
  /\ UNCHANGED <<phase, quit, calling, pending, running, current, wakeupFd,
                 active, pc>>

(* quit() on the loop thread needs no wakeup: loop() tests quit_ next. *)
LoopQuit ==
  /\ InLoopCode
  /\ quit' = TRUE
  /\ UNCHANGED <<phase, calling, pending, running, current, wakeupFd, active,
                 pc, source, ran>>

-----------------------------------------------------------------------------
(* loop().                                                                 *)

StartLoop ==
  /\ phase = "constructed"
  /\ phase' = "test"
  /\ quit' = FALSE
  /\ UNCHANGED <<calling, pending, running, current, wakeupFd, active, pc,
                 source, ran>>

(* Mutant: quit_ is cleared at the top of every iteration. *)
EnterPollResettingQuit ==
  /\ phase = "test"
  /\ phase' = "poll"
  /\ quit' = FALSE
  /\ UNCHANGED <<calling, pending, running, current, wakeupFd, active, pc,
                 source, ran>>

(* while (!quit_): another iteration. *)
EnterPoll ==
  /\ phase = "test"
  /\ ~quit
  /\ phase' = "poll"
  /\ UNCHANGED <<quit, calling, pending, running, current, wakeupFd, active, pc,
                 source, ran>>

(* while (!quit_): the last iteration is over. *)
LeaveLoop ==
  /\ phase = "test"
  /\ quit
  /\ phase' = "ended"
  /\ UNCHANGED <<quit, calling, pending, running, current, wakeupFd, active, pc,
                 source, ran>>

Ready == IF wakeupFd THEN {"wakeup"} ELSE {}

(* Mutant: epoll_wait with an infinite timeout, while the other channels *)
(* stay quiet.                                                           *)
PollForever ==
  /\ phase = "poll" /\ Ready # {}
  /\ active' = Ready
  /\ phase' = "events"
  /\ UNCHANGED <<quit, calling, pending, running, current, wakeupFd, pc, source, ran>>

(* epoll_wait returns the wakeup channel when the eventfd is readable, any *)
(* other channels, or nothing once kPollTimeMs has passed.                 *)
Poll ==
  /\ phase = "poll"
  /\ \E others \in SUBSET {"io"} : active' = Ready \cup others
  /\ phase' = "events"
  /\ UNCHANGED <<quit, calling, pending, running, current, wakeupFd, pc, source, ran>>

(* The wakeup channel's handler reads the eventfd, which resets it. *)
HandleReading ==
  /\ phase = "events" /\ current = "none"
  /\ "wakeup" \in active
  /\ active' = active \ {"wakeup"}
  /\ wakeupFd' = FALSE
  /\ UNCHANGED <<phase, quit, calling, pending, running, current, pc, source, ran>>

(* Any other channel's handler: user code, a timer or a connection. *)
HandleEvent ==
  /\ phase = "events" /\ current = "none"
  /\ "io" \in active
  /\ active' = active \ {"io"}
  /\ current' = "io"
  /\ UNCHANGED <<phase, quit, calling, pending, running, wakeupFd, pc, source, ran>>

(* doPendingFunctors: the flag is set before the lock is taken. *)
DoPendingFunctors ==
  /\ phase = "events" /\ current = "none" /\ active = {}
  /\ phase' = "swap"
  /\ calling' = TRUE
  /\ UNCHANGED <<quit, pending, running, current, wakeupFd, active, pc, source, ran>>

(* Mutant: the functors are copied out and not removed. *)
CopyFunctors ==
  /\ phase = "swap"
  /\ phase' = "functors"
  /\ running' = pending
  /\ UNCHANGED <<quit, calling, pending, current, wakeupFd, active, pc, source, ran>>

SwapFunctors ==
  /\ phase = "swap"
  /\ phase' = "functors"
  /\ running' = pending
  /\ pending' = <<>>
  /\ UNCHANGED <<quit, calling, current, wakeupFd, active, pc, source, ran>>

CallFunctor ==
  /\ phase = "functors" /\ current = "none" /\ running # <<>>
  /\ current' = Head(running)
  /\ running' = Tail(running)
  /\ ran' = Append(ran, Head(running))
  /\ UNCHANGED <<phase, quit, calling, pending, wakeupFd, active, pc, source>>

(* The callback the loop thread is inside returns. *)
ReturnFromCallback ==
  /\ current # "none"
  /\ current' = "none"
  /\ UNCHANGED <<phase, quit, calling, pending, running, wakeupFd, active, pc,
                 source, ran>>

FunctorsDone ==
  /\ phase = "functors" /\ current = "none" /\ running = <<>>
  /\ phase' = "test"
  /\ calling' = FALSE
  /\ UNCHANGED <<quit, pending, running, current, wakeupFd, active, pc, source, ran>>

-----------------------------------------------------------------------------

(* The loop thread's own progress: what it does with no help from anyone. *)
LoopStep ==
  \/ EnterPoll \/ LeaveLoop \/ Poll \/ HandleReading \/ HandleEvent
  \/ DoPendingFunctors \/ SwapFunctors \/ CallFunctor \/ ReturnFromCallback
  \/ FunctorsDone

LoopUser ==
  \/ LoopQuit
  \/ \E f \in Functors : LoopQueue(f) \/ LoopRunInline(f)

ThreadStep(t) ==
  \/ ThreadQuit(t) \/ ThreadWakeup(t)
  \/ \E f \in Functors : ThreadQueue(t, f)

Next == StartLoop \/ LoopStep \/ LoopUser \/ \E t \in Threads : ThreadStep(t)

Spec == Init /\ [][Next]_vars

-----------------------------------------------------------------------------
(* Properties.                                                             *)

(* The loop thread is inside a callback only while it handles events or    *)
(* functors, and callingPendingFunctors_ tells the two apart: queueInLoop  *)
(* trusts it (EventLoop.cc:103 and 126-137).                               *)
CallbackPhases ==
  /\ current # "none" => phase \in {"events", "functors"}
  /\ phase \in {"swap", "functors"} => calling
  /\ phase \in {"constructed", "test", "poll", "events", "ended"} => ~calling

ControlOK == TypeOK /\ CallbackPhases

(* Nobody has still to write the eventfd on behalf of x. *)
Unannounced(x) == \A t \in Threads : pc[t] # x

(* A loop that blocks in poll with an unreadable eventfd has no functor to *)
(* run, but for those whose submitter is about to call wakeup() and those  *)
(* queued by another functor, for which queueInLoop calls no wakeup()      *)
(* (EventLoop.cc:97-107 against 56-77 and 126-137).                        *)
NoLostWakeup ==
  phase = "poll" /\ ~wakeupFd =>
    \A i \in 1..Len(pending) :
      Unannounced(pending[i]) => source[pending[i]] = "functor"

(* A loop that blocks in poll has not missed a quit(): quit_ is set only   *)
(* if the eventfd is readable or the quitter is about to write it          *)
(* (EventLoop.cc:81-86).                                                   *)
NoLostQuit == phase = "poll" /\ quit /\ ~wakeupFd => ~Unannounced("quit")

(* EventLoop.cc:104: the test of callingPendingFunctors_ in queueInLoop    *)
(* "keeps the loop from blocking in poll", so that it handles the new      *)
(* callback.                                                               *)
NeverBlocksWithFunctors ==
  phase = "poll" /\ ~wakeupFd =>
    \A i \in 1..Len(pending) : ~Unannounced(pending[i])

(* The loop executes the functors it accepts once each, in the order it    *)
(* accepted them, and none after it has ended (TaskQueue.tla).             *)
Promise == INSTANCE TaskQueue WITH queue <- running \o pending,
                                   ran <- ran,
                                   open <- phase # "ended"

ImplementsTaskQueue == Promise!Spec

(* A functor that was queued is executed unless the loop ends first.       *)
QueuedFunctorsRun ==
  \A f \in Functors :
    f \in ToSet(pending) ~> (f \in ToSet(ran) \/ phase = "ended")

(* Once loop() has been entered, quit() makes it return (EventLoop.cc:69). *)
QuitEndsLoop == (quit /\ phase # "constructed") ~> phase = "ended"

(* Every callback returns, epoll_wait returns within kPollTimeMs, and the  *)
(* loop thread, like every thread in the middle of a call, is scheduled.   *)
Fairness == /\ WF_vars(StartLoop)
            /\ WF_vars(LoopStep)
            /\ \A t \in Threads : WF_vars(ThreadWakeup(t))

FairSpec == Spec /\ Fairness
=============================================================================

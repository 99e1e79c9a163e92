-------------------------- MODULE EventLoopThread --------------------------
(***************************************************************************)
(* src/src/EventLoopThread.cc: the thread that owns an EventLoop on its    *)
(* stack, the object that starts it (startLoop) and stops it (the          *)
(* destructor), and the mutex and condition variable between them.  The    *)
(* loop is the one of EventLoop.tla.  Its other users queue functors only  *)
(* between the return of startLoop and the destructor, as TcpServer does.  *)
(* No callback in the repository quits an I/O loop, so LoopQuit is not a   *)
(* step here.                                                              *)
(***************************************************************************)
EXTENDS EventLoop

CONSTANT Owner   \* the thread that constructs and destroys the object

ASSUME OwnerAssumption == Owner \in Threads

VARIABLES
  owner,    \* where Owner is in the object's life
  thread,   \* where the loop thread is in threadFunc
  loopPtr   \* loop_ is not null

threadVars == <<owner, thread, loopPtr>>
allVars == <<vars, threadVars>>

Owners == {"new", "starting", "waiting", "running", "quitting", "joining",
           "destroyed"}

(* loop_ is null but while the EventLoop on the thread's stack is ready    *)
(* for others to use: it never dangles (EventLoopThread.cc:36-52).         *)
LoopPtrValid == loopPtr = (thread = "published")

ThreadTypeOK ==
  /\ ControlOK
  /\ owner \in Owners
  /\ thread \in {"unborn", "callback", "published", "cleared", "finished"}

ThreadInit == Init /\ owner = "new" /\ thread = "unborn" /\ loopPtr = FALSE

-----------------------------------------------------------------------------
(* Owner.                                                                  *)

(* startLoop: Thread::start returns once the new thread runs. *)
StartThread ==
  /\ owner = "new"
  /\ owner' = "starting"
  /\ thread' = "callback"
  /\ UNCHANGED <<vars, loopPtr>>

(* startLoop: loop_ is still null under the lock; cond_.wait releases it. *)
WaitForLoop ==
  /\ owner = "starting"
  /\ ~loopPtr
  /\ owner' = "waiting"
  /\ UNCHANGED <<vars, thread, loopPtr>>

(* Mutant: startLoop returns without waiting for loop_. *)
StartLoopReturnsEarly ==
  /\ owner = "starting"
  /\ owner' = "running"
  /\ UNCHANGED <<vars, thread, loopPtr>>

(* startLoop: loop_ is not null under the lock. *)
StartLoopReturns ==
  /\ owner = "starting"
  /\ loopPtr
  /\ owner' = "running"
  /\ UNCHANGED <<vars, thread, loopPtr>>

(* ~EventLoopThread: loop_ is not null, so quit() is called: its store to  *)
(* quit_.  Its wakeup() is ThreadWakeup(Owner).                            *)
DestructorQuits ==
  /\ owner = "running"
  /\ \A t \in Threads : pc[t] = "idle"
  /\ loopPtr
  /\ owner' = "quitting"
  /\ ThreadQuit(Owner)
  /\ UNCHANGED <<thread, loopPtr>>

QuitReturns ==
  /\ owner = "quitting"
  /\ owner' = "joining"
  /\ ThreadWakeup(Owner)
  /\ UNCHANGED <<thread, loopPtr>>

(* thread_.join() returns. *)
Joined ==
  /\ owner = "joining"
  /\ thread = "finished"
  /\ owner' = "destroyed"
  /\ UNCHANGED <<vars, thread, loopPtr>>

(* ~EventLoopThread with a null loop_: nothing is joined, and ~Thread      *)
(* detaches the thread if it was started.                                  *)
DestructorSkipsJoin ==
  /\ owner \in {"new", "running"}
  /\ ~loopPtr
  /\ owner' = "destroyed"
  /\ UNCHANGED <<vars, thread, loopPtr>>

-----------------------------------------------------------------------------
(* The loop thread: threadFunc.                                            *)

(* Mutant: loop_ is set and nobody is notified. *)
PublishSilently ==
  /\ thread = "callback"
  /\ thread' = "published"
  /\ loopPtr' = TRUE
  /\ UNCHANGED <<vars, owner>>

(* loop_ = &loop and notify_one, under the lock. *)
Publish ==
  /\ thread = "callback"
  /\ thread' = "published"
  /\ loopPtr' = TRUE
  /\ owner' = IF owner = "waiting" THEN "starting" ELSE owner
  /\ UNCHANGED vars

RunLoop ==
  /\ thread = "published"
  /\ StartLoop \/ LoopStep
  /\ UNCHANGED threadVars

(* loop() has returned: loop_ is reset under the lock. *)
ClearLoop ==
  /\ thread = "published"
  /\ phase = "ended"
  /\ thread' = "cleared"
  /\ loopPtr' = FALSE
  /\ UNCHANGED <<vars, owner>>

(* The EventLoop on the stack is destroyed and the thread ends. *)
ThreadEnds ==
  /\ thread = "cleared"
  /\ thread' = "finished"
  /\ UNCHANGED <<vars, owner, loopPtr>>

-----------------------------------------------------------------------------
(* The users of the loop.                                                  *)

(* callback_(&loop), and the callbacks loop() runs. *)
CallbackQueues ==
  /\ thread = "callback" \/ current # "none"
  /\ \E f \in Functors : LoopQueue(f) \/ LoopRunInline(f)
  /\ UNCHANGED threadVars

UserQueues ==
  /\ owner = "running"
  /\ \E t \in Threads, f \in Functors : ThreadQueue(t, f)
  /\ UNCHANGED threadVars

UserWakes ==
  /\ owner = "running"
  /\ \E t \in Threads : ThreadWakeup(t)
  /\ UNCHANGED threadVars

OwnerStep == \/ StartThread \/ WaitForLoop \/ StartLoopReturns \/ DestructorQuits
             \/ QuitReturns \/ Joined \/ DestructorSkipsJoin

LoopThreadStep == Publish \/ RunLoop \/ ClearLoop \/ ThreadEnds

ThreadNext == OwnerStep \/ LoopThreadStep \/ CallbackQueues \/ UserQueues \/ UserWakes

(* Threads are scheduled; join and wait end when what they wait for comes.  *)
(* Nothing obliges the owner to destroy the object.                         *)
ThreadFairness ==
  /\ WF_allVars(LoopThreadStep)
  /\ WF_allVars(WaitForLoop \/ StartLoopReturns \/ QuitReturns \/ Joined)
  /\ WF_allVars(UserWakes)

ThreadSpec == ThreadInit /\ [][ThreadNext]_allVars /\ ThreadFairness

-----------------------------------------------------------------------------
(* Properties.                                                             *)

(* The object, with the mutex and the condition variable the loop thread   *)
(* uses, goes away only when the loop thread no longer uses them: a        *)
(* started thread has been joined (EventLoopThread.cc:14-20 and 36-52).    *)
DestroyedAfterThread == owner = "destroyed" => thread \in {"unborn", "finished"}

(* Neither thread is left with a pointer to what the other has destroyed:  *)
(* the EventLoop on the loop thread's stack, the object of the owner.      *)
NothingDangles == ThreadTypeOK /\ LoopPtrValid /\ DestroyedAfterThread

(* startLoop returns: the notification cannot fall between the test of     *)
(* loop_ and the wait (EventLoopThread.cc:25-32 and 42-46).                *)
StartLoopTerminates == (owner = "starting") ~> (owner = "running")

(* A destructor whose quit() comes after loop() was entered returns.       *)
DestructorTerminates ==
  (owner \in {"quitting", "joining"} /\ quit /\ phase # "constructed")
     ~> (owner = "destroyed")

(* The owner's two waits, for loop_ and for the thread, both end.          *)
OwnersWaitsEnd == StartLoopTerminates /\ DestructorTerminates

(* EventLoop.cc:83: quit() off the loop thread wakes the loop "so that it  *)
(* exits at once".                                                         *)
QuitIsHeard == (owner = "joining") ~> (owner = "destroyed")
=============================================================================

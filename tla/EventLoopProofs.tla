-------------------------- MODULE EventLoopProofs --------------------------
(***************************************************************************)
(* Proofs about EventLoop.tla and EventLoopThread.tla, for every set of    *)
(* functors and threads.                                                   *)
(***************************************************************************)
EXTENDS EventLoopThread, SequenceTheorems, TLAPS

LEMMA TypeInit == Init => TypeOK
<1>1. Init => pending \in Seq(Functors) /\ running \in Seq(Functors) /\ ran \in Seq(Functors)
  BY DEF Init
<1>2. Init => pc \in [Threads -> Functors \cup {"idle", "quit"}]
  BY DEF Init
<1>3. Init => source \in [Functors -> {"unused", "thread", "handler", "functor"}]
  BY DEF Init
<1>4. Init => /\ phase \in Phases /\ quit \in BOOLEAN /\ calling \in BOOLEAN
              /\ current \in Functors \cup {"none", "io"} /\ wakeupFd \in BOOLEAN
              /\ active \subseteq {"wakeup", "io"}
  BY DEF Init, Phases
<1>5. QED
  BY <1>1, <1>2, <1>3, <1>4 DEF TypeOK

LEMMA TypeStep ==
  ASSUME TypeOK, [Next]_vars
  PROVE  TypeOK'
<1> USE DEF TypeOK, Phases
<1>1. CASE StartLoop
  BY <1>1 DEF StartLoop
<1>2. CASE LoopStep
  <2>1. CASE EnterPoll
    BY <2>1 DEF EnterPoll
  <2>2. CASE LeaveLoop
    BY <2>2 DEF LeaveLoop
  <2>3. CASE Poll
    BY <2>3 DEF Poll, Ready
  <2>4. CASE HandleReading
    BY <2>4 DEF HandleReading
  <2>5. CASE HandleEvent
    BY <2>5 DEF HandleEvent
  <2>6. CASE DoPendingFunctors
    BY <2>6 DEF DoPendingFunctors
  <2>7. CASE SwapFunctors
    BY <2>7 DEF SwapFunctors
  <2>8. CASE CallFunctor
    BY <2>8 DEF CallFunctor
  <2>9. CASE ReturnFromCallback
    BY <2>9 DEF ReturnFromCallback
  <2>10. CASE FunctorsDone
    BY <2>10 DEF FunctorsDone
  <2>11. QED
    BY <1>2, <2>1, <2>2, <2>3, <2>4, <2>5, <2>6, <2>7, <2>8, <2>9, <2>10
       DEF LoopStep
<1>3. CASE LoopUser
  <2>1. CASE LoopQuit
    BY <2>1 DEF LoopQuit
  <2>2. ASSUME NEW f \in Functors, LoopQueue(f)
        PROVE  TypeOK'
    <3>1. pending' \in Seq(Functors)
      BY <2>2 DEF LoopQueue
    <3>2. source' \in [Functors -> {"unused", "thread", "handler", "functor"}]
      BY <2>2 DEF LoopQueue
    <3>3. wakeupFd' \in BOOLEAN
      BY <2>2 DEF LoopQueue
    <3>4. QED
      BY <2>2, <3>1, <3>2, <3>3 DEF LoopQueue
  <2>3. ASSUME NEW f \in Functors, LoopRunInline(f)
        PROVE  TypeOK'
    BY <2>3 DEF LoopRunInline
  <2>4. QED
    BY <1>3, <2>1, <2>2, <2>3 DEF LoopUser
<1>4. ASSUME NEW t \in Threads, ThreadStep(t)
      PROVE  TypeOK'
  <2>1. CASE ThreadQuit(t)
    BY <2>1 DEF ThreadQuit
  <2>2. CASE ThreadWakeup(t)
    BY <2>2 DEF ThreadWakeup
  <2>3. ASSUME NEW f \in Functors, ThreadQueue(t, f)
        PROVE  TypeOK'
    BY <2>3 DEF ThreadQueue
  <2>4. QED
    BY <1>4, <2>1, <2>2, <2>3 DEF ThreadStep
<1>5. CASE UNCHANGED vars
  BY <1>5 DEF vars
<1>6. QED
  BY <1>1, <1>2, <1>3, <1>4, <1>5 DEF Next

(* Every reachable state is well typed. *)
THEOREM TypeCorrect == Spec => []TypeOK
<1>1. TypeOK /\ [Next]_vars => TypeOK'
  BY TypeStep
<1>2. QED
  BY TypeInit, <1>1, PTL DEF Spec

-----------------------------------------------------------------------------
(* NoLostWakeup and NoLostQuit hold in "poll" because of what holds in the *)
(* other phases.  A functor that is not announced and was not queued by a  *)
(* functor implies a readable eventfd, except while the loop is already    *)
(* past its epoll_wait and has still to swap the functors out.             *)

BeforeSwap == phase \in {"events", "swap"}

Announced ==
  ~wakeupFd /\ ~BeforeSwap =>
    \A i \in 1..Len(pending) :
      Unannounced(pending[i]) => source[pending[i]] = "functor"

(* What is queued has been submitted. *)
Submitted == \A i \in 1..Len(pending) : source[pending[i]] # "unused"

WakeInv == TypeOK /\ CallbackPhases /\ Submitted /\ Announced /\ NoLostQuit

LEMMA CallbackPhasesStep ==
  ASSUME TypeOK, CallbackPhases, [Next]_vars
  PROVE  CallbackPhases'
<1> USE DEF CallbackPhases
<1>1. CASE StartLoop
  BY <1>1 DEF StartLoop
<1>2. CASE LoopStep
  <2>1. CASE EnterPoll \/ LeaveLoop \/ Poll
    BY <2>1 DEF EnterPoll, LeaveLoop, Poll
  <2>2. CASE HandleReading \/ HandleEvent
    BY <2>2 DEF HandleReading, HandleEvent
  <2>3. CASE DoPendingFunctors \/ SwapFunctors
    BY <2>3 DEF DoPendingFunctors, SwapFunctors
  <2>4. CASE CallFunctor
    BY <2>4 DEF CallFunctor
  <2>5. CASE ReturnFromCallback
    BY <2>5 DEF ReturnFromCallback
  <2>6. CASE FunctorsDone
    BY <2>6 DEF FunctorsDone
  <2>7. QED
    BY <1>2, <2>1, <2>2, <2>3, <2>4, <2>5, <2>6 DEF LoopStep
<1>3. CASE LoopUser
  <2>1. phase' = phase /\ calling' = calling /\ current' = current
    BY <1>3 DEF LoopUser, LoopQuit, LoopQueue, LoopRunInline
  <2>2. QED
    BY <2>1
<1>4. ASSUME NEW t \in Threads, ThreadStep(t)
      PROVE  CallbackPhases'
  <2>1. phase' = phase /\ calling' = calling /\ current' = current
    BY <1>4 DEF ThreadStep, ThreadQuit, ThreadWakeup, ThreadQueue
  <2>2. QED
    BY <2>1
<1>5. CASE UNCHANGED vars
  BY <1>5 DEF vars
<1>6. QED
  BY <1>1, <1>2, <1>3, <1>4, <1>5 DEF Next

LEMMA SubmittedStep ==
  ASSUME TypeOK, Submitted, [Next]_vars
  PROVE  Submitted'
<1> USE DEF Submitted, TypeOK
<1>1. CASE UNCHANGED <<pending, source>>
  BY <1>1
<1>2. CASE SwapFunctors
  BY <1>2 DEF SwapFunctors
<1>3. ASSUME NEW f \in Functors, NEW by \in {"thread", "handler", "functor"},
             pending' = pending \/ pending' = Append(pending, f),
             source' = [source EXCEPT ![f] = by]
      PROVE  Submitted'
  <2>1. CASE pending' = pending
    BY <2>1, <1>3
  <2>2. CASE pending' = Append(pending, f)
    BY <2>2, <1>3
  <2>3. QED
    BY <1>3, <2>1, <2>2
<1>4. ASSUME NEW f \in Functors, LoopQueue(f) \/ LoopRunInline(f)
      PROVE  Submitted'
  BY <1>3, <1>4 DEF LoopQueue, LoopRunInline
<1>5. ASSUME NEW f \in Functors, NEW t \in Threads, ThreadQueue(t, f)
      PROVE  Submitted'
  BY <1>3, <1>5 DEF ThreadQueue
<1>6. QED
  <2>1. CASE StartLoop \/ EnterPoll \/ LeaveLoop \/ Poll \/ HandleReading \/ HandleEvent
    BY <1>1, <2>1 DEF StartLoop, EnterPoll, LeaveLoop, Poll, HandleReading, HandleEvent
  <2>2. CASE DoPendingFunctors \/ CallFunctor \/ ReturnFromCallback \/ FunctorsDone
    BY <1>1, <2>2 DEF DoPendingFunctors, CallFunctor, ReturnFromCallback, FunctorsDone
  <2>3. CASE LoopUser
    BY <1>1, <1>4, <2>3 DEF LoopUser, LoopQuit
  <2>4. ASSUME NEW t \in Threads, ThreadStep(t)
        PROVE  Submitted'
    BY <1>1, <1>5, <2>4 DEF ThreadStep, ThreadQuit, ThreadWakeup
  <2>5. CASE UNCHANGED vars
    BY <1>1, <2>5 DEF vars
  <2>6. QED
    BY <1>2, <2>1, <2>2, <2>3, <2>4, <2>5 DEF Next, LoopStep

LEMMA AnnouncedStep ==
  ASSUME TypeOK, CallbackPhases, Submitted, Announced, [Next]_vars
  PROVE  Announced'
<1> USE DEF Announced, BeforeSwap, Unannounced
<1>1. CASE /\ UNCHANGED <<pending, source, pc, wakeupFd>>
           /\ phase' = phase \/ ~BeforeSwap
  BY <1>1
<1>2. CASE phase' \in {"events", "swap"} \/ wakeupFd' = TRUE
  BY <1>2
<1>3. CASE SwapFunctors
  BY <1>3 DEF SwapFunctors
<1>4. ASSUME NEW f \in Functors, LoopQueue(f)
      PROVE  Announced'
  <2>1. CASE ~calling
    BY <1>2, <1>4, <2>1 DEF LoopQueue
  <2>2. CASE calling
    <3>1. /\ pending' = Append(pending, f)
          /\ source' = [source EXCEPT ![f] = "functor"]
          /\ UNCHANGED <<pc, wakeupFd, phase>>
      BY <1>4, <2>2 DEF LoopQueue
    <3>2. QED
      BY <3>1 DEF TypeOK
  <2>3. QED
    BY <2>1, <2>2
<1>5. ASSUME NEW f \in Functors, LoopRunInline(f)
      PROVE  Announced'
  <2>1. \A i \in 1..Len(pending) : pending[i] # f /\ source'[pending[i]] = source[pending[i]]
    BY <1>5 DEF LoopRunInline, Submitted, TypeOK
  <2>2. UNCHANGED <<pending, pc, wakeupFd, phase>>
    BY <1>5 DEF LoopRunInline
  <2>3. QED
    BY <2>1, <2>2
<1>6. ASSUME NEW t \in Threads, NEW f \in Functors, ThreadQueue(t, f)
      PROVE  Announced'
  <2>1. /\ pending' = Append(pending, f)
        /\ source' = [source EXCEPT ![f] = "thread"]
        /\ pc' = [pc EXCEPT ![t] = f] /\ pc[t] = "idle"
        /\ UNCHANGED <<wakeupFd, phase>>
    BY <1>6 DEF ThreadQueue
  <2>2. ~(\A u \in Threads : pc'[u] # f)
    BY <2>1 DEF TypeOK
  <2>3. ASSUME NEW x \in Functors, x # f, \A u \in Threads : pc'[u] # x
        PROVE  (\A u \in Threads : pc[u] # x) /\ source'[x] = source[x]
    BY <2>1, <2>3, FunctorsAssumption DEF TypeOK, Reserved
  <2>4. SUFFICES ASSUME ~wakeupFd, ~BeforeSwap, NEW i \in 1..Len(pending'),
                        \A u \in Threads : pc'[u] # pending'[i]
                 PROVE  source'[pending'[i]] = "functor"
    BY <2>1
  <2>5. pending'[i] # f /\ pending'[i] \in Functors
    BY <2>1, <2>2, <2>4 DEF TypeOK
  <2>6. i \in 1..Len(pending) /\ pending'[i] = pending[i]
    BY <2>1, <2>5 DEF TypeOK
  <2>7. QED
    BY <2>3, <2>4, <2>5, <2>6
<1>7. ASSUME NEW t \in Threads, ThreadQuit(t)
      PROVE  Announced'
  <2>1. ASSUME NEW x \in Functors, \A u \in Threads : pc'[u] # x
        PROVE  \A u \in Threads : pc[u] # x
    BY <1>7, <2>1, FunctorsAssumption DEF ThreadQuit, TypeOK, Reserved
  <2>2. \A i \in 1..Len(pending) : pending[i] \in Functors
    BY DEF TypeOK
  <2>3. QED
    BY <1>7, <2>1, <2>2 DEF ThreadQuit
<1>8. QED
  <2>1. CASE StartLoop \/ EnterPoll \/ LeaveLoop
    BY <1>1, <2>1 DEF StartLoop, EnterPoll, LeaveLoop
  <2>2. CASE Poll \/ HandleReading \/ HandleEvent \/ DoPendingFunctors
    BY <1>2, <2>2 DEF Poll, HandleReading, HandleEvent, DoPendingFunctors
  <2>3. CASE CallFunctor \/ ReturnFromCallback \/ FunctorsDone
    BY <1>1, <2>3 DEF CallFunctor, ReturnFromCallback, FunctorsDone
  <2>4. CASE LoopUser
    BY <1>1, <1>4, <1>5, <2>4 DEF LoopUser, LoopQuit
  <2>5. ASSUME NEW t \in Threads, ThreadStep(t)
        PROVE  Announced'
    BY <1>2, <1>6, <1>7, <2>5 DEF ThreadStep, ThreadWakeup
  <2>6. CASE UNCHANGED vars
    BY <1>1, <2>6 DEF vars
  <2>7. QED
    BY <1>3, <2>1, <2>2, <2>3, <2>4, <2>5, <2>6 DEF Next, LoopStep

LEMMA NoLostQuitStep ==
  ASSUME TypeOK, CallbackPhases, NoLostQuit, [Next]_vars
  PROVE  NoLostQuit'
<1> USE DEF NoLostQuit, Unannounced
<1>1. CASE phase' # "poll" \/ wakeupFd' = TRUE \/ quit' = FALSE
  BY <1>1
<1>2. CASE UNCHANGED <<phase, quit, wakeupFd, pc>>
  BY <1>2
<1>3. CASE LoopUser
  <2>1. phase # "poll" /\ phase' = phase
    BY <1>3 DEF LoopUser, LoopQuit, LoopQueue, LoopRunInline, InLoopCode, CallbackPhases
  <2>2. QED
    BY <1>1, <2>1
<1>4. ASSUME NEW t \in Threads, ThreadStep(t)
      PROVE  NoLostQuit'
  <2>1. CASE ThreadQuit(t)
    BY <2>1 DEF ThreadQuit, TypeOK
  <2>2. CASE ThreadWakeup(t)
    BY <1>1, <2>2 DEF ThreadWakeup
  <2>3. ASSUME NEW f \in Functors, ThreadQueue(t, f)
        PROVE  NoLostQuit'
    BY <2>3 DEF ThreadQueue, TypeOK
  <2>4. QED
    BY <1>4, <2>1, <2>2, <2>3 DEF ThreadStep
<1>5. QED
  <2>1. CASE StartLoop \/ EnterPoll \/ LeaveLoop \/ Poll
    BY <1>1, <2>1 DEF StartLoop, EnterPoll, LeaveLoop, Poll, NoLostQuit
  <2>2. CASE HandleReading \/ HandleEvent \/ DoPendingFunctors \/ SwapFunctors
    BY <1>1, <2>2 DEF HandleReading, HandleEvent, DoPendingFunctors, SwapFunctors
  <2>3. CASE CallFunctor \/ ReturnFromCallback \/ FunctorsDone
    BY <1>1, <1>2, <2>3 DEF CallFunctor, ReturnFromCallback, FunctorsDone
  <2>4. CASE UNCHANGED vars
    BY <1>2, <2>4 DEF vars
  <2>5. QED
    BY <1>3, <1>4, <2>1, <2>2, <2>3, <2>4 DEF Next, LoopStep

LEMMA Inductive == Spec => []WakeInv
<1>1. Init => WakeInv
  <2>1. Init => CallbackPhases /\ NoLostQuit
    BY DEF Init, CallbackPhases, NoLostQuit
  <2>2. Init => Submitted /\ Announced
    BY DEF Init, Submitted, Announced
  <2>3. QED
    BY TypeInit, <2>1, <2>2 DEF WakeInv
<1>2. WakeInv /\ [Next]_vars => WakeInv'
  BY TypeStep, CallbackPhasesStep, SubmittedStep, AnnouncedStep, NoLostQuitStep
     DEF WakeInv
<1>3. QED
  BY <1>1, <1>2, PTL DEF Spec

(* The loop thread's control state is consistent with the flag             *)
(* callingPendingFunctors_ that queueInLoop reads (EventLoop.cc:103).      *)
THEOREM ControlCorrect == Spec => []ControlOK
<1>1. WakeInv => ControlOK
  BY DEF WakeInv, ControlOK
<1>2. QED
  BY Inductive, <1>1, PTL

(* A loop that blocks has no functor to run but those queued by a functor: *)
(* the wakeup() of every other submitter is either pending or readable     *)
(* (EventLoop.cc:97-115).                                                  *)
THEOREM WakeupsAreNotLost == Spec => []NoLostWakeup
<1>1. WakeInv => NoLostWakeup
  BY DEF WakeInv, Announced, NoLostWakeup, BeforeSwap
<1>2. QED
  BY Inductive, <1>1, PTL

(* A loop that blocks has not missed a quit() (EventLoop.cc:64-86).        *)
THEOREM QuitsAreNotLost == Spec => []NoLostQuit
<1>1. WakeInv => NoLostQuit
  BY DEF WakeInv
<1>2. QED
  BY Inductive, <1>1, PTL

-----------------------------------------------------------------------------
(* The loop implements TaskQueue.tla.  What the abstract queue holds is    *)
(* what the loop has taken and not called, then what it has not taken.  A  *)
(* functor is accepted once because one that nobody has used is in no      *)
(* list, and taking the list loses nothing because the list being called   *)
(* is empty outside doPendingFunctors.                                     *)

NewOnesAreNowhere ==
  \A f \in Functors :
    source[f] = "unused" => f \notin ToSet(running) \cup ToSet(pending) \cup ToSet(ran)

CalledInFunctorsOnly == phase # "functors" => running = <<>>

OrderInv == TypeOK /\ NewOnesAreNowhere /\ CalledInFunctorsOnly

(* The elements of the sequences that the steps build. *)
LEMMA ToSetOfSequences ==
  ASSUME NEW S, NEW s \in Seq(S)
  PROVE  /\ \A e \in S : ToSet(Append(s, e)) = ToSet(s) \cup {e}
         /\ \A t \in Seq(S) : ToSet(s \o t) = ToSet(s) \cup ToSet(t)
         /\ s # <<>> => Head(s) \in ToSet(s) /\ ToSet(Tail(s)) \subseteq ToSet(s)
         /\ ToSet(<<>>) = {}
<1> USE DEF ToSet
<1>2. ASSUME NEW t \in Seq(S)
      PROVE  ToSet(s \o t) = ToSet(s) \cup ToSet(t)
  <2>1. /\ Len(s \o t) = Len(s) + Len(t)
        /\ Len(s) \in Nat /\ Len(t) \in Nat
        /\ DOMAIN s = 1..Len(s) /\ DOMAIN t = 1..Len(t)
        /\ DOMAIN (s \o t) = 1..(Len(s) + Len(t))
    OBVIOUS
  <2>2. \A i \in 1..Len(s) : (s \o t)[i] = s[i]
    OBVIOUS
  <2>3. \A i \in 1..Len(t) : (s \o t)[Len(s) + i] = t[i]
    OBVIOUS
  <2>4. \A i \in 1..(Len(s) + Len(t)) :
          i \in 1..Len(s) \/ \E j \in 1..Len(t) : i = Len(s) + j
    <3> TAKE i \in 1..(Len(s) + Len(t))
    <3>1. CASE i <= Len(s)
      BY <2>1, <3>1
    <3>2. CASE i > Len(s)
      <4>1. i - Len(s) \in 1..Len(t) /\ i = Len(s) + (i - Len(s))
        BY <2>1, <3>2
      <4>2. QED
        BY <4>1
    <3>3. QED
      BY <2>1, <3>1, <3>2
  <2>5. \A i \in 1..Len(s) : i \in 1..(Len(s) + Len(t))
    BY <2>1
  <2>6. \A i \in 1..Len(t) : Len(s) + i \in 1..(Len(s) + Len(t))
    BY <2>1
  <2>7. ToSet(s \o t) \subseteq ToSet(s) \cup ToSet(t)
    BY <2>1, <2>2, <2>3, <2>4, SMTT(30)
  <2>8. ToSet(s) \cup ToSet(t) \subseteq ToSet(s \o t)
    BY <2>1, <2>2, <2>3, <2>5, <2>6
  <2>9. QED
    BY <2>7, <2>8
<1>1. ASSUME NEW e \in S
      PROVE  ToSet(Append(s, e)) = ToSet(s) \cup {e}
  <2>1. <<e>> \in Seq(S) /\ ToSet(<<e>>) = {e}
    OBVIOUS
  <2>2. Append(s, e) = s \o <<e>>
    BY AppendIsConcat
  <2>3. QED
    BY <1>2, <2>1, <2>2
<1>3. s # <<>> => Head(s) \in ToSet(s) /\ ToSet(Tail(s)) \subseteq ToSet(s)
  OBVIOUS
<1>4. ToSet(<<>>) = {}
  OBVIOUS
<1>5. QED
  BY <1>1, <1>2, <1>3, <1>4

LEMMA NewOnesAreNowhereStep ==
  ASSUME TypeOK, NewOnesAreNowhere, [Next]_vars
  PROVE  NewOnesAreNowhere'
<1>1. ASSUME NEW f \in Functors,
             \A g \in Functors : source'[g] = "unused" => source[g] = "unused" /\ g # f,
             ToSet(running)' \cup ToSet(pending)' \cup ToSet(ran)'
               \subseteq ToSet(running) \cup ToSet(pending) \cup ToSet(ran) \cup {f}
      PROVE  NewOnesAreNowhere'
  BY <1>1 DEF NewOnesAreNowhere
<1>2. ASSUME source' = source,
             ToSet(running)' \cup ToSet(pending)' \cup ToSet(ran)'
               \subseteq ToSet(running) \cup ToSet(pending) \cup ToSet(ran)
      PROVE  NewOnesAreNowhere'
  BY <1>2 DEF NewOnesAreNowhere
<1>3. ASSUME UNCHANGED <<running, pending, ran, source>>
      PROVE  NewOnesAreNowhere'
  BY <1>3 DEF NewOnesAreNowhere
<1>4. ASSUME NEW f \in Functors, source[f] = "unused",
             NEW by \in {"thread", "handler", "functor"},
             source' = [source EXCEPT ![f] = by], running' = running,
             \/ pending' = Append(pending, f) /\ ran' = ran
             \/ ran' = Append(ran, f) /\ pending' = pending
      PROVE  NewOnesAreNowhere'
  <2>1. \A g \in Functors : source'[g] = "unused" => source[g] = "unused" /\ g # f
    BY <1>4 DEF TypeOK
  <2>2. /\ ToSet(Append(pending, f)) = ToSet(pending) \cup {f}
        /\ ToSet(Append(ran, f)) = ToSet(ran) \cup {f}
    BY ToSetOfSequences DEF TypeOK
  <2>3. QED
    BY <1>1, <1>4, <2>1, <2>2
<1>5. ASSUME NEW f \in Functors, LoopQueue(f) \/ LoopRunInline(f)
      PROVE  NewOnesAreNowhere'
  BY <1>4, <1>5 DEF LoopQueue, LoopRunInline
<1>6. ASSUME NEW f \in Functors, NEW t \in Threads, ThreadQueue(t, f)
      PROVE  NewOnesAreNowhere'
  BY <1>4, <1>6 DEF ThreadQueue
<1>7. CASE SwapFunctors
  <2>1. ToSet(pending)' = {} /\ ToSet(running)' = ToSet(pending) /\ ran' = ran
    BY <1>7, ToSetOfSequences DEF SwapFunctors, TypeOK
  <2>2. QED
    BY <1>2, <1>7, <2>1 DEF SwapFunctors
<1>8. CASE CallFunctor
  <2>1. /\ ToSet(Tail(running)) \subseteq ToSet(running)
        /\ ToSet(Append(ran, Head(running))) \subseteq ToSet(ran) \cup ToSet(running)
    <3>1. Head(running) \in Functors /\ running # <<>>
      BY <1>8 DEF CallFunctor, TypeOK
    <3>2. /\ Head(running) \in ToSet(running)
          /\ ToSet(Tail(running)) \subseteq ToSet(running)
      BY <3>1, ToSetOfSequences DEF TypeOK
    <3>3. ToSet(Append(ran, Head(running))) = ToSet(ran) \cup {Head(running)}
      BY <3>1, ToSetOfSequences DEF TypeOK
    <3>4. QED
      BY <3>2, <3>3
  <2>2. QED
    BY <1>2, <1>8, <2>1 DEF CallFunctor
<1>9. QED
  <2>1. CASE StartLoop \/ EnterPoll \/ LeaveLoop \/ Poll \/ HandleReading \/ HandleEvent
    BY <1>3, <2>1 DEF StartLoop, EnterPoll, LeaveLoop, Poll, HandleReading, HandleEvent
  <2>2. CASE DoPendingFunctors \/ ReturnFromCallback \/ FunctorsDone
    BY <1>3, <2>2 DEF DoPendingFunctors, ReturnFromCallback, FunctorsDone
  <2>3. CASE LoopUser
    BY <1>3, <1>5, <2>3 DEF LoopUser, LoopQuit
  <2>4. ASSUME NEW t \in Threads, ThreadStep(t)
        PROVE  NewOnesAreNowhere'
    BY <1>3, <1>6, <2>4 DEF ThreadStep, ThreadQuit, ThreadWakeup
  <2>5. CASE UNCHANGED vars
    BY <1>3, <2>5 DEF vars
  <2>6. QED
    BY <1>7, <1>8, <2>1, <2>2, <2>3, <2>4, <2>5 DEF Next, LoopStep

LEMMA CalledInFunctorsOnlyStep ==
  ASSUME CalledInFunctorsOnly, [Next]_vars
  PROVE  CalledInFunctorsOnly'
<1> USE DEF CalledInFunctorsOnly
<1>1. CASE StartLoop \/ EnterPoll \/ LeaveLoop \/ Poll \/ HandleReading \/ HandleEvent
  BY <1>1 DEF StartLoop, EnterPoll, LeaveLoop, Poll, HandleReading, HandleEvent
<1>2. CASE DoPendingFunctors \/ SwapFunctors \/ CallFunctor \/ ReturnFromCallback \/ FunctorsDone
  BY <1>2 DEF DoPendingFunctors, SwapFunctors, CallFunctor, ReturnFromCallback, FunctorsDone
<1>3. CASE LoopUser
  BY <1>3 DEF LoopUser, LoopQuit, LoopQueue, LoopRunInline
<1>4. ASSUME NEW t \in Threads, ThreadStep(t)
      PROVE  CalledInFunctorsOnly'
  BY <1>4 DEF ThreadStep, ThreadQuit, ThreadWakeup, ThreadQueue
<1>5. CASE UNCHANGED vars
  BY <1>5 DEF vars
<1>6. QED
  BY <1>1, <1>2, <1>3, <1>4, <1>5 DEF Next, LoopStep

LEMMA Ordered == Spec => []OrderInv
<1>1. Init => OrderInv
  <2>1. Init => NewOnesAreNowhere /\ CalledInFunctorsOnly
    BY DEF Init, NewOnesAreNowhere, CalledInFunctorsOnly, ToSet
  <2>2. QED
    BY TypeInit, <2>1 DEF OrderInv
<1>2. OrderInv /\ [Next]_vars => OrderInv'
  BY TypeStep, NewOnesAreNowhereStep, CalledInFunctorsOnlyStep DEF OrderInv
<1>3. QED
  BY <1>1, <1>2, PTL DEF Spec

(* A functor nobody has used is one the abstract queue does not know. *)
LEMMA NewOnesAreUnknown ==
  ASSUME OrderInv, NEW f \in Functors, source[f] = "unused"
  PROVE  Promise!Unknown(f)
<1>1. ToSet(running \o pending) = ToSet(running) \cup ToSet(pending)
  BY ToSetOfSequences DEF OrderInv, TypeOK
<1>2. QED
  BY <1>1 DEF OrderInv, NewOnesAreNowhere, Promise!Unknown, Promise!ToSet, ToSet

LEMMA EveryStepImplements ==
  ASSUME OrderInv, [Next]_vars
  PROVE  [Promise!Next]_(Promise!tqVars)
<1> USE DEF OrderInv, Promise!tqVars
<1>1. ASSUME UNCHANGED <<running, pending, ran>>,
             (phase' # "ended") = (phase # "ended")
      PROVE  UNCHANGED Promise!tqVars
  BY <1>1
<1>2. CASE StartLoop \/ EnterPoll \/ Poll \/ HandleReading \/ HandleEvent
  BY <1>1, <1>2 DEF StartLoop, EnterPoll, Poll, HandleReading, HandleEvent
<1>3. CASE DoPendingFunctors \/ ReturnFromCallback \/ FunctorsDone
  BY <1>1, <1>3 DEF DoPendingFunctors, ReturnFromCallback, FunctorsDone
<1>4. CASE LeaveLoop
  BY <1>4 DEF LeaveLoop, Promise!Next, Promise!Close
<1>5. CASE SwapFunctors
  <2>1. running \o pending = pending
    BY <1>5, ConcatEmptySeq DEF SwapFunctors, CalledInFunctorsOnly, TypeOK
  <2>2. (running \o pending)' = pending
    BY <1>5, ConcatEmptySeq DEF SwapFunctors, TypeOK
  <2>3. QED
    BY <1>5, <2>1, <2>2 DEF SwapFunctors
<1>6. CASE CallFunctor
  <2>1. running # <<>> /\ running \in Seq(Functors) /\ pending \in Seq(Functors)
    BY <1>6 DEF CallFunctor, TypeOK
  <2>2. /\ running \o pending # <<>>
        /\ Head(running \o pending) = Head(running)
        /\ Tail(running \o pending) = Tail(running) \o pending
    BY <2>1
  <2>3. Promise!Execute
    BY <1>6, <2>2 DEF CallFunctor, Promise!Execute
  <2>4. QED
    BY <2>3 DEF Promise!Next
<1>7. ASSUME NEW f \in Functors, source[f] = "unused",
             pending' = Append(pending, f), UNCHANGED <<running, ran, phase>>
      PROVE  Promise!Next
  <2>1. running \o Append(pending, f) = Append(running \o pending, f)
    <3>1. /\ <<f>> \in Seq(Functors) /\ running \in Seq(Functors)
          /\ pending \in Seq(Functors) /\ running \o pending \in Seq(Functors)
      BY DEF TypeOK
    <3>2. running \o (pending \o <<f>>) = (running \o pending) \o <<f>>
      BY <3>1, ConcatAssociative
    <3>3. QED
      BY <3>1, <3>2, AppendIsConcat
  <2>2. Promise!Accept(f)
    BY <1>7, <2>1, NewOnesAreUnknown DEF Promise!Accept
  <2>3. QED
    BY <2>2 DEF Promise!Next
<1>8. ASSUME NEW f \in Functors, LoopRunInline(f)
      PROVE  Promise!Next
  <2>1. Promise!ExecuteInline(f)
    BY <1>8, NewOnesAreUnknown DEF LoopRunInline, Promise!ExecuteInline
  <2>2. QED
    BY <2>1 DEF Promise!Next
<1>9. CASE LoopUser
  BY <1>1, <1>7, <1>8, <1>9 DEF LoopUser, LoopQuit, LoopQueue
<1>10. ASSUME NEW t \in Threads, ThreadStep(t)
       PROVE  [Promise!Next]_(Promise!tqVars)
  BY <1>1, <1>7, <1>10 DEF ThreadStep, ThreadQuit, ThreadWakeup, ThreadQueue
<1>11. CASE UNCHANGED vars
  BY <1>1, <1>11 DEF vars
<1>12. QED
  BY <1>2, <1>3, <1>4, <1>5, <1>6, <1>9, <1>10, <1>11 DEF Next, LoopStep

(* Functors are executed once each, in the order they were accepted, and   *)
(* none that was queued is executed after the loop has ended               *)
(* (EventLoop.cc:56-77, 88-115 and 126-137).                               *)
THEOREM LoopImplementsTaskQueue == Spec => ImplementsTaskQueue
<1>1. Init => Promise!Init
  BY DEF Init, Promise!Init
<1>2. OrderInv /\ [Next]_vars => [Promise!Next]_(Promise!tqVars)
  BY EveryStepImplements
<1>3. QED
  BY Ordered, <1>1, <1>2, PTL DEF Spec, ImplementsTaskQueue, Promise!Spec

-----------------------------------------------------------------------------
(* EventLoopThread: its steps are the loop's or leave the loop alone, so   *)
(* what is proved of Spec holds of the loop that it starts and stops.  It  *)
(* is destroyed in time because nobody but its destructor quits the loop:  *)
(* until then the loop has not ended, and startLoop returns only once the  *)
(* thread has published it.                                                *)

LEMMA ThreadStepsAreLoopSteps ==
  ASSUME [ThreadNext]_allVars
  PROVE  [Next]_vars
<1>1. CASE StartThread \/ WaitForLoop \/ StartLoopReturns \/ Joined \/ DestructorSkipsJoin
  BY <1>1 DEF StartThread, WaitForLoop, StartLoopReturns, Joined, DestructorSkipsJoin
<1>2. CASE DestructorQuits \/ QuitReturns
  BY <1>2, OwnerAssumption DEF DestructorQuits, QuitReturns, Next, ThreadStep
<1>3. CASE LoopThreadStep
  BY <1>3 DEF LoopThreadStep, Publish, RunLoop, ClearLoop, ThreadEnds, Next
<1>4. CASE CallbackQueues
  BY <1>4 DEF CallbackQueues, Next, LoopUser
<1>5. CASE UserQueues \/ UserWakes
  BY <1>5 DEF UserQueues, UserWakes, Next, ThreadStep
<1>6. CASE UNCHANGED allVars
  BY <1>6 DEF allVars
<1>7. QED
  BY <1>1, <1>2, <1>3, <1>4, <1>5, <1>6 DEF ThreadNext, OwnerStep

(* The loop on an EventLoopThread's stack is the loop of EventLoop.tla     *)
(* (EventLoopThread.cc:22-52).                                             *)
THEOREM ThreadRunsEventLoop == ThreadSpec => Spec
<1>1. ThreadInit => Init
  BY DEF ThreadInit
<1>2. [ThreadNext]_allVars => [Next]_vars
  BY ThreadStepsAreLoopSteps
<1>3. QED
  BY <1>1, <1>2, PTL DEF ThreadSpec, Spec

NotYetDestroyed == owner \in {"new", "starting", "waiting", "running"}

LifeInv ==
  /\ owner = "new" => thread = "unborn"
  /\ owner = "running" => thread = "published"
  /\ NotYetDestroyed => ~quit /\ phase # "ended"
  /\ DestroyedAfterThread

ObjectsOK ==
  /\ owner \in Owners
  /\ thread \in {"unborn", "callback", "published", "cleared", "finished"}
  /\ LoopPtrValid

LEMMA LifeStep ==
  ASSUME ObjectsOK, LifeInv, [ThreadNext]_allVars
  PROVE  ObjectsOK' /\ LifeInv'
<1> USE DEF ObjectsOK, LifeInv, LoopPtrValid, DestroyedAfterThread, NotYetDestroyed, Owners
<1>1. ASSUME NotYetDestroyed' => NotYetDestroyed, UNCHANGED vars
      PROVE  NotYetDestroyed' => ~quit' /\ phase' # "ended"
  BY <1>1 DEF vars
<1>2. ASSUME UNCHANGED <<threadVars, quit, phase>>
      PROVE  ObjectsOK' /\ LifeInv'
  BY <1>2 DEF threadVars
<1>3. CASE StartThread \/ WaitForLoop \/ StartLoopReturns
  BY <1>1, <1>3 DEF StartThread, WaitForLoop, StartLoopReturns
<1>4. CASE DestructorQuits \/ QuitReturns
  BY <1>4 DEF DestructorQuits, QuitReturns
<1>5. CASE Joined \/ DestructorSkipsJoin
  BY <1>1, <1>5 DEF Joined, DestructorSkipsJoin
<1>6. CASE Publish
  BY <1>1, <1>6 DEF Publish
<1>7. CASE RunLoop
  <2>1. CASE LeaveLoop
    BY <1>7, <2>1 DEF RunLoop, LeaveLoop, threadVars
  <2>2. CASE StartLoop
    BY <1>7, <2>2 DEF RunLoop, StartLoop, threadVars
  <2>3. CASE EnterPoll \/ Poll \/ HandleReading \/ HandleEvent \/ DoPendingFunctors
    BY <1>7, <2>3 DEF RunLoop, EnterPoll, Poll, HandleReading, HandleEvent,
                      DoPendingFunctors, threadVars
  <2>4. CASE SwapFunctors \/ CallFunctor \/ ReturnFromCallback \/ FunctorsDone
    BY <1>7, <2>4 DEF RunLoop, SwapFunctors, CallFunctor, ReturnFromCallback,
                      FunctorsDone, threadVars
  <2>5. QED
    BY <1>7, <2>1, <2>2, <2>3, <2>4 DEF RunLoop, LoopStep
<1>8. CASE ClearLoop \/ ThreadEnds
  BY <1>1, <1>8 DEF ClearLoop, ThreadEnds
<1>9. CASE CallbackQueues
  BY <1>2, <1>9 DEF CallbackQueues, LoopQueue, LoopRunInline
<1>10. CASE UserQueues \/ UserWakes
  BY <1>2, <1>10 DEF UserQueues, UserWakes, ThreadQueue, ThreadWakeup
<1>11. CASE UNCHANGED allVars
  BY <1>2, <1>11 DEF allVars, vars
<1>12. QED
  BY <1>3, <1>4, <1>5, <1>6, <1>7, <1>8, <1>9, <1>10, <1>11
     DEF ThreadNext, OwnerStep, LoopThreadStep

(* loop_ is valid or null, and the object outlives the thread that uses    *)
(* its mutex and condition variable (EventLoopThread.cc:14-52).            *)
THEOREM NeitherThreadDangles == ThreadSpec => []NothingDangles
<1>1. ThreadInit => ObjectsOK /\ LifeInv
  BY DEF ThreadInit, Init, ObjectsOK, LifeInv, LoopPtrValid, DestroyedAfterThread,
         NotYetDestroyed, Owners
<1>2. ObjectsOK /\ LifeInv /\ [ThreadNext]_allVars => ObjectsOK' /\ LifeInv'
  BY LifeStep
<1>3. ControlOK /\ ObjectsOK /\ LifeInv => NothingDangles
  BY DEF ObjectsOK, LifeInv, NothingDangles, ThreadTypeOK
<1>4. QED
  BY <1>1, <1>2, <1>3, ControlCorrect, ThreadRunsEventLoop, PTL DEF ThreadSpec
=============================================================================

----------------------------- MODULE TaskQueue -----------------------------
(***************************************************************************)
(* What an EventLoop promises to the threads that hand it functors: a      *)
(* functor is accepted once, the accepted functors are executed in the     *)
(* order in which they were accepted, each exactly once, and none is       *)
(* executed after the loop has ended.  EventLoop.tla implements this.      *)
(***************************************************************************)
EXTENDS Sequences, SequencesExt

CONSTANT Functors

VARIABLES queue,  \* accepted and not yet executed, oldest first
          ran,    \* executed, in order of execution
          open    \* the loop has not ended

tqVars == <<queue, ran, open>>

Unknown(f) == f \notin ToSet(queue) \cup ToSet(ran)

Init == queue = <<>> /\ ran = <<>> /\ open = TRUE

(* queueInLoop, from any thread, at any time. *)
Accept(f) == /\ Unknown(f)
             /\ queue' = Append(queue, f)
             /\ UNCHANGED <<ran, open>>

Execute == /\ open
           /\ queue # <<>>
           /\ ran' = Append(ran, Head(queue))
           /\ queue' = Tail(queue)
           /\ UNCHANGED open

(* runInLoop from the loop's own thread: executed on the spot. *)
ExecuteInline(f) == /\ Unknown(f)
                    /\ ran' = Append(ran, f)
                    /\ UNCHANGED <<queue, open>>

Close == open /\ open' = FALSE /\ UNCHANGED <<queue, ran>>

Next == Execute \/ Close \/ \E f \in Functors : Accept(f) \/ ExecuteInline(f)

Spec == Init /\ [][Next]_tqVars
=============================================================================

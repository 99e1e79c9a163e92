---------------------------- MODULE MCEventLoop ----------------------------
(* An EventLoop, one or two other threads, and functors that any of them,  *)
(* an event handler or another functor may queue.                          *)
EXTENDS EventLoop
=============================================================================

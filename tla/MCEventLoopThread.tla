------------------------- MODULE MCEventLoopThread -------------------------
(* EventLoopThread with its owner and one other user of the loop.          *)
EXTENDS EventLoopThread
=============================================================================

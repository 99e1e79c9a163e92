---------------------------- MODULE MCTokenBucket ----------------------------
(* Two requesters; one update to a bucket that is smaller and slower or    *)
(* larger and faster than the one the constructor makes.                   *)
EXTENDS TokenBucket

MCStart == [capacity |-> 2, rate |-> 500]
MCConfigs == {[capacity |-> 1, rate |-> 125], [capacity |-> 3, rate |-> 1000]}

(* The rate of the gateway's llm_limiter_ (LB_Server.h:199). *)
LlmStart == [capacity |-> 2, rate |-> 2048]
=============================================================================

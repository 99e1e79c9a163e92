---------------------------- MODULE MCTcpServer ----------------------------
(* One connection of a server; two messages, so that one can wait in       *)
(* outputBuffer_ when the other is sent.                                   *)
EXTENDS TcpServer

CONSTANTS m1, m2

MCMessages == <<m1, m2>>
MCOneMessage == <<m1>>
=============================================================================
